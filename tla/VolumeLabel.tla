----------------------------- MODULE VolumeLabel -----------------------------
(***************************************************************************)
(* read_volume_label (fat.cpp): the label of the FAT file system without   *)
(* the blanks at its end becomes the name of the ext4 volume.  The index   *)
(* of the search is unsigned and goes below zero when the label is blank:  *)
(* the search then goes on in the fields before the label, and the length  *)
(* of the copy wraps.                                                      *)
(***************************************************************************)
EXTENDS Integers, Sequences, FiniteSetsExt

CONSTANTS Labels,         \* Contents of volume_label
          VolumeIds,      \* Contents of volume_id, the field before it
          LabelBytes,     \* 11
          IdBytes         \* 4

ASSUME LabelAssumption ==
  /\ LabelBytes \in Nat \ {0} /\ IdBytes \in Nat \ {0}
  /\ \A l \in Labels : l \in Seq(0 .. 255) /\ Len(l) = LabelBytes
  /\ \A v \in VolumeIds : v \in Seq(0 .. 255) /\ Len(v) = IdBytes

VARIABLES ext_boot_signature, volume_id, volume_label,
          index,          \* The index, below zero for the fields before the label
          out,            \* s_volume_name
          label_pc

bootVars == <<ext_boot_signature, volume_id, volume_label>>
labelVars == <<bootVars, index, out, label_pc>>

Blank == 32
NoLabelSignature == 40       \* 0x28: the fields after the signature are missing
LabelSignature == 41         \* 0x29

\* The bytes of the packed boot sector from ext_boot_signature on.
BootByte(k) ==
  CASE k >= 0       -> volume_label[k + 1]
    [] k < -IdBytes -> ext_boot_signature
    [] OTHER        -> volume_id[IdBytes + k + 1]

LabelInit ==
  /\ ext_boot_signature \in {NoLabelSignature, LabelSignature}
  /\ volume_id \in VolumeIds
  /\ volume_label \in Labels
  /\ index = LabelBytes - 1
  /\ out = <<>>
  /\ label_pc = "read"

NoLabel ==
  /\ label_pc = "read"
  /\ ext_boot_signature = NoLabelSignature
  /\ out' = <<>>
  /\ label_pc' = "done"
  /\ UNCHANGED <<bootVars, index>>

SkipBlank ==
  /\ label_pc = "read"
  /\ ext_boot_signature # NoLabelSignature
  /\ BootByte(index) = Blank
  /\ index' = index - 1
  /\ UNCHANGED <<bootVars, out, label_pc>>

\* Mutated: the index is taken for the length.
LengthFromIndex == index

\* The length of the copy.
Length == index + 1

\* The copy.  From an index below -1 its length is nearly 2^64, and what it
\* does is undefined: the model ends there.
CopyLabel ==
  /\ label_pc = "read"
  /\ ext_boot_signature # NoLabelSignature
  /\ BootByte(index) # Blank
  /\ IF index >= -1 THEN out' = SubSeq(volume_label, 1, Length) /\ label_pc' = "done"
                 ELSE label_pc' = "astray" /\ UNCHANGED out
  /\ UNCHANGED <<bootVars, index>>

LabelEnded == label_pc \in {"done", "astray"} /\ UNCHANGED labelVars

LabelNext == NoLabel \/ SkipBlank \/ CopyLabel \/ LabelEnded

LabelSpec == LabelInit /\ [][LabelNext]_labelVars

-----------------------------------------------------------------------------
\* The label up to its last character that is not a blank.
Trimmed == SubSeq(volume_label, 1,
                  Max({0} \cup { k \in 1 .. LabelBytes : volume_label[k] # Blank }))

\* The name of the volume is the label without the blanks at its end, blanks
\* within it kept; a blank label becomes the empty name by the wrap of the
\* index, and only one behind a volume_id that ends in a blank leads astray.
LabelKept ==
  /\ label_pc = "done" => out = IF ext_boot_signature = NoLabelSignature THEN <<>> ELSE Trimmed
  /\ label_pc = "astray" => Trimmed = <<>> /\ volume_id[IdBytes] = Blank
=============================================================================
