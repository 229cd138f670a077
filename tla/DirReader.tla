------------------------------ MODULE DirReader ------------------------------
(***************************************************************************)
(* The reading of one FAT directory (next_dentry, read_lfn and the loop of *)
(* traverse, metadata_reader.cpp): the entries are taken cluster by        *)
(* cluster from the extents of the directory, deleted and dot entries are  *)
(* passed over, and the entries of a long name are collected backwards     *)
(* before the entry they belong to.                                        *)
(*                                                                         *)
(* The table is given as the items a FAT driver wrote; an entry is what    *)
(* the code looks at: whether its first byte marks an end, a deleted or a  *)
(* dot entry, the low five bits of that byte, and whether any of the four  *)
(* low attribute bits is set, as it is in every long name entry, but also  *)
(* in a read-only, hidden or system file and in the volume label.          *)
(***************************************************************************)
EXTENDS ExtentIterator, SequencesExt

CONSTANTS Items,                  \* The items directories are made of
          MaxItems,               \* Bound on the items of one directory
          dentries_per_cluster,
          Extents                 \* Sequences of extents directories may have

VARIABLES items,                  \* The directory, as items
          extents,                \* Its extents
          iterator, current_cluster, cluster_dentry,   \* cluster_read_state
          current_dentry,
          names,                  \* Name entries collected, the first part first
          remaining,              \* read_lfn: the name entries still to read
          children,               \* What was written for each child
          pc, then                \* The step, and the one after next_dentry

readVars == <<iterator, current_cluster, cluster_dentry, current_dentry>>
vars == <<items, extents, readVars, names, remaining, children, pc, then>>

-----------------------------------------------------------------------------
(***************************************************************************)
(* The table of the directory.  An item is a record:                       *)
(*   [kind |-> "deleted"] or [kind |-> "dot"], or                          *)
(*   [kind |-> "file", parts, low, five]: a file with that many long name  *)
(*   entries, its low attribute bits and the low bits of its first byte.   *)
(***************************************************************************)
Plain(kind) == [kind |-> kind, of |-> 0, low |-> FALSE, five |-> 0]
NULL == Plain("null")
End  == Plain("end")

\* The entries of item number n, in the order of the table.
EntriesOf(n, item) ==
  IF item.kind # "file" THEN << Plain(item.kind) >>
  ELSE [k \in 1 .. item.parts |->
          [kind |-> "lfn", of |-> n, low |-> TRUE, five |-> item.parts + 1 - k]]
       \o << [kind |-> "short", of |-> n, low |-> item.low, five |-> item.five] >>

Listing == FlattenSeq([n \in 1 .. Len(items) |-> EntriesOf(n, items[n])])

ClusterCount(exts) == FoldSeq(LAMBDA e, sum : e.length + sum, 0, exts)

\* All clusters of the directory in order; the rest of the last is zero.
Table == [k \in 1 .. dentries_per_cluster * ClusterCount(extents) |->
            IF k <= Len(Listing) THEN Listing[k] ELSE End]

\* The position of a cluster in the directory, from 0.
RankOf(cluster_no) ==
  LET e == CHOOSE e \in 1 .. Len(extents) :
             cluster_no \in extents[e].physical_start ..
                              (extents[e].physical_start + extents[e].length - 1)
  IN  ClusterCount(SubSeq(extents, 1, e - 1)) + cluster_no - extents[e].physical_start

DentryAt(cluster_no, index) == Table[RankOf(cluster_no) * dentries_per_cluster + index + 1]

-----------------------------------------------------------------------------
is_lfn(dentry) == dentry.low
lfn_entry_sequence_no(dentry) == dentry.five

\* is_invalid(dentry) || is_dot_dir(dentry)
IsSkipped(dentry) == dentry.kind \in {"deleted", "dot"}

\* The table fits into the extents without a cluster to spare.
Init ==
  /\ items \in BoundedSeq(Items, MaxItems)
  /\ extents \in Extents
  /\ Len(Listing) \in dentries_per_cluster * (ClusterCount(extents) - 1)
                      .. dentries_per_cluster * ClusterCount(extents)
  /\ LET first == next_cluster_no(extents, init(1))
     IN  current_cluster = first[1] /\ iterator = first[2]
  /\ cluster_dentry = 0
  /\ current_dentry = NULL
  /\ names = <<>> /\ remaining = 0 /\ children = <<>>
  /\ pc = "next" /\ then = "visit"

\* One iteration of the loop of next_dentry.
next_dentry ==
  LET next == IF cluster_dentry >= dentries_per_cluster
              THEN <<next_cluster_no(extents, iterator), 0>>
              ELSE << <<current_cluster, iterator>>, cluster_dentry>>
      cluster_no == next[1][1]
      ret        == DentryAt(cluster_no, next[2])
  IN  /\ pc = "next"
      /\ current_cluster' = cluster_no
      /\ iterator' = next[1][2]
      /\ IF cluster_no = 0
           THEN cluster_dentry' = next[2] /\ current_dentry' = NULL /\ pc' = then
           ELSE /\ cluster_dentry' = next[2] + 1
                /\ current_dentry' = ret
                /\ pc' = IF IsSkipped(ret) THEN "next" ELSE then
      /\ UNCHANGED <<items, extents, names, remaining, children, then>>

\* is_dir_table_end: the loop of traverse ends.
EndOfTable ==
  /\ pc = "visit"
  /\ current_dentry \in {NULL, End}
  /\ pc' = "done"
  /\ UNCHANGED <<items, extents, readVars, names, remaining, children, then>>

\* An entry with a long name: read_lfn starts here.
VisitLongName ==
  /\ pc = "visit"
  /\ current_dentry \notin {NULL, End}
  /\ is_lfn(current_dentry)
  /\ remaining' = lfn_entry_sequence_no(current_dentry)
  /\ names' = <<>>
  /\ pc' = "lfn"
  /\ UNCHANGED <<items, extents, readVars, children, then>>

\* An entry without: read_short_name.
VisitShortName ==
  /\ pc = "visit"
  /\ current_dentry \notin {NULL, End}
  /\ ~ is_lfn(current_dentry)
  /\ names' = <<current_dentry>>
  /\ pc' = "write"
  /\ UNCHANGED <<items, extents, readVars, remaining, children, then>>

\* Mutated: the parts are collected in the order of the table.
CollectedForward(parts, dentry) == Append(parts, dentry)

\* The entries come with the last part of the name first.
Collected(parts, dentry) == <<dentry>> \o parts

\* One iteration of read_lfn, up to its call of next_dentry.
ReadNamePart ==
  /\ pc = "lfn"
  /\ remaining > 0
  /\ current_dentry # NULL
  /\ names' = Collected(names, current_dentry)
  /\ remaining' = remaining - 1
  /\ pc' = "next" /\ then' = "lfn"
  /\ UNCHANGED <<items, extents, readVars, children>>

NameRead ==
  /\ pc = "lfn"
  /\ remaining = 0
  /\ pc' = "write"
  /\ UNCHANGED <<items, extents, readVars, names, remaining, children, then>>

\* The dentry is copied to the stream, the child counted.
WriteChild ==
  /\ pc = "write"
  /\ current_dentry # NULL
  /\ children' = Append(children, [dentry |-> current_dentry, name |-> names])
  /\ pc' = "next" /\ then' = "visit"
  /\ UNCHANGED <<items, extents, readVars, names, remaining>>

\* memcpy from NULL, in read_lfn or in traverse.
ReadPastEnd ==
  /\ \/ pc = "lfn" /\ remaining > 0
     \/ pc = "write"
  /\ current_dentry = NULL
  /\ pc' = "crashed"
  /\ UNCHANGED <<items, extents, readVars, names, remaining, children, then>>

Stopped == pc \in {"done", "crashed"} /\ UNCHANGED vars

Next ==
  \/ next_dentry \/ EndOfTable \/ VisitLongName \/ VisitShortName
  \/ ReadNamePart \/ NameRead \/ WriteChild \/ ReadPastEnd \/ Stopped

Spec == Init /\ [][Next]_vars

-----------------------------------------------------------------------------
\* The children of the directory as a FAT driver sees them: every file with
\* its own entry and the parts of its name in order.
ChildOf(n) ==
  LET entries == EntriesOf(n, items[n])
      parts   == Len(entries) - 1
  IN  [dentry |-> Last(entries),
       name   |-> IF parts = 0 THEN <<Last(entries)>> ELSE Reverse(SubSeq(entries, 1, parts))]

Children ==
  FlattenSeq([n \in 1 .. Len(items) |->
                IF items[n].kind = "file" THEN << ChildOf(n) >> ELSE <<>>])

\* No file is without a long name and with a low attribute bit.
NamesRecognizable ==
  \A n \in 1 .. Len(items) :
    items[n].kind = "file" /\ items[n].low => items[n].parts > 0

\* Every file of the directory is read once and in order, with its own entry
\* and its own name, wherever deleted entries lie and clusters and extents end,
\* also in the middle of a long name, with or without an end marker.
FilesReadInOrder ==
  NamesRecognizable =>
    /\ IsPrefix(children, Children)
    /\ pc = "done" => children = Children
    /\ pc # "crashed"

\* "current_dentry is the actual dentry now" (metadata_reader.cpp:168): what is
\* stored as the entry of a child is the entry of a file, with a name that is
\* not made of other files' entries.
ActualDentry ==
  \A k \in 1 .. Len(children) :
    /\ children[k].dentry.kind = "short"
    /\ \A j \in 1 .. Len(children[k].name) :
         children[k].name[j].of = children[k].dentry.of
=============================================================================
