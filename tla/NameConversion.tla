--------------------------- MODULE NameConversion ---------------------------
(***************************************************************************)
(* The name of one file on its way from the FAT directory to the ext4 one: *)
(* its UTF-16 units are written to the stream in segments, by lfn_cpy or   *)
(* read_short_name (fat.cpp), and build_dentry (ext4_dentry.cpp) encodes   *)
(* them in UTF-8, segment by segment, into a name of limited length.       *)
(*                                                                         *)
(* Units and bytes are numbers.  The lengths of the fields are parameters, *)
(* the limits of the encoding are those of the code.                       *)
(***************************************************************************)
EXTENDS Integers, SequencesExt

CONSTANTS LongNames,          \* Sequences of units other than 0
          ShortNames,         \* Records [name, extension, lower_name, lower_extension]
          Leftovers,          \* Units a free cluster may hold
          LfnFields,          \* <<5, 6, 2>>: units in the fields of a long name entry
          NameBytes, ExtensionBytes,   \* 8 and 3
          EXT4_NAME_LEN       \* 255

LFN_ENTRY_LENGTH == LfnFields[1] + LfnFields[2] + LfnFields[3]

ASSUME NameAssumption ==
  /\ NameBytes + 1 + ExtensionBytes + 1 = LFN_ENTRY_LENGTH
  /\ EXT4_NAME_LEN \in Nat \ {0}
  /\ \A n \in LongNames : 0 \notin Range(n)

VARIABLES file,               \* [long, name]: the name of the file in FAT terms
          segments,           \* The name section of the stream
          s, i,               \* The segment, and the unit of it, converted next
          name,               \* The bytes of ext_dentry->name
          rec_len, name_pc

nameVars == <<file, segments, s, i, name, rec_len, name_pc>>

-----------------------------------------------------------------------------
(***************************************************************************)
(* The FAT side.  An entry of a long name holds its units in three fields; *)
(* a FAT driver ends a name that does not fill its last entry with a zero  *)
(* and pads it with 0xFFFF.                                                *)
(***************************************************************************)
Space == 32
Dot == 46

Padded(units, length) ==
  [k \in 1 .. length |-> IF k <= Len(units) THEN units[k]
                         ELSE IF k = Len(units) + 1 THEN 0 ELSE 65535]

LfnEntries(units) ==
  LET count == (Len(units) + LFN_ENTRY_LENGTH - 1) \div LFN_ENTRY_LENGTH
      all   == Padded(units, count * LFN_ENTRY_LENGTH)
      field(n, f) == LET from == (n - 1) * LFN_ENTRY_LENGTH
                                  + (IF f = 1 THEN 0 ELSE LfnFields[1])
                                  + (IF f = 3 THEN LfnFields[2] ELSE 0)
                     IN  SubSeq(all, from + 1, from + LfnFields[f])
  IN  [n \in 1 .. count |-> [name1 |-> field(n, 1), name2 |-> field(n, 2), name3 |-> field(n, 3)]]

\* Mutated: the last field is not copied.
LfnCpyShort(entry) == entry.name1 \o entry.name2 \o [k \in 1 .. Len(entry.name3) |-> 0]

lfn_cpy(entry) == entry.name1 \o entry.name2 \o entry.name3

tolower(ch) == IF ch \in 65 .. 90 THEN ch + 32 ELSE ch

\* The characters of a blank-padded field, up to its first blank.
Field(bytes, lower) ==
  LET blanks == { k \in 1 .. Len(bytes) : bytes[k] = Space }
      length == IF blanks = {} THEN Len(bytes) ELSE Min(blanks) - 1
  IN  [k \in 1 .. length |-> IF lower THEN tolower(bytes[k]) ELSE bytes[k]]

has_extension(dentry) == dentry.extension[1] # Space

\* The units written to the segment, the last of them zero.
read_short_name(dentry) ==
  Field(dentry.name, dentry.lower_name)
    \o (IF has_extension(dentry) THEN <<Dot>> \o Field(dentry.extension, dentry.lower_extension)
        ELSE <<>>)
    \o <<0>>

-----------------------------------------------------------------------------
NameInit ==
  /\ file \in [long : {TRUE}, name : LongNames] \cup [long : {FALSE}, name : ShortNames]
  /\ segments = <<>> /\ s = 1 /\ i = 1
  /\ name = <<>> /\ rec_len = 0
  /\ name_pc = "read"

WriteLongName ==
  /\ name_pc = "read"
  /\ file.long
  /\ segments' = LET entries == LfnEntries(file.name)
                 IN  [n \in 1 .. Len(entries) |-> lfn_cpy(entries[n])]
  /\ name_pc' = "build"
  /\ UNCHANGED <<file, s, i, name, rec_len>>

\* What the name does not reach of its segment is what the page held before.
WriteShortName ==
  /\ name_pc = "read"
  /\ ~ file.long
  /\ LET units == read_short_name(file.name)
     IN  \E left \in Leftovers :
           segments' = << [k \in 1 .. LFN_ENTRY_LENGTH |->
                             IF k <= Len(units) THEN units[k] ELSE left] >>
  /\ name_pc' = "build"
  /\ UNCHANGED <<file, s, i, name, rec_len>>

-----------------------------------------------------------------------------
(***************************************************************************)
(* build_dentry and ucs2toutf8: one action per unit.  The limit leaves the *)
(* last byte of the name for the terminator.                               *)
(***************************************************************************)
next_multiple_of_four(n) == ((n + 3) \div 4) * 4

ext_name_limit == EXT4_NAME_LEN - 1

Encoded(ch) ==
  IF ch < 128 THEN << ch >>
  ELSE IF ch < 2048 THEN << 192 + (ch \div 64), 128 + (ch % 64) >>
  ELSE << 224 + (ch \div 4096), 128 + ((ch \div 64) % 64), 128 + (ch % 64) >>

\* Mutated: only the first byte has to fit.
FitsByFirstByte(ch) == Len(name) < ext_name_limit

Fits(ch) == Len(name) < ext_name_limit - (Len(Encoded(ch)) - 1)

\* The loop over the segment goes on: i < src_size && src[i].
InSegment == i <= LFN_ENTRY_LENGTH /\ segments[s][i] # 0

EncodeUnit ==
  /\ name_pc = "build"
  /\ s <= Len(segments)
  /\ InSegment
  /\ Fits(segments[s][i])
  /\ name' = name \o Encoded(segments[s][i])
  /\ i' = i + 1
  /\ UNCHANGED <<file, segments, s, rec_len, name_pc>>

\* The segment ends, by its length, by a zero, or because the next unit does
\* not fit; in each case build_dentry goes on with the next segment.
NextSegment ==
  /\ name_pc = "build"
  /\ s <= Len(segments)
  /\ InSegment => ~ Fits(segments[s][i])
  /\ s' = s + 1 /\ i' = 1
  /\ UNCHANGED <<file, segments, name, rec_len, name_pc>>

RecLen(name_len) == next_multiple_of_four(name_len + 8)

EndName ==
  /\ name_pc = "build"
  /\ s > Len(segments)
  /\ rec_len' = RecLen(Len(name))
  /\ name_pc' = "done"
  /\ UNCHANGED <<file, segments, s, i, name>>

NameDone == name_pc = "done" /\ UNCHANGED nameVars

NameNext == WriteLongName \/ WriteShortName \/ EncodeUnit \/ NextSegment \/ EndName \/ NameDone

NameSpec == NameInit /\ [][NameNext]_nameVars

-----------------------------------------------------------------------------
\* The name a FAT driver shows; it strips the blanks short names are padded with.
Shown ==
  LET text(bytes, lower) ==
        SelectSeq(IF lower THEN [k \in 1 .. Len(bytes) |-> tolower(bytes[k])] ELSE bytes,
                  LAMBDA u : u # Space)
      base == text(file.name.name, file.name.lower_name)
      ext  == text(file.name.extension, file.name.lower_extension)
  IN  IF file.long THEN file.name ELSE IF ext = <<>> THEN base ELSE base \o <<Dot>> \o ext

EncodedLength(units) == FoldSeq(LAMBDA u, sum : Len(Encoded(u)) + sum, 0, units)

\* The units a reader of UTF-8 finds in the bytes, -1 where they are malformed.
Decoded(bytes) ==
  LET tail(k) == IF k <= Len(bytes) /\ bytes[k] \in 128 .. 191 THEN bytes[k] - 128 ELSE -4096
      from[k \in 1 .. Len(bytes) + 3] ==
        IF k > Len(bytes) THEN <<>>
        ELSE IF bytes[k] < 128 THEN << bytes[k] >> \o from[k + 1]
        ELSE IF bytes[k] \in 192 .. 223
        THEN << (bytes[k] - 192) * 64 + tail(k + 1) >> \o from[k + 2]
        ELSE IF bytes[k] \in 224 .. 239
        THEN << (bytes[k] - 224) * 4096 + tail(k + 1) * 64 + tail(k + 2) >> \o from[k + 3]
        ELSE << -1 >> \o from[k + 1]
  IN  from[1]

\* A name that fits, with the terminator, is converted unit by unit: what is
\* read back is the name of the file, with nothing of the padding and nothing
\* of what the stream's page held before, over any number of segments.
NamesKept ==
  name_pc = "done" /\ EncodedLength(Shown) <= ext_name_limit => Decoded(name) = Shown

\* The record that is copied into the directory block is aligned, holds the
\* header and the whole name, and is not longer than the allocated entry.
RecordHoldsName ==
  name_pc = "done" =>
    /\ rec_len % 4 = 0
    /\ rec_len \in Len(name) + 8 .. next_multiple_of_four(EXT4_NAME_LEN + 8)

\* A longer name is cut between characters: what is left are units of the name
\* in their order, never a part of one, never more than the buffer holds, and
\* the record build_dentry makes of it holds all of it.
CutBetweenCharacters ==
  /\ RecordHoldsName
  /\ Len(name) <= ext_name_limit
  /\ LET units == Decoded(name)
     IN  \E kept \in SUBSET (1 .. Len(Shown)) :
           /\ Cardinality(kept) = Len(units)
           /\ units = [k \in 1 .. Len(units) |->
                         Shown[CHOOSE j \in kept : Cardinality({x \in kept : x <= j}) = k]]
=============================================================================
