-------------------------- MODULE MCSegmentedBitmap --------------------------
(***************************************************************************)
(* Bitmaps of three segments of three bits; groups as long as the bitmap,  *)
(* shorter by a part of a segment and by a whole one.                      *)
(***************************************************************************)
EXTENDS SegmentedBitmap

Group(overhead, count) == [overhead |-> overhead, block_count |-> count]

MCGroups == { Group(1, 9), Group(0, 9), Group(3, 8), Group(4, 6), Group(2, 7) }
MCNextWords == { {}, {1} }
=============================================================================
