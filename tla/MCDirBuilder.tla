---------------------------- MODULE MCDirBuilder ----------------------------
(***************************************************************************)
(* Trees of a root and up to two more directories, beside or inside each   *)
(* other, in blocks of ten units: the dot entries take six, an entry three *)
(* to ten.  rec_len can just hold the length of a block.                   *)
(***************************************************************************)
EXTENDS DirBuilder

Ext(start, len) == [physical_start |-> start, length |-> len]

ChildEntry(len, dir) == [len |-> len, dir |-> dir]

Lists(n) == UNION { [1..k -> {3, 4, 7, 10}] : k \in 0..n }

Files(lens) == [k \in DOMAIN lens |-> ChildEntry(lens[k], 0)]

\* The root with a few files around directory 2, and 2 with directory 3.
Nested ==
  { << [extents |-> exts, children |-> Files(a) \o << ChildEntry(len, 2) >> \o Files(b)],
       [extents |-> <<Ext(21, 1)>>, children |-> Files(c) \o << ChildEntry(4, 3) >> ],
       [extents |-> <<>>, children |-> Files(a)] >> :
      exts \in { <<Ext(11, 1)>>, <<Ext(13, 1), Ext(11, 2)>> },
      a \in Lists(2), b \in Lists(1), c \in Lists(1), len \in {3, 4} }

\* Two directories side by side.
Beside ==
  { << [extents |-> <<Ext(11, 2)>>, children |-> << ChildEntry(4, 2), ChildEntry(3, 3) >> \o Files(b)],
       [extents |-> exts, children |-> Files(a)],
       [extents |-> <<Ext(24, 1)>>, children |-> Files(b)] >> :
      exts \in { <<Ext(21, 3)>>, <<Ext(22, 1), Ext(21, 1)>> }, a \in Lists(3), b \in Lists(1) }

MCTrees == Nested \cup Beside
MCFree == 31 .. 35
=============================================================================
