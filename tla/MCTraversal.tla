----------------------------- MODULE MCTraversal -----------------------------
(***************************************************************************)
(* All trees of the root and up to three files and directories: empty      *)
(* files, empty directories, directories of one or two extents, names of   *)
(* one or two parts.                                                       *)
(***************************************************************************)
EXTENDS Traversal, Functions

ChildrenIn(parent, node) ==
  LET kids == { k \in DOMAIN parent : parent[k] = node }
  IN  [n \in 1 .. Cardinality(kids) |->
         CHOOSE k \in kids : Cardinality({ j \in kids : j <= k }) = n]

Parents(count) == { p \in [2 .. count -> 1 .. 3] : \A k \in 2 .. count : p[k] < k }

\* Long files and directories have two extents, others none or one.
TreesOf(count) ==
  UNION { { [ children |-> [node \in 1 .. count |-> ChildrenIn(parent, node)],
              is_dir   |-> [node \in 1 .. count |-> node \in dirs],
              extents  |-> [node \in 1 .. count |-> IF node \in long THEN 2
                                                    ELSE IF node \in dirs THEN 1 ELSE 0],
              parts    |-> [node \in 1 .. count |-> 1 + (node % 2)] ] :
              dirs \in { d \in SUBSET (1 .. count) : {1} \cup Range(parent) \subseteq d },
              long \in SUBSET (1 .. count) } :
          parent \in Parents(count) }

MCTrees == UNION { TreesOf(count) : count \in 1 .. 4 }
=============================================================================
