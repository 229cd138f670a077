----------------------------- MODULE MCBuilding -----------------------------
(***************************************************************************)
(* The two structures tree_builder.cpp fills, one or the other in a        *)
(* behaviour: the blocks of the directories, and the extent trees of the   *)
(* inodes.                                                                 *)
(***************************************************************************)
EXTENDS MCDirBuilder, MCExtentTree

\* The structure that is not looked at stays at one state, that of a tree
\* without directories, or of inodes without extents.
DirectoriesIdle ==
  /\ tree = <<>> /\ stack = <<>> /\ avail = {}
  /\ written = <<>>
  /\ registered = [d \in Dirs |-> <<>>]
  /\ links = [d \in Dirs |-> 2] /\ size = [d \in Dirs |-> 0]
  /\ pc = "idle"

BuildingInit == TreeInit /\ (DirectoriesIdle \/ Init)

BuildingNext ==
  \/ pc = "idle" /\ TreeNext /\ UNCHANGED vars
  \/ Next /\ UNCHANGED treeVars

BuildingSpec == BuildingInit /\ [][BuildingNext]_<<vars, treeVars>>
=============================================================================
