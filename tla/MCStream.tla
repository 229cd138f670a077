------------------------------ MODULE MCStream ------------------------------
(***************************************************************************)
(* The stream on its two levels, one or the other in a behaviour: the      *)
(* pages, under all calls of a writer and a reader, and the sections, as   *)
(* the recursions of traverse and build_ext4_metadata_tree use them.       *)
(***************************************************************************)
EXTENDS StreamArchiver, MCTraversal

\* The level that is not looked at stays at one state.
TraversalIdle ==
  /\ tree = <<>> /\ sections = <<>> /\ calls = <<>> /\ builds = <<>> /\ built = <<>>
  /\ position = Start(1)
  /\ got = NullElement /\ asked = "null"
  /\ pc = "idle"

StreamInit == Init /\ (TraversalIdle \/ TraversalInit)

StreamNext ==
  \/ pc = "idle" /\ Next /\ UNCHANGED traversalVars
  \/ TraversalNext /\ UNCHANGED vars

StreamSpec ==
  StreamInit /\ [][StreamNext]_<<vars, traversalVars>> /\ WF_traversalVars(Work)
=============================================================================
