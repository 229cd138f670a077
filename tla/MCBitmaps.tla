------------------------------ MODULE MCBitmaps ------------------------------
(***************************************************************************)
(* The block groups on their two levels, one or the other in a behaviour:  *)
(* all groups, with sets of bits and numbers, and one group, with segments *)
(* and halves.                                                             *)
(***************************************************************************)
EXTENDS MCBlockGroups, MCSegmentedBitmap

\* The level that is not looked at stays at one state, before its first step.
GroupsIdle ==
  /\ sb = <<>> /\ tree = <<>>
  /\ group_descs = <<>> /\ block_bitmap = <<>> /\ inode_bitmap = <<>> /\ inode_table = <<>>
  /\ first_free_inode_no = 0
  /\ registered = {} /\ totals = <<>> /\ copies = <<>>
  /\ pc = "idle" /\ i = 0

SegmentsIdle ==
  /\ group = <<>> /\ marked = {}
  /\ memory = [k \in 0 .. SegmentCount |-> {}]
  /\ free_blocks = set_lo_hi(0) /\ i_blocks = set_lo_hi(0)
  /\ begin = 0 /\ end = 0 /\ beginPtr = 0 /\ counted = FALSE
  /\ pending = 0
  /\ bitmap_pc = "not used"

BitmapsInit == (Init /\ SegmentsIdle) \/ (GroupsIdle /\ BitmapInit)

\* The builder has no more extents for the group.
GroupDone == bitmap_pc = "idle" /\ pending = 0 /\ UNCHANGED <<vars, bitmapVars>>

BitmapsNext ==
  \/ Next /\ UNCHANGED bitmapVars
  \/ BitmapNext /\ UNCHANGED vars
  \/ GroupDone

BitmapsSpec == BitmapsInit /\ [][BitmapsNext]_<<vars, bitmapVars>>
=============================================================================
