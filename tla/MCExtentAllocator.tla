------------------------- MODULE MCExtentAllocator -------------------------
(***************************************************************************)
(* Small layouts for the extent allocator.  A group has 8 blocks; its      *)
(* metadata takes 5 of them with a superblock copy and 3 without.          *)
(***************************************************************************)
EXTENDS ExtentAllocator

Layout(blocks, first, start) ==
  [ blocks_count |-> blocks, blocks_per_group |-> 8, first_data_block |-> first,
    inodes_per_group |-> 4, inodes_per_block |-> 4, descs_per_block |-> 4,
    data_start |-> start ]

MCLayouts ==
  { Layout(30, 0, 3),    \* metadata of group 0 cut by the start of the data
    Layout(30, 0, 17),   \* groups 0 and 1 before the data
    Layout(29, 0, 5),    \* metadata of group 0 ends where the data starts
    Layout(25, 1, 4),    \* 1K blocks, last group has no block at all
    Layout(26, 0, 6) }   \* metadata of the last group overhangs the partition

MCMayBeUsed == {3, 4, 5, 10, 11, 12, 17, 20}
=============================================================================
