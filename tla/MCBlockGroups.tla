---------------------------- MODULE MCBlockGroups ----------------------------
(***************************************************************************)
(* Groups of 9 blocks with 12 inodes: three blocks of inode table, seven   *)
(* blocks of metadata with a superblock copy and five without.  From one   *)
(* group, whose inodes the second file exhausts, to four groups, and block *)
(* sizes whose first data block is 0 and 1.                                *)
(***************************************************************************)
EXTENDS BlockGroups

Layout(blocks, first, start) ==
  [ blocks_count |-> blocks, blocks_per_group |-> 9, first_data_block |-> first,
    inodes_per_group |-> 12, inodes_per_block |-> 4, descs_per_block |-> 4,
    data_start |-> start ]

\* Full last groups, and last groups that are one or two blocks shorter.
MCLayouts ==
  { Layout(9, 0, 2), Layout(18, 0, 5), Layout(36, 0, 3), Layout(35, 0, 12),
    Layout(9, 1, 2), Layout(36, 1, 4), Layout(35, 1, 4) }

MCBitsPerBlock == 16

\* Trees small and large enough to fill one, two and four groups of inodes.
MCTrees ==
  { <<>>, <<"file">>, <<"dir">>, <<"dir", "file">> }
  \cup { [k \in 1..n |-> IF k % m = 0 THEN "dir" ELSE "file"] : n \in {14, 39}, m \in {2, 5} }

MCExtents == { <<7, 9>>, <<8, 9>>, <<9, 10>>, <<16, 18>>, <<17, 19>>, <<23, 26>>, <<25, 27>>,
               <<34, 36>>, <<35, 36>>, <<34, 35>> }
=============================================================================
