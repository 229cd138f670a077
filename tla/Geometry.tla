------------------------------ MODULE Geometry ------------------------------
(***************************************************************************)
(* The layout arithmetic shared by the FAT side and the ext4 side of the   *)
(* conversion: where the block groups of the new file system start, how    *)
(* many blocks their metadata takes, and which FAT clusters those blocks   *)
(* are.  Constant operators only.                                          *)
(*                                                                         *)
(* A layout is a record sb: the fields of ext4_super_block the arithmetic  *)
(* reads, with the two divisors block_size/s_desc_size and                 *)
(* block_size/s_inode_size (all powers of two) already taken, and          *)
(* data_start, the block of FAT cluster 2                                  *)
(* (sectors_before_data / sectors_per_cluster).                            *)
(***************************************************************************)
EXTENDS Integers, Sequences

Superblocks ==
  [ blocks_count     : Nat,       \* s_blocks_count_lo/hi
    blocks_per_group : Nat \ {0},
    first_data_block : {0, 1},    \* 1 iff the block size is 1024
    inodes_per_group : Nat,
    inodes_per_block : Nat \ {0}, \* block_size() / s_inode_size
    descs_per_block  : Nat \ {0}, \* block_size() / s_desc_size
    data_start       : Nat \ {0} ]

ceildiv(a, b) == (a + b - 1) \div b

-----------------------------------------------------------------------------
(***************************************************************************)
(* FAT cluster numbers and ext4 block numbers (fat.cpp).  Cluster numbers  *)
(* start at FAT_START_INDEX; 0 stands for "before the first data cluster". *)
(***************************************************************************)
FAT_START_INDEX == 2

fat_cl_to_e4blk(sb, cluster_no) == (cluster_no - FAT_START_INDEX) + sb.data_start

e4blk_to_fat_cl(sb, block_no) ==
  IF block_no < sb.data_start THEN 0 ELSE block_no + FAT_START_INDEX - sb.data_start

\* One past the last cluster: the FAT has entries 0 .. data_cluster_count - 1.
data_cluster_count(sb) == sb.blocks_count - sb.data_start + FAT_START_INDEX

DataClusters(sb) == FAT_START_INDEX .. (data_cluster_count(sb) - 1)

-----------------------------------------------------------------------------
(***************************************************************************)
(* Block groups (ext4_bg.cpp), numbered from 0.                            *)
(***************************************************************************)
block_group_count(sb) == ceildiv(sb.blocks_count, sb.blocks_per_group)

gdt_block_count(sb) == ceildiv(block_group_count(sb), sb.descs_per_block)

inode_table_blocks(sb) == ceildiv(sb.inodes_per_group, sb.inodes_per_block)

\* s_backup_bgs as init_ext4_sb sets it: group 1 if there is one, and the
\* last group if it is not group 0 or 1; 0 stands for "none".
backup_bgs(sb) ==
  << IF block_group_count(sb) > 1 THEN 1 ELSE 0,
     IF block_group_count(sb) > 2 THEN block_group_count(sb) - 1 ELSE 0 >>

block_group_has_sb_copy(sb, bg_num) ==
  bg_num \in {0, backup_bgs(sb)[1], backup_bgs(sb)[2]}

OverheadWithSb(sb)    == 3 + gdt_block_count(sb) + inode_table_blocks(sb)
OverheadWithoutSb(sb) == 2 + inode_table_blocks(sb)

block_group_overhead(sb, bg_num) ==
  IF block_group_has_sb_copy(sb, bg_num) THEN OverheadWithSb(sb) ELSE OverheadWithoutSb(sb)

block_group_start(sb, num) == sb.blocks_per_group * num + sb.first_data_block

\* The group of a block, as add_extent_to_block_bitmap computes it.
GroupOfBlock(sb, block_no) == (block_no - sb.first_data_block) \div sb.blocks_per_group

GroupOfCluster(sb, cluster_no) == GroupOfBlock(sb, fat_cl_to_e4blk(sb, cluster_no))

-----------------------------------------------------------------------------
(***************************************************************************)
(* The clusters the metadata of the block groups will overwrite.  Group    *)
(* number i is element i + 1; the sentinel after the last group marks the  *)
(* end of the file system.                                                 *)
(***************************************************************************)
\* Mutated: metadata cut by the start of the data is taken for before it.
MetaExtentWithoutCut(sb, i) ==
  LET start_cluster == e4blk_to_fat_cl(sb, block_group_start(sb, i))
  IN  IF start_cluster # 0
      THEN [physical_start |-> start_cluster, length |-> block_group_overhead(sb, i)]
      ELSE [physical_start |-> 0, length |-> 0]

MetaExtent(sb, i) ==
  LET start_cluster == e4blk_to_fat_cl(sb, block_group_start(sb, i))
      end_cluster   == e4blk_to_fat_cl(sb, block_group_start(sb, i) + block_group_overhead(sb, i))
  IN  IF start_cluster # 0
      THEN [physical_start |-> start_cluster, length |-> block_group_overhead(sb, i)]
      ELSE IF end_cluster # 0
      THEN [physical_start |-> FAT_START_INDEX, length |-> end_cluster - FAT_START_INDEX]
      ELSE [physical_start |-> 0, length |-> 0]

create_block_group_meta_extents(sb) ==
  [ k \in 1 .. block_group_count(sb) + 1 |->
      IF k = block_group_count(sb) + 1
      THEN [physical_start |-> data_cluster_count(sb), length |-> 1]
      ELSE MetaExtent(sb, k - 1) ]

PhysicalEnd(e) == e.physical_start + e.length

\* The results qsort may give for the first n entries of exts: a permutation
\* of them in ascending order of physical_start.  Entries after n stay.
SortedPermutations(exts, n) ==
  LET Bijections == { p \in [1..n -> 1..n] : /\ \A i, j \in 1..n : p[i] = p[j] => i = j
                                             /\ \A j \in 1..n : \E i \in 1..n : p[i] = j }
      Permuted(p) == [ k \in DOMAIN exts |-> IF k \in 1..n THEN exts[p[k]] ELSE exts[k] ]
  IN  { s \in { Permuted(p) : p \in Bijections } :
          \A i, j \in 1..n : i < j => s[i].physical_start <= s[j].physical_start }

IsMetadataBlock(sb, block_no) ==
  \E i \in 0 .. block_group_count(sb) - 1 :
    block_no \in block_group_start(sb, i) ..
                 (block_group_start(sb, i) + block_group_overhead(sb, i) - 1)

\* What the allocator and the search for blocked extents need of the array:
\* ascending extents that do not overlap, that start within the file system
\* and that contain every metadata block of the data area, then the sentinel.
WellFormed(sb, exts) ==
  LET n == block_group_count(sb)
  IN  /\ exts \in [1 .. n + 1 -> [physical_start : Nat, length : Nat]]
      /\ exts[n + 1].physical_start = data_cluster_count(sb)
      /\ \A i \in 1..n : exts[i].physical_start <= data_cluster_count(sb)
      /\ \A i, j \in 1..n : i < j => PhysicalEnd(exts[i]) <= exts[j].physical_start
      /\ \A c \in DataClusters(sb) :
           IsMetadataBlock(sb, fat_cl_to_e4blk(sb, c)) =>
             \E k \in 1..n : exts[k].physical_start <= c /\ c < PhysicalEnd(exts[k])

-----------------------------------------------------------------------------
(***************************************************************************)
(* The layouts main lets through: the data area is not empty, and a group  *)
(* has room for its metadata, as the sizes init_ext4_sb chooses leave it   *)
(* (StartupProofs: LayoutAlwaysUsable).                                    *)
(***************************************************************************)
UsableLayout(sb) ==
  /\ sb \in Superblocks
  /\ sb.data_start < sb.blocks_count
  /\ OverheadWithSb(sb) < sb.blocks_per_group

\* Every group holds its metadata.  The program does not make sure of it for
\* the last group (Startup: LastGroupHasRoom): then the metadata is written
\* past the end of the partition, and what happens is up to the mapping.
HoldsMetadata(g) ==
  \A num \in 0 .. block_group_count(g) - 1 :
    block_group_start(g, num) + block_group_overhead(g, num) <= g.blocks_count
=============================================================================
