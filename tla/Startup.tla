------------------------------- MODULE Startup -------------------------------
(***************************************************************************)
(* What main does before it touches a FAT entry: it reads the boot sector, *)
(* derives the ext4 superblock from it with the program's real constants,  *)
(* and computes the clusters the block group metadata will overwrite.      *)
(* Every step may find the partition unfit and exit.                       *)
(***************************************************************************)
EXTENDS Geometry

CONSTANT BootSectors      \* The boot sectors of the partitions to convert

VARIABLES boot_sector,
          data_start,        \* sectors_before_data / sectors_per_cluster
          sb,                \* The superblock fields Geometry reads
          extents,           \* The array create_block_group_meta_extents fills
          pc

vars == <<boot_sector, data_start, sb, extents, pc>>

-----------------------------------------------------------------------------
EXT4_INODE_RATIO == 16384
EXT4_INODE_SIZE == 256
EXT4_64BIT_DESC_SIZE == 64
EXT4_MAX_BLOCKS_PER_GROUP == 65536 - 8
MAX_EXTENT_LENGTH == 65535   \* fat_extent.length has 16 bits

min(a, b) == IF a < b THEN a ELSE b

sector_count(b) == IF b.sector_count = 0 THEN b.total_sectors2 ELSE b.sector_count

sectors_before_data(b) == b.sectors_before_fat + b.sectors_per_fat * b.fat_count

\* FAT32 has cluster numbers of 28 bits, and the FATs and what is before them
\* take no more blocks than the clusters.
MaxBlocks == 536870912

\* What a FAT32 boot sector allows: the sizes of sectors and clusters, at least
\* the cluster of the root directory, and a limited number of blocks.
ASSUME BootSectorsAssumption ==
  \A b \in BootSectors :
    /\ b.bytes_per_sector \in {512, 1024, 2048, 4096}
    /\ b.sectors_per_cluster \in {1, 2, 4, 8, 16, 32, 64, 128}
    /\ b.sectors_before_fat \in Nat \ {0} /\ b.sectors_per_fat \in Nat \ {0}
    /\ b.fat_count \in Nat \ {0}
    /\ b.sector_count \in Nat        \* 0 if it does not fit into 16 bits,
    /\ b.total_sectors2 \in Nat      \* then this one counts
    /\ sectors_before_data(b) + b.sectors_per_cluster <= sector_count(b)
    /\ sector_count(b) \div b.sectors_per_cluster < MaxBlocks

\* Mutated: the start of the data is not checked for alignment.
AnyAlignment(b) == TRUE

\* set_meta_info up to its alignment check, and the quotient all conversions
\* between blocks and clusters use.
Aligned(b) == sectors_before_data(b) % b.sectors_per_cluster = 0

bytes_per_block(b) == b.bytes_per_sector * b.sectors_per_cluster

\* blocks_per_group * bytes_per_block / EXT4_INODE_RATIO, a product of 32 bits:
\* it wraps for blocks of 128 KiB and more, which are a multiple of the ratio,
\* so the quotient can be taken first, modulo 2^32 / 2^14 = 262144.
InodesByRatio(blocks_per_group, bytes) ==
  IF bytes < EXT4_INODE_RATIO THEN (blocks_per_group * bytes) \div EXT4_INODE_RATIO
  ELSE (blocks_per_group * (bytes \div EXT4_INODE_RATIO)) % 262144

\* The superblock init_ext4_sb computes from a boot sector.  The block count is
\* not reduced: the branch for a short last group stores the same value again.
NewSuperblock(b, start) ==
  LET bytes            == bytes_per_block(b)
      blocks_per_group == min(bytes * 8, EXT4_MAX_BLOCKS_PER_GROUP)
  IN  [ blocks_count     |-> sector_count(b) \div b.sectors_per_cluster,
        blocks_per_group |-> blocks_per_group,
        first_data_block |-> IF bytes = 1024 THEN 1 ELSE 0,
        inodes_per_group |-> min(InodesByRatio(blocks_per_group, bytes), bytes * 8),
        inodes_per_block |-> bytes \div EXT4_INODE_SIZE,
        descs_per_block  |-> bytes \div EXT4_64BIT_DESC_SIZE,
        data_start       |-> start ]

NoSuperblock == [blocks_count |-> 0]

-----------------------------------------------------------------------------
\* openPartition and read_boot_sector have succeeded.
Init ==
  /\ boot_sector \in BootSectors
  /\ data_start = 0
  /\ sb = NoSuperblock
  /\ extents = <<>>
  /\ pc = "meta_info"

set_meta_info ==
  /\ pc = "meta_info"
  /\ pc' = IF Aligned(boot_sector) THEN "superblock" ELSE "exited"
  /\ data_start' = sectors_before_data(boot_sector) \div boot_sector.sectors_per_cluster
  /\ UNCHANGED <<boot_sector, sb, extents>>

init_ext4_sb ==
  /\ pc = "superblock"
  /\ IF bytes_per_block(boot_sector) < 1024
       THEN pc' = "exited" /\ UNCHANGED sb
       ELSE pc' = "extents" /\ sb' = NewSuperblock(boot_sector, data_start)
  /\ UNCHANGED <<boot_sector, data_start, extents>>

\* One iteration of the loop of create_block_group_meta_extents.
NextMetaExtent ==
  LET i == Len(extents)
  IN  /\ pc = "extents"
      /\ i < block_group_count(sb)
      /\ IF block_group_overhead(sb, i) > MAX_EXTENT_LENGTH
           THEN pc' = "exited" /\ UNCHANGED extents
           ELSE pc' = pc /\ extents' = Append(extents, MetaExtent(sb, i))
      /\ UNCHANGED <<boot_sector, data_start, sb>>

\* The sentinel, and the qsort of init_extent_allocator.
init_extent_allocator ==
  LET sentinel == [physical_start |-> data_cluster_count(sb), length |-> 1]
  IN  /\ pc = "extents"
      /\ Len(extents) = block_group_count(sb)
      /\ extents' \in SortedPermutations(Append(extents, sentinel), Len(extents))
      /\ pc' = "ready"
      /\ UNCHANGED <<boot_sector, data_start, sb>>

Stopped == pc \in {"ready", "exited"} /\ UNCHANGED vars

Next == set_meta_info \/ init_ext4_sb \/ NextMetaExtent \/ init_extent_allocator \/ Stopped

Spec == Init /\ [][Next]_vars

-----------------------------------------------------------------------------
\* data_cluster_count() divides after it subtracts, the conversions between
\* blocks and clusters divide first: the clusters end where the blocks end.
\* That holds only because of the alignment check of set_meta_info.
ClusterCountsAgree ==
  data_cluster_count(sb) =
    (sector_count(boot_sector) - sectors_before_data(boot_sector))
      \div boot_sector.sectors_per_cluster + FAT_START_INDEX

\* One bitmap block holds the block bits and the inode bits of a group, and
\* the inode table holds its inodes, the reserved ones (up to 11) included:
\* what the bitmap writes of init_ext4_group_descs rely on.  There are four
\* inodes per block at most, so their number in all groups fits into 32 bits.
BitmapsFit ==
  LET bits == 8 * bytes_per_block(boot_sector)
  IN  /\ sb.blocks_per_group <= bits
      /\ sb.inodes_per_group \in 12 .. bits
      /\ inode_table_blocks(sb) * sb.inodes_per_block >= sb.inodes_per_group
      /\ sb.inodes_per_group <= 4 * sb.blocks_per_group

\* The superblock main goes on with satisfies what the other components and
\* their proofs take as given, for the real constants of the program: room for
\* data, room for its metadata in every group, bitmaps and inode tables large
\* enough, and one count of clusters, however it is computed.
ReadyLayoutUsable == pc = "ready" => UsableLayout(sb) /\ BitmapsFit /\ ClusterCountsAgree

\* The blocked extents handed to the allocator are in order, apart, and cover
\* every metadata block in the data area, whatever the start of the data cuts.
ReadyExtentsWellFormed == pc = "ready" => WellFormed(sb, extents)

\* "If the last block group would support have fewer than 50 data blocks, than
\* reduce the block count" (ext4.cpp:68-70): the last group is never shorter
\* than its metadata and 50 blocks.
LastGroupHasRoom ==
  pc = "ready" =>
    LET last == block_group_count(sb) - 1
    IN  sb.blocks_count - block_group_start(sb, last) >= OverheadWithSb(sb) + 50
=============================================================================
