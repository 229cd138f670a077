---------------------------- MODULE StartupProofs ----------------------------
(***************************************************************************)
(* For every FAT32 boot sector, what main goes on with is what the other   *)
(* components and their proofs assume: a usable layout and well-formed     *)
(* blocked extents.  And the volume keeps its name.                        *)
(***************************************************************************)
EXTENDS Startup, VolumeLabel, GeometryProofs, SequenceTheorems, TLAPS

\* The sizes of blocks that a boot sector can give.
BlockSizes ==
  {512, 1024, 2048, 4096, 8192, 16384, 32768, 65536, 131072, 262144, 524288}

\* Sectors and clusters have sizes that are powers of two, so blocks have.
LEMMA BlockSizeIsOneOf ==
  ASSUME NEW b \in BootSectors
  PROVE  bytes_per_block(b) \in BlockSizes
<1> DEFINE s == b.bytes_per_sector
           c == b.sectors_per_cluster
<1>1. s \in {512, 1024, 2048, 4096} /\ c \in {1, 2, 4, 8, 16, 32, 64, 128}
  BY BootSectorsAssumption
<1>2. ASSUME NEW x \in {1, 2, 4, 8, 16, 32, 64, 128}
      PROVE  512 * x \in BlockSizes /\ 1024 * x \in BlockSizes /\ 2048 * x \in BlockSizes
             /\ 4096 * x \in BlockSizes
  BY SMT DEF BlockSizes
<1>3. s * c \in BlockSizes
  <2>1. CASE s = 512
    BY <1>1, <1>2, <2>1
  <2>2. CASE s = 1024
    BY <1>1, <1>2, <2>2
  <2>3. CASE s = 2048
    BY <1>1, <1>2, <2>3
  <2>4. CASE s = 4096
    BY <1>1, <1>2, <2>4
  <2> QED BY <1>1, <2>1, <2>2, <2>3, <2>4
<1> QED BY <1>3 DEF bytes_per_block

\* What init_ext4_sb chooses for each size of blocks: the groups, inodes and
\* divisors, and the smallest number of blocks an inode table can have.  The
\* product of 32 bits wraps in the last three.
GroupSizes(bytes) ==
  [ blocks_per_group |-> min(bytes * 8, EXT4_MAX_BLOCKS_PER_GROUP),
    inodes_per_group |->
      min(InodesByRatio(min(bytes * 8, EXT4_MAX_BLOCKS_PER_GROUP), bytes), bytes * 8),
    inodes_per_block |-> bytes \div EXT4_INODE_SIZE,
    descs_per_block  |-> bytes \div EXT4_64BIT_DESC_SIZE ]

\* The product of 32 bits for large blocks, in its quotient.
LEMMA InodesOfLargeBlocks ==
  /\ InodesByRatio(65528, 32768) = 131056 /\ InodesByRatio(65528, 65536) = 262112
  /\ InodesByRatio(65528, 131072) = 262080 /\ InodesByRatio(65528, 262144) = 262016
  /\ InodesByRatio(65528, 524288) = 261888
<1>1. /\ 32768 \div 16384 = 2 /\ 65536 \div 16384 = 4 /\ 131072 \div 16384 = 8
      /\ 262144 \div 16384 = 16 /\ 524288 \div 16384 = 32
  BY SMT
<1>2. /\ 65528 * 2 = 131056 /\ 65528 * 4 = 262112 /\ 65528 * 8 = 524224
      /\ 65528 * 16 = 1048448 /\ 65528 * 32 = 2096896
  BY SMT
<1>3. /\ 131056 % 262144 = 131056 /\ 262112 % 262144 = 262112 /\ 524224 % 262144 = 262080
      /\ 1048448 % 262144 = 262016 /\ 2096896 % 262144 = 261888
  BY SMT
<1>4. /\ ~ (32768 < 16384) /\ ~ (65536 < 16384) /\ ~ (131072 < 16384)
      /\ ~ (262144 < 16384) /\ ~ (524288 < 16384)
  BY SMT
<1> QED BY <1>1, <1>2, <1>3, <1>4, SMT DEF InodesByRatio, EXT4_INODE_RATIO

\* The bitmaps of a group hold its blocks and inodes, and its metadata leaves
\* room: the inode table takes at most 1024 blocks, 128 in the smallest groups,
\* where the descriptors may take 4096.
RoomFor(g, bytes) ==
  /\ g.blocks_per_group \in Nat /\ 8192 <= g.blocks_per_group
  /\ g.blocks_per_group <= 8 * bytes
  /\ g.inodes_per_group \in Nat /\ 12 <= g.inodes_per_group
  /\ g.inodes_per_group <= 8 * bytes
  /\ g.inodes_per_group <= 4 * g.blocks_per_group
  /\ g.inodes_per_block \in Nat \ {0} /\ g.descs_per_block \in Nat \ {0}
  /\ \/ g.inodes_per_group <= 128 * g.inodes_per_block /\ g.descs_per_block >= 16
     \/ /\ g.inodes_per_group <= 1024 * g.inodes_per_block
        /\ g.blocks_per_group >= 16384 /\ g.descs_per_block >= 32

\* What init_ext4_sb chooses has that room, for each size of blocks.
LEMMA GroupSizesFit ==
  ASSUME NEW bytes \in BlockSizes, bytes >= 1024
  PROVE  RoomFor(GroupSizes(bytes), bytes)
<1> USE DEF EXT4_MAX_BLOCKS_PER_GROUP, EXT4_INODE_SIZE, EXT4_64BIT_DESC_SIZE, EXT4_INODE_RATIO
<1>1. CASE bytes = 1024
  BY <1>1, SMT DEF GroupSizes, min, InodesByRatio, RoomFor
<1>2. CASE bytes = 2048
  BY <1>2, SMT DEF GroupSizes, min, InodesByRatio, RoomFor
<1>3. CASE bytes = 4096
  BY <1>3, SMT DEF GroupSizes, min, InodesByRatio, RoomFor
<1>4. CASE bytes = 8192
  BY <1>4, SMT DEF GroupSizes, min, InodesByRatio, RoomFor
<1>5. CASE bytes = 16384
  BY <1>5, SMT DEF GroupSizes, min, InodesByRatio, RoomFor
<1>6. CASE bytes = 32768
  <2>1. min(bytes * 8, EXT4_MAX_BLOCKS_PER_GROUP) = 65528
    BY <1>6, SMT DEF min
  <2>2. min(InodesByRatio(65528, bytes), bytes * 8) = 131056
    BY <1>6, InodesOfLargeBlocks, SMT DEF min
  <2>3. bytes \div EXT4_INODE_SIZE = 128 /\ bytes \div EXT4_64BIT_DESC_SIZE = 512
    BY <1>6, SMT
  <2>4. /\ GroupSizes(bytes).blocks_per_group = 65528 /\ GroupSizes(bytes).inodes_per_group = 131056
        /\ GroupSizes(bytes).inodes_per_block = 128 /\ GroupSizes(bytes).descs_per_block = 512
    BY <2>1, <2>2, <2>3 DEF GroupSizes
  <2>5. 8 * bytes = 262144 /\ 1024 * 128 = 131072
    BY <1>6, SMT
  <2> QED BY <2>4, <2>5, SMT DEF RoomFor
<1>7. CASE bytes = 65536
  <2>1. min(bytes * 8, EXT4_MAX_BLOCKS_PER_GROUP) = 65528
    BY <1>7, SMT DEF min
  <2>2. min(InodesByRatio(65528, bytes), bytes * 8) = 262112
    BY <1>7, InodesOfLargeBlocks, SMT DEF min
  <2>3. bytes \div EXT4_INODE_SIZE = 256 /\ bytes \div EXT4_64BIT_DESC_SIZE = 1024
    BY <1>7, SMT
  <2>4. /\ GroupSizes(bytes).blocks_per_group = 65528 /\ GroupSizes(bytes).inodes_per_group = 262112
        /\ GroupSizes(bytes).inodes_per_block = 256 /\ GroupSizes(bytes).descs_per_block = 1024
    BY <2>1, <2>2, <2>3 DEF GroupSizes
  <2>5. 8 * bytes = 524288 /\ 1024 * 256 = 262144
    BY <1>7, SMT
  <2> QED BY <2>4, <2>5, SMT DEF RoomFor
<1>8. CASE bytes = 131072
  <2>1. min(bytes * 8, EXT4_MAX_BLOCKS_PER_GROUP) = 65528
    BY <1>8, SMT DEF min
  <2>2. min(InodesByRatio(65528, bytes), bytes * 8) = 262080
    BY <1>8, InodesOfLargeBlocks, SMT DEF min
  <2>3. bytes \div EXT4_INODE_SIZE = 512 /\ bytes \div EXT4_64BIT_DESC_SIZE = 2048
    BY <1>8, SMT
  <2>4. /\ GroupSizes(bytes).blocks_per_group = 65528 /\ GroupSizes(bytes).inodes_per_group = 262080
        /\ GroupSizes(bytes).inodes_per_block = 512 /\ GroupSizes(bytes).descs_per_block = 2048
    BY <2>1, <2>2, <2>3 DEF GroupSizes
  <2>5. 8 * bytes = 1048576 /\ 1024 * 512 = 524288
    BY <1>8, SMT
  <2> QED BY <2>4, <2>5, SMT DEF RoomFor
<1>9. CASE bytes = 262144
  <2>1. min(bytes * 8, EXT4_MAX_BLOCKS_PER_GROUP) = 65528
    BY <1>9, SMT DEF min
  <2>2. min(InodesByRatio(65528, bytes), bytes * 8) = 262016
    BY <1>9, InodesOfLargeBlocks, SMT DEF min
  <2>3. bytes \div EXT4_INODE_SIZE = 1024 /\ bytes \div EXT4_64BIT_DESC_SIZE = 4096
    BY <1>9, SMT
  <2>4. /\ GroupSizes(bytes).blocks_per_group = 65528 /\ GroupSizes(bytes).inodes_per_group = 262016
        /\ GroupSizes(bytes).inodes_per_block = 1024 /\ GroupSizes(bytes).descs_per_block = 4096
    BY <2>1, <2>2, <2>3 DEF GroupSizes
  <2>5. 8 * bytes = 2097152 /\ 1024 * 1024 = 1048576
    BY <1>9, SMT
  <2> QED BY <2>4, <2>5, SMT DEF RoomFor
<1>10. CASE bytes = 524288
  <2>1. min(bytes * 8, EXT4_MAX_BLOCKS_PER_GROUP) = 65528
    BY <1>10, SMT DEF min
  <2>2. min(InodesByRatio(65528, bytes), bytes * 8) = 261888
    BY <1>10, InodesOfLargeBlocks, SMT DEF min
  <2>3. bytes \div EXT4_INODE_SIZE = 2048 /\ bytes \div EXT4_64BIT_DESC_SIZE = 8192
    BY <1>10, SMT
  <2>4. /\ GroupSizes(bytes).blocks_per_group = 65528 /\ GroupSizes(bytes).inodes_per_group = 261888
        /\ GroupSizes(bytes).inodes_per_block = 2048 /\ GroupSizes(bytes).descs_per_block = 8192
    BY <2>1, <2>2, <2>3 DEF GroupSizes
  <2>5. 8 * bytes = 4194304 /\ 1024 * 2048 = 2097152
    BY <1>10, SMT
  <2> QED BY <2>4, <2>5, SMT DEF RoomFor
<1>11. bytes # 512
  BY SMT
<1> QED BY <1>1, <1>2, <1>3, <1>4, <1>5, <1>6, <1>7, <1>8, <1>9, <1>10, <1>11 DEF BlockSizes

\* ceildiv(a, b) is at most k if k units of size b hold a.
LEMMA CeildivAtMost ==
  ASSUME NEW a \in Nat, NEW b \in Nat \ {0}, NEW k \in Nat, a <= b * k
  PROVE  ceildiv(a, b) <= k
<1>1. PICK q \in Nat : q = ceildiv(a, b) /\ b * q < a + b
  BY CeildivBounds
<1>2. SUFFICES ASSUME k < q PROVE FALSE
  BY <1>1
<1>3. b * k + b <= b * q
  BY <1>2, TimesStep
<1>4. PICK x \in Nat, y \in Nat : x = b * k /\ y = b * q
  OBVIOUS
<1> QED BY <1>1, <1>3, <1>4

\* A group with that room is longer than its metadata, as there are fewer than
\* MaxBlocks blocks.
LEMMA OverheadFits ==
  ASSUME NEW g, NEW bytes \in Nat, RoomFor(g, bytes),
         g.blocks_count \in Nat, g.blocks_count < MaxBlocks
  PROVE  /\ OverheadWithSb(g) < g.blocks_per_group
         /\ inode_table_blocks(g) * g.inodes_per_block >= g.inodes_per_group
<1>1. PICK B \in Nat, P \in Nat \ {0}, I \in Nat, T \in Nat \ {0}, D \in Nat \ {0} :
        /\ B = g.blocks_count /\ P = g.blocks_per_group /\ I = g.inodes_per_group
        /\ T = g.inodes_per_block /\ D = g.descs_per_block
  <2>1. /\ g.blocks_per_group \in Nat \ {0} /\ g.inodes_per_group \in Nat
        /\ g.inodes_per_block \in Nat \ {0} /\ g.descs_per_block \in Nat \ {0}
    BY SMT DEF RoomFor
  <2> QED BY <2>1
<1>2. /\ B <= 8192 * 65536 /\ B <= 16384 * 32768 /\ 8192 <= P
      /\ \/ I <= 128 * T /\ D >= 16
         \/ I <= 1024 * T /\ P >= 16384 /\ D >= 32
  BY <1>1, SMT DEF RoomFor, MaxBlocks
<1>3. PICK n \in Nat, d \in Nat, t \in Nat :
        /\ n = ceildiv(B, P) /\ d = ceildiv(n, D) /\ t = ceildiv(I, T) /\ I <= T * t
  <2>1. ceildiv(B, P) \in Nat /\ ceildiv(I, T) \in Nat /\ I <= T * ceildiv(I, T)
    BY CeildivBounds
  <2>2. ceildiv(ceildiv(B, P), D) \in Nat
    BY <2>1, CeildivBounds
  <2> QED BY <2>1, <2>2
<1>4. n = block_group_count(g) /\ d = gdt_block_count(g) /\ t = inode_table_blocks(g)
  BY <1>1, <1>3 DEF block_group_count, gdt_block_count, inode_table_blocks
<1>5. inode_table_blocks(g) * g.inodes_per_block >= g.inodes_per_group
  <2>1. t * T >= I
    BY <1>3
  <2> QED BY <1>1, <1>4, <2>1
<1>6. 3 + d + t < P
  <2>1. CASE I <= 128 * T /\ D >= 16
    <3>1. n <= 65536
      <4>1. PICK k \in Nat : k = 65536
        BY SMT
      <4>2. B <= P * k
        BY <1>2, <2>1, <4>1, SMT
      <4>3. ceildiv(B, P) <= k
        BY <4>2, CeildivAtMost, Zenon
      <4> QED BY <1>3, <4>1, <4>3
    <3>2. d <= 4096
      <4>1. PICK k \in Nat : k = 4096
        BY SMT
      <4>2. n <= D * k
        BY <2>1, <3>1, <4>1, SMT
      <4>3. ceildiv(n, D) <= k
        BY <4>2, CeildivAtMost, Zenon
      <4> QED BY <1>3, <4>1, <4>3
    <3>3. t <= 128
      <4>1. PICK k \in Nat : k = 128
        BY SMT
      <4>2. I <= T * k
        BY <2>1, <4>1, SMT
      <4>3. ceildiv(I, T) <= k
        BY <4>2, CeildivAtMost, Zenon
      <4> QED BY <1>3, <4>1, <4>3
    <3> QED BY <1>2, <2>1, <3>2, <3>3, SMT
  <2>2. CASE I <= 1024 * T /\ P >= 16384 /\ D >= 32
    <3>1. n <= 32768
      <4>1. PICK k \in Nat : k = 32768
        BY SMT
      <4>2. B <= P * k
        BY <1>2, <2>2, <4>1, SMT
      <4>3. ceildiv(B, P) <= k
        BY <4>2, CeildivAtMost, Zenon
      <4> QED BY <1>3, <4>1, <4>3
    <3>2. d <= 1024
      <4>1. PICK k \in Nat : k = 1024
        BY SMT
      <4>2. n <= D * k
        BY <2>2, <3>1, <4>1, SMT
      <4>3. ceildiv(n, D) <= k
        BY <4>2, CeildivAtMost, Zenon
      <4> QED BY <1>3, <4>1, <4>3
    <3>3. t <= 1024
      <4>1. PICK k \in Nat : k = 1024
        BY SMT
      <4>2. I <= T * k
        BY <2>2, <4>1, SMT
      <4>3. ceildiv(I, T) <= k
        BY <4>2, CeildivAtMost, Zenon
      <4> QED BY <1>3, <4>1, <4>3
    <3> QED BY <1>2, <2>2, <3>2, <3>3, SMT
  <2> QED BY <1>2, <2>1, <2>2
<1> QED BY <1>1, <1>4, <1>5, <1>6 DEF OverheadWithSb

\* The sectors of an aligned partition in clusters: the data starts behind the
\* first and before the last, and it makes no difference whether the clusters
\* before the data are subtracted before or after the division.
LEMMA DataStarts ==
  ASSUME NEW b \in BootSectors, Aligned(b)
  PROVE  LET start  == sectors_before_data(b) \div b.sectors_per_cluster
             blocks == sector_count(b) \div b.sectors_per_cluster
         IN  /\ start \in Nat \ {0} /\ blocks \in Nat /\ start < blocks
             /\ blocks < MaxBlocks
             /\ (sector_count(b) - sectors_before_data(b)) \div b.sectors_per_cluster
                  = blocks - start
<1>1. /\ b.sectors_before_fat \in Nat \ {0} /\ b.sectors_per_fat \in Nat \ {0}
      /\ b.fat_count \in Nat \ {0} /\ b.sectors_per_cluster \in {1, 2, 4, 8, 16, 32, 64, 128}
      /\ b.sector_count \in Nat /\ b.total_sectors2 \in Nat
      /\ sectors_before_data(b) + b.sectors_per_cluster <= sector_count(b)
      /\ sector_count(b) \div b.sectors_per_cluster < MaxBlocks
  BY BootSectorsAssumption
<1>2. PICK m \in Nat \ {0} : m = b.sectors_per_cluster
  BY <1>1
<1>3. PICK p \in Nat \ {0} : p = sectors_before_data(b)
  <2>1. PICK f \in Nat : f = b.sectors_per_fat * b.fat_count
    BY <1>1
  <2> QED BY <1>1, <2>1 DEF sectors_before_data
<1>4. PICK n \in Nat : n = sector_count(b)
  BY <1>1 DEF sector_count
<1>5. PICK d \in Nat : d = p \div m /\ p = m * d
  <2>1. p \div m \in Nat /\ p = m * (p \div m) + (p % m)
    BY DivisionFacts
  <2>2. p % m = 0
    BY <1>2, <1>3 DEF Aligned
  <2> QED BY <2>1, <2>2
<1>6. PICK q \in Nat, r \in 0 .. m - 1 : q = n \div m /\ n = m * q + r
  <2>1. n \div m \in Nat /\ n % m \in 0 .. m - 1 /\ n = m * (n \div m) + (n % m)
    BY DivisionFacts
  <2> QED BY <2>1
<1>7. d # 0
  BY <1>5
<1>8. d < q
  <2>1. p + m <= n
    BY <1>1, <1>2, <1>3, <1>4
  <2>2. SUFFICES ASSUME q <= d PROVE FALSE
    OBVIOUS
  <2>3. m * q <= m * d
    BY <2>2, TimesMonotonic
  <2>4. PICK x \in Nat, y \in Nat : x = m * q /\ y = m * d
    OBVIOUS
  <2> QED BY <1>5, <1>6, <2>1, <2>3, <2>4
<1>9. (n - p) \div m = q - d
  <2>1. PICK e \in Nat : q = d + e
    <3>1. q - d \in Nat /\ q = d + (q - d)
      BY <1>8
    <3> QED BY <3>1
  <2>2. m * q = m * d + m * e
    BY <2>1
  <2>3. PICK a \in Nat : a = n - p /\ a = m * e + r
    <3>1. PICK x \in Nat, y \in Nat, z \in Nat : x = m * q /\ y = m * d /\ z = m * e
      OBVIOUS
    <3>2. n - p = z + r /\ z + r \in Nat
      BY <1>5, <1>6, <2>2, <3>1
    <3> QED BY <3>1, <3>2
  <2>4. e = a \div m
    BY <2>3, DivisionFacts
  <2> QED BY <2>1, <2>3, <2>4
<1> QED BY <1>1, <1>2, <1>3, <1>4, <1>5, <1>6, <1>7, <1>8, <1>9

\* The layout init_ext4_sb computes for an aligned partition with clusters of
\* at least 1 KiB.
LEMMA NewSuperblockUsable ==
  ASSUME NEW b \in BootSectors, Aligned(b), bytes_per_block(b) >= 1024,
         NEW g, g = NewSuperblock(b, sectors_before_data(b) \div b.sectors_per_cluster)
  PROVE  /\ UsableLayout(g)
         /\ g.blocks_per_group <= 8 * bytes_per_block(b)
         /\ 12 <= g.inodes_per_group /\ g.inodes_per_group <= 8 * bytes_per_block(b)
         /\ g.inodes_per_group \in Nat
         /\ inode_table_blocks(g) * g.inodes_per_block >= g.inodes_per_group
         /\ g.inodes_per_group <= 4 * g.blocks_per_group
         /\ data_cluster_count(g) =
              (sector_count(b) - sectors_before_data(b)) \div b.sectors_per_cluster
                + FAT_START_INDEX
<1>1. PICK bytes \in BlockSizes : bytes = bytes_per_block(b) /\ bytes >= 1024
  BY BlockSizeIsOneOf
<1>2. bytes \in Nat
  BY SMT DEF BlockSizes
<1>3. PICK start \in Nat \ {0}, blocks \in Nat :
        /\ start = sectors_before_data(b) \div b.sectors_per_cluster
        /\ blocks = sector_count(b) \div b.sectors_per_cluster
        /\ start < blocks /\ blocks < MaxBlocks
        /\ (sector_count(b) - sectors_before_data(b)) \div b.sectors_per_cluster
             = blocks - start
  BY DataStarts
<1>4. PICK s : s = GroupSizes(bytes)
  OBVIOUS
<1>5. RoomFor(s, bytes)
  BY <1>1, <1>4, GroupSizesFit
<1>6. /\ g.blocks_per_group = s.blocks_per_group /\ g.inodes_per_group = s.inodes_per_group
      /\ g.inodes_per_block = s.inodes_per_block /\ g.descs_per_block = s.descs_per_block
  BY <1>1, <1>4, SMT DEF NewSuperblock, GroupSizes
<1>7. /\ g.blocks_count = blocks /\ g.data_start = start
      /\ g.first_data_block = (IF bytes = 1024 THEN 1 ELSE 0)
  BY <1>1, <1>3, SMT DEF NewSuperblock
<1>8. RoomFor(g, bytes)
  BY <1>5, <1>6, SMT DEF RoomFor
<1>9. /\ OverheadWithSb(g) < g.blocks_per_group
      /\ inode_table_blocks(g) * g.inodes_per_block >= g.inodes_per_group
  BY <1>2, <1>3, <1>7, <1>8, OverheadFits
<1>10. g \in Superblocks
  <2>1. /\ g.blocks_count \in Nat /\ g.data_start \in Nat \ {0} /\ g.first_data_block \in {0, 1}
    BY <1>3, <1>7
  <2>2. /\ g.blocks_per_group \in Nat \ {0} /\ g.inodes_per_group \in Nat
        /\ g.inodes_per_block \in Nat \ {0} /\ g.descs_per_block \in Nat \ {0}
    BY <1>8, SMT DEF RoomFor
  <2>3. g = [ blocks_count |-> g.blocks_count, blocks_per_group |-> g.blocks_per_group,
              first_data_block |-> g.first_data_block,
              inodes_per_group |-> g.inodes_per_group,
              inodes_per_block |-> g.inodes_per_block,
              descs_per_block |-> g.descs_per_block, data_start |-> g.data_start ]
    BY DEF NewSuperblock
  <2> QED BY <2>1, <2>2, <2>3 DEF Superblocks
<1>11. UsableLayout(g)
  BY <1>3, <1>7, <1>9, <1>10 DEF UsableLayout
<1>12. data_cluster_count(g) = (blocks - start) + FAT_START_INDEX
  BY <1>3, <1>7 DEF data_cluster_count, FAT_START_INDEX
<1>13. /\ g.blocks_per_group <= 8 * bytes /\ g.inodes_per_group \in Nat
       /\ 12 <= g.inodes_per_group /\ g.inodes_per_group <= 8 * bytes
       /\ g.inodes_per_group <= 4 * g.blocks_per_group
  BY <1>8, SMT DEF RoomFor
<1> QED BY <1>1, <1>3, <1>9, <1>11, <1>12, <1>13

-----------------------------------------------------------------------------
(***************************************************************************)
(* The invariant of the steps of main.  A layout computed from an aligned  *)
(* boot sector is usable; while create_block_group_meta_extents runs, the  *)
(* array holds the metadata extents of the groups it has passed.           *)
(***************************************************************************)
MetaExtents(g, n) == [k \in 1 .. n |-> MetaExtent(g, k - 1)]

StartInv ==
  /\ boot_sector \in BootSectors
  /\ pc \in {"superblock", "extents", "ready"} =>
       /\ Aligned(boot_sector)
       /\ data_start = sectors_before_data(boot_sector) \div boot_sector.sectors_per_cluster
  /\ pc \in {"meta_info", "superblock"} => extents = <<>>
  /\ pc \in {"extents", "ready"} =>
       bytes_per_block(boot_sector) >= 1024 /\ sb = NewSuperblock(boot_sector, data_start)
  /\ pc = "extents" =>
       \E n \in 0 .. block_group_count(sb) : extents = MetaExtents(sb, n)
  /\ pc = "ready" => WellFormed(sb, extents)

\* The layout of a state in which the superblock has been computed is usable.
LEMMA StartLayout ==
  ASSUME StartInv, pc \in {"extents", "ready"}
  PROVE  UsableLayout(sb) /\ BitmapsFit /\ ClusterCountsAgree
<1>1. /\ boot_sector \in BootSectors /\ Aligned(boot_sector)
      /\ bytes_per_block(boot_sector) >= 1024
      /\ sb = NewSuperblock(boot_sector,
                 sectors_before_data(boot_sector) \div boot_sector.sectors_per_cluster)
  BY DEF StartInv
<1>2. /\ UsableLayout(sb)
      /\ sb.blocks_per_group <= 8 * bytes_per_block(boot_sector)
      /\ 12 <= sb.inodes_per_group
      /\ sb.inodes_per_group <= 8 * bytes_per_block(boot_sector)
      /\ sb.inodes_per_group \in Nat
      /\ inode_table_blocks(sb) * sb.inodes_per_block >= sb.inodes_per_group
      /\ sb.inodes_per_group <= 4 * sb.blocks_per_group
      /\ data_cluster_count(sb) =
           (sector_count(boot_sector) - sectors_before_data(boot_sector))
             \div boot_sector.sectors_per_cluster + FAT_START_INDEX
  BY <1>1, NewSuperblockUsable
<1>3. ClusterCountsAgree
  BY <1>2 DEF ClusterCountsAgree
<1>4. BitmapsFit
  <2>1. PICK n \in Nat, m \in Nat :
          n = sb.inodes_per_group /\ m = 8 * bytes_per_block(boot_sector)
    <3>1. bytes_per_block(boot_sector) \in Nat
      <4>1. \A x \in BlockSizes : x \in Nat
        BY SMT DEF BlockSizes
      <4> QED BY <1>1, <4>1, BlockSizeIsOneOf
    <3> QED BY <1>2, <3>1
  <2>2. n \in 12 .. m
    BY <1>2, <2>1
  <2> QED BY <1>2, <2>1, <2>2, Zenon DEF BitmapsFit
<1> QED BY <1>2, <1>3, <1>4

\* The array while the loop runs is a sequence of as many extents as groups
\* have been passed, and one more iteration appends the next one.
LEMMA MetaExtentsGrow ==
  ASSUME NEW g, UsableLayout(g), NEW n \in 0 .. block_group_count(g)
  PROVE  /\ MetaExtents(g, n) \in Seq([physical_start : Nat, length : Nat])
         /\ Len(MetaExtents(g, n)) = n
         /\ n < block_group_count(g) =>
              Append(MetaExtents(g, n), MetaExtent(g, n)) = MetaExtents(g, n + 1)
         /\ n = block_group_count(g) =>
              Append(MetaExtents(g, n), [physical_start |-> data_cluster_count(g), length |-> 1])
                = create_block_group_meta_extents(g)
<1> DEFINE E == [physical_start : Nat, length : Nat]
           sentinel == [physical_start |-> data_cluster_count(g), length |-> 1]
<1>1. PICK count \in Nat : count = block_group_count(g)
  BY GroupBounds
<1>2. n \in Nat /\ n <= count
  BY <1>1
<1>3. ASSUME NEW m \in Nat, m <= count
      PROVE  MetaExtents(g, m) \in Seq(E) /\ Len(MetaExtents(g, m)) = m
  <2>1. ASSUME NEW k \in 1 .. m
        PROVE  MetaExtent(g, k - 1) \in E
    <3>1. k - 1 \in GroupNumbers(g)
      BY <1>1, <1>3 DEF GroupNumbers
    <3> QED BY <3>1, MetaExtentFacts
  <2> QED BY <1>3, <2>1 DEF MetaExtents
<1>4. MetaExtents(g, n) \in Seq(E) /\ Len(MetaExtents(g, n)) = n
  BY <1>2, <1>3
<1>5. ASSUME n < count
      PROVE  Append(MetaExtents(g, n), MetaExtent(g, n)) = MetaExtents(g, n + 1)
  BY <1>2, <1>4, <1>5 DEF MetaExtents
<1>6. ASSUME n = count
      PROVE  Append(MetaExtents(g, n), sentinel) = create_block_group_meta_extents(g)
  BY <1>1, <1>2, <1>4, <1>6 DEF MetaExtents, create_block_group_meta_extents
<1> QED BY <1>1, <1>4, <1>5, <1>6

\* The invariant holds at the start.
LEMMA StartsInvariant == Init => StartInv
  BY DEF Init, StartInv

\* set_meta_info goes on only with an aligned partition.
LEMMA MetaInfoStep ==
  ASSUME StartInv, set_meta_info
  PROVE  StartInv'
  BY DEF StartInv, set_meta_info

\* init_ext4_sb goes on only with clusters of at least 1 KiB.
LEMMA SuperblockStep ==
  ASSUME StartInv, init_ext4_sb
  PROVE  StartInv'
<1>1. /\ pc = "superblock" /\ UNCHANGED <<boot_sector, data_start, extents>>
      /\ boot_sector \in BootSectors /\ Aligned(boot_sector) /\ extents = <<>>
      /\ data_start = sectors_before_data(boot_sector) \div boot_sector.sectors_per_cluster
  BY DEF StartInv, init_ext4_sb
<1>2. CASE bytes_per_block(boot_sector) < 1024
  BY <1>1, <1>2 DEF StartInv, init_ext4_sb
<1>3. CASE ~ (bytes_per_block(boot_sector) < 1024)
  <2>1. pc' = "extents" /\ sb' = NewSuperblock(boot_sector, data_start)
    BY <1>3 DEF init_ext4_sb
  <2>2. bytes_per_block(boot_sector) >= 1024
    <3>1. bytes_per_block(boot_sector) \in Nat
      <4>1. \A x \in BlockSizes : x \in Nat
        BY SMT DEF BlockSizes
      <4> QED BY <1>1, <4>1, BlockSizeIsOneOf
    <3> QED BY <1>3, <3>1
  <2>3. UsableLayout(sb')
    BY <1>1, <2>1, <2>2, NewSuperblockUsable
  <2>4. extents' = MetaExtents(sb', 0) /\ 0 \in 0 .. block_group_count(sb')
    <3>1. block_group_count(sb') \in Nat
      BY <2>3, GroupBounds
    <3>2. extents' = <<>> /\ MetaExtents(sb', 0) = <<>>
      BY <1>1 DEF MetaExtents
    <3> QED BY <3>1, <3>2
  <2> QED BY <1>1, <2>1, <2>2, <2>4 DEF StartInv
<1> QED BY <1>2, <1>3

\* An iteration of create_block_group_meta_extents appends the extent of the
\* next group.
LEMMA MetaExtentStep ==
  ASSUME StartInv, NextMetaExtent
  PROVE  StartInv'
<1>1. /\ pc = "extents" /\ UNCHANGED <<boot_sector, data_start, sb>>
      /\ Len(extents) < block_group_count(sb)
  BY DEF NextMetaExtent
<1>2. UsableLayout(sb)
  BY <1>1, StartLayout
<1>3. PICK n \in 0 .. block_group_count(sb) : extents = MetaExtents(sb, n)
  BY <1>1 DEF StartInv
<1>4. PICK count \in Nat : count = block_group_count(sb)
  BY <1>2, GroupBounds
<1>5. Len(extents) = n /\ n \in Nat /\ n < count
  <2>1. Len(MetaExtents(sb, n)) = n
    BY <1>2, MetaExtentsGrow, Zenon
  <2> QED BY <1>1, <1>3, <1>4, <2>1
<1>6. CASE pc' = "exited" /\ UNCHANGED extents
  BY <1>1, <1>6 DEF StartInv
<1>7. CASE pc' = pc /\ extents' = Append(extents, MetaExtent(sb, Len(extents)))
  <2>1. extents' = MetaExtents(sb', n + 1)
    BY <1>1, <1>2, <1>3, <1>4, <1>5, <1>7, MetaExtentsGrow
  <2>2. n + 1 \in 0 .. block_group_count(sb')
    BY <1>1, <1>4, <1>5
  <2> QED BY <1>1, <1>7, <2>1, <2>2 DEF StartInv
<1> QED BY <1>6, <1>7 DEF NextMetaExtent

\* init_extent_allocator: the array is complete, and sorted it is well formed.
LEMMA AllocatorStep ==
  ASSUME StartInv, init_extent_allocator
  PROVE  StartInv'
<1> DEFINE sentinel == [physical_start |-> data_cluster_count(sb), length |-> 1]
<1>1. /\ pc = "extents" /\ pc' = "ready" /\ UNCHANGED <<boot_sector, data_start, sb>>
      /\ Len(extents) = block_group_count(sb)
      /\ extents' \in SortedPermutations(Append(extents, sentinel), Len(extents))
  BY DEF init_extent_allocator
<1>2. UsableLayout(sb)
  BY <1>1, StartLayout
<1>3. PICK n \in 0 .. block_group_count(sb) : extents = MetaExtents(sb, n)
  BY <1>1 DEF StartInv
<1>4. n = block_group_count(sb)
  <2>1. Len(MetaExtents(sb, n)) = n
    BY <1>2, MetaExtentsGrow, Zenon
  <2> QED BY <1>1, <1>3, <2>1
<1>5. Append(extents, sentinel) = create_block_group_meta_extents(sb)
  <2>1. Append(MetaExtents(sb, n), sentinel) = create_block_group_meta_extents(sb)
    BY <1>2, <1>4, MetaExtentsGrow, Zenon
  <2> QED BY <1>3, <2>1
<1>6. WellFormed(sb, extents')
  BY <1>1, <1>2, <1>5, SortedExtentsWellFormed
<1> HIDE DEF sentinel
<1> QED BY <1>1, <1>6 DEF StartInv

\* StartInv is an invariant of the start of main, for every FAT32 boot sector.
THEOREM StartInvariance == Spec => []StartInv
<1>1. StartInv /\ [Next]_vars => StartInv'
  <2>1. SUFFICES ASSUME StartInv, [Next]_vars PROVE StartInv'
    OBVIOUS
  <2>2. CASE set_meta_info
    BY <2>1, <2>2, MetaInfoStep
  <2>3. CASE init_ext4_sb
    BY <2>1, <2>3, SuperblockStep
  <2>4. CASE NextMetaExtent
    BY <2>1, <2>4, MetaExtentStep
  <2>5. CASE init_extent_allocator
    BY <2>1, <2>5, AllocatorStep
  <2>6. CASE Stopped \/ UNCHANGED vars
    <3>1. UNCHANGED vars
      BY <2>6 DEF Stopped
    <3> QED BY <2>1, <3>1 DEF StartInv, vars
  <2> QED BY <2>1, <2>2, <2>3, <2>4, <2>5, <2>6 DEF Next
<1> QED BY <1>1, StartsInvariant, PTL DEF Spec

\* Whatever boot sector main goes on with, the layout it computes is usable:
\* the assumption of the allocator, the mapper, the block groups and main.
THEOREM LayoutAlwaysUsable == Spec => []ReadyLayoutUsable
<1>1. StartInv => ReadyLayoutUsable
  BY StartLayout DEF ReadyLayoutUsable
<1> QED BY <1>1, StartInvariance, PTL

\* The blocked extents the allocator is initialized with are well formed.
THEOREM ExtentsAlwaysWellFormed == Spec => []ReadyExtentsWellFormed
<1>1. StartInv => ReadyExtentsWellFormed
  BY DEF StartInv, ReadyExtentsWellFormed
<1> QED BY <1>1, StartInvariance, PTL

-----------------------------------------------------------------------------
(* The name of the volume.                                                 *)

\* Where the search is: all of the label behind the index is blank.
LabelInv ==
  /\ ext_boot_signature \in {NoLabelSignature, LabelSignature}
  /\ volume_label \in Labels /\ volume_id \in VolumeIds
  /\ index \in -(IdBytes + 1) .. LabelBytes - 1
  /\ \A k \in index + 1 .. LabelBytes - 1 : BootByte(k) = Blank
  /\ LabelKept

\* A label whose last character that is not blank is the n-th, trimmed.
LEMMA TrimmedAt ==
  ASSUME volume_label \in Labels, NEW n \in 0 .. LabelBytes,
         n > 0 => volume_label[n] # Blank,
         \A k \in n + 1 .. LabelBytes : volume_label[k] = Blank
  PROVE  Trimmed = SubSeq(volume_label, 1, n)
<1> DEFINE S == {0} \cup { k \in 1 .. LabelBytes : volume_label[k] # Blank }
<1>1. LabelBytes \in Nat  BY LabelAssumption
<1>2. n \in S  BY <1>1
<1>3. \A k \in S : k \in Nat /\ n >= k  BY <1>1
<1>4. \A m \in S : (\A k \in S : m >= k) => m = n  BY <1>2, <1>3
<1>5. Max(S) = n  BY <1>2, <1>3, <1>4 DEF Max
<1> QED BY <1>5 DEF Trimmed

\* A label of blanks, trimmed.
LEMMA BlankTrimmed ==
  ASSUME volume_label \in Labels, \A k \in 1 .. LabelBytes : volume_label[k] = Blank
  PROVE  Trimmed = <<>>
<1>1. LabelBytes \in Nat /\ volume_label \in Seq(0 .. 255)  BY LabelAssumption
<1>2. 0 \in 0 .. LabelBytes /\ \A k \in 0 + 1 .. LabelBytes : volume_label[k] = Blank
  BY <1>1
<1>3. Trimmed = SubSeq(volume_label, 1, 0)  BY <1>2, TrimmedAt
<1> QED BY <1>1, <1>3, SubSeqProperties

\* The label behind the index, by the bytes of the boot sector.
LEMMA BlankBehind ==
  ASSUME LabelInv
  PROVE  /\ LabelBytes \in Nat \ {0} /\ IdBytes \in Nat \ {0} /\ index \in Int
         /\ \A k \in 1 .. LabelBytes : k > index + 1 => volume_label[k] = Blank
         /\ index < -1 => volume_id[IdBytes] = Blank
         /\ index >= 0 => BootByte(index) = volume_label[index + 1]
         /\ index = -(IdBytes + 1) => BootByte(index) # Blank
<1>1. LabelBytes \in Nat \ {0} /\ IdBytes \in Nat \ {0} /\ index \in Int
  BY LabelAssumption DEF LabelInv
<1>2. ASSUME NEW k \in 1 .. LabelBytes, k > index + 1
      PROVE  volume_label[k] = Blank
  <2>1. k - 1 \in index + 1 .. LabelBytes - 1  BY <1>1, <1>2
  <2>2. BootByte(k - 1) = Blank  BY <2>1 DEF LabelInv
  <2>3. k - 1 >= 0 /\ k - 1 + 1 = k /\ ~ (k - 1 < -IdBytes)  BY <1>1
  <2> QED BY <2>2, <2>3 DEF BootByte
<1>3. ASSUME index < -1
      PROVE  volume_id[IdBytes] = Blank
  <2>1. -1 \in index + 1 .. LabelBytes - 1  BY <1>1, <1>3
  <2>2. BootByte(-1) = Blank  BY <2>1 DEF LabelInv
  <2>3. ~ (-1 >= 0) /\ ~ (-1 < -IdBytes) /\ IdBytes + (-1) + 1 = IdBytes  BY <1>1
  <2> QED BY <2>2, <2>3 DEF BootByte
<1>4. ASSUME index >= 0
      PROVE  BootByte(index) = volume_label[index + 1]
  <2>1. ~ (index < -IdBytes)  BY <1>1, <1>4
  <2> QED BY <1>4, <2>1 DEF BootByte
<1>5. ASSUME index = -(IdBytes + 1)
      PROVE  BootByte(index) # Blank
  <2>1. ~ (index >= 0) /\ index < -IdBytes  BY <1>1, <1>5
  <2>2. BootByte(index) = ext_boot_signature  BY <2>1 DEF BootByte
  <2> QED BY <2>2 DEF LabelInv, NoLabelSignature, LabelSignature, Blank
<1> QED BY <1>1, <1>2, <1>3, <1>4, <1>5

\* The search starts behind the label.
LEMMA LabelStarts == LabelInit => LabelInv
<1> SUFFICES ASSUME LabelInit PROVE LabelInv
  OBVIOUS
<1>1. LabelBytes \in Nat \ {0} /\ IdBytes \in Nat \ {0}  BY LabelAssumption
<1>2. /\ index \in -(IdBytes + 1) .. LabelBytes - 1
      /\ index + 1 .. LabelBytes - 1 = {}
  BY <1>1 DEF LabelInit
<1>3. LabelKept  BY DEF LabelInit, LabelKept
<1> QED BY <1>2, <1>3 DEF LabelInit, LabelInv

\* The index goes over blanks only.
LEMMA SkipBlankStep == LabelInv /\ SkipBlank => LabelInv'
<1> SUFFICES ASSUME LabelInv, SkipBlank PROVE LabelInv'
  OBVIOUS
<1>1. /\ LabelBytes \in Nat \ {0} /\ IdBytes \in Nat \ {0} /\ index \in Int
      /\ index # -(IdBytes + 1)
  BY BlankBehind DEF SkipBlank
<1>2. /\ index' = index - 1 /\ UNCHANGED <<ext_boot_signature, volume_id, volume_label>>
      /\ label_pc = "read" /\ label_pc' = "read"
  BY DEF SkipBlank, bootVars
<1>3. index' \in -(IdBytes + 1) .. LabelBytes - 1  BY <1>1, <1>2 DEF LabelInv
<1>4. \A k : BootByte(k)' = BootByte(k)  BY <1>2 DEF BootByte
<1>5. ASSUME NEW k \in index' + 1 .. LabelBytes - 1
      PROVE  BootByte(k)' = Blank
  <2>1. k = index \/ k \in index + 1 .. LabelBytes - 1  BY <1>1, <1>2
  <2>2. BootByte(k) = Blank  BY <2>1 DEF LabelInv, SkipBlank
  <2> QED BY <2>2, <1>4
<1>6. LabelKept'  BY <1>2 DEF LabelKept
<1> QED BY <1>2, <1>3, <1>5, <1>6 DEF LabelInv

\* What is copied is the label up to the index.
LEMMA CopyLabelStep == LabelInv /\ CopyLabel => LabelInv'
<1> SUFFICES ASSUME LabelInv, CopyLabel PROVE LabelInv'
  OBVIOUS
<1>1. /\ UNCHANGED <<ext_boot_signature, volume_id, volume_label, index>>
      /\ ext_boot_signature # NoLabelSignature /\ BootByte(index) # Blank
  BY DEF CopyLabel, bootVars
<1>2. /\ LabelBytes \in Nat \ {0} /\ index \in Int /\ index <= LabelBytes - 1
      /\ \A k \in 1 .. LabelBytes : k > index + 1 => volume_label[k] = Blank
      /\ index < -1 => volume_id[IdBytes] = Blank
      /\ index >= 0 => volume_label[index + 1] # Blank
      /\ volume_label \in Labels
  BY <1>1, BlankBehind DEF LabelInv
<1>3. Trimmed' = Trimmed  BY <1>1 DEF Trimmed
<1>6. LabelKept' => LabelInv'  BY <1>1 DEF LabelInv, BootByte
<1>4. CASE index >= -1
  <2>1. index + 1 \in 0 .. LabelBytes  BY <1>2, <1>4
  <2>2. \A k \in index + 1 + 1 .. LabelBytes : volume_label[k] = Blank
    <3> TAKE k \in index + 1 + 1 .. LabelBytes
    <3>1. k \in 1 .. LabelBytes /\ k > index + 1  BY <2>1, <1>2
    <3> QED BY <3>1, <1>2
  <2>3. index + 1 > 0 => index >= 0  BY <1>2
  <2>4. Trimmed = SubSeq(volume_label, 1, index + 1)
    BY <1>2, <2>1, <2>2, <2>3, TrimmedAt
  <2>5. out' = Trimmed /\ label_pc' = "done"  BY <2>4, <1>4 DEF CopyLabel, Length
  <2>6. LabelKept'  BY <1>1, <1>3, <2>5 DEF LabelKept
  <2> QED BY <2>6, <1>6
<1>5. CASE ~ (index >= -1)
  <2>1. index < -1  BY <1>2, <1>5
  <2>2. \A k \in 1 .. LabelBytes : volume_label[k] = Blank
    <3> TAKE k \in 1 .. LabelBytes
    <3>1. k > index + 1  BY <2>1, <1>2
    <3> QED BY <3>1, <1>2
  <2>3. Trimmed = <<>>  BY <1>2, <2>2, BlankTrimmed
  <2>4. label_pc' = "astray"  BY <1>5 DEF CopyLabel
  <2>5. LabelKept'  BY <1>1, <1>2, <1>3, <2>1, <2>3, <2>4 DEF LabelKept
  <2> QED BY <2>5, <1>6
<1> QED BY <1>4, <1>5

\* The inductive invariant of read_volume_label: behind the index there are
\* only blanks.
THEOREM LabelInvariance == LabelSpec => []LabelInv
<1>1. LabelInv /\ [LabelNext]_labelVars => LabelInv'
  <2> SUFFICES ASSUME LabelInv, [LabelNext]_labelVars PROVE LabelInv'
    OBVIOUS
  <2>1. CASE NoLabel
    BY <2>1 DEF NoLabel, bootVars, LabelInv, LabelKept, BootByte
  <2>2. CASE SkipBlank  BY <2>2, SkipBlankStep
  <2>3. CASE CopyLabel  BY <2>3, CopyLabelStep
  <2>4. CASE UNCHANGED labelVars
    BY <2>4 DEF labelVars, bootVars, LabelInv, LabelKept, Trimmed, BootByte
  <2> QED BY <2>1, <2>2, <2>3, <2>4 DEF LabelNext, LabelEnded
<1> QED BY <1>1, LabelStarts, PTL DEF LabelSpec

\* The name of the ext4 volume is the label without the blanks at its end, for
\* labels of every length; only a blank one behind a blank id leads astray.
THEOREM LabelIsKept == LabelSpec => []LabelKept
<1>1. LabelInv => LabelKept  BY DEF LabelInv
<1> QED BY <1>1, LabelInvariance, PTL
=============================================================================
