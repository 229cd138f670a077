-------------------------- MODULE ConverterProofs --------------------------
(***************************************************************************)
(* What main keeps intact, for every usable layout and every FAT file      *)
(* system whose clusters have one owner each.                              *)
(***************************************************************************)
EXTENDS Converter, GeometryProofs, FiniteSetTheorems, SequenceTheorems, WellFoundedInduction

DataBlocks == layout.data_start .. layout.blocks_count - 1

\* The steps between InitConversion and the end of the program.
Converting == step \in {"map", "groups", "build", "lost+found", "finalize", "done"}

Inputs ==
  /\ layout \in Layouts
  /\ files \in FileSystems
  /\ Used(files) \subseteq DataBlocks

\* The blocks of the allocator and the stream are apart, and in neither the
\* FAT nor the metadata.
Space ==
  /\ avail \subseteq Available(MetaBlocks)
  /\ pages \subseteq Available(MetaBlocks)
  /\ pages \cap avail = {}
  /\ Converting => blocked = MetaBlocks

\* Where the loops stand.
Progress ==
  /\ step \in {"open", "init", "map", "groups", "build", "lost+found", "finalize", "done",
               "failed", "exited", "crashed"}
  /\ committed \in BOOLEAN
  /\ i \in Nat
  /\ f \in Nat
  /\ map \in Seq(Seq(Nat))
  /\ step \in {"open", "init", "map"} => ~ committed /\ i = 0
  /\ step = "groups" => (i > 0 => committed)
  /\ step \in {"build", "lost+found", "finalize", "done"} => committed
  /\ step = "map" => f \in 1 .. Len(files) /\ Len(map) = f
  /\ step = "groups" => f = 1
  /\ step = "build" => f \in 1 .. Len(files) + 1
  /\ step = "lost+found" => f = Len(files) + 1
  /\ step \in {"groups", "build", "lost+found"} => Len(map) = Len(files)
  /\ step \in {"finalize", "done"} => Len(map) = Len(files) + 1
  /\ step = "finalize" => i <= 3

\* Every file is mapped to the end of its chain, except the one at hand, and
\* except that a directory's chain may be cut or grow when it is built.
Mapped ==
  /\ step = "map" =>
       /\ Len(map[f]) <= Len(files[f].chain)
       /\ \A n \in 1 .. f - 1 : Len(map[n]) = Len(files[n].chain)
  /\ step \in {"groups", "build", "lost+found", "finalize", "done"} =>
       \A n \in 1 .. Len(files) : ~ files[n].dir => Len(map[n]) = Len(files[n].chain)

\* The blocks of files are in the data area, but not in the metadata, the
\* stream or the allocator's hands.  A block FAT used is in its old place in
\* the chain, and no block is listed twice.
Owners ==
  Converting =>
    /\ \A n \in 1 .. Len(map) : \A k \in 1 .. Len(map[n]) :
         /\ map[n][k] \in DataBlocks
         /\ map[n][k] \notin MetaBlocks
         /\ map[n][k] \notin pages
         /\ map[n][k] \notin avail
         /\ map[n][k] \in Used(files) =>
              /\ n \in 1 .. Len(files)
              /\ k \in 1 .. Len(files[n].chain)
              /\ map[n][k] = files[n].chain[k]
    /\ \A n, m \in 1 .. Len(map) : \A k \in 1 .. Len(map[n]), l \in 1 .. Len(map[m]) :
         map[n][k] = map[m][l] => n = m /\ k = l

Contents ==
  /\ mem \in [Blocks -> Int]
  /\ DOMAIN versions = Blocks
  /\ ~ committed => \A b \in FatBlocks : versions[b] = {b} /\ mem[b] = b

\* The clusters of files that are not directories, in the blocks they are mapped to.
FilesKept ==
  Converting =>
    \A n \in 1 .. Len(files) :
      n <= Len(map) /\ ~ files[n].dir =>
        \A k \in 1 .. Len(map[n]) : mem[map[n][k]] = files[n].chain[k]

DirectoriesBuilt ==
  \A n \in 1 .. Len(files) :
    files[n].dir /\ ((step = "build" /\ n < f) \/ step \in {"lost+found", "finalize", "done"}) =>
      \A b \in FileBlocks(n) : mem[b] = Dir

TablesBuilt ==
  \A num \in GroupNumbers(layout) :
    (step = "groups" /\ num < i) \/ step \in {"build", "lost+found", "finalize", "done"} =>
      \A b \in TableBlocks(num) \cap Blocks : mem[b] = Meta

CopiesWritten ==
  \A j \in 1 .. 3 :
    (step = "finalize" /\ j <= i) \/ step = "done" =>
      \A b \in CopyBlocks(CopyOrder[j]) \cap Blocks : mem[b] = Super

ConversionInv ==
  /\ Inputs /\ Space /\ Progress /\ Mapped /\ Owners /\ Contents
  /\ StreamIntact /\ FilesKept /\ DirectoriesBuilt /\ TablesBuilt /\ CopiesWritten

-----------------------------------------------------------------------------
(* The operators of the model.                                             *)

\* allocate_extent(1) grants one of the available clusters.
LEMMA MinInSet ==
  ASSUME NEW S, S \subseteq Nat, S # {}
  PROVE  Min(S) \in S
<1>1. PICK x \in S : \A y \in S : ~ (<<y, x>> \in OpToRel(<, Nat))
  BY NatLessThanWellFounded, WFMin, Zenon
<1>2. ASSUME NEW y \in S PROVE x <= y
  <2>1. <<y, x>> \notin OpToRel(<, Nat)  BY <1>1
  <2>2. x \in Nat /\ y \in Nat  OBVIOUS
  <2>3. <<y, x>> \in Nat \X Nat /\ <<y, x>>[1] = y /\ <<y, x>>[2] = x  BY <2>2
  <2>4. y < x => <<y, x>> \in OpToRel(<, Nat)  BY <2>3, Zenon DEF OpToRel
  <2>5. ~ (y < x)  BY <2>1, <2>4, Zenon
  <2> QED BY <2>2, <2>5
<1> QED BY <1>2, Zenon DEF Min

\* The layouts main lets through, and where their data area lies.
LEMMA LayoutFacts ==
  ASSUME layout \in Layouts
  PROVE  /\ UsableLayout(layout)
         /\ layout.data_start \in Nat \ {0}
         /\ layout.blocks_count \in Nat
         /\ layout.data_start < layout.blocks_count
         /\ DataBlocks \subseteq Blocks
         /\ Blocks \subseteq Nat
<1>1. UsableLayout(layout)  BY LayoutsAssumption
<1>2. /\ layout.data_start \in Nat \ {0}
      /\ layout.blocks_count \in Nat
      /\ layout.data_start < layout.blocks_count
  BY <1>1 DEF UsableLayout, Superblocks
<1> QED BY <1>1, <1>2 DEF DataBlocks, Blocks

\* create_block_group_meta_extents leaves out no metadata of the data area.
LEMMA MetadataIsBlocked ==
  ASSUME layout \in Layouts, NEW num \in GroupNumbers(layout),
         NEW b \in block_group_start(layout, num) ..
                   block_group_start(layout, num) + block_group_overhead(layout, num) - 1,
         b \in DataBlocks
  PROVE  b \in MetaBlocks
<1> DEFINE exts == create_block_group_meta_extents(layout)
           c == b - layout.data_start + FAT_START_INDEX
           n == block_group_count(layout)
<1>1. /\ UsableLayout(layout) /\ layout.data_start \in Nat /\ layout.blocks_count \in Nat
  BY LayoutFacts
<1>2. b \in Int /\ layout.data_start <= b /\ b <= layout.blocks_count - 1
  BY <1>1 DEF DataBlocks
<1>3. fat_cl_to_e4blk(layout, c) = b /\ c \in DataClusters(layout)
  BY <1>1, <1>2 DEF fat_cl_to_e4blk, FAT_START_INDEX, DataClusters, data_cluster_count
<1>4. n \in Nat \ {0}  BY <1>1, GroupBounds
<1>5. num + 1 \in 1 .. n /\ exts[num + 1] = MetaExtent(layout, num)
  BY <1>4 DEF GroupNumbers, create_block_group_meta_extents
<1>6. /\ exts[num + 1] \in [physical_start : Nat, length : Nat]
      /\ exts[num + 1].physical_start <= c
      /\ c < PhysicalEnd(exts[num + 1])
  BY <1>1, <1>3, <1>5, MetaExtentFacts
<1>7. c \in exts[num + 1].physical_start .. PhysicalEnd(exts[num + 1]) - 1
  <2>1. c \in Int  BY <1>1, <1>2 DEF FAT_START_INDEX
  <2> HIDE DEF exts, c
  <2> QED BY <1>6, <2>1 DEF PhysicalEnd
<1> HIDE DEF exts, c, n
<1>8. c \in UNION { exts[k].physical_start .. PhysicalEnd(exts[k]) - 1 : k \in 1 .. n }
  BY <1>5, <1>7
<1> QED BY <1>3, <1>8, Zenon DEF MetaBlocks, exts, n

\* What init_extent_allocator leaves to grant is in the data area, and neither
\* in FAT nor in the metadata.
LEMMA AvailableFacts ==
  ASSUME Inputs, NEW b \in Available(MetaBlocks)
  PROVE  /\ b \in DataBlocks /\ b \in Blocks /\ b \in Nat
         /\ b \notin Used(files) /\ b \notin FatBlocks
         /\ b \notin MetaBlocks
<1>1. b \in DataBlocks /\ b \notin Used(files) /\ b \notin MetaBlocks
  BY Zenon DEF Available, DataBlocks
<1>2. b \in Blocks /\ b \in Nat  BY <1>1, LayoutFacts DEF Inputs
<1>3. b \notin 0 .. layout.data_start - 1
  BY <1>1, LayoutFacts DEF DataBlocks, Inputs
<1> QED BY <1>1, <1>2, <1>3 DEF FatBlocks

\* The copies of superblock and descriptors lie in a group's metadata.
LEMMA CopyBlocksFacts ==
  ASSUME layout \in Layouts, NEW num \in GroupNumbers(layout)
  PROVE  /\ CopyBlocks(num) \subseteq block_group_start(layout, num) ..
              block_group_start(layout, num) + block_group_overhead(layout, num) - 1
         /\ TableBlocks(num) \subseteq block_group_start(layout, num) ..
              block_group_start(layout, num) + block_group_overhead(layout, num) - 1
<1>1. UsableLayout(layout)  BY LayoutFacts
<1>2. /\ layout.descs_per_block \in Nat \ {0} /\ layout.inodes_per_block \in Nat \ {0}
      /\ layout.inodes_per_group \in Nat
  BY <1>1 DEF UsableLayout, Superblocks
<1>3. block_group_count(layout) \in Nat /\ block_group_start(layout, num) \in Nat
  BY <1>1, GroupBounds
<1>4. gdt_block_count(layout) \in Nat /\ inode_table_blocks(layout) \in Nat
  BY <1>2, <1>3, CeildivBounds DEF gdt_block_count, inode_table_blocks
<1>5. block_group_has_sb_copy(layout, num) =>
        block_group_overhead(layout, num) = 3 + gdt_block_count(layout) + inode_table_blocks(layout)
  BY DEF block_group_overhead, OverheadWithSb
<1>6. CASE block_group_has_sb_copy(layout, num)
  BY <1>3, <1>4, <1>5, <1>6 DEF CopyBlocks, TableBlocks
<1>7. CASE ~ block_group_has_sb_copy(layout, num)
  BY <1>7 DEF CopyBlocks, TableBlocks
<1> QED BY <1>6, <1>7

\* In the data area, what init_ext4_group_descs and write_sb_copy write to is
\* blocked.
LEMMA GroupWritesBlocked ==
  ASSUME layout \in Layouts, NEW num \in GroupNumbers(layout), NEW b \in DataBlocks,
         b \in CopyBlocks(num) \/ b \in TableBlocks(num)
  PROVE  b \in MetaBlocks
<1>1. b \in block_group_start(layout, num) ..
            block_group_start(layout, num) + block_group_overhead(layout, num) - 1
  BY CopyBlocksFacts
<1> QED BY <1>1, MetadataIsBlocked

\* write_sb_copy does not write over bitmaps and inode tables.
LEMMA CopiesApartFromTables ==
  ASSUME layout \in Layouts, NEW n \in GroupNumbers(layout), NEW m \in GroupNumbers(layout)
  PROVE  CopyBlocks(n) \cap TableBlocks(m) = {}
<1>1. UsableLayout(layout)  BY LayoutFacts
<1>2. CASE n = m  BY <1>2 DEF TableBlocks
<1>3. CASE n # m
  <2>1. n < m \/ m < n  BY <1>1, <1>3, GroupBounds DEF GroupNumbers
  <2>2. /\ block_group_start(layout, n) \in Nat /\ block_group_start(layout, m) \in Nat
        /\ block_group_overhead(layout, n) \in Nat /\ block_group_overhead(layout, m) \in Nat
    <3>1. layout.blocks_per_group \in Nat  BY <1>1 DEF UsableLayout, Superblocks
    <3> QED BY <1>1, <3>1, GroupBounds
  <2>3. \/ block_group_start(layout, n) + block_group_overhead(layout, n) < block_group_start(layout, m)
        \/ block_group_start(layout, m) + block_group_overhead(layout, m) < block_group_start(layout, n)
    BY <1>1, <2>1, GroupsApart
  <2>4. SUFFICES ASSUME NEW b \in CopyBlocks(n), b \in TableBlocks(m) PROVE FALSE
    OBVIOUS
  <2>5. /\ b \in block_group_start(layout, n) ..
                 block_group_start(layout, n) + block_group_overhead(layout, n) - 1
        /\ b \in block_group_start(layout, m) ..
                 block_group_start(layout, m) + block_group_overhead(layout, m) - 1
    BY <2>4, CopyBlocksFacts
  <2> QED BY <2>2, <2>3, <2>5
<1> QED BY <1>2, <1>3

\* finalize_block_groups_on_disk writes to groups, and to all that have a copy.
LEMMA CopyOrderFacts ==
  ASSUME layout \in Layouts
  PROVE  /\ \A j \in 1 .. 3 : CopyOrder[j] \in GroupNumbers(layout)
         /\ \A num : block_group_has_sb_copy(layout, num) => \E j \in 1 .. 3 : num = CopyOrder[j]
<1>1. block_group_count(layout) \in Nat \ {0}  BY LayoutFacts, GroupBounds
<1>2. /\ backup_bgs(layout)[1] = IF block_group_count(layout) > 1 THEN 1 ELSE 0
      /\ backup_bgs(layout)[2] = IF block_group_count(layout) > 2 THEN block_group_count(layout) - 1 ELSE 0
  BY DEF backup_bgs
<1>3. /\ backup_bgs(layout)[1] \in GroupNumbers(layout) /\ backup_bgs(layout)[2] \in GroupNumbers(layout)
      /\ 0 \in GroupNumbers(layout)
  BY <1>1, <1>2 DEF GroupNumbers
<1>4. /\ CopyOrder[1] = 0 /\ CopyOrder[2] = backup_bgs(layout)[1]
      /\ CopyOrder[3] = backup_bgs(layout)[2]
  BY DEF CopyOrder
<1>5. \A j \in 1 .. 3 : j = 1 \/ j = 2 \/ j = 3  OBVIOUS
<1>6. 1 \in 1 .. 3 /\ 2 \in 1 .. 3 /\ 3 \in 1 .. 3  OBVIOUS
<1> QED BY <1>3, <1>4, <1>5, <1>6, Zenon DEF block_group_has_sb_copy

\* What is derived from the layout and the FAT stays as it is.
LEMMA InputsStay ==
  ASSUME Inputs, UNCHANGED inputVars
  PROVE  /\ layout' = layout /\ files' = files
         /\ Inputs' /\ Blocks' = Blocks /\ DataBlocks' = DataBlocks
         /\ MetaBlocks' = MetaBlocks /\ FatBlocks' = FatBlocks
         /\ Used(files)' = Used(files)
         /\ Available(MetaBlocks)' = Available(MetaBlocks)
         /\ GroupNumbers(layout)' = GroupNumbers(layout)
         /\ \A num : TableBlocks(num)' = TableBlocks(num) /\ CopyBlocks(num)' = CopyBlocks(num)
         /\ CopyOrder' = CopyOrder
<1>1. layout' = layout /\ files' = files  BY DEF inputVars
<1>2. MetaBlocks' = MetaBlocks  BY <1>1 DEF MetaBlocks
<1>3. Used(files)' = Used(files)  BY <1>1
<1>4. Available(MetaBlocks)' = Available(MetaBlocks)  BY <1>1, <1>2, <1>3 DEF Available
<1>5. Blocks' = Blocks /\ DataBlocks' = DataBlocks /\ FatBlocks' = FatBlocks
  BY <1>1, <1>3 DEF Blocks, DataBlocks, FatBlocks
<1>6. ASSUME NEW num
      PROVE  TableBlocks(num)' = TableBlocks(num) /\ CopyBlocks(num)' = CopyBlocks(num)
  BY <1>1 DEF TableBlocks, CopyBlocks
<1>7. CopyOrder' = CopyOrder  BY <1>1 DEF CopyOrder
<1>8. Inputs'  BY <1>1, <1>3, <1>5 DEF Inputs
<1> QED BY <1>1, <1>2, <1>3, <1>4, <1>5, <1>6, <1>7, <1>8

\* What allocate_extent(1) grants.
LEMMA AllocatedFacts ==
  ASSUME Inputs, Space, avail # {}
  PROVE  /\ Allocated \in avail
         /\ Allocated \in Available(MetaBlocks)
<1>1. avail \subseteq Nat  BY AvailableFacts DEF Space
<1> QED BY <1>1, MinInSet DEF Allocated, Space

\* The state main is started in.
LEMMA InitInv ==
  ASSUME ConversionInit
  PROVE  ConversionInv
<1>1. Inputs  BY DEF ConversionInit, Inputs, DataBlocks
<1>2. Space  BY DEF ConversionInit, Space, Converting
<1>3. Progress /\ Mapped /\ Owners
  <2>1. step = "open" /\ f = 1 /\ i = 0 /\ map = <<>> /\ committed = FALSE
    BY DEF ConversionInit
  <2>2. map \in Seq(Seq(Nat))  BY <2>1
  <2>3. Progress  BY <2>1, <2>2 DEF Progress
  <2> QED BY <2>1, <2>3 DEF Mapped, Owners, Converting
<1>4. Contents
  <2>1. Blocks \subseteq Int  BY <1>1, LayoutFacts DEF Inputs
  <2>2. FatBlocks \subseteq Blocks
    BY <1>1, LayoutFacts DEF FatBlocks, Blocks, DataBlocks, Inputs
  <2>3. mem = [b \in Blocks |-> IF b \in FatBlocks THEN b ELSE Free] /\ Free \in Int
    BY DEF ConversionInit, Free
  <2>4. versions = [b \in Blocks |-> {mem[b]}]  BY DEF ConversionInit
  <2> QED BY <2>1, <2>2, <2>3, <2>4 DEF Contents
<1>5. StreamIntact /\ FilesKept /\ DirectoriesBuilt /\ TablesBuilt /\ CopiesWritten
  BY DEF ConversionInit, StreamIntact, FilesKept, DirectoriesBuilt, TablesBuilt, CopiesWritten,
         Converting
<1> QED BY <1>1, <1>2, <1>3, <1>4, <1>5 DEF ConversionInv

-----------------------------------------------------------------------------
(* Every step keeps the invariant: the steps that start or end a run.      *)

\* While nothing is converted, the rest of the invariant says nothing.
LEMMA NotConverting ==
  ASSUME Inputs', Space', Progress', Contents', ~ Converting'
  PROVE  ConversionInv'
<1>1. step' \notin {"map", "groups", "build", "lost+found", "finalize", "done"}  BY DEF Converting
<1>2. Mapped' /\ Owners'  BY <1>1 DEF Mapped, Owners, Converting
<1>3. StreamIntact' /\ FilesKept'  BY <1>1 DEF StreamIntact, FilesKept, Converting
<1>4. DirectoriesBuilt' /\ TablesBuilt' /\ CopiesWritten'
  BY <1>1 DEF DirectoriesBuilt, TablesBuilt, CopiesWritten
<1> QED BY <1>2, <1>3, <1>4 DEF ConversionInv

\* openPartition, and the exits of can_be_used, write nothing.
LEMMA OpenOrExitStep ==
  ASSUME ConversionInv, openPartition \/ TooSmall
  PROVE  ConversionInv'
<1>1. /\ UNCHANGED inputVars
      /\ UNCHANGED <<mem, versions, blocked, avail, pages, map, f, i, committed>>
      /\ (step = "open" /\ step' \in {"init", "failed"}) \/ step' = "exited"
  BY Zenon DEF openPartition, TooSmall, progressVars, NoWrite
<1>2. Inputs /\ Space /\ Progress /\ Contents  BY DEF ConversionInv
<1>3. /\ Inputs' /\ Blocks' = Blocks /\ FatBlocks' = FatBlocks /\ MetaBlocks' = MetaBlocks
      /\ Available(MetaBlocks)' = Available(MetaBlocks)
  BY <1>1, <1>2, InputsStay
<1>4. ~ Converting'  BY <1>1 DEF Converting
<1>5. Space'  BY <1>1, <1>2, <1>3, <1>4 DEF Space
<1>6. Progress'  BY <1>1, <1>2 DEF Progress
<1>7. Contents'  BY <1>1, <1>2, <1>3 DEF Contents
<1> QED BY <1>3, <1>4, <1>5, <1>6, <1>7, NotConverting

\* A crash loses some writes, but what is lost is replaced by what was there.
LEMMA CrashStep ==
  ASSUME ConversionInv, Crash
  PROVE  ConversionInv'
<1>1. /\ UNCHANGED inputVars
      /\ UNCHANGED <<versions, blocked, avail, pages, map, f, i, committed>>
      /\ step' = "crashed"
  BY Zenon DEF Crash, progressVars
<1>2. Inputs /\ Space /\ Progress /\ Contents  BY DEF ConversionInv
<1>3. /\ Inputs' /\ Blocks' = Blocks /\ FatBlocks' = FatBlocks /\ MetaBlocks' = MetaBlocks
      /\ Available(MetaBlocks)' = Available(MetaBlocks)
  BY <1>1, <1>2, InputsStay
<1>4. ~ Converting'  BY <1>1 DEF Converting
<1>5. Space'  BY <1>1, <1>2, <1>3, <1>4 DEF Space
<1>6. Progress'  BY <1>1, <1>2 DEF Progress
<1>7. PICK lost : mem' = [b \in Blocks |-> IF b \notin lost THEN mem[b]
                                          ELSE IF b \in FatBlocks THEN b ELSE Free]
  BY Zenon DEF Crash
<1>8. FatBlocks \subseteq Blocks /\ Blocks \subseteq Int
  BY <1>2, LayoutFacts DEF FatBlocks, Blocks, DataBlocks, Inputs
<1>9. Contents'  BY <1>1, <1>2, <1>3, <1>7, <1>8 DEF Contents, Free
<1> QED BY <1>3, <1>4, <1>5, <1>6, <1>9, NotConverting

\* The program is started again only before the commit, when FAT is intact.
LEMMA RestartStep ==
  ASSUME ConversionInv, Restart
  PROVE  ConversionInv'
<1>1. /\ UNCHANGED inputVars /\ UNCHANGED <<mem, versions, committed>>
      /\ avail' = {} /\ pages' = {} /\ map' = <<>> /\ f' = 1 /\ i' = 0
      /\ step' = "open" /\ ~ committed
  BY DEF Restart
<1>2. Inputs /\ Space /\ Progress /\ Contents  BY DEF ConversionInv
<1>3. /\ Inputs' /\ Blocks' = Blocks /\ FatBlocks' = FatBlocks
  BY <1>1, <1>2, InputsStay
<1>4. ~ Converting'  BY <1>1 DEF Converting
<1>5. Space'  BY <1>1, <1>4 DEF Space
<1>6. Progress'
  <2>1. map' \in Seq(Seq(Nat))  BY <1>1
  <2> QED BY <1>1, <1>2, <2>1 DEF Progress
<1>7. Contents'  BY <1>1, <1>2, <1>3 DEF Contents
<1> QED BY <1>3, <1>4, <1>5, <1>6, <1>7, NotConverting

\* The first page is taken before there is any file.
LEMMA InitConversionStep ==
  ASSUME ConversionInv, InitConversion
  PROVE  ConversionInv'
<1> DEFINE page == Min(Available(MetaBlocks))
<1>1. Inputs /\ Space /\ Progress /\ Contents  BY DEF ConversionInv
<1>2. UNCHANGED inputVars  BY DEF InitConversion
<1>3. /\ layout' = layout /\ files' = files /\ Inputs' /\ Blocks' = Blocks /\ FatBlocks' = FatBlocks
      /\ MetaBlocks' = MetaBlocks
      /\ Available(MetaBlocks)' = Available(MetaBlocks)
      /\ GroupNumbers(layout)' = GroupNumbers(layout)
  BY <1>1, <1>2, InputsStay
<1>4. /\ step = "init" /\ step' = "map" /\ f' = 1 /\ i' = 0 /\ map' = << <<>> >>
      /\ blocked' = MetaBlocks
      /\ committed' = committed
      /\ Available(MetaBlocks) # {}
      /\ avail' = Available(MetaBlocks) \ {page}
      /\ pages' = {page}
      /\ Write([b \in {page} |-> Page])
  BY DEF InitConversion
<1>5. page \in Available(MetaBlocks)
  <2>1. Available(MetaBlocks) \subseteq Nat  BY <1>1, AvailableFacts
  <2> QED BY <1>4, <2>1, MinInSet
<1>6. page \in Blocks /\ page \notin FatBlocks  BY <1>1, <1>5, AvailableFacts
<1> HIDE DEF page
<1>7. /\ mem' \in [Blocks -> Int] /\ DOMAIN versions' = Blocks
      /\ \A b \in Blocks : mem'[b] = IF b \in {page} THEN Page ELSE mem[b]
      /\ \A b \in Blocks \ {page} : versions'[b] = versions[b]
  <2>1. mem' = [b \in Blocks |-> IF b \in {page} THEN Page ELSE mem[b]]
    BY <1>4 DEF Write
  <2>2. versions' = [b \in Blocks |-> IF b \in {page} THEN versions[b] \cup {Page} ELSE versions[b]]
    BY <1>4 DEF Write
  <2> QED BY <1>1, <2>1, <2>2 DEF Contents, Page
<1>8. FatBlocks \subseteq Blocks
  BY <1>1, LayoutFacts DEF FatBlocks, Blocks, DataBlocks, Inputs
<1>9. Space'  BY <1>3, <1>4, <1>5 DEF Space, Converting
<1>10. files \in Seq([dir : BOOLEAN, chain : Seq(Nat)]) /\ Len(files) > 0
  BY <1>1, FileSystemsAssumption DEF Inputs
<1>11. map' \in Seq(Seq(Nat)) /\ Len(map') = 1 /\ map'[1] = <<>>  BY <1>4
<1>12. Progress'  BY <1>1, <1>3, <1>4, <1>10, <1>11 DEF Progress
<1>13. Contents'  BY <1>1, <1>3, <1>4, <1>6, <1>7, <1>8 DEF Contents
<1>14. StreamIntact'  BY <1>4, <1>6, <1>7 DEF StreamIntact
<1>15. Mapped' /\ Owners' /\ FilesKept'
  <2>1. Len(files[1].chain) \in Nat  BY <1>10
  <2> QED BY <1>3, <1>4, <1>11, <2>1 DEF Mapped, Owners, FilesKept, Converting
<1>16. DirectoriesBuilt' /\ TablesBuilt' /\ CopiesWritten'
  BY <1>4 DEF DirectoriesBuilt, TablesBuilt, CopiesWritten
<1> QED BY <1>3, <1>9, <1>12, <1>13, <1>14, <1>15, <1>16 DEF ConversionInv

-----------------------------------------------------------------------------
(* The steps of the traversal.                                             *)

\* What adding one block to the extents of file g leaves of the others.
LEMMA AppendAt ==
  ASSUME NEW s \in Seq(Seq(Nat)), NEW g \in 1 .. Len(s), NEW x \in Nat,
         NEW t, t = [s EXCEPT ![g] = Append(@, x)]
  PROVE  /\ t \in Seq(Seq(Nat)) /\ Len(t) = Len(s)
         /\ \A n \in 1 .. Len(s) : n # g => t[n] = s[n]
         /\ Len(t[g]) = Len(s[g]) + 1
         /\ \A k \in 1 .. Len(s[g]) : t[g][k] = s[g][k]
         /\ t[g][Len(s[g]) + 1] = x
         /\ \A n \in 1 .. Len(s) : Len(s[n]) \in Nat
<1>1. \A n \in 1 .. Len(s) : s[n] \in Seq(Nat)  BY ElementOfSeq
<1>2. s[g] \in Seq(Nat) /\ Len(s[g]) \in Nat  BY <1>1
<1>3. Append(s[g], x) \in Seq(Nat)  BY <1>2
<1>4. t \in Seq(Seq(Nat)) /\ Len(t) = Len(s)  BY <1>3, ExceptSeq
<1>5. t[g] = Append(s[g], x) /\ \A n \in 1 .. Len(s) : n # g => t[n] = s[n]
  OBVIOUS
<1>6. /\ Len(Append(s[g], x)) = Len(s[g]) + 1
      /\ \A k \in 1 .. Len(s[g]) : Append(s[g], x)[k] = s[g][k]
      /\ Append(s[g], x)[Len(s[g]) + 1] = x
  BY <1>2, AppendProperties
<1> QED BY <1>1, <1>4, <1>5, <1>6

\* A block that is not listed yet is added to the extents of file g.
LEMMA OwnersGrow ==
  ASSUME Inputs, Owners, Converting, UNCHANGED inputVars,
         map \in Seq(Seq(Nat)), NEW g \in 1 .. Len(map), NEW x \in Nat,
         map' = [map EXCEPT ![g] = Append(@, x)],
         pages' = pages, avail' \subseteq avail,
         x \in DataBlocks, x \notin MetaBlocks, x \notin pages, x \notin avail',
         x \in Used(files) =>
           /\ g \in 1 .. Len(files)
           /\ Len(map[g]) + 1 \in 1 .. Len(files[g].chain)
           /\ x = files[g].chain[Len(map[g]) + 1],
         \A n \in 1 .. Len(map) : \A k \in 1 .. Len(map[n]) : map[n][k] # x
  PROVE  Owners'
<1>1. /\ map' \in Seq(Seq(Nat)) /\ Len(map') = Len(map)
      /\ \A n \in 1 .. Len(map) : n # g => map'[n] = map[n]
      /\ Len(map'[g]) = Len(map[g]) + 1
      /\ \A k \in 1 .. Len(map[g]) : map'[g][k] = map[g][k]
      /\ map'[g][Len(map[g]) + 1] = x
      /\ \A n \in 1 .. Len(map) : Len(map[n]) \in Nat
  BY AppendAt
<1>2. /\ files' = files /\ DataBlocks' = DataBlocks /\ MetaBlocks' = MetaBlocks
      /\ Used(files)' = Used(files)
  BY InputsStay
<1>3. ASSUME NEW n \in 1 .. Len(map'), NEW k \in 1 .. Len(map'[n])
      PROVE  /\ n \in 1 .. Len(map)
             /\ \/ k \in 1 .. Len(map[n]) /\ map'[n][k] = map[n][k]
                \/ n = g /\ k = Len(map[g]) + 1 /\ map'[n][k] = x
  <2>1. CASE n = g
    <3>1. k \in 1 .. Len(map[g]) \/ k = Len(map[g]) + 1  BY <1>1, <2>1
    <3> QED BY <1>1, <2>1, <3>1
  <2>2. CASE n # g  BY <1>1, <2>2
  <2> QED BY <2>1, <2>2
<1>4. ASSUME NEW n \in 1 .. Len(map'), NEW k \in 1 .. Len(map'[n])
      PROVE  /\ map'[n][k] \in DataBlocks'
             /\ map'[n][k] \notin MetaBlocks'
             /\ map'[n][k] \notin pages'
             /\ map'[n][k] \notin avail'
             /\ map'[n][k] \in Used(files)' =>
                  /\ n \in 1 .. Len(files')
                  /\ k \in 1 .. Len(files'[n].chain)
                  /\ map'[n][k] = files'[n].chain[k]
  <2>1. CASE n = g /\ k = Len(map[g]) + 1 /\ map'[n][k] = x  BY <1>2, <2>1
  <2>2. CASE n \in 1 .. Len(map) /\ k \in 1 .. Len(map[n]) /\ map'[n][k] = map[n][k]
    BY <1>2, <2>2, SMTT(30) DEF Owners
  <2> QED BY <1>3, <2>1, <2>2
<1>5. ASSUME NEW n \in 1 .. Len(map'), NEW m \in 1 .. Len(map'),
             NEW k \in 1 .. Len(map'[n]), NEW l \in 1 .. Len(map'[m]), map'[n][k] = map'[m][l]
      PROVE  n = m /\ k = l
  <2>1. n \in 1 .. Len(map) /\ m \in 1 .. Len(map)  BY <1>1
  <2>2. CASE k \in 1 .. Len(map[n]) /\ map'[n][k] = map[n][k]
             /\ l \in 1 .. Len(map[m]) /\ map'[m][l] = map[m][l]
    <3>1. map[n][k] = map[m][l]  BY <1>5, <2>2
    <3>2. \A a, b \in 1 .. Len(map) : \A c \in 1 .. Len(map[a]), d \in 1 .. Len(map[b]) :
            map[a][c] = map[b][d] => a = b /\ c = d
      BY DEF Owners
    <3> QED BY <2>1, <2>2, <3>1, <3>2, SMTT(30)
  <2>3. CASE n = g /\ k = Len(map[g]) + 1 /\ map'[n][k] = x
             /\ l \in 1 .. Len(map[m]) /\ map'[m][l] = map[m][l]
    BY <1>5, <2>1, <2>3
  <2>4. CASE m = g /\ l = Len(map[g]) + 1 /\ map'[m][l] = x
             /\ k \in 1 .. Len(map[n]) /\ map'[n][k] = map[n][k]
    BY <1>5, <2>1, <2>4
  <2>5. CASE n = g /\ k = Len(map[g]) + 1 /\ m = g /\ l = Len(map[g]) + 1
    BY <2>5
  <2> QED BY <1>3, <2>2, <2>3, <2>4, <2>5
<1> QED BY <1>4, <1>5 DEF Owners

\* The FAT file systems: typing, and every cluster in one place of one chain.
LEMMA FilesFacts ==
  ASSUME Inputs
  PROVE  /\ files \in Seq([dir : BOOLEAN, chain : Seq(Nat)])
         /\ Len(files) \in Nat \ {0} /\ files[1].dir
         /\ \A n \in 1 .. Len(files) : files[n].chain \in Seq(Nat) /\ Len(files[n].chain) \in Nat
         /\ \A n, m \in 1 .. Len(files) :
              \A k \in 1 .. Len(files[n].chain), l \in 1 .. Len(files[m].chain) :
                files[n].chain[k] = files[m].chain[l] => n = m /\ k = l
         /\ \A n \in 1 .. Len(files) : \A k \in 1 .. Len(files[n].chain) :
              files[n].chain[k] \in Used(files)
<1>1. files \in FileSystems  BY DEF Inputs
<1>2. files \in Seq([dir : BOOLEAN, chain : Seq(Nat)]) /\ Len(files) > 0 /\ files[1].dir
  BY <1>1, FileSystemsAssumption
<1>3. \A n \in 1 .. Len(files) : files[n] \in [dir : BOOLEAN, chain : Seq(Nat)]
  BY <1>2, ElementOfSeq
<1>4. \A n \in 1 .. Len(files) : files[n].chain \in Seq(Nat) /\ Len(files[n].chain) \in Nat
  BY <1>3
<1>5. \A n, m \in 1 .. Len(files) :
        \A k \in 1 .. Len(files[n].chain), l \in 1 .. Len(files[m].chain) :
          files[n].chain[k] = files[m].chain[l] => n = m /\ k = l
  BY <1>1, FileSystemsAssumption
<1>6. \A n \in 1 .. Len(files) : \A k \in 1 .. Len(files[n].chain) :
        files[n].chain[k] \in Used(files)
  <2>1. TAKE n \in 1 .. Len(files)
  <2>2. TAKE k \in 1 .. Len(files[n].chain)
  <2>3. files[n].chain[k] \in { files[n].chain[l] : l \in 1 .. Len(files[n].chain) }  OBVIOUS
  <2> QED BY <2>3, Zenon DEF Used
<1>7. Len(files) \in Nat \ {0}  BY <1>2
<1> QED BY <1>2, <1>4, <1>5, <1>6, <1>7

\* The cluster the mapper looks at next is not listed yet, and as FAT left it.
LEMMA NextClusterFacts ==
  ASSUME ConversionInv, step = "map", Remaining > 0
  PROVE  /\ f \in 1 .. Len(files) /\ f \in 1 .. Len(map) /\ Len(map) = f
         /\ Len(map[f]) \in Nat
         /\ Len(map[f]) + 1 \in 1 .. Len(files[f].chain)
         /\ NextCluster \in Used(files) /\ NextCluster \in DataBlocks /\ NextCluster \in Nat
         /\ mem[NextCluster] = NextCluster /\ ~ committed
         /\ \A n \in 1 .. Len(map) : \A k \in 1 .. Len(map[n]) : map[n][k] # NextCluster
<1>1. Inputs /\ Progress /\ Mapped /\ Owners /\ Contents  BY DEF ConversionInv
<1>2. /\ f \in 1 .. Len(files) /\ Len(map) = f /\ map \in Seq(Seq(Nat)) /\ ~ committed
  BY <1>1 DEF Progress
<1>3. /\ Len(files) \in Nat
      /\ \A n \in 1 .. Len(files) : Len(files[n].chain) \in Nat
      /\ \A n, m \in 1 .. Len(files) :
           \A k \in 1 .. Len(files[n].chain), l \in 1 .. Len(files[m].chain) :
             files[n].chain[k] = files[m].chain[l] => n = m /\ k = l
      /\ \A n \in 1 .. Len(files) : \A k \in 1 .. Len(files[n].chain) :
           files[n].chain[k] \in Used(files)
  BY <1>1, FilesFacts
<1>4. f \in 1 .. Len(map)  BY <1>2, <1>3
<1>5. map[f] \in Seq(Nat) /\ Len(map[f]) \in Nat  BY <1>2, <1>4, ElementOfSeq
<1>6. Len(map[f]) + 1 \in 1 .. Len(files[f].chain)
  <2>1. Len(files[f].chain) \in Nat  BY <1>2, <1>3
  <2>2. ASSUME NEW a \in Nat, NEW b \in Nat, a - b > 0 PROVE b + 1 \in 1 .. a
    BY <2>2
  <2>3. Len(files[f].chain) - Len(map[f]) > 0  BY DEF Remaining
  <2> QED BY <1>5, <2>1, <2>2, <2>3
<1>7. NextCluster \in Used(files)  BY <1>2, <1>3, <1>6 DEF NextCluster
<1>8. NextCluster \in DataBlocks /\ NextCluster \in Nat
  BY <1>1, <1>7, LayoutFacts DEF Inputs
<1>9. mem[NextCluster] = NextCluster  BY <1>1, <1>2, <1>7 DEF Contents, FatBlocks
<1>10. ASSUME NEW n \in 1 .. Len(map), NEW k \in 1 .. Len(map[n]), map[n][k] = NextCluster
       PROVE FALSE
  <2>1. /\ n \in 1 .. Len(files) /\ k \in 1 .. Len(files[n].chain)
        /\ map[n][k] = files[n].chain[k]
    BY <1>1, <1>7, <1>10 DEF Owners, Converting
  <2>2. files[n].chain[k] = files[f].chain[Len(map[f]) + 1]
    BY <1>10, <2>1 DEF NextCluster
  <2>3. n = f /\ k = Len(map[f]) + 1  BY <1>2, <1>3, <1>6, <2>1, <2>2
  <2> QED BY <1>5, <1>10, <2>3
<1> QED BY <1>2, <1>4, <1>5, <1>6, <1>7, <1>8, <1>9, <1>10

\* A cluster that is not blocked keeps its block and its content.
LEMMA KeepClusterStep ==
  ASSUME ConversionInv, KeepCluster
  PROVE  ConversionInv'
<1>1. Inputs /\ Space /\ Progress /\ Mapped /\ Owners /\ Contents  BY DEF ConversionInv
<1>2. /\ UNCHANGED inputVars
      /\ UNCHANGED <<mem, versions, blocked, avail, pages, f, i, committed, step>>
      /\ step = "map" /\ Remaining > 0 /\ NextCluster \notin blocked
      /\ map' = [map EXCEPT ![f] = Append(@, NextCluster)]
  BY DEF KeepCluster, NoWrite
<1>3. /\ files' = files /\ Inputs' /\ Blocks' = Blocks /\ FatBlocks' = FatBlocks
      /\ MetaBlocks' = MetaBlocks /\ Available(MetaBlocks)' = Available(MetaBlocks)
  BY <1>1, <1>2, InputsStay
<1>4. /\ f \in 1 .. Len(files) /\ f \in 1 .. Len(map) /\ Len(map) = f
      /\ Len(map[f]) \in Nat
      /\ Len(map[f]) + 1 \in 1 .. Len(files[f].chain)
      /\ NextCluster \in Used(files) /\ NextCluster \in DataBlocks /\ NextCluster \in Nat
      /\ mem[NextCluster] = NextCluster /\ ~ committed
      /\ \A n \in 1 .. Len(map) : \A k \in 1 .. Len(map[n]) : map[n][k] # NextCluster
  BY <1>2, NextClusterFacts
<1>5. map \in Seq(Seq(Nat))  BY <1>1 DEF Progress
<1>6. /\ map' \in Seq(Seq(Nat)) /\ Len(map') = Len(map)
      /\ \A n \in 1 .. Len(map) : n # f => map'[n] = map[n]
      /\ Len(map'[f]) = Len(map[f]) + 1
      /\ \A k \in 1 .. Len(map[f]) : map'[f][k] = map[f][k]
      /\ map'[f][Len(map[f]) + 1] = NextCluster
  BY <1>2, <1>4, <1>5, AppendAt
<1>7. Space'  BY <1>1, <1>2, <1>3 DEF Space, Converting
<1>8. Progress'  BY <1>1, <1>2, <1>3, <1>6 DEF Progress
<1>9. Mapped'
  <2>1. \A n \in 1 .. f - 1 : n \in 1 .. Len(map) /\ n # f  BY <1>4
  <2> QED BY <1>1, <1>2, <1>3, <1>4, <1>6, <2>1 DEF Mapped
<1>10. Owners'
  <2>1. Converting  BY <1>2 DEF Converting
  <2>2. NextCluster \notin MetaBlocks  BY <1>1, <1>2, <2>1 DEF Space
  <2>3. NextCluster \notin avail /\ NextCluster \notin pages
    BY <1>1, <1>4, AvailableFacts DEF Space
  <2>4. NextCluster = files[f].chain[Len(map[f]) + 1]  BY DEF NextCluster
  <2>5. pages' = pages /\ avail' \subseteq avail /\ NextCluster \notin avail'  BY <1>2, <2>3
  <2> QED BY <1>1, <1>2, <1>4, <1>5, <2>1, <2>2, <2>3, <2>4, <2>5, OwnersGrow
<1>11. Contents'  BY <1>1, <1>2, <1>3 DEF Contents
<1>12. StreamIntact'  BY <1>2 DEF ConversionInv, StreamIntact
<1>13. FilesKept'
  <2>1. SUFFICES ASSUME NEW n \in 1 .. Len(files), n <= Len(map'), ~ files[n].dir,
                        NEW k \in 1 .. Len(map'[n])
                 PROVE  mem[map'[n][k]] = files[n].chain[k]
    BY <1>2, <1>3 DEF FilesKept
  <2>2. FilesKept /\ Converting  BY <1>2 DEF ConversionInv, Converting
  <2>3. CASE k \in 1 .. Len(map[n]) /\ map'[n][k] = map[n][k]
    <3>1. n <= Len(map) /\ ~ files[n].dir  BY <1>6, <2>1
    <3>2. mem[map[n][k]] = files[n].chain[k]  BY <2>2, <2>3, <3>1, Zenon DEF FilesKept
    <3> QED BY <2>3, <3>2
  <2>4. CASE n = f /\ k = Len(map[f]) + 1  BY <1>4, <1>6, <2>4 DEF NextCluster
  <2>5. n \in 1 .. Len(map)  BY <1>6, <2>1
  <2>6. n = f => k \in 1 .. Len(map[f]) \/ k = Len(map[f]) + 1  BY <1>4, <1>6
  <2> QED BY <1>6, <2>3, <2>4, <2>5, <2>6
<1>14. DirectoriesBuilt' /\ TablesBuilt' /\ CopiesWritten'
  BY <1>2 DEF DirectoriesBuilt, TablesBuilt, CopiesWritten
<1> QED BY <1>3, <1>7, <1>8, <1>9, <1>10, <1>11, <1>12, <1>13, <1>14 DEF ConversionInv

\* A blocked cluster is copied to a block of the allocator.
LEMMA ResettleClusterStep ==
  ASSUME ConversionInv, ResettleCluster
  PROVE  ConversionInv'
<1>1. Inputs /\ Space /\ Progress /\ Mapped /\ Owners /\ Contents  BY DEF ConversionInv
<1>2. PICK x : x = Allocated  OBVIOUS
<1>3. /\ UNCHANGED inputVars
      /\ UNCHANGED <<blocked, pages, f, i, committed, step>>
      /\ step = "map" /\ Remaining > 0 /\ NextCluster \in blocked /\ avail # {}
      /\ map' = [map EXCEPT ![f] = Append(@, x)]
      /\ avail' = avail \ {x}
      /\ Write([b \in {x} |-> mem[NextCluster]])
  BY <1>2 DEF ResettleCluster
<1>4. /\ files' = files /\ Inputs' /\ Blocks' = Blocks /\ FatBlocks' = FatBlocks
      /\ MetaBlocks' = MetaBlocks /\ Available(MetaBlocks)' = Available(MetaBlocks)
  BY <1>1, <1>3, InputsStay
<1>5. /\ f \in 1 .. Len(files) /\ f \in 1 .. Len(map) /\ Len(map) = f
      /\ Len(map[f]) \in Nat
      /\ Len(map[f]) + 1 \in 1 .. Len(files[f].chain)
      /\ NextCluster \in Nat /\ mem[NextCluster] = NextCluster /\ ~ committed
  BY <1>3, NextClusterFacts
<1>6. x \in avail /\ x \in Available(MetaBlocks)  BY <1>1, <1>2, <1>3, AllocatedFacts
<1>7. /\ x \in Nat /\ x \in DataBlocks /\ x \in Blocks /\ x \notin MetaBlocks
      /\ x \notin FatBlocks /\ x \notin Used(files) /\ x \notin pages
  BY <1>1, <1>6, AvailableFacts DEF Space
<1>8. map \in Seq(Seq(Nat))  BY <1>1 DEF Progress
<1>9. /\ map' \in Seq(Seq(Nat)) /\ Len(map') = Len(map)
      /\ \A n \in 1 .. Len(map) : n # f => map'[n] = map[n]
      /\ Len(map'[f]) = Len(map[f]) + 1
      /\ \A k \in 1 .. Len(map[f]) : map'[f][k] = map[f][k]
      /\ map'[f][Len(map[f]) + 1] = x
  BY <1>3, <1>5, <1>7, <1>8, AppendAt
<1>10. /\ mem' = [b \in Blocks |-> IF b = x THEN NextCluster ELSE mem[b]]
       /\ \A b \in Blocks : b # x => versions'[b] = versions[b]
       /\ DOMAIN versions' = Blocks
  BY <1>3, <1>5 DEF Write
<1>11. \A n \in 1 .. Len(map) : \A k \in 1 .. Len(map[n]) : map[n][k] # x /\ map[n][k] \in Blocks
  <2>1. DataBlocks \subseteq Blocks  BY <1>1, LayoutFacts DEF Inputs
  <2> QED BY <1>1, <1>3, <1>6, <2>1 DEF Owners, Converting
<1>12. Space'  BY <1>1, <1>3, <1>4, <1>6 DEF Space, Converting
<1>13. Progress'  BY <1>1, <1>3, <1>4, <1>9 DEF Progress
<1>14. Mapped'
  <2>1. \A n \in 1 .. f - 1 : n \in 1 .. Len(map) /\ n # f  BY <1>5
  <2> QED BY <1>1, <1>3, <1>4, <1>5, <1>9, <2>1 DEF Mapped
<1>15. Owners'
  <2>1. Converting  BY <1>3 DEF Converting
  <2>2. pages' = pages /\ avail' \subseteq avail /\ x \notin avail'  BY <1>3
  <2> QED BY <1>1, <1>3, <1>5, <1>7, <1>8, <1>11, <2>1, <2>2, OwnersGrow
<1>16. Contents'
  <2>1. FatBlocks \subseteq Blocks
    BY <1>1, LayoutFacts DEF FatBlocks, Blocks, DataBlocks, Inputs
  <2> QED BY <1>1, <1>3, <1>4, <1>5, <1>7, <1>10, <2>1 DEF Contents
<1>17. StreamIntact'
  <2>1. pages \subseteq Blocks  BY <1>1, AvailableFacts DEF Space
  <2>2. \A b \in pages : mem[b] = Page  BY <1>3 DEF ConversionInv, StreamIntact
  <2> QED BY <1>3, <1>7, <1>10, <2>1, <2>2 DEF StreamIntact
<1>18. FilesKept'
  <2>1. SUFFICES ASSUME NEW n \in 1 .. Len(files), n <= Len(map'), ~ files[n].dir,
                        NEW k \in 1 .. Len(map'[n])
                 PROVE  mem'[map'[n][k]] = files[n].chain[k]
    BY <1>3, <1>4 DEF FilesKept
  <2>2. FilesKept /\ Converting  BY <1>3 DEF ConversionInv, Converting
  <2>3. n \in 1 .. Len(map)  BY <1>9, <2>1
  <2>4. CASE k \in 1 .. Len(map[n]) /\ map'[n][k] = map[n][k]
    <3>1. mem[map[n][k]] = files[n].chain[k]  BY <2>1, <2>2, <2>3, <2>4 DEF FilesKept
    <3>2. mem'[map[n][k]] = mem[map[n][k]]  BY <1>10, <1>11, <2>3, <2>4
    <3> QED BY <2>4, <3>1, <3>2
  <2>5. CASE n = f /\ k = Len(map[f]) + 1  BY <1>7, <1>9, <1>10, <2>5 DEF NextCluster
  <2>6. n = f => k \in 1 .. Len(map[f]) \/ k = Len(map[f]) + 1  BY <1>5, <1>9
  <2> QED BY <1>9, <2>3, <2>4, <2>5, <2>6
<1>19. DirectoriesBuilt' /\ TablesBuilt' /\ CopiesWritten'
  BY <1>3 DEF DirectoriesBuilt, TablesBuilt, CopiesWritten
<1> QED BY <1>4, <1>12, <1>13, <1>14, <1>15, <1>16, <1>17, <1>18, <1>19 DEF ConversionInv

\* The page the stream takes belongs to no file, and FAT does not need it.
LEMMA TakePageStep ==
  ASSUME ConversionInv, TakePage
  PROVE  ConversionInv'
<1>1. Inputs /\ Space /\ Progress /\ Mapped /\ Owners /\ Contents  BY DEF ConversionInv
<1>2. PICK x : x = Allocated  OBVIOUS
<1>3. /\ UNCHANGED inputVars
      /\ UNCHANGED <<blocked, map, f, i, committed, step>>
      /\ step = "map" /\ avail # {}
      /\ pages' = pages \cup {x}
      /\ avail' = avail \ {x}
      /\ Write([b \in {x} |-> Page])
  BY <1>2 DEF TakePage
<1>4. /\ files' = files /\ Inputs' /\ Blocks' = Blocks /\ FatBlocks' = FatBlocks
      /\ DataBlocks' = DataBlocks /\ Used(files)' = Used(files)
      /\ MetaBlocks' = MetaBlocks /\ Available(MetaBlocks)' = Available(MetaBlocks)
  BY <1>1, <1>3, InputsStay
<1>5. x \in avail /\ x \in Available(MetaBlocks)  BY <1>1, <1>2, <1>3, AllocatedFacts
<1>6. x \in Blocks /\ x \notin FatBlocks  BY <1>1, <1>5, AvailableFacts
<1>7. /\ mem' = [b \in Blocks |-> IF b = x THEN Page ELSE mem[b]]
      /\ \A b \in Blocks : b # x => versions'[b] = versions[b]
      /\ DOMAIN versions' = Blocks
  BY <1>3 DEF Write
<1>8. \A n \in 1 .. Len(map) : \A k \in 1 .. Len(map[n]) : map[n][k] # x /\ map[n][k] \in Blocks
  <2>1. DataBlocks \subseteq Blocks  BY <1>1, LayoutFacts DEF Inputs
  <2> QED BY <1>1, <1>3, <1>5, <2>1 DEF Owners, Converting
<1>9. Space'  BY <1>1, <1>3, <1>4, <1>5 DEF Space, Converting
<1>10. Progress' /\ Mapped'  BY <1>1, <1>3, <1>4 DEF Progress, Mapped
<1>11. Owners'
  <2>1. Converting  BY <1>3 DEF Converting
  <2> QED BY <1>1, <1>3, <1>4, <1>8, <2>1 DEF Owners
<1>12. Contents'
  <2>1. FatBlocks \subseteq Blocks
    BY <1>1, LayoutFacts DEF FatBlocks, Blocks, DataBlocks, Inputs
  <2> QED BY <1>1, <1>3, <1>4, <1>6, <1>7, <2>1 DEF Contents, Page
<1>13. StreamIntact'
  <2>1. pages \subseteq Blocks  BY <1>1, AvailableFacts DEF Space
  <2>2. \A b \in pages : mem[b] = Page  BY <1>3 DEF ConversionInv, StreamIntact
  <2> QED BY <1>3, <1>6, <1>7, <2>1, <2>2 DEF StreamIntact
<1>14. FilesKept'
  <2>1. SUFFICES ASSUME NEW n \in 1 .. Len(files), n <= Len(map), ~ files[n].dir,
                        NEW k \in 1 .. Len(map[n])
                 PROVE  mem'[map[n][k]] = files[n].chain[k]
    BY <1>3, <1>4 DEF FilesKept
  <2>2. mem[map[n][k]] = files[n].chain[k]
    BY <1>3, <2>1 DEF ConversionInv, FilesKept, Converting
  <2>3. n \in 1 .. Len(map)
    <3>1. Len(map) \in Nat  BY <1>1 DEF Progress
    <3> QED BY <2>1, <3>1
  <2> QED BY <1>7, <1>8, <2>1, <2>2, <2>3
<1>15. DirectoriesBuilt' /\ TablesBuilt' /\ CopiesWritten'
  BY <1>3 DEF DirectoriesBuilt, TablesBuilt, CopiesWritten
<1> QED BY <1>4, <1>9, <1>10, <1>11, <1>12, <1>13, <1>14, <1>15 DEF ConversionInv

\* The next file starts with no blocks, and the last one ends the traversal.
LEMMA NextFileStep ==
  ASSUME ConversionInv, NextFile
  PROVE  ConversionInv'
<1>1. Inputs /\ Space /\ Progress /\ Mapped /\ Owners /\ Contents  BY DEF ConversionInv
<1>2. /\ UNCHANGED inputVars
      /\ UNCHANGED <<mem, versions, blocked, avail, pages, i, committed>>
      /\ step = "map" /\ Remaining = 0
  BY DEF NextFile, NoWrite
<1>3. /\ files' = files /\ Inputs' /\ Blocks' = Blocks /\ FatBlocks' = FatBlocks
      /\ DataBlocks' = DataBlocks /\ Used(files)' = Used(files)
      /\ MetaBlocks' = MetaBlocks /\ Available(MetaBlocks)' = Available(MetaBlocks)
      /\ GroupNumbers(layout)' = GroupNumbers(layout)
  BY <1>1, <1>2, InputsStay
<1>4. /\ f \in 1 .. Len(files) /\ Len(map) = f /\ map \in Seq(Seq(Nat)) /\ ~ committed /\ i \in Nat
  BY <1>1, <1>2 DEF Progress
<1>5. Len(files) \in Nat /\ \A n \in 1 .. Len(files) : Len(files[n].chain) \in Nat
  BY <1>1, FilesFacts
<1>6. \A n \in 1 .. f : Len(map[n]) = Len(files[n].chain)
  <2>1. map[f] \in Seq(Nat)  BY <1>4, <1>5, ElementOfSeq
  <2>2. Len(map[f]) \in Nat /\ Len(files[f].chain) \in Nat  BY <1>4, <1>5, <2>1
  <2>3. ASSUME NEW a \in Nat, NEW b \in Nat, a - b = 0 PROVE b = a  BY <2>3
  <2>4. Len(map[f]) = Len(files[f].chain)  BY <1>2, <2>2, <2>3 DEF Remaining
  <2>5. \A n \in 1 .. f : n \in 1 .. f - 1 \/ n = f  BY <1>4, <1>5
  <2> QED BY <1>1, <1>2, <2>4, <2>5 DEF Mapped
<1>7. Converting /\ Converting'  BY <1>2 DEF NextFile, Converting
<1>8. Space' /\ Contents'  BY <1>1, <1>2, <1>3, <1>7 DEF Space, Contents
<1>9. CASE f < Len(files)
  <2>1. f' = f + 1 /\ map' = Append(map, <<>>) /\ step' = "map"
    BY <1>2, <1>9 DEF NextFile
  <2>2. /\ map' \in Seq(Seq(Nat)) /\ Len(map') = f + 1 /\ map'[f + 1] = <<>>
        /\ \A n \in 1 .. f : map'[n] = map[n]
    BY <1>4, <2>1, AppendProperties
  <2>3. \A n \in 1 .. Len(map') : (n \in 1 .. Len(map) /\ map'[n] = map[n]) \/ map'[n] = <<>>
    <3>1. \A n \in 1 .. f + 1 : n \in 1 .. f \/ n = f + 1  BY <1>4, <1>5
    <3> QED BY <1>4, <2>2, <3>1
  <2>4. Progress'
    <3>1. f + 1 \in 1 .. Len(files) /\ f + 1 \in Nat  BY <1>4, <1>5, <1>9
    <3> QED BY <1>1, <1>2, <1>3, <1>4, <2>1, <2>2, <3>1 DEF Progress
  <2>5. Mapped'
    <3>1. f + 1 - 1 = f /\ f + 1 \in 1 .. Len(files)  BY <1>4, <1>5, <1>9
    <3>2. Len(map'[f + 1]) = 0  BY <2>2
    <3>3. Len(files[f + 1].chain) \in Nat  BY <1>5, <3>1
    <3>4. ASSUME NEW a \in Nat, NEW b, b = 0 PROVE b <= a  BY <3>4
    <3>5. Len(map'[f + 1]) <= Len(files[f + 1].chain)  BY <3>2, <3>3, <3>4
    <3>6. \A n \in 1 .. f : Len(map'[n]) = Len(files[n].chain)  BY <1>6, <2>2
    <3>7. f' - 1 = f  BY <1>4, <2>1
    <3>8. Len(map'[f']) <= Len(files'[f'].chain)  BY <1>3, <2>1, <3>5
    <3>9. \A n \in 1 .. f' - 1 : Len(map'[n]) = Len(files'[n].chain)  BY <1>3, <3>6, <3>7
    <3> QED BY <2>1, <3>8, <3>9 DEF Mapped
  <2>6. Owners'
    <3>1. ASSUME NEW n \in 1 .. Len(map'), NEW k \in 1 .. Len(map'[n])
          PROVE  n \in 1 .. Len(map) /\ map'[n] = map[n]
      BY <2>3
    <3>2. ASSUME NEW n \in 1 .. Len(map'), NEW k \in 1 .. Len(map'[n])
          PROVE  /\ map'[n][k] \in DataBlocks /\ map'[n][k] \notin MetaBlocks
                 /\ map'[n][k] \notin pages /\ map'[n][k] \notin avail
                 /\ map'[n][k] \in Used(files) =>
                      /\ n \in 1 .. Len(files) /\ k \in 1 .. Len(files[n].chain)
                      /\ map'[n][k] = files[n].chain[k]
      BY <1>1, <1>7, <3>1 DEF Owners
    <3>3. ASSUME NEW n \in 1 .. Len(map'), NEW m \in 1 .. Len(map'),
                 NEW k \in 1 .. Len(map'[n]), NEW l \in 1 .. Len(map'[m]), map'[n][k] = map'[m][l]
          PROVE  n = m /\ k = l
      BY <1>1, <1>7, <3>1, <3>3 DEF Owners
    <3> QED BY <1>2, <1>3, <3>2, <3>3 DEF Owners
  <2>7. StreamIntact'  BY <1>2, <2>1 DEF ConversionInv, StreamIntact
  <2>8. FilesKept'
    <3>1. \A n \in 1 .. Len(files) : n <= Len(map') =>
            (n <= Len(map) /\ map'[n] = map[n]) \/ map'[n] = <<>>
      BY <1>4, <1>5, <2>2
    <3> QED BY <1>2, <1>3, <1>7, <3>1 DEF ConversionInv, FilesKept
  <2>9. DirectoriesBuilt' /\ TablesBuilt' /\ CopiesWritten'
    BY <2>1 DEF DirectoriesBuilt, TablesBuilt, CopiesWritten
  <2> QED BY <1>3, <1>8, <2>4, <2>5, <2>6, <2>7, <2>8, <2>9 DEF ConversionInv
<1>10. CASE ~ (f < Len(files))
  <2>1. f' = 1 /\ map' = map /\ step' = "groups" /\ f = Len(files)
    BY <1>2, <1>4, <1>5, <1>10 DEF NextFile
  <2>2. i' = 0  BY <1>1, <1>2 DEF Progress
  <2>3. Progress'  BY <1>1, <1>2, <1>3, <1>4, <2>1, <2>2 DEF Progress
  <2>4. Mapped'  BY <1>3, <1>6, <2>1 DEF Mapped
  <2>5. Owners'  BY <1>1, <1>2, <1>3, <1>7, <2>1 DEF Owners
  <2>6. StreamIntact' /\ FilesKept'
    BY <1>2, <1>3, <1>7, <2>1 DEF ConversionInv, StreamIntact, FilesKept
  <2>7. DirectoriesBuilt' /\ TablesBuilt' /\ CopiesWritten'
    <3>1. \A num \in GroupNumbers(layout) : ~ (num < 0)
      BY <1>1, LayoutFacts, GroupBounds DEF GroupNumbers, Inputs
    <3> QED BY <1>3, <2>1, <2>2, <3>1 DEF DirectoriesBuilt, TablesBuilt, CopiesWritten
  <2> QED BY <1>3, <1>8, <2>3, <2>4, <2>5, <2>6, <2>7 DEF ConversionInv
<1> QED BY <1>9, <1>10

-----------------------------------------------------------------------------
(* The commit point and the steps of the builder.                          *)

\* What was not blocked is not written by init_ext4_group_descs and write_sb_copy.
LEMMA UnblockedFacts ==
  ASSUME Inputs, NEW b \in DataBlocks, b \notin MetaBlocks, NEW num \in GroupNumbers(layout)
  PROVE  b \notin TableBlocks(num) /\ b \notin CopyBlocks(num)
BY GroupWritesBlocked DEF Inputs

\* An iteration of init_ext4_group_descs writes over no page and no block of a file.
LEMMA InitGroupDescStep ==
  ASSUME ConversionInv, InitGroupDesc
  PROVE  ConversionInv'
<1>1. Inputs /\ Space /\ Progress /\ Mapped /\ Owners /\ Contents  BY DEF ConversionInv
<1>2. /\ UNCHANGED inputVars
      /\ UNCHANGED <<blocked, avail, pages, map, f, step>>
      /\ step = "groups" /\ i < block_group_count(layout)
      /\ committed' = TRUE /\ i' = i + 1
      /\ Write([b \in TableBlocks(i) |-> Meta])
  BY DEF InitGroupDesc, GroupAfter
<1>3. /\ layout' = layout /\ files' = files /\ Inputs' /\ Blocks' = Blocks
      /\ FatBlocks' = FatBlocks /\ GroupNumbers(layout)' = GroupNumbers(layout)
      /\ DataBlocks' = DataBlocks /\ Used(files)' = Used(files)
      /\ MetaBlocks' = MetaBlocks /\ Available(MetaBlocks)' = Available(MetaBlocks)
      /\ \A num : TableBlocks(num)' = TableBlocks(num)
  BY <1>1, <1>2, InputsStay
<1>4. i \in Nat /\ i \in GroupNumbers(layout)
  <2>1. i \in Nat  BY <1>1 DEF Progress
  <2>2. block_group_count(layout) \in Nat  BY <1>1, LayoutFacts, GroupBounds DEF Inputs
  <2> QED BY <1>2, <2>1, <2>2 DEF GroupNumbers
<1>5. /\ mem' = [b \in Blocks |-> IF b \in TableBlocks(i) THEN Meta ELSE mem[b]]
      /\ DOMAIN versions' = Blocks
  BY <1>2 DEF Write
<1>6. Converting /\ Converting'  BY <1>2 DEF Converting
<1>7. \A n \in 1 .. Len(map) : \A k \in 1 .. Len(map[n]) :
        map[n][k] \in Blocks /\ map[n][k] \notin TableBlocks(i)
  <2>1. DataBlocks \subseteq Blocks  BY <1>1, LayoutFacts DEF Inputs
  <2> QED BY <1>1, <1>4, <1>6, <2>1, UnblockedFacts DEF Owners
<1>8. \A b \in pages : b \in Blocks /\ b \notin TableBlocks(i)
  BY <1>1, <1>4, AvailableFacts, UnblockedFacts DEF Space
<1>9. Space' /\ Mapped' /\ Owners'
  BY <1>1, <1>2, <1>3, <1>6 DEF Space, Mapped, Owners
<1>10. Progress'  BY <1>1, <1>2, <1>3, <1>4 DEF Progress
<1>11. Contents'  BY <1>1, <1>2, <1>3, <1>5 DEF Contents, Meta
<1>12. StreamIntact'  BY <1>2, <1>5, <1>8 DEF ConversionInv, StreamIntact
<1>13. FilesKept'
  <2>1. SUFFICES ASSUME NEW n \in 1 .. Len(files), n <= Len(map), ~ files[n].dir,
                        NEW k \in 1 .. Len(map[n])
                 PROVE  mem'[map[n][k]] = files[n].chain[k]
    BY <1>2, <1>3 DEF FilesKept
  <2>2. mem[map[n][k]] = files[n].chain[k]
    BY <1>6, <2>1 DEF ConversionInv, FilesKept
  <2>3. n \in 1 .. Len(map)
    <3>1. Len(map) \in Nat  BY <1>1 DEF Progress
    <3> QED BY <2>1, <3>1
  <2> QED BY <1>5, <1>7, <2>1, <2>2, <2>3
<1>14. DirectoriesBuilt' /\ CopiesWritten'
  BY <1>2 DEF DirectoriesBuilt, CopiesWritten
<1>15. TablesBuilt'
  <2>1. SUFFICES ASSUME NEW num \in GroupNumbers(layout), num < i + 1,
                        NEW b \in TableBlocks(num) \cap Blocks
                 PROVE  mem'[b] = Meta
    BY <1>2, <1>3 DEF TablesBuilt
  <2>2. num < i \/ num = i
    <3>1. num \in Int  BY DEF GroupNumbers
    <3> QED BY <1>4, <2>1, <3>1
  <2>3. num < i => mem[b] = Meta  BY <1>2, <2>1 DEF ConversionInv, TablesBuilt
  <2> QED BY <1>5, <2>1, <2>2, <2>3
<1> QED BY <1>3, <1>9, <1>10, <1>11, <1>12, <1>13, <1>14, <1>15 DEF ConversionInv

\* When the loop of init_ext4_group_descs ends, all tables are there.
LEMMA BuildRootStep ==
  ASSUME ConversionInv, BuildRoot
  PROVE  ConversionInv'
<1>1. Inputs /\ Space /\ Progress /\ Mapped /\ Owners /\ Contents  BY DEF ConversionInv
<1>2. /\ UNCHANGED inputVars
      /\ UNCHANGED <<mem, versions, blocked, avail, pages, map, f, i, committed>>
      /\ step = "groups" /\ i = block_group_count(layout) /\ step' = "build"
  BY DEF BuildRoot, NoWrite, progressVars
<1>3. /\ layout' = layout /\ files' = files /\ Inputs' /\ Blocks' = Blocks
      /\ FatBlocks' = FatBlocks /\ GroupNumbers(layout)' = GroupNumbers(layout)
      /\ DataBlocks' = DataBlocks /\ Used(files)' = Used(files)
      /\ MetaBlocks' = MetaBlocks /\ Available(MetaBlocks)' = Available(MetaBlocks)
      /\ \A num : TableBlocks(num)' = TableBlocks(num)
  BY <1>1, <1>2, InputsStay
<1>4. i \in Nat \ {0}  BY <1>1, <1>2, LayoutFacts, GroupBounds DEF Inputs
<1>5. Converting /\ Converting'  BY <1>2 DEF Converting
<1>6. Space' /\ Mapped' /\ Owners' /\ Contents'
  BY <1>1, <1>2, <1>3, <1>5 DEF Space, Mapped, Owners, Contents
<1>7. Progress'
  <2>1. f = 1 /\ f \in 1 .. Len(files) + 1  BY <1>1, <1>2, FilesFacts DEF Progress
  <2>2. committed  BY <1>1, <1>2, <1>4 DEF Progress
  <2> QED BY <1>1, <1>2, <1>3, <2>1, <2>2 DEF Progress
<1>8. StreamIntact' /\ FilesKept'
  BY <1>2, <1>3, <1>5 DEF ConversionInv, StreamIntact, FilesKept
<1>9. DirectoriesBuilt' /\ CopiesWritten'
  <2>1. f' = 1  BY <1>1, <1>2 DEF Progress
  <2>2. \A n \in 1 .. Len(files') : ~ (n < 1)  BY FilesFacts, <1>1, <1>3
  <2> QED BY <1>2, <2>1, <2>2 DEF DirectoriesBuilt, CopiesWritten
<1>10. TablesBuilt'
  <2>1. \A num \in GroupNumbers(layout) : num < i  BY <1>2, <1>4 DEF GroupNumbers
  <2> QED BY <1>2, <1>3, <2>1 DEF ConversionInv, TablesBuilt
<1> QED BY <1>3, <1>6, <1>7, <1>8, <1>9, <1>10 DEF ConversionInv

\* A file's extents are registered where they are.
LEMMA BuildFileStep ==
  ASSUME ConversionInv, BuildFile
  PROVE  ConversionInv'
<1>1. Inputs /\ Space /\ Progress /\ Mapped /\ Owners /\ Contents  BY DEF ConversionInv
<1>2. /\ UNCHANGED inputVars
      /\ UNCHANGED <<mem, versions, blocked, avail, pages, map, i, committed, step>>
      /\ step = "build" /\ f <= Len(files) /\ ~ files[f].dir /\ f' = f + 1
  BY DEF BuildFile, NoWrite
<1>3. /\ layout' = layout /\ files' = files /\ Inputs' /\ Blocks' = Blocks
      /\ FatBlocks' = FatBlocks /\ GroupNumbers(layout)' = GroupNumbers(layout)
      /\ DataBlocks' = DataBlocks /\ Used(files)' = Used(files)
      /\ MetaBlocks' = MetaBlocks /\ Available(MetaBlocks)' = Available(MetaBlocks)
      /\ \A num : TableBlocks(num)' = TableBlocks(num)
  BY <1>1, <1>2, InputsStay
<1>4. Converting /\ Converting'  BY <1>2 DEF Converting
<1>5. Space' /\ Mapped' /\ Owners' /\ Contents'
  BY <1>1, <1>2, <1>3, <1>4 DEF Space, Mapped, Owners, Contents
<1>6. f \in 1 .. Len(files) /\ f + 1 \in 1 .. Len(files) + 1 /\ f + 1 \in Nat
  BY <1>1, <1>2, FilesFacts DEF Progress
<1>7. Progress'  BY <1>1, <1>2, <1>3, <1>6 DEF Progress
<1>8. StreamIntact' /\ FilesKept'
  BY <1>2, <1>3, <1>4 DEF ConversionInv, StreamIntact, FilesKept
<1>9. DirectoriesBuilt'
  <2>1. SUFFICES ASSUME NEW n \in 1 .. Len(files), files[n].dir, n < f + 1,
                        NEW k \in 1 .. Len(map[n])
                 PROVE  mem[map[n][k]] = Dir
    BY <1>2, <1>3 DEF DirectoriesBuilt, FileBlocks
  <2>2. n # f  BY <1>2, <2>1
  <2>3. n < f  BY <1>6, <2>1, <2>2
  <2> QED BY <1>2, <2>1, <2>3 DEF ConversionInv, DirectoriesBuilt, FileBlocks
<1>10. TablesBuilt' /\ CopiesWritten'
  BY <1>2, <1>3 DEF ConversionInv, TablesBuilt, CopiesWritten
<1> QED BY <1>3, <1>5, <1>7, <1>8, <1>9, <1>10 DEF ConversionInv

\* An extent tree takes a block of the allocator, and that one only.
LEMMA TakeIndexBlockStep ==
  ASSUME ConversionInv, TakeIndexBlock
  PROVE  ConversionInv'
<1>1. Inputs /\ Space /\ Progress /\ Mapped /\ Owners /\ Contents  BY DEF ConversionInv
<1>2. PICK x : x = Allocated  OBVIOUS
<1>3. /\ UNCHANGED inputVars
      /\ UNCHANGED <<blocked, pages, map, f, i, committed, step>>
      /\ step \in {"build", "lost+found"} /\ avail # {} /\ avail' = avail \ {x}
      /\ Write([b \in {x} |-> Meta])
  BY <1>2 DEF TakeIndexBlock
<1>4. /\ layout' = layout /\ files' = files /\ Inputs' /\ Blocks' = Blocks
      /\ FatBlocks' = FatBlocks /\ GroupNumbers(layout)' = GroupNumbers(layout)
      /\ DataBlocks' = DataBlocks /\ Used(files)' = Used(files)
      /\ MetaBlocks' = MetaBlocks /\ Available(MetaBlocks)' = Available(MetaBlocks)
      /\ \A num : TableBlocks(num)' = TableBlocks(num)
  BY <1>1, <1>3, InputsStay
<1>5. /\ mem' = [b \in Blocks |-> IF b \in {x} THEN Meta ELSE mem[b]]
      /\ DOMAIN versions' = Blocks
  BY <1>3 DEF Write
<1>6. x \in avail /\ x \in Available(MetaBlocks)  BY <1>1, <1>2, <1>3, AllocatedFacts
<1>7. Converting /\ Converting'  BY <1>3 DEF Converting
<1>8. \A n \in 1 .. Len(map) : \A k \in 1 .. Len(map[n]) :
        map[n][k] \in Blocks /\ map[n][k] # x
  <2>1. DataBlocks \subseteq Blocks  BY <1>1, LayoutFacts DEF Inputs
  <2> QED BY <1>1, <1>6, <1>7, <2>1 DEF Owners
<1>9. \A b \in pages : b \in Blocks /\ b # x
  BY <1>1, <1>6, AvailableFacts DEF Space
<1>10. \A num \in GroupNumbers(layout) : x \notin TableBlocks(num)
  BY <1>1, <1>6, AvailableFacts, UnblockedFacts
<1>11. Space' /\ Mapped' /\ Owners'
  BY <1>1, <1>3, <1>4, <1>7 DEF Space, Mapped, Owners
<1>12. Progress'  BY <1>1, <1>3, <1>4 DEF Progress
<1>13. Contents'  BY <1>1, <1>3, <1>4, <1>5 DEF Contents, Meta, Progress
<1>14. StreamIntact'  BY <1>3, <1>5, <1>9 DEF ConversionInv, StreamIntact
<1>15. \A n \in 1 .. Len(files) : n \in 1 .. Len(map)  BY <1>1, <1>3 DEF Progress
<1>16. FilesKept'
  <2>1. SUFFICES ASSUME NEW n \in 1 .. Len(files), ~ files[n].dir,
                        NEW k \in 1 .. Len(map[n])
                 PROVE  mem'[map[n][k]] = files[n].chain[k]
    BY <1>3, <1>4 DEF FilesKept
  <2>2. Len(map) \in Nat  BY <1>1 DEF Progress
  <2>3. mem[map[n][k]] = files[n].chain[k]
    BY <1>7, <1>15, <2>1, <2>2 DEF ConversionInv, FilesKept
  <2> QED BY <1>5, <1>8, <1>15, <2>1, <2>3
<1>17. DirectoriesBuilt'
  <2>1. SUFFICES ASSUME NEW n \in 1 .. Len(files), files[n].dir, n < f \/ step = "lost+found",
                        NEW k \in 1 .. Len(map[n])
                 PROVE  mem'[map[n][k]] = Dir
    BY <1>3, <1>4 DEF DirectoriesBuilt, FileBlocks
  <2>2. mem[map[n][k]] = Dir
    BY <1>3, <2>1 DEF ConversionInv, DirectoriesBuilt, FileBlocks
  <2> QED BY <1>5, <1>8, <1>15, <2>1, <2>2
<1>18. TablesBuilt'
  BY <1>3, <1>4, <1>5, <1>10 DEF ConversionInv, TablesBuilt
<1>19. CopiesWritten'  BY <1>3 DEF CopiesWritten
<1> QED BY <1>4, <1>11, <1>12, <1>13, <1>14, <1>16, <1>17, <1>18, <1>19 DEF ConversionInv

\* A directory gets a block of the allocator, and it is written.
LEMMA DirectoryGrows ==
  ASSUME ConversionInv, NEW g \in 1 .. Len(files), files[g].dir, AddDirBlock(g),
         UNCHANGED inputVars, UNCHANGED <<blocked, pages, f, i, committed>>, step = "build",
         step' = "build" \/ (step' = "lost+found" /\ f = Len(files) + 1)
  PROVE  ConversionInv'
<1>1. Inputs /\ Space /\ Progress /\ Mapped /\ Owners /\ Contents  BY DEF ConversionInv
<1>2. PICK x : x = Allocated  OBVIOUS
<1>3. /\ avail # {} /\ avail' = avail \ {x}
      /\ map' = [map EXCEPT ![g] = Append(@, x)]
      /\ Write([b \in {x} |-> Dir])
  BY <1>2 DEF AddDirBlock
<1>4. /\ layout' = layout /\ files' = files /\ Inputs' /\ Blocks' = Blocks
      /\ FatBlocks' = FatBlocks /\ GroupNumbers(layout)' = GroupNumbers(layout)
      /\ DataBlocks' = DataBlocks
      /\ MetaBlocks' = MetaBlocks /\ Available(MetaBlocks)' = Available(MetaBlocks)
      /\ \A num : TableBlocks(num)' = TableBlocks(num)
  BY <1>1, InputsStay
<1>5. Converting /\ Converting'  BY DEF Converting
<1>6. /\ map \in Seq(Seq(Nat)) /\ Len(map) = Len(files) /\ g \in 1 .. Len(map)
      /\ Len(files) \in Nat /\ f \in 1 .. Len(files) + 1
  BY <1>1, FilesFacts DEF Progress
<1>7. x \in avail /\ x \in Available(MetaBlocks)  BY <1>1, <1>2, <1>3, AllocatedFacts
<1>8. /\ x \in Nat /\ x \in DataBlocks /\ x \in Blocks /\ x \notin MetaBlocks
      /\ x \notin Used(files) /\ x \notin pages
      /\ \A num \in GroupNumbers(layout) : x \notin TableBlocks(num)
  BY <1>1, <1>7, AvailableFacts, UnblockedFacts DEF Space
<1>9. \A n \in 1 .. Len(map) : \A k \in 1 .. Len(map[n]) : map[n][k] # x /\ map[n][k] \in Blocks
  <2>1. DataBlocks \subseteq Blocks  BY <1>1, LayoutFacts DEF Inputs
  <2> QED BY <1>1, <1>5, <1>7, <2>1 DEF Owners
<1>10. Owners'
  <2>1. pages' = pages /\ avail' \subseteq avail /\ x \notin avail'  BY <1>3
  <2> QED BY <1>1, <1>3, <1>5, <1>6, <1>8, <1>9, <2>1, OwnersGrow
<1>11. /\ map' \in Seq(Seq(Nat)) /\ Len(map') = Len(map)
       /\ \A n \in 1 .. Len(map) : n # g => map'[n] = map[n]
       /\ Len(map'[g]) = Len(map[g]) + 1 /\ Len(map[g]) \in Nat
       /\ \A k \in 1 .. Len(map[g]) : map'[g][k] = map[g][k]
       /\ map'[g][Len(map[g]) + 1] = x
  BY <1>3, <1>6, <1>8, AppendAt
<1>12. /\ mem' = [b \in Blocks |-> IF b \in {x} THEN Dir ELSE mem[b]]
       /\ DOMAIN versions' = Blocks
  BY <1>3 DEF Write
<1>13. Space'  BY <1>1, <1>3, <1>4, <1>5 DEF Space
<1>14. Progress'  BY <1>1, <1>4, <1>6, <1>11 DEF Progress
<1>15. \A n \in 1 .. Len(files) : ~ files[n].dir => map'[n] = map[n] /\ n \in 1 .. Len(map)
  BY <1>6, <1>11
<1>16. Mapped'  BY <1>1, <1>4, <1>15 DEF Mapped
<1>17. Contents'  BY <1>1, <1>4, <1>12 DEF Contents, Dir, Progress
<1>18. StreamIntact' /\ CopiesWritten'
  <2>1. pages \subseteq Blocks  BY <1>1, AvailableFacts DEF Space
  <2> QED BY <1>8, <1>12, <2>1 DEF ConversionInv, StreamIntact, CopiesWritten
<1>19. FilesKept'
  <2>1. SUFFICES ASSUME NEW n \in 1 .. Len(files), ~ files[n].dir,
                        NEW k \in 1 .. Len(map'[n])
                 PROVE  mem'[map'[n][k]] = files[n].chain[k]
    BY <1>4 DEF FilesKept
  <2>2. map'[n] = map[n] /\ n \in 1 .. Len(map)  BY <1>15, <2>1
  <2>2a. n <= Len(map)  BY <1>6
  <2>3. mem[map[n][k]] = files[n].chain[k]
    BY <1>5, <2>1, <2>2, <2>2a DEF ConversionInv, FilesKept
  <2> QED BY <1>9, <1>12, <2>1, <2>2, <2>3
<1>20. DirectoriesBuilt'
  <2>1. SUFFICES ASSUME NEW n \in 1 .. Len(files), files[n].dir, n < f,
                        NEW k \in 1 .. Len(map'[n])
                 PROVE  mem'[map'[n][k]] = Dir
    BY <1>4, <1>6 DEF DirectoriesBuilt, FileBlocks
  <2>2. n \in 1 .. Len(map)  BY <1>6
  <2>3. CASE map'[n][k] = x  BY <1>8, <1>12, <2>3
  <2>4. CASE k \in 1 .. Len(map[n]) /\ map'[n][k] = map[n][k]
    <3>1. mem[map[n][k]] = Dir
      BY <2>1, <2>4 DEF ConversionInv, DirectoriesBuilt, FileBlocks
    <3> QED BY <1>9, <1>12, <2>2, <2>4, <3>1
  <2>5. CASE n # g
    <3>1. map'[n] = map[n]  BY <1>11, <2>2, <2>5
    <3> QED BY <2>4, <3>1
  <2>6. CASE n = g
    <3>1. k \in 1 .. Len(map[g]) \/ k = Len(map[g]) + 1  BY <1>11, <2>6
    <3> QED BY <1>11, <2>3, <2>4, <2>6, <3>1
  <2> QED BY <2>5, <2>6
<1>21. TablesBuilt'
  BY <1>4, <1>8, <1>12 DEF ConversionInv, TablesBuilt
<1> QED BY <1>4, <1>10, <1>13, <1>14, <1>16, <1>17, <1>18, <1>19, <1>20, <1>21 DEF ConversionInv

\* next_dir_block takes a block for the directory at hand,
LEMMA GrowDirectoryStep ==
  ASSUME ConversionInv, GrowDirectory
  PROVE  ConversionInv'
<1>1. Inputs /\ Progress  BY DEF ConversionInv
<1>2. /\ step = "build" /\ f <= Len(files) /\ files[f].dir /\ AddDirBlock(f)
      /\ UNCHANGED inputVars /\ UNCHANGED <<blocked, pages, f, i, committed>> /\ step' = step
  BY DEF GrowDirectory
<1>3. f \in 1 .. Len(files)  BY <1>1, <1>2, FilesFacts DEF Progress
<1> QED BY <1>2, <1>3, DirectoryGrows

\* build_lost_found one for the root.
LEMMA ExtendRootStep ==
  ASSUME ConversionInv, ExtendRoot
  PROVE  ConversionInv'
<1>1. Inputs /\ Progress  BY DEF ConversionInv
<1>2. /\ step = "build" /\ f > Len(files) /\ AddDirBlock(1)
      /\ UNCHANGED inputVars /\ UNCHANGED <<blocked, pages, f, i, committed>>
      /\ step' = "lost+found"
  BY DEF ExtendRoot
<1>3. 1 \in 1 .. Len(files) /\ files[1].dir /\ f = Len(files) + 1
  BY <1>1, <1>2, FilesFacts DEF Progress
<1> QED BY <1>2, <1>3, DirectoryGrows

\* A directory gives back the blocks after the first j.
LEMMA OwnersCut ==
  ASSUME Inputs, Owners, Converting, UNCHANGED inputVars,
         map \in Seq(Seq(Nat)), NEW g \in 1 .. Len(map), NEW j \in 1 .. Len(map[g]),
         map' = [map EXCEPT ![g] = SubSeq(@, 1, j)],
         pages' = pages, avail' = avail
  PROVE  /\ Owners'
         /\ map' \in Seq(Seq(Nat)) /\ Len(map') = Len(map)
         /\ \A n \in 1 .. Len(map) : n # g => map'[n] = map[n]
<1>1. map[g] \in Seq(Nat) /\ Len(map[g]) \in Nat  BY ElementOfSeq
<1>2. /\ SubSeq(map[g], 1, j) \in Seq(Nat) /\ Len(SubSeq(map[g], 1, j)) = j
      /\ \A k \in 1 .. j : SubSeq(map[g], 1, j)[k] = map[g][k]
  <2>1. /\ SubSeq(map[g], 1, j) \in Seq(Nat)
        /\ Len(SubSeq(map[g], 1, j)) = IF 1 <= j THEN j - 1 + 1 ELSE 0
        /\ \A k \in 1 .. j - 1 + 1 : SubSeq(map[g], 1, j)[k] = map[g][1 + k - 1]
    BY <1>1, SubSeqProperties
  <2>2. j \in Nat /\ 1 <= j /\ j - 1 + 1 = j  BY <1>1
  <2>3. \A k \in 1 .. j : 1 + k - 1 = k  OBVIOUS
  <2> QED BY <2>1, <2>2, <2>3
<1>3. /\ map' \in Seq(Seq(Nat)) /\ Len(map') = Len(map)
      /\ map'[g] = SubSeq(map[g], 1, j)
      /\ \A n \in 1 .. Len(map) : n # g => map'[n] = map[n]
  BY <1>2, ExceptSeq
<1>4. /\ files' = files /\ DataBlocks' = DataBlocks /\ MetaBlocks' = MetaBlocks
      /\ Used(files)' = Used(files)
  BY InputsStay
<1>5. ASSUME NEW n \in 1 .. Len(map'), NEW k \in 1 .. Len(map'[n])
      PROVE  n \in 1 .. Len(map) /\ k \in 1 .. Len(map[n]) /\ map'[n][k] = map[n][k]
  <2>1. CASE n = g
    <3>1. k \in 1 .. j /\ k \in 1 .. Len(map[g])  BY <1>1, <1>2, <1>3, <2>1
    <3> QED BY <1>2, <1>3, <2>1, <3>1
  <2>2. CASE n # g  BY <1>3, <2>2
  <2> QED BY <2>1, <2>2
<1>6. ASSUME NEW n \in 1 .. Len(map'), NEW k \in 1 .. Len(map'[n])
      PROVE  /\ map'[n][k] \in DataBlocks'
             /\ map'[n][k] \notin MetaBlocks'
             /\ map'[n][k] \notin pages'
             /\ map'[n][k] \notin avail'
             /\ map'[n][k] \in Used(files)' =>
                  /\ n \in 1 .. Len(files')
                  /\ k \in 1 .. Len(files'[n].chain)
                  /\ map'[n][k] = files'[n].chain[k]
  BY <1>4, <1>5 DEF Owners
<1>7. ASSUME NEW n \in 1 .. Len(map'), NEW m \in 1 .. Len(map'),
             NEW k \in 1 .. Len(map'[n]), NEW l \in 1 .. Len(map'[m]), map'[n][k] = map'[m][l]
      PROVE  n = m /\ k = l
  <2>1. \A a, b \in 1 .. Len(map) : \A c \in 1 .. Len(map[a]), d \in 1 .. Len(map[b]) :
          map[a][c] = map[b][d] => a = b /\ c = d
    BY DEF Owners
  <2>2. n \in 1 .. Len(map) /\ k \in 1 .. Len(map[n]) /\ map'[n][k] = map[n][k]  BY <1>5
  <2>3. m \in 1 .. Len(map) /\ l \in 1 .. Len(map[m]) /\ map'[m][l] = map[m][l]  BY <1>5
  <2>4. map[n][k] = map[m][l]  BY <1>7, <2>2, <2>3
  <2>5. \A c \in 1 .. Len(map[n]), d \in 1 .. Len(map[m]) :
          map[n][c] = map[m][d] => n = m /\ c = d
    BY <2>1, <2>2, <2>3, Zenon
  <2> QED BY <2>2, <2>3, <2>4, <2>5, Zenon
<1> QED BY <1>3, <1>6, <1>7 DEF Owners

\* A directory is written over its own blocks.
LEMMA BuildDirectoryStep ==
  ASSUME ConversionInv, BuildDirectory
  PROVE  ConversionInv'
<1>1. Inputs /\ Space /\ Progress /\ Mapped /\ Owners /\ Contents  BY DEF ConversionInv
<1>2. /\ UNCHANGED inputVars
      /\ UNCHANGED <<blocked, avail, pages, i, committed, step>>
      /\ step = "build" /\ f <= Len(files) /\ files[f].dir /\ f' = f + 1
      /\ Write([b \in { map'[f][k] : k \in 1 .. Len(map'[f]) } |-> Dir])
  BY DEF BuildDirectory
<1>3. /\ layout' = layout /\ files' = files /\ Inputs' /\ Blocks' = Blocks
      /\ FatBlocks' = FatBlocks /\ GroupNumbers(layout)' = GroupNumbers(layout)
      /\ DataBlocks' = DataBlocks
      /\ MetaBlocks' = MetaBlocks /\ Available(MetaBlocks)' = Available(MetaBlocks)
      /\ \A num : TableBlocks(num)' = TableBlocks(num)
  BY <1>1, <1>2, InputsStay
<1>4. Converting /\ Converting'  BY <1>2 DEF Converting
<1>5. f \in 1 .. Len(files) /\ f + 1 \in 1 .. Len(files) + 1 /\ f + 1 \in Nat
      /\ Len(map) = Len(files) /\ f \in 1 .. Len(map) /\ map \in Seq(Seq(Nat))
  BY <1>1, <1>2, FilesFacts DEF Progress
<1>6. /\ Owners' /\ Space'
      /\ map' \in Seq(Seq(Nat)) /\ Len(map') = Len(map)
      /\ \A n \in 1 .. Len(map) : n # f => map'[n] = map[n]
  <2>1. PICK j \in 1 .. Len(map[f]) : map' = [map EXCEPT ![f] = SubSeq(@, 1, j)]
    BY DEF BuildDirectory
  <2>2. Space'  BY <1>1, <1>2, <1>3, <1>4 DEF Space
  <2> QED BY <1>1, <1>2, <1>4, <1>5, <2>1, <2>2, OwnersCut
<1>7. PICK S : S = { map'[f][k] : k \in 1 .. Len(map'[f]) }  OBVIOUS
<1>8. /\ mem' = [b \in Blocks |-> IF b \in S THEN Dir ELSE mem[b]]
      /\ DOMAIN versions' = Blocks
  BY <1>2, <1>7 DEF Write
<1>9. \A n \in 1 .. Len(map') : \A k \in 1 .. Len(map'[n]) : map'[n][k] \in Blocks
  <2>1. DataBlocks \subseteq Blocks  BY <1>1, LayoutFacts DEF Inputs
  <2> QED BY <1>3, <1>4, <1>6, <2>1 DEF Owners
<1>10. \A b \in S : /\ b \notin pages
                    /\ \A num \in GroupNumbers(layout) : b \notin TableBlocks(num)
  <2>1. \A b \in S : b \in DataBlocks /\ b \notin MetaBlocks /\ b \notin pages
    BY <1>2, <1>3, <1>4, <1>5, <1>6, <1>7 DEF Owners
  <2> QED BY <1>1, <2>1, UnblockedFacts
<1>11. Progress'  BY <1>1, <1>2, <1>3, <1>5, <1>6 DEF Progress
<1>12. \A n \in 1 .. Len(files) : ~ files[n].dir => map'[n] = map[n]
  BY <1>2, <1>5, <1>6
<1>13. Mapped'  BY <1>1, <1>2, <1>3, <1>12 DEF Mapped
<1>14. Contents'  BY <1>1, <1>2, <1>3, <1>8 DEF Contents, Dir, Progress
<1>15. StreamIntact'
  <2>1. pages \subseteq Blocks  BY <1>1, AvailableFacts DEF Space
  <2> QED BY <1>2, <1>8, <1>10, <2>1 DEF ConversionInv, StreamIntact
<1>16. FilesKept'
  <2>1. SUFFICES ASSUME NEW n \in 1 .. Len(files), ~ files[n].dir,
                        NEW k \in 1 .. Len(map'[n])
                 PROVE  mem'[map'[n][k]] = files[n].chain[k]
    BY <1>2, <1>3 DEF FilesKept
  <2>2. n # f /\ n \in 1 .. Len(map) /\ n \in 1 .. Len(map')  BY <1>2, <1>5, <1>6, <2>1
  <2>3. map'[n] = map[n]  BY <1>12, <2>1
  <2>4. mem[map[n][k]] = files[n].chain[k]
    <3>1. n <= Len(map)  BY <1>5, <2>2
    <3> QED BY <1>4, <2>1, <2>3, <3>1 DEF ConversionInv, FilesKept
  <2>5. map'[n][k] \notin S
    <3>1. \A l \in 1 .. Len(map'[f]) : map'[n][k] # map'[f][l]
      BY <1>4, <1>5, <1>6, <2>1, <2>2 DEF Owners
    <3> QED BY <1>7, <3>1
  <2> QED BY <1>8, <1>9, <2>1, <2>2, <2>3, <2>4, <2>5
<1>17. DirectoriesBuilt'
  <2>1. SUFFICES ASSUME NEW n \in 1 .. Len(files), files[n].dir, n < f + 1,
                        NEW k \in 1 .. Len(map'[n])
                 PROVE  mem'[map'[n][k]] = Dir
    BY <1>2, <1>3 DEF DirectoriesBuilt, FileBlocks
  <2>2. n = f \/ n < f  BY <1>5, <2>1
  <2>3. map'[n][k] \in Blocks  BY <1>5, <1>6, <1>9, <2>1
  <2>4. CASE n = f  BY <1>7, <1>8, <2>3, <2>4
  <2>5. CASE n < f
    <3>1. map'[n] = map[n]  BY <1>5, <1>6, <2>1, <2>5
    <3>2. mem[map[n][k]] = Dir
      BY <1>2, <2>1, <2>5, <3>1 DEF ConversionInv, DirectoriesBuilt, FileBlocks
    <3> QED BY <1>8, <2>3, <3>1, <3>2
  <2> QED BY <2>2, <2>4, <2>5
<1>18. TablesBuilt'
  BY <1>2, <1>3, <1>8, <1>10 DEF ConversionInv, TablesBuilt
<1>19. CopiesWritten'  BY <1>2 DEF CopiesWritten
<1> QED BY <1>3, <1>6, <1>11, <1>13, <1>14, <1>15, <1>16, <1>17, <1>18, <1>19 DEF ConversionInv

\* lost+found gets a block of the allocator.
LEMMA BuildLostFoundStep ==
  ASSUME ConversionInv, BuildLostFound
  PROVE  ConversionInv'
<1>1. Inputs /\ Space /\ Progress /\ Mapped /\ Owners /\ Contents  BY DEF ConversionInv
<1>2. PICK x : x = Allocated  OBVIOUS
<1>3. /\ UNCHANGED inputVars
      /\ UNCHANGED <<blocked, pages, f, committed>>
      /\ step = "lost+found" /\ avail # {}
      /\ map' = Append(map, <<x>>)
      /\ Write([b \in {x} |-> Dir])
      /\ avail' = avail \ {x}
      /\ i' = 0 /\ step' = "finalize"
  BY <1>2 DEF BuildLostFound
<1>4. /\ layout' = layout /\ files' = files /\ Inputs' /\ Blocks' = Blocks
      /\ FatBlocks' = FatBlocks /\ GroupNumbers(layout)' = GroupNumbers(layout)
      /\ DataBlocks' = DataBlocks /\ Used(files)' = Used(files)
      /\ MetaBlocks' = MetaBlocks /\ Available(MetaBlocks)' = Available(MetaBlocks)
      /\ \A num : TableBlocks(num)' = TableBlocks(num)
  BY <1>1, <1>3, InputsStay
<1>5. Converting /\ Converting'  BY <1>3 DEF Converting
<1>6. x \in avail /\ x \in Available(MetaBlocks)  BY <1>1, <1>2, <1>3, AllocatedFacts
<1>7. /\ x \in Nat /\ x \in DataBlocks /\ x \in Blocks /\ x \notin MetaBlocks
      /\ x \notin Used(files) /\ x \notin pages
      /\ \A num \in GroupNumbers(layout) : x \notin TableBlocks(num)
  BY <1>1, <1>6, AvailableFacts, UnblockedFacts DEF Space
<1>8. map \in Seq(Seq(Nat)) /\ Len(map) = Len(files) /\ Len(files) \in Nat
  BY <1>1, <1>3, FilesFacts DEF Progress
<1>9. /\ map' \in Seq(Seq(Nat)) /\ Len(map') = Len(files) + 1
      /\ map'[Len(files) + 1] = <<x>>
      /\ \A n \in 1 .. Len(files) : map'[n] = map[n]
  <2>1. <<x>> \in Seq(Nat)  BY <1>7
  <2> QED BY <1>3, <1>8, <2>1, AppendProperties
<1>10. ASSUME NEW n \in 1 .. Len(map'), NEW k \in 1 .. Len(map'[n])
       PROVE  \/ n \in 1 .. Len(map) /\ k \in 1 .. Len(map[n]) /\ map'[n][k] = map[n][k]
              \/ n = Len(files) + 1 /\ k = 1 /\ map'[n][k] = x
  <2>1. n \in 1 .. Len(files) \/ n = Len(files) + 1  BY <1>8, <1>9
  <2>2. CASE n = Len(files) + 1
    <3>1. k \in 1 .. Len(<<x>>) /\ map'[n][k] = <<x>>[k]  BY <1>9, <2>2
    <3>2. k = 1  BY <3>1
    <3> QED BY <2>2, <3>1, <3>2
  <2>3. CASE n \in 1 .. Len(files)  BY <1>8, <1>9, <2>3
  <2> QED BY <2>1, <2>2, <2>3
<1>11. \A n \in 1 .. Len(map) : \A k \in 1 .. Len(map[n]) :
         map[n][k] # x /\ map[n][k] \in Blocks
  <2>1. DataBlocks \subseteq Blocks  BY <1>1, LayoutFacts DEF Inputs
  <2> QED BY <1>1, <1>5, <1>6, <2>1 DEF Owners
<1>12. /\ mem' = [b \in Blocks |-> IF b \in {x} THEN Dir ELSE mem[b]]
       /\ DOMAIN versions' = Blocks
  BY <1>3 DEF Write
<1>13. Space'  BY <1>1, <1>3, <1>4, <1>5 DEF Space
<1>14. Progress'
  <2>1. 0 \in Nat /\ 0 <= 3  OBVIOUS
  <2> QED BY <1>1, <1>3, <1>4, <1>9, <2>1 DEF Progress
<1>15. Mapped'  BY <1>1, <1>3, <1>4, <1>9 DEF Mapped
<1>16. Owners'
  <2>1. ASSUME NEW n \in 1 .. Len(map'), NEW k \in 1 .. Len(map'[n])
        PROVE  /\ map'[n][k] \in DataBlocks'
               /\ map'[n][k] \notin MetaBlocks'
               /\ map'[n][k] \notin pages'
               /\ map'[n][k] \notin avail'
               /\ map'[n][k] \in Used(files)' =>
                    /\ n \in 1 .. Len(files')
                    /\ k \in 1 .. Len(files'[n].chain)
                    /\ map'[n][k] = files'[n].chain[k]
    <3>1. CASE map'[n][k] = x  BY <1>3, <1>4, <1>7, <3>1
    <3>2. CASE n \in 1 .. Len(map) /\ k \in 1 .. Len(map[n]) /\ map'[n][k] = map[n][k]
      BY <1>1, <1>3, <1>4, <1>5, <3>2 DEF Owners
    <3> QED BY <1>10, <3>1, <3>2
  <2>2. ASSUME NEW n \in 1 .. Len(map'), NEW m \in 1 .. Len(map'),
               NEW k \in 1 .. Len(map'[n]), NEW l \in 1 .. Len(map'[m]), map'[n][k] = map'[m][l]
        PROVE  n = m /\ k = l
    <3>1. \A a, b \in 1 .. Len(map) : \A c \in 1 .. Len(map[a]), d \in 1 .. Len(map[b]) :
            map[a][c] = map[b][d] => a = b /\ c = d
      BY <1>1, <1>5 DEF Owners
    <3>2. \/ n \in 1 .. Len(map) /\ k \in 1 .. Len(map[n]) /\ map'[n][k] = map[n][k]
          \/ n = Len(files) + 1 /\ k = 1 /\ map'[n][k] = x
      BY <1>10
    <3>3. \/ m \in 1 .. Len(map) /\ l \in 1 .. Len(map[m]) /\ map'[m][l] = map[m][l]
          \/ m = Len(files) + 1 /\ l = 1 /\ map'[m][l] = x
      BY <1>10
    <3>4. CASE map'[n][k] = x  BY <1>11, <2>2, <3>2, <3>3, <3>4
    <3>5. CASE map'[n][k] # x
      <4>1. map[n][k] = map[m][l] /\ n \in 1 .. Len(map) /\ k \in 1 .. Len(map[n])
            /\ m \in 1 .. Len(map) /\ l \in 1 .. Len(map[m])
        BY <2>2, <3>2, <3>3, <3>5
      <4>2. \A c \in 1 .. Len(map[n]), d \in 1 .. Len(map[m]) :
              map[n][c] = map[m][d] => n = m /\ c = d
        BY <3>1, <4>1, Zenon
      <4> QED BY <4>1, <4>2, Zenon
    <3> QED BY <3>4, <3>5
  <2> QED BY <2>1, <2>2 DEF Owners
<1>17. Contents'  BY <1>1, <1>3, <1>4, <1>12 DEF Contents, Dir, Progress
<1>18. StreamIntact' /\ CopiesWritten'
  <2>1. \A j \in 1 .. 3 : ~ (j <= 0)  OBVIOUS
  <2> QED BY <1>3, <2>1 DEF StreamIntact, CopiesWritten
<1>19. FilesKept' /\ DirectoriesBuilt'
  <2>1. ASSUME NEW n \in 1 .. Len(files), NEW k \in 1 .. Len(map'[n])
        PROVE  /\ ~ files[n].dir => mem'[map'[n][k]] = files[n].chain[k]
               /\ files[n].dir => mem'[map'[n][k]] = Dir
    <3>1. n \in 1 .. Len(map) /\ n <= Len(map) /\ map'[n] = map[n]  BY <1>8, <1>9
    <3>2. /\ ~ files[n].dir => mem[map[n][k]] = files[n].chain[k]
          /\ files[n].dir => mem[map[n][k]] = Dir
      BY <1>3, <1>5, <3>1 DEF ConversionInv, FilesKept, DirectoriesBuilt, FileBlocks
    <3> QED BY <1>11, <1>12, <3>1, <3>2
  <2> QED BY <1>4, <2>1 DEF FilesKept, DirectoriesBuilt, FileBlocks
<1>20. TablesBuilt'
  BY <1>3, <1>4, <1>7, <1>12 DEF ConversionInv, TablesBuilt
<1> QED BY <1>4, <1>13, <1>14, <1>15, <1>16, <1>17, <1>18, <1>19, <1>20 DEF ConversionInv

\* write_sb_copy writes over neither tables nor blocks of files.
LEMMA WriteSuperblockCopyStep ==
  ASSUME ConversionInv, WriteSuperblockCopy
  PROVE  ConversionInv'
<1>1. Inputs /\ Space /\ Progress /\ Mapped /\ Owners /\ Contents  BY DEF ConversionInv
<1>2. PICK g : g = CopyOrder[i + 1]  OBVIOUS
<1>3. /\ UNCHANGED inputVars
      /\ UNCHANGED <<blocked, avail, pages, map, f, committed, step>>
      /\ step = "finalize" /\ i < 3 /\ i' = i + 1
      /\ Write([b \in CopyBlocks(g) |-> Super])
  BY <1>2 DEF WriteSuperblockCopy
<1>4. /\ layout' = layout /\ files' = files /\ Inputs' /\ Blocks' = Blocks
      /\ FatBlocks' = FatBlocks /\ GroupNumbers(layout)' = GroupNumbers(layout)
      /\ DataBlocks' = DataBlocks /\ Used(files)' = Used(files)
      /\ MetaBlocks' = MetaBlocks /\ Available(MetaBlocks)' = Available(MetaBlocks)
      /\ \A num : TableBlocks(num)' = TableBlocks(num) /\ CopyBlocks(num)' = CopyBlocks(num)
      /\ CopyOrder' = CopyOrder
  BY <1>1, <1>3, InputsStay
<1>5. i \in Nat /\ i + 1 \in 1 .. 3  BY <1>1, <1>3 DEF Progress
<1>6. g \in GroupNumbers(layout)  BY <1>1, <1>2, <1>5, CopyOrderFacts DEF Inputs
<1>7. /\ mem' = [b \in Blocks |-> IF b \in CopyBlocks(g) THEN Super ELSE mem[b]]
      /\ DOMAIN versions' = Blocks
  BY <1>3 DEF Write
<1>8. Converting /\ Converting'  BY <1>3 DEF Converting
<1>9. \A n \in 1 .. Len(map) : \A k \in 1 .. Len(map[n]) :
        map[n][k] \in Blocks /\ map[n][k] \notin CopyBlocks(g)
  <2>1. DataBlocks \subseteq Blocks  BY <1>1, LayoutFacts DEF Inputs
  <2> QED BY <1>1, <1>6, <1>8, <2>1, UnblockedFacts DEF Owners
<1>10. Space' /\ Mapped' /\ Owners'
  BY <1>1, <1>3, <1>4, <1>8 DEF Space, Mapped, Owners
<1>11. Progress'
  <2>1. i + 1 \in Nat /\ i + 1 <= 3  BY <1>5
  <2> QED BY <1>1, <1>3, <1>4, <2>1 DEF Progress
<1>12. Contents'  BY <1>1, <1>3, <1>4, <1>7 DEF Contents, Super, Progress
<1>13. StreamIntact'  BY <1>3 DEF StreamIntact
<1>14. \A n \in 1 .. Len(files) : n \in 1 .. Len(map) /\ n <= Len(map)
  BY <1>1, <1>3, FilesFacts DEF Progress
<1>15. FilesKept'
  <2>1. SUFFICES ASSUME NEW n \in 1 .. Len(files), ~ files[n].dir,
                        NEW k \in 1 .. Len(map[n])
                 PROVE  mem'[map[n][k]] = files[n].chain[k]
    BY <1>3, <1>4 DEF FilesKept
  <2>2. mem[map[n][k]] = files[n].chain[k]
    BY <1>8, <1>14, <2>1 DEF ConversionInv, FilesKept
  <2> QED BY <1>7, <1>9, <1>14, <2>1, <2>2
<1>16. DirectoriesBuilt'
  <2>1. SUFFICES ASSUME NEW n \in 1 .. Len(files), files[n].dir,
                        NEW k \in 1 .. Len(map[n])
                 PROVE  mem'[map[n][k]] = Dir
    BY <1>3, <1>4 DEF DirectoriesBuilt, FileBlocks
  <2>2. mem[map[n][k]] = Dir
    BY <1>3, <2>1 DEF ConversionInv, DirectoriesBuilt, FileBlocks
  <2> QED BY <1>7, <1>9, <1>14, <2>1, <2>2
<1>17. TablesBuilt'
  <2>1. SUFFICES ASSUME NEW num \in GroupNumbers(layout), NEW b \in TableBlocks(num) \cap Blocks
                 PROVE  mem'[b] = Meta
    BY <1>4 DEF TablesBuilt
  <2>2. mem[b] = Meta  BY <1>3 DEF ConversionInv, TablesBuilt
  <2>3. CopyBlocks(g) \cap TableBlocks(num) = {}
    BY <1>1, <1>6, CopiesApartFromTables DEF Inputs
  <2> QED BY <1>7, <2>1, <2>2, <2>3
<1>18. CopiesWritten'
  <2>1. SUFFICES ASSUME NEW j \in 1 .. 3, j <= i + 1,
                        NEW b \in CopyBlocks(CopyOrder[j]) \cap Blocks
                 PROVE  mem'[b] = Super
    BY <1>3, <1>4 DEF CopiesWritten
  <2>2. j <= i \/ j = i + 1  BY <1>5, <2>1
  <2>3. j <= i => mem[b] = Super  BY <1>3, <2>1 DEF ConversionInv, CopiesWritten
  <2> QED BY <1>2, <1>7, <2>1, <2>2, <2>3
<1> QED BY <1>4, <1>10, <1>11, <1>12, <1>13, <1>15, <1>16, <1>17, <1>18 DEF ConversionInv

\* After three calls of write_sb_copy every copy is there.
LEMMA ClosePartitionStep ==
  ASSUME ConversionInv, closePartition
  PROVE  ConversionInv'
<1>1. Inputs /\ Space /\ Progress /\ Mapped /\ Owners /\ Contents  BY DEF ConversionInv
<1>2. /\ UNCHANGED inputVars
      /\ UNCHANGED <<mem, versions, blocked, avail, pages, map, f, i, committed>>
      /\ step = "finalize" /\ i = 3 /\ step' = "done"
  BY DEF closePartition, NoWrite, progressVars
<1>3. /\ layout' = layout /\ files' = files /\ Inputs' /\ Blocks' = Blocks
      /\ FatBlocks' = FatBlocks /\ GroupNumbers(layout)' = GroupNumbers(layout)
      /\ DataBlocks' = DataBlocks /\ Used(files)' = Used(files)
      /\ MetaBlocks' = MetaBlocks /\ Available(MetaBlocks)' = Available(MetaBlocks)
      /\ \A num : TableBlocks(num)' = TableBlocks(num) /\ CopyBlocks(num)' = CopyBlocks(num)
      /\ CopyOrder' = CopyOrder
  BY <1>1, <1>2, InputsStay
<1>4. Converting /\ Converting'  BY <1>2 DEF Converting
<1>5. Space' /\ Mapped' /\ Owners' /\ Contents'
  BY <1>1, <1>2, <1>3, <1>4 DEF Space, Mapped, Owners, Contents
<1>6. Progress'  BY <1>1, <1>2, <1>3 DEF Progress
<1>7. StreamIntact' /\ FilesKept'
  BY <1>2, <1>3, <1>4 DEF ConversionInv, StreamIntact, FilesKept
<1>8. DirectoriesBuilt'
  BY <1>2, <1>3 DEF ConversionInv, DirectoriesBuilt, FileBlocks
<1>9. TablesBuilt'  BY <1>2, <1>3 DEF ConversionInv, TablesBuilt
<1>10. CopiesWritten'
  <2>1. \A j \in 1 .. 3 : j <= 3  OBVIOUS
  <2> QED BY <1>2, <1>3, <2>1 DEF ConversionInv, CopiesWritten
<1> QED BY <1>3, <1>5, <1>6, <1>7, <1>8, <1>9, <1>10 DEF ConversionInv

-----------------------------------------------------------------------------
(* The theorems.                                                           *)

\* ConversionInv is an invariant of main, its crashes and its restarts.
THEOREM ConversionInvariance == ConversionSpec => []ConversionInv
<1>1. ConversionInit => ConversionInv  BY InitInv
<1>2. ConversionInv /\ [ConversionNext]_conversionVars => ConversionInv'
  <2>1. SUFFICES ASSUME ConversionInv, [ConversionNext]_conversionVars PROVE ConversionInv'
    OBVIOUS
  <2>2. CASE openPartition \/ TooSmall  BY <2>1, <2>2, OpenOrExitStep
  <2>3. CASE InitConversion  BY <2>1, <2>3, InitConversionStep
  <2>4. CASE KeepCluster  BY <2>1, <2>4, KeepClusterStep
  <2>5. CASE ResettleCluster  BY <2>1, <2>5, ResettleClusterStep
  <2>6. CASE TakePage  BY <2>1, <2>6, TakePageStep
  <2>7. CASE NextFile  BY <2>1, <2>7, NextFileStep
  <2>8. CASE InitGroupDesc  BY <2>1, <2>8, InitGroupDescStep
  <2>9. CASE BuildRoot  BY <2>1, <2>9, BuildRootStep
  <2>10. CASE BuildFile  BY <2>1, <2>10, BuildFileStep
  <2>11. CASE BuildDirectory  BY <2>1, <2>11, BuildDirectoryStep
  <2>12. CASE BuildLostFound  BY <2>1, <2>12, BuildLostFoundStep
  <2>13. CASE WriteSuperblockCopy  BY <2>1, <2>13, WriteSuperblockCopyStep
  <2>14. CASE closePartition  BY <2>1, <2>14, ClosePartitionStep
  <2>15. CASE Crash  BY <2>1, <2>15, CrashStep
  <2>16. CASE Restart  BY <2>1, <2>16, RestartStep
  <2>17. CASE TakeIndexBlock  BY <2>1, <2>17, TakeIndexBlockStep
  <2>18. CASE GrowDirectory  BY <2>1, <2>18, GrowDirectoryStep
  <2>19. CASE ExtendRoot  BY <2>1, <2>19, ExtendRootStep
  <2>20. CASE UNCHANGED conversionVars
    <3>1. /\ UNCHANGED inputVars /\ UNCHANGED progressVars
          /\ UNCHANGED <<mem, versions, committed, step>>
      BY <2>20 DEF conversionVars
    <3>2. UNCHANGED <<layout, files, blocked, avail, pages, map, f, i, mem, versions, committed, step>>
      BY <3>1 DEF inputVars, progressVars
    <3>3. /\ Inputs' /\ Blocks' = Blocks /\ DataBlocks' = DataBlocks
          /\ MetaBlocks' = MetaBlocks /\ FatBlocks' = FatBlocks /\ Used(files)' = Used(files)
          /\ Available(MetaBlocks)' = Available(MetaBlocks)
          /\ GroupNumbers(layout)' = GroupNumbers(layout)
          /\ \A num : TableBlocks(num)' = TableBlocks(num) /\ CopyBlocks(num)' = CopyBlocks(num)
          /\ CopyOrder' = CopyOrder
      BY <2>1, <3>1, InputsStay DEF ConversionInv
    <3>4. Space' /\ Progress' /\ Mapped' /\ Contents'
      BY <2>1, <3>2, <3>3 DEF ConversionInv, Space, Progress, Mapped, Contents, Converting
    <3>5. Owners' /\ StreamIntact' /\ FilesKept'
      BY <2>1, <3>2, <3>3 DEF ConversionInv, Owners, StreamIntact, FilesKept, Converting
    <3>6. DirectoriesBuilt' /\ TablesBuilt' /\ CopiesWritten'
      BY <2>1, <3>2, <3>3
         DEF ConversionInv, DirectoriesBuilt, TablesBuilt, CopiesWritten, FileBlocks
    <3> QED BY <3>3, <3>4, <3>5, <3>6 DEF ConversionInv
  <2> QED BY <2>1, <2>2, <2>3, <2>4, <2>5, <2>6, <2>7, <2>8, <2>9, <2>10, <2>11, <2>12, <2>13,
             <2>14, <2>15, <2>16, <2>17, <2>18, <2>19, <2>20 DEF ConversionNext, Work
<1> QED BY <1>1, <1>2, PTL DEF ConversionSpec

\* Until init_ext4_group_descs begins to write, no step of main has changed a
\* block that FAT needs, whatever crashed or was started again.
THEOREM FatIntact == ConversionSpec => []FatIntactBeforeCommit
<1>1. ConversionInv => FatIntactBeforeCommit
  BY DEF ConversionInv, Contents, FatIntactBeforeCommit
<1> QED BY <1>1, ConversionInvariance, PTL

\* As long as the stream is written or read, nothing else is written over its pages.
THEOREM StreamStaysIntact == ConversionSpec => []StreamIntact
<1>1. ConversionInv => StreamIntact  BY DEF ConversionInv
<1> QED BY <1>1, ConversionInvariance, PTL

\* What main leaves on a partition whose last group has room for its metadata:
\* all metadata and copies in place, every file's clusters where its extents
\* say, and no block with two owners.
THEOREM ConversionIsComplete ==
  ConversionSpec => [](HoldsMetadata(layout) => ConversionComplete)
<1>1. ASSUME ConversionInv, HoldsMetadata(layout), step = "done" PROVE
        /\ \A num \in 0 .. block_group_count(layout) - 1 :
             /\ \A b \in TableBlocks(num) : mem[b] = Meta
             /\ \A b \in CopyBlocks(num) : mem[b] = Super
        /\ \A n \in 1 .. Len(files) :
             /\ ~ files[n].dir => [k \in 1 .. Len(map[n]) |-> mem[map[n][k]]] = files[n].chain
             /\ files[n].dir => \A b \in FileBlocks(n) : mem[b] = Dir
        /\ \A n, m \in 1 .. Len(map) : n # m => FileBlocks(n) \cap FileBlocks(m) = {}
  <2>1. Inputs /\ Progress /\ Mapped /\ Owners /\ Converting
    BY <1>1 DEF ConversionInv, Converting
  <2>2. ASSUME NEW num \in GroupNumbers(layout)
        PROVE  TableBlocks(num) \subseteq Blocks /\ CopyBlocks(num) \subseteq Blocks
    <3>1. layout.blocks_count \in Nat /\ block_group_start(layout, num) \in Nat
      BY <2>1, LayoutFacts, GroupBounds DEF Inputs
    <3>2. block_group_overhead(layout, num) \in Int
      BY <2>1, LayoutFacts, GroupBounds DEF Inputs
    <3>3. block_group_start(layout, num) + block_group_overhead(layout, num) <= layout.blocks_count
      BY <1>1 DEF HoldsMetadata, GroupNumbers
    <3>4. block_group_start(layout, num) ..
            block_group_start(layout, num) + block_group_overhead(layout, num) - 1 \subseteq Blocks
      BY <3>1, <3>2, <3>3 DEF Blocks
    <3> QED BY <2>1, <3>4, CopyBlocksFacts DEF Inputs
  <2>3. ASSUME NEW num \in GroupNumbers(layout), NEW b \in TableBlocks(num) PROVE mem[b] = Meta
    BY <1>1, <2>2, <2>3 DEF ConversionInv, TablesBuilt
  <2>4. ASSUME NEW num \in GroupNumbers(layout), NEW b \in CopyBlocks(num) PROVE mem[b] = Super
    <3>1. block_group_has_sb_copy(layout, num)  BY <2>4 DEF CopyBlocks
    <3>2. PICK j \in 1 .. 3 : num = CopyOrder[j]  BY <2>1, <3>1, CopyOrderFacts DEF Inputs
    <3> QED BY <1>1, <2>2, <2>4, <3>2 DEF ConversionInv, CopiesWritten
  <2>5. ASSUME NEW n \in 1 .. Len(files), ~ files[n].dir
        PROVE  [k \in 1 .. Len(map[n]) |-> mem[map[n][k]]] = files[n].chain
    <3>1. files[n].chain \in Seq(Nat)  BY <2>1, FilesFacts
    <3>2. Len(map[n]) = Len(files[n].chain)  BY <1>1, <2>1, <2>5 DEF Mapped
    <3>3. n <= Len(map)  BY <1>1, <2>1, FilesFacts DEF Progress
    <3>4. \A k \in 1 .. Len(map[n]) : mem[map[n][k]] = files[n].chain[k]
      BY <1>1, <2>1, <2>5, <3>3 DEF ConversionInv, FilesKept
    <3>5. files[n].chain = [k \in 1 .. Len(files[n].chain) |-> files[n].chain[k]]
      BY <3>1
    <3> QED BY <3>2, <3>4, <3>5
  <2>6. ASSUME NEW n \in 1 .. Len(files), files[n].dir, NEW b \in FileBlocks(n) PROVE mem[b] = Dir
    BY <1>1, <2>6 DEF ConversionInv, DirectoriesBuilt
  <2>7. ASSUME NEW n \in 1 .. Len(map), NEW m \in 1 .. Len(map), n # m
        PROVE  FileBlocks(n) \cap FileBlocks(m) = {}
    BY <2>1, <2>7 DEF Owners, FileBlocks
  <2> QED BY <2>3, <2>4, <2>5, <2>6, <2>7 DEF GroupNumbers
<1>2. ConversionInv => (HoldsMetadata(layout) => ConversionComplete)
  BY <1>1 DEF ConversionComplete
<1> QED BY <1>2, ConversionInvariance, PTL
=============================================================================
