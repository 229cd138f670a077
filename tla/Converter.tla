------------------------------ MODULE Converter ------------------------------
(***************************************************************************)
(* main (ofs-convert.cpp) as a whole, on the blocks of the partition: the  *)
(* order in which the components write to it, and what a crash leaves.     *)
(* The partition is a shared mapping that is never synced explicitly.      *)
(* After a crash of the program it holds what was written; after a loss of *)
(* power each block may be as it was before the first start.               *)
(*                                                                         *)
(* The components are abstract: a cluster chain is mapped cluster by       *)
(* cluster (ExtentMapper), an allocation is the first available cluster    *)
(* (FirstFit), the stream is the set of its pages (StreamArchiver), and of *)
(* the inodes and bitmaps (BlockGroups) only the blocks they are in        *)
(* matter; a directory is finished before its children are begun, and its  *)
(* blocks are written at its end.  How many blocks it needs, and whether   *)
(* an extent tree gets a second level, is left open.  An exit for lack of  *)
(* inodes is like a crash here.                                            *)
(***************************************************************************)
EXTENDS Geometry, FiniteSetsExt

CONSTANTS Layouts,        \* The superblock layouts
          FileSystems,    \* Sequences of [dir, chain]; the first is the root directory
          Paths,          \* Kinds of the path main is given
          MaxPages,       \* Bound on the pages of the stream
          RootMax,        \* Extents an inode has room for
          MaxDirBlocks,   \* Bound on the blocks a directory that grows is left with
          MaxRuns         \* Bound on how often the program is started

ASSUME LayoutsAssumption == \A g \in Layouts : UsableLayout(g)

\* The first file is the root directory, and no cluster is in two chains or
\* twice in one.
ASSUME FileSystemsAssumption ==
  /\ FileSystems \subseteq Seq([dir : BOOLEAN, chain : Seq(Nat)])
  /\ \A fs \in FileSystems :
       /\ Len(fs) > 0 /\ fs[1].dir
       /\ \A n, m \in 1 .. Len(fs) :
            \A k \in 1 .. Len(fs[n].chain), l \in 1 .. Len(fs[m].chain) :
              fs[n].chain[k] = fs[m].chain[l] => n = m /\ k = l

VARIABLES layout, files, path,
          size,           \* Size of what the path names, in blocks
          mem,            \* The content of every block of the mapping
          versions,       \* All contents a block ever had
          blocked,        \* Blocks of the blocked extents
          avail,          \* Blocks the allocator may still grant
          pages,          \* Blocks of the stream's pages
          map,            \* Per file, the blocks its extents list
          indexed,        \* The files whose extent tree has a second level
          f,              \* The file at hand
          i,              \* The group at hand
          committed,      \* init_ext4_group_descs has begun to write
          runs, step

progressVars == <<blocked, avail, pages, map, indexed, f, i>>
inputVars == <<layout, files, path, size>>
conversionVars == <<inputVars, mem, versions, progressVars, committed, runs, step>>

-----------------------------------------------------------------------------
(***************************************************************************)
(* The partition.  The blocks before data_start hold the FAT.              *)
(***************************************************************************)
Blocks == 0 .. layout.blocks_count - 1

Used(fs) == UNION { { fs[n].chain[k] : k \in 1 .. Len(fs[n].chain) } : n \in 1 .. Len(fs) }

\* The content of a block: what it held in the FAT file system, named by its
\* number, or one of these.
Free == -1
Page == -2          \* Page of the stream
Dir == -3           \* Directory block of ext4
Meta == -4          \* Bitmap, inode table or extent block
Super == -5         \* Superblock or group descriptors

\* The blocks the FAT file system needs.
FatBlocks == 0 .. layout.data_start - 1 \cup Used(files)

\* Write the contents new[b] to the blocks b of its domain.
Write(new) ==
  /\ mem' = [b \in Blocks |-> IF b \in DOMAIN new THEN new[b] ELSE mem[b]]
  /\ versions' = [b \in Blocks |-> IF b \in DOMAIN new THEN versions[b] \cup {new[b]}
                                   ELSE versions[b]]

NoWrite == UNCHANGED <<mem, versions>>

\* create_block_group_meta_extents, as the blocks its extents cover.
MetaBlocks ==
  LET exts == create_block_group_meta_extents(layout)
      Covers(e) == e.physical_start .. PhysicalEnd(e) - 1
  IN  { fat_cl_to_e4blk(layout, c) :
          c \in UNION { Covers(exts[k]) : k \in 1 .. block_group_count(layout) } }

\* Mutated: the clusters the FAT has in use are not left out.
AvailableWithUsed(meta) ==
  { b \in layout.data_start .. layout.blocks_count - 1 : {b, b - 1} \cap meta = {} }

\* Mutated: the metadata to come is not left out.
AvailableWithBlocked(meta) == (layout.data_start .. layout.blocks_count - 1) \ Used(files)

\* What init_extent_allocator leaves to grant: neither used nor blocked, nor
\* the first cluster after a blocked extent (ExtentAllocator).
Available(meta) ==
  { b \in (layout.data_start .. layout.blocks_count - 1) \ Used(files) : {b, b - 1} \cap meta = {} }

\* allocate_extent(1)
Allocated == Min(avail)

-----------------------------------------------------------------------------
ConversionInit ==
  /\ layout \in Layouts
  /\ files \in { fs \in FileSystems : Used(fs) \subseteq layout.data_start .. layout.blocks_count - 1 }
  /\ path \in Paths
  /\ size = IF path = "image" THEN layout.blocks_count ELSE 0
  /\ mem = [b \in Blocks |-> IF b \in FatBlocks THEN b ELSE Free]
  /\ versions = [b \in Blocks |-> {mem[b]}]
  /\ blocked = {} /\ avail = {} /\ pages = {} /\ map = <<>> /\ indexed = {}
  /\ f = 1 /\ i = 0
  /\ committed = FALSE
  /\ runs = 1
  /\ step = "open"

\* openPartition.  The path is a file or device with the file system, or
\* "/dev/zero", whose size is never set, or missing, and open creates an empty
\* file, or of another kind.  mmap refuses a length of zero.  Any call may fail.
openPartition ==
  /\ step = "open"
  /\ \/ path # "other" /\ size > 0 /\ step' = "init"
     \/ step' = "failed"
  /\ UNCHANGED <<inputVars, progressVars, committed, runs>> /\ NoWrite

\* Up to init_stream_archiver, which takes the first page.
InitConversion ==
  /\ step = "init"
  /\ blocked' = MetaBlocks
  /\ Available(blocked') # {}
  /\ LET page == Min(Available(blocked'))
     IN  /\ avail' = Available(blocked') \ {page}
         /\ pages' = {page}
         /\ Write([b \in {page} |-> Page])
  /\ map' = << <<>> >> /\ f' = 1 /\ i' = 0
  /\ step' = "map"
  /\ UNCHANGED <<inputVars, indexed, committed, runs>>

Remaining == Len(files[f].chain) - Len(map[f])

NextCluster == files[f].chain[Len(map[f]) + 1]

KeepCluster ==
  /\ step = "map"
  /\ Remaining > 0
  /\ NextCluster \notin blocked
  /\ map' = [map EXCEPT ![f] = Append(@, NextCluster)]
  /\ UNCHANGED <<inputVars, blocked, avail, pages, indexed, f, i, committed, runs, step>> /\ NoWrite

ResettleCluster ==
  /\ step = "map"
  /\ Remaining > 0
  /\ NextCluster \in blocked
  /\ avail # {}
  /\ map' = [map EXCEPT ![f] = Append(@, Allocated)]
  /\ Write([b \in {Allocated} |-> mem[NextCluster]])
  /\ avail' = avail \ {Allocated}
  /\ UNCHANGED <<inputVars, blocked, pages, indexed, f, i, committed, runs, step>>

\* The stream needs a new page for what is written next.
TakePage ==
  /\ step = "map"
  /\ Cardinality(pages) < MaxPages
  /\ avail # {}
  /\ pages' = pages \cup {Allocated}
  /\ Write([b \in {Allocated} |-> Page])
  /\ avail' = avail \ {Allocated}
  /\ UNCHANGED <<inputVars, blocked, map, indexed, f, i, committed, runs, step>>

\* The traversal goes on to the next file, or ends.
NextFile ==
  /\ step = "map"
  /\ Remaining = 0
  /\ IF f < Len(files)
       THEN /\ f' = f + 1
            /\ map' = Append(map, <<>>)
            /\ UNCHANGED step
       ELSE f' = 1 /\ step' = "groups" /\ UNCHANGED map
  /\ UNCHANGED <<inputVars, blocked, avail, pages, indexed, i, committed, runs>> /\ NoWrite

-----------------------------------------------------------------------------
(***************************************************************************)
(* The commit point and what follows it.                                   *)
(***************************************************************************)
\* The blocks for superblock and descriptors of a group with a copy.
CopyBlocks(num) ==
  IF block_group_has_sb_copy(layout, num)
  THEN block_group_start(layout, num) .. block_group_start(layout, num) + gdt_block_count(layout)
  ELSE {}

TableBlocks(num) ==
  (block_group_start(layout, num) .. block_group_start(layout, num) + block_group_overhead(layout, num) - 1)
    \ CopyBlocks(num)

\* Mutated: the loop stays at its group.
GroupAfterSame == i

GroupAfter == i + 1

\* One iteration of init_ext4_group_descs.
InitGroupDesc ==
  /\ step = "groups"
  /\ i < block_group_count(layout)
  /\ Write([b \in TableBlocks(i) |-> Meta])
  /\ committed' = TRUE
  /\ i' = GroupAfter
  /\ UNCHANGED <<inputVars, blocked, avail, pages, map, indexed, f, runs, step>>

BuildRoot ==
  /\ step = "groups"
  /\ i = block_group_count(layout)
  /\ step' = "build"
  /\ UNCHANGED <<inputVars, progressVars, committed, runs>> /\ NoWrite

\* A file's inode and extents.
BuildFile ==
  /\ step = "build"
  /\ f <= Len(files)
  /\ ~ files[f].dir
  /\ f' = f + 1
  /\ UNCHANGED <<inputVars, blocked, avail, pages, map, indexed, i, committed, runs, step>> /\ NoWrite

\* make_tree_deeper: the extents of an inode, of the root also when it gets the
\* block of lost+found, are moved to a block of their own, once (ExtentTree).
\* Only an inode of more blocks than it has room for extents comes to that.
TakeIndexBlock ==
  LET n == IF step = "build" THEN f ELSE 1
  IN  /\ step \in {"build", "lost+found"}
      /\ n <= Len(files) /\ n \notin indexed /\ Len(map[n]) > RootMax
      /\ avail # {}
      /\ indexed' = indexed \cup {n}
      /\ Write([b \in {Allocated} |-> Meta])
      /\ avail' = avail \ {Allocated}
      /\ UNCHANGED <<inputVars, blocked, pages, map, f, i, committed, runs, step>>

\* A directory of which a block is written.
AddDirBlock(n) ==
  /\ avail # {}
  /\ map' = [map EXCEPT ![n] = Append(@, Allocated)]
  /\ Write([b \in {Allocated} |-> Dir])
  /\ avail' = avail \ {Allocated}

\* next_dir_block, when no cluster FAT had for the directory is left.
GrowDirectory ==
  /\ step = "build"
  /\ f <= Len(files)
  /\ files[f].dir
  /\ Len(map[f]) < MaxDirBlocks
  /\ AddDirBlock(f)
  /\ UNCHANGED <<inputVars, blocked, pages, indexed, f, i, committed, runs, step>>

\* A directory's blocks: the clusters FAT had for it, as many as are needed,
\* or all of them and those of the allocator.
BuildDirectory ==
  /\ step = "build"
  /\ f <= Len(files)
  /\ files[f].dir
  /\ \E n \in 1 .. Len(map[f]) :
       /\ n < Len(map[f]) => Len(map[f]) = Len(files[f].chain)
       /\ map' = [map EXCEPT ![f] = SubSeq(@, 1, n)]
  /\ Write([b \in { map'[f][k] : k \in 1 .. Len(map'[f]) } |-> Dir])
  /\ f' = f + 1
  /\ UNCHANGED <<inputVars, blocked, avail, pages, indexed, i, committed, runs, step>>

\* build_lost_found, first the root's block for its entry,
ExtendRoot ==
  /\ step = "build"
  /\ f > Len(files)
  /\ AddDirBlock(1)
  /\ step' = "lost+found"
  /\ UNCHANGED <<inputVars, blocked, pages, indexed, f, i, committed, runs>>

\* then its own.
BuildLostFound ==
  /\ step = "lost+found"
  /\ avail # {}
  /\ map' = Append(map, << Allocated >>)
  /\ Write([b \in {Allocated} |-> Dir])
  /\ avail' = avail \ {Allocated}
  /\ i' = 0
  /\ step' = "finalize"
  /\ UNCHANGED <<inputVars, blocked, pages, indexed, f, committed, runs>>

\* Mutated: the second backup is left out.
CopyOrderShort == << 0, backup_bgs(layout)[1], 0 >>

CopyOrder == << 0, backup_bgs(layout)[1], backup_bgs(layout)[2] >>

\* finalize_block_groups_on_disk: one write_sb_copy after the other.
WriteSuperblockCopy ==
  /\ step = "finalize"
  /\ i < 3
  /\ Write([b \in CopyBlocks(CopyOrder[i + 1]) |-> Super])
  /\ i' = i + 1
  /\ UNCHANGED <<inputVars, blocked, avail, pages, map, indexed, f, committed, runs, step>>

closePartition ==
  /\ step = "finalize"
  /\ i = 3
  /\ step' = "done"
  /\ UNCHANGED <<inputVars, progressVars, committed, runs>> /\ NoWrite

\* can_be_used: "File system is too small", wherever a cluster is asked for.
TooSmall ==
  /\ \/ step = "init" /\ Available(MetaBlocks) = {}
     \/ /\ step = "map" /\ avail = {}
        /\ \/ Cardinality(pages) < MaxPages
           \/ Remaining > 0 /\ NextCluster \in blocked
     \/ /\ step = "build" /\ avail = {}
        /\ f <= Len(files) => files[f].dir \/ (f \notin indexed /\ Len(map[f]) > RootMax)
     \/ step = "lost+found" /\ avail = {}
  /\ step' = "exited"
  /\ UNCHANGED <<inputVars, progressVars, committed, runs>> /\ NoWrite

-----------------------------------------------------------------------------
Ended == step \in {"failed", "exited", "crashed", "done"}

\* The program is killed, or power is lost; after the commit what is left then
\* is not looked at.
Crash ==
  /\ ~ Ended
  /\ step' = "crashed"
  /\ \E lost \in IF committed THEN {{}}
                 ELSE SUBSET { b \in Blocks : Cardinality(versions[b]) > 1 } :
       mem' = [b \in Blocks |-> IF b \notin lost THEN mem[b]
                               ELSE IF b \in FatBlocks THEN b ELSE Free]
  /\ UNCHANGED <<inputVars, versions, progressVars, committed, runs>>

\* The program is started again on a partition that still is a FAT file system.
Restart ==
  /\ step \in {"failed", "exited", "crashed"}
  /\ ~ committed
  /\ runs < MaxRuns
  /\ blocked' = {} /\ avail' = {} /\ pages' = {} /\ map' = <<>> /\ indexed' = {}
  /\ f' = 1 /\ i' = 0
  /\ runs' = runs + 1
  /\ step' = "open"
  /\ UNCHANGED <<inputVars, mem, versions, committed>>

Work ==
  \/ openPartition \/ InitConversion \/ KeepCluster \/ ResettleCluster \/ TakePage \/ NextFile
  \/ InitGroupDesc \/ BuildRoot \/ BuildFile \/ TakeIndexBlock \/ GrowDirectory \/ BuildDirectory
  \/ ExtendRoot \/ BuildLostFound \/ WriteSuperblockCopy \/ closePartition \/ TooSmall

ConversionNext == Work \/ Crash \/ Restart \/ (Ended /\ UNCHANGED conversionVars)

ConversionSpec == ConversionInit /\ [][ConversionNext]_conversionVars /\ WF_conversionVars(Work)

-----------------------------------------------------------------------------
(***************************************************************************)
(* Properties.                                                             *)
(***************************************************************************)
\* Until init_ext4_group_descs begins, every block the FAT file system needs
\* has only ever had its old content: whatever fails, whenever, however the
\* kernel ordered its writes, in this run or an earlier one, FAT is intact.
FatIntactBeforeCommit ==
  ~ committed => \A b \in FatBlocks : versions[b] = {b}

\* The stream is only ever read after the commit, by the builder; until then
\* neither the metadata, nor a copied cluster, nor a directory block built
\* from it may be written over its pages.
StreamIntact == step \in {"map", "groups", "build"} => \A b \in pages : mem[b] = Page

FileBlocks(n) == { map[n][k] : k \in 1 .. Len(map[n]) }

\* When the program ends without an error, the partition is an ext4 file system:
\* all metadata and all copies of the superblock are in place, every cluster of
\* a file is in the block its extents list, and no block has two owners.
ConversionComplete ==
  step = "done" =>
    /\ \A num \in 0 .. block_group_count(layout) - 1 :
         /\ \A b \in TableBlocks(num) : mem[b] = Meta
         /\ \A b \in CopyBlocks(num) : mem[b] = Super
    /\ \A n \in 1 .. Len(files) :
         /\ ~ files[n].dir => [k \in 1 .. Len(map[n]) |-> mem[map[n][k]]] = files[n].chain
         /\ files[n].dir => \A b \in FileBlocks(n) : mem[b] = Dir
    /\ \A n, m \in 1 .. Len(map) : n # m => FileBlocks(n) \cap FileBlocks(m) = {}

\* Every run of the program ends, and after the last one nothing goes on.
ConversionEnds == step = "open" ~> []Ended
=============================================================================
