# A verification model of ofs-convert

ofs-convert turns a FAT32 partition into an ext4 partition in place. It is one
sequential C++ program that works on the memory-mapped partition. This directory
holds TLA+ modules translated from its source, configurations that check them
with TLC, and theorems checked with TLAPS. `PROJECT.json` lists every
definition with the source lines it stands for.

## 1. The program

`main` (ofs-convert.cpp) runs these steps once, in order; there are no threads.

1. `openPartition`, `read_boot_sector`, `set_meta_info`, `init_ext4_sb`: the layout
   of both file systems, computed from the boot sector.
2. `create_block_group_meta_extents`, `init_extent_allocator`: the clusters the
   ext4 metadata will overwrite (the *blocked extents*), and the allocator.
3. `aggregate_extents`, `traverse`: the directory tree is read from the FAT and
   written to a *stream* whose pages are free clusters. What lies in a
   blocked extent is copied to free clusters on the way. Up to here nothing the
   FAT file system uses is overwritten.
4. `init_ext4_group_descs`: the **commit point**. Bitmaps and inode tables are
   written over the blocked extents.
5. `build_ext4_root`, `build_ext4_metadata_tree`, `build_lost_found`: inodes,
   directories and extent trees, read back from the stream.
6. `finalize_block_groups_on_disk`: superblocks and descriptors.

The program gives up with `exit(1)` in the middle of any of 3 to 5 when clusters
or inodes run out.

### Inventory

| Component (files) | State | Operations | What is hard | Correct means |
|---|---|---|---|---|
| Layout, start-up (fat.cpp, ext4.cpp, ext4_bg.cpp, ofs-convert.cpp) | boot sector, `meta_info`, `sb` | conversions between clusters and blocks, group arithmetic, meta extents | metadata before or cut by the start of the data; short last group; 32-bit products; alignment | blocked extents are ordered, apart, and cover all metadata |
| Extent allocator (extent-allocator.cpp) | `index_in_fat`, `blocked_extent_current`, allocation bitmap | `allocate_extent`, blocked extent search | an index incremented before use; jumps; exit inside either loop | only free clusters outside the metadata, each once, in one group |
| Cluster chain mapper (metadata_reader.cpp) | growing extent, fragment, FAT | `aggregate_extents`, `find_blocked_extent_fragments`, `resettle_extent` | blocked extents of length 0 or touching; maximal length; grants in pieces; pages from the same allocator | every chain's content is kept, the FAT side stays intact |
| Stream archiver (stream-archiver.cpp) | pages, headers, stream records that are copied | insert, cut, get | the format has no types: reader and writer must turn pages alike; live pointers into pages | a log of sections |
| Directory reader (metadata_reader.cpp, fat.cpp, extent_iterator.cpp) | `cluster_read_state`, iterator | `next_dentry`, `read_lfn`, `traverse` | long names over cluster ends; directories without an end marker; attributes | each file once, with its own name and entry |
| Block groups, inodes (ext4_bg.cpp, ext4_inode.cpp, util.cpp) | descriptors, bitmaps, inode tables | init, add inode, add extent, finalize | counts kept apart from bitmaps; inode numbers from 1; the first data block | counts, bitmaps and copies agree |
| Extent trees (ext4_extent.cpp) | tree in the inode and in blocks | `register_extent`, `last_extent` | two levels of growth; allocations within a registration | the tree lists the extents in order |
| Directory builder (tree_builder.cpp, ext4_dentry.cpp, ext4_inode.cpp) | call stack, current block, links, sizes | `build_ext4_metadata_tree`, `build_lost_found` | recursion in the middle of a block; directories that outgrow their clusters | blocks are full chains with one owner, nothing is lost |
| Names and times (ext4_dentry.cpp, fat.cpp, ext4_inode.cpp) | none | `lfn_cpy`, `read_short_name`, `ucs2toutf8`, `build_dentry`, `fat_time_to_unix` | names over several segments, with padding; the end of the name buffer; dates beyond 32 bits | a name or a time means the same in both file systems |
| Bit helpers (util.cpp) | none | `bitmap_set_bits`, counts in two halves | ranges within and over segments of 32 bits, up to the end of the bitmap; carries and borrows | exactly the range is set, the counts follow |
| Main program, partition (ofs-convert.cpp, partition.cpp) | the mapping | `main`, `openPartition`, `closePartition` | a crash or a loss of power at any step, on a mapping that is never synced | FAT up to the commit point, ext4 at the end |
| Visualizer, test harness, kernel module | - | drawing, tests | - | not modelled (section 6) |

The components interact by calls and through the partition: the allocator serves
the mapper, the stream, the extent trees and the directory builder; the stream is
the only thing the reading half hands to the building half; directory builder and
extent trees both end in `add_extent_to_block_bitmap`.

`PROJECT.json` lists the hazards of this code line by line. There is no
concurrency; what a test hardly reaches are the boundaries (where extents,
groups, pages, clusters and blocks end), the steps at which the program gives
up, and orders of calls that share the allocator.

## 2. The modules

| Module | Models | Kind |
|---|---|---|
| `Geometry` | layout arithmetic of fat.cpp and ext4_bg.cpp, `create_block_group_meta_extents`, the `qsort` | constant operators |
| `Startup` | `main` up to `init_extent_allocator`, with the real constants | state machine |
| `FirstFit` | what callers may expect of `allocate_extent` | abstract specification |
| `ExtentAllocator` | extent-allocator.cpp | state machine, implements `FirstFit` |
| `ExtentMapper` | mapping of chains to extents, over `FirstFit` | state machine |
| `SectionLog` | what users may expect of a stream | abstract specification |
| `StreamArchiver` | stream-archiver.cpp | state machine, implements `SectionLog` |
| `ExtentIterator` | extent_iterator.cpp | constant operators |
| `DirReader` | reading of one FAT directory | state machine |
| `BlockGroups` | ext4_bg.cpp and the inode creation of ext4_inode.cpp | state machine |
| `ExtentTree` | ext4_extent.cpp, with `build_lost_found` | state machine |
| `DirBuilder` | tree_builder.cpp | state machine |
| `Traversal` | the recursions of `traverse` and `build_ext4_metadata_tree` over one stream | state machine |
| `NameConversion` | names on their way from FAT entries to ext4 entries | state machine |
| `TimeConversion` | time stamps from FAT entries to inodes | state machine |
| `VolumeLabel` | `read_volume_label` | state machine |
| `SegmentedBitmap` | util.cpp, as `init_ext4_group_descs` and `register_extent` call it | state machine |
| `Converter` | `main` and partition.cpp over the blocks of the partition | state machine, composes the others in abstract form |
| `GeometryProofs`, `StartupProofs`, `ExtentAllocatorProofs`, `ExtentMapperProofs`, `StreamProofs`, `BitmapsProofs`, `BuildingProofs`, `ConverterProofs` | what holds for every value of the constants (section 5) | theorems |
| `MC...` | instances of the constants for TLC; `MCMain`, `MCStream`, `MCEntries`, `MCBitmaps`, `MCBuilding` put machines side by side in one run | model checking |

Definitions keep the source's names. Some correspondences that need a word:

- *Geometry.* A layout is a record of the superblock fields the arithmetic reads.
  Element `i + 1` of an array is index `i` of the code. `SortedPermutations` is
  every result `qsort` may give: its comparison leaves equal elements in any order.
- *Startup.* The blocks per group, inodes and descriptors follow the code with its
  constants; `InodesByRatio` keeps the 32-bit product, which wraps for blocks of
  128 KiB and more.
- *ExtentAllocator.* One action per outcome of `can_be_used()`: `StartExtent` and
  `GrowExtent` (true, in the first and the second loop of `allocate_extent`),
  `PassUsedCluster` (false, the bit is set), `SkipBlockedExtent` (false after a
  jump, or exit). `fat` is the set of clusters whose entry is not free.
- *ExtentMapper.* `disk[c]` is the number of the cluster whose content is in `c`,
  and `PageContent` for stream pages. A FAT entry is the next cluster plus its reserved
  bits (`reserved`, times 2^28), as the code reads it without a mask. `allocate_extent` is `Request`, then `Grant` or `Fail` of
  `FirstFit`, while the caller waits (`Running`). Stream insertions count units
  only, as the pages they take matter here; headers, elements and page links are
  one unit each. The dentry, name and child count of a file are in `Traversal`.
- *StreamArchiver.* An address is a page and an offset. Elements have no value:
  reader and writer agree when they get the same addresses. `CopyStream` is
  `StreamArchiver read_extent_stream = *write_stream` in `traverse`.
- *DirReader.* An entry is what the code tests of it: the kind its first byte gives,
  whether a low attribute bit is set, and the low five bits of its first byte. The
  table is generated from the items a FAT driver would have written.
- *BlockGroups.* A bitmap is the set of bits set in it. The two halves of a count are one
  number modulo `CountRange`; the index of the loop that adds them up is a `uint16_t`, modulo
  `IndexRange`. `HoldsMetadata` is assumed: see finding 2 below.
- *ExtentTree.* A node's slots are a sequence; the slot an index
  occupied may be overwritten by an extent, after which the program takes an arbitrary block for a node
  (`tree_pc = "astray"`, where the model ends).
- *DirBuilder.* The recursion is `stack`, one frame per call. Lengths are in units of
  four bytes. The entries of a block are `written[b]`; `rec_len` grows where
  the code fills a block up, modulo `RecLenRange`, as the field has 16 bits (`uint16_t`).
- *Traversal.* The stream is a `SectionLog` in which every element is tagged with what it
  was written as; the code has no tags, `asked` is the type it reads with. `calls` and
  `builds` are the two recursions, a frame per directory. One action per `getNext` of
  the builder; a child of `traverse` is one action, as nothing reads in between.
  `Garbage` is what a section without a count would give.
- *NameConversion.* Units and bytes are numbers, the thresholds of the encoding the real
  ones, the field lengths parameters. A short name's segment has `Leftovers` after its
  zero: what the page held before. Short names have blanks only at the end of a field;
  surrogates, the byte 0x05 and the code page of bytes above 127 are left out.
- *TimeConversion.* Seconds are pairs of 16-bit words. `mktime` is external and
  normalises as the C library does (a zero date becomes 30 November 1979); the time zone is
  the FAT driver's. `Elapsed` counts the same time another way.
- *SegmentedBitmap.* A segment is the set of its bits. One action per access to memory; `memory` has
  the word after the bitmap too, which a range up to the end of the bitmap touches.
- *VolumeLabel.* `index` is the unsigned index taken as signed; below -1 the copy is
  undefined and the model ends (`astray`).
- *Converter.* `mem[b]` is the content of block `b`: its number for what FAT had
  there, or the kind of what was written. `versions[b]` are all contents it had; `Crash` with a
  loss of power takes back any subset of the writes. One cluster is mapped at a time;
  pages are taken at any time up to `MaxPages`. A directory or file with more blocks than `RootMax` may take a block for
  its extent tree, the root also when it gets the block of lost+found (`TakeIndexBlock`). A directory takes blocks of the
  allocator one by one up to `MaxDirBlocks` (`GrowDirectory`), or is cut to those it needs; it is finished before its
  children are begun, while the code leaves it half written during the recursion, as `DirBuilder` does. `Available` is
  what `ExtentAllocator` is proved to grant. System calls may fail in `openPartition`.

## 3. Runs

A question about the system is one run. Where two or three machines answer it on
different levels, the run's module extends all of them and each
behaviour is one of one machine, while the variables of the others keep the value `...Idle`
gives them: the runs check the union of the machines' state spaces, and machines that share a run
do not interact in it. (`Converter` and `Traversal` are the modules that compose.)

All runs use `CHECK_DEADLOCK` at its default except `Stream`, as the users of a stream
simply stop using it. `GroupDone` in `MCBitmaps` is a stutter of a group that gets no
more extents.

| Run | Machine | Shows | Bounds |
|---|---|---|---|
| `Main` | `Startup` | the layouts `main` goes on with are usable, the blocked extents well formed, the bitmaps large enough, both counts of clusters equal | 100 boot sectors: 1 to 5 groups, clusters of 512 bytes to 256 KiB, sectors of 512 bytes to 4 KiB, aligned or not, last groups around every limit |
| | `Converter` | FAT intact before the commit, the stream until it is read, ext4 complete at the end; every run of the program ends | 4 layouts of 2 to 4 groups of 10 blocks, one without enough clusters; 3 file systems with clusters in and around metadata; 2 pages; index blocks from the second block of a file on, directories that grow to 3 blocks; 2 starts, a crash at every step, any lost writes |
| | `VolumeLabel` | the label is kept without its trailing blanks | labels of 3 bytes, ids of 2, both signatures |
| `ExtentAllocator` | `ExtentAllocator` | safety and progress of the allocator, its inductive invariant, and that it implements `FirstFit` | five layouts of 4 groups of 8 blocks (data starting before, in and after metadata, first data block 0 and 1, a last group without blocks, one whose metadata overhangs), every choice of used clusters among eight, requests of 1 to 3, any number of them |
| `ExtentMapper` | `ExtentMapper` | content kept, extents fit ext4, only blocked clusters move, FAT files intact at every step, mapping ends | three layouts, two or three files: all chains of up to 3 clusters around a blocked extent in any order, runs of up to 14 over two blocked extents; maximal extent length 5; pages of 4 units |
| `Stream` | `StreamArchiver` | implements `SectionLog`; all pointers handed out stay valid | pages of 6 units, elements of 1 to 3, 3 pages, 4 sections: every position of an element, header or end of a section in a page |
| | `Traversal` | what is read was written as what it is taken for; iterators stay in their directory; the tree is rebuilt; both recursions end | all trees of the root and up to three files and directories, empty ones included; none to two extents, one or two name parts |
| `Entries` | `DirReader` | files are read once, in order, with their own names | up to 4 items of 8 kinds, clusters of 2 entries, 7 extent lists |
| | `NameConversion` | names that fit are kept, longer ones are cut between characters, the record holds the name | entries of 5 units, a name limit of 7 bytes; all long names of up to 7 units at the edges of 1, 2 and 3 bytes; short names of 2 + 1 characters; three contents of the page before |
| | `TimeConversion` | times up to 2037 mean the same | modification times at the ends of days, months and years in leap and other years, around 2038, 2106 and 2107, and no date; with four creation and access times each |
| `Bitmaps` | `BlockGroups` | counts match bitmaps, bitmaps mark exactly what is used, inodes are where they are counted, the copies are complete | 7 layouts of 1 to 4 groups (an index that just counts them), trees that leave, exactly fill and exceed the inodes, any order of ten extents |
| | `SegmentedBitmap` | bits and counts follow every sequence of extents | 3 segments of 3 bits, halves with a range of 5, five groups that end at, within and before the last segment, every order of extents |
| `Building` | `DirBuilder` | directory blocks are full chains with one owner; all children, sizes and links are there | trees of 3 directories, nested and side by side, entries of 3 to 10 units in blocks of 10, the longest `rec_len` can hold there; 5 free blocks, so that allocation fails too |
| | `ExtentTree` | up to a full block the tree lists all extents; blocks are accounted once; lost+found's block follows the root's last | one directory, one file, lost+found; 2 slots in the inode, 4 in a block; 11 data and 4 allocator blocks |

Small numbers suffice where the code compares positions only with each other:
every way two extents, groups, pages or blocks can lie to each other
occurs. The constants that decide by value (32768, 4, 84 or 340 entries, 65535) are
parameters given small values, except in `Startup`, which uses the real ones.

Five more runs end in a violation; each is a disagreement of the code with what it, its
comments or its tests say.

1. `ExtentAllocatorTooSmall`: the program exits with "File system is too small"
   (extent-allocator.cpp:62) while free clusters are left. The cluster behind each blocked extent
   is never used, since `can_be_used` jumps to it, returns false,
   and increments past it at the next call.
2. `StartupLastGroup`: the comment at ext4.cpp:68 says a last group with fewer than
   50 data blocks is given up; the branch stores the same block count again, so such a group
   stays, and with it one that does not hold its own metadata.
   `BlockGroups` takes `HoldsMetadata` as an assumption because of that.
3. `ExtentTreeFull`: "all existing level 0 blocks are full, create a new one"
   (ext4_extent.cpp:81): the loop that should create it never runs, and the extent
   overwrites the index entry of the full block.
4. `DirReaderAttributes`: "current_dentry is the actual dentry now"
   (metadata_reader.cpp:168): `is_lfn` holds for any read-only, hidden or system
   entry and for the volume label.
5. `ExtentMapperReserved`: `is_free_cluster` masks FAT entries to 28 bits
   (`CLUSTER_ENTRY_MASK`), `aggregate_extents` does not (metadata_reader.cpp:118): an
   entry with a reserved bit set ends the file.

The other properties are stated up to these limits: `FilesReadInOrder` for directories without
the entries of 4 (`NamesRecognizable`), `TreeListsExtents` and the last clause of
`SpaceAccounted` for files of at most `max_entries()` extents, `ContentPreserved` in its passing
run for entries without reserved bits. Four more limits are known from the code and
excluded in the properties themselves:

- `NamesKept` is about names of up to 254 bytes. `EXT4_NAME_LEN` is 255
  (ext4_dentry.h:7), but `build_dentry` keeps a byte for a terminator
  (ext4_dentry.cpp:51), so a name of exactly 255 bytes loses its last character.
- `TimesKeptUntil2038`: the stamps are stored in 32 bits which ext4, without the extra bits
  `build_inode` leaves zero, reads as a signed number. FAT dates go up to 2107.
- `BlocksAreChains` is about blocks whose length `rec_len` can hold, in the code up to 32 KiB. The field is a
  `uint16_t` (ext4_dentry.h:12), while start-up goes on with blocks of 64, 128 and 256 KiB; there lengths wrap, and that of
  lost+found's entry (tree_builder.cpp:49) becomes 0. No comment or test mentions such blocks.
  `BlocksHaveOneOwner` and `DirectoriesComplete` do not depend on it.
- `LabelKept`: a blank label behind a `volume_id` that ends in the byte of a blank makes the index wrap twice.

"All your data is trashed now, sorry!" (extent-allocator.cpp:62) is also printed when clusters run out before
the commit point, where `FatIntactBeforeCommit` shows that nothing is lost.

## 4. Fairness

The program is one thread that runs until it ends, so `WF_vars(Work)` is what the
scheduling of any operating system gives it. `ExtentAllocator` and `ExtentMapper`
have it, for `CallsEnd` (no call of `allocate_extent` loops for ever) and `MappingEnds`,
`Traversal` for `TraversalEnds`, and `Converter` for `ConversionEnds`: crashes and
restarts are not in `Work`, and `MaxRuns` bounds them.
`Work` leaves out the start of new allocator calls: nothing forces a caller to ask.
The mapper works on well-formed chains that do not share clusters; a FAT with a
cycle is outside the model.

## 5. What is proved

The theorems hold for every value of the constants that satisfies the assumptions of the
modules; TLC evaluates the assumptions on the instances. They form one chain:
`Startup` establishes what the other components take as given about a layout, `Geometry` what
they take as given about the blocked extents, the allocator implements what the
mapper is proved over, the stream implements what the traversal uses.

### The theorems

| Module | Theorems | About |
|---|---|---|
| `StartupProofs` | `LayoutAlwaysUsable`, `ExtentsAlwaysWellFormed`, `LabelInvariance`, `LabelIsKept` | for every FAT32 boot sector, what `main` goes on with satisfies `UsableLayout`, has bitmaps and inode tables that are large enough, one count of clusters, and well-formed blocked extents |
| `GeometryProofs` | `SortedExtentsWellFormed` | for every usable layout and every order `qsort` may choose, the blocked extents are ascending, disjoint, start within the file system and contain every metadata block of the data area |
| `ExtentAllocatorProofs` | `Invariance`, `TypeCorrect`, `AllocationSafe`, `OneGroup`, `Implementation` | the allocator is safe, and refines `FirstFit` under the mapping given in `ExtentAllocator` (`Avail`, `Phase`, `Granted`) |
| `ExtentMapperProofs` | `MappingInvariance`, `SourceStaysIntact`, `ExtentsAlwaysFit`, `ContentAlwaysPreserved`, `OnlyBlockedMove` | no cluster in use is written; extents fit ext4 and share nothing; content and order of every chain are kept; only blocked clusters move |
| `StreamProofs` | `ElementsStayApart`, `ChainInvariance`, `StreamIsALog` | nothing in the pages overlaps; the stream refines `SectionLog` |
| | `TraversalInvariance`, `StreamReadAsWritten`, `ForksKeepTheirExtents`, `TreeIsRebuilt` | for every tree of directories, what is read from the stream was written as what it is taken for, the forks stay in the extents of their directory, and the builder has the whole tree in the end |
| `BitmapsProofs` | `GroupInvariance`, `CountsAlwaysMatch`, `BitmapsAlwaysMarkTheUsed`, `InodesAlwaysMatch`, `ExitsOnlyWithoutInodes`, `CopiesAreComplete` | counts, bitmaps and inode tables agree at every step; the program gives up only when every inode is taken |
| | `SegmentsExact`, `HalvesExact` | exactly the range is set; the counts in two halves follow the bits |
| `BuildingProofs` | `TreeInvariance`, `ExtentsListed`, `SpaceIsCounted`, `RootStaysContiguous` | extent trees list what was registered, for any capacities and any interleaving of files; every block of data and of the trees is accounted once; lost+found follows the root's last extent |
| | `DirInvariance`, `OneOwner`, `EntriesChained`, `AllComplete` | for every consistent tree of directories: no block has two owners, finished blocks of a length that `rec_len` can hold are full chains of entries, and at the end every directory has its dots, all its children in order, and its links and size |
| `ConverterProofs` | `ConversionInvariance`, `FatIntact`, `StreamStaysIntact`, `ConversionIsComplete` | FAT is intact before the commit point, in memory and after a loss of any writes; the stream until it is read; ext4 is complete at the end |

### The inductive invariants

None of these properties is inductive. What has to be added is what the code relies on and
nowhere says.

- *Start* (`StartInv`): besides where the loop over the groups stands, the proof is
  arithmetic. There are ten sizes of blocks; for each, `GroupSizesFit` computes
  the groups, inodes and divisors, the three sizes where the 32-bit product wraps included.
  `OverheadFits` bounds the descriptor blocks by the number of groups. It is tightest for blocks of 1 KiB,
  where they may take half of a group of 8192 blocks; that it is not more is due to the 28 bits
  of FAT32's cluster numbers and not to anything the code tests.
- *Allocator* (`IInv`): that the next candidate is outside the metadata
  follows from where the *next* blocked extent starts and from all earlier ones having ended. `IInv`
  says where the two indexes stand to each other, that behind
  `index_in_fat` every usable cluster is taken and ahead of it none, and that an
  extent under construction ends at the index. The last two also make a
  grant the *first* run and a failure a real lack of clusters. `OneGroup`
  rests on every group starting with metadata, so that no run of
  clusters without metadata crosses a group.
- *Mapper* (`MappingInv`): a cluster is, at any moment, free, a page, granted and not yet
  used (`Outstanding`), in a stored extent, or in a stored extent that is not
  copied to yet (`Pending`). Insertions into the stream return to several places, so the
  invariant is stated by the place returned to (`Label`). `Progress` says that what is stored,
  plus what is at hand, ends at the current position; `Fragments` what the binary search and the walk over
  the blocked extents have left behind. `FirstBlocked` proves the binary search, a recursive
  function, by a least counterexample, as does `ClustersOf` for the clusters of a list of extents.
- *Stream* (`ChainInv`): the writer and every reader stand on the same chain of headers
  through the pages. The chain is not stored anywhere, so the invariant says
  that one exists, and each insertion or cut extends the witness.
- *Traversal* (`TraverseInv`): the two recursions never run at the same time, and nothing in the state says that the second goes
  where the first went. The invariant says that there is a `Walk`: the files in the order they are met in,
  and one moment per iteration or return, each the path of directories that are being read. `traverse` is at the
  last moment of the walk and extends it, the builder is at some moment of the walk that is complete. The sections of
  the *n*-th file are those from 4n-5 to 4n-2 (`DentryAt` to `CountAt`), so the walk gives the builder's position
  too; a count that is not final is that of a directory on the path. That the walk meets `Listing` is a
  least counterexample over the moments, and that `Listing` exists one over the places of the tree, from its last node down.
- *Block groups* (`GroupInv`): the free inodes are those behind `first_free_inode_no`, in the group
  its number says; so each inode bitmap is a prefix, and no bit is set twice. Cardinalities follow the bits
  one call at a time. `SumInv` says of the two totals that they count the clear bits of all groups before `i`, taken as one
  set of pairs of group and bit; what a reader adds up from the bitmaps afterwards, a fold over the set of groups,
  is that cardinality whatever order it takes. That the 32-bit sum of the inodes does not wrap rests on their number in all groups.
- *Label* (`LabelInv`): behind the index there are only blanks, and the search ends at the latest at the byte in front of
  `volume_id`'s neighbour, the boot signature, which is no blank.
- *Bit helpers* (`SegmentInv`, `HalvesInv`): where the pointer stands at each step of the loop of
  `bitmap_set_bits`. Between the count and the bits of one
  call the two differ by `InTransit`.
- *Extent trees* (`TreeInv`): a tree has one of three shapes: flat in the inode; one level deeper, with one
  index; or, with more extents than a block has slots, one where an extent lies over the index (finding 3). No two inodes
  have an index to the same block, so what one file does to its tree leaves all others as they are. Blocks are
  counted as sets: what is marked is the data of all inodes and all nodes, apart from each other,
  and what an inode is charged for is the cardinality of its own.
- *Directories* (`DirInv`): the stack of calls is a path in the tree. `MetOnce` and
  `PassedMet` tie the recursion to it: a directory is untouched until the entry it is called for,
  and none is untouched behind it; both need that a directory has one entry only. `Sources` says of every block
  where it is from, a cluster that the iterator of its directory returned before or a grant, from which `BlocksHaveOneOwner`
  follows although a block is registered long after it was taken. `Chains` is about the blocks that calls further out on the stack
  left half full. `Listings` says which names each call has written, over all its blocks; at the
  end it speaks of the directories that are finished, and that all are is shown by a least
  counterexample: a directory that was never met has its entry in one with a smaller number that was.
- *Main* (`ConversionInv`): `Owners` gives each block to the FAT file system, the metadata, the
  stream, the allocator or one place in one file; a block FAT used can be in a file only at its old
  place in the chain. `Contents` is about FAT's blocks before the commit, `FilesKept` about the clusters of files at every
  step after they are mapped; directories are rewritten in place and left out of it.

### The assumptions, and why the code justifies them

- `BootSectorsAssumption` (Startup): sizes of sectors and clusters are powers of two up to 4096
  and 128, there is a cluster for the root directory, and at most `MaxBlocks` = 2^29 blocks:
  FAT32 has fewer than 2^28 clusters, and what is before them does not outgrow them. These are properties of a
  FAT32 boot sector, which `read_boot_sector` takes as it is.
- `UsableLayout` (allocator, mapper, main, block groups), and that bitmaps hold blocks and inodes (block groups): proved in
  `StartupProofs`.
- The inodes of all groups fit into a count (`BlockGroupsAssumption`): `BitmapsFit`, proved in `StartupProofs`, bounds them
  by four for each of fewer than 2^29 blocks.
- There are fewer groups than `IndexRange`, 2^16 in the code (`BlockGroupsAssumption`): FAT32 has fewer than 2^28
  clusters, which make about 33 thousand groups where they are largest in number, with blocks of 1 KiB. With more,
  the loop that adds up the counts would not end. This is not derived in `StartupProofs`, where `MaxBlocks` is coarser.
- `LabelAssumption`: the fields have the lengths of `ext4` and FAT and hold bytes.
- `HoldsMetadata` (block groups, and `ConversionIsComplete`): every group has room for its metadata.
  The code does not make sure of it (finding 2); on other partitions it writes behind the end.
  `FatIntact` and `StreamStaysIntact` do not need it.
- `FileSystemsAssumption` (mapper, main): a consistent FAT. Chains end, no cluster is in two of them, and
  cluster numbers are below the end mark.
- `reserved = 0` in `ContentAlwaysPreserved` and `OnlyBlockedMove`: FAT entries without
  reserved bits, because of finding 5. The passing run has no others; `SourceStaysIntact`
  and `ExtentsAlwaysFit` hold with reserved bits too.
- `CountRange` and `HalvesAssumption` (block groups, bit helpers): what is counted fits into the two halves of a
  count: sectors are counted in 32 bits, and a group has at most 65528 blocks of at most 1024 of the units `i_blocks` counts.
- `ExtentTreeAssumption`: a block has room for more extents than the inode, and the blocks for data and those the
  allocator grants are apart, which `AllocationSafe` shows of the allocator. What is registered is
  any sequence of extents of unmarked blocks.
- `DirBuilderAssumption`: `Trees` are what `traverse` writes for a consistent FAT: no cluster in two extents, none of them
  one that the allocator grants; every directory but the root has one entry, in a directory that was read before it;
  an entry fits into a block, and its length into `rec_len` (an entry has at most 264 bytes). The length of a block need not:
  only `EntriesChained` is limited to blocks shorter than `RecLenRange`. As for files, a FAT in which two directories share a cluster is outside the model.
- `TreeAssumption` (traversal): the children of a directory are numbered after it, so no directory is below itself:
  in a FAT that is consistent, directories form a tree. `traverse` would not end on a cycle.
- `StreamAssumption`: an element, and a header, fits into a page behind its link.

### What stays with TLC

- Liveness (`CallsEnd`, `MappingEnds`, `TraversalEnds`, `ConversionEnds`): fairness is out of the prover's reach.
- `DirReader`, `NameConversion`, `TimeConversion` (`FilesReadInOrder`, `NamesKept`, `CutBetweenCharacters`,
  `TimesKeptUntil2038`): no theorems. They
  compare what is built step by step with a fold (`ClusterCount`, `EncodedLength`, `Elapsed`) taken from
  both ends or over nested data, where the library's induction theorems would be needed. Where a fold is only added to,
  over a sequence at its end (`TotalLength`, `Lengths`, `Listed`, `FlattenSeq`) or over a growing set (the sums of
  `BlockGroups`), or descends in one order (`Listing`), the proofs derive what they need from the recursive
  function in its definition, by a least counterexample.

## 6. Not modelled

- visualizer: compiled only on demand, draws a picture, changes nothing that is converted.
- test/, KernelModule/, cmake/: not part of the program.
- Owners, modes and UUID: copied values no property is about.
- Surrogate pairs and OEM characters in names: the code treats every unit on its own,
  and nothing in the repository says what should become of them.
- A run on a converted partition, errors of write-back after `munmap`, and a mapping shorter than the file system:
  the program does not notice them, and behaves arbitrarily on what it then reads.
- A FAT with cycles, shared clusters or entries beyond its end.
- Two entries named lost+found in the root: the tests exclude that name.

## 7. Plan

Done: the modules above, and the theorems of section 5. The allocator came first because all others call it, then
the components in the order of the conversion, then what connects them (`Traversal`, `Converter`)
and the conversions of single values.

Left, most important first:

1. Theorems for `DirReader`: `FilesReadInOrder` is what connects the clusters of a directory to the order that `Listing` takes as given.
2. `Converter` over `FirstFit` and `SectionLog` as instances instead of its own abstractions.
3. An abstract specification of `BlockGroups` (the free space and inodes of a
   file system) and of `DirBuilder` (a directory as a sequence of names), and refinement.
