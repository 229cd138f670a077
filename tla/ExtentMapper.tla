----------------------------- MODULE ExtentMapper -----------------------------
(***************************************************************************)
(* The mapping of FAT cluster chains to ext4 extents (aggregate_extents,   *)
(* find_blocked_extent_fragments and resettle_extent, metadata_reader.cpp):*)
(* consecutive clusters become an extent, an extent is cut where the ext4  *)
(* metadata will be written, and what lies under the metadata is copied to *)
(* clusters the allocator grants.  The extents are stored in a stream      *)
(* whose pages are clusters from the same allocator.                       *)
(*                                                                         *)
(* The allocator is FirstFit, which ExtentAllocator implements: a call is  *)
(* Request, then Grant or Fail, and after Fail the program is gone.        *)
(***************************************************************************)
EXTENDS Geometry, FirstFit

CONSTANTS Layouts,                  \* The superblock layouts
          FileSystems,              \* Sequences of files, each the sequence of its clusters
          ReservedBits,             \* Values the upper four bits of FAT entries may have
          EXT4_MAX_INIT_EXTENT_LEN, \* 32768 in the code
          PageSize                  \* Units in a stream page; a header, a page
                                    \* link and an extent take one unit each

ASSUME MapperAssumption ==
  /\ \A g \in Layouts : UsableLayout(g)
  /\ EXT4_MAX_INIT_EXTENT_LEN \in Nat \ {0}
  /\ Sizes = 1 .. EXT4_MAX_INIT_EXTENT_LEN
  /\ PageSize \in Nat /\ PageSize >= 2

VARIABLES sb, blocked_extents,
          files,             \* The files, as the sequences of their clusters
          reserved,          \* The upper four bits of the FAT's entries
          disk,              \* The content of every data cluster
          stream,            \* The extents written, one sequence per file
          pages,             \* The clusters of the stream's pages
          offsetInPage,      \* Units used in the last page
          current_extent,    \* aggregate_extents: the extent that grows,
          next_cluster_no,   \*   and the FAT entry after it
          fragment_start,    \* find_blocked_extent_fragments: first cluster left,
          i,                 \*   index of the search for blocked extents,
          blocked_extent,    \*   the one it found, 0 for NULL
          fragment,          \* resettle_extent: the blocked fragment,
          resettled,         \*   the clusters of it that are copied
          pc, then           \* The next step; the one after the stream insertion

streamVars == <<stream, pages, offsetInPage>>
aggregateVars == <<current_extent, next_cluster_no>>
fragmentVars == <<fragment_start, i, blocked_extent>>
resettleVars == <<fragment, resettled>>
inputVars == <<sb, blocked_extents, files, reserved>>
mapperVars == <<inputVars, disk, streamVars, aggregateVars, fragmentVars, resettleVars, pc, then>>
vars == <<ffVars, mapperVars>>

Extent(logical, physical, len) ==
  [logical_start |-> logical, physical_start |-> physical, length |-> len]

NoExtent == Extent(0, 0, 0)

Cells(e) == e.physical_start .. (PhysicalEnd(e) - 1)

-----------------------------------------------------------------------------
(***************************************************************************)
(* The FAT and the clusters the allocator may grant.                       *)
(***************************************************************************)
FAT_END_OF_CHAIN == 268435448        \* 0x0FFFFFF8
FREE_CLUSTER == 0

UsedClusters(fs) == UNION { { fs[f][k] : k \in 1 .. Len(fs[f]) } : f \in 1 .. Len(fs) }

Links(fs) ==
  UNION { { <<fs[f][k], fs[f][k + 1]>> : k \in 1 .. Len(fs[f]) - 1 } : f \in 1 .. Len(fs) }

\* A consistent FAT: a cluster is in one chain, once, and has a number below
\* the marks.
ASSUME FileSystemsAssumption ==
  \A fs \in FileSystems :
    /\ fs \in Seq(Seq(Nat))
    /\ \A f, g \in 1 .. Len(fs) : \A k \in 1 .. Len(fs[f]), j \in 1 .. Len(fs[g]) :
         fs[f][k] = fs[g][j] => f = g /\ k = j
    /\ \A c \in UsedClusters(fs) : c < FAT_END_OF_CHAIN

ASSUME ReservedAssumption == ReservedBits \subseteq Nat

\* The entry of a cluster in the FAT that holds the chains of the files: 28
\* bits, and four above them that FAT drivers keep and disregard.
fat_entry(cluster_no) ==
  reserved * 268435456 +
    IF cluster_no \notin UsedClusters(files) THEN FREE_CLUSTER
    ELSE IF \E link \in Links(files) : link[1] = cluster_no
    THEN (CHOOSE link \in Links(files) : link[1] = cluster_no)[2]
    ELSE FAT_END_OF_CHAIN

\* file_cluster_no: the first cluster, 0 for an empty file.
file_cluster_no(f) == IF files[f] = <<>> THEN 0 ELSE files[f][1]

\* Mutated: the clusters the FAT has in use are not left out.
AvailableWithUsed(g, exts, fs) ==
  { c \in DataClusters(g) :
      \A k \in 1 .. block_group_count(g) :
        ~ (exts[k].physical_start <= c /\ c <= PhysicalEnd(exts[k])) }

\* What is left to the allocator once the FAT is in its bitmap.
AvailableAtStart(g, exts, fs) ==
  { c \in DataClusters(g) \ UsedClusters(fs) :
      \A k \in 1 .. block_group_count(g) :
        ~ (exts[k].physical_start <= c /\ c <= PhysicalEnd(exts[k])) }

-----------------------------------------------------------------------------
(***************************************************************************)
(* The search for blocked extents (extent-allocator.cpp), 1-based.         *)
(***************************************************************************)
blocked_extent_count == block_group_count(sb)

\* The binary search for the first blocked extent that does not end before
\* the address.
find_first_blocked_extent(physical_address) ==
  LET ends == 1 .. blocked_extent_count + 1
      search[range \in ends \X ends] ==
        LET begin == range[1]
            end   == range[2]
            mid   == (begin + end) \div 2
        IN  IF begin >= end THEN begin
            ELSE IF PhysicalEnd(blocked_extents[mid]) < physical_address
                 THEN search[<<mid + 1, end>>]
                 ELSE search[<<begin, mid>>]
  IN  search[<<1, blocked_extent_count + 1>>]

\* find_next_blocked_extent returns number j, or NULL, and moves its index on.
find_next_blocked_extent(j, physical_end) ==
  IF j > blocked_extent_count THEN 0
  ELSE IF physical_end < blocked_extents[j].physical_start THEN 0 ELSE j

\* Mutated: the index of the search is not incremented.
IndexNotIncremented(j) == j

IndexAfter(j) == IF j > blocked_extent_count THEN j ELSE j + 1

-----------------------------------------------------------------------------
(***************************************************************************)
(* Insertion into the stream: a new page when the current one is full.     *)
(***************************************************************************)
Running == phase = "idle"

\* What a stream page holds; the content of a cluster is the number of the
\* cluster it was read from.
PageContent == 0

\* Continue with an insertion of one unit, then at label l.
ThenInsert(l) == pc' = "insert" /\ then' = l

InsertInPage ==
  /\ Running /\ pc = "insert"
  /\ offsetInPage + 1 <= PageSize
  /\ offsetInPage' = offsetInPage + 1
  /\ pc' = then
  /\ UNCHANGED <<ffVars, inputVars, disk, stream, pages, aggregateVars, fragmentVars,
                 resettleVars, then>>

CallAllocatePage ==
  /\ Running /\ pc = "insert"
  /\ offsetInPage + 1 > PageSize
  /\ Request(1)
  /\ pc' = "page"
  /\ UNCHANGED <<inputVars, disk, streamVars, aggregateVars, fragmentVars, resettleVars, then>>

\* The page link is written, then the element that did not fit before.
InsertInNewPage ==
  /\ Running /\ pc = "page"
  /\ pages' = pages \cup out
  /\ disk' = [c \in DOMAIN disk |-> IF c \in out THEN PageContent ELSE disk[c]]
  /\ offsetInPage' = 2
  /\ pc' = then
  /\ UNCHANGED <<ffVars, inputVars, stream, aggregateVars, fragmentVars, resettleVars, then>>

-----------------------------------------------------------------------------
(***************************************************************************)
(* init_stream_archiver, and the loop over the files of the directory tree.*)
(***************************************************************************)
Init ==
  /\ sb \in Layouts
  /\ blocked_extents \in SortedPermutations(create_block_group_meta_extents(sb),
                                            block_group_count(sb))
  /\ files \in { fs \in FileSystems : UsedClusters(fs) \subseteq DataClusters(sb) }
  /\ reserved \in ReservedBits
  /\ disk = [c \in DataClusters(sb) |-> c]
  /\ avail = AvailableAtStart(sb, blocked_extents, files)
  /\ phase = "idle" /\ want = 0 /\ out = {}
  /\ stream = <<>> /\ pages = {} /\ offsetInPage = 0
  /\ current_extent = NoExtent /\ next_cluster_no = 0
  /\ fragment_start = 0 /\ i = 1 /\ blocked_extent = 0
  /\ fragment = NoExtent /\ resettled = 0
  /\ pc = "open" /\ then = "next_file"

\* The first cut of the stream allocates its first page.
OpenStream ==
  /\ Running /\ pc = "open"
  /\ Request(1)
  /\ pc' = "page"
  /\ UNCHANGED <<inputVars, disk, streamVars, aggregateVars, fragmentVars, resettleVars, then>>

\* Entry of aggregate_extents; for an empty file there is only the final cut.
NextFile ==
  LET cluster_no == file_cluster_no(Len(stream) + 1)
  IN  /\ Running /\ pc = "next_file"
      /\ Len(stream) < Len(files)
      /\ stream' = Append(stream, <<>>)
      /\ IF cluster_no = 0
           THEN ThenInsert("next_file") /\ UNCHANGED aggregateVars
           ELSE /\ current_extent' = Extent(0, cluster_no, 1)
                /\ next_cluster_no' = fat_entry(cluster_no)
                /\ pc' = "aggregate" /\ UNCHANGED then
      /\ UNCHANGED <<ffVars, inputVars, disk, pages, offsetInPage, fragmentVars, resettleVars>>

-----------------------------------------------------------------------------
(***************************************************************************)
(* aggregate_extents.                                                      *)
(***************************************************************************)
is_end         == next_cluster_no >= FAT_END_OF_CHAIN
is_consecutive == next_cluster_no = PhysicalEnd(current_extent)
\* Mutated: extents grow without limit.
HasMaxLengthNever == FALSE

has_max_length == current_extent.length = EXT4_MAX_INIT_EXTENT_LEN

MustFlush == is_end \/ ~ is_consecutive \/ has_max_length

GrowExtent ==
  /\ Running /\ pc = "aggregate"
  /\ ~ MustFlush
  /\ current_extent' = [current_extent EXCEPT !.length = @ + 1]
  /\ next_cluster_no' = fat_entry(next_cluster_no)
  /\ UNCHANGED <<ffVars, inputVars, disk, streamVars, fragmentVars, resettleVars, pc, then>>

\* Entry of find_blocked_extent_fragments.
FlushExtent ==
  LET first == find_first_blocked_extent(current_extent.physical_start)
  IN  /\ Running /\ pc = "aggregate"
      /\ MustFlush
      /\ fragment_start' = current_extent.physical_start
      /\ blocked_extent' = find_next_blocked_extent(first, PhysicalEnd(current_extent))
      /\ i' = IndexAfter(first)
      /\ pc' = "fragments"
      /\ UNCHANGED <<ffVars, inputVars, disk, streamVars, aggregateVars, resettleVars, then>>

\* find_blocked_extent_fragments returns: the next extent, or the cut that
\* ends the extents of the file.
AfterFlush ==
  /\ Running /\ pc = "fragments"
  /\ fragment_start >= PhysicalEnd(current_extent)
  /\ current_extent' = Extent(current_extent.logical_start + current_extent.length,
                              next_cluster_no, 1)
  /\ IF is_end
       THEN ThenInsert("next_file") /\ UNCHANGED next_cluster_no
       ELSE /\ next_cluster_no' = fat_entry(next_cluster_no)
            /\ pc' = "aggregate" /\ UNCHANGED then
  /\ UNCHANGED <<ffVars, inputVars, disk, streamVars, fragmentVars, resettleVars>>

-----------------------------------------------------------------------------
(***************************************************************************)
(* find_blocked_extent_fragments, one iteration of its loop.               *)
(***************************************************************************)
MoreFragments == fragment_start < PhysicalEnd(current_extent)

\* Mutated: any blocked extent ahead counts.
IsBlockedAhead == blocked_extent # 0

is_blocked ==
  blocked_extent # 0 /\ blocked_extents[blocked_extent].physical_start <= fragment_start

\* The fragment [fragment_start, end) of the input extent.
FragmentTo(end) ==
  Extent(current_extent.logical_start + (fragment_start - current_extent.physical_start),
         fragment_start, end - fragment_start)

Stored(e) == stream' = [stream EXCEPT ![Len(stream)] = Append(@, e)]

\* Up to the next blocked extent, or to the end, the clusters stay in place.
KeepFragment ==
  LET end == IF blocked_extent = 0 THEN PhysicalEnd(current_extent)
             ELSE blocked_extents[blocked_extent].physical_start
  IN  /\ Running /\ pc = "fragments"
      /\ MoreFragments
      /\ ~ is_blocked
      /\ Stored(FragmentTo(end))
      /\ fragment_start' = end
      /\ ThenInsert("fragments")
      /\ UNCHANGED <<ffVars, inputVars, disk, pages, offsetInPage, aggregateVars, i,
                     blocked_extent, resettleVars>>

\* What lies in the blocked extent has to move.
BlockedFragment ==
  LET blocked_end == PhysicalEnd(blocked_extents[blocked_extent])
      end == IF blocked_end < PhysicalEnd(current_extent)
             THEN blocked_end ELSE PhysicalEnd(current_extent)
  IN  /\ Running /\ pc = "fragments"
      /\ MoreFragments
      /\ is_blocked
      /\ fragment' = FragmentTo(end)
      /\ resettled' = 0
      /\ fragment_start' = end
      /\ blocked_extent' = find_next_blocked_extent(i, PhysicalEnd(current_extent))
      /\ i' = IndexAfter(i)
      /\ pc' = "resettle"
      /\ UNCHANGED <<ffVars, inputVars, disk, streamVars, aggregateVars, then>>

-----------------------------------------------------------------------------
(***************************************************************************)
(* resettle_extent: allocate, store the new extent, copy the content, until*)
(* the whole fragment is covered.                                          *)
(***************************************************************************)
CallAllocateExtent ==
  /\ Running /\ pc = "resettle"
  /\ resettled < fragment.length
  /\ Request(fragment.length - resettled)
  /\ pc' = "granted"
  /\ UNCHANGED <<inputVars, disk, streamVars, aggregateVars, fragmentVars, resettleVars, then>>

StoreGrantedExtent ==
  /\ Running /\ pc = "granted"
  /\ Stored(Extent(fragment.logical_start + resettled,
                   CHOOSE c \in out : \A d \in out : c <= d, Cardinality(out)))
  /\ ThenInsert("copy")
  /\ UNCHANGED <<ffVars, inputVars, disk, pages, offsetInPage, aggregateVars, fragmentVars,
                 resettleVars>>

LastStored == stream[Len(stream)][Len(stream[Len(stream)])]

\* Mutated: every piece is copied from the start of the fragment.
CopySourceFixed == fragment.physical_start

CopySource == fragment.physical_start + resettled

CopyClusters ==
  /\ Running /\ pc = "copy"
  /\ disk' = [c \in DOMAIN disk |->
                IF c \in Cells(LastStored)
                THEN disk[CopySource + (c - LastStored.physical_start)] ELSE disk[c]]
  /\ resettled' = resettled + LastStored.length
  /\ pc' = "resettle"
  /\ UNCHANGED <<ffVars, inputVars, streamVars, aggregateVars, fragmentVars, fragment, then>>

FragmentResettled ==
  /\ Running /\ pc = "resettle"
  /\ resettled >= fragment.length
  /\ pc' = "fragments"
  /\ UNCHANGED <<ffVars, inputVars, disk, streamVars, aggregateVars, fragmentVars, resettleVars,
                 then>>

-----------------------------------------------------------------------------
Done == pc = "next_file" /\ Len(stream) = Len(files)

Terminated == (Done \/ phase = "full") /\ UNCHANGED vars

AllocatorStep == (Grant \/ Fail) /\ UNCHANGED mapperVars

StreamStep == OpenStream \/ InsertInPage \/ CallAllocatePage \/ InsertInNewPage

MapperStep ==
  \/ NextFile \/ GrowExtent \/ FlushExtent \/ AfterFlush
  \/ KeepFragment \/ BlockedFragment
  \/ CallAllocateExtent \/ StoreGrantedExtent \/ CopyClusters \/ FragmentResettled

Work == AllocatorStep \/ StreamStep \/ MapperStep

Next == Work \/ Terminated

Spec == Init /\ [][Next]_vars /\ WF_vars(Work)

-----------------------------------------------------------------------------
(***************************************************************************)
(* Properties.                                                             *)
(***************************************************************************)
Mapped == 1 .. (IF pc = "next_file" THEN Len(stream) ELSE Len(stream) - 1)

\* The clusters a file's extents list, in order.
Clusters(f) ==
  LET chain[n \in 0 .. Len(stream[f])] ==
        IF n = 0 THEN <<>>
        ELSE chain[n - 1] \o [k \in 1 .. stream[f][n].length |->
                                stream[f][n].physical_start + k - 1]
  IN  chain[Len(stream[f])]

\* The extents of a mapped file cover its logical clusters without gap or
\* overlap, and where they point holds the content the FAT chain has there,
\* whether it stayed in place or was copied, in one piece or in several.
ContentPreserved ==
  \A f \in Mapped :
    /\ Len(Clusters(f)) = Len(files[f])
    /\ \A k \in 1 .. Len(files[f]) : disk[Clusters(f)[k]] = files[f][k]
    /\ \A n \in 1 .. Len(stream[f]) :
         stream[f][n].logical_start =
           (IF n = 1 THEN 0 ELSE stream[f][n-1].logical_start + stream[f][n-1].length)

AllExtents == UNION { { <<f, n>> : n \in 1 .. Len(stream[f]) } : f \in 1 .. Len(stream) }

\* What ext4 will be told: every extent lies in one block group, is not empty
\* nor longer than ext4 allows, has no block of the ext4 metadata, and shares
\* no cluster with another extent or with a page of the stream.
ExtentsFitExt4 ==
  \A x \in AllExtents :
    LET e == stream[x[1]][x[2]]
    IN  /\ e.length \in 1 .. EXT4_MAX_INIT_EXTENT_LEN
        /\ \A c \in Cells(e) :
             /\ c \in DataClusters(sb)
             /\ GroupOfCluster(sb, c) = GroupOfCluster(sb, e.physical_start)
             /\ ~ IsMetadataBlock(sb, fat_cl_to_e4blk(sb, c))
        /\ Cells(e) \cap pages = {}
        /\ \A y \in AllExtents \ {x} : Cells(e) \cap Cells(stream[y[1]][y[2]]) = {}

\* The conversion is in place: a cluster moves only if a blocked extent covers
\* it, so at most the size of the metadata is ever copied.
MovedOnlyIfBlocked ==
  \A f \in Mapped : \A k \in 1 .. Len(files[f]) :
    Clusters(f)[k] # files[f][k] =>
      \E b \in 1 .. blocked_extent_count : files[f][k] \in Cells(blocked_extents[b])

\* Until init_ext4_group_descs the FAT file system is untouched: a crash or an
\* exit while the chains are mapped, at any step, loses nothing, because no
\* cluster the FAT has in use is ever written.
SourceIntact == \A c \in UsedClusters(files) : disk[c] = c

\* Mapping ends: every chain is mapped or the program gave up.
MappingEnds == <>(Done \/ phase = "full")
=============================================================================
