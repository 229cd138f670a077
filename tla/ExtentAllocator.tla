--------------------------- MODULE ExtentAllocator ---------------------------
(***************************************************************************)
(* The extent allocator (extent-allocator.cpp): one pass over the clusters *)
(* of the partition that hands out free clusters, jumping over the blocked *)
(* extents, the clusters the ext4 metadata will overwrite.  One action per *)
(* outcome of can_be_used(), in each of the two loops of allocate_extent() *)
(* that call it.                                                           *)
(***************************************************************************)
EXTENDS Geometry, FiniteSets

CONSTANTS Layouts,        \* The superblock layouts to start from
          MayBeUsed,      \* Clusters the FAT may have in use
          Sizes           \* The lengths allocate_extent is called with

ASSUME LayoutsAssumption   == \A g \in Layouts : UsableLayout(g)
ASSUME MayBeUsedAssumption == MayBeUsed \subseteq Nat
ASSUME SizesAssumption     == Sizes \subseteq Nat \ {0}

VARIABLES sb,                     \* The layout
          fat,                    \* Data clusters whose FAT entry is not free
          blocked_extents,        \* allocator.blocked_extents, sentinel included
          blocked_extent_current, \* 1-based index into blocked_extents
          index_in_fat,           \* allocator.index_in_fat
          allocation_bitmap,      \* The clusters whose bit is set
          pc,                     \* "idle", in a loop: "find"/"extend", or "exited"
          max_length,             \* Argument of the current allocate_extent
          result                  \* Extent the current, or the last, call built

allocVars == <<blocked_extent_current, index_in_fat, allocation_bitmap, pc, result>>
vars == <<sb, fat, blocked_extents, max_length, allocVars>>

NoExtent == [physical_start |-> 0, length |-> 0]

Cells(e) == e.physical_start .. (PhysicalEnd(e) - 1)

-----------------------------------------------------------------------------
blocked_extent_count == block_group_count(sb)

\* Mutated: the loop over the FAT is missing.
InitialBitmapWithoutFat(used) == 0 .. FAT_START_INDEX - 1

\* create_allocation_bitmap: FAT entries 0 and 1 and every used cluster.
InitialBitmap(used) == (0 .. FAT_START_INDEX - 1) \cup used

\* init_extent_allocator
Init ==
  /\ sb \in Layouts
  /\ fat \in SUBSET (DataClusters(sb) \cap MayBeUsed)
  /\ blocked_extents \in SortedPermutations(create_block_group_meta_extents(sb),
                                            blocked_extent_count)
  /\ blocked_extent_current = 1
  /\ index_in_fat = 0
  /\ allocation_bitmap = InitialBitmap(fat)
  /\ pc = "idle"
  /\ max_length = 0
  /\ result = NoExtent

-----------------------------------------------------------------------------
is_free(cluster_no) == cluster_no \notin allocation_bitmap

fs_is_full(current) == current - 1 > blocked_extent_count

Looping == pc \in {"find", "extend"}

\* can_be_used() increments index_in_fat before it looks at anything.
Candidate == index_in_fat + 1

\* Mutated: off by one, the first blocked cluster counts as before the extent.
BeforeOrAtBlocked ==
  Candidate <= blocked_extents[blocked_extent_current].physical_start

BeforeBlocked ==
  Candidate < blocked_extents[blocked_extent_current].physical_start

\* Mutated: the second loop does not end at a refusal.
PcAfterRefusalGoesOn == pc

\* can_be_used() returned false: the first loop goes on, the second one ends
\* and with it the call.
PcAfterRefusal == IF pc = "find" THEN "find" ELSE "idle"

\* Mutated: <= for <.
PcAfterTakingOneMore(length) == IF length <= max_length THEN "extend" ELSE "idle"

\* The while condition of the second loop, once the extent has this length.
PcAfterTaking(length) == IF length < max_length THEN "extend" ELSE "idle"

-----------------------------------------------------------------------------
\* Some caller enters allocate_extent(n).
allocate_extent(n) ==
  /\ pc = "idle"
  /\ pc' = "find"
  /\ max_length' = n
  /\ result' = NoExtent
  /\ UNCHANGED <<sb, fat, blocked_extents, blocked_extent_current, index_in_fat,
                 allocation_bitmap>>

Take(e) ==
  /\ index_in_fat' = Candidate
  /\ allocation_bitmap' = allocation_bitmap \cup {Candidate}
  /\ result' = e
  /\ pc' = PcAfterTaking(e.length)
  /\ UNCHANGED <<sb, fat, blocked_extents, blocked_extent_current, max_length>>

\* The first loop found a cluster: the extent starts there.
StartExtent ==
  /\ pc = "find"
  /\ BeforeBlocked
  /\ is_free(Candidate)
  /\ Take([physical_start |-> Candidate, length |-> 1])

\* The second loop found the next cluster usable too.
GrowExtent ==
  /\ pc = "extend"
  /\ BeforeBlocked
  /\ is_free(Candidate)
  /\ Take([result EXCEPT !.length = Candidate - result.physical_start + 1])

\* Mutated: the incremented index is not kept.
PassUsedClusterWithoutAdvancing ==
  /\ Looping
  /\ BeforeBlocked
  /\ ~ is_free(Candidate)
  /\ pc' = PcAfterRefusal
  /\ UNCHANGED <<sb, fat, blocked_extents, blocked_extent_current, index_in_fat,
                 allocation_bitmap, max_length, result>>

\* The next cluster is in use.
PassUsedCluster ==
  /\ Looping
  /\ BeforeBlocked
  /\ ~ is_free(Candidate)
  /\ index_in_fat' = Candidate
  /\ pc' = PcAfterRefusal
  /\ UNCHANGED <<sb, fat, blocked_extents, blocked_extent_current,
                 allocation_bitmap, max_length, result>>

\* A blocked extent was reached: jump to its end.  Past the sentinel the file
\* system is full and the program exits, whatever loop it is in.
SkipBlockedExtent ==
  /\ Looping
  /\ ~ BeforeBlocked
  /\ index_in_fat' = PhysicalEnd(blocked_extents[blocked_extent_current])
  /\ blocked_extent_current' = blocked_extent_current + 1
  /\ pc' = IF fs_is_full(blocked_extent_current') THEN "exited" ELSE PcAfterRefusal
  /\ UNCHANGED <<sb, fat, blocked_extents, allocation_bitmap, max_length, result>>

Work == StartExtent \/ GrowExtent \/ PassUsedCluster \/ SkipBlockedExtent

\* Nothing runs after exit(1).
Exited == pc = "exited" /\ UNCHANGED vars

Next == (\E n \in Sizes : allocate_extent(n)) \/ Work \/ Exited

Spec == Init /\ [][Next]_vars /\ WF_vars(Work)

-----------------------------------------------------------------------------
(***************************************************************************)
(* Properties.                                                             *)
(***************************************************************************)
\* The type of every variable.
TypeOK ==
  /\ sb \in Layouts
  /\ fat \subseteq DataClusters(sb)
  /\ blocked_extents \in [1 .. blocked_extent_count + 1 -> [physical_start : Nat, length : Nat]]
  /\ blocked_extent_current \in 1 .. blocked_extent_count + 2
  /\ index_in_fat \in Nat
  /\ allocation_bitmap \subseteq Nat
  /\ pc \in {"idle", "find", "extend", "exited"}
  /\ max_length \in Sizes \cup {0}
  /\ result \in [physical_start : Nat, length : Nat]

\* The clusters handed out so far.
Allocated == allocation_bitmap \ InitialBitmap(fat)

\* allocate_extent never hands out a cluster outside the data area or one that
\* init_ext4_group_descs and the superblock copies will overwrite.  The jump
\* over the blocked extents is what keeps it so, for every order of groups,
\* metadata before the data area and metadata cut by its start.
AllocatedIsSafe ==
  \A c \in Allocated :
    /\ c \in DataClusters(sb)
    /\ ~ IsMetadataBlock(sb, fat_cl_to_e4blk(sb, c))

\* An extent never crosses into another block group: what
\* add_extent_to_block_bitmap takes for granted of every extent it is given.
ResultInOneGroup ==
  \A c, d \in Cells(result) : GroupOfCluster(sb, c) = GroupOfCluster(sb, d)

\* Clusters can_be_used() can say yes to: free in the FAT, and not in a blocked
\* extent nor the one cluster that follows it, which is refused with it.
UsableClusters ==
  { c \in DataClusters(sb) \ fat :
      \A k \in 1 .. blocked_extent_count :
        ~ (blocked_extents[k].physical_start <= c /\ c <= PhysicalEnd(blocked_extents[k])) }

InProgress == IF pc = "idle" THEN {} ELSE Cells(result)

Avail == (UsableClusters \ allocation_bitmap) \cup InProgress

Phase == IF pc = "idle" THEN "idle" ELSE IF pc = "exited" THEN "full" ELSE "busy"

Granted == IF pc = "idle" THEN Cells(result) ELSE {}

FF == INSTANCE FirstFit WITH avail <- Avail, phase <- Phase, want <- max_length, out <- Granted

\* The allocator implements first fit: every call returns the first run of
\* usable clusters cut to max_length, no cluster is returned twice, none is
\* passed over, and exit(1) happens only when fewer than max_length are left.
ImplementsFirstFit == FF!FFSpec

\* The inductive invariant behind the properties above.  The pass over the
\* clusters has two sides: behind index_in_fat every usable cluster is taken
\* and every blocked extent that was jumped over ends; ahead of it nothing is
\* allocated yet.  An extent under construction ends exactly at index_in_fat.
IInv ==
  /\ TypeOK
  /\ WellFormed(sb, blocked_extents)
  /\ InitialBitmap(fat) \subseteq allocation_bitmap
  /\ \A c \in Allocated : c \in UsableClusters /\ c <= index_in_fat
  /\ \A c \in UsableClusters : c <= index_in_fat => c \in allocation_bitmap
  /\ Cells(result) \subseteq Allocated
  /\ pc # "exited" =>
       /\ blocked_extent_current <= blocked_extent_count + 1
       /\ \A k \in 1 .. blocked_extent_current - 1 :
            PhysicalEnd(blocked_extents[k]) <= index_in_fat
       /\ blocked_extent_current <= blocked_extent_count =>
            index_in_fat <= blocked_extents[blocked_extent_current].physical_start
  /\ pc \in {"find", "extend", "exited"} => max_length \in Sizes
  /\ pc = "find" => result = NoExtent
  /\ pc = "extend" =>
       /\ result.length \in 1 .. max_length - 1
       /\ PhysicalEnd(result) = Candidate
       /\ index_in_fat < blocked_extents[blocked_extent_current].physical_start

\* allocate_extent returns or exits: no cycle of the two loops.
CallsEnd == Looping ~> ~ Looping

\* "File system is too small" (extent-allocator.cpp:62): the program gives up
\* only if fewer than max_length clusters outside the metadata are left.
TooSmallMeansFull ==
  pc = "exited" =>
    Cardinality({ c \in DataClusters(sb) \ allocation_bitmap :
                    ~ IsMetadataBlock(sb, fat_cl_to_e4blk(sb, c)) } \cup Cells(result))
      < max_length
=============================================================================
