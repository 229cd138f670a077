------------------------ MODULE ExtentAllocatorProofs ------------------------
(***************************************************************************)
(* The extent allocator, for every set of layouts, every FAT and every     *)
(* sequence of requests: the inductive invariant, the safety of what is    *)
(* allocated, and the implementation of first fit.                         *)
(***************************************************************************)
EXTENDS ExtentAllocator, GeometryProofs, FiniteSetTheorems

\* What the steps read of the layout.
LEMMA LayoutFacts ==
  ASSUME sb \in Layouts
  PROVE  /\ UsableLayout(sb)
         /\ blocked_extent_count \in Nat \ {0}
         /\ data_cluster_count(sb) \in Nat
<1>1. UsableLayout(sb)  BY LayoutsAssumption
<1>2. block_group_count(sb) \in Nat \ {0}  BY <1>1, GroupBounds
<1>3. data_cluster_count(sb) \in Nat
  BY <1>1 DEF UsableLayout, Superblocks, data_cluster_count, FAT_START_INDEX
<1> QED BY <1>1, <1>2, <1>3 DEF blocked_extent_count

-----------------------------------------------------------------------------
LEMMA InitInv == Init => IInv
<1> SUFFICES ASSUME Init PROVE IInv  OBVIOUS
<1>1. /\ UsableLayout(sb) /\ blocked_extent_count \in Nat \ {0}
      /\ data_cluster_count(sb) \in Nat
  BY LayoutFacts DEF Init
<1>2. WellFormed(sb, blocked_extents)
  BY <1>1, SortedExtentsWellFormed DEF Init, blocked_extent_count
<1>3. blocked_extents \in [1 .. blocked_extent_count + 1 -> [physical_start : Nat, length : Nat]]
  BY <1>2 DEF WellFormed, blocked_extent_count
<1>4. fat \subseteq DataClusters(sb) /\ allocation_bitmap \subseteq Nat
  BY <1>1 DEF Init, InitialBitmap, DataClusters, FAT_START_INDEX
<1>5. TypeOK
  BY <1>1, <1>3, <1>4 DEF Init, TypeOK, NoExtent
<1>6. Allocated = {}  BY DEF Init, Allocated
<1>7. Cells(result) = {}  BY DEF Init, NoExtent, Cells, PhysicalEnd
<1>8. \A c \in UsableClusters : ~ (c <= index_in_fat)
  BY <1>1 DEF Init, UsableClusters, DataClusters, FAT_START_INDEX
<1>9. blocked_extents[1].physical_start \in Nat  BY <1>1, <1>3
<1>10. index_in_fat <= blocked_extents[1].physical_start  BY <1>9 DEF Init
<1> QED BY <1>1, <1>2, <1>5, <1>6, <1>7, <1>8, <1>10 DEF Init, IInv

-----------------------------------------------------------------------------
\* Where can_be_used() says yes the candidate is a usable cluster: it lies
\* after the extents jumped over and before all the others.
LEMMA CandidateUsable ==
  ASSUME IInv, Looping, BeforeBlocked, is_free(Candidate)
  PROVE  Candidate \in UsableClusters
<1> DEFINE n == blocked_extent_count
           cur == blocked_extent_current
<1>1. /\ UsableLayout(sb) /\ n \in Nat \ {0} /\ data_cluster_count(sb) \in Nat
  BY LayoutFacts DEF IInv, TypeOK
<1>2. /\ index_in_fat \in Nat /\ Candidate \in Nat /\ cur \in 1 .. n + 1
      /\ \A k \in 1 .. cur - 1 : PhysicalEnd(blocked_extents[k]) <= index_in_fat
  BY <1>1 DEF IInv, TypeOK, Looping, Candidate
<1>3. /\ blocked_extents \in [1 .. n + 1 -> [physical_start : Nat, length : Nat]]
      /\ blocked_extents[n + 1].physical_start = data_cluster_count(sb)
      /\ \A i \in 1..n : blocked_extents[i].physical_start <= data_cluster_count(sb)
      /\ \A i, j \in 1..n : i < j =>
           PhysicalEnd(blocked_extents[i]) <= blocked_extents[j].physical_start
  BY DEF IInv, WellFormed, blocked_extent_count
<1>4. Candidate < blocked_extents[cur].physical_start  BY DEF BeforeBlocked
<1>5. Candidate \in DataClusters(sb)
  <2>1. Candidate < data_cluster_count(sb)
    <3>1. CASE cur = n + 1  BY <1>3, <1>4, <3>1
    <3>2. CASE cur \in 1..n
      <4>1. blocked_extents[cur].physical_start \in Nat  BY <1>1, <1>3, <3>2
      <4> QED BY <1>1, <1>2, <1>3, <1>4, <3>2, <4>1
    <3> QED BY <1>1, <1>2, <3>1, <3>2
  <2>2. Candidate \notin 0 .. FAT_START_INDEX - 1
    BY DEF is_free, IInv, InitialBitmap
  <2> QED BY <1>1, <1>2, <2>1, <2>2 DEF DataClusters, FAT_START_INDEX
<1>6. ASSUME NEW k \in 1..n
      PROVE  ~ (blocked_extents[k].physical_start <= Candidate
                /\ Candidate <= PhysicalEnd(blocked_extents[k]))
  <2>1. blocked_extents[k] \in [physical_start : Nat, length : Nat]
        /\ PhysicalEnd(blocked_extents[k]) \in Nat
    BY <1>1, <1>3 DEF PhysicalEnd
  <2>2. CASE k < cur
    BY <1>1, <1>2, <2>1, <2>2 DEF Candidate
  <2>3. CASE k >= cur
    <3>1. cur \in 1..n  BY <1>1, <1>2, <2>3
    <3>2. blocked_extents[cur] \in [physical_start : Nat, length : Nat]
          /\ blocked_extents[cur].physical_start <= PhysicalEnd(blocked_extents[cur])
          /\ PhysicalEnd(blocked_extents[cur]) \in Nat
      BY <1>1, <1>3, <3>1 DEF PhysicalEnd
    <3>3. blocked_extents[cur].physical_start <= blocked_extents[k].physical_start
      BY <1>1, <1>3, <2>1, <2>3, <3>1, <3>2
    <3> QED BY <1>2, <1>4, <2>1, <3>2, <3>3
  <2> QED BY <1>1, <1>2, <2>2, <2>3
<1>7. Candidate \notin fat  BY DEF is_free, IInv, InitialBitmap
<1> QED BY <1>5, <1>6, <1>7 DEF UsableClusters

\* The two steps that take the candidate keep the invariant.
LEMMA TakeInv ==
  ASSUME IInv, StartExtent \/ GrowExtent
  PROVE  IInv'
<1> DEFINE n == blocked_extent_count
<1>1. /\ UsableLayout(sb) /\ n \in Nat \ {0} /\ data_cluster_count(sb) \in Nat
  BY LayoutFacts DEF IInv, TypeOK
<1>2. PICK e : e = result' /\ Take(e)
  BY DEF StartExtent, GrowExtent, Take
<1>3. Looping /\ BeforeBlocked /\ is_free(Candidate)
  BY DEF StartExtent, GrowExtent, Looping
<1>4. Candidate \in UsableClusters  BY <1>3, CandidateUsable
<1>5. index_in_fat \in Nat /\ Candidate = index_in_fat + 1 /\ Candidate \in Nat
  BY DEF IInv, TypeOK, Candidate
<1>6. result \in [physical_start : Nat, length : Nat] /\ max_length \in Sizes /\ max_length \in Nat
  BY <1>3, SizesAssumption DEF IInv, TypeOK, Looping
<1>7. /\ e \in [physical_start : Nat, length : Nat]
      /\ e.length \in 1 .. max_length
      /\ PhysicalEnd(e) = Candidate + 1
      /\ Cells(e) \subseteq Cells(result) \cup {Candidate}
  <2>1. CASE StartExtent
    <3>1. e = [physical_start |-> Candidate, length |-> 1]  BY <1>2, <2>1 DEF StartExtent, Take
    <3>2. max_length >= 1  BY <1>6, SizesAssumption
    <3> QED BY <1>5, <1>6, <3>1, <3>2 DEF Cells, PhysicalEnd
  <2>2. CASE GrowExtent
    <3>1. e = [result EXCEPT !.length = Candidate - result.physical_start + 1]
      BY <1>2, <2>2 DEF GrowExtent, Take
    <3>2. result.length \in 1 .. max_length - 1 /\ PhysicalEnd(result) = Candidate
      BY <2>2 DEF GrowExtent, IInv
    <3>3. Candidate = result.physical_start + result.length  BY <3>2 DEF PhysicalEnd
    <3>4. e.physical_start = result.physical_start /\ e.length = result.length + 1
          /\ e = [physical_start |-> result.physical_start, length |-> result.length + 1]
      BY <1>6, <3>1, <3>3
    <3> QED BY <1>5, <1>6, <3>2, <3>3, <3>4 DEF Cells, PhysicalEnd
  <2> QED BY <2>1, <2>2
<1>8. /\ UNCHANGED <<sb, fat, blocked_extents, blocked_extent_current, max_length>>
      /\ index_in_fat' = Candidate
      /\ allocation_bitmap' = allocation_bitmap \cup {Candidate}
      /\ result' = e /\ pc' = PcAfterTaking(e.length)
  BY <1>2 DEF Take
<1>9. /\ UsableClusters' = UsableClusters
      /\ Allocated' = Allocated \cup {Candidate}
      /\ WellFormed(sb, blocked_extents)'
      /\ blocked_extent_count' = blocked_extent_count
      /\ InitialBitmap(fat)' = InitialBitmap(fat)
  <2>1. Candidate \notin InitialBitmap(fat)  BY <1>3 DEF is_free, IInv
  <2> QED BY <1>8, <2>1 DEF UsableClusters, Allocated, IInv, InitialBitmap, blocked_extent_count
<1>10. TypeOK'
  BY <1>5, <1>7, <1>8, <1>9 DEF IInv, TypeOK, PcAfterTaking
<1>11. \A c \in Allocated' : c \in UsableClusters' /\ c <= index_in_fat'
  <2>1. \A c \in Allocated : c \in Nat  BY DEF Allocated, IInv, TypeOK
  <2> QED BY <1>4, <1>5, <1>8, <1>9, <2>1 DEF IInv
<1>12. \A c \in UsableClusters' : c <= index_in_fat' => c \in allocation_bitmap'
  <2>1. \A c \in UsableClusters : c \in Int  BY DEF UsableClusters, DataClusters
  <2> QED BY <1>5, <1>8, <1>9, <2>1 DEF IInv
<1>13. Cells(result') \subseteq Allocated'  BY <1>7, <1>8, <1>9 DEF IInv
<1>14. /\ blocked_extent_current' <= blocked_extent_count' + 1
       /\ \A k \in 1 .. blocked_extent_current' - 1 :
            PhysicalEnd(blocked_extents'[k]) <= index_in_fat'
  <2>1. /\ blocked_extent_current \in 1 .. n + 1
        /\ \A k \in 1 .. blocked_extent_current - 1 : PhysicalEnd(blocked_extents[k]) <= index_in_fat
    BY <1>1, <1>3 DEF IInv, TypeOK, Looping
  <2>2. \A k \in 1 .. blocked_extent_current - 1 : PhysicalEnd(blocked_extents[k]) \in Nat
    BY <1>1, <2>1 DEF IInv, TypeOK, PhysicalEnd
  <2> QED BY <1>5, <1>8, <1>9, <2>1, <2>2
<1>19. blocked_extent_current' <= blocked_extent_count' =>
         index_in_fat' <= blocked_extents'[blocked_extent_current'].physical_start
  <2>1. SUFFICES ASSUME blocked_extent_current <= n
                 PROVE  Candidate <= blocked_extents[blocked_extent_current].physical_start
    BY <1>8, <1>9
  <2>2. blocked_extents[blocked_extent_current].physical_start \in Nat
    BY <1>1, <2>1 DEF IInv, TypeOK
  <2> QED BY <1>3, <1>5, <2>2 DEF BeforeBlocked
<1>15. pc' \in {"idle", "extend"} /\ (pc' = "extend" => e.length < max_length)
  BY <1>8 DEF PcAfterTaking
<1>16. pc' = "extend" =>
         /\ result'.length \in 1 .. max_length' - 1
         /\ PhysicalEnd(result') = Candidate'
         /\ index_in_fat' < blocked_extents'[blocked_extent_current'].physical_start
  <2> SUFFICES ASSUME pc' = "extend"
               PROVE  /\ result'.length \in 1 .. max_length' - 1
                      /\ PhysicalEnd(result') = Candidate'
                      /\ index_in_fat' < blocked_extents'[blocked_extent_current'].physical_start
    OBVIOUS
  <2>1. Candidate' = Candidate + 1  BY <1>8 DEF Candidate
  <2> QED BY <1>3, <1>6, <1>7, <1>8, <1>15, <2>1 DEF BeforeBlocked
<1>17. InitialBitmap(fat)' \subseteq allocation_bitmap'  BY <1>8, <1>9 DEF IInv
<1>18. max_length' \in Sizes  BY <1>6, <1>8
<1> QED
  BY <1>9, <1>10, <1>11, <1>12, <1>13, <1>14, <1>15, <1>16, <1>17, <1>18, <1>19
     DEF IInv

\* The steps that allocate nothing leave everything derived from the layout,
\* the FAT and the bitmap alone.
LEMMA Frame ==
  ASSUME IInv, UNCHANGED <<sb, fat, blocked_extents, allocation_bitmap>>
  PROVE  /\ UsableClusters' = UsableClusters
         /\ Allocated' = Allocated
         /\ WellFormed(sb, blocked_extents)'
         /\ blocked_extent_count' = blocked_extent_count
         /\ InitialBitmap(fat)' \subseteq allocation_bitmap'
BY DEF UsableClusters, Allocated, IInv, InitialBitmap, blocked_extent_count

LEMMA AllocateInv ==
  ASSUME IInv, NEW m \in Sizes, allocate_extent(m)
  PROVE  IInv'
<1>1. /\ UsableClusters' = UsableClusters /\ Allocated' = Allocated
      /\ WellFormed(sb, blocked_extents)'
      /\ blocked_extent_count' = blocked_extent_count
      /\ InitialBitmap(fat)' \subseteq allocation_bitmap'
  BY Frame DEF allocate_extent
<1>2. TypeOK'  BY <1>1 DEF IInv, TypeOK, allocate_extent, NoExtent
<1>3. Cells(result') = {}  BY DEF allocate_extent, NoExtent, Cells, PhysicalEnd
<1>4. NoExtent' = NoExtent  BY DEF NoExtent
<1> QED BY <1>1, <1>2, <1>3, <1>4 DEF IInv, allocate_extent

LEMMA PassInv ==
  ASSUME IInv, PassUsedCluster
  PROVE  IInv'
<1>1. /\ UsableClusters' = UsableClusters /\ Allocated' = Allocated
      /\ WellFormed(sb, blocked_extents)'
      /\ blocked_extent_count' = blocked_extent_count
      /\ InitialBitmap(fat)' \subseteq allocation_bitmap'
  BY Frame DEF PassUsedCluster
<1>2. index_in_fat \in Nat /\ Candidate = index_in_fat + 1 /\ index_in_fat' = Candidate
  BY DEF IInv, TypeOK, Candidate, PassUsedCluster
<1>3. TypeOK'
  BY <1>1, <1>2 DEF IInv, TypeOK, PassUsedCluster, PcAfterRefusal
<1>4. pc' \in {"find", "idle"} /\ (pc' = "find" => pc = "find")
  BY DEF PassUsedCluster, PcAfterRefusal
<1>5. pc \in {"find", "extend"}  BY DEF PassUsedCluster, Looping
<1>6. \A c \in Allocated' : c \in UsableClusters' /\ c <= index_in_fat'
  <2>1. \A c \in Allocated : c \in Nat  BY DEF Allocated, IInv, TypeOK
  <2> QED BY <1>1, <1>2, <2>1 DEF IInv
<1>7. \A c \in UsableClusters' : c <= index_in_fat' => c \in allocation_bitmap'
  <2>1. \A c \in UsableClusters : c \in Int  BY DEF UsableClusters, DataClusters
  <2>2. Candidate \in allocation_bitmap /\ allocation_bitmap' = allocation_bitmap
    BY DEF PassUsedCluster, is_free
  <2> QED BY <1>1, <1>2, <2>1, <2>2 DEF IInv
<1>8. Cells(result)' \subseteq Allocated'  BY <1>1 DEF PassUsedCluster, IInv, Cells
<1>9. /\ blocked_extent_current' <= blocked_extent_count' + 1
      /\ \A k \in 1 .. blocked_extent_current' - 1 :
           PhysicalEnd(blocked_extents'[k]) <= index_in_fat'
  <2>1. blocked_extent_count \in Nat  BY LayoutFacts DEF IInv, TypeOK
  <2>2. /\ blocked_extent_current \in 1 .. blocked_extent_count + 1
        /\ \A k \in 1 .. blocked_extent_current - 1 : PhysicalEnd(blocked_extents[k]) <= index_in_fat
    BY <1>5, <2>1 DEF IInv, TypeOK
  <2>3. \A k \in 1 .. blocked_extent_current - 1 : PhysicalEnd(blocked_extents[k]) \in Nat
    BY <2>1, <2>2 DEF IInv, TypeOK, PhysicalEnd
  <2> QED BY <1>1, <1>2, <2>1, <2>2, <2>3 DEF PassUsedCluster
<1>12. blocked_extent_current' <= blocked_extent_count' =>
         index_in_fat' <= blocked_extents'[blocked_extent_current'].physical_start
  <2>1. blocked_extent_count \in Nat  BY LayoutFacts DEF IInv, TypeOK
  <2>2. SUFFICES ASSUME blocked_extent_current <= blocked_extent_count
                 PROVE  Candidate <= blocked_extents[blocked_extent_current].physical_start
    BY <1>1, <1>2 DEF PassUsedCluster
  <2>3. blocked_extents[blocked_extent_current].physical_start \in Nat
    BY <2>1, <2>2 DEF IInv, TypeOK
  <2> QED BY <1>2, <2>3 DEF BeforeBlocked, PassUsedCluster
<1>10. max_length' \in Sizes  BY <1>5 DEF PassUsedCluster, IInv
<1>11. pc' = "find" => result' = NoExtent'  BY <1>4 DEF PassUsedCluster, IInv, NoExtent
<1> QED
  BY <1>1, <1>3, <1>4, <1>6, <1>7, <1>8, <1>9, <1>10, <1>11, <1>12 DEF IInv

LEMMA SkipInv ==
  ASSUME IInv, SkipBlockedExtent
  PROVE  IInv'
<1> DEFINE n == blocked_extent_count
           cur == blocked_extent_current
           blocked == blocked_extents[cur]
<1>1. /\ UsableClusters' = UsableClusters /\ Allocated' = Allocated
      /\ WellFormed(sb, blocked_extents)'
      /\ blocked_extent_count' = blocked_extent_count
      /\ InitialBitmap(fat)' \subseteq allocation_bitmap'
  BY Frame DEF SkipBlockedExtent
<1>2. n \in Nat /\ data_cluster_count(sb) \in Nat  BY LayoutFacts DEF IInv, TypeOK
<1>3. pc \in {"find", "extend"}  BY DEF SkipBlockedExtent, Looping
<1>4. /\ index_in_fat \in Nat /\ Candidate = index_in_fat + 1
      /\ cur \in 1 .. n + 1 /\ cur' = cur + 1
      /\ \A k \in 1 .. cur - 1 : PhysicalEnd(blocked_extents[k]) <= index_in_fat
      /\ blocked_extents' = blocked_extents
  BY <1>2, <1>3 DEF IInv, TypeOK, Candidate, SkipBlockedExtent
<1>5. /\ blocked_extents \in [1 .. n + 1 -> [physical_start : Nat, length : Nat]]
      /\ blocked_extents[n + 1].physical_start = data_cluster_count(sb)
      /\ \A i, j \in 1..n : i < j =>
           PhysicalEnd(blocked_extents[i]) <= blocked_extents[j].physical_start
  BY DEF IInv, WellFormed, blocked_extent_count
<1>6. \A k \in 1 .. n + 1 : /\ blocked_extents[k].physical_start \in Nat
                            /\ PhysicalEnd(blocked_extents[k]) \in Nat
                            /\ blocked_extents[k].physical_start <= PhysicalEnd(blocked_extents[k])
  <2>1. TAKE k \in 1 .. n + 1
  <2>2. blocked_extents[k] \in [physical_start : Nat, length : Nat]  BY <1>5
  <2> QED BY <2>2 DEF PhysicalEnd
<1>7. /\ index_in_fat' = PhysicalEnd(blocked)
      /\ blocked.physical_start <= Candidate
      /\ index_in_fat' \in Nat
  BY <1>4, <1>6 DEF SkipBlockedExtent, BeforeBlocked
<1>8. /\ pc' \in {"find", "idle", "exited"}
      /\ pc' = "find" => pc = "find"
      /\ pc' # "exited" => cur \in 1..n
  BY <1>2, <1>4 DEF SkipBlockedExtent, PcAfterRefusal, fs_is_full
<1>9. TypeOK'
  BY <1>1, <1>2, <1>4, <1>7, <1>8, SMTT(30) DEF IInv, TypeOK, SkipBlockedExtent
<1>10. \A c \in UsableClusters : c \in Int /\ c < data_cluster_count(sb)
  BY <1>2 DEF UsableClusters, DataClusters
<1>11. \A c \in Allocated' : c \in UsableClusters' /\ c <= index_in_fat'
  <2> SUFFICES ASSUME NEW c \in Allocated
               PROVE  c \in UsableClusters /\ c <= index_in_fat'
    BY <1>1
  <2>1. c \in UsableClusters /\ c <= index_in_fat /\ c \in Int /\ c < data_cluster_count(sb)
    BY <1>10 DEF IInv
  <2>2. CASE cur \in 1..n
    <3>1. index_in_fat <= blocked.physical_start
      BY <1>2, <1>3, <2>2 DEF IInv
    <3> QED BY <1>4, <1>6, <1>7, <2>1, <3>1
  <2>3. CASE cur = n + 1
    <3>1. blocked.physical_start = data_cluster_count(sb)  BY <1>5, <2>3
    <3> QED BY <1>2, <1>4, <1>6, <1>7, <2>1, <3>1
  <2> QED BY <1>4, <1>2, <2>1, <2>2, <2>3
<1>12. ASSUME NEW c \in UsableClusters', c <= index_in_fat'
       PROVE  c \in allocation_bitmap'
  <2>1. c \in UsableClusters /\ c \in Int /\ c < data_cluster_count(sb)  BY <1>1, <1>10, <1>12
  <2>2. c < Candidate
    <3>1. CASE cur \in 1..n
      <4>1. ~ (blocked.physical_start <= c /\ c <= PhysicalEnd(blocked))
        BY <2>1, <3>1 DEF UsableClusters
      <4> QED BY <1>4, <1>6, <1>7, <1>12, <2>1, <4>1
    <3>2. CASE cur = n + 1
      <4>1. blocked.physical_start = data_cluster_count(sb)  BY <1>5, <3>2
      <4> QED BY <1>2, <1>4, <1>7, <2>1, <4>1
    <3> QED BY <1>2, <1>4, <3>1, <3>2
  <2>3. c <= index_in_fat  BY <1>4, <2>1, <2>2
  <2> QED BY <2>1, <2>3 DEF IInv, SkipBlockedExtent
<1>13. Cells(result)' \subseteq Allocated'  BY <1>1 DEF SkipBlockedExtent, IInv, Cells
<1>14. ASSUME pc' # "exited"
       PROVE  /\ cur' <= n' + 1
              /\ \A k \in 1 .. cur' - 1 : PhysicalEnd(blocked_extents'[k]) <= index_in_fat'
              /\ cur' <= n' => index_in_fat' <= blocked_extents'[cur'].physical_start
  <2>1. cur \in 1..n /\ n' = n  BY <1>1, <1>8, <1>14
  <2>2. ASSUME NEW k \in 1 .. cur
        PROVE  PhysicalEnd(blocked_extents[k]) <= PhysicalEnd(blocked)
    <3>1. CASE k = cur  BY <1>4, <1>6, <3>1
    <3>2. CASE k < cur
      <4>1. k \in 1..n /\ PhysicalEnd(blocked_extents[k]) <= blocked.physical_start
        BY <1>2, <1>5, <2>1, <3>2
      <4> QED BY <1>2, <1>4, <1>6, <2>1, <4>1
    <3> QED BY <1>4, <3>1, <3>2
  <2>3. ASSUME cur + 1 <= n
        PROVE  PhysicalEnd(blocked) <= blocked_extents[cur + 1].physical_start
    <3>1. cur + 1 \in 1..n /\ cur < cur + 1  BY <1>2, <2>1, <2>3
    <3> QED BY <1>5, <2>1, <3>1
  <2> QED BY <1>2, <1>4, <1>7, <2>1, <2>2, <2>3
<1>15. max_length' \in Sizes  BY <1>3 DEF SkipBlockedExtent, IInv
<1>16. pc' = "find" => result' = NoExtent'
  BY <1>8 DEF SkipBlockedExtent, IInv, NoExtent
<1> QED
  BY <1>1, <1>8, <1>9, <1>11, <1>12, <1>13, <1>14, <1>15, <1>16 DEF IInv

-----------------------------------------------------------------------------
LEMMA NextInv == IInv /\ [Next]_vars => IInv'
<1> SUFFICES ASSUME IInv, [Next]_vars PROVE IInv'  OBVIOUS
<1>1. ASSUME NEW m \in Sizes, allocate_extent(m) PROVE IInv'
  BY <1>1, AllocateInv
<1>2. CASE StartExtent \/ GrowExtent  BY <1>2, TakeInv
<1>3. CASE PassUsedCluster  BY <1>3, PassInv
<1>4. CASE SkipBlockedExtent  BY <1>4, SkipInv
<1>5. CASE Exited \/ UNCHANGED vars
  <2>1. UNCHANGED vars  BY <1>5 DEF Exited
  <2> QED
    BY <2>1 DEF vars, allocVars, IInv, TypeOK, WellFormed, InitialBitmap, Allocated, Cells,
       UsableClusters, blocked_extent_count, NoExtent, Candidate
<1> QED BY <1>1, <1>2, <1>3, <1>4, <1>5 DEF Next, Work

\* The inductive invariant holds in every reachable state.
THEOREM Invariance == Spec => []IInv
<1>1. Init => IInv  BY InitInv
<1>2. IInv /\ [Next]_vars => IInv'  BY NextInv
<1> QED BY <1>1, <1>2, PTL DEF Spec

\* Every variable of the allocator keeps its type.
THEOREM TypeCorrect == Spec => []TypeOK
<1>1. IInv => TypeOK  BY DEF IInv
<1> QED BY <1>1, Invariance, PTL

-----------------------------------------------------------------------------
LEMMA AllocatedSafeLemma == IInv => AllocatedIsSafe
<1> SUFFICES ASSUME IInv, NEW c \in Allocated
             PROVE  /\ c \in DataClusters(sb)
                    /\ ~ IsMetadataBlock(sb, fat_cl_to_e4blk(sb, c))
  BY DEF AllocatedIsSafe
<1>1. c \in UsableClusters /\ c \in DataClusters(sb)  BY DEF IInv, UsableClusters
<1>2. ASSUME IsMetadataBlock(sb, fat_cl_to_e4blk(sb, c)) PROVE FALSE
  <2>1. PICK k \in 1 .. blocked_extent_count :
          blocked_extents[k].physical_start <= c /\ c < PhysicalEnd(blocked_extents[k])
    BY <1>1, <1>2 DEF IInv, WellFormed, blocked_extent_count
  <2>2. blocked_extent_count \in Nat  BY LayoutFacts DEF IInv, TypeOK
  <2>3. PhysicalEnd(blocked_extents[k]) \in Nat
    BY <2>2 DEF IInv, TypeOK, PhysicalEnd
  <2>4. c \in Int  BY <1>1 DEF DataClusters
  <2>5. c <= PhysicalEnd(blocked_extents[k])  BY <2>1, <2>3, <2>4
  <2> QED BY <1>1, <2>1, <2>5 DEF UsableClusters
<1> QED BY <1>1, <1>2

\* Whatever the layout, no cluster of the ext4 metadata, and none outside the
\* data area, is ever allocated.
THEOREM AllocationSafe == Spec => []AllocatedIsSafe
BY AllocatedSafeLemma, Invariance, PTL

LEMMA OneGroupLemma == IInv => ResultInOneGroup
<1> SUFFICES ASSUME IInv, NEW c \in Cells(result), NEW d \in Cells(result)
             PROVE  GroupOfCluster(sb, c) = GroupOfCluster(sb, d)
  BY DEF ResultInOneGroup
<1>1. UsableLayout(sb)  BY LayoutFacts DEF IInv, TypeOK
<1>2. /\ \A x \in Cells(result) :
           x \in DataClusters(sb) /\ ~ IsMetadataBlock(sb, fat_cl_to_e4blk(sb, x))
  BY AllocatedSafeLemma DEF IInv, AllocatedIsSafe
<1>3. \A a, b \in Cells(result) : \A x \in DataClusters(sb) :
        a < x /\ x <= b => x \in Cells(result)
  BY DEF Cells, DataClusters, IInv, TypeOK, PhysicalEnd
<1>4. ASSUME NEW a \in Cells(result), NEW b \in Cells(result), a < b
      PROVE  GroupOfCluster(sb, a) = GroupOfCluster(sb, b)
  <2>1. SUFFICES ASSUME GroupOfCluster(sb, a) # GroupOfCluster(sb, b) PROVE FALSE
    OBVIOUS
  <2>2. PICK x \in DataClusters(sb) :
          a < x /\ x <= b /\ IsMetadataBlock(sb, fat_cl_to_e4blk(sb, x))
    BY <1>1, <1>2, <2>1, <1>4, GroupBoundary
  <2> QED BY <1>2, <1>3, <2>2
<1>5. c \in Int /\ d \in Int  BY DEF Cells
<1> QED BY <1>4, <1>5

\* Whatever the layout, an extent lies in one block group.
THEOREM OneGroup == Spec => []ResultInOneGroup
BY OneGroupLemma, Invariance, PTL

-----------------------------------------------------------------------------
(***************************************************************************)
(* The allocator implements FirstFit.                                      *)
(***************************************************************************)

\* What a step of the allocator does not change of the abstract state.
LEMMA AvailFrame ==
  ASSUME UNCHANGED <<sb, fat, blocked_extents>>
  PROVE  UsableClusters' = UsableClusters
BY DEF UsableClusters, blocked_extent_count

\* Nothing usable is left below the candidate, except an extent in progress.
LEMMA AvailFacts ==
  ASSUME IInv, Looping
  PROVE  /\ Avail = (UsableClusters \ allocation_bitmap) \cup Cells(result)
         /\ Avail \subseteq Nat
         /\ \A c \in UsableClusters \ allocation_bitmap : c >= Candidate
         /\ pc = "find" => Cells(result) = {}
         /\ pc = "extend" => Cells(result) = result.physical_start .. index_in_fat
<1>1. index_in_fat \in Nat /\ Candidate = index_in_fat + 1
      /\ result \in [physical_start : Nat, length : Nat]
  BY DEF IInv, TypeOK, Candidate
<1>2. UsableClusters \subseteq Nat
  <2>1. data_cluster_count(sb) \in Nat  BY LayoutFacts DEF IInv, TypeOK
  <2> QED BY <2>1 DEF UsableClusters, DataClusters, FAT_START_INDEX
<1>3. Avail = (UsableClusters \ allocation_bitmap) \cup Cells(result)
  BY DEF Avail, InProgress, Looping
<1>4. Cells(result) \subseteq Nat  BY <1>1 DEF Cells, PhysicalEnd
<1>5. \A c \in UsableClusters \ allocation_bitmap : c >= Candidate
  <2>1. \A c \in UsableClusters : c <= index_in_fat => c \in allocation_bitmap
    BY DEF IInv
  <2> SUFFICES ASSUME NEW c \in UsableClusters \ allocation_bitmap
               PROVE  c >= Candidate
    OBVIOUS
  <2>2. c \in Nat /\ ~ (c <= index_in_fat)  BY <1>2, <2>1
  <2> QED BY <1>1, <2>2
<1>6. pc = "find" => Cells(result) = {}
  BY DEF IInv, Cells, NoExtent, PhysicalEnd
<1>7. pc = "extend" => Cells(result) = result.physical_start .. index_in_fat
  BY <1>1 DEF IInv, Cells
<1> QED BY <1>2, <1>3, <1>4, <1>5, <1>6, <1>7

LEMMA RequestRefines ==
  ASSUME IInv, NEW m \in Sizes, allocate_extent(m)
  PROVE  FF!Request(m)
<1>1. UsableClusters' = UsableClusters  BY AvailFrame DEF allocate_extent
<1>2. Cells(result') = {}  BY DEF allocate_extent, NoExtent, Cells, PhysicalEnd
<1>3. Avail' = Avail  BY <1>1, <1>2 DEF Avail, InProgress, allocate_extent
<1>4. Granted' = {} /\ Phase = "idle" /\ Phase' = "busy"
  BY DEF Granted, Phase, Looping, allocate_extent
<1> QED BY <1>3, <1>4 DEF FF!Request, allocate_extent

\* A call that returns [lo, hi] grants the first run.
LEMMA ReturnRefines ==
  ASSUME IInv, Looping, pc' = "idle",
         UNCHANGED <<sb, blocked_extents, max_length>>,
         NEW lo \in Avail, NEW hi \in Avail,
         Cells(result') = lo..hi, lo..hi \subseteq Avail,
         UsableClusters' \ allocation_bitmap' = (UsableClusters \ allocation_bitmap) \ (lo..hi),
         Cells(result) \subseteq lo..hi,
         \A c \in Avail : lo <= c,
         hi - lo + 1 <= max_length,
         hi - lo + 1 = max_length \/ hi + 1 \notin Avail
  PROVE  FF!Grant
<1>1. Avail = (UsableClusters \ allocation_bitmap) \cup Cells(result)  BY AvailFacts
<1>2. Avail' = UsableClusters' \ allocation_bitmap'  BY DEF Avail, InProgress
<1>3. Avail' = Avail \ (lo..hi)  BY <1>1, <1>2
<1>4. Granted' = lo..hi /\ Phase = "busy" /\ Phase' = "idle"
  BY DEF Granted, Phase, Looping
<1>5. FF!IsFirstRun(lo, hi, Avail, max_length)  BY DEF FF!IsFirstRun
<1> QED BY <1>3, <1>4, <1>5 DEF FF!Grant

\* Taking a cluster is invisible while the call goes on; when it completes the
\* request the run is granted.
LEMMA TakeRefines ==
  ASSUME IInv, StartExtent \/ GrowExtent
  PROVE  FF!Grant \/ UNCHANGED FF!ffVars
<1>1. Looping /\ BeforeBlocked /\ is_free(Candidate)
  BY DEF StartExtent, GrowExtent, Looping
<1>2. Candidate \in UsableClusters /\ Candidate \notin allocation_bitmap
  BY <1>1, CandidateUsable DEF is_free
<1>3. /\ index_in_fat \in Nat /\ Candidate = index_in_fat + 1
      /\ result \in [physical_start : Nat, length : Nat]
      /\ max_length \in Nat \ {0}
  BY <1>1, SizesAssumption DEF IInv, TypeOK, Candidate, Looping
<1>4. /\ UNCHANGED <<sb, fat, blocked_extents, blocked_extent_current, max_length>>
      /\ allocation_bitmap' = allocation_bitmap \cup {Candidate}
      /\ pc' = PcAfterTaking(result'.length)
  BY DEF StartExtent, GrowExtent, Take
<1>5. UsableClusters' = UsableClusters  BY <1>4 DEF UsableClusters, blocked_extent_count
<1>6. /\ Avail = (UsableClusters \ allocation_bitmap) \cup Cells(result)
      /\ Avail \subseteq Nat
      /\ \A c \in UsableClusters \ allocation_bitmap : c >= Candidate
  BY <1>1, AvailFacts
<1>7. PICK lo \in Nat :
        /\ Cells(result') = lo..Candidate
        /\ Cells(result) = lo .. index_in_fat
        /\ lo <= Candidate
        /\ result'.length = Candidate - lo + 1
        /\ result'.length <= max_length
  <2>1. CASE StartExtent
    <3>1. result' = [physical_start |-> Candidate, length |-> 1]
      BY <2>1 DEF StartExtent, Take
    <3>2. Cells(result) = {}  BY <1>1, <2>1, AvailFacts DEF StartExtent
    <3>3. Candidate .. index_in_fat = {}  BY <1>3
    <3>4. Cells(result') = Candidate..Candidate  BY <1>3, <3>1 DEF Cells, PhysicalEnd
    <3>5. Candidate \in Nat /\ result'.length = 1  BY <1>3, <3>1
    <3> QED BY <1>3, <3>2, <3>3, <3>4, <3>5
  <2>2. CASE GrowExtent
    <3>1. result' = [result EXCEPT !.length = Candidate - result.physical_start + 1]
      BY <2>2 DEF GrowExtent, Take
    <3>2. pc = "extend"  BY <2>2 DEF GrowExtent
    <3>3. Cells(result) = result.physical_start .. index_in_fat
      BY <1>1, <3>2, AvailFacts
    <3>4. result.length \in 1 .. max_length - 1 /\ Candidate = result.physical_start + result.length
      BY <3>2 DEF IInv, PhysicalEnd
    <3>5. result'.physical_start = result.physical_start
          /\ result'.length = Candidate - result.physical_start + 1
      BY <1>3, <3>1
    <3>6. Cells(result') = result.physical_start .. Candidate
      BY <1>3, <3>5 DEF Cells, PhysicalEnd
    <3>7. result.physical_start \in Nat  BY <1>3
    <3> QED BY <1>3, <3>3, <3>4, <3>5, <3>6, <3>7
  <2> QED BY <2>1, <2>2
<1>8. lo .. Candidate = Cells(result) \cup {Candidate}  BY <1>3, <1>7
<1>9. UsableClusters' \ allocation_bitmap' = (UsableClusters \ allocation_bitmap) \ (lo..Candidate)
  <2>1. Cells(result) \subseteq allocation_bitmap  BY DEF IInv, Allocated
  <2> QED BY <1>4, <1>5, <1>8, <2>1
<1>10. lo .. Candidate \subseteq Avail  BY <1>2, <1>6, <1>8
<1>11. lo \in Avail /\ Candidate \in Avail  BY <1>3, <1>7, <1>10
<1>12. \A c \in Avail : lo <= c
  <2>1. TAKE c \in Avail
  <2>2. CASE c \in UsableClusters \ allocation_bitmap
    BY <1>3, <1>6, <1>7, <2>2
  <2>3. CASE c \in Cells(result)  BY <1>3, <1>7, <2>3
  <2> QED BY <1>6, <2>2, <2>3
<1>13. CASE pc' = "extend"
  <2>1. Avail' = (UsableClusters' \ allocation_bitmap') \cup Cells(result')
    BY <1>13 DEF Avail, InProgress
  <2>2. Avail' = Avail
    BY <1>2, <1>6, <1>7, <1>8, <1>9, <2>1
  <2>3. Phase' = Phase /\ Granted' = Granted
    BY <1>1, <1>13 DEF Phase, Granted, Looping
  <2> QED BY <1>4, <2>2, <2>3 DEF FF!ffVars
<1>14. CASE pc' # "extend"
  <2>1. pc' = "idle" /\ ~ (result'.length < max_length)
    BY <1>4, <1>14 DEF PcAfterTaking
  <2>2. Candidate - lo + 1 = max_length  BY <1>3, <1>7, <2>1
  <2>3. FF!Grant
    BY <1>1, <1>3, <1>4, <1>7, <1>8, <1>9, <1>10, <1>11, <1>12, <2>1, <2>2, ReturnRefines
  <2> QED BY <2>3
<1> QED BY <1>13, <1>14

\* A refusal is invisible in the first loop; in the second it ends the call,
\* and the run cannot be longer because the candidate is not available.
LEMMA RefusalRefines ==
  ASSUME IInv, Looping,
         pc = "extend" => Candidate \notin UsableClusters \ allocation_bitmap,
         UNCHANGED <<sb, fat, blocked_extents, allocation_bitmap, max_length, result>>,
         pc' = PcAfterRefusal
  PROVE  FF!Grant \/ UNCHANGED FF!ffVars
<1>1. UsableClusters' = UsableClusters  BY AvailFrame
<1>2. /\ index_in_fat \in Nat /\ Candidate = index_in_fat + 1
      /\ result \in [physical_start : Nat, length : Nat]
      /\ max_length \in Nat \ {0}
  BY SizesAssumption DEF IInv, TypeOK, Candidate, Looping
<1>3. /\ Avail = (UsableClusters \ allocation_bitmap) \cup Cells(result)
      /\ Avail \subseteq Nat
      /\ \A c \in UsableClusters \ allocation_bitmap : c >= Candidate
  BY AvailFacts
<1>4. Cells(result') = Cells(result)  BY DEF Cells
<1>5. CASE pc = "find"
  <2>1. pc' = "find"  BY <1>5 DEF PcAfterRefusal
  <2>2. Avail' = Avail  BY <1>1, <1>4, <1>5, <2>1 DEF Avail, InProgress
  <2>3. Phase' = Phase /\ Granted' = Granted
    BY <1>5, <2>1 DEF Phase, Granted, Looping
  <2> QED BY <2>2, <2>3 DEF FF!ffVars
<1>6. CASE pc = "extend"
  <2>1. pc' = "idle"  BY <1>6 DEF PcAfterRefusal
  <2> DEFINE lo == result.physical_start
  <2>2. Cells(result) = lo .. index_in_fat  BY <1>6, AvailFacts
  <2>3. result.length \in 1 .. max_length - 1 /\ Candidate = lo + result.length
    BY <1>6 DEF IInv, PhysicalEnd
  <2>4. lo \in Nat /\ lo <= index_in_fat /\ index_in_fat - lo + 1 <= max_length
    BY <1>2, <2>3
  <2>5. lo \in Avail /\ index_in_fat \in Avail /\ lo .. index_in_fat \subseteq Avail
    BY <1>2, <1>3, <2>2, <2>4
  <2>6. \A c \in Avail : lo <= c
    <3>1. TAKE c \in Avail
    <3>2. CASE c \in UsableClusters \ allocation_bitmap  BY <1>2, <1>3, <2>4, <3>2
    <3>3. CASE c \in Cells(result)  BY <1>2, <2>2, <3>3
    <3> QED BY <1>3, <3>2, <3>3
  <2>7. UsableClusters' \ allocation_bitmap' =
          (UsableClusters \ allocation_bitmap) \ (lo .. index_in_fat)
    <3>1. Cells(result) \subseteq allocation_bitmap  BY DEF IInv, Allocated
    <3> QED BY <1>1, <2>2, <3>1
  <2>8. index_in_fat + 1 \notin Avail
    BY <1>2, <1>3, <1>6, <2>2
  <2>9. FF!Grant
    BY <1>4, <2>1, <2>2, <2>4, <2>5, <2>6, <2>7, <2>8, ReturnRefines
  <2> QED BY <2>9
<1> QED BY <1>5, <1>6 DEF Looping

LEMMA PassRefines ==
  ASSUME IInv, PassUsedCluster
  PROVE  FF!Grant \/ UNCHANGED FF!ffVars
BY RefusalRefines DEF PassUsedCluster, is_free

\* Jumping over a blocked extent is a refusal; jumping over the sentinel fails
\* the request, with too little left to serve it.
LEMMA SkipRefines ==
  ASSUME IInv, SkipBlockedExtent
  PROVE  FF!Grant \/ FF!Fail \/ UNCHANGED FF!ffVars
<1> DEFINE n == blocked_extent_count
           cur == blocked_extent_current
           blocked == blocked_extents[cur]
<1>1. Looping /\ UNCHANGED <<sb, fat, blocked_extents, allocation_bitmap, max_length, result>>
      /\ ~ (Candidate < blocked.physical_start)
  BY DEF SkipBlockedExtent, BeforeBlocked
<1>2. n \in Nat /\ data_cluster_count(sb) \in Nat /\ n' = n
  BY <1>1, LayoutFacts DEF IInv, TypeOK, blocked_extent_count
<1>3. /\ cur \in 1 .. n + 1
      /\ index_in_fat \in Nat /\ Candidate = index_in_fat + 1
      /\ max_length \in Nat \ {0}
      /\ result \in [physical_start : Nat, length : Nat]
  BY <1>1, <1>2, SizesAssumption DEF IInv, TypeOK, Looping, Candidate
<1>4. /\ blocked \in [physical_start : Nat, length : Nat]
      /\ blocked_extents[n + 1].physical_start = data_cluster_count(sb)
  BY <1>2, <1>3 DEF IInv, WellFormed, blocked_extent_count
<1>7. pc' = IF cur > n THEN "exited" ELSE PcAfterRefusal
  <2>1. cur' = cur + 1 /\ pc' = IF cur' - 1 > n THEN "exited" ELSE PcAfterRefusal
    BY DEF SkipBlockedExtent, fs_is_full
  <2>2. cur' - 1 = cur  BY <1>3, <2>1
  <2> QED BY <2>1, <2>2
<1>5. CASE cur \in 1..n
  <2>1. pc' = PcAfterRefusal
    <3>1. ~ (cur > n)  BY <1>2, <1>5
    <3> QED BY <1>7, <3>1
  <2>2. ASSUME pc = "extend" PROVE Candidate \notin UsableClusters
    <3> DEFINE s == blocked.physical_start
               l == blocked.length
    <3>1. index_in_fat < s  BY <2>2 DEF IInv
    <3>2. s <= Candidate /\ Candidate <= s + l
      <4>1. s \in Nat /\ l \in Nat /\ ~ (Candidate < s)  BY <1>1, <1>4
      <4> HIDE DEF s, l
      <4> QED BY <1>3, <3>1, <4>1
    <3> QED BY <1>5, <3>2 DEF UsableClusters, PhysicalEnd
  <2>3. FF!Grant \/ UNCHANGED FF!ffVars
    BY <1>1, <2>1, <2>2, RefusalRefines
  <2> QED BY <2>3
<1>6. CASE cur = n + 1
  <2>1. pc' = "exited"
    <3>1. cur > n  BY <1>2, <1>6
    <3> QED BY <1>7, <3>1
  <2>2. UsableClusters \ allocation_bitmap = {}
    <3>1. Candidate >= data_cluster_count(sb)
      <4>1. blocked.physical_start = data_cluster_count(sb)  BY <1>4, <1>6
      <4> QED BY <1>1, <1>2, <1>3, <4>1
    <3>2. \A c \in UsableClusters : c \in Int /\ c < data_cluster_count(sb)
      BY <1>2 DEF UsableClusters, DataClusters
    <3>3. \A c \in UsableClusters : c <= index_in_fat  BY <1>2, <1>3, <3>1, <3>2
    <3> QED BY <3>3 DEF IInv
  <2>3. Avail = Cells(result)  BY <1>1, <2>2, AvailFacts
  <2>4. Avail' = Avail
    <3>1. UsableClusters' = UsableClusters  BY <1>1, AvailFrame
    <3>2. Cells(result') = Cells(result)  BY <1>1 DEF Cells
    <3> QED BY <1>1, <2>1, <2>2, <2>3, <3>1, <3>2 DEF Avail, InProgress
  <2>5. Cardinality(Avail) < max_length
    <3>1. CASE pc = "find"
      <4>1. Avail = {}  BY <1>1, <2>3, <3>1, AvailFacts
      <4>2. Cardinality(Avail) = 0  BY <4>1, FS_EmptySet
      <4> QED BY <1>3, <4>2
    <3>2. CASE pc = "extend"
      <4>1. result.length \in 1 .. max_length - 1
            /\ Candidate = result.physical_start + result.length
        BY <3>2 DEF IInv, PhysicalEnd
      <4>2. Avail = result.physical_start .. index_in_fat
        BY <1>1, <2>3, <3>2, AvailFacts
      <4>3. result.physical_start \in Int /\ result.physical_start <= index_in_fat
        BY <1>3, <4>1
      <4>4. Cardinality(result.physical_start .. index_in_fat)
              = index_in_fat - result.physical_start + 1
        <5> DEFINE a == result.physical_start
        <5> HIDE DEF a
        <5>1. a \in Int /\ a <= index_in_fat  BY <4>3 DEF a
        <5>2. Cardinality(a .. index_in_fat) = index_in_fat - a + 1
          BY <1>3, <5>1, FS_Interval
        <5> QED BY <5>2 DEF a
      <4> QED BY <1>3, <4>1, <4>2, <4>4
    <3> QED BY <1>1, <3>1, <3>2 DEF Looping
  <2>6. Granted' = Granted /\ Phase = "busy" /\ Phase' = "full"
    BY <1>1, <2>1 DEF Granted, Phase, Looping
  <2>7. FF!Cardinality(Avail) = Cardinality(Avail)
    BY DEF FF!Cardinality, Cardinality, FF!IsFiniteSet, IsFiniteSet
  <2>8. FF!Fail  BY <1>1, <2>4, <2>5, <2>6, <2>7 DEF FF!Fail
  <2> QED BY <2>8
<1> QED BY <1>2, <1>3, <1>5, <1>6

LEMMA InitRefines == Init => FF!FFInit
<1> SUFFICES ASSUME Init PROVE FF!FFInit  OBVIOUS
<1>1. IInv  BY InitInv
<1>2. Cells(result) = {}  BY DEF Init, NoExtent, Cells, PhysicalEnd
<1>3. UsableClusters \subseteq Nat
  <2>1. data_cluster_count(sb) \in Nat  BY <1>1, LayoutFacts DEF IInv, TypeOK
  <2> QED BY <2>1 DEF UsableClusters, DataClusters, FAT_START_INDEX
<1>4. Avail \in SUBSET Nat  BY <1>3 DEF Init, Avail, InProgress
<1>5. Phase = "idle" /\ Granted = {}  BY <1>2 DEF Init, Phase, Granted
<1> QED BY <1>4, <1>5 DEF FF!FFInit, Init

LEMMA NextRefines == IInv /\ [Next]_vars => [FF!FFNext]_FF!ffVars
<1> SUFFICES ASSUME IInv, [Next]_vars PROVE [FF!FFNext]_FF!ffVars  OBVIOUS
<1>1. ASSUME NEW m \in Sizes, allocate_extent(m) PROVE FF!FFNext
  BY <1>1, RequestRefines DEF FF!FFNext
<1>2. CASE StartExtent \/ GrowExtent  BY <1>2, TakeRefines DEF FF!FFNext
<1>3. CASE PassUsedCluster  BY <1>3, PassRefines DEF FF!FFNext
<1>4. CASE SkipBlockedExtent  BY <1>4, SkipRefines DEF FF!FFNext
<1>5. CASE Exited \/ UNCHANGED vars
  <2>1. UNCHANGED vars  BY <1>5 DEF Exited
  <2> QED BY <2>1 DEF vars, allocVars, FF!ffVars, Avail, Phase, Granted, InProgress, Cells,
             Looping, UsableClusters, blocked_extent_count
<1> QED BY <1>1, <1>2, <1>3, <1>4, <1>5 DEF Next, Work

\* For every layout, FAT and sequence of requests the allocator is first fit:
\* no cluster is granted twice, none is passed over, and the program gives up
\* only when too few are left.
THEOREM Implementation == Spec => ImplementsFirstFit
<1>1. Init => FF!FFInit  BY InitRefines
<1>2. IInv /\ [Next]_vars => [FF!FFNext]_FF!ffVars  BY NextRefines
<1> QED BY <1>1, <1>2, Invariance, PTL DEF Spec, ImplementsFirstFit, FF!FFSpec
=============================================================================
