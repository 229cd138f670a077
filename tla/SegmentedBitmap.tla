--------------------------- MODULE SegmentedBitmap ---------------------------
(***************************************************************************)
(* The block bitmap and the free count of one group at the level of bits   *)
(* and halves (util.cpp), under the calls init_ext4_group_descs and        *)
(* register_extent make.  bitmap_set_bits works on whole segments of the   *)
(* bitmap, the counts are kept in two halves: BlockGroups has a set for    *)
(* the one and a number for the other.                                     *)
(***************************************************************************)
EXTENDS Integers, FiniteSets

CONSTANTS SegmentBits,      \* 32: bits of the segments bitmap_set_bits works on
          SegmentCount,     \* Segments of a bitmap, which fills a block
          HalfRange,        \* 2^16: range of half a count
          Ratio,            \* block_size() / 512
          BitmapGroups,     \* Records [overhead, block_count] of a block group
          NextWords         \* What may follow the bitmap in memory

ASSUME SegmentAssumption ==
  /\ SegmentBits \in Nat \ {0}
  /\ SegmentCount \in Nat \ {0}
  /\ NextWords \subseteq SUBSET (0 .. SegmentBits - 1)
  /\ \A g \in BitmapGroups : /\ g.overhead \in Nat
                       /\ g.block_count \in g.overhead .. SegmentBits * SegmentCount

\* The counts of one group fit into their halves: a group has at most 65528
\* blocks, and Ratio is at most 1024.
ASSUME HalvesAssumption ==
  /\ HalfRange \in Nat \ {0}
  /\ Ratio \in Nat \ {0}
  /\ \A g \in BitmapGroups : Ratio * (g.block_count - g.overhead) < HalfRange * HalfRange

VARIABLES group,
          memory,           \* The segments of the bitmap and the one after it
          begin, end,       \* bitmap_set_bits: the range to set,
          beginPtr,         \*   and the segment it is at
          free_blocks,      \* bg_free_blocks_count, in two halves
          i_blocks,         \* i_blocks of the inode, in two halves
          pending,          \* init_ext4_group_descs: the calls left
          counted,          \* Whether the call is add_extent_to_block_bitmap's
          marked,           \* History: the bits of all calls that returned
          bitmap_pc

callVars == <<begin, end, beginPtr, counted>>
bitmapVars == <<group, memory, callVars, free_blocks, i_blocks, pending, marked, bitmap_pc>>

Bits == 0 .. SegmentBits - 1
BitmapBits == SegmentBits * SegmentCount
Positions == 0 .. BitmapBits + SegmentBits - 1

-----------------------------------------------------------------------------
\* Mutated: the half above does not take the carry or the borrow.
SetLoHiWithoutCarry(value) == [lo |-> value % HalfRange, hi |-> 0]

set_lo_hi(value) == [lo |-> value % HalfRange, hi |-> (value \div HalfRange) % HalfRange]

from_lo_hi(count) == count.hi * HalfRange + count.lo

incr_lo_hi(count, diff) == set_lo_hi(from_lo_hi(count) + diff)

decr_lo_hi(count, diff) == set_lo_hi(from_lo_hi(count) - diff)

\* Mutated: one bit too many.
OneMoreLSB(len) == { bit \in Bits : bit <= len }

fillLSBs(len) == { bit \in Bits : bit < len }

-----------------------------------------------------------------------------
\* The group after the memset of its bitmap.
BitmapInit ==
  /\ group \in BitmapGroups
  /\ \E w \in NextWords :
       /\ memory = [k \in 0 .. SegmentCount |-> IF k = SegmentCount THEN w ELSE {}]
       /\ marked = { p \in Positions : p >= BitmapBits /\ p - BitmapBits \in w }
  /\ free_blocks = set_lo_hi(group.block_count - group.overhead)
  /\ i_blocks = set_lo_hi(0)
  /\ begin = 0 /\ end = 0 /\ beginPtr = 0 /\ counted = FALSE
  /\ pending = 2
  /\ bitmap_pc = "idle"

Call(b, e) ==
  /\ begin' = b /\ end' = e
  /\ beginPtr' = b \div SegmentBits
  /\ bitmap_pc' = "set_bits"

\* The two calls for a new block bitmap.
InitBlockBitmap ==
  /\ bitmap_pc = "idle"
  /\ pending > 0
  /\ IF pending = 2 THEN Call(0, group.overhead) ELSE Call(group.block_count, BitmapBits)
  /\ pending' = pending - 1
  /\ counted' = FALSE
  /\ UNCHANGED <<group, memory, free_blocks, i_blocks, marked>>

\* register_extent up to bitmap_set_bits, for an extent of free blocks.
RegisterExtent ==
  /\ bitmap_pc = "idle"
  /\ pending = 0
  /\ \E b \in 0 .. group.block_count - 1 : \E e \in b + 1 .. group.block_count :
       /\ b .. e - 1 \cap marked = {}
       /\ i_blocks' = incr_lo_hi(i_blocks, (e - b) * Ratio)
       /\ Call(b, e)
  /\ counted' = TRUE
  /\ UNCHANGED <<group, memory, free_blocks, pending, marked>>

-----------------------------------------------------------------------------
(***************************************************************************)
(* bitmap_set_bits, one action per access to memory.  end may be the first *)
(* bit after the bitmap; then the segment after it is written as well.     *)
(***************************************************************************)
endPtr == end \div SegmentBits

OrInto(mask) == memory' = [memory EXCEPT ![beginPtr] = @ \cup mask]

FirstSegment ==
  /\ bitmap_pc = "set_bits"
  /\ beginPtr < endPtr
  /\ OrInto(Bits \ fillLSBs(begin % SegmentBits))
  /\ beginPtr' = beginPtr + 1
  /\ bitmap_pc' = "rest"
  /\ UNCHANGED <<group, begin, end, counted, free_blocks, i_blocks, pending, marked>>

MiddleSegment ==
  /\ bitmap_pc = "rest"
  /\ beginPtr < endPtr
  /\ memory' = [memory EXCEPT ![beginPtr] = Bits]
  /\ beginPtr' = beginPtr + 1
  /\ UNCHANGED <<group, begin, end, counted, free_blocks, i_blocks, pending, marked, bitmap_pc>>

LastSegment ==
  /\ bitmap_pc = "rest"
  /\ ~ (beginPtr < endPtr)
  /\ OrInto(fillLSBs(end % SegmentBits))
  /\ bitmap_pc' = "return"
  /\ UNCHANGED <<group, callVars, free_blocks, i_blocks, pending, marked>>

OnlySegment ==
  /\ bitmap_pc = "set_bits"
  /\ beginPtr = endPtr
  /\ OrInto((Bits \ fillLSBs(begin % SegmentBits)) \cap fillLSBs(end % SegmentBits))
  /\ bitmap_pc' = "return"
  /\ UNCHANGED <<group, callVars, free_blocks, i_blocks, pending, marked>>

\* Back in the caller; add_extent_to_block_bitmap adjusts the count.
Return ==
  /\ bitmap_pc = "return"
  /\ free_blocks' = IF counted THEN decr_lo_hi(free_blocks, end - begin) ELSE free_blocks
  /\ marked' = marked \cup (begin .. end - 1)
  /\ bitmap_pc' = "idle"
  /\ UNCHANGED <<group, memory, callVars, i_blocks, pending>>

BitmapNext ==
  \/ InitBlockBitmap \/ RegisterExtent
  \/ FirstSegment \/ MiddleSegment \/ LastSegment \/ OnlySegment \/ Return

BitmapSpec == BitmapInit /\ [][BitmapNext]_bitmapVars

-----------------------------------------------------------------------------
IsSet(p) == p % SegmentBits \in memory[p \div SegmentBits]

\* The part of the call's range that is set by now.
SetSoFar ==
  CASE bitmap_pc = "rest"   -> { p \in Positions : begin <= p /\ p < SegmentBits * beginPtr }
    [] bitmap_pc = "return" -> begin .. end - 1
    [] OTHER         -> {}

\* bitmap_set_bits sets the bits from begin up to end and no other: at every
\* step the bits set are those of earlier calls and of the segments this call
\* has passed, whether the range lies in one segment, starts or ends at the
\* edge of one, or ends with the bitmap, where the word after it is or-ed too.
SegmentsMarkTheRange == \A p \in Positions : IsSet(p) <=> p \in marked \cup SetSoFar

\* Between calls the halves of the free count, borrows included, are the number
\* of the clear bits of the bitmap, and what the group has given away is what
\* the inodes account for.
HalvesCountTheBits ==
  bitmap_pc = "idle" /\ pending = 0 =>
    /\ from_lo_hi(free_blocks) = Cardinality({ p \in 0 .. BitmapBits - 1 : ~ IsSet(p) })
    /\ from_lo_hi(i_blocks) + Ratio * from_lo_hi(free_blocks)
         = Ratio * (group.block_count - group.overhead)
=============================================================================
