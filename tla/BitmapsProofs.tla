---------------------------- MODULE BitmapsProofs ----------------------------
(***************************************************************************)
(* The descriptors and bitmaps of the block groups agree, for every        *)
(* layout whose groups hold their metadata; and bitmap_set_bits sets a     *)
(* range of bits and no other, for every width of a segment and every      *)
(* length of the bitmap, and the halves of the counts follow the bits.     *)
(***************************************************************************)
EXTENDS BlockGroups, SegmentedBitmap, GeometryProofs, FiniteSetTheorems, WellFoundedInduction

-----------------------------------------------------------------------------
(* The block groups.                                                       *)

Inputs == sb \in Layouts /\ tree \in Trees

BitRange == 0 .. BitsPerBlock - 1

\* Where main stands, and what there is by then.
Progress ==
  /\ pc \in {"descs", "tree", "exited", "lost+found", "sums", "done"}
  /\ i \in Nat
  /\ pc = "descs" => i <= block_group_count(sb) /\ first_free_inode_no = 12 /\ registered = {}
  /\ first_free_inode_no \in Nat /\ first_free_inode_no >= 12
  /\ first_free_inode_no - 1 <= sb.inodes_per_group * block_group_count(sb)
  /\ pc = "exited" => first_free_inode_no - 1 >= sb.inodes_per_group * block_group_count(sb)

\* The groups whose descriptor is written.
Written == IF pc = "descs" THEN 0 .. i - 1 ELSE Groups

Types ==
  /\ group_descs \in [Written -> [free_blocks : Nat, free_inodes : Nat, used_dirs : Nat]]
  /\ block_bitmap \in [Written -> SUBSET BitRange]
  /\ inode_bitmap \in [Written -> SUBSET BitRange]
  /\ registered \subseteq Extents

\* The inodes before first_free_inode_no have their bit set, and no others do.
InodeBits ==
  \A g \in Written : \A bit \in BitRange :
    bit \in inode_bitmap[g] <=>
      bit >= sb.inodes_per_group \/ sb.inodes_per_group * g + bit + 1 < first_free_inode_no

InodeTable ==
  DOMAIN inode_table =
    12 .. first_free_inode_no - 1
      \cup (IF pc = "descs" THEN {} ELSE IF pc \in {"tree", "exited"} THEN {2} ELSE {2, 11})

Directories ==
  \A g \in Written :
    group_descs[g].used_dirs =
      Cardinality({ n \in DOMAIN inode_table : GroupOfInode(n) = g /\ inode_table[n] = "dir" })

GroupInv ==
  /\ Inputs /\ Progress /\ Types /\ InodeBits /\ InodeTable /\ Directories
  /\ CountsMatchBitmaps /\ BitmapsMarkTheUsed

-----------------------------------------------------------------------------
(* The operators of the model.                                             *)

\* The numbers of a layout.
LEMMA LayoutNumbers ==
  ASSUME sb \in Layouts
  PROVE  /\ UsableLayout(sb)
         /\ sb.blocks_per_group \in Nat \ {0} /\ sb.blocks_per_group <= BitsPerBlock
         /\ sb.inodes_per_group \in Nat /\ sb.inodes_per_group >= 11
         /\ sb.inodes_per_group <= BitsPerBlock
         /\ sb.blocks_count \in Nat /\ sb.blocks_count < CountRange
         /\ sb.first_data_block \in {0, 1} /\ sb.data_start \in Nat \ {0}
         /\ block_group_count(sb) \in Nat \ {0}
         /\ BitsPerBlock \in Nat /\ CountRange \in Nat /\ BitsPerBlock < CountRange
<1>1. UsableLayout(sb)  BY BlockGroupsAssumption
<1>2. /\ sb.blocks_per_group \in Nat \ {0} /\ sb.blocks_count \in Nat
      /\ sb.first_data_block \in {0, 1} /\ sb.data_start \in Nat \ {0}
  BY <1>1 DEF UsableLayout, Superblocks
<1>3. block_group_count(sb) \in Nat \ {0}  BY <1>1, GroupBounds
<1>4. BitsPerBlock \in Nat /\ CountRange \in Nat /\ BitsPerBlock < CountRange
  BY BitsAssumption, CountRangeAssumption
<1>5. /\ sb.blocks_per_group <= BitsPerBlock /\ sb.blocks_count < CountRange
      /\ sb.inodes_per_group \in EXT4_FIRST_NON_RSV_INODE .. BitsPerBlock
  BY BlockGroupsAssumption
<1>6. /\ sb.inodes_per_group \in Nat /\ sb.inodes_per_group >= 11
      /\ sb.inodes_per_group <= BitsPerBlock
  BY <1>4, <1>5 DEF EXT4_FIRST_NON_RSV_INODE
<1> QED BY <1>1, <1>2, <1>3, <1>4, <1>5, <1>6

\* A count that fits is not changed by set_lo_hi.
LEMMA WrapFits ==
  ASSUME NEW n \in Nat, n < CountRange
  PROVE  Wrap(n) = n
<1>1. CountRange \in Nat \ {0}  BY CountRangeAssumption
<1> QED BY <1>1 DEF Wrap

\* The smaller of two numbers.
LEMMA MinOfTwo ==
  ASSUME NEW a \in Nat, NEW b \in Nat
  PROVE  Min({a, b}) = IF a <= b THEN a ELSE b
<1>1. CASE a <= b
  <2>1. a \in {a, b} /\ \A y \in {a, b} : a =< y  BY <1>1
  <2>2. \A x \in {a, b} : (\A y \in {a, b} : x =< y) => x = a  BY <1>1
  <2>3. Min({a, b}) = a  BY <2>1, <2>2, Zenon DEF Min
  <2> QED BY <1>1, <2>3
<1>2. CASE ~ (a <= b)
  <2>1. b \in {a, b} /\ \A y \in {a, b} : b =< y  BY <1>2
  <2>2. \A x \in {a, b} : (\A y \in {a, b} : x =< y) => x = b  BY <1>2
  <2> QED BY <1>2, <2>1, <2>2, Zenon DEF Min
<1> QED BY <1>1, <1>2

\* block_group_block_count: a group ends where the next starts, or with the
\* partition, and holds its metadata.
LEMMA BlockCountFacts ==
  ASSUME sb \in Layouts, NEW g \in Groups
  PROVE  /\ g \in Nat
         /\ block_group_start(sb, g) \in Nat
         /\ block_group_overhead(sb, g) \in Nat
         /\ block_group_block_count(g) \in Nat
         /\ block_group_overhead(sb, g) <= block_group_block_count(g)
         /\ block_group_block_count(g) <= sb.blocks_per_group
         /\ block_group_block_count(g) =
              IF sb.blocks_per_group <= sb.blocks_count - block_group_start(sb, g)
              THEN sb.blocks_per_group ELSE sb.blocks_count - block_group_start(sb, g)
<1>1. /\ UsableLayout(sb) /\ sb.blocks_per_group \in Nat /\ sb.blocks_count \in Nat
      /\ sb.blocks_count < CountRange /\ CountRange \in Nat /\ block_group_count(sb) \in Nat
  BY LayoutNumbers
<1>2. g \in GroupNumbers(sb) /\ g \in Nat  BY <1>1 DEF Groups, GroupNumbers
<1>3. /\ block_group_start(sb, g) \in Nat
      /\ block_group_overhead(sb, g) \in 1 .. sb.blocks_per_group - 1
  BY <1>1, <1>2, GroupBounds
<1>4. block_group_start(sb, g) + block_group_overhead(sb, g) <= sb.blocks_count
  BY BlockGroupsAssumption DEF HoldsMetadata, Groups
<1> DEFINE rest == sb.blocks_count - block_group_start(sb, g)
<1>5. rest \in Nat /\ rest < CountRange /\ block_group_overhead(sb, g) <= rest
  BY <1>1, <1>3, <1>4
<1>6. block_group_block_count(g) = Min({sb.blocks_per_group, rest})
  BY <1>5, WrapFits DEF block_group_block_count
<1>7. block_group_block_count(g) = IF sb.blocks_per_group <= rest THEN sb.blocks_per_group ELSE rest
  BY <1>1, <1>5, <1>6, MinOfTwo
<1> HIDE DEF rest
<1>8. block_group_overhead(sb, g) \in Nat /\ block_group_overhead(sb, g) <= sb.blocks_per_group
  BY <1>1, <1>3
<1>9. /\ block_group_block_count(g) \in Nat
      /\ block_group_overhead(sb, g) <= block_group_block_count(g)
      /\ block_group_block_count(g) <= sb.blocks_per_group
  BY <1>1, <1>5, <1>7, <1>8
<1> QED BY <1>2, <1>3, <1>7, <1>8, <1>9 DEF rest

\* A group's own metadata is all the metadata between its first block and
\* that of the next group.
LEMMA MetadataOfGroup ==
  ASSUME sb \in Layouts, NEW g \in Groups, NEW bit \in 0 .. sb.blocks_per_group - 1
  PROVE  IsMetadataBlock(sb, block_group_start(sb, g) + bit) <=> bit < block_group_overhead(sb, g)
<1>1. /\ UsableLayout(sb) /\ sb.blocks_per_group \in Nat /\ block_group_count(sb) \in Nat
      /\ sb.first_data_block \in {0, 1}
  BY LayoutNumbers
<1>2. g \in GroupNumbers(sb) /\ g \in Nat  BY <1>1 DEF Groups, GroupNumbers
<1>3. /\ block_group_start(sb, g) \in Nat /\ block_group_overhead(sb, g) \in Nat
  BY BlockCountFacts
<1>4. ASSUME bit < block_group_overhead(sb, g)
      PROVE  IsMetadataBlock(sb, block_group_start(sb, g) + bit)
  <2>1. block_group_start(sb, g) + bit \in
          block_group_start(sb, g) .. block_group_start(sb, g) + block_group_overhead(sb, g) - 1
    BY <1>1, <1>3, <1>4
  <2> QED BY <2>1 DEF IsMetadataBlock, Groups
<1>5. ASSUME IsMetadataBlock(sb, block_group_start(sb, g) + bit)
      PROVE  bit < block_group_overhead(sb, g)
  <2>1. PICK h \in Groups :
          block_group_start(sb, g) + bit \in
            block_group_start(sb, h) .. block_group_start(sb, h) + block_group_overhead(sb, h) - 1
    BY <1>5 DEF IsMetadataBlock, Groups
  <2>2. h \in GroupNumbers(sb) /\ h \in Nat  BY <1>1 DEF Groups, GroupNumbers
  <2>3. block_group_start(sb, h) \in Nat /\ block_group_overhead(sb, h) \in Nat
    BY BlockCountFacts
  <2>4. CASE h = g  BY <1>1, <1>3, <2>1, <2>4
  <2>5. CASE h < g
    <3>1. block_group_start(sb, h) + block_group_overhead(sb, h) < block_group_start(sb, g)
      BY <1>1, <1>2, <2>2, <2>5, GroupsApart
    <3> QED BY <1>1, <1>3, <2>1, <2>3, <3>1
  <2>6. CASE g < h
    <3>1. sb.blocks_per_group * g + sb.blocks_per_group <= sb.blocks_per_group * h
      BY <1>1, <1>2, <2>2, <2>6, TimesStep
    <3>2. sb.blocks_per_group * g \in Nat /\ sb.blocks_per_group * h \in Nat
      BY <1>1, <1>2, <2>2
    <3>3. block_group_start(sb, g) + sb.blocks_per_group <= block_group_start(sb, h)
      BY <1>1, <3>1, <3>2 DEF block_group_start
    <3> QED BY <1>1, <1>3, <2>1, <2>3, <3>3
  <2> QED BY <1>2, <2>2, <2>4, <2>5, <2>6
<1> QED BY <1>4, <1>5

\* add_extent_to_block_bitmap finds the group of a block, and its bit.
LEMMA GroupOfBlockFacts ==
  ASSUME sb \in Layouts
  PROVE  /\ \A b \in Nat : b >= sb.first_data_block =>
              /\ GroupOfBlock(sb, b) \in Nat
              /\ b - block_group_start(sb, GroupOfBlock(sb, b)) \in 0 .. sb.blocks_per_group - 1
              /\ b < sb.blocks_count => GroupOfBlock(sb, b) \in Groups
         /\ \A g \in Nat, bit \in 0 .. sb.blocks_per_group - 1 :
              GroupOfBlock(sb, block_group_start(sb, g) + bit) = g
<1> DEFINE m == sb.blocks_per_group
           f == sb.first_data_block
<1>1. /\ m \in Nat \ {0} /\ f \in {0, 1} /\ block_group_count(sb) \in Nat /\ sb.blocks_count \in Nat
  BY LayoutNumbers
<1>2. ASSUME NEW b \in Nat, b >= f
      PROVE  /\ GroupOfBlock(sb, b) \in Nat
             /\ b - block_group_start(sb, GroupOfBlock(sb, b)) \in 0 .. m - 1
             /\ b < sb.blocks_count => GroupOfBlock(sb, b) \in Groups
  <2> DEFINE a == b - f
             q == a \div m
             r == a % m
  <2>1. a \in Nat  BY <1>1, <1>2
  <2>2. q \in Nat /\ r \in 0 .. m - 1 /\ a = m * q + r  BY <1>1, <2>1, DivisionFacts
  <2>3. GroupOfBlock(sb, b) = q  BY DEF GroupOfBlock
  <2>4. block_group_start(sb, q) = m * q + f  BY DEF block_group_start
  <2>5. a = b - f  OBVIOUS
  <2> HIDE DEF a, q, r, m, f
  <2>6. m * q \in Nat  BY <1>1, <2>2
  <2>7. b - (m * q + f) = r  BY <1>1, <2>1, <2>2, <2>5, <2>6
  <2>8. ASSUME b < sb.blocks_count PROVE q < block_group_count(sb)
    <3> DEFINE n == block_group_count(sb)
    <3>1. n \in Nat /\ sb.blocks_count <= m * n
      BY <1>1, CeildivBounds DEF block_group_count, m
    <3> HIDE DEF n
    <3>2. SUFFICES ASSUME n <= q PROVE FALSE  BY <2>2, <3>1 DEF n
    <3>3. m * n <= m * q  BY <1>1, <2>2, <3>1, <3>2, TimesMonotonic
    <3>4. m * n \in Nat  BY <1>1, <3>1
    <3> QED BY <1>1, <2>1, <2>2, <2>5, <2>6, <2>8, <3>1, <3>3, <3>4
  <2>9. b < sb.blocks_count => q \in Groups  BY <1>1, <2>2, <2>8 DEF Groups
  <2> QED BY <2>2, <2>3, <2>4, <2>7, <2>9
<1>3. ASSUME NEW g \in Nat, NEW bit \in 0 .. m - 1
      PROVE  GroupOfBlock(sb, block_group_start(sb, g) + bit) = g
  <2> DEFINE a == m * g + bit
  <2>1. m * g \in Nat  BY <1>1
  <2>2. a \in Nat  BY <1>1, <2>1
  <2>3. a \div m = g
    <3> HIDE DEF m
    <3>1. \A q \in Nat : \A r \in 0 .. m - 1 : a = m * q + r => q = a \div m /\ r = a % m
      BY <1>1, <2>2, DivisionFacts
    <3>2. a = m * g + bit  OBVIOUS
    <3> HIDE DEF a
    <3> QED BY <3>1, <3>2
  <2>4. (block_group_start(sb, g) + bit) - f = a
    BY <1>1, <2>1 DEF block_group_start
  <2>5. GroupOfBlock(sb, block_group_start(sb, g) + bit) = a \div m
    <3>1. PICK b : b = block_group_start(sb, g) + bit  OBVIOUS
    <3>2. GroupOfBlock(sb, b) = (b - f) \div m  BY DEF GroupOfBlock
    <3>3. b - f = a  BY <2>4, <3>1
    <3> HIDE DEF a, f, m
    <3> QED BY <3>1, <3>2, <3>3
  <2> QED BY <2>3, <2>5
<1> QED BY <1>2, <1>3

\* The group of an inode, and its bit there.
LEMMA InodeFacts ==
  ASSUME sb \in Layouts, NEW n \in Nat \ {0}
  PROVE  /\ GroupOfInode(n) \in Nat /\ num_in_bg(n) \in 0 .. sb.inodes_per_group - 1
         /\ n = sb.inodes_per_group * GroupOfInode(n) + num_in_bg(n) + 1
         /\ \A g \in Nat, bit \in 0 .. sb.inodes_per_group - 1 :
              n = sb.inodes_per_group * g + bit + 1 => g = GroupOfInode(n) /\ bit = num_in_bg(n)
         /\ GroupOfInode(n) < block_group_count(sb) <=>
              n - 1 < sb.inodes_per_group * block_group_count(sb)
         /\ n <= sb.inodes_per_group => GroupOfInode(n) = 0
<1> DEFINE m == sb.inodes_per_group
           a == n - 1
           q == a \div m
           r == a % m
           c == block_group_count(sb)
<1>1. m \in Nat \ {0} /\ c \in Nat  BY LayoutNumbers
<1>2. a \in Nat /\ n = a + 1  OBVIOUS
<1>3. GroupOfInode(n) = q /\ num_in_bg(n) = r  BY DEF GroupOfInode, num_in_bg
<1> HIDE DEF m, a, c
<1>4. /\ q \in Nat /\ r \in 0 .. m - 1 /\ a = m * q + r
      /\ \A g \in Nat : \A bit \in 0 .. m - 1 : a = m * g + bit => g = q /\ bit = r
  BY <1>1, <1>2, DivisionFacts
<1> HIDE DEF q, r
<1>5. m * q \in Nat  BY <1>1, <1>4
<1>6. n = m * q + r + 1  BY <1>1, <1>2, <1>4, <1>5
<1>7. ASSUME NEW g \in Nat, NEW bit \in 0 .. m - 1, n = m * g + bit + 1
      PROVE  g = q /\ bit = r
  <2>1. m * g \in Nat  BY <1>1
  <2>2. a = m * g + bit  BY <1>1, <1>2, <1>7, <2>1
  <2> QED BY <1>4, <2>2
<1>8. q < c <=> a < m * c
  <2>1. m * c \in Nat  BY <1>1
  <2>2. ASSUME q < c PROVE a < m * c
    <3>1. m * q + m <= m * c  BY <1>1, <1>4, <2>2, TimesStep
    <3> QED BY <1>1, <1>4, <1>5, <2>1, <3>1
  <2>3. ASSUME c <= q PROVE ~ (a < m * c)
    <3>1. m * c <= m * q  BY <1>1, <1>4, <2>3, TimesMonotonic
    <3> QED BY <1>1, <1>4, <1>5, <2>1, <3>1
  <2> QED BY <1>1, <1>4, <2>2, <2>3
<1>9. n <= m => q = 0
  <2>1. SUFFICES ASSUME n <= m PROVE q = 0  OBVIOUS
  <2>2. m * 0 = 0  BY <1>1
  <2>3. a \in 0 .. m - 1 /\ a = m * 0 + a  BY <1>1, <1>2, <2>1, <2>2
  <2> QED BY <1>4, <2>3
<1> QED BY <1>3, <1>4, <1>6, <1>7, <1>8, <1>9 DEF m, a, c

\* An extent the mapper may register: its bits are bits of one group, they are
\* still clear, and no block of another group is among its blocks.
LEMMA ExtentFacts ==
  ASSUME GroupInv, pc # "descs", NEW e \in Registrable,
         NEW g, g = GroupOfBlock(sb, e[1]),
         NEW lo, lo = e[1] - block_group_start(sb, g),
         NEW hi, hi = e[2] - block_group_start(sb, g)
  PROVE  /\ e \in Extents /\ g \in Groups /\ lo \in Nat /\ hi \in Nat /\ lo < hi
         /\ e[1] \in Nat /\ e[2] \in Nat /\ hi - lo = e[2] - e[1]
         /\ hi <= block_group_block_count(g)
         /\ \A bit \in lo .. hi - 1 : bit \notin block_bitmap[g]
         /\ \A h \in Groups : \A bit \in BlocksOf(h) :
              block_group_start(sb, h) + bit \in e[1] .. e[2] - 1 <=> h = g /\ bit \in lo .. hi - 1
<1>1. sb \in Layouts  BY DEF GroupInv, Inputs
<1>2. /\ sb.blocks_per_group \in Nat \ {0} /\ sb.blocks_count \in Nat
      /\ sb.first_data_block \in {0, 1} /\ sb.data_start \in Nat \ {0}
      /\ sb.blocks_per_group <= BitsPerBlock /\ BitsPerBlock \in Nat
      /\ block_group_count(sb) \in Nat
  BY <1>1, LayoutNumbers
<1>3. /\ e \in Extents /\ g = GroupOfBlock(sb, e[2] - 1)
      /\ \A b \in e[1] .. e[2] - 1 :
           /\ b \in sb.data_start .. sb.blocks_count - 1
           /\ b >= sb.first_data_block
           /\ ~ IsMetadataBlock(sb, b)
           /\ \A r \in registered : b \notin r[1] .. r[2] - 1
  BY DEF Registrable
<1>4. e[1] \in Nat /\ e[2] \in Nat /\ e[1] < e[2]  BY <1>3, ExtentsAssumption
<1>5. /\ e[1] \in e[1] .. e[2] - 1 /\ e[2] - 1 \in e[1] .. e[2] - 1 /\ e[2] - 1 \in Nat
  BY <1>4
<1>6. /\ e[1] >= sb.first_data_block /\ e[1] < sb.blocks_count
      /\ e[2] - 1 >= sb.first_data_block /\ e[2] - 1 < sb.blocks_count
  BY <1>2, <1>3, <1>4, <1>5
<1>7. /\ g \in Groups /\ e[1] - block_group_start(sb, g) \in 0 .. sb.blocks_per_group - 1
      /\ (e[2] - 1) - block_group_start(sb, g) \in 0 .. sb.blocks_per_group - 1
  <2>1. /\ GroupOfBlock(sb, e[1]) \in Groups
        /\ e[1] - block_group_start(sb, GroupOfBlock(sb, e[1])) \in 0 .. sb.blocks_per_group - 1
    BY <1>1, <1>4, <1>6, GroupOfBlockFacts
  <2>2. (e[2] - 1) - block_group_start(sb, GroupOfBlock(sb, e[2] - 1)) \in 0 .. sb.blocks_per_group - 1
    BY <1>1, <1>5, <1>6, GroupOfBlockFacts
  <2> QED BY <1>3, <2>1, <2>2
<1> DEFINE s == block_group_start(sb, g)
<1>8. /\ g \in Nat /\ s \in Nat
      /\ block_group_block_count(g) \in Nat
      /\ block_group_block_count(g) =
           IF sb.blocks_per_group <= sb.blocks_count - s
           THEN sb.blocks_per_group ELSE sb.blocks_count - s
  BY <1>1, <1>7, BlockCountFacts
<1>9. lo = e[1] - s /\ hi = e[2] - s  OBVIOUS
<1> HIDE DEF s
<1>10. /\ lo \in Nat /\ hi \in Nat /\ lo < hi /\ hi - lo = e[2] - e[1]
       /\ hi <= sb.blocks_per_group /\ hi <= sb.blocks_count - s
       /\ hi <= block_group_block_count(g)
  BY <1>2, <1>4, <1>6, <1>7, <1>8, <1>9 DEF s
<1>11. ASSUME NEW bit \in lo .. hi - 1
       PROVE  /\ s + bit \in e[1] .. e[2] - 1 /\ bit \in 0 .. BitsPerBlock - 1
              /\ bit \in BlocksOf(g)
  BY <1>2, <1>4, <1>8, <1>9, <1>10 DEF BlocksOf
<1>12. ASSUME NEW bit \in lo .. hi - 1 PROVE bit \notin block_bitmap[g]
  <2>1. s + bit \in e[1] .. e[2] - 1 /\ bit \in 0 .. BitsPerBlock - 1 /\ bit \in BlocksOf(g)
    BY <1>11
  <2>2. /\ ~ IsMetadataBlock(sb, s + bit)
        /\ ~ \E r \in registered : s + bit \in r[1] .. r[2] - 1
    BY <1>3, <2>1
  <2>3. g \in Initialised  BY <1>7 DEF Initialised, GroupInv, Types, Written
  <2>4. bit \in block_bitmap[g] <=>
          \/ bit \notin BlocksOf(g)
          \/ IsMetadataBlock(sb, s + bit)
          \/ \E r \in registered : s + bit \in r[1] .. r[2] - 1
    BY <2>1, <2>3 DEF GroupInv, BitmapsMarkTheUsed, s
  <2> QED BY <2>1, <2>2, <2>4
<1>13. ASSUME NEW h \in Groups, NEW bit \in BlocksOf(h),
              block_group_start(sb, h) + bit \in e[1] .. e[2] - 1
       PROVE  h = g /\ bit \in lo .. hi - 1
  <2>1. /\ block_group_block_count(h) <= sb.blocks_per_group
        /\ block_group_block_count(h) \in Nat /\ h \in Nat /\ block_group_start(sb, h) \in Nat
    BY <1>1, BlockCountFacts
  <2>2. bit \in 0 .. sb.blocks_per_group - 1  BY <1>2, <2>1 DEF BlocksOf
  <2>3. PICK b \in Nat : b = block_group_start(sb, h) + bit  BY <2>1, <2>2
  <2>4. GroupOfBlock(sb, b) = h  BY <1>1, <2>1, <2>2, <2>3, GroupOfBlockFacts
  <2>5. b - s \in 0 .. sb.blocks_per_group - 1
    BY <1>2, <1>4, <1>7, <1>8, <1>13, <2>3 DEF s
  <2>6. PICK x \in 0 .. sb.blocks_per_group - 1 : x = b - s  BY <2>5
  <2>7. b = s + x  BY <1>2, <1>8, <2>6
  <2>8. GroupOfBlock(sb, b) = g  BY <1>1, <1>8, <2>7, GroupOfBlockFacts DEF s
  <2>9. h = g  BY <2>4, <2>8
  <2>10. b = s + bit  BY <2>3, <2>9 DEF s
  <2>11. bit \in Int  BY <2>2
  <2> QED BY <1>4, <1>8, <1>9, <1>13, <2>3, <2>9, <2>10, <2>11
<1> QED BY <1>3, <1>4, <1>7, <1>10, <1>11, <1>12, <1>13 DEF s

-----------------------------------------------------------------------------
(* The invariant is inductive: one lemma per action.                       *)

\* The layout is chosen once, so what is computed from it never changes.
LEMMA LayoutKept ==
  ASSUME sb' = sb
  PROVE  /\ Groups' = Groups
         /\ \A g : block_group_block_count(g)' = block_group_block_count(g)
         /\ \A g : BlocksOf(g)' = BlocksOf(g) /\ InodesOf(g)' = InodesOf(g)
         /\ \A n : GroupOfInode(n)' = GroupOfInode(n) /\ num_in_bg(n)' = num_in_bg(n)
<1>1. Groups' = Groups  BY DEF Groups
<1>2. \A g : block_group_block_count(g)' = block_group_block_count(g)
  BY DEF block_group_block_count
<1>3. \A g : BlocksOf(g)' = BlocksOf(g)  BY <1>2 DEF BlocksOf
<1>4. \A g : InodesOf(g)' = InodesOf(g)  BY DEF InodesOf
<1>5. \A n : GroupOfInode(n)' = GroupOfInode(n) /\ num_in_bg(n)' = num_in_bg(n)
  BY DEF GroupOfInode, num_in_bg
<1> QED BY <1>1, <1>2, <1>3, <1>4, <1>5

\* Before the first descriptor is written there is nothing to agree.
LEMMA InitInv == Init => GroupInv
<1> SUFFICES ASSUME Init PROVE GroupInv  OBVIOUS
<1> USE DEF Init
<1>1. Inputs  BY DEF Inputs
<1>2. /\ sb.inodes_per_group \in Nat /\ sb.inodes_per_group >= 11
      /\ block_group_count(sb) \in Nat \ {0}
  BY <1>1, LayoutNumbers DEF Inputs
<1>3. first_free_inode_no = 12  BY DEF EXT4_FIRST_NON_RSV_INODE
<1>4. Progress
  <2>1. sb.inodes_per_group * 1 <= sb.inodes_per_group * block_group_count(sb)
    <3>1. 1 <= block_group_count(sb)  BY <1>2
    <3> QED BY <1>2, <3>1, TimesMonotonic
  <2>2. sb.inodes_per_group * 1 = sb.inodes_per_group  BY <1>2
  <2>3. sb.inodes_per_group * block_group_count(sb) \in Nat  BY <1>2
  <2>4. first_free_inode_no - 1 <= sb.inodes_per_group * block_group_count(sb)
    BY <1>2, <1>3, <2>1, <2>2, <2>3
  <2> QED BY <1>2, <1>3, <2>4 DEF Progress
<1>5. Written = {}  BY DEF Written
<1>6. DOMAIN group_descs = {}  OBVIOUS
<1>7. Types
  <2>1. \A S : <<>> \in [{} -> S]  OBVIOUS
  <2> QED BY <1>5, <2>1 DEF Types
<1>8. InodeTable
  <2>1. 12 .. first_free_inode_no - 1 = {}  BY <1>3
  <2> QED BY <2>1 DEF InodeTable
<1> QED BY <1>1, <1>4, <1>5, <1>6, <1>7, <1>8
     DEF GroupInv, InodeBits, Directories, CountsMatchBitmaps, BitmapsMarkTheUsed, Initialised

\* A step that leaves the groups alone keeps what relates them.
LEMMA GroupsKept ==
  ASSUME GroupInv, UNCHANGED <<sb, tree, groupVars, first_free_inode_no, registered>>,
         Written' = Written, Progress', InodeTable'
  PROVE  GroupInv'
<1>1. /\ sb' = sb /\ tree' = tree /\ group_descs' = group_descs /\ block_bitmap' = block_bitmap
      /\ inode_bitmap' = inode_bitmap /\ inode_table' = inode_table
      /\ first_free_inode_no' = first_free_inode_no /\ registered' = registered
  BY DEF groupVars
<1>2. /\ \A g : BlocksOf(g)' = BlocksOf(g) /\ InodesOf(g)' = InodesOf(g)
      /\ \A n : GroupOfInode(n)' = GroupOfInode(n)
  BY <1>1, LayoutKept
<1>3. Inputs'  BY <1>1 DEF GroupInv, Inputs
<1>4. Types'  BY <1>1 DEF GroupInv, Types, BitRange
<1>5. InodeBits'  BY <1>1 DEF GroupInv, InodeBits, BitRange
<1>6. Directories'  BY <1>1, <1>2 DEF GroupInv, Directories
<1>7. CountsMatchBitmaps'  BY <1>1, <1>2 DEF GroupInv, CountsMatchBitmaps, Initialised
<1>8. BitmapsMarkTheUsed'  BY <1>1, <1>2 DEF GroupInv, BitmapsMarkTheUsed, Initialised
<1> QED BY <1>3, <1>4, <1>5, <1>6, <1>7, <1>8 DEF GroupInv

\* build_inode exits only behind the last group's inodes.
LEMMA NotEnoughInodesInv == GroupInv /\ NotEnoughInodes => GroupInv'
<1> SUFFICES ASSUME GroupInv, NotEnoughInodes PROVE GroupInv'  OBVIOUS
<1> USE DEF NotEnoughInodes
<1>1. sb \in Layouts /\ first_free_inode_no \in Nat \ {0}  BY DEF GroupInv, Inputs, Progress
<1>2. sb' = sb  OBVIOUS
<1>3. ~ (GroupOfInode(first_free_inode_no) < block_group_count(sb))
  <2>1. GroupOfInode(first_free_inode_no) \in Nat /\ block_group_count(sb) \in Nat
    BY <1>1, InodeFacts, LayoutNumbers
  <2> QED BY <2>1
<1>4. ~ (first_free_inode_no - 1 < sb.inodes_per_group * block_group_count(sb))
  BY <1>1, <1>3, InodeFacts
<1>5. sb.inodes_per_group * block_group_count(sb) \in Nat  BY <1>1, LayoutNumbers
<1>6. Progress'  BY <1>1, <1>4, <1>5 DEF GroupInv, Progress
<1>7. Written' = Written  BY <1>2, LayoutKept DEF Written
<1>8. InodeTable'  BY DEF GroupInv, InodeTable, groupVars
<1> QED BY <1>6, <1>7, <1>8, GroupsKept

\* The index of that loop does not wrap: there are fewer groups.
LEMMA IndexHolds ==
  ASSUME sb \in Layouts, NEW n \in Groups
  PROVE  n \in Nat /\ uint16_t(n + 1) = n + 1
<1>1. IndexRange \in Nat  BY IndexRangeAssumption
<1>2. n \in Nat /\ n + 1 <= block_group_count(sb) /\ block_group_count(sb) \in Nat
  BY LayoutNumbers DEF Groups
<1>3. block_group_count(sb) < IndexRange  BY BlockGroupsAssumption
<1>4. n + 1 \in Nat /\ n + 1 < IndexRange  BY <1>1, <1>2, <1>3
<1>5. (n + 1) % IndexRange = n + 1  BY <1>1, <1>4
<1> QED BY <1>2, <1>5 DEF uint16_t

\* The loop of finalize_block_groups_on_disk only reads the groups.
LEMMA SumGroupInv == GroupInv /\ SumGroup => GroupInv'
<1> SUFFICES ASSUME GroupInv, SumGroup PROVE GroupInv'  OBVIOUS
<1> USE DEF SumGroup
<1>1. i \in Nat /\ i' = i + 1  BY IndexHolds DEF GroupInv, Inputs
<1>2. sb' = sb  OBVIOUS
<1>3. Progress'  BY <1>1 DEF GroupInv, Progress
<1>4. Written' = Written  BY <1>2, LayoutKept DEF Written
<1>5. InodeTable'  BY DEF GroupInv, InodeTable, groupVars
<1> QED BY <1>3, <1>4, <1>5, GroupsKept

\* write_sb_copy writes the superblock only.
LEMMA CopiesInv == GroupInv /\ write_sb_copies => GroupInv'
<1> SUFFICES ASSUME GroupInv, write_sb_copies PROVE GroupInv'  OBVIOUS
<1> USE DEF write_sb_copies
<1>1. sb' = sb  OBVIOUS
<1>2. Progress'  BY DEF GroupInv, Progress
<1>3. Written' = Written  BY <1>1, LayoutKept DEF Written
<1>4. InodeTable'  BY DEF GroupInv, InodeTable, groupVars
<1> QED BY <1>2, <1>3, <1>4, GroupsKept

\* A program that has stopped changes nothing.
LEMMA StutterInv == GroupInv /\ UNCHANGED vars => GroupInv'
<1> SUFFICES ASSUME GroupInv, UNCHANGED vars PROVE GroupInv'  OBVIOUS
<1> USE DEF vars
<1>1. sb' = sb  OBVIOUS
<1>2. Progress'  BY DEF GroupInv, Progress
<1>3. Written' = Written  BY <1>1, LayoutKept DEF Written
<1>4. InodeTable'  BY DEF GroupInv, InodeTable, groupVars
<1> QED BY <1>2, <1>3, <1>4, GroupsKept

\* A bitmap with the first o bits and those from c to the end of the block set.
LEMMA InitialBits ==
  \A o, c, n \in Nat : o <= c /\ c <= n =>
    LET B == set_bits(set_bits({}, 0, o), c, n)
    IN  /\ B \in SUBSET (0 .. n - 1)
        /\ Cardinality((0 .. c - 1) \ B) = c - o
        /\ \A bit \in 0 .. n - 1 : bit \in B <=> bit < o \/ bit >= c
<1> TAKE o, c, n \in Nat
<1> HAVE o <= c /\ c <= n
<1> DEFINE B == set_bits(set_bits({}, 0, o), c, n)
<1>1. B \in SUBSET (0 .. n - 1)  BY DEF set_bits
<1>2. \A bit \in 0 .. n - 1 : bit \in B <=> bit < o \/ bit >= c  BY DEF set_bits
<1>3. (0 .. c - 1) \ B = o .. c - 1  BY DEF set_bits
<1>4. Cardinality(o .. c - 1) = IF o > c - 1 THEN 0 ELSE (c - 1) - o + 1
  BY FS_Interval
<1>5. Cardinality(o .. c - 1) = c - o  BY <1>4
<1> QED BY <1>1, <1>2, <1>3, <1>5

\* init_ext4_group_descs: a new group's bitmaps and counts agree, and the
\* groups before it are left alone.
LEMMA InitGroupDescInv == GroupInv /\ InitGroupDesc => GroupInv'
<1> SUFFICES ASSUME GroupInv, InitGroupDesc PROVE GroupInv'  OBVIOUS
<1>1. /\ pc = "descs" /\ i \in Groups /\ pc' = pc /\ i' = i + 1
      /\ sb' = sb /\ tree' = tree /\ inode_table' = inode_table
      /\ first_free_inode_no' = first_free_inode_no /\ registered' = registered
  BY DEF InitGroupDesc
<1>2. sb \in Layouts /\ i \in Nat  BY DEF GroupInv, Inputs, Progress
<1>3. /\ sb.blocks_per_group \in Nat \ {0} /\ sb.blocks_per_group <= BitsPerBlock
      /\ sb.inodes_per_group \in Nat /\ sb.inodes_per_group >= 11
      /\ sb.inodes_per_group <= BitsPerBlock
      /\ block_group_count(sb) \in Nat \ {0}
      /\ BitsPerBlock \in Nat /\ CountRange \in Nat /\ BitsPerBlock < CountRange
  BY <1>2, LayoutNumbers
<1>4. first_free_inode_no = 12 /\ registered = {}  BY <1>1 DEF GroupInv, Progress
<1>5. Written = 0 .. i - 1 /\ Written' = 0 .. i /\ i \notin Written /\ Written' = Written \cup {i}
  <2>1. Written = 0 .. i - 1  BY <1>1 DEF Written
  <2>2. Written' = 0 .. (i + 1) - 1  BY <1>1 DEF Written
  <2>3. (i + 1) - 1 = i  BY <1>2
  <2>4. Written' = 0 .. i  BY <2>2, <2>3
  <2> QED BY <1>2, <2>1, <2>4
<1> DEFINE c == block_group_block_count(i)
           o == block_group_overhead(sb, i)
           u == used_inodes(i)
           m == sb.inodes_per_group
           B == set_bits(set_bits({}, 0, o), c, BitsPerBlock)
           V == set_bits(set_bits({}, 0, u), m, BitsPerBlock)
           bg == [free_blocks |-> Wrap(c - o), free_inodes |-> Wrap(m - u), used_dirs |-> 0]
<1>6. /\ group_descs' = Put(group_descs, i, bg)
      /\ block_bitmap' = Put(block_bitmap, i, B)
      /\ inode_bitmap' = Put(inode_bitmap, i, V)
  BY DEF InitGroupDesc, InitialBlockBitmap
<1>7. /\ c \in Nat /\ o \in Nat /\ o <= c /\ c <= sb.blocks_per_group
      /\ block_group_start(sb, i) \in Nat
  BY <1>1, <1>2, BlockCountFacts
<1>8. u \in Nat /\ u <= m /\ u = IF i = 0 THEN 11 ELSE 0
  BY <1>3 DEF used_inodes, EXT4_FIRST_NON_RSV_INODE
<1>9. BlocksOf(i) = 0 .. c - 1 /\ InodesOf(i) = 0 .. m - 1  BY DEF BlocksOf, InodesOf
<1>10. \A bit \in 0 .. sb.blocks_per_group - 1 :
          IsMetadataBlock(sb, block_group_start(sb, i) + bit) <=> bit < o
  BY <1>1, <1>2, MetadataOfGroup
<1> HIDE DEF c, o, u, m
<1>11. /\ B \in SUBSET BitRange /\ Cardinality((0 .. c - 1) \ B) = c - o
       /\ \A bit \in BitRange : bit \in B <=> bit < o \/ bit >= c
  <2>1. c <= BitsPerBlock  BY <1>3, <1>7
  <2> QED BY <1>3, <1>7, <2>1, InitialBits DEF BitRange
<1>12. /\ V \in SUBSET BitRange /\ Cardinality((0 .. m - 1) \ V) = m - u
       /\ \A bit \in BitRange : bit \in V <=> bit < u \/ bit >= m
  <2>1. m <= BitsPerBlock /\ m \in Nat  BY <1>3 DEF m
  <2> QED BY <1>3, <1>8, <2>1, InitialBits DEF BitRange
<1>13. bg.free_blocks = c - o /\ bg.free_inodes = m - u /\ bg.used_dirs = 0
       /\ bg \in [free_blocks : Nat, free_inodes : Nat, used_dirs : Nat]
  <2>1. c - o \in Nat /\ c - o < CountRange  BY <1>3, <1>7
  <2>2. m - u \in Nat /\ m - u < CountRange  BY <1>3, <1>8 DEF m
  <2> QED BY <2>1, <2>2, WrapFits
<1> HIDE DEF B, V, bg
<1>14. /\ DOMAIN group_descs = Written /\ DOMAIN block_bitmap = Written
       /\ DOMAIN inode_bitmap = Written
  BY DEF GroupInv, Types
<1>15. /\ group_descs'[i] = bg /\ block_bitmap'[i] = B /\ inode_bitmap'[i] = V
       /\ \A g \in Written : /\ group_descs'[g] = group_descs[g]
                             /\ block_bitmap'[g] = block_bitmap[g]
                             /\ inode_bitmap'[g] = inode_bitmap[g]
       /\ DOMAIN group_descs' = Written'
  BY <1>5, <1>6, <1>14 DEF Put
<1>16. /\ \A g : BlocksOf(g)' = BlocksOf(g) /\ InodesOf(g)' = InodesOf(g)
       /\ \A n : GroupOfInode(n)' = GroupOfInode(n)
  BY <1>1, LayoutKept
<1>17. Inputs'  BY <1>1 DEF GroupInv, Inputs
<1>18. Progress'
  <2>1. i + 1 <= block_group_count(sb) /\ i + 1 \in Nat  BY <1>1, <1>2, <1>3 DEF Groups
  <2> QED BY <1>1, <2>1 DEF GroupInv, Progress
<1>19. Types'
  <2>1. group_descs' \in [Written' -> [free_blocks : Nat, free_inodes : Nat, used_dirs : Nat]]
    BY <1>5, <1>6, <1>13 DEF GroupInv, Types, Put
  <2>2. block_bitmap' \in [Written' -> SUBSET BitRange]
    BY <1>5, <1>6, <1>11 DEF GroupInv, Types, Put
  <2>3. inode_bitmap' \in [Written' -> SUBSET BitRange]
    BY <1>5, <1>6, <1>12 DEF GroupInv, Types, Put
  <2> QED BY <1>1, <1>4, <2>1, <2>2, <2>3 DEF Types, BitRange
<1>20. InodeBits'
  <2>1. ASSUME NEW bit \in BitRange
        PROVE  bit \in V <=> bit >= m \/ m * i + bit + 1 < 12
    <3>1. bit \in Nat  BY <1>3 DEF BitRange
    <3>2. m \in Nat /\ m >= 11  BY <1>3 DEF m
    <3>3. CASE i = 0
      <4>1. m * i = 0  BY <3>2, <3>3
      <4> QED BY <1>8, <1>12, <3>1, <3>2, <3>3, <4>1
    <3>4. CASE i # 0
      <4>1. m * 1 <= m * i  BY <1>2, <3>2, <3>4, TimesMonotonic
      <4>2. m * 1 = m /\ m * i \in Nat  BY <1>2, <3>2
      <4> QED BY <1>8, <1>12, <3>1, <3>2, <3>4, <4>1, <4>2
    <3> QED BY <3>3, <3>4
  <2> QED BY <1>1, <1>4, <1>5, <1>15, <2>1 DEF GroupInv, InodeBits, BitRange, m
<1>21. InodeTable'  BY <1>1 DEF GroupInv, InodeTable
<1>22. Directories'
  <2>1. DOMAIN inode_table = {}
    <3>1. 12 .. first_free_inode_no - 1 = {}  BY <1>4
    <3> QED BY <1>1, <3>1 DEF GroupInv, InodeTable
  <2>2. Cardinality({}) = 0  BY FS_EmptySet
  <2>3. \A g : { n \in DOMAIN inode_table : GroupOfInode(n) = g /\ inode_table[n] = "dir" } = {}
    BY <2>1
  <2>4. \A g \in Written : group_descs[g].used_dirs = 0
    BY <2>2, <2>3 DEF GroupInv, Directories
  <2>5. \A g \in Written' : group_descs'[g].used_dirs = 0
    BY <1>5, <1>13, <1>15, <2>4
  <2>6. \A g : { n \in DOMAIN inode_table' :
                   GroupOfInode(n)' = g /\ inode_table'[n] = "dir" } = {}
    BY <1>1, <2>1
  <2> QED BY <2>2, <2>5, <2>6 DEF Directories
<1>23. CountsMatchBitmaps'
  <2>1. \A g \in Written :
          /\ group_descs'[g].free_blocks = Cardinality(BlocksOf(g) \ block_bitmap'[g])
          /\ group_descs'[g].free_inodes = Cardinality(InodesOf(g) \ inode_bitmap'[g])
    BY <1>14, <1>15 DEF GroupInv, CountsMatchBitmaps, Initialised
  <2>2. /\ group_descs'[i].free_blocks = Cardinality(BlocksOf(i) \ block_bitmap'[i])
        /\ group_descs'[i].free_inodes = Cardinality(InodesOf(i) \ inode_bitmap'[i])
    BY <1>9, <1>11, <1>12, <1>13, <1>15
  <2> QED BY <1>5, <1>15, <1>16, <2>1, <2>2 DEF CountsMatchBitmaps, Initialised
<1>24. BitmapsMarkTheUsed'
  <2>1. ASSUME NEW bit \in BitRange
        PROVE  bit \in B <=> bit \notin BlocksOf(i) \/ IsMetadataBlock(sb, block_group_start(sb, i) + bit)
    <3>1. bit \in Nat  BY <1>3 DEF BitRange
    <3>2. bit \in BlocksOf(i) <=> bit < c  BY <1>7, <1>9, <3>1
    <3>3. bit < c => bit \in 0 .. sb.blocks_per_group - 1  BY <1>3, <1>7, <3>1
    <3>4. bit >= c <=> ~ (bit < c)  BY <1>7, <3>1
    <3>5. bit \in B <=> bit < o \/ bit >= c  BY <1>11
    <3> QED BY <1>10, <3>2, <3>3, <3>4, <3>5
  <2>2. \A g \in Written : \A bit \in 0 .. BitsPerBlock - 1 :
          bit \in block_bitmap[g] <=>
            \/ bit \notin BlocksOf(g)
            \/ IsMetadataBlock(sb, block_group_start(sb, g) + bit)
    BY <1>4, <1>14 DEF GroupInv, BitmapsMarkTheUsed, Initialised
  <2>3. \A g \in Written' : \A bit \in 0 .. BitsPerBlock - 1 :
          bit \in block_bitmap'[g] <=>
            \/ bit \notin BlocksOf(g)
            \/ IsMetadataBlock(sb, block_group_start(sb, g) + bit)
    BY <1>5, <1>15, <2>1, <2>2 DEF BitRange
  <2> QED BY <1>1, <1>4, <1>15, <1>16, <2>3 DEF BitmapsMarkTheUsed, Initialised
<1> QED BY <1>17, <1>18, <1>19, <1>20, <1>21, <1>22, <1>23, <1>24 DEF GroupInv

\* A group's count of directories follows the inode table when inode n is
\* added to it.
LEMMA DirectoryAdded ==
  ASSUME GroupInv, sb' = sb, Written' = Written,
         NEW n, NEW kind, n \notin DOMAIN inode_table,
         DOMAIN inode_table' = DOMAIN inode_table \cup {n},
         inode_table'[n] = kind,
         \A x \in DOMAIN inode_table : inode_table'[x] = inode_table[x],
         \A g \in Written :
           group_descs'[g].used_dirs =
             IF g = GroupOfInode(n) /\ kind = "dir"
             THEN group_descs[g].used_dirs + 1 ELSE group_descs[g].used_dirs
  PROVE  Directories'
<1> DEFINE D(g) == { x \in DOMAIN inode_table : GroupOfInode(x) = g /\ inode_table[x] = "dir" }
           E(g) == { x \in DOMAIN inode_table' : GroupOfInode(x)' = g /\ inode_table'[x] = "dir" }
<1>1. \A x : GroupOfInode(x)' = GroupOfInode(x)  BY LayoutKept
<1>2. IsFiniteSet(DOMAIN inode_table)
  <2>1. first_free_inode_no \in Nat /\ first_free_inode_no >= 12  BY DEF GroupInv, Progress
  <2>2. PICK S : S = DOMAIN inode_table  OBVIOUS
  <2>3. PICK k \in Nat : k = first_free_inode_no  BY <2>1
  <2>4. S \in SUBSET Nat /\ \A x \in S : x <= k
    BY <2>1, <2>2, <2>3 DEF GroupInv, InodeTable
  <2>5. IsFiniteSet(S)  BY <2>4, FS_BoundedSetOfNaturals
  <2> QED BY <2>2, <2>5
<1>3. ASSUME NEW g \in Written PROVE group_descs'[g].used_dirs = Cardinality(E(g))
  <2>1. group_descs[g].used_dirs = Cardinality(D(g))  BY DEF GroupInv, Directories
  <2>2. PICK S, T : S = D(g) /\ T = DOMAIN inode_table  OBVIOUS
  <2>3. IsFiniteSet(T) /\ S \in SUBSET T  BY <1>2, <2>2
  <2>4. IsFiniteSet(S)  BY <2>3, FS_Subset
  <2>5. n \notin S  BY <2>2
  <2>6. Cardinality(S \cup {n}) = Cardinality(S) + 1  BY <2>4, <2>5, FS_AddElement
  <2>7. CASE g = GroupOfInode(n) /\ kind = "dir"
    <3>1. E(g) = S \cup {n}  BY <1>1, <2>2, <2>7
    <3> QED BY <2>1, <2>2, <2>6, <2>7, <3>1
  <2>8. CASE ~ (g = GroupOfInode(n) /\ kind = "dir")
    <3>1. E(g) = S  BY <1>1, <2>2, <2>8
    <3> QED BY <2>1, <2>2, <2>8, <3>1
  <2> QED BY <2>7, <2>8
<1> QED BY <1>3 DEF Directories

\* add_reserved_inode: the bit of a reserved inode is set already, and its
\* group, the first, counts one more directory.
LEMMA ReservedInode ==
  ASSUME GroupInv, NEW n \in {2, 11}, add_reserved_inode(n, "dir"), n \notin DOMAIN inode_table,
         UNCHANGED <<sb, tree, first_free_inode_no, registered>>,
         Written = Groups, Written' = Written, Progress', InodeTable'
  PROVE  GroupInv'
<1>1. /\ block_bitmap' = block_bitmap /\ inode_bitmap' = inode_bitmap
      /\ sb' = sb /\ tree' = tree /\ first_free_inode_no' = first_free_inode_no
      /\ registered' = registered
  BY DEF add_reserved_inode
<1>2. sb \in Layouts  BY DEF GroupInv, Inputs
<1>3. sb.inodes_per_group \in Nat /\ sb.inodes_per_group >= 11 /\ block_group_count(sb) \in Nat \ {0}
  BY <1>2, LayoutNumbers
<1>4. GroupOfInode(n) = 0
  <2>1. n \in Nat \ {0} /\ n <= sb.inodes_per_group  BY <1>3
  <2> QED BY <1>2, <2>1, InodeFacts
<1>5. 0 \in Written  BY <1>3 DEF Groups
<1>6. /\ DOMAIN inode_table' = DOMAIN inode_table \cup {n} /\ inode_table'[n] = "dir"
      /\ \A x \in DOMAIN inode_table : inode_table'[x] = inode_table[x]
  BY DEF add_reserved_inode, Put
<1>7. group_descs \in [Written -> [free_blocks : Nat, free_inodes : Nat, used_dirs : Nat]]
  BY DEF GroupInv, Types
<1>8. PICK d \in [free_blocks : Nat, free_inodes : Nat, used_dirs : Nat] :
        /\ group_descs' = [group_descs EXCEPT ![0] = d]
        /\ d.free_blocks = group_descs[0].free_blocks
        /\ d.free_inodes = group_descs[0].free_inodes
        /\ d.used_dirs = group_descs[0].used_dirs + 1
  <2> DEFINE d == [group_descs[0] EXCEPT !.used_dirs = @ + 1]
  <2>1. WithDir(group_descs[0], "dir") = d  BY DEF WithDir
  <2>2. group_descs' = [group_descs EXCEPT ![0] = d]  BY <1>4, <2>1 DEF add_reserved_inode
  <2>3. group_descs[0] \in [free_blocks : Nat, free_inodes : Nat, used_dirs : Nat]
    BY <1>5, <1>7
  <2>4. /\ d \in [free_blocks : Nat, free_inodes : Nat, used_dirs : Nat]
        /\ d.free_blocks = group_descs[0].free_blocks
        /\ d.free_inodes = group_descs[0].free_inodes
        /\ d.used_dirs = group_descs[0].used_dirs + 1
    BY <2>3
  <2> QED BY <2>2, <2>4
<1>9. /\ group_descs' \in [Written -> [free_blocks : Nat, free_inodes : Nat, used_dirs : Nat]]
      /\ \A g \in Written :
           /\ group_descs'[g].free_blocks = group_descs[g].free_blocks
           /\ group_descs'[g].free_inodes = group_descs[g].free_inodes
           /\ group_descs'[g].used_dirs =
                IF g = 0 THEN group_descs[g].used_dirs + 1 ELSE group_descs[g].used_dirs
  BY <1>5, <1>7, <1>8
<1>10. /\ \A g : BlocksOf(g)' = BlocksOf(g) /\ InodesOf(g)' = InodesOf(g)
  BY <1>1, LayoutKept
<1>11. Inputs'  BY <1>1 DEF GroupInv, Inputs
<1>12. Types'  BY <1>1, <1>9 DEF GroupInv, Types, BitRange
<1>13. InodeBits'  BY <1>1 DEF GroupInv, InodeBits, BitRange
<1>14. Directories'  BY <1>1, <1>4, <1>6, <1>9, DirectoryAdded
<1>15. DOMAIN group_descs' = Written /\ DOMAIN group_descs = Written  BY <1>7, <1>9
<1>16. CountsMatchBitmaps'
  BY <1>1, <1>9, <1>10, <1>15 DEF GroupInv, CountsMatchBitmaps, Initialised
<1>17. BitmapsMarkTheUsed'
  BY <1>1, <1>10, <1>15 DEF GroupInv, BitmapsMarkTheUsed, Initialised
<1> QED BY <1>11, <1>12, <1>13, <1>14, <1>16, <1>17 DEF GroupInv

\* build_root_inode, once every group is initialised.
LEMMA RootInv == GroupInv /\ build_root_inode => GroupInv'
<1> SUFFICES ASSUME GroupInv, build_root_inode PROVE GroupInv'  OBVIOUS
<1> USE DEF build_root_inode
<1>1. /\ pc = "descs" /\ pc' = "tree" /\ i' = 1 /\ sb' = sb /\ i = block_group_count(sb)
      /\ first_free_inode_no' = first_free_inode_no
  OBVIOUS
<1>2. 12 .. first_free_inode_no - 1 = {}  BY <1>1 DEF GroupInv, Progress
<1>3. DOMAIN inode_table = {}  BY <1>1, <1>2 DEF GroupInv, InodeTable
<1>4. add_reserved_inode(2, "dir")  BY DEF EXT4_ROOT_INODE
<1>5. DOMAIN inode_table' = {2}  BY <1>3, <1>4 DEF add_reserved_inode, Put
<1>6. Written = Groups  BY <1>1 DEF Written, Groups
<1>7. Written' = Written  BY <1>1, <1>6, LayoutKept DEF Written
<1>8. Progress'  BY <1>1 DEF GroupInv, Progress
<1>9. InodeTable'
  <2>1. 12 .. first_free_inode_no' - 1 = {}  BY <1>1, <1>2
  <2> QED BY <1>1, <1>5, <2>1 DEF InodeTable
<1> QED BY <1>3, <1>4, <1>6, <1>7, <1>8, <1>9, ReservedInode

\* build_lost_found, once the tree is built.
LEMMA LostFoundInv == GroupInv /\ build_lost_found_inode => GroupInv'
<1> SUFFICES ASSUME GroupInv, build_lost_found_inode PROVE GroupInv'  OBVIOUS
<1> USE DEF build_lost_found_inode
<1>1. /\ pc = "tree" /\ pc' = "lost+found" /\ i' = 0 /\ sb' = sb
      /\ first_free_inode_no' = first_free_inode_no
  OBVIOUS
<1>2. first_free_inode_no \in Nat  BY DEF GroupInv, Progress
<1>3. DOMAIN inode_table = 12 .. first_free_inode_no - 1 \cup {2}
  BY <1>1 DEF GroupInv, InodeTable
<1>4. 11 \notin DOMAIN inode_table  BY <1>2, <1>3
<1>5. add_reserved_inode(11, "dir")  BY DEF EXT4_LOST_FOUND_INODE
<1>6. DOMAIN inode_table' = DOMAIN inode_table \cup {11}  BY <1>5 DEF add_reserved_inode, Put
<1>7. Written = Groups  BY <1>1 DEF Written
<1>8. Written' = Written  BY <1>1, <1>7, LayoutKept DEF Written
<1>9. Progress'  BY <1>1 DEF GroupInv, Progress
<1>10. InodeTable'  BY <1>1, <1>3, <1>6 DEF InodeTable
<1> QED BY <1>4, <1>5, <1>7, <1>8, <1>9, <1>10, ReservedInode

\* build_inode and add_inode: the first free inode's bit is clear, and marking
\* it takes one from the free count of its group, which is not zero.
LEMMA BuildInodeInv == GroupInv /\ build_inode => GroupInv'
<1> SUFFICES ASSUME GroupInv, build_inode PROVE GroupInv'  OBVIOUS
<1> DEFINE Desc == [free_blocks : Nat, free_inodes : Nat, used_dirs : Nat]
<1>1. /\ pc = "tree" /\ pc' = pc /\ i' = i + 1 /\ sb' = sb /\ tree' = tree
      /\ block_bitmap' = block_bitmap /\ registered' = registered
      /\ first_free_inode_no' = first_free_inode_no + 1
  BY DEF build_inode
<1>2. sb \in Layouts /\ i \in Nat  BY DEF GroupInv, Inputs, Progress
<1>3. /\ sb.inodes_per_group \in Nat /\ sb.inodes_per_group >= 11
      /\ sb.inodes_per_group <= BitsPerBlock
      /\ block_group_count(sb) \in Nat \ {0}
      /\ BitsPerBlock \in Nat /\ CountRange \in Nat /\ BitsPerBlock < CountRange
  BY <1>2, LayoutNumbers
<1>4. PICK n \in Nat : n = first_free_inode_no /\ n >= 12  BY DEF GroupInv, Progress
<1>5. PICK m \in Nat : m = sb.inodes_per_group  BY <1>3
<1>6. PICK g, bit, kind : g = GroupOfInode(n) /\ bit = num_in_bg(n) /\ kind = tree[i]
  OBVIOUS
<1>7. /\ g \in Nat /\ bit \in 0 .. m - 1 /\ n = m * g + bit + 1
      /\ \A h \in Nat, b \in 0 .. m - 1 : n = m * h + b + 1 => h = g /\ b = bit
      /\ g < block_group_count(sb) <=> n - 1 < m * block_group_count(sb)
  <2>1. n \in Nat \ {0}  BY <1>4
  <2> QED BY <1>2, <1>5, <1>6, <2>1, InodeFacts, SMTT(30)
<1>8. g < block_group_count(sb)  BY <1>4, <1>6 DEF build_inode
<1>9. /\ inode_bitmap' = [inode_bitmap EXCEPT ![g] = inode_bitmap[g] \cup {bit}]
      /\ group_descs' = [group_descs EXCEPT ![g] = WithInode(group_descs[g], kind)]
  BY <1>4, <1>6 DEF build_inode
<1>10. /\ DOMAIN inode_table' = DOMAIN inode_table \cup {n} /\ inode_table'[n] = kind
       /\ \A x \in DOMAIN inode_table : x # n => inode_table'[x] = inode_table[x]
  BY <1>4, <1>6 DEF build_inode, Put
<1>11. Written = Groups /\ Written' = Written /\ g \in Written
  BY <1>1, <1>3, <1>7, <1>8, LayoutKept DEF Written, Groups
<1>12. /\ group_descs \in [Written -> Desc]
       /\ block_bitmap \in [Written -> SUBSET BitRange]
       /\ inode_bitmap \in [Written -> SUBSET BitRange]
  BY DEF GroupInv, Types
<1>13. DOMAIN group_descs = Written /\ DOMAIN inode_bitmap = Written /\ bit \in BitRange
  BY <1>3, <1>5, <1>7, <1>12 DEF BitRange
<1>14. /\ \A x : BlocksOf(x)' = BlocksOf(x) /\ InodesOf(x)' = InodesOf(x)
       /\ \A x : InodesOf(x) = 0 .. m - 1
  BY <1>1, <1>5, LayoutKept DEF InodesOf
<1>15. \A h \in Written : \A b \in BitRange :
         b \in inode_bitmap[h] <=> b >= m \/ m * h + b + 1 < n
  BY <1>4, <1>5 DEF GroupInv, InodeBits
<1>16. bit \notin inode_bitmap[g]
  <2>1. ~ (bit >= m) /\ ~ (m * g + bit + 1 < n)  BY <1>4, <1>5, <1>7
  <2> QED BY <1>11, <1>13, <1>15, <2>1
<1>17. PICK F : F = InodesOf(g) \ inode_bitmap[g]  OBVIOUS
<1>18. /\ group_descs[g].free_inodes = Cardinality(F)
       /\ IsFiniteSet(F) /\ Cardinality(F) \in Nat /\ Cardinality(F) <= m
       /\ Cardinality(F \ {bit}) = Cardinality(F) - 1 /\ Cardinality(F) - 1 \in Nat
  <2>1. group_descs[g].free_inodes = Cardinality(F)
    BY <1>11, <1>13, <1>17 DEF GroupInv, CountsMatchBitmaps, Initialised
  <2>2. IsFiniteSet(0 .. m - 1) /\ Cardinality(0 .. m - 1) <= m
    <3>1. 0 \in Int /\ m - 1 \in Int  OBVIOUS
    <3>2. /\ IsFiniteSet(0 .. m - 1)
          /\ Cardinality(0 .. m - 1) = IF 0 > m - 1 THEN 0 ELSE (m - 1) - 0 + 1
      BY <3>1, FS_Interval
    <3> QED BY <3>2
  <2>3. F \in SUBSET (0 .. m - 1)  BY <1>14, <1>17
  <2>4. IsFiniteSet(F) /\ Cardinality(F) <= Cardinality(0 .. m - 1)  BY <2>2, <2>3, FS_Subset
  <2>5. Cardinality(F) \in Nat /\ Cardinality(0 .. m - 1) \in Nat
    BY <2>2, <2>4, FS_CardinalityType
  <2>6. bit \in F  BY <1>7, <1>14, <1>16, <1>17
  <2>7. IsFiniteSet(F \ {bit}) /\ Cardinality(F \ {bit}) = Cardinality(F) - 1
    BY <2>4, <2>6, FS_RemoveElement
  <2>8. Cardinality(F \ {bit}) \in Nat  BY <2>7, FS_CardinalityType
  <2> QED BY <2>1, <2>2, <2>4, <2>5, <2>7, <2>8
<1>19. Wrap(group_descs[g].free_inodes - 1) = Cardinality(F) - 1
  BY <1>3, <1>5, <1>18, WrapFits
<1>20. PICK d \in Desc :
         /\ group_descs' = [group_descs EXCEPT ![g] = d]
         /\ d.free_blocks = group_descs[g].free_blocks
         /\ d.free_inodes = Cardinality(F) - 1
         /\ d.used_dirs = IF kind = "dir" THEN group_descs[g].used_dirs + 1
                                          ELSE group_descs[g].used_dirs
  <2> DEFINE d == WithInode(group_descs[g], kind)
  <2>1. group_descs[g] \in Desc  BY <1>11, <1>12
  <2>2. PICK c \in Desc : c = [group_descs[g] EXCEPT !.free_inodes = Wrap(@ - 1)]
    BY <1>18, <1>19, <2>1
  <2>3. /\ c.free_blocks = group_descs[g].free_blocks /\ c.free_inodes = Cardinality(F) - 1
        /\ c.used_dirs = group_descs[g].used_dirs
    BY <1>19, <2>1, <2>2
  <2>4. d = WithDir(c, kind)  BY <2>2 DEF WithInode
  <2>5. d = IF kind = "dir" THEN [c EXCEPT !.used_dirs = c.used_dirs + 1] ELSE c
    BY <2>4 DEF WithDir
  <2> HIDE DEF d
  <2>6. /\ d \in Desc /\ d.free_blocks = c.free_blocks /\ d.free_inodes = c.free_inodes
        /\ d.used_dirs = IF kind = "dir" THEN c.used_dirs + 1 ELSE c.used_dirs
    BY <2>5
  <2>7. group_descs' = [group_descs EXCEPT ![g] = d]  BY <1>9 DEF d
  <2> QED BY <2>3, <2>6, <2>7
<1> HIDE DEF Desc
<1>21. /\ group_descs' \in [Written -> Desc] /\ group_descs'[g] = d
       /\ \A h \in Written : h # g => group_descs'[h] = group_descs[h]
  BY <1>11, <1>12, <1>20
<1>22. /\ inode_bitmap' \in [Written -> SUBSET BitRange]
       /\ inode_bitmap'[g] = inode_bitmap[g] \cup {bit}
       /\ \A h \in Written : h # g => inode_bitmap'[h] = inode_bitmap[h]
  BY <1>9, <1>11, <1>12, <1>13
<1>23. Inputs'  BY <1>1 DEF GroupInv, Inputs
<1>24. Progress'
  <2>1. m * block_group_count(sb) \in Nat  BY <1>3
  <2>2. first_free_inode_no' - 1 <= m * block_group_count(sb)
    BY <1>1, <1>4, <1>7, <1>8, <2>1
  <2>3. i + 1 \in Nat /\ n + 1 \in Nat /\ n + 1 >= 12  BY <1>2, <1>4
  <2> QED BY <1>1, <1>4, <1>5, <2>2, <2>3 DEF GroupInv, Progress
<1>25. Types'  BY <1>1, <1>11, <1>12, <1>21, <1>22 DEF GroupInv, Types, BitRange, Desc
<1>26. InodeBits'
  <2>1. ASSUME NEW h \in Written, NEW b \in BitRange
        PROVE  b \in inode_bitmap'[h] <=> b >= m \/ m * h + b + 1 < n + 1
    <3>1. b \in Nat /\ h \in Nat  BY <1>3, <1>11 DEF BitRange, Groups
    <3>2. m * h \in Nat  BY <3>1
    <3>3. m * h + b + 1 < n + 1 <=> m * h + b + 1 < n \/ n = m * h + b + 1
      BY <3>1, <3>2
    <3>4. b >= m <=> b \notin 0 .. m - 1  BY <3>1
    <3>5. b \in inode_bitmap[h] <=> b >= m \/ m * h + b + 1 < n  BY <1>15
    <3>6. b \in inode_bitmap'[h] <=> b \in inode_bitmap[h] \/ (h = g /\ b = bit)
      BY <1>22
    <3>7. h = g /\ b = bit => n = m * h + b + 1  BY <1>7
    <3>8. n = m * h + b + 1 /\ b \in 0 .. m - 1 => h = g /\ b = bit  BY <1>7, <3>1
    <3> QED BY <3>3, <3>4, <3>5, <3>6, <3>7, <3>8
  <2> QED BY <1>1, <1>4, <1>5, <1>11, <2>1 DEF InodeBits, BitRange
<1>27. InodeTable'
  <2>1. DOMAIN inode_table = 12 .. n - 1 \cup {2}  BY <1>1, <1>4 DEF GroupInv, InodeTable
  <2>2. 12 .. (n + 1) - 1 = 12 .. n - 1 \cup {n}  BY <1>4
  <2>3. DOMAIN inode_table' = 12 .. (n + 1) - 1 \cup {2}  BY <1>10, <2>1, <2>2
  <2> QED BY <1>1, <1>4, <2>3 DEF InodeTable
<1>28. Directories'
  <2>1. n \notin DOMAIN inode_table
    <3>1. DOMAIN inode_table = 12 .. n - 1 \cup {2}  BY <1>1, <1>4 DEF GroupInv, InodeTable
    <3> QED BY <1>4, <3>1
  <2>2. \A h \in Written :
          group_descs'[h].used_dirs =
            IF h = GroupOfInode(n) /\ kind = "dir"
            THEN group_descs[h].used_dirs + 1 ELSE group_descs[h].used_dirs
    BY <1>6, <1>20, <1>21
  <2> QED BY <1>1, <1>10, <1>11, <2>1, <2>2, DirectoryAdded
<1>29. DOMAIN group_descs' = Written  BY <1>21
<1>30. CountsMatchBitmaps'
  <2>1. \A h \in Written :
          /\ group_descs[h].free_blocks = Cardinality(BlocksOf(h) \ block_bitmap[h])
          /\ group_descs[h].free_inodes = Cardinality(InodesOf(h) \ inode_bitmap[h])
    BY <1>13 DEF GroupInv, CountsMatchBitmaps, Initialised
  <2>2. InodesOf(g) \ inode_bitmap'[g] = F \ {bit}  BY <1>17, <1>22
  <2>3. \A h \in Written :
          /\ group_descs'[h].free_blocks = Cardinality(BlocksOf(h) \ block_bitmap[h])
          /\ group_descs'[h].free_inodes = Cardinality(InodesOf(h) \ inode_bitmap'[h])
    BY <1>18, <1>20, <1>21, <1>22, <2>1, <2>2
  <2> QED BY <1>1, <1>14, <1>29, <2>3 DEF CountsMatchBitmaps, Initialised
<1>31. BitmapsMarkTheUsed'
  BY <1>1, <1>13, <1>14, <1>29 DEF GroupInv, BitmapsMarkTheUsed, Initialised
<1> QED BY <1>23, <1>24, <1>25, <1>26, <1>27, <1>28, <1>30, <1>31 DEF GroupInv

\* add_extent_to_block_bitmap: the extent's bits are clear, and marking them
\* takes its length from the free count of its group.
LEMMA RegisterInv == GroupInv /\ register_extent => GroupInv'
<1> SUFFICES ASSUME GroupInv, register_extent PROVE GroupInv'  OBVIOUS
<1> DEFINE Desc == [free_blocks : Nat, free_inodes : Nat, used_dirs : Nat]
<1>1. /\ pc \in {"tree", "lost+found"} /\ pc' = pc /\ i' = i /\ sb' = sb /\ tree' = tree
      /\ first_free_inode_no' = first_free_inode_no
  BY DEF register_extent
<1>2. PICK e \in Registrable :
        add_extent_to_block_bitmap(e[1], e[2]) /\ registered' = registered \cup {e}
  BY DEF register_extent
<1>3. inode_bitmap' = inode_bitmap /\ inode_table' = inode_table
  BY <1>2 DEF add_extent_to_block_bitmap
<1>4. PICK g : g = GroupOfBlock(sb, e[1])  OBVIOUS
<1>5. PICK lo, hi : /\ lo = e[1] - block_group_start(sb, g)
                    /\ hi = e[2] - block_group_start(sb, g)
  OBVIOUS
<1>6. /\ block_bitmap' = [block_bitmap EXCEPT ![g] = block_bitmap[g] \cup (lo .. hi - 1)]
      /\ group_descs' = [group_descs EXCEPT ![g].free_blocks =
                           Wrap(group_descs[g].free_blocks - (e[2] - e[1]))]
  <2>1. BitsOfExtent(e[1], e[2]) = <<g, lo, hi>>  BY <1>4, <1>5 DEF BitsOfExtent
  <2> QED BY <1>2, <2>1 DEF add_extent_to_block_bitmap, set_bits
<1>7. /\ e \in Extents /\ g \in Groups /\ lo \in Nat /\ hi \in Nat /\ lo < hi
      /\ e[1] \in Nat /\ e[2] \in Nat /\ hi - lo = e[2] - e[1]
      /\ hi <= block_group_block_count(g)
      /\ \A bit \in lo .. hi - 1 : bit \notin block_bitmap[g]
      /\ \A h \in Groups : \A bit \in BlocksOf(h) :
           block_group_start(sb, h) + bit \in e[1] .. e[2] - 1 <=> h = g /\ bit \in lo .. hi - 1
  <2>1. pc # "descs"  BY <1>1
  <2> QED BY <1>4, <1>5, <2>1, ExtentFacts
<1>8. sb \in Layouts  BY DEF GroupInv, Inputs
<1>9. /\ sb.blocks_per_group \in Nat /\ sb.blocks_per_group <= BitsPerBlock
      /\ BitsPerBlock \in Nat /\ CountRange \in Nat /\ BitsPerBlock < CountRange
  BY <1>8, LayoutNumbers
<1>10. PICK c \in Nat : c = block_group_block_count(g) /\ c <= BitsPerBlock /\ c < CountRange
  <2>1. /\ block_group_block_count(g) \in Nat
        /\ block_group_block_count(g) <= sb.blocks_per_group
    BY <1>7, <1>8, BlockCountFacts
  <2> QED BY <1>9, <2>1
<1>11. Written = Groups /\ Written' = Written  BY <1>1, LayoutKept DEF Written
<1>12. /\ group_descs \in [Written -> Desc]
       /\ block_bitmap \in [Written -> SUBSET BitRange]
       /\ DOMAIN group_descs = Written /\ DOMAIN block_bitmap = Written
  BY DEF GroupInv, Types
<1>13. /\ \A x : BlocksOf(x)' = BlocksOf(x) /\ InodesOf(x)' = InodesOf(x)
       /\ \A x : GroupOfInode(x)' = GroupOfInode(x)
       /\ BlocksOf(g) = 0 .. c - 1
  BY <1>1, <1>10, LayoutKept DEF BlocksOf
<1>14. PICK F, X : F = BlocksOf(g) \ block_bitmap[g] /\ X = lo .. hi - 1  OBVIOUS
<1>15. /\ group_descs[g].free_blocks = Cardinality(F)
       /\ Cardinality(F) \in Nat /\ Cardinality(F) <= c
       /\ Cardinality(F \ X) = Cardinality(F) - (hi - lo)
       /\ Cardinality(F) - (hi - lo) \in Nat
  <2>1. group_descs[g].free_blocks = Cardinality(F)
    BY <1>7, <1>11, <1>12, <1>14 DEF GroupInv, CountsMatchBitmaps, Initialised
  <2>2. IsFiniteSet(0 .. c - 1) /\ Cardinality(0 .. c - 1) <= c
    <3>1. 0 \in Int /\ c - 1 \in Int  OBVIOUS
    <3>2. /\ IsFiniteSet(0 .. c - 1)
          /\ Cardinality(0 .. c - 1) = IF 0 > c - 1 THEN 0 ELSE (c - 1) - 0 + 1
      BY <3>1, FS_Interval
    <3> QED BY <3>2
  <2>3. F \in SUBSET (0 .. c - 1)  BY <1>13, <1>14
  <2>4. IsFiniteSet(F) /\ Cardinality(F) <= Cardinality(0 .. c - 1)  BY <2>2, <2>3, FS_Subset
  <2>5. Cardinality(F) \in Nat /\ Cardinality(0 .. c - 1) \in Nat
    BY <2>2, <2>4, FS_CardinalityType
  <2>6. Cardinality(X) = hi - lo
    <3>1. lo \in Int /\ hi - 1 \in Int  BY <1>7
    <3>2. Cardinality(lo .. hi - 1) = IF lo > hi - 1 THEN 0 ELSE (hi - 1) - lo + 1
      BY <3>1, FS_Interval
    <3> QED BY <1>7, <1>14, <3>2
  <2>7. \A bit \in X : bit \in 0 .. c - 1 /\ bit \notin block_bitmap[g]
    BY <1>7, <1>10, <1>14
  <2>8. F \cap X = X  BY <1>13, <1>14, <2>7
  <2>9. IsFiniteSet(F \ X) /\ Cardinality(F \ X) = Cardinality(F) - (hi - lo)
    <3>1. IsFiniteSet(F \ X) /\ Cardinality(F \ X) = Cardinality(F) - Cardinality(F \cap X)
      BY <2>4, FS_Difference
    <3> QED BY <2>6, <2>8, <3>1
  <2>10. Cardinality(F \ X) \in Nat  BY <2>9, FS_CardinalityType
  <2> QED BY <2>1, <2>2, <2>4, <2>5, <2>9, <2>10
<1>16. Wrap(group_descs[g].free_blocks - (e[2] - e[1])) = Cardinality(F) - (hi - lo)
  <2>1. Cardinality(F) - (hi - lo) < CountRange  BY <1>7, <1>9, <1>10, <1>15
  <2> QED BY <1>7, <1>15, <2>1, WrapFits
<1>17. /\ group_descs' \in [Written -> Desc]
       /\ group_descs'[g].free_blocks = Cardinality(F \ X)
       /\ group_descs'[g].free_inodes = group_descs[g].free_inodes
       /\ group_descs'[g].used_dirs = group_descs[g].used_dirs
       /\ \A h \in Written : h # g => group_descs'[h] = group_descs[h]
  <2>1. group_descs' = [group_descs EXCEPT ![g].free_blocks = Cardinality(F \ X)]
    BY <1>6, <1>15, <1>16
  <2>2. Cardinality(F \ X) \in Nat  BY <1>15
  <2> QED BY <1>7, <1>11, <1>12, <2>1, <2>2
<1>18. /\ block_bitmap' \in [Written -> SUBSET BitRange]
       /\ block_bitmap'[g] = block_bitmap[g] \cup X
       /\ \A h \in Written : h # g => block_bitmap'[h] = block_bitmap[h]
  <2>1. X \in SUBSET BitRange  BY <1>7, <1>9, <1>10, <1>14 DEF BitRange
  <2> QED BY <1>6, <1>7, <1>11, <1>12, <1>14, <2>1
<1>19. Inputs'  BY <1>1 DEF GroupInv, Inputs
<1>20. Progress'  BY <1>1 DEF GroupInv, Progress
<1>21. Types'
  <2>1. registered' \subseteq Extents  BY <1>2, <1>7 DEF GroupInv, Types
  <2> QED BY <1>3, <1>11, <1>12, <1>17, <1>18, <2>1 DEF GroupInv, Types, BitRange
<1>22. InodeBits'  BY <1>1, <1>3, <1>11 DEF GroupInv, InodeBits, BitRange
<1>23. InodeTable'  BY <1>1, <1>3 DEF GroupInv, InodeTable
<1>24. Directories'
  <2>1. \A h \in Written : group_descs'[h].used_dirs = group_descs[h].used_dirs  BY <1>17
  <2> QED BY <1>3, <1>11, <1>13, <2>1 DEF GroupInv, Directories
<1>25. DOMAIN group_descs' = Written  BY <1>17
<1>26. CountsMatchBitmaps'
  <2>1. \A h \in Written :
          /\ group_descs[h].free_blocks = Cardinality(BlocksOf(h) \ block_bitmap[h])
          /\ group_descs[h].free_inodes = Cardinality(InodesOf(h) \ inode_bitmap[h])
    BY <1>12 DEF GroupInv, CountsMatchBitmaps, Initialised
  <2>2. BlocksOf(g) \ block_bitmap'[g] = F \ X  BY <1>14, <1>18
  <2>3. \A h \in Written :
          /\ group_descs'[h].free_blocks = Cardinality(BlocksOf(h) \ block_bitmap'[h])
          /\ group_descs'[h].free_inodes = Cardinality(InodesOf(h) \ inode_bitmap[h])
    BY <1>17, <1>18, <2>1, <2>2
  <2> QED BY <1>3, <1>13, <1>25, <2>3 DEF CountsMatchBitmaps, Initialised
<1>27. BitmapsMarkTheUsed'
  <2>1. ASSUME NEW h \in Written, NEW bit \in 0 .. BitsPerBlock - 1, NEW b,
               b = block_group_start(sb, h) + bit
        PROVE  bit \in block_bitmap'[h] <=>
                 \/ bit \notin BlocksOf(h)
                 \/ IsMetadataBlock(sb, b)
                 \/ \E r \in registered' : b \in r[1] .. r[2] - 1
    <3>1. bit \in block_bitmap[h] <=>
            \/ bit \notin BlocksOf(h)
            \/ IsMetadataBlock(sb, b)
            \/ \E r \in registered : b \in r[1] .. r[2] - 1
      BY <1>12, <2>1 DEF GroupInv, BitmapsMarkTheUsed, Initialised
    <3>2. bit \in block_bitmap'[h] <=> bit \in block_bitmap[h] \/ (h = g /\ bit \in X)
      BY <1>18
    <3>3. (\E r \in registered' : b \in r[1] .. r[2] - 1) <=>
            \/ \E r \in registered : b \in r[1] .. r[2] - 1
            \/ b \in e[1] .. e[2] - 1
      BY <1>2
    <3>4. bit \in BlocksOf(h) => (b \in e[1] .. e[2] - 1 <=> h = g /\ bit \in X)
      BY <1>7, <1>11, <1>14, <2>1
    <3> QED BY <3>1, <3>2, <3>3, <3>4
  <2> QED BY <1>1, <1>13, <1>25, <2>1 DEF BitmapsMarkTheUsed, Initialised
<1> QED BY <1>19, <1>20, <1>21, <1>22, <1>23, <1>24, <1>26, <1>27 DEF GroupInv

-----------------------------------------------------------------------------
(* The theorems.                                                           *)

\* Every step of init_ext4_group_descs, the tree builder's calls and
\* finalize_block_groups_on_disk keeps the invariant.
THEOREM GroupInvariance == Spec => []GroupInv
<1>1. ASSUME GroupInv, [Next]_vars PROVE GroupInv'
  <2>1. CASE InitGroupDesc  BY <1>1, <2>1, InitGroupDescInv
  <2>2. CASE build_root_inode  BY <1>1, <2>2, RootInv
  <2>3. CASE build_inode  BY <1>1, <2>3, BuildInodeInv
  <2>4. CASE NotEnoughInodes  BY <1>1, <2>4, NotEnoughInodesInv
  <2>5. CASE register_extent  BY <1>1, <2>5, RegisterInv
  <2>6. CASE build_lost_found_inode  BY <1>1, <2>6, LostFoundInv
  <2>7. CASE SumGroup  BY <1>1, <2>7, SumGroupInv
  <2>8. CASE write_sb_copies  BY <1>1, <2>8, CopiesInv
  <2>9. CASE Stopped \/ UNCHANGED vars  BY <1>1, <2>9, StutterInv DEF Stopped
  <2> QED BY <1>1, <2>1, <2>2, <2>3, <2>4, <2>5, <2>6, <2>7, <2>8, <2>9 DEF Next
<1> QED BY <1>1, InitInv, PTL DEF Spec

\* The free counts of every descriptor are those of its bitmaps, at every
\* step: no add_inode and no add_extent_to_block_bitmap takes more than is free.
THEOREM CountsAlwaysMatch == Spec => []CountsMatchBitmaps
<1>1. GroupInv => CountsMatchBitmaps  BY DEF GroupInv
<1> QED BY <1>1, GroupInvariance, PTL

\* The block bitmaps mark the metadata of their group, the registered extents
\* and the bits behind the end of the partition, and nothing else.
THEOREM BitmapsAlwaysMarkTheUsed == Spec => []BitmapsMarkTheUsed
<1>1. GroupInv => BitmapsMarkTheUsed  BY DEF GroupInv
<1> QED BY <1>1, GroupInvariance, PTL

\* Inodes are handed out in order: a group's table holds exactly the inodes
\* whose bit is set, and its directories are counted.
THEOREM InodesAlwaysMatch == Spec => []InodesMatchBitmaps
<1>1. ASSUME GroupInv PROVE InodesMatchBitmaps
  <2>1. sb \in Layouts /\ Written \subseteq Groups /\ DOMAIN group_descs = Written
    <3>1. sb \in Layouts /\ DOMAIN group_descs = Written  BY <1>1 DEF GroupInv, Inputs, Types
    <3>2. block_group_count(sb) \in Nat  BY <3>1, LayoutNumbers
    <3>3. Written \subseteq Groups
      BY <1>1, <3>2 DEF GroupInv, Progress, Written, Groups
    <3> QED BY <3>1, <3>3
  <2>2. PICK m \in Nat : m = sb.inodes_per_group /\ m >= 11 /\ m <= BitsPerBlock
    BY <2>1, LayoutNumbers
  <2>3. PICK f \in Nat : f = first_free_inode_no /\ f >= 12  BY <1>1 DEF GroupInv, Progress
  <2>4. /\ BitsPerBlock \in Nat
        /\ \A g \in Written : \A bit \in BitRange :
             bit \in inode_bitmap[g] <=> bit >= m \/ m * g + bit + 1 < f
    BY <1>1, <2>1, <2>2, <2>3, LayoutNumbers DEF GroupInv, InodeBits
  <2>5. \A n : n \in DOMAIN inode_table /\ n > 11 <=> n \in 12 .. f - 1
    <3>1. 12 .. f - 1 \subseteq DOMAIN inode_table
      BY <1>1, <2>3 DEF GroupInv, InodeTable
    <3>2. DOMAIN inode_table \subseteq 12 .. f - 1 \cup {2, 11}
      BY <1>1, <2>3 DEF GroupInv, InodeTable
    <3> QED BY <2>3, <3>1, <3>2
  <2>6. ASSUME NEW g \in Written
        PROVE  { n \in { x \in DOMAIN inode_table : GroupOfInode(x) = g } : n > 11 } =
                 { g * m + bit + 1 :
                     bit \in { x \in inode_bitmap[g] \cap InodesOf(g) : x >= used_inodes(g) } }
    <3>1. g \in Nat  BY <2>1, LayoutNumbers DEF Groups
    <3>2. m * g \in Nat /\ g * m = m * g /\ (g = 0 => m * g = 0)  BY <3>1
    <3>3. g # 0 => m * g >= 11
      <4>1. SUFFICES ASSUME g # 0 PROVE m * g >= 11  OBVIOUS
      <4>2. m * 1 <= m * g  BY <3>1, <4>1, TimesMonotonic
      <4> QED BY <2>2, <3>2, <4>2
    <3>4. used_inodes(g) = IF g = 0 THEN 11 ELSE 0
      BY DEF used_inodes, EXT4_FIRST_NON_RSV_INODE
    <3>5. InodesOf(g) = 0 .. m - 1  BY <2>2 DEF InodesOf
    <3>6. ASSUME NEW n \in 12 .. f - 1, GroupOfInode(n) = g
          PROVE  \E bit \in { x \in inode_bitmap[g] \cap InodesOf(g) : x >= used_inodes(g) } :
                   n = g * m + bit + 1
      <4>1. n \in Nat \ {0}  BY <2>3
      <4>2. PICK bit \in 0 .. m - 1 : n = m * g + bit + 1
        BY <2>1, <2>2, <3>6, <4>1, InodeFacts
      <4>3. bit \in BitRange  BY <2>2, <2>4 DEF BitRange
      <4>4. bit \in inode_bitmap[g]  BY <2>3, <2>4, <4>1, <4>2, <4>3
      <4>5. bit >= used_inodes(g)  BY <3>2, <3>4, <4>1, <4>2
      <4> QED BY <3>2, <3>5, <4>2, <4>4, <4>5
    <3>7. ASSUME NEW bit \in inode_bitmap[g] \cap InodesOf(g), bit >= used_inodes(g),
                 NEW n, n = g * m + bit + 1
          PROVE  n \in 12 .. f - 1 /\ GroupOfInode(n) = g
      <4>1. bit \in 0 .. m - 1  BY <3>5
      <4>2. bit \in BitRange /\ ~ (bit >= m)  BY <2>2, <2>4, <4>1 DEF BitRange
      <4>3. m * g + bit + 1 < f  BY <2>4, <4>2
      <4>4. n = m * g + bit + 1  BY <3>2, <3>7
      <4>5. n >= 12 /\ n \in Nat \ {0}  BY <3>2, <3>3, <3>4, <3>7, <4>1, <4>4
      <4>6. GroupOfInode(n) = g  BY <2>1, <2>2, <3>1, <4>1, <4>4, <4>5, InodeFacts
      <4> QED BY <2>3, <4>3, <4>4, <4>5, <4>6
    <3> QED BY <2>5, <3>6, <3>7
  <2>7. \A g \in Written :
          group_descs[g].used_dirs =
            Cardinality({ n \in DOMAIN inode_table : GroupOfInode(n) = g /\ inode_table[n] = "dir" })
    BY <1>1 DEF GroupInv, Directories
  <2>8. \A g : { n \in DOMAIN inode_table : GroupOfInode(n) = g /\ inode_table[n] = "dir" } =
               { n \in { x \in DOMAIN inode_table : GroupOfInode(x) = g } : inode_table[n] = "dir" }
    OBVIOUS
  <2> QED BY <2>1, <2>2, <2>6, <2>7, <2>8
       DEF InodesMatchBitmaps, Initialised, EXT4_FIRST_NON_RSV_INODE
<1> QED BY <1>1, GroupInvariance, PTL

\* "Not enough inodes in your file system" is never printed while a group
\* still has one.
THEOREM ExitsOnlyWithoutInodes == Spec => []ExitOnlyWithoutInodes
<1>1. ASSUME GroupInv, pc = "exited", NEW g \in Groups, NEW bit \in InodesOf(g)
      PROVE  bit \in inode_bitmap[g]
  <2>1. sb \in Layouts /\ Written = Groups  BY <1>1 DEF GroupInv, Inputs, Written
  <2>2. PICK m \in Nat : m = sb.inodes_per_group /\ m <= BitsPerBlock
    BY <2>1, LayoutNumbers
  <2>3. PICK c \in Nat : c = block_group_count(sb)  BY <2>1, LayoutNumbers
  <2>4. PICK f \in Nat : f = first_free_inode_no /\ f - 1 >= m * c
    BY <1>1, <2>2, <2>3 DEF GroupInv, Progress
  <2>5. g \in Nat /\ g < c /\ bit \in 0 .. m - 1 /\ BitsPerBlock \in Nat
    BY <2>1, <2>2, <2>3, LayoutNumbers DEF Groups, InodesOf
  <2>6. m * g + m <= m * c  BY <2>5, TimesStep
  <2>7. m * g \in Nat /\ m * c \in Nat  BY <2>5
  <2>8. m * g + bit + 1 < f  BY <2>4, <2>5, <2>6, <2>7
  <2>9. bit \in BitRange  BY <2>2, <2>5 DEF BitRange
  <2> QED BY <1>1, <2>1, <2>2, <2>4, <2>8, <2>9 DEF GroupInv, InodeBits
<1>2. GroupInv => ExitOnlyWithoutInodes  BY <1>1 DEF ExitOnlyWithoutInodes
<1> QED BY <1>2, GroupInvariance, PTL

-----------------------------------------------------------------------------
(* The sums over all groups.                                               *)

\* A set of naturals has a least element.
LEMMA LeastNat ==
  ASSUME NEW S, S \subseteq Nat, S # {}
  PROVE  \E x \in S : \A y \in S : x <= y
<1>1. PICK x \in S : \A y \in S : ~ (<<y, x>> \in OpToRel(<, Nat))
  BY NatLessThanWellFounded, WFMin, Zenon
<1>2. ASSUME NEW y \in S PROVE x <= y
  <2>1. <<y, x>> \notin OpToRel(<, Nat)  BY <1>1
  <2>2. x \in Nat /\ y \in Nat  OBVIOUS
  <2>3. <<y, x>> \in Nat \X Nat /\ <<y, x>>[1] = y /\ <<y, x>>[2] = x  BY <2>2
  <2>4. y < x => <<y, x>> \in OpToRel(<, Nat)  BY <2>3, Zenon DEF OpToRel
  <2>5. ~ (y < x)  BY <2>1, <2>4, Zenon
  <2> QED BY <2>2, <2>5
<1> QED BY <1>2

\* The bits F gives for the groups in s, each with its group: their number is
\* the sum of the numbers of bits of each.
BitsIn(F, s) == { p \in s \X BitRange : p[2] \in F[p[1]] }

\* f is the fold FoldSet makes of the weights w.
FoldsSetTo(f, w, S) ==
  f = [s \in SUBSET S |-> IF s = {} THEN 0
                          ELSE w[CHOOSE x \in s : TRUE] + f[s \ {CHOOSE x \in s : TRUE}]]

\* One group adds its bits.
LEMMA GroupBitsAdded ==
  ASSUME NEW s, IsFiniteSet(s), NEW F, NEW x \in s, F[x] \subseteq BitRange
  PROVE  /\ IsFiniteSet(BitsIn(F, s)) /\ IsFiniteSet(F[x])
         /\ Cardinality(BitsIn(F, s)) = Cardinality(F[x]) + Cardinality(BitsIn(F, s \ {x}))
<1>1. IsFiniteSet(BitRange)  BY BitsAssumption, FS_Interval DEF BitRange
<1>2. IsFiniteSet(F[x]) /\ Cardinality(F[x]) \in Nat  BY <1>1, FS_Subset, FS_CardinalityType
<1>3. IsFiniteSet(s \X BitRange)  BY <1>1, FS_Product
<1>4. IsFiniteSet(BitsIn(F, s)) /\ IsFiniteSet(BitsIn(F, s \ {x}))
  <2>1. BitsIn(F, s) \in SUBSET (s \X BitRange)  BY DEF BitsIn
  <2>2. BitsIn(F, s \ {x}) \in SUBSET (s \X BitRange)  BY DEF BitsIn
  <2> QED BY <1>3, <2>1, <2>2, FS_Subset
<1> DEFINE own == {x} \X F[x]
           others == BitsIn(F, s \ {x})
<1>5. IsFiniteSet(own) /\ Cardinality(own) = Cardinality(F[x])
  <2>1. IsFiniteSet({x}) /\ Cardinality({x}) = 1  BY FS_Singleton
  <2>2. IsFiniteSet(own) /\ Cardinality(own) = 1 * Cardinality(F[x])
    BY <1>2, <2>1, FS_Product
  <2> QED BY <1>2, <2>2
<1>6. own \cup others = BitsIn(F, s)
  <2>1. ASSUME NEW p \in BitsIn(F, s) PROVE p \in own \cup others
    BY <2>1 DEF BitsIn
  <2>2. ASSUME NEW p \in own PROVE p \in BitsIn(F, s)
    BY <2>2 DEF BitsIn
  <2>3. others \subseteq BitsIn(F, s)  BY DEF BitsIn
  <2> QED BY <2>1, <2>2, <2>3
<1>7. own \cap others = {}  BY DEF BitsIn
<1>8. Cardinality(own \cap others) = 0  BY <1>7, FS_EmptySet
<1>9. Cardinality(own) \in Nat /\ Cardinality(others) \in Nat
  BY <1>4, <1>5, FS_CardinalityType
<1> HIDE DEF own, others
<1>10. Cardinality(own \cup others) =
         Cardinality(own) + Cardinality(others) - Cardinality(own \cap others)
  <2>1. IsFiniteSet(others)  BY <1>4 DEF others
  <2> QED BY <1>5, <2>1, FS_Union
<1>11. Cardinality(BitsIn(F, s)) = Cardinality(F[x]) + Cardinality(others)
  <2>1. Cardinality(BitsIn(F, s)) = Cardinality(own) + Cardinality(others) - Cardinality(own \cap others)
    BY <1>6, <1>10
  <2>2. Cardinality(own) = Cardinality(F[x])  BY <1>5
  <2> QED BY <1>8, <1>9, <2>1, <2>2
<1> QED BY <1>2, <1>4, <1>11 DEF others

\* The numbers of bits in sets of groups are a fold, and the only one.
LEMMA FoldCountsBits ==
  ASSUME NEW S, IsFiniteSet(S), NEW F, \A x \in S : F[x] \subseteq BitRange,
         NEW w, \A x \in S : w[x] = Cardinality(F[x])
  PROVE  /\ \E f : FoldsSetTo(f, w, S)
         /\ \A f : FoldsSetTo(f, w, S) => f[S] = Cardinality(BitsIn(F, S))
<1> DEFINE N == [s \in SUBSET S |-> Cardinality(BitsIn(F, s))]
           e(s) == CHOOSE x \in s : TRUE
<1>1. N[{}] = 0
  <2>1. BitsIn(F, {}) = {}  BY DEF BitsIn
  <2>2. Cardinality({}) = 0  BY FS_EmptySet
  <2> QED BY <2>1, <2>2
<1>2. ASSUME NEW s \in SUBSET S, s # {}
      PROVE  /\ e(s) \in s /\ s \ {e(s)} \in SUBSET S
             /\ N[s] = w[e(s)] + N[s \ {e(s)}]
             /\ Cardinality(s \ {e(s)}) = Cardinality(s) - 1 /\ Cardinality(s) \in Nat
  <2>1. e(s) \in s  BY <1>2
  <2>2. IsFiniteSet(s)  BY FS_Subset
  <2>3. PICK x \in s : x = e(s)  BY <2>1
  <2>4. Cardinality(BitsIn(F, s)) = Cardinality(F[x]) + Cardinality(BitsIn(F, s \ {x}))
    BY <2>2, GroupBitsAdded
  <2>5. s \ {x} \in SUBSET S  OBVIOUS
  <2>6. N[s] = w[x] + N[s \ {x}]  BY <2>4, <2>5
  <2>7. Cardinality(s \ {x}) = Cardinality(s) - 1 /\ Cardinality(s) \in Nat
    BY <2>2, FS_RemoveElement, FS_CardinalityType
  <2> HIDE DEF N, e
  <2> QED BY <2>1, <2>3, <2>5, <2>6, <2>7
<1>3. FoldsSetTo(N, w, S)
  <2>1. \A s \in SUBSET S : N[s] = IF s = {} THEN 0 ELSE w[e(s)] + N[s \ {e(s)}]
    <3> HIDE DEF N, e
    <3> QED BY <1>1, <1>2
  <2>2. N = [s \in SUBSET S |-> N[s]]  OBVIOUS
  <2>3. N = [s \in SUBSET S |-> IF s = {} THEN 0 ELSE w[e(s)] + N[s \ {e(s)}]]
    <3> HIDE DEF N, e
    <3> QED BY <2>1, <2>2
  <2> QED BY <2>3, Zenon DEF FoldsSetTo
<1>4. ASSUME NEW f, FoldsSetTo(f, w, S)
      PROVE  f[S] = N[S]
  <2> DEFINE C == { s \in SUBSET S : f[s] # N[s] }
             K == { Cardinality(s) : s \in C }
  <2>1. \A s \in SUBSET S : f[s] = IF s = {} THEN 0 ELSE w[e(s)] + f[s \ {e(s)}]
    BY <1>4, Zenon DEF FoldsSetTo
  <2> HIDE DEF e, N
  <2>2. SUFFICES ASSUME C # {} PROVE FALSE  OBVIOUS
  <2>3. K \subseteq Nat /\ K # {}
    <3>1. \A s \in C : Cardinality(s) \in Nat
      <4>1. {} \notin C  BY <1>1, <2>1
      <4> QED BY <1>2, <4>1
    <3> QED BY <2>2, <3>1
  <2>4. PICK k \in K : \A y \in K : k <= y  BY <2>3, LeastNat, Zenon
  <2>5. PICK s \in C : k = Cardinality(s)  BY <2>4
  <2>6. s \in SUBSET S /\ s # {}  BY <1>1, <2>1, <2>5
  <2>7. /\ s \ {e(s)} \in SUBSET S
        /\ Cardinality(s \ {e(s)}) = Cardinality(s) - 1 /\ Cardinality(s) \in Nat
    BY <1>2, <2>6
  <2>8. s \ {e(s)} \notin C
    <3>1. SUFFICES ASSUME s \ {e(s)} \in C PROVE FALSE  OBVIOUS
    <3>2. k <= Cardinality(s \ {e(s)})  BY <2>4, <3>1
    <3> QED BY <2>5, <2>7, <3>2
  <2>9. f[s \ {e(s)}] = N[s \ {e(s)}]  BY <2>7, <2>8
  <2>10. f[s] = N[s]  BY <1>2, <2>1, <2>6, <2>9
  <2> QED BY <2>5, <2>10
<1>5. N[S] = Cardinality(BitsIn(F, S))  OBVIOUS
<1> HIDE DEF N
<1> QED BY <1>3, <1>4, <1>5

\* The clear bits of each group.
FreeBlocks == [g \in Groups |-> BlocksOf(g) \ block_bitmap[g]]
FreeInodes == [g \in Groups |-> InodesOf(g) \ inode_bitmap[g]]

\* While finalize_block_groups_on_disk runs, the totals are the clear bits of
\* the groups before i.
SumInv ==
  /\ pc \in {"descs", "tree", "lost+found"} => totals = [blocks |-> 0, inodes |-> 0]
  /\ pc = "lost+found" => i = 0
  /\ pc \in {"sums", "done"} =>
       /\ i <= block_group_count(sb)
       /\ totals = [blocks |-> Cardinality(BitsIn(FreeBlocks, 0 .. i - 1)),
                    inodes |-> Cardinality(BitsIn(FreeInodes, 0 .. i - 1))]
  /\ pc = "done" => i = block_group_count(sb) /\ copies = [g \in CopyTargets |-> totals]

\* The groups, and the clear bits they have.
LEMMA FreeFacts ==
  ASSUME GroupInv, pc # "descs"
  PROVE  /\ Groups = 0 .. block_group_count(sb) - 1 /\ block_group_count(sb) \in Nat \ {0}
         /\ IsFiniteSet(Groups)
         /\ \A g \in Groups : FreeBlocks[g] \subseteq BitRange /\ FreeInodes[g] \subseteq BitRange
         /\ \A g \in Groups : /\ group_descs[g].free_blocks = Cardinality(FreeBlocks[g])
                              /\ group_descs[g].free_inodes = Cardinality(FreeInodes[g])
<1>1. sb \in Layouts  BY DEF GroupInv, Inputs
<1>2. /\ sb.blocks_per_group \in Nat /\ sb.blocks_per_group <= BitsPerBlock
      /\ sb.inodes_per_group \in Nat /\ sb.inodes_per_group <= BitsPerBlock
      /\ block_group_count(sb) \in Nat \ {0} /\ BitsPerBlock \in Nat
  BY <1>1, LayoutNumbers
<1>3. IsFiniteSet(Groups)  BY <1>2, FS_Interval DEF Groups
<1>4. ASSUME NEW g \in Groups
      PROVE  FreeBlocks[g] \subseteq BitRange /\ FreeInodes[g] \subseteq BitRange
  <2>1. /\ block_group_block_count(g) \in Nat
        /\ block_group_block_count(g) <= sb.blocks_per_group
    BY <1>1, BlockCountFacts
  <2>2. BlocksOf(g) \subseteq BitRange  BY <1>2, <2>1 DEF BlocksOf, BitRange
  <2>3. InodesOf(g) \subseteq BitRange  BY <1>2 DEF InodesOf, BitRange
  <2> QED BY <2>2, <2>3 DEF FreeBlocks, FreeInodes
<1>5. DOMAIN group_descs = Groups  BY DEF GroupInv, Types, Written
<1>6. ASSUME NEW g \in Groups
      PROVE  /\ group_descs[g].free_blocks = Cardinality(FreeBlocks[g])
             /\ group_descs[g].free_inodes = Cardinality(FreeInodes[g])
  BY <1>5 DEF GroupInv, CountsMatchBitmaps, Initialised, FreeBlocks, FreeInodes
<1> QED BY <1>2, <1>3, <1>4, <1>6 DEF Groups

\* All inodes together fit into a count.
LEMMA FreeInodesFit ==
  ASSUME GroupInv, pc # "descs", NEW n \in Nat, n <= block_group_count(sb)
  PROVE  /\ Cardinality(BitsIn(FreeInodes, 0 .. n - 1)) \in Nat
         /\ Cardinality(BitsIn(FreeInodes, 0 .. n - 1)) < CountRange
<1>1. sb \in Layouts  BY DEF GroupInv, Inputs
<1>2. PICK c \in Nat, m \in Nat, r \in Nat :
        c = block_group_count(sb) /\ m = sb.inodes_per_group /\ r = CountRange /\ c * m < r
  BY <1>1, LayoutNumbers, BlockGroupsAssumption
<1>3. /\ IsFiniteSet(0 .. c - 1) /\ Cardinality(0 .. c - 1) = c
      /\ IsFiniteSet(0 .. m - 1) /\ Cardinality(0 .. m - 1) = m
  <2>1. ASSUME NEW k \in Nat PROVE IsFiniteSet(0 .. k - 1) /\ Cardinality(0 .. k - 1) = k
    <3>1. 0 \in Int /\ k - 1 \in Int /\ (0 > k - 1 <=> k = 0) /\ k - 1 - 0 + 1 = k  OBVIOUS
    <3> QED BY <3>1, FS_Interval
  <2> QED BY <2>1
<1> DEFINE P == (0 .. c - 1) \X (0 .. m - 1)
           B == BitsIn(FreeInodes, 0 .. n - 1)
<1>4. IsFiniteSet(P) /\ Cardinality(P) = c * m
  <2>1. IsFiniteSet(P) /\ Cardinality(P) = Cardinality(0 .. c - 1) * Cardinality(0 .. m - 1)
    BY <1>3, FS_Product
  <2> QED BY <1>3, <2>1, Zenon
<1>5. B \in SUBSET P
  <2>1. ASSUME NEW p \in B PROVE p \in P
    <3>1. p \in (0 .. n - 1) \X BitRange /\ p[2] \in FreeInodes[p[1]]  BY DEF BitsIn
    <3>2. p[1] \in Groups  BY <1>2, <3>1 DEF Groups
    <3>3. p[2] \in InodesOf(p[1])  BY <3>1, <3>2 DEF FreeInodes
    <3>4. p[1] \in 0 .. c - 1 /\ p[2] \in 0 .. m - 1  BY <1>2, <3>2, <3>3 DEF Groups, InodesOf
    <3> QED BY <3>1, <3>4
  <2> QED BY <2>1
<1>6. IsFiniteSet(B) /\ Cardinality(B) <= Cardinality(P)  BY <1>4, <1>5, FS_Subset
<1>7. Cardinality(B) \in Nat  BY <1>6, FS_CardinalityType
<1>8. c * m \in Nat  OBVIOUS
<1> QED BY <1>2, <1>4, <1>6, <1>7, <1>8

\* A step that leaves the groups alone leaves their clear bits alone.
LEMMA FreeKept ==
  ASSUME sb' = sb, block_bitmap' = block_bitmap, inode_bitmap' = inode_bitmap
  PROVE  FreeBlocks' = FreeBlocks /\ FreeInodes' = FreeInodes
<1>1. Groups' = Groups /\ \A g : BlocksOf(g)' = BlocksOf(g) /\ InodesOf(g)' = InodesOf(g)
  BY LayoutKept
<1> QED BY <1>1 DEF FreeBlocks, FreeInodes

\* One iteration adds the clear bits of group i.
LEMMA SumGroupKeepsSums == GroupInv /\ SumInv /\ SumGroup => SumInv'
<1> SUFFICES ASSUME GroupInv, SumInv, SumGroup PROVE SumInv'  OBVIOUS
<1>1. /\ pc \in {"lost+found", "sums"} /\ pc' = "sums" /\ i \in Groups /\ i' = i + 1
      /\ totals' = [blocks |-> totals.blocks + group_descs[i].free_blocks,
                    inodes |-> Wrap(totals.inodes + group_descs[i].free_inodes)]
      /\ sb' = sb /\ block_bitmap' = block_bitmap /\ inode_bitmap' = inode_bitmap
  BY IndexHolds DEF SumGroup, groupVars, GroupInv, Inputs
<1>2. pc # "descs"  BY <1>1
<1>3. PICK c \in Nat : c = block_group_count(sb) /\ Groups = 0 .. c - 1
  BY <1>2, FreeFacts
<1>4. i \in Nat /\ i < c /\ i + 1 - 1 = i  BY <1>1, <1>3
<1> DEFINE s == 0 .. i
           t == 0 .. i - 1
<1>5. s \ {i} = t /\ i \in s /\ s \subseteq Groups /\ IsFiniteSet(s)
  <2>1. IsFiniteSet(s)  BY <1>4, FS_Interval
  <2> QED BY <1>3, <1>4, <2>1
<1>6. /\ FreeBlocks[i] \subseteq BitRange /\ FreeInodes[i] \subseteq BitRange
      /\ group_descs[i].free_blocks = Cardinality(FreeBlocks[i])
      /\ group_descs[i].free_inodes = Cardinality(FreeInodes[i])
  BY <1>1, <1>2, FreeFacts
<1>7. totals.blocks = Cardinality(BitsIn(FreeBlocks, t)) /\ totals.inodes = Cardinality(BitsIn(FreeInodes, t))
  <2>1. CASE pc = "sums"  BY <2>1 DEF SumInv
  <2>2. CASE pc = "lost+found"
    <3>1. i = 0 /\ totals.blocks = 0 /\ totals.inodes = 0  BY <2>2 DEF SumInv
    <3>2. t = {}  BY <3>1
    <3>3. BitsIn(FreeBlocks, t) = {} /\ BitsIn(FreeInodes, t) = {}  BY <3>2 DEF BitsIn
    <3> QED BY <3>1, <3>3, FS_EmptySet
  <2> QED BY <1>1, <2>1, <2>2
<1>8. /\ Cardinality(BitsIn(FreeBlocks, s)) = Cardinality(FreeBlocks[i]) + Cardinality(BitsIn(FreeBlocks, t))
      /\ Cardinality(BitsIn(FreeInodes, s)) = Cardinality(FreeInodes[i]) + Cardinality(BitsIn(FreeInodes, t))
      /\ IsFiniteSet(FreeBlocks[i]) /\ IsFiniteSet(BitsIn(FreeBlocks, s))
      /\ IsFiniteSet(FreeInodes[i])
  <2> HIDE DEF s, t
  <2> QED BY <1>5, <1>6, GroupBitsAdded
<1>9. Cardinality(BitsIn(FreeInodes, s)) \in Nat /\ Cardinality(BitsIn(FreeInodes, s)) < CountRange
  <2>1. i + 1 \in Nat /\ i + 1 <= block_group_count(sb)  BY <1>3, <1>4
  <2>2. 0 .. (i + 1) - 1 = s  BY <1>4
  <2> HIDE DEF s
  <2> QED BY <1>2, <2>1, <2>2, FreeInodesFit
<1>10. /\ Cardinality(BitsIn(FreeInodes, t)) \in Nat /\ Cardinality(FreeInodes[i]) \in Nat
       /\ Cardinality(BitsIn(FreeBlocks, t)) \in Nat /\ Cardinality(FreeBlocks[i]) \in Nat
  <2>1. IsFiniteSet(BitRange)  BY BitsAssumption, FS_Interval DEF BitRange
  <2>2. IsFiniteSet(t \X BitRange)
    <3>1. IsFiniteSet(t)  BY <1>5, FS_Subset
    <3> QED BY <2>1, <3>1, FS_Product
  <2>3. /\ BitsIn(FreeInodes, t) \in SUBSET (t \X BitRange)
        /\ BitsIn(FreeBlocks, t) \in SUBSET (t \X BitRange)
    BY DEF BitsIn
  <2> QED BY <1>8, <2>2, <2>3, FS_Subset, FS_CardinalityType
<1>11. totals'.blocks = Cardinality(BitsIn(FreeBlocks, s))
  BY <1>1, <1>6, <1>7, <1>8, <1>10
<1>12. totals'.inodes = Cardinality(BitsIn(FreeInodes, s))
  <2>1. totals.inodes + group_descs[i].free_inodes = Cardinality(BitsIn(FreeInodes, s))
    BY <1>6, <1>7, <1>8, <1>10
  <2> QED BY <1>1, <1>9, <2>1, WrapFits
<1>13. totals' = [blocks |-> Cardinality(BitsIn(FreeBlocks, s)),
                  inodes |-> Cardinality(BitsIn(FreeInodes, s))]
  BY <1>1, <1>11, <1>12
<1>14. FreeBlocks' = FreeBlocks /\ FreeInodes' = FreeInodes  BY <1>1, FreeKept
<1>15. i' - 1 = i /\ i' <= block_group_count(sb)'  BY <1>1, <1>3, <1>4
<1>16. totals' = [blocks |-> Cardinality(BitsIn(FreeBlocks', 0 .. i' - 1)),
                  inodes |-> Cardinality(BitsIn(FreeInodes', 0 .. i' - 1))]
  BY <1>13, <1>14, <1>15
<1> QED BY <1>1, <1>15, <1>16 DEF SumInv

\* No other step changes what the totals count.
LEMMA SumsKept == GroupInv /\ SumInv /\ [Next]_vars => SumInv'
<1> SUFFICES ASSUME GroupInv, SumInv, [Next]_vars PROVE SumInv'  OBVIOUS
<1>1. CASE InitGroupDesc  BY <1>1 DEF InitGroupDesc, SumInv, sumVars
<1>2. CASE build_root_inode  BY <1>2 DEF build_root_inode, SumInv, sumVars
<1>3. CASE build_inode  BY <1>3 DEF build_inode, SumInv, sumVars
<1>4. CASE NotEnoughInodes  BY <1>4 DEF NotEnoughInodes, SumInv, sumVars
<1>5. CASE register_extent  BY <1>5 DEF register_extent, SumInv, sumVars
<1>6. CASE build_lost_found_inode  BY <1>6 DEF build_lost_found_inode, SumInv, sumVars
<1>7. CASE SumGroup  BY <1>7, SumGroupKeepsSums
<1>8. CASE write_sb_copies
  <2>1. /\ pc = "sums" /\ pc' = "done" /\ i = block_group_count(sb) /\ i' = i /\ totals' = totals
        /\ copies' = [g \in CopyTargets |-> totals]
        /\ sb' = sb /\ block_bitmap' = block_bitmap /\ inode_bitmap' = inode_bitmap
    BY <1>8 DEF write_sb_copies, groupVars
  <2>2. FreeBlocks' = FreeBlocks /\ FreeInodes' = FreeInodes  BY <2>1, FreeKept
  <2>3. CopyTargets' = CopyTargets  BY <2>1 DEF CopyTargets
  <2> QED BY <2>1, <2>2, <2>3 DEF SumInv
<1>9. CASE Stopped \/ UNCHANGED vars
  <2>1. UNCHANGED vars  BY <1>9 DEF Stopped
  <2>2. /\ sb' = sb /\ block_bitmap' = block_bitmap /\ inode_bitmap' = inode_bitmap
        /\ pc' = pc /\ i' = i /\ totals' = totals /\ copies' = copies
    BY <2>1 DEF vars, groupVars, sumVars
  <2>3. FreeBlocks' = FreeBlocks /\ FreeInodes' = FreeInodes  BY <2>2, FreeKept
  <2>4. CopyTargets' = CopyTargets  BY <2>2 DEF CopyTargets
  <2> QED BY <2>2, <2>3, <2>4 DEF SumInv
<1> QED BY <1>1, <1>2, <1>3, <1>4, <1>5, <1>6, <1>7, <1>8, <1>9 DEF Next

\* What FoldSet makes of the clear bits of all block bitmaps is
\* their number.
LEMMA FoldOfBlocks ==
  ASSUME GroupInv, pc # "descs"
  PROVE  FoldSet(LAMBDA h, sum : Cardinality(BlocksOf(h) \ block_bitmap[h]) + sum, 0, Groups)
           = Cardinality(BitsIn(FreeBlocks, Groups))
<1> DEFINE w == [g \in Groups |-> Cardinality(FreeBlocks[g])]
           P(f) == f = [s \in SUBSET Groups |->
                          IF s = {} THEN 0
                          ELSE Cardinality(BlocksOf(CHOOSE x \in s : TRUE)
                                             \ block_bitmap[CHOOSE x \in s : TRUE])
                                 + f[s \ {CHOOSE x \in s : TRUE}]]
           F == CHOOSE f : P(f)
<1>1. FoldSet(LAMBDA h, sum : Cardinality(BlocksOf(h) \ block_bitmap[h]) + sum, 0, Groups)
        = F[Groups]
  BY Zenon DEF FoldSet, MapThenFoldSet
<1>2. ASSUME NEW f PROVE P(f) <=> FoldsSetTo(f, w, Groups)
  <2>1. ASSUME NEW s \in SUBSET Groups, s # {}
        PROVE  Cardinality(BlocksOf(CHOOSE x \in s : TRUE) \ block_bitmap[CHOOSE x \in s : TRUE])
                 = w[CHOOSE x \in s : TRUE]
    <3>1. PICK x \in s : x = CHOOSE y \in s : TRUE  BY <2>1
    <3>2. Cardinality(BlocksOf(x) \ block_bitmap[x]) = w[x]  BY DEF FreeBlocks
    <3> HIDE DEF w
    <3> QED BY <3>1, <3>2, Zenon
  <2>2. [s \in SUBSET Groups |->
            IF s = {} THEN 0
            ELSE Cardinality(BlocksOf(CHOOSE x \in s : TRUE) \ block_bitmap[CHOOSE x \in s : TRUE])
                   + f[s \ {CHOOSE x \in s : TRUE}]]
          = [s \in SUBSET Groups |->
               IF s = {} THEN 0
               ELSE w[CHOOSE x \in s : TRUE] + f[s \ {CHOOSE x \in s : TRUE}]]
    <3> HIDE DEF w
    <3> QED BY <2>1
  <2> HIDE DEF w
  <2> QED BY <2>2, Zenon DEF FoldsSetTo
<1>3. /\ \E f : FoldsSetTo(f, w, Groups)
      /\ \A f : FoldsSetTo(f, w, Groups) => f[Groups] = Cardinality(BitsIn(FreeBlocks, Groups))
  <2>1. IsFiniteSet(Groups) /\ \A g \in Groups : FreeBlocks[g] \subseteq BitRange
    BY FreeFacts
  <2>2. \A g \in Groups : w[g] = Cardinality(FreeBlocks[g])  OBVIOUS
  <2> HIDE DEF w
  <2> QED BY <2>1, <2>2, FoldCountsBits
<1>4. P(F)
  <2>1. \E f : P(f)
    <3> HIDE DEF P
    <3> QED BY <1>2, <1>3, Zenon
  <2> HIDE DEF P
  <2> QED BY <2>1, Zenon
<1>5. FoldsSetTo(F, w, Groups)
  <2> HIDE DEF P, F
  <2> QED BY <1>2, <1>4, Zenon
<1> HIDE DEF F, w
<1> QED BY <1>1, <1>3, <1>5, Zenon

\* What FoldSet makes of the clear bits of all inode bitmaps is
\* their number.
LEMMA FoldOfInodes ==
  ASSUME GroupInv, pc # "descs"
  PROVE  FoldSet(LAMBDA h, sum : Cardinality(InodesOf(h) \ inode_bitmap[h]) + sum, 0, Groups)
           = Cardinality(BitsIn(FreeInodes, Groups))
<1> DEFINE w == [g \in Groups |-> Cardinality(FreeInodes[g])]
           P(f) == f = [s \in SUBSET Groups |->
                          IF s = {} THEN 0
                          ELSE Cardinality(InodesOf(CHOOSE x \in s : TRUE)
                                             \ inode_bitmap[CHOOSE x \in s : TRUE])
                                 + f[s \ {CHOOSE x \in s : TRUE}]]
           F == CHOOSE f : P(f)
<1>1. FoldSet(LAMBDA h, sum : Cardinality(InodesOf(h) \ inode_bitmap[h]) + sum, 0, Groups)
        = F[Groups]
  BY Zenon DEF FoldSet, MapThenFoldSet
<1>2. ASSUME NEW f PROVE P(f) <=> FoldsSetTo(f, w, Groups)
  <2>1. ASSUME NEW s \in SUBSET Groups, s # {}
        PROVE  Cardinality(InodesOf(CHOOSE x \in s : TRUE) \ inode_bitmap[CHOOSE x \in s : TRUE])
                 = w[CHOOSE x \in s : TRUE]
    <3>1. PICK x \in s : x = CHOOSE y \in s : TRUE  BY <2>1
    <3>2. Cardinality(InodesOf(x) \ inode_bitmap[x]) = w[x]  BY DEF FreeInodes
    <3> HIDE DEF w
    <3> QED BY <3>1, <3>2, Zenon
  <2>2. [s \in SUBSET Groups |->
            IF s = {} THEN 0
            ELSE Cardinality(InodesOf(CHOOSE x \in s : TRUE) \ inode_bitmap[CHOOSE x \in s : TRUE])
                   + f[s \ {CHOOSE x \in s : TRUE}]]
          = [s \in SUBSET Groups |->
               IF s = {} THEN 0
               ELSE w[CHOOSE x \in s : TRUE] + f[s \ {CHOOSE x \in s : TRUE}]]
    <3> HIDE DEF w
    <3> QED BY <2>1
  <2> HIDE DEF w
  <2> QED BY <2>2, Zenon DEF FoldsSetTo
<1>3. /\ \E f : FoldsSetTo(f, w, Groups)
      /\ \A f : FoldsSetTo(f, w, Groups) => f[Groups] = Cardinality(BitsIn(FreeInodes, Groups))
  <2>1. IsFiniteSet(Groups) /\ \A g \in Groups : FreeInodes[g] \subseteq BitRange
    BY FreeFacts
  <2>2. \A g \in Groups : w[g] = Cardinality(FreeInodes[g])  OBVIOUS
  <2> HIDE DEF w
  <2> QED BY <2>1, <2>2, FoldCountsBits
<1>4. P(F)
  <2>1. \E f : P(f)
    <3> HIDE DEF P
    <3> QED BY <1>2, <1>3, Zenon
  <2> HIDE DEF P
  <2> QED BY <2>1, Zenon
<1>5. FoldsSetTo(F, w, Groups)
  <2> HIDE DEF P, F
  <2> QED BY <1>2, <1>4, Zenon
<1> HIDE DEF F, w
<1> QED BY <1>1, <1>3, <1>5, Zenon

\* finalize_block_groups_on_disk: the superblock copies are in the groups that
\* have room for them, and hold the sums of the clear bits of all bitmaps.
THEOREM CopiesAreComplete == Spec => []CopiesComplete
<1>1. Init => SumInv  BY DEF Init, SumInv
<1>2. Spec => []SumInv
  <2>1. GroupInv /\ SumInv /\ [Next]_vars => SumInv'  BY SumsKept
  <2> QED BY <1>1, <2>1, GroupInvariance, PTL DEF Spec
<1>3. ASSUME GroupInv, SumInv, pc = "done"
      PROVE  CopiesComplete
  <2>1. pc # "descs" /\ i = block_group_count(sb) /\ copies = [g \in CopyTargets |-> totals]
    BY <1>3 DEF SumInv
  <2>2. Groups = 0 .. i - 1 /\ i \in Nat \ {0}  BY <1>3, <2>1, FreeFacts
  <2>3. totals = [blocks |-> Cardinality(BitsIn(FreeBlocks, Groups)),
                  inodes |-> Cardinality(BitsIn(FreeInodes, Groups))]
    BY <1>3, <2>2 DEF SumInv
  <2>4. CopyTargets = { g \in Groups : block_group_has_sb_copy(sb, g) }
    <3>1. /\ backup_bgs(sb)[1] = IF i > 1 THEN 1 ELSE 0
          /\ backup_bgs(sb)[2] = IF i > 2 THEN i - 1 ELSE 0
      BY <2>1 DEF backup_bgs
    <3>2. 0 \in Groups /\ backup_bgs(sb)[1] \in Groups /\ backup_bgs(sb)[2] \in Groups
      BY <2>2, <3>1
    <3> QED BY <3>2 DEF CopyTargets, block_group_has_sb_copy
  <2>5. \A g \in CopyTargets : copies[g] = totals  BY <2>1
  <2>6. DOMAIN copies = CopyTargets  BY <2>1
  <2>7. totals.blocks = FoldSet(LAMBDA h, sum :
                          Cardinality(BlocksOf(h) \ block_bitmap[h]) + sum, 0, Groups)
    BY <1>3, <2>1, <2>3, FoldOfBlocks
  <2>8. totals.inodes = FoldSet(LAMBDA h, sum :
                          Cardinality(InodesOf(h) \ inode_bitmap[h]) + sum, 0, Groups)
    BY <1>3, <2>1, <2>3, FoldOfInodes
  <2> QED BY <2>4, <2>5, <2>6, <2>7, <2>8 DEF CopiesComplete
<1>4. GroupInv /\ SumInv => CopiesComplete  BY <1>3 DEF CopiesComplete
<1> QED BY <1>2, <1>4, GroupInvariance, PTL

-----------------------------------------------------------------------------
(* The bitmaps, segment by segment.                                        *)

\* A later segment starts at least a segment further on.
LEMMA SegmentStep ==
  ASSUME NEW a \in Nat, NEW b \in Nat, NEW m \in Nat, a < b
  PROVE  m * a + m <= m * b
<1>1. b - a - 1 \in Nat  OBVIOUS
<1>2. m * (b - a - 1) \in Nat  BY <1>1
<1>3. m * b = m * a + m + m * (b - a - 1)  OBVIOUS
<1> QED BY <1>2, <1>3

\* A position is its segment and its bit there.
LEMMA PositionSplits ==
  ASSUME NEW p \in Nat
  PROVE  /\ p \div SegmentBits \in Nat
         /\ p % SegmentBits \in Bits
         /\ p = SegmentBits * (p \div SegmentBits) + (p % SegmentBits)
<1>1. SegmentBits \in Nat \ {0}  BY SegmentAssumption
<1> QED BY <1>1 DEF Bits

\* Positions compare as their segments do, and within one as their bits.
LEMMA PositionOrder ==
  ASSUME NEW p \in Nat, NEW k \in Nat
  PROVE  /\ p < SegmentBits * k <=> p \div SegmentBits < k
         /\ p < SegmentBits * (k + 1) <=> p \div SegmentBits <= k
<1> DEFINE q == p \div SegmentBits
           r == p % SegmentBits
<1>1. SegmentBits \in Nat \ {0}  BY SegmentAssumption
<1>2. q \in Nat /\ r \in 0 .. SegmentBits - 1 /\ p = SegmentBits * q + r
  BY PositionSplits DEF Bits
<1>3. ASSUME NEW n \in Nat PROVE p < SegmentBits * n <=> q < n
  <2>1. CASE q < n
    <3>1. SegmentBits * q + SegmentBits <= SegmentBits * n  BY <1>1, <1>2, <2>1, SegmentStep
    <3> HIDE DEF q, r
    <3>2. SegmentBits * q \in Nat /\ SegmentBits * n \in Nat  BY <1>1, <1>2
    <3> QED BY <1>1, <1>2, <2>1, <3>1, <3>2
  <2>2. CASE q = n
    <3> HIDE DEF q, r
    <3>1. SegmentBits * q \in Nat  BY <1>1, <1>2
    <3> QED BY <1>1, <1>2, <2>2, <3>1
  <2>3. CASE n < q
    <3>1. SegmentBits * n + SegmentBits <= SegmentBits * q  BY <1>1, <1>2, <2>3, SegmentStep
    <3> HIDE DEF q, r
    <3>2. SegmentBits * q \in Nat /\ SegmentBits * n \in Nat  BY <1>1, <1>2
    <3> QED BY <1>1, <1>2, <2>3, <3>1, <3>2
  <2> HIDE DEF q, r
  <2> QED BY <1>2, <2>1, <2>2, <2>3
<1> HIDE DEF q, r
<1>4. p < SegmentBits * k <=> q < k  BY <1>3
<1>5. p < SegmentBits * (k + 1) <=> q <= k  BY <1>2, <1>3
<1> QED BY <1>4, <1>5 DEF q
-----------------------------------------------------------------------------
(* What holds between the calls and the segments of one call.              *)

CallInv ==
  /\ group \in BitmapGroups
  /\ memory \in [0 .. SegmentCount -> SUBSET Bits]
  /\ begin \in Nat /\ end \in Nat /\ beginPtr \in Nat /\ pending \in 0 .. 2
  /\ begin <= end /\ end <= BitmapBits
  /\ bitmap_pc \in {"idle", "set_bits", "rest", "return"}
  /\ bitmap_pc = "set_bits" => beginPtr = begin \div SegmentBits
  /\ bitmap_pc = "rest" => begin < SegmentBits * beginPtr /\ beginPtr <= endPtr

SegmentInv == CallInv /\ SegmentsMarkTheRange

\* Positions lie in the segments of memory, and so does the end of a call.
LEMMA SegmentsInMemory ==
  /\ \A p \in Positions : p \in Nat /\ p \div SegmentBits \in 0 .. SegmentCount
  /\ CallInv => endPtr \in 0 .. SegmentCount
<1>1. SegmentBits \in Nat \ {0} /\ SegmentCount \in Nat \ {0}  BY SegmentAssumption
<1>2. SegmentBits * (SegmentCount + 1) = BitmapBits + SegmentBits /\ BitmapBits \in Nat
  BY <1>1 DEF BitmapBits
<1>3. ASSUME NEW p \in Nat, p < BitmapBits + SegmentBits
      PROVE  p \div SegmentBits \in 0 .. SegmentCount
  BY <1>1, <1>2, <1>3, PositionSplits, PositionOrder
<1>4. \A p \in Positions : p \in Nat /\ p < BitmapBits + SegmentBits
  BY <1>1, <1>2 DEF Positions
<1>5. CallInv => end \in Nat /\ end < BitmapBits + SegmentBits
  BY <1>1, <1>2 DEF CallInv
<1> QED BY <1>3, <1>4, <1>5 DEF endPtr

\* The memset bitmap has no bits set; those after it are accounted for.
LEMMA SegmentInit == BitmapInit => SegmentInv
<1> SUFFICES ASSUME BitmapInit PROVE SegmentInv  OBVIOUS
<1>1. SegmentBits \in Nat \ {0} /\ SegmentCount \in Nat \ {0}  BY SegmentAssumption
<1>2. PICK w \in NextWords :
        /\ memory = [k \in 0 .. SegmentCount |-> IF k = SegmentCount THEN w ELSE {}]
        /\ marked = { p \in Positions : p >= BitmapBits /\ p - BitmapBits \in w }
  BY DEF BitmapInit
<1>3. w \subseteq Bits  BY SegmentAssumption DEF Bits
<1>4. CallInv
  <2>1. memory \in [0 .. SegmentCount -> SUBSET Bits]  BY <1>2, <1>3
  <2>2. BitmapBits \in Nat  BY <1>1 DEF BitmapBits
  <2> QED BY <2>1, <2>2 DEF CallInv, BitmapInit
<1>5. ASSUME NEW p \in Positions PROVE IsSet(p) <=> p \in marked \cup SetSoFar
  <2> DEFINE q == p \div SegmentBits
  <2>1. p \in Nat /\ q \in 0 .. SegmentCount  BY SegmentsInMemory
  <2>2. p = SegmentBits * q + (p % SegmentBits)  BY <2>1, PositionSplits
  <2>3. p < SegmentBits * SegmentCount <=> q < SegmentCount  BY <1>1, <2>1, PositionOrder
  <2>4. SetSoFar = {}  BY DEF SetSoFar, BitmapInit
  <2>5. CASE q = SegmentCount
    <3>1. p - BitmapBits = p % SegmentBits /\ p >= BitmapBits
      <4>1. SegmentBits * q = BitmapBits  BY <2>5 DEF BitmapBits
      <4>2. BitmapBits \in Nat /\ p % SegmentBits \in Int /\ p = BitmapBits + (p % SegmentBits)
        BY <1>1, <2>1, <2>2, <4>1 DEF BitmapBits
      <4> QED BY <2>1, <2>3, <2>5, <4>2, <1>1 DEF BitmapBits
    <3> QED BY <1>2, <2>1, <2>4, <2>5, <3>1 DEF IsSet
  <2>6. CASE q # SegmentCount
    <3>1. ~ (p >= BitmapBits)  BY <1>1, <2>1, <2>3, <2>6 DEF BitmapBits
    <3> QED BY <1>2, <2>1, <2>4, <2>6, <3>1 DEF IsSet
  <2> QED BY <2>5, <2>6
<1> QED BY <1>4, <1>5 DEF SegmentInv, SegmentsMarkTheRange
\* An access to the segment at beginPtr sets exactly the bits the loop has
\* passed then.
LEMMA SegmentWritten ==
  ASSUME CallInv, SegmentsMarkTheRange, beginPtr \in 0 .. SegmentCount,
         marked' = marked,
         NEW mask \in SUBSET Bits,
         memory' = [memory EXCEPT ![beginPtr] = @ \cup mask],
         \A p \in Positions :
           p \in SetSoFar' <=>
             p \in SetSoFar \/ (p \div SegmentBits = beginPtr /\ (p % SegmentBits) \in mask)
  PROVE  memory' \in [0 .. SegmentCount -> SUBSET Bits] /\ SegmentsMarkTheRange'
<1>1. memory \in [0 .. SegmentCount -> SUBSET Bits]  BY DEF CallInv
<1>2. memory' \in [0 .. SegmentCount -> SUBSET Bits]  BY <1>1
<1>3. Positions' = Positions  BY DEF Positions, BitmapBits
<1>4. ASSUME NEW p \in Positions PROVE IsSet(p)' <=> p \in (marked \cup SetSoFar)'
  <2>1. p \div SegmentBits \in 0 .. SegmentCount  BY SegmentsInMemory
  <2>2. IsSet(p) <=> p \in marked \cup SetSoFar  BY DEF SegmentsMarkTheRange
  <2>3. IsSet(p)' <=> IsSet(p) \/ (p \div SegmentBits = beginPtr /\ (p % SegmentBits) \in mask)
    BY <1>1, <2>1 DEF IsSet
  <2> QED BY <2>2, <2>3
<1> QED BY <1>2, <1>3, <1>4 DEF SegmentsMarkTheRange

\* Every step of a call keeps the invariant.
LEMMA SegmentNext == SegmentInv /\ [BitmapNext]_bitmapVars => SegmentInv'
<1> SUFFICES ASSUME SegmentInv, [BitmapNext]_bitmapVars PROVE SegmentInv'  OBVIOUS
<1> USE DEF SegmentInv
<1>1. SegmentBits \in Nat \ {0} /\ SegmentCount \in Nat \ {0} /\ BitmapBits \in Nat
  BY SegmentAssumption DEF BitmapBits
<1>2. /\ begin \div SegmentBits \in Nat /\ begin % SegmentBits \in Bits
      /\ begin = SegmentBits * (begin \div SegmentBits) + (begin % SegmentBits)
      /\ endPtr \in Nat /\ end % SegmentBits \in Bits
      /\ end = SegmentBits * endPtr + (end % SegmentBits)
  BY PositionSplits DEF CallInv, endPtr
<1>3. endPtr \in 0 .. SegmentCount  BY SegmentsInMemory
<1>4. begin \in Nat /\ end \in Nat /\ beginPtr \in Nat /\ begin <= end /\ end <= BitmapBits
  BY DEF CallInv
<1>5. \A p \in Positions :
        /\ p \in Nat /\ p \div SegmentBits \in Nat /\ p % SegmentBits \in Bits
        /\ p = SegmentBits * (p \div SegmentBits) + (p % SegmentBits)
        /\ p < SegmentBits * beginPtr <=> p \div SegmentBits < beginPtr
        /\ p < SegmentBits * (beginPtr + 1) <=> p \div SegmentBits <= beginPtr
  BY <1>4, SegmentsInMemory, PositionSplits, PositionOrder
<1>6. Positions' = Positions /\ BitmapBits' = BitmapBits /\ Bits' = Bits
  BY DEF Positions, BitmapBits, Bits
\* A new call, from positions of the bitmap.
<1>7. ASSUME NEW b \in Nat, NEW e \in Nat, b <= e, e <= BitmapBits, bitmap_pc = "idle",
             Call(b, e), memory' = memory, marked' = marked, group' = group,
             pending' \in 0 .. 2
      PROVE  SegmentInv'
  <2>1. SetSoFar = {} /\ SetSoFar' = {}  BY <1>7 DEF Call, SetSoFar
  <2>2. b \div SegmentBits \in Nat  BY PositionSplits
  <2>3. CallInv'  BY <1>6, <1>7, <2>2 DEF CallInv, Call
  <2> QED BY <1>6, <1>7, <2>1, <2>3 DEF SegmentsMarkTheRange, IsSet
<1>8. CASE InitBlockBitmap
  <2>1. group.overhead \in Nat /\ group.block_count \in Nat
        /\ group.overhead <= group.block_count /\ group.block_count <= BitmapBits
    <3>1. group \in BitmapGroups  BY DEF CallInv
    <3>2. group.overhead \in Nat /\ group.block_count \in group.overhead .. BitmapBits
      BY <3>1, SegmentAssumption DEF BitmapBits
    <3> QED BY <3>2, <1>1
  <2>2. pending' \in 0 .. 2  BY <1>8 DEF InitBlockBitmap, CallInv
  <2>3. CASE pending = 2  BY <1>1, <1>7, <1>8, <2>1, <2>2, <2>3 DEF InitBlockBitmap
  <2>4. CASE pending # 2  BY <1>1, <1>7, <1>8, <2>1, <2>2, <2>4 DEF InitBlockBitmap
  <2> QED BY <2>3, <2>4
<1>9. CASE RegisterExtent
  <2>1. PICK b \in 0 .. group.block_count - 1 : \E e \in b + 1 .. group.block_count : Call(b, e)
    BY <1>9 DEF RegisterExtent
  <2>2. PICK e \in b + 1 .. group.block_count : Call(b, e)  BY <2>1
  <2>3. group.block_count \in Nat /\ group.block_count <= BitmapBits
    <3>1. group \in BitmapGroups  BY DEF CallInv
    <3>2. group.overhead \in Nat /\ group.block_count \in group.overhead .. BitmapBits
      BY <3>1, SegmentAssumption DEF BitmapBits
    <3> QED BY <3>2, <1>1
  <2>4. b \in Nat /\ e \in Nat /\ b <= e /\ e <= BitmapBits  BY <1>1, <2>1, <2>2, <2>3
  <2> QED BY <1>7, <1>9, <2>2, <2>4 DEF RegisterExtent, CallInv
<1>10. CASE FirstSegment
  <2> DEFINE mask == Bits \ fillLSBs(begin % SegmentBits)
  <2>1. beginPtr = begin \div SegmentBits /\ bitmap_pc = "set_bits" /\ beginPtr < endPtr
    BY <1>10 DEF FirstSegment, CallInv
  <2>2. SetSoFar = {}  BY <2>1 DEF SetSoFar
  <2>3. SetSoFar' = { p \in Positions : begin <= p /\ p < SegmentBits * (beginPtr + 1) }
    BY <1>6, <1>10 DEF FirstSegment, SetSoFar
  <2>4. ASSUME NEW p \in Positions
        PROVE  p \in SetSoFar' <=>
                 p \in SetSoFar \/ (p \div SegmentBits = beginPtr /\ (p % SegmentBits) \in mask)
    <3> DEFINE q == p \div SegmentBits
               r == p % SegmentBits
               t == begin % SegmentBits
    <3>1. r \in Bits /\ q \in Nat /\ p \in Nat /\ p = SegmentBits * q + r
          /\ (p < SegmentBits * beginPtr <=> q < beginPtr)
          /\ (p < SegmentBits * (beginPtr + 1) <=> q <= beginPtr)
      BY <1>5
    <3>2. begin = SegmentBits * beginPtr + t /\ t \in Bits  BY <1>2, <2>1
    <3>3. r \in mask <=> t <= r  BY <1>1, <3>1, <3>2 DEF fillLSBs, Bits
    <3> HIDE DEF q, r, t, mask
    <3>4. SegmentBits * beginPtr \in Nat  BY <1>1, <1>4
    <3>5. CASE q = beginPtr
      BY <1>1, <1>4, <2>2, <2>3, <3>1, <3>2, <3>3, <3>4, <3>5 DEF Bits, q, r
    <3>6. CASE q # beginPtr
      <4>1. ~ (begin <= p /\ p < SegmentBits * (beginPtr + 1))
        BY <1>1, <1>4, <3>1, <3>2, <3>4, <3>6 DEF Bits
      <4> QED BY <2>2, <2>3, <3>6, <4>1 DEF q
    <3> QED BY <3>5, <3>6
  <2>5. memory' = [memory EXCEPT ![beginPtr] = @ \cup mask] /\ marked' = marked
    BY <1>10 DEF FirstSegment, OrInto
  <2>6. beginPtr \in 0 .. SegmentCount  BY <1>1, <1>3, <1>4, <2>1
  <2>7. mask \in SUBSET Bits  OBVIOUS
  <2>8. memory' \in [0 .. SegmentCount -> SUBSET Bits] /\ SegmentsMarkTheRange'
    <3> HIDE DEF mask
    <3> QED BY <2>4, <2>5, <2>6, <2>7, SegmentWritten
  <2>9. begin < SegmentBits * (beginPtr + 1)  BY <1>4, <2>1, PositionOrder
  <2>10. /\ group' = group /\ begin' = begin /\ end' = end /\ beginPtr' = beginPtr + 1
         /\ pending' = pending /\ bitmap_pc' = "rest" /\ endPtr' = endPtr
    BY <1>10 DEF FirstSegment, endPtr
  <2>11. CallInv'
    <3>1. beginPtr + 1 \in Nat /\ beginPtr + 1 <= endPtr  BY <1>2, <1>4, <2>1
    <3> QED BY <1>6, <2>8, <2>9, <2>10, <3>1 DEF CallInv
  <2> QED BY <2>8, <2>11
<1>11. CASE MiddleSegment
  <2>1. bitmap_pc = "rest" /\ beginPtr < endPtr /\ begin < SegmentBits * beginPtr
    BY <1>11 DEF MiddleSegment, CallInv
  <2>2. beginPtr \in 0 .. SegmentCount  BY <1>1, <1>3, <1>4, <2>1
  <2>3. memory' = [memory EXCEPT ![beginPtr] = @ \cup Bits] /\ marked' = marked
    BY <1>11, <2>2 DEF MiddleSegment, CallInv
  <2>4. SetSoFar = { p \in Positions : begin <= p /\ p < SegmentBits * beginPtr }
    BY <2>1 DEF SetSoFar
  <2>5. SetSoFar' = { p \in Positions : begin <= p /\ p < SegmentBits * (beginPtr + 1) }
    BY <1>6, <1>11, <2>1 DEF MiddleSegment, SetSoFar
  <2>6. ASSUME NEW p \in Positions
        PROVE  p \in SetSoFar' <=>
                 p \in SetSoFar \/ (p \div SegmentBits = beginPtr /\ (p % SegmentBits) \in Bits)
    <3> DEFINE q == p \div SegmentBits
    <3>1. q \in Nat /\ p \in Nat /\ p % SegmentBits \in Bits
          /\ (p < SegmentBits * beginPtr <=> q < beginPtr)
          /\ (p < SegmentBits * (beginPtr + 1) <=> q <= beginPtr)
      BY <1>5
    <3> HIDE DEF q
    <3>2. SegmentBits * beginPtr \in Nat  BY <1>1, <1>4
    <3> QED BY <1>4, <2>1, <2>4, <2>5, <3>1, <3>2 DEF q
  <2>7. memory' \in [0 .. SegmentCount -> SUBSET Bits] /\ SegmentsMarkTheRange'
    BY <2>2, <2>3, <2>6, SegmentWritten
  <2>8. begin < SegmentBits * (beginPtr + 1)
    <3>1. SegmentBits * (beginPtr + 1) = SegmentBits * beginPtr + SegmentBits
          /\ SegmentBits * beginPtr \in Nat
      BY <1>1, <1>4
    <3> QED BY <1>1, <1>4, <2>1, <3>1
  <2>9. /\ group' = group /\ begin' = begin /\ end' = end /\ beginPtr' = beginPtr + 1
        /\ pending' = pending /\ bitmap_pc' = "rest" /\ endPtr' = endPtr
    BY <1>11 DEF MiddleSegment, endPtr
  <2>10. CallInv'
    <3>1. beginPtr + 1 \in Nat /\ beginPtr + 1 <= endPtr  BY <1>2, <1>4, <2>1
    <3> QED BY <1>6, <2>7, <2>8, <2>9, <3>1 DEF CallInv
  <2> QED BY <2>7, <2>10
\* The end of a call: the bits of the last segment below the end.
<1>12. ASSUME NEW mask \in SUBSET Bits, beginPtr = endPtr, OrInto(mask), bitmap_pc' = "return",
              UNCHANGED <<group, callVars, pending, marked>>,
              \A p \in Positions :
                begin <= p /\ p < end <=>
                  p \in SetSoFar \/ (p \div SegmentBits = beginPtr /\ (p % SegmentBits) \in mask)
       PROVE  SegmentInv'
  <2>1. SetSoFar' = begin .. end - 1  BY <1>12 DEF SetSoFar, callVars
  <2>2. \A p \in Positions : p \in SetSoFar' <=> begin <= p /\ p < end  BY <1>4, <1>5, <2>1
  <2>3. memory' \in [0 .. SegmentCount -> SUBSET Bits] /\ SegmentsMarkTheRange'
    BY <1>3, <1>12, <2>2, SegmentWritten DEF OrInto
  <2>4. CallInv'  BY <1>6, <1>12, <2>3 DEF CallInv, callVars
  <2> QED BY <2>3, <2>4
<1>13. ASSUME NEW p \in Positions, beginPtr = endPtr
       PROVE  p < end <=> \/ p \div SegmentBits < beginPtr
                          \/ /\ p \div SegmentBits = beginPtr
                             /\ (p % SegmentBits) \in fillLSBs(end % SegmentBits)
  <2> DEFINE q == p \div SegmentBits
             r == p % SegmentBits
             u == end % SegmentBits
  <2>1. r \in Bits /\ q \in Nat /\ p \in Nat /\ p = SegmentBits * q + r
        /\ (p < SegmentBits * beginPtr <=> q < beginPtr)
        /\ (p < SegmentBits * (beginPtr + 1) <=> q <= beginPtr)
    BY <1>5
  <2>2. end = SegmentBits * beginPtr + u /\ u \in Bits  BY <1>2, <1>13
  <2>3. r \in fillLSBs(u) <=> r < u  BY <2>1 DEF fillLSBs
  <2>4. SegmentBits * (beginPtr + 1) = SegmentBits * beginPtr + SegmentBits  BY <1>1, <1>4
  <2> HIDE DEF q, r, u
  <2>5. SegmentBits * beginPtr \in Nat  BY <1>1, <1>4
  <2>6. p < end <=> q < beginPtr \/ (q = beginPtr /\ r < u)
    BY <1>1, <1>4, <2>1, <2>2, <2>4, <2>5 DEF Bits
  <2> QED BY <2>3, <2>6 DEF q, r, u
<1>14. CASE LastSegment
  <2>1. bitmap_pc = "rest" /\ beginPtr = endPtr /\ begin < SegmentBits * beginPtr
    BY <1>2, <1>4, <1>14 DEF LastSegment, CallInv
  <2>2. SetSoFar = { p \in Positions : begin <= p /\ p < SegmentBits * beginPtr }
    BY <2>1 DEF SetSoFar
  <2>3. ASSUME NEW p \in Positions
        PROVE  begin <= p /\ p < end <=>
                 \/ p \in SetSoFar
                 \/ p \div SegmentBits = beginPtr
                    /\ (p % SegmentBits) \in fillLSBs(end % SegmentBits)
    <3>1. p \in Nat /\ SegmentBits * beginPtr \in Nat
          /\ (p < SegmentBits * beginPtr <=> p \div SegmentBits < beginPtr)
          /\ p \div SegmentBits \in Nat
      BY <1>1, <1>4, <1>5
    <3>2. p \div SegmentBits = beginPtr => begin <= p  BY <1>4, <2>1, <3>1
    <3> QED BY <1>13, <2>1, <2>2, <3>1, <3>2
  <2>4. fillLSBs(end % SegmentBits) \in SUBSET Bits  BY DEF fillLSBs
  <2> QED BY <1>12, <1>14, <2>1, <2>3, <2>4 DEF LastSegment
<1>15. CASE OnlySegment
  <2> DEFINE mask == (Bits \ fillLSBs(begin % SegmentBits)) \cap fillLSBs(end % SegmentBits)
  <2>1. bitmap_pc = "set_bits" /\ beginPtr = endPtr /\ beginPtr = begin \div SegmentBits
    BY <1>15 DEF OnlySegment, CallInv
  <2>2. SetSoFar = {}  BY <2>1 DEF SetSoFar
  <2>3. ASSUME NEW p \in Positions
        PROVE  begin <= p /\ p < end <=>
                 \/ p \in SetSoFar
                 \/ p \div SegmentBits = beginPtr /\ (p % SegmentBits) \in mask
    <3> DEFINE q == p \div SegmentBits
               r == p % SegmentBits
               t == begin % SegmentBits
    <3>1. r \in Bits /\ q \in Nat /\ p \in Nat /\ p = SegmentBits * q + r
          /\ (p < SegmentBits * beginPtr <=> q < beginPtr)
      BY <1>5
    <3>2. begin = SegmentBits * beginPtr + t /\ t \in Bits  BY <1>2, <2>1
    <3>3. r \in fillLSBs(t) <=> r < t  BY <3>1 DEF fillLSBs
    <3>4. p < end <=> q < beginPtr \/ (q = beginPtr /\ r \in fillLSBs(end % SegmentBits))
      BY <1>13, <2>1
    <3>5. r \in mask <=> ~ (r < t) /\ r \in fillLSBs(end % SegmentBits)  BY <3>1, <3>3
    <3> HIDE DEF q, r, t, mask
    <3>6. SegmentBits * beginPtr \in Nat  BY <1>1, <1>4
    <3>7. q < beginPtr => p < begin  BY <1>1, <1>4, <3>1, <3>2, <3>6 DEF Bits
    <3>8. q = beginPtr => (begin <= p <=> ~ (r < t))
      BY <1>1, <1>4, <3>1, <3>2, <3>6 DEF Bits
    <3>9. begin <= p <=> ~ (p < begin)  BY <1>4, <3>1
    <3> QED BY <1>4, <2>2, <3>1, <3>4, <3>5, <3>7, <3>8, <3>9 DEF q, r
  <2>4. mask \in SUBSET Bits  OBVIOUS
  <2>5. OrInto(mask) /\ bitmap_pc' = "return" /\ UNCHANGED <<group, callVars, pending, marked>>
    BY <1>15 DEF OnlySegment
  <2> HIDE DEF mask
  <2> QED BY <1>12, <2>1, <2>3, <2>4, <2>5
<1>16. CASE Return
  <2>1. SetSoFar = begin .. end - 1 /\ SetSoFar' = {} /\ memory' = memory
        /\ marked' = marked \cup (begin .. end - 1)
    BY <1>16 DEF Return, SetSoFar
  <2>2. SegmentsMarkTheRange'  BY <1>6, <2>1 DEF SegmentsMarkTheRange, IsSet
  <2>3. CallInv'  BY <1>6, <1>16 DEF Return, CallInv, callVars, endPtr
  <2> QED BY <2>2, <2>3
<1>17. CASE UNCHANGED bitmapVars
  BY <1>6, <1>17 DEF bitmapVars, callVars, CallInv, endPtr, SegmentsMarkTheRange, IsSet, SetSoFar
<1> QED
  BY <1>8, <1>9, <1>10, <1>11, <1>14, <1>15, <1>16, <1>17 DEF BitmapNext

\* bitmap_set_bits marks the range it is given and no other bit, at every step
\* of every call, for segments of any width and bitmaps of any length.
THEOREM SegmentsExact == BitmapSpec => []SegmentsMarkTheRange
<1>1. SegmentInv => SegmentsMarkTheRange  BY DEF SegmentInv
<1> QED BY <1>1, SegmentInit, SegmentNext, PTL DEF BitmapSpec

-----------------------------------------------------------------------------
(* The counts.  While a call that is counted is under way the inode already *)
(* has its blocks, and the group still has them too.                       *)

Busy == bitmap_pc # "idle"

Clear == (0 .. BitmapBits - 1) \ marked

\* What init_ext4_group_descs leaves free in the group.
Available == group.block_count - group.overhead

\* Blocks given to an inode and not yet taken from the group.
InTransit == IF Busy /\ counted THEN end - begin ELSE 0

Accounts ==
  /\ counted \in BOOLEAN
  /\ from_lo_hi(free_blocks) \in 0 .. Available
  /\ from_lo_hi(i_blocks) \in Nat
  /\ from_lo_hi(i_blocks) + Ratio * from_lo_hi(free_blocks) = Ratio * (Available + InTransit)

\* The two calls of init_ext4_group_descs, between which the count is ahead
\* of the bitmap; after them every call leaves the two equal.
Phases ==
  /\ pending = 2 => ~ Busy /\ Clear = 0 .. BitmapBits - 1
  /\ pending = 1 => IF Busy THEN Clear = 0 .. BitmapBits - 1 /\ begin = 0 /\ end = group.overhead
                            ELSE Clear = group.overhead .. BitmapBits - 1
  /\ pending > 0 \/ (Busy /\ ~ counted) => ~ counted /\ from_lo_hi(free_blocks) = Available
  /\ pending = 0 =>
       IF Busy /\ ~ counted
       THEN /\ Clear = group.overhead .. BitmapBits - 1
            /\ begin = group.block_count /\ end = BitmapBits
       ELSE from_lo_hi(free_blocks) = Cardinality(Clear)
  /\ Busy /\ counted => begin .. end - 1 \subseteq Clear

HalvesInv == SegmentInv /\ Accounts /\ Phases

\* set_lo_hi and from_lo_hi: a value that fits survives its two halves.
LEMMA HalvesRoundTrip ==
  \A v \in Nat : v < HalfRange * HalfRange => from_lo_hi(set_lo_hi(v)) = v
<1> TAKE v \in Nat
<1> HAVE v < HalfRange * HalfRange
<1> DEFINE q == v \div HalfRange
           r == v % HalfRange
<1>1. HalfRange \in Nat \ {0}  BY HalvesAssumption
<1>2. q \in Nat /\ r \in Nat /\ v = HalfRange * q + r  BY <1>1
<1>3. q < HalfRange
  <2>1. SUFFICES ASSUME HalfRange <= q PROVE FALSE  BY <1>1, <1>2
  <2> HIDE DEF q, r
  <2>2. q - HalfRange \in Nat  BY <1>1, <1>2, <2>1
  <2>3. HalfRange * (q - HalfRange) \in Nat  BY <1>1, <2>2
  <2>4. HalfRange * q = HalfRange * HalfRange + HalfRange * (q - HalfRange)  BY <1>1, <1>2
  <2>5. HalfRange * HalfRange \in Nat  BY <1>1
  <2> QED BY <1>2, <2>3, <2>4, <2>5
<1>4. q % HalfRange = q
  <2> HIDE DEF q
  <2> QED BY <1>1, <1>2, <1>3
<1>5. set_lo_hi(v) = [lo |-> r, hi |-> q]  BY <1>4 DEF set_lo_hi
<1>6. from_lo_hi(set_lo_hi(v)) = q * HalfRange + r  BY <1>5 DEF from_lo_hi
<1>7. q * HalfRange = HalfRange * q
  <2> HIDE DEF q
  <2> QED BY <1>1, <1>2
<1> QED BY <1>2, <1>6, <1>7

\* The numbers of a group.
LEMMA GroupNumbersFit ==
  ASSUME group \in BitmapGroups
  PROVE  /\ group.overhead \in Nat /\ group.block_count \in Nat /\ BitmapBits \in Nat
         /\ group.overhead <= group.block_count /\ group.block_count <= BitmapBits
         /\ Available \in Nat /\ Ratio \in Nat \ {0}
         /\ Ratio * Available < HalfRange * HalfRange /\ Available < HalfRange * HalfRange
<1>1. BitmapBits \in Nat  BY SegmentAssumption DEF BitmapBits
<1>2. group.overhead \in Nat /\ group.block_count \in group.overhead .. BitmapBits
  BY SegmentAssumption DEF BitmapBits
<1>3. /\ group.block_count \in Nat /\ group.overhead <= group.block_count
      /\ group.block_count <= BitmapBits /\ Available \in Nat
  BY <1>1, <1>2 DEF Available
<1>4. Ratio \in Nat \ {0} /\ Ratio * Available < HalfRange * HalfRange
  BY HalvesAssumption DEF Available
<1>5. Available < HalfRange * HalfRange
  <2> HIDE DEF Available
  <2>1. Ratio - 1 \in Nat  BY <1>4
  <2>2. (Ratio - 1) * Available \in Nat  BY <1>3, <2>1
  <2>3. Ratio * Available = Available + (Ratio - 1) * Available  BY <1>3, <1>4
  <2>4. HalfRange * HalfRange \in Nat  BY HalvesAssumption
  <2> QED BY <1>3, <1>4, <2>2, <2>3, <2>4
<1> QED BY <1>1, <1>2, <1>3, <1>4, <1>5

\* The clear bits of the bitmap are a finite set, an extent's among them.
LEMMA ClearFacts ==
  ASSUME BitmapBits \in Nat
  PROVE  /\ IsFiniteSet(Clear) /\ Cardinality(Clear) \in Nat
         /\ \A b, e \in Nat : b <= e /\ b .. e - 1 \subseteq Clear =>
              /\ Cardinality(Clear \ (b .. e - 1)) = Cardinality(Clear) - (e - b)
              /\ e - b <= Cardinality(Clear)
<1>1. PICK S : S = Clear  OBVIOUS
<1>2. IsFiniteSet(S) /\ Cardinality(S) \in Nat
  <2>1. PICK R : R = 0 .. BitmapBits - 1  OBVIOUS
  <2>2. IsFiniteSet(R)
    <3>1. 0 \in Int /\ BitmapBits - 1 \in Int  OBVIOUS
    <3> QED BY <2>1, <3>1, FS_Interval
  <2>3. S \in SUBSET R  BY <1>1, <2>1 DEF Clear
  <2>4. IsFiniteSet(S)  BY <2>2, <2>3, FS_Subset
  <2> QED BY <2>4, FS_CardinalityType
<1>3. ASSUME NEW b \in Nat, NEW e \in Nat, b <= e, b .. e - 1 \subseteq S
      PROVE  /\ Cardinality(S \ (b .. e - 1)) = Cardinality(S) - (e - b)
             /\ e - b <= Cardinality(S)
  <2>1. PICK X : X = b .. e - 1  OBVIOUS
  <2>2. Cardinality(X) = e - b
    <3>1. b \in Int /\ e - 1 \in Int  OBVIOUS
    <3>2. Cardinality(b .. e - 1) = IF b > e - 1 THEN 0 ELSE (e - 1) - b + 1
      BY <3>1, FS_Interval
    <3> QED BY <1>3, <2>1, <3>2
  <2>3. S \cap X = X  BY <1>3, <2>1
  <2>4. IsFiniteSet(S \ X) /\ Cardinality(S \ X) = Cardinality(S) - Cardinality(S \cap X)
    BY <1>2, FS_Difference
  <2>5. Cardinality(S \ X) \in Nat  BY <2>4, FS_CardinalityType
  <2>6. Cardinality(S \ X) = Cardinality(S) - (e - b)  BY <2>2, <2>3, <2>4
  <2>7. e - b <= Cardinality(S)  BY <1>2, <1>3, <2>5, <2>6
  <2> QED BY <2>1, <2>6, <2>7
<1> QED BY <1>1, <1>2, <1>3

\* A group as memset and set_lo_hi leave it.
LEMMA HalvesInit == BitmapInit => HalvesInv
<1> SUFFICES ASSUME BitmapInit PROVE HalvesInv  OBVIOUS
<1>1. SegmentInv  BY SegmentInit
<1>2. group \in BitmapGroups /\ pending = 2 /\ bitmap_pc = "idle" /\ counted = FALSE
      /\ free_blocks = set_lo_hi(Available) /\ i_blocks = set_lo_hi(0)
  BY DEF BitmapInit, Available
<1>3. /\ BitmapBits \in Nat /\ Available \in Nat /\ Ratio \in Nat \ {0}
      /\ Available < HalfRange * HalfRange /\ HalfRange \in Nat \ {0}
  BY <1>2, GroupNumbersFit, HalvesAssumption
<1>4. from_lo_hi(free_blocks) = Available  BY <1>2, <1>3, HalvesRoundTrip
<1>5. from_lo_hi(i_blocks) = 0
  <2>1. 0 < HalfRange * HalfRange  BY <1>3
  <2> QED BY <1>2, <2>1, HalvesRoundTrip
<1>6. InTransit = 0  BY <1>2 DEF InTransit, Busy
<1>7. Accounts
  <2>1. 0 + Ratio * Available = Ratio * (Available + 0)  BY <1>3
  <2>2. counted \in BOOLEAN  BY <1>2
  <2>3. Available \in 0 .. Available  BY <1>3
  <2> QED BY <1>4, <1>5, <1>6, <2>1, <2>2, <2>3 DEF Accounts
<1>8. Clear = 0 .. BitmapBits - 1
  <2>1. marked \subseteq { p \in Positions : p >= BitmapBits }  BY DEF BitmapInit
  <2> QED BY <1>3, <2>1 DEF Clear
<1>9. Phases  BY <1>2, <1>4, <1>8 DEF Phases, Busy
<1> QED BY <1>1, <1>7, <1>9 DEF HalvesInv

\* The loop of bitmap_set_bits leaves the counts and the call alone.
LEMMA HalvesLoop ==
  ASSUME HalvesInv, SegmentInv', Busy, Busy',
         UNCHANGED <<group, begin, end, counted, free_blocks, i_blocks, pending, marked>>
  PROVE  HalvesInv'
<1>1. /\ Available' = Available /\ Clear' = Clear /\ InTransit' = InTransit
      /\ BitmapBits' = BitmapBits
  BY DEF Available, Clear, InTransit, BitmapBits
<1>2. Accounts'  BY <1>1 DEF HalvesInv, Accounts, from_lo_hi
<1>3. Phases'  BY <1>1 DEF HalvesInv, Phases, from_lo_hi
<1> QED BY <1>2, <1>3 DEF HalvesInv

\* The calls for a new bitmap touch no count.
LEMMA HalvesInitBlockBitmap ==
  ASSUME HalvesInv, SegmentInv', InitBlockBitmap
  PROVE  HalvesInv'
<1>1. /\ bitmap_pc = "idle" /\ bitmap_pc' = "set_bits" /\ pending > 0 /\ pending' = pending - 1
      /\ counted' = FALSE /\ group' = group /\ free_blocks' = free_blocks
      /\ i_blocks' = i_blocks /\ marked' = marked
  BY DEF InitBlockBitmap, Call
<1>2. pending \in {1, 2}  BY <1>1 DEF HalvesInv, SegmentInv, CallInv
<1>3. /\ Available' = Available /\ Clear' = Clear /\ InTransit = 0 /\ InTransit' = 0
      /\ BitmapBits' = BitmapBits /\ ~ Busy /\ Busy'
  BY <1>1 DEF Available, Clear, InTransit, BitmapBits, Busy
<1>4. Accounts'
  <2>1. counted' \in BOOLEAN  BY <1>1
  <2> QED BY <1>1, <1>3, <2>1 DEF HalvesInv, Accounts, from_lo_hi
<1>5. ~ counted' /\ from_lo_hi(free_blocks)' = Available'
  BY <1>1, <1>2, <1>3 DEF HalvesInv, Phases, from_lo_hi
<1>6. CASE pending = 2
  <2>1. pending' = 1 /\ begin' = 0 /\ end' = group.overhead  BY <1>1, <1>6 DEF InitBlockBitmap, Call
  <2>2. Clear' = 0 .. BitmapBits - 1  BY <1>3, <1>6 DEF HalvesInv, Phases
  <2> QED BY <1>1, <1>3, <1>4, <1>5, <2>1, <2>2 DEF HalvesInv, Phases
<1>7. CASE pending = 1
  <2>1. pending' = 0 /\ begin' = group.block_count /\ end' = BitmapBits
    BY <1>1, <1>7 DEF InitBlockBitmap, Call
  <2>2. Clear' = group.overhead .. BitmapBits - 1  BY <1>3, <1>7 DEF HalvesInv, Phases
  <2> QED BY <1>1, <1>3, <1>4, <1>5, <2>1, <2>2 DEF HalvesInv, Phases
<1> QED BY <1>2, <1>6, <1>7

\* register_extent gives the blocks to the inode before the group loses them.
LEMMA HalvesRegister ==
  ASSUME HalvesInv, SegmentInv', RegisterExtent
  PROVE  HalvesInv'
<1>1. /\ bitmap_pc = "idle" /\ pending = 0 /\ pending' = 0 /\ counted' = TRUE /\ group' = group
      /\ free_blocks' = free_blocks /\ marked' = marked
  BY DEF RegisterExtent
<1>2. PICK b \in 0 .. group.block_count - 1 : \E e \in b + 1 .. group.block_count :
        /\ b .. e - 1 \cap marked = {}
        /\ i_blocks' = incr_lo_hi(i_blocks, (e - b) * Ratio)
        /\ Call(b, e)
  BY DEF RegisterExtent
<1>3. PICK e \in b + 1 .. group.block_count :
        /\ b .. e - 1 \cap marked = {}
        /\ i_blocks' = incr_lo_hi(i_blocks, (e - b) * Ratio)
        /\ Call(b, e)
  BY <1>2
<1>4. begin' = b /\ end' = e /\ bitmap_pc' = "set_bits"  BY <1>3 DEF Call
<1>5. /\ group.block_count \in Nat /\ BitmapBits \in Nat /\ group.block_count <= BitmapBits
      /\ Available \in Nat /\ Ratio \in Nat \ {0} /\ Ratio * Available < HalfRange * HalfRange
      /\ HalfRange \in Nat
  BY GroupNumbersFit, HalvesAssumption DEF HalvesInv, SegmentInv, CallInv
<1>6. b \in Nat /\ e \in Nat /\ b <= e /\ b .. e - 1 \subseteq Clear
  BY <1>3, <1>5 DEF Clear
<1>7. PICK f \in Nat : f = from_lo_hi(free_blocks) /\ f = Cardinality(Clear) /\ f <= Available
  BY <1>1, <1>5 DEF HalvesInv, Accounts, Phases, Busy
<1>8. PICK n \in Nat : n = from_lo_hi(i_blocks) /\ n + Ratio * f = Ratio * Available
  <2>1. InTransit = 0  BY <1>1 DEF InTransit, Busy
  <2>2. Available + 0 = Available  BY <1>5
  <2> QED BY <1>7, <2>1, <2>2 DEF HalvesInv, Accounts
<1>9. PICK k \in Nat : k = e - b /\ k <= f
  <2>1. e - b <= Cardinality(Clear)  BY <1>5, <1>6, ClearFacts
  <2>2. e - b \in Nat  BY <1>6
  <2> QED BY <1>7, <2>1, <2>2
<1>10. n + k * Ratio \in Nat /\ n + k * Ratio < HalfRange * HalfRange
  <2>1. f - k \in Nat  BY <1>9
  <2>2. Ratio * (f - k) \in Nat /\ k * Ratio \in Nat  BY <1>5, <2>1
  <2>3. Ratio * f = Ratio * (f - k) + k * Ratio  BY <1>5, <2>1
  <2>4. Ratio * Available \in Nat /\ Ratio * f \in Nat /\ HalfRange * HalfRange \in Nat  BY <1>5
  <2>5. n + k * Ratio <= Ratio * Available  BY <1>8, <2>2, <2>3, <2>4
  <2> QED BY <1>5, <2>2, <2>4, <2>5
<1>11. from_lo_hi(i_blocks') = n + k * Ratio
  BY <1>3, <1>8, <1>9, <1>10, HalvesRoundTrip DEF incr_lo_hi
<1>12. /\ Available' = Available /\ Clear' = Clear /\ Busy' /\ InTransit' = k
  BY <1>1, <1>4, <1>9 DEF Available, Clear, BitmapBits, InTransit, Busy
<1>13. Accounts'
  <2>1. (n + k * Ratio) + Ratio * f = Ratio * (Available + k)
    <3>1. k * Ratio \in Nat /\ Ratio * f \in Nat /\ Ratio * Available \in Nat  BY <1>5
    <3>2. Ratio * (Available + k) = Ratio * Available + k * Ratio  BY <1>5
    <3> QED BY <1>8, <3>1, <3>2
  <2>2. counted' \in BOOLEAN  BY <1>1
  <2>3. from_lo_hi(i_blocks)' = n + k * Ratio /\ from_lo_hi(free_blocks)' = f
    BY <1>1, <1>7, <1>11 DEF from_lo_hi
  <2>4. f \in 0 .. Available  BY <1>5, <1>7
  <2> QED BY <1>10, <1>12, <2>1, <2>2, <2>3, <2>4 DEF Accounts
<1>14. Phases'
  <2>1. from_lo_hi(free_blocks)' = Cardinality(Clear)'  BY <1>1, <1>7, <1>12 DEF from_lo_hi
  <2> QED BY <1>1, <1>4, <1>6, <1>12, <2>1 DEF Phases
<1> QED BY <1>13, <1>14 DEF HalvesInv

\* Back in the caller: the marked bits leave the clear ones, and
\* add_extent_to_block_bitmap takes as many from the count.
LEMMA HalvesReturn ==
  ASSUME HalvesInv, SegmentInv', Return
  PROVE  HalvesInv'
<1>1. /\ bitmap_pc = "return" /\ bitmap_pc' = "idle" /\ group' = group /\ counted' = counted
      /\ begin' = begin /\ end' = end /\ i_blocks' = i_blocks /\ pending' = pending
      /\ free_blocks' = (IF counted THEN decr_lo_hi(free_blocks, end - begin) ELSE free_blocks)
      /\ marked' = marked \cup (begin .. end - 1)
  BY DEF Return, callVars
<1>2. /\ begin \in Nat /\ end \in Nat /\ begin <= end /\ end <= BitmapBits /\ pending \in 0 .. 2
  BY DEF HalvesInv, SegmentInv, CallInv
<1>3. /\ group.overhead \in Nat /\ group.block_count \in Nat /\ BitmapBits \in Nat
      /\ group.overhead <= group.block_count /\ group.block_count <= BitmapBits
      /\ Available \in Nat /\ Ratio \in Nat \ {0} /\ HalfRange \in Nat
      /\ Available < HalfRange * HalfRange
  BY GroupNumbersFit, HalvesAssumption DEF HalvesInv, SegmentInv, CallInv
<1>4. /\ Available' = Available /\ Clear' = Clear \ (begin .. end - 1) /\ Busy /\ ~ Busy'
      /\ InTransit' = 0 /\ BitmapBits' = BitmapBits
  BY <1>1 DEF Available, Clear, BitmapBits, InTransit, Busy
<1>5. counted \in BOOLEAN  BY DEF HalvesInv, Accounts
<1>6. CASE counted
  <2>1. pending = 0 /\ begin .. end - 1 \subseteq Clear
    BY <1>2, <1>4, <1>6 DEF HalvesInv, Phases
  <2>2. PICK f \in Nat : f = from_lo_hi(free_blocks) /\ f = Cardinality(Clear) /\ f <= Available
    BY <1>3, <1>6, <2>1 DEF HalvesInv, Accounts, Phases
  <2>3. PICK k \in Nat : k = end - begin /\ k <= f /\ Cardinality(Clear') = f - k
    <3>1. /\ Cardinality(Clear \ (begin .. end - 1)) = Cardinality(Clear) - (end - begin)
          /\ end - begin <= Cardinality(Clear)
      BY <1>2, <1>3, <2>1, ClearFacts
    <3>2. end - begin \in Nat  BY <1>2
    <3> QED BY <1>4, <2>2, <3>1, <3>2
  <2>4. PICK n \in Nat : n = from_lo_hi(i_blocks) /\ n + Ratio * f = Ratio * (Available + k)
    <3>1. InTransit = k  BY <1>4, <1>6, <2>3 DEF InTransit
    <3> QED BY <2>2, <3>1 DEF HalvesInv, Accounts
  <2>5. f - k \in Nat /\ f - k <= Available /\ f - k < HalfRange * HalfRange
    <3>1. HalfRange * HalfRange \in Nat  BY <1>3
    <3> QED BY <1>3, <2>2, <2>3, <3>1
  <2>6. from_lo_hi(free_blocks)' = f - k
    <3>1. free_blocks' = set_lo_hi(f - k)  BY <1>1, <1>6, <2>2, <2>3 DEF decr_lo_hi
    <3>2. from_lo_hi(free_blocks') = f - k  BY <2>5, <3>1, HalvesRoundTrip
    <3> QED BY <3>2 DEF from_lo_hi
  <2>7. n + Ratio * (f - k) = Ratio * (Available + 0)
    <3>1. Ratio * (Available + k) = Ratio * Available + Ratio * k  BY <1>3
    <3>2. Ratio * f = Ratio * (f - k) + Ratio * k  BY <1>3, <2>3
    <3>3. /\ Ratio * Available \in Nat /\ Ratio * k \in Nat /\ Ratio * f \in Nat
          /\ Ratio * (f - k) \in Nat
      BY <1>3, <2>5
    <3> QED BY <1>3, <2>4, <3>1, <3>2, <3>3
  <2>8. Accounts'
    <3>1. from_lo_hi(i_blocks)' = n  BY <1>1, <2>4 DEF from_lo_hi
    <3>2. f - k \in 0 .. Available /\ counted' \in BOOLEAN  BY <1>1, <1>3, <1>5, <2>5
    <3> QED BY <1>4, <2>6, <2>7, <3>1, <3>2 DEF Accounts
  <2>9. Phases'  BY <1>1, <1>4, <2>1, <2>3, <2>6 DEF Phases
  <2> QED BY <2>8, <2>9 DEF HalvesInv
<1>7. CASE ~ counted
  <2>1. from_lo_hi(free_blocks) = Available  BY <1>4, <1>7 DEF HalvesInv, Phases
  <2>2. InTransit = 0  BY <1>7 DEF InTransit
  <2>3. Accounts'  BY <1>1, <1>4, <1>7, <2>2 DEF HalvesInv, Accounts, from_lo_hi
  <2>4. from_lo_hi(free_blocks)' = Available  BY <1>1, <1>7, <2>1 DEF from_lo_hi
  <2>5. CASE pending = 1
    <3>1. Clear = 0 .. BitmapBits - 1 /\ begin = 0 /\ end = group.overhead
      BY <1>4, <2>5 DEF HalvesInv, Phases
    <3>2. Clear' = group.overhead .. BitmapBits - 1  BY <1>3, <1>4, <3>1
    <3> QED BY <1>1, <1>4, <1>7, <2>3, <2>4, <2>5, <3>2 DEF HalvesInv, Phases
  <2>6. CASE pending = 0
    <3>1. /\ Clear = group.overhead .. BitmapBits - 1
          /\ begin = group.block_count /\ end = BitmapBits
      BY <1>4, <1>7, <2>6 DEF HalvesInv, Phases
    <3>2. Clear' = group.overhead .. group.block_count - 1  BY <1>3, <1>4, <3>1
    <3>3. Cardinality(group.overhead .. group.block_count - 1) = Available
      <4>1. group.overhead \in Int /\ group.block_count - 1 \in Int  BY <1>3
      <4>2. Cardinality(group.overhead .. group.block_count - 1) =
              IF group.overhead > group.block_count - 1 THEN 0
              ELSE (group.block_count - 1) - group.overhead + 1
        BY <4>1, FS_Interval
      <4> QED BY <1>3, <4>2 DEF Available
    <3>4. from_lo_hi(free_blocks)' = Cardinality(Clear)'  BY <2>4, <3>2, <3>3
    <3> QED BY <1>1, <1>4, <2>3, <2>6, <3>4 DEF HalvesInv, Phases
  <2>7. pending # 2  BY <1>4 DEF HalvesInv, Phases
  <2> QED BY <1>2, <2>5, <2>6, <2>7
<1> QED BY <1>5, <1>6, <1>7

\* The halves of the counts follow the bits through every call and every
\* borrow: once a group is initialised its free count is the number of clear
\* bits, and the inodes account for what it has given away.
THEOREM HalvesExact == BitmapSpec => []HalvesCountTheBits
<1>1. ASSUME HalvesInv, [BitmapNext]_bitmapVars PROVE HalvesInv'
  <2>1. SegmentInv'  BY <1>1, SegmentNext DEF HalvesInv
  <2>2. CASE InitBlockBitmap  BY <1>1, <2>1, <2>2, HalvesInitBlockBitmap
  <2>3. CASE RegisterExtent  BY <1>1, <2>1, <2>3, HalvesRegister
  <2>4. CASE FirstSegment  BY <1>1, <2>1, <2>4, HalvesLoop DEF FirstSegment, Busy
  <2>5. CASE MiddleSegment  BY <1>1, <2>1, <2>5, HalvesLoop DEF MiddleSegment, Busy
  <2>6. CASE LastSegment  BY <1>1, <2>1, <2>6, HalvesLoop DEF LastSegment, Busy, callVars
  <2>7. CASE OnlySegment  BY <1>1, <2>1, <2>7, HalvesLoop DEF OnlySegment, Busy, callVars
  <2>8. CASE Return  BY <1>1, <2>1, <2>8, HalvesReturn
  <2>9. CASE UNCHANGED bitmapVars
    <3>1. /\ Available' = Available /\ Clear' = Clear /\ InTransit' = InTransit /\ Busy' = Busy
      BY <2>9 DEF bitmapVars, callVars, Available, Clear, InTransit, BitmapBits, Busy
    <3>2. Accounts'
      BY <1>1, <2>9, <3>1 DEF HalvesInv, Accounts, from_lo_hi, bitmapVars, callVars
    <3>3. Phases'
      BY <1>1, <2>9, <3>1 DEF HalvesInv, Phases, from_lo_hi, bitmapVars, callVars, BitmapBits
    <3> QED BY <2>1, <3>2, <3>3 DEF HalvesInv
  <2> QED BY <1>1, <2>2, <2>3, <2>4, <2>5, <2>6, <2>7, <2>8, <2>9 DEF BitmapNext
<1>2. ASSUME HalvesInv, bitmap_pc = "idle", pending = 0
      PROVE  /\ from_lo_hi(free_blocks) = Cardinality({ p \in 0 .. BitmapBits - 1 : ~ IsSet(p) })
             /\ from_lo_hi(i_blocks) + Ratio * from_lo_hi(free_blocks)
                  = Ratio * (group.block_count - group.overhead)
  <2>1. SegmentBits \in Nat \ {0} /\ BitmapBits \in Nat  BY SegmentAssumption DEF BitmapBits
  <2>2. SetSoFar = {} /\ InTransit = 0 /\ ~ Busy  BY <1>2 DEF SetSoFar, InTransit, Busy
  <2>3. \A p \in 0 .. BitmapBits - 1 : IsSet(p) <=> p \in marked
    <3>1. \A p \in 0 .. BitmapBits - 1 : p \in Positions  BY <2>1 DEF Positions
    <3> QED BY <1>2, <2>2, <3>1 DEF HalvesInv, SegmentInv, SegmentsMarkTheRange
  <2>4. { p \in 0 .. BitmapBits - 1 : ~ IsSet(p) } = Clear  BY <2>3 DEF Clear
  <2>5. from_lo_hi(free_blocks) = Cardinality(Clear)  BY <1>2, <2>2 DEF HalvesInv, Phases
  <2>6. Available \in Nat  BY <1>2, GroupNumbersFit DEF HalvesInv, SegmentInv, CallInv
  <2>7. Available + 0 = Available  BY <2>6
  <2> QED BY <1>2, <2>2, <2>4, <2>5, <2>7 DEF HalvesInv, Accounts, Available
<1>3. HalvesInv => HalvesCountTheBits  BY <1>2 DEF HalvesCountTheBits
<1> QED BY <1>1, <1>3, HalvesInit, PTL DEF BitmapSpec
=============================================================================
