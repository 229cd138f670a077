--------------------------- MODULE GeometryProofs ---------------------------
(***************************************************************************)
(* Facts about the layout arithmetic, for every layout main lets through.  *)
(***************************************************************************)
EXTENDS Geometry, TLAPS

-----------------------------------------------------------------------------
(* Products: Z3 is helped with the few nonlinear facts that are needed.    *)

\* Multiplication by a natural number is monotonic.
LEMMA TimesMonotonic ==
  ASSUME NEW a \in Nat, NEW b \in Nat, NEW m \in Nat, a <= b
  PROVE  m * a <= m * b
<1>1. b - a \in Nat  OBVIOUS
<1>2. m * (b - a) \in Nat  BY <1>1
<1>3. m * b = m * a + m * (b - a)  OBVIOUS
<1> QED BY <1>2, <1>3

\* Groups do not overlap: a later group starts a whole group size further on.
LEMMA TimesStep ==
  ASSUME NEW a \in Nat, NEW b \in Nat, NEW m \in Nat, a < b
  PROVE  m * a + m <= m * b
<1>1. m * (a + 1) <= m * b  BY TimesMonotonic
<1>2. m * (a + 1) = m * a + m  OBVIOUS
<1> QED BY <1>1, <1>2

\* ceildiv(a, b) units of size b hold a, one fewer does not.
LEMMA CeildivBounds ==
  ASSUME NEW a \in Nat, NEW b \in Nat \ {0}
  PROVE  /\ ceildiv(a, b) \in Nat
         /\ a <= b * ceildiv(a, b)
         /\ b * ceildiv(a, b) < a + b
<1> DEFINE n == a + b - 1
           q == n \div b
<1>1. n \in Nat  OBVIOUS
<1>2. q \in Int /\ b * q <= n /\ n < b * q + b
  BY <1>1
<1>3. q \in Nat
  <2>1. SUFFICES ASSUME q < 0 PROVE FALSE  BY <1>2
  <2>2. -q - 1 \in Nat  BY <2>1, <1>2
  <2>3. b * (-q - 1) \in Nat  BY <2>2
  <2>4. b * (-q - 1) = -(b * q) - b  BY <1>2
  <2> QED BY <2>3, <2>4, <1>1, <1>2
<1> QED BY <1>2, <1>3 DEF ceildiv

\* Quotient and remainder, and that no other pair makes up the number.
LEMMA DivisionFacts ==
  ASSUME NEW a \in Nat, NEW m \in Nat \ {0}
  PROVE  /\ a \div m \in Nat /\ a % m \in 0 .. m - 1
         /\ a = m * (a \div m) + (a % m)
         /\ \A q \in Nat : \A r \in 0 .. m - 1 : a = m * q + r => q = a \div m /\ r = a % m
<1>1. /\ a \div m \in Nat /\ a % m \in 0 .. m - 1
      /\ a = m * (a \div m) + (a % m)
  OBVIOUS
<1>2. ASSUME NEW q \in Nat, NEW r \in 0 .. m - 1, a = m * q + r
      PROVE  q = a \div m /\ r = a % m
  <2> DEFINE p == a \div m
             s == a % m
  <2>1. p \in Nat /\ s \in 0 .. m - 1 /\ a = m * p + s  BY <1>1
  <2> HIDE DEF p, s
  <2>2. m * p \in Nat /\ m * q \in Nat  BY <2>1
  <2>3. ~ (p < q)
    <3>1. SUFFICES ASSUME p < q PROVE FALSE  OBVIOUS
    <3>2. m * p + m <= m * q  BY <2>1, <3>1, TimesStep
    <3> QED BY <1>2, <2>1, <2>2, <3>2
  <2>4. ~ (q < p)
    <3>1. SUFFICES ASSUME q < p PROVE FALSE  OBVIOUS
    <3>2. m * q + m <= m * p  BY <2>1, <3>1, TimesStep
    <3> QED BY <1>2, <2>1, <2>2, <3>2
  <2>5. p = q  BY <2>1, <2>3, <2>4
  <2>6. r = s
    <3>1. m * p = m * q  BY <2>5
    <3> QED BY <1>2, <2>1, <2>2, <3>1
  <2> QED BY <2>5, <2>6 DEF p, s
<1> QED BY <1>1, <1>2

-----------------------------------------------------------------------------
GroupNumbers(sb) == 0 .. block_group_count(sb) - 1

\* The number of groups, the size of their metadata and where they start.
LEMMA GroupBounds ==
  ASSUME NEW sb, UsableLayout(sb)
  PROVE  /\ block_group_count(sb) \in Nat \ {0}
         /\ \A i \in GroupNumbers(sb) :
              /\ block_group_overhead(sb, i) \in 1 .. sb.blocks_per_group - 1
              /\ block_group_start(sb, i) \in Nat
              /\ block_group_start(sb, i) <= sb.blocks_count
<1> DEFINE n == block_group_count(sb)
<1>1. sb \in Superblocks /\ sb.data_start < sb.blocks_count
      /\ OverheadWithSb(sb) < sb.blocks_per_group
  BY DEF UsableLayout
<1>2. /\ sb.blocks_count \in Nat /\ sb.blocks_per_group \in Nat \ {0}
      /\ sb.first_data_block \in {0, 1} /\ sb.data_start \in Nat \ {0}
      /\ sb.inodes_per_group \in Nat /\ sb.inodes_per_block \in Nat \ {0}
      /\ sb.descs_per_block \in Nat \ {0}
  BY <1>1 DEF Superblocks
<1>3. /\ n \in Nat
      /\ sb.blocks_count <= sb.blocks_per_group * n
      /\ sb.blocks_per_group * n < sb.blocks_count + sb.blocks_per_group
  BY <1>2, CeildivBounds DEF block_group_count
<1>4. n # 0
  <2>1. SUFFICES ASSUME n = 0 PROVE FALSE  OBVIOUS
  <2>2. sb.blocks_per_group * 0 = 0  BY <1>2
  <2> QED BY <1>1, <1>2, <1>3, <2>1, <2>2
<1>5. gdt_block_count(sb) \in Nat
  BY <1>2, <1>3, CeildivBounds DEF gdt_block_count
<1>6. inode_table_blocks(sb) \in Nat
  BY <1>2, CeildivBounds DEF inode_table_blocks
<1>7. ASSUME NEW i \in GroupNumbers(sb)
      PROVE  /\ block_group_overhead(sb, i) \in 1 .. sb.blocks_per_group - 1
             /\ block_group_start(sb, i) \in Nat
             /\ block_group_start(sb, i) <= sb.blocks_count
  <2>1. i \in Nat /\ i < n  BY <1>3 DEF GroupNumbers
  <2>2. block_group_overhead(sb, i) \in 1 .. sb.blocks_per_group - 1
    BY <1>1, <1>2, <1>5, <1>6
       DEF block_group_overhead, OverheadWithSb, OverheadWithoutSb
  <2>3. sb.blocks_per_group * i \in Nat  BY <1>2, <2>1
  <2>4. sb.blocks_per_group * i + sb.blocks_per_group <= sb.blocks_per_group * n
    BY <1>2, <1>3, <2>1, TimesStep
  <2>5. sb.blocks_per_group * n \in Nat  BY <1>2, <1>3
  <2> QED BY <1>2, <1>3, <2>2, <2>3, <2>4, <2>5 DEF block_group_start
<1> QED BY <1>3, <1>4, <1>7

\* The metadata of a group ends before the next group starts.
LEMMA GroupsApart ==
  ASSUME NEW sb, UsableLayout(sb),
         NEW i \in GroupNumbers(sb), NEW j \in GroupNumbers(sb), i < j
  PROVE  block_group_start(sb, i) + block_group_overhead(sb, i) < block_group_start(sb, j)
<1>1. sb.blocks_per_group \in Nat \ {0} /\ sb.first_data_block \in {0, 1}
  BY DEF UsableLayout, Superblocks
<1>2. block_group_count(sb) \in Nat
      /\ block_group_overhead(sb, i) \in 1 .. sb.blocks_per_group - 1
  BY GroupBounds
<1>3. i \in Nat /\ j \in Nat  BY <1>2 DEF GroupNumbers
<1>4. sb.blocks_per_group * i + sb.blocks_per_group <= sb.blocks_per_group * j
  BY <1>1, <1>3, TimesStep
<1>5. sb.blocks_per_group * i \in Nat /\ sb.blocks_per_group * j \in Nat
  BY <1>1, <1>3
<1> QED BY <1>1, <1>2, <1>4, <1>5 DEF block_group_start

-----------------------------------------------------------------------------
\* create_block_group_meta_extents: what the extent of one group covers.
LEMMA MetaExtentFacts ==
  ASSUME NEW sb, UsableLayout(sb), NEW i \in GroupNumbers(sb)
  PROVE  /\ MetaExtent(sb, i) \in [physical_start : Nat, length : Nat]
         /\ MetaExtent(sb, i).physical_start <= data_cluster_count(sb)
         /\ \A c \in DataClusters(sb) :
              fat_cl_to_e4blk(sb, c) \in block_group_start(sb, i) ..
                 (block_group_start(sb, i) + block_group_overhead(sb, i) - 1)
              => /\ MetaExtent(sb, i).physical_start <= c
                 /\ c < PhysicalEnd(MetaExtent(sb, i))
<1>1. /\ sb.data_start \in Nat \ {0} /\ sb.blocks_count \in Nat
      /\ sb.data_start < sb.blocks_count
      /\ sb.blocks_per_group \in Nat
  BY DEF UsableLayout, Superblocks
<1>2. /\ block_group_overhead(sb, i) \in 1 .. sb.blocks_per_group - 1
      /\ block_group_start(sb, i) \in Nat
      /\ block_group_start(sb, i) <= sb.blocks_count
  BY GroupBounds
<1> DEFINE s == block_group_start(sb, i)
           o == block_group_overhead(sb, i)
<1>3. CASE s >= sb.data_start
  BY <1>1, <1>2, <1>3 DEF MetaExtent, e4blk_to_fat_cl, FAT_START_INDEX, data_cluster_count,
     DataClusters, fat_cl_to_e4blk, PhysicalEnd
<1>4. CASE s < sb.data_start /\ s + o >= sb.data_start
  BY <1>1, <1>2, <1>4 DEF MetaExtent, e4blk_to_fat_cl, FAT_START_INDEX, data_cluster_count,
     DataClusters, fat_cl_to_e4blk, PhysicalEnd
<1>5. CASE s + o < sb.data_start
  BY <1>1, <1>2, <1>5 DEF MetaExtent, e4blk_to_fat_cl, FAT_START_INDEX, data_cluster_count,
     DataClusters, fat_cl_to_e4blk, PhysicalEnd
<1> QED BY <1>1, <1>2, <1>3, <1>4, <1>5

\* The extents of two groups are apart and in the order of the groups; two of
\* them start at the same cluster only if both are the dummy extent.
LEMMA MetaExtentsApart ==
  ASSUME NEW sb, UsableLayout(sb),
         NEW i \in GroupNumbers(sb), NEW j \in GroupNumbers(sb), i < j
  PROVE  /\ PhysicalEnd(MetaExtent(sb, i)) <= MetaExtent(sb, j).physical_start
         /\ MetaExtent(sb, i).physical_start = MetaExtent(sb, j).physical_start
              => MetaExtent(sb, i).length = 0 /\ MetaExtent(sb, j).length = 0
<1>1. sb.data_start \in Nat \ {0} /\ sb.blocks_per_group \in Nat
  BY DEF UsableLayout, Superblocks
<1>2. /\ block_group_overhead(sb, i) \in 1 .. sb.blocks_per_group - 1
      /\ block_group_overhead(sb, j) \in 1 .. sb.blocks_per_group - 1
      /\ block_group_start(sb, i) \in Nat /\ block_group_start(sb, j) \in Nat
  BY GroupBounds
<1>3. block_group_start(sb, i) + block_group_overhead(sb, i) < block_group_start(sb, j)
  BY GroupsApart
<1> DEFINE s == block_group_start(sb, i)
           o == block_group_overhead(sb, i)
           t == block_group_start(sb, j)
<1>4. CASE s >= sb.data_start
  BY <1>1, <1>2, <1>3, <1>4 DEF MetaExtent, e4blk_to_fat_cl, FAT_START_INDEX, PhysicalEnd
<1>5. CASE s < sb.data_start /\ s + o >= sb.data_start
  BY <1>1, <1>2, <1>3, <1>5 DEF MetaExtent, e4blk_to_fat_cl, FAT_START_INDEX, PhysicalEnd
<1>6. CASE s + o < sb.data_start
  BY <1>1, <1>2, <1>3, <1>6 DEF MetaExtent, e4blk_to_fat_cl, FAT_START_INDEX, PhysicalEnd
<1> QED BY <1>1, <1>2, <1>4, <1>5, <1>6

-----------------------------------------------------------------------------
\* Whatever permutation qsort leaves, the sorted extents are well-formed.
THEOREM SortedExtentsWellFormed ==
  ASSUME NEW sb, UsableLayout(sb),
         NEW exts \in SortedPermutations(create_block_group_meta_extents(sb),
                                         block_group_count(sb))
  PROVE  WellFormed(sb, exts)
<1> DEFINE n == block_group_count(sb)
           raw == create_block_group_meta_extents(sb)
           Extent == [physical_start : Nat, length : Nat]
<1>1. n \in Nat \ {0}  BY GroupBounds
<1>2. PICK p \in [1..n -> 1..n] :
        /\ \A i, j \in 1..n : p[i] = p[j] => i = j
        /\ \A j \in 1..n : \E i \in 1..n : p[i] = j
        /\ exts = [k \in DOMAIN raw |-> IF k \in 1..n THEN raw[p[k]] ELSE raw[k]]
  BY DEF SortedPermutations
<1>3. \A i, j \in 1..n : i < j => exts[i].physical_start <= exts[j].physical_start
  BY DEF SortedPermutations
<1>4. DOMAIN raw = 1 .. n + 1  BY DEF create_block_group_meta_extents
<1>5. \A k \in 1..n : raw[k] = MetaExtent(sb, k - 1) /\ k - 1 \in GroupNumbers(sb)
  BY <1>1 DEF create_block_group_meta_extents, GroupNumbers
<1>6. raw[n + 1] = [physical_start |-> data_cluster_count(sb), length |-> 1]
  BY <1>1 DEF create_block_group_meta_extents
<1>7. data_cluster_count(sb) \in Nat
  BY DEF UsableLayout, Superblocks, data_cluster_count, FAT_START_INDEX
<1>8. \A k \in 1..n : raw[k] \in Extent /\ raw[k].physical_start <= data_cluster_count(sb)
  BY <1>5, MetaExtentFacts
<1>9. \A i, j \in 1..n : i < j =>
        /\ PhysicalEnd(raw[i]) <= raw[j].physical_start
        /\ raw[i].physical_start = raw[j].physical_start => raw[i].length = 0 /\ raw[j].length = 0
  BY <1>1, <1>5, MetaExtentsApart
<1>10. \A k \in 1..n : exts[k] = raw[p[k]] /\ p[k] \in 1..n
  <2>1. TAKE k \in 1..n
  <2>2. p[k] \in 1..n  OBVIOUS
  <2>3. k \in DOMAIN raw  BY <1>1, <1>4
  <2>4. exts[k] = IF k \in 1..n THEN raw[p[k]] ELSE raw[k]
    <3> HIDE DEF raw
    <3> QED BY <2>3, <1>2
  <2> QED BY <2>2, <2>4
<1>11. exts[n + 1] = raw[n + 1]  BY <1>1, <1>2, <1>4
<1>12. exts \in [1 .. n + 1 -> Extent]
  <2>1. ASSUME NEW k \in 1 .. n + 1
        PROVE  (IF k \in 1..n THEN raw[p[k]] ELSE raw[k]) \in Extent
    <3>1. CASE k \in 1..n  BY <3>1, <1>8, <1>10
    <3>2. CASE k \notin 1..n
      <4>1. k = n + 1  BY <3>2, <1>1
      <4> QED BY <4>1, <3>2, <1>6, <1>7
    <3> QED BY <3>1, <3>2
  <2> HIDE DEF raw, Extent
  <2> QED BY <2>1, <1>2, <1>4
<1>13. ASSUME NEW i \in 1..n, NEW j \in 1..n, i < j
       PROVE  PhysicalEnd(exts[i]) <= exts[j].physical_start
  <2> DEFINE a == p[i]
             b == p[j]
  <2>1. a \in 1..n /\ b \in 1..n /\ exts[i] = raw[a] /\ exts[j] = raw[b]  BY <1>10
  <2>2. a # b  BY <1>2, <1>1, <1>13
  <2>3. raw[a] \in Extent /\ raw[b] \in Extent  BY <1>8, <2>1
  <2>4. raw[a].physical_start <= raw[b].physical_start  BY <1>3, <2>1, <1>13
  <2>5. CASE a < b  BY <1>9, <2>1, <2>5
  <2>6. CASE b < a
    <3>1. PhysicalEnd(raw[b]) <= raw[a].physical_start
          /\ (raw[b].physical_start = raw[a].physical_start => raw[a].length = 0)
      BY <1>9, <2>1, <2>6
    <3> HIDE DEF raw, a, b
    <3> QED BY <3>1, <2>1, <2>3, <2>4 DEF PhysicalEnd
  <2> QED BY <1>1, <2>1, <2>2, <2>5, <2>6
<1>14. ASSUME NEW c \in DataClusters(sb), IsMetadataBlock(sb, fat_cl_to_e4blk(sb, c))
       PROVE  \E k \in 1..n : exts[k].physical_start <= c /\ c < PhysicalEnd(exts[k])
  <2>1. PICK i \in GroupNumbers(sb) : fat_cl_to_e4blk(sb, c) \in block_group_start(sb, i) ..
                 (block_group_start(sb, i) + block_group_overhead(sb, i) - 1)
    BY <1>14 DEF IsMetadataBlock, GroupNumbers
  <2>2. i + 1 \in 1..n /\ raw[i + 1] = MetaExtent(sb, i)
    BY <1>1, <1>5 DEF GroupNumbers
  <2>3. raw[i + 1].physical_start <= c /\ c < PhysicalEnd(raw[i + 1])
    BY <2>1, <2>2, MetaExtentFacts
  <2>4. PICK k \in 1..n : p[k] = i + 1
    BY <1>2, <2>2
  <2> QED BY <1>10, <2>3, <2>4
<1> QED BY <1>6, <1>8, <1>10, <1>11, <1>12, <1>13, <1>14 DEF WellFormed

-----------------------------------------------------------------------------
\* Between two clusters of different block groups there is a metadata block:
\* the first block of the later group.
LEMMA GroupBoundary ==
  ASSUME NEW sb, UsableLayout(sb),
         NEW c \in DataClusters(sb), NEW d \in DataClusters(sb), c < d,
         GroupOfCluster(sb, c) # GroupOfCluster(sb, d)
  PROVE  \E x \in DataClusters(sb) :
           c < x /\ x <= d /\ IsMetadataBlock(sb, fat_cl_to_e4blk(sb, x))
<1> DEFINE m == sb.blocks_per_group
           f == sb.first_data_block
           bc == fat_cl_to_e4blk(sb, c)
           bd == fat_cl_to_e4blk(sb, d)
           h == GroupOfCluster(sb, c)
           g == GroupOfCluster(sb, d)
           x == (m * g + f) - sb.data_start + FAT_START_INDEX
<1>1. /\ sb.data_start \in Nat \ {0} /\ m \in Nat \ {0} /\ f \in {0, 1}
      /\ sb.blocks_count \in Nat /\ sb.data_start < sb.blocks_count
  BY DEF UsableLayout, Superblocks
<1>2. /\ bc \in Nat /\ bd \in Nat /\ bc < bd /\ sb.data_start <= bc /\ bd < sb.blocks_count
      /\ c \in Nat /\ d \in Nat
  BY <1>1 DEF DataClusters, data_cluster_count, FAT_START_INDEX, fat_cl_to_e4blk
<1>3. h = (bc - f) \div m /\ g = (bd - f) \div m
  BY DEF GroupOfCluster, GroupOfBlock
<1>4. bc - f \in Nat /\ bd - f \in Nat  BY <1>1, <1>2
<1>5. /\ h \in Int /\ m * h <= bc - f /\ bc - f < m * h + m
      /\ g \in Int /\ m * g <= bd - f /\ bd - f < m * g + m
  <2> HIDE DEF bc, bd, h, g, m, f
  <2>1. ASSUME NEW a \in Nat PROVE a \div m \in Int /\ m * (a \div m) <= a
                                   /\ a < m * (a \div m) + m
    BY <1>1, <2>1
  <2> QED BY <1>3, <1>4, <2>1
<1>6. h \in Nat /\ g \in Nat
  <2> HIDE DEF bc, bd, h, g, m, f
  <2>1. ASSUME NEW q \in Int, NEW a \in Nat, a < m * q + m PROVE q \in Nat
    <3>1. SUFFICES ASSUME q < 0 PROVE FALSE  BY <2>1
    <3>2. m * (-q - 1) \in Nat  BY <1>1, <3>1
    <3>3. m * (-q - 1) = -(m * q) - m  BY <1>1
    <3>4. m * q \in Int  BY <1>1
    <3> QED BY <1>1, <2>1, <3>2, <3>3, <3>4
  <2> QED BY <1>4, <1>5, <2>1
<1>7. h < g
  <2> HIDE DEF bc, bd, h, g, m, f
  <2>1. SUFFICES ASSUME g < h PROVE FALSE
    <3>1. h # g  BY DEF h, g
    <3> QED BY <3>1, <1>6
  <2>2. m * g + m <= m * h  BY <1>1, <1>6, <2>1, TimesStep
  <2>3. m * g \in Nat /\ m * h \in Nat  BY <1>1, <1>6
  <2> QED BY <1>1, <1>2, <1>4, <1>5, <2>2, <2>3
<1>8. m * g \in Nat /\ bc < m * g + f /\ m * g + f <= bd
  <2> HIDE DEF bc, bd, h, g, m, f
  <2>1. m * h + m <= m * g  BY <1>1, <1>6, <1>7, TimesStep
  <2>2. m * g \in Nat /\ m * h \in Nat  BY <1>1, <1>6
  <2> QED BY <1>1, <1>2, <1>5, <2>1, <2>2
<1>9. g \in GroupNumbers(sb)
  <2>1. block_group_count(sb) \in Nat /\ sb.blocks_count <= m * block_group_count(sb)
    BY <1>1, CeildivBounds DEF block_group_count
  <2> DEFINE n == block_group_count(sb)
  <2> HIDE DEF bc, bd, h, g, m, f, n
  <2>2. SUFFICES ASSUME n <= g PROVE FALSE
    BY <1>6, <2>1 DEF GroupNumbers, n
  <2>3. m * n <= m * g  BY <1>1, <1>6, <2>1, <2>2, TimesMonotonic DEF n
  <2>4. m * n \in Nat  BY <1>1, <2>1 DEF n
  <2> QED BY <1>1, <1>2, <1>8, <2>1, <2>3, <2>4 DEF n
<1>10. /\ x \in DataClusters(sb) /\ c < x /\ x <= d
       /\ fat_cl_to_e4blk(sb, x) = block_group_start(sb, g)
  <2> HIDE DEF g
  <2> QED BY <1>1, <1>2, <1>8
          DEF DataClusters, data_cluster_count, FAT_START_INDEX, fat_cl_to_e4blk, block_group_start
<1>11. IsMetadataBlock(sb, fat_cl_to_e4blk(sb, x))
  <2>1. /\ block_group_overhead(sb, g) \in Nat \ {0}
        /\ block_group_start(sb, g) \in Nat
    BY <1>1, <1>9, GroupBounds
  <2> HIDE DEF g, x
  <2> QED BY <1>9, <1>10, <2>1 DEF IsMetadataBlock, GroupNumbers
<1> QED BY <1>10, <1>11
=============================================================================
