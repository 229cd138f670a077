---------------------------- MODULE BuildingProofs ----------------------------
(***************************************************************************)
(* What tree_builder.cpp fills is what ext4 needs: the extent trees list   *)
(* the extents given to them and the bitmaps count what they hold; the     *)
(* directories own their blocks, fill them and list their children.        *)
(***************************************************************************)
EXTENDS ExtentTree, DirBuilder, FiniteSetTheorems, SequenceTheorems, WellFoundedInduction, TLAPS

-----------------------------------------------------------------------------
(* Least and greatest members, and sums of sequences.                      *)

\* A set of naturals has a least element.
LEMMA LeastNat ==
  ASSUME NEW S, S \subseteq Nat, S # {}
  PROVE  \E x \in S : \A y \in S : x <= y
<1>1. PICK x \in S : \A y \in S : ~ (<<y, x>> \in OpToRel(<, Nat))
  BY NatLessThanWellFounded, WFMin, Zenon
<1>2. ASSUME NEW y \in S PROVE x <= y
  <2>1. <<y, x>> \notin OpToRel(<, Nat)  BY <1>1
  <2>2. x \in Nat /\ y \in Nat  OBVIOUS
  <2>3. <<y, x>> \in Nat \X Nat /\ <<y, x>>[1] = y /\ <<y, x>>[2] = x  BY <2>2
  <2>4. y < x => <<y, x>> \in OpToRel(<, Nat)  BY <2>3, Zenon DEF OpToRel
  <2>5. ~ (y < x)  BY <2>1, <2>4, Zenon
  <2> QED BY <2>2, <2>5
<1> QED BY <1>2

\* Min of a nonempty set of naturals is its least element.
LEMMA MinFacts ==
  ASSUME NEW S, S \subseteq Nat, S # {}
  PROVE  Min(S) \in S /\ \A y \in S : Min(S) <= y
<1>1. \E x \in S : \A y \in S : x =< y  BY LeastNat, Zenon
<1> QED BY <1>1, Zenon DEF Min

\* Max of a nonempty part of 1 .. n is its greatest element.
LEMMA MaxFacts ==
  ASSUME NEW n \in Nat, NEW S, S \subseteq 1 .. n, S # {}
  PROVE  Max(S) \in S /\ \A y \in S : Max(S) >= y
<1> DEFINE R == { n - y : y \in S }
<1>0. \A y \in S : y \in Nat /\ n - y \in Nat  OBVIOUS
<1>1. R \subseteq Nat /\ R # {}  BY <1>0, Zenon
<1>2. PICK r \in R : \A y \in R : r <= y  BY <1>1, LeastNat, Zenon
<1>3. PICK x \in S : r = n - x  BY <1>2
<1>4. ASSUME NEW y \in S PROVE x >= y
  <2>1. n - x <= n - y  BY <1>2, <1>3, Zenon
  <2> QED BY <1>0, <2>1
<1>5. \E z \in S : \A y \in S : z >= y  BY <1>4
<1> QED BY <1>5, Zenon DEF Max

\* f is the fold FoldLeft makes of the weights w of n elements.
FoldsTo(f, w, n) ==
  f = [t \in SUBSET (1 .. n) |-> IF t = {} THEN 0 ELSE f[t \ {Max(t)}] + w[Max(t)]]

\* f gives the sums of the first k weights.
IsSum(f, w, n) ==
  /\ f[0] = 0
  /\ \A k \in 1 .. n : f[k] = f[k - 1] + w[k]
  /\ \A k \in 0 .. n : f[k] \in Nat

\* The greatest element of 1 .. k, and of a set with the bound in it.
LEMMA MaxOfPrefix ==
  ASSUME NEW n \in Nat, NEW S, S \subseteq 1 .. n, n \in S
  PROVE  Max(S) = n
<1>1. Max(S) \in S /\ Max(S) >= n
  <2>1. S # {}  OBVIOUS
  <2> QED BY <2>1, MaxFacts, Zenon
<1>2. Max(S) \in 1 .. n  BY <1>1, Zenon
<1> QED BY <1>1, <1>2

\* There is a fold for every list of weights.
LEMMA FoldExists ==
  ASSUME NEW n \in Nat, NEW w
  PROVE  \E f : FoldsTo(f, w, n)
<1> DEFINE C == { m \in 0 .. n : ~ \E f : FoldsTo(f, w, m) }
<1>1. SUFFICES ASSUME C # {} PROVE FALSE  OBVIOUS
<1>2. PICK m \in C : \A y \in C : m <= y
  <2>1. C \subseteq Nat  OBVIOUS
  <2> QED BY <1>1, <2>1, LeastNat, Zenon
<1>3. CASE m = 0
  <2> DEFINE f == [t \in SUBSET (1 .. 0) |-> 0]
  <2>1. SUBSET (1 .. 0) = {{}}  BY SMT
  <2>2. f = [t \in SUBSET (1 .. 0) |-> IF t = {} THEN 0 ELSE f[t \ {Max(t)}] + w[Max(t)]]
    BY <2>1
  <2> QED BY <1>2, <1>3, <2>2, Zenon DEF FoldsTo
<1>4. CASE m # 0
  <2>1. m \in Nat /\ m - 1 \in 0 .. n /\ ~ (m <= m - 1)  BY <1>4
  <2>2. m - 1 \notin C  BY <1>2, <2>1, Zenon
  <2>3. PICK f : FoldsTo(f, w, m - 1)  BY <2>1, <2>2, Zenon
  <2> DEFINE g == [t \in SUBSET (1 .. m) |-> IF m \in t THEN f[t \ {m}] + w[m] ELSE f[t]]
  <2>4. ASSUME NEW t \in SUBSET (1 .. m)
        PROVE  g[t] = IF t = {} THEN 0 ELSE g[t \ {Max(t)}] + w[Max(t)]
    <3>1. CASE m \in t
      <4>1. Max(t) = m  BY <2>1, <3>1, MaxOfPrefix
      <4>2. t \ {m} \in SUBSET (1 .. m) /\ m \notin t \ {m}  OBVIOUS
      <4>3. g[t \ {m}] = f[t \ {m}]  BY <4>2
      <4> QED BY <3>1, <4>1, <4>3
    <3>2. CASE m \notin t
      <4>1. t \in SUBSET (1 .. m - 1)  BY <2>1, <3>2
      <4>2. f[t] = IF t = {} THEN 0 ELSE f[t \ {Max(t)}] + w[Max(t)]
        BY <2>3, <4>1 DEF FoldsTo
      <4>3. t \ {Max(t)} \in SUBSET (1 .. m) /\ m \notin t \ {Max(t)}  BY <3>2
      <4>4. g[t \ {Max(t)}] = f[t \ {Max(t)}] /\ g[t] = f[t]  BY <3>2, <4>3
      <4> QED BY <4>2, <4>4
    <3> QED BY <3>1, <3>2
  <2>5. g = [t \in SUBSET (1 .. m) |-> IF t = {} THEN 0 ELSE g[t \ {Max(t)}] + w[Max(t)]]
    BY <2>4
  <2>6. \E h : FoldsTo(h, w, m)  BY <2>5 DEF FoldsTo
  <2> QED BY <1>2, <2>6, Zenon
<1> QED BY <1>3, <1>4

\* Every induction over the prefixes of a list, for a set of the good ones.
LEMMA PrefixInduction ==
  ASSUME NEW n \in Nat, NEW G, 0 \in G, \A k \in 1 .. n : k - 1 \in G => k \in G
  PROVE  \A k \in 0 .. n : k \in G
<1> DEFINE C == { k \in 0 .. n : k \notin G }
<1>1. SUFFICES ASSUME C # {} PROVE FALSE  OBVIOUS
<1>2. C \subseteq Nat  OBVIOUS
<1>3. PICK m \in C : \A y \in C : m <= y  BY <1>1, <1>2, LeastNat, Zenon
<1>4. m # 0 /\ m \in 1 .. n /\ m - 1 \in 0 .. n /\ ~ (m <= m - 1)  OBVIOUS
<1>5. m - 1 \in G  BY <1>3, <1>4, Zenon
<1> QED BY <1>4, <1>5

\* The fold over a list gives the sums of its prefixes.
LEMMA FoldSums ==
  ASSUME NEW n \in Nat, NEW w, \A k \in 1 .. n : w[k] \in Nat, NEW f, FoldsTo(f, w, n)
  PROVE  IsSum([k \in 0 .. n |-> f[1 .. k]], w, n)
<1> DEFINE g == [k \in 0 .. n |-> f[1 .. k]]
<1>1. g[0] = 0
  <2>1. 1 .. 0 = {} /\ {} \in SUBSET (1 .. n)  OBVIOUS
  <2>2. f[{}] = 0  BY <2>1 DEF FoldsTo
  <2> QED BY <2>1, <2>2
<1>2. ASSUME NEW k \in 1 .. n PROVE g[k] = g[k - 1] + w[k]
  <2>1. 1 .. k \in SUBSET (1 .. n) /\ 1 .. k # {}  OBVIOUS
  <2>2. Max(1 .. k) = k  BY MaxOfPrefix
  <2>3. (1 .. k) \ {k} = 1 .. k - 1  OBVIOUS
  <2>4. f[1 .. k] = f[(1 .. k) \ {Max(1 .. k)}] + w[Max(1 .. k)]
    BY <2>1 DEF FoldsTo
  <2>5. f[1 .. k] = f[1 .. k - 1] + w[k]  BY <2>2, <2>3, <2>4
  <2> QED BY <2>5
<1> DEFINE G == { k \in 0 .. n : g[k] \in Nat }
<1>3. 0 \in G  BY <1>1
<1>4. ASSUME NEW k \in 1 .. n, k - 1 \in G PROVE k \in G
  <2>1. g[k - 1] \in Nat /\ w[k] \in Nat /\ g[k] = g[k - 1] + w[k]  BY <1>2, <1>4
  <2> HIDE DEF g
  <2> QED BY <2>1
<1>5. \A k \in 0 .. n : k \in G
  <2> HIDE DEF G
  <2> QED BY <1>3, <1>4, PrefixInduction
<1> QED BY <1>1, <1>2, <1>5 DEF IsSum

\* Lists with the same first k weights have the same sum of them.
LEMMA SumUnique ==
  ASSUME NEW n \in Nat, NEW m \in Nat, NEW f, NEW g, NEW w, NEW v,
         IsSum(f, w, n), IsSum(g, v, m),
         NEW k \in Nat, k <= n, k <= m, \A j \in 1 .. k : w[j] = v[j]
  PROVE  f[k] = g[k]
<1> DEFINE G == { j \in 0 .. k : f[j] = g[j] }
<1>1. 0 \in G  BY DEF IsSum
<1>2. ASSUME NEW j \in 1 .. k, j - 1 \in G PROVE j \in G
  <2>1. j \in 1 .. n /\ j \in 1 .. m  OBVIOUS
  <2>2. f[j] = f[j - 1] + w[j] /\ g[j] = g[j - 1] + v[j]  BY <2>1 DEF IsSum
  <2>3. f[j - 1] = g[j - 1] /\ w[j] = v[j]  BY <1>2
  <2> QED BY <2>2, <2>3
<1>3. \A j \in 0 .. k : j \in G
  <2> HIDE DEF G
  <2> QED BY <1>1, <1>2, PrefixInduction
<1> QED BY <1>3

-----------------------------------------------------------------------------
(* The lengths of extents.                                                 *)

\* TotalLength of extents with lengths is the sum of them.
LEMMA TotalSum ==
  ASSUME NEW exts, NEW n \in Nat, Len(exts) = n, DOMAIN exts = 1 .. n,
         \A k \in 1 .. n : exts[k].len \in Nat
  PROVE  \E f : IsSum(f, [k \in 1 .. n |-> exts[k].len], n) /\ TotalLength(exts) = f[n]
<1> DEFINE w == [k \in 1 .. n |-> exts[k].len]
           P(g) == g = [t \in SUBSET DOMAIN exts |->
                          IF t = {} THEN 0 ELSE g[t \ {Max(t)}] + exts[Max(t)].len]
           h == CHOOSE g : P(g)
<1>1. ASSUME NEW g PROVE P(g) <=> FoldsTo(g, w, n)
  <2>1. ASSUME NEW t \in SUBSET (1 .. n), t # {} PROVE exts[Max(t)].len = w[Max(t)]
    <3>1. Max(t) \in t  BY <2>1, MaxFacts
    <3> QED BY <3>1
  <2>2. [t \in SUBSET (1 .. n) |-> IF t = {} THEN 0 ELSE g[t \ {Max(t)}] + exts[Max(t)].len]
          = [t \in SUBSET (1 .. n) |-> IF t = {} THEN 0 ELSE g[t \ {Max(t)}] + w[Max(t)]]
    <3> HIDE DEF w
    <3> QED BY <2>1
  <2> HIDE DEF w
  <2> QED BY <2>2, Zenon DEF FoldsTo
<1>2. P(h)
  <2>1. \E g : FoldsTo(g, w, n)  BY FoldExists
  <2>2. \E g : P(g)
    <3> HIDE DEF P
    <3> QED BY <1>1, <2>1, Zenon
  <2> HIDE DEF P
  <2> QED BY <2>2, Zenon
<1>3. TotalLength(exts) = h[1 .. n]
  BY Zenon DEF TotalLength, FoldLeft, MapThenFoldSet
<1>4. FoldsTo(h, w, n)
  <2> HIDE DEF P, h
  <2> QED BY <1>1, <1>2, Zenon
<1> HIDE DEF h
<1>5. \A k \in 1 .. n : w[k] \in Nat  OBVIOUS
<1>6. IsSum([k \in 0 .. n |-> h[1 .. k]], w, n)
  <2> HIDE DEF w
  <2> QED BY <1>4, <1>5, FoldSums
<1>7. [k \in 0 .. n |-> h[1 .. k]][n] = h[1 .. n]  OBVIOUS
<1> QED BY <1>3, <1>6, <1>7, Zenon

Lens(exts) == \A k \in DOMAIN exts : exts[k].len \in Nat

\* No extents have no length; the sum is a natural number; one extent more adds its length.
LEMMA TotalFacts ==
  ASSUME NEW exts, NEW T, exts \in Seq(T), Lens(exts)
  PROVE  /\ TotalLength(exts) \in Nat
         /\ exts = <<>> => TotalLength(exts) = 0
         /\ \A e \in T : e.len \in Nat => TotalLength(Append(exts, e)) = TotalLength(exts) + e.len
<1> DEFINE n == Len(exts)
           w == [k \in 1 .. n |-> exts[k].len]
<1>1. /\ n \in Nat /\ Len(exts) = n /\ DOMAIN exts = 1 .. n
      /\ \A k \in 1 .. n : exts[k].len \in Nat
  BY DEF Lens
<1>2. PICK f : IsSum(f, w, n) /\ TotalLength(exts) = f[n]
  <2> HIDE DEF n
  <2> QED BY <1>1, TotalSum
<1>3. TotalLength(exts) \in Nat
  <2>1. n \in 0 .. n  BY <1>1
  <2> QED BY <1>2, <2>1 DEF IsSum
<1>4. ASSUME exts = <<>> PROVE TotalLength(exts) = 0
  <2>1. n = 0  BY <1>4
  <2> QED BY <1>2, <2>1 DEF IsSum
<1>5. ASSUME NEW e \in T, e.len \in Nat
      PROVE  TotalLength(Append(exts, e)) = TotalLength(exts) + e.len
  <2> DEFINE x == Append(exts, e)
             v == [k \in 1 .. n + 1 |-> x[k].len]
  <2>1. /\ Len(x) = n + 1 /\ DOMAIN x = 1 .. n + 1 /\ n + 1 \in Nat
        /\ x[n + 1] = e /\ \A k \in 1 .. n : x[k] = exts[k]
    BY <1>1
  <2>2. \A k \in 1 .. n + 1 : x[k].len \in Nat  BY <1>1, <1>5, <2>1
  <2>3. PICK g : IsSum(g, v, n + 1) /\ TotalLength(x) = g[n + 1]
    <3> HIDE DEF n, x
    <3> QED BY <2>1, <2>2, TotalSum
  <2>4. \A j \in 1 .. n : w[j] = v[j]  BY <1>1, <2>1
  <2>5. f[n] = g[n]
    <3> HIDE DEF n, w, v
    <3>1. n <= n /\ n <= n + 1  BY <1>1
    <3> QED BY <1>1, <1>2, <2>1, <2>3, <2>4, <3>1, SumUnique
  <2>6. g[n + 1] = g[n] + v[n + 1]
    <3> HIDE DEF v
    <3>1. n + 1 \in 1 .. n + 1 /\ (n + 1) - 1 = n  BY <1>1
    <3>2. g[n + 1] = g[(n + 1) - 1] + v[n + 1]  BY <2>3, <3>1 DEF IsSum
    <3> QED BY <3>1, <3>2
  <2>7. v[n + 1] = e.len
    <3>1. n + 1 \in 1 .. n + 1  BY <1>1
    <3> QED BY <2>1, <3>1
  <2> HIDE DEF v
  <2> QED BY <1>2, <2>3, <2>5, <2>6, <2>7
<1> QED BY <1>3, <1>4, <1>5

-----------------------------------------------------------------------------
(* The extent trees.                                                       *)

ExtentRec == [kind : {"extent"}, logical : Nat, start : Nat \ {0}, len : Nat \ {0}]

IndexNodes == DOMAIN nodes \ AllInodes

DataOf(n) == UNION { ExtentBlocks(given[n][k]) : k \in DOMAIN given[n] }

AllData == UNION { DataOf(n) : n \in AllInodes }

\* The extents are in the inode,
Flat(n) ==
  /\ Len(given[n]) <= RootMax
  /\ nodes[n] = [depth |-> 0, max |-> RootMax, entries |-> given[n]]

\* or in a block,
Deep(n, b) ==
  /\ Len(given[n]) <= BlockMax
  /\ b \in IndexNodes
  /\ nodes[n] = [depth |-> 1, max |-> RootMax, entries |-> <<Entry("index", 0, b, 0)>>]
  /\ nodes[b] = [depth |-> 0, max |-> BlockMax, entries |-> given[n]]

\* or one of them lies over the index to the others.
Overfull(n) ==
  /\ Len(given[n]) > BlockMax
  /\ nodes[n] = [depth |-> 1, max |-> RootMax, entries |-> <<Last(given[n])>>]

Shape(n) == Flat(n) \/ (\E b \in IndexNodes : Deep(n, b)) \/ Overfull(n)

\* The levels an inode has in blocks of its own.
Levels(n) == IF Flat(n) THEN 0 ELSE 1

TreeTypes ==
  /\ DOMAIN nodes \subseteq AllInodes \cup Index /\ AllInodes \subseteq DOMAIN nodes
  /\ given \in [AllInodes -> Seq(ExtentRec)]
  /\ i_blocks \in [AllInodes -> Int]
  /\ index_blocks \subseteq Index /\ IndexNodes \cap index_blocks = {}
  /\ tree_pc \in {"tree", "root", "directory", "lost+found", "done", "exited", "astray"}

Shapes == \A n \in AllInodes : Shape(n)

\* No block is the index of two inodes.
IndexesApart ==
  \A n, m \in AllInodes : \A b \in IndexNodes : Deep(n, b) /\ Deep(m, b) => n = m

\* The block build_lost_found got has no other use yet.
BlockHeld ==
  /\ tree_pc \in {"root", "lost+found"} =>
       block \in Index \ (index_blocks \cup marked \cup DOMAIN nodes)
  /\ tree_pc = "root" => given[RootDir] # <<>>
  /\ tree_pc \in {"tree", "root", "directory", "lost+found"} => given[LostFoundInode] = <<>>

Accounts ==
  /\ marked = AllData \cup IndexNodes
  /\ marked \subseteq (Payload \cup Index) \ index_blocks
  /\ free_blocks = Cardinality(Payload \cup Index) - Cardinality(marked)
  /\ \A n \in AllInodes :
       /\ DataOf(n) \cap IndexNodes = {}
       /\ Len(given[n]) <= BlockMax => i_blocks[n] = Cardinality(DataOf(n)) + Levels(n)

\* The extents of an inode follow each other.
Contiguous(n) ==
  \A k \in DOMAIN given[n] : given[n][k].logical = TotalLength(SubSeq(given[n], 1, k - 1))

TreeInv ==
  /\ TreeTypes /\ Shapes /\ IndexesApart /\ BlockHeld /\ Accounts
  /\ \A n \in AllInodes : Contiguous(n)

\* What the assumptions say of the numbers and blocks.
LEMMA TreeConstants ==
  /\ AllInodes \subseteq Nat \ {0} /\ RootDir \in Inodes /\ LostFoundInode \notin Inodes
  /\ AllInodes \cap (Payload \cup Index) = {}
  /\ Payload \cup Index \subseteq Nat \ {0} /\ Payload \cap Index = {}
  /\ IsFiniteSet(Payload \cup Index) /\ Cardinality(Payload \cup Index) \in Nat
  /\ RootMax \in Nat /\ BlockMax \in Nat /\ 2 <= RootMax /\ RootMax < BlockMax
<1> USE ExtentTreeAssumption
<1>1. IsFiniteSet(Payload \cup Index)  BY FS_Union, Zenon DEF ExtentTreeAssumption
<1>2. Cardinality(Payload \cup Index) \in Nat  BY <1>1, FS_CardinalityType, Zenon
<1>3. AllInodes \subseteq Nat \ {0}  BY DEF ExtentTreeAssumption, AllInodes, LostFoundInode
<1> QED BY <1>1, <1>2, <1>3 DEF ExtentTreeAssumption, AllInodes

\* The path of a tree of one level,
LEMMA PathOfOne ==
  ASSUME NEW nds, NEW n, nds[n].depth = 0
  PROVE  Path(nds, n) = <<n>>
<1> DEFINE R(p) == [level \in 1 .. nds[n].depth + 1 |->
                      IF level = 1 THEN n
                      ELSE IF p[level - 1] = Nowhere THEN Nowhere ELSE Child(nds, p[level - 1])]
           g == [level \in 1 .. 1 |-> n]
           h == CHOOSE p : p = R(p)
<1>1. g = R(g)  OBVIOUS
<1>2. h = R(h)
  <2> HIDE DEF g, R
  <2> QED BY <1>1, Zenon
<1>3. Path(nds, n) = h  BY Zenon DEF Path
<1> HIDE DEF h
<1>4. h = [level \in 1 .. 1 |-> n]
  <2>1. R(h) = [level \in 1 .. 1 |-> n]  OBVIOUS
  <2> QED BY <1>2, <2>1, Zenon
<1>5. <<n>> = [level \in 1 .. 1 |-> n]  OBVIOUS
<1> QED BY <1>3, <1>4, <1>5, Zenon

\* and of two.
LEMMA PathOfTwo ==
  ASSUME NEW nds, NEW n, nds[n].depth = 1, n # Nowhere
  PROVE  Path(nds, n) = <<n, Child(nds, n)>>
<1> DEFINE R(p) == [level \in 1 .. nds[n].depth + 1 |->
                      IF level = 1 THEN n
                      ELSE IF p[level - 1] = Nowhere THEN Nowhere ELSE Child(nds, p[level - 1])]
           g == [level \in 1 .. 2 |-> IF level = 1 THEN n ELSE Child(nds, n)]
           h == CHOOSE p : p = R(p)
<1>1. g = R(g)
  <2>1. nds[n].depth + 1 = 2  OBVIOUS
  <2>2. ASSUME NEW level \in 1 .. 2, level # 1
        PROVE  Child(nds, n) = IF g[level - 1] = Nowhere THEN Nowhere ELSE Child(nds, g[level - 1])
    <3>1. g[1] = n  BY SMT
    <3> HIDE DEF g, h, R
    <3>2. level = 2 /\ level - 1 = 1  BY <2>2, SMT
    <3> QED BY <2>2, <3>1, <3>2, Zenon
  <2> HIDE DEF g
  <2>3. [level \in 1 .. 2 |-> IF level = 1 THEN n ELSE Child(nds, n)] = R(g)
    BY <2>1, <2>2
  <2> QED BY <2>3 DEF g
<1>2. h = R(h)
  <2> HIDE DEF g, R
  <2> QED BY <1>1, Zenon
<1>3. Path(nds, n) = h  BY Zenon DEF Path
<1> HIDE DEF h
<1>4. DOMAIN h = 1 .. 2
  <2>1. DOMAIN R(h) = 1 .. 2  OBVIOUS
  <2> HIDE DEF R
  <2> QED BY <1>2, <2>1, Zenon
<1>5. h[1] = n /\ h[2] = Child(nds, n)
  <2>1. 1 \in 1 .. nds[n].depth + 1 /\ 2 \in 1 .. nds[n].depth + 1 /\ 2 # 1 /\ 2 - 1 = 1  OBVIOUS
  <2>2. R(h)[1] = n  BY <2>1, Zenon
  <2>3. R(h)[2] = IF h[2 - 1] = Nowhere THEN Nowhere ELSE Child(nds, h[2 - 1])
    BY <2>1, Zenon
  <2> HIDE DEF R
  <2>4. h[1] = n  BY <1>2, <2>2, Zenon
  <2>5. h[2] = IF h[1] = Nowhere THEN Nowhere ELSE Child(nds, h[1])
    BY <1>2, <2>1, <2>3, Zenon
  <2> QED BY <2>4, <2>5, Zenon
<1>6. h = [level \in 1 .. 2 |-> h[level]]
  <2>1. h = [level \in 1 .. nds[n].depth + 1 |-> R(h)[level]]
    <3>1. R(h) = [level \in 1 .. nds[n].depth + 1 |-> R(h)[level]]  OBVIOUS
    <3> HIDE DEF R
    <3> QED BY <1>2, <3>1, Zenon
  <2>2. nds[n].depth + 1 = 2  OBVIOUS
  <2> HIDE DEF R
  <2> QED BY <1>2, <2>1, <2>2
<1>7. h = <<h[1], h[2]>>  BY <1>6
<1> QED BY <1>3, <1>5, <1>7, Zenon

\* The entries of one node are replaced.
LEMMA EntriesExcept ==
  ASSUME NEW nds, NEW r, NEW s
  PROVE  [nds EXCEPT ![r].entries = s] = [nds EXCEPT ![r] = [nds[r] EXCEPT !.entries = s]]
OBVIOUS

\* A node with other entries keeps its depth and its room.
LEMMA NodeExcept ==
  ASSUME NEW d, NEW m, NEW s, NEW v
  PROVE  [[depth |-> d, max |-> m, entries |-> s] EXCEPT !.entries = v]
           = [depth |-> d, max |-> m, entries |-> v]
OBVIOUS

\* The same for a node that has a name.
LEMMA NodeExceptTo ==
  ASSUME NEW d, NEW m, NEW s, NEW v, NEW r, r = [depth |-> d, max |-> m, entries |-> s]
  PROVE  [r EXCEPT !.entries = v] = [depth |-> d, max |-> m, entries |-> v]
BY NodeExcept

\* A node a level deeper, with other entries.
LEMMA NodeDeeper ==
  ASSUME NEW r, NEW d, NEW m, NEW s, r = [depth |-> d, max |-> m, entries |-> s], NEW v
  PROVE  [r EXCEPT !.depth = @ + 1, !.entries = v]
           = [depth |-> r.depth + 1, max |-> r.max, entries |-> v]
<1> DEFINE p == [r EXCEPT !.depth = @ + 1]
<1>1. [r EXCEPT !.depth = @ + 1, !.entries = v] = [p EXCEPT !.entries = v]  OBVIOUS
<1>2. p = [depth |-> r.depth + 1, max |-> r.max, entries |-> s]  OBVIOUS
<1> HIDE DEF p
<1>3. [p EXCEPT !.entries = v] = [depth |-> r.depth + 1, max |-> r.max, entries |-> v]
  BY <1>2, NodeExceptTo
<1> QED BY <1>1, <1>3, Zenon

\* A tree that is its inode alone: append_to_extent_tree finds room in it or
\* nowhere.
LEMMA FlatTree ==
  ASSUME NEW nds, NEW n, n # Nowhere, n \in DOMAIN nds, NEW T, NEW s \in Seq(T), NEW max \in Nat,
         nds[n] = [depth |-> 0, max |-> max, entries |-> s]
  PROVE  /\ ~ Broken(nds, n)
         /\ Last(Path(nds, n)) = n
         /\ Len(s) >= max => LevelsWithRoom(nds, n) = {}
         /\ Len(s) < max =>
              /\ LevelsWithRoom(nds, n) # {}
              /\ \A e : AppendedTo(nds, n, e) =
                   [nds EXCEPT ![n] = [depth |-> 0, max |-> max, entries |-> Append(s, e)]]
<1>1. Path(nds, n) = <<n>>  BY PathOfOne
<1>2. DOMAIN <<n>> = {1} /\ Len(<<n>>) = 1 /\ <<n>>[1] = n  BY SMT
<1>3. ~ Broken(nds, n)  BY <1>1, <1>2 DEF Broken
<1>4. Last(Path(nds, n)) = n  BY <1>1, <1>2 DEF Last
<1>5. LevelsWithRoom(nds, n) = { level \in {1} : Len(s) < max }
  BY <1>1, <1>2 DEF LevelsWithRoom
<1>6. Len(s) \in Nat  OBVIOUS
<1>7. Len(s) >= max => LevelsWithRoom(nds, n) = {}  BY <1>5, <1>6
<1>8. ASSUME Len(s) < max, NEW e
      PROVE  /\ LevelsWithRoom(nds, n) # {}
             /\ AppendedTo(nds, n, e) =
                  [nds EXCEPT ![n] = [depth |-> 0, max |-> max, entries |-> Append(s, e)]]
  <2>1. LevelsWithRoom(nds, n) = {1}  BY <1>5, <1>8
  <2>2. Max({1}) = 1
    <3>1. {1} \subseteq 1 .. 1 /\ 1 \in {1}  OBVIOUS
    <3> QED BY <3>1, MaxOfPrefix
  <2>3. AppendedTo(nds, n, e) = [nds EXCEPT ![n].entries = Append(@, e)]
    BY <1>1, <1>2, <2>1, <2>2, Zenon DEF AppendedTo
  <2>4. [nds[n] EXCEPT !.entries = Append(s, e)]
          = [depth |-> 0, max |-> max, entries |-> Append(s, e)]
    <3> DEFINE v == Append(s, e)
    <3> HIDE DEF v
    <3>1. [nds[n] EXCEPT !.entries = v] = [depth |-> 0, max |-> max, entries |-> v]  BY NodeExceptTo
    <3> QED BY <3>1, Zenon DEF v
  <2>5. [nds EXCEPT ![n].entries = Append(@, e)]
          = [nds EXCEPT ![n] = [nds[n] EXCEPT !.entries = Append(nds[n].entries, e)]]
    BY EntriesExcept, Zenon
  <2>6. {1} # {} /\ nds[n].entries = s  OBVIOUS
  <2> QED BY <2>1, <2>3, <2>4, <2>5, <2>6, Zenon
<1> QED BY <1>3, <1>4, <1>7, <1>8

\* What the calls find in a tree with one index entry, and what they do to it.
DeepAppend(nds, n, b, s) ==
  /\ ~ Broken(nds, n)
  /\ Last(Path(nds, n)) = b
  /\ LevelsWithRoom(nds, n) # {}
  /\ Len(s) < BlockMax =>
       \A e : AppendedTo(nds, n, e) =
         [nds EXCEPT ![b] = [depth |-> 0, max |-> BlockMax, entries |-> Append(s, e)]]
  /\ Len(s) >= BlockMax =>
       \A e : AppendedTo(nds, n, e) =
         [nds EXCEPT ![n] = [depth |-> 1, max |-> RootMax, entries |-> <<e>>]]

\* A tree with one index entry: the extent goes to the block, or over the
\* index when the block is full.
LEMMA DeepTree ==
  ASSUME NEW nds, NEW n, NEW b, n # Nowhere, b # Nowhere, n \in DOMAIN nds, b \in DOMAIN nds,
         NEW T, NEW s \in Seq(T), RootMax \in Nat, BlockMax \in Nat, 2 <= RootMax,
         nds[n] = [depth |-> 1, max |-> RootMax, entries |-> <<Entry("index", 0, b, 0)>>],
         nds[b] = [depth |-> 0, max |-> BlockMax, entries |-> s]
  PROVE  DeepAppend(nds, n, b, s)
<1> DEFINE x == Entry("index", 0, b, 0)
<1>1. x.kind = "index" /\ x.start = b  BY DEF Entry
<1>2. Len(<<x>>) = 1 /\ <<x>>[1] = x  BY SMT
<1> HIDE DEF x
<1>3. nds[n].depth = 1 /\ nds[n].max = RootMax /\ nds[n].entries = <<x>>  BY DEF x
<1>4. Child(nds, n) = b  BY <1>1, <1>2, <1>3 DEF Child, Last
<1>5. Path(nds, n) = <<n, b>>  BY <1>3, <1>4, PathOfTwo, Zenon
<1>6. DOMAIN <<n, b>> = {1, 2} /\ Len(<<n, b>>) = 2 /\ <<n, b>>[1] = n /\ <<n, b>>[2] = b  BY SMT
<1>7. ~ Broken(nds, n)  BY <1>5, <1>6 DEF Broken
<1>8. Last(Path(nds, n)) = b  BY <1>5, <1>6 DEF Last
<1>9. nds[b].entries = s /\ nds[b].max = BlockMax  OBVIOUS
<1>10. LevelsWithRoom(nds, n) =
         { level \in {1, 2} : Len(nds[<<n, b>>[level]].entries) < nds[<<n, b>>[level]].max }
  BY <1>5, <1>6, Zenon DEF LevelsWithRoom
<1>11. 1 \in LevelsWithRoom(nds, n)
  <2>1. nds[<<n, b>>[1]].entries = <<x>> /\ nds[<<n, b>>[1]].max = RootMax  BY <1>3, <1>6, Zenon
  <2>2. Len(<<x>>) < RootMax  BY <1>2
  <2> QED BY <1>10, <2>1, <2>2, Zenon
<1>12. 2 \in LevelsWithRoom(nds, n) <=> Len(s) < BlockMax  BY <1>6, <1>9, <1>10
<1>13. LevelsWithRoom(nds, n) \subseteq {1, 2}  BY <1>10, Zenon
<1>14. ASSUME Len(s) < BlockMax, NEW e
       PROVE  AppendedTo(nds, n, e) =
                [nds EXCEPT ![b] = [depth |-> 0, max |-> BlockMax, entries |-> Append(s, e)]]
  <2>1. Max(LevelsWithRoom(nds, n)) = 2
    <3>1. LevelsWithRoom(nds, n) \subseteq 1 .. 2  BY <1>13
    <3>2. 2 \in Nat /\ 2 \in LevelsWithRoom(nds, n)  BY <1>12, <1>14
    <3> QED BY <3>1, <3>2, MaxOfPrefix, Zenon
  <2>2. AppendedTo(nds, n, e) = [nds EXCEPT ![b].entries = Append(@, e)]
    BY <1>5, <1>6, <2>1, Zenon DEF AppendedTo
  <2>3. [nds[b] EXCEPT !.entries = Append(s, e)]
          = [depth |-> 0, max |-> BlockMax, entries |-> Append(s, e)]
    <3> DEFINE v == Append(s, e)
    <3> HIDE DEF v
    <3>1. [nds[b] EXCEPT !.entries = v] = [depth |-> 0, max |-> BlockMax, entries |-> v]  BY NodeExceptTo
    <3> QED BY <3>1, Zenon DEF v
  <2>4. [nds EXCEPT ![b].entries = Append(@, e)]
          = [nds EXCEPT ![b] = [nds[b] EXCEPT !.entries = Append(nds[b].entries, e)]]
    BY EntriesExcept, Zenon
  <2> QED BY <1>9, <2>2, <2>3, <2>4, Zenon
<1>15. ASSUME Len(s) >= BlockMax, NEW e
       PROVE  AppendedTo(nds, n, e) =
                [nds EXCEPT ![n] = [depth |-> 1, max |-> RootMax, entries |-> <<e>>]]
  <2>1. Max(LevelsWithRoom(nds, n)) = 1
    <3>1. LevelsWithRoom(nds, n) = {1}
      <4>1. Len(s) \in Nat  OBVIOUS
      <4>2. ~ (Len(s) < BlockMax)  BY <1>15, <4>1
      <4> QED BY <1>11, <1>12, <1>13, <4>2
    <3>2. PICK S : S = {1}  OBVIOUS
    <3>3. S \subseteq 1 .. 1 /\ 1 \in S /\ 1 \in Nat  BY <3>2
    <3>4. Max(S) = 1  BY <3>3, MaxOfPrefix
    <3> QED BY <3>1, <3>2, <3>4
  <2>2. 1 # 2  OBVIOUS
  <2>3. AppendedTo(nds, n, e) = [nds EXCEPT ![n].entries[1] = e]
    BY <1>2, <1>3, <1>5, <1>6, <2>1, <2>2, Zenon DEF AppendedTo
  <2>4. [<<x>> EXCEPT ![1] = e] = <<e>>  BY SMT
  <2>5. [nds[n] EXCEPT !.entries = <<e>>]
          = [depth |-> 1, max |-> RootMax, entries |-> <<e>>]
    BY NodeExceptTo
  <2>6. [nds EXCEPT ![n].entries[1] = e]
          = [nds EXCEPT ![n] = [nds[n] EXCEPT !.entries = [nds[n].entries EXCEPT ![1] = e]]]
    OBVIOUS
  <2>7. nds[n] = [depth |-> 1, max |-> RootMax, entries |-> <<x>>]  BY DEF x
  <2> QED BY <1>3, <2>3, <2>4, <2>5, <2>6, <2>7, Zenon
<1>16. LevelsWithRoom(nds, n) # {}  BY <1>11
<1> QED BY <1>7, <1>8, <1>14, <1>15, <1>16, Zenon DEF DeepAppend

\* A tree whose index was overwritten leads nowhere.
LEMMA OverfullTree ==
  ASSUME NEW nds, NEW n, n # Nowhere, NEW e, e.kind = "extent",
         nds[n] = [depth |-> 1, max |-> RootMax, entries |-> <<e>>]
  PROVE  Broken(nds, n)
<1>1. Len(<<e>>) = 1 /\ <<e>>[1] = e  BY SMT
<1>2. nds[n].depth = 1 /\ nds[n].entries = <<e>>  OBVIOUS
<1>3. Child(nds, n) = Nowhere  BY <1>1, <1>2 DEF Child, Last
<1>4. Path(nds, n) = <<n, Nowhere>>  BY <1>2, <1>3, PathOfTwo, Zenon
<1>5. 2 \in DOMAIN <<n, Nowhere>> /\ <<n, Nowhere>>[2] = Nowhere  BY SMT
<1> QED BY <1>4, <1>5, Zenon DEF Broken

\* The four ways an extent gets into the tree of n.
IntoInode(n, e) ==
  /\ Flat(n) /\ Len(given[n]) < RootMax
  /\ nodes' = [nodes EXCEPT ![n] = [depth |-> 0, max |-> RootMax, entries |-> Append(given[n], e)]]

IntoBlock(n, e, b) ==
  /\ Deep(n, b) /\ Len(given[n]) < BlockMax
  /\ nodes' = [nodes EXCEPT ![b] = [depth |-> 0, max |-> BlockMax, entries |-> Append(given[n], e)]]

OverIndex(n, e, b) ==
  /\ Deep(n, b) /\ Len(given[n]) = BlockMax
  /\ nodes' = [nodes EXCEPT ![n] = [depth |-> 1, max |-> RootMax, entries |-> <<e>>]]

IntoNewBlock(n, e, b) ==
  /\ Flat(n) /\ Len(given[n]) = RootMax
  /\ nodes' = [r \in DOMAIN nodes \cup {b} |->
                 IF r = b THEN [depth |-> 0, max |-> BlockMax, entries |-> Append(given[n], e)]
                 ELSE IF r = n THEN [depth |-> 1, max |-> RootMax, entries |-> <<Entry("index", 0, b, 0)>>]
                 ELSE nodes[r]]

\* The last extent given is one.
LEMMA LastGiven ==
  ASSUME NEW s \in Seq(ExtentRec), Len(s) > 0
  PROVE  Last(s) \in ExtentRec
BY DEF Last

\* What a shape rules out.
LEMMA ShapeFacts ==
  ASSUME TreeTypes, NEW n \in AllInodes, Shape(n)
  PROVE  /\ given[n] \in Seq(ExtentRec) /\ Len(given[n]) \in Nat
         /\ n \in DOMAIN nodes /\ n # Nowhere
         /\ nodes[n].depth = Levels(n)
         /\ \A b : Deep(n, b) => b \in DOMAIN nodes /\ b # Nowhere /\ b \notin AllInodes /\ b \in Index
         /\ \A b, c : Deep(n, b) /\ Deep(n, c) => b = c
         /\ \A b : Deep(n, b) => ~ Overfull(n)
         /\ Overfull(n) => Broken(nodes, n)
<1>1. given[n] \in Seq(ExtentRec) /\ Len(given[n]) \in Nat /\ n \in DOMAIN nodes
  BY DEF TreeTypes
<1>2. n # Nowhere  BY TreeConstants DEF Nowhere
<1>3. nodes[n].depth = Levels(n)
  <2>1. CASE Flat(n)  BY <2>1 DEF Flat, Levels
  <2>2. CASE ~ Flat(n)
    <3>1. ASSUME NEW b, Deep(n, b) PROVE nodes[n].depth = 1
      BY <3>1 DEF Deep
    <3>2. Overfull(n) => nodes[n].depth = 1  BY DEF Overfull
    <3>3. nodes[n].depth = 1  BY <2>2, <3>1, <3>2, Zenon DEF Shape
    <3> QED BY <2>2, <3>3 DEF Levels
  <2> QED BY <2>1, <2>2
<1>4. ASSUME NEW b, Deep(n, b)
      PROVE  b \in DOMAIN nodes /\ b # Nowhere /\ b \notin AllInodes /\ b \in Index
  BY <1>4, TreeConstants DEF Deep, IndexNodes, TreeTypes, Nowhere
<1>5. ASSUME NEW b, NEW c, Deep(n, b), Deep(n, c) PROVE b = c
  <2>1. nodes[n].entries = <<Entry("index", 0, b, 0)>> /\ nodes[n].entries = <<Entry("index", 0, c, 0)>>
    BY <1>5 DEF Deep
  <2>2. Entry("index", 0, b, 0) = Entry("index", 0, c, 0)  BY <2>1
  <2>3. Entry("index", 0, b, 0).start = b /\ Entry("index", 0, c, 0).start = c  BY DEF Entry
  <2> QED BY <2>2, <2>3, Zenon
<1>6. ASSUME NEW b, Deep(n, b) PROVE ~ Overfull(n)
  <2>1. Len(given[n]) <= BlockMax /\ BlockMax \in Nat  BY <1>6, TreeConstants DEF Deep
  <2> QED BY <1>1, <2>1 DEF Overfull
<1>7. ASSUME Overfull(n) PROVE Broken(nodes, n)
  <2>1. Last(given[n]) \in ExtentRec
    <3>1. Len(given[n]) > 0  BY <1>1, <1>7, TreeConstants DEF Overfull
    <3> QED BY <1>1, <3>1, LastGiven
  <2>2. Last(given[n]).kind = "extent"  BY <2>1 DEF ExtentRec
  <2>3. nodes[n] = [depth |-> 1, max |-> RootMax, entries |-> <<Last(given[n])>>]
    BY <1>7 DEF Overfull
  <2> QED BY <1>2, <2>2, <2>3, OverfullTree
<1> QED BY <1>1, <1>2, <1>3, <1>4, <1>5, <1>6, <1>7

\* register_extent when the tree has room.
LEMMA TreeStep ==
  ASSUME TreeTypes, Shapes, NEW n \in AllInodes, NEW e, RegisterInTree(n, e)
  PROVE  IntoInode(n, e) \/ \E b : IntoBlock(n, e, b) \/ OverIndex(n, e, b)
<1>1. Shape(n)  BY DEF Shapes
<1>2. /\ given[n] \in Seq(ExtentRec) /\ Len(given[n]) \in Nat /\ n \in DOMAIN nodes /\ n # Nowhere
      /\ RootMax \in Nat /\ BlockMax \in Nat /\ 2 <= RootMax
  BY <1>1, ShapeFacts, TreeConstants
<1>3. ~ Broken(nodes, n) /\ LevelsWithRoom(nodes, n) # {} /\ nodes' = AppendedTo(nodes, n, e)
  BY DEF RegisterInTree
<1>4. CASE Flat(n)
  <2>1. nodes[n] = [depth |-> 0, max |-> RootMax, entries |-> given[n]]  BY <1>4 DEF Flat
  <2>2. /\ Len(given[n]) >= RootMax => LevelsWithRoom(nodes, n) = {}
        /\ Len(given[n]) < RootMax => \A x : AppendedTo(nodes, n, x) =
             [nodes EXCEPT ![n] = [depth |-> 0, max |-> RootMax, entries |-> Append(given[n], x)]]
    BY <1>2, <2>1, FlatTree
  <2>3. Len(given[n]) < RootMax  BY <1>2, <1>3, <2>2
  <2>4. nodes' = [nodes EXCEPT ![n] = [depth |-> 0, max |-> RootMax, entries |-> Append(given[n], e)]]
    BY <1>3, <2>2, <2>3, Zenon
  <2> QED BY <1>4, <2>3, <2>4 DEF IntoInode
<1>5. ASSUME NEW b, Deep(n, b) PROVE IntoBlock(n, e, b) \/ OverIndex(n, e, b)
  <2>1. b \in DOMAIN nodes /\ b # Nowhere  BY <1>1, <1>5, ShapeFacts
  <2>2. /\ nodes[n] = [depth |-> 1, max |-> RootMax, entries |-> <<Entry("index", 0, b, 0)>>]
        /\ nodes[b] = [depth |-> 0, max |-> BlockMax, entries |-> given[n]]
        /\ Len(given[n]) <= BlockMax
    BY <1>5 DEF Deep
  <2>3. /\ Len(given[n]) < BlockMax => \A x : AppendedTo(nodes, n, x) =
             [nodes EXCEPT ![b] = [depth |-> 0, max |-> BlockMax, entries |-> Append(given[n], x)]]
        /\ Len(given[n]) >= BlockMax => \A x : AppendedTo(nodes, n, x) =
             [nodes EXCEPT ![n] = [depth |-> 1, max |-> RootMax, entries |-> <<x>>]]
    <3>1. DeepAppend(nodes, n, b, given[n])  BY <1>2, <2>1, <2>2, DeepTree, Zenon
    <3> QED BY <3>1, Zenon DEF DeepAppend
  <2>4. CASE Len(given[n]) < BlockMax
    <3>1. nodes' = [nodes EXCEPT ![b] = [depth |-> 0, max |-> BlockMax, entries |-> Append(given[n], e)]]
      BY <1>3, <2>3, <2>4, Zenon
    <3> QED BY <1>5, <2>4, <3>1, Zenon DEF IntoBlock
  <2>5. CASE Len(given[n]) = BlockMax
    <3>1. Len(given[n]) >= BlockMax  BY <1>2, <2>5
    <3>2. nodes' = [nodes EXCEPT ![n] = [depth |-> 1, max |-> RootMax, entries |-> <<e>>]]
      BY <1>3, <2>3, <3>1, Zenon
    <3> QED BY <1>5, <2>5, <3>2, Zenon DEF OverIndex
  <2> QED BY <1>2, <2>2, <2>4, <2>5
<1>6. ~ Overfull(n)  BY <1>1, <1>3, ShapeFacts
<1> QED BY <1>1, <1>4, <1>5, <1>6 DEF Shape

\* register_extent when it is full: make_tree_deeper, and the extent goes to
\* the new block.
LEMMA DeeperStep ==
  ASSUME TreeTypes, Shapes, NEW n \in AllInodes, NEW e, RegisterDeeper(n, e)
  PROVE  /\ Min(index_blocks) \in index_blocks
         /\ index_blocks' = index_blocks \ {Min(index_blocks)}
         /\ Account(n, e, {Min(index_blocks)})
         /\ given' = [given EXCEPT ![n] = Append(@, e)]
         /\ IntoNewBlock(n, e, Min(index_blocks))
<1> DEFINE b == Min(index_blocks)
           deeper == Deepened(nodes, n, b)
<1>1. Shape(n)  BY DEF Shapes
<1>2. /\ given[n] \in Seq(ExtentRec) /\ Len(given[n]) \in Nat /\ n \in DOMAIN nodes /\ n # Nowhere
      /\ RootMax \in Nat /\ BlockMax \in Nat /\ 2 <= RootMax /\ RootMax < BlockMax
  BY <1>1, ShapeFacts, TreeConstants
<1>3. /\ ~ Broken(nodes, n) /\ LevelsWithRoom(nodes, n) = {} /\ index_blocks # {}
      /\ index_blocks' = index_blocks \ {b} /\ Account(n, e, {b})
      /\ given' = [given EXCEPT ![n] = Append(@, e)]
      /\ nodes' = IF LevelsWithRoom(deeper, n) # {} THEN AppendedTo(deeper, n, e) ELSE deeper
  BY Zenon DEF RegisterDeeper
<1>4. b \in index_blocks /\ b \in Index /\ b # Nowhere /\ b # n /\ b \notin DOMAIN nodes
  <2>1. index_blocks \subseteq Nat  BY TreeConstants DEF TreeTypes
  <2>2. b \in index_blocks  BY <1>3, <2>1, MinFacts, Zenon
  <2> QED BY <2>2, TreeConstants DEF TreeTypes, IndexNodes, Nowhere
<1>5. ~ Overfull(n)  BY <1>1, <1>3, ShapeFacts
<1>6. ASSUME NEW c, Deep(n, c) PROVE FALSE
  <2>1. c \in DOMAIN nodes /\ c # Nowhere  BY <1>1, <1>6, ShapeFacts
  <2>2. /\ nodes[n] = [depth |-> 1, max |-> RootMax, entries |-> <<Entry("index", 0, c, 0)>>]
        /\ nodes[c] = [depth |-> 0, max |-> BlockMax, entries |-> given[n]]
    BY <1>6 DEF Deep
  <2>3. LevelsWithRoom(nodes, n) # {}
    <3>1. DeepAppend(nodes, n, c, given[n])  BY <1>2, <2>1, <2>2, DeepTree, Zenon
    <3> QED BY <3>1 DEF DeepAppend
  <2> QED BY <1>3, <2>3
<1>7. Flat(n)  BY <1>1, <1>5, <1>6 DEF Shape
<1>8. nodes[n] = [depth |-> 0, max |-> RootMax, entries |-> given[n]] /\ Len(given[n]) <= RootMax
  BY <1>7 DEF Flat
<1>9. Len(given[n]) = RootMax
  <2>1. Len(given[n]) < RootMax => LevelsWithRoom(nodes, n) # {}
    BY <1>2, <1>8, FlatTree
  <2> QED BY <1>2, <1>3, <1>8, <2>1
<1>10. /\ DOMAIN deeper = DOMAIN nodes \cup {b}
       /\ deeper[b] = [depth |-> 0, max |-> BlockMax, entries |-> given[n]]
       /\ deeper[n] = [depth |-> 1, max |-> RootMax, entries |-> <<Entry("index", 0, b, 0)>>]
       /\ \A r \in DOMAIN nodes \ {b, n} : deeper[r] = nodes[r]
  <2> HIDE DEF b
  <2>1. [nodes[n] EXCEPT !.max = BlockMax] = [depth |-> 0, max |-> BlockMax, entries |-> given[n]]
    BY <1>8
  <2>2. [nodes[n] EXCEPT !.depth = @ + 1, !.entries = <<Entry("index", 0, b, 0)>>]
          = [depth |-> 1, max |-> RootMax, entries |-> <<Entry("index", 0, b, 0)>>]
    <3> DEFINE x == <<Entry("index", 0, b, 0)>>
    <3> HIDE DEF x
    <3>1. [nodes[n] EXCEPT !.depth = @ + 1, !.entries = x]
            = [depth |-> nodes[n].depth + 1, max |-> nodes[n].max, entries |-> x]
      BY <1>8, NodeDeeper, Zenon
    <3>2. nodes[n].depth + 1 = 1 /\ nodes[n].max = RootMax  BY <1>8
    <3> QED BY <3>1, <3>2, Zenon DEF x
  <2>3. DOMAIN deeper = DOMAIN nodes \cup {b}  BY Zenon DEF Deepened
  <2>4. deeper[b] = [nodes[n] EXCEPT !.max = BlockMax]
    <3>1. b \in DOMAIN nodes \cup {b}  OBVIOUS
    <3> QED BY <3>1, Zenon DEF Deepened
  <2>5. deeper[n] = [nodes[n] EXCEPT !.depth = @ + 1, !.entries = <<Entry("index", 0, b, 0)>>]
    <3>1. n \in DOMAIN nodes \cup {b} /\ n # b  BY <1>2, <1>4
    <3> QED BY <3>1, Zenon DEF Deepened
  <2>6. ASSUME NEW r \in DOMAIN nodes \ {b, n} PROVE deeper[r] = nodes[r]
    <3>1. r \in DOMAIN nodes \cup {b} /\ r # b /\ r # n  OBVIOUS
    <3> QED BY <3>1, Zenon DEF Deepened
  <2> HIDE DEF deeper
  <2> QED BY <2>1, <2>2, <2>3, <2>4, <2>5, <2>6, Zenon
<1>11. nodes' = [deeper EXCEPT ![b] = [depth |-> 0, max |-> BlockMax, entries |-> Append(given[n], e)]]
  <2> HIDE DEF b, deeper
  <2>1. n \in DOMAIN deeper /\ b \in DOMAIN deeper  BY <1>2, <1>10
  <2>2. /\ LevelsWithRoom(deeper, n) # {}
        /\ Len(given[n]) < BlockMax => \A x : AppendedTo(deeper, n, x) =
             [deeper EXCEPT ![b] = [depth |-> 0, max |-> BlockMax, entries |-> Append(given[n], x)]]
    <3>1. DeepAppend(deeper, n, b, given[n])  BY <1>2, <1>4, <1>10, <2>1, DeepTree, Zenon
    <3> QED BY <3>1, Zenon DEF DeepAppend
  <2>3. Len(given[n]) < BlockMax  BY <1>2, <1>9
  <2>4. nodes' = AppendedTo(deeper, n, e)  BY <1>3, <2>2, Zenon
  <2> QED BY <2>2, <2>3, <2>4, Zenon
<1>12. nodes' = [r \in DOMAIN nodes \cup {b} |->
                   IF r = b THEN [depth |-> 0, max |-> BlockMax, entries |-> Append(given[n], e)]
                   ELSE IF r = n THEN [depth |-> 1, max |-> RootMax, entries |-> <<Entry("index", 0, b, 0)>>]
                   ELSE nodes[r]]
  <2> DEFINE x == [depth |-> 0, max |-> BlockMax, entries |-> Append(given[n], e)]
             y == [depth |-> 1, max |-> RootMax, entries |-> <<Entry("index", 0, b, 0)>>]
  <2>1. nodes' = [deeper EXCEPT ![b] = x] /\ deeper[n] = y  BY <1>10, <1>11, Zenon
  <2>2. nodes' = [r \in DOMAIN nodes \cup {b} |-> IF r = b THEN x ELSE IF r = n THEN y ELSE nodes[r]]
    <3> HIDE DEF x, y, b, deeper
    <3> QED BY <1>10, <2>1
  <2> QED BY <2>2, Zenon
<1> HIDE DEF b
<1>13. IntoNewBlock(n, e, b)  BY <1>7, <1>9, <1>12, Zenon DEF IntoNewBlock
<1> QED BY <1>3, <1>4, <1>13 DEF b

\* The tree of an inode that nothing is added to stays as it is.
LEMMA ShapeFrame ==
  ASSUME TreeTypes, Shapes, NEW m \in AllInodes, given'[m] = given[m], nodes'[m] = nodes[m],
         IndexNodes \subseteq IndexNodes', \A b : Deep(m, b) => nodes'[b] = nodes[b]
  PROVE  /\ Shape(m)' /\ Levels(m)' = Levels(m)
         /\ \A b : Deep(m, b)' => Deep(m, b)
<1>1. Shape(m)  BY DEF Shapes
<1>2. Flat(m)' <=> Flat(m)  BY DEF Flat
<1>3. ASSUME NEW b, Deep(m, b) PROVE Deep(m, b)'
  <2>1. b \in IndexNodes' /\ nodes'[b] = nodes[b]  BY <1>3 DEF Deep
  <2> QED BY <1>3, <2>1, Zenon DEF Deep
<1>4. Overfull(m)' <=> Overfull(m)  BY DEF Overfull
<1>5. Shape(m)'
  <2>1. ASSUME NEW b \in IndexNodes, Deep(m, b) PROVE \E c \in IndexNodes' : Deep(m, c)'
    BY <1>3, <2>1, Zenon
  <2> QED BY <1>1, <1>2, <1>4, <2>1, Zenon DEF Shape
<1>6. Levels(m)' = Levels(m)  BY <1>2, Zenon DEF Levels
<1>7. ASSUME NEW b, Deep(m, b)' PROVE Deep(m, b)
  <2>1. nodes[m] = [depth |-> 1, max |-> RootMax, entries |-> <<Entry("index", 0, b, 0)>>]
    BY <1>7, Zenon DEF Deep
  <2>2. nodes[m].depth = 1 /\ nodes[m].entries = <<Entry("index", 0, b, 0)>>  BY <2>1
  <2>3. CASE Flat(m)
    <3>1. nodes[m].depth = 0  BY <2>3 DEF Flat
    <3> QED BY <2>2, <3>1
  <2>4. CASE Overfull(m)
    <3>1. Broken(nodes, m)  BY <1>1, <2>4, ShapeFacts
    <3>2. Len(given[m]) <= BlockMax  BY <1>7, Zenon DEF Deep
    <3>3. Len(given[m]) > BlockMax /\ Len(given[m]) \in Nat /\ BlockMax \in Nat
      BY <1>1, <2>4, ShapeFacts, TreeConstants DEF Overfull
    <3> QED BY <3>2, <3>3
  <2>5. ASSUME NEW c \in IndexNodes, Deep(m, c) PROVE Deep(m, b)
    <3>1. nodes[m].entries = <<Entry("index", 0, c, 0)>>  BY <2>5 DEF Deep
    <3>2. Entry("index", 0, b, 0) = Entry("index", 0, c, 0)  BY <2>2, <3>1
    <3>3. Entry("index", 0, b, 0).start = b /\ Entry("index", 0, c, 0).start = c  BY DEF Entry
    <3>4. b = c  BY <3>2, <3>3, Zenon
    <3> QED BY <2>5, <3>4
  <2> QED BY <1>1, <2>3, <2>4, <2>5 DEF Shape
<1> QED BY <1>5, <1>6, <1>7

\* What holds of the trees after an extent was added to that of n, with the
\* blocks idx it took.
Grown(n, e, idx) ==
  /\ DOMAIN nodes' = DOMAIN nodes \cup idx
  /\ Shapes' /\ IndexesApart'
  /\ \A m \in AllInodes :
       Len(given'[m]) <= BlockMax =>
         Levels(m)' = Levels(m) + (IF m = n THEN Cardinality(idx) ELSE 0)

\* Trees of which one changed are sound when that one is and has no index of
\* another's.
LEMMA GrownFrom ==
  ASSUME TreeTypes, Shapes, IndexesApart, NEW n \in AllInodes, NEW e, NEW idx,
         given' = [given EXCEPT ![n] = Append(@, e)],
         DOMAIN nodes' = DOMAIN nodes \cup idx, idx \cap AllInodes = {},
         \A m \in AllInodes \ {n} :
           nodes'[m] = nodes[m] /\ \A b : Deep(m, b) => nodes'[b] = nodes[b],
         Shape(n)',
         \A b : Deep(n, b)' => \A m \in AllInodes \ {n} : ~ Deep(m, b),
         Len(given'[n]) <= BlockMax => Levels(n)' = Levels(n) + Cardinality(idx)
  PROVE  Grown(n, e, idx)
<1>1. IndexNodes \subseteq IndexNodes'  BY DEF IndexNodes
<1>2. ASSUME NEW m \in AllInodes \ {n}
      PROVE  /\ Shape(m)' /\ Levels(m)' = Levels(m)
             /\ \A b : Deep(m, b)' => Deep(m, b)
  <2>1. given'[m] = given[m]  BY DEF TreeTypes
  <2> QED BY <1>1, <1>2, <2>1, ShapeFrame
<1>3. Shapes'  BY <1>2, Zenon DEF Shapes
<1>4. IndexesApart'
  <2>1. SUFFICES ASSUME NEW k \in AllInodes, NEW m \in AllInodes, NEW b, Deep(k, b)', Deep(m, b)'
                 PROVE  k = m
    BY Zenon DEF IndexesApart
  <2>2. CASE k # n /\ m # n
    <3>1. Deep(k, b) /\ Deep(m, b)  BY <1>2, <2>1, <2>2
    <3>2. b \in IndexNodes  BY <3>1 DEF Deep
    <3> QED BY <3>1, <3>2 DEF IndexesApart
  <2>3. CASE k = n /\ m # n
    <3>1. Deep(m, b)  BY <1>2, <2>1, <2>3
    <3> QED BY <2>1, <2>3, <3>1
  <2>4. CASE k # n /\ m = n
    <3>1. Deep(k, b)  BY <1>2, <2>1, <2>4
    <3> QED BY <2>1, <2>4, <3>1
  <2> QED BY <2>2, <2>3, <2>4
<1>5. ASSUME NEW m \in AllInodes, m # n PROVE Levels(m)' = Levels(m) + 0
  <2>1. Levels(m) \in {0, 1}  BY DEF Levels
  <2>2. Levels(m)' = Levels(m)  BY <1>2, <1>5
  <2> QED BY <2>1, <2>2
<1> QED BY <1>3, <1>4, <1>5, Zenon DEF Grown

\* Into the inode, into its block or over the index to it.
LEMMA GrownInPlace ==
  ASSUME TreeTypes, Shapes, IndexesApart, NEW n \in AllInodes, NEW e \in ExtentRec,
         given' = [given EXCEPT ![n] = Append(@, e)],
         IntoInode(n, e) \/ \E b : IntoBlock(n, e, b) \/ OverIndex(n, e, b)
  PROVE  Grown(n, e, {})
<1>1. Shape(n)  BY DEF Shapes
<1>2. /\ given[n] \in Seq(ExtentRec) /\ Len(given[n]) \in Nat /\ n \in DOMAIN nodes
      /\ RootMax \in Nat /\ BlockMax \in Nat /\ 2 <= RootMax /\ RootMax < BlockMax
  BY <1>1, ShapeFacts, TreeConstants
<1>3. given'[n] = Append(given[n], e) /\ Len(given'[n]) = Len(given[n]) + 1
  BY <1>2 DEF TreeTypes
<1>4. ASSUME NEW m \in AllInodes PROVE m \in DOMAIN nodes  BY DEF TreeTypes
<1>5. ASSUME NEW m \in AllInodes, NEW b, Deep(m, b) PROVE b \notin AllInodes /\ b \in DOMAIN nodes /\ b \in IndexNodes
  BY <1>5, ShapeFacts DEF Shapes, Deep
<1>6. Cardinality({}) = 0  BY FS_EmptySet, Zenon
<1>7. CASE IntoInode(n, e)
  <2>1. nodes' = [nodes EXCEPT ![n] = [depth |-> 0, max |-> RootMax, entries |-> given'[n]]]
    BY <1>3, <1>7 DEF IntoInode
  <2>2. DOMAIN nodes' = DOMAIN nodes \cup {}  BY <2>1
  <2>3. nodes'[n] = [depth |-> 0, max |-> RootMax, entries |-> given'[n]]  BY <1>2, <2>1
  <2>4. ASSUME NEW m \in AllInodes \ {n}
        PROVE  nodes'[m] = nodes[m] /\ \A b : Deep(m, b) => nodes'[b] = nodes[b]
    <3>1. nodes'[m] = nodes[m]  BY <1>4, <2>1
    <3>2. ASSUME NEW b, Deep(m, b) PROVE nodes'[b] = nodes[b]
      <4>1. b # n /\ b \in DOMAIN nodes  BY <1>5, <3>2
      <4> QED BY <2>1, <4>1
    <3> QED BY <3>1, <3>2
  <2>5. Flat(n)'
    <3>1. Len(given'[n]) <= RootMax  BY <1>2, <1>3, <1>7 DEF IntoInode
    <3> QED BY <2>3, <3>1, Zenon DEF Flat
  <2>6. Shape(n)'  BY <2>5, Zenon DEF Shape
  <2>7. ASSUME NEW b, Deep(n, b)' PROVE FALSE
    <3>1. nodes'[n] = [depth |-> 1, max |-> RootMax, entries |-> <<Entry("index", 0, b, 0)>>]
      BY <2>7, Zenon DEF Deep
    <3>2. nodes'[n].depth = 1  BY <3>1
    <3>3. nodes'[n].depth = 0  BY <2>3
    <3> QED BY <3>2, <3>3
  <2>8. Levels(n)' = Levels(n) + Cardinality({})
    <3>1. Levels(n) = 0 /\ Levels(n)' = 0  BY <1>7, <2>5, Zenon DEF Levels, IntoInode
    <3> QED BY <1>6, <3>1
  <2>9. {} \cap AllInodes = {}  OBVIOUS
  <2> QED BY <2>2, <2>4, <2>6, <2>7, <2>8, <2>9, GrownFrom
<1>8. ASSUME NEW b, IntoBlock(n, e, b) PROVE Grown(n, e, {})
  <2>1. nodes' = [nodes EXCEPT ![b] = [depth |-> 0, max |-> BlockMax, entries |-> given'[n]]]
    BY <1>3, <1>8 DEF IntoBlock
  <2>2. DOMAIN nodes' = DOMAIN nodes \cup {}  BY <2>1
  <2>3. Deep(n, b) /\ b \notin AllInodes /\ b \in DOMAIN nodes /\ b \in IndexNodes
    <3>1. Deep(n, b)  BY <1>8 DEF IntoBlock
    <3> QED BY <1>5, <3>1
  <2>4. nodes'[b] = [depth |-> 0, max |-> BlockMax, entries |-> given'[n]] /\ nodes'[n] = nodes[n]
    BY <1>2, <2>1, <2>3
  <2>5. ASSUME NEW m \in AllInodes \ {n}
        PROVE  nodes'[m] = nodes[m] /\ \A c : Deep(m, c) => nodes'[c] = nodes[c]
    <3>1. nodes'[m] = nodes[m]  BY <1>4, <2>1, <2>3
    <3>2. ASSUME NEW c, Deep(m, c) PROVE nodes'[c] = nodes[c]
      <4>1. c # b  BY <2>3, <3>2 DEF IndexesApart
      <4>2. c \in DOMAIN nodes  BY <1>5, <3>2
      <4> QED BY <2>1, <4>1, <4>2
    <3> QED BY <3>1, <3>2
  <2>6. Deep(n, b)' /\ b \in IndexNodes'
    <3>1. b \in IndexNodes'  BY <2>1, <2>3 DEF IndexNodes
    <3>2. Len(given'[n]) <= BlockMax  BY <1>2, <1>3, <1>8 DEF IntoBlock
    <3>3. nodes'[n] = [depth |-> 1, max |-> RootMax, entries |-> <<Entry("index", 0, b, 0)>>]
      BY <2>3, <2>4 DEF Deep
    <3> QED BY <2>4, <3>1, <3>2, <3>3, Zenon DEF Deep
  <2>7. Shape(n)'  BY <2>6, Zenon DEF Shape
  <2>8. ASSUME NEW c, Deep(n, c)', NEW m \in AllInodes \ {n}, Deep(m, c) PROVE FALSE
    <3>1. nodes'[n].entries = <<Entry("index", 0, c, 0)>> /\ nodes'[n].entries = <<Entry("index", 0, b, 0)>>
      BY <2>6, <2>8 DEF Deep
    <3>2. Entry("index", 0, c, 0) = Entry("index", 0, b, 0)  BY <3>1
    <3>3. Entry("index", 0, c, 0).start = c /\ Entry("index", 0, b, 0).start = b  BY DEF Entry
    <3>4. c = b  BY <3>2, <3>3, Zenon
    <3> QED BY <2>3, <2>8, <3>4 DEF IndexesApart
  <2>9. Levels(n)' = Levels(n) + Cardinality({})
    <3>1. ~ Flat(n)
      <4>1. nodes[n].depth = 1  BY <2>3 DEF Deep
      <4>2. Flat(n) => nodes[n].depth = 0  BY DEF Flat
      <4> QED BY <4>1, <4>2
    <3>2. ~ Flat(n)'
      <4>1. nodes'[n].depth = 1  BY <2>6 DEF Deep
      <4>2. Flat(n)' => nodes'[n].depth = 0  BY DEF Flat
      <4> QED BY <4>1, <4>2
    <3>3. Levels(n) = 1 /\ Levels(n)' = 1  BY <3>1, <3>2, Zenon DEF Levels
    <3> QED BY <1>6, <3>3
  <2>10. {} \cap AllInodes = {}  OBVIOUS
  <2>11. \A c : Deep(n, c)' => \A m \in AllInodes \ {n} : ~ Deep(m, c)  BY <2>8, Zenon
  <2> QED BY <2>2, <2>5, <2>7, <2>9, <2>10, <2>11, GrownFrom
<1>9. ASSUME NEW b, OverIndex(n, e, b) PROVE Grown(n, e, {})
  <2>1. nodes' = [nodes EXCEPT ![n] = [depth |-> 1, max |-> RootMax, entries |-> <<e>>]]
    BY <1>9 DEF OverIndex
  <2>2. DOMAIN nodes' = DOMAIN nodes \cup {}  BY <2>1
  <2>3. nodes'[n] = [depth |-> 1, max |-> RootMax, entries |-> <<e>>]  BY <1>2, <2>1
  <2>4. ASSUME NEW m \in AllInodes \ {n}
        PROVE  nodes'[m] = nodes[m] /\ \A c : Deep(m, c) => nodes'[c] = nodes[c]
    <3>1. nodes'[m] = nodes[m]  BY <1>4, <2>1
    <3>2. ASSUME NEW c, Deep(m, c) PROVE nodes'[c] = nodes[c]
      <4>1. c # n /\ c \in DOMAIN nodes  BY <1>5, <3>2
      <4> QED BY <2>1, <4>1
    <3> QED BY <3>1, <3>2
  <2>5. Len(given'[n]) = BlockMax + 1 /\ Last(given'[n]) = e
    <3>1. Len(given[n]) = BlockMax  BY <1>9 DEF OverIndex
    <3> QED BY <1>2, <1>3, <3>1 DEF Last
  <2>6. Overfull(n)'  BY <1>2, <2>3, <2>5 DEF Overfull
  <2>7. Shape(n)'  BY <2>6, Zenon DEF Shape
  <2>8. ~ (Len(given'[n]) <= BlockMax)  BY <1>2, <2>5
  <2>9. ASSUME NEW c, Deep(n, c)' PROVE FALSE
    BY <2>8, <2>9, Zenon DEF Deep
  <2>10. {} \cap AllInodes = {}  OBVIOUS
  <2> QED BY <2>2, <2>4, <2>7, <2>8, <2>9, <2>10, GrownFrom
<1> QED BY <1>7, <1>8, <1>9

\* Into a new block.
LEMMA GrownByLevel ==
  ASSUME TreeTypes, Shapes, IndexesApart, NEW n \in AllInodes, NEW e \in ExtentRec,
         given' = [given EXCEPT ![n] = Append(@, e)],
         NEW b \in Index, b \notin DOMAIN nodes, IntoNewBlock(n, e, b)
  PROVE  Grown(n, e, {b})
<1>1. Shape(n)  BY DEF Shapes
<1>2. /\ given[n] \in Seq(ExtentRec) /\ Len(given[n]) \in Nat /\ n \in DOMAIN nodes
      /\ RootMax \in Nat /\ BlockMax \in Nat /\ 2 <= RootMax /\ RootMax < BlockMax
  BY <1>1, ShapeFacts, TreeConstants
<1>3. given'[n] = Append(given[n], e) /\ Len(given'[n]) = Len(given[n]) + 1
  BY <1>2 DEF TreeTypes
<1>4. b \notin AllInodes  BY TreeConstants
<1>5. /\ DOMAIN nodes' = DOMAIN nodes \cup {b}
      /\ nodes'[b] = [depth |-> 0, max |-> BlockMax, entries |-> given'[n]]
      /\ nodes'[n] = [depth |-> 1, max |-> RootMax, entries |-> <<Entry("index", 0, b, 0)>>]
      /\ \A r \in DOMAIN nodes \ {n} : nodes'[r] = nodes[r]
  <2> DEFINE x == [depth |-> 0, max |-> BlockMax, entries |-> given'[n]]
             y == [depth |-> 1, max |-> RootMax, entries |-> <<Entry("index", 0, b, 0)>>]
  <2>1. nodes' = [r \in DOMAIN nodes \cup {b} |-> IF r = b THEN x ELSE IF r = n THEN y ELSE nodes[r]]
    BY <1>3, Zenon DEF IntoNewBlock
  <2> HIDE DEF x, y
  <2>2. /\ DOMAIN nodes' = DOMAIN nodes \cup {b} /\ nodes'[b] = x /\ nodes'[n] = y
        /\ \A r \in DOMAIN nodes \ {n} : nodes'[r] = nodes[r]
    BY <1>2, <2>1
  <2> QED BY <2>2, Zenon DEF x, y
<1>6. ASSUME NEW m \in AllInodes \ {n}
      PROVE  nodes'[m] = nodes[m] /\ \A c : Deep(m, c) => nodes'[c] = nodes[c]
  <2>1. nodes'[m] = nodes[m]
    <3>1. m \in DOMAIN nodes \ {n}  BY DEF TreeTypes
    <3> QED BY <1>5, <3>1
  <2>2. ASSUME NEW c, Deep(m, c) PROVE nodes'[c] = nodes[c]
    <3>1. c \in DOMAIN nodes \ {n}  BY <2>2 DEF Deep, IndexNodes
    <3> QED BY <1>5, <3>1
  <2> QED BY <2>1, <2>2
<1>7. Deep(n, b)' /\ b \in IndexNodes'
  <2>1. b \in IndexNodes'  BY <1>4, <1>5 DEF IndexNodes
  <2>2. Len(given'[n]) <= BlockMax  BY <1>2, <1>3 DEF IntoNewBlock
  <2> QED BY <1>5, <2>1, <2>2, Zenon DEF Deep
<1>8. Shape(n)'  BY <1>7, Zenon DEF Shape
<1>9. ASSUME NEW c, Deep(n, c)', NEW m \in AllInodes \ {n}, Deep(m, c) PROVE FALSE
  <2>1. nodes'[n].entries = <<Entry("index", 0, c, 0)>> /\ nodes'[n].entries = <<Entry("index", 0, b, 0)>>
    BY <1>7, <1>9 DEF Deep
  <2>2. Entry("index", 0, c, 0) = Entry("index", 0, b, 0)  BY <2>1
  <2>3. Entry("index", 0, c, 0).start = c /\ Entry("index", 0, b, 0).start = b  BY DEF Entry
  <2>4. c = b  BY <2>2, <2>3, Zenon
  <2>5. c \in DOMAIN nodes  BY <1>9 DEF Deep, IndexNodes
  <2> QED BY <2>4, <2>5
<1>10. Levels(n)' = Levels(n) + Cardinality({b})
  <2>1. Flat(n)  BY DEF IntoNewBlock
  <2>2. ~ Flat(n)'
    <3>1. nodes'[n].depth = 1  BY <1>5
    <3>2. Flat(n)' => nodes'[n].depth = 0  BY DEF Flat
    <3> QED BY <3>1, <3>2
  <2>3. Levels(n) = 0 /\ Levels(n)' = 1  BY <2>1, <2>2, Zenon DEF Levels
  <2>4. Cardinality({b}) = 1  BY FS_Singleton, Zenon
  <2> QED BY <2>3, <2>4
<1>11. {b} \cap AllInodes = {}  BY <1>4
<1>12. \A c : Deep(n, c)' => \A m \in AllInodes \ {n} : ~ Deep(m, c)  BY <1>9, Zenon
<1> QED BY <1>5, <1>6, <1>8, <1>10, <1>11, <1>12, GrownFrom

\* The blocks of an extent are as many as its length.
LEMMA ExtentSize ==
  ASSUME NEW e \in ExtentRec
  PROVE  /\ IsFiniteSet(ExtentBlocks(e)) /\ Cardinality(ExtentBlocks(e)) = e.len
         /\ e.len \in Nat
<1>1. PICK s \in Nat, l \in Nat : e.start = s /\ e.len = l  BY DEF ExtentRec
<1>2. ExtentBlocks(e) = s .. (s + l) - 1  BY <1>1 DEF ExtentBlocks
<1>3. /\ IsFiniteSet(s .. (s + l) - 1)
      /\ Cardinality(s .. (s + l) - 1) = IF s > (s + l) - 1 THEN 0 ELSE (((s + l) - 1) - s) + 1
  <2>1. s \in Int /\ (s + l) - 1 \in Int  OBVIOUS
  <2> QED BY <2>1, FS_Interval
<1> QED BY <1>1, <1>2, <1>3

\* Sets that share nothing add up.
LEMMA DisjointSizes ==
  ASSUME NEW S, NEW T, IsFiniteSet(S), IsFiniteSet(T), S \cap T = {}
  PROVE  /\ IsFiniteSet(S \cup T)
         /\ Cardinality(S \cup T) = Cardinality(S) + Cardinality(T)
         /\ Cardinality(S) \in Nat /\ Cardinality(T) \in Nat
<1>1. /\ IsFiniteSet(S \cup T)
      /\ Cardinality(S \cup T) = Cardinality(S) + Cardinality(T) - Cardinality(S \cap T)
  BY FS_Union, Zenon
<1>2. Cardinality(S \cap T) = 0  BY FS_EmptySet, Zenon
<1>3. Cardinality(S) \in Nat /\ Cardinality(T) \in Nat  BY FS_CardinalityType, Zenon
<1> QED BY <1>1, <1>2, <1>3

\* register_extent keeps the accounts, when nothing else has the blocks of the
\* extent and the index.
LEMMA AccountStep ==
  ASSUME TreeTypes, Accounts, NEW n \in AllInodes, NEW e \in ExtentRec, NEW idx,
         IsFiniteSet(idx), Account(n, e, idx), given' = [given EXCEPT ![n] = Append(@, e)],
         Grown(n, e, idx),
         ExtentBlocks(e) \cap idx = {}, (ExtentBlocks(e) \cup idx) \cap marked = {},
         ExtentBlocks(e) \cup idx \subseteq (Payload \cup Index) \ index_blocks',
         index_blocks' \subseteq index_blocks
  PROVE  Accounts'
<1> DEFINE B == ExtentBlocks(e)
<1>1. given'[n] = Append(given[n], e) /\ given[n] \in Seq(ExtentRec)
      /\ \A m \in AllInodes \ {n} : given'[m] = given[m]
  BY DEF TreeTypes
<1>2. DataOf(n)' = DataOf(n) \cup B
  <2>1. DOMAIN given'[n] = DOMAIN given[n] \cup {Len(given[n]) + 1}
        /\ given'[n][Len(given[n]) + 1] = e
        /\ \A k \in DOMAIN given[n] : given'[n][k] = given[n][k]
    BY <1>1
  <2>2. DataOf(n)' = UNION { ExtentBlocks(given'[n][k]) : k \in DOMAIN given'[n] }
    BY Zenon DEF DataOf, ExtentBlocks
  <2> QED BY <2>1, <2>2 DEF DataOf
<1>3. \A m \in AllInodes \ {n} : DataOf(m)' = DataOf(m)
  <2>1. ASSUME NEW m \in AllInodes \ {n} PROVE DataOf(m)' = DataOf(m)
    <3>1. DataOf(m)' = UNION { ExtentBlocks(given'[m][k]) : k \in DOMAIN given'[m] }
      BY Zenon DEF DataOf, ExtentBlocks
    <3> QED BY <1>1, <3>1, Zenon DEF DataOf
  <2> QED BY <2>1
<1>4. IndexNodes' = IndexNodes \cup idx
  <2>1. DOMAIN nodes' = DOMAIN nodes \cup idx  BY DEF Grown
  <2>2. idx \cap AllInodes = {}  BY TreeConstants
  <2> QED BY <2>1, <2>2 DEF IndexNodes
<1>5. marked' = marked \cup (B \cup idx)  BY DEF Account
<1>6. marked = AllData \cup IndexNodes
      /\ marked \subseteq (Payload \cup Index) \ index_blocks
      /\ free_blocks = Cardinality(Payload \cup Index) - Cardinality(marked)
  BY DEF Accounts
<1>7. AllData' = AllData \cup B
  <2> HIDE DEF B
  <2>0. /\ \A x : x \in AllData <=> \E m \in AllInodes : x \in DataOf(m)
        /\ \A x : x \in AllData' <=> \E m \in AllInodes : x \in DataOf(m)'
    BY DEF AllData
  <2>1. ASSUME NEW x, NEW m \in AllInodes, x \in DataOf(m)' PROVE x \in AllData \cup B
    <3>1. CASE m = n  BY <1>2, <2>0, <2>1, <3>1
    <3>2. CASE m # n  BY <1>3, <2>0, <2>1, <3>2
    <3> QED BY <3>1, <3>2
  <2>2. ASSUME NEW x, NEW m \in AllInodes, x \in DataOf(m) PROVE x \in AllData'
    <3>1. DataOf(m)' = DataOf(m) \/ DataOf(m)' = DataOf(m) \cup B  BY <1>2, <1>3, Zenon
    <3>2. x \in DataOf(m)'  BY <2>2, <3>1
    <3> QED BY <2>0, <3>2, Zenon
  <2>3. ASSUME NEW x \in B PROVE x \in AllData'
    <3>1. x \in DataOf(n)'  BY <1>2
    <3> QED BY <2>0, <3>1, Zenon
  <2>4. \A x : x \in AllData' <=> x \in AllData \cup B
    <3> HIDE DEF AllData
    <3>1. ASSUME NEW x PROVE x \in AllData' => x \in AllData \cup B  BY <2>0, <2>1, Zenon
    <3>2. ASSUME NEW x PROVE x \in AllData => x \in AllData'  BY <2>0, <2>2, Zenon
    <3> QED BY <2>3, <3>1, <3>2
  <2> QED BY <2>4
<1>8. marked' = AllData' \cup IndexNodes'
  <2> HIDE DEF B
  <2>1. marked = AllData \cup IndexNodes  BY <1>6, Zenon
  <2> QED BY <1>4, <1>5, <1>7, <2>1
<1>9. marked' \subseteq (Payload \cup Index) \ index_blocks'
  <2> HIDE DEF B
  <2> QED BY <1>5, <1>6 DEF B
<1>10. IsFiniteSet(B) /\ Cardinality(B) = e.len /\ e.len \in Nat  BY ExtentSize
<1>11. IsFiniteSet(marked)
  <2>1. marked \subseteq Payload \cup Index  BY <1>6
  <2> QED BY <2>1, TreeConstants, FS_Subset, Zenon
<1> HIDE DEF B
<1>12. /\ IsFiniteSet(B \cup idx) /\ Cardinality(B \cup idx) = e.len + Cardinality(idx)
       /\ Cardinality(idx) \in Nat
  <2>1. B \cap idx = {}  BY DEF B
  <2>2. /\ IsFiniteSet(B \cup idx) /\ Cardinality(B \cup idx) = Cardinality(B) + Cardinality(idx)
        /\ Cardinality(idx) \in Nat
    BY <1>10, <2>1, DisjointSizes
  <2> QED BY <1>10, <2>2, Zenon
<1>13. /\ Cardinality(marked') = Cardinality(marked) + (e.len + Cardinality(idx))
       /\ Cardinality(marked) \in Nat
  <2>1. marked \cap (B \cup idx) = {}  BY DEF B
  <2>2. /\ Cardinality(marked \cup (B \cup idx)) = Cardinality(marked) + Cardinality(B \cup idx)
        /\ Cardinality(marked) \in Nat
    BY <1>11, <1>12, <2>1, DisjointSizes
  <2> QED BY <1>5, <1>12, <2>2, Zenon
<1>14. free_blocks' = Cardinality(Payload \cup Index) - Cardinality(marked')
  <2>1. free_blocks' = free_blocks - e.len - Cardinality(idx)  BY DEF Account
  <2>2. Cardinality(Payload \cup Index) \in Nat  BY TreeConstants
  <2>3. free_blocks = Cardinality(Payload \cup Index) - Cardinality(marked)  BY <1>6
  <2>4. Cardinality(marked') = Cardinality(marked) + (e.len + Cardinality(idx))  BY <1>13
  <2>5. e.len \in Nat /\ Cardinality(idx) \in Nat /\ Cardinality(marked) \in Nat  BY <1>10, <1>12, <1>13
  <2> QED BY <2>1, <2>2, <2>3, <2>4, <2>5
<1>15. ASSUME NEW m \in AllInodes
       PROVE  /\ DataOf(m)' \cap IndexNodes' = {}
              /\ Len(given'[m]) <= BlockMax => i_blocks'[m] = Cardinality(DataOf(m)') + Levels(m)'
  <2>1. DataOf(m) \cap IndexNodes = {} /\ DataOf(m) \subseteq marked /\ IndexNodes \subseteq marked
    <3>1. DataOf(m) \cap IndexNodes = {}  BY Zenon DEF Accounts
    <3>2. DataOf(m) \subseteq AllData  BY DEF AllData
    <3> QED BY <1>6, <3>1, <3>2
  <2>2. DataOf(m)' \cap IndexNodes' = {}
    <3>1. B \cap idx = {} /\ B \cap marked = {} /\ idx \cap marked = {}  BY DEF B
    <3>2. DataOf(m)' = DataOf(m) \/ DataOf(m)' = DataOf(m) \cup B  BY <1>2, <1>3, Zenon
    <3> QED BY <1>4, <2>1, <3>1, <3>2
  <2>3. ASSUME Len(given'[m]) <= BlockMax PROVE i_blocks'[m] = Cardinality(DataOf(m)') + Levels(m)'
    <3>1. IsFiniteSet(DataOf(m)) /\ Cardinality(DataOf(m)) \in Nat
      <4>1. IsFiniteSet(DataOf(m))  BY <1>11, <2>1, FS_Subset, Zenon
      <4> QED BY <4>1, FS_CardinalityType, Zenon
    <3>2. given[m] \in Seq(ExtentRec) /\ Len(given[m]) \in Nat /\ BlockMax \in Nat
      BY TreeConstants DEF TreeTypes
    <3>3. Levels(m) \in Nat  BY DEF Levels
    <3>4. CASE m = n
      <4>1. Len(given[m]) <= BlockMax
        <5>1. Len(given'[m]) = Len(given[m]) + 1  BY <1>1, <3>4
        <5> QED BY <2>3, <3>2, <5>1
      <4>2. i_blocks[m] = Cardinality(DataOf(m)) + Levels(m)  BY <4>1 DEF Accounts
      <4>3. i_blocks'[m] = i_blocks[m] + e.len + Cardinality(idx)  BY <3>4 DEF Account, TreeTypes
      <4>4. Cardinality(DataOf(m)') = Cardinality(DataOf(m)) + e.len
        <5>1. DataOf(m) \cap B = {}  BY <2>1 DEF B
        <5>2. Cardinality(DataOf(m) \cup B) = Cardinality(DataOf(m)) + Cardinality(B)
          BY <1>10, <3>1, <5>1, DisjointSizes
        <5>3. DataOf(m)' = DataOf(m) \cup B  BY <1>2, <3>4, Zenon
        <5> QED BY <1>10, <5>2, <5>3, Zenon
      <4>5. Levels(m)' = Levels(m) + Cardinality(idx)  BY <2>3, <3>4 DEF Grown
      <4> QED BY <1>10, <1>12, <3>1, <3>3, <4>2, <4>3, <4>4, <4>5
    <3>5. CASE m # n
      <4>1. given'[m] = given[m] /\ DataOf(m)' = DataOf(m)  BY <1>1, <1>3, <3>5
      <4>2. i_blocks[m] = Cardinality(DataOf(m)) + Levels(m)  BY <2>3, <4>1, Zenon DEF Accounts
      <4>3. i_blocks'[m] = i_blocks[m]  BY <3>5 DEF Account, TreeTypes
      <4>4. Levels(m)' = Levels(m) + 0  BY <2>3, <3>5 DEF Grown
      <4>5. Levels(m)' = Levels(m)  BY <3>3, <4>4
      <4> QED BY <4>1, <4>2, <4>3, <4>5, Zenon
    <3> QED BY <3>4, <3>5
  <2> QED BY <2>2, <2>3
<1> QED BY <1>8, <1>9, <1>14, <1>15, Zenon DEF Accounts

\* The first elements of a sequence.
LEMMA Prefix ==
  ASSUME NEW T, NEW s \in Seq(T), NEW k \in 0 .. Len(s)
  PROVE  SubSeq(s, 1, k) = [i \in 1 .. k |-> s[i]]
<1>1. /\ SubSeq(s, 1, k) \in Seq(T) /\ Len(SubSeq(s, 1, k)) = k
      /\ \A i \in 1 .. k : SubSeq(s, 1, k)[i] = s[i]
  BY SubSeqProperties
<1>2. DOMAIN SubSeq(s, 1, k) = 1 .. k  BY <1>1
<1>3. SubSeq(s, 1, k) = [i \in 1 .. k |-> SubSeq(s, 1, k)[i]]  BY <1>1, <1>2
<1> QED BY <1>1, <1>3

\* The prefix of a sequence that got longer.
LEMMA PrefixOfAppend ==
  ASSUME NEW T, NEW s \in Seq(T), NEW e \in T, NEW k \in 0 .. Len(s)
  PROVE  SubSeq(Append(s, e), 1, k) = SubSeq(s, 1, k)
<1>1. Append(s, e) \in Seq(T) /\ k \in 0 .. Len(Append(s, e))  OBVIOUS
<1>2. \A i \in 1 .. k : Append(s, e)[i] = s[i]  OBVIOUS
<1>3. SubSeq(s, 1, k) = [i \in 1 .. k |-> s[i]]  BY Prefix
<1>4. SubSeq(Append(s, e), 1, k) = [i \in 1 .. k |-> Append(s, e)[i]]  BY <1>1, Prefix
<1> QED BY <1>2, <1>3, <1>4

\* An extent that starts where the others end keeps an inode contiguous.
LEMMA ContiguousStep ==
  ASSUME TreeTypes, NEW n \in AllInodes, NEW e \in ExtentRec, Contiguous(n),
         e.logical = TotalLength(given[n]), given' = [given EXCEPT ![n] = Append(@, e)]
  PROVE  Contiguous(n)'
<1> DEFINE s == given[n]
<1>1. s \in Seq(ExtentRec) /\ Len(s) \in Nat /\ given'[n] = Append(s, e)  BY DEF TreeTypes
<1>2. SUFFICES ASSUME NEW k \in DOMAIN given'[n]
               PROVE  given'[n][k].logical = TotalLength(SubSeq(given'[n], 1, k - 1))
  BY Zenon DEF Contiguous
<1>3. k \in 1 .. Len(s) + 1  BY <1>1
<1>4. SubSeq(given'[n], 1, k - 1) = SubSeq(s, 1, k - 1)
  <2> HIDE DEF s
  <2>1. k - 1 \in 0 .. Len(s)  BY <1>1, <1>3
  <2>2. SubSeq(Append(s, e), 1, k - 1) = SubSeq(s, 1, k - 1)  BY <1>1, <2>1, PrefixOfAppend
  <2> QED BY <1>1, <2>2
<1>5. CASE k \in 1 .. Len(s)
  <2>1. given'[n][k] = s[k]  BY <1>1, <1>5
  <2>2. k \in DOMAIN s  BY <1>1, <1>5
  <2>3. s[k].logical = TotalLength(SubSeq(s, 1, k - 1))  BY <2>2, Zenon DEF Contiguous
  <2> QED BY <1>4, <2>1, <2>3, Zenon
<1>6. CASE k = Len(s) + 1
  <2>1. given'[n][k] = e  BY <1>1, <1>6
  <2>2. SubSeq(s, 1, k - 1) = s
    <3> HIDE DEF s
    <3> QED BY <1>1, <1>6
  <2> QED BY <1>4, <2>1, <2>2, Zenon
<1> QED BY <1>1, <1>3, <1>5, <1>6

\* What register_extent keeps, in either way.
LEMMA RegisterStep ==
  ASSUME TreeInv, NEW n \in AllInodes, NEW e \in ExtentRec,
         e.logical = TotalLength(given[n]),
         ExtentBlocks(e) \subseteq (Payload \cup Index) \ (index_blocks \cup marked \cup IndexNodes),
         (RegisterInTree(n, e) /\ UNCHANGED index_blocks) \/ RegisterDeeper(n, e),
         tree_pc' \in {"tree", "root", "directory", "lost+found", "done", "exited", "astray"}
  PROVE  /\ TreeTypes' /\ Shapes' /\ IndexesApart' /\ Accounts'
         /\ \A m \in AllInodes : Contiguous(m)'
         /\ given' = [given EXCEPT ![n] = Append(@, e)]
<1>1. TreeTypes /\ Shapes /\ IndexesApart /\ Accounts /\ \A m \in AllInodes : Contiguous(m)
  BY DEF TreeInv
<1>2. \E idx : /\ Grown(n, e, idx) /\ Account(n, e, idx) /\ IsFiniteSet(idx)
               /\ given' = [given EXCEPT ![n] = Append(@, e)]
               /\ index_blocks' = index_blocks \ idx /\ idx \subseteq index_blocks
  <2>1. CASE RegisterInTree(n, e) /\ UNCHANGED index_blocks
    <3>1. /\ given' = [given EXCEPT ![n] = Append(@, e)] /\ Account(n, e, {})
          /\ index_blocks' = index_blocks \ {}
      BY <2>1 DEF RegisterInTree
    <3>2. IntoInode(n, e) \/ \E b : IntoBlock(n, e, b) \/ OverIndex(n, e, b)
      BY <1>1, <2>1, TreeStep
    <3>3. Grown(n, e, {})  BY <1>1, <3>1, <3>2, GrownInPlace
    <3>4. IsFiniteSet({})  BY FS_EmptySet, Zenon
    <3> QED BY <3>1, <3>3, <3>4
  <2>2. CASE RegisterDeeper(n, e)
    <3> DEFINE b == Min(index_blocks)
    <3>1. /\ b \in index_blocks /\ index_blocks' = index_blocks \ {b} /\ Account(n, e, {b})
          /\ given' = [given EXCEPT ![n] = Append(@, e)] /\ IntoNewBlock(n, e, b)
      BY <1>1, <2>2, DeeperStep
    <3> HIDE DEF b
    <3>2. b \in Index /\ b \notin DOMAIN nodes
      BY <1>1, <3>1, TreeConstants DEF TreeTypes, IndexNodes
    <3>3. Grown(n, e, {b})  BY <1>1, <3>1, <3>2, GrownByLevel
    <3>4. IsFiniteSet({b})  BY FS_Singleton, Zenon
    <3>5. {b} \subseteq index_blocks  BY <3>1
    <3> QED BY <3>1, <3>3, <3>4, <3>5
  <2> QED BY <2>1, <2>2
<1>3. PICK idx : /\ Grown(n, e, idx) /\ Account(n, e, idx) /\ IsFiniteSet(idx)
                 /\ given' = [given EXCEPT ![n] = Append(@, e)]
                 /\ index_blocks' = index_blocks \ idx /\ idx \subseteq index_blocks
  BY <1>2, Zenon
<1>4. Shapes' /\ IndexesApart' /\ DOMAIN nodes' = DOMAIN nodes \cup idx  BY <1>3 DEF Grown
<1>5. index_blocks \subseteq Index /\ marked \cap index_blocks = {}
  BY <1>1 DEF TreeTypes, Accounts
<1>6. Accounts'
  <2>1. ExtentBlocks(e) \cap idx = {}  BY <1>3
  <2>2. (ExtentBlocks(e) \cup idx) \cap marked = {}  BY <1>3, <1>5
  <2>3. ExtentBlocks(e) \cup idx \subseteq (Payload \cup Index) \ index_blocks'  BY <1>3, <1>5
  <2>4. index_blocks' \subseteq index_blocks  BY <1>3
  <2> QED BY <1>1, <1>3, <2>1, <2>2, <2>3, <2>4, AccountStep
<1>7. TreeTypes'
  <2>1. DOMAIN nodes' \subseteq AllInodes \cup Index /\ AllInodes \subseteq DOMAIN nodes'
    BY <1>1, <1>3, <1>4, <1>5 DEF TreeTypes
  <2>2. given' \in [AllInodes -> Seq(ExtentRec)]
    <3>1. given \in [AllInodes -> Seq(ExtentRec)]  BY <1>1 DEF TreeTypes
    <3>2. Append(given[n], e) \in Seq(ExtentRec)  BY <3>1
    <3> HIDE DEF ExtentRec
    <3> QED BY <1>3, <3>1, <3>2
  <2>3. i_blocks' \in [AllInodes -> Int]
    <3>1. e.len \in Int /\ Cardinality(idx) \in Int
      <4>1. Cardinality(idx) \in Nat  BY <1>3, FS_CardinalityType, Zenon
      <4> QED BY <4>1, ExtentSize
    <3>2. i_blocks \in [AllInodes -> Int]  BY <1>1 DEF TreeTypes
    <3>3. i_blocks' = [i_blocks EXCEPT ![n] = @ + e.len + Cardinality(idx)]  BY <1>3 DEF Account
    <3>4. i_blocks[n] + e.len + Cardinality(idx) \in Int  BY <3>1, <3>2
    <3> QED BY <3>2, <3>3, <3>4
  <2>4. index_blocks' \subseteq Index /\ IndexNodes' \cap index_blocks' = {}
    <3>1. IndexNodes \cap index_blocks = {}  BY <1>1 DEF TreeTypes
    <3>2. IndexNodes' \subseteq IndexNodes \cup idx  BY <1>4 DEF IndexNodes
    <3> QED BY <1>3, <1>5, <3>1, <3>2
  <2> QED BY <2>1, <2>2, <2>3, <2>4, Zenon DEF TreeTypes
<1>8. ASSUME NEW m \in AllInodes PROVE Contiguous(m)'
  <2>1. CASE m = n  BY <1>1, <1>3, <2>1, ContiguousStep
  <2>2. CASE m # n
    <3>1. given'[m] = given[m]  BY <1>1, <1>3, <2>2 DEF TreeTypes
    <3>2. Contiguous(m)  BY <1>1
    <3> QED BY <3>1, <3>2 DEF Contiguous
  <2> QED BY <2>1, <2>2
<1> QED BY <1>3, <1>4, <1>6, <1>7, <1>8

\* The lengths of extents.
LEMMA LensOf ==
  ASSUME NEW s \in Seq(ExtentRec)
  PROVE  Lens(s)
<1>1. \A k \in DOMAIN s : s[k] \in ExtentRec  OBVIOUS
<1>2. \A e \in ExtentRec : e.len \in Nat  BY DEF ExtentRec
<1> QED BY <1>1, <1>2, Zenon DEF Lens

\* The accounts do not depend on where the program is.
LEMMA AccountsFrame ==
  ASSUME Accounts, UNCHANGED <<nodes, i_blocks, marked, free_blocks, given>>,
         index_blocks' \subseteq index_blocks
  PROVE  Accounts'
<1>1. IndexNodes' = IndexNodes  BY DEF IndexNodes
<1>2. \A n : DataOf(n)' = DataOf(n) /\ Levels(n)' = Levels(n)  BY DEF DataOf, Levels, Flat
<1>3. AllData' = AllData  BY DEF AllData, DataOf
<1> QED BY <1>1, <1>2, <1>3 DEF Accounts

\* A step that registers nothing.
LEMMA TreesFrame ==
  ASSUME TreeInv, UNCHANGED <<nodes, i_blocks, marked, free_blocks, given>>,
         index_blocks' \subseteq index_blocks, BlockHeld',
         tree_pc' \in {"tree", "root", "directory", "lost+found", "done", "exited", "astray"}
  PROVE  TreeInv'
<1>1. TreeTypes /\ Shapes /\ IndexesApart /\ Accounts /\ \A m \in AllInodes : Contiguous(m)
  BY DEF TreeInv
<1>2. TreeTypes'  BY <1>1 DEF TreeTypes, IndexNodes
<1>3. Shapes' /\ IndexesApart'
  BY <1>1 DEF Shapes, Shape, Flat, Deep, Overfull, IndexesApart, IndexNodes
<1>4. Accounts'  BY <1>1, AccountsFrame
<1>5. \A m \in AllInodes : Contiguous(m)'  BY <1>1 DEF Contiguous
<1> QED BY <1>2, <1>3, <1>4, <1>5, Zenon DEF TreeInv

\* set_extents and register_dir_extent.
LEMMA RegisterExtentStep ==
  ASSUME TreeInv, register_extent
  PROVE  TreeInv'
<1>1. PICK n \in Inodes, len \in 1 .. 2 :
        /\ Payload \ marked # {}
        /\ ExtentBlocks(NextExtent(n, len)) \subseteq Payload \ marked
        /\ \/ RegisterInTree(n, NextExtent(n, len)) /\ UNCHANGED <<index_blocks, tree_pc>>
           \/ RegisterDeeper(n, NextExtent(n, len)) /\ UNCHANGED tree_pc
           \/ Fail(n)
  BY Zenon DEF register_extent
<1>2. tree_pc = "tree" /\ block' = block  BY DEF register_extent
<1>3. n \in AllInodes /\ n # LostFoundInode  BY TreeConstants DEF AllInodes
<1> DEFINE e == NextExtent(n, len)
<1>4. e \in ExtentRec /\ e.logical = TotalLength(given[n])
  <2>1. TotalLength(given[n]) \in Nat
    <3>1. given[n] \in Seq(ExtentRec)  BY <1>3 DEF TreeInv, TreeTypes
    <3>2. Lens(given[n])  BY <3>1, LensOf
    <3> QED BY <3>1, <3>2, TotalFacts
  <2>2. Min(Payload \ marked) \in Nat \ {0}
    <3>1. Payload \ marked \subseteq Nat \ {0} /\ Payload \ marked \subseteq Nat  BY TreeConstants
    <3>2. Min(Payload \ marked) \in Payload \ marked  BY <1>1, <3>1, MinFacts, Zenon
    <3> QED BY <3>1, <3>2, Zenon
  <2> QED BY <2>1, <2>2 DEF NextExtent, Extent, Entry, ExtentRec
<1> HIDE DEF e
<1>5. TreeTypes /\ Shapes /\ IndexesApart /\ BlockHeld /\ Accounts /\ \A m \in AllInodes : Contiguous(m)
  BY DEF TreeInv
<1>6. CASE Fail(n)
  <2>1. /\ tree_pc' \in {"exited", "astray"}
        /\ UNCHANGED <<nodes, i_blocks, marked, free_blocks, index_blocks, given>>
    BY <1>6, Zenon DEF Fail
  <2>2. BlockHeld'  BY <2>1 DEF BlockHeld
  <2>3. index_blocks' \subseteq index_blocks  BY <2>1
  <2>4. tree_pc' \in {"tree", "root", "directory", "lost+found", "done", "exited", "astray"}  BY <2>1
  <2> QED BY <2>1, <2>2, <2>3, <2>4, TreesFrame
<1>7. CASE /\ (RegisterInTree(n, e) /\ UNCHANGED index_blocks) \/ RegisterDeeper(n, e)
           /\ UNCHANGED tree_pc
  <2>1. ExtentBlocks(e) \subseteq (Payload \cup Index) \ (index_blocks \cup marked \cup IndexNodes)
    <3>1. ExtentBlocks(e) \subseteq Payload \ marked  BY <1>1 DEF e
    <3>2. IndexNodes \subseteq Index /\ index_blocks \subseteq Index  BY <1>5 DEF TreeTypes, IndexNodes
    <3> QED BY <3>1, <3>2, TreeConstants
  <2>2. tree_pc' \in {"tree", "root", "directory", "lost+found", "done", "exited", "astray"}
    BY <1>2, <1>7
  <2>3. /\ TreeTypes' /\ Shapes' /\ IndexesApart' /\ Accounts'
        /\ \A m \in AllInodes : Contiguous(m)'
        /\ given' = [given EXCEPT ![n] = Append(@, e)]
    BY <1>3, <1>4, <1>7, <2>1, <2>2, RegisterStep
  <2>4. BlockHeld'
    <3>1. given'[LostFoundInode] = given[LostFoundInode]
      BY <1>3, <1>5, <2>3 DEF TreeTypes, AllInodes
    <3>2. given[LostFoundInode] = <<>>  BY <1>2, <1>5 DEF BlockHeld
    <3>3. tree_pc' = "tree"  BY <1>2, <1>7
    <3> QED BY <3>1, <3>2, <3>3 DEF BlockHeld
  <2> QED BY <2>3, <2>4, Zenon DEF TreeInv
<1> QED BY <1>1, <1>6, <1>7 DEF e

\* Where build_lost_found finds the last extent of the root: the end of the
\* directory.
LEMMA LastExtent ==
  ASSUME TreeInv, NEW n \in AllInodes, given[n] # <<>>, ~ Broken(nodes, n)
  PROVE  /\ last_extent(n) \in ExtentRec
         /\ last_extent(n).logical + last_extent(n).len = TotalLength(given[n])
<1> DEFINE s == given[n]
<1>1. TreeTypes /\ Shape(n) /\ Contiguous(n)  BY DEF TreeInv, Shapes
<1>2. /\ s \in Seq(ExtentRec) /\ Len(s) \in Nat /\ n \in DOMAIN nodes /\ n # Nowhere /\ ~ Overfull(n)
      /\ RootMax \in Nat /\ BlockMax \in Nat /\ 2 <= RootMax
  BY <1>1, ShapeFacts, TreeConstants
<1>3. nodes[Last(Path(nodes, n))].entries = s
  <2>1. CASE Flat(n)
    <3>1. nodes[n] = [depth |-> 0, max |-> RootMax, entries |-> s]  BY <2>1 DEF Flat
    <3>2. Last(Path(nodes, n)) = n  BY <1>2, <3>1, FlatTree
    <3> QED BY <3>1, <3>2
  <2>2. ASSUME NEW b, Deep(n, b) PROVE nodes[Last(Path(nodes, n))].entries = s
    <3>1. b \in DOMAIN nodes /\ b # Nowhere  BY <1>1, <2>2, ShapeFacts
    <3>2. /\ nodes[n] = [depth |-> 1, max |-> RootMax, entries |-> <<Entry("index", 0, b, 0)>>]
          /\ nodes[b] = [depth |-> 0, max |-> BlockMax, entries |-> s]
      BY <2>2 DEF Deep
    <3>3. Last(Path(nodes, n)) = b
      <4>1. DeepAppend(nodes, n, b, given[n])  BY <1>2, <3>1, <3>2, DeepTree, Zenon
      <4> QED BY <4>1 DEF DeepAppend
    <3> QED BY <3>2, <3>3
  <2> QED BY <1>1, <1>2, <2>1, <2>2 DEF Shape
<1>4. Len(s) > 0 /\ Len(s) \in DOMAIN s  BY <1>2
<1>5. last_extent(n) = s[Len(s)] /\ s[Len(s)] \in ExtentRec
  <2>1. last_extent(n) = Last(s)  BY <1>3, Zenon DEF last_extent
  <2> QED BY <1>2, <1>4, <2>1 DEF Last
<1> DEFINE p == SubSeq(s, 1, Len(s) - 1)
<1>6. s[Len(s)].logical = TotalLength(p)  BY <1>1, <1>4, Zenon DEF Contiguous
<1> HIDE DEF s
<1>7. p \in Seq(ExtentRec) /\ s = Append(p, s[Len(s)])
  BY <1>2, <1>4
<1>8. Lens(p)  BY <1>7, LensOf
<1>9. s[Len(s)].len \in Nat  BY <1>5 DEF ExtentRec
<1> HIDE DEF ExtentRec, p
<1>10. TotalLength(Append(p, s[Len(s)])) = TotalLength(p) + s[Len(s)].len
  BY <1>5, <1>7, <1>8, <1>9, TotalFacts
<1> QED BY <1>5, <1>6, <1>7, <1>10 DEF s

\* The allocations of build_lost_found.
LEMMA AllocateStep ==
  ASSUME TreeInv, AllocateRootBlock \/ AllocateDirBlock
  PROVE  TreeInv'
<1>1. PICK l \in {"root", "lost+found"} :
        /\ Allocate(l) /\ tree_pc \in {"tree", "directory"}
        /\ l = "root" => given[RootDir] # <<>>
  <2>1. CASE AllocateRootBlock
    <3>1. Allocate("root") /\ tree_pc \in {"tree", "directory"} /\ given[RootDir] # <<>>
      BY <2>1 DEF AllocateRootBlock
    <3> QED BY <3>1
  <2>2. CASE AllocateDirBlock
    <3>1. Allocate("lost+found") /\ tree_pc \in {"tree", "directory"}
      BY <2>2 DEF AllocateDirBlock
    <3> QED BY <3>1
  <2> QED BY <2>1, <2>2
<1>2. TreeTypes /\ BlockHeld /\ Accounts  BY DEF TreeInv
<1>3. UNCHANGED <<nodes, i_blocks, marked, free_blocks, given>>  BY <1>1 DEF Allocate
<1>4. CASE index_blocks = {}
  <2>1. tree_pc' = "exited" /\ index_blocks' = index_blocks  BY <1>1, <1>4 DEF Allocate
  <2>2. BlockHeld'  BY <2>1 DEF BlockHeld
  <2> QED BY <1>3, <2>1, <2>2, TreesFrame
<1>5. CASE index_blocks # {}
  <2> DEFINE b == Min(index_blocks)
  <2>1. tree_pc' = l /\ block' = b /\ index_blocks' = index_blocks \ {b}  BY <1>1, <1>5 DEF Allocate
  <2>2. b \in index_blocks
    <3>1. index_blocks \subseteq Nat  BY <1>2, TreeConstants DEF TreeTypes
    <3> QED BY <1>5, <3>1, MinFacts, Zenon
  <2> HIDE DEF b
  <2>3. b \in Index \ (index_blocks' \cup marked \cup DOMAIN nodes)
    BY <1>2, <2>1, <2>2, TreeConstants DEF TreeTypes, Accounts, IndexNodes
  <2>4. given[LostFoundInode] = <<>>  BY <1>1, <1>2 DEF BlockHeld
  <2>5. BlockHeld'
    BY <1>1, <1>3, <2>1, <2>3, <2>4 DEF BlockHeld
  <2>6. tree_pc' \in {"tree", "root", "directory", "lost+found", "done", "exited", "astray"}
    BY <1>1, <2>1
  <2>7. index_blocks' \subseteq index_blocks  BY <2>1
  <2> QED BY <1>3, <2>5, <2>6, <2>7, TreesFrame
<1> QED BY <1>4, <1>5

\* A single block is an extent.
LEMMA OneBlock ==
  ASSUME NEW l \in Nat, NEW b \in Nat \ {0}
  PROVE  /\ Extent(l, b, 1) \in ExtentRec /\ Extent(l, b, 1).logical = l
         /\ ExtentBlocks(Extent(l, b, 1)) = {b}
<1>1. Extent(l, b, 1) = [kind |-> "extent", logical |-> l, start |-> b, len |-> 1]
  BY DEF Extent, Entry
<1>2. ExtentBlocks(Extent(l, b, 1)) = b .. b + 1 - 1  BY <1>1 DEF ExtentBlocks
<1>3. b .. b + 1 - 1 = {b}  OBVIOUS
<1> QED BY <1>1, <1>2, <1>3 DEF ExtentRec

\* The block of the root for the entry of lost+found.
LEMMA RegisterRootStep ==
  ASSUME TreeInv, RegisterRootBlock
  PROVE  TreeInv'
<1> DEFINE last == last_extent(RootDir)
           e == Extent(last.logical + last.len, block, 1)
<1>1. /\ tree_pc = "root" /\ block' = block
      /\ \/ RegisterInTree(RootDir, e) /\ tree_pc' = "directory" /\ UNCHANGED index_blocks
         \/ RegisterDeeper(RootDir, e) /\ tree_pc' = "directory"
         \/ Fail(RootDir)
  BY Zenon DEF RegisterRootBlock
<1>2. TreeTypes /\ BlockHeld /\ Accounts  BY DEF TreeInv
<1>3. RootDir \in AllInodes /\ RootDir # LostFoundInode  BY TreeConstants DEF AllInodes
<1>4. /\ block \in Index \ (index_blocks \cup marked \cup DOMAIN nodes)
      /\ given[RootDir] # <<>> /\ given[LostFoundInode] = <<>>
  BY <1>1, <1>2 DEF BlockHeld
<1>5. CASE Fail(RootDir)
  <2>1. /\ tree_pc' \in {"exited", "astray"}
        /\ UNCHANGED <<nodes, i_blocks, marked, free_blocks, index_blocks, given>>
    BY <1>5, Zenon DEF Fail
  <2>2. BlockHeld'  BY <2>1 DEF BlockHeld
  <2>3. index_blocks' \subseteq index_blocks  BY <2>1
  <2>4. tree_pc' \in {"tree", "root", "directory", "lost+found", "done", "exited", "astray"}  BY <2>1
  <2> QED BY <2>1, <2>2, <2>3, <2>4, TreesFrame
<1>6. CASE /\ (RegisterInTree(RootDir, e) /\ UNCHANGED index_blocks) \/ RegisterDeeper(RootDir, e)
           /\ tree_pc' = "directory"
  <2>1. ~ Broken(nodes, RootDir)  BY <1>6 DEF RegisterInTree, RegisterDeeper
  <2>2. last \in ExtentRec /\ last.logical + last.len = TotalLength(given[RootDir])
    BY <1>3, <1>4, <2>1, LastExtent
  <2>3. last.logical + last.len \in Nat  BY <2>2 DEF ExtentRec
  <2>4. block \in Nat \ {0}  BY <1>4, TreeConstants
  <2>5. /\ e \in ExtentRec /\ e.logical = TotalLength(given[RootDir])
        /\ ExtentBlocks(e) = {block}
    <3> HIDE DEF last
    <3> QED BY <2>2, <2>3, <2>4, OneBlock
  <2>6. ExtentBlocks(e) \subseteq (Payload \cup Index) \ (index_blocks \cup marked \cup IndexNodes)
    BY <1>4, <2>5 DEF IndexNodes
  <2>7. tree_pc' \in {"tree", "root", "directory", "lost+found", "done", "exited", "astray"}
    BY <1>6
  <2> HIDE DEF e
  <2>8. /\ TreeTypes' /\ Shapes' /\ IndexesApart' /\ Accounts'
        /\ \A m \in AllInodes : Contiguous(m)'
        /\ given' = [given EXCEPT ![RootDir] = Append(@, e)]
    BY <1>3, <1>6, <2>5, <2>6, <2>7, RegisterStep
  <2>9. BlockHeld'
    <3>1. given'[LostFoundInode] = <<>>
      BY <1>2, <1>3, <1>4, <2>8 DEF TreeTypes, AllInodes
    <3> QED BY <1>6, <3>1 DEF BlockHeld
  <2> QED BY <2>8, <2>9, Zenon DEF TreeInv
<1> QED BY <1>1, <1>5, <1>6

\* The block of lost+found itself.
LEMMA RegisterDirStep ==
  ASSUME TreeInv, RegisterDirBlock
  PROVE  TreeInv'
<1> DEFINE e == Extent(0, block, 1)
<1>1. /\ tree_pc = "lost+found" /\ tree_pc' = "done" /\ UNCHANGED <<index_blocks, block>>
      /\ RegisterInTree(LostFoundInode, e)
  BY Zenon DEF RegisterDirBlock
<1>2. TreeTypes /\ BlockHeld /\ Accounts  BY DEF TreeInv
<1>3. LostFoundInode \in AllInodes  BY DEF AllInodes
<1>4. /\ block \in Index \ (index_blocks \cup marked \cup DOMAIN nodes)
      /\ given[LostFoundInode] = <<>>
  BY <1>1, <1>2 DEF BlockHeld
<1>5. TotalLength(given[LostFoundInode]) = 0
  <2>1. given[LostFoundInode] \in Seq(ExtentRec)  BY <1>2, <1>3 DEF TreeTypes
  <2>2. Lens(given[LostFoundInode])  BY <2>1, LensOf
  <2> HIDE DEF ExtentRec
  <2> QED BY <1>4, <2>1, <2>2, TotalFacts
<1>6. block \in Nat \ {0}  BY <1>4, TreeConstants
<1>7. /\ e \in ExtentRec /\ e.logical = TotalLength(given[LostFoundInode])
      /\ ExtentBlocks(e) = {block}
  BY <1>5, <1>6, OneBlock
<1>8. ExtentBlocks(e) \subseteq (Payload \cup Index) \ (index_blocks \cup marked \cup IndexNodes)
  BY <1>4, <1>7 DEF IndexNodes
<1> HIDE DEF e
<1>9. /\ TreeTypes' /\ Shapes' /\ IndexesApart' /\ Accounts'
      /\ \A m \in AllInodes : Contiguous(m)'
  <2>1. tree_pc' \in {"tree", "root", "directory", "lost+found", "done", "exited", "astray"}  BY <1>1
  <2> QED BY <1>1, <1>3, <1>7, <1>8, <2>1, RegisterStep
<1>10. BlockHeld'  BY <1>1 DEF BlockHeld
<1> QED BY <1>9, <1>10, Zenon DEF TreeInv

\* At the start every inode has an empty tree of its own.
LEMMA InitTree ==
  ASSUME TreeInit
  PROVE  TreeInv
<1>1. /\ nodes = [n \in AllInodes |-> EmptyRoot] /\ i_blocks = [n \in AllInodes |-> 0]
      /\ marked = {} /\ free_blocks = Cardinality(Payload \cup Index)
      /\ index_blocks = Index /\ given = [n \in AllInodes |-> <<>>] /\ tree_pc = "tree"
  BY DEF TreeInit
<1>2. \A n \in AllInodes : given[n] = <<>> /\ nodes[n] = EmptyRoot /\ i_blocks[n] = 0  BY <1>1
<1>3. IndexNodes = {}  BY <1>1 DEF IndexNodes
<1>4. \A n \in AllInodes : DataOf(n) = {}  BY <1>2 DEF DataOf
<1>5. AllData = {}  BY <1>4 DEF AllData
<1>6. Cardinality({}) = 0  BY FS_EmptySet, Zenon
<1>7. \A n \in AllInodes : Flat(n)
  <2>1. Len(<<>>) <= RootMax  BY TreeConstants
  <2> QED BY <1>2, <2>1 DEF Flat, EmptyRoot
<1>8. TreeTypes
  <2>1. given \in [AllInodes -> Seq(ExtentRec)]
    <3>1. <<>> \in Seq(ExtentRec)  OBVIOUS
    <3> QED BY <1>1, <3>1, Zenon
  <2>2. i_blocks \in [AllInodes -> Int]  BY <1>1
  <2> QED BY <1>1, <1>3, <2>1, <2>2 DEF TreeTypes
<1>9. Shapes  BY <1>7 DEF Shapes, Shape
<1>10. IndexesApart  BY <1>3 DEF IndexesApart
<1>11. BlockHeld
  <2>1. LostFoundInode \in AllInodes  BY DEF AllInodes
  <2> QED BY <1>1, <1>2, <2>1 DEF BlockHeld
<1>12. Accounts
  <2>1. \A n \in AllInodes : Levels(n) = 0  BY <1>7, Zenon DEF Levels
  <2>2. free_blocks = Cardinality(Payload \cup Index) - Cardinality(marked)
    BY <1>1, <1>6, TreeConstants
  <2>3. ASSUME NEW n \in AllInodes
        PROVE  /\ DataOf(n) \cap IndexNodes = {}
               /\ i_blocks[n] = Cardinality(DataOf(n)) + Levels(n)
    <3>1. DataOf(n) = {} /\ Cardinality(DataOf(n)) = 0  BY <1>4, <1>6
    <3>2. i_blocks[n] = 0 /\ Levels(n) = 0  BY <1>2, <2>1
    <3> QED BY <3>1, <3>2
  <2>4. marked = AllData \cup IndexNodes  BY <1>1, <1>3, <1>5
  <2>5. marked \subseteq (Payload \cup Index) \ index_blocks  BY <1>1
  <2> QED BY <2>2, <2>3, <2>4, <2>5, Zenon DEF Accounts
<1>13. \A n \in AllInodes : Contiguous(n)
  <2>1. DOMAIN <<>> = {}  OBVIOUS
  <2> QED BY <1>2, <2>1, Zenon DEF Contiguous
<1> QED BY <1>8, <1>9, <1>10, <1>11, <1>12, <1>13, Zenon DEF TreeInv

\* No step of the program, and no stutter, breaks the invariant.
LEMMA TreeInvStep == TreeInv /\ [TreeNext]_treeVars => TreeInv'
<1>1. SUFFICES ASSUME TreeInv, [TreeNext]_treeVars PROVE TreeInv'
  OBVIOUS
<1>2. ASSUME UNCHANGED treeVars PROVE TreeInv'
  <2>1. /\ UNCHANGED <<nodes, i_blocks, marked, free_blocks, given>>
        /\ index_blocks' = index_blocks /\ block' = block /\ tree_pc' = tree_pc
    BY <1>2 DEF treeVars
  <2>2. BlockHeld'  BY <1>1, <2>1 DEF TreeInv, BlockHeld
  <2>3. tree_pc' \in {"tree", "root", "directory", "lost+found", "done", "exited", "astray"}
    BY <1>1, <2>1 DEF TreeInv, TreeTypes
  <2>4. index_blocks' \subseteq index_blocks  BY <2>1
  <2> QED BY <1>1, <2>1, <2>2, <2>3, <2>4, TreesFrame
<1>3. CASE register_extent  BY <1>1, <1>3, RegisterExtentStep
<1>4. CASE AllocateRootBlock  BY <1>1, <1>4, AllocateStep
<1>5. CASE RegisterRootBlock  BY <1>1, <1>5, RegisterRootStep
<1>6. CASE AllocateDirBlock  BY <1>1, <1>6, AllocateStep
<1>7. CASE RegisterDirBlock  BY <1>1, <1>7, RegisterDirStep
<1>8. CASE TreeStopped  BY <1>2, <1>8 DEF TreeStopped
<1> QED BY <1>1, <1>2, <1>3, <1>4, <1>5, <1>6, <1>7, <1>8 DEF TreeNext

\* The inductive invariant of the extent trees.
THEOREM TreeInvariance == TreeSpec => []TreeInv
<1>1. TreeInit => TreeInv  BY InitTree
<1>2. TreeInv /\ [TreeNext]_treeVars => TreeInv'  BY TreeInvStep
<1> QED BY <1>1, <1>2, PTL DEF TreeSpec

\* What a tree with one index block lists.
LEMMA ListedDeep ==
  ASSUME NEW n, NEW b, NEW T, NEW s \in Seq(T), nodes[b].entries = s, nodes[n].depth = 1,
         nodes[n].entries = <<Entry("index", 0, b, 0)>>
  PROVE  Listed(n) = s
<1> DEFINE x == nodes[n].entries
           R(f) == [t \in SUBSET DOMAIN x |->
                      IF t = {} THEN <<>>
                      ELSE IF x[Max(t)].kind = "index"
                           THEN f[t \ {Max(t)}] \o nodes[x[Max(t)].start].entries
                           ELSE f[t \ {Max(t)}]]
           g == [t \in {{}, {1}} |-> IF t = {} THEN <<>> ELSE s]
           h == CHOOSE f : f = R(f)
<1>1. DOMAIN x = {1} /\ SUBSET DOMAIN x = {{}, {1}} /\ x[1] = Entry("index", 0, b, 0)
  <2>1. DOMAIN x = {1} /\ x[1] = Entry("index", 0, b, 0)
    <3> DEFINE y == Entry("index", 0, b, 0)
    <3>1. x = <<y>>  OBVIOUS
    <3> HIDE DEF x, y
    <3>2. DOMAIN x = {1} /\ x[1] = y  BY <3>1
    <3> QED BY <3>2 DEF y
  <2> HIDE DEF x
  <2> QED BY <2>1
<1>2. x[1].kind = "index" /\ x[1].start = b  BY <1>1 DEF Entry
<1> HIDE DEF x
<1>3. Max({1}) = 1
  <2>1. 1 \in Nat /\ {1} \subseteq 1 .. 1 /\ 1 \in {1}  OBVIOUS
  <2> QED BY <2>1, MaxOfPrefix, Zenon
<1>4. g = R(g)
  <2>1. <<>> \o s = s  OBVIOUS
  <2>2. g[{}] = <<>> /\ {1} \ {1} = {}  OBVIOUS
  <2>3. R(g)[{}] = <<>>  BY <1>1, Zenon
  <2>4. R(g)[{1}] = s
    <3>1. {1} \in SUBSET DOMAIN x /\ {1} # {}  BY <1>1, Zenon
    <3> HIDE DEF g
    <3>2. R(g)[{1}] = g[{1} \ {1}] \o nodes[b].entries  BY <1>2, <1>3, <3>1
    <3> QED BY <2>1, <2>2, <3>2
  <2>5. g[{1}] = s  BY SMT
  <2>6. g = [t \in {{}, {1}} |-> g[t]] /\ R(g) = [t \in {{}, {1}} |-> R(g)[t]]
    <3>1. g = [t \in {{}, {1}} |-> g[t]]  BY Zenon
    <3> HIDE DEF g
    <3>2. R(g) = [t \in {{}, {1}} |-> R(g)[t]]  BY <1>1, Zenon
    <3> QED BY <3>1, <3>2
  <2>7. \A t \in {{}, {1}} : g[t] = R(g)[t]
    <3> HIDE DEF g, R
    <3> QED BY <2>2, <2>3, <2>4, <2>5, Zenon
  <2> HIDE DEF g, R
  <2> QED BY <2>6, <2>7
<1>5. h = R(h)
  <2> HIDE DEF g, R
  <2> QED BY <1>4, Zenon
<1>6. Listed(n) = h[DOMAIN x]
  <2>1. Listed(n) = FoldLeft(LAMBDA acc, e : IF e.kind = "index" THEN acc \o nodes[e.start].entries ELSE acc,
                             <<>>, nodes[n].entries)
    <3>1. nodes[n].depth # 0  OBVIOUS
    <3> QED BY <3>1, Zenon DEF Listed
  <2>2. FoldLeft(LAMBDA acc, e : IF e.kind = "index" THEN acc \o nodes[e.start].entries ELSE acc,
                 <<>>, nodes[n].entries) = h[DOMAIN x]
    BY Zenon DEF FoldLeft, MapThenFoldSet, x
  <2> QED BY <2>1, <2>2, Zenon
<1> HIDE DEF h
<1>7. R(h)[{}] = <<>>  BY <1>1, Zenon
<1>8. R(h)[{1}] = h[{1} \ {1}] \o nodes[b].entries
  <2>1. {1} \in SUBSET DOMAIN x /\ {1} # {}  BY <1>1, Zenon
  <2> QED BY <1>2, <1>3, <2>1
<1> HIDE DEF R
<1>9. {1} \ {1} = {} /\ <<>> \o s = s  OBVIOUS
<1>10. h[{1}] = s  BY <1>5, <1>7, <1>8, <1>9
<1> QED BY <1>1, <1>6, <1>10, Zenon

\* The trees list what was given to them.
LEMMA TreesList == TreeInv => TreeListsExtents
<1>1. SUFFICES ASSUME TreeInv, NEW n \in AllInodes, Len(given[n]) <= BlockMax
               PROVE  Listed(n) = given[n]
  BY DEF TreeListsExtents
<1>2. TreeTypes /\ Shape(n)  BY <1>1 DEF TreeInv, Shapes
<1>3. given[n] \in Seq(ExtentRec) /\ Len(given[n]) \in Nat  BY <1>2, ShapeFacts
<1>4. CASE Flat(n)
  <2>1. nodes[n].depth = 0 /\ nodes[n].entries = given[n]  BY <1>4 DEF Flat
  <2> QED BY <2>1, Zenon DEF Listed
<1>5. ASSUME NEW b, Deep(n, b) PROVE Listed(n) = given[n]
  <2>1. /\ nodes[n].depth = 1 /\ nodes[n].entries = <<Entry("index", 0, b, 0)>>
        /\ nodes[b].entries = given[n]
    BY <1>5 DEF Deep
  <2> QED BY <1>3, <2>1, ListedDeep
<1>6. ~ Overfull(n)  BY <1>1, <1>3, TreeConstants DEF Overfull
<1> QED BY <1>2, <1>4, <1>5, <1>6, Zenon DEF Shape

\* The nodes a root refers to are the levels below it.
LEMMA LevelsAreIndexes ==
  ASSUME TreeInv, NEW n \in AllInodes, Len(given[n]) <= BlockMax
  PROVE  Cardinality({ r \in IndexNodes : \E k \in DOMAIN nodes[n].entries :
                                             nodes[n].entries[k].start = r }) = Levels(n)
<1> DEFINE I == { r \in IndexNodes : \E k \in DOMAIN nodes[n].entries :
                                        nodes[n].entries[k].start = r }
<1>1. TreeTypes /\ Shape(n) /\ Accounts  BY DEF TreeInv, Shapes
<1>2. given[n] \in Seq(ExtentRec) /\ Len(given[n]) \in Nat  BY <1>1, ShapeFacts
<1>3. CASE Flat(n)
  <2>1. nodes[n].entries = given[n]  BY <1>3 DEF Flat
  <2>2. ASSUME NEW k \in DOMAIN given[n] PROVE given[n][k].start \notin IndexNodes
    <3>1. given[n][k] \in ExtentRec  BY <1>2
    <3>2. PICK s \in Nat, l \in Nat \ {0} : given[n][k].start = s /\ given[n][k].len = l
      BY <3>1 DEF ExtentRec
    <3>3. s \in ExtentBlocks(given[n][k])  BY <3>2 DEF ExtentBlocks
    <3>4. s \in DataOf(n)  BY <3>3, Zenon DEF DataOf
    <3>5. DataOf(n) \cap IndexNodes = {}  BY <1>1, Zenon DEF Accounts
    <3> QED BY <3>2, <3>4, <3>5
  <2>3. I = {}  BY <2>1, <2>2
  <2>4. Levels(n) = 0  BY <1>3 DEF Levels
  <2> QED BY <2>3, <2>4, FS_EmptySet, Zenon
<1>4. ASSUME NEW b \in IndexNodes, Deep(n, b) PROVE Cardinality(I) = Levels(n)
  <2> DEFINE y == Entry("index", 0, b, 0)
  <2>1. nodes[n].depth = 1 /\ nodes[n].entries = <<y>>  BY <1>4 DEF Deep
  <2>2. Levels(n) = 1  BY <1>1, <2>1, ShapeFacts
  <2>3. y.start = b  BY DEF Entry
  <2>4. I = {b}
    <3> HIDE DEF y
    <3>1. DOMAIN nodes[n].entries = {1} /\ nodes[n].entries[1] = y  BY <2>1
    <3> QED BY <1>4, <2>3, <3>1
  <2> QED BY <2>2, <2>4, FS_Singleton, Zenon
<1>5. ~ Overfull(n)  BY <1>2, TreeConstants DEF Overfull
<1> QED BY <1>1, <1>3, <1>4, <1>5, Zenon DEF Shape

\* The accounts are those of the bitmaps and the trees.
LEMMA SpaceIsAccounted == TreeInv => SpaceAccounted
<1> SUFFICES ASSUME TreeInv PROVE SpaceAccounted
  OBVIOUS
<1> DEFINE IndexOf(n) == { r \in DOMAIN nodes \ AllInodes :
                             \E k \in DOMAIN nodes[n].entries : nodes[n].entries[k].start = r }
           D(n) == UNION { ExtentBlocks(given[n][k]) : k \in DOMAIN given[n] }
<1>1. Accounts  BY DEF TreeInv
<1>2. marked = (UNION { D(n) : n \in AllInodes }) \cup (DOMAIN nodes \ AllInodes)
  <2>1. marked = AllData \cup IndexNodes  BY <1>1, Zenon DEF Accounts
  <2>2. AllData = UNION { D(n) : n \in AllInodes }  BY Zenon DEF AllData, DataOf
  <2> QED BY <2>1, <2>2, Zenon DEF IndexNodes
<1>3. free_blocks = Cardinality(Payload \cup Index) - Cardinality(marked)  BY <1>1 DEF Accounts
<1>4. ASSUME NEW n \in AllInodes, Len(given[n]) <= BlockMax
      PROVE  i_blocks[n] = Cardinality(D(n)) + Cardinality(IndexOf(n))
  <2>1. i_blocks[n] = Cardinality(DataOf(n)) + Levels(n)  BY <1>1, <1>4, Zenon DEF Accounts
  <2>2. Cardinality(IndexOf(n)) = Levels(n)  BY <1>4, LevelsAreIndexes, Zenon DEF IndexNodes
  <2> QED BY <2>1, <2>2 DEF DataOf
<1> HIDE DEF IndexOf, D
<1>5. \A n \in AllInodes : Len(given[n]) <= BlockMax =>
        i_blocks[n] = Cardinality(D(n)) + Cardinality(IndexOf(n))
  BY <1>4
<1> QED BY <1>2, <1>3, <1>5, Zenon DEF SpaceAccounted, D, IndexOf

\* Up to max_entries() extents an inode's tree lists all of them in order,
\* before and after make_tree_deeper moved them to a block.
THEOREM ExtentsListed == TreeSpec => []TreeListsExtents
BY TreeInvariance, TreesList, PTL

\* The bitmaps mark what the inodes and their trees hold, each block once, and
\* free counts and i_blocks count it, whatever order the calls of
\* register_extent have.
THEOREM SpaceIsCounted == TreeSpec => []SpaceAccounted
BY TreeInvariance, SpaceIsAccounted, PTL

\* The block build_lost_found adds to the root follows the others, wherever
\* last_extent finds the last one.
THEOREM RootStaysContiguous == TreeSpec => []RootDirContiguous
<1>1. TreeInv => RootDirContiguous
  <2>1. RootDir \in AllInodes  BY TreeConstants DEF AllInodes
  <2> QED BY <2>1, Zenon DEF TreeInv, Contiguous, RootDirContiguous
<1> QED BY <1>1, TreeInvariance, PTL

-----------------------------------------------------------------------------
(* The directories.                                                        *)

IteratorRec == [extent : Nat \ {0}, cluster : Nat]

FrameRec(t) ==
  [dir : DOMAIN t, block : Nat \ {0}, iterator : IteratorRec, i : Nat,
   position_in_block : 0 .. BlockSize, block_count : Nat]

EntryRec == [child : Int, rec_len : Nat]

\* The clusters of a directory of the FAT.
Clusters(exts) == UNION { ClustersOf(exts[k]) : k \in DOMAIN exts }

\* The c-th cluster of the k-th extent was returned before the iterator got to it.
Behind(it, k, c) == k < it.extent \/ (k = it.extent /\ c < it.cluster)

\* The iterator returned b before.
Returned(exts, it, b) ==
  \E k \in DOMAIN exts : \E c \in 0 .. exts[k].length - 1 :
    b = exts[k].physical_start + c /\ Behind(it, k, c)

\* A block registered for directory d, or the one d is being built in.
Owns(d, b) ==
  b \in Blocks(d) \/ \E k \in DOMAIN stack : stack[k].dir = d /\ stack[k].block = b

\* The directory was not met yet.
Untouched(d) == registered[d] = <<>> /\ \A k \in DOMAIN stack : stack[k].dir # d

\* Its entries are all written.
Finished(d) == registered[d] # <<>> /\ \A k \in DOMAIN stack : stack[k].dir # d

DirTypes ==
  /\ tree \in Trees
  /\ stack \in Seq(FrameRec(tree))
  /\ avail \subseteq Free
  /\ written \in [DOMAIN written -> Seq(EntryRec)]
  /\ \A k \in DOMAIN stack : stack[k].block \in DOMAIN written
  /\ registered \in [Dirs -> Seq(Nat \ {0})]
  /\ links \in [Dirs -> Nat] /\ size \in [Dirs -> Nat]
  /\ pc \in {"call", "loop", "lost+found", "lost+found dir", "done", "exited"}

\* The calls on the stack are of different directories; the innermost one is at
\* the entry of the directory it calls for.
Calls ==
  /\ \A j, k \in DOMAIN stack : stack[j].dir = stack[k].dir => j = k
  /\ \A k \in DOMAIN stack : stack[k].i <= Len(tree[stack[k].dir].children)
  /\ pc = "call" /\ stack # <<>> =>
       Top.i \in DOMAIN tree[Top.dir].children /\ tree[Top.dir].children[Top.i].dir # 0
  /\ pc = "loop" => stack # <<>>
  /\ pc \in {"lost+found", "lost+found dir", "done"} => stack = <<>>
  /\ pc = "call" /\ stack = <<>> => \A d \in DOMAIN tree : Untouched(d)

\* The k-th entry of directory p is still to come.
ToCome(p, k) ==
  \/ Untouched(p)
  \/ \E j \in DOMAIN stack :
       /\ stack[j].dir = p
       /\ stack[j].i < k \/ (stack[j].i = k /\ j = Len(stack) /\ pc = "call")

\* No directory was met before its entry,
MetOnce ==
  \A p, d \in DOMAIN tree : \A k \in DOMAIN tree[p].children :
    tree[p].children[k].dir = d /\ ToCome(p, k) => Untouched(d)

\* and every one whose entry was passed was met.
PassedMet ==
  pc # "exited" =>
    \A p, d \in DOMAIN tree : \A k \in DOMAIN tree[p].children :
      tree[p].children[k].dir = d /\ Untouched(d) => ToCome(p, k)

AllMet ==
  /\ PassedMet
  /\ Untouched(Root) => pc \in {"call", "exited"} /\ stack = <<>>
  /\ pc # "done" => registered[LostFound] = <<>>

\* A block is a cluster of its directory, one the iterator returned, or comes
\* from the allocator.
Sources ==
  /\ \A d \in Dirs : \A b :
       Owns(d, b) => \/ b \in Free \ avail
                     \/ d \in DOMAIN tree /\ b \in Clusters(tree[d].extents)
  /\ \A d \in DOMAIN tree : \A b \in Clusters(tree[d].extents) : \A k \in DOMAIN stack :
       stack[k].dir = d /\ Owns(d, b) => Returned(tree[d].extents, stack[k].iterator, b)

RegisteredApart ==
  \A d, e \in Dirs : \A j \in DOMAIN registered[d], k \in DOMAIN registered[e] :
    registered[d][j] = registered[e][k] => d = e /\ j = k

DirInv == DirTypes /\ Calls /\ MetOnce /\ AllMet /\ Sources /\ BlocksHaveOneOwner

\* As long as the name needs.
LongEnough(t, d, r) ==
  IF r.child > 0
  THEN r.child \in DOMAIN t[d].children /\ r.rec_len >= t[d].children[r.child].len
  ELSE r.rec_len >= EXT4_DOT_DENTRY_SIZE

\* The entries of the block a call is filling, in the directories t.
Filling(t, recs, f) ==
  /\ Len(recs) > 0 /\ \A j \in DOMAIN recs : LongEnough(t, f.dir, recs[j])
  /\ f.position_in_block <= BlockSize /\ Lengths(recs) = f.position_in_block

\* The entries of a block that directory d has, when rec_len can hold a block.
Chain(t, recs, d) ==
  BlockSize < RecLenRange =>
    Lengths(recs) = BlockSize /\ \A j \in DOMAIN recs : LongEnough(t, d, recs[j])

\* What the blocks hold, those being filled and those that were.
Chains ==
  /\ \A k \in DOMAIN stack : Filling(tree, written[stack[k].block], stack[k])
  /\ \A d \in Dirs : \A b \in Blocks(d) : b \in DOMAIN written /\ Chain(tree, written[b], d)

NamesOf(recs) == [k \in DOMAIN recs |-> recs[k].child]

\* The names in blocks, by what is written.
BlockNames(w, blocks) == NamesOf(FlattenSeq([k \in DOMAIN blocks |-> w[blocks[k]]]))

\* The names of the dot entries and the first i children.
UpTo(i) == <<DotName, DotDotName>> \o [k \in 1 .. i |-> k]

\* The links of a directory after its first i entries.
LinksUpTo(t, d, i) ==
  2 + Cardinality({ k \in 1 .. i : t[d].children[k].dir # 0 }) + (IF d = Root THEN 1 ELSE 0)

\* What a call has put, registered and counted so far,
Going(t, w, blocks, l, f) ==
  /\ BlockNames(w, blocks[f.dir]) \o NamesOf(w[f.block]) = UpTo(f.i)
  /\ f.block_count = Len(blocks[f.dir]) + 1
  /\ l[f.dir] = LinksUpTo(t, f.dir, f.i)

\* and a directory has at the end.
Complete(t, w, blocks, l, s, d, more) ==
  /\ BlockNames(w, blocks[d]) = UpTo(Len(t[d].children)) \o more
  /\ s[d] = Len(blocks[d])
  /\ l[d] = LinksUpTo(t, d, Len(t[d].children))

\* The entry of lost+found.
More(d) ==
  IF d = Root /\ pc \in {"lost+found dir", "done"} THEN <<LostFoundName>> ELSE <<>>

Listings ==
  /\ \A k \in DOMAIN stack : Going(tree, written, registered, links, stack[k])
  /\ \A d \in DOMAIN tree : Untouched(d) => links[d] = LinksUpTo(tree, d, 0)
  /\ pc # "exited" =>
       \A d \in DOMAIN tree :
         Finished(d) => Complete(tree, written, registered, links, size, d, More(d))
  /\ links[LostFound] = 2
  /\ pc = "done" => /\ BlockNames(written, registered[LostFound]) = <<DotName, DotDotName>>
                    /\ size[LostFound] = Len(registered[LostFound])

\* What the assumptions say of the directories.
LEMMA DirFacts ==
  ASSUME DirTypes
  PROVE  /\ Root \in DOMAIN tree /\ DOMAIN tree \subseteq Nat \ {0} /\ LostFound \notin DOMAIN tree
         /\ Dirs = DOMAIN tree \cup {LostFound}
         /\ \A d \in DOMAIN tree : SoundExtents(tree, d) /\ SoundChildren(tree, d)
         /\ Free \subseteq Nat \ {0} /\ BlockSize \in Nat /\ BlockSize >= 2 * EXT4_DOT_DENTRY_SIZE
<1>1. tree \in Trees  BY DEF DirTypes
<1>2. /\ Root \in DOMAIN tree /\ DOMAIN tree \subseteq Nat \ {0}
      /\ \A d \in DOMAIN tree : SoundExtents(tree, d) /\ SoundChildren(tree, d)
  BY <1>1, DirBuilderAssumption, Zenon
<1>3. LostFound \notin DOMAIN tree  BY <1>2 DEF LostFound
<1> QED BY <1>2, <1>3, DirBuilderAssumption DEF Dirs

\* What rec_len keeps of a length: all of it, when it fits.
LEMMA Stored ==
  ASSUME NEW n \in Nat
  PROVE  uint16_t(n) \in Nat /\ (n < RecLenRange => uint16_t(n) = n)
<1>1. RecLenRange \in Nat /\ RecLenRange > 0
  BY DirBuilderAssumption DEF EXT4_DOT_DENTRY_SIZE
<1>2. n % RecLenRange \in Nat  BY <1>1
<1>3. n < RecLenRange => n % RecLenRange = n  BY <1>1
<1> QED BY <1>2, <1>3 DEF uint16_t

\* The call f went on with the next entry to g.
MovedTo(t, f, b, it, p, c, g) ==
  /\ g \in FrameRec(t) /\ g.dir = f.dir /\ g.block = b /\ g.iterator = it
  /\ g.i = f.i + 1 /\ g.position_in_block = p /\ g.block_count = c

\* The call that went on is a call.
LEMMA FrameMoved ==
  ASSUME NEW t, NEW f \in FrameRec(t), NEW b \in Nat \ {0}, NEW it \in IteratorRec,
         NEW p \in 0 .. BlockSize, NEW c \in Nat, NEW g,
         g = [f EXCEPT !.block = b, !.iterator = it, !.i = @ + 1, !.position_in_block = p,
                       !.block_count = c]
  PROVE  MovedTo(t, f, b, it, p, c, g)
<1> DEFINE g1 == [f EXCEPT !.block = b]
           g2 == [g1 EXCEPT !.iterator = it]
           g3 == [g2 EXCEPT !.i = @ + 1]
           g4 == [g3 EXCEPT !.position_in_block = p]
           g5 == [g4 EXCEPT !.block_count = c]
<1>1. [f EXCEPT !.block = b, !.iterator = it, !.i = @ + 1, !.position_in_block = p,
                !.block_count = c] = g5
  OBVIOUS
<1>2. g1 \in FrameRec(t) /\ g1.dir = f.dir /\ g1.block = b /\ g1.i = f.i
  BY DEF FrameRec
<1> HIDE DEF g1
<1>3. g2 \in FrameRec(t) /\ g2.dir = f.dir /\ g2.block = b /\ g2.i = f.i /\ g2.iterator = it
  BY <1>2 DEF FrameRec
<1> HIDE DEF g2
<1>4. g3 \in FrameRec(t) /\ g3.dir = f.dir /\ g3.block = b /\ g3.i = f.i + 1 /\ g3.iterator = it
  BY <1>3 DEF FrameRec
<1> HIDE DEF g3
<1>5. /\ g4 \in FrameRec(t) /\ g4.dir = f.dir /\ g4.block = b /\ g4.i = f.i + 1
      /\ g4.iterator = it /\ g4.position_in_block = p
  BY <1>4 DEF FrameRec
<1> HIDE DEF g4
<1>6. /\ g5 \in FrameRec(t) /\ g5.dir = f.dir /\ g5.block = b /\ g5.i = f.i + 1
      /\ g5.iterator = it /\ g5.position_in_block = p /\ g5.block_count = c
  BY <1>5 DEF FrameRec
<1> HIDE DEF g5
<1> QED BY <1>1, <1>6 DEF MovedTo

ExtentsOf == Seq([physical_start : Nat \ {0}, length : Nat \ {0}])

\* next_cluster_no returns a cluster it did not return before, or none.
LEMMA NextCluster ==
  ASSUME NEW exts \in ExtentsOf, NEW it \in IteratorRec,
         \A k, j \in DOMAIN exts : ClustersOf(exts[k]) \cap ClustersOf(exts[j]) # {} => k = j
  PROVE  LET n == next_cluster_no(exts, it)
         IN  /\ n[1] \in Nat /\ n[2] \in IteratorRec
             /\ n[1] # 0 => /\ n[1] \in Clusters(exts)
                            /\ ~ Returned(exts, it, n[1]) /\ Returned(exts, n[2], n[1])
             /\ \A b : Returned(exts, it, b) => Returned(exts, n[2], b)
<1> DEFINE at == Entered(exts, it)
           n == next_cluster_no(exts, it)
<1>1. /\ Len(exts) \in Nat /\ DOMAIN exts = 1 .. Len(exts)
      /\ \A k \in DOMAIN exts : exts[k].physical_start \in Nat \ {0} /\ exts[k].length \in Nat \ {0}
  <2> DEFINE E == [physical_start : Nat \ {0}, length : Nat \ {0}]
  <2>1. exts \in Seq(E)  BY DEF ExtentsOf
  <2>2. \A e \in E : e.physical_start \in Nat \ {0} /\ e.length \in Nat \ {0}  OBVIOUS
  <2> HIDE DEF E
  <2>3. /\ Len(exts) \in Nat /\ DOMAIN exts = 1 .. Len(exts)
        /\ \A k \in DOMAIN exts : exts[k] \in E
    BY <2>1
  <2> QED BY <2>2, <2>3
<1>2. it.extent \in Nat \ {0} /\ it.cluster \in Nat  BY DEF IteratorRec
<1>3. /\ at \in IteratorRec
      /\ \/ at = it /\ (it.extent > Len(exts) \/ it.cluster < exts[it.extent].length)
         \/ at.extent = it.extent + 1 /\ at.cluster = 0
  <2>1. CASE it.extent <= Len(exts) /\ it.cluster >= exts[it.extent].length
    <3>1. at = [extent |-> it.extent + 1, cluster |-> 0]  BY <2>1 DEF Entered, init
    <3> QED BY <1>2, <3>1 DEF IteratorRec
  <2>2. CASE ~ (it.extent <= Len(exts) /\ it.cluster >= exts[it.extent].length)
    <3>1. at = it  BY <2>2 DEF Entered
    <3>2. it.extent > Len(exts) \/ it.cluster < exts[it.extent].length
      <4>1. CASE it.extent > Len(exts)  BY <4>1
      <4>2. CASE ~ (it.extent > Len(exts))
        <5>1. it.extent <= Len(exts) /\ it.extent \in DOMAIN exts  BY <1>1, <1>2, <4>2
        <5>2. exts[it.extent].length \in Nat  BY <1>1, <5>1
        <5> QED BY <1>2, <2>2, <5>1, <5>2
      <4> QED BY <4>1, <4>2
    <3> QED BY <3>1, <3>2
  <2> QED BY <2>1, <2>2
<1>4. at.extent \in Nat \ {0} /\ at.cluster \in Nat  BY <1>3 DEF IteratorRec
<1>5. ASSUME NEW k, NEW c, Behind(it, k, c), k \in Nat, c \in Nat PROVE Behind(at, k, c)
  BY <1>2, <1>3, <1>5 DEF Behind
<1> HIDE DEF at
<1>6. CASE at.extent > Len(exts)
  <2>1. n = <<0, at>>  BY <1>6 DEF next_cluster_no, at
  <2>2. n[1] = 0 /\ n[2] = at  BY <2>1
  <2>3. ASSUME NEW b, Returned(exts, it, b) PROVE Returned(exts, at, b)
    <3>0. PICK k \in DOMAIN exts : \E c \in 0 .. exts[k].length - 1 :
            b = exts[k].physical_start + c /\ Behind(it, k, c)
      BY <2>3 DEF Returned
    <3>1. PICK c \in 0 .. exts[k].length - 1 : b = exts[k].physical_start + c /\ Behind(it, k, c)
      BY <3>0
    <3>2. k \in Nat /\ c \in Nat  BY <1>1
    <3>3. Behind(at, k, c)  BY <1>5, <3>1, <3>2
    <3> QED BY <3>1, <3>3, Zenon DEF Returned
  <2> HIDE DEF n
  <2>4. /\ n[1] \in Nat /\ n[2] \in IteratorRec /\ n[1] = 0
        /\ \A b : Returned(exts, it, b) => Returned(exts, n[2], b)
    BY <1>3, <2>2, <2>3
  <2> QED BY <2>4 DEF n
<1>7. CASE ~ (at.extent > Len(exts))
  <2> DEFINE m == [at EXCEPT !.cluster = @ + 1]
             b0 == exts[at.extent].physical_start + at.cluster
  <2>1. n = <<b0, m>>  BY <1>7 DEF next_cluster_no, at
  <2>2. n[1] = b0 /\ n[2] = m  BY <2>1
  <2>3. at.extent \in DOMAIN exts  BY <1>1, <1>4, <1>7
  <2>4. m \in IteratorRec /\ m.extent = at.extent /\ m.cluster = at.cluster + 1
    BY <1>3 DEF IteratorRec
  <2> HIDE DEF m
  <2>5. at.cluster \in 0 .. exts[at.extent].length - 1
    <3>1. exts[at.extent].length \in Nat \ {0}  BY <1>1, <2>3
    <3>2. at.cluster < exts[at.extent].length  BY <1>1, <1>2, <1>3, <1>4, <1>7, <3>1
    <3> QED BY <1>4, <3>1, <3>2
  <2>6. b0 \in Nat \ {0} /\ b0 \in ClustersOf(exts[at.extent])
    <3>1. exts[at.extent].physical_start \in Nat \ {0} /\ exts[at.extent].length \in Nat
      BY <1>1, <2>3
    <3> QED BY <2>5, <3>1 DEF ClustersOf
  <2>7. b0 \in Clusters(exts)  BY <2>3, <2>6, Zenon DEF Clusters
  <2>8. ~ Returned(exts, it, b0)
    <3> SUFFICES ASSUME NEW k \in DOMAIN exts, NEW c \in 0 .. exts[k].length - 1,
                        b0 = exts[k].physical_start + c, Behind(it, k, c)
                 PROVE  FALSE
      BY Zenon DEF Returned
    <3>1. exts[k].physical_start \in Nat /\ exts[k].length \in Nat  BY <1>1
    <3>2. b0 \in ClustersOf(exts[k])  BY <3>1 DEF ClustersOf
    <3>3. k = at.extent
      <4>1. ClustersOf(exts[k]) \cap ClustersOf(exts[at.extent]) # {}  BY <2>6, <3>2
      <4> QED BY <2>3, <4>1, Zenon
    <3>4. c = at.cluster  BY <1>4, <3>1, <3>3
    <3> QED BY <1>2, <1>3, <1>4, <3>3, <3>4 DEF Behind
  <2>9. Returned(exts, m, b0)
    <3>1. Behind(m, at.extent, at.cluster)  BY <1>4, <2>4 DEF Behind
    <3> QED BY <2>3, <2>5, <3>1, Zenon DEF Returned
  <2>10. ASSUME NEW b, Returned(exts, it, b) PROVE Returned(exts, m, b)
    <3>0. PICK k \in DOMAIN exts : \E c \in 0 .. exts[k].length - 1 :
            b = exts[k].physical_start + c /\ Behind(it, k, c)
      BY <2>10 DEF Returned
    <3>1. PICK c \in 0 .. exts[k].length - 1 : b = exts[k].physical_start + c /\ Behind(it, k, c)
      BY <3>0
    <3>2. k \in Nat /\ c \in Nat  BY <1>1
    <3>3. Behind(at, k, c)  BY <1>5, <3>1, <3>2
    <3>4. Behind(m, k, c)  BY <1>4, <2>4, <3>2, <3>3 DEF Behind
    <3> QED BY <3>1, <3>4, Zenon DEF Returned
  <2> HIDE DEF n, b0
  <2>11. /\ n[1] \in Nat /\ n[2] \in IteratorRec
         /\ n[1] \in Clusters(exts) /\ ~ Returned(exts, it, n[1]) /\ Returned(exts, n[2], n[1])
         /\ \A b : Returned(exts, it, b) => Returned(exts, n[2], b)
    BY <2>2, <2>4, <2>6, <2>7, <2>8, <2>9, <2>10
  <2> QED BY <2>11 DEF n
<1> QED BY <1>6, <1>7

\* The entries of a directory.
LEMMA ChildFacts ==
  ASSUME DirTypes, NEW d \in DOMAIN tree
  PROVE  /\ Len(tree[d].children) \in Nat /\ DOMAIN tree[d].children = 1 .. Len(tree[d].children)
         /\ \A k \in DOMAIN tree[d].children :
              LET c == tree[d].children[k]
              IN  /\ c.len \in Nat /\ EXT4_DOT_DENTRY_SIZE <= c.len /\ c.len <= BlockSize
                  /\ c.dir # 0 =>
                       /\ c.dir \in DOMAIN tree /\ d < c.dir /\ c.dir # Root
                       /\ \A e \in DOMAIN tree : \A j \in DOMAIN tree[e].children :
                            tree[e].children[j].dir = c.dir => d = e /\ k = j
<1> DEFINE E == [len : EXT4_DOT_DENTRY_SIZE .. BlockSize, dir : {0} \cup DOMAIN tree]
           s == tree[d].children
<1>1. /\ s \in Seq(E)
      /\ \A k \in DOMAIN s :
           s[k].dir # 0 =>
             /\ d < s[k].dir
             /\ \A e \in DOMAIN tree : \A j \in DOMAIN tree[e].children :
                  tree[e].children[j].dir = s[k].dir => d = e /\ k = j
  <2>1. SoundChildren(tree, d)  BY DirFacts
  <2> QED BY <2>1, Zenon DEF SoundChildren
<1>2. d \in Nat \ {0} /\ BlockSize \in Nat /\ EXT4_DOT_DENTRY_SIZE \in Nat
  BY DirFacts DEF EXT4_DOT_DENTRY_SIZE
<1>3. \A c \in E : /\ c.len \in Nat /\ EXT4_DOT_DENTRY_SIZE <= c.len /\ c.len <= BlockSize
                   /\ c.dir # 0 => c.dir \in DOMAIN tree
  BY <1>2
<1> HIDE DEF E
<1>4. /\ Len(s) \in Nat /\ DOMAIN s = 1 .. Len(s) /\ \A k \in DOMAIN s : s[k] \in E
  <2> HIDE DEF s
  <2> QED BY <1>1
<1>5. ASSUME NEW k \in DOMAIN s, s[k].dir # 0 PROVE s[k].dir # Root
  <2>1. d < s[k].dir /\ s[k].dir \in DOMAIN tree  BY <1>1, <1>3, <1>4, <1>5, Zenon
  <2> QED BY <1>2, <2>1, DirFacts DEF Root
<1> HIDE DEF s
<1>6. \A k \in DOMAIN s : /\ s[k].len \in Nat /\ EXT4_DOT_DENTRY_SIZE <= s[k].len /\ s[k].len <= BlockSize
                          /\ s[k].dir # 0 => s[k].dir \in DOMAIN tree
  BY <1>3, <1>4, Zenon
<1> QED BY <1>1, <1>4, <1>5, <1>6, Zenon DEF s

\* The clusters of a directory are its own, each in one extent.
LEMMA ClusterFacts ==
  ASSUME DirTypes, NEW d \in DOMAIN tree
  PROVE  /\ tree[d].extents \in ExtentsOf
         /\ \A k, j \in DOMAIN tree[d].extents :
              ClustersOf(tree[d].extents[k]) \cap ClustersOf(tree[d].extents[j]) # {} => k = j
         /\ \A b \in Clusters(tree[d].extents) :
              /\ b \in Nat \ {0} /\ b \notin Free
              /\ \A e \in DOMAIN tree : b \in Clusters(tree[e].extents) => e = d
<1>1. SoundExtents(tree, d)  BY DirFacts
<1>2. /\ tree[d].extents \in ExtentsOf
      /\ \A k \in DOMAIN tree[d].extents :
           /\ ClustersOf(tree[d].extents[k]) \cap Free = {}
           /\ \A e \in DOMAIN tree : \A j \in DOMAIN tree[e].extents :
                ClustersOf(tree[d].extents[k]) \cap ClustersOf(tree[e].extents[j]) # {} => d = e /\ k = j
  BY <1>1, Zenon DEF SoundExtents, ExtentsOf
<1>3. ASSUME NEW b \in Clusters(tree[d].extents)
      PROVE  /\ b \in Nat \ {0} /\ b \notin Free
             /\ \A e \in DOMAIN tree : b \in Clusters(tree[e].extents) => e = d
  <2>1. PICK k \in DOMAIN tree[d].extents : b \in ClustersOf(tree[d].extents[k])
    BY <1>3, Zenon DEF Clusters
  <2>2. b \notin Free
    <3>1. ClustersOf(tree[d].extents[k]) \cap Free = {}  BY <1>2, Zenon
    <3> QED BY <2>1, <3>1
  <2>3. b \in Nat \ {0}
    <3> DEFINE E == [physical_start : Nat \ {0}, length : Nat \ {0}]
    <3>1. tree[d].extents \in Seq(E)  BY <1>2 DEF ExtentsOf
    <3>2. \A e \in E : e.physical_start \in Nat \ {0} /\ e.length \in Nat \ {0}  OBVIOUS
    <3> HIDE DEF E
    <3>3. tree[d].extents[k] \in E  BY <3>1
    <3>4. tree[d].extents[k].physical_start \in Nat \ {0} /\ tree[d].extents[k].length \in Nat
      BY <3>2, <3>3
    <3> QED BY <2>1, <3>4 DEF ClustersOf
  <2>4. ASSUME NEW e \in DOMAIN tree, b \in Clusters(tree[e].extents) PROVE e = d
    <3>1. PICK j \in DOMAIN tree[e].extents : b \in ClustersOf(tree[e].extents[j])
      BY <2>4, Zenon DEF Clusters
    <3>2. ClustersOf(tree[d].extents[k]) \cap ClustersOf(tree[e].extents[j]) # {}
      BY <2>1, <3>1
    <3> QED BY <1>2, <3>2, Zenon
  <2> QED BY <2>2, <2>3, <2>4
<1>4. \A k, j \in DOMAIN tree[d].extents :
        ClustersOf(tree[d].extents[k]) \cap ClustersOf(tree[d].extents[j]) # {} => k = j
  BY <1>2, Zenon
<1> QED BY <1>2, <1>3, <1>4

\* The stack of calls.
LEMMA StackFacts ==
  ASSUME DirTypes
  PROVE  /\ Len(stack) \in Nat /\ DOMAIN stack = 1 .. Len(stack)
         /\ \A k \in DOMAIN stack :
              LET f == stack[k]
              IN  /\ f \in FrameRec(tree) /\ f.dir \in DOMAIN tree /\ f.block \in Nat \ {0}
                  /\ f.iterator \in IteratorRec /\ f.i \in Nat /\ f.position_in_block \in 0 .. BlockSize
                  /\ f.block_count \in Nat
         /\ stack # <<>> => Len(stack) \in DOMAIN stack /\ Len(stack) > 0
<1>1. stack \in Seq(FrameRec(tree))  BY DEF DirTypes
<1>2. \A f \in FrameRec(tree) :
        /\ f.dir \in DOMAIN tree /\ f.block \in Nat \ {0}
        /\ f.iterator \in IteratorRec /\ f.i \in Nat /\ f.position_in_block \in 0 .. BlockSize
        /\ f.block_count \in Nat
  BY DEF FrameRec
<1>3. /\ Len(stack) \in Nat /\ DOMAIN stack = 1 .. Len(stack)
      /\ \A k \in DOMAIN stack : stack[k] \in FrameRec(tree)
      /\ stack # <<>> => Len(stack) \in DOMAIN stack /\ Len(stack) > 0
  BY <1>1
<1> QED BY <1>2, <1>3

\* A block granted now, or a cluster the directory does not have yet, has no owner.
LEMMA FreshBlock ==
  ASSUME DirTypes, Sources, NEW d \in Dirs, NEW b,
         b \in avail \/ (d \in DOMAIN tree /\ b \in Clusters(tree[d].extents) /\ ~ Owns(d, b))
  PROVE  b \in Nat \ {0} /\ \A e \in Dirs : ~ Owns(e, b)
<1>1. avail \subseteq Free /\ Free \subseteq Nat \ {0}  BY DirFacts DEF DirTypes
<1>2. b \in Nat \ {0}  BY <1>1, ClusterFacts
<1>3. ASSUME NEW e \in Dirs, Owns(e, b) PROVE FALSE
  <2>1. b \in Free \ avail \/ (e \in DOMAIN tree /\ b \in Clusters(tree[e].extents))
    BY <1>3, Zenon DEF Sources
  <2>2. CASE b \in avail
    <3>1. b \in Free /\ e \in DOMAIN tree /\ b \in Clusters(tree[e].extents)  BY <1>1, <2>1, <2>2
    <3> QED BY <3>1, ClusterFacts
  <2>3. CASE d \in DOMAIN tree /\ b \in Clusters(tree[d].extents) /\ ~ Owns(d, b)
    <3>1. b \notin Free /\ \A x \in DOMAIN tree : b \in Clusters(tree[x].extents) => x = d
      BY <2>3, ClusterFacts
    <3>2. e = d  BY <2>1, <3>1
    <3> QED BY <1>3, <2>3, <3>2
  <2> QED BY <2>2, <2>3
<1> QED BY <1>2, <1>3

\* next_dir_block: the next cluster or a block of the allocator.
LEMMA BlockForFacts ==
  ASSUME DirTypes, NEW d \in DOMAIN tree, NEW it \in IteratorRec, NEW n,
         n = BlockFor(tree[d].extents, it), n[1] # NoBlock
  PROVE  /\ n[2] \in IteratorRec
         /\ \A b : Returned(tree[d].extents, it, b) => Returned(tree[d].extents, n[2], b)
         /\ \/ n[1] \in avail
            \/ /\ n[1] \in Clusters(tree[d].extents) /\ ~ Returned(tree[d].extents, it, n[1])
               /\ Returned(tree[d].extents, n[2], n[1])
<1> DEFINE exts == tree[d].extents
           c == next_cluster_no(exts, it)
<1>1. /\ c[1] \in Nat /\ c[2] \in IteratorRec
      /\ c[1] # 0 => /\ c[1] \in Clusters(exts)
                     /\ ~ Returned(exts, it, c[1]) /\ Returned(exts, c[2], c[1])
      /\ \A b : Returned(exts, it, b) => Returned(exts, c[2], b)
  BY ClusterFacts, NextCluster, Zenon
<1>2. n = IF c[1] # 0 THEN c ELSE <<IF avail = {} THEN NoBlock ELSE Min(avail), c[2]>>
  BY Zenon DEF BlockFor
<1> HIDE DEF c
<1>3. CASE c[1] # 0
  <2>1. n = c  BY <1>2, <1>3
  <2> HIDE DEF exts
  <2>2. /\ n[2] \in IteratorRec /\ \A b : Returned(exts, it, b) => Returned(exts, n[2], b)
        /\ n[1] \in Clusters(exts) /\ ~ Returned(exts, it, n[1]) /\ Returned(exts, n[2], n[1])
    BY <1>1, <1>3, <2>1
  <2> QED BY <2>2 DEF exts
<1>4. CASE c[1] = 0
  <2>1. n = <<IF avail = {} THEN NoBlock ELSE Min(avail), c[2]>>  BY <1>2, <1>4
  <2>2. n[1] = (IF avail = {} THEN NoBlock ELSE Min(avail)) /\ n[2] = c[2]  BY <2>1
  <2>3. avail # {} /\ n[1] = Min(avail)  BY <2>2
  <2>4. avail \subseteq Nat  BY DirFacts DEF DirTypes
  <2>5. n[1] \in avail  BY <2>3, <2>4, MinFacts, Zenon
  <2> HIDE DEF exts
  <2>6. n[2] \in IteratorRec /\ \A b : Returned(exts, it, b) => Returned(exts, n[2], b)
    BY <1>1, <2>2
  <2> QED BY <2>5, <2>6 DEF exts
<1> QED BY <1>3, <1>4

\* The directory to build next was not met before.
LEMMA CalleeFacts ==
  ASSUME DirTypes, Calls, MetOnce, pc = "call"
  PROVE  /\ Callee \in DOMAIN tree /\ Untouched(Callee)
         /\ stack = <<>> => Callee = Root
         /\ stack # <<>> => /\ Top.dir \in DOMAIN tree /\ Top.i \in DOMAIN tree[Top.dir].children
                            /\ tree[Top.dir].children[Top.i].dir = Callee /\ Callee # 0
<1>1. CASE stack = <<>>
  <2>1. Callee = Root  BY <1>1 DEF Callee
  <2> QED BY <1>1, <2>1, DirFacts DEF Calls
<1>2. CASE stack # <<>>
  <2>1. /\ Top.i \in DOMAIN tree[Top.dir].children /\ tree[Top.dir].children[Top.i].dir # 0
        /\ Callee = tree[Top.dir].children[Top.i].dir
    BY <1>2 DEF Calls, Callee
  <2>2. Len(stack) \in DOMAIN stack /\ Top.dir \in DOMAIN tree  BY <1>2, StackFacts DEF Top
  <2>3. Callee \in DOMAIN tree  BY <2>1, <2>2, ChildFacts
  <2>4. ToCome(Top.dir, Top.i)  BY <2>2 DEF ToCome, Top
  <2>5. Untouched(Callee)  BY <2>1, <2>2, <2>3, <2>4, Zenon DEF MetOnce
  <2> QED BY <1>2, <2>1, <2>2, <2>3, <2>5
<1> QED BY <1>1, <1>2

\* A step that neither meets a directory nor passes the entry of one.
LEMMA MetKept ==
  ASSUME MetOnce, PassedMet, tree' = tree, pc # "exited" \/ pc' = "exited",
         \A d \in DOMAIN tree : Untouched(d)' <=> Untouched(d),
         \A p, d \in DOMAIN tree : \A k \in DOMAIN tree[p].children :
           tree[p].children[k].dir = d =>
             /\ ToCome(p, k)' => ToCome(p, k)
             /\ pc' # "exited" /\ ToCome(p, k) => ToCome(p, k)'
  PROVE  MetOnce' /\ PassedMet'
<1>1. MetOnce'
  <2> SUFFICES ASSUME NEW p \in DOMAIN tree, NEW d \in DOMAIN tree, NEW k \in DOMAIN tree[p].children,
                      tree[p].children[k].dir = d, ToCome(p, k)'
               PROVE  Untouched(d)'
    BY Zenon DEF MetOnce
  <2>1. ToCome(p, k)  BY Zenon
  <2>2. Untouched(d)  BY <2>1, Zenon DEF MetOnce
  <2> QED BY <2>2, Zenon
<1>2. PassedMet'
  <2> SUFFICES ASSUME pc' # "exited",
                      NEW p \in DOMAIN tree, NEW d \in DOMAIN tree, NEW k \in DOMAIN tree[p].children,
                      tree[p].children[k].dir = d, Untouched(d)'
               PROVE  ToCome(p, k)'
    BY Zenon DEF PassedMet
  <2>1. Untouched(d)  BY Zenon
  <2>2. ToCome(p, k)  BY <2>1, Zenon DEF PassedMet
  <2> QED BY <2>2, Zenon
<1> QED BY <1>1, <1>2

\* register_dir_extent of a block that has no owner, or the block being filled.
LEMMA BlocksAppended ==
  ASSUME DirTypes, NEW d \in Dirs, NEW x \in Nat \ {0}, tree' = tree,
         registered' = [registered EXCEPT ![d] = Append(@, x)]
  PROVE  /\ Dirs' = Dirs /\ registered' \in [Dirs -> Seq(Nat \ {0})]
         /\ \A e \in Dirs : Blocks(e)' = Blocks(e) \cup (IF e = d THEN {x} ELSE {})
         /\ registered'[d] # <<>> /\ \A e \in Dirs \ {d} : registered'[e] = registered[e]
         /\ RegisteredApart /\ (\A e \in Dirs : x \notin Blocks(e)) => RegisteredApart'
<1>1. registered \in [Dirs -> Seq(Nat \ {0})]  BY DEF DirTypes
<1>2. Dirs' = Dirs  BY DEF Dirs
<1> DEFINE s == registered[d]
<1>3. s \in Seq(Nat \ {0}) /\ registered'[d] = Append(s, x)  BY <1>1
<1>4. \A e \in Dirs \ {d} : registered'[e] = registered[e]  BY <1>1
<1>5. registered' \in [Dirs -> Seq(Nat \ {0})]
  <2>1. Append(s, x) \in Seq(Nat \ {0})  BY <1>3
  <2> QED BY <1>1, <2>1
<1> HIDE DEF s
<1>6. /\ DOMAIN Append(s, x) = DOMAIN s \cup {Len(s) + 1} /\ DOMAIN s = 1 .. Len(s) /\ Len(s) \in Nat
      /\ Append(s, x)[Len(s) + 1] = x /\ \A k \in DOMAIN s : Append(s, x)[k] = s[k]
      /\ Append(s, x) # <<>>
  BY <1>3
<1>7. ASSUME NEW e \in Dirs PROVE Blocks(e)' = Blocks(e) \cup (IF e = d THEN {x} ELSE {})
  <2>1. CASE e = d
    <3>1. Blocks(d)' = { Append(s, x)[k] : k \in DOMAIN Append(s, x) }  BY <1>3 DEF Blocks
    <3>2. Blocks(d) = { s[k] : k \in DOMAIN s }  BY DEF Blocks, s
    <3> QED BY <1>6, <2>1, <3>1, <3>2
  <2>2. CASE e # d
    <3>1. registered'[e] = registered[e]  BY <1>4, <2>2
    <3> QED BY <2>2, <3>1 DEF Blocks
  <2> QED BY <2>1, <2>2
<1>8. ASSUME \A e \in Dirs : x \notin Blocks(e), RegisteredApart,
             NEW e \in Dirs, NEW h \in Dirs, NEW j \in DOMAIN registered'[e],
             NEW k \in DOMAIN registered'[h], registered'[e][j] = registered'[h][k]
      PROVE  e = h /\ j = k
  <2>1. ASSUME NEW z \in Dirs, NEW i \in DOMAIN registered'[z]
        PROVE  \/ /\ i \in DOMAIN registered[z] /\ registered'[z][i] = registered[z][i]
                  /\ registered[z][i] \in Blocks(z)
               \/ z = d /\ i = Len(s) + 1 /\ registered'[z][i] = x
    <3>1. CASE z = d  BY <1>3, <1>6, <2>1, <3>1 DEF Blocks, s
    <3>2. CASE z # d  BY <1>4, <2>1, <3>2 DEF Blocks
    <3> QED BY <3>1, <3>2
  <2>2. \/ j \in DOMAIN registered[e] /\ registered'[e][j] = registered[e][j] /\ registered[e][j] \in Blocks(e)
        \/ e = d /\ j = Len(s) + 1 /\ registered'[e][j] = x
    BY <1>8, <2>1, Zenon
  <2>3. \/ k \in DOMAIN registered[h] /\ registered'[h][k] = registered[h][k] /\ registered[h][k] \in Blocks(h)
        \/ h = d /\ k = Len(s) + 1 /\ registered'[h][k] = x
    BY <1>8, <2>1, Zenon
  <2>4. CASE /\ j \in DOMAIN registered[e] /\ registered'[e][j] = registered[e][j]
             /\ k \in DOMAIN registered[h] /\ registered'[h][k] = registered[h][k]
    <3>1. registered[e][j] = registered[h][k]  BY <1>8, <2>4
    <3>2. j \in DOMAIN registered[e] /\ k \in DOMAIN registered[h] /\ RegisteredApart  BY <1>8, <2>4
    <3> QED BY <3>1, <3>2 DEF RegisteredApart
  <2> QED BY <1>8, <2>2, <2>3, <2>4
<1> HIDE DEF s
<1>9. registered'[d] # <<>>  BY <1>3, <1>6
<1>10. ASSUME RegisteredApart, \A e \in Dirs : x \notin Blocks(e) PROVE RegisteredApart'
  <2>1. \A e, h \in Dirs : \A j \in DOMAIN registered'[e], k \in DOMAIN registered'[h] :
          registered'[e][j] = registered'[h][k] => e = h /\ j = k
    BY <1>8, <1>10, Zenon
  <2> QED BY <1>2, <2>1 DEF RegisteredApart
<1> QED BY <1>2, <1>4, <1>5, <1>7, <1>9, <1>10

\* w is v with other entries in block b.
PutOf(v, b, recs, w) ==
  /\ DOMAIN w = DOMAIN v \cup {b} /\ w \in [DOMAIN w -> Seq(EntryRec)]
  /\ w[b] = recs /\ \A x \in DOMAIN v \ {b} : w[x] = v[x]

\* Entries are put into a block.
LEMMA PutEntries ==
  ASSUME NEW v, NEW b, NEW recs, recs \in Seq(EntryRec), v \in [DOMAIN v -> Seq(EntryRec)],
         NEW w, w = Put(v, b, recs)
  PROVE  PutOf(v, b, recs, w)
<1> DEFINE T == Seq(EntryRec)
<1>1. v \in [DOMAIN v -> T] /\ recs \in T  OBVIOUS
<1> HIDE DEF T
<1>2. DOMAIN w = DOMAIN v \cup {b} /\ w \in [DOMAIN w -> T] /\ w[b] = recs
  BY <1>1 DEF Put
<1>3. \A x \in DOMAIN v \ {b} : w[x] = v[x]  BY DEF Put
<1> QED BY <1>2, <1>3 DEF T, PutOf

\* The two dot entries.
LEMMA DotDirsFacts ==
  /\ DotDirs \in Seq(EntryRec) /\ Len(DotDirs) = 2 /\ DOMAIN DotDirs = 1 .. 2
  /\ DotDirs[1] = Dot(DotName) /\ DotDirs[2] = Dot(DotDotName)
  /\ Dot(DotName) \in EntryRec /\ Dot(DotDotName) \in EntryRec
<1>1. Dot(DotName) \in EntryRec /\ Dot(DotDotName) \in EntryRec
  BY DEF Dot, DotName, DotDotName, EntryRec, EXT4_DOT_DENTRY_SIZE
<1> DEFINE x == Dot(DotName)
           y == Dot(DotDotName)
<1>2. DotDirs = <<x, y>>  BY DEF DotDirs
<1> HIDE DEF x, y
<1>3. x \in EntryRec /\ y \in EntryRec  BY <1>1 DEF x, y
<1>4. <<x, y>> \in Seq(EntryRec) /\ Len(<<x, y>>) = 2 /\ DOMAIN <<x, y>> = 1 .. 2
      /\ <<x, y>>[1] = x /\ <<x, y>>[2] = y
  BY <1>3
<1> QED BY <1>1, <1>2, <1>4 DEF x, y

\* The new call of build_ext4_metadata_tree is the last of the stack.
LEMMA EnterFrame ==
  ASSUME DirInv, Enter
  PROVE  \E n : \E f \in FrameRec(tree) :
           /\ n = BlockFor(tree[Callee].extents, init(1)) /\ n[1] # NoBlock
           /\ f.dir = Callee /\ f.block = n[1] /\ f.iterator = n[2] /\ f.i = 0
           /\ f.position_in_block = 2 * EXT4_DOT_DENTRY_SIZE /\ f.block_count = 1
           /\ stack' = Append(stack, f)
           /\ n[1] \in Nat \ {0} /\ \A e \in Dirs : ~ Owns(e, n[1])
<1> DEFINE n == BlockFor(tree[Callee].extents, init(1))
           f == Call(Callee, n[1], n[2])
<1>1. DirTypes /\ Calls /\ MetOnce /\ Sources /\ pc = "call" /\ n[1] # NoBlock
      /\ stack' = Append(stack, f)
  BY DEF DirInv, Enter
<1>2. Callee \in DOMAIN tree /\ Untouched(Callee)  BY <1>1, CalleeFacts
<1>3. init(1) \in IteratorRec  BY DEF init, IteratorRec
<1>4. n[2] \in IteratorRec /\ (n[1] \in avail \/ n[1] \in Clusters(tree[Callee].extents))
  <2> HIDE DEF n
  <2>1. n = BlockFor(tree[Callee].extents, init(1))  BY DEF n
  <2> QED BY <1>1, <1>2, <1>3, <2>1, BlockForFacts
<1> HIDE DEF n
<1>5. ~ Owns(Callee, n[1])
  <2>1. registered[Callee] = <<>> /\ \A k \in DOMAIN stack : stack[k].dir # Callee
    BY <1>2 DEF Untouched
  <2>2. Blocks(Callee) = {}  BY <2>1 DEF Blocks
  <2> QED BY <2>1, <2>2 DEF Owns
<1>6. Callee \in Dirs  BY <1>2 DEF Dirs
<1>7. n[1] \in Nat \ {0} /\ \A e \in Dirs : ~ Owns(e, n[1])
  BY <1>1, <1>2, <1>4, <1>5, <1>6, FreshBlock
<1>8. /\ f \in FrameRec(tree) /\ f.dir = Callee /\ f.block = n[1] /\ f.iterator = n[2] /\ f.i = 0
      /\ f.position_in_block = 2 * EXT4_DOT_DENTRY_SIZE /\ f.block_count = 1
  <2>1. 2 * EXT4_DOT_DENTRY_SIZE \in 0 .. BlockSize
    BY <1>1, DirFacts DEF EXT4_DOT_DENTRY_SIZE
  <2>2. f = [dir |-> Callee, block |-> n[1], iterator |-> n[2], i |-> 0,
             position_in_block |-> 2 * EXT4_DOT_DENTRY_SIZE, block_count |-> 1]
    BY DEF Call
  <2> HIDE DEF f
  <2> QED BY <1>2, <1>4, <1>7, <2>1, <2>2 DEF FrameRec
<1> HIDE DEF f
<1>9. n = BlockFor(tree[Callee].extents, init(1))  BY DEF n
<1> QED BY <1>1, <1>7, <1>8, <1>9

\* A directory is entered.
LEMMA EnterStep ==
  ASSUME DirInv, Enter
  PROVE  DirInv'
<1>1. /\ DirTypes /\ Calls /\ MetOnce /\ AllMet /\ Sources /\ BlocksHaveOneOwner
      /\ pc = "call" /\ pc' = "loop" /\ UNCHANGED <<tree, registered, links, size>>
  BY DEF DirInv, Enter
<1>2. PICK n : \E f \in FrameRec(tree) :
           /\ n = BlockFor(tree[Callee].extents, init(1)) /\ n[1] # NoBlock
           /\ f.dir = Callee /\ f.block = n[1] /\ f.iterator = n[2] /\ f.i = 0
           /\ f.position_in_block = 2 * EXT4_DOT_DENTRY_SIZE /\ f.block_count = 1
           /\ stack' = Append(stack, f)
           /\ n[1] \in Nat \ {0} /\ \A e \in Dirs : ~ Owns(e, n[1])
  BY EnterFrame, Zenon
<1>3. PICK f \in FrameRec(tree) :
           /\ n = BlockFor(tree[Callee].extents, init(1)) /\ n[1] # NoBlock
           /\ f.dir = Callee /\ f.block = n[1] /\ f.iterator = n[2] /\ f.i = 0
           /\ f.position_in_block = 2 * EXT4_DOT_DENTRY_SIZE /\ f.block_count = 1
           /\ stack' = Append(stack, f)
           /\ n[1] \in Nat \ {0} /\ \A e \in Dirs : ~ Owns(e, n[1])
  BY <1>2, Zenon
<1> DEFINE c == Callee
           b == n[1]
           L == Len(stack)
<1>4. avail' = avail \ {b} /\ written' = Put(written, b, DotDirs)
  BY <1>3, Zenon DEF Enter
<1>5. /\ c \in DOMAIN tree /\ Untouched(c) /\ c \in Dirs
      /\ stack = <<>> => c = Root
      /\ stack # <<>> => /\ Top.dir \in DOMAIN tree /\ Top.i \in DOMAIN tree[Top.dir].children
                         /\ tree[Top.dir].children[Top.i].dir = c /\ c # 0
  BY <1>1, CalleeFacts DEF Dirs
<1> HIDE DEF c, b
<1>6. /\ DOMAIN stack' = DOMAIN stack \cup {L + 1} /\ DOMAIN stack = 1 .. L /\ L \in Nat
      /\ Len(stack') = L + 1 /\ stack'[L + 1] = f /\ stack' # <<>>
      /\ \A k \in DOMAIN stack : stack'[k] = stack[k] /\ k # L + 1
      /\ stack' \in Seq(FrameRec(tree))
  <2>1. stack \in Seq(FrameRec(tree))  BY <1>1 DEF DirTypes
  <2> QED BY <1>3, <2>1
<1> HIDE DEF L
<1>7. \A k \in DOMAIN stack : stack[k].dir # c  BY <1>5 DEF Untouched
<1>8. f.dir = c /\ f.block = b /\ f.iterator = n[2] /\ f.i = 0 /\ b \in Nat \ {0}
      /\ \A e \in Dirs : ~ Owns(e, b)
  BY <1>3 DEF c, b
<1>9. Dirs' = Dirs /\ \A e : Blocks(e)' = Blocks(e)  BY <1>1 DEF Dirs, Blocks
<1>10. \A e, x : Owns(e, x)' <=> Owns(e, x) \/ (e = c /\ x = b)
  BY <1>6, <1>8, <1>9 DEF Owns
<1>11. DirTypes'
  <2>1. written' \in [DOMAIN written' -> Seq(EntryRec)] /\ DOMAIN written' = DOMAIN written \cup {b}
    <3>1. written \in [DOMAIN written -> Seq(EntryRec)]  BY <1>1 DEF DirTypes
    <3>2. DotDirs \in Seq(EntryRec)  BY DotDirsFacts
    <3>3. PutOf(written, b, DotDirs, written')  BY <1>4, <3>1, <3>2, PutEntries, Zenon
    <3> QED BY <3>3 DEF PutOf
  <2>2. \A k \in DOMAIN stack' : stack'[k].block \in DOMAIN written'
    BY <1>1, <1>6, <1>8, <2>1 DEF DirTypes
  <2> QED BY <1>1, <1>4, <1>6, <1>9, <2>1, <2>2 DEF DirTypes
<1>12. Calls'
  <2>1. \A j, k \in DOMAIN stack' : stack'[j].dir = stack'[k].dir => j = k
    BY <1>1, <1>6, <1>7, <1>8 DEF Calls
  <2>2. \A k \in DOMAIN stack' : stack'[k].i <= Len(tree'[stack'[k].dir].children)
    <3>1. 0 <= Len(tree[c].children)  BY <1>1, <1>5, ChildFacts
    <3>2. \A k \in DOMAIN stack : stack[k].i <= Len(tree[stack[k].dir].children)
      BY <1>1 DEF Calls
    <3> QED BY <1>1, <1>6, <1>8, <3>1, <3>2
  <2> QED BY <1>1, <1>6, <2>1, <2>2 DEF Calls
<1>13. \A d \in DOMAIN tree : Untouched(d)' <=> Untouched(d) /\ d # c
  BY <1>1, <1>6, <1>7, <1>8 DEF Untouched
<1>14. \A p \in DOMAIN tree : \A k \in DOMAIN tree[p].children :
         ToCome(p, k)' <=> /\ ToCome(p, k)
                           /\ stack # <<>> => ~ (p = Top.dir /\ k = Top.i)
  <2> SUFFICES ASSUME NEW p \in DOMAIN tree, NEW k \in DOMAIN tree[p].children
               PROVE  ToCome(p, k)' <=> /\ ToCome(p, k)
                                        /\ stack # <<>> => ~ (p = Top.dir /\ k = Top.i)
    OBVIOUS
  <2>0. k \in Nat \ {0}  BY <1>1, ChildFacts
  <2>1. CASE p = c
    <3>1. ToCome(p, k)'
      <4>1. L + 1 \in DOMAIN stack' /\ stack'[L + 1].dir = p /\ stack'[L + 1].i < k
        BY <1>6, <1>8, <2>0, <2>1
      <4> QED BY <4>1 DEF ToCome
    <3>2. ToCome(p, k)  BY <1>5, <2>1 DEF ToCome
    <3>3. stack # <<>> => p # Top.dir
      BY <1>1, <1>7, <2>1, StackFacts DEF Top
    <3> QED BY <3>1, <3>2, <3>3
  <2>2. CASE p # c
    <3>1. ToCome(p, k)' <=> Untouched(p) \/ \E j \in DOMAIN stack : stack[j].dir = p /\ stack[j].i < k
      <4>1. Untouched(p)' <=> Untouched(p)  BY <1>13, <2>2
      <4> QED BY <1>1, <1>6, <1>8, <2>2, <4>1 DEF ToCome
    <3>2. ASSUME stack # <<>>, p = Top.dir, k = Top.i PROVE ~ ToCome(p, k)'
      <4>1. Len(stack) \in DOMAIN stack /\ Top = stack[Len(stack)] /\ Top.i \in Nat
        BY <1>1, <3>2, StackFacts DEF Top
      <4>2. ~ Untouched(p)  BY <3>2, <4>1 DEF Untouched
      <4>3. ASSUME NEW j \in DOMAIN stack, stack[j].dir = p PROVE ~ (stack[j].i < k)
        <5>1. j = Len(stack)  BY <1>1, <3>2, <4>1, <4>3 DEF Calls
        <5> QED BY <3>2, <4>1, <5>1
      <4> QED BY <3>1, <4>2, <4>3
    <3>3. ASSUME ToCome(p, k), ~ (stack # <<>> /\ p = Top.dir /\ k = Top.i) PROVE ToCome(p, k)'
      <4>1. ASSUME NEW j \in DOMAIN stack, stack[j].dir = p, stack[j].i = k, j = Len(stack)
            PROVE  FALSE
        <5>1. stack # <<>> /\ Top = stack[j]  BY <1>1, <4>1, StackFacts DEF Top
        <5> QED BY <3>3, <4>1, <5>1
      <4> QED BY <3>1, <3>3, <4>1 DEF ToCome
    <3>4. ToCome(p, k)' => ToCome(p, k)  BY <3>1 DEF ToCome
    <3> QED BY <3>2, <3>3, <3>4
  <2> QED BY <2>1, <2>2
<1>15. MetOnce'
  <2> SUFFICES ASSUME NEW p \in DOMAIN tree, NEW d \in DOMAIN tree, NEW k \in DOMAIN tree[p].children,
                      tree[p].children[k].dir = d, ToCome(p, k)'
               PROVE  Untouched(d)'
    BY <1>1 DEF MetOnce
  <2>1. ToCome(p, k) /\ (stack # <<>> => ~ (p = Top.dir /\ k = Top.i))  BY <1>14
  <2>2. Untouched(d)  BY <1>1, <2>1, Zenon DEF MetOnce
  <2>3. d # c
    <3>1. d \in Nat \ {0}  BY <1>1, DirFacts
    <3>2. CASE stack = <<>>
      <4>1. tree[p].children[k].dir # Root  BY <1>1, <3>1, ChildFacts
      <4> QED BY <1>5, <3>2, <4>1
    <3>3. CASE stack # <<>>
      <4>1. ASSUME d = c PROVE FALSE
        <5>1. /\ Top.dir \in DOMAIN tree /\ Top.i \in DOMAIN tree[Top.dir].children
              /\ tree[Top.dir].children[Top.i].dir = d /\ d # 0
          BY <1>5, <3>3, <4>1
        <5>2. Top.dir = p /\ Top.i = k  BY <1>1, <5>1, ChildFacts
        <5> QED BY <2>1, <3>3, <5>2
      <4> QED BY <4>1
    <3> QED BY <3>2, <3>3
  <2> QED BY <1>13, <2>2, <2>3
<1>16. AllMet'
  <2>1. PassedMet'
    <3> SUFFICES ASSUME NEW p \in DOMAIN tree, NEW d \in DOMAIN tree, NEW k \in DOMAIN tree[p].children,
                        tree[p].children[k].dir = d, Untouched(d)'
                 PROVE  ToCome(p, k)'
      BY <1>1 DEF PassedMet
    <3>1. Untouched(d) /\ d # c  BY <1>13
    <3>2. PassedMet  BY <1>1 DEF AllMet
    <3>3. pc # "exited"  BY <1>1
    <3>4. ToCome(p, k)  BY <3>1, <3>2, <3>3, Zenon DEF PassedMet
    <3>5. stack # <<>> => ~ (p = Top.dir /\ k = Top.i)  BY <1>5, <3>1
    <3> QED BY <1>14, <3>4, <3>5
  <2>2. ~ Untouched(Root)'
    <3>1. Root \in DOMAIN tree  BY <1>1, DirFacts
    <3>2. stack # <<>> => ~ Untouched(Root)  BY <1>1 DEF AllMet
    <3> QED BY <1>5, <1>13, <3>1, <3>2
  <2> QED BY <1>1, <2>1, <2>2 DEF AllMet
<1>17. Sources'
  <2>1. ASSUME NEW d \in Dirs, NEW x, Owns(d, x)'
        PROVE  \/ x \in Free \ avail'
               \/ d \in DOMAIN tree /\ x \in Clusters(tree[d].extents)
    <3>1. CASE Owns(d, x)
      <4>1. x \in Free \ avail \/ (d \in DOMAIN tree /\ x \in Clusters(tree[d].extents))
        BY <1>1, <3>1, Zenon DEF Sources
      <4> QED BY <1>4, <4>1
    <3>2. CASE d = c /\ x = b
      <4>1. b \in avail \/ b \in Clusters(tree[c].extents)
        <5>1. init(1) \in IteratorRec  BY DEF init, IteratorRec
        <5>2. n = BlockFor(tree[c].extents, init(1)) /\ n[1] # NoBlock  BY <1>3 DEF c
        <5> QED BY <1>1, <1>5, <5>1, <5>2, BlockForFacts DEF b
      <4>2. avail \subseteq Free  BY <1>1 DEF DirTypes
      <4> QED BY <1>4, <1>5, <3>2, <4>1, <4>2
    <3> QED BY <1>10, <2>1, <3>1, <3>2
  <2>2. ASSUME NEW d \in DOMAIN tree, NEW x \in Clusters(tree[d].extents), NEW k \in DOMAIN stack',
               stack'[k].dir = d, Owns(d, x)'
        PROVE  Returned(tree[d].extents, stack'[k].iterator, x)
    <3>1. CASE k \in DOMAIN stack
      <4>1. stack'[k] = stack[k] /\ d # c /\ stack[k].dir = d  BY <1>6, <1>7, <2>2, <3>1
      <4>2. Owns(d, x)  BY <1>10, <2>2, <4>1
      <4> QED BY <1>1, <3>1, <4>1, <4>2 DEF Sources
    <3>2. CASE k = L + 1
      <4>1. d = c /\ stack'[k].iterator = n[2]  BY <1>6, <1>8, <2>2, <3>2
      <4>2. ~ Owns(c, x)
        <5>1. registered[c] = <<>>  BY <1>5 DEF Untouched
        <5>2. Blocks(c) = {}  BY <5>1 DEF Blocks
        <5> QED BY <1>7, <5>2 DEF Owns
      <4>3. x = b  BY <1>10, <2>2, <4>1, <4>2
      <4>4. Returned(tree[c].extents, n[2], b)
        <5>1. init(1) \in IteratorRec  BY DEF init, IteratorRec
        <5>2. n = BlockFor(tree[c].extents, init(1)) /\ n[1] # NoBlock  BY <1>3 DEF c
        <5>3. b \notin avail
          <6>1. x \notin Free  BY <1>1, ClusterFacts
          <6> QED BY <1>1, <4>3, <6>1 DEF DirTypes
        <5> QED BY <1>1, <1>5, <5>1, <5>2, <5>3, BlockForFacts DEF b
      <4> QED BY <4>1, <4>3, <4>4
    <3> QED BY <1>6, <3>1, <3>2
  <2> QED BY <1>1, <1>9, <2>1, <2>2 DEF Sources
<1>18. BlocksHaveOneOwner'
  <2>1. RegisteredApart'
    BY <1>1, <1>9 DEF BlocksHaveOneOwner, RegisteredApart
  <2>2. ASSUME NEW k \in DOMAIN stack PROVE stack[k].block # b
    <3>1. stack[k].dir \in Dirs  BY <1>1, StackFacts DEF Dirs
    <3>2. Owns(stack[k].dir, stack[k].block)  BY DEF Owns
    <3> QED BY <1>8, <3>1, <3>2
  <2>3. \A j, k \in DOMAIN stack' : stack'[j].block = stack'[k].block => j = k
    BY <1>1, <1>6, <1>8, <2>2 DEF BlocksHaveOneOwner
  <2>4. \A d \in Dirs : \A k \in DOMAIN stack' : stack'[k].block \notin Blocks(d)
    <3>1. \A d \in Dirs : b \notin Blocks(d)  BY <1>8 DEF Owns
    <3> QED BY <1>1, <1>6, <1>8, <3>1 DEF BlocksHaveOneOwner
  <2> QED BY <1>9, <2>1, <2>3, <2>4, Zenon DEF BlocksHaveOneOwner, RegisteredApart
<1> QED BY <1>11, <1>12, <1>15, <1>16, <1>17, <1>18, Zenon DEF DirInv

\* The entry to put next.
LEMMA NextChild ==
  ASSUME DirTypes, Calls, pc = "loop", MoreChildren
  PROVE  /\ stack # <<>> /\ Len(stack) \in DOMAIN stack /\ Top = stack[Len(stack)]
         /\ Top \in FrameRec(tree) /\ Top.dir \in DOMAIN tree /\ Top.i \in Nat
         /\ Top.i + 1 \in DOMAIN tree[Top.dir].children /\ Top.i + 1 <= Len(tree[Top.dir].children)
         /\ tree[Top.dir].children[Top.i + 1].len \in 0 .. BlockSize
<1>1. stack # <<>>  BY DEF Calls
<1>2. /\ Len(stack) \in DOMAIN stack /\ Top = stack[Len(stack)]
      /\ Top \in FrameRec(tree) /\ Top.dir \in DOMAIN tree /\ Top.i \in Nat
  BY <1>1, StackFacts DEF Top
<1> DEFINE s == tree[Top.dir].children
<1>3. /\ Len(s) \in Nat /\ DOMAIN s = 1 .. Len(s)
      /\ \A k \in DOMAIN s : s[k].len \in Nat /\ s[k].len <= BlockSize
  BY <1>2, ChildFacts
<1>4. Top.i < Len(s)  BY DEF MoreChildren
<1> HIDE DEF s
<1>5. Top.i + 1 \in DOMAIN s /\ Top.i + 1 <= Len(s)  BY <1>2, <1>3, <1>4
<1>6. s[Top.i + 1].len \in 0 .. BlockSize
  <2>1. BlockSize \in Nat  BY DirFacts
  <2>2. s[Top.i + 1].len \in Nat /\ s[Top.i + 1].len <= BlockSize  BY <1>3, <1>5
  <2> QED BY <2>1, <2>2
<1> QED BY <1>1, <1>2, <1>5, <1>6 DEF s

\* Ranges from 1 that are the same have the same end.
LEMMA SameRange ==
  ASSUME NEW a \in Nat, NEW b \in Nat, 1 .. a = 1 .. b
  PROVE  a = b
<1>1. a > 0 => a \in 1 .. b
  <2>1. a > 0 => a \in 1 .. a  OBVIOUS
  <2> QED BY <2>1
<1>2. b > 0 => b \in 1 .. a
  <2>1. b > 0 => b \in 1 .. b  OBVIOUS
  <2> QED BY <2>1
<1>3. (a > 0 => a <= b) /\ (b > 0 => b <= a)  BY <1>1, <1>2
<1> QED BY <1>3

\* The last entries of a block are filled up.
LEMMA FilledFacts ==
  ASSUME NEW recs \in Seq(EntryRec), NEW position \in 0 .. BlockSize, BlockSize \in Nat
  PROVE  /\ Filled(recs, position) \in Seq(EntryRec)
         /\ Len(Filled(recs, position)) = Len(recs)
         /\ DOMAIN Filled(recs, position) = DOMAIN recs
         /\ \A k \in DOMAIN recs :
              /\ Filled(recs, position)[k].child = recs[k].child
              /\ Filled(recs, position)[k].rec_len =
                   (IF k = Len(recs) THEN uint16_t(recs[k].rec_len + (BlockSize - position))
                    ELSE recs[k].rec_len)
<1> DEFINE n == Len(recs)
           r == [recs[n] EXCEPT !.rec_len = uint16_t(@ + (BlockSize - position))]
           s == [recs EXCEPT ![n] = r]
<1>1. Filled(recs, position) = s  BY DEF Filled
<1>2. n \in Nat /\ DOMAIN recs = 1 .. n  OBVIOUS
<1>3. ASSUME NEW e \in EntryRec
      PROVE  LET filled == [e EXCEPT !.rec_len = uint16_t(@ + (BlockSize - position))]
             IN  /\ filled \in EntryRec /\ filled.child = e.child
                 /\ filled.rec_len = uint16_t(e.rec_len + (BlockSize - position))
  <2>1. PICK c \in Int, l \in Nat : e = [child |-> c, rec_len |-> l]  BY DEF EntryRec
  <2>2. PICK m \in Nat : m = BlockSize - position  OBVIOUS
  <2>3. [e EXCEPT !.rec_len = uint16_t(@ + (BlockSize - position))]
          = [child |-> c, rec_len |-> uint16_t(l + m)]
    BY <2>1, <2>2
  <2>4. uint16_t(l + m) \in Nat  BY Stored
  <2> QED BY <2>1, <2>2, <2>3, <2>4 DEF EntryRec
<1>4. n \in DOMAIN recs => /\ r \in EntryRec /\ r.child = recs[n].child
                           /\ r.rec_len = uint16_t(recs[n].rec_len + (BlockSize - position))
  <2>1. n \in DOMAIN recs => recs[n] \in EntryRec  BY <1>2
  <2> QED BY <1>3, <2>1
<1>5. \A k \in DOMAIN recs : recs[k] \in EntryRec  OBVIOUS
<1>6. \A e \in EntryRec : e.rec_len \in Nat  BY DEF EntryRec
<1> HIDE DEF r, n
<1>7. /\ DOMAIN s = DOMAIN recs /\ \A k \in DOMAIN recs : s[k] = IF k = n THEN r ELSE recs[k]
  OBVIOUS
<1>8. s \in Seq(EntryRec) /\ Len(s) = n
  <2>1. \A k \in 1 .. n : s[k] \in EntryRec  BY <1>2, <1>4, <1>5, <1>7
  <2>2. s = [k \in 1 .. n |-> s[k]]  BY <1>2, <1>7
  <2> HIDE DEF s
  <2>3. s \in Seq(EntryRec)  BY <1>2, <2>1, <2>2, SeqDef
  <2>4. Len(s) \in Nat /\ DOMAIN s = 1 .. Len(s)  BY <2>3
  <2>5. 1 .. Len(s) = 1 .. n  BY <1>2, <1>7, <2>4
  <2>6. Len(s) = n  BY <1>2, <2>4, <2>5, SameRange
  <2> QED BY <2>3, <2>6
<1>9. ASSUME NEW k \in DOMAIN recs
      PROVE  /\ s[k].child = recs[k].child
             /\ s[k].rec_len = (IF k = n THEN uint16_t(recs[k].rec_len + (BlockSize - position))
                                ELSE recs[k].rec_len)
  <2>1. CASE k = n  BY <1>4, <1>7, <2>1
  <2>2. CASE k # n  BY <1>7, <2>2
  <2> QED BY <2>1, <2>2
<1> HIDE DEF s
<1> QED BY <1>1, <1>7, <1>8, <1>9 DEF n

\* The innermost call went on with its next entry, in block b up to p, to g.
WentOn(b, it, p, count, g) ==
  /\ MovedTo(tree, Top, b, it, p, count, g)
  /\ DOMAIN stack' = DOMAIN stack /\ Len(stack') = Len(stack)
  /\ stack'[Len(stack)] = g /\ \A k \in DOMAIN stack \ {Len(stack)} : stack'[k] = stack[k]
  /\ stack' \in Seq(FrameRec(tree))

\* How an entry changes the calls.
LEMMA PlaceFrame ==
  ASSUME NEW recs, NEW position, NEW b, NEW it, NEW count,
         Place(Top, recs, position, b, it, count),
         DirTypes /\ Calls /\ pc = "loop" /\ MoreChildren,
         position \in Nat /\ b \in Nat \ {0} /\ it \in IteratorRec /\ count \in Nat,
         position + tree[Top.dir].children[Top.i + 1].len <= BlockSize
  PROVE  \E g : WentOn(b, it, position + tree[Top.dir].children[Top.i + 1].len, count, g)
<1> DEFINE child == tree[Top.dir].children[Top.i + 1]
           f == Top
           p == position + child.len
           g == [f EXCEPT !.block = b, !.iterator = it, !.i = @ + 1,
                          !.position_in_block = p, !.block_count = count]
<1>1. /\ stack # <<>> /\ Len(stack) \in DOMAIN stack /\ Top \in FrameRec(tree)
      /\ child.len \in 0 .. BlockSize
  BY NextChild
<1>2. stack' = [stack EXCEPT ![Len(stack)] = g]  BY Zenon DEF Place
<1>3. p \in 0 .. BlockSize
  <2>1. BlockSize \in Nat  BY DirFacts
  <2>2. p <= BlockSize  OBVIOUS
  <2> HIDE DEF child
  <2> QED BY <1>1, <2>1, <2>2
<1> HIDE DEF p, f, child
<1>4. g \in FrameRec(tree) /\ MovedTo(tree, f, b, it, p, count, g)
  <2>1. f \in FrameRec(tree)  BY <1>1 DEF f
  <2>2. g = [f EXCEPT !.block = b, !.iterator = it, !.i = @ + 1, !.position_in_block = p,
                      !.block_count = count]
    OBVIOUS
  <2> HIDE DEF g
  <2>3. MovedTo(tree, f, b, it, p, count, g)  BY <1>3, <2>1, <2>2, FrameMoved, Zenon
  <2> QED BY <2>3 DEF MovedTo
<1> HIDE DEF g
<1>5. /\ DOMAIN stack' = DOMAIN stack /\ Len(stack') = Len(stack) /\ stack' \in Seq(FrameRec(tree))
      /\ stack'[Len(stack)] = g /\ \A k \in DOMAIN stack \ {Len(stack)} : stack'[k] = stack[k]
  <2>1. stack \in Seq(FrameRec(tree))  BY DEF DirTypes
  <2> QED BY <1>1, <1>2, <1>4, <2>1
<1>6. WentOn(b, it, p, count, g)  BY <1>4, <1>5, Zenon DEF WentOn, f
<1> QED BY <1>6, Zenon DEF child, p

\* The next entry of the innermost call is in block b, after recs; the block it
\* was filling before is filled up.
PlacedIn(recs, b) ==
  /\ written' \in [DOMAIN written' -> Seq(EntryRec)]
  /\ DOMAIN written' = DOMAIN written \cup {b}
  /\ written'[b] = Append(recs, [child |-> Top.i + 1,
                                 rec_len |-> tree[Top.dir].children[Top.i + 1].len])
  /\ b # Top.block => written'[Top.block] = Filled(written[Top.block], Top.position_in_block)
  /\ \A x \in DOMAIN written \ {b, Top.block} : written'[x] = written[x]

\* What it does to what was written.
LEMMA PlaceWritten ==
  ASSUME DirTypes, Calls, pc = "loop", MoreChildren,
         NEW recs \in Seq(EntryRec), NEW position, NEW b, NEW it, NEW count,
         Place(Top, recs, position, b, it, count)
  PROVE  PlacedIn(recs, b)
<1> DEFINE child == tree[Top.dir].children[Top.i + 1]
           rec == [child |-> Top.i + 1, rec_len |-> child.len]
           full == Filled(written[Top.block], Top.position_in_block)
           v == IF b = Top.block THEN written ELSE Put(written, Top.block, full)
           w == Put(v, b, Append(recs, rec))
<1>1. /\ stack # <<>> /\ Len(stack) \in DOMAIN stack /\ Top = stack[Len(stack)]
      /\ Top.i \in Nat /\ child.len \in 0 .. BlockSize /\ BlockSize \in Nat
  BY NextChild, DirFacts
<1>2. written' = w  BY Zenon DEF Place
<1>3. rec \in EntryRec
  <2>1. child.len \in Nat  BY <1>1
  <2> HIDE DEF child
  <2> QED BY <1>1, <2>1 DEF EntryRec
<1>4. Append(recs, rec) \in Seq(EntryRec)  BY <1>3
<1>5. written \in [DOMAIN written -> Seq(EntryRec)] /\ Top.block \in DOMAIN written
  BY <1>1 DEF DirTypes
<1>6. full \in Seq(EntryRec)
  <2>1. Top.position_in_block \in 0 .. BlockSize  BY <1>1, StackFacts
  <2>2. written[Top.block] \in Seq(EntryRec)  BY <1>5
  <2> QED BY <1>1, <2>1, <2>2, FilledFacts
<1> HIDE DEF full, rec
<1>7. /\ v \in [DOMAIN v -> Seq(EntryRec)] /\ DOMAIN v = DOMAIN written
      /\ b # Top.block => v[Top.block] = full
      /\ \A x \in DOMAIN written \ {Top.block} : v[x] = written[x]
  <2>1. CASE b = Top.block
    <3>1. v = written  BY <2>1
    <3> HIDE DEF v
    <3> QED BY <1>5, <2>1, <3>1
  <2>2. CASE b # Top.block
    <3>1. v = Put(written, Top.block, full)  BY <2>2
    <3> HIDE DEF v
    <3>2. PutOf(written, Top.block, full, v)  BY <1>5, <1>6, <3>1, PutEntries, Zenon
    <3> QED BY <1>5, <3>2 DEF PutOf
  <2> QED BY <2>1, <2>2
<1> HIDE DEF v
<1>8. /\ DOMAIN w = DOMAIN v \cup {b} /\ w \in [DOMAIN w -> Seq(EntryRec)]
      /\ w[b] = Append(recs, rec) /\ \A x \in DOMAIN v \ {b} : w[x] = v[x]
  <2>1. w = Put(v, b, Append(recs, rec))  OBVIOUS
  <2> HIDE DEF w
  <2>2. PutOf(v, b, Append(recs, rec), w)  BY <1>4, <1>7, <2>1, PutEntries, Zenon
  <2> QED BY <2>2 DEF PutOf
<1> HIDE DEF w
<1> QED BY <1>2, <1>5, <1>7, <1>8 DEF rec, full, PlacedIn

\* An entry is passed, or the directory it is of is called for.
LEMMA PlaceMet ==
  ASSUME DirTypes, Calls, MetOnce, AllMet, pc = "loop", MoreChildren, tree' = tree,
         pc' = IF tree[Top.dir].children[Top.i + 1].dir = 0 THEN "loop" ELSE "call",
         NEW g, g.dir = Top.dir, g.i = Top.i + 1,
         DOMAIN stack' = DOMAIN stack, Len(stack') = Len(stack), stack'[Len(stack)] = g,
         \A k \in DOMAIN stack \ {Len(stack)} : stack'[k] = stack[k],
         \A d \in Dirs \ {Top.dir} : registered'[d] = registered[d]
  PROVE  Calls' /\ MetOnce' /\ AllMet'
<1>1. PICK D \in DOMAIN tree, I \in Nat, L \in Nat : D = Top.dir /\ I = Top.i /\ L = Len(stack)
  BY NextChild, StackFacts
<1>2. /\ stack # <<>> /\ L \in DOMAIN stack /\ Top = stack[L] /\ DOMAIN stack = 1 .. L
      /\ stack[L].dir = D /\ stack[L].i = I
      /\ I + 1 \in DOMAIN tree[D].children /\ I + 1 <= Len(tree[D].children)
  BY <1>1, NextChild, StackFacts
<1> DEFINE c == tree[D].children[I + 1].dir
<1>5. /\ pc' = (IF c = 0 THEN "loop" ELSE "call") /\ g.dir = D /\ g.i = I + 1
      /\ DOMAIN stack' = DOMAIN stack /\ Len(stack') = L
      /\ \A k \in DOMAIN stack : stack'[k] = IF k = L THEN g ELSE stack[k]
      /\ \A d \in Dirs \ {D} : registered'[d] = registered[d]
  BY <1>1
<1>3. \A k \in DOMAIN stack : stack'[k].dir = stack[k].dir  BY <1>2, <1>5
<1>4. Top' = g /\ stack' # <<>>  BY <1>2, <1>5 DEF Top
<1> HIDE DEF c
<1>6. Calls'
  <2>1. \A j, k \in DOMAIN stack' : stack'[j].dir = stack'[k].dir => j = k
    BY <1>3, <1>5 DEF Calls
  <2>2. \A k \in DOMAIN stack' : stack'[k].i <= Len(tree'[stack'[k].dir].children)
    BY <1>2, <1>5 DEF Calls
  <2>3. pc' = "call" => c # 0  BY <1>5
  <2>4. Top'.i \in DOMAIN tree'[Top'.dir].children /\ tree'[Top'.dir].children[Top'.i].dir = c
    BY <1>2, <1>4, <1>5 DEF c
  <2>5. pc' \notin {"lost+found", "lost+found dir", "done"}  BY <1>5
  <2> QED BY <1>4, <2>1, <2>2, <2>3, <2>4, <2>5 DEF Calls
<1>7. \A d \in DOMAIN tree : Untouched(d)' <=> Untouched(d)
  <2>1. \A d \in DOMAIN tree : d # D => registered'[d] = registered[d]  BY <1>5 DEF Dirs
  <2>2. ~ Untouched(D)' /\ ~ Untouched(D)  BY <1>2, <1>3, <1>5 DEF Untouched
  <2>3. \A d \in DOMAIN tree : d # D => (Untouched(d)' <=> Untouched(d))
    BY <1>3, <1>5, <2>1 DEF Untouched
  <2> QED BY <2>2, <2>3
<1>8. ASSUME NEW p \in DOMAIN tree, NEW d \in DOMAIN tree, NEW k \in DOMAIN tree[p].children,
             tree[p].children[k].dir = d
      PROVE  ToCome(p, k)' <=> ToCome(p, k)
  <2>1. Untouched(p)' <=> Untouched(p)  BY <1>7
  <2>2. ASSUME NEW j \in DOMAIN stack, stack[j].dir = p
        PROVE  stack'[j].i < k \/ (stack'[j].i = k /\ j = Len(stack') /\ pc' = "call")
                 <=> stack[j].i < k \/ (stack[j].i = k /\ j = Len(stack) /\ pc = "call")
    <3>0. k \in Nat /\ stack[j].i \in Nat  BY ChildFacts, StackFacts
    <3>1. CASE j = L
      <4>1. p = D /\ stack[j].i = I /\ stack'[j].i = I + 1  BY <1>2, <1>5, <2>2, <3>1
      <4>2. ASSUME I + 1 = k PROVE pc' = "call"
        <5>1. d # 0  BY DirFacts
        <5>2. c = d  BY <1>8, <4>1, <4>2 DEF c
        <5> QED BY <1>5, <5>1, <5>2
      <4> QED BY <1>1, <1>5, <3>0, <3>1, <4>1, <4>2
    <3>2. CASE j # L
      <4>1. stack'[j] = stack[j]  BY <1>5, <3>2
      <4> QED BY <1>1, <1>5, <3>0, <3>2, <4>1
    <3> QED BY <3>1, <3>2
  <2> QED BY <1>3, <1>5, <2>1, <2>2 DEF ToCome
<1>9. MetOnce' /\ PassedMet'
  <2>1. PassedMet /\ pc # "exited"  BY DEF AllMet
  <2> QED BY <1>7, <1>8, <2>1, MetKept
<1>10. AllMet'
  <2>1. ~ Untouched(Root)'
    <3>1. ~ Untouched(Root)  BY DEF AllMet
    <3> QED BY <1>7, <3>1, DirFacts
  <2>2. registered'[LostFound] = <<>>
    <3>1. LostFound \in Dirs \ {D}  BY <1>1, DirFacts
    <3>2. registered'[LostFound] = registered[LostFound]  BY <1>5, <3>1
    <3> QED BY <3>2 DEF AllMet
  <2> QED BY <1>9, <2>1, <2>2 DEF AllMet
<1> QED BY <1>6, <1>9, <1>10

\* incr_links_count keeps a count.
LEMMA LinksTyped ==
  ASSUME DirTypes, NEW d \in DOMAIN tree, NEW child, links' = LinksAfter(d, child)
  PROVE  links' \in [Dirs -> Nat]
<1>1. links \in [Dirs -> Nat] /\ d \in Dirs  BY DEF DirTypes, Dirs
<1>2. links' = links \/ links' = [links EXCEPT ![d] = @ + 1]  BY DEF LinksAfter
<1> QED BY <1>1, <1>2

\* An entry is added to the current block.
LEMMA AddDentryStep ==
  ASSUME DirInv, AddDentry
  PROVE  DirInv'
<1>1. /\ DirTypes /\ Calls /\ MetOnce /\ AllMet /\ Sources /\ BlocksHaveOneOwner
      /\ pc = "loop" /\ MoreChildren /\ tree' = tree /\ avail' = avail /\ registered' = registered
      /\ size' = size
      /\ Place(Top, written[Top.block], Top.position_in_block, Top.block, Top.iterator, Top.block_count)
  BY DEF DirInv, AddDentry
<1>2. /\ stack # <<>> /\ Len(stack) \in DOMAIN stack /\ Top = stack[Len(stack)]
      /\ Top.dir \in DOMAIN tree /\ Top.block \in Nat \ {0} /\ Top.iterator \in IteratorRec
      /\ Top.block_count \in Nat /\ Top.position_in_block \in 0 .. BlockSize
      /\ tree[Top.dir].children[Top.i + 1].len \in 0 .. BlockSize /\ BlockSize \in Nat
  BY <1>1, NextChild, StackFacts, DirFacts
<1>3. Top.position_in_block + tree[Top.dir].children[Top.i + 1].len <= BlockSize
  <2>1. tree[Top.dir].children[Top.i + 1].len <= BlockSize - Top.position_in_block
    BY DEF AddDentry, Fits
  <2> QED BY <1>2, <2>1
<1>4. written \in [DOMAIN written -> Seq(EntryRec)] /\ Top.block \in DOMAIN written
  BY <1>1, <1>2 DEF DirTypes
<1>5. written[Top.block] \in Seq(EntryRec) /\ Top.position_in_block \in Nat  BY <1>2, <1>4
<1>6. PICK g \in FrameRec(tree) :
        /\ g.dir = Top.dir /\ g.block = Top.block /\ g.iterator = Top.iterator /\ g.i = Top.i + 1
        /\ DOMAIN stack' = DOMAIN stack /\ Len(stack') = Len(stack)
        /\ stack'[Len(stack)] = g /\ \A k \in DOMAIN stack \ {Len(stack)} : stack'[k] = stack[k]
        /\ stack' \in Seq(FrameRec(tree))
  <2> DEFINE p == Top.position_in_block + tree[Top.dir].children[Top.i + 1].len
  <2>1. \E g : WentOn(Top.block, Top.iterator, p, Top.block_count, g)
    BY <1>1, <1>2, <1>3, <1>5, PlaceFrame
  <2> HIDE DEF p
  <2>2. PICK g : WentOn(Top.block, Top.iterator, p, Top.block_count, g)  BY <2>1, Zenon
  <2> QED BY <2>2 DEF WentOn, MovedTo
<1>7. \A k \in DOMAIN stack : /\ stack'[k].dir = stack[k].dir /\ stack'[k].block = stack[k].block
                              /\ stack'[k].iterator = stack[k].iterator
  <2>1. Top = stack[Len(stack)]  BY <1>2
  <2> QED BY <1>6, <2>1
<1>8. /\ written' \in [DOMAIN written' -> Seq(EntryRec)]
      /\ DOMAIN written' = DOMAIN written \cup {Top.block}
  <2>1. PlacedIn(written[Top.block], Top.block)  BY <1>1, <1>5, PlaceWritten, Zenon
  <2> QED BY <2>1 DEF PlacedIn
<1>9. /\ links' \in [Dirs -> Nat]
      /\ pc' = IF tree[Top.dir].children[Top.i + 1].dir = 0 THEN "loop" ELSE "call"
  <2>1. /\ links' = LinksAfter(Top.dir, tree[Top.dir].children[Top.i + 1].dir)
        /\ pc' = IF tree[Top.dir].children[Top.i + 1].dir = 0 THEN "loop" ELSE "call"
    BY <1>1, Zenon DEF Place
  <2> QED BY <1>1, <1>2, <2>1, LinksTyped
<1>10. Dirs' = Dirs /\ \A e : Blocks(e)' = Blocks(e)  BY <1>1 DEF Dirs, Blocks
<1>11. \A e, x : Owns(e, x)' <=> Owns(e, x)  BY <1>6, <1>7, <1>10 DEF Owns
<1>12. DirTypes'
  <2>1. \A k \in DOMAIN stack' : stack'[k].block \in DOMAIN written'
    BY <1>1, <1>6, <1>7, <1>8 DEF DirTypes
  <2>2. stack' \in Seq(FrameRec(tree'))  BY <1>1, <1>6
  <2>3. pc' \in {"loop", "call"}  BY <1>9
  <2> QED BY <1>1, <1>8, <1>9, <1>10, <2>1, <2>2, <2>3 DEF DirTypes
<1>13. Calls' /\ MetOnce' /\ AllMet'
  <2>1. \A d \in Dirs \ {Top.dir} : registered'[d] = registered[d]  BY <1>1
  <2> QED BY <1>1, <1>6, <1>9, <2>1, PlaceMet
<1>14. Sources'
  <2>1. \A d \in Dirs : \A x :
          Owns(d, x)' => x \in Free \ avail' \/ (d \in DOMAIN tree' /\ x \in Clusters(tree'[d].extents))
    BY <1>1, <1>11 DEF Sources
  <2>2. ASSUME NEW d \in DOMAIN tree, NEW x \in Clusters(tree[d].extents), NEW k \in DOMAIN stack',
               stack'[k].dir = d, Owns(d, x)'
        PROVE  Returned(tree[d].extents, stack'[k].iterator, x)
    <3>1. k \in DOMAIN stack /\ stack[k].dir = d /\ stack'[k].iterator = stack[k].iterator
      BY <1>6, <1>7, <2>2
    <3>2. Owns(d, x)  BY <1>11, <2>2
    <3>3. Returned(tree[d].extents, stack[k].iterator, x)  BY <1>1, <3>1, <3>2 DEF Sources
    <3> QED BY <3>1, <3>3
  <2> QED BY <1>1, <1>10, <2>1, <2>2 DEF Sources
<1>15. BlocksHaveOneOwner'
  BY <1>1, <1>6, <1>7, <1>10 DEF BlocksHaveOneOwner
<1> QED BY <1>12, <1>13, <1>14, <1>15, Zenon DEF DirInv

\* What next_dir_block returns for a directory.
Granted(d, it, n) ==
  /\ n[2] \in IteratorRec
  /\ \A b : Returned(tree[d].extents, it, b) => Returned(tree[d].extents, n[2], b)
  /\ \/ n[1] \in avail
     \/ /\ n[1] \in Clusters(tree[d].extents) /\ ~ Returned(tree[d].extents, it, n[1])
        /\ Returned(tree[d].extents, n[2], n[1])

\* The block for an entry that does not fit any more.
LEMMA NextBlockFrame ==
  ASSUME DirInv, AddDentryInNextBlock
  PROVE  \E n : /\ n = BlockFor(tree[Top.dir].extents, Top.iterator)
                /\ n[1] \in Nat \ {0} /\ n[2] \in IteratorRec
                /\ \A e \in Dirs : ~ Owns(e, n[1])
                /\ \/ n[1] \in avail
                   \/ /\ n[1] \in Clusters(tree[Top.dir].extents)
                      /\ Returned(tree[Top.dir].extents, n[2], n[1])
                /\ \A x : Returned(tree[Top.dir].extents, Top.iterator, x) =>
                          Returned(tree[Top.dir].extents, n[2], x)
                /\ avail' = avail \ {n[1]} /\ Place(Top, <<>>, 0, n[1], n[2], Top.block_count + 1)
<1> DEFINE n == BlockFor(tree[Top.dir].extents, Top.iterator)
           d == Top.dir
<1>1. /\ DirTypes /\ Calls /\ Sources /\ pc = "loop" /\ MoreChildren /\ n[1] # NoBlock
      /\ avail' = avail \ {n[1]} /\ Place(Top, <<>>, 0, n[1], n[2], Top.block_count + 1)
  BY Zenon DEF DirInv, AddDentryInNextBlock
<1>2. /\ Len(stack) \in DOMAIN stack /\ Top = stack[Len(stack)]
      /\ Top.dir \in DOMAIN tree /\ Top.iterator \in IteratorRec
  BY <1>1, NextChild, StackFacts
<1>3. n = BlockFor(tree[Top.dir].extents, Top.iterator)  OBVIOUS
<1> HIDE DEF n
<1>4. Granted(d, Top.iterator, n)
  <2>1. d \in DOMAIN tree /\ Top.iterator \in IteratorRec /\ DirTypes /\ n[1] # NoBlock
        /\ n = BlockFor(tree[d].extents, Top.iterator)
    BY <1>1, <1>2, <1>3
  <2> HIDE DEF d
  <2> QED BY <2>1, BlockForFacts, Zenon DEF Granted
<1>5. n[1] \in avail \/ (n[1] \in Clusters(tree[d].extents) /\ ~ Owns(d, n[1]))
  <2>1. ASSUME n[1] \in Clusters(tree[d].extents), Owns(d, n[1])
        PROVE  Returned(tree[d].extents, Top.iterator, n[1])
    BY <1>1, <1>2, <2>1 DEF Sources
  <2> QED BY <1>4, <2>1 DEF Granted
<1>6. d \in Dirs /\ d \in DOMAIN tree  BY <1>2 DEF Dirs
<1>7. n[1] \in Nat \ {0} /\ \A e \in Dirs : ~ Owns(e, n[1])
  BY <1>1, <1>5, <1>6, FreshBlock
<1> QED BY <1>1, <1>3, <1>4, <1>7 DEF Granted

\* An entry goes to the next block.
LEMMA NextBlockStep ==
  ASSUME DirInv, AddDentryInNextBlock
  PROVE  DirInv'
<1>1. /\ DirTypes /\ Calls /\ MetOnce /\ AllMet /\ Sources /\ BlocksHaveOneOwner
      /\ pc = "loop" /\ MoreChildren /\ tree' = tree /\ size' = size
      /\ registered' = [registered EXCEPT ![Top.dir] = Append(@, Top.block)]
  BY DEF DirInv, AddDentryInNextBlock, Registered
<1>2. PICK n : /\ n[1] \in Nat \ {0} /\ n[2] \in IteratorRec
               /\ \A e \in Dirs : ~ Owns(e, n[1])
               /\ \/ n[1] \in avail
                  \/ /\ n[1] \in Clusters(tree[Top.dir].extents)
                     /\ Returned(tree[Top.dir].extents, n[2], n[1])
               /\ \A x : Returned(tree[Top.dir].extents, Top.iterator, x) =>
                         Returned(tree[Top.dir].extents, n[2], x)
               /\ avail' = avail \ {n[1]} /\ Place(Top, <<>>, 0, n[1], n[2], Top.block_count + 1)
  BY NextBlockFrame, Zenon
<1>3. PICK L \in DOMAIN stack, D \in DOMAIN tree : L = Len(stack) /\ D = Top.dir
  BY <1>1, NextChild
<1>4. /\ stack # <<>> /\ Top = stack[L] /\ Top.block \in Nat \ {0} /\ Top.block_count \in Nat
      /\ tree[Top.dir].children[Top.i + 1].len \in 0 .. BlockSize /\ BlockSize \in Nat
      /\ D \in Dirs
  BY <1>1, <1>3, NextChild, StackFacts, DirFacts
<1>5. PICK g \in FrameRec(tree) :
        /\ g.dir = Top.dir /\ g.block = n[1] /\ g.iterator = n[2] /\ g.i = Top.i + 1
        /\ DOMAIN stack' = DOMAIN stack /\ Len(stack') = Len(stack)
        /\ stack'[Len(stack)] = g /\ \A k \in DOMAIN stack \ {Len(stack)} : stack'[k] = stack[k]
        /\ stack' \in Seq(FrameRec(tree))
  <2>1. 0 + tree[Top.dir].children[Top.i + 1].len <= BlockSize  BY <1>4
  <2>2. <<>> \in Seq(EntryRec) /\ 0 \in Nat /\ Top.block_count + 1 \in Nat  BY <1>4
  <2> DEFINE p == 0 + tree[Top.dir].children[Top.i + 1].len
  <2>3. \E g : WentOn(n[1], n[2], p, Top.block_count + 1, g)
    BY <1>1, <1>2, <2>1, <2>2, PlaceFrame
  <2> HIDE DEF p
  <2>4. PICK g : WentOn(n[1], n[2], p, Top.block_count + 1, g)  BY <2>3, Zenon
  <2> QED BY <2>4 DEF WentOn, MovedTo
<1>6. /\ written' \in [DOMAIN written' -> Seq(EntryRec)]
      /\ DOMAIN written' = DOMAIN written \cup {n[1]}
  <2>1. <<>> \in Seq(EntryRec)  OBVIOUS
  <2>2. PlacedIn(<<>>, n[1])  BY <1>1, <1>2, <2>1, PlaceWritten, Zenon
  <2> QED BY <2>2 DEF PlacedIn
<1>7. /\ links' \in [Dirs -> Nat]
      /\ pc' = IF tree[Top.dir].children[Top.i + 1].dir = 0 THEN "loop" ELSE "call"
  <2>1. /\ links' = LinksAfter(Top.dir, tree[Top.dir].children[Top.i + 1].dir)
        /\ pc' = IF tree[Top.dir].children[Top.i + 1].dir = 0 THEN "loop" ELSE "call"
    BY <1>2, Zenon DEF Place
  <2> QED BY <1>1, <1>3, <2>1, LinksTyped
<1>8. /\ Dirs' = Dirs /\ registered' \in [Dirs -> Seq(Nat \ {0})]
      /\ \A e \in Dirs : Blocks(e)' = Blocks(e) \cup (IF e = D THEN {Top.block} ELSE {})
      /\ \A e \in Dirs \ {D} : registered'[e] = registered[e]
      /\ RegisteredApart /\ (\A e \in Dirs : Top.block \notin Blocks(e)) => RegisteredApart'
  BY <1>1, <1>3, <1>4, BlocksAppended
<1>9. /\ \A k \in DOMAIN stack : /\ stack'[k].dir = stack[k].dir
                                 /\ stack'[k].block = IF k = L THEN n[1] ELSE stack[k].block
                                 /\ stack'[k].iterator = IF k = L THEN n[2] ELSE stack[k].iterator
      /\ stack[L].dir = D /\ stack[L].block = Top.block /\ stack[L].iterator = Top.iterator
  BY <1>3, <1>4, <1>5
<1>10. \A e \in Dirs : \A x : Owns(e, x)' => Owns(e, x) \/ (e = D /\ x = n[1])
  BY <1>5, <1>8, <1>9 DEF Owns
<1>11. DirTypes'
  <2>1. \A k \in DOMAIN stack' : stack'[k].block \in DOMAIN written'
    BY <1>1, <1>5, <1>6, <1>9 DEF DirTypes
  <2>2. stack' \in Seq(FrameRec(tree'))  BY <1>1, <1>5
  <2>3. pc' \in {"loop", "call"}  BY <1>7
  <2>4. avail' \subseteq Free  BY <1>1, <1>2 DEF DirTypes
  <2> QED BY <1>1, <1>6, <1>7, <1>8, <2>1, <2>2, <2>3, <2>4 DEF DirTypes
<1>12. Calls' /\ MetOnce' /\ AllMet'
  <2>1. \A d \in Dirs \ {Top.dir} : registered'[d] = registered[d]  BY <1>3, <1>8
  <2> QED BY <1>1, <1>5, <1>7, <2>1, PlaceMet
<1>13. Sources'
  <2>1. ASSUME NEW d \in Dirs, NEW x, Owns(d, x)'
        PROVE  x \in Free \ avail' \/ (d \in DOMAIN tree /\ x \in Clusters(tree[d].extents))
    <3>1. CASE Owns(d, x)
      <4>1. x \in Free \ avail \/ (d \in DOMAIN tree /\ x \in Clusters(tree[d].extents))
        BY <1>1, <3>1 DEF Sources
      <4> QED BY <1>2, <4>1
    <3>2. CASE d = D /\ x = n[1]
      <4>1. avail \subseteq Free  BY <1>1 DEF DirTypes
      <4> QED BY <1>2, <1>3, <3>2, <4>1
    <3> QED BY <1>10, <2>1, <3>1, <3>2
  <2>2. ASSUME NEW d \in DOMAIN tree, NEW x \in Clusters(tree[d].extents), NEW k \in DOMAIN stack',
               stack'[k].dir = d, Owns(d, x)'
        PROVE  Returned(tree[d].extents, stack'[k].iterator, x)
    <3>0. k \in DOMAIN stack /\ stack[k].dir = d /\ d \in Dirs  BY <1>5, <1>9, <2>2 DEF Dirs
    <3>1. CASE Owns(d, x)
      <4>1. Returned(tree[d].extents, stack[k].iterator, x)  BY <1>1, <3>0, <3>1 DEF Sources
      <4>2. CASE k = L
        <5>1. d = D /\ stack'[k].iterator = n[2] /\ stack[k].iterator = Top.iterator
          BY <1>9, <3>0, <4>2
        <5> QED BY <1>2, <1>3, <4>1, <5>1
      <4>3. CASE k # L  BY <1>9, <3>0, <4>1, <4>3
      <4> QED BY <4>2, <4>3
    <3>2. CASE d = D /\ x = n[1]
      <4>1. k = L  BY <1>1, <1>9, <3>0, <3>2 DEF Calls
      <4>2. n[1] \notin avail
        <5>1. x \notin Free  BY <1>1, ClusterFacts
        <5> QED BY <1>1, <3>2, <5>1 DEF DirTypes
      <4> QED BY <1>2, <1>3, <1>9, <3>0, <3>2, <4>1, <4>2
    <3> QED BY <1>10, <2>2, <3>0, <3>1, <3>2
  <2> QED BY <1>1, <1>8, <2>1, <2>2 DEF Sources
<1>14. BlocksHaveOneOwner'
  <2>1. RegisteredApart /\ \A e \in Dirs : Top.block \notin Blocks(e)
    BY <1>1, <1>9 DEF BlocksHaveOneOwner, RegisteredApart
  <2>2. ASSUME NEW k \in DOMAIN stack PROVE stack[k].block # n[1]
    <3>1. stack[k].dir \in Dirs  BY <1>1, StackFacts DEF Dirs
    <3>2. Owns(stack[k].dir, stack[k].block)  BY DEF Owns
    <3> QED BY <1>2, <3>1, <3>2
  <2>3. \A j, k \in DOMAIN stack : stack[j].block = stack[k].block => j = k
    BY <1>1 DEF BlocksHaveOneOwner
  <2>4. \A j, k \in DOMAIN stack' : stack'[j].block = stack'[k].block => j = k
    BY <1>5, <1>9, <2>2, <2>3
  <2>5. ASSUME NEW d \in Dirs, NEW k \in DOMAIN stack' PROVE stack'[k].block \notin Blocks(d)'
    <3>1. n[1] \notin Blocks(d) /\ n[1] # Top.block  BY <1>2, <1>9, <2>2 DEF Owns
    <3>2. k \in DOMAIN stack /\ stack[k].block \notin Blocks(d)
      BY <1>1, <1>5 DEF BlocksHaveOneOwner
    <3>3. k # L => stack[k].block # Top.block  BY <1>9, <2>3, <3>2
    <3> QED BY <1>8, <1>9, <3>1, <3>2, <3>3
  <2>6. RegisteredApart'  BY <1>8, <2>1
  <2> QED BY <1>8, <2>4, <2>5, <2>6 DEF BlocksHaveOneOwner, RegisteredApart
<1> QED BY <1>11, <1>12, <1>13, <1>14, Zenon DEF DirInv

\* A call returns: its directory has all of its blocks.
LEMMA FinishFacts ==
  ASSUME DirInv, Finish
  PROVE  \E L \in Nat : \E D \in DOMAIN tree : \E b \in Nat \ {0} :
           /\ L = Len(stack) /\ L \in DOMAIN stack /\ stack[L].dir = D /\ stack[L].block = b
           /\ Top = stack[L] /\ DOMAIN stack = 1 .. L
           /\ stack' \in Seq(FrameRec(tree)) /\ Len(stack') = L - 1 /\ DOMAIN stack' = 1 .. L - 1
           /\ \A k \in DOMAIN stack' : k \in DOMAIN stack /\ k # L /\ stack'[k] = stack[k]
           /\ \A k \in DOMAIN stack : k # L => k \in DOMAIN stack'
           /\ \A k \in DOMAIN stack : k # L => stack[k].dir # D
           /\ D \in Dirs /\ D # LostFound /\ stack[L].i = Len(tree[D].children)
           /\ registered' = [registered EXCEPT ![D] = Append(@, b)]
           /\ size' = [size EXCEPT ![D] = stack[L].block_count]
           /\ b \in DOMAIN written
           /\ written' = [written EXCEPT ![b] = Filled(@, Top.position_in_block)]
           /\ Filled(written[b], Top.position_in_block) \in Seq(EntryRec)
<1>1. /\ DirTypes /\ Calls /\ pc = "loop" /\ ~ MoreChildren
      /\ stack' = SubSeq(stack, 1, Len(stack) - 1)
      /\ registered' = [registered EXCEPT ![Top.dir] = Append(@, Top.block)]
      /\ size' = [size EXCEPT ![Top.dir] = Top.block_count]
      /\ written' = [written EXCEPT ![Top.block] = Filled(@, Top.position_in_block)]
  BY DEF DirInv, Finish, Registered
<1>2. stack # <<>>  BY <1>1 DEF Calls
<1>3. PICK L \in Nat : /\ L = Len(stack) /\ L \in DOMAIN stack /\ Top = stack[L] /\ L > 0
                       /\ DOMAIN stack = 1 .. L
  BY <1>1, <1>2, StackFacts DEF Top
<1>4. PICK D \in DOMAIN tree : \E b \in Nat \ {0} : stack[L].dir = D /\ stack[L].block = b
  BY <1>1, <1>3, StackFacts
<1>5. PICK b \in Nat \ {0} : stack[L].dir = D /\ stack[L].block = b  BY <1>4
<1>6. /\ stack' \in Seq(FrameRec(tree)) /\ Len(stack') = L - 1 /\ DOMAIN stack' = 1 .. L - 1
      /\ \A k \in 1 .. L - 1 : stack'[k] = stack[k]
  <2>1. stack \in Seq(FrameRec(tree))  BY <1>1 DEF DirTypes
  <2> DEFINE T == FrameRec(tree)
  <2> HIDE DEF T
  <2>2. stack \in Seq(T) /\ stack' = SubSeq(stack, 1, L - 1)  BY <1>1, <1>3, <2>1 DEF T
  <2>3. L - 1 \in Nat /\ L - 1 <= Len(stack)  BY <1>3
  <2>4. stack' \in Seq(T) /\ Len(stack') = L - 1 /\ \A k \in 1 .. L - 1 : stack'[k] = stack[k]
    BY <1>3, <2>2, <2>3
  <2>5. DOMAIN stack' = 1 .. L - 1  BY <2>4
  <2> QED BY <2>4, <2>5 DEF T
<1>7. /\ \A k \in DOMAIN stack' : k \in DOMAIN stack /\ k # L /\ stack'[k] = stack[k]
      /\ \A k \in DOMAIN stack : k # L => k \in DOMAIN stack'
  BY <1>3, <1>6
<1>8. \A k \in DOMAIN stack : k # L => stack[k].dir # D  BY <1>1, <1>3, <1>5 DEF Calls
<1>9. D \in Dirs /\ D # LostFound  BY <1>1, DirFacts
<1>10. stack[L].i = Len(tree[D].children)
  <2>1. stack[L].i <= Len(tree[D].children)  BY <1>1, <1>3, <1>5 DEF Calls
  <2>2. ~ (stack[L].i < Len(tree[D].children))  BY <1>1, <1>3, <1>5 DEF MoreChildren
  <2>3. stack[L].i \in Nat /\ Len(tree[D].children) \in Nat  BY <1>1, <1>3, StackFacts, ChildFacts
  <2> QED BY <2>1, <2>2, <2>3
<1>11. b \in DOMAIN written /\ Filled(written[b], Top.position_in_block) \in Seq(EntryRec)
  <2>1. b \in DOMAIN written /\ written[b] \in Seq(EntryRec)  BY <1>1, <1>3, <1>5 DEF DirTypes
  <2>2. Top.position_in_block \in 0 .. BlockSize /\ BlockSize \in Nat
    BY <1>1, <1>3, StackFacts, DirFacts
  <2> QED BY <2>1, <2>2, FilledFacts
<1>12. /\ registered' = [registered EXCEPT ![D] = Append(@, b)]
       /\ size' = [size EXCEPT ![D] = stack[L].block_count]
       /\ written' = [written EXCEPT ![b] = Filled(@, Top.position_in_block)]
  BY <1>1, <1>3, <1>5
<1> QED BY <1>3, <1>5, <1>6, <1>7, <1>8, <1>9, <1>10, <1>11, <1>12

\* A call returns.
LEMMA FinishStep ==
  ASSUME DirInv, Finish
  PROVE  DirInv'
<1>1. /\ DirTypes /\ Calls /\ MetOnce /\ AllMet /\ Sources /\ BlocksHaveOneOwner
      /\ pc = "loop" /\ tree' = tree /\ avail' = avail /\ links' = links
      /\ pc' = IF Len(stack) = 1 THEN "lost+found" ELSE "loop"
  BY DEF DirInv, Finish
<1>2. PICK L \in Nat : \E D \in DOMAIN tree : \E b \in Nat \ {0} :
           /\ L = Len(stack) /\ L \in DOMAIN stack /\ stack[L].dir = D /\ stack[L].block = b
           /\ Top = stack[L] /\ DOMAIN stack = 1 .. L
           /\ stack' \in Seq(FrameRec(tree)) /\ Len(stack') = L - 1 /\ DOMAIN stack' = 1 .. L - 1
           /\ \A k \in DOMAIN stack' : k \in DOMAIN stack /\ k # L /\ stack'[k] = stack[k]
           /\ \A k \in DOMAIN stack : k # L => k \in DOMAIN stack'
           /\ \A k \in DOMAIN stack : k # L => stack[k].dir # D
           /\ D \in Dirs /\ D # LostFound /\ stack[L].i = Len(tree[D].children)
           /\ registered' = [registered EXCEPT ![D] = Append(@, b)]
           /\ size' = [size EXCEPT ![D] = stack[L].block_count]
           /\ b \in DOMAIN written
           /\ written' = [written EXCEPT ![b] = Filled(@, Top.position_in_block)]
           /\ Filled(written[b], Top.position_in_block) \in Seq(EntryRec)
  BY FinishFacts, Zenon
<1>3. PICK D \in DOMAIN tree, b \in Nat \ {0} :
           /\ L = Len(stack) /\ L \in DOMAIN stack /\ stack[L].dir = D /\ stack[L].block = b
           /\ Top = stack[L] /\ DOMAIN stack = 1 .. L
           /\ stack' \in Seq(FrameRec(tree)) /\ Len(stack') = L - 1 /\ DOMAIN stack' = 1 .. L - 1
           /\ \A k \in DOMAIN stack' : k \in DOMAIN stack /\ k # L /\ stack'[k] = stack[k]
           /\ \A k \in DOMAIN stack : k # L => k \in DOMAIN stack'
           /\ \A k \in DOMAIN stack : k # L => stack[k].dir # D
           /\ D \in Dirs /\ D # LostFound /\ stack[L].i = Len(tree[D].children)
           /\ registered' = [registered EXCEPT ![D] = Append(@, b)]
           /\ size' = [size EXCEPT ![D] = stack[L].block_count]
           /\ b \in DOMAIN written
           /\ written' = [written EXCEPT ![b] = Filled(@, Top.position_in_block)]
           /\ Filled(written[b], Top.position_in_block) \in Seq(EntryRec)
  BY <1>2, Zenon
<1>4. /\ Dirs' = Dirs /\ registered' \in [Dirs -> Seq(Nat \ {0})]
      /\ \A e \in Dirs : Blocks(e)' = Blocks(e) \cup (IF e = D THEN {b} ELSE {})
      /\ registered'[D] # <<>> /\ \A e \in Dirs \ {D} : registered'[e] = registered[e]
      /\ RegisteredApart /\ (\A e \in Dirs : b \notin Blocks(e)) => RegisteredApart'
  <2>1. DirTypes /\ D \in Dirs /\ tree' = tree  BY <1>1, <1>3
  <2>2. registered' = [registered EXCEPT ![D] = Append(@, b)]  BY <1>3
  <2> QED BY <2>1, <2>2, BlocksAppended
<1>5. \A e \in Dirs : \A x : Owns(e, x)' <=> Owns(e, x)
  <2> SUFFICES ASSUME NEW e \in Dirs, NEW x PROVE Owns(e, x)' <=> Owns(e, x)
    OBVIOUS
  <2>1. CASE e = D  BY <1>3, <1>4, <2>1 DEF Owns
  <2>2. CASE e # D
    <3>1. Blocks(e)' = Blocks(e)  BY <1>4, <2>2
    <3>2. ASSUME NEW k \in DOMAIN stack, stack[k].dir = e PROVE k \in DOMAIN stack' /\ stack'[k] = stack[k]
      BY <1>3, <2>2, <3>2
    <3>3. ASSUME NEW k \in DOMAIN stack' PROVE k \in DOMAIN stack /\ stack'[k] = stack[k]
      BY <1>3, <3>3
    <3> QED BY <3>1, <3>2, <3>3 DEF Owns
  <2> QED BY <2>1, <2>2
<1>6. DirTypes'
  <2>1. DOMAIN written' = DOMAIN written /\ written' \in [DOMAIN written' -> Seq(EntryRec)]
    <3>1. written \in [DOMAIN written -> Seq(EntryRec)]  BY <1>1 DEF DirTypes
    <3> QED BY <1>3, <3>1
  <2>2. \A k \in DOMAIN stack' : stack'[k].block \in DOMAIN written'
    BY <1>1, <1>3, <2>1 DEF DirTypes
  <2>3. size' \in [Dirs -> Nat]
    <3>1. size \in [Dirs -> Nat] /\ stack[L].block_count \in Nat  BY <1>1, <1>3, StackFacts DEF DirTypes
    <3> QED BY <1>3, <3>1
  <2>4. pc' \in {"loop", "lost+found"}  BY <1>1
  <2>5. stack' \in Seq(FrameRec(tree'))  BY <1>1, <1>3
  <2> QED BY <1>1, <1>4, <2>1, <2>2, <2>3, <2>4, <2>5 DEF DirTypes
<1>7. Calls'
  <2>1. \A j, k \in DOMAIN stack' : stack'[j].dir = stack'[k].dir => j = k
    BY <1>1, <1>3 DEF Calls
  <2>2. \A k \in DOMAIN stack' : stack'[k].i <= Len(tree'[stack'[k].dir].children)
    BY <1>1, <1>3 DEF Calls
  <2>3. pc' = "loop" => stack' # <<>>
    <3>1. L # 1 => Len(stack') # 0  BY <1>3
    <3>2. Len(stack') # 0 => stack' # <<>>  OBVIOUS
    <3> QED BY <1>1, <1>3, <3>1, <3>2
  <2>4. pc' = "lost+found" => stack' = <<>>
    <3>1. L = 1 => Len(stack') = 0  BY <1>3
    <3>2. Len(stack') = 0 => stack' = <<>>  BY <1>3
    <3> QED BY <1>1, <1>3, <3>1, <3>2
  <2> QED BY <1>1, <2>1, <2>2, <2>3, <2>4 DEF Calls
<1>8. \A d \in DOMAIN tree : Untouched(d)' <=> Untouched(d)
  <2>1. ~ Untouched(D)' /\ ~ Untouched(D)  BY <1>3, <1>4 DEF Untouched
  <2>2. ASSUME NEW d \in DOMAIN tree, d # D PROVE Untouched(d)' <=> Untouched(d)
    <3>1. registered'[d] = registered[d]  BY <1>4, <2>2 DEF Dirs
    <3>2. (\A k \in DOMAIN stack' : stack'[k].dir # d) <=> (\A k \in DOMAIN stack : stack[k].dir # d)
      BY <1>3, <2>2
    <3> QED BY <3>1, <3>2 DEF Untouched
  <2> QED BY <2>1, <2>2
<1>9. ASSUME NEW p \in DOMAIN tree, NEW k \in DOMAIN tree[p].children
      PROVE  ToCome(p, k)' <=> ToCome(p, k)
  <2>1. Untouched(p)' <=> Untouched(p)  BY <1>8
  <2>2. pc # "call" /\ pc' # "call"  BY <1>1
  <2>3. CASE p = D
    <3>1. ~ Untouched(p)  BY <1>3, <2>3 DEF Untouched
    <3>2. \A j \in DOMAIN stack' : stack'[j].dir # p  BY <1>3, <2>3
    <3>3. ASSUME NEW j \in DOMAIN stack, stack[j].dir = p PROVE ~ (stack[j].i < k)
      <4>1. j = L  BY <1>3, <2>3, <3>3
      <4>2. k <= Len(tree[D].children) /\ Len(tree[D].children) \in Nat /\ k \in Nat
        BY <1>1, <2>3, ChildFacts
      <4> QED BY <1>3, <4>1, <4>2
    <3> QED BY <2>1, <2>2, <3>1, <3>2, <3>3 DEF ToCome
  <2>4. CASE p # D
    <3>1. (\E j \in DOMAIN stack' : stack'[j].dir = p /\ stack'[j].i < k)
            <=> (\E j \in DOMAIN stack : stack[j].dir = p /\ stack[j].i < k)
      BY <1>3, <2>4
    <3> QED BY <2>1, <2>2, <3>1 DEF ToCome
  <2> QED BY <2>3, <2>4
<1>10. MetOnce' /\ AllMet'
  <2>1. MetOnce' /\ PassedMet'
    <3>1. PassedMet /\ pc # "exited"  BY <1>1 DEF AllMet
    <3> QED BY <1>1, <1>8, <1>9, <3>1, MetKept
  <2>2. ~ Untouched(Root)'
    <3>1. ~ Untouched(Root)  BY <1>1 DEF AllMet
    <3> QED BY <1>1, <1>8, <3>1, DirFacts
  <2>3. registered'[LostFound] = <<>>
    <3>1. registered'[LostFound] = registered[LostFound]  BY <1>3, <1>4 DEF Dirs
    <3> QED BY <1>1, <3>1 DEF AllMet
  <2> QED BY <2>1, <2>2, <2>3 DEF AllMet
<1>11. Sources'
  <2>1. \A d \in Dirs : \A x :
          Owns(d, x)' => x \in Free \ avail' \/ (d \in DOMAIN tree' /\ x \in Clusters(tree'[d].extents))
    BY <1>1, <1>5 DEF Sources
  <2>2. ASSUME NEW d \in DOMAIN tree, NEW x \in Clusters(tree[d].extents), NEW k \in DOMAIN stack',
               stack'[k].dir = d, Owns(d, x)'
        PROVE  Returned(tree[d].extents, stack'[k].iterator, x)
    <3>1. k \in DOMAIN stack /\ stack'[k] = stack[k]  BY <1>3, <2>2
    <3>2. Owns(d, x)  BY <1>5, <2>2 DEF Dirs
    <3>3. Returned(tree[d].extents, stack[k].iterator, x)  BY <1>1, <2>2, <3>1, <3>2 DEF Sources
    <3> QED BY <3>1, <3>3
  <2> QED BY <1>1, <1>4, <2>1, <2>2 DEF Sources
<1>12. BlocksHaveOneOwner'
  <2>1. RegisteredApart /\ \A e \in Dirs : b \notin Blocks(e)
    BY <1>1, <1>3 DEF BlocksHaveOneOwner, RegisteredApart
  <2>2. RegisteredApart'  BY <1>4, <2>1
  <2>3. \A j, k \in DOMAIN stack : stack[j].block = stack[k].block => j = k
    BY <1>1 DEF BlocksHaveOneOwner
  <2>4. \A j, k \in DOMAIN stack' : stack'[j].block = stack'[k].block => j = k  BY <1>3, <2>3
  <2>5. ASSUME NEW d \in Dirs, NEW k \in DOMAIN stack' PROVE stack'[k].block \notin Blocks(d)'
    <3>1. k \in DOMAIN stack /\ stack'[k] = stack[k] /\ stack[k].block # b  BY <1>3, <2>3, <2>5
    <3>2. stack[k].block \notin Blocks(d)  BY <1>1, <3>1 DEF BlocksHaveOneOwner
    <3> QED BY <1>4, <3>1, <3>2
  <2> QED BY <1>4, <2>2, <2>4, <2>5 DEF BlocksHaveOneOwner, RegisteredApart
<1> QED BY <1>6, <1>7, <1>10, <1>11, <1>12, Zenon DEF DirInv

\* The program exits.
LEMMA FullStep ==
  ASSUME DirInv, Full
  PROVE  DirInv'
<1>1. /\ DirTypes /\ Calls /\ MetOnce /\ AllMet /\ Sources /\ BlocksHaveOneOwner
      /\ pc' = "exited" /\ pc # "done"
      /\ UNCHANGED <<tree, stack, avail, written, registered, links, size>>
  BY DEF DirInv, Full
<1>2. DirTypes'  BY <1>1 DEF DirTypes, Dirs
<1>3. Calls'  BY <1>1 DEF Calls
<1>4. \A d : Untouched(d)' <=> Untouched(d)  BY <1>1 DEF Untouched
<1>5. \A p, k : ToCome(p, k)' => ToCome(p, k)  BY <1>1, <1>4 DEF ToCome
<1>6. MetOnce' /\ PassedMet'
  <2>1. PassedMet  BY <1>1 DEF AllMet
  <2> QED BY <1>1, <1>4, <1>5, <2>1, MetKept
<1>7. AllMet'
  <2>1. Untouched(Root)' => stack' = <<>>  BY <1>1, <1>4 DEF AllMet
  <2>2. registered'[LostFound] = <<>>  BY <1>1 DEF AllMet
  <2> QED BY <1>1, <1>6, <2>1, <2>2 DEF AllMet
<1>8. Dirs' = Dirs /\ (\A d : Blocks(d)' = Blocks(d)) /\ \A d, b : Owns(d, b)' <=> Owns(d, b)
  BY <1>1 DEF Dirs, Blocks, Owns
<1>9. Sources'
  BY <1>1, <1>8 DEF Sources
<1>10. BlocksHaveOneOwner'  BY <1>1, <1>8 DEF BlocksHaveOneOwner
<1> QED BY <1>2, <1>3, <1>6, <1>7, <1>9, <1>10, Zenon DEF DirInv

\* No call is running.
LEMMA NoCalls ==
  ASSUME stack = <<>>
  PROVE  DOMAIN stack = {}
OBVIOUS

\* A block of lost+found, or of the root for its entry.
LEMMA LastBlock ==
  ASSUME DirInv, pc \in {"lost+found", "lost+found dir"}, pc' \in {"lost+found dir", "done"},
         NEW d \in Dirs, NEW b \in avail, avail' = avail \ {b},
         d = Root \/ (d = LostFound /\ pc' = "done"),
         NEW recs \in Seq(EntryRec), written' = Put(written, b, recs),
         registered' = [registered EXCEPT ![d] = Append(@, b)],
         size' \in [Dirs -> Nat], UNCHANGED <<tree, stack, links>>
  PROVE  DirInv'
<1>1. /\ DirTypes /\ Calls /\ MetOnce /\ AllMet /\ Sources /\ BlocksHaveOneOwner
  BY DEF DirInv
<1>2. stack = <<>> /\ DOMAIN stack = {}
  <2>1. stack = <<>>  BY <1>1 DEF Calls
  <2> QED BY <2>1, NoCalls
<1>3. b \in Nat \ {0} /\ \A e \in Dirs : ~ Owns(e, b)  BY <1>1, FreshBlock
<1>4. \A e \in Dirs : b \notin Blocks(e)  BY <1>3 DEF Owns
<1>5. /\ Dirs' = Dirs /\ registered' \in [Dirs -> Seq(Nat \ {0})]
      /\ \A e \in Dirs : Blocks(e)' = Blocks(e) \cup (IF e = d THEN {b} ELSE {})
      /\ registered'[d] # <<>> /\ \A e \in Dirs \ {d} : registered'[e] = registered[e]
      /\ RegisteredApart => RegisteredApart'
  BY <1>1, <1>3, <1>4, BlocksAppended
<1>6. DirTypes'
  <2>1. written \in [DOMAIN written -> Seq(EntryRec)]  BY <1>1 DEF DirTypes
  <2>2. PutOf(written, b, recs, written')  BY <2>1, PutEntries, Zenon
  <2>3. written' \in [DOMAIN written' -> Seq(EntryRec)]  BY <2>2 DEF PutOf
  <2> QED BY <1>1, <1>2, <1>5, <2>3 DEF DirTypes
<1>7. Calls'  BY <1>1, <1>2 DEF Calls
<1>8. registered[Root] # <<>>
  <2>1. ~ Untouched(Root)  BY <1>1 DEF AllMet
  <2> QED BY <1>2, <2>1 DEF Untouched
<1>9. \A e \in DOMAIN tree : Untouched(e)' <=> Untouched(e)
  <2>1. \A e \in DOMAIN tree : e # d => registered'[e] = registered[e]  BY <1>5 DEF Dirs
  <2>2. d \in DOMAIN tree => d = Root  BY <1>1, DirFacts
  <2> QED BY <1>2, <1>5, <1>8, <2>1, <2>2 DEF Untouched
<1>10. MetOnce' /\ PassedMet'
  <2>1. \A p \in DOMAIN tree : \A k : ToCome(p, k)' <=> ToCome(p, k)
    BY <1>2, <1>9 DEF ToCome
  <2>2. PassedMet /\ pc # "exited"  BY <1>1 DEF AllMet
  <2> QED BY <1>1, <1>9, <2>1, <2>2, MetKept
<1>11. AllMet'
  <2>1. ~ Untouched(Root)'  BY <1>1, <1>8, <1>9, DirFacts DEF Untouched
  <2>2. pc' # "done" => registered'[LostFound] = <<>>
    <3>1. pc' # "done" => LostFound \in Dirs \ {d}
      BY DirFacts, <1>1
    <3>2. registered[LostFound] = <<>>  BY <1>1 DEF AllMet
    <3> QED BY <1>5, <3>1, <3>2
  <2> QED BY <1>10, <2>1, <2>2 DEF AllMet
<1>12. Sources'
  <2>1. ASSUME NEW e \in Dirs, NEW x, Owns(e, x)'
        PROVE  x \in Free \ avail' \/ (e \in DOMAIN tree' /\ x \in Clusters(tree'[e].extents))
    <3>1. x \in Blocks(e) \/ x = b  BY <1>2, <1>5, <2>1 DEF Owns
    <3>2. avail \subseteq Free  BY <1>1 DEF DirTypes
    <3>3. CASE x \in Blocks(e)
      <4>1. Owns(e, x)  BY <3>3 DEF Owns
      <4>2. x \in Free \ avail \/ (e \in DOMAIN tree /\ x \in Clusters(tree[e].extents))
        BY <1>1, <4>1 DEF Sources
      <4> QED BY <4>2
    <3> QED BY <3>1, <3>2, <3>3
  <2> QED BY <1>2, <1>5, <2>1 DEF Sources
<1>13. BlocksHaveOneOwner'
  <2>1. RegisteredApart'  BY <1>1, <1>5 DEF BlocksHaveOneOwner, RegisteredApart
  <2> QED BY <1>2, <1>5, <2>1 DEF BlocksHaveOneOwner, RegisteredApart
<1> QED BY <1>6, <1>7, <1>10, <1>11, <1>12, <1>13, Zenon DEF DirInv

\* The least block that is left.
LEMMA LeastLeft ==
  ASSUME DirTypes, avail # {}
  PROVE  Min(avail) \in avail
<1>1. avail \subseteq Nat  BY DirFacts DEF DirTypes
<1> QED BY <1>1, MinFacts, Zenon

\* The root gets a block for the entry of lost+found.
LEMMA ExtendRootStep ==
  ASSUME DirInv, ExtendRoot
  PROVE  DirInv'
<1> DEFINE b == Min(avail)
           recs == << [child |-> LostFoundName, rec_len |-> uint16_t(BlockSize)] >>
<1>1. /\ pc = "lost+found" /\ pc' = "lost+found dir" /\ avail # {} /\ avail' = avail \ {b}
      /\ written' = Put(written, b, recs)
      /\ registered' = [registered EXCEPT ![Root] = Append(@, b)]
      /\ size' = [size EXCEPT ![Root] = @ + 1] /\ UNCHANGED <<tree, stack, links>>
  BY DEF ExtendRoot
<1>2. DirTypes  BY DEF DirInv
<1>3. b \in avail  BY <1>1, <1>2, LeastLeft
<1>4. recs \in Seq(EntryRec)
  <2>1. [child |-> LostFoundName, rec_len |-> uint16_t(BlockSize)] \in EntryRec
    BY <1>2, DirFacts, Stored DEF EntryRec, LostFoundName
  <2> QED BY <2>1
<1>5. Root \in Dirs  BY <1>2, DirFacts
<1>6. size' \in [Dirs -> Nat]
  <2> HIDE DEF b, recs
  <2>1. size \in [Dirs -> Nat]  BY <1>2 DEF DirTypes
  <2>2. size[Root] + 1 \in Nat  BY <1>5, <2>1
  <2>3. size' = [size EXCEPT ![Root] = size[Root] + 1]  BY <1>1
  <2> QED BY <1>5, <2>1, <2>2, <2>3, Zenon
<1> HIDE DEF b, recs
<1> QED BY <1>1, <1>3, <1>4, <1>5, <1>6, LastBlock

\* lost+found gets its block.
LEMMA LostFoundStep ==
  ASSUME DirInv, BuildLostFound
  PROVE  DirInv'
<1> DEFINE b == Min(avail)
           y == [child |-> DotDotName, rec_len |-> uint16_t(BlockSize - EXT4_DOT_DENTRY_SIZE)]
           recs == << Dot(DotName), y >>
<1>1. /\ pc = "lost+found dir" /\ pc' = "done" /\ avail # {} /\ avail' = avail \ {b}
      /\ written' = Put(written, b, recs)
      /\ registered' = [registered EXCEPT ![LostFound] = Append(@, b)]
      /\ size' = [size EXCEPT ![LostFound] = 1] /\ UNCHANGED <<tree, stack, links>>
  BY DEF BuildLostFound
<1>2. DirTypes  BY DEF DirInv
<1>3. b \in avail  BY <1>1, <1>2, LeastLeft
<1>4. recs \in Seq(EntryRec)
  <2>1. y \in EntryRec
    <3>1. BlockSize - EXT4_DOT_DENTRY_SIZE \in Nat  BY <1>2, DirFacts DEF EXT4_DOT_DENTRY_SIZE
    <3> QED BY <3>1, Stored DEF EntryRec, DotDotName
  <2>2. Dot(DotName) \in EntryRec  BY DotDirsFacts
  <2> QED BY <2>1, <2>2
<1>5. LostFound \in Dirs  BY DEF Dirs
<1>6. size' \in [Dirs -> Nat]
  <2>1. size \in [Dirs -> Nat]  BY <1>2 DEF DirTypes
  <2> QED BY <1>1, <1>5, <2>1
<1> HIDE DEF b, recs
<1> QED BY <1>1, <1>3, <1>4, <1>5, <1>6, LastBlock

\* A step that changes nothing.
LEMMA DirStutter ==
  ASSUME DirInv, UNCHANGED vars
  PROVE  DirInv'
<1>1. /\ DirTypes /\ Calls /\ MetOnce /\ AllMet /\ Sources /\ BlocksHaveOneOwner
      /\ UNCHANGED <<tree, stack, avail, written, registered, links, size, pc>>
  BY DEF DirInv, vars
<1>2. DirTypes'  BY <1>1 DEF DirTypes, Dirs
<1>3. Calls'  BY <1>1 DEF Calls, Top, Untouched
<1>4. \A d : Untouched(d)' <=> Untouched(d)  BY <1>1 DEF Untouched
<1>5. \A p, k : ToCome(p, k)' <=> ToCome(p, k)  BY <1>1, <1>4 DEF ToCome
<1>6. MetOnce' /\ AllMet'  BY <1>1, <1>4, <1>5 DEF MetOnce, AllMet, PassedMet
<1>7. Dirs' = Dirs /\ (\A d : Blocks(d)' = Blocks(d)) /\ \A d, b : Owns(d, b)' <=> Owns(d, b)
  BY <1>1 DEF Dirs, Blocks, Owns
<1>8. Sources' /\ BlocksHaveOneOwner'  BY <1>1, <1>7 DEF Sources, BlocksHaveOneOwner
<1> QED BY <1>2, <1>3, <1>6, <1>8, Zenon DEF DirInv

\* Before the first call.
LEMMA DirStart ==
  ASSUME Init
  PROVE  DirInv
<1>1. /\ tree \in Trees /\ stack = <<>> /\ DOMAIN stack = {} /\ avail = Free
      /\ written = [b \in {} |-> <<>>] /\ registered = [d \in Dirs |-> <<>>]
      /\ links = [d \in Dirs |-> IF d = Root THEN 3 ELSE 2] /\ size = [d \in Dirs |-> 0]
      /\ pc = "call"
  BY DEF Init
<1>2. DirTypes
  <2>1. stack \in Seq(FrameRec(tree))  BY <1>1
  <2>2. written \in [DOMAIN written -> Seq(EntryRec)]  BY <1>1
  <2>3. registered \in [Dirs -> Seq(Nat \ {0})]
    <3>1. <<>> \in Seq(Nat \ {0})  OBVIOUS
    <3> QED BY <1>1, <3>1
  <2>4. links \in [Dirs -> Nat] /\ size \in [Dirs -> Nat]  BY <1>1
  <2> QED BY <1>1, <2>1, <2>2, <2>3, <2>4 DEF DirTypes
<1>3. \A d \in Dirs : registered[d] = <<>>  BY <1>1
<1>4. \A d \in DOMAIN tree : Untouched(d)  BY <1>1, <1>3 DEF Untouched, Dirs
<1>5. Calls  BY <1>1, <1>4 DEF Calls
<1>6. MetOnce  BY <1>4 DEF MetOnce
<1>7. AllMet
  <2>1. PassedMet  BY <1>4 DEF PassedMet, ToCome
  <2>2. registered[LostFound] = <<>>  BY <1>3 DEF Dirs
  <2> QED BY <1>1, <2>1, <2>2 DEF AllMet
<1>8. \A d \in Dirs : Blocks(d) = {} /\ DOMAIN registered[d] = {}
  <2>1. DOMAIN <<>> = {}  OBVIOUS
  <2> QED BY <1>3, <2>1 DEF Blocks
<1>9. \A d \in Dirs : \A b : ~ Owns(d, b)  BY <1>1, <1>8 DEF Owns
<1>10. Sources  BY <1>1, <1>9 DEF Sources, Dirs
<1>11. BlocksHaveOneOwner  BY <1>1, <1>8 DEF BlocksHaveOneOwner
<1> QED BY <1>2, <1>5, <1>6, <1>7, <1>10, <1>11 DEF DirInv

\* Every step keeps the invariant of the directories.
LEMMA DirStep == DirInv /\ [Next]_vars => DirInv'
<1> SUFFICES ASSUME DirInv, [Next]_vars PROVE DirInv'
  OBVIOUS
<1>1. CASE Enter  BY <1>1, EnterStep
<1>2. CASE AddDentry  BY <1>2, AddDentryStep
<1>3. CASE AddDentryInNextBlock  BY <1>3, NextBlockStep
<1>4. CASE Finish  BY <1>4, FinishStep
<1>5. CASE Full  BY <1>5, FullStep
<1>6. CASE ExtendRoot  BY <1>6, ExtendRootStep
<1>7. CASE BuildLostFound  BY <1>7, LostFoundStep
<1>8. CASE Stopped  BY <1>8, DirStutter DEF Stopped
<1>9. CASE UNCHANGED vars  BY <1>9, DirStutter
<1> QED BY <1>1, <1>2, <1>3, <1>4, <1>5, <1>6, <1>7, <1>8, <1>9 DEF Next

\* The calls of build_ext4_metadata_tree meet every directory once, at its
\* entry, and what they hand out and return stays apart.
THEOREM DirInvariance == Spec => []DirInv
<1>1. Init => DirInv  BY DirStart
<1> QED BY <1>1, DirStep, PTL DEF Spec

\* No block has two directories, or two places in one: a cluster of the FAT
\* directory is handed out once, by the iterator of the only call for that
\* directory, and no block of the allocator is a cluster.
THEOREM OneOwner == Spec => []BlocksHaveOneOwner
<1>1. DirInv => BlocksHaveOneOwner  BY DEF DirInv
<1> QED BY <1>1, DirInvariance, PTL

\* The lengths of entries are summed up.
LEMMA LengthsSum ==
  ASSUME NEW recs, NEW n \in Nat, Len(recs) = n, DOMAIN recs = 1 .. n,
         \A k \in 1 .. n : recs[k].rec_len \in Nat
  PROVE  \E f : IsSum(f, [k \in 1 .. n |-> recs[k].rec_len], n) /\ Lengths(recs) = f[n]
<1> DEFINE w == [k \in 1 .. n |-> recs[k].rec_len]
           P(g) == g = [t \in SUBSET DOMAIN recs |->
                          IF t = {} THEN 0 ELSE g[t \ {Max(t)}] + recs[Max(t)].rec_len]
           h == CHOOSE g : P(g)
<1>1. ASSUME NEW g PROVE P(g) <=> FoldsTo(g, w, n)
  <2>1. ASSUME NEW t \in SUBSET (1 .. n), t # {} PROVE recs[Max(t)].rec_len = w[Max(t)]
    <3>1. Max(t) \in t  BY <2>1, MaxFacts
    <3> QED BY <3>1
  <2>2. [t \in SUBSET (1 .. n) |-> IF t = {} THEN 0 ELSE g[t \ {Max(t)}] + recs[Max(t)].rec_len]
          = [t \in SUBSET (1 .. n) |-> IF t = {} THEN 0 ELSE g[t \ {Max(t)}] + w[Max(t)]]
    <3> HIDE DEF w
    <3> QED BY <2>1
  <2> HIDE DEF w
  <2> QED BY <2>2, Zenon DEF FoldsTo
<1>2. P(h)
  <2>1. \E g : FoldsTo(g, w, n)  BY FoldExists
  <2>2. \E g : P(g)
    <3> HIDE DEF P
    <3> QED BY <1>1, <2>1, Zenon
  <2> HIDE DEF P
  <2> QED BY <2>2, Zenon
<1>3. Lengths(recs) = h[1 .. n]
  BY Zenon DEF Lengths, FoldLeft, MapThenFoldSet
<1>4. FoldsTo(h, w, n)
  <2> HIDE DEF P, h
  <2> QED BY <1>1, <1>2, Zenon
<1> HIDE DEF h
<1>5. \A k \in 1 .. n : w[k] \in Nat  OBVIOUS
<1>6. IsSum([k \in 0 .. n |-> h[1 .. k]], w, n)
  <2> HIDE DEF w
  <2> QED BY <1>4, <1>5, FoldSums
<1>7. [k \in 0 .. n |-> h[1 .. k]][n] = h[1 .. n]  OBVIOUS
<1> QED BY <1>3, <1>6, <1>7, Zenon

\* Entries that are the same but for the last one, y in the one and z in the other.
LEMMA LengthsUpToLast ==
  ASSUME NEW r, NEW s, NEW n \in Nat \ {0}, Len(r) = n, Len(s) = n, DOMAIN r = 1 .. n, DOMAIN s = 1 .. n,
         \A k \in 1 .. n : r[k].rec_len \in Nat, \A k \in 1 .. n : s[k].rec_len \in Nat,
         \A k \in 1 .. n - 1 : s[k].rec_len = r[k].rec_len
  PROVE  \E sum \in Nat : Lengths(r) = sum + r[n].rec_len /\ Lengths(s) = sum + s[n].rec_len
<1> DEFINE w == [k \in 1 .. n |-> r[k].rec_len]
           v == [k \in 1 .. n |-> s[k].rec_len]
<1>1. n \in Nat  OBVIOUS
<1>2. PICK f : IsSum(f, w, n) /\ Lengths(r) = f[n]  BY <1>1, LengthsSum
<1>3. PICK g : IsSum(g, v, n) /\ Lengths(s) = g[n]  BY <1>1, LengthsSum
<1>4. \A j \in 1 .. n - 1 : w[j] = v[j]  OBVIOUS
<1>5. w[n] = r[n].rec_len /\ v[n] = s[n].rec_len  OBVIOUS
<1> HIDE DEF w, v
<1>6. f[n - 1] = g[n - 1]
  <2>1. n - 1 \in Nat /\ n - 1 <= n  OBVIOUS
  <2> QED BY <1>1, <1>2, <1>3, <1>4, <2>1, SumUnique
<1>7. n \in 1 .. n /\ n - 1 \in 0 .. n  OBVIOUS
<1>8. /\ f[n] = f[n - 1] + w[n] /\ g[n] = g[n - 1] + v[n] /\ f[n - 1] \in Nat
  BY <1>2, <1>3, <1>7 DEF IsSum
<1> QED BY <1>2, <1>3, <1>5, <1>6, <1>8

\* What an entry more, or the filling of the last one, does to the lengths.
LEMMA LengthsFacts ==
  ASSUME NEW recs \in Seq(EntryRec)
  PROVE  /\ Lengths(recs) \in Nat
         /\ recs = <<>> => Lengths(recs) = 0
         /\ \A e \in EntryRec : Lengths(Append(recs, e)) = Lengths(recs) + e.rec_len
         /\ \A p \in 0 .. BlockSize :
              Len(recs) > 0 /\ BlockSize \in Nat /\ BlockSize < RecLenRange /\ Lengths(recs) = p =>
                /\ Lengths(Filled(recs, p)) = BlockSize
                /\ Filled(recs, p)[Len(recs)].rec_len = recs[Len(recs)].rec_len + (BlockSize - p)
<1> DEFINE n == Len(recs)
           w == [k \in 1 .. n |-> recs[k].rec_len]
<1>0. \A e \in EntryRec : e.rec_len \in Nat  BY DEF EntryRec
<1>1. /\ n \in Nat /\ DOMAIN recs = 1 .. n /\ \A k \in 1 .. n : recs[k] \in EntryRec
  OBVIOUS
<1>2. \A k \in 1 .. n : recs[k].rec_len \in Nat  BY <1>0, <1>1
<1>3. PICK f : IsSum(f, w, n) /\ Lengths(recs) = f[n]
  <2>1. Len(recs) = n  OBVIOUS
  <2> HIDE DEF n
  <2> QED BY <1>1, <1>2, <2>1, LengthsSum
<1>4. Lengths(recs) \in Nat
  <2>1. n \in 0 .. n  BY <1>1
  <2> QED BY <1>3, <2>1 DEF IsSum
<1>5. recs = <<>> => Lengths(recs) = 0
  <2>1. recs = <<>> => n = 0  OBVIOUS
  <2> QED BY <1>3, <2>1 DEF IsSum
<1>6. ASSUME NEW e \in EntryRec PROVE Lengths(Append(recs, e)) = Lengths(recs) + e.rec_len
  <2> DEFINE x == Append(recs, e)
             v == [k \in 1 .. n + 1 |-> x[k].rec_len]
  <2>1. /\ Len(x) = n + 1 /\ DOMAIN x = 1 .. n + 1 /\ n + 1 \in Nat
        /\ x[n + 1] = e /\ \A k \in 1 .. n : x[k] = recs[k]
    BY <1>1
  <2>2. \A k \in 1 .. n + 1 : x[k].rec_len \in Nat
    <3>1. e.rec_len \in Nat  BY <1>0
    <3> QED BY <1>1, <1>2, <2>1, <3>1
  <2>3. PICK g : IsSum(g, v, n + 1) /\ Lengths(x) = g[n + 1]
    <3> HIDE DEF n, x
    <3> QED BY <2>1, <2>2, LengthsSum
  <2>4. \A j \in 1 .. n : w[j] = v[j]  BY <1>1, <2>1
  <2>5. f[n] = g[n]
    <3> HIDE DEF n, w, v
    <3>1. n <= n /\ n <= n + 1  BY <1>1
    <3> QED BY <1>1, <1>3, <2>1, <2>3, <2>4, <3>1, SumUnique
  <2>6. g[n + 1] = g[n] + v[n + 1]
    <3> HIDE DEF v
    <3>1. n + 1 \in 1 .. n + 1 /\ (n + 1) - 1 = n  BY <1>1
    <3>2. g[n + 1] = g[(n + 1) - 1] + v[n + 1]  BY <2>3, <3>1 DEF IsSum
    <3> QED BY <3>1, <3>2
  <2>7. v[n + 1] = e.rec_len
    <3>1. n + 1 \in 1 .. n + 1  BY <1>1
    <3> QED BY <2>1, <3>1
  <2> HIDE DEF v
  <2> QED BY <1>3, <2>3, <2>5, <2>6, <2>7
<1>7. ASSUME NEW p \in 0 .. BlockSize, n > 0, BlockSize \in Nat, BlockSize < RecLenRange,
             Lengths(recs) = p
      PROVE  /\ Lengths(Filled(recs, p)) = BlockSize
             /\ Filled(recs, p)[n].rec_len = recs[n].rec_len + (BlockSize - p)
  <2> DEFINE s == Filled(recs, p)
  <2>1. /\ s \in Seq(EntryRec) /\ Len(s) = n /\ DOMAIN s = 1 .. n
        /\ \A k \in 1 .. n : s[k].rec_len = (IF k = n THEN uint16_t(recs[k].rec_len + (BlockSize - p))
                                              ELSE recs[k].rec_len)
    <3>1. recs \in Seq(EntryRec) /\ p \in 0 .. BlockSize /\ BlockSize \in Nat  BY <1>7
    <3>2. /\ s \in Seq(EntryRec) /\ Len(s) = Len(recs) /\ DOMAIN s = DOMAIN recs
          /\ \A k \in DOMAIN recs :
               s[k].rec_len = (IF k = Len(recs) THEN uint16_t(recs[k].rec_len + (BlockSize - p))
                               ELSE recs[k].rec_len)
      <4> HIDE DEF n
      <4> QED BY <3>1, FilledFacts
    <3> HIDE DEF s
    <3> QED BY <1>1, <3>2
  <2> HIDE DEF s
  <2>2. \A k \in 1 .. n : s[k].rec_len \in Nat
    <3> HIDE DEF n
    <3>1. \A k \in 1 .. n : s[k] \in EntryRec  BY <1>1, <2>1
    <3> QED BY <1>0, <3>1
  <2>3. ASSUME NEW k \in 1 .. n - 1 PROVE s[k].rec_len = recs[k].rec_len
    <3> HIDE DEF n
    <3>1. k \in 1 .. n /\ k # n  BY <1>1
    <3> QED BY <2>1, <3>1
  <2>4. n \in Nat \ {0} /\ Len(recs) = n  BY <1>1, <1>7
  <2>5. n \in 1 .. n  BY <2>4
  <2>6. s[n].rec_len = uint16_t(recs[n].rec_len + (BlockSize - p)) /\ recs[n].rec_len \in Nat
    BY <1>2, <2>1, <2>5
  <2> HIDE DEF n
  <2>7. PICK sum \in Nat : Lengths(recs) = sum + recs[n].rec_len /\ Lengths(s) = sum + s[n].rec_len
    BY <1>1, <1>2, <2>1, <2>2, <2>3, <2>4, LengthsUpToLast
  <2>8. s[n].rec_len = recs[n].rec_len + (BlockSize - p)
    <3>1. PICK m \in Nat : m = recs[n].rec_len + (BlockSize - p)  BY <1>7, <2>6
    <3>2. sum + recs[n].rec_len = p  BY <1>7, <2>7
    <3>2a. m <= BlockSize  BY <1>7, <2>6, <3>1, <3>2
    <3>3. m < RecLenRange  BY <1>7, <3>2a, DirBuilderAssumption
    <3>4. uint16_t(m) = m  BY <3>3, Stored
    <3> QED BY <2>6, <3>1, <3>4
  <2>9. Lengths(s) = BlockSize
    <3>1. sum + recs[n].rec_len = p /\ Lengths(s) = sum + s[n].rec_len  BY <1>7, <2>7
    <3> QED BY <1>7, <2>6, <2>8, <3>1
  <2> QED BY <2>8, <2>9 DEF s
<1> QED BY <1>4, <1>5, <1>6, <1>7 DEF n

\* One entry more.
LEMMA Extended ==
  ASSUME NEW t, NEW recs \in Seq(EntryRec), NEW g, NEW rec \in EntryRec, NEW p \in Nat,
         \A j \in DOMAIN recs : LongEnough(t, g.dir, recs[j]), LongEnough(t, g.dir, rec),
         Lengths(recs) = p, g.position_in_block = p + rec.rec_len, g.position_in_block <= BlockSize
  PROVE  Filling(t, Append(recs, rec), g)
<1> DEFINE s == Append(recs, rec)
<1>1. /\ DOMAIN s = DOMAIN recs \cup {Len(recs) + 1} /\ DOMAIN recs = 1 .. Len(recs) /\ Len(recs) \in Nat
      /\ s[Len(recs) + 1] = rec /\ \A k \in DOMAIN recs : s[k] = recs[k]
      /\ Len(s) > 0
  OBVIOUS
<1>2. Lengths(s) = p + rec.rec_len  BY LengthsFacts
<1> HIDE DEF s
<1>3. \A j \in DOMAIN s : LongEnough(t, g.dir, s[j])  BY <1>1
<1> QED BY <1>1, <1>2, <1>3 DEF Filling, s

\* A block that is filled up.
LEMMA FilledUp ==
  ASSUME NEW t, NEW recs \in Seq(EntryRec), NEW f, Filling(t, recs, f), BlockSize \in Nat,
         f.position_in_block \in 0 .. BlockSize,
         \A c \in DOMAIN t[f.dir].children : t[f.dir].children[c].len \in Nat
  PROVE  Chain(t, Filled(recs, f.position_in_block), f.dir)
<1> DEFINE p == f.position_in_block
           s == Filled(recs, p)
<1>1. p \in 0 .. BlockSize /\ Lengths(recs) = p /\ Len(recs) > 0  BY DEF Filling
<1>2. SUFFICES ASSUME BlockSize < RecLenRange
               PROVE  Lengths(s) = BlockSize /\ \A j \in DOMAIN s : LongEnough(t, f.dir, s[j])
  BY DEF Chain
<1>3. Lengths(s) = BlockSize /\ s[Len(recs)].rec_len = recs[Len(recs)].rec_len + (BlockSize - p)
  <2> HIDE DEF p
  <2> QED BY <1>1, <1>2, LengthsFacts
<1>4. ASSUME NEW j \in DOMAIN s PROVE LongEnough(t, f.dir, s[j])
  <2> HIDE DEF p
  <2>1. /\ j \in DOMAIN recs /\ s[j].child = recs[j].child
        /\ s[j].rec_len = recs[j].rec_len + (IF j = Len(recs) THEN BlockSize - p ELSE 0)
    <3>1. /\ j \in DOMAIN recs /\ s[j].child = recs[j].child
          /\ j # Len(recs) => s[j].rec_len = recs[j].rec_len
      BY <1>1, <1>4, FilledFacts
    <3>2. recs[j] \in EntryRec  BY <3>1
    <3>3. recs[j].rec_len \in Nat  BY <3>2 DEF EntryRec
    <3> HIDE DEF s
    <3> QED BY <1>3, <3>1, <3>3
  <2>2. recs[j] \in EntryRec  BY <2>1
  <2>3. recs[j].rec_len \in Nat  BY <2>2 DEF EntryRec
  <2>4. LongEnough(t, f.dir, recs[j])  BY <2>1 DEF Filling
  <2>5. s[j].rec_len >= recs[j].rec_len  BY <1>1, <2>1, <2>3
  <2>6. s[j].rec_len \in Nat  BY <1>1, <2>1, <2>3
  <2> HIDE DEF s
  <2>7. CASE recs[j].child > 0
    <3>1. /\ recs[j].child \in DOMAIN t[f.dir].children
          /\ recs[j].rec_len >= t[f.dir].children[recs[j].child].len
      BY <2>4, <2>7 DEF LongEnough
    <3>2. t[f.dir].children[recs[j].child].len \in Nat  BY <3>1
    <3>3. s[j].rec_len >= t[f.dir].children[recs[j].child].len  BY <2>3, <2>5, <2>6, <3>1, <3>2
    <3> QED BY <2>1, <2>7, <3>1, <3>3 DEF LongEnough
  <2>8. CASE ~ (recs[j].child > 0)
    <3>1. recs[j].rec_len >= EXT4_DOT_DENTRY_SIZE  BY <2>4, <2>8 DEF LongEnough
    <3>2. s[j].rec_len >= EXT4_DOT_DENTRY_SIZE
      BY <2>3, <2>5, <2>6, <3>1 DEF EXT4_DOT_DENTRY_SIZE
    <3> QED BY <2>1, <2>8, <3>2 DEF LongEnough
  <2> QED BY <2>7, <2>8
<1> QED BY <1>3, <1>4

\* The blocks that are written hold entries.
LEMMA WrittenFacts ==
  ASSUME DirTypes, NEW x \in DOMAIN written
  PROVE  written[x] \in Seq(EntryRec)
BY DEF DirTypes

\* A directory is entered: its dot entries are in a block of their own.
LEMMA EnterChains ==
  ASSUME DirInv, Chains, Enter
  PROVE  Chains'
<1>1. /\ DirTypes /\ tree' = tree /\ registered' = registered
  BY DEF DirInv, Enter
<1>2. PICK n : \E f \in FrameRec(tree) :
           /\ n = BlockFor(tree[Callee].extents, init(1)) /\ n[1] # NoBlock
           /\ f.dir = Callee /\ f.block = n[1] /\ f.iterator = n[2] /\ f.i = 0
           /\ f.position_in_block = 2 * EXT4_DOT_DENTRY_SIZE /\ f.block_count = 1
           /\ stack' = Append(stack, f)
           /\ n[1] \in Nat \ {0} /\ \A e \in Dirs : ~ Owns(e, n[1])
  BY EnterFrame, Zenon
<1>3. PICK f \in FrameRec(tree) :
           /\ n = BlockFor(tree[Callee].extents, init(1))
           /\ f.dir = Callee /\ f.block = n[1]
           /\ f.position_in_block = 2 * EXT4_DOT_DENTRY_SIZE
           /\ stack' = Append(stack, f) /\ \A e \in Dirs : ~ Owns(e, n[1])
  BY <1>2, Zenon
<1> DEFINE b == n[1]
<1>4. written' = Put(written, b, DotDirs)  BY <1>3, Zenon DEF Enter
<1>5. f.block = b /\ f.position_in_block = 2 * EXT4_DOT_DENTRY_SIZE /\ \A e \in Dirs : ~ Owns(e, b)
  BY <1>3
<1> HIDE DEF b
<1>6. /\ DOMAIN written' = DOMAIN written \cup {b} /\ written'[b] = DotDirs
      /\ \A x \in DOMAIN written \ {b} : written'[x] = written[x]
  <2>1. written \in [DOMAIN written -> Seq(EntryRec)] /\ DotDirs \in Seq(EntryRec)
    BY <1>1, DotDirsFacts DEF DirTypes
  <2>2. PutOf(written, b, DotDirs, written')  BY <1>4, <2>1, PutEntries, Zenon
  <2> QED BY <2>2 DEF PutOf
<1>7. /\ DOMAIN stack' = DOMAIN stack \cup {Len(stack) + 1}
      /\ stack'[Len(stack) + 1] = f /\ \A k \in DOMAIN stack : stack'[k] = stack[k]
  <2>1. stack \in Seq(FrameRec(tree))  BY <1>1 DEF DirTypes
  <2> QED BY <1>3, <2>1
<1>8. Filling(tree, DotDirs, f)
  <2> DEFINE x == Dot(DotName)
             y == Dot(DotDotName)
  <2>1. x \in EntryRec /\ y \in EntryRec /\ DotDirs = <<x, y>>
    BY DotDirsFacts DEF DotDirs
  <2>2. /\ x.rec_len = 3 /\ y.rec_len = 3 /\ ~ (x.child > 0) /\ ~ (y.child > 0)
    BY DEF Dot, DotName, DotDotName, EXT4_DOT_DENTRY_SIZE
  <2> HIDE DEF x, y
  <2>3. Lengths(DotDirs) = 6
    <3>1. <<>> \in Seq(EntryRec) /\ <<x>> \in Seq(EntryRec)  BY <2>1
    <3>2. <<x>> = Append(<<>>, x) /\ DotDirs = Append(<<x>>, y)  BY <2>1
    <3>3. Lengths(<<>>) = 0  BY <3>1, LengthsFacts
    <3>4. Lengths(<<x>>) = 0 + x.rec_len
      <4>1. Lengths(Append(<<>>, x)) = Lengths(<<>>) + x.rec_len  BY <2>1, <3>1, LengthsFacts
      <4> QED BY <3>2, <3>3, <4>1
    <3>5. Lengths(DotDirs) = Lengths(<<x>>) + y.rec_len
      <4>1. Lengths(Append(<<x>>, y)) = Lengths(<<x>>) + y.rec_len  BY <2>1, <3>1, LengthsFacts
      <4> QED BY <3>2, <4>1
    <3> QED BY <2>2, <3>4, <3>5
  <2>4. \A j \in DOMAIN DotDirs : DotDirs[j] = x \/ DotDirs[j] = y
    <3>1. DOMAIN DotDirs = 1 .. 2 /\ DotDirs[1] = x /\ DotDirs[2] = y
      BY DotDirsFacts DEF x, y
    <3> QED BY <3>1
  <2>5. \A j \in DOMAIN DotDirs : LongEnough(tree, f.dir, DotDirs[j])
    BY <2>2, <2>4 DEF LongEnough, EXT4_DOT_DENTRY_SIZE
  <2>6. f.position_in_block = 6 /\ BlockSize >= 6 /\ BlockSize \in Nat
    BY <1>1, <1>5, DirFacts DEF EXT4_DOT_DENTRY_SIZE
  <2> QED BY <2>3, <2>5, <2>6, DotDirsFacts DEF Filling
<1>9. ASSUME NEW k \in DOMAIN stack' PROVE Filling(tree', written'[stack'[k].block], stack'[k])
  <2>1. CASE k = Len(stack) + 1  BY <1>1, <1>5, <1>6, <1>7, <1>8, <2>1
  <2>2. CASE k \in DOMAIN stack
    <3>1. stack[k].block # b
      <4>1. stack[k].dir \in Dirs  BY <1>1, <2>2, StackFacts DEF Dirs
      <4>2. Owns(stack[k].dir, stack[k].block)  BY <2>2 DEF Owns
      <4> QED BY <1>5, <4>1, <4>2
    <3>2. stack[k].block \in DOMAIN written  BY <1>1, <2>2 DEF DirTypes
    <3>3. written'[stack[k].block] = written[stack[k].block] /\ stack'[k] = stack[k]
      BY <1>6, <1>7, <2>2, <3>1, <3>2
    <3>4. Filling(tree, written[stack[k].block], stack[k])  BY <2>2 DEF Chains
    <3> QED BY <1>1, <3>3, <3>4
  <2> QED BY <1>7, <2>1, <2>2
<1>10. ASSUME NEW d \in Dirs, NEW x \in Blocks(d)
       PROVE  x \in DOMAIN written' /\ Chain(tree', written'[x], d)
  <2>1. x \in DOMAIN written /\ Chain(tree, written[x], d)  BY DEF Chains
  <2>2. x # b  BY <1>5 DEF Owns
  <2> QED BY <1>1, <1>6, <2>1, <2>2
<1>11. Dirs' = Dirs /\ \A d : Blocks(d)' = Blocks(d)  BY <1>1 DEF Dirs, Blocks
<1> QED BY <1>9, <1>10, <1>11 DEF Chains

\* The entry to put next is as long as its name needs.
LEMMA NextEntry ==
  ASSUME DirTypes, Calls, pc = "loop", MoreChildren, NEW rec,
         rec = [child |-> Top.i + 1, rec_len |-> tree[Top.dir].children[Top.i + 1].len]
  PROVE  rec \in EntryRec /\ LongEnough(tree, Top.dir, rec) /\ rec.child = Top.i + 1
         /\ rec.rec_len = tree[Top.dir].children[Top.i + 1].len
<1> DEFINE len == tree[Top.dir].children[Top.i + 1].len
<1>1. Top.i \in Nat /\ Top.i + 1 \in DOMAIN tree[Top.dir].children /\ len \in Nat
  <2>1. len \in 0 .. BlockSize /\ BlockSize \in Nat  BY NextChild, DirFacts
  <2> HIDE DEF len
  <2>2. len \in Nat  BY <2>1
  <2> QED BY <2>2, NextChild
<1>2. rec.child = Top.i + 1 /\ rec.rec_len = len  OBVIOUS
<1> HIDE DEF len
<1>3. rec \in EntryRec
  <2>1. rec = [child |-> Top.i + 1, rec_len |-> len]  BY DEF len
  <2> QED BY <1>1, <2>1 DEF EntryRec
<1>4. LongEnough(tree, Top.dir, rec)
  <2>1. rec.child > 0 /\ rec.child \in DOMAIN tree[Top.dir].children  BY <1>1, <1>2
  <2>2. rec.rec_len = tree[Top.dir].children[rec.child].len  BY <1>2 DEF len
  <2>3. rec.rec_len >= tree[Top.dir].children[rec.child].len  BY <1>1, <1>2, <2>2
  <2> QED BY <2>1, <2>3 DEF LongEnough
<1> QED BY <1>2, <1>3, <1>4 DEF len

\* An entry is added to the current block.
LEMMA AddDentryChains ==
  ASSUME DirInv, Chains, AddDentry
  PROVE  Chains'
<1>1. /\ DirTypes /\ Calls /\ BlocksHaveOneOwner
      /\ pc = "loop" /\ MoreChildren /\ tree' = tree /\ registered' = registered
      /\ Place(Top, written[Top.block], Top.position_in_block, Top.block, Top.iterator, Top.block_count)
  BY DEF DirInv, AddDentry
<1>2. PICK L \in DOMAIN stack : L = Len(stack) /\ Top = stack[L]  BY <1>1, NextChild
<1>3. PICK B \in DOMAIN written : \E p \in Nat : B = Top.block /\ p = Top.position_in_block
  BY <1>1, <1>2, StackFacts DEF DirTypes
<1>4. PICK p \in Nat : B = Top.block /\ p = Top.position_in_block  BY <1>3
<1> DEFINE len == tree[Top.dir].children[Top.i + 1].len
           rec == [child |-> Top.i + 1, rec_len |-> len]
<1>5. len \in 0 .. BlockSize /\ BlockSize \in Nat  BY <1>1, NextChild, DirFacts
<1>6. p + len <= BlockSize
  <2>1. len <= BlockSize - p  BY <1>4 DEF AddDentry, Fits
  <2> HIDE DEF len
  <2> QED BY <1>5, <2>1
<1>7. written[B] \in Seq(EntryRec)  BY <1>1, WrittenFacts
<1>8. PICK g : WentOn(B, Top.iterator, p + len, Top.block_count, g)
  <2>1. Place(Top, written[B], p, B, Top.iterator, Top.block_count)  BY <1>1, <1>4
  <2>2. B \in Nat \ {0} /\ Top.iterator \in IteratorRec /\ Top.block_count \in Nat
    BY <1>1, <1>2, <1>4, StackFacts
  <2>3. \E g : WentOn(B, Top.iterator, p + len, Top.block_count, g)
    BY <1>1, <1>6, <2>1, <2>2, PlaceFrame
  <2> QED BY <2>3, Zenon
<1>9. /\ DOMAIN written' = DOMAIN written /\ written'[B] = Append(written[B], rec)
      /\ \A x \in DOMAIN written \ {B} : written'[x] = written[x]
  <2>1. Place(Top, written[B], p, B, Top.iterator, Top.block_count)  BY <1>1, <1>4
  <2>2. /\ DOMAIN written' = DOMAIN written \cup {B} /\ written'[B] = Append(written[B], rec)
        /\ \A x \in DOMAIN written \ {B, Top.block} : written'[x] = written[x]
    <3>1. PlacedIn(written[B], B)  BY <1>1, <1>7, <2>1, PlaceWritten, Zenon
    <3> QED BY <3>1, Zenon DEF PlacedIn
  <2> HIDE DEF rec
  <2> QED BY <1>4, <2>2
<1>10. rec \in EntryRec /\ LongEnough(tree, Top.dir, rec) /\ rec.rec_len = len
  <2>1. rec = [child |-> Top.i + 1, rec_len |-> tree[Top.dir].children[Top.i + 1].len]  OBVIOUS
  <2> HIDE DEF rec
  <2> QED BY <1>1, <2>1, NextEntry
<1> HIDE DEF rec
<1>11. Filling(tree, written[B], Top)  BY <1>2, <1>4 DEF Chains
<1>12. /\ g.dir = Top.dir /\ g.block = B /\ g.position_in_block = p + len
       /\ DOMAIN stack' = DOMAIN stack /\ stack'[L] = g
       /\ \A k \in DOMAIN stack : k # L => stack'[k] = stack[k]
  <2> HIDE DEF len
  <2> QED BY <1>2, <1>8 DEF WentOn, MovedTo
<1> HIDE DEF len
<1>13. Filling(tree, written'[B], g)
  <2>1. \A j \in DOMAIN written[B] : LongEnough(tree, g.dir, written[B][j])
    BY <1>11, <1>12 DEF Filling
  <2>2. Lengths(written[B]) = p  BY <1>4, <1>11 DEF Filling
  <2>3. LongEnough(tree, g.dir, rec) /\ g.position_in_block = p + rec.rec_len
        /\ g.position_in_block <= BlockSize
    BY <1>6, <1>10, <1>12
  <2>4. Filling(tree, Append(written[B], rec), g)
    BY <1>7, <1>10, <2>1, <2>2, <2>3, Extended
  <2> QED BY <1>9, <2>4
<1>14. ASSUME NEW k \in DOMAIN stack' PROVE Filling(tree', written'[stack'[k].block], stack'[k])
  <2>1. CASE k = L  BY <1>1, <1>12, <1>13, <2>1
  <2>2. CASE k # L
    <3>1. k \in DOMAIN stack /\ stack'[k] = stack[k]  BY <1>12, <2>2
    <3>2. stack[k].block # B  BY <1>1, <1>2, <1>4, <2>2, <3>1 DEF BlocksHaveOneOwner
    <3>3. stack[k].block \in DOMAIN written  BY <1>1, <3>1 DEF DirTypes
    <3>4. written'[stack[k].block] = written[stack[k].block]  BY <1>9, <3>2, <3>3
    <3>5. Filling(tree, written[stack[k].block], stack[k])  BY <3>1 DEF Chains
    <3> QED BY <1>1, <3>1, <3>4, <3>5
  <2> QED BY <2>1, <2>2
<1>15. ASSUME NEW d \in Dirs, NEW x \in Blocks(d)
       PROVE  x \in DOMAIN written' /\ Chain(tree', written'[x], d)
  <2>1. x \in DOMAIN written /\ Chain(tree, written[x], d)  BY DEF Chains
  <2>2. x # B  BY <1>1, <1>2, <1>4 DEF BlocksHaveOneOwner
  <2> QED BY <1>1, <1>9, <2>1, <2>2
<1>16. Dirs' = Dirs /\ \A d : Blocks(d)' = Blocks(d)  BY <1>1 DEF Dirs, Blocks
<1> QED BY <1>14, <1>15, <1>16 DEF Chains

\* A block that a call filled up is a chain.
LEMMA FilledBlock ==
  ASSUME DirTypes, Chains, NEW k \in DOMAIN stack
  PROVE  /\ stack[k].block \in DOMAIN written /\ written[stack[k].block] \in Seq(EntryRec)
         /\ Chain(tree, Filled(written[stack[k].block], stack[k].position_in_block), stack[k].dir)
<1> DEFINE f == stack[k]
           recs == written[f.block]
<1>1. f.block \in DOMAIN written /\ recs \in Seq(EntryRec)  BY WrittenFacts DEF DirTypes
<1>2. Filling(tree, recs, f)  BY DEF Chains
<1>3. f.position_in_block \in 0 .. BlockSize /\ BlockSize \in Nat /\ f.dir \in DOMAIN tree
  BY StackFacts, DirFacts
<1>4. \A c \in DOMAIN tree[f.dir].children : tree[f.dir].children[c].len \in Nat
  BY <1>3, ChildFacts
<1> HIDE DEF f, recs
<1>5. Chain(tree, Filled(recs, f.position_in_block), f.dir)
  BY <1>1, <1>2, <1>3, <1>4, FilledUp
<1> QED BY <1>1, <1>5 DEF f, recs

\* An entry goes to the next block.
LEMMA NextBlockChains ==
  ASSUME DirInv, Chains, AddDentryInNextBlock
  PROVE  Chains'
<1>1. /\ DirTypes /\ Calls /\ BlocksHaveOneOwner
      /\ pc = "loop" /\ MoreChildren /\ tree' = tree
      /\ registered' = [registered EXCEPT ![Top.dir] = Append(@, Top.block)]
  BY DEF DirInv, AddDentryInNextBlock, Registered
<1>2. PICK n : /\ n[1] \in Nat \ {0} /\ n[2] \in IteratorRec
               /\ \A e \in Dirs : ~ Owns(e, n[1])
               /\ Place(Top, <<>>, 0, n[1], n[2], Top.block_count + 1)
  BY NextBlockFrame, Zenon
<1>3. PICK L \in DOMAIN stack, D \in DOMAIN tree : L = Len(stack) /\ D = Top.dir /\ Top = stack[L]
  BY <1>1, NextChild
<1>4. PICK B \in Nat \ {0} : B = Top.block /\ B \in DOMAIN written
  BY <1>1, <1>3, StackFacts DEF DirTypes
<1> DEFINE len == tree[Top.dir].children[Top.i + 1].len
           rec == [child |-> Top.i + 1, rec_len |-> len]
           b == n[1]
<1>5. len \in 0 .. BlockSize /\ BlockSize \in Nat  BY <1>1, NextChild, DirFacts
<1>6. 0 + len <= BlockSize
  <2> HIDE DEF len
  <2> QED BY <1>5
<1>7. PICK g : WentOn(b, n[2], 0 + len, Top.block_count + 1, g)
  <2>1. Top.block_count + 1 \in Nat /\ 0 \in Nat  BY <1>1, <1>3, StackFacts
  <2>2. \E g : WentOn(b, n[2], 0 + len, Top.block_count + 1, g)
    BY <1>1, <1>2, <1>6, <2>1, PlaceFrame
  <2> QED BY <2>2, Zenon
<1>8. B # b /\ \A k \in DOMAIN stack : stack[k].block # b
  <2>1. ASSUME NEW k \in DOMAIN stack PROVE stack[k].block # b
    <3>1. stack[k].dir \in Dirs  BY <1>1, StackFacts DEF Dirs
    <3>2. Owns(stack[k].dir, stack[k].block)  BY DEF Owns
    <3> QED BY <1>2, <3>1, <3>2
  <2> QED BY <1>3, <1>4, <2>1
<1>9. /\ DOMAIN written' = DOMAIN written \cup {b} /\ written'[b] = Append(<<>>, rec)
      /\ written'[B] = Filled(written[B], Top.position_in_block)
      /\ \A x \in DOMAIN written \ {b, B} : written'[x] = written[x]
  <2>1. PICK s \in Seq(EntryRec) : s = <<>> /\ Place(Top, s, 0, b, n[2], Top.block_count + 1)
    <3>1. <<>> \in Seq(EntryRec)  OBVIOUS
    <3> QED BY <1>2, <3>1, Zenon
  <2> HIDE DEF b
  <2>2. /\ DOMAIN written' = DOMAIN written \cup {b} /\ written'[b] = Append(s, rec)
        /\ b # Top.block => written'[Top.block] = Filled(written[Top.block], Top.position_in_block)
        /\ \A x \in DOMAIN written \ {b, Top.block} : written'[x] = written[x]
    <3>1. PlacedIn(s, b)  BY <1>1, <2>1, PlaceWritten, Zenon
    <3> QED BY <3>1, Zenon DEF PlacedIn
  <2> HIDE DEF rec
  <2>3. B # b  BY <1>8 DEF b
  <2> QED BY <1>4, <2>1, <2>2, <2>3
<1>10. rec \in EntryRec /\ LongEnough(tree, Top.dir, rec) /\ rec.rec_len = len
  <2>1. rec = [child |-> Top.i + 1, rec_len |-> tree[Top.dir].children[Top.i + 1].len]  OBVIOUS
  <2> HIDE DEF rec
  <2> QED BY <1>1, <2>1, NextEntry
<1> HIDE DEF rec
<1>11. Chain(tree, written'[B], D)
  BY <1>1, <1>3, <1>4, <1>9, FilledBlock
<1>12. /\ g.dir = Top.dir /\ g.block = b /\ g.position_in_block = 0 + len
       /\ DOMAIN stack' = DOMAIN stack /\ stack'[L] = g
       /\ \A k \in DOMAIN stack : k # L => stack'[k] = stack[k]
  <2> HIDE DEF len, b
  <2> QED BY <1>3, <1>7 DEF WentOn, MovedTo
<1>13. \A e \in Dirs : ~ Owns(e, b)  BY <1>2
<1> HIDE DEF len, b
<1>14. Filling(tree, written'[b], g)
  <2>1. PICK s \in Seq(EntryRec) : s = <<>> /\ DOMAIN s = {}
    <3>1. <<>> \in Seq(EntryRec) /\ DOMAIN <<>> = {}  OBVIOUS
    <3> QED BY <3>1
  <2>2. Lengths(s) = 0  BY <2>1, LengthsFacts
  <2>3. LongEnough(tree, g.dir, rec) /\ g.position_in_block = 0 + rec.rec_len
        /\ g.position_in_block <= BlockSize
    BY <1>6, <1>10, <1>12
  <2>4. \A j \in DOMAIN s : LongEnough(tree, g.dir, s[j])  BY <2>1
  <2>5. 0 \in Nat  OBVIOUS
  <2>6. Filling(tree, Append(s, rec), g)
    BY <1>10, <2>2, <2>3, <2>4, <2>5, Extended
  <2> QED BY <1>9, <2>1, <2>6
<1>15. ASSUME NEW k \in DOMAIN stack' PROVE Filling(tree', written'[stack'[k].block], stack'[k])
  <2>1. CASE k = L  BY <1>1, <1>12, <1>14, <2>1
  <2>2. CASE k # L
    <3>1. k \in DOMAIN stack /\ stack'[k] = stack[k]  BY <1>12, <2>2
    <3>2. stack[k].block # B  BY <1>1, <1>3, <1>4, <2>2, <3>1 DEF BlocksHaveOneOwner
    <3>3. stack[k].block \in DOMAIN written /\ stack[k].block # b  BY <1>1, <1>8, <3>1 DEF DirTypes
    <3>4. written'[stack[k].block] = written[stack[k].block]  BY <1>9, <3>2, <3>3
    <3>5. Filling(tree, written[stack[k].block], stack[k])  BY <3>1 DEF Chains
    <3> QED BY <1>1, <3>1, <3>4, <3>5
  <2> QED BY <2>1, <2>2
<1>16. /\ Dirs' = Dirs /\ \A e \in Dirs : Blocks(e)' = Blocks(e) \cup (IF e = D THEN {B} ELSE {})
  <2>1. D \in Dirs /\ registered' = [registered EXCEPT ![D] = Append(@, B)]
    BY <1>1, <1>3, <1>4 DEF Dirs
  <2> QED BY <1>1, <2>1, BlocksAppended
<1>17. ASSUME NEW d \in Dirs, NEW x \in Blocks(d)'
       PROVE  x \in DOMAIN written' /\ Chain(tree', written'[x], d)
  <2>1. CASE x \in Blocks(d)
    <3>1. x \in DOMAIN written /\ Chain(tree, written[x], d)  BY <2>1 DEF Chains
    <3>2. x # B  BY <1>1, <1>3, <1>4, <2>1 DEF BlocksHaveOneOwner
    <3>3. x # b  BY <1>13, <2>1 DEF Owns
    <3> QED BY <1>1, <1>9, <3>1, <3>2, <3>3
  <2>2. CASE d = D /\ x = B  BY <1>1, <1>4, <1>9, <1>11, <2>2
  <2> QED BY <1>16, <1>17, <2>1, <2>2
<1> QED BY <1>15, <1>16, <1>17 DEF Chains

\* A call fills up its block and returns.
LEMMA FinishChains ==
  ASSUME DirInv, Chains, Finish
  PROVE  Chains'
<1>1. DirTypes /\ BlocksHaveOneOwner /\ tree' = tree  BY DEF DirInv, Finish
<1>2. PICK L \in Nat : \E D \in DOMAIN tree : \E b \in Nat \ {0} :
           /\ L = Len(stack) /\ L \in DOMAIN stack /\ stack[L].dir = D /\ stack[L].block = b
           /\ Top = stack[L] /\ DOMAIN stack = 1 .. L
           /\ stack' \in Seq(FrameRec(tree)) /\ Len(stack') = L - 1 /\ DOMAIN stack' = 1 .. L - 1
           /\ \A k \in DOMAIN stack' : k \in DOMAIN stack /\ k # L /\ stack'[k] = stack[k]
           /\ \A k \in DOMAIN stack : k # L => k \in DOMAIN stack'
           /\ \A k \in DOMAIN stack : k # L => stack[k].dir # D
           /\ D \in Dirs /\ D # LostFound /\ stack[L].i = Len(tree[D].children)
           /\ registered' = [registered EXCEPT ![D] = Append(@, b)]
           /\ size' = [size EXCEPT ![D] = stack[L].block_count]
           /\ b \in DOMAIN written
           /\ written' = [written EXCEPT ![b] = Filled(@, Top.position_in_block)]
           /\ Filled(written[b], Top.position_in_block) \in Seq(EntryRec)
  BY FinishFacts, Zenon
<1>3. PICK D \in DOMAIN tree, b \in Nat \ {0} :
           /\ L \in DOMAIN stack /\ stack[L].dir = D /\ stack[L].block = b
           /\ Top = stack[L]
           /\ \A k \in DOMAIN stack' : k \in DOMAIN stack /\ k # L /\ stack'[k] = stack[k]
           /\ D \in Dirs
           /\ registered' = [registered EXCEPT ![D] = Append(@, b)]
           /\ b \in DOMAIN written
           /\ written' = [written EXCEPT ![b] = Filled(@, Top.position_in_block)]
  BY <1>2, Zenon
<1>4. /\ Dirs' = Dirs /\ \A e \in Dirs : Blocks(e)' = Blocks(e) \cup (IF e = D THEN {b} ELSE {})
  <2>1. D \in Dirs /\ registered' = [registered EXCEPT ![D] = Append(@, b)]  BY <1>3
  <2> QED BY <1>1, <2>1, BlocksAppended
<1>5. /\ DOMAIN written' = DOMAIN written
      /\ written'[b] = Filled(written[b], Top.position_in_block)
      /\ \A x \in DOMAIN written : x # b => written'[x] = written[x]
  BY <1>3
<1>6. Chain(tree, written'[b], D)  BY <1>1, <1>3, <1>5, FilledBlock
<1>7. ASSUME NEW k \in DOMAIN stack' PROVE Filling(tree', written'[stack'[k].block], stack'[k])
  <2>1. k \in DOMAIN stack /\ k # L /\ stack'[k] = stack[k]  BY <1>3
  <2>2. stack[k].block # b  BY <1>1, <1>3, <2>1 DEF BlocksHaveOneOwner
  <2>3. stack[k].block \in DOMAIN written  BY <1>1, <2>1 DEF DirTypes
  <2>4. Filling(tree, written[stack[k].block], stack[k])  BY <2>1 DEF Chains
  <2>5. written'[stack[k].block] = written[stack[k].block]  BY <1>5, <2>2, <2>3
  <2> QED BY <1>1, <2>1, <2>4, <2>5
<1>8. ASSUME NEW d \in Dirs, NEW x \in Blocks(d)'
      PROVE  x \in DOMAIN written' /\ Chain(tree', written'[x], d)
  <2>1. CASE x \in Blocks(d)
    <3>1. x \in DOMAIN written /\ Chain(tree, written[x], d)  BY <2>1 DEF Chains
    <3>2. x # b  BY <1>1, <1>3, <2>1 DEF BlocksHaveOneOwner
    <3> QED BY <1>1, <1>5, <3>1, <3>2
  <2>2. CASE d = D /\ x = b  BY <1>1, <1>3, <1>5, <1>6, <2>2
  <2> QED BY <1>4, <1>8, <2>1, <2>2
<1> QED BY <1>4, <1>7, <1>8 DEF Chains

\* The blocks of lost+found and of its entry are filled at once.
LEMMA LastBlockChains ==
  ASSUME DirInv, Chains, stack = <<>>, UNCHANGED <<tree, stack>>,
         NEW d \in Dirs, NEW b \in avail, NEW recs \in Seq(EntryRec), written' = Put(written, b, recs),
         registered' = [registered EXCEPT ![d] = Append(@, b)], Chain(tree, recs, d)
  PROVE  Chains'
<1>1. DirTypes /\ Sources  BY DEF DirInv
<1>2. b \in Nat \ {0} /\ \A e \in Dirs : ~ Owns(e, b)  BY <1>1, FreshBlock
<1>3. /\ Dirs' = Dirs /\ \A e \in Dirs : Blocks(e)' = Blocks(e) \cup (IF e = d THEN {b} ELSE {})
  BY <1>1, <1>2, BlocksAppended
<1>4. /\ DOMAIN written' = DOMAIN written \cup {b} /\ written'[b] = recs
      /\ \A x \in DOMAIN written \ {b} : written'[x] = written[x]
  <2>1. written \in [DOMAIN written -> Seq(EntryRec)]  BY <1>1 DEF DirTypes
  <2>2. PutOf(written, b, recs, written')  BY <2>1, PutEntries, Zenon
  <2> QED BY <2>2 DEF PutOf
<1>5. ASSUME NEW e \in Dirs, NEW x \in Blocks(e)'
      PROVE  x \in DOMAIN written' /\ Chain(tree', written'[x], e)
  <2>1. CASE x \in Blocks(e)
    <3>1. x \in DOMAIN written /\ Chain(tree, written[x], e)  BY <2>1 DEF Chains
    <3>2. x # b  BY <1>2, <2>1 DEF Owns
    <3> QED BY <1>4, <3>1, <3>2
  <2>2. CASE e = d /\ x = b  BY <1>4, <2>2
  <2> QED BY <1>3, <1>5, <2>1, <2>2
<1>6. DOMAIN stack' = {}  BY NoCalls
<1> QED BY <1>3, <1>5, <1>6 DEF Chains

\* The entry of lost+found has a block to itself.
LEMMA ExtendRootChains ==
  ASSUME DirInv, Chains, ExtendRoot
  PROVE  Chains'
<1> DEFINE r == [child |-> LostFoundName, rec_len |-> uint16_t(BlockSize)]
           recs == << r >>
           b == Min(avail)
<1>1. /\ pc = "lost+found" /\ avail # {} /\ written' = Put(written, b, recs)
      /\ registered' = [registered EXCEPT ![Root] = Append(@, b)] /\ UNCHANGED <<tree, stack>>
  BY DEF ExtendRoot
<1>2. DirTypes /\ stack = <<>>  BY <1>1 DEF DirInv, Calls
<1>3. b \in avail /\ Root \in Dirs  BY <1>1, <1>2, LeastLeft, DirFacts
<1>4. /\ BlockSize \in Nat /\ BlockSize >= EXT4_DOT_DENTRY_SIZE
  BY <1>2, DirFacts DEF EXT4_DOT_DENTRY_SIZE
<1>5. r \in EntryRec /\ (BlockSize < RecLenRange => r.rec_len = BlockSize) /\ ~ (r.child > 0)
  BY <1>4, Stored DEF EntryRec, LostFoundName
<1> HIDE DEF r, b
<1>6. recs \in Seq(EntryRec) /\ recs = Append(<<>>, r) /\ \A j \in DOMAIN recs : recs[j] = r
  BY <1>5
<1>7. BlockSize < RecLenRange => Lengths(recs) = BlockSize
  <2>1. <<>> \in Seq(EntryRec)  OBVIOUS
  <2>2. Lengths(<<>>) = 0  BY <2>1, LengthsFacts
  <2>3. Lengths(Append(<<>>, r)) = Lengths(<<>>) + r.rec_len  BY <1>5, <2>1, LengthsFacts
  <2> QED BY <1>4, <1>5, <1>6, <2>2, <2>3
<1>8. BlockSize < RecLenRange => LongEnough(tree, Root, r)  BY <1>4, <1>5 DEF LongEnough
<1> HIDE DEF recs
<1>9. Chain(tree, recs, Root)  BY <1>6, <1>7, <1>8 DEF Chain
<1> QED BY <1>1, <1>2, <1>3, <1>6, <1>9, LastBlockChains

\* The entries of lost+found.
LEMMA LostFoundChains ==
  ASSUME DirInv, Chains, BuildLostFound
  PROVE  Chains'
<1> DEFINE x == Dot(DotName)
           y == [child |-> DotDotName, rec_len |-> uint16_t(BlockSize - EXT4_DOT_DENTRY_SIZE)]
           recs == << x, y >>
           b == Min(avail)
<1>1. /\ pc = "lost+found dir" /\ avail # {} /\ written' = Put(written, b, recs)
      /\ registered' = [registered EXCEPT ![LostFound] = Append(@, b)] /\ UNCHANGED <<tree, stack>>
  BY DEF BuildLostFound
<1>2. DirTypes /\ stack = <<>>  BY <1>1 DEF DirInv, Calls
<1>3. b \in avail /\ LostFound \in Dirs  BY <1>1, <1>2, LeastLeft DEF Dirs
<1>4. BlockSize \in Nat /\ BlockSize >= 6  BY <1>2, DirFacts DEF EXT4_DOT_DENTRY_SIZE
<1>5. y \in EntryRec /\ (BlockSize < RecLenRange => y.rec_len = BlockSize - 3) /\ ~ (y.child > 0)
  <2>1. BlockSize - 3 \in Nat /\ (BlockSize < RecLenRange => BlockSize - 3 < RecLenRange)
    BY <1>4, DirBuilderAssumption
  <2>2. /\ uint16_t(BlockSize - 3) \in Nat
        /\ BlockSize - 3 < RecLenRange => uint16_t(BlockSize - 3) = BlockSize - 3
    BY <2>1, Stored
  <2> QED BY <2>1, <2>2 DEF EntryRec, DotDotName, EXT4_DOT_DENTRY_SIZE
<1>6. x \in EntryRec /\ x.rec_len = 3 /\ ~ (x.child > 0)
  BY DotDirsFacts DEF Dot, DotName, EXT4_DOT_DENTRY_SIZE
<1> HIDE DEF x, y, b
<1>7. /\ recs \in Seq(EntryRec) /\ recs = Append(<<x>>, y) /\ <<x>> = Append(<<>>, x)
      /\ <<x>> \in Seq(EntryRec) /\ \A j \in DOMAIN recs : recs[j] = x \/ recs[j] = y
  BY <1>5, <1>6
<1>8. BlockSize < RecLenRange => Lengths(recs) = BlockSize
  <2>1. <<>> \in Seq(EntryRec)  OBVIOUS
  <2>2. Lengths(<<>>) = 0  BY <2>1, LengthsFacts
  <2>3. Lengths(Append(<<>>, x)) = Lengths(<<>>) + x.rec_len  BY <1>6, <2>1, LengthsFacts
  <2>4. Lengths(Append(<<x>>, y)) = Lengths(<<x>>) + y.rec_len  BY <1>5, <1>7, LengthsFacts
  <2> HIDE DEF recs
  <2>5. Lengths(<<x>>) = 3  BY <1>6, <1>7, <2>2, <2>3
  <2>6. BlockSize < RecLenRange => Lengths(recs) = 3 + (BlockSize - 3)  BY <1>5, <1>7, <2>4, <2>5
  <2> QED BY <1>4, <2>6
<1>9. LongEnough(tree, LostFound, x) /\ (BlockSize < RecLenRange => LongEnough(tree, LostFound, y))
  BY <1>4, <1>5, <1>6 DEF LongEnough, EXT4_DOT_DENTRY_SIZE
<1> HIDE DEF recs
<1>10. Chain(tree, recs, LostFound)  BY <1>7, <1>8, <1>9 DEF Chain
<1> QED BY <1>1, <1>2, <1>3, <1>7, <1>10, LastBlockChains

\* What was written does not depend on where the program is.
LEMMA ChainsFrame ==
  ASSUME Chains, UNCHANGED <<tree, stack, written, registered>>
  PROVE  Chains'
<1>1. Dirs' = Dirs /\ \A d : Blocks(d)' = Blocks(d)  BY DEF Dirs, Blocks
<1> QED BY <1>1 DEF Chains

\* No directory has a block yet.
LEMMA ChainsStart ==
  ASSUME Init
  PROVE  Chains
<1>1. /\ stack = <<>> /\ registered = [d \in Dirs |-> <<>>]  BY DEF Init
<1>2. DOMAIN stack = {}  BY <1>1, NoCalls
<1>3. \A d \in Dirs : Blocks(d) = {}
  <2>1. DOMAIN <<>> = {}  OBVIOUS
  <2> QED BY <1>1, <2>1 DEF Blocks
<1> QED BY <1>2, <1>3 DEF Chains

\* Every step keeps the entries of the blocks.
LEMMA ChainsStep == DirInv /\ Chains /\ [Next]_vars => Chains'
<1> SUFFICES ASSUME DirInv, Chains, [Next]_vars PROVE Chains'
  OBVIOUS
<1>1. CASE Enter  BY <1>1, EnterChains
<1>2. CASE AddDentry  BY <1>2, AddDentryChains
<1>3. CASE AddDentryInNextBlock  BY <1>3, NextBlockChains
<1>4. CASE Finish  BY <1>4, FinishChains
<1>5. CASE Full  BY <1>5, ChainsFrame DEF Full
<1>6. CASE ExtendRoot  BY <1>6, ExtendRootChains
<1>7. CASE BuildLostFound  BY <1>7, LostFoundChains
<1>8. CASE Stopped  BY <1>8, ChainsFrame DEF Stopped, vars
<1>9. CASE UNCHANGED vars  BY <1>9, ChainsFrame DEF vars
<1> QED BY <1>1, <1>2, <1>3, <1>4, <1>5, <1>6, <1>7, <1>8, <1>9 DEF Next

\* The blocks that are registered are chains of entries, those being filled
\* hold what position_in_block says: an entry that does not fit goes to the
\* next block, and the last entry of a block gets the rest of it before the
\* block is registered, at the end of the loop as well.  The chains are those of
\* blocks whose length rec_len can hold, up to 32 KiB.
THEOREM EntriesChained == Spec => []BlocksAreChains
<1>1. Init => DirInv /\ Chains  BY DirStart, ChainsStart
<1>2. DirInv /\ [Next]_vars => DirInv'  BY DirStep
<1>3. DirInv /\ Chains /\ [Next]_vars => Chains'  BY ChainsStep
<1>4. DirInv /\ Chains => BlocksAreChains
  <2> SUFFICES ASSUME DirInv, Chains PROVE BlocksAreChains
    OBVIOUS
  <2>1. InsideBlock  BY DEF Chains, Filling, InsideBlock
  <2>2. ASSUME BlockSize < RecLenRange, NEW d \in Dirs, NEW b \in Blocks(d), NEW k \in DOMAIN written[b]
        PROVE  written[b][k].rec_len >=
                 (IF written[b][k].child > 0 THEN tree[d].children[written[b][k].child].len
                  ELSE EXT4_DOT_DENTRY_SIZE)
    <3>1. LongEnough(tree, d, written[b][k])  BY <2>2 DEF Chains, Chain
    <3> QED BY <3>1 DEF LongEnough
  <2> QED BY <2>1, <2>2 DEF BlocksAreChains, Chains, Chain
<1> QED BY <1>1, <1>2, <1>3, <1>4, PTL DEF Spec

\* f holds the concatenations of the first sequences of ss.
FlatTo(f, ss, n) == f = [i \in 1 .. n |-> IF i = 1 THEN ss[i] ELSE f[i - 1] \o ss[i]]

\* There are such concatenations,
LEMMA FlatExists ==
  ASSUME NEW n \in Nat, NEW ss
  PROVE  \E f : FlatTo(f, ss, n)
<1> DEFINE C == { m \in 0 .. n : ~ \E f : FlatTo(f, ss, m) }
<1>1. SUFFICES ASSUME C # {} PROVE FALSE  OBVIOUS
<1>2. PICK m \in C : \A y \in C : m <= y
  <2>1. C \subseteq Nat  OBVIOUS
  <2> QED BY <1>1, <2>1, LeastNat, Zenon
<1>3. CASE m = 0
  <2> DEFINE f == [i \in 1 .. 0 |-> ss[i]]
  <2>1. 1 .. 0 = {}  BY SMT
  <2>2. f = [i \in 1 .. 0 |-> IF i = 1 THEN ss[i] ELSE f[i - 1] \o ss[i]]  BY <2>1
  <2> QED BY <1>2, <1>3, <2>2, Zenon DEF FlatTo
<1>4. CASE m # 0
  <2>1. m \in Nat \ {0} /\ m - 1 \in 0 .. n /\ ~ (m <= m - 1)  BY <1>4
  <2>2. m - 1 \notin C  BY <1>2, <2>1, Zenon
  <2>3. PICK f : FlatTo(f, ss, m - 1)  BY <2>1, <2>2, Zenon
  <2> DEFINE last == IF m = 1 THEN ss[m] ELSE f[m - 1] \o ss[m]
             g == [i \in 1 .. m |-> IF i = m THEN last ELSE f[i]]
  <2>4. ASSUME NEW i \in 1 .. m PROVE g[i] = IF i = 1 THEN ss[i] ELSE g[i - 1] \o ss[i]
    <3>1. CASE i = m
      <4>1. g[i] = last  BY <3>1
      <4>2. CASE m = 1  BY <3>1, <4>1, <4>2
      <4>3. CASE m # 1
        <5>1. i - 1 \in 1 .. m /\ i - 1 # m  BY <2>1, <3>1, <4>3
        <5>2. g[i - 1] = f[m - 1]  BY <3>1, <5>1
        <5> QED BY <3>1, <4>1, <4>3, <5>2
      <4> QED BY <4>2, <4>3
    <3>2. CASE i # m
      <4>1. i \in 1 .. m - 1 /\ g[i] = f[i]  BY <2>1, <3>2
      <4>2. f[i] = IF i = 1 THEN ss[i] ELSE f[i - 1] \o ss[i]  BY <2>3, <4>1 DEF FlatTo
      <4>3. i # 1 => g[i - 1] = f[i - 1]  BY <2>1, <4>1
      <4> QED BY <4>1, <4>2, <4>3
    <3> QED BY <3>1, <3>2
  <2>5. g = [i \in 1 .. m |-> IF i = 1 THEN ss[i] ELSE g[i - 1] \o ss[i]]
    <3>1. g = [i \in 1 .. m |-> g[i]]  OBVIOUS
    <3> HIDE DEF g
    <3> QED BY <2>4, <3>1
  <2>6. \E h : FlatTo(h, ss, m)
    <3> HIDE DEF g
    <3> QED BY <2>5, Zenon DEF FlatTo
  <2> QED BY <1>2, <2>6, Zenon
<1> QED BY <1>3, <1>4

\* which depend on the sequences only,
LEMMA FlatUnique ==
  ASSUME NEW n \in Nat, NEW m \in Nat, NEW f, NEW g, NEW ss, NEW tt,
         FlatTo(f, ss, n), FlatTo(g, tt, m),
         NEW k \in Nat \ {0}, k <= n, k <= m, \A j \in 1 .. k : ss[j] = tt[j]
  PROVE  f[k] = g[k]
<1> DEFINE G == { j \in 0 .. k : j = 0 \/ f[j] = g[j] }
<1>1. 0 \in G  OBVIOUS
<1>2. ASSUME NEW j \in 1 .. k, j - 1 \in G PROVE j \in G
  <2>1. j \in 1 .. n /\ j \in 1 .. m  OBVIOUS
  <2>2. /\ f[j] = IF j = 1 THEN ss[j] ELSE f[j - 1] \o ss[j]
        /\ g[j] = IF j = 1 THEN tt[j] ELSE g[j - 1] \o tt[j]
    BY <2>1 DEF FlatTo
  <2>3. ss[j] = tt[j] /\ (j # 1 => f[j - 1] = g[j - 1])  BY <1>2
  <2>4. f[j] = g[j]  BY <2>2, <2>3, Zenon
  <2> QED BY <2>4
<1>3. \A j \in 0 .. k : j \in G
  <2> HIDE DEF G
  <2> QED BY <1>1, <1>2, PrefixInduction
<1>4. k \in 0 .. k  OBVIOUS
<1> QED BY <1>3, <1>4

\* and are what FlattenSeq returns.
LEMMA Flattened ==
  ASSUME NEW ss, NEW n \in Nat \ {0}, Len(ss) = n
  PROVE  \E f : FlatTo(f, ss, n) /\ FlattenSeq(ss) = f[n]
<1> DEFINE h == CHOOSE f : FlatTo(f, ss, n)
<1>1. \E f : FlatTo(f, ss, n)
  <2>1. n \in Nat  OBVIOUS
  <2> QED BY <2>1, FlatExists
<1>2. FlatTo(h, ss, n)  BY <1>1, Zenon
<1>3. FlattenSeq(ss) = h[n]
  <2>1. Len(ss) # 0  OBVIOUS
  <2>2. h = CHOOSE f : f = [i \in 1 .. n |-> IF i = 1 THEN ss[i] ELSE f[i - 1] \o ss[i]]
    BY Zenon DEF FlatTo
  <2> HIDE DEF h
  <2> QED BY <2>1, <2>2, Zenon DEF FlattenSeq
<1> QED BY <1>2, <1>3, Zenon

\* One sequence more is put at the end.
LEMMA FlattenAppend ==
  ASSUME NEW T, NEW ss \in Seq(Seq(T)), NEW s \in Seq(T)
  PROVE  /\ FlattenSeq(ss) \in Seq(T)
         /\ ss = <<>> => FlattenSeq(ss) = <<>>
         /\ FlattenSeq(Append(ss, s)) = FlattenSeq(ss) \o s
<1> DEFINE n == Len(ss)
           x == Append(ss, s)
<1>1. n \in Nat /\ DOMAIN ss = 1 .. n /\ \A k \in 1 .. n : ss[k] \in Seq(T)
  OBVIOUS
<1>2. /\ Len(x) = n + 1 /\ n + 1 \in Nat \ {0} /\ x[n + 1] = s
      /\ \A k \in 1 .. n : ss[k] = x[k]
  BY <1>1
<1>3. Len(ss) = n  OBVIOUS
<1>4. n = 0 => ss = <<>>  OBVIOUS
<1>5. ss = <<>> => n = 0  OBVIOUS
<1> HIDE DEF n, x
<1>6. PICK g : FlatTo(g, x, n + 1) /\ FlattenSeq(x) = g[n + 1]  BY <1>2, Flattened
<1>7. g[n + 1] = IF n + 1 = 1 THEN x[n + 1] ELSE g[n] \o x[n + 1]
  <2>1. n + 1 \in 1 .. n + 1 /\ (n + 1) - 1 = n  BY <1>1
  <2>2. g[n + 1] = IF n + 1 = 1 THEN x[n + 1] ELSE g[(n + 1) - 1] \o x[n + 1]
    BY <1>6, <2>1, Zenon DEF FlatTo
  <2> QED BY <2>1, <2>2
<1>8. CASE n = 0
  <2>1. FlattenSeq(ss) = <<>>  BY <1>3, <1>4, <1>8, Zenon DEF FlattenSeq
  <2>2. FlattenSeq(x) = s  BY <1>2, <1>6, <1>7, <1>8
  <2>3. <<>> \o s = s /\ <<>> \in Seq(T)  OBVIOUS
  <2> QED BY <2>1, <2>2, <2>3 DEF x
<1>9. CASE n # 0
  <2>1. n \in Nat \ {0}  BY <1>1, <1>9
  <2>2. PICK f : FlatTo(f, ss, n) /\ FlattenSeq(ss) = f[n]  BY <1>3, <2>1, Flattened
  <2>3. f[n] = g[n]
    <3>1. n <= n /\ n <= n + 1 /\ n + 1 \in Nat  BY <1>1
    <3> QED BY <1>1, <1>2, <1>6, <2>1, <2>2, <3>1, FlatUnique
  <2>4. FlattenSeq(x) = FlattenSeq(ss) \o s
    <3>1. n + 1 # 1  BY <1>1, <1>9
    <3> QED BY <1>2, <1>6, <1>7, <2>2, <2>3, <3>1
  <2>5. FlattenSeq(ss) \in Seq(T)
    <3> DEFINE G == { j \in 0 .. n : j = 0 \/ f[j] \in Seq(T) }
    <3>1. 0 \in G  BY <1>1
    <3>2. ASSUME NEW j \in 1 .. n, j - 1 \in G PROVE j \in G
      <4>1. f[j] = IF j = 1 THEN ss[j] ELSE f[j - 1] \o ss[j]  BY <2>2 DEF FlatTo
      <4>2. ss[j] \in Seq(T) /\ (j # 1 => f[j - 1] \in Seq(T))  BY <1>1, <3>2
      <4>3. f[j] \in Seq(T)  BY <4>1, <4>2
      <4> QED BY <1>1, <4>3
    <3>3. \A j \in 0 .. n : j \in G
      <4> HIDE DEF G
      <4> QED BY <1>1, <3>1, <3>2, PrefixInduction
    <3>4. n \in 0 .. n  BY <1>1
    <3> QED BY <1>9, <2>2, <3>3, <3>4
  <2> QED BY <1>5, <1>9, <2>4, <2>5 DEF x
<1> QED BY <1>8, <1>9

\* A function on 1 .. n is a sequence of n elements.
LEMMA AsSequence ==
  ASSUME NEW n \in Nat, NEW S, NEW s, s = [k \in 1 .. n |-> s[k]], \A k \in 1 .. n : s[k] \in S
  PROVE  s \in Seq(S) /\ Len(s) = n /\ DOMAIN s = 1 .. n
<1>1. s \in Seq(S)  BY SeqDef
<1>2. Len(s) \in Nat /\ DOMAIN s = 1 .. Len(s)  BY <1>1
<1>3. DOMAIN s = 1 .. n  BY Zenon
<1>4. 1 .. Len(s) = 1 .. n  BY <1>2, <1>3
<1>5. Len(s) = n  BY <1>2, <1>4, SameRange
<1> QED BY <1>1, <1>3, <1>5

\* An element more at the end of a concatenation.
LEMMA ConcatAppend ==
  ASSUME NEW S, NEW s \in Seq(S), NEW t \in Seq(S), NEW e \in S
  PROVE  s \o Append(t, e) = Append(s \o t, e)
<1> DEFINE x == s \o Append(t, e)
           y == Append(s \o t, e)
<1>1. /\ x \in Seq(S) /\ y \in Seq(S) /\ Len(s) \in Nat /\ Len(t) \in Nat
      /\ Len(x) = Len(s) + Len(t) + 1 /\ Len(y) = Len(s) + Len(t) + 1
  OBVIOUS
<1>2. ASSUME NEW i \in 1 .. Len(s) + Len(t) + 1 PROVE x[i] = y[i]
  OBVIOUS
<1> HIDE DEF x, y
<1>3. Len(x) = Len(y) /\ \A i \in 1 .. Len(x) : x[i] = y[i]  BY <1>1, <1>2
<1>4. x = y  BY <1>1, <1>3, SeqEqual
<1> QED BY <1>4 DEF x, y

\* The names of entries.
LEMMA NamesFacts ==
  ASSUME NEW recs \in Seq(EntryRec)
  PROVE  /\ NamesOf(recs) \in Seq(Int) /\ Len(NamesOf(recs)) = Len(recs)
         /\ DOMAIN NamesOf(recs) = 1 .. Len(recs)
         /\ \A k \in 1 .. Len(recs) : NamesOf(recs)[k] = recs[k].child
         /\ recs = <<>> => NamesOf(recs) = <<>>
<1> DEFINE n == Len(recs)
           s == NamesOf(recs)
<1>1. n \in Nat /\ DOMAIN recs = 1 .. n /\ \A k \in 1 .. n : recs[k] \in EntryRec
  OBVIOUS
<1>2. \A e \in EntryRec : e.child \in Int  BY DEF EntryRec
<1> HIDE DEF n
<1>3. s = [k \in 1 .. n |-> recs[k].child]  BY <1>1, Zenon DEF NamesOf
<1>4. \A k \in 1 .. n : s[k] = recs[k].child  BY <1>3
<1>5. \A k \in 1 .. n : s[k] \in Int  BY <1>1, <1>2, <1>4
<1> HIDE DEF s
<1>6. s = [k \in 1 .. n |-> s[k]]  BY <1>3, <1>4
<1>7. s \in Seq(Int) /\ Len(s) = n /\ DOMAIN s = 1 .. n  BY <1>1, <1>5, <1>6, AsSequence
<1>8. recs = <<>> => s = <<>>
  <2>1. recs = <<>> => n = 0  BY DEF n
  <2> QED BY <1>7, <2>1
<1> QED BY <1>4, <1>7, <1>8 DEF n, s

\* The names of an entry more, of entries put together, and of a filled block.
LEMMA NamesJoined ==
  ASSUME NEW recs \in Seq(EntryRec)
  PROVE  /\ \A r \in EntryRec : NamesOf(Append(recs, r)) = Append(NamesOf(recs), r.child)
         /\ \A more \in Seq(EntryRec) : NamesOf(recs \o more) = NamesOf(recs) \o NamesOf(more)
         /\ \A p \in 0 .. BlockSize : BlockSize \in Nat => NamesOf(Filled(recs, p)) = NamesOf(recs)
<1> DEFINE n == Len(recs)
           s == NamesOf(recs)
<1>0. \A e \in EntryRec : e.child \in Int  BY DEF EntryRec
<1>1. n \in Nat /\ DOMAIN recs = 1 .. n  OBVIOUS
<1>2. /\ s \in Seq(Int) /\ Len(s) = n /\ \A k \in 1 .. n : s[k] = recs[k].child
  BY NamesFacts
<1> HIDE DEF s
<1>3. ASSUME NEW r \in EntryRec PROVE NamesOf(Append(recs, r)) = Append(s, r.child)
  <2> DEFINE x == Append(recs, r)
             y == NamesOf(x)
             z == Append(s, r.child)
  <2>1. x \in Seq(EntryRec) /\ Len(x) = n + 1 /\ x[n + 1] = r /\ \A k \in 1 .. n : x[k] = recs[k]
    BY <1>1
  <2> HIDE DEF x
  <2>2. y \in Seq(Int) /\ Len(y) = n + 1 /\ \A k \in 1 .. n + 1 : y[k] = x[k].child
    BY <2>1, NamesFacts
  <2> HIDE DEF y, n
  <2>3. /\ z \in Seq(Int) /\ Len(z) = n + 1 /\ z[n + 1] = r.child
        /\ \A k \in 1 .. n : z[k] = s[k]
    BY <1>0, <1>2
  <2> HIDE DEF z
  <2>4. \A k \in 1 .. n + 1 : y[k] = z[k]
    <3> SUFFICES ASSUME NEW k \in 1 .. n + 1 PROVE y[k] = z[k]
      OBVIOUS
    <3>1. y[k] = x[k].child  BY <2>2
    <3>2. CASE k = n + 1  BY <2>1, <2>3, <3>1, <3>2
    <3>3. CASE k # n + 1
      <4>1. k \in 1 .. n  BY <1>1, <3>3
      <4>2. x[k] = recs[k] /\ z[k] = s[k] /\ s[k] = recs[k].child  BY <1>2, <2>1, <2>3, <4>1
      <4> QED BY <3>1, <4>2
    <3> QED BY <3>2, <3>3
  <2>5. y = z  BY <2>2, <2>3, <2>4, SeqEqual
  <2> QED BY <2>5 DEF x, y, z
<1>4. ASSUME NEW more \in Seq(EntryRec) PROVE NamesOf(recs \o more) = s \o NamesOf(more)
  <2> DEFINE m == Len(more)
             t == NamesOf(more)
             x == recs \o more
             y == NamesOf(x)
             z == s \o t
  <2>1. m \in Nat /\ DOMAIN more = 1 .. m  OBVIOUS
  <2>2. /\ t \in Seq(Int) /\ Len(t) = m /\ \A k \in 1 .. m : t[k] = more[k].child
    BY NamesFacts
  <2> HIDE DEF t
  <2>3. /\ x \in Seq(EntryRec) /\ Len(x) = n + m
        /\ \A k \in 1 .. n + m : x[k] = IF k <= n THEN recs[k] ELSE more[k - n]
    BY ConcatProperties
  <2> HIDE DEF x, n, m
  <2>4. y \in Seq(Int) /\ Len(y) = n + m /\ \A k \in 1 .. n + m : y[k] = x[k].child
    BY <2>3, NamesFacts
  <2> HIDE DEF y
  <2>5. /\ z \in Seq(Int) /\ Len(z) = n + m
        /\ \A k \in 1 .. n + m : z[k] = IF k <= n THEN s[k] ELSE t[k - n]
    BY <1>2, <2>2, ConcatProperties
  <2> HIDE DEF z
  <2>6. ASSUME NEW k \in 1 .. n + m PROVE y[k] = z[k]
    <3>1. CASE k <= n
      <4>1. k \in 1 .. n  BY <1>1, <2>1, <3>1
      <4>2. y[k] = recs[k].child  BY <2>3, <2>4, <3>1
      <4>3. z[k] = s[k]  BY <2>5, <3>1
      <4> QED BY <1>2, <4>1, <4>2, <4>3
    <3>2. CASE ~ (k <= n)
      <4>1. k - n \in 1 .. m  BY <1>1, <2>1, <3>2
      <4>2. y[k] = more[k - n].child  BY <2>3, <2>4, <3>2
      <4>3. z[k] = t[k - n]  BY <2>5, <3>2
      <4> QED BY <2>2, <4>1, <4>2, <4>3
    <3> QED BY <3>1, <3>2
  <2>7. y = z  BY <2>4, <2>5, <2>6, SeqEqual
  <2> QED BY <2>7 DEF x, y, z, t
<1>5. ASSUME NEW p \in 0 .. BlockSize, BlockSize \in Nat PROVE NamesOf(Filled(recs, p)) = s
  <2> DEFINE x == Filled(recs, p)
             y == NamesOf(x)
  <2>1. x \in Seq(EntryRec) /\ Len(x) = Len(recs) /\ \A k \in DOMAIN recs : x[k].child = recs[k].child
    BY <1>5, FilledFacts
  <2> HIDE DEF x
  <2>2. y \in Seq(Int) /\ Len(y) = Len(x) /\ \A k \in 1 .. Len(x) : y[k] = x[k].child
    BY <2>1, NamesFacts
  <2> HIDE DEF y
  <2>3. Len(y) = Len(s) /\ \A k \in 1 .. Len(y) : y[k] = s[k]  BY <1>1, <1>2, <2>1, <2>2
  <2>4. y = s  BY <1>2, <2>2, <2>3, SeqEqual
  <2> QED BY <2>4 DEF x, y
<1> QED BY <1>3, <1>4, <1>5 DEF s

\* What is written in blocks.
Written(w, blocks) == \A k \in DOMAIN blocks : w[blocks[k]] \in Seq(EntryRec)

\* The names in no blocks, and in blocks that did not change.
LEMMA BlockNamesFacts ==
  ASSUME NEW w, NEW blocks \in Seq(Nat \ {0}), Written(w, blocks)
  PROVE  /\ BlockNames(w, blocks) \in Seq(Int)
         /\ blocks = <<>> => BlockNames(w, blocks) = <<>>
         /\ \A v : (\A k \in DOMAIN blocks : v[blocks[k]] = w[blocks[k]]) =>
                     /\ BlockNames(v, blocks) = BlockNames(w, blocks) /\ Written(v, blocks)
         /\ \A v : \A b \in Nat \ {0} :
              /\ \A k \in DOMAIN blocks : v[blocks[k]] = w[blocks[k]]
              /\ v[b] \in Seq(EntryRec)
              => BlockNames(v, Append(blocks, b)) = BlockNames(w, blocks) \o NamesOf(v[b])
<1> DEFINE n == Len(blocks)
           T == Seq(EntryRec)
           ss == [k \in DOMAIN blocks |-> w[blocks[k]]]
<1>1. n \in Nat /\ DOMAIN blocks = 1 .. n  OBVIOUS
<1> HIDE DEF T, n
<1>2. ss \in Seq(T) /\ Len(ss) = n
  <2>1. \A k \in 1 .. n : ss[k] = w[blocks[k]]  BY <1>1
  <2>2. \A k \in 1 .. n : ss[k] \in T  BY <1>1, <2>1 DEF Written, T
  <2>3. ss = [k \in 1 .. n |-> ss[k]]  BY <1>1, <2>1
  <2> HIDE DEF ss
  <2> QED BY <1>1, <2>2, <2>3, AsSequence
<1>3. ss = <<>> <=> blocks = <<>>
  <2> HIDE DEF ss
  <2> QED BY <1>1, <1>2 DEF n
<1>4. BlockNames(w, blocks) = NamesOf(FlattenSeq(ss))  BY DEF BlockNames
<1> HIDE DEF ss
<1>5. /\ FlattenSeq(ss) \in T /\ (ss = <<>> => FlattenSeq(ss) = <<>>)
      /\ \A s \in T : FlattenSeq(Append(ss, s)) = FlattenSeq(ss) \o s
  <2>1. \A s \in Seq(EntryRec) : /\ FlattenSeq(ss) \in Seq(EntryRec)
                                 /\ (ss = <<>> => FlattenSeq(ss) = <<>>)
                                 /\ FlattenSeq(Append(ss, s)) = FlattenSeq(ss) \o s
    BY <1>2, FlattenAppend DEF T
  <2>2. <<>> \in Seq(EntryRec)  OBVIOUS
  <2> QED BY <2>1, <2>2, Zenon DEF T
<1>6. BlockNames(w, blocks) \in Seq(Int)  BY <1>4, <1>5, NamesFacts DEF T
<1>7. blocks = <<>> => BlockNames(w, blocks) = <<>>
  <2>1. <<>> \in Seq(EntryRec) /\ NamesOf(<<>>) = <<>>
    <3>1. <<>> \in Seq(EntryRec)  OBVIOUS
    <3> QED BY <3>1, NamesFacts
  <2> QED BY <1>3, <1>4, <1>5, <2>1
<1>8. ASSUME NEW v, \A k \in DOMAIN blocks : v[blocks[k]] = w[blocks[k]]
      PROVE  BlockNames(v, blocks) = BlockNames(w, blocks) /\ Written(v, blocks)
  <2>1. [k \in DOMAIN blocks |-> v[blocks[k]]] = ss  BY <1>8 DEF ss
  <2> QED BY <1>4, <1>8, <2>1, Zenon DEF BlockNames, Written
<1>9. ASSUME NEW v, NEW b \in Nat \ {0}, \A k \in DOMAIN blocks : v[blocks[k]] = w[blocks[k]], v[b] \in T
      PROVE  BlockNames(v, Append(blocks, b)) = BlockNames(w, blocks) \o NamesOf(v[b])
  <2> DEFINE more == Append(blocks, b)
             x == [k \in DOMAIN more |-> v[more[k]]]
             y == Append(ss, v[b])
  <2>1. /\ DOMAIN more = 1 .. n + 1 /\ more[n + 1] = b /\ \A k \in 1 .. n : more[k] = blocks[k]
    BY <1>1 DEF n
  <2>2. y \in Seq(T) /\ Len(y) = n + 1 /\ y[n + 1] = v[b] /\ \A k \in 1 .. n : y[k] = ss[k]
    BY <1>1, <1>2, <1>9
  <2> HIDE DEF more, y
  <2>3. \A k \in 1 .. n + 1 : x[k] = y[k]
    <3>1. \A k \in 1 .. n + 1 : x[k] = v[more[k]]  BY <2>1
    <3>2. \A k \in 1 .. n : ss[k] = w[blocks[k]]  BY <1>1 DEF ss
    <3>3. \A k \in 1 .. n + 1 : k = n + 1 \/ k \in 1 .. n  BY <1>1
    <3> HIDE DEF x
    <3> QED BY <1>1, <1>9, <2>1, <2>2, <3>1, <3>2, <3>3
  <2>4. x = y
    <3>1. x = [k \in 1 .. n + 1 |-> x[k]]  BY <2>1
    <3>2. y = [k \in 1 .. n + 1 |-> y[k]]  BY <1>1, <2>2
    <3> HIDE DEF x
    <3> QED BY <2>3, <3>1, <3>2
  <2>5. FlattenSeq(x) = FlattenSeq(ss) \o v[b]  BY <1>5, <1>9, <2>4 DEF y
  <2>6. NamesOf(FlattenSeq(ss) \o v[b]) = NamesOf(FlattenSeq(ss)) \o NamesOf(v[b])
    BY <1>5, <1>9, NamesJoined DEF T
  <2>7. BlockNames(v, more) = NamesOf(FlattenSeq(x))  BY DEF BlockNames
  <2> HIDE DEF x
  <2> QED BY <1>4, <2>5, <2>6, <2>7, Zenon DEF more
<1> QED BY <1>6, <1>7, <1>8, <1>9 DEF T

\* The names up to the next child.
LEMMA UpToFacts ==
  ASSUME NEW i \in Nat
  PROVE  UpTo(i) \in Seq(Int) /\ UpTo(i + 1) = Append(UpTo(i), i + 1)
<1> DEFINE dots == <<DotName, DotDotName>>
           s == [k \in 1 .. i |-> k]
           t == [k \in 1 .. i + 1 |-> k]
<1>1. dots \in Seq(Int)  BY DEF DotName, DotDotName
<1>2. s \in Seq(Int) /\ Len(s) = i
  <2>1. s = [k \in 1 .. i |-> s[k]] /\ \A k \in 1 .. i : s[k] \in Int  OBVIOUS
  <2> HIDE DEF s
  <2> QED BY <2>1, AsSequence
<1>3. t \in Seq(Int) /\ Len(t) = i + 1
  <2>1. t = [k \in 1 .. i + 1 |-> t[k]] /\ (\A k \in 1 .. i + 1 : t[k] \in Int) /\ i + 1 \in Nat  OBVIOUS
  <2> HIDE DEF t
  <2> QED BY <2>1, AsSequence
<1>4. t = Append(s, i + 1)
  <2> DEFINE u == Append(s, i + 1)
  <2>1. \A k \in 1 .. i : s[k] = k  OBVIOUS
  <2>2. \A k \in 1 .. i + 1 : t[k] = k  OBVIOUS
  <2> HIDE DEF s, t
  <2>3. u \in Seq(Int) /\ Len(u) = i + 1 /\ u[i + 1] = i + 1 /\ \A k \in 1 .. i : u[k] = s[k]
    BY <1>2
  <2> HIDE DEF u
  <2>4. \A k \in 1 .. i + 1 : t[k] = u[k]  BY <2>1, <2>2, <2>3
  <2>5. t = u  BY <1>3, <2>3, <2>4, SeqEqual
  <2> QED BY <2>5 DEF u
<1> HIDE DEF s, t, dots
<1>5. dots \o Append(s, i + 1) = Append(dots \o s, i + 1)  BY <1>1, <1>2, ConcatAppend
<1>6. dots \o s \in Seq(Int)  BY <1>1, <1>2
<1>7. UpTo(i) = dots \o s /\ UpTo(i + 1) = dots \o t  BY DEF UpTo, dots, s, t
<1> QED BY <1>4, <1>5, <1>6, <1>7

\* The dot entries come first.
LEMMA DotNames ==
  /\ NamesOf(DotDirs) = <<DotName, DotDotName>> /\ UpTo(0) = <<DotName, DotDotName>>
  /\ <<DotName, DotDotName>> \in Seq(Int)
<1> DEFINE dots == <<DotName, DotDotName>>
<1>1. dots \in Seq(Int) /\ Len(dots) = 2 /\ dots[1] = DotName /\ dots[2] = DotDotName
  BY DEF DotName, DotDotName
<1>2. NamesOf(DotDirs) = dots
  <2> DEFINE s == NamesOf(DotDirs)
  <2>1. s \in Seq(Int) /\ Len(s) = 2 /\ \A k \in 1 .. 2 : s[k] = DotDirs[k].child
    BY DotDirsFacts, NamesFacts
  <2>2. DotDirs[1].child = DotName /\ DotDirs[2].child = DotDotName
    BY DotDirsFacts DEF Dot
  <2> HIDE DEF s, dots
  <2>3. s[1] = dots[1] /\ s[2] = dots[2]  BY <1>1, <2>1, <2>2
  <2>4. \A k \in 1 .. Len(s) : s[k] = dots[k]  BY <2>1, <2>3
  <2>5. s = dots  BY <1>1, <2>1, <2>4, SeqEqual
  <2> QED BY <2>5 DEF s
<1>3. UpTo(0) = dots
  <2> HIDE DEF dots
  <2>1. [k \in 1 .. 0 |-> k] = <<>>  OBVIOUS
  <2>2. dots \o <<>> = dots  BY <1>1
  <2> QED BY <2>1, <2>2 DEF UpTo, dots
<1> QED BY <1>1, <1>2, <1>3

\* The links up to the next child.
LEMMA LinksFacts ==
  ASSUME NEW t, NEW d, NEW i \in Nat
  PROVE  /\ LinksUpTo(t, d, 0) = IF d = Root THEN 3 ELSE 2
         /\ LinksUpTo(t, d, i) \in Nat
         /\ LinksUpTo(t, d, i + 1) =
              LinksUpTo(t, d, i) + (IF t[d].children[i + 1].dir = 0 THEN 0 ELSE 1)
<1> DEFINE S(n) == { k \in 1 .. n : t[d].children[k].dir # 0 }
           root == IF d = Root THEN 1 ELSE 0
<1>1. root \in Nat  OBVIOUS
<1>2. \A n \in Nat : LinksUpTo(t, d, n) = 2 + Cardinality(S(n)) + root  BY DEF LinksUpTo
<1>3. IsFiniteSet(S(i)) /\ Cardinality(S(i)) \in Nat
  <2>1. IsFiniteSet(1 .. i)  BY FS_Interval
  <2>2. S(i) \subseteq 1 .. i  OBVIOUS
  <2> HIDE DEF S
  <2>3. IsFiniteSet(S(i))  BY <2>1, <2>2, FS_Subset, Zenon
  <2> QED BY <2>3, FS_CardinalityType, Zenon
<1>4. S(0) = {}  OBVIOUS
<1>5. i + 1 \notin S(i)  OBVIOUS
<1>6. S(i + 1) = S(i) \cup (IF t[d].children[i + 1].dir = 0 THEN {} ELSE {i + 1})
  OBVIOUS
<1> HIDE DEF S
<1>7. Cardinality(S(i + 1)) = Cardinality(S(i)) + (IF t[d].children[i + 1].dir = 0 THEN 0 ELSE 1)
  <2>1. CASE t[d].children[i + 1].dir = 0
    <3>1. S(i + 1) = S(i)  BY <1>6, <2>1
    <3> QED BY <1>3, <2>1, <3>1
  <2>2. CASE t[d].children[i + 1].dir # 0
    <3>1. S(i + 1) = S(i) \cup {i + 1}  BY <1>6, <2>2
    <3>2. Cardinality(S(i) \cup {i + 1}) = Cardinality(S(i)) + 1
      BY <1>3, <1>5, FS_AddElement, Zenon
    <3> QED BY <2>2, <3>1, <3>2
  <2> QED BY <2>1, <2>2
<1>8. Cardinality(S(0)) = 0  BY <1>4, FS_EmptySet, Zenon
<1>9. LinksUpTo(t, d, 0) = 2 + root  BY <1>2, <1>8
<1>10. LinksUpTo(t, d, i) \in Nat  BY <1>1, <1>2, <1>3
<1>11. LinksUpTo(t, d, i + 1) = LinksUpTo(t, d, i) + (IF t[d].children[i + 1].dir = 0 THEN 0 ELSE 1)
  <2>1. /\ LinksUpTo(t, d, i + 1) = 2 + Cardinality(S(i + 1)) + root
        /\ LinksUpTo(t, d, i) = 2 + Cardinality(S(i)) + root
    BY <1>2
  <2> HIDE DEF root
  <2> QED BY <1>1, <1>3, <1>7, <2>1
<1> QED BY <1>9, <1>10, <1>11

\* An entry that is a directory adds a link, one that is a file none.
LEMMA LinksCounted ==
  ASSUME DirTypes, NEW d \in DOMAIN tree, NEW i \in Nat, links[d] = LinksUpTo(tree, d, i),
         links' = LinksAfter(d, tree[d].children[i + 1].dir)
  PROVE  /\ links'[d] = LinksUpTo(tree, d, i + 1)
         /\ \A e \in Dirs \ {d} : links'[e] = links[e]
<1> DEFINE c == tree[d].children[i + 1].dir
<1>1. links \in [Dirs -> Nat] /\ d \in Dirs  BY DEF DirTypes, Dirs
<1>2. LinksUpTo(tree, d, i + 1) = LinksUpTo(tree, d, i) + (IF c = 0 THEN 0 ELSE 1)
      /\ LinksUpTo(tree, d, i) \in Nat
  BY LinksFacts
<1>3. links' = IF c = 0 THEN links ELSE [links EXCEPT ![d] = @ + 1]  BY DEF LinksAfter
<1> HIDE DEF c
<1> QED BY <1>1, <1>2, <1>3

\* The blocks of a directory are written.
LEMMA RegisteredWritten ==
  ASSUME DirTypes, Chains, NEW d \in Dirs
  PROVE  /\ registered[d] \in Seq(Nat \ {0}) /\ Written(written, registered[d])
         /\ \A k \in DOMAIN registered[d] : registered[d][k] \in Blocks(d)
         /\ BlockNames(written, registered[d]) \in Seq(Int)
<1>1. registered[d] \in Seq(Nat \ {0})  BY DEF DirTypes
<1>2. \A k \in DOMAIN registered[d] : registered[d][k] \in Blocks(d)  BY DEF Blocks
<1>3. Written(written, registered[d])
  <2> SUFFICES ASSUME NEW k \in DOMAIN registered[d]
               PROVE  written[registered[d][k]] \in Seq(EntryRec)
    BY DEF Written
  <2>1. registered[d][k] \in DOMAIN written  BY <1>2 DEF Chains
  <2> QED BY <2>1, WrittenFacts
<1>4. BlockNames(written, registered[d]) \in Seq(Int)  BY <1>1, <1>3, BlockNamesFacts
<1> QED BY <1>1, <1>2, <1>3, <1>4

\* A step for directory D lets the others be.
LEMMA OthersListed ==
  ASSUME DirTypes, Chains, Listings, tree' = tree, pc # "exited", NEW D \in Dirs,
         \A e \in Dirs \ {D} : /\ registered'[e] = registered[e] /\ links'[e] = links[e]
                               /\ size'[e] = size[e]
                               /\ \A x \in Blocks(e) : written'[x] = written[x],
         \A e \in Dirs \ {D} : More(e)' = More(e),
         \A k \in DOMAIN stack' : stack'[k].dir # D =>
           /\ k \in DOMAIN stack /\ stack'[k] = stack[k]
           /\ written'[stack[k].block] = written[stack[k].block],
         \A k \in DOMAIN stack : stack[k].dir # D => k \in DOMAIN stack' /\ stack'[k] = stack[k],
         \A k \in DOMAIN stack' : stack'[k].dir = D =>
           Going(tree, written', registered', links', stack'[k]),
         D \in DOMAIN tree /\ Untouched(D)' => links'[D] = LinksUpTo(tree, D, 0),
         D \in DOMAIN tree /\ Finished(D)' /\ pc' # "exited" =>
           Complete(tree, written', registered', links', size', D, More(D)'),
         links'[LostFound] = 2,
         pc' = "done" => /\ BlockNames(written', registered'[LostFound]) = <<DotName, DotDotName>>
                         /\ size'[LostFound] = Len(registered'[LostFound])
  PROVE  Listings'
<1>1. ASSUME NEW e \in Dirs, e # D
      PROVE  BlockNames(written', registered'[e]) = BlockNames(written, registered[e])
  <2>1. registered'[e] = registered[e] /\ \A x \in Blocks(e) : written'[x] = written[x]  BY <1>1
  <2>2. /\ registered[e] \in Seq(Nat \ {0}) /\ Written(written, registered[e])
        /\ \A k \in DOMAIN registered[e] : registered[e][k] \in Blocks(e)
    BY RegisteredWritten
  <2>3. \A k \in DOMAIN registered[e] : written'[registered[e][k]] = written[registered[e][k]]
    BY <2>1, <2>2
  <2>4. BlockNames(written', registered[e]) = BlockNames(written, registered[e])
    BY <2>2, <2>3, BlockNamesFacts
  <2> QED BY <2>1, <2>4
<1>2. \A e \in Dirs \ {D} : (\A k \in DOMAIN stack' : stack'[k].dir # e)
                              <=> (\A k \in DOMAIN stack : stack[k].dir # e)
  OBVIOUS
<1>3. \A e \in DOMAIN tree : e # D => e \in Dirs  BY DEF Dirs
<1>4. ASSUME NEW k \in DOMAIN stack' PROVE Going(tree', written', registered', links', stack'[k])
  <2>1. CASE stack'[k].dir = D  BY <2>1
  <2>2. CASE stack'[k].dir # D
    <3>1. /\ k \in DOMAIN stack /\ stack'[k] = stack[k]
          /\ written'[stack[k].block] = written[stack[k].block]
      BY <2>2
    <3>2. stack[k].dir \in Dirs /\ stack[k].dir # D  BY <2>2, <3>1, StackFacts DEF Dirs
    <3>3. Going(tree, written, registered, links, stack[k])  BY <3>1 DEF Listings
    <3>4. /\ BlockNames(written', registered'[stack[k].dir]) = BlockNames(written, registered[stack[k].dir])
          /\ registered'[stack[k].dir] = registered[stack[k].dir] /\ links'[stack[k].dir] = links[stack[k].dir]
      BY <1>1, <3>2
    <3> QED BY <3>1, <3>3, <3>4 DEF Going
  <2> QED BY <2>1, <2>2
<1>5. ASSUME NEW e \in DOMAIN tree, Untouched(e)' PROVE links'[e] = LinksUpTo(tree, e, 0)
  <2>1. CASE e = D  BY <1>5, <2>1
  <2>2. CASE e # D
    <3>1. Untouched(e)  BY <1>2, <1>3, <1>5, <2>2 DEF Untouched
    <3>2. links[e] = LinksUpTo(tree, e, 0)  BY <3>1 DEF Listings
    <3> QED BY <1>3, <2>2, <3>2
  <2> QED BY <2>1, <2>2
<1>6. ASSUME NEW e \in DOMAIN tree, Finished(e)', pc' # "exited"
      PROVE  Complete(tree, written', registered', links', size', e, More(e)')
  <2>1. CASE e = D  BY <1>6, <2>1
  <2>2. CASE e # D
    <3>1. Finished(e)  BY <1>2, <1>3, <1>6, <2>2 DEF Finished
    <3>2. Complete(tree, written, registered, links, size, e, More(e))  BY <3>1 DEF Listings
    <3>3. /\ BlockNames(written', registered'[e]) = BlockNames(written, registered[e])
          /\ registered'[e] = registered[e] /\ links'[e] = links[e] /\ size'[e] = size[e]
          /\ More(e)' = More(e)
      BY <1>1, <1>3, <2>2
    <3> QED BY <3>2, <3>3 DEF Complete
  <2> QED BY <2>1, <2>2
<1> QED BY <1>4, <1>5, <1>6 DEF Listings

\* The names in a block more.
LEMMA BlockNamesAppend ==
  ASSUME NEW w, NEW blocks \in Seq(Nat \ {0}), Written(w, blocks), NEW v, NEW b \in Nat \ {0},
         \A k \in DOMAIN blocks : v[blocks[k]] = w[blocks[k]], v[b] \in Seq(EntryRec)
  PROVE  BlockNames(v, Append(blocks, b)) = BlockNames(w, blocks) \o NamesOf(v[b])
<1>1. /\ BlockNames(w, blocks) \in Seq(Int)
      /\ blocks = <<>> => BlockNames(w, blocks) = <<>>
      /\ \A x : (\A k \in DOMAIN blocks : x[blocks[k]] = w[blocks[k]]) =>
                  /\ BlockNames(x, blocks) = BlockNames(w, blocks) /\ Written(x, blocks)
      /\ \A x : \A c \in Nat \ {0} :
           /\ \A k \in DOMAIN blocks : x[blocks[k]] = w[blocks[k]]
           /\ x[c] \in Seq(EntryRec)
           => BlockNames(x, Append(blocks, c)) = BlockNames(w, blocks) \o NamesOf(x[c])
  BY BlockNamesFacts
<1> QED BY <1>1, Zenon

\* A directory is entered: its two dot entries are the names so far.
LEMMA EnterListed ==
  ASSUME DirInv, Chains, Listings, Enter
  PROVE  Listings'
<1>1. /\ DirTypes /\ Calls /\ MetOnce /\ tree' = tree /\ registered' = registered
      /\ links' = links /\ size' = size /\ pc = "call" /\ pc' = "loop"
  BY DEF DirInv, Enter
<1>2. PICK n : \E f \in FrameRec(tree) :
           /\ n = BlockFor(tree[Callee].extents, init(1)) /\ n[1] # NoBlock
           /\ f.dir = Callee /\ f.block = n[1] /\ f.iterator = n[2] /\ f.i = 0
           /\ f.position_in_block = 2 * EXT4_DOT_DENTRY_SIZE /\ f.block_count = 1
           /\ stack' = Append(stack, f)
           /\ n[1] \in Nat \ {0} /\ \A e \in Dirs : ~ Owns(e, n[1])
  BY EnterFrame, Zenon
<1>3. PICK f \in FrameRec(tree) :
           /\ n = BlockFor(tree[Callee].extents, init(1))
           /\ f.dir = Callee /\ f.block = n[1] /\ f.i = 0 /\ f.block_count = 1
           /\ stack' = Append(stack, f) /\ \A e \in Dirs : ~ Owns(e, n[1])
  BY <1>2, Zenon
<1>4. PICK D \in DOMAIN tree : D = Callee /\ Untouched(D)  BY <1>1, CalleeFacts
<1> DEFINE b == n[1]
<1>5. written' = Put(written, b, DotDirs)  BY <1>3, Zenon DEF Enter
<1>6. f.dir = D /\ f.block = b /\ f.i = 0 /\ f.block_count = 1 /\ \A e \in Dirs : ~ Owns(e, b)
  BY <1>3, <1>4
<1> HIDE DEF b
<1>7. /\ written'[b] = DotDirs /\ \A x \in DOMAIN written \ {b} : written'[x] = written[x]
  <2>1. written \in [DOMAIN written -> Seq(EntryRec)] /\ DotDirs \in Seq(EntryRec)
    BY <1>1, DotDirsFacts DEF DirTypes
  <2>2. PutOf(written, b, DotDirs, written')  BY <1>5, <2>1, PutEntries, Zenon
  <2> QED BY <2>2 DEF PutOf
<1>8. /\ DOMAIN stack' = DOMAIN stack \cup {Len(stack) + 1}
      /\ stack'[Len(stack) + 1] = f /\ \A k \in DOMAIN stack : stack'[k] = stack[k]
  <2>1. stack \in Seq(FrameRec(tree))  BY <1>1 DEF DirTypes
  <2> QED BY <1>3, <2>1
<1>9. registered[D] = <<>> /\ \A k \in DOMAIN stack : stack[k].dir # D  BY <1>4 DEF Untouched
<1>10. Going(tree, written', registered', links', f)
  <2>1. PICK s \in Seq(Nat \ {0}) : s = <<>> /\ s = registered[D] /\ DOMAIN s = {} /\ Len(s) = 0
    <3>1. <<>> \in Seq(Nat \ {0}) /\ DOMAIN <<>> = {} /\ Len(<<>>) = 0  OBVIOUS
    <3> QED BY <1>9, <3>1
  <2>2. Written(written', s)  BY <2>1 DEF Written
  <2>3. BlockNames(written', s) = <<>>  BY <2>1, <2>2, BlockNamesFacts
  <2>4. <<>> \o UpTo(0) = UpTo(0)
    <3>1. UpTo(0) \in Seq(Int)  BY DotNames
    <3> QED BY <3>1
  <2>5. NamesOf(written'[f.block]) = UpTo(0)  BY <1>6, <1>7, DotNames
  <2>6. links'[D] = LinksUpTo(tree, D, 0)  BY <1>1, <1>4 DEF Listings
  <2>7. registered'[D] = s  BY <1>1, <2>1
  <2>8. f.block_count = Len(s) + 1  BY <1>6, <2>1
  <2> QED BY <1>6, <2>3, <2>4, <2>5, <2>6, <2>7, <2>8 DEF Going
<1>11. \A k \in DOMAIN stack : stack[k].block # b /\ stack[k].block \in DOMAIN written
  <2> SUFFICES ASSUME NEW k \in DOMAIN stack
               PROVE  stack[k].block # b /\ stack[k].block \in DOMAIN written
    OBVIOUS
  <2>1. stack[k].dir \in Dirs  BY <1>1, StackFacts DEF Dirs
  <2>2. Owns(stack[k].dir, stack[k].block)  BY DEF Owns
  <2> QED BY <1>1, <1>6, <2>1, <2>2 DEF DirTypes
<1>12. \A e \in Dirs : \A x \in Blocks(e) : written'[x] = written[x]
  <2> SUFFICES ASSUME NEW e \in Dirs, NEW x \in Blocks(e) PROVE written'[x] = written[x]
    OBVIOUS
  <2>1. x \in DOMAIN written  BY DEF Chains
  <2>2. x # b  BY <1>6 DEF Owns
  <2> QED BY <1>7, <2>1, <2>2
<1>13. Len(stack) + 1 \notin DOMAIN stack /\ Len(stack) + 1 \in DOMAIN stack'
  BY <1>1, <1>8, StackFacts
<1>14. ~ Untouched(D)' /\ ~ Finished(D)'
  BY <1>6, <1>8, <1>13 DEF Untouched, Finished
<1>15. D \in Dirs  BY DEF Dirs
<1>16. \A e : More(e)' = More(e)  BY <1>1 DEF More
<1>17. \A e \in Dirs \ {D} : /\ registered'[e] = registered[e] /\ links'[e] = links[e]
                              /\ size'[e] = size[e]
                              /\ \A x \in Blocks(e) : written'[x] = written[x]
  BY <1>1, <1>12
<1>18. ASSUME NEW k \in DOMAIN stack', stack'[k].dir # D
       PROVE  /\ k \in DOMAIN stack /\ stack'[k] = stack[k]
              /\ written'[stack[k].block] = written[stack[k].block]
  <2>1. k \in DOMAIN stack /\ stack'[k] = stack[k]  BY <1>6, <1>8, <1>18
  <2> QED BY <1>7, <1>11, <2>1
<1>19. \A k \in DOMAIN stack : stack[k].dir # D => k \in DOMAIN stack' /\ stack'[k] = stack[k]
  BY <1>8
<1>20. ASSUME NEW k \in DOMAIN stack', stack'[k].dir = D
       PROVE  Going(tree, written', registered', links', stack'[k])
  BY <1>8, <1>9, <1>10, <1>20
<1>21. links'[LostFound] = 2  BY <1>1 DEF Listings
<1> QED
  BY <1>1, <1>14, <1>15, <1>16, <1>17, <1>18, <1>19, <1>20, <1>21, OthersListed

\* An entry is added to the current block: its name is the next one, and a
\* directory counts as a link.
LEMMA AddDentryListed ==
  ASSUME DirInv, Chains, Listings, AddDentry
  PROVE  Listings'
<1>1. /\ DirTypes /\ Calls /\ BlocksHaveOneOwner
      /\ pc = "loop" /\ MoreChildren /\ tree' = tree /\ registered' = registered /\ size' = size
      /\ Place(Top, written[Top.block], Top.position_in_block, Top.block, Top.iterator, Top.block_count)
  BY DEF DirInv, AddDentry
<1>2. PICK L \in DOMAIN stack, D \in DOMAIN tree : L = Len(stack) /\ D = Top.dir /\ Top = stack[L]
  BY <1>1, NextChild
<1>3. PICK B \in DOMAIN written : \E p \in Nat : B = Top.block /\ p = Top.position_in_block
  BY <1>1, <1>2, StackFacts DEF DirTypes
<1>4. PICK p \in Nat : B = Top.block /\ p = Top.position_in_block  BY <1>3
<1> DEFINE len == tree[Top.dir].children[Top.i + 1].len
           rec == [child |-> Top.i + 1, rec_len |-> len]
<1>5. len \in 0 .. BlockSize /\ BlockSize \in Nat  BY <1>1, NextChild, DirFacts
<1>6. p + len <= BlockSize
  <2>1. len <= BlockSize - p  BY <1>4 DEF AddDentry, Fits
  <2> HIDE DEF len
  <2> QED BY <1>5, <2>1
<1>7. written[B] \in Seq(EntryRec)  BY <1>1, WrittenFacts
<1>8. Place(Top, written[B], p, B, Top.iterator, Top.block_count)  BY <1>1, <1>4
<1>9. PICK g : WentOn(B, Top.iterator, p + len, Top.block_count, g)
  <2>1. B \in Nat \ {0} /\ Top.iterator \in IteratorRec /\ Top.block_count \in Nat
    BY <1>1, <1>2, <1>4, StackFacts
  <2>2. \E g : WentOn(B, Top.iterator, p + len, Top.block_count, g)
    BY <1>1, <1>6, <1>8, <2>1, PlaceFrame
  <2> QED BY <2>2, Zenon
<1>10. /\ written'[B] = Append(written[B], rec)
       /\ \A x \in DOMAIN written \ {B} : written'[x] = written[x]
  <2>1. /\ written'[B] = Append(written[B], rec)
        /\ \A x \in DOMAIN written \ {B, Top.block} : written'[x] = written[x]
    <3>1. PlacedIn(written[B], B)  BY <1>1, <1>7, <1>8, PlaceWritten, Zenon
    <3> QED BY <3>1, Zenon DEF PlacedIn
  <2> HIDE DEF rec
  <2> QED BY <1>4, <2>1
<1>11. rec \in EntryRec /\ rec.child = Top.i + 1
  <2>1. rec = [child |-> Top.i + 1, rec_len |-> tree[Top.dir].children[Top.i + 1].len]  OBVIOUS
  <2> HIDE DEF rec
  <2> QED BY <1>1, <2>1, NextEntry
<1> HIDE DEF rec
<1>12. /\ g.dir = D /\ g.block = B /\ g.i = Top.i + 1 /\ g.block_count = Top.block_count
       /\ DOMAIN stack' = DOMAIN stack /\ stack'[L] = g
       /\ \A k \in DOMAIN stack : k # L => stack'[k] = stack[k]
  <2> HIDE DEF len
  <2> QED BY <1>2, <1>9 DEF WentOn, MovedTo
<1> HIDE DEF len
<1>13. Top.i \in Nat  BY <1>1, NextChild
<1>14. /\ BlockNames(written, registered[D]) \o NamesOf(written[B]) = UpTo(Top.i)
       /\ Top.block_count = Len(registered[D]) + 1
       /\ links[D] = LinksUpTo(tree, D, Top.i)
  BY <1>2, <1>4 DEF Listings, Going
<1>15. D \in Dirs  BY DEF Dirs
<1>16. \A e \in Dirs : \A x \in Blocks(e) : x # B /\ written'[x] = written[x]
  <2> SUFFICES ASSUME NEW e \in Dirs, NEW x \in Blocks(e) PROVE x # B /\ written'[x] = written[x]
    OBVIOUS
  <2>1. x \in DOMAIN written  BY DEF Chains
  <2>2. x # B  BY <1>1, <1>2, <1>4 DEF BlocksHaveOneOwner
  <2> QED BY <1>10, <2>1, <2>2
<1>17. links'[D] = LinksUpTo(tree, D, Top.i + 1) /\ \A e \in Dirs \ {D} : links'[e] = links[e]
  <2>1. links' = LinksAfter(D, tree[D].children[Top.i + 1].dir)  BY <1>2, <1>8 DEF Place
  <2> QED BY <1>1, <1>13, <1>14, <2>1, LinksCounted
<1>18. Going(tree, written', registered', links', g)
  <2>1. /\ registered[D] \in Seq(Nat \ {0}) /\ Written(written, registered[D])
        /\ \A k \in DOMAIN registered[D] : registered[D][k] \in Blocks(D)
        /\ BlockNames(written, registered[D]) \in Seq(Int)
    BY <1>1, <1>15, RegisteredWritten
  <2>2. \A k \in DOMAIN registered[D] : written'[registered[D][k]] = written[registered[D][k]]
    BY <1>15, <1>16, <2>1
  <2>3. BlockNames(written', registered[D]) = BlockNames(written, registered[D])
    BY <2>1, <2>2, BlockNamesFacts
  <2>4. NamesOf(written'[B]) = Append(NamesOf(written[B]), Top.i + 1)
    <3>1. NamesOf(Append(written[B], rec)) = Append(NamesOf(written[B]), rec.child)
      BY <1>7, <1>11, NamesJoined
    <3> QED BY <1>10, <1>11, <3>1
  <2>5. NamesOf(written[B]) \in Seq(Int)  BY <1>7, NamesFacts
  <2> DEFINE s == BlockNames(written, registered[D])
             t == NamesOf(written[B])
             c == Top.i + 1
  <2>6. s \in Seq(Int) /\ t \in Seq(Int) /\ c \in Int /\ s \o t = UpTo(Top.i)
    BY <1>13, <1>14, <2>1, <2>5
  <2>7. UpTo(c) = Append(UpTo(Top.i), c)  BY <1>13, UpToFacts
  <2>8. BlockNames(written', registered[D]) = s /\ NamesOf(written'[B]) = Append(t, c)
    BY <2>3, <2>4
  <2> HIDE DEF s, t, c
  <2>9. s \o Append(t, c) = Append(s \o t, c)  BY <2>6, ConcatAppend
  <2>10. BlockNames(written', registered'[D]) \o NamesOf(written'[B]) = UpTo(c)
    BY <1>1, <2>6, <2>7, <2>8, <2>9
  <2>11. g.block_count = Len(registered'[D]) + 1  BY <1>1, <1>12, <1>14
  <2> QED BY <1>12, <1>17, <2>10, <2>11 DEF Going, c
<1>19. L \in DOMAIN stack'  BY <1>12
<1>20. ~ Untouched(D)' /\ ~ Finished(D)'
  BY <1>12, <1>19 DEF Untouched, Finished
<1>21. \A k \in DOMAIN stack : k # L => stack[k].dir # D  BY <1>1, <1>2 DEF Calls
<1>22. \A e : More(e)' = More(e)
  <2>1. pc' \in {"loop", "call"}  BY <1>8 DEF Place
  <2> QED BY <1>1, <2>1 DEF More
<1>23. \A e \in Dirs \ {D} : /\ registered'[e] = registered[e] /\ links'[e] = links[e]
                              /\ size'[e] = size[e]
                              /\ \A x \in Blocks(e) : written'[x] = written[x]
  BY <1>1, <1>16, <1>17
<1>24. ASSUME NEW k \in DOMAIN stack', stack'[k].dir # D
       PROVE  /\ k \in DOMAIN stack /\ stack'[k] = stack[k]
              /\ written'[stack[k].block] = written[stack[k].block]
  <2>1. k \in DOMAIN stack /\ k # L /\ stack'[k] = stack[k]  BY <1>12, <1>24
  <2>2. stack[k].block # B /\ stack[k].block \in DOMAIN written
    BY <1>1, <1>2, <1>4, <2>1 DEF BlocksHaveOneOwner, DirTypes
  <2> QED BY <1>10, <2>1, <2>2
<1>25. \A k \in DOMAIN stack : stack[k].dir # D => k \in DOMAIN stack' /\ stack'[k] = stack[k]
  BY <1>2, <1>12
<1>26. ASSUME NEW k \in DOMAIN stack', stack'[k].dir = D
       PROVE  Going(tree, written', registered', links', stack'[k])
  BY <1>12, <1>18, <1>21, <1>26
<1>27. links'[LostFound] = 2
  <2>1. LostFound # D /\ LostFound \in Dirs  BY <1>1, DirFacts
  <2> QED BY <1>17, <2>1 DEF Listings
<1>28. pc' # "done"  BY <1>8 DEF Place
<1>29. DirTypes /\ Chains /\ Listings /\ tree' = tree /\ pc # "exited"  BY <1>1
<1> QED
  BY <1>15, <1>20, <1>22, <1>23, <1>24, <1>25, <1>26, <1>27, <1>28, <1>29, OthersListed

\* An entry goes to the next block, the block before it is registered.
LEMMA NextBlockListed ==
  ASSUME DirInv, Chains, Listings, AddDentryInNextBlock
  PROVE  Listings'
<1>1. /\ DirTypes /\ Calls /\ BlocksHaveOneOwner
      /\ pc = "loop" /\ MoreChildren /\ tree' = tree /\ size' = size
      /\ registered' = [registered EXCEPT ![Top.dir] = Append(@, Top.block)]
  BY DEF DirInv, AddDentryInNextBlock, Registered
<1>2. PICK n : /\ n[1] \in Nat \ {0} /\ n[2] \in IteratorRec
               /\ \A e \in Dirs : ~ Owns(e, n[1])
               /\ Place(Top, <<>>, 0, n[1], n[2], Top.block_count + 1)
  BY NextBlockFrame, Zenon
<1>3. PICK L \in DOMAIN stack, D \in DOMAIN tree : L = Len(stack) /\ D = Top.dir /\ Top = stack[L]
  BY <1>1, NextChild
<1>4. PICK B \in Nat \ {0} : B = Top.block /\ B \in DOMAIN written
  BY <1>1, <1>3, StackFacts DEF DirTypes
<1> DEFINE len == tree[Top.dir].children[Top.i + 1].len
           rec == [child |-> Top.i + 1, rec_len |-> len]
           b == n[1]
<1>5. len \in 0 .. BlockSize /\ BlockSize \in Nat  BY <1>1, NextChild, DirFacts
<1>6. 0 + len <= BlockSize
  <2> HIDE DEF len
  <2> QED BY <1>5
<1>7. PICK g : WentOn(b, n[2], 0 + len, Top.block_count + 1, g)
  <2>1. Top.block_count + 1 \in Nat /\ 0 \in Nat  BY <1>1, <1>3, StackFacts
  <2>2. \E g : WentOn(b, n[2], 0 + len, Top.block_count + 1, g)
    BY <1>1, <1>2, <1>6, <2>1, PlaceFrame
  <2> QED BY <2>2, Zenon
<1>8. B # b /\ \A k \in DOMAIN stack : stack[k].block # b
  <2>1. ASSUME NEW k \in DOMAIN stack PROVE stack[k].block # b
    <3>1. stack[k].dir \in Dirs  BY <1>1, StackFacts DEF Dirs
    <3>2. Owns(stack[k].dir, stack[k].block)  BY DEF Owns
    <3> QED BY <1>2, <3>1, <3>2
  <2> QED BY <1>3, <1>4, <2>1
<1>9. PICK s \in Seq(EntryRec) : s = <<>> /\ NamesOf(s) = <<>>
                                  /\ Place(Top, s, 0, b, n[2], Top.block_count + 1)
  <2>1. <<>> \in Seq(EntryRec)  OBVIOUS
  <2>2. NamesOf(<<>>) = <<>>  BY <2>1, NamesFacts
  <2> QED BY <1>2, <2>1, <2>2, Zenon
<1>10. /\ written'[b] = Append(s, rec)
       /\ written'[B] = Filled(written[B], Top.position_in_block)
       /\ \A x \in DOMAIN written \ {b, B} : written'[x] = written[x]
  <2> HIDE DEF b
  <2>1. s \in Seq(EntryRec) /\ Place(Top, s, 0, b, n[2], Top.block_count + 1)  BY <1>9
  <2>2. /\ written'[b] = Append(s, rec)
        /\ b # Top.block => written'[Top.block] = Filled(written[Top.block], Top.position_in_block)
        /\ \A x \in DOMAIN written \ {b, Top.block} : written'[x] = written[x]
    <3>1. PlacedIn(s, b)  BY <1>1, <2>1, PlaceWritten, Zenon
    <3> QED BY <3>1, Zenon DEF PlacedIn
  <2> HIDE DEF rec
  <2>3. B # b  BY <1>8 DEF b
  <2> QED BY <1>4, <2>2, <2>3
<1>11. rec \in EntryRec /\ rec.child = Top.i + 1
  <2>1. rec = [child |-> Top.i + 1, rec_len |-> tree[Top.dir].children[Top.i + 1].len]  OBVIOUS
  <2> HIDE DEF rec
  <2> QED BY <1>1, <2>1, NextEntry
<1> HIDE DEF rec
<1>12. /\ g.dir = D /\ g.block = b /\ g.i = Top.i + 1 /\ g.block_count = Top.block_count + 1
       /\ DOMAIN stack' = DOMAIN stack /\ stack'[L] = g
       /\ \A k \in DOMAIN stack : k # L => stack'[k] = stack[k]
  <2> HIDE DEF len, b
  <2> QED BY <1>3, <1>7 DEF WentOn, MovedTo
<1>13. \A e \in Dirs : ~ Owns(e, b)  BY <1>2
<1> HIDE DEF len, b
<1>14. Top.i \in Nat /\ Top.position_in_block \in 0 .. BlockSize
  BY <1>1, <1>3, StackFacts
<1>15. /\ BlockNames(written, registered[D]) \o NamesOf(written[B]) = UpTo(Top.i)
       /\ Top.block_count = Len(registered[D]) + 1
       /\ links[D] = LinksUpTo(tree, D, Top.i)
  BY <1>3, <1>4 DEF Listings, Going
<1>16. D \in Dirs  BY DEF Dirs
<1>17. \A e \in Dirs : \A x \in Blocks(e) : written'[x] = written[x]
  <2> SUFFICES ASSUME NEW e \in Dirs, NEW x \in Blocks(e) PROVE written'[x] = written[x]
    OBVIOUS
  <2>1. x \in DOMAIN written  BY DEF Chains
  <2>2. x # B  BY <1>1, <1>3, <1>4 DEF BlocksHaveOneOwner
  <2>3. x # b  BY <1>13 DEF Owns
  <2> QED BY <1>10, <2>1, <2>2, <2>3
<1>18. links'[D] = LinksUpTo(tree, D, Top.i + 1) /\ \A e \in Dirs \ {D} : links'[e] = links[e]
  <2>1. links' = LinksAfter(D, tree[D].children[Top.i + 1].dir)  BY <1>3, <1>9 DEF Place
  <2> QED BY <1>1, <1>14, <1>15, <2>1, LinksCounted
<1>19. /\ registered[D] \in Seq(Nat \ {0}) /\ Written(written, registered[D])
       /\ \A k \in DOMAIN registered[D] : registered[D][k] \in Blocks(D)
       /\ BlockNames(written, registered[D]) \in Seq(Int)
  BY <1>1, <1>16, RegisteredWritten
<1>20. registered'[D] = Append(registered[D], B) /\ \A e \in Dirs \ {D} : registered'[e] = registered[e]
  <2>1. registered \in [Dirs -> Seq(Nat \ {0})]  BY <1>1 DEF DirTypes
  <2> QED BY <1>1, <1>3, <1>4, <1>16, <2>1
<1>21. BlockNames(written', registered'[D]) = UpTo(Top.i)
  <2>1. \A k \in DOMAIN registered[D] : written'[registered[D][k]] = written[registered[D][k]]
    BY <1>16, <1>17, <1>19
  <2>2. written[B] \in Seq(EntryRec)  BY <1>1, <1>4, WrittenFacts
  <2>3. /\ written'[B] \in Seq(EntryRec) /\ NamesOf(written'[B]) = NamesOf(written[B])
    <3>1. PICK q \in 0 .. BlockSize, r \in Seq(EntryRec) : q = Top.position_in_block /\ r = written[B]
      BY <1>14, <2>2
    <3>2. Filled(r, q) \in Seq(EntryRec)  BY <1>5, FilledFacts
    <3>3. NamesOf(Filled(r, q)) = NamesOf(r)  BY <1>5, NamesJoined
    <3> QED BY <1>10, <3>1, <3>2, <3>3
  <2>4. BlockNames(written', Append(registered[D], B))
          = BlockNames(written, registered[D]) \o NamesOf(written'[B])
    <3>1. registered[D] \in Seq(Nat \ {0}) /\ Written(written, registered[D])  BY <1>19
    <3>2. written'[B] \in Seq(EntryRec)  BY <2>3
    <3>3. PICK v, w, r : v = written' /\ w = written /\ r = registered[D]  OBVIOUS
    <3>4. /\ r \in Seq(Nat \ {0}) /\ Written(w, r) /\ v[B] \in Seq(EntryRec)
          /\ \A k \in DOMAIN r : v[r[k]] = w[r[k]]
      BY <2>1, <3>1, <3>2, <3>3
    <3>5. BlockNames(v, Append(r, B)) = BlockNames(w, r) \o NamesOf(v[B])
      <4>1. r \in Seq(Nat \ {0})  BY <3>4
      <4>2. Written(w, r) /\ \A k \in DOMAIN r : v[r[k]] = w[r[k]]  BY <3>4
      <4>3. v[B] \in Seq(EntryRec)  BY <3>4
      <4> QED BY <4>1, <4>2, <4>3, BlockNamesAppend
    <3> QED BY <3>3, <3>5
  <2> QED BY <1>15, <1>20, <2>3, <2>4
<1>22. Going(tree, written', registered', links', g)
  <2>1. NamesOf(written'[b]) = Append(<<>>, Top.i + 1)
    <3>1. NamesOf(Append(s, rec)) = Append(NamesOf(s), rec.child)
      BY <1>9, <1>11, NamesJoined
    <3> QED BY <1>9, <1>10, <1>11, <3>1
  <2>2. UpTo(Top.i) \in Seq(Int) /\ UpTo(Top.i + 1) = Append(UpTo(Top.i), Top.i + 1)
    BY <1>14, UpToFacts
  <2>3. UpTo(Top.i) \o Append(<<>>, Top.i + 1) = Append(UpTo(Top.i), Top.i + 1)
    <3> DEFINE u == UpTo(Top.i)
               c == Top.i + 1
    <3>1. u \in Seq(Int) /\ <<>> \in Seq(Int) /\ c \in Int  BY <1>14, <2>2
    <3> HIDE DEF u, c
    <3>2. u \o Append(<<>>, c) = Append(u \o <<>>, c)  BY <3>1, ConcatAppend
    <3>3. u \o <<>> = u  BY <3>1
    <3> QED BY <3>2, <3>3 DEF u, c
  <2>4. BlockNames(written', registered'[D]) \o NamesOf(written'[b]) = UpTo(Top.i + 1)
    BY <1>21, <2>1, <2>2, <2>3
  <2>5. g.block_count = Len(registered'[D]) + 1
    <3>1. Len(Append(registered[D], B)) = Len(registered[D]) + 1  BY <1>4, <1>19
    <3> QED BY <1>12, <1>15, <1>20, <3>1
  <2> QED BY <1>12, <1>18, <2>4, <2>5 DEF Going
<1>23. L \in DOMAIN stack'  BY <1>12
<1>24. ~ Untouched(D)' /\ ~ Finished(D)'
  BY <1>12, <1>23 DEF Untouched, Finished
<1>25. \A k \in DOMAIN stack : k # L => stack[k].dir # D  BY <1>1, <1>3 DEF Calls
<1>26. \A e : More(e)' = More(e)
  <2>1. pc' \in {"loop", "call"}  BY <1>9 DEF Place
  <2> QED BY <1>1, <2>1 DEF More
<1>27. \A e \in Dirs \ {D} : /\ registered'[e] = registered[e] /\ links'[e] = links[e]
                              /\ size'[e] = size[e]
                              /\ \A x \in Blocks(e) : written'[x] = written[x]
  BY <1>1, <1>17, <1>18, <1>20
<1>28. ASSUME NEW k \in DOMAIN stack', stack'[k].dir # D
       PROVE  /\ k \in DOMAIN stack /\ stack'[k] = stack[k]
              /\ written'[stack[k].block] = written[stack[k].block]
  <2>1. k \in DOMAIN stack /\ k # L /\ stack'[k] = stack[k]  BY <1>12, <1>28
  <2>2. stack[k].block # B /\ stack[k].block \in DOMAIN written /\ stack[k].block # b
    BY <1>1, <1>3, <1>4, <1>8, <2>1 DEF BlocksHaveOneOwner, DirTypes
  <2> QED BY <1>10, <2>1, <2>2
<1>29. \A k \in DOMAIN stack : stack[k].dir # D => k \in DOMAIN stack' /\ stack'[k] = stack[k]
  BY <1>3, <1>12
<1>30. ASSUME NEW k \in DOMAIN stack', stack'[k].dir = D
       PROVE  Going(tree, written', registered', links', stack'[k])
  BY <1>12, <1>22, <1>25, <1>30
<1>31. links'[LostFound] = 2
  <2>1. LostFound # D /\ LostFound \in Dirs  BY <1>1, DirFacts
  <2> QED BY <1>18, <2>1 DEF Listings
<1>32. pc' # "done"  BY <1>9 DEF Place
<1>33. DirTypes /\ Chains /\ Listings /\ tree' = tree /\ pc # "exited"  BY <1>1
<1> QED
  BY <1>16, <1>24, <1>26, <1>27, <1>28, <1>29, <1>30, <1>31, <1>32, <1>33, OthersListed

\* A call returns: its directory has all its names.
LEMMA FinishListed ==
  ASSUME DirInv, Chains, Listings, Finish
  PROVE  Listings'
<1>1. /\ DirTypes /\ Calls /\ BlocksHaveOneOwner /\ tree' = tree /\ links' = links
      /\ pc = "loop" /\ pc' \in {"lost+found", "loop"}
  BY DEF DirInv, Finish
<1>2. PICK L \in Nat : \E D \in DOMAIN tree : \E b \in Nat \ {0} :
           /\ L = Len(stack) /\ L \in DOMAIN stack /\ stack[L].dir = D /\ stack[L].block = b
           /\ Top = stack[L] /\ DOMAIN stack = 1 .. L
           /\ stack' \in Seq(FrameRec(tree)) /\ Len(stack') = L - 1 /\ DOMAIN stack' = 1 .. L - 1
           /\ \A k \in DOMAIN stack' : k \in DOMAIN stack /\ k # L /\ stack'[k] = stack[k]
           /\ \A k \in DOMAIN stack : k # L => k \in DOMAIN stack'
           /\ \A k \in DOMAIN stack : k # L => stack[k].dir # D
           /\ D \in Dirs /\ D # LostFound /\ stack[L].i = Len(tree[D].children)
           /\ registered' = [registered EXCEPT ![D] = Append(@, b)]
           /\ size' = [size EXCEPT ![D] = stack[L].block_count]
           /\ b \in DOMAIN written
           /\ written' = [written EXCEPT ![b] = Filled(@, Top.position_in_block)]
           /\ Filled(written[b], Top.position_in_block) \in Seq(EntryRec)
  BY FinishFacts, Zenon
<1>3. PICK D \in DOMAIN tree, b \in Nat \ {0} :
           /\ L \in DOMAIN stack /\ stack[L].dir = D /\ stack[L].block = b
           /\ Top = stack[L]
           /\ \A k \in DOMAIN stack' : k \in DOMAIN stack /\ k # L /\ stack'[k] = stack[k]
           /\ \A k \in DOMAIN stack : k # L => k \in DOMAIN stack'
           /\ \A k \in DOMAIN stack : k # L => stack[k].dir # D
           /\ D \in Dirs /\ D # LostFound /\ stack[L].i = Len(tree[D].children)
           /\ registered' = [registered EXCEPT ![D] = Append(@, b)]
           /\ size' = [size EXCEPT ![D] = stack[L].block_count]
           /\ b \in DOMAIN written
           /\ written' = [written EXCEPT ![b] = Filled(@, Top.position_in_block)]
  BY <1>2, Zenon
<1>4. /\ written'[b] = Filled(written[b], Top.position_in_block)
      /\ \A x \in DOMAIN written : x # b => written'[x] = written[x]
  BY <1>3
<1>5. /\ BlockNames(written, registered[D]) \o NamesOf(written[b]) = UpTo(Len(tree[D].children))
      /\ stack[L].block_count = Len(registered[D]) + 1
      /\ links[D] = LinksUpTo(tree, D, Len(tree[D].children))
  BY <1>3 DEF Listings, Going
<1>6. \A e \in Dirs : \A x \in Blocks(e) : written'[x] = written[x]
  <2> SUFFICES ASSUME NEW e \in Dirs, NEW x \in Blocks(e) PROVE written'[x] = written[x]
    OBVIOUS
  <2>1. x \in DOMAIN written  BY DEF Chains
  <2>2. x # b  BY <1>1, <1>3 DEF BlocksHaveOneOwner
  <2> QED BY <1>4, <2>1, <2>2
<1>7. /\ registered[D] \in Seq(Nat \ {0}) /\ Written(written, registered[D])
      /\ \A k \in DOMAIN registered[D] : registered[D][k] \in Blocks(D)
  BY <1>1, <1>3, RegisteredWritten
<1>8. registered'[D] = Append(registered[D], b) /\ \A e \in Dirs \ {D} : registered'[e] = registered[e]
  <2>1. registered \in [Dirs -> Seq(Nat \ {0})]  BY <1>1 DEF DirTypes
  <2> QED BY <1>3, <2>1
<1>9. size'[D] = stack[L].block_count /\ \A e \in Dirs \ {D} : size'[e] = size[e]
  <2>1. size \in [Dirs -> Nat]  BY <1>1 DEF DirTypes
  <2> QED BY <1>3, <2>1
<1>10. BlockNames(written', registered'[D]) = UpTo(Len(tree[D].children))
  <2>1. \A k \in DOMAIN registered[D] : written'[registered[D][k]] = written[registered[D][k]]
    BY <1>3, <1>6, <1>7
  <2>2. written[b] \in Seq(EntryRec)  BY <1>1, <1>3, WrittenFacts
  <2>3. Top.position_in_block \in 0 .. BlockSize /\ BlockSize \in Nat
    BY <1>1, <1>3, StackFacts, DirFacts
  <2>4. /\ written'[b] \in Seq(EntryRec) /\ NamesOf(written'[b]) = NamesOf(written[b])
    <3>1. PICK q \in 0 .. BlockSize, r \in Seq(EntryRec) : q = Top.position_in_block /\ r = written[b]
      BY <2>2, <2>3
    <3>2. Filled(r, q) \in Seq(EntryRec)  BY <2>3, FilledFacts
    <3>3. NamesOf(Filled(r, q)) = NamesOf(r)  BY <2>3, NamesJoined
    <3> QED BY <1>4, <3>1, <3>2, <3>3
  <2>5. BlockNames(written', Append(registered[D], b))
          = BlockNames(written, registered[D]) \o NamesOf(written'[b])
    <3>1. registered[D] \in Seq(Nat \ {0}) /\ Written(written, registered[D])  BY <1>7
    <3>2. written'[b] \in Seq(EntryRec)  BY <2>4
    <3>3. PICK v, w, r : v = written' /\ w = written /\ r = registered[D]  OBVIOUS
    <3>4. /\ r \in Seq(Nat \ {0}) /\ Written(w, r) /\ v[b] \in Seq(EntryRec)
          /\ \A k \in DOMAIN r : v[r[k]] = w[r[k]]
      BY <2>1, <3>1, <3>2, <3>3
    <3>5. BlockNames(v, Append(r, b)) = BlockNames(w, r) \o NamesOf(v[b])
      <4>1. r \in Seq(Nat \ {0})  BY <3>4
      <4>2. Written(w, r) /\ \A k \in DOMAIN r : v[r[k]] = w[r[k]]  BY <3>4
      <4>3. v[b] \in Seq(EntryRec)  BY <3>4
      <4> QED BY <4>1, <4>2, <4>3, BlockNamesAppend
    <3> QED BY <3>3, <3>5
  <2> QED BY <1>5, <1>8, <2>4, <2>5
<1>11. Complete(tree, written', registered', links', size', D, More(D)')
  <2>1. More(D)' = <<>>  BY <1>1 DEF More
  <2>2. size'[D] = Len(registered'[D])
    <3>1. Len(Append(registered[D], b)) = Len(registered[D]) + 1  BY <1>3, <1>7
    <3> QED BY <1>5, <1>8, <1>9, <3>1
  <2>3. UpTo(Len(tree[D].children)) \o <<>> = UpTo(Len(tree[D].children))
    <3>1. Len(tree[D].children) \in Nat  BY <1>1, ChildFacts
    <3>2. UpTo(Len(tree[D].children)) \in Seq(Int)  BY <3>1, UpToFacts
    <3> QED BY <3>2
  <2>4. links'[D] = LinksUpTo(tree, D, Len(tree[D].children))  BY <1>1, <1>5
  <2>5. Complete(tree, written', registered', links', size', D, <<>>)
    BY <1>10, <2>2, <2>3, <2>4, Zenon DEF Complete
  <2> QED BY <2>1, <2>5
<1>12. ~ Untouched(D)'
  <2>1. registered'[D] # <<>>  BY <1>1, <1>3, BlocksAppended
  <2> QED BY <2>1 DEF Untouched
<1>13. \A e : More(e)' = More(e)  BY <1>1 DEF More
<1>14. \A e \in Dirs \ {D} : /\ registered'[e] = registered[e] /\ links'[e] = links[e]
                              /\ size'[e] = size[e]
                              /\ \A x \in Blocks(e) : written'[x] = written[x]
  BY <1>1, <1>6, <1>8, <1>9
<1>15. ASSUME NEW k \in DOMAIN stack', stack'[k].dir # D
       PROVE  /\ k \in DOMAIN stack /\ stack'[k] = stack[k]
              /\ written'[stack[k].block] = written[stack[k].block]
  <2>1. k \in DOMAIN stack /\ k # L /\ stack'[k] = stack[k]  BY <1>3
  <2>2. stack[k].block # b /\ stack[k].block \in DOMAIN written
    BY <1>1, <1>3, <2>1 DEF BlocksHaveOneOwner, DirTypes
  <2> QED BY <1>4, <2>1, <2>2
<1>16. \A k \in DOMAIN stack : stack[k].dir # D => k \in DOMAIN stack' /\ stack'[k] = stack[k]
  BY <1>3
<1>17. \A k \in DOMAIN stack' : stack'[k].dir # D  BY <1>3
<1>18. links'[LostFound] = 2  BY <1>1 DEF Listings
<1>19. pc' # "done" /\ D \in Dirs  BY <1>1, <1>3
<1>20. DirTypes /\ Chains /\ Listings /\ tree' = tree /\ pc # "exited"  BY <1>1
<1> QED
  BY <1>11, <1>12, <1>13, <1>14, <1>15, <1>16, <1>17, <1>18, <1>19, <1>20, OthersListed

\* The root gets the name of lost+found.
LEMMA ExtendRootListed ==
  ASSUME DirInv, Chains, Listings, ExtendRoot
  PROVE  Listings'
<1> DEFINE r == [child |-> LostFoundName, rec_len |-> uint16_t(BlockSize)]
           recs == << r >>
           b == Min(avail)
<1>1. /\ pc = "lost+found" /\ pc' = "lost+found dir" /\ avail # {} /\ written' = Put(written, b, recs)
      /\ registered' = [registered EXCEPT ![Root] = Append(@, b)]
      /\ size' = [size EXCEPT ![Root] = @ + 1] /\ UNCHANGED <<tree, stack, links>>
  BY DEF ExtendRoot
<1>2. DirTypes /\ Sources /\ AllMet /\ stack = <<>>  BY <1>1 DEF DirInv, Calls
<1>3. DOMAIN stack = {}  BY <1>2, NoCalls
<1>4. b \in avail /\ Root \in Dirs /\ Root \in DOMAIN tree /\ LostFound # Root
  BY <1>1, <1>2, LeastLeft, DirFacts
<1>5. r \in EntryRec /\ r.child = LostFoundName /\ LostFoundName \in Int
  BY <1>2, DirFacts, Stored DEF EntryRec, LostFoundName
<1> HIDE DEF r, b
<1>6. /\ recs \in Seq(EntryRec) /\ NamesOf(recs) = <<LostFoundName>>
  <2>1. <<>> \in Seq(EntryRec) /\ recs = Append(<<>>, r) /\ recs \in Seq(EntryRec)
    BY <1>5
  <2>2. NamesOf(<<>>) = <<>>  BY <2>1, NamesFacts
  <2>3. NamesOf(Append(<<>>, r)) = Append(NamesOf(<<>>), r.child)  BY <1>5, <2>1, NamesJoined
  <2>4. Append(<<>>, LostFoundName) = <<LostFoundName>>  BY <1>5
  <2> QED BY <1>5, <2>1, <2>2, <2>3, <2>4
<1> HIDE DEF recs
<1>7. b \in Nat \ {0} /\ \A e \in Dirs : ~ Owns(e, b)  BY <1>2, <1>4, FreshBlock
<1>8. written'[b] = recs /\ \A x \in DOMAIN written \ {b} : written'[x] = written[x]
  <2>1. written \in [DOMAIN written -> Seq(EntryRec)]  BY <1>2 DEF DirTypes
  <2>2. PutOf(written, b, recs, written')  BY <1>1, <1>6, <2>1, PutEntries, Zenon
  <2> QED BY <2>2 DEF PutOf
<1>9. \A e \in Dirs : \A x \in Blocks(e) : written'[x] = written[x]
  <2> SUFFICES ASSUME NEW e \in Dirs, NEW x \in Blocks(e) PROVE written'[x] = written[x]
    OBVIOUS
  <2>1. x \in DOMAIN written  BY DEF Chains
  <2>2. x # b  BY <1>7 DEF Owns
  <2> QED BY <1>8, <2>1, <2>2
<1>10. registered'[Root] = Append(registered[Root], b)
       /\ \A e \in Dirs \ {Root} : registered'[e] = registered[e]
  <2>1. registered \in [Dirs -> Seq(Nat \ {0})]  BY <1>2 DEF DirTypes
  <2> QED BY <1>1, <1>4, <2>1
<1>11. size'[Root] = size[Root] + 1 /\ \A e \in Dirs \ {Root} : size'[e] = size[e]
  <2>1. size \in [Dirs -> Nat]  BY <1>2 DEF DirTypes
  <2> QED BY <1>1, <1>4, <2>1
<1>12. Complete(tree, written, registered, links, size, Root, <<>>)
  <2>1. ~ Untouched(Root)  BY <1>1, <1>2 DEF AllMet
  <2>2. Finished(Root)  BY <1>3, <2>1 DEF Untouched, Finished
  <2>3. More(Root) = <<>>  BY <1>1 DEF More
  <2> QED BY <1>1, <1>4, <2>2, <2>3 DEF Listings
<1>13. /\ registered[Root] \in Seq(Nat \ {0}) /\ Written(written, registered[Root])
       /\ \A k \in DOMAIN registered[Root] : registered[Root][k] \in Blocks(Root)
  BY <1>2, <1>4, RegisteredWritten
<1> DEFINE u == UpTo(Len(tree[Root].children))
<1>14. u \in Seq(Int)
  <2>1. Len(tree[Root].children) \in Nat  BY <1>2, <1>4, ChildFacts
  <2> QED BY <2>1, UpToFacts
<1>15. BlockNames(written', registered'[Root]) = u \o <<LostFoundName>>
  <2>1. PICK v, w, s : v = written' /\ w = written /\ s = registered[Root]  OBVIOUS
  <2>2. /\ s \in Seq(Nat \ {0}) /\ Written(w, s) /\ v[b] \in Seq(EntryRec)
        /\ \A k \in DOMAIN s : v[s[k]] = w[s[k]]
    <3>1. \A k \in DOMAIN registered[Root] : written'[registered[Root][k]] = written[registered[Root][k]]
      BY <1>4, <1>9, <1>13
    <3> QED BY <1>6, <1>8, <1>13, <2>1, <3>1
  <2>3. BlockNames(v, Append(s, b)) = BlockNames(w, s) \o NamesOf(v[b])
    BY <1>7, <2>2, BlockNamesAppend
  <2>4. BlockNames(w, s) = u \o <<>>  BY <1>12, <2>1 DEF Complete
  <2> HIDE DEF u
  <2>5. u \o <<>> = u  BY <1>14
  <2> QED BY <1>6, <1>8, <1>10, <2>1, <2>3, <2>4, <2>5
<1>16. Complete(tree, written', registered', links', size', Root, More(Root)')
  <2>1. More(Root)' = <<LostFoundName>>  BY <1>1 DEF More
  <2>2. size'[Root] = Len(registered'[Root])
    <3>1. Len(Append(registered[Root], b)) = Len(registered[Root]) + 1  BY <1>7, <1>13
    <3>2. size[Root] = Len(registered[Root])  BY <1>12 DEF Complete
    <3> QED BY <1>10, <1>11, <3>1, <3>2
  <2>3. links'[Root] = LinksUpTo(tree, Root, Len(tree[Root].children))
    BY <1>1, <1>12 DEF Complete
  <2>4. Complete(tree, written', registered', links', size', Root, <<LostFoundName>>)
    BY <1>15, <2>2, <2>3, Zenon DEF Complete
  <2> QED BY <2>1, <2>4
<1>17. ~ Untouched(Root)'
  <2>1. registered'[Root] # <<>>  BY <1>1, <1>2, <1>4, <1>7, BlocksAppended
  <2> QED BY <2>1 DEF Untouched
<1>18. \A e \in Dirs \ {Root} : More(e)' = More(e)  BY DEF More
<1>19. \A e \in Dirs \ {Root} : /\ registered'[e] = registered[e] /\ links'[e] = links[e]
                                 /\ size'[e] = size[e]
                                 /\ \A x \in Blocks(e) : written'[x] = written[x]
  BY <1>1, <1>9, <1>10, <1>11
<1>20. DOMAIN stack' = {}  BY <1>1, <1>3
<1>21. links'[LostFound] = 2  BY <1>1 DEF Listings
<1>22. DirTypes /\ Chains /\ Listings /\ tree' = tree /\ pc # "exited" /\ pc' # "done"
  BY <1>1, <1>2
<1> QED
  BY <1>3, <1>4, <1>16, <1>17, <1>18, <1>19, <1>20, <1>21, <1>22, OthersListed

\* The only block of lost+found has its two dot entries.
LEMMA LostFoundListed ==
  ASSUME DirInv, Chains, Listings, BuildLostFound
  PROVE  Listings'
<1> DEFINE x == Dot(DotName)
           y == [child |-> DotDotName, rec_len |-> uint16_t(BlockSize - EXT4_DOT_DENTRY_SIZE)]
           recs == << x, y >>
           b == Min(avail)
<1>1. /\ pc = "lost+found dir" /\ pc' = "done" /\ avail # {} /\ written' = Put(written, b, recs)
      /\ registered' = [registered EXCEPT ![LostFound] = Append(@, b)]
      /\ size' = [size EXCEPT ![LostFound] = 1] /\ UNCHANGED <<tree, stack, links>>
  BY DEF BuildLostFound
<1>2. DirTypes /\ Sources /\ AllMet /\ stack = <<>>  BY <1>1 DEF DirInv, Calls
<1>3. DOMAIN stack = {}  BY <1>2, NoCalls
<1>4. b \in avail /\ LostFound \in Dirs /\ LostFound \notin DOMAIN tree
  BY <1>1, <1>2, LeastLeft, DirFacts DEF Dirs
<1>5. x \in EntryRec /\ x.child = DotName  BY DotDirsFacts DEF Dot
<1>6. y \in EntryRec /\ y.child = DotDotName
  <2>1. BlockSize - EXT4_DOT_DENTRY_SIZE \in Nat  BY <1>2, DirFacts DEF EXT4_DOT_DENTRY_SIZE
  <2> QED BY <2>1, Stored DEF EntryRec, DotDotName
<1> HIDE DEF x, y, b
<1>7. recs \in Seq(EntryRec) /\ NamesOf(recs) = <<DotName, DotDotName>>
  <2> DEFINE s == NamesOf(recs)
             dots == <<DotName, DotDotName>>
  <2>1. /\ recs \in Seq(EntryRec) /\ Len(recs) = 2 /\ recs[1] = x /\ recs[2] = y
    BY <1>5, <1>6
  <2>2. s \in Seq(Int) /\ Len(s) = 2 /\ \A k \in 1 .. 2 : s[k] = recs[k].child
    BY <2>1, NamesFacts
  <2>3. dots \in Seq(Int) /\ Len(dots) = 2 /\ dots[1] = DotName /\ dots[2] = DotDotName
    BY DEF DotName, DotDotName
  <2> HIDE DEF s, dots, recs
  <2>4. s[1] = dots[1] /\ s[2] = dots[2]  BY <1>5, <1>6, <2>1, <2>2, <2>3
  <2>5. \A k \in 1 .. Len(s) : s[k] = dots[k]  BY <2>2, <2>4
  <2>6. s = dots  BY <2>2, <2>3, <2>5, SeqEqual
  <2> QED BY <2>1, <2>6 DEF s, dots
<1> HIDE DEF recs
<1>8. b \in Nat \ {0} /\ \A e \in Dirs : ~ Owns(e, b)  BY <1>2, <1>4, FreshBlock
<1>9. written'[b] = recs /\ \A z \in DOMAIN written \ {b} : written'[z] = written[z]
  <2>1. written \in [DOMAIN written -> Seq(EntryRec)]  BY <1>2 DEF DirTypes
  <2>2. PutOf(written, b, recs, written')  BY <1>1, <1>7, <2>1, PutEntries, Zenon
  <2> QED BY <2>2 DEF PutOf
<1>10. \A e \in Dirs : \A z \in Blocks(e) : written'[z] = written[z]
  <2> SUFFICES ASSUME NEW e \in Dirs, NEW z \in Blocks(e) PROVE written'[z] = written[z]
    OBVIOUS
  <2>1. z \in DOMAIN written  BY DEF Chains
  <2>2. z # b  BY <1>8 DEF Owns
  <2> QED BY <1>9, <2>1, <2>2
<1>11. registered[LostFound] = <<>>  BY <1>1, <1>2 DEF AllMet
<1>12. registered'[LostFound] = Append(<<>>, b)
       /\ \A e \in Dirs \ {LostFound} : registered'[e] = registered[e]
  <2>1. registered \in [Dirs -> Seq(Nat \ {0})]  BY <1>2 DEF DirTypes
  <2> QED BY <1>1, <1>4, <1>11, <2>1
<1>13. size'[LostFound] = 1 /\ \A e \in Dirs \ {LostFound} : size'[e] = size[e]
  <2>1. size \in [Dirs -> Nat]  BY <1>2 DEF DirTypes
  <2> QED BY <1>1, <1>4, <2>1
<1>14. BlockNames(written', registered'[LostFound]) = <<DotName, DotDotName>>
  <2>1. PICK v, w, s : v = written' /\ w = written /\ s = registered[LostFound]  OBVIOUS
  <2>2. s = <<>> /\ s \in Seq(Nat \ {0})
    <3>1. <<>> \in Seq(Nat \ {0})  OBVIOUS
    <3> QED BY <1>11, <2>1, <3>1
  <2>3. DOMAIN s = {} /\ v[b] \in Seq(EntryRec)  BY <1>7, <1>9, <2>1, <2>2
  <2>4. Written(w, s) /\ \A k \in DOMAIN s : v[s[k]] = w[s[k]]  BY <2>3 DEF Written
  <2>5. BlockNames(v, Append(s, b)) = BlockNames(w, s) \o NamesOf(v[b])
    <3>1. s \in Seq(Nat \ {0})  BY <2>2
    <3>2. v[b] \in Seq(EntryRec)  BY <2>3
    <3>3. b \in Nat \ {0}  BY <1>8
    <3>4. Written(w, s)  BY <2>4
    <3>5. \A k \in DOMAIN s : v[s[k]] = w[s[k]]  BY <2>4
    <3> QED BY <3>1, <3>2, <3>3, <3>4, <3>5, BlockNamesAppend
  <2>6. BlockNames(w, s) = <<>>  BY <2>2, <2>4, BlockNamesFacts
  <2> DEFINE dots == <<DotName, DotDotName>>
  <2>7. dots \in Seq(Int)  BY DotNames
  <2> HIDE DEF dots
  <2>8. <<>> \o dots = dots  BY <2>7
  <2> QED BY <1>7, <1>9, <1>12, <2>1, <2>2, <2>5, <2>6, <2>8 DEF dots
<1>15. size'[LostFound] = Len(registered'[LostFound])
  <2>1. Len(Append(<<>>, b)) = 1  OBVIOUS
  <2> QED BY <1>12, <1>13, <2>1
<1>16. \A e \in Dirs \ {LostFound} : More(e)' = More(e)  BY <1>1 DEF More
<1>17. \A e \in Dirs \ {LostFound} : /\ registered'[e] = registered[e] /\ links'[e] = links[e]
                                      /\ size'[e] = size[e]
                                      /\ \A z \in Blocks(e) : written'[z] = written[z]
  BY <1>1, <1>10, <1>12, <1>13
<1>18. DOMAIN stack' = {}  BY <1>1, <1>3
<1>19. links'[LostFound] = 2  BY <1>1 DEF Listings
<1>20. DirTypes /\ Chains /\ Listings /\ tree' = tree /\ pc # "exited"
  BY <1>1, <1>2
<1> QED
  BY <1>3, <1>4, <1>14, <1>15, <1>16, <1>17, <1>18, <1>19, <1>20, OthersListed

\* What the directories list does not depend on where the program is, but for
\* lost+found.
LEMMA ListingsFrame ==
  ASSUME Listings, UNCHANGED <<tree, stack, written, registered, links, size>>,
         pc' = pc \/ (pc' = "exited" /\ pc # "exited")
  PROVE  Listings'
<1>1. \A d : (Untouched(d)' <=> Untouched(d)) /\ (Finished(d)' <=> Finished(d))
  BY DEF Untouched, Finished
<1>2. \A d : pc' = pc => More(d)' = More(d)  BY DEF More
<1>3. \A k \in DOMAIN stack' : Going(tree', written', registered', links', stack'[k])
  BY DEF Listings
<1>4. \A d \in DOMAIN tree' : Untouched(d)' => links'[d] = LinksUpTo(tree', d, 0)
  BY <1>1 DEF Listings
<1>5. ASSUME pc' # "exited", NEW d \in DOMAIN tree, Finished(d)
      PROVE  Complete(tree', written', registered', links', size', d, More(d)')
  <2>1. Complete(tree, written, registered, links, size, d, More(d))  BY <1>5 DEF Listings
  <2>2. More(d)' = More(d)  BY <1>2, <1>5
  <2> QED BY <2>1, <2>2
<1>6. pc' = "done" => pc = "done"  OBVIOUS
<1> QED BY <1>1, <1>3, <1>4, <1>5, <1>6 DEF Listings

\* No directory was entered yet.
LEMMA ListingsStart ==
  ASSUME Init
  PROVE  Listings
<1>1. /\ stack = <<>> /\ registered = [d \in Dirs |-> <<>>] /\ pc = "call"
      /\ links = [d \in Dirs |-> IF d = Root THEN 3 ELSE 2]
  BY DEF Init
<1>2. DOMAIN stack = {}  BY <1>1, NoCalls
<1>3. \A d \in Dirs : links[d] = IF d = Root THEN 3 ELSE 2  BY <1>1
<1>4. \A d \in DOMAIN tree : d \in Dirs /\ ~ Finished(d)  BY <1>1 DEF Dirs, Finished
<1>5. \A d \in DOMAIN tree : links[d] = LinksUpTo(tree, d, 0)
  <2> SUFFICES ASSUME NEW d \in DOMAIN tree PROVE links[d] = LinksUpTo(tree, d, 0)
    OBVIOUS
  <2>1. 0 \in Nat  OBVIOUS
  <2>2. LinksUpTo(tree, d, 0) = IF d = Root THEN 3 ELSE 2  BY <2>1, LinksFacts
  <2> QED BY <1>3, <1>4, <2>2
<1>6. links[LostFound] = 2  BY <1>3 DEF Dirs, LostFound, Root
<1> QED BY <1>1, <1>2, <1>4, <1>5, <1>6 DEF Listings

\* When the program is done every directory was built: the root, and with a
\* directory all those in it, which come after it.
LEMMA AllFinished ==
  ASSUME DirInv, pc = "done", NEW d \in DOMAIN tree
  PROVE  Finished(d)
<1>1. /\ DirTypes /\ PassedMet /\ stack = <<>> /\ DOMAIN stack = {} /\ ~ Untouched(Root)
  <2>1. DirTypes /\ AllMet /\ stack = <<>>  BY DEF DirInv, Calls
  <2> QED BY <2>1, NoCalls DEF AllMet
<1>2. DOMAIN tree \subseteq Nat /\ \A e \in DOMAIN tree : SoundChildren(tree, e)
  BY <1>1, DirFacts
<1> DEFINE left == { e \in DOMAIN tree : Untouched(e) }
<1>3. left = {}
  <2> SUFFICES ASSUME left # {} PROVE FALSE
    OBVIOUS
  <2>1. left \subseteq Nat  BY <1>2
  <2>2. PICK e \in left : \A c \in left : e <= c
    <3> HIDE DEF left
    <3> QED BY <2>1, LeastNat
  <2>3. e \in DOMAIN tree /\ Untouched(e) /\ e # Root  BY <1>1
  <2>4. PICK p \in DOMAIN tree : \E k \in DOMAIN tree[p].children : tree[p].children[k].dir = e
    BY <1>2, <2>3 DEF SoundChildren
  <2>5. PICK k \in DOMAIN tree[p].children : tree[p].children[k].dir = e  BY <2>4
  <2>6. p < e
    <3>1. tree[p].children[k].dir # 0  BY <1>1, <2>3, <2>5, DirFacts
    <3> QED BY <1>1, <2>5, <3>1, ChildFacts
  <2>7. ToCome(p, k)  BY <1>1, <2>3, <2>5 DEF PassedMet
  <2>8. Untouched(p)  BY <1>1, <2>7 DEF ToCome
  <2>9. p \in left  BY <2>8
  <2>10. e <= p  BY <2>2, <2>9
  <2> QED BY <1>2, <2>3, <2>6, <2>10
<1>4. ~ Untouched(d)  BY <1>3
<1> QED BY <1>1, <1>4 DEF Untouched, Finished

\* What is listed is complete in the end.
LEMMA AllListed ==
  ASSUME DirInv, Listings
  PROVE  DirectoriesComplete
<1> SUFFICES ASSUME pc = "done", NEW d \in Dirs
             PROVE  LET entries == FlattenSeq([k \in DOMAIN registered[d] |-> written[registered[d][k]]])
                        names   == [k \in DOMAIN entries |-> entries[k].child]
                        count   == IF d = LostFound THEN 0 ELSE Len(tree[d].children)
                        subdirs == IF d = LostFound THEN 0
                                   ELSE Cardinality({ k \in 1 .. count : tree[d].children[k].dir # 0 })
                    IN  /\ names = <<DotName, DotDotName>> \o [k \in 1 .. count |-> k]
                                     \o (IF d = Root THEN <<LostFoundName>> ELSE <<>>)
                        /\ size[d] = Len(registered[d])
                        /\ links[d] = 2 + subdirs + (IF d = Root THEN 1 ELSE 0)
  BY Zenon DEF DirectoriesComplete
<1> DEFINE entries == FlattenSeq([k \in DOMAIN registered[d] |-> written[registered[d][k]]])
           names   == [k \in DOMAIN entries |-> entries[k].child]
           count   == IF d = LostFound THEN 0 ELSE Len(tree[d].children)
           subdirs == IF d = LostFound THEN 0
                      ELSE Cardinality({ k \in 1 .. count : tree[d].children[k].dir # 0 })
           more    == IF d = Root THEN <<LostFoundName>> ELSE <<>>
           one     == IF d = Root THEN 1 ELSE 0
<1>1. names = BlockNames(written, registered[d])  BY Zenon DEF BlockNames, NamesOf
<1>2. DirTypes  BY DEF DirInv
<1>3. LostFound \notin DOMAIN tree /\ Root # LostFound  BY <1>2, DirFacts DEF Root, LostFound
<1>4. /\ names = <<DotName, DotDotName>> \o [k \in 1 .. count |-> k] \o more
      /\ size[d] = Len(registered[d]) /\ links[d] = 2 + subdirs + one
  <2> HIDE DEF names
  <2>1. CASE d = LostFound
    <3>1. names = UpTo(0)  BY <1>1, <2>1, DotNames DEF Listings
    <3>2. UpTo(0) = UpTo(0) \o <<>>
      <4>1. UpTo(0) \in Seq(Int)  BY DotNames
      <4> QED BY <4>1
    <3>3. names = <<DotName, DotDotName>> \o [k \in 1 .. 0 |-> k] \o <<>>
      BY <3>1, <3>2, Zenon DEF UpTo
    <3>4. size[d] = Len(registered[d]) /\ links[d] = 2  BY <2>1 DEF Listings
    <3>5. count = 0 /\ subdirs = 0 /\ more = <<>> /\ one = 0  BY <1>3, <2>1
    <3> HIDE DEF count, subdirs, more, one
    <3>6. links[d] = 2 + subdirs + one  BY <3>4, <3>5
    <3> QED BY <3>3, <3>4, <3>5, <3>6, Zenon
  <2>2. CASE d # LostFound
    <3>1. d \in DOMAIN tree  BY <2>2 DEF Dirs
    <3>2. Finished(d)  BY <3>1, AllFinished
    <3>3. More(d) = more  BY DEF More
    <3>4. count = Len(tree[d].children)
          /\ subdirs = Cardinality({ k \in 1 .. count : tree[d].children[k].dir # 0 })
      BY <2>2
    <3> HIDE DEF more, count, subdirs
    <3>5. Complete(tree, written, registered, links, size, d, more)
      BY <3>1, <3>2, <3>3 DEF Listings
    <3>6. names = <<DotName, DotDotName>> \o [k \in 1 .. count |-> k] \o more
      BY <1>1, <3>4, <3>5 DEF Complete, UpTo
    <3>7. size[d] = Len(registered[d]) /\ links[d] = 2 + subdirs + one
      BY <3>4, <3>5 DEF Complete, LinksUpTo
    <3> QED BY <3>6, <3>7
  <2> QED BY <2>1, <2>2
<1> QED BY <1>4

\* When the building is done every directory lists its entries once and in
\* order after the dot entries, the root lost+found besides, and its size and
\* links agree with that: a call has put the entries up to i, whatever was
\* built below it in the meantime, and no directory is left out.
THEOREM AllComplete == Spec => []DirectoriesComplete
<1>1. Init => DirInv /\ Chains /\ Listings  BY DirStart, ChainsStart, ListingsStart
<1>2. DirInv /\ [Next]_vars => DirInv'  BY DirStep
<1>3. DirInv /\ Chains /\ [Next]_vars => Chains'  BY ChainsStep
<1>4. DirInv /\ Chains /\ Listings /\ [Next]_vars => Listings'
  <2> SUFFICES ASSUME DirInv, Chains, Listings, [Next]_vars PROVE Listings'
    OBVIOUS
  <2>1. CASE Enter  BY <2>1, EnterListed
  <2>2. CASE AddDentry  BY <2>2, AddDentryListed
  <2>3. CASE AddDentryInNextBlock  BY <2>3, NextBlockListed
  <2>4. CASE Finish  BY <2>4, FinishListed
  <2>5. CASE Full
    <3>1. pc' = "exited" /\ pc # "exited" /\ UNCHANGED <<tree, stack, written, registered, links, size>>
      BY <2>5 DEF Full
    <3> QED BY <3>1, ListingsFrame
  <2>6. CASE ExtendRoot  BY <2>6, ExtendRootListed
  <2>7. CASE BuildLostFound  BY <2>7, LostFoundListed
  <2>8. CASE UNCHANGED vars  BY <2>8, ListingsFrame DEF vars
  <2>9. CASE Stopped  BY <2>8, <2>9 DEF Stopped
  <2> QED BY <2>1, <2>2, <2>3, <2>4, <2>5, <2>6, <2>7, <2>8, <2>9 DEF Next
<1>5. DirInv /\ Listings => DirectoriesComplete  BY AllListed
<1> QED BY <1>1, <1>2, <1>3, <1>4, <1>5, PTL DEF Spec
=============================================================================
