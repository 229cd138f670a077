-------------------------- MODULE ExtentMapperProofs --------------------------
(***************************************************************************)
(* No file loses its content to the mapping: for every usable layout and   *)
(* every consistent FAT file system, the extents lead to what the chains   *)
(* led to, and they are extents ext4 can have.                             *)
(***************************************************************************)
EXTENDS ExtentMapper, GeometryProofs, FiniteSetTheorems, SequenceTheorems, WellFoundedInduction

ExtentSet == [logical_start : Nat, physical_start : Nat, length : Nat]

LogicalEnd(e) == e.logical_start + e.length

\* The logical clusters the extents of a file cover.
Total(exts) == IF Len(exts) = 0 THEN 0 ELSE LogicalEnd(exts[Len(exts)])

IsBlocked(c) ==
  \E b \in 1 .. block_group_count(sb) : c \in Cells(blocked_extents[b])

Start == AvailableAtStart(sb, blocked_extents, files)

\* The point of the program to which the stream insertion under way returns.
Label == IF pc \in {"insert", "page"} THEN then ELSE pc

\* Granted, and neither a page nor part of an extent yet.
Outstanding == IF pc \in {"page", "granted"} THEN out ELSE {}

\* The extent that is stored but not copied to yet.
Pending(f, n) == Label = "copy" /\ f = Len(stream) /\ n = Len(stream[f])

-----------------------------------------------------------------------------
Inputs ==
  /\ UsableLayout(sb) /\ WellFormed(sb, blocked_extents)
  /\ files \in FileSystems /\ UsedClusters(files) \subseteq DataClusters(sb)
  /\ reserved \in Nat

Control ==
  /\ pc \in {"open", "insert", "page", "next_file", "aggregate", "fragments", "resettle",
             "granted", "copy"}
  /\ then \in {"next_file", "fragments", "copy"}
  /\ pc = "open" => then = "next_file"
  /\ phase \in {"idle", "busy", "full"}
  /\ phase # "idle" => pc \in {"page", "granted"} /\ out = {}

\* What the allocator has not granted and what it has granted last.
Allocator ==
  /\ avail \subseteq Start
  /\ Outstanding \subseteq Start /\ Outstanding \cap avail = {}
  /\ phase = "idle" /\ pc \in {"page", "granted"} =>
       \E lo, hi \in DataClusters(sb) : lo <= hi /\ out = lo .. hi /\ hi - lo + 1 <= want
  /\ pc = "granted" => want = fragment.length - resettled

\* An extent of file f: where the chain is, or in granted clusters because the
\* chain is blocked.
InPlace(f, e) ==
  \A k \in 0 .. e.length - 1 : e.physical_start + k = files[f][e.logical_start + k + 1]

Moved(f, e) ==
  /\ Cells(e) \subseteq Start /\ Cells(e) \cap (avail \cup Outstanding) = {}
  /\ \A k \in 0 .. e.length - 1 : IsBlocked(files[f][e.logical_start + k + 1])

Sound(f, e) ==
  /\ e.length \in 1 .. EXT4_MAX_INIT_EXTENT_LEN
  /\ LogicalEnd(e) <= Len(files[f])
  /\ \A c \in Cells(e) : c \in DataClusters(sb) /\ ~ IsBlocked(c)
  /\ InPlace(f, e) \/ Moved(f, e)

Chain(exts) ==
  \A n \in 1 .. Len(exts) :
    /\ exts[n].logical_start = IF n = 1 THEN 0 ELSE LogicalEnd(exts[n - 1])
    /\ LogicalEnd(exts[n]) <= Total(exts)

Stream ==
  /\ stream \in Seq(Seq(ExtentSet)) /\ Len(stream) <= Len(files)
  /\ pages \subseteq Start /\ pages \cap (avail \cup Outstanding) = {}
  /\ \A f \in 1 .. Len(stream) :
       /\ Chain(stream[f])
       /\ \A n \in 1 .. Len(stream[f]) :
            Sound(f, stream[f][n]) /\ Cells(stream[f][n]) \cap pages = {}

ExtentsApart ==
  \A f, g \in 1 .. Len(stream) : \A n \in 1 .. Len(stream[f]), m \in 1 .. Len(stream[g]) :
    f # g \/ n # m => Cells(stream[f][n]) \cap Cells(stream[g][m]) = {}

\* What the clusters hold: the used ones themselves, those of an extent what
\* the chain has at that place.
Content ==
  /\ DOMAIN disk = DataClusters(sb)
  /\ SourceIntact
  /\ \A f \in 1 .. Len(stream) : \A n \in 1 .. Len(stream[f]) :
       ~ Pending(f, n) =>
         \A k \in 0 .. stream[f][n].length - 1 :
           disk[stream[f][n].physical_start + k] = files[f][stream[f][n].logical_start + k + 1]

\* The files before the current one are mapped to their end.
Finished ==
  \A f \in 1 .. (IF Label \in {"open", "next_file"} THEN Len(stream) ELSE Len(stream) - 1) :
    reserved = 0 => Total(stream[f]) = Len(files[f])

InFile == Label \notin {"open", "next_file"}
Flushing == InFile /\ Label # "aggregate"
Resettling == Flushing /\ Label # "fragments"

\* aggregate_extents: the extent that grows is part of the chain, and the FAT
\* entry read last continues it or ends it.
Aggregate ==
  InFile =>
    /\ stream # <<>>
    /\ current_extent \in ExtentSet
    /\ current_extent.length \in 1 .. EXT4_MAX_INIT_EXTENT_LEN
    /\ LogicalEnd(current_extent) <= Len(files[Len(stream)])
    /\ InPlace(Len(stream), current_extent)
    /\ next_cluster_no \in Nat
    /\ \/ is_end
       \/ /\ LogicalEnd(current_extent) < Len(files[Len(stream)])
          /\ next_cluster_no = files[Len(stream)][LogicalEnd(current_extent) + 1]
    /\ reserved = 0 /\ is_end => LogicalEnd(current_extent) = Len(files[Len(stream)])

FragmentPosition == current_extent.logical_start + (fragment_start - current_extent.physical_start)

\* find_blocked_extent_fragments: the blocked extents before the one found are
\* behind fragment_start, those after it come later; without one none is ahead.
Fragments ==
  Flushing =>
    /\ fragment_start \in current_extent.physical_start .. PhysicalEnd(current_extent)
    /\ blocked_extent \in 0 .. block_group_count(sb)
    /\ blocked_extent # 0 =>
         /\ i = blocked_extent + 1
         /\ blocked_extents[blocked_extent].physical_start <= PhysicalEnd(current_extent)
         /\ PhysicalEnd(blocked_extents[blocked_extent]) >= fragment_start
    /\ fragment_start < PhysicalEnd(current_extent) =>
         \A j \in 1 .. block_group_count(sb) :
           \/ PhysicalEnd(blocked_extents[j]) <= fragment_start
           \/ blocked_extents[j].physical_start >= PhysicalEnd(current_extent)
           \/ blocked_extent # 0 /\ j >= blocked_extent

\* resettle_extent: the fragment is blocked and part of the chain.
Resettle ==
  Resettling =>
    /\ fragment \in ExtentSet /\ resettled \in 0 .. fragment.length
    /\ fragment.length <= EXT4_MAX_INIT_EXTENT_LEN
    /\ LogicalEnd(fragment) = FragmentPosition
    /\ LogicalEnd(fragment) <= Len(files[Len(stream)])
    /\ InPlace(Len(stream), fragment)
    /\ \A k \in 0 .. fragment.length - 1 : IsBlocked(fragment.physical_start + k)

\* How far the current file is mapped.
Progress ==
  /\ Label = "aggregate" => Total(stream[Len(stream)]) = current_extent.logical_start
  /\ Label = "fragments" => Total(stream[Len(stream)]) = FragmentPosition
  /\ Label \in {"resettle", "granted"} =>
       Total(stream[Len(stream)]) = fragment.logical_start + resettled
  /\ Label = "granted" => resettled < fragment.length
  /\ Label = "copy" =>
       /\ stream[Len(stream)] # <<>>
       /\ LastStored.logical_start = fragment.logical_start + resettled
       /\ LogicalEnd(LastStored) <= LogicalEnd(fragment)
       /\ Cells(LastStored) \subseteq Start

MappingInv ==
  /\ Inputs /\ Control /\ Allocator /\ Stream /\ ExtentsApart /\ Content
  /\ Finished /\ Aggregate /\ Fragments /\ Resettle /\ Progress

-----------------------------------------------------------------------------
(* The chains and the FAT.                                                 *)

\* A set of naturals has a least element.
LEMMA LeastNat ==
  ASSUME NEW S, S \subseteq Nat, S # {}
  PROVE  \E x \in S : \A y \in S : x <= y
<1>1. PICK x \in S : \A y \in S : ~ (<<y, x>> \in OpToRel(<, Nat))
  BY NatLessThanWellFounded, WFMin, Zenon
<1>2. ASSUME NEW y \in S PROVE x <= y
  <2>1. <<y, x>> \notin OpToRel(<, Nat)  BY <1>1
  <2>2. x \in Nat /\ y \in Nat  OBVIOUS
  <2>3. <<y, x>> \in Nat \X Nat /\ <<y, x>>[1] = y /\ <<y, x>>[2] = x  BY <2>2
  <2>4. y < x => <<y, x>> \in OpToRel(<, Nat)  BY <2>3, Zenon DEF OpToRel
  <2>5. ~ (y < x)  BY <2>1, <2>4, Zenon
  <2> QED BY <2>2, <2>5
<1> QED BY <1>2

\* What Inputs says of the files: the clusters of the chains are data clusters
\* with one owner each.
LEMMA FilesFacts ==
  ASSUME Inputs
  PROVE  /\ files \in Seq(Seq(Nat)) /\ Len(files) \in Nat
         /\ \A f \in 1 .. Len(files) :
              /\ files[f] \in Seq(Nat) /\ Len(files[f]) \in Nat
              /\ \A k \in 1 .. Len(files[f]) :
                   /\ files[f][k] \in Nat /\ files[f][k] \in UsedClusters(files)
                   /\ files[f][k] \in DataClusters(sb) /\ files[f][k] >= FAT_START_INDEX
                   /\ files[f][k] < FAT_END_OF_CHAIN
         /\ \A f, g \in 1 .. Len(files) : \A k \in 1 .. Len(files[f]), j \in 1 .. Len(files[g]) :
              files[f][k] = files[g][j] => f = g /\ k = j
<1>1. /\ files \in Seq(Seq(Nat)) /\ Len(files) \in Nat
      /\ \A f, g \in 1 .. Len(files) : \A k \in 1 .. Len(files[f]), j \in 1 .. Len(files[g]) :
           files[f][k] = files[g][j] => f = g /\ k = j
      /\ \A c \in UsedClusters(files) : c < FAT_END_OF_CHAIN
      /\ UsedClusters(files) \subseteq DataClusters(sb)
  <2>1. files \in FileSystems /\ UsedClusters(files) \subseteq DataClusters(sb)  BY DEF Inputs
  <2>2. files \in Seq(Seq(Nat))  BY <2>1, FileSystemsAssumption, Zenon
  <2>3. Len(files) \in Nat  BY <2>2
  <2> QED BY <2>1, <2>2, <2>3, FileSystemsAssumption, Zenon
<1>2. ASSUME NEW f \in 1 .. Len(files)
      PROVE  /\ files[f] \in Seq(Nat) /\ Len(files[f]) \in Nat
             /\ \A k \in 1 .. Len(files[f]) :
                  /\ files[f][k] \in Nat /\ files[f][k] \in UsedClusters(files)
                  /\ files[f][k] \in DataClusters(sb) /\ files[f][k] >= FAT_START_INDEX
                  /\ files[f][k] < FAT_END_OF_CHAIN
  <2>1. files[f] \in Seq(Nat)  BY <1>1
  <2>2. Len(files[f]) \in Nat  BY <2>1
  <2>3. ASSUME NEW k \in 1 .. Len(files[f])
        PROVE  files[f][k] \in Nat /\ files[f][k] \in UsedClusters(files)
    BY <2>1, <2>2 DEF UsedClusters
  <2>4. \A c \in DataClusters(sb) : c >= FAT_START_INDEX  BY DEF DataClusters
  <2> QED BY <1>1, <2>1, <2>2, <2>3, <2>4
<1> QED BY <1>1, <1>2

\* The mark is a number.
LEMMA EndMark == FAT_END_OF_CHAIN \in Nat
BY SMT DEF FAT_END_OF_CHAIN

\* The FAT entry of a cluster of a chain is the next cluster or a mark, and a
\* mark only at the end if the reserved bits are clear.
LEMMA FatFacts ==
  ASSUME Inputs, NEW f \in 1 .. Len(files), NEW k \in 1 .. Len(files[f]),
         NEW entry, entry = fat_entry(files[f][k])
  PROVE  /\ entry \in Nat
         /\ \/ entry >= FAT_END_OF_CHAIN
            \/ k < Len(files[f]) /\ entry = files[f][k + 1]
         /\ reserved = 0 /\ k < Len(files[f]) => entry < FAT_END_OF_CHAIN
<1>1. /\ Len(files[f]) \in Nat /\ files[f][k] \in UsedClusters(files)
      /\ \A g \in 1 .. Len(files) : /\ Len(files[g]) \in Nat
                                    /\ \A j \in 1 .. Len(files[g]) : files[g][j] \in Nat
      /\ \A g \in 1 .. Len(files) : \A j \in 1 .. Len(files[g]) :
           files[f][k] = files[g][j] => f = g /\ k = j
      /\ \A j \in 1 .. Len(files[f]) : files[f][j] < FAT_END_OF_CHAIN
  BY FilesFacts
<1>2. reserved \in Nat  BY DEF Inputs
<1>3. ASSUME NEW link \in Links(files), link[1] = files[f][k]
      PROVE  k < Len(files[f]) /\ link[2] = files[f][k + 1]
  <2>1. PICK g \in 1 .. Len(files) :
          \E j \in 1 .. Len(files[g]) - 1 : link = <<files[g][j], files[g][j + 1]>>
    BY DEF Links
  <2>2. PICK j \in 1 .. Len(files[g]) - 1 : link = <<files[g][j], files[g][j + 1]>>  BY <2>1
  <2>3. j \in 1 .. Len(files[g])  BY <1>1, <2>2
  <2>4. f = g /\ k = j  BY <1>1, <1>3, <2>2, <2>3
  <2> QED BY <1>1, <2>2, <2>4
<1>4. CASE \E link \in Links(files) : link[1] = files[f][k]
  <2>1. PICK link : link = CHOOSE x \in Links(files) : x[1] = files[f][k]  OBVIOUS
  <2>2. link \in Links(files) /\ link[1] = files[f][k]  BY <1>4, <2>1
  <2>3. k < Len(files[f]) /\ link[2] = files[f][k + 1]  BY <1>3, <2>2
  <2>4. entry = reserved * 268435456 + link[2]  BY <1>1, <1>4, <2>1 DEF fat_entry
  <2>5. k + 1 \in 1 .. Len(files[f])  BY <1>1, <2>3
  <2>6. link[2] \in Nat /\ link[2] < FAT_END_OF_CHAIN  BY <1>1, <2>3, <2>5
  <2>7. reserved = 0 \/ reserved * 268435456 >= 268435456  BY <1>2
  <2> QED BY <1>2, <2>3, <2>4, <2>6, <2>7, SMT DEF FAT_END_OF_CHAIN
<1>5. CASE ~ \E link \in Links(files) : link[1] = files[f][k]
  <2>1. entry = reserved * 268435456 + FAT_END_OF_CHAIN  BY <1>1, <1>5 DEF fat_entry
  <2>2. ~ (k < Len(files[f]))
    <3>1. SUFFICES ASSUME k < Len(files[f]) PROVE FALSE  OBVIOUS
    <3>2. k \in 1 .. Len(files[f]) - 1  BY <1>1, <3>1
    <3>3. PICK link : link = <<files[f][k], files[f][k + 1]>>  OBVIOUS
    <3>4. link \in Links(files)  BY <3>2, <3>3 DEF Links
    <3> QED BY <1>5, <3>3, <3>4
  <2> QED BY <1>2, <2>1, <2>2, SMT DEF FAT_END_OF_CHAIN
<1> QED BY <1>4, <1>5

-----------------------------------------------------------------------------
(* The search for blocked extents.                                         *)

\* What Inputs says of the blocked extents.
LEMMA BlockedFacts ==
  ASSUME Inputs
  PROVE  /\ block_group_count(sb) \in Nat \ {0}
         /\ \A b \in 1 .. block_group_count(sb) :
              /\ blocked_extents[b].physical_start \in Nat /\ blocked_extents[b].length \in Nat
              /\ PhysicalEnd(blocked_extents[b]) \in Nat
              /\ blocked_extents[b].physical_start <= PhysicalEnd(blocked_extents[b])
         /\ \A b, d \in 1 .. block_group_count(sb) :
              b < d => /\ PhysicalEnd(blocked_extents[b]) <= blocked_extents[d].physical_start
                       /\ PhysicalEnd(blocked_extents[b]) <= PhysicalEnd(blocked_extents[d])
                       /\ blocked_extents[b].physical_start <= blocked_extents[d].physical_start
<1>1. block_group_count(sb) \in Nat \ {0}  BY GroupBounds DEF Inputs
<1>2. ASSUME NEW b \in 1 .. block_group_count(sb)
      PROVE  /\ blocked_extents[b].physical_start \in Nat /\ blocked_extents[b].length \in Nat
             /\ PhysicalEnd(blocked_extents[b]) \in Nat
             /\ blocked_extents[b].physical_start <= PhysicalEnd(blocked_extents[b])
  <2>1. b \in 1 .. block_group_count(sb) + 1  BY <1>1
  <2>2. blocked_extents[b] \in [physical_start : Nat, length : Nat]
    BY <2>1 DEF Inputs, WellFormed
  <2> QED BY <2>2 DEF PhysicalEnd
<1>3. \A b, d \in 1 .. block_group_count(sb) :
        b < d => PhysicalEnd(blocked_extents[b]) <= blocked_extents[d].physical_start
  BY DEF Inputs, WellFormed
<1>4. ASSUME NEW b \in 1 .. block_group_count(sb), NEW d \in 1 .. block_group_count(sb), b < d
      PROVE  /\ PhysicalEnd(blocked_extents[b]) <= PhysicalEnd(blocked_extents[d])
             /\ blocked_extents[b].physical_start <= blocked_extents[d].physical_start
  <2>1. PhysicalEnd(blocked_extents[b]) <= blocked_extents[d].physical_start  BY <1>3, <1>4
  <2> QED BY <1>2, <2>1
<1> QED BY <1>1, <1>2, <1>3, <1>4

\* find_first_blocked_extent: the binary search finds the first blocked extent
\* that does not end before the address.
LEMMA FirstBlocked ==
  ASSUME Inputs, NEW address \in Nat,
         NEW n, n = block_group_count(sb),
         NEW first, first = find_first_blocked_extent(address)
  PROVE  /\ first \in 1 .. n + 1
         /\ \A b \in 1 .. n : b < first => PhysicalEnd(blocked_extents[b]) < address
         /\ first <= n => PhysicalEnd(blocked_extents[first]) >= address
<1>1. /\ n \in Nat /\ n >= 1
      /\ \A b \in 1 .. n : PhysicalEnd(blocked_extents[b]) \in Nat
      /\ \A b, d \in 1 .. n : b < d =>
           PhysicalEnd(blocked_extents[b]) <= PhysicalEnd(blocked_extents[d])
  BY BlockedFacts
<1> DEFINE ends == 1 .. n + 1
           middle(r) == (r[1] + r[2]) \div 2
           body(g, r) ==
             IF r[1] >= r[2] THEN r[1]
             ELSE IF PhysicalEnd(blocked_extents[middle(r)]) < address
                  THEN g[<<middle(r) + 1, r[2]>>]
                  ELSE g[<<r[1], middle(r)>>]
           clamped(p, r) ==
             IF r[1] >= r[2] THEN r[1]
             ELSE IF p < r[1] THEN r[1] ELSE IF p > r[2] THEN r[2] ELSE p
<1>2. PICK p \in ends :
        /\ \A b \in 1 .. n : b < p => PhysicalEnd(blocked_extents[b]) < address
        /\ \A b \in 1 .. n : b >= p => PhysicalEnd(blocked_extents[b]) >= address
  <2>1. PICK S : S = {n + 1} \cup { b \in 1 .. n : PhysicalEnd(blocked_extents[b]) >= address }
    OBVIOUS
  <2>2. S \subseteq Nat /\ n + 1 \in S /\ S \subseteq ends  BY <1>1, <2>1
  <2>3. PICK p \in S : \A y \in S : p <= y  BY <2>2, LeastNat
  <2>4. ASSUME NEW b \in 1 .. n, b < p PROVE PhysicalEnd(blocked_extents[b]) < address
    <3>1. b \notin S  BY <2>2, <2>3, <2>4
    <3> QED BY <1>1, <2>1, <3>1
  <2>5. ASSUME NEW b \in 1 .. n, b >= p PROVE PhysicalEnd(blocked_extents[b]) >= address
    <3>1. p \in 1 .. n /\ PhysicalEnd(blocked_extents[p]) >= address
      BY <1>1, <2>1, <2>2, <2>5
    <3>2. CASE b = p  BY <3>1, <3>2
    <3>3. CASE b # p
      <4>1. p < b  BY <1>1, <2>5, <3>1, <3>3
      <4>2. PhysicalEnd(blocked_extents[p]) <= PhysicalEnd(blocked_extents[b])
        BY <1>1, <3>1, <4>1
      <4> QED BY <1>1, <3>1, <4>2
    <3> QED BY <3>2, <3>3
  <2> QED BY <2>2, <2>4, <2>5
<1>3. ASSUME NEW r \in ends \X ends, r[1] < r[2]
      PROVE  /\ middle(r) \in 1 .. n /\ r[1] <= middle(r) /\ middle(r) < r[2]
             /\ <<middle(r) + 1, r[2]>> \in ends \X ends /\ <<r[1], middle(r)>> \in ends \X ends
             /\ PhysicalEnd(blocked_extents[middle(r)]) < address <=> middle(r) < p
  <2>1. r[1] \in ends /\ r[2] \in ends  OBVIOUS
  <2>2. middle(r) \in Int /\ r[1] <= middle(r) /\ middle(r) < r[2]  BY <1>1, <1>3, <2>1
  <2>3. middle(r) \in 1 .. n /\ middle(r) \in ends /\ middle(r) + 1 \in ends
    BY <1>1, <2>1, <2>2
  <2>4. PhysicalEnd(blocked_extents[middle(r)]) < address <=> middle(r) < p
    <3> HIDE DEF middle
    <3> QED BY <1>1, <1>2, <2>3
  <2> QED BY <2>1, <2>2, <2>3, <2>4
<1>4. PICK search : search = [r \in ends \X ends |-> body(search, r)] /\ first = search[<<1, n + 1>>]
  <2>1. PICK G : G = [r \in ends \X ends |-> clamped(p, r)]  OBVIOUS
  <2>2. ASSUME NEW r \in ends \X ends PROVE clamped(p, r) = body(G, r)
    <3>1. CASE r[1] >= r[2]  BY <3>1
    <3>2. CASE ~ (r[1] >= r[2])
      <4>1. r[1] \in ends /\ r[2] \in ends  OBVIOUS
      <4>2. r[1] < r[2]  BY <1>1, <3>2, <4>1
      <4>3. PICK m \in 1 .. n :
              /\ m = middle(r) /\ r[1] <= m /\ m < r[2]
              /\ <<m + 1, r[2]>> \in ends \X ends /\ <<r[1], m>> \in ends \X ends
              /\ PhysicalEnd(blocked_extents[m]) < address <=> m < p
        <5> HIDE DEF middle
        <5> QED BY <1>3, <4>2
      <4>4. CASE m < p
        <5>1. body(G, r) = G[<<m + 1, r[2]>>]  BY <3>2, <4>3, <4>4
        <5>2. G[<<m + 1, r[2]>>] = clamped(p, <<m + 1, r[2]>>)  BY <2>1, <4>3
        <5>3. clamped(p, <<m + 1, r[2]>>) = clamped(p, r)  BY <1>1, <1>2, <4>1, <4>3, <4>4
        <5> QED BY <5>1, <5>2, <5>3
      <4>5. CASE ~ (m < p)
        <5>1. body(G, r) = G[<<r[1], m>>]  BY <3>2, <4>3, <4>5
        <5>2. G[<<r[1], m>>] = clamped(p, <<r[1], m>>)  BY <2>1, <4>3
        <5>3. clamped(p, <<r[1], m>>) = clamped(p, r)  BY <1>1, <1>2, <4>1, <4>3, <4>5
        <5> QED BY <5>1, <5>2, <5>3
      <4> QED BY <4>4, <4>5
    <3> QED BY <3>1, <3>2
  <2>3. G = [r \in ends \X ends |-> body(G, r)]
    <3> HIDE DEF clamped, body
    <3> QED BY <2>1, <2>2
  <2>4. PICK search : search = CHOOSE g : g = [r \in ends \X ends |-> body(g, r)]  OBVIOUS
  <2>5. search = [r \in ends \X ends |-> body(search, r)]
    <3> HIDE DEF body
    <3> QED BY <2>3, <2>4
  <2>6. first = search[<<1, n + 1>>]
    BY <2>4 DEF find_first_blocked_extent, blocked_extent_count
  <2> QED BY <2>5, <2>6
<1>5. \A b, e \in ends : b <= p /\ p <= e => search[<<b, e>>] = p
  <2>1. PICK T : T = { m \in Nat : \E b, e \in ends : /\ b <= p /\ p <= e /\ m = e - b
                                                       /\ search[<<b, e>>] # p }
    OBVIOUS
  <2>2. T = {}
    <3>1. SUFFICES ASSUME T # {} PROVE FALSE  OBVIOUS
    <3>2. PICK m \in T : \A y \in T : m <= y  BY <2>1, <3>1, LeastNat
    <3>3. PICK b \in ends, e \in ends :
            b <= p /\ p <= e /\ m = e - b /\ search[<<b, e>>] # p
      BY <2>1, <3>2
    <3>4. PICK r \in ends \X ends : r = <<b, e>> /\ r[1] = b /\ r[2] = e
      <4>1. <<b, e>> \in ends \X ends /\ <<b, e>>[1] = b /\ <<b, e>>[2] = e  OBVIOUS
      <4> QED BY <4>1
    <3>5. search[r] = body(search, r)  BY <1>4
    <3>6. b < e
      <4>1. SUFFICES ASSUME b >= e PROVE FALSE  BY <1>1
      <4>2. search[r] = b  BY <3>4, <3>5, <4>1
      <4>3. b = p  BY <1>1, <3>3, <4>1
      <4> QED BY <3>3, <3>4, <4>2, <4>3
    <3>7. PICK c \in 1 .. n :
            /\ c = middle(r) /\ b <= c /\ c < e
            /\ PhysicalEnd(blocked_extents[c]) < address <=> c < p
      <4> HIDE DEF middle
      <4> QED BY <1>3, <3>4, <3>6
    <3>8. CASE c < p
      <4>1. search[r] = search[<<c + 1, e>>]  BY <1>1, <3>4, <3>5, <3>6, <3>7, <3>8
      <4>2. c + 1 \in ends /\ c + 1 <= p /\ e - (c + 1) \in Nat /\ e - (c + 1) < m
        BY <1>1, <3>3, <3>7, <3>8
      <4>3. search[<<c + 1, e>>] = p
        <5>1. e - (c + 1) \notin T
          <6>1. ~ (m <= e - (c + 1))  BY <1>1, <3>3, <4>2
          <6> QED BY <3>2, <6>1
        <5> QED BY <2>1, <3>3, <4>2, <5>1
      <4> QED BY <3>3, <3>4, <4>1, <4>3
    <3>9. CASE ~ (c < p)
      <4>1. search[r] = search[<<b, c>>]  BY <1>1, <3>4, <3>5, <3>6, <3>7, <3>9
      <4>2. c \in ends /\ p <= c /\ c - b \in Nat /\ c - b < m
        BY <1>1, <3>3, <3>7, <3>9
      <4>3. search[<<b, c>>] = p
        <5>1. c - b \notin T
          <6>1. ~ (m <= c - b)  BY <1>1, <3>3, <4>2
          <6> QED BY <3>2, <6>1
        <5> QED BY <2>1, <3>3, <4>2, <5>1
      <4> QED BY <3>3, <3>4, <4>1, <4>3
    <3> QED BY <3>8, <3>9
  <2> QED
    <3>1. SUFFICES ASSUME NEW b \in ends, NEW e \in ends, b <= p, p <= e
                   PROVE  search[<<b, e>>] = p
      OBVIOUS
    <3>2. e - b \in Nat  BY <1>1, <3>1
    <3> QED BY <2>1, <2>2, <3>1, <3>2
<1>6. first = p
  <2>1. 1 \in ends /\ n + 1 \in ends /\ 1 <= p /\ p <= n + 1  BY <1>1, <1>2
  <2>2. search[<<1, n + 1>>] = p  BY <1>5, <2>1
  <2> QED BY <1>4, <2>2
<1> QED BY <1>1, <1>2, <1>6

\* find_next_blocked_extent: blocked extent j, or none from j on.
LEMMA NextBlocked ==
  ASSUME Inputs, NEW n, n = block_group_count(sb), NEW j \in 1 .. n + 1, NEW end \in Nat,
         NEW found, found = find_next_blocked_extent(j, end)
  PROVE  \/ /\ found = j /\ j <= n /\ IndexAfter(j) = found + 1
            /\ blocked_extents[found].physical_start <= end
         \/ found = 0 /\ \A b \in 1 .. n : b >= j => blocked_extents[b].physical_start > end
<1>1. /\ n \in Nat /\ n >= 1
      /\ \A b \in 1 .. n : blocked_extents[b].physical_start \in Nat
      /\ \A b, d \in 1 .. n : b < d =>
           blocked_extents[b].physical_start <= blocked_extents[d].physical_start
  BY BlockedFacts
<1>2. CASE j > n
  <2>1. found = 0  BY <1>2 DEF find_next_blocked_extent, blocked_extent_count
  <2> QED BY <1>1, <1>2, <2>1
<1>3. CASE ~ (j > n) /\ end < blocked_extents[j].physical_start
  <2>1. found = 0  BY <1>3 DEF find_next_blocked_extent, blocked_extent_count
  <2>2. j \in 1 .. n  BY <1>1, <1>3
  <2>3. ASSUME NEW b \in 1 .. n, b >= j PROVE blocked_extents[b].physical_start > end
    <3>1. b = j \/ j < b  BY <1>1, <2>2, <2>3
    <3>2. blocked_extents[j].physical_start <= blocked_extents[b].physical_start
      BY <1>1, <2>2, <3>1
    <3> QED BY <1>1, <1>3, <2>2, <3>2
  <2> QED BY <2>1, <2>3
<1>4. CASE ~ (j > n) /\ ~ (end < blocked_extents[j].physical_start)
  <2>1. found = j  BY <1>4 DEF find_next_blocked_extent, blocked_extent_count
  <2>2. j \in 1 .. n  BY <1>1, <1>4
  <2>3. IndexAfter(j) = j + 1  BY <1>4 DEF IndexAfter, blocked_extent_count
  <2> QED BY <1>1, <1>4, <2>1, <2>2, <2>3
<1> QED BY <1>2, <1>3, <1>4

-----------------------------------------------------------------------------
(* What a step leaves alone.                                               *)

\* The layout, the blocked extents and the files never change.
LEMMA InputsFrame ==
  ASSUME Inputs, UNCHANGED inputVars
  PROVE  /\ Inputs' /\ Start' = Start
         /\ \A c : IsBlocked(c)' <=> IsBlocked(c)
         /\ \A f, e : InPlace(f, e)' <=> InPlace(f, e)
<1>1. sb' = sb /\ blocked_extents' = blocked_extents /\ files' = files /\ reserved' = reserved
  BY DEF inputVars
<1> QED BY <1>1 DEF Inputs, Start, IsBlocked, InPlace

\* What the allocator may grant is none of the clusters in use, and it is not
\* blocked.
LEMMA StartFacts ==
  ASSUME Inputs, NEW c \in Start
  PROVE  /\ c \in DataClusters(sb) /\ c \notin UsedClusters(files) /\ ~ IsBlocked(c)
         /\ c \in Nat
<1>1. /\ c \in DataClusters(sb) /\ c \notin UsedClusters(files)
      /\ \A k \in 1 .. block_group_count(sb) :
           ~ (blocked_extents[k].physical_start <= c /\ c <= PhysicalEnd(blocked_extents[k]))
  BY DEF Start, AvailableAtStart
<1>2. c \in Nat
  <2>1. data_cluster_count(sb) \in Int
    BY DEF Inputs, UsableLayout, Superblocks, data_cluster_count, FAT_START_INDEX
  <2> QED BY <1>1, <2>1 DEF DataClusters, FAT_START_INDEX
<1>3. ~ IsBlocked(c)
  <2>1. SUFFICES ASSUME NEW b \in 1 .. block_group_count(sb), c \in Cells(blocked_extents[b])
                 PROVE  FALSE
    BY DEF IsBlocked
  <2>2. /\ blocked_extents[b].physical_start \in Nat /\ PhysicalEnd(blocked_extents[b]) \in Nat
    BY BlockedFacts
  <2>3. blocked_extents[b].physical_start <= c /\ c <= PhysicalEnd(blocked_extents[b])
    BY <2>1, <2>2 DEF Cells
  <2> QED BY <1>1, <2>3
<1> QED BY <1>1, <1>2, <1>3

\* The cells of an extent.
LEMMA CellsOf ==
  ASSUME NEW e \in ExtentSet
  PROVE  /\ \A c \in Cells(e) : \E k \in 0 .. e.length - 1 : c = e.physical_start + k
         /\ \A k \in 0 .. e.length - 1 : e.physical_start + k \in Cells(e)
<1>1. e.physical_start \in Nat /\ e.length \in Nat  BY DEF ExtentSet
<1>2. Cells(e) = e.physical_start .. (e.physical_start + e.length - 1)
  BY <1>1 DEF Cells, PhysicalEnd
<1>3. ASSUME NEW c \in Cells(e) PROVE \E k \in 0 .. e.length - 1 : c = e.physical_start + k
  <2>1. c - e.physical_start \in 0 .. e.length - 1
        /\ c = e.physical_start + (c - e.physical_start)
    BY <1>1, <1>2
  <2> QED BY <2>1
<1>4. \A k \in 0 .. e.length - 1 : e.physical_start + k \in Cells(e)  BY <1>1, <1>2
<1> QED BY <1>3, <1>4

\* An extent that stayed in place has clusters the FAT has in use.
LEMMA InPlaceFacts ==
  ASSUME Inputs, NEW f \in 1 .. Len(files), NEW e \in ExtentSet, InPlace(f, e),
         LogicalEnd(e) <= Len(files[f])
  PROVE  /\ Cells(e) \subseteq UsedClusters(files) /\ Cells(e) \cap Start = {}
         /\ Cells(e) \subseteq DataClusters(sb)
         /\ \A k \in 0 .. e.length - 1 :
              /\ e.logical_start + k + 1 \in 1 .. Len(files[f])
              /\ e.physical_start + k = files[f][e.logical_start + k + 1]
<1>1. e.logical_start \in Nat /\ e.length \in Nat /\ Len(files[f]) \in Nat
  BY FilesFacts DEF ExtentSet
<1>2. \A k \in 0 .. e.length - 1 :
        /\ e.logical_start + k + 1 \in 1 .. Len(files[f])
        /\ e.physical_start + k = files[f][e.logical_start + k + 1]
  BY <1>1 DEF LogicalEnd, InPlace
<1>3. ASSUME NEW c \in Cells(e) PROVE c \in UsedClusters(files) /\ c \in DataClusters(sb)
  <2>1. PICK k \in 0 .. e.length - 1 : c = e.physical_start + k  BY CellsOf
  <2>2. c = files[f][e.logical_start + k + 1]
        /\ e.logical_start + k + 1 \in 1 .. Len(files[f])
    BY <1>2, <2>1
  <2> QED BY <2>2, FilesFacts
<1>4. Cells(e) \cap Start = {}  BY <1>3, StartFacts
<1> QED BY <1>2, <1>3, <1>4

\* The stored extents, as Stream has them.
LEMMA StoredFacts ==
  ASSUME Inputs, Stream, NEW f \in 1 .. Len(stream)
  PROVE  /\ Len(stream) \in Nat /\ f \in 1 .. Len(files) /\ Len(files[f]) \in Nat
         /\ stream[f] \in Seq(ExtentSet) /\ Len(stream[f]) \in Nat
         /\ Chain(stream[f])
         /\ \A n \in 1 .. Len(stream[f]) :
              /\ stream[f][n] \in ExtentSet /\ Sound(f, stream[f][n])
              /\ Cells(stream[f][n]) \cap pages = {}
              /\ LogicalEnd(stream[f][n]) <= Len(files[f])
<1>1. /\ stream \in Seq(Seq(ExtentSet)) /\ Len(stream) <= Len(files)
      /\ Len(stream) \in Nat /\ Len(files) \in Nat
      /\ Chain(stream[f])
      /\ \A n \in 1 .. Len(stream[f]) :
            Sound(f, stream[f][n]) /\ Cells(stream[f][n]) \cap pages = {}
  BY FilesFacts DEF Stream
<1>2. f \in 1 .. Len(files) /\ stream[f] \in Seq(ExtentSet)  BY <1>1
<1>3. Len(files[f]) \in Nat /\ Len(stream[f]) \in Nat  BY <1>2, FilesFacts
<1>4. \A n \in 1 .. Len(stream[f]) : stream[f][n] \in ExtentSet  BY <1>2
<1>5. \A n \in 1 .. Len(stream[f]) : LogicalEnd(stream[f][n]) <= Len(files[f])
  BY <1>1 DEF Sound
<1> QED BY <1>1, <1>2, <1>3, <1>4, <1>5

\* The clusters of stored extents cannot be granted again.
LEMMA StoredTaken ==
  ASSUME Inputs, Stream, Allocator,
         NEW f \in 1 .. Len(stream), NEW n \in 1 .. Len(stream[f])
  PROVE  Cells(stream[f][n]) \cap (avail \cup Outstanding) = {}
<1>1. /\ f \in 1 .. Len(files) /\ stream[f][n] \in ExtentSet /\ Sound(f, stream[f][n])
      /\ LogicalEnd(stream[f][n]) <= Len(files[f])
  BY StoredFacts
<1>2. CASE InPlace(f, stream[f][n])
  <2>1. Cells(stream[f][n]) \cap Start = {}  BY <1>1, <1>2, InPlaceFacts
  <2> QED BY <2>1 DEF Allocator
<1>3. CASE Moved(f, stream[f][n])  BY <1>3 DEF Moved
<1> QED BY <1>1, <1>2, <1>3 DEF Sound

\* An extent stays sound while the allocator has only less to give.
LEMMA SoundFrame ==
  ASSUME Inputs, UNCHANGED inputVars, NEW f, NEW e, Sound(f, e),
         (avail \cup Outstanding)' \subseteq avail \cup Outstanding
  PROVE  Sound(f, e)'
<1>1. /\ Start' = Start /\ \A c : IsBlocked(c)' <=> IsBlocked(c)
      /\ InPlace(f, e)' <=> InPlace(f, e)
  BY InputsFrame
<1>2. sb' = sb /\ files' = files  BY DEF inputVars
<1>3. Moved(f, e) => Moved(f, e)'  BY <1>1, <1>2 DEF Moved
<1> QED BY <1>1, <1>2, <1>3 DEF Sound

\* The stored extents stay as they are when only the allocator moves on.
LEMMA StreamFrame ==
  ASSUME Inputs, Stream, ExtentsApart, UNCHANGED <<inputVars, stream, pages>>,
         (avail \cup Outstanding)' \subseteq avail \cup Outstanding
  PROVE  Stream' /\ ExtentsApart'
<1>1. /\ stream' = stream /\ pages' = pages /\ files' = files /\ UNCHANGED inputVars
  BY DEF inputVars
<1>2. Start' = Start  BY <1>1, InputsFrame
<1>3. \A f \in 1 .. Len(stream) : \A n \in 1 .. Len(stream[f]) : Sound(f, stream[f][n])'
  <2>1. SUFFICES ASSUME NEW f \in 1 .. Len(stream), NEW n \in 1 .. Len(stream[f])
                 PROVE  Sound(f, stream[f][n])'
    OBVIOUS
  <2>2. PICK e : e = stream[f][n]  OBVIOUS
  <2>3. Sound(f, e)  BY <2>2 DEF Stream
  <2>4. Sound(f, e)'  BY <1>1, <2>3, SoundFrame
  <2> QED BY <1>1, <2>2, <2>4 DEF Sound, InPlace, Moved
<1>4. Stream'  BY <1>1, <1>2, <1>3 DEF Stream
<1>5. ExtentsApart'  BY <1>1 DEF ExtentsApart
<1> QED BY <1>4, <1>5

\* An extent is added to the stream of the current file where the extents
\* before it end.
LEMMA StoredLast ==
  ASSUME Inputs, Stream, stream # <<>>, NEW e \in ExtentSet, Stored(e),
         NEW f, f = Len(stream), NEW n, n = Len(stream[f])
  PROVE  /\ f \in 1 .. Len(stream) /\ f \in Nat /\ n \in Nat
         /\ stream' \in Seq(Seq(ExtentSet)) /\ Len(stream') = f
         /\ \A g \in 1 .. f : g # f => stream'[g] = stream[g]
         /\ stream'[f] \in Seq(ExtentSet)
         /\ Len(stream'[f]) = n + 1 /\ stream'[f][n + 1] = e
         /\ \A m \in 1 .. n : stream'[f][m] = stream[f][m]
         /\ Total(stream'[f]) = LogicalEnd(e)
<1>1. stream \in Seq(Seq(ExtentSet)) /\ f \in Nat  BY DEF Stream
<1>2. f \in 1 .. Len(stream) /\ f \in 1 .. f  BY <1>1
<1>3. stream[f] \in Seq(ExtentSet) /\ n \in Nat  BY <1>1, <1>2
<1>4. PICK q \in Seq(ExtentSet) : q = Append(stream[f], e)
  <2>1. Append(stream[f], e) \in Seq(ExtentSet)  BY <1>3
  <2> QED BY <2>1
<1>5. /\ Len(q) = n + 1 /\ q[n + 1] = e
      /\ \A m \in 1 .. n : q[m] = stream[f][m]
  BY <1>3, <1>4
<1>6. stream' = [stream EXCEPT ![f] = q]  BY <1>4 DEF Stored
<1>7. stream \in [1 .. f -> Seq(ExtentSet)]
  <2>1. \A s \in Seq(Seq(ExtentSet)) : s \in [1 .. Len(s) -> Seq(ExtentSet)]  OBVIOUS
  <2> QED BY <1>1, <2>1
<1>8. stream' \in [1 .. f -> Seq(ExtentSet)]  BY <1>4, <1>6, <1>7
<1>9. stream' \in Seq(Seq(ExtentSet)) /\ Len(stream') = f
  <2>1. PICK S : S = Seq(ExtentSet)  OBVIOUS
  <2>2. \A s \in [1 .. f -> S] : s \in Seq(S) /\ Len(s) = f  BY <1>1
  <2> QED BY <1>8, <2>1, <2>2
<1>10. /\ \A g \in 1 .. f : g # f => stream'[g] = stream[g]
       /\ stream'[f] = q
  BY <1>2, <1>6, <1>7
<1>11. Total(q) = LogicalEnd(e)
  <2>1. Len(q) # 0  BY <1>3, <1>5
  <2> QED BY <1>5, <2>1 DEF Total
<1> QED BY <1>1, <1>2, <1>3, <1>4, <1>5, <1>9, <1>10, <1>11

\* With that extent the stream is still sound and its extents are apart.
LEMMA StoreStream ==
  ASSUME Inputs, Stream, ExtentsApart, stream # <<>>, UNCHANGED <<inputVars, pages>>,
         (avail \cup Outstanding)' \subseteq avail \cup Outstanding,
         NEW e \in ExtentSet, Stored(e), NEW f, f = Len(stream),
         e.logical_start = Total(stream[f]),
         Sound(f, e)', Cells(e) \cap pages = {},
         \A g \in 1 .. Len(stream) : \A m \in 1 .. Len(stream[g]) :
           Cells(e) \cap Cells(stream[g][m]) = {}
  PROVE  Stream' /\ ExtentsApart'
<1>1. PICK n : n = Len(stream[f])  OBVIOUS
<1>2. /\ f \in 1 .. Len(stream) /\ f \in Nat /\ n \in Nat
      /\ stream' \in Seq(Seq(ExtentSet)) /\ Len(stream') = f
      /\ \A g \in 1 .. f : g # f => stream'[g] = stream[g]
      /\ stream'[f] \in Seq(ExtentSet)
      /\ Len(stream'[f]) = n + 1 /\ stream'[f][n + 1] = e
      /\ \A m \in 1 .. n : stream'[f][m] = stream[f][m]
      /\ Total(stream'[f]) = LogicalEnd(e)
  BY <1>1, StoredLast
<1>3. /\ files' = files /\ pages' = pages /\ UNCHANGED inputVars  BY DEF inputVars
<1>4. Start' = Start  BY <1>3, InputsFrame
<1>5. Chain(stream'[f])
  <2>1. Chain(stream[f]) /\ stream[f] \in Seq(ExtentSet)  BY <1>2, StoredFacts
  <2>2. /\ e.logical_start \in Nat /\ e.length \in Nat
        /\ LogicalEnd(e) \in Nat /\ LogicalEnd(e) >= e.logical_start
    BY DEF ExtentSet, LogicalEnd
  <2>3. \A m \in 1 .. n : LogicalEnd(stream[f][m]) <= LogicalEnd(e)
    <3>1. SUFFICES ASSUME NEW m \in 1 .. n PROVE LogicalEnd(stream[f][m]) <= LogicalEnd(e)
      OBVIOUS
    <3>2. LogicalEnd(stream[f][m]) <= Total(stream[f])  BY <1>1, <2>1 DEF Chain
    <3>3. stream[f][m] \in ExtentSet  BY <1>1, <2>1
    <3>4. LogicalEnd(stream[f][m]) \in Nat
      <4>1. PICK g \in ExtentSet : g = stream[f][m]  BY <3>3
      <4>2. LogicalEnd(g) \in Nat  BY DEF LogicalEnd, ExtentSet
      <4> QED BY <4>1, <4>2
    <3> QED BY <2>2, <3>2, <3>4
  <2>4. ASSUME NEW m \in 1 .. n + 1
        PROVE  /\ stream'[f][m].logical_start =
                    IF m = 1 THEN 0 ELSE LogicalEnd(stream'[f][m - 1])
               /\ LogicalEnd(stream'[f][m]) <= LogicalEnd(e)
    <3>1. CASE m = n + 1
      <4>1. CASE n = 0
        <5>1. Total(stream[f]) = 0  BY <1>1, <4>1 DEF Total
        <5> QED BY <1>2, <2>2, <3>1, <4>1, <5>1
      <4>2. CASE n # 0
        <5>1. Total(stream[f]) = LogicalEnd(stream[f][n])  BY <1>1, <4>2 DEF Total
        <5>2. m # 1 /\ m - 1 = n /\ n \in 1 .. n  BY <1>2, <3>1, <4>2
        <5> QED BY <1>2, <2>2, <3>1, <5>1, <5>2
      <4> QED BY <4>1, <4>2
    <3>2. CASE m # n + 1
      <4>1. m \in 1 .. n  BY <1>2, <3>2
      <4>2. m = 1 \/ m - 1 \in 1 .. n  BY <1>2, <4>1
      <4>3. stream[f][m].logical_start = IF m = 1 THEN 0 ELSE LogicalEnd(stream[f][m - 1])
        BY <1>1, <2>1, <4>1 DEF Chain
      <4> QED BY <1>2, <2>3, <4>1, <4>2, <4>3
    <3> QED BY <3>1, <3>2
  <2> QED BY <1>2, <2>4 DEF Chain
<1>6. ASSUME NEW g \in 1 .. f, NEW m \in 1 .. Len(stream'[g])
      PROVE  \/ g = f /\ m = n + 1 /\ stream'[g][m] = e
             \/ m \in 1 .. Len(stream[g]) /\ stream'[g][m] = stream[g][m]
  <2>1. CASE g # f  BY <1>2, <2>1
  <2>2. CASE g = f
    <3>1. m = n + 1 \/ m \in 1 .. n  BY <1>2, <2>2
    <3> QED BY <1>1, <1>2, <2>2, <3>1
  <2> QED BY <2>1, <2>2
<1>7. ASSUME NEW g \in 1 .. f, NEW m \in 1 .. Len(stream'[g])
      PROVE  Sound(g, stream[g][m])' /\ Cells(stream'[g][m]) \cap pages = {}
  <2>1. PICK x : x = stream'[g][m]  OBVIOUS
  <2>2. Sound(g, x)' /\ Cells(x) \cap pages = {}
    <3>1. CASE g = f /\ m = n + 1 /\ x = e  BY <3>1
    <3>2. CASE m \in 1 .. Len(stream[g]) /\ x = stream[g][m]
      <4>1. Sound(g, x) /\ Cells(x) \cap pages = {}  BY <1>2, <3>2 DEF Stream
      <4>2. Sound(g, x)'  BY <1>3, <4>1, SoundFrame
      <4> QED BY <4>1, <4>2
    <3> QED BY <1>6, <2>1, <3>1, <3>2
  <2> QED BY <2>1, <2>2 DEF Sound, InPlace, Moved
<1>8. Stream'
  <2>1. ASSUME NEW g \in 1 .. f PROVE Chain(stream'[g])
    <3>1. CASE g = f  BY <1>5, <3>1
    <3>2. CASE g # f  BY <1>2, <3>2, StoredFacts
    <3> QED BY <3>1, <3>2
  <2>2. f <= Len(files)  BY DEF Stream
  <2>3. (pages \cap (avail \cup Outstanding))' = {}  BY <1>3 DEF Stream
  <2>4. \A g \in 1 .. Len(stream') : \A m \in 1 .. Len(stream'[g]) :
          Sound(g, stream[g][m])' /\ Cells(stream'[g][m]) \cap pages' = {}
    BY <1>2, <1>3, <1>7
  <2>5. pages' \subseteq Start'  BY <1>3, <1>4 DEF Stream
  <2> QED BY <1>2, <1>3, <2>1, <2>2, <2>3, <2>4, <2>5 DEF Stream, Chain
<1>9. ExtentsApart'
  <2>1. SUFFICES ASSUME NEW g \in 1 .. f, NEW h \in 1 .. f,
                        NEW m \in 1 .. Len(stream'[g]), NEW k \in 1 .. Len(stream'[h]),
                        g # h \/ m # k
                 PROVE  Cells(stream'[g][m]) \cap Cells(stream'[h][k]) = {}
    BY <1>2 DEF ExtentsApart
  <2>2. PICK x, y : x = stream'[g][m] /\ y = stream'[h][k]  OBVIOUS
  <2>3. CASE g = f /\ m = n + 1 /\ x = e
    <3>1. k \in 1 .. Len(stream[h]) /\ y = stream[h][k]  BY <1>6, <2>1, <2>2, <2>3
    <3> QED BY <1>2, <2>2, <2>3, <3>1
  <2>4. CASE m \in 1 .. Len(stream[g]) /\ x = stream[g][m]
    <3>1. CASE h = f /\ k = n + 1 /\ y = e  BY <1>2, <2>2, <2>4, <3>1
    <3>2. CASE k \in 1 .. Len(stream[h]) /\ y = stream[h][k]
      <4>1. g \in 1 .. Len(stream) /\ h \in 1 .. Len(stream)  BY <1>2
      <4>2. Cells(stream[g][m]) \cap Cells(stream[h][k]) = {}
        BY <2>1, <2>4, <3>2, <4>1 DEF ExtentsApart
      <4> QED BY <2>2, <2>4, <3>2, <4>2
    <3> QED BY <1>6, <2>2, <3>1, <3>2
  <2> QED BY <1>6, <2>2, <2>3, <2>4
<1> QED BY <1>8, <1>9

\* A step of the allocator or of the stream leaves the mapping where it is.
LEMMA FileFrame ==
  ASSUME MappingInv, Label' = Label,
         UNCHANGED <<inputVars, stream, aggregateVars, fragmentVars, resettleVars>>
  PROVE  Finished' /\ Aggregate' /\ Fragments' /\ Resettle' /\ Progress'
<1>1. /\ stream' = stream /\ files' = files /\ reserved' = reserved /\ sb' = sb
      /\ blocked_extents' = blocked_extents
      /\ current_extent' = current_extent /\ next_cluster_no' = next_cluster_no
      /\ fragment_start' = fragment_start /\ i' = i /\ blocked_extent' = blocked_extent
      /\ fragment' = fragment /\ resettled' = resettled /\ UNCHANGED inputVars
  BY DEF inputVars, aggregateVars, fragmentVars, resettleVars
<1>2. Inputs  BY DEF MappingInv
<1>3. Start' = Start /\ \A c : IsBlocked(c)' <=> IsBlocked(c)  BY <1>1, <1>2, InputsFrame
<1>4. Finished'  BY <1>1 DEF MappingInv, Finished
<1>5. Aggregate'  BY <1>1 DEF MappingInv, Aggregate, InFile, InPlace, is_end
<1>6. Fragments'  BY <1>1 DEF MappingInv, Fragments, Flushing, InFile
<1>7. Resettle'
  BY <1>1, <1>3 DEF MappingInv, Resettle, Resettling, Flushing, InFile, FragmentPosition, InPlace
<1>8. Progress'  BY <1>1, <1>3 DEF MappingInv, Progress, FragmentPosition, LastStored
<1> QED BY <1>4, <1>5, <1>6, <1>7, <1>8

\* So does what the clusters hold.
LEMMA ContentFrame ==
  ASSUME Content, Label' = Label, UNCHANGED <<inputVars, stream, disk>>
  PROVE  Content'
<1>1. stream' = stream /\ disk' = disk /\ files' = files /\ sb' = sb  BY DEF inputVars
<1> QED BY <1>1 DEF Content, SourceIntact, Pending

\* allocate_extent returns: what it grants was available and is so no more.
LEMMA GrantStep ==
  ASSUME MappingInv, Grant, UNCHANGED mapperVars
  PROVE  MappingInv'
<1>1. /\ UNCHANGED <<inputVars, stream, aggregateVars, fragmentVars, resettleVars>>
      /\ UNCHANGED <<inputVars, stream, pages>> /\ UNCHANGED <<inputVars, stream, disk>>
      /\ pc' = pc /\ then' = then /\ UNCHANGED inputVars
      /\ fragment' = fragment /\ resettled' = resettled /\ sb' = sb
  BY DEF mapperVars, streamVars, resettleVars, inputVars
<1>2. Inputs /\ Control /\ Allocator /\ Stream /\ ExtentsApart /\ Content  BY DEF MappingInv
<1>3. phase = "busy" /\ phase' = "idle" /\ want' = want /\ avail' = avail \ out'
  BY DEF Grant
<1>4. pc \in {"page", "granted"} /\ out = {}  BY <1>2, <1>3 DEF Control
<1>5. PICK lo \in avail, hi \in avail : IsFirstRun(lo, hi, avail, want) /\ out' = lo .. hi
  BY DEF Grant
<1>6. /\ lo \in DataClusters(sb) /\ hi \in DataClusters(sb)
      /\ lo <= hi /\ hi - lo + 1 <= want /\ out' \subseteq avail
  <2>1. lo \in Start /\ hi \in Start  BY <1>2 DEF Allocator
  <2> QED BY <1>2, <1>5, <2>1, StartFacts DEF IsFirstRun
<1>7. Outstanding = {} /\ Outstanding' = out'  BY <1>1, <1>4 DEF Outstanding
<1>8. (avail \cup Outstanding)' \subseteq avail \cup Outstanding  BY <1>3, <1>6, <1>7
<1>9. Inputs' /\ Start' = Start  BY <1>1, <1>2, InputsFrame
<1>10. Control'  BY <1>1, <1>2, <1>3 DEF Control
<1>11. Allocator'
  <2>1. avail' \subseteq Start' /\ Outstanding' \subseteq Start' /\ Outstanding' \cap avail' = {}
    BY <1>2, <1>3, <1>6, <1>7, <1>9 DEF Allocator
  <2>2. \E a, b \in DataClusters(sb') : a <= b /\ out' = a .. b /\ b - a + 1 <= want'
    BY <1>1, <1>3, <1>5, <1>6
  <2>3. pc' = "granted" => want' = fragment'.length - resettled'
    BY <1>1, <1>2, <1>3 DEF Allocator
  <2> QED BY <2>1, <2>2, <2>3 DEF Allocator
<1>12. Stream' /\ ExtentsApart'  BY <1>1, <1>2, <1>8, StreamFrame
<1>13. Label' = Label  BY <1>1 DEF Label
<1>14. Content'  BY <1>1, <1>2, <1>13, ContentFrame
<1>15. Finished' /\ Aggregate' /\ Fragments' /\ Resettle' /\ Progress'
  BY <1>1, <1>13, FileFrame
<1> QED BY <1>9, <1>10, <1>11, <1>12, <1>14, <1>15 DEF MappingInv

\* A step that grants nothing and asks for at most a page.
LEMMA QuietStep ==
  ASSUME MappingInv, Control', Label' = Label, Outstanding' = {}, avail' = avail,
         phase' = "idle" => pc' \notin {"page", "granted"},
         pc' = "granted" => pc = "granted" /\ want' = want,
         UNCHANGED <<inputVars, stream, pages, disk, aggregateVars, fragmentVars, resettleVars>>
  PROVE  MappingInv'
<1>1. /\ UNCHANGED <<inputVars, stream, aggregateVars, fragmentVars, resettleVars>>
      /\ UNCHANGED <<inputVars, stream, pages>> /\ UNCHANGED <<inputVars, stream, disk>>
      /\ UNCHANGED inputVars
      /\ fragment' = fragment /\ resettled' = resettled
  BY DEF resettleVars
<1>2. Inputs /\ Control /\ Allocator /\ Stream /\ ExtentsApart /\ Content  BY DEF MappingInv
<1>3. (avail \cup Outstanding)' \subseteq avail \cup Outstanding  OBVIOUS
<1>4. Inputs' /\ Start' = Start  BY <1>1, <1>2, InputsFrame
<1>5. Allocator'  BY <1>1, <1>2, <1>4 DEF Allocator
<1>6. Stream' /\ ExtentsApart'  BY <1>1, <1>2, <1>3, StreamFrame
<1>7. Content'  BY <1>1, <1>2, ContentFrame
<1>8. Finished' /\ Aggregate' /\ Fragments' /\ Resettle' /\ Progress'  BY <1>1, FileFrame
<1> QED BY <1>4, <1>5, <1>6, <1>7, <1>8 DEF MappingInv

\* allocate_extent gives up,
LEMMA FailStep ==
  ASSUME MappingInv, Fail, UNCHANGED mapperVars
  PROVE  MappingInv'
<1>1. /\ UNCHANGED <<inputVars, stream, pages, disk, aggregateVars, fragmentVars, resettleVars>>
      /\ pc' = pc /\ then' = then
  BY DEF mapperVars, streamVars
<1>2. phase = "busy" /\ phase' = "full" /\ avail' = avail /\ want' = want /\ out' = out
  BY DEF Fail
<1>3. Control  BY DEF MappingInv
<1>4. Control' /\ Outstanding' = {} /\ Label' = Label
  BY <1>1, <1>2, <1>3 DEF Control, Outstanding, Label
<1> QED BY <1>1, <1>2, <1>4, QuietStep

\* and the insertion into the current page.
LEMMA InsertStep ==
  ASSUME MappingInv, InsertInPage \/ CallAllocatePage
  PROVE  MappingInv'
<1>1. Control  BY DEF MappingInv
<1>2. CASE InsertInPage
  <2>1. /\ UNCHANGED <<inputVars, stream, pages, disk, aggregateVars, fragmentVars, resettleVars>>
        /\ pc = "insert" /\ pc' = then /\ then' = then /\ phase = "idle"
        /\ avail' = avail /\ phase' = phase /\ want' = want /\ out' = out
    BY <1>2 DEF InsertInPage, Running, ffVars
  <2>2. then \in {"next_file", "fragments", "copy"}  BY <1>1 DEF Control
  <2>3. Control' /\ Outstanding' = {} /\ Label' = Label
    BY <1>1, <2>1, <2>2 DEF Control, Outstanding, Label
  <2> QED BY <2>1, <2>2, <2>3, QuietStep
<1>3. CASE CallAllocatePage
  <2>1. /\ UNCHANGED <<inputVars, stream, pages, disk, aggregateVars, fragmentVars, resettleVars>>
        /\ pc = "insert" /\ pc' = "page" /\ then' = then
        /\ avail' = avail /\ phase' = "busy" /\ out' = {}
    BY <1>3 DEF CallAllocatePage, Request, streamVars
  <2>2. Control' /\ Outstanding' = {} /\ Label' = Label
    BY <1>1, <2>1 DEF Control, Outstanding, Label
  <2> QED BY <2>1, <2>2, QuietStep
<1> QED BY <1>2, <1>3

\* The insertion into a new page: nothing the FAT or an extent uses is written.
LEMMA NewPageStep ==
  ASSUME MappingInv, InsertInNewPage
  PROVE  MappingInv'
<1>1. /\ UNCHANGED <<inputVars, stream, aggregateVars, fragmentVars, resettleVars>>
      /\ pc = "page" /\ pc' = then /\ then' = then /\ phase = "idle"
      /\ avail' = avail /\ phase' = phase /\ want' = want /\ out' = out
      /\ pages' = pages \cup out /\ stream' = stream
      /\ disk' = [c \in DOMAIN disk |-> IF c \in out THEN PageContent ELSE disk[c]]
      /\ files' = files /\ sb' = sb /\ UNCHANGED inputVars
  BY DEF InsertInNewPage, Running, ffVars, inputVars
<1>2. Inputs /\ Control /\ Allocator /\ Stream /\ ExtentsApart /\ Content  BY DEF MappingInv
<1>3. then \in {"next_file", "fragments", "copy"}  BY <1>2 DEF Control
<1>4. Outstanding = out /\ Outstanding' = {} /\ Label' = Label
  BY <1>1, <1>3 DEF Outstanding, Label
<1>5. out \subseteq Start /\ out \cap avail = {} /\ out \cap pages = {}
  BY <1>2, <1>4 DEF Allocator, Stream
<1>6. Inputs' /\ Start' = Start  BY <1>1, <1>2, InputsFrame
<1>7. Control'  BY <1>1, <1>2, <1>3 DEF Control
<1>8. Allocator'  BY <1>1, <1>2, <1>3, <1>4, <1>6 DEF Allocator
<1>9. (avail \cup Outstanding)' \subseteq avail \cup Outstanding  BY <1>1, <1>4
<1>10. \A f \in 1 .. Len(stream) : \A n \in 1 .. Len(stream[f]) :
         Cells(stream[f][n]) \cap out = {}
  BY <1>2, <1>4, StoredTaken
<1>11. Stream' /\ ExtentsApart'
  <2>1. \A f \in 1 .. Len(stream) : \A n \in 1 .. Len(stream[f]) : Sound(f, stream[f][n])'
    <3>1. SUFFICES ASSUME NEW f \in 1 .. Len(stream), NEW n \in 1 .. Len(stream[f])
                   PROVE  Sound(f, stream[f][n])'
      OBVIOUS
    <3>2. PICK e : e = stream[f][n]  OBVIOUS
    <3>3. Sound(f, e)  BY <1>2, <3>2 DEF Stream
    <3>4. Sound(f, e)'  BY <1>1, <1>2, <1>9, <3>3, SoundFrame
    <3> QED BY <1>1, <3>2, <3>4 DEF Sound, InPlace, Moved
  <2>2. pages' \subseteq Start' /\ (pages \cap (avail \cup Outstanding))' = {}
    BY <1>1, <1>2, <1>4, <1>5, <1>6 DEF Stream
  <2>3. \A f \in 1 .. Len(stream) : \A n \in 1 .. Len(stream[f]) :
          Cells(stream[f][n]) \cap pages' = {}
    BY <1>1, <1>2, <1>10 DEF Stream
  <2>4. Stream'  BY <1>1, <1>2, <2>1, <2>2, <2>3 DEF Stream
  <2>5. ExtentsApart'  BY <1>1, <1>2 DEF ExtentsApart
  <2> QED BY <2>4, <2>5
<1>12. Content'
  <2>1. DOMAIN disk' = DataClusters(sb)  BY <1>1, <1>2 DEF Content
  <2>2. \A c \in DataClusters(sb) \ out : disk'[c] = disk[c]  BY <1>1, <1>2 DEF Content
  <2>3. ASSUME NEW c \in UsedClusters(files) PROVE disk'[c] = c
    <3>1. c \in DataClusters(sb) /\ c \notin out  BY <1>2, <1>5, StartFacts DEF Inputs
    <3> QED BY <1>2, <2>2, <3>1 DEF Content, SourceIntact
  <2>4. ASSUME NEW f \in 1 .. Len(stream), NEW n \in 1 .. Len(stream[f]), ~ Pending(f, n),
               NEW k \in 0 .. stream[f][n].length - 1
        PROVE  disk'[stream[f][n].physical_start + k] = files[f][stream[f][n].logical_start + k + 1]
    <3>1. PICK e \in ExtentSet : e = stream[f][n] /\ Sound(f, e)  BY <1>2, StoredFacts
    <3>2. e.physical_start + k \in Cells(e)  BY <2>4, <3>1, CellsOf
    <3>3. e.physical_start + k \in DataClusters(sb)  BY <3>1, <3>2 DEF Sound
    <3>4. e.physical_start + k \notin out  BY <1>10, <3>1, <3>2
    <3> QED BY <1>2, <2>2, <2>4, <3>1, <3>3, <3>4 DEF Content
  <2>5. \A f, n : Pending(f, n)' <=> Pending(f, n)  BY <1>1, <1>4 DEF Pending
  <2> QED BY <1>1, <2>1, <2>3, <2>4, <2>5 DEF Content, SourceIntact
<1>13. Finished' /\ Aggregate' /\ Fragments' /\ Resettle' /\ Progress'
  BY <1>1, <1>4, FileFrame
<1> QED BY <1>6, <1>7, <1>8, <1>11, <1>12, <1>13 DEF MappingInv

-----------------------------------------------------------------------------
(* The steps of the mapping.                                               *)

\* A step that leaves the disk, the stream and the allocator's clusters alone.
LEMMA BaseFrame ==
  ASSUME MappingInv, Outstanding' = {}, avail' = avail,
         phase' = "idle" => pc' \notin {"page", "granted"},
         pc' = "granted" => want' = fragment'.length - resettled',
         Label # "copy", Label' # "copy",
         UNCHANGED <<inputVars, stream, pages, disk>>
  PROVE  Inputs' /\ Allocator' /\ Stream' /\ ExtentsApart' /\ Content'
<1>1. /\ UNCHANGED <<inputVars, stream, pages>> /\ UNCHANGED inputVars
      /\ stream' = stream /\ disk' = disk /\ files' = files /\ sb' = sb
  BY DEF inputVars
<1>2. Inputs /\ Control /\ Allocator /\ Stream /\ ExtentsApart /\ Content  BY DEF MappingInv
<1>3. (avail \cup Outstanding)' \subseteq avail \cup Outstanding  OBVIOUS
<1>4. Inputs' /\ Start' = Start  BY <1>1, <1>2, InputsFrame
<1>5. Allocator'  BY <1>1, <1>2, <1>4 DEF Allocator
<1>6. Stream' /\ ExtentsApart'  BY <1>1, <1>2, <1>3, StreamFrame
<1>7. Content'  BY <1>1, <1>2 DEF Content, SourceIntact, Pending
<1> QED BY <1>4, <1>5, <1>6, <1>7

\* init_stream_archiver asks for the first page.
LEMMA OpenStep ==
  ASSUME MappingInv, OpenStream
  PROVE  MappingInv'
<1>1. /\ UNCHANGED <<inputVars, stream, pages, disk>> /\ stream' = stream
      /\ files' = files /\ reserved' = reserved
      /\ pc = "open" /\ pc' = "page" /\ then' = then
      /\ avail' = avail /\ phase' = "busy" /\ out' = {}
  BY DEF OpenStream, Request, streamVars, inputVars
<1>2. Control /\ Finished  BY DEF MappingInv
<1>3. then = "next_file"  BY <1>1, <1>2 DEF Control
<1>4. Control' /\ Outstanding' = {} /\ Label = "open" /\ Label' = "next_file"
  BY <1>1, <1>2, <1>3 DEF Control, Outstanding, Label
<1>5. Inputs' /\ Allocator' /\ Stream' /\ ExtentsApart' /\ Content'
  BY <1>1, <1>4, BaseFrame
<1>6. Finished'  BY <1>1, <1>2, <1>4 DEF Finished
<1>7. Aggregate' /\ Fragments' /\ Resettle'
  BY <1>4 DEF Aggregate, Fragments, Resettle, Resettling, Flushing, InFile
<1>8. Progress'  BY <1>4 DEF Progress
<1> QED BY <1>4, <1>5, <1>6, <1>7, <1>8 DEF MappingInv

\* The entry of aggregate_extents: an empty file is mapped at once, the first
\* cluster of any other starts an extent.
LEMMA NextFileStep ==
  ASSUME MappingInv, NextFile
  PROVE  MappingInv'
<1>1. PICK f : f = Len(stream) + 1  OBVIOUS
<1>2. /\ UNCHANGED inputVars /\ files' = files /\ sb' = sb /\ reserved' = reserved
      /\ disk' = disk /\ pages' = pages /\ stream' = Append(stream, <<>>)
      /\ avail' = avail /\ phase = "idle" /\ phase' = "idle" /\ want' = want /\ out' = out
      /\ pc = "next_file" /\ Len(stream) < Len(files)
      /\ IF file_cluster_no(f) = 0
           THEN pc' = "insert" /\ then' = "next_file"
           ELSE /\ current_extent' = Extent(0, file_cluster_no(f), 1)
                /\ next_cluster_no' = fat_entry(file_cluster_no(f))
                /\ pc' = "aggregate" /\ then' = then
  BY <1>1 DEF NextFile, Running, ffVars, inputVars, ThenInsert
<1>3. Inputs /\ Control /\ Allocator /\ Stream /\ ExtentsApart /\ Content /\ Finished
  BY DEF MappingInv
<1>4. /\ stream \in Seq(Seq(ExtentSet)) /\ Len(stream) \in Nat /\ f \in 1 .. Len(files)
      /\ f \in Nat /\ Len(files) \in Nat
  BY <1>1, <1>2, <1>3, FilesFacts DEF Stream
<1>5. /\ stream' \in Seq(Seq(ExtentSet)) /\ Len(stream') = f /\ stream'[f] = <<>>
      /\ \A g \in 1 .. Len(stream) : stream'[g] = stream[g]
      /\ Len(stream'[f]) = 0
  <2>1. <<>> \in Seq(ExtentSet) /\ Len(<<>>) = 0  OBVIOUS
  <2>2. PICK S : S = Seq(ExtentSet)  OBVIOUS
  <2>3. stream \in Seq(S) /\ <<>> \in S  BY <1>4, <2>1, <2>2
  <2>4. Append(stream, <<>>) \in Seq(S)  BY <2>3
  <2>5. /\ Len(stream') = f /\ stream'[f] = <<>>
        /\ \A g \in 1 .. Len(stream) : stream'[g] = stream[g]
    BY <1>1, <1>2, <1>4
  <2> QED BY <1>2, <2>1, <2>2, <2>4, <2>5
<1>6. \A g \in 1 .. f : g = f \/ g \in 1 .. Len(stream)  BY <1>1, <1>4
<1>7. Outstanding = {} /\ Outstanding' = {} /\ Label = "next_file"
  BY <1>2 DEF Outstanding, Label
<1>8. Inputs' /\ Start' = Start  BY <1>2, <1>3, InputsFrame
<1>9. Control'  BY <1>2, <1>3 DEF Control
<1>10. Allocator'  BY <1>2, <1>3, <1>7, <1>8 DEF Allocator
<1>11. Stream'
  <2>1. ASSUME NEW g \in 1 .. f, NEW n \in 1 .. Len(stream'[g])
        PROVE  /\ g \in 1 .. Len(stream) /\ n \in 1 .. Len(stream[g])
               /\ stream'[g] = stream[g]
    BY <1>5, <1>6
  <2>2. ASSUME NEW g \in 1 .. f, NEW n \in 1 .. Len(stream'[g])
        PROVE  Sound(g, stream[g][n])' /\ Cells(stream'[g][n]) \cap pages' = {}
    <3>1. PICK e : e = stream[g][n] /\ e = stream'[g][n]  BY <2>1
    <3>2. Sound(g, e) /\ Cells(e) \cap pages = {}  BY <1>3, <2>1, <3>1 DEF Stream
    <3>3. (avail \cup Outstanding)' \subseteq avail \cup Outstanding  BY <1>2, <1>7
    <3>4. Sound(g, e)'  BY <1>2, <1>3, <3>2, <3>3, SoundFrame
    <3> QED BY <1>2, <3>1, <3>2, <3>4 DEF Sound, InPlace, Moved
  <2>3. ASSUME NEW g \in 1 .. f PROVE Chain(stream'[g])
    <3>1. CASE g = f
      <4>1. 1 .. Len(stream'[g]) = {}  BY <1>5, <3>1
      <4> QED BY <4>1 DEF Chain
    <3>2. CASE g \in 1 .. Len(stream)  BY <1>3, <1>5, <3>2 DEF Stream
    <3> QED BY <1>6, <3>1, <3>2
  <2>4. f <= Len(files') /\ pages' \subseteq Start'
        /\ (pages \cap (avail \cup Outstanding))' = {}
    BY <1>2, <1>3, <1>4, <1>7, <1>8 DEF Stream
  <2> QED BY <1>5, <2>2, <2>3, <2>4 DEF Stream, Chain
<1>12. ASSUME NEW g \in 1 .. f, NEW n \in 1 .. Len(stream'[g])
       PROVE  g \in 1 .. Len(stream) /\ n \in 1 .. Len(stream[g]) /\ stream'[g] = stream[g]
  BY <1>5, <1>6
<1>13. ExtentsApart'
  <2>1. SUFFICES ASSUME NEW g \in 1 .. f, NEW h \in 1 .. f,
                        NEW n \in 1 .. Len(stream'[g]), NEW m \in 1 .. Len(stream'[h]),
                        g # h \/ n # m
                 PROVE  Cells(stream'[g][n]) \cap Cells(stream'[h][m]) = {}
    <3>1. Len(stream') = f  BY <1>5
    <3> QED BY <3>1 DEF ExtentsApart
  <2>2. /\ g \in 1 .. Len(stream) /\ n \in 1 .. Len(stream[g]) /\ stream'[g] = stream[g]
        /\ h \in 1 .. Len(stream) /\ m \in 1 .. Len(stream[h]) /\ stream'[h] = stream[h]
    BY <1>12
  <2> QED BY <1>3, <2>1, <2>2 DEF ExtentsApart
<1>14. Content'
  <2>1. \A g, n : ~ Pending(g, n)  BY <1>7 DEF Pending
  <2>2. SourceIntact' /\ DOMAIN disk' = DataClusters(sb')
    BY <1>2, <1>3 DEF Content, SourceIntact
  <2>3. ASSUME NEW g \in 1 .. f, NEW n \in 1 .. Len(stream'[g]),
               NEW k \in 0 .. stream'[g][n].length - 1
        PROVE  disk'[stream'[g][n].physical_start + k] =
                 files'[g][stream'[g][n].logical_start + k + 1]
    <3>1. g \in 1 .. Len(stream) /\ n \in 1 .. Len(stream[g]) /\ stream'[g] = stream[g]
      BY <1>12
    <3>2. disk[stream[g][n].physical_start + k] = files[g][stream[g][n].logical_start + k + 1]
      BY <1>3, <2>1, <2>3, <3>1 DEF Content
    <3> QED BY <1>2, <3>1, <3>2
  <2> QED BY <1>5, <2>2, <2>3 DEF Content
<1>15. ASSUME NEW g \in 1 .. Len(stream), reserved = 0
       PROVE  Total(stream'[g]) = Len(files[g])
  BY <1>3, <1>5, <1>7, <1>15 DEF Finished
<1>16. /\ files[f] \in Seq(Nat) /\ Len(files[f]) \in Nat
       /\ \A k \in 1 .. Len(files[f]) : files[f][k] \in Nat /\ files[f][k] >= FAT_START_INDEX
  BY <1>3, <1>4, FilesFacts
<1>17. CASE files[f] = <<>>
  <2>1. file_cluster_no(f) = 0  BY <1>17 DEF file_cluster_no
  <2>2. Label' = "next_file"  BY <1>2, <2>1 DEF Label
  <2>3. Total(stream'[f]) = 0 /\ Len(files[f]) = 0  BY <1>5, <1>17 DEF Total
  <2>4. Finished'
    <3>1. ASSUME NEW g \in 1 .. f, reserved = 0 PROVE Total(stream'[g]) = Len(files[g])
      BY <1>6, <1>15, <2>3, <3>1
    <3> QED BY <1>2, <1>5, <2>2, <3>1 DEF Finished
  <2>5. Aggregate' /\ Fragments' /\ Resettle' /\ Progress'
    BY <2>2 DEF Aggregate, Fragments, Resettle, Resettling, Flushing, InFile, Progress
  <2> QED BY <1>8, <1>9, <1>10, <1>11, <1>13, <1>14, <2>4, <2>5 DEF MappingInv
<1>18. CASE files[f] # <<>>
  <2>1. 1 \in 1 .. Len(files[f]) /\ Len(files[f]) >= 1  BY <1>16, <1>18
  <2>2. PICK c \in Nat : c = files[f][1] /\ c >= FAT_START_INDEX  BY <1>16, <2>1
  <2>3. file_cluster_no(f) = c /\ c # 0
    BY <1>18, <2>2 DEF file_cluster_no, FAT_START_INDEX
  <2>4. /\ current_extent' = Extent(0, c, 1) /\ next_cluster_no' = fat_entry(c)
        /\ pc' = "aggregate" /\ Label' = "aggregate"
    BY <1>2, <2>3 DEF Label
  <2>5. PICK e \in ExtentSet :
          e = current_extent' /\ e.logical_start = 0 /\ e.physical_start = c /\ e.length = 1
    BY <2>2, <2>4 DEF Extent, ExtentSet
  <2>6. /\ next_cluster_no' \in Nat
        /\ \/ next_cluster_no' >= FAT_END_OF_CHAIN
           \/ 1 < Len(files[f]) /\ next_cluster_no' = files[f][1 + 1]
        /\ reserved = 0 /\ 1 < Len(files[f]) => next_cluster_no' < FAT_END_OF_CHAIN
    BY <1>3, <1>4, <2>1, <2>2, <2>4, FatFacts
  <2>7. LogicalEnd(e) = 1  BY <2>5 DEF LogicalEnd
  <2>8. InPlace(f, e)'
    <3>1. \A k \in 0 .. e.length - 1 : k = 0  BY <2>5
    <3> QED BY <1>2, <2>2, <2>5, <3>1 DEF InPlace
  <2>9. Aggregate'
    <3>1. e.length \in 1 .. EXT4_MAX_INIT_EXTENT_LEN  BY <2>5, MapperAssumption
    <3>2. stream' # <<>>  BY <1>4, <1>5
    <3>3. reserved' = 0 /\ is_end' => LogicalEnd(e) = Len(files[f])
      <4>1. SUFFICES ASSUME reserved = 0, next_cluster_no' >= FAT_END_OF_CHAIN
                     PROVE  LogicalEnd(e) = Len(files[f])
        BY <1>2 DEF is_end
      <4>2. ~ (1 < Len(files[f]))  BY <2>6, <4>1, EndMark
      <4>3. PICK l \in Nat : l = Len(files[f])  BY <1>16
      <4>4. l = 1
        <5>1. l >= 1  BY <2>1, <4>3
        <5>2. ~ (1 < l)  BY <4>2, <4>3
        <5> QED BY <5>1, <5>2
      <4> QED BY <2>7, <4>3, <4>4
    <3>4. is_end' \/ (LogicalEnd(e) < Len(files[f])
                      /\ next_cluster_no' = files[f][LogicalEnd(e) + 1])
      BY <2>6, <2>7 DEF is_end
    <3>5. InPlace(Len(stream), current_extent)'  BY <1>5, <2>5, <2>8 DEF InPlace
    <3> QED BY <1>2, <1>5, <1>16, <2>1, <2>5, <2>6, <2>7, <3>1, <3>2, <3>3, <3>4, <3>5
         DEF Aggregate
  <2>10. Finished'
    <3>1. \A g \in 1 .. f - 1 : g \in 1 .. Len(stream)  BY <1>1, <1>4
    <3> QED BY <1>2, <1>5, <1>15, <2>4, <3>1 DEF Finished
  <2>11. Fragments' /\ Resettle'  BY <2>4 DEF Fragments, Resettle, Resettling, Flushing
  <2>12. Progress'
    <3>1. Total(stream'[f]) = 0  BY <1>5 DEF Total
    <3> QED BY <1>5, <2>4, <2>5, <3>1 DEF Progress
  <2> QED BY <1>8, <1>9, <1>10, <1>11, <1>13, <1>14, <2>9, <2>10, <2>11, <2>12 DEF MappingInv
<1> QED BY <1>17, <1>18

\* What Aggregate says of the chain at the end of the current extent.
LEMMA CurrentFacts ==
  ASSUME MappingInv, InFile, NEW f, f = Len(stream), NEW e, e = current_extent
  PROVE  /\ f \in 1 .. Len(files) /\ f \in 1 .. Len(stream) /\ Len(files[f]) \in Nat
         /\ e \in ExtentSet /\ e.length \in 1 .. EXT4_MAX_INIT_EXTENT_LEN
         /\ e.logical_start \in Nat /\ e.physical_start \in Nat /\ e.length \in Nat
         /\ LogicalEnd(e) \in Nat /\ PhysicalEnd(e) \in Nat
         /\ LogicalEnd(e) = e.logical_start + e.length
         /\ PhysicalEnd(e) = e.physical_start + e.length
         /\ LogicalEnd(e) <= Len(files[f]) /\ InPlace(f, e) /\ stream # <<>>
         /\ next_cluster_no \in Nat
         /\ \/ next_cluster_no >= FAT_END_OF_CHAIN
            \/ LogicalEnd(e) < Len(files[f]) /\ next_cluster_no = files[f][LogicalEnd(e) + 1]
         /\ reserved = 0 /\ next_cluster_no >= FAT_END_OF_CHAIN => LogicalEnd(e) = Len(files[f])
<1>1. Inputs /\ Stream /\ Aggregate  BY DEF MappingInv
<1>2. f \in 1 .. Len(stream)  BY <1>1 DEF Aggregate, Stream
<1>3. f \in 1 .. Len(files) /\ Len(files[f]) \in Nat  BY <1>1, <1>2, StoredFacts
<1>4. /\ e \in ExtentSet /\ e.length \in 1 .. EXT4_MAX_INIT_EXTENT_LEN
      /\ LogicalEnd(e) <= Len(files[f]) /\ InPlace(f, e) /\ stream # <<>>
      /\ next_cluster_no \in Nat
      /\ \/ next_cluster_no >= FAT_END_OF_CHAIN
         \/ LogicalEnd(e) < Len(files[f]) /\ next_cluster_no = files[f][LogicalEnd(e) + 1]
      /\ reserved = 0 /\ next_cluster_no >= FAT_END_OF_CHAIN => LogicalEnd(e) = Len(files[f])
  BY <1>1 DEF Aggregate, is_end
<1>5. /\ e.logical_start \in Nat /\ e.physical_start \in Nat /\ e.length \in Nat
      /\ LogicalEnd(e) \in Nat /\ PhysicalEnd(e) \in Nat
      /\ LogicalEnd(e) = e.logical_start + e.length
      /\ PhysicalEnd(e) = e.physical_start + e.length
  BY <1>4 DEF ExtentSet, LogicalEnd, PhysicalEnd
<1> QED BY <1>2, <1>3, <1>4, <1>5

\* An extent whose last cluster the FAT entry next_cluster_no' belongs to.
LEMMA AggregateTo ==
  ASSUME Inputs, UNCHANGED <<inputVars, stream>>, stream # <<>>,
         NEW f, f = Len(stream), f \in 1 .. Len(files),
         NEW e \in ExtentSet, e = current_extent', e.length \in 1 .. EXT4_MAX_INIT_EXTENT_LEN,
         LogicalEnd(e) <= Len(files[f]), InPlace(f, e),
         next_cluster_no' = fat_entry(files[f][LogicalEnd(e)])
  PROVE  Aggregate'
<1>1. stream' = stream /\ files' = files /\ reserved' = reserved  BY DEF inputVars
<1>2. PICK l \in Nat : l = Len(files[f])  BY FilesFacts
<1>3. PICK k \in Nat : k = LogicalEnd(e)  BY DEF LogicalEnd, ExtentSet
<1>4. k \in 1 .. l
  <2>1. k >= 1  BY <1>3, MapperAssumption DEF LogicalEnd, ExtentSet
  <2> QED BY <1>2, <1>3, <2>1
<1>5. /\ next_cluster_no' \in Nat
      /\ next_cluster_no' >= FAT_END_OF_CHAIN \/ (k < l /\ next_cluster_no' = files[f][k + 1])
      /\ reserved = 0 /\ k < l => next_cluster_no' < FAT_END_OF_CHAIN
  BY <1>2, <1>3, <1>4, FatFacts
<1>6. reserved = 0 /\ next_cluster_no' >= FAT_END_OF_CHAIN => k = l
  <2>1. SUFFICES ASSUME reserved = 0, next_cluster_no' >= FAT_END_OF_CHAIN PROVE k = l
    OBVIOUS
  <2>2. ~ (k < l)  BY <1>5, <2>1, EndMark
  <2> QED BY <1>4, <2>2
<1>7. InPlace(Len(stream), current_extent)'  BY <1>1 DEF InPlace
<1> QED BY <1>1, <1>2, <1>3, <1>5, <1>6, <1>7 DEF Aggregate, is_end

\* aggregate_extents: the next cluster of the chain is the next on the disk.
LEMMA GrowStep ==
  ASSUME MappingInv, GrowExtent
  PROVE  MappingInv'
<1>1. PICK f, e : f = Len(stream) /\ e = current_extent  OBVIOUS
<1>2. /\ UNCHANGED <<inputVars, stream, pages, disk>> /\ UNCHANGED <<inputVars, stream>>
      /\ stream' = stream /\ files' = files /\ reserved' = reserved
      /\ pc = "aggregate" /\ pc' = pc /\ then' = then
      /\ avail' = avail /\ phase = "idle" /\ phase' = "idle" /\ out' = out
      /\ current_extent' = [e EXCEPT !.length = @ + 1]
      /\ next_cluster_no' = fat_entry(next_cluster_no)
  BY <1>1 DEF GrowExtent, Running, ffVars, inputVars, streamVars
<1>3. Inputs /\ Control /\ Finished /\ Progress  BY DEF MappingInv
<1>4. Label = "aggregate" /\ Label' = "aggregate" /\ Outstanding' = {}
  BY <1>2 DEF Label, Outstanding
<1>5. Control'  BY <1>2, <1>3 DEF Control
<1>6. Inputs' /\ Allocator' /\ Stream' /\ ExtentsApart' /\ Content'
  BY <1>2, <1>4, BaseFrame
<1>7. InFile  BY <1>4 DEF InFile
<1>8. /\ f \in 1 .. Len(files) /\ Len(files[f]) \in Nat
      /\ e \in ExtentSet /\ e.length \in 1 .. EXT4_MAX_INIT_EXTENT_LEN
      /\ e.logical_start \in Nat /\ e.physical_start \in Nat /\ e.length \in Nat
      /\ LogicalEnd(e) \in Nat
      /\ LogicalEnd(e) = e.logical_start + e.length
      /\ PhysicalEnd(e) = e.physical_start + e.length
      /\ LogicalEnd(e) <= Len(files[f]) /\ InPlace(f, e) /\ stream # <<>>
      /\ \/ next_cluster_no >= FAT_END_OF_CHAIN
         \/ LogicalEnd(e) < Len(files[f]) /\ next_cluster_no = files[f][LogicalEnd(e) + 1]
  BY <1>1, <1>7, CurrentFacts
<1>9. /\ ~ (next_cluster_no >= FAT_END_OF_CHAIN) /\ next_cluster_no = PhysicalEnd(e)
      /\ e.length # EXT4_MAX_INIT_EXTENT_LEN
  BY <1>1 DEF GrowExtent, MustFlush, is_end, is_consecutive, has_max_length
<1>10. PICK x \in ExtentSet :
         /\ x = current_extent' /\ x.logical_start = e.logical_start
         /\ x.physical_start = e.physical_start /\ x.length = e.length + 1
  <2>1. e \in ExtentSet /\ e.length \in Nat  BY <1>8
  <2>2. current_extent' = [e EXCEPT !.length = @ + 1]  BY <1>2
  <2> QED BY <2>1, <2>2 DEF ExtentSet
<1>11. x.length \in 1 .. EXT4_MAX_INIT_EXTENT_LEN
  <2>1. e.length \in 1 .. EXT4_MAX_INIT_EXTENT_LEN /\ x.length = e.length + 1
        /\ e.length # EXT4_MAX_INIT_EXTENT_LEN
    BY <1>8, <1>9, <1>10
  <2>2. EXT4_MAX_INIT_EXTENT_LEN \in Nat  BY MapperAssumption
  <2> QED BY <2>1, <2>2
<1>12. LogicalEnd(x) = LogicalEnd(e) + 1 /\ LogicalEnd(x) <= Len(files[f])
  <2>1. LogicalEnd(x) = x.logical_start + x.length  BY DEF LogicalEnd
  <2>2. LogicalEnd(x) = LogicalEnd(e) + 1  BY <1>8, <1>10, <2>1
  <2>3. LogicalEnd(e) < Len(files[f])  BY <1>8, <1>9
  <2> QED BY <1>8, <2>2, <2>3
<1>13. InPlace(f, x)
  <2>1. SUFFICES ASSUME NEW k \in 0 .. x.length - 1
                 PROVE  x.physical_start + k = files[f][x.logical_start + k + 1]
    BY DEF InPlace
  <2>2. k \in 0 .. e.length - 1 \/ k = e.length  BY <1>8, <1>10
  <2>3. CASE k \in 0 .. e.length - 1  BY <1>8, <1>10, <2>3 DEF InPlace
  <2>4. CASE k = e.length
    <3>1. x.physical_start + k = next_cluster_no  BY <1>8, <1>9, <1>10, <2>4
    <3>2. x.logical_start + k + 1 = LogicalEnd(e) + 1  BY <1>8, <1>10, <2>4
    <3> QED BY <1>8, <1>9, <3>1, <3>2
  <2> QED BY <2>2, <2>3, <2>4
<1>14. next_cluster_no' = fat_entry(files[f][LogicalEnd(x)])  BY <1>2, <1>8, <1>9, <1>12
<1>15. Aggregate'
  BY <1>1, <1>2, <1>3, <1>8, <1>10, <1>11, <1>12, <1>13, <1>14, AggregateTo
<1>16. Finished'  BY <1>2, <1>3, <1>4 DEF Finished
<1>17. Fragments' /\ Resettle'  BY <1>4 DEF Fragments, Resettle, Resettling, Flushing
<1>18. Progress'  BY <1>1, <1>2, <1>3, <1>4, <1>10 DEF Progress
<1> QED BY <1>5, <1>6, <1>15, <1>16, <1>17, <1>18 DEF MappingInv

\* While an extent is flushed the chain is not followed.
LEMMA AggregateFrame ==
  ASSUME MappingInv, InFile, UNCHANGED <<inputVars, aggregateVars>>,
         Len(stream') = Len(stream), stream' # <<>>
  PROVE  Aggregate'
<1>1. /\ files' = files /\ reserved' = reserved /\ current_extent' = current_extent
      /\ next_cluster_no' = next_cluster_no
  BY DEF inputVars, aggregateVars
<1>2. Aggregate  BY DEF MappingInv
<1>3. InPlace(Len(stream), current_extent)'  BY <1>1, <1>2 DEF Aggregate, InPlace
<1> QED BY <1>1, <1>2, <1>3 DEF Aggregate, is_end

\* The entry of find_blocked_extent_fragments: the search for the first
\* blocked extent.
LEMMA FlushStep ==
  ASSUME MappingInv, FlushExtent
  PROVE  MappingInv'
<1>1. PICK f, e, first : /\ f = Len(stream) /\ e = current_extent
                         /\ first = find_first_blocked_extent(e.physical_start)
  OBVIOUS
<1>2. /\ UNCHANGED <<inputVars, stream, pages, disk>> /\ UNCHANGED <<inputVars, aggregateVars>>
      /\ stream' = stream /\ files' = files /\ reserved' = reserved /\ sb' = sb
      /\ blocked_extents' = blocked_extents /\ current_extent' = e
      /\ pc = "aggregate" /\ pc' = "fragments" /\ then' = then
      /\ avail' = avail /\ phase = "idle" /\ phase' = "idle" /\ out' = out
      /\ fragment_start' = e.physical_start
      /\ blocked_extent' = find_next_blocked_extent(first, PhysicalEnd(e))
      /\ i' = IndexAfter(first)
  BY <1>1 DEF FlushExtent, Running, ffVars, inputVars, streamVars, aggregateVars
<1>3. Inputs /\ Control /\ Finished /\ Progress  BY DEF MappingInv
<1>4. Label = "aggregate" /\ Label' = "fragments" /\ Outstanding' = {}
  BY <1>2 DEF Label, Outstanding
<1>5. Control'  BY <1>2, <1>3 DEF Control
<1>6. Inputs' /\ Allocator' /\ Stream' /\ ExtentsApart' /\ Content'
  BY <1>2, <1>4, BaseFrame
<1>7. InFile  BY <1>4 DEF InFile
<1>8. /\ e \in ExtentSet /\ e.logical_start \in Nat /\ e.physical_start \in Nat
      /\ e.length \in Nat /\ PhysicalEnd(e) \in Nat
      /\ PhysicalEnd(e) = e.physical_start + e.length /\ stream # <<>>
  BY <1>1, <1>7, CurrentFacts
<1>9. PICK n : n = block_group_count(sb)  OBVIOUS
<1>10. /\ n \in Nat /\ n >= 1
       /\ \A b \in 1 .. n : PhysicalEnd(blocked_extents[b]) \in Nat
       /\ \A b \in 1 .. n : blocked_extents[b].physical_start \in Nat
  BY <1>3, <1>9, BlockedFacts
<1>11. /\ first \in 1 .. n + 1
       /\ \A b \in 1 .. n : b < first => PhysicalEnd(blocked_extents[b]) < e.physical_start
       /\ first <= n => PhysicalEnd(blocked_extents[first]) >= e.physical_start
  BY <1>1, <1>3, <1>8, <1>9, FirstBlocked
<1>12. PICK found : found = blocked_extent'  OBVIOUS
<1>13. \/ /\ found = first /\ first <= n /\ IndexAfter(first) = found + 1
          /\ blocked_extents[found].physical_start <= PhysicalEnd(e)
       \/ /\ found = 0
          /\ \A b \in 1 .. n : b >= first => blocked_extents[b].physical_start > PhysicalEnd(e)
  BY <1>2, <1>3, <1>8, <1>9, <1>11, <1>12, NextBlocked
<1>14. found \in 0 .. n  BY <1>10, <1>11, <1>13
<1>15. found # 0 => /\ i' = found + 1
                    /\ blocked_extents[found].physical_start <= PhysicalEnd(e)
                    /\ PhysicalEnd(blocked_extents[found]) >= e.physical_start
  BY <1>2, <1>11, <1>13
<1>16. ASSUME NEW b \in 1 .. n
       PROVE  \/ PhysicalEnd(blocked_extents[b]) <= e.physical_start
              \/ blocked_extents[b].physical_start >= PhysicalEnd(e)
              \/ found # 0 /\ b >= found
  <2>1. b < first \/ b >= first  BY <1>10, <1>11
  <2>2. CASE b < first  BY <1>8, <1>10, <1>11, <2>2
  <2>3. CASE b >= first  BY <1>8, <1>10, <1>11, <1>13, <2>3
  <2> QED BY <2>1, <2>2, <2>3
<1>17. e.physical_start \in e.physical_start .. PhysicalEnd(e)  BY <1>8
<1>18. Fragments'
  BY <1>2, <1>9, <1>12, <1>14, <1>15, <1>16, <1>17 DEF Fragments
<1>19. Aggregate'  BY <1>2, <1>7, <1>8, AggregateFrame
<1>20. Finished'  BY <1>2, <1>3, <1>4 DEF Finished
<1>21. Resettle'  BY <1>4 DEF Resettle, Resettling
<1>22. Progress'
  <2>1. Total(stream[f]) = e.logical_start  BY <1>1, <1>3, <1>4 DEF Progress
  <2>2. e.logical_start + (e.physical_start - e.physical_start) = e.logical_start  BY <1>8
  <2> QED BY <1>1, <1>2, <1>4, <2>1, <2>2 DEF Progress, FragmentPosition
<1> QED BY <1>5, <1>6, <1>18, <1>19, <1>20, <1>21, <1>22 DEF MappingInv

\* Its return: the chain goes on in another extent, or the file is mapped.
LEMMA AfterFlushStep ==
  ASSUME MappingInv, AfterFlush
  PROVE  MappingInv'
<1>1. PICK f, e : f = Len(stream) /\ e = current_extent  OBVIOUS
<1>2. /\ UNCHANGED <<inputVars, stream, pages, disk>> /\ UNCHANGED <<inputVars, stream>>
      /\ stream' = stream /\ files' = files /\ reserved' = reserved
      /\ pc = "fragments" /\ fragment_start >= PhysicalEnd(e)
      /\ avail' = avail /\ phase = "idle" /\ phase' = "idle" /\ out' = out
      /\ current_extent' = Extent(e.logical_start + e.length, next_cluster_no, 1)
      /\ IF next_cluster_no >= FAT_END_OF_CHAIN
           THEN pc' = "insert" /\ then' = "next_file"
           ELSE /\ next_cluster_no' = fat_entry(next_cluster_no)
                /\ pc' = "aggregate" /\ then' = then
  BY <1>1 DEF AfterFlush, Running, ffVars, inputVars, streamVars, ThenInsert, is_end
<1>3. Inputs /\ Control /\ Finished /\ Progress /\ Fragments  BY DEF MappingInv
<1>4. Label = "fragments" /\ Outstanding' = {} /\ Label' \in {"next_file", "aggregate"}
  BY <1>2 DEF Label, Outstanding
<1>5. Control'  BY <1>2, <1>3 DEF Control
<1>6. Inputs' /\ Allocator' /\ Stream' /\ ExtentsApart' /\ Content'
  <2>1. pc' \notin {"page", "granted"} /\ Label # "copy" /\ Label' # "copy"
    BY <1>2, <1>4
  <2> QED BY <1>2, <1>4, <2>1, BaseFrame
<1>7. InFile /\ Flushing  BY <1>4 DEF InFile, Flushing
<1>8. /\ f \in 1 .. Len(files) /\ f \in 1 .. Len(stream) /\ Len(files[f]) \in Nat
      /\ e \in ExtentSet /\ e.length \in 1 .. EXT4_MAX_INIT_EXTENT_LEN
      /\ e.logical_start \in Nat /\ e.physical_start \in Nat /\ e.length \in Nat
      /\ LogicalEnd(e) \in Nat /\ LogicalEnd(e) = e.logical_start + e.length
      /\ PhysicalEnd(e) = e.physical_start + e.length
      /\ stream # <<>> /\ next_cluster_no \in Nat
      /\ \/ next_cluster_no >= FAT_END_OF_CHAIN
         \/ LogicalEnd(e) < Len(files[f]) /\ next_cluster_no = files[f][LogicalEnd(e) + 1]
      /\ reserved = 0 /\ next_cluster_no >= FAT_END_OF_CHAIN => LogicalEnd(e) = Len(files[f])
  BY <1>1, <1>7, CurrentFacts
<1>9. Total(stream[f]) = LogicalEnd(e)
  <2>1. fragment_start \in e.physical_start .. PhysicalEnd(e)  BY <1>1, <1>3, <1>7 DEF Fragments
  <2>2. fragment_start = PhysicalEnd(e)  BY <1>2, <1>8, <2>1, SMTT(30)
  <2>3. Total(stream[f]) = e.logical_start + (fragment_start - e.physical_start)
    BY <1>1, <1>3, <1>4 DEF Progress, FragmentPosition
  <2> QED BY <1>8, <2>2, <2>3
<1>10. \A g \in 1 .. f - 1 : reserved = 0 => Total(stream[g]) = Len(files[g])
  BY <1>1, <1>3, <1>4 DEF Finished
<1>11. CASE next_cluster_no >= FAT_END_OF_CHAIN
  <2>1. Label' = "next_file"  BY <1>2, <1>11 DEF Label
  <2>2. Finished'
    <3>1. \A g \in 1 .. f : g = f \/ g \in 1 .. f - 1  BY <1>8
    <3>2. ASSUME NEW g \in 1 .. f, reserved = 0 PROVE Total(stream[g]) = Len(files[g])
      BY <1>8, <1>9, <1>10, <1>11, <3>1, <3>2
    <3> QED BY <1>1, <1>2, <2>1, <3>2 DEF Finished
  <2>3. Aggregate' /\ Fragments' /\ Resettle' /\ Progress'
    BY <2>1 DEF Aggregate, Fragments, Resettle, Resettling, Flushing, InFile, Progress
  <2> QED BY <1>5, <1>6, <2>2, <2>3 DEF MappingInv
<1>12. CASE ~ (next_cluster_no >= FAT_END_OF_CHAIN)
  <2>1. Label' = "aggregate"  BY <1>2, <1>12 DEF Label
  <2>2. LogicalEnd(e) < Len(files[f]) /\ next_cluster_no = files[f][LogicalEnd(e) + 1]
    BY <1>8, <1>12
  <2>3. PICK x \in ExtentSet :
          /\ x = current_extent' /\ x.logical_start = LogicalEnd(e)
          /\ x.physical_start = next_cluster_no /\ x.length = 1
    BY <1>2, <1>8 DEF Extent, ExtentSet
  <2>4. LogicalEnd(x) = LogicalEnd(e) + 1
    BY <2>3 DEF LogicalEnd
  <2>5. InPlace(f, x)
    <3>1. \A k \in 0 .. x.length - 1 : k = 0  BY <2>3
    <3>2. x.physical_start + 0 = files[f][x.logical_start + 0 + 1]  BY <1>8, <2>2, <2>3
    <3> QED BY <3>1, <3>2 DEF InPlace
  <2>6. Aggregate'
    <3>1. x.length \in 1 .. EXT4_MAX_INIT_EXTENT_LEN  BY <2>3, MapperAssumption
    <3>2. LogicalEnd(x) <= Len(files[f])  BY <1>8, <2>2, <2>4
    <3>3. next_cluster_no' = fat_entry(files[f][LogicalEnd(x)])  BY <1>2, <1>12, <2>2, <2>4
    <3> QED BY <1>1, <1>2, <1>3, <1>8, <2>3, <2>5, <3>1, <3>2, <3>3, AggregateTo
  <2>7. Finished'  BY <1>1, <1>2, <1>10, <2>1 DEF Finished
  <2>8. Fragments' /\ Resettle'  BY <2>1 DEF Fragments, Resettle, Resettling, Flushing
  <2>9. Progress'  BY <1>1, <1>2, <1>9, <2>1, <2>3 DEF Progress
  <2> QED BY <1>5, <1>6, <2>6, <2>7, <2>8, <2>9 DEF MappingInv
<1> QED BY <1>11, <1>12

\* A piece of an extent of the chain is one.
LEMMA Piece ==
  ASSUME NEW f, NEW e \in ExtentSet, InPlace(f, e), NEW offset \in Nat, NEW x \in ExtentSet,
         x.logical_start = e.logical_start + offset,
         x.physical_start = e.physical_start + offset, offset + x.length <= e.length
  PROVE  InPlace(f, x) /\ LogicalEnd(x) <= LogicalEnd(e)
<1>1. /\ e.logical_start \in Nat /\ e.physical_start \in Nat /\ e.length \in Nat
      /\ x.length \in Nat
  BY DEF ExtentSet
<1>2. LogicalEnd(x) <= LogicalEnd(e)  BY <1>1 DEF LogicalEnd
<1>3. ASSUME NEW k \in 0 .. x.length - 1
      PROVE  x.physical_start + k = files[f][x.logical_start + k + 1]
  <2>1. PICK m \in 0 .. e.length - 1 : m = offset + k
    <3>1. offset + k \in 0 .. e.length - 1  BY <1>1
    <3> QED BY <3>1
  <2>2. e.physical_start + m = files[f][e.logical_start + m + 1]  BY <2>1 DEF InPlace
  <2>3. /\ x.physical_start + k = e.physical_start + m
        /\ x.logical_start + k + 1 = e.logical_start + m + 1
    BY <1>1, <2>1
  <2> QED BY <2>2, <2>3
<1> QED BY <1>2, <1>3 DEF InPlace

\* A stored extent leaves the content of the others alone; its own is there
\* already or still to be copied.
LEMMA StoreContent ==
  ASSUME Inputs, Stream, Content, stream # <<>>, UNCHANGED <<inputVars, disk>>,
         NEW x \in ExtentSet, Stored(x), Label # "copy", NEW f, f = Len(stream),
         \/ Label' = "copy"
         \/ \A k \in 0 .. x.length - 1 :
              disk[x.physical_start + k] = files[f][x.logical_start + k + 1]
  PROVE  Content'
<1>1. files' = files /\ sb' = sb /\ disk' = disk  BY DEF inputVars
<1>2. PICK n : n = Len(stream[f])  OBVIOUS
<1>3. /\ f \in 1 .. Len(stream) /\ f \in Nat /\ n \in Nat
      /\ stream' \in Seq(Seq(ExtentSet)) /\ Len(stream') = f
      /\ \A g \in 1 .. f : g # f => stream'[g] = stream[g]
      /\ stream'[f] \in Seq(ExtentSet)
      /\ Len(stream'[f]) = n + 1 /\ stream'[f][n + 1] = x
      /\ \A m \in 1 .. n : stream'[f][m] = stream[f][m]
      /\ Total(stream'[f]) = LogicalEnd(x)
  BY <1>2, StoredLast
<1>4. ASSUME NEW g \in 1 .. f, NEW m \in 1 .. Len(stream'[g]), ~ Pending(g, m)',
             NEW k \in 0 .. stream'[g][m].length - 1
      PROVE  disk[stream'[g][m].physical_start + k] =
               files[g][stream'[g][m].logical_start + k + 1]
  <2>1. CASE g = f /\ m = n + 1
    <3>1. Label' # "copy"
      <4>1. SUFFICES ASSUME Label' = "copy" PROVE FALSE  OBVIOUS
      <4>2. Len(stream'[g]) = n + 1  BY <1>3, <2>1
      <4>3. Pending(g, m)'  BY <1>3, <2>1, <4>1, <4>2 DEF Pending
      <4> QED BY <1>4, <4>3
    <3> QED BY <1>3, <1>4, <2>1, <3>1
  <2>2. CASE ~ (g = f /\ m = n + 1)
    <3>1. m \in 1 .. Len(stream[g]) /\ stream'[g][m] = stream[g][m]
      <4>1. CASE g = f
        <5>1. m \in 1 .. n  BY <1>3, <2>2, <4>1
        <5> QED BY <1>2, <1>3, <4>1, <5>1
      <4>2. CASE g # f  BY <1>3, <4>2
      <4> QED BY <4>1, <4>2
    <3>2. ~ Pending(g, m)  BY DEF Pending
    <3>3. g \in 1 .. Len(stream)  BY <1>3
    <3>4. k \in 0 .. stream[g][m].length - 1  BY <3>1
    <3>5. disk[stream[g][m].physical_start + k] = files[g][stream[g][m].logical_start + k + 1]
      BY <3>1, <3>2, <3>3, <3>4 DEF Content
    <3> QED BY <3>1, <3>5
  <2> QED BY <2>1, <2>2
<1>5. DOMAIN disk' = DataClusters(sb') /\ SourceIntact'  BY <1>1 DEF Content, SourceIntact
<1> QED BY <1>1, <1>3, <1>4, <1>5 DEF Content

\* The files before the current one stay mapped.
LEMMA FinishedStore ==
  ASSUME Inputs, Stream, Finished, stream # <<>>, UNCHANGED inputVars,
         NEW x \in ExtentSet, Stored(x), Label \notin {"open", "next_file"},
         Label' \notin {"open", "next_file"}
  PROVE  Finished'
<1>1. files' = files /\ reserved' = reserved  BY DEF inputVars
<1>2. PICK f : f = Len(stream)  OBVIOUS
<1>3. PICK n : n = Len(stream[f])  OBVIOUS
<1>4. /\ f \in Nat /\ Len(stream') = f
      /\ \A g \in 1 .. f : g # f => stream'[g] = stream[g]
  BY <1>2, <1>3, StoredLast
<1>5. \A g \in 1 .. f - 1 : g \in 1 .. f /\ g # f  BY <1>4
<1> QED BY <1>1, <1>2, <1>4, <1>5 DEF Finished

\* The next piece of the chain shares no cluster with what is stored already.
LEMMA InPlaceApart ==
  ASSUME Inputs, Stream, stream # <<>>, NEW f, f = Len(stream),
         NEW x \in ExtentSet, InPlace(f, x), x.logical_start = Total(stream[f]),
         LogicalEnd(x) <= Len(files[f]),
         NEW g \in 1 .. Len(stream), NEW m \in 1 .. Len(stream[g])
  PROVE  Cells(x) \cap Cells(stream[g][m]) = {}
<1>1. PICK y : y = stream[g][m]  OBVIOUS
<1>2. /\ g \in 1 .. Len(files) /\ y \in ExtentSet /\ Sound(g, y) /\ Chain(stream[g])
      /\ LogicalEnd(y) <= Len(files[g])
  BY <1>1, StoredFacts
<1>3. f \in 1 .. Len(stream)  BY DEF Stream
<1>4. f \in 1 .. Len(files)  BY <1>3, StoredFacts
<1>5. /\ Cells(x) \cap Start = {}
      /\ \A k \in 0 .. x.length - 1 :
           /\ x.logical_start + k + 1 \in 1 .. Len(files[f])
           /\ x.physical_start + k = files[f][x.logical_start + k + 1]
  BY <1>4, InPlaceFacts
<1>6. SUFFICES ASSUME NEW c, c \in Cells(x), c \in Cells(y) PROVE FALSE  BY <1>1
<1>7. CASE InPlace(g, y)
  <2>1. \A k \in 0 .. y.length - 1 :
          /\ y.logical_start + k + 1 \in 1 .. Len(files[g])
          /\ y.physical_start + k = files[g][y.logical_start + k + 1]
    BY <1>2, <1>7, InPlaceFacts
  <2>2. PICK k \in 0 .. x.length - 1 : c = x.physical_start + k  BY <1>6, CellsOf
  <2>3. PICK j \in 0 .. y.length - 1 : c = y.physical_start + j  BY <1>2, <1>6, CellsOf
  <2>4. PICK p, q : p = x.logical_start + k + 1 /\ q = y.logical_start + j + 1  OBVIOUS
  <2>5. p \in 1 .. Len(files[f]) /\ q \in 1 .. Len(files[g]) /\ files[f][p] = files[g][q]
    BY <1>5, <2>1, <2>2, <2>3, <2>4
  <2>6. f = g /\ p = q
    <3>1. \A a, d \in 1 .. Len(files) : \A r \in 1 .. Len(files[a]), t \in 1 .. Len(files[d]) :
            files[a][r] = files[d][t] => a = d /\ r = t
      BY FilesFacts
    <3> QED BY <1>2, <1>4, <2>5, <3>1
  <2>7. LogicalEnd(y) <= x.logical_start  BY <1>1, <1>2, <2>6 DEF Chain
  <2>8. /\ y.logical_start \in Nat /\ x.logical_start \in Nat
        /\ y.length \in Nat /\ x.length \in Nat
    BY <1>2 DEF ExtentSet
  <2>9. y.logical_start + y.length <= x.logical_start  BY <2>7 DEF LogicalEnd
  <2> QED BY <2>4, <2>6, <2>8, <2>9
<1>8. CASE Moved(g, y)  BY <1>5, <1>6, <1>8 DEF Moved
<1> QED BY <1>2, <1>7, <1>8 DEF Sound

\* Up to the next blocked extent the clusters of the chain stay in place.
LEMMA KeepStep ==
  ASSUME MappingInv, KeepFragment
  PROVE  MappingInv'
<1>1. PICK f, e, b, s, n, end, x :
        /\ f = Len(stream) /\ e = current_extent /\ b = blocked_extent /\ s = fragment_start
        /\ n = block_group_count(sb)
        /\ end = IF blocked_extent = 0 THEN PhysicalEnd(current_extent)
                 ELSE blocked_extents[blocked_extent].physical_start
        /\ x = FragmentTo(end)
  OBVIOUS
<1>2. /\ UNCHANGED <<inputVars, pages>> /\ UNCHANGED <<inputVars, disk>> /\ UNCHANGED inputVars
      /\ UNCHANGED <<inputVars, aggregateVars>>
      /\ files' = files /\ sb' = sb /\ blocked_extents' = blocked_extents
      /\ pc = "fragments" /\ pc' = "insert" /\ then' = "fragments"
      /\ avail' = avail /\ phase = "idle" /\ phase' = "idle" /\ out' = out
      /\ Stored(x) /\ fragment_start' = end /\ current_extent' = e
      /\ i' = i /\ blocked_extent' = b
      /\ s < PhysicalEnd(e) /\ ~ is_blocked
  BY <1>1 DEF KeepFragment, Running, ffVars, inputVars, aggregateVars, ThenInsert, MoreFragments
<1>3. /\ Inputs /\ Control /\ Allocator /\ Stream /\ ExtentsApart /\ Content /\ Finished
      /\ Fragments /\ Progress
  BY DEF MappingInv
<1>4. Label = "fragments" /\ Label' = "fragments" /\ Outstanding = {} /\ Outstanding' = {}
  BY <1>2 DEF Label, Outstanding
<1>5. InFile /\ Flushing  BY <1>4 DEF InFile, Flushing
<1>6. /\ f \in 1 .. Len(files) /\ f \in 1 .. Len(stream) /\ Len(files[f]) \in Nat
      /\ e \in ExtentSet /\ e.length \in 1 .. EXT4_MAX_INIT_EXTENT_LEN
      /\ e.logical_start \in Nat /\ e.physical_start \in Nat /\ e.length \in Nat
      /\ LogicalEnd(e) \in Nat /\ PhysicalEnd(e) \in Nat
      /\ PhysicalEnd(e) = e.physical_start + e.length
      /\ LogicalEnd(e) <= Len(files[f]) /\ InPlace(f, e) /\ stream # <<>>
  BY <1>1, <1>5, CurrentFacts
<1>7. /\ n \in Nat
      /\ \A j \in 1 .. n :
           /\ blocked_extents[j].physical_start \in Nat /\ PhysicalEnd(blocked_extents[j]) \in Nat
           /\ blocked_extents[j].physical_start <= PhysicalEnd(blocked_extents[j])
      /\ \A j, d \in 1 .. n :
           j < d => blocked_extents[j].physical_start <= blocked_extents[d].physical_start
  BY <1>1, <1>3, BlockedFacts
<1>8. /\ s \in e.physical_start .. PhysicalEnd(e) /\ b \in 0 .. n
      /\ b # 0 => /\ i = b + 1 /\ blocked_extents[b].physical_start <= PhysicalEnd(e)
                  /\ PhysicalEnd(blocked_extents[b]) >= s
      /\ \A j \in 1 .. n : \/ PhysicalEnd(blocked_extents[j]) <= s
                           \/ blocked_extents[j].physical_start >= PhysicalEnd(e)
                           \/ b # 0 /\ j >= b
  BY <1>1, <1>2, <1>3, <1>5 DEF Fragments
<1>9. end \in Nat /\ s < end /\ end <= PhysicalEnd(e) /\ s \in Nat
  <2>1. CASE b = 0  BY <1>1, <1>2, <1>6, <1>8, <2>1
  <2>2. CASE b # 0
    <3>1. b \in 1 .. n /\ end = blocked_extents[b].physical_start  BY <1>1, <1>7, <1>8, <2>2
    <3>2. ~ (end <= s)  BY <1>1, <1>2, <2>2, <3>1 DEF is_blocked
    <3>3. end \in Nat  BY <1>7, <3>1
    <3>4. s \in e.physical_start .. PhysicalEnd(e)  BY <1>8
    <3>5. s \in Nat  BY <1>6, <3>4
    <3>6. end <= PhysicalEnd(e)  BY <1>8, <2>2, <3>1
    <3> QED BY <3>2, <3>3, <3>5, <3>6
  <2> QED BY <2>1, <2>2
<1>10. PICK offset \in Nat : offset = s - e.physical_start /\ offset + (end - s) <= e.length
  <2>1. PICK p \in Nat, l \in Nat :
          p = e.physical_start /\ l = e.length /\ PhysicalEnd(e) = p + l
    BY <1>6
  <2>2. s \in e.physical_start .. PhysicalEnd(e)  BY <1>8
  <2>3. p <= s /\ s < end /\ end <= p + l  BY <1>9, <2>1, <2>2
  <2>4. s - p \in Nat /\ (s - p) + (end - s) <= l  BY <1>9, <2>3
  <2> QED BY <2>1, <2>4
<1>11. /\ x \in ExtentSet /\ x.logical_start = e.logical_start + offset
       /\ x.physical_start = s /\ x.length = end - s /\ PhysicalEnd(x) = end
       /\ x.physical_start = e.physical_start + offset
  <2>1. x = [logical_start |-> e.logical_start + offset, physical_start |-> s,
             length |-> end - s]
    BY <1>1, <1>10 DEF FragmentTo, Extent
  <2>2. end - s \in Nat /\ e.logical_start + offset \in Nat /\ s = e.physical_start + offset
    <3>1. end - s \in Nat  BY <1>9
    <3>2. e.logical_start + offset \in Nat  BY <1>6
    <3>3. s = e.physical_start + offset
      <4>1. e.physical_start \in Nat /\ s \in Nat /\ offset = s - e.physical_start
        BY <1>6, <1>9, <1>10
      <4> QED BY <4>1
    <3> QED BY <3>1, <3>2, <3>3
  <2>3. x \in ExtentSet  BY <1>9, <2>1, <2>2 DEF ExtentSet
  <2> QED BY <1>9, <2>1, <2>2, <2>3 DEF PhysicalEnd
<1>12. Stored(x) /\ stream # <<>> /\ x \in ExtentSet /\ f = Len(stream)  BY <1>1, <1>2, <1>6, <1>11
<1>13. InPlace(f, x) /\ LogicalEnd(x) <= LogicalEnd(e)
  <2>1. offset + x.length <= e.length  BY <1>10, <1>11
  <2> QED BY <1>6, <1>11, <2>1, Piece
<1>14. /\ x.length \in 1 .. EXT4_MAX_INIT_EXTENT_LEN /\ LogicalEnd(x) <= Len(files[f])
       /\ LogicalEnd(x) \in Nat
       /\ LogicalEnd(x) = e.logical_start + (end - e.physical_start)
  <2>1. x.logical_start \in Nat /\ x.length \in Nat  BY <1>11 DEF ExtentSet
  <2>2. LogicalEnd(x) = x.logical_start + x.length  BY DEF LogicalEnd
  <2>3. x.length <= e.length /\ x.length >= 1
    <3>1. /\ x.length = end - s /\ offset + (end - s) <= e.length
          /\ e.length \in Nat /\ end \in Nat /\ s \in Nat /\ s < end
      BY <1>6, <1>9, <1>10, <1>11
    <3>2. PICK l \in Nat : l = e.length  BY <1>6
    <3>3. end - s <= l /\ end - s >= 1  BY <3>1, <3>2
    <3> QED BY <3>1, <3>2, <3>3
  <2>4. x.length \in 1 .. EXT4_MAX_INIT_EXTENT_LEN  BY <1>6, <2>1, <2>3, MapperAssumption
  <2>5. LogicalEnd(x) = e.logical_start + (end - e.physical_start)
    <3>1. PICK a \in Nat, p \in Nat : a = e.logical_start /\ p = e.physical_start  BY <1>6
    <3>2. x.logical_start = a + offset /\ x.length = end - s /\ offset = s - p
          /\ end \in Nat /\ s \in Nat
      BY <1>9, <1>10, <1>11, <3>1
    <3>3. (a + (s - p)) + (end - s) = a + (end - p)  BY <3>1, <3>2
    <3> QED BY <2>2, <3>1, <3>2, <3>3
  <2> QED BY <1>6, <1>13, <2>1, <2>2, <2>4, <2>5
<1>15. ASSUME NEW c \in Cells(x) PROVE ~ IsBlocked(c)
  <2>1. c \in s .. end - 1  BY <1>11 DEF Cells
  <2>2. SUFFICES ASSUME NEW j \in 1 .. n, c \in Cells(blocked_extents[j]) PROVE FALSE
    BY <1>1 DEF IsBlocked
  <2>3. /\ blocked_extents[j].physical_start <= c /\ c < PhysicalEnd(blocked_extents[j])
        /\ c >= s /\ c < end /\ c \in Nat
    BY <1>7, <1>9, <2>1, <2>2 DEF Cells
  <2>4. b # 0 /\ j >= b
    <3>1. PICK p \in Nat, q \in Nat :
            p = blocked_extents[j].physical_start /\ q = PhysicalEnd(blocked_extents[j])
      BY <1>7
    <3>2. q <= s \/ p >= PhysicalEnd(e) \/ (b # 0 /\ j >= b)  BY <1>8, <3>1
    <3>3. p <= c /\ c < q  BY <2>3, <3>1
    <3>4. ~ (q <= s)  BY <1>9, <2>3, <3>1, <3>3
    <3>5. ~ (p >= PhysicalEnd(e))  BY <1>6, <1>9, <2>3, <3>1, <3>3
    <3> QED BY <3>2, <3>4, <3>5
  <2>5. b \in 1 .. n /\ end = blocked_extents[b].physical_start  BY <1>1, <1>7, <1>8, <2>4
  <2>6. blocked_extents[b].physical_start <= blocked_extents[j].physical_start
    <3>1. b = j \/ b < j  BY <1>7, <2>4, <2>5
    <3> QED BY <1>7, <2>5, <3>1
  <2> QED BY <1>7, <1>9, <2>3, <2>5, <2>6
<1>16. /\ Cells(x) \subseteq UsedClusters(files) /\ Cells(x) \cap Start = {}
       /\ Cells(x) \subseteq DataClusters(sb)
  BY <1>3, <1>6, <1>11, <1>13, <1>14, InPlaceFacts
<1>17. Sound(f, x)
  BY <1>13, <1>14, <1>15, <1>16 DEF Sound
<1>18. (avail \cup Outstanding)' \subseteq avail \cup Outstanding  BY <1>2, <1>4
<1>19. Sound(f, x)'  BY <1>2, <1>3, <1>17, <1>18, SoundFrame
<1>20. x.logical_start = Total(stream[f])
  BY <1>1, <1>3, <1>4, <1>10, <1>11 DEF Progress, FragmentPosition
<1>21. \A g \in 1 .. Len(stream) : \A m \in 1 .. Len(stream[g]) :
         Cells(x) \cap Cells(stream[g][m]) = {}
  BY <1>1, <1>3, <1>6, <1>11, <1>13, <1>14, <1>20, InPlaceApart
<1>22. Cells(x) \cap pages = {}  BY <1>3, <1>16 DEF Stream
<1>23. Stream' /\ ExtentsApart'
  BY <1>1, <1>2, <1>3, <1>6, <1>11, <1>18, <1>19, <1>20, <1>21, <1>22, StoreStream
<1>24. Content'
  <2>1. \A k \in 0 .. x.length - 1 :
          disk[x.physical_start + k] = files[f][x.logical_start + k + 1]
    <3>1. SUFFICES ASSUME NEW k \in 0 .. x.length - 1
                   PROVE  disk[x.physical_start + k] = files[f][x.logical_start + k + 1]
      OBVIOUS
    <3>2. x.physical_start + k \in Cells(x)  BY <1>11, <3>1, CellsOf
    <3>3. x.physical_start + k = files[f][x.logical_start + k + 1]  BY <1>13 DEF InPlace
    <3> QED BY <1>3, <1>16, <3>2, <3>3 DEF Content, SourceIntact
  <2>2. Label # "copy"  BY <1>4
  <2>3. UNCHANGED <<inputVars, disk>> /\ Inputs /\ Stream /\ Content  BY <1>2, <1>3
  <2> QED BY <1>12, <2>1, <2>2, <2>3, StoreContent
<1>25. Inputs' /\ Start' = Start  BY <1>2, <1>3, InputsFrame
<1>26. Control'  BY <1>2, <1>3 DEF Control
<1>27. Allocator'  BY <1>2, <1>3, <1>4, <1>25 DEF Allocator
<1>28. Finished'
  <2>1. Label \notin {"open", "next_file"} /\ Label' \notin {"open", "next_file"}  BY <1>4
  <2> QED BY <1>2, <1>3, <1>6, <1>11, <2>1, FinishedStore
<1>29. Len(stream') = f /\ stream' # <<>> /\ Total(stream'[f]) = LogicalEnd(x)
  <2>1. PICK l : l = Len(stream[f])  OBVIOUS
  <2>2. Len(stream') = f /\ f \in Nat /\ stream' \in Seq(Seq(ExtentSet))
        /\ Total(stream'[f]) = LogicalEnd(x)
    BY <1>3, <1>12, <2>1, StoredLast
  <2>3. f # 0  BY <1>6
  <2> QED BY <2>2, <2>3
<1>30. Aggregate'  BY <1>1, <1>2, <1>5, <1>29, AggregateFrame
<1>31. Fragments'
  <2>1. end \in e.physical_start .. PhysicalEnd(e)  BY <1>6, <1>8, <1>9
  <2>2. b # 0 => PhysicalEnd(blocked_extents[b]) >= end
    BY <1>1, <1>7, <1>8
  <2>3. ASSUME NEW j \in 1 .. n
        PROVE  \/ PhysicalEnd(blocked_extents[j]) <= end
               \/ blocked_extents[j].physical_start >= PhysicalEnd(e)
               \/ b # 0 /\ j >= b
    BY <1>7, <1>8, <1>9
  <2> QED BY <1>1, <1>2, <1>8, <2>1, <2>2, <2>3 DEF Fragments
<1>32. Resettle'  BY <1>4 DEF Resettle, Resettling
<1>33. Progress'
  BY <1>2, <1>4, <1>14, <1>29 DEF Progress, FragmentPosition
<1> QED BY <1>23, <1>24, <1>25, <1>26, <1>27, <1>28, <1>30, <1>31, <1>32, <1>33 DEF MappingInv

\* What lies in the blocked extent is a piece of the chain that has to move.
LEMMA BlockedStep ==
  ASSUME MappingInv, BlockedFragment
  PROVE  MappingInv'
<1>1. PICK f, e, b, s, n, blocked_end, end, x :
        /\ f = Len(stream) /\ e = current_extent /\ b = blocked_extent /\ s = fragment_start
        /\ n = block_group_count(sb)
        /\ blocked_end = PhysicalEnd(blocked_extents[blocked_extent])
        /\ end = IF blocked_end < PhysicalEnd(current_extent)
                 THEN blocked_end ELSE PhysicalEnd(current_extent)
        /\ x = FragmentTo(end)
  OBVIOUS
<1>2. /\ UNCHANGED <<inputVars, stream, pages, disk>> /\ UNCHANGED inputVars
      /\ UNCHANGED <<inputVars, aggregateVars>> /\ stream' = stream /\ reserved' = reserved
      /\ files' = files /\ sb' = sb /\ blocked_extents' = blocked_extents
      /\ pc = "fragments" /\ pc' = "resettle" /\ then' = then
      /\ avail' = avail /\ phase = "idle" /\ phase' = "idle" /\ out' = out
      /\ fragment' = x /\ resettled' = 0 /\ fragment_start' = end /\ current_extent' = e
      /\ blocked_extent' = find_next_blocked_extent(i, PhysicalEnd(e)) /\ i' = IndexAfter(i)
      /\ s < PhysicalEnd(e)
      /\ b # 0 /\ blocked_extents[b].physical_start <= s
  BY <1>1 DEF BlockedFragment, Running, ffVars, inputVars, streamVars, aggregateVars,
              MoreFragments, is_blocked
<1>3. Inputs /\ Control /\ Finished /\ Fragments /\ Progress  BY DEF MappingInv
<1>4. Label = "fragments" /\ Label' = "resettle" /\ Outstanding' = {}
  BY <1>2 DEF Label, Outstanding
<1>5. InFile /\ Flushing  BY <1>4 DEF InFile, Flushing
<1>6. /\ f \in 1 .. Len(files) /\ Len(files[f]) \in Nat
      /\ e \in ExtentSet /\ e.length \in 1 .. EXT4_MAX_INIT_EXTENT_LEN
      /\ e.logical_start \in Nat /\ e.physical_start \in Nat /\ e.length \in Nat
      /\ LogicalEnd(e) \in Nat /\ PhysicalEnd(e) \in Nat
      /\ PhysicalEnd(e) = e.physical_start + e.length
      /\ LogicalEnd(e) <= Len(files[f]) /\ InPlace(f, e) /\ stream # <<>>
  BY <1>1, <1>5, CurrentFacts
<1>7. /\ n \in Nat
      /\ \A j \in 1 .. n :
           /\ blocked_extents[j].physical_start \in Nat /\ PhysicalEnd(blocked_extents[j]) \in Nat
      /\ \A j, d \in 1 .. n :
           j < d => PhysicalEnd(blocked_extents[j]) <= PhysicalEnd(blocked_extents[d])
  BY <1>1, <1>3, BlockedFacts
<1>8. /\ s \in e.physical_start .. PhysicalEnd(e) /\ b \in 0 .. n
      /\ i = b + 1 /\ blocked_end >= s
      /\ \A j \in 1 .. n : \/ PhysicalEnd(blocked_extents[j]) <= s
                           \/ blocked_extents[j].physical_start >= PhysicalEnd(e)
                           \/ b # 0 /\ j >= b
  BY <1>1, <1>2, <1>3, <1>5 DEF Fragments
<1>9. /\ b \in 1 .. n /\ blocked_end \in Nat /\ s \in Nat /\ end \in Nat
      /\ s <= end /\ end <= PhysicalEnd(e) /\ end <= blocked_end
      /\ end < PhysicalEnd(e) => end = blocked_end
  <2>1. b \in 1 .. n  BY <1>2, <1>7, <1>8
  <2>2. blocked_end \in Nat /\ s \in Nat  BY <1>1, <1>6, <1>7, <1>8, <2>1
  <2>3. s <= PhysicalEnd(e)  BY <1>6, <1>8
  <2> QED BY <1>1, <1>6, <1>8, <2>1, <2>2, <2>3
<1>10. PICK offset \in Nat : /\ offset = s - e.physical_start /\ s = e.physical_start + offset
                             /\ offset + (end - s) <= e.length
  <2>1. PICK p \in Nat, l \in Nat :
          p = e.physical_start /\ l = e.length /\ PhysicalEnd(e) = p + l
    BY <1>6
  <2>2. s \in e.physical_start .. PhysicalEnd(e)  BY <1>8
  <2>3. p <= s /\ s <= end /\ end <= p + l /\ s \in Nat /\ end \in Nat  BY <1>9, <2>1, <2>2
  <2>4. s - p \in Nat /\ s = p + (s - p) /\ (s - p) + (end - s) <= l  BY <2>3
  <2> QED BY <2>1, <2>4
<1>11. /\ x \in ExtentSet /\ x.logical_start = e.logical_start + offset
       /\ x.physical_start = s /\ x.length = end - s
       /\ x.physical_start = e.physical_start + offset
  <2>1. x = [logical_start |-> e.logical_start + offset, physical_start |-> s,
             length |-> end - s]
    BY <1>1, <1>10 DEF FragmentTo, Extent
  <2>2. end - s \in Nat  BY <1>9
  <2>3. e.logical_start + offset \in Nat  BY <1>6
  <2>4. x \in ExtentSet  BY <1>9, <2>1, <2>2, <2>3 DEF ExtentSet
  <2> QED BY <1>10, <2>1, <2>4
<1>12. InPlace(f, x) /\ LogicalEnd(x) <= LogicalEnd(e)
  <2>1. offset + x.length <= e.length  BY <1>10, <1>11
  <2> QED BY <1>6, <1>11, <2>1, Piece
<1>13. /\ LogicalEnd(x) <= Len(files[f]) /\ x.length <= EXT4_MAX_INIT_EXTENT_LEN
       /\ LogicalEnd(x) = e.logical_start + (end - e.physical_start)
  <2>1. LogicalEnd(x) \in Nat /\ LogicalEnd(x) = x.logical_start + x.length
    BY <1>11 DEF LogicalEnd, ExtentSet
  <2>2. LogicalEnd(x) <= Len(files[f])  BY <1>6, <1>12, <2>1
  <2>3. PICK a \in Nat, p \in Nat, l \in Nat :
          a = e.logical_start /\ p = e.physical_start /\ l = e.length
    BY <1>6
  <2>4. /\ x.logical_start = a + offset /\ x.length = end - s /\ offset = s - p
        /\ end \in Nat /\ s \in Nat /\ offset + (end - s) <= l
    BY <1>9, <1>10, <1>11, <2>3
  <2>5. (a + (s - p)) + (end - s) = a + (end - p) /\ end - s <= l  BY <2>3, <2>4
  <2>6. l <= EXT4_MAX_INIT_EXTENT_LEN  BY <1>6, <2>3, MapperAssumption
  <2>7. x.length <= EXT4_MAX_INIT_EXTENT_LEN
    BY <2>3, <2>4, <2>5, <2>6, MapperAssumption
  <2> QED BY <2>1, <2>2, <2>3, <2>4, <2>5, <2>7
<1>14. ASSUME NEW k \in 0 .. x.length - 1 PROVE IsBlocked(x.physical_start + k)
  <2>1. PICK c \in Nat : c = x.physical_start + k /\ c >= s /\ c < end
    <3>1. x.physical_start + k \in Nat /\ x.physical_start + k >= s /\ x.physical_start + k < end
      BY <1>9, <1>11
    <3> QED BY <3>1
  <2>2. blocked_extents[b].physical_start \in Nat  BY <1>7, <1>9
  <2>3. c \in Cells(blocked_extents[b])
    <3>1. PICK p \in Nat : p = blocked_extents[b].physical_start  BY <2>2
    <3>2. p <= c /\ c < blocked_end  BY <1>2, <1>9, <2>1, <3>1
    <3>3. c \in p .. blocked_end - 1  BY <1>9, <2>1, <3>1, <3>2
    <3> QED BY <1>1, <3>1, <3>3 DEF Cells
  <2> QED BY <1>1, <1>9, <2>1, <2>3 DEF IsBlocked
<1>15. i \in 1 .. n + 1  BY <1>7, <1>8, <1>9
<1>16. PICK found : found = blocked_extent'  OBVIOUS
<1>17. \/ /\ found = i /\ i <= n /\ IndexAfter(i) = found + 1
          /\ blocked_extents[found].physical_start <= PhysicalEnd(e)
       \/ /\ found = 0
          /\ \A j \in 1 .. n : j >= i => blocked_extents[j].physical_start > PhysicalEnd(e)
  BY <1>1, <1>2, <1>3, <1>6, <1>15, <1>16, NextBlocked
<1>18. Control'  BY <1>2, <1>3 DEF Control
<1>19. Inputs' /\ Allocator' /\ Stream' /\ ExtentsApart' /\ Content'
  <2>1. pc' \notin {"page", "granted"} /\ Label # "copy" /\ Label' # "copy"  BY <1>2, <1>4
  <2> QED BY <1>2, <1>4, <2>1, BaseFrame
<1>20. Finished'  BY <1>2, <1>3, <1>4 DEF Finished
<1>21. Aggregate'  BY <1>2, <1>5, <1>6, AggregateFrame
<1>22. Fragments'
  <2>1. end \in e.physical_start .. PhysicalEnd(e)  BY <1>6, <1>8, <1>9
  <2>2. found \in 0 .. n  BY <1>7, <1>15, <1>17
  <2>3. ASSUME found # 0
        PROVE  /\ i' = found + 1 /\ blocked_extents[found].physical_start <= PhysicalEnd(e)
               /\ PhysicalEnd(blocked_extents[found]) >= end
    <3>1. found = b + 1 /\ found \in 1 .. n /\ b < found  BY <1>7, <1>8, <1>9, <1>17, <2>2, <2>3
    <3>2. blocked_end <= PhysicalEnd(blocked_extents[found])  BY <1>1, <1>7, <1>9, <3>1
    <3> QED BY <1>2, <1>7, <1>9, <1>17, <2>3, <3>1, <3>2
  <2>4. ASSUME end < PhysicalEnd(e), NEW j \in 1 .. n
        PROVE  \/ PhysicalEnd(blocked_extents[j]) <= end
               \/ blocked_extents[j].physical_start >= PhysicalEnd(e)
               \/ found # 0 /\ j >= found
    <3>1. j < b \/ j = b \/ j >= i  BY <1>7, <1>8, <1>9
    <3>2. CASE j < b
      <4>1. ~ (j >= b)  BY <1>7, <1>9, <3>2
      <4>2. PhysicalEnd(blocked_extents[j]) \in Nat  BY <1>7
      <4> QED BY <1>8, <1>9, <4>1, <4>2
    <3>3. CASE j = b  BY <1>1, <1>9, <2>4, <3>3
    <3>4. CASE j >= i
      <4>1. CASE found = i  BY <1>8, <1>9, <3>4, <4>1
      <4>2. CASE found # i
        <5>1. blocked_extents[j].physical_start > PhysicalEnd(e)  BY <1>17, <3>4, <4>2
        <5>2. blocked_extents[j].physical_start \in Nat  BY <1>7
        <5> QED BY <1>6, <5>1, <5>2
      <4> QED BY <4>1, <4>2
    <3> QED BY <3>1, <3>2, <3>3, <3>4
  <2> QED BY <1>1, <1>2, <1>16, <2>1, <2>2, <2>3, <2>4 DEF Fragments
<1>23. Resettle'
  <2>1. 0 \in 0 .. x.length  BY <1>11 DEF ExtentSet
  <2>2. LogicalEnd(fragment)' = FragmentPosition'
    BY <1>2, <1>13 DEF FragmentPosition, LogicalEnd
  <2>3. InPlace(Len(stream), fragment)'  BY <1>1, <1>2, <1>12 DEF InPlace
  <2>4. \A k \in 0 .. fragment'.length - 1 : IsBlocked(fragment.physical_start + k)'
    BY <1>2, <1>14 DEF IsBlocked
  <2>5. /\ x \in ExtentSet /\ LogicalEnd(fragment)' <= Len(files[f])
        /\ x.length <= EXT4_MAX_INIT_EXTENT_LEN
    BY <1>2, <1>11, <1>13 DEF LogicalEnd
  <2> QED BY <1>1, <1>2, <2>1, <2>2, <2>3, <2>4, <2>5 DEF Resettle
<1>24. Progress'
  <2>1. Total(stream[f]) = x.logical_start + 0
    <3>1. Total(stream[f]) = x.logical_start
      BY <1>1, <1>3, <1>4, <1>10, <1>11 DEF Progress, FragmentPosition
    <3>2. x.logical_start \in Nat  BY <1>11 DEF ExtentSet
    <3> QED BY <3>1, <3>2
  <2> QED BY <1>1, <1>2, <1>4, <2>1 DEF Progress
<1> QED BY <1>18, <1>19, <1>20, <1>21, <1>22, <1>23, <1>24 DEF MappingInv

\* What resettle_extent leaves alone of the work of its callers.
LEMMA ResettleFrame ==
  ASSUME MappingInv, Resettling, UNCHANGED <<inputVars, aggregateVars, fragmentVars>>,
         fragment' = fragment, resettled' \in 0 .. fragment.length,
         Len(stream') = Len(stream), stream' # <<>>
  PROVE  Aggregate' /\ Fragments' /\ Resettle'
<1>1. /\ files' = files /\ reserved' = reserved /\ sb' = sb
      /\ blocked_extents' = blocked_extents /\ current_extent' = current_extent
      /\ fragment_start' = fragment_start /\ i' = i /\ blocked_extent' = blocked_extent
      /\ UNCHANGED <<inputVars, aggregateVars>> /\ UNCHANGED inputVars
  BY DEF inputVars, aggregateVars, fragmentVars
<1>2. InFile /\ Flushing  BY DEF Resettling, Flushing
<1>3. Inputs /\ Fragments /\ Resettle  BY DEF MappingInv
<1>4. Aggregate'  BY <1>1, <1>2, AggregateFrame
<1>5. Fragments'  BY <1>1, <1>2, <1>3 DEF Fragments
<1>6. Resettle'
  BY <1>1, <1>3 DEF Resettle, FragmentPosition, InPlace, IsBlocked
<1> QED BY <1>4, <1>5, <1>6

\* What Resettle says of the fragment.
LEMMA FragmentFacts ==
  ASSUME MappingInv, Resettling, NEW f, f = Len(stream), NEW e, e = fragment,
         NEW r, r = resettled
  PROVE  /\ f \in 1 .. Len(files) /\ f \in 1 .. Len(stream) /\ f \in Nat
         /\ Len(files[f]) \in Nat /\ stream # <<>>
         /\ e \in ExtentSet /\ e.logical_start \in Nat /\ e.physical_start \in Nat
         /\ e.length \in Nat /\ e.length <= EXT4_MAX_INIT_EXTENT_LEN
         /\ r \in Nat /\ r <= e.length
         /\ LogicalEnd(e) = e.logical_start + e.length
         /\ LogicalEnd(e) <= Len(files[f]) /\ InPlace(f, e)
         /\ \A k \in 0 .. e.length - 1 :
              /\ IsBlocked(e.physical_start + k)
              /\ e.physical_start + k = files[f][e.logical_start + k + 1]
              /\ e.physical_start + k \in UsedClusters(files)
<1>1. Inputs /\ Resettle  BY DEF MappingInv
<1>2. PICK c : c = current_extent  OBVIOUS
<1>3. InFile  BY DEF Resettling, Flushing
<1>4. f \in 1 .. Len(files) /\ f \in 1 .. Len(stream) /\ Len(files[f]) \in Nat /\ stream # <<>>
  BY <1>2, <1>3, CurrentFacts
<1>5. /\ e \in ExtentSet /\ r \in 0 .. e.length /\ e.length <= EXT4_MAX_INIT_EXTENT_LEN
      /\ LogicalEnd(e) <= Len(files[f]) /\ InPlace(f, e)
      /\ \A k \in 0 .. e.length - 1 : IsBlocked(e.physical_start + k)
  BY <1>1 DEF Resettle
<1>6. /\ e.logical_start \in Nat /\ e.physical_start \in Nat /\ e.length \in Nat
      /\ LogicalEnd(e) = e.logical_start + e.length
  BY <1>5 DEF ExtentSet, LogicalEnd
<1>7. /\ Cells(e) \subseteq UsedClusters(files)
      /\ \A k \in 0 .. e.length - 1 : e.physical_start + k = files[f][e.logical_start + k + 1]
  BY <1>1, <1>4, <1>5, InPlaceFacts
<1>8. \A k \in 0 .. e.length - 1 : e.physical_start + k \in Cells(e)  BY <1>5, CellsOf
<1> QED BY <1>4, <1>5, <1>6, <1>7, <1>8

\* resettle_extent asks for the clusters that are left of the fragment,
LEMMA CallAllocateStep ==
  ASSUME MappingInv, CallAllocateExtent
  PROVE  MappingInv'
<1>1. /\ UNCHANGED <<inputVars, stream, pages, disk>>
      /\ UNCHANGED <<inputVars, aggregateVars, fragmentVars>>
      /\ stream' = stream /\ files' = files /\ reserved' = reserved
      /\ fragment' = fragment /\ resettled' = resettled
      /\ pc = "resettle" /\ pc' = "granted" /\ then' = then
      /\ avail' = avail /\ phase' = "busy" /\ out' = {}
      /\ want' = fragment.length - resettled /\ resettled < fragment.length
  BY DEF CallAllocateExtent, Request, streamVars, inputVars, resettleVars
<1>2. Control /\ Finished /\ Progress  BY DEF MappingInv
<1>3. Label = "resettle" /\ Label' = "granted" /\ Outstanding' = {}
  BY <1>1 DEF Label, Outstanding
<1>4. Control'  BY <1>1, <1>2 DEF Control
<1>5. Inputs' /\ Allocator' /\ Stream' /\ ExtentsApart' /\ Content'
  <2>1. Label # "copy" /\ Label' # "copy" /\ phase' # "idle"  BY <1>1, <1>3
  <2> QED BY <1>1, <1>3, <2>1, BaseFrame
<1>6. Resettling  BY <1>3 DEF Resettling, Flushing, InFile
<1>7. stream # <<>> /\ resettled \in Nat /\ fragment.length \in Nat
  <2>1. PICK f, e, r : f = Len(stream) /\ e = fragment /\ r = resettled  OBVIOUS
  <2> QED BY <1>6, <2>1, FragmentFacts
<1>8. Aggregate' /\ Fragments' /\ Resettle'
  <2>1. resettled' \in 0 .. fragment.length  BY <1>1, <1>7
  <2> QED BY <1>1, <1>6, <1>7, <2>1, ResettleFrame
<1>9. Finished'  BY <1>1, <1>2, <1>3 DEF Finished
<1>10. Progress'  BY <1>1, <1>2, <1>3 DEF Progress
<1> QED BY <1>4, <1>5, <1>8, <1>9, <1>10 DEF MappingInv

\* and returns when all are copied.
LEMMA FragmentResettledStep ==
  ASSUME MappingInv, FragmentResettled
  PROVE  MappingInv'
<1>1. /\ UNCHANGED <<inputVars, stream, pages, disk>>
      /\ UNCHANGED <<inputVars, aggregateVars, fragmentVars>>
      /\ stream' = stream /\ files' = files /\ reserved' = reserved
      /\ fragment' = fragment /\ resettled' = resettled
      /\ current_extent' = current_extent /\ fragment_start' = fragment_start
      /\ pc = "resettle" /\ pc' = "fragments" /\ then' = then
      /\ avail' = avail /\ phase = "idle" /\ phase' = "idle" /\ out' = out
      /\ resettled >= fragment.length
  BY DEF FragmentResettled, Running, ffVars, streamVars, inputVars, resettleVars, aggregateVars,
         fragmentVars
<1>2. Control /\ Finished /\ Progress /\ Resettle  BY DEF MappingInv
<1>3. Label = "resettle" /\ Label' = "fragments" /\ Outstanding' = {}
  BY <1>1 DEF Label, Outstanding
<1>4. Control'  BY <1>1, <1>2 DEF Control
<1>5. Inputs' /\ Allocator' /\ Stream' /\ ExtentsApart' /\ Content'
  <2>1. pc' \notin {"page", "granted"} /\ Label # "copy" /\ Label' # "copy"  BY <1>1, <1>3
  <2> QED BY <1>1, <1>3, <2>1, BaseFrame
<1>6. Resettling  BY <1>3 DEF Resettling, Flushing, InFile
<1>7. PICK f, e, r : f = Len(stream) /\ e = fragment /\ r = resettled  OBVIOUS
<1>8. /\ stream # <<>> /\ r \in Nat /\ e.length \in Nat /\ r <= e.length
      /\ LogicalEnd(e) = e.logical_start + e.length
  BY <1>6, <1>7, FragmentFacts
<1>9. Aggregate' /\ Fragments' /\ Resettle'
  <2>1. resettled' \in 0 .. fragment.length  BY <1>1, <1>7, <1>8
  <2> QED BY <1>1, <1>6, <1>8, <2>1, ResettleFrame
<1>10. Finished'  BY <1>1, <1>2, <1>3 DEF Finished
<1>11. Progress'
  <2>1. r = e.length  BY <1>1, <1>7, <1>8
  <2>2. Total(stream[f]) = LogicalEnd(e)  BY <1>2, <1>3, <1>7, <1>8, <2>1 DEF Progress
  <2>3. LogicalEnd(e) = FragmentPosition  BY <1>2, <1>6, <1>7 DEF Resettle
  <2> QED BY <1>1, <1>3, <1>7, <2>2, <2>3 DEF Progress, FragmentPosition
<1> QED BY <1>4, <1>5, <1>9, <1>10, <1>11 DEF MappingInv

\* The granted clusters become an extent of the file before they hold what the
\* fragment holds.
LEMMA StoreGrantedStep ==
  ASSUME MappingInv, StoreGrantedExtent
  PROVE  MappingInv'
<1>1. PICK f, e, r, v, x :
        /\ f = Len(stream) /\ e = fragment /\ r = resettled
        /\ v = CHOOSE c \in out : \A d \in out : c <= d
        /\ x = Extent(e.logical_start + r, v, Cardinality(out))
  OBVIOUS
<1>2. /\ UNCHANGED <<inputVars, pages>> /\ UNCHANGED <<inputVars, disk>> /\ UNCHANGED inputVars
      /\ UNCHANGED <<inputVars, aggregateVars, fragmentVars>>
      /\ files' = files /\ sb' = sb /\ fragment' = e /\ resettled' = r
      /\ pc = "granted" /\ pc' = "insert" /\ then' = "copy"
      /\ avail' = avail /\ phase = "idle" /\ phase' = "idle" /\ out' = out
      /\ Stored(x)
  BY <1>1 DEF StoreGrantedExtent, Running, ffVars, inputVars, resettleVars, ThenInsert
<1>3. /\ Inputs /\ Control /\ Allocator /\ Stream /\ ExtentsApart /\ Content /\ Finished
      /\ Progress
  BY DEF MappingInv
<1>4. Label = "granted" /\ Label' = "copy" /\ Outstanding = out /\ Outstanding' = {}
  BY <1>2 DEF Label, Outstanding
<1>5. Resettling  BY <1>4 DEF Resettling, Flushing, InFile
<1>6. /\ f \in 1 .. Len(files) /\ f \in 1 .. Len(stream) /\ f \in Nat
      /\ Len(files[f]) \in Nat /\ stream # <<>>
      /\ e \in ExtentSet /\ e.logical_start \in Nat /\ e.physical_start \in Nat
      /\ e.length \in Nat /\ e.length <= EXT4_MAX_INIT_EXTENT_LEN
      /\ r \in Nat /\ r <= e.length
      /\ LogicalEnd(e) = e.logical_start + e.length
      /\ LogicalEnd(e) <= Len(files[f])
      /\ \A k \in 0 .. e.length - 1 :
           /\ IsBlocked(e.physical_start + k)
           /\ e.physical_start + k = files[f][e.logical_start + k + 1]
  BY <1>1, <1>5, FragmentFacts
<1>7. /\ out \subseteq Start /\ out \cap avail = {} /\ want = e.length - r
      /\ \E lo, hi \in DataClusters(sb) : lo <= hi /\ out = lo .. hi /\ hi - lo + 1 <= want
  BY <1>1, <1>2, <1>3, <1>4 DEF Allocator
<1>8. PICK lo \in DataClusters(sb), hi \in DataClusters(sb) :
        lo <= hi /\ out = lo .. hi /\ hi - lo + 1 <= e.length - r
  BY <1>7
<1>9. lo \in Nat /\ hi \in Nat
  <2>1. \A c \in DataClusters(sb) : c \in Int  BY DEF DataClusters
  <2>2. lo \in out /\ hi \in out  BY <1>8, <2>1
  <2> QED BY <1>3, <1>7, <2>2, StartFacts
<1>10. PICK len \in Nat : len = hi - lo + 1 /\ len >= 1 /\ len <= e.length - r
  <2>1. hi - lo + 1 \in Nat /\ hi - lo + 1 >= 1  BY <1>8, <1>9
  <2> QED BY <1>8, <2>1
<1>11. v = lo /\ Cardinality(out) = len
  <2>1. lo \in out /\ \A d \in out : lo <= d  BY <1>8, <1>9
  <2>2. v \in out /\ \A d \in out : v <= d  BY <1>1, <2>1
  <2>3. v = lo
    <3>1. v \in Nat /\ v <= lo /\ lo <= v  BY <1>8, <1>9, <2>1, <2>2
    <3> QED BY <1>9, <3>1
  <2>4. Cardinality(lo .. hi) = hi - lo + 1  BY <1>8, <1>9, FS_Interval
  <2> QED BY <1>8, <1>10, <2>3, <2>4
<1>12. /\ x \in ExtentSet /\ x.logical_start = e.logical_start + r
       /\ x.physical_start = lo /\ x.length = len
  <2>1. x = [logical_start |-> e.logical_start + r, physical_start |-> lo, length |-> len]
    BY <1>1, <1>11 DEF Extent
  <2>2. e.logical_start + r \in Nat  BY <1>6
  <2>3. x \in ExtentSet  BY <1>9, <2>1, <2>2 DEF ExtentSet
  <2> QED BY <2>1, <2>3
<1>13. Cells(x) = out
  <2>1. (lo + len) - 1 = hi  BY <1>9, <1>10
  <2>2. Cells(x) = lo .. ((lo + len) - 1)  BY <1>12 DEF Cells, PhysicalEnd
  <2> QED BY <1>8, <2>1, <2>2
<1>14. /\ LogicalEnd(x) <= LogicalEnd(e) /\ LogicalEnd(x) <= Len(files[f])
       /\ x.length \in 1 .. EXT4_MAX_INIT_EXTENT_LEN
  <2>1. LogicalEnd(x) = (e.logical_start + r) + len  BY <1>12 DEF LogicalEnd
  <2>2. LogicalEnd(x) <= LogicalEnd(e)
    <3>1. PICK a \in Nat, l \in Nat : a = e.logical_start /\ l = e.length  BY <1>6
    <3>2. r \in Nat /\ r <= l  BY <1>6, <3>1
    <3>3. len <= l - r  BY <1>10, <3>1
    <3>4. (a + r) + len <= a + l  BY <3>2, <3>3
    <3>5. LogicalEnd(e) = a + l  BY <1>6, <3>1
    <3> QED BY <2>1, <3>1, <3>4, <3>5
  <2>3. LogicalEnd(x) \in Nat /\ LogicalEnd(e) \in Nat  BY <1>6, <2>1
  <2>4. len <= EXT4_MAX_INIT_EXTENT_LEN
    <3>1. PICK l \in Nat : l = e.length  BY <1>6
    <3>2. len <= l  BY <1>6, <1>10, <3>1
    <3> QED BY <1>6, <3>1, <3>2, MapperAssumption
  <2> QED BY <1>6, <1>10, <1>12, <2>2, <2>3, <2>4, MapperAssumption
<1>15. \A k \in 0 .. x.length - 1 : IsBlocked(files[f][x.logical_start + k + 1])
  <2>1. SUFFICES ASSUME NEW k \in 0 .. len - 1
                 PROVE  IsBlocked(files[f][x.logical_start + k + 1])
    BY <1>12
  <2>2. PICK m : m = r + k  OBVIOUS
  <2>3. m \in 0 .. e.length - 1
    <3>1. PICK l \in Nat : l = e.length  BY <1>6
    <3>2. r + k \in 0 .. l - 1  BY <1>6, <1>10, <3>1
    <3> QED BY <2>2, <3>1, <3>2
  <2>4. x.logical_start + k + 1 = e.logical_start + m + 1  BY <1>6, <1>12, <2>2
  <2>5. IsBlocked(e.physical_start + m) /\ e.physical_start + m = files[f][e.logical_start + m + 1]
    BY <1>6, <2>3
  <2>6. PICK c : c = e.physical_start + m  OBVIOUS
  <2> QED BY <2>4, <2>5, <2>6
<1>16. Inputs' /\ Start' = Start /\ \A c : IsBlocked(c)' <=> IsBlocked(c)
  BY <1>2, <1>3, InputsFrame
<1>17. Sound(f, x)'
  <2>1. ASSUME NEW c \in out PROVE c \in DataClusters(sb) /\ ~ IsBlocked(c)
    BY <1>3, <1>7, StartFacts
  <2>2. Moved(f, x)'
    <3>1. Cells(x) \subseteq Start' /\ Cells(x) \cap (avail \cup Outstanding)' = {}
      BY <1>2, <1>4, <1>7, <1>13, <1>16
    <3> QED BY <1>2, <1>15, <1>16, <3>1 DEF Moved
  <2> QED BY <1>2, <1>13, <1>14, <1>16, <2>1, <2>2 DEF Sound
<1>18. (avail \cup Outstanding)' \subseteq avail \cup Outstanding  BY <1>2, <1>4
<1>19. x.logical_start = Total(stream[f])  BY <1>1, <1>3, <1>4, <1>12 DEF Progress
<1>20. \A g \in 1 .. Len(stream) : \A m \in 1 .. Len(stream[g]) :
         Cells(x) \cap Cells(stream[g][m]) = {}
  <2>1. SUFFICES ASSUME NEW g \in 1 .. Len(stream), NEW m \in 1 .. Len(stream[g])
                 PROVE  Cells(x) \cap Cells(stream[g][m]) = {}
    OBVIOUS
  <2>2. Cells(stream[g][m]) \cap (avail \cup Outstanding) = {}  BY <1>3, StoredTaken
  <2> QED BY <1>4, <1>13, <2>2
<1>21. Cells(x) \cap pages = {}  BY <1>3, <1>4, <1>13 DEF Stream
<1>22. Stored(x) /\ stream # <<>> /\ x \in ExtentSet /\ f = Len(stream)
  BY <1>1, <1>2, <1>6, <1>12
<1>23. Stream' /\ ExtentsApart'
  BY <1>2, <1>3, <1>17, <1>18, <1>19, <1>20, <1>21, <1>22, StoreStream
<1>24. Content'
  <2>1. Label # "copy" /\ Label' = "copy"  BY <1>4
  <2>2. UNCHANGED <<inputVars, disk>> /\ Inputs /\ Stream /\ Content  BY <1>2, <1>3
  <2> QED BY <1>22, <2>1, <2>2, StoreContent
<1>25. Control'  BY <1>2, <1>3 DEF Control
<1>26. Allocator'  BY <1>2, <1>3, <1>4, <1>16 DEF Allocator
<1>27. Finished'
  <2>1. Label \notin {"open", "next_file"} /\ Label' \notin {"open", "next_file"}  BY <1>4
  <2> QED BY <1>2, <1>3, <1>22, <2>1, FinishedStore
<1>28. PICK n : n = Len(stream[f])  OBVIOUS
<1>29. /\ n \in Nat /\ Len(stream') = f /\ stream' \in Seq(Seq(ExtentSet))
       /\ stream'[f] \in Seq(ExtentSet)
       /\ Len(stream'[f]) = n + 1 /\ stream'[f][n + 1] = x
  BY <1>3, <1>22, <1>28, StoredLast
<1>30. stream' # <<>> /\ stream'[f] # <<>>
  <2>1. Len(stream') # 0  BY <1>6, <1>29
  <2>2. Len(stream'[f]) # 0  BY <1>29
  <2> QED BY <1>29, <2>1, <2>2
<1>31. Aggregate' /\ Fragments' /\ Resettle'
  <2>1. resettled' \in 0 .. fragment.length  BY <1>1, <1>2, <1>6
  <2>2. fragment' = fragment /\ Len(stream') = Len(stream)  BY <1>1, <1>2, <1>29
  <2> QED BY <1>2, <1>5, <1>30, <2>1, <2>2, ResettleFrame
<1>32. Progress'
  <2>1. LastStored' = x  BY <1>29 DEF LastStored
  <2>2. Cells(LastStored)' \subseteq Start'  BY <1>7, <1>13, <1>16, <2>1 DEF Cells, PhysicalEnd
  <2>3. LogicalEnd(LastStored)' <= LogicalEnd(fragment)'
    BY <1>2, <1>14, <2>1 DEF LogicalEnd
  <2> QED BY <1>2, <1>4, <1>12, <1>29, <1>30, <2>1, <2>2, <2>3 DEF Progress
<1> QED BY <1>16, <1>23, <1>24, <1>25, <1>26, <1>27, <1>31, <1>32 DEF MappingInv

\* The copy: the extent stored last now holds what the chain has there, and
\* nothing else is written.
LEMMA CopyStep ==
  ASSUME MappingInv, CopyClusters
  PROVE  MappingInv'
<1>1. PICK f, e, r, n, y :
        /\ f = Len(stream) /\ e = fragment /\ r = resettled /\ n = Len(stream[f])
        /\ y = LastStored
  OBVIOUS
<1>2. /\ UNCHANGED <<inputVars, stream, pages>> /\ UNCHANGED inputVars
      /\ UNCHANGED <<inputVars, aggregateVars, fragmentVars>>
      /\ stream' = stream /\ files' = files /\ sb' = sb /\ reserved' = reserved
      /\ fragment' = fragment /\ resettled' = r + y.length
      /\ pc = "copy" /\ pc' = "resettle" /\ then' = then
      /\ avail' = avail /\ phase = "idle" /\ phase' = "idle" /\ out' = out
      /\ disk' = [c \in DOMAIN disk |->
                    IF c \in Cells(y)
                    THEN disk[(e.physical_start + r) + (c - y.physical_start)] ELSE disk[c]]
  BY <1>1 DEF CopyClusters, Running, ffVars, inputVars, streamVars, CopySource
<1>3. /\ Inputs /\ Control /\ Allocator /\ Stream /\ ExtentsApart /\ Content /\ Finished
      /\ Progress
  BY DEF MappingInv
<1>4. Label = "copy" /\ Label' = "resettle" /\ Outstanding = {} /\ Outstanding' = {}
  BY <1>2 DEF Label, Outstanding
<1>5. Resettling  BY <1>4 DEF Resettling, Flushing, InFile
<1>6. /\ f \in 1 .. Len(files) /\ f \in 1 .. Len(stream) /\ f \in Nat
      /\ Len(files[f]) \in Nat /\ stream # <<>>
      /\ e.logical_start \in Nat /\ e.physical_start \in Nat
      /\ e.length \in Nat /\ r \in Nat /\ r <= e.length
      /\ LogicalEnd(e) = e.logical_start + e.length
      /\ \A k \in 0 .. e.length - 1 :
           /\ e.physical_start + k = files[f][e.logical_start + k + 1]
           /\ e.physical_start + k \in UsedClusters(files)
  BY <1>1, <1>5, FragmentFacts
<1>7. stream[f] \in Seq(ExtentSet) /\ n \in Nat  BY <1>1, <1>3, <1>6, StoredFacts
<1>8. /\ n \in 1 .. Len(stream[f]) /\ n # 0 /\ y = stream[f][n]
      /\ y.logical_start = e.logical_start + r
      /\ LogicalEnd(y) <= LogicalEnd(e) /\ Cells(y) \subseteq Start
  <2>1. stream[f] # <<>>  BY <1>1, <1>3, <1>4 DEF Progress
  <2>2. n # 0  BY <1>1, <1>7, <2>1
  <2>3. n \in 1 .. Len(stream[f])  BY <1>1, <1>7, <2>2
  <2>4. y = stream[f][n]  BY <1>1 DEF LastStored
  <2> QED BY <1>1, <1>3, <1>4, <2>2, <2>3, <2>4 DEF Progress
<1>9. /\ y \in ExtentSet /\ y.logical_start \in Nat /\ y.physical_start \in Nat
      /\ y.length \in Nat /\ LogicalEnd(y) = y.logical_start + y.length
      /\ \A c \in Cells(y) : c \in DataClusters(sb)
  <2>1. y \in ExtentSet /\ Sound(f, y)  BY <1>3, <1>6, <1>8, StoredFacts
  <2> QED BY <2>1 DEF ExtentSet, LogicalEnd, Sound
<1>10. r + y.length \in Nat /\ r + y.length <= e.length
  <2>1. PICK a \in Nat, l \in Nat, m \in Nat :
          a = e.logical_start /\ l = e.length /\ m = y.length
    BY <1>6, <1>9
  <2>2. (a + r) + m <= a + l  BY <1>6, <1>8, <1>9, <2>1
  <2>3. r \in Nat  BY <1>6
  <2>4. r + m \in Nat /\ r + m <= l  BY <2>2, <2>3
  <2> QED BY <2>1, <2>4
<1>11. \A c \in DataClusters(sb) : c \notin Cells(y) => disk'[c] = disk[c]
  BY <1>2, <1>3 DEF Content
<1>12. ASSUME NEW k \in 0 .. y.length - 1
       PROVE  disk'[y.physical_start + k] = files[f][y.logical_start + k + 1]
  <2>1. PICK c : c = y.physical_start + k  OBVIOUS
  <2>2. c \in Cells(y) /\ c \in DOMAIN disk  BY <1>3, <1>9, <1>12, <2>1, CellsOf DEF Content
  <2>3. PICK m : m = r + k  OBVIOUS
  <2>4. m \in 0 .. e.length - 1
    <3>1. PICK l \in Nat, q \in Nat : l = e.length /\ q = y.length  BY <1>6, <1>9
    <3>2. r + q <= l /\ k \in 0 .. q - 1  BY <1>10, <1>12, <3>1
    <3>3. r \in Nat /\ k \in Nat  BY <1>6, <3>1, <3>2
    <3>4. r + k \in 0 .. l - 1  BY <3>1, <3>2, <3>3
    <3> QED BY <2>3, <3>1, <3>4
  <2>5. /\ e.physical_start + m = files[f][e.logical_start + m + 1]
        /\ e.physical_start + m \in UsedClusters(files)
    BY <1>6, <2>4
  <2>6. (e.physical_start + r) + (c - y.physical_start) = e.physical_start + m
    <3>1. c - y.physical_start = k  BY <1>9, <2>1
    <3> QED BY <1>6, <2>3, <3>1
  <2>7. disk'[c] = disk[e.physical_start + m]  BY <1>2, <2>2, <2>6
  <2>8. disk[e.physical_start + m] = e.physical_start + m
    BY <1>3, <2>5 DEF Content, SourceIntact
  <2>9. y.logical_start + k + 1 = e.logical_start + m + 1  BY <1>6, <1>8, <2>3
  <2> QED BY <2>1, <2>5, <2>7, <2>8, <2>9
<1>13. Content'
  <2>1. DOMAIN disk' = DataClusters(sb')  BY <1>2, <1>3 DEF Content
  <2>2. ASSUME NEW c \in UsedClusters(files) PROVE disk'[c] = c
    <3>1. c \in DataClusters(sb) /\ c \notin Cells(y)  BY <1>3, <1>8, StartFacts DEF Inputs
    <3> QED BY <1>3, <1>11, <3>1 DEF Content, SourceIntact
  <2>3. ASSUME NEW g \in 1 .. Len(stream), NEW m \in 1 .. Len(stream[g]),
               NEW k \in 0 .. stream[g][m].length - 1
        PROVE  disk'[stream[g][m].physical_start + k] =
                 files[g][stream[g][m].logical_start + k + 1]
    <3>1. CASE g = f /\ m = n  BY <1>8, <1>12, <2>3, <3>1
    <3>2. CASE ~ (g = f /\ m = n)
      <4>1. PICK z : z = stream[g][m]  OBVIOUS
      <4>2. z \in ExtentSet /\ Sound(g, z)  BY <1>3, <4>1, StoredFacts
      <4>3. z.physical_start + k \in Cells(z)  BY <2>3, <4>1, <4>2, CellsOf
      <4>4. z.physical_start + k \in DataClusters(sb)  BY <4>2, <4>3 DEF Sound
      <4>5. Cells(z) \cap Cells(y) = {}  BY <1>3, <1>6, <1>8, <3>2, <4>1 DEF ExtentsApart
      <4>6. ~ Pending(g, m)  BY <1>1, <3>2 DEF Pending
      <4>7. disk[z.physical_start + k] = files[g][z.logical_start + k + 1]
        BY <1>3, <2>3, <4>1, <4>6 DEF Content
      <4> QED BY <1>11, <4>1, <4>3, <4>4, <4>5, <4>7
    <3> QED BY <3>1, <3>2
  <2> QED BY <1>2, <2>1, <2>2, <2>3 DEF Content, SourceIntact
<1>14. Inputs' /\ Start' = Start  BY <1>2, <1>3, InputsFrame
<1>15. Control'  BY <1>2, <1>3 DEF Control
<1>16. Allocator'  BY <1>2, <1>3, <1>4, <1>14 DEF Allocator
<1>17. Stream' /\ ExtentsApart'
  <2>1. (avail \cup Outstanding)' \subseteq avail \cup Outstanding  BY <1>2, <1>4
  <2> QED BY <1>2, <1>3, <2>1, StreamFrame
<1>18. Finished'  BY <1>2, <1>3, <1>4 DEF Finished
<1>19. Aggregate' /\ Fragments' /\ Resettle'
  <2>1. resettled' \in 0 .. fragment.length  BY <1>1, <1>2, <1>6, <1>10
  <2> QED BY <1>2, <1>5, <1>6, <2>1, ResettleFrame
<1>20. Progress'
  <2>1. Total(stream[f]) = LogicalEnd(y)  BY <1>1, <1>8 DEF Total
  <2>2. LogicalEnd(y) = e.logical_start + (r + y.length)  BY <1>6, <1>8, <1>9
  <2> QED BY <1>1, <1>2, <1>4, <2>1, <2>2 DEF Progress
<1> QED BY <1>13, <1>14, <1>15, <1>16, <1>17, <1>18, <1>19, <1>20 DEF MappingInv

-----------------------------------------------------------------------------
(* The invariant.                                                          *)

\* At the start nothing is mapped and the disk is as FAT has it.
LEMMA InitMapping ==
  ASSUME Init
  PROVE  MappingInv
<1>1. /\ sb \in Layouts
      /\ blocked_extents \in SortedPermutations(create_block_group_meta_extents(sb),
                                                block_group_count(sb))
      /\ files \in FileSystems /\ UsedClusters(files) \subseteq DataClusters(sb)
      /\ reserved \in ReservedBits
      /\ disk = [c \in DataClusters(sb) |-> c]
      /\ avail = AvailableAtStart(sb, blocked_extents, files)
      /\ phase = "idle" /\ out = {} /\ stream = <<>> /\ pages = {}
      /\ pc = "open" /\ then = "next_file"
  BY DEF Init
<1>2. Inputs
  <2>1. PICK g : g = sb  OBVIOUS
  <2>2. UsableLayout(g)  BY <1>1, <2>1, MapperAssumption
  <2>3. PICK exts : exts = blocked_extents  OBVIOUS
  <2>4. exts \in SortedPermutations(create_block_group_meta_extents(g), block_group_count(g))
    BY <1>1, <2>1, <2>3
  <2>5. WellFormed(g, exts)  BY <2>2, <2>4, SortedExtentsWellFormed
  <2> QED BY <1>1, <2>1, <2>2, <2>3, <2>5, ReservedAssumption DEF Inputs
<1>3. Label = "open" /\ Outstanding = {}  BY <1>1 DEF Label, Outstanding
<1>4. Control  BY <1>1 DEF Control
<1>5. Allocator  BY <1>1, <1>3 DEF Allocator, Start
<1>6. 1 .. Len(stream) = {} /\ Len(stream) = 0 /\ stream \in Seq(Seq(ExtentSet))  BY <1>1
<1>7. Stream
  <2>1. 0 <= Len(files)  BY <1>2, FilesFacts
  <2> QED BY <1>1, <1>6, <2>1 DEF Stream
<1>8. ExtentsApart  BY <1>6 DEF ExtentsApart
<1>9. Content  BY <1>1, <1>6 DEF Content, SourceIntact
<1>10. Finished  BY <1>3, <1>6 DEF Finished
<1>11. Aggregate /\ Fragments /\ Resettle
  BY <1>3 DEF Aggregate, Fragments, Resettle, Resettling, Flushing, InFile
<1>12. Progress  BY <1>3 DEF Progress
<1> QED BY <1>2, <1>4, <1>5, <1>7, <1>8, <1>9, <1>10, <1>11, <1>12 DEF MappingInv

\* A step that changes nothing.
LEMMA StutterMapping ==
  ASSUME MappingInv, UNCHANGED vars
  PROVE  MappingInv'
<1>1. /\ UNCHANGED <<inputVars, stream, aggregateVars, fragmentVars, resettleVars>>
      /\ UNCHANGED <<inputVars, stream, pages>> /\ UNCHANGED <<inputVars, stream, disk>>
      /\ UNCHANGED inputVars /\ pc' = pc /\ then' = then /\ sb' = sb
      /\ fragment' = fragment /\ resettled' = resettled
      /\ avail' = avail /\ phase' = phase /\ want' = want /\ out' = out
  BY DEF vars, mapperVars, streamVars, resettleVars, ffVars, inputVars
<1>2. Inputs /\ Control /\ Allocator /\ Stream /\ ExtentsApart /\ Content  BY DEF MappingInv
<1>3. Label' = Label /\ Outstanding' = Outstanding  BY <1>1 DEF Label, Outstanding
<1>4. Inputs' /\ Start' = Start  BY <1>1, <1>2, InputsFrame
<1>5. Control'  BY <1>1, <1>2 DEF Control
<1>6. Allocator'  BY <1>1, <1>2, <1>3, <1>4 DEF Allocator
<1>7. (avail \cup Outstanding)' \subseteq avail \cup Outstanding  BY <1>1, <1>3
<1>8. Stream' /\ ExtentsApart'  BY <1>1, <1>2, <1>7, StreamFrame
<1>9. Content'  BY <1>1, <1>2, <1>3, ContentFrame
<1>10. Finished' /\ Aggregate' /\ Fragments' /\ Resettle' /\ Progress'
  BY <1>1, <1>3, FileFrame
<1> QED BY <1>4, <1>5, <1>6, <1>8, <1>9, <1>10 DEF MappingInv

\* Every step of the mapping, of the stream and of the allocator keeps the
\* invariant, whatever they interleave to.
THEOREM MappingInvariance == Spec => []MappingInv
<1>1. Init => MappingInv  BY InitMapping
<1>2. MappingInv /\ [Next]_vars => MappingInv'
  <2>1. SUFFICES ASSUME MappingInv, [Next]_vars PROVE MappingInv'  OBVIOUS
  <2>2. CASE AllocatorStep  BY <2>1, <2>2, GrantStep, FailStep DEF AllocatorStep
  <2>3. CASE StreamStep  BY <2>1, <2>3, OpenStep, InsertStep, NewPageStep DEF StreamStep
  <2>4. CASE MapperStep
    BY <2>1, <2>4, NextFileStep, GrowStep, FlushStep, AfterFlushStep, KeepStep, BlockedStep,
       CallAllocateStep, StoreGrantedStep, CopyStep, FragmentResettledStep
    DEF MapperStep
  <2>5. CASE UNCHANGED vars  BY <2>1, <2>5, StutterMapping
  <2> QED BY <2>1, <2>2, <2>3, <2>4, <2>5 DEF Next, Work, Terminated
<1> QED BY <1>1, <1>2, PTL DEF Spec

\* The FAT file system is intact until the mapping has ended: no cluster a
\* chain uses is ever written, neither by a page of the stream nor by a copy.
THEOREM SourceStaysIntact == Spec => []SourceIntact
<1>1. MappingInv => SourceIntact  BY DEF MappingInv, Content
<1> QED BY <1>1, MappingInvariance, PTL

\* Two clusters of an extent are in one block group: at the start of every
\* group there is metadata, which is blocked.
LEMMA OneGroup ==
  ASSUME Inputs, NEW lo \in Nat, NEW hi \in Nat, NEW c \in lo .. hi, NEW d \in lo .. hi, c < d,
         \A x \in lo .. hi : x \in DataClusters(sb) /\ ~ IsMetadataBlock(sb, fat_cl_to_e4blk(sb, x))
  PROVE  GroupOfCluster(sb, c) = GroupOfCluster(sb, d)
<1>1. PICK g : g = sb  OBVIOUS
<1>2. UsableLayout(g) /\ c \in DataClusters(g) /\ d \in DataClusters(g)  BY <1>1 DEF Inputs
<1>3. SUFFICES ASSUME GroupOfCluster(g, c) # GroupOfCluster(g, d) PROVE FALSE  BY <1>1
<1>4. PICK x \in DataClusters(g) : c < x /\ x <= d /\ IsMetadataBlock(g, fat_cl_to_e4blk(g, x))
  BY <1>2, <1>3, GroupBoundary
<1>5. x \in lo .. hi
  <2>1. x \in Int  BY DEF DataClusters
  <2> QED BY <1>4, <2>1
<1> QED BY <1>1, <1>4, <1>5

\* What is not blocked holds no metadata.
LEMMA UnblockedIsFree ==
  ASSUME Inputs, NEW c \in DataClusters(sb), ~ IsBlocked(c)
  PROVE  ~ IsMetadataBlock(sb, fat_cl_to_e4blk(sb, c))
<1>1. SUFFICES ASSUME IsMetadataBlock(sb, fat_cl_to_e4blk(sb, c)) PROVE FALSE  OBVIOUS
<1>2. PICK n : n = block_group_count(sb)  OBVIOUS
<1>3. PICK k \in 1 .. n : /\ blocked_extents[k].physical_start <= c
                          /\ c < PhysicalEnd(blocked_extents[k])
  BY <1>1, <1>2 DEF Inputs, WellFormed
<1>4. blocked_extents[k].physical_start \in Nat /\ PhysicalEnd(blocked_extents[k]) \in Nat
  BY <1>2, <1>3, BlockedFacts
<1>5. c \in Int  BY DEF DataClusters
<1>6. c \in Cells(blocked_extents[k])
  <2>1. PICK p \in Nat, q \in Nat :
          p = blocked_extents[k].physical_start /\ q = PhysicalEnd(blocked_extents[k])
    BY <1>4
  <2>2. c \in p .. q - 1  BY <1>3, <1>5, <2>1
  <2> QED BY <2>1, <2>2 DEF Cells
<1> QED BY <1>2, <1>6 DEF IsBlocked

\* Whatever extents the mapping stores, in place or resettled, of finished
\* files or of the current one, ext4 can have them.
THEOREM ExtentsAlwaysFit == Spec => []ExtentsFitExt4
<1>1. MappingInv => ExtentsFitExt4
  <2>1. SUFFICES ASSUME MappingInv PROVE ExtentsFitExt4  OBVIOUS
  <2>2. Inputs /\ Stream /\ ExtentsApart  BY <2>1 DEF MappingInv
  <2>3. ASSUME NEW f \in 1 .. Len(stream), NEW n \in 1 .. Len(stream[f]),
               NEW e, e = stream[f][n]
        PROVE  /\ e.length \in 1 .. EXT4_MAX_INIT_EXTENT_LEN
               /\ \A c \in Cells(e) :
                    /\ c \in DataClusters(sb)
                    /\ GroupOfCluster(sb, c) = GroupOfCluster(sb, e.physical_start)
                    /\ ~ IsMetadataBlock(sb, fat_cl_to_e4blk(sb, c))
               /\ Cells(e) \cap pages = {}
    <3>1. e \in ExtentSet /\ Sound(f, e) /\ Cells(e) \cap pages = {}
      BY <2>2, <2>3, StoredFacts
    <3>2. /\ e.length \in 1 .. EXT4_MAX_INIT_EXTENT_LEN
          /\ \A c \in Cells(e) : c \in DataClusters(sb) /\ ~ IsBlocked(c)
      BY <3>1 DEF Sound
    <3>3. \A c \in Cells(e) : c \in DataClusters(sb) /\ ~ IsMetadataBlock(sb, fat_cl_to_e4blk(sb, c))
      BY <2>2, <3>2, UnblockedIsFree
    <3>4. PICK lo \in Nat, hi \in Nat :
            lo = e.physical_start /\ Cells(e) = lo .. hi /\ lo \in lo .. hi
      <4>1. /\ e.physical_start \in Nat /\ e.length \in Nat /\ e.length >= 1
        BY <3>1, <3>2, MapperAssumption DEF ExtentSet
      <4>2. PhysicalEnd(e) - 1 \in Nat /\ e.physical_start \in e.physical_start .. (PhysicalEnd(e) - 1)
        BY <4>1 DEF PhysicalEnd
      <4> QED BY <4>1, <4>2 DEF Cells
    <3>5. ASSUME NEW c \in Cells(e)
          PROVE  GroupOfCluster(sb, c) = GroupOfCluster(sb, e.physical_start)
      <4>1. c = lo \/ lo < c  BY <3>4
      <4>2. CASE c = lo  BY <3>4, <4>2
      <4>3. CASE lo < c
        <5>1. \A x \in lo .. hi :
                x \in DataClusters(sb) /\ ~ IsMetadataBlock(sb, fat_cl_to_e4blk(sb, x))
          BY <3>3, <3>4
        <5>2. lo \in lo .. hi /\ c \in lo .. hi  BY <3>4
        <5>3. GroupOfCluster(sb, lo) = GroupOfCluster(sb, c)
          BY <2>2, <4>3, <5>1, <5>2, OneGroup, Zenon
        <5> QED BY <3>4, <5>3
      <4> QED BY <4>1, <4>2, <4>3
    <3> QED BY <3>1, <3>2, <3>3, <3>5
  <2>4. ASSUME NEW x \in AllExtents
        PROVE  \E f \in 1 .. Len(stream) : \E n \in 1 .. Len(stream[f]) : x = <<f, n>>
    BY DEF AllExtents
  <2>5. ASSUME NEW x \in AllExtents, NEW y \in AllExtents \ {x}
        PROVE  Cells(stream[x[1]][x[2]]) \cap Cells(stream[y[1]][y[2]]) = {}
    <3>1. PICK f \in 1 .. Len(stream) : \E n \in 1 .. Len(stream[f]) : x = <<f, n>>  BY <2>4
    <3>2. PICK n \in 1 .. Len(stream[f]) : x = <<f, n>>  BY <3>1
    <3>3. PICK g \in 1 .. Len(stream) : \E m \in 1 .. Len(stream[g]) : y = <<g, m>>  BY <2>4
    <3>4. PICK m \in 1 .. Len(stream[g]) : y = <<g, m>>  BY <3>3
    <3>5. f # g \/ n # m  BY <2>5, <3>2, <3>4
    <3>6. x[1] = f /\ x[2] = n /\ y[1] = g /\ y[2] = m  BY <3>2, <3>4
    <3> QED BY <2>2, <3>5, <3>6 DEF ExtentsApart
  <2>6. ASSUME NEW x \in AllExtents, NEW e, e = stream[x[1]][x[2]]
        PROVE  /\ e.length \in 1 .. EXT4_MAX_INIT_EXTENT_LEN
               /\ \A c \in Cells(e) :
                    /\ c \in DataClusters(sb)
                    /\ GroupOfCluster(sb, c) = GroupOfCluster(sb, e.physical_start)
                    /\ ~ IsMetadataBlock(sb, fat_cl_to_e4blk(sb, c))
               /\ Cells(e) \cap pages = {}
    <3>1. PICK f \in 1 .. Len(stream) : \E n \in 1 .. Len(stream[f]) : x = <<f, n>>  BY <2>4
    <3>2. PICK n \in 1 .. Len(stream[f]) : x = <<f, n>>  BY <3>1
    <3>3. e = stream[f][n]  BY <2>6, <3>2
    <3> QED BY <2>3, <3>3
  <2> QED BY <2>5, <2>6 DEF ExtentsFitExt4
<1> QED BY <1>1, MappingInvariance, PTL

-----------------------------------------------------------------------------
(* The clusters the extents of a file list.                                *)

\* Cluster p of a file with these extents.
ClusterAt(exts, p) ==
  LET j == CHOOSE n \in 1 .. Len(exts) :
             exts[n].logical_start < p /\ p <= LogicalEnd(exts[n])
  IN  exts[j].physical_start + (p - exts[j].logical_start - 1)

\* The numbers of a chain of extents.
LEMMA ChainNumbers ==
  ASSUME NEW s \in Seq(ExtentSet), Chain(s), NEW n \in 1 .. Len(s)
  PROVE  /\ s[n].logical_start \in Nat /\ s[n].physical_start \in Nat /\ s[n].length \in Nat
         /\ LogicalEnd(s[n]) \in Nat /\ LogicalEnd(s[n]) = s[n].logical_start + s[n].length
         /\ s[n].logical_start <= LogicalEnd(s[n])
         /\ n = 1 => s[n].logical_start = 0
         /\ n # 1 => n - 1 \in 1 .. Len(s) /\ s[n].logical_start = LogicalEnd(s[n - 1])
<1>1. s[n] \in ExtentSet  OBVIOUS
<1>2. /\ s[n].logical_start \in Nat /\ s[n].physical_start \in Nat /\ s[n].length \in Nat
      /\ LogicalEnd(s[n]) \in Nat /\ LogicalEnd(s[n]) = s[n].logical_start + s[n].length
      /\ s[n].logical_start <= LogicalEnd(s[n])
  BY <1>1 DEF ExtentSet, LogicalEnd
<1>3. s[n].logical_start = IF n = 1 THEN 0 ELSE LogicalEnd(s[n - 1])  BY DEF Chain
<1>4. n # 1 => n - 1 \in 1 .. Len(s)
  <2>1. Len(s) \in Nat  OBVIOUS
  <2> QED BY <2>1
<1> QED BY <1>2, <1>3, <1>4

\* Later extents of a chain end later.
LEMMA EndsAscend ==
  ASSUME NEW s \in Seq(ExtentSet), Chain(s),
         NEW a \in 1 .. Len(s), NEW b \in 1 .. Len(s), a <= b
  PROVE  LogicalEnd(s[a]) <= LogicalEnd(s[b])
<1>1. \A n \in 1 .. Len(s) :
        /\ LogicalEnd(s[n]) \in Nat
        /\ n # 1 => n - 1 \in 1 .. Len(s) /\ LogicalEnd(s[n - 1]) <= LogicalEnd(s[n])
  BY ChainNumbers
<1>2. Len(s) \in Nat  OBVIOUS
<1>3. PICK T : T = { n \in 1 .. Len(s) : a <= n /\ ~ (LogicalEnd(s[a]) <= LogicalEnd(s[n])) }
  OBVIOUS
<1>4. T = {}
  <2>1. SUFFICES ASSUME T # {} PROVE FALSE  OBVIOUS
  <2>2. T \subseteq Nat  BY <1>2, <1>3
  <2>3. PICK n \in T : \A y \in T : n <= y  BY <2>1, <2>2, LeastNat
  <2>4. n \in 1 .. Len(s) /\ a <= n /\ ~ (LogicalEnd(s[a]) <= LogicalEnd(s[n]))  BY <1>3, <2>3
  <2>5. n # a  BY <1>1, <2>4
  <2>6. n # 1 /\ a <= n - 1 /\ ~ (n <= n - 1)  BY <1>2, <2>4, <2>5
  <2>7. n - 1 \in 1 .. Len(s) /\ LogicalEnd(s[n - 1]) <= LogicalEnd(s[n])  BY <1>1, <2>4, <2>6
  <2>8. LogicalEnd(s[a]) <= LogicalEnd(s[n - 1])
    <3>1. n - 1 \notin T  BY <2>3, <2>6
    <3> QED BY <1>3, <2>6, <2>7, <3>1
  <2> QED BY <1>1, <2>4, <2>7, <2>8
<1> QED BY <1>3, <1>4

\* A chain of extents covers every logical cluster up to its end, once.
LEMMA Located ==
  ASSUME NEW s \in Seq(ExtentSet), Chain(s), NEW p \in Nat, p >= 1, p <= Total(s)
  PROVE  \E n \in 1 .. Len(s) : s[n].logical_start < p /\ p <= LogicalEnd(s[n])
<1>1. Len(s) \in Nat  OBVIOUS
<1>2. Len(s) # 0  BY DEF Total
<1>3. Len(s) \in 1 .. Len(s) /\ p <= LogicalEnd(s[Len(s)])  BY <1>1, <1>2 DEF Total
<1>4. PICK T : T = { n \in 1 .. Len(s) : p <= LogicalEnd(s[n]) }  OBVIOUS
<1>5. T \subseteq Nat /\ T # {}  BY <1>1, <1>3, <1>4
<1>6. PICK n \in T : \A y \in T : n <= y  BY <1>5, LeastNat
<1>7. n \in 1 .. Len(s) /\ p <= LogicalEnd(s[n])  BY <1>4, <1>6
<1>8. s[n].logical_start < p
  <2>1. CASE n = 1  BY <1>7, <2>1, ChainNumbers
  <2>2. CASE n # 1
    <3>1. n - 1 \in 1 .. Len(s) /\ s[n].logical_start = LogicalEnd(s[n - 1])
      BY <1>7, <2>2, ChainNumbers
    <3>2. ~ (n <= n - 1)  BY <1>1, <1>7
    <3>3. n - 1 \notin T  BY <1>6, <3>2
    <3>4. ~ (p <= LogicalEnd(s[n - 1]))  BY <1>4, <3>1, <3>3
    <3>5. LogicalEnd(s[n - 1]) \in Nat  BY <3>1, ChainNumbers
    <3> QED BY <3>1, <3>4, <3>5
  <2> QED BY <2>1, <2>2
<1> QED BY <1>7, <1>8

\* Which one it is: the extent that covers the cluster.
LEMMA ClusterAtFacts ==
  ASSUME NEW s \in Seq(ExtentSet), Chain(s), NEW p \in Nat,
         NEW n \in 1 .. Len(s), s[n].logical_start < p, p <= LogicalEnd(s[n])
  PROVE  ClusterAt(s, p) = s[n].physical_start + (p - s[n].logical_start - 1)
<1>1. Len(s) \in Nat  OBVIOUS
<1>2. ASSUME NEW a \in 1 .. Len(s), NEW b \in 1 .. Len(s), a < b, p <= LogicalEnd(s[a]),
             s[b].logical_start < p
      PROVE  FALSE
  <2>1. b # 1 /\ a <= b - 1  BY <1>1, <1>2
  <2>2. b - 1 \in 1 .. Len(s) /\ s[b].logical_start = LogicalEnd(s[b - 1])
    BY <2>1, ChainNumbers
  <2>3. LogicalEnd(s[a]) <= LogicalEnd(s[b - 1])  BY <2>1, <2>2, EndsAscend
  <2>4. LogicalEnd(s[a]) \in Nat /\ LogicalEnd(s[b - 1]) \in Nat  BY <2>2, ChainNumbers
  <2> QED BY <1>2, <2>2, <2>3, <2>4
<1>3. PICK j : j = CHOOSE m \in 1 .. Len(s) : s[m].logical_start < p /\ p <= LogicalEnd(s[m])
  OBVIOUS
<1>4. j \in 1 .. Len(s) /\ s[j].logical_start < p /\ p <= LogicalEnd(s[j])  BY <1>3
<1>5. j = n
  <2>1. j < n \/ n < j \/ j = n  BY <1>1, <1>4
  <2> QED BY <1>2, <1>4, <2>1
<1> QED BY <1>3, <1>5 DEF ClusterAt

\* A sequence put together from two.
LEMMA Joined ==
  ASSUME NEW a \in Nat, NEW l \in Nat, NEW A \in [1 .. a -> Nat], NEW B \in [1 .. l -> Nat],
         NEW C \in [1 .. a + l -> Nat],
         \A p \in 1 .. a : C[p] = A[p], \A k \in 1 .. l : C[a + k] = B[k]
  PROVE  C = A \o B
<1>1. A \in Seq(Nat) /\ Len(A) = a /\ B \in Seq(Nat) /\ Len(B) = l  OBVIOUS
<1>2. C \in Seq(Nat) /\ Len(C) = a + l
  <2>1. a + l \in Nat  OBVIOUS
  <2> QED BY <2>1
<1>3. PICK D \in Seq(Nat) : D = A \o B /\ Len(D) = a + l
  <2>1. A \o B \in Seq(Nat) /\ Len(A \o B) = Len(A) + Len(B)  BY <1>1, ConcatProperties, Zenon
  <2> QED BY <1>1, <2>1
<1>4. ASSUME NEW p \in 1 .. a + l PROVE C[p] = D[p]
  <2>1. CASE p <= a
    <3>1. p \in 1 .. a  BY <2>1
    <3>2. D[p] = A[p]  BY <1>1, <1>3, <3>1
    <3> QED BY <3>1, <3>2
  <2>2. CASE ~ (p <= a)
    <3>1. PICK k \in 1 .. l : p = a + k
      <4>1. p - a \in 1 .. l /\ p = a + (p - a)  BY <2>2
      <4> QED BY <4>1
    <3>2. p \in 1 .. Len(A) + Len(B) /\ ~ (p <= Len(A)) /\ p - Len(A) = k
      BY <1>1, <2>2, <3>1
    <3>3. (A \o B)[p] = B[p - Len(A)]  BY <1>1, <3>2, ConcatProperties, ZenonT(40)
    <3>4. D[p] = B[k]  BY <1>3, <3>2, <3>3
    <3> QED BY <3>1, <3>4
  <2> QED BY <2>1, <2>2
<1>5. Len(C) = Len(D) /\ \A p \in 1 .. Len(C) : C[p] = D[p]  BY <1>2, <1>3, <1>4
<1>6. C = D  BY <1>2, <1>3, <1>5, SeqEqual, Zenon
<1> QED BY <1>3, <1>6

\* Clusters lists the clusters of the extents one after the other.
LEMMA ClustersOf ==
  ASSUME NEW f, NEW s \in Seq(ExtentSet), s = stream[f], Chain(s)
  PROVE  /\ Total(s) \in Nat
         /\ Clusters(f) = [p \in 1 .. Total(s) |-> ClusterAt(s, p)]
         /\ Len(Clusters(f)) = Total(s)
<1>1. PICK l \in Nat : l = Len(s)  OBVIOUS
<1> DEFINE End(n) == IF n = 0 THEN 0 ELSE LogicalEnd(s[n])
           body(g, n) ==
             IF n = 0 THEN <<>>
             ELSE g[n - 1] \o [k \in 1 .. stream[f][n].length |->
                                 stream[f][n].physical_start + k - 1]
<1>2. /\ Total(s) \in Nat /\ End(l) = Total(s)
      /\ \A n \in 0 .. l : End(n) \in Nat /\ End(n) <= Total(s)
  <2>1. CASE l = 0  BY <1>1, <2>1 DEF Total
  <2>2. CASE l # 0
    <3>1. Total(s) = LogicalEnd(s[l]) /\ l \in 1 .. Len(s)  BY <1>1, <2>2 DEF Total
    <3>2. Total(s) \in Nat  BY <3>1, ChainNumbers
    <3>3. ASSUME NEW n \in 0 .. l PROVE End(n) \in Nat /\ End(n) <= Total(s)
      <4>1. CASE n = 0  BY <3>2, <4>1
      <4>2. CASE n # 0
        <5>1. n \in 1 .. Len(s)  BY <1>1, <4>2
        <5>2. LogicalEnd(s[n]) \in Nat /\ LogicalEnd(s[n]) <= Total(s)
          BY <5>1, ChainNumbers DEF Chain
        <5> QED BY <4>2, <5>2
      <4> QED BY <4>1, <4>2
    <3> QED BY <2>2, <3>1, <3>2, <3>3
  <2> QED BY <2>1, <2>2
<1>3. ASSUME NEW p \in 1 .. Total(s) PROVE ClusterAt(s, p) \in Nat
  <2>1. p \in Nat /\ p >= 1 /\ p <= Total(s)  BY <1>2
  <2>2. PICK n \in 1 .. Len(s) : s[n].logical_start < p /\ p <= LogicalEnd(s[n])
    BY <2>1, Located
  <2>3. ClusterAt(s, p) = s[n].physical_start + (p - s[n].logical_start - 1)
    BY <2>1, <2>2, ClusterAtFacts
  <2>4. s[n].physical_start \in Nat /\ s[n].logical_start \in Nat  BY ChainNumbers
  <2>5. p - s[n].logical_start - 1 \in Nat  BY <2>1, <2>2, <2>4
  <2>6. PICK a \in Nat, b \in Nat : a = s[n].physical_start /\ b = p - s[n].logical_start - 1
    BY <2>4, <2>5
  <2>7. a + b \in Nat  BY <2>6
  <2> QED BY <2>3, <2>6, <2>7
<1>4. PICK G : G = [n \in 0 .. l |-> [p \in 1 .. End(n) |-> ClusterAt(s, p)]]  OBVIOUS
<1>5. ASSUME NEW n \in 0 .. l
      PROVE  G[n] = [p \in 1 .. End(n) |-> ClusterAt(s, p)] /\ G[n] \in [1 .. End(n) -> Nat]
  <2>1. G[n] = [p \in 1 .. End(n) |-> ClusterAt(s, p)]  BY <1>4
  <2>2. \A p \in 1 .. End(n) : p \in 1 .. Total(s)
    <3>1. End(n) \in Nat /\ End(n) <= Total(s)  BY <1>2
    <3> HIDE DEF End
    <3> QED BY <1>2, <3>1
  <2> HIDE DEF End
  <2> QED BY <1>3, <2>1, <2>2
<1>6. ASSUME NEW n \in 0 .. l PROVE G[n] = body(G, n)
  <2>1. CASE n = 0
    <3>1. 1 .. End(n) = {}  BY <2>1
    <3>2. G[n] \in [{} -> Nat]  BY <1>5, <3>1
    <3>3. G[n] = <<>>  BY <3>2
    <3> QED BY <2>1, <3>3
  <2>2. CASE n # 0
    <3>1. n \in 1 .. Len(s) /\ n - 1 \in 0 .. l  BY <1>1, <2>2
    <3>2. PICK a \in Nat, m \in Nat, start \in Nat :
            /\ a = s[n].logical_start /\ m = s[n].length /\ start = s[n].physical_start
            /\ End(n) = a + m /\ LogicalEnd(s[n]) = a + m
      <4>1. /\ s[n].logical_start \in Nat /\ s[n].length \in Nat /\ s[n].physical_start \in Nat
            /\ LogicalEnd(s[n]) = s[n].logical_start + s[n].length
        BY <3>1, ChainNumbers
      <4> QED BY <2>2, <4>1
    <3>3. End(n - 1) = a
      <4>1. CASE n = 1
        <5>1. a = 0  BY <3>1, <3>2, <4>1, ChainNumbers
        <5> QED BY <4>1, <5>1
      <4>2. CASE n # 1
        <5>1. a = LogicalEnd(s[n - 1])  BY <3>1, <3>2, <4>2, ChainNumbers
        <5>2. n - 1 # 0  BY <3>1, <4>2
        <5> QED BY <5>1, <5>2
      <4> QED BY <4>1, <4>2
    <3> HIDE DEF End
    <3>4. PICK B : B = [k \in 1 .. m |-> start + k - 1]  OBVIOUS
    <3>5. B \in [1 .. m -> Nat]
      <4>1. \A k \in 1 .. m : start + k - 1 \in Nat  BY <3>2
      <4> QED BY <3>4, <4>1
    <3>6. /\ G[n - 1] = [p \in 1 .. a |-> ClusterAt(s, p)] /\ G[n - 1] \in [1 .. a -> Nat]
          /\ G[n] = [p \in 1 .. a + m |-> ClusterAt(s, p)] /\ G[n] \in [1 .. a + m -> Nat]
      BY <1>5, <3>1, <3>2, <3>3
    <3>7. \A p \in 1 .. a : G[n][p] = G[n - 1][p]
      <4>1. \A p \in 1 .. a : p \in 1 .. a + m  BY <3>2
      <4> QED BY <3>6, <4>1
    <3>8. ASSUME NEW k \in 1 .. m PROVE G[n][a + k] = B[k]
      <4>1. PICK p \in Nat : /\ p = a + k /\ a < p /\ p <= a + m /\ p \in 1 .. a + m
                             /\ p - a - 1 = k - 1
        <5>1. k \in Nat /\ 1 <= k /\ k <= m  OBVIOUS
        <5>2. a + k \in Nat /\ a < a + k /\ a + k <= a + m  BY <5>1
        <5>3. (a + k) - a - 1 = k - 1  BY <5>1
        <5> QED BY <5>2, <5>3
      <4>2. ClusterAt(s, p) = start + (p - a - 1)
        BY <3>1, <3>2, <4>1, ClusterAtFacts
      <4>3. G[n][p] = ClusterAt(s, p)  BY <3>6, <4>1
      <4> QED BY <3>4, <4>1, <4>2, <4>3
    <3>9. G[n] = G[n - 1] \o B
      <4>1. PICK A \in [1 .. a -> Nat], C \in [1 .. a + m -> Nat] : A = G[n - 1] /\ C = G[n]
        BY <3>6
      <4>2. \A p \in 1 .. a : C[p] = A[p]  BY <3>7, <4>1
      <4>3. \A k \in 1 .. m : C[a + k] = B[k]  BY <3>8, <4>1
      <4>4. C = A \o B  BY <3>5, <4>2, <4>3, Joined, Zenon
      <4> QED BY <4>1, <4>4
    <3> QED BY <2>2, <3>2, <3>4, <3>9
  <2> QED BY <2>1, <2>2
<1>7. G = [n \in 0 .. l |-> body(G, n)]
  <2> HIDE DEF body, End
  <2>1. G = [n \in 0 .. l |-> G[n]]  BY <1>4
  <2> QED BY <1>6, <2>1
<1>8. PICK chain : chain = CHOOSE g : g = [n \in 0 .. Len(stream[f]) |-> body(g, n)]  OBVIOUS
<1>9. chain = [n \in 0 .. l |-> body(chain, n)] /\ Clusters(f) = chain[l]
  <2>1. Clusters(f) = chain[l]  BY <1>1, <1>8 DEF Clusters
  <2>2. chain = [n \in 0 .. l |-> body(chain, n)]
    <3> HIDE DEF body
    <3> QED BY <1>1, <1>7, <1>8
  <2> QED BY <2>1, <2>2
<1>10. \A n \in 0 .. l : chain[n] = G[n]
  <2>1. PICK T : T = { n \in 0 .. l : chain[n] # G[n] }  OBVIOUS
  <2>2. SUFFICES ASSUME T # {} PROVE FALSE  BY <2>1
  <2>3. T \subseteq Nat  BY <1>1, <2>1
  <2>4. PICK n \in T : \A y \in T : n <= y  BY <2>2, <2>3, LeastNat
  <2>5. n \in 0 .. l /\ chain[n] # G[n]  BY <2>1, <2>4
  <2>6. chain[n] = body(chain, n) /\ G[n] = body(G, n)
    <3> HIDE DEF body
    <3> QED BY <1>6, <1>9, <2>5
  <2>7. CASE n = 0  BY <2>5, <2>6, <2>7
  <2>8. CASE n # 0
    <3>1. n - 1 \in 0 .. l /\ ~ (n <= n - 1)  BY <1>1, <2>5, <2>8
    <3>2. n - 1 \notin T  BY <2>4, <3>1
    <3>3. chain[n - 1] = G[n - 1]  BY <2>1, <3>1, <3>2
    <3> QED BY <2>5, <2>6, <2>8, <3>3
  <2> QED BY <2>7, <2>8
<1>11. Clusters(f) = [p \in 1 .. Total(s) |-> ClusterAt(s, p)]
  <2>1. l \in 0 .. l  BY <1>1
  <2> HIDE DEF End
  <2> QED BY <1>2, <1>5, <1>9, <1>10, <2>1
<1>12. Len(Clusters(f)) = Total(s)
  <2>1. Clusters(f) \in [1 .. Total(s) -> Nat]  BY <1>3, <1>11
  <2> QED BY <1>2, <2>1
<1> QED BY <1>2, <1>11, <1>12

\* A mapped file has as many clusters as its chain.
LEMMA MappedFile ==
  ASSUME MappingInv, reserved = 0, NEW f \in Mapped
  PROVE  /\ f \in 1 .. Len(stream) /\ ~ (Label = "copy" /\ f = Len(stream))
         /\ stream[f] \in Seq(ExtentSet) /\ Chain(stream[f])
         /\ Total(stream[f]) = Len(files[f]) /\ Len(Clusters(f)) = Len(files[f])
<1>1. Inputs /\ Stream /\ Finished  BY DEF MappingInv
<1>2. PICK l \in Nat : l = Len(stream)  BY <1>1 DEF Stream
<1>3. f \in 1 .. l /\ ~ (Label = "copy" /\ f = l)
  <2>1. CASE pc = "next_file"  BY <1>2, <2>1 DEF Mapped, Label
  <2>2. CASE pc # "next_file"  BY <1>2, <2>2 DEF Mapped
  <2> QED BY <2>1, <2>2
<1>4. stream[f] \in Seq(ExtentSet) /\ Chain(stream[f])  BY <1>1, <1>2, <1>3, StoredFacts
<1>5. Total(stream[f]) = Len(files[f])
  <2>1. CASE pc = "next_file"
    <3>1. Label = "next_file"  BY <2>1 DEF Label
    <3> QED BY <1>1, <1>2, <1>3, <3>1 DEF Finished
  <2>2. CASE pc # "next_file"
    <3>1. f \in 1 .. l - 1  BY <1>2, <2>2 DEF Mapped
    <3> QED BY <1>1, <1>2, <1>3, <3>1 DEF Finished
  <2> QED BY <2>1, <2>2
<1>6. Len(Clusters(f)) = Total(stream[f])
  <2>1. PICK s \in Seq(ExtentSet) : s = stream[f] /\ Chain(s)  BY <1>4
  <2> QED BY <2>1, ClustersOf
<1> QED BY <1>2, <1>3, <1>4, <1>5, <1>6

\* Where a cluster of a mapped file is: in an extent that is written.
LEMMA MappedCluster ==
  ASSUME MappingInv, reserved = 0, NEW f \in Mapped, NEW p \in 1 .. Len(files[f])
  PROVE  \E n \in 1 .. Len(stream[f]) : \E k \in 0 .. stream[f][n].length - 1 :
           /\ p = stream[f][n].logical_start + k + 1
           /\ Clusters(f)[p] = stream[f][n].physical_start + k
           /\ ~ Pending(f, n)
<1>1. /\ ~ (Label = "copy" /\ f = Len(stream))
      /\ stream[f] \in Seq(ExtentSet) /\ Chain(stream[f])
      /\ Total(stream[f]) = Len(files[f])
  BY MappedFile
<1>2. PICK s \in Seq(ExtentSet) : s = stream[f] /\ Chain(s) /\ Total(s) = Len(files[f])  BY <1>1
<1>3. Total(s) \in Nat /\ Clusters(f) = [q \in 1 .. Total(s) |-> ClusterAt(s, q)]
  BY <1>2, ClustersOf
<1>4. p \in Nat /\ p >= 1 /\ p <= Total(s) /\ p \in 1 .. Total(s)  BY <1>2, <1>3
<1>5. PICK n \in 1 .. Len(s) : s[n].logical_start < p /\ p <= LogicalEnd(s[n])
  BY <1>2, <1>4, Located
<1>6. ClusterAt(s, p) = s[n].physical_start + (p - s[n].logical_start - 1)
  BY <1>2, <1>4, <1>5, ClusterAtFacts
<1>7. PICK a \in Nat, m \in Nat : a = s[n].logical_start /\ m = s[n].length /\ p <= a + m
  <2>1. /\ s[n].logical_start \in Nat /\ s[n].length \in Nat
        /\ LogicalEnd(s[n]) = s[n].logical_start + s[n].length
    BY <1>2, ChainNumbers
  <2> QED BY <1>5, <2>1
<1>8. PICK k \in 0 .. m - 1 : k = p - a - 1 /\ p = a + k + 1
  <2>1. a < p  BY <1>5, <1>7
  <2>2. p \in Nat /\ a \in Nat /\ m \in Nat /\ p <= a + m  BY <1>4, <1>7
  <2>3. p - a - 1 \in 0 .. m - 1  BY <2>1, <2>2
  <2>4. p = a + (p - a - 1) + 1  BY <2>2
  <2> QED BY <2>3, <2>4
<1>9. Clusters(f)[p] = s[n].physical_start + k  BY <1>3, <1>4, <1>6, <1>7, <1>8
<1>10. ~ Pending(f, n)  BY <1>1 DEF Pending
<1> QED BY <1>2, <1>5, <1>7, <1>8, <1>9, <1>10

\* As long as the reserved bits of the FAT's entries are clear, every file
\* that aggregate_extents has mapped has its whole chain, in order, and where
\* its extents point is what the chain holds, copied or not.
THEOREM ContentAlwaysPreserved == Spec => [](reserved = 0 => ContentPreserved)
<1>1. MappingInv => (reserved = 0 => ContentPreserved)
  <2>1. SUFFICES ASSUME MappingInv, reserved = 0, NEW f \in Mapped
                 PROVE  /\ Len(Clusters(f)) = Len(files[f])
                        /\ \A p \in 1 .. Len(files[f]) : disk[Clusters(f)[p]] = files[f][p]
                        /\ \A n \in 1 .. Len(stream[f]) :
                             stream[f][n].logical_start =
                               (IF n = 1 THEN 0
                                ELSE stream[f][n-1].logical_start + stream[f][n-1].length)
    BY DEF ContentPreserved
  <2>2. Content  BY <2>1 DEF MappingInv
  <2>3. /\ f \in 1 .. Len(stream) /\ Chain(stream[f])
        /\ Len(Clusters(f)) = Len(files[f])
    BY <2>1, MappedFile
  <2>4. ASSUME NEW p \in 1 .. Len(files[f]) PROVE disk[Clusters(f)[p]] = files[f][p]
    <3>1. \E n \in 1 .. Len(stream[f]) : \E k \in 0 .. stream[f][n].length - 1 :
            /\ p = stream[f][n].logical_start + k + 1
            /\ Clusters(f)[p] = stream[f][n].physical_start + k
            /\ ~ Pending(f, n)
      BY <2>1, MappedCluster
    <3>2. PICK n \in 1 .. Len(stream[f]) : \E k \in 0 .. stream[f][n].length - 1 :
            /\ p = stream[f][n].logical_start + k + 1
            /\ Clusters(f)[p] = stream[f][n].physical_start + k
            /\ ~ Pending(f, n)
      BY <3>1
    <3>3. PICK k \in 0 .. stream[f][n].length - 1 :
            /\ p = stream[f][n].logical_start + k + 1
            /\ Clusters(f)[p] = stream[f][n].physical_start + k
            /\ ~ Pending(f, n)
      BY <3>2
    <3>4. disk[stream[f][n].physical_start + k] = files[f][stream[f][n].logical_start + k + 1]
      BY <2>2, <2>3, <3>2, <3>3 DEF Content
    <3> QED BY <3>3, <3>4
  <2>5. \A n \in 1 .. Len(stream[f]) :
          stream[f][n].logical_start =
            (IF n = 1 THEN 0 ELSE stream[f][n-1].logical_start + stream[f][n-1].length)
    BY <2>3 DEF Chain, LogicalEnd
  <2> QED BY <2>3, <2>4, <2>5
<1> QED BY <1>1, MappingInvariance, PTL

\* The conversion is in place: a cluster of a mapped file that is not where
\* the chain has it was blocked.
THEOREM OnlyBlockedMove == Spec => [](reserved = 0 => MovedOnlyIfBlocked)
<1>1. MappingInv => (reserved = 0 => MovedOnlyIfBlocked)
  <2>1. SUFFICES ASSUME MappingInv, reserved = 0, NEW f \in Mapped,
                        NEW p \in 1 .. Len(files[f]), Clusters(f)[p] # files[f][p]
                 PROVE  IsBlocked(files[f][p])
    BY DEF MovedOnlyIfBlocked, IsBlocked, blocked_extent_count
  <2>2. Inputs /\ Stream  BY <2>1 DEF MappingInv
  <2>3. /\ f \in 1 .. Len(stream)
        /\ \E n \in 1 .. Len(stream[f]) : \E k \in 0 .. stream[f][n].length - 1 :
             /\ p = stream[f][n].logical_start + k + 1
             /\ Clusters(f)[p] = stream[f][n].physical_start + k
             /\ ~ Pending(f, n)
    BY <2>1, MappedFile, MappedCluster
  <2>4. PICK n \in 1 .. Len(stream[f]) : \E k \in 0 .. stream[f][n].length - 1 :
          /\ p = stream[f][n].logical_start + k + 1
          /\ Clusters(f)[p] = stream[f][n].physical_start + k
    BY <2>3
  <2>5. PICK e : e = stream[f][n]  OBVIOUS
  <2>6. PICK k \in 0 .. e.length - 1 :
          p = e.logical_start + k + 1 /\ Clusters(f)[p] = e.physical_start + k
    BY <2>4, <2>5
  <2>7. Sound(f, e)  BY <2>2, <2>3, <2>4, <2>5, StoredFacts
  <2>8. ~ InPlace(f, e)
    <3>1. InPlace(f, e) => e.physical_start + k = files[f][e.logical_start + k + 1]
      BY <2>6 DEF InPlace
    <3> QED BY <2>1, <2>6, <3>1
  <2>9. IsBlocked(files[f][e.logical_start + k + 1])  BY <2>6, <2>7, <2>8 DEF Sound, Moved
  <2> QED BY <2>6, <2>9 DEF IsBlocked
<1> QED BY <1>1, MappingInvariance, PTL
=============================================================================
