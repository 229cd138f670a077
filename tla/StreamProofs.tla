---------------------------- MODULE StreamProofs ----------------------------
(***************************************************************************)
(* The stream archiver keeps its elements apart and implements a log of    *)
(* sections, for pages, links, headers and elements of every size.  On     *)
(* such a log the tree goes from traverse to build_ext4_metadata_tree      *)
(* without a loss, for every tree of directories.                          *)
(***************************************************************************)
EXTENDS StreamArchiver, Traversal, WellFoundedInduction, TLAPS

Addresses == Nat \X Nat

\* Pages are linked in the order of their allocation; the writer is on the last.
Pages ==
  /\ next \in Seq(Nat) /\ Len(next) >= 1
  /\ \A p \in 1 .. Len(next) : next[p] = IF p = Len(next) THEN 0 ELSE p + 1
  /\ write_stream.page = Len(next)
  /\ write_stream.offsetInPage \in PageLink .. PageSize

Sections ==
  /\ log \in Seq(Seq(Addresses)) /\ Len(log) >= 1
  /\ sizes \in Seq(Sizes \cup {0}) /\ Len(sizes) = Len(log)
  /\ \A s \in 1 .. Len(log) : Len(log[s]) > 0 => sizes[s] \in Sizes

Streams == [page : Nat, offsetInPage : Nat, elementIndex : Nat, header : Addresses]

\* The writer has passed the length units at the address.
Passed(a, length) ==
  /\ a \in Addresses
  /\ a[1] \in 1 .. write_stream.page
  /\ PageLink <= a[2] /\ a[2] + length <= PageSize
  /\ a[1] = write_stream.page => a[2] + length <= write_stream.offsetInPage

AllPassed ==
  /\ \A s \in 1 .. Len(log) : \A k \in 1 .. Len(log[s]) : Passed(log[s][k], sizes[s])
  /\ \A h \in DOMAIN elementCount : Passed(h, HeaderSize)

Apart(a, l, b, m) == a[1] # b[1] \/ a[2] + l <= b[2] \/ b[2] + m <= a[2]

AllApart ==
  /\ \A s, t \in 1 .. Len(log) : \A k \in 1 .. Len(log[s]) : \A j \in 1 .. Len(log[t]) :
       s # t \/ k # j => Apart(log[s][k], sizes[s], log[t][j], sizes[t])
  /\ \A s \in 1 .. Len(log) : \A k \in 1 .. Len(log[s]) : \A h \in DOMAIN elementCount :
       Apart(log[s][k], sizes[s], h, HeaderSize)
  /\ \A g, h \in DOMAIN elementCount : g # h => Apart(g, HeaderSize, h, HeaderSize)

PlacesInv ==
  /\ write_stream \in Streams
  /\ Pages /\ Sections /\ AllPassed /\ AllApart
  /\ write_stream.header \in DOMAIN elementCount

\* The address of the next length units after a place in the pages.
Following(place, length) ==
  IF place[2] + length <= PageSize THEN place ELSE <<place[1] + 1, PageLink>>

PlaceOf(stream) == <<stream.page, stream.offsetInPage>>

\* Where k elements of section s of a log end, given the addresses of the
\* headers and the sizes of the elements.
PlaceAfter(headers, l, z, s, k) ==
  IF k = 0 THEN <<headers[s][1], headers[s][2] + HeaderSize>>
           ELSE <<l[s][k][1], l[s][k][2] + z[s]>>

\* The format: each element follows the one before it, each header the last
\* element of the section before; both streams are somewhere on that path.
Chained(headers) ==
  /\ \A s \in 1 .. Len(log) : \A k \in 1 .. Len(log[s]) :
       log[s][k] = Following(PlaceAfter(headers, log, sizes, s, k - 1), sizes[s])
  /\ \A s \in 1 .. Len(log) - 1 :
       headers[s + 1] = Following(PlaceAfter(headers, log, sizes, s, Len(log[s])), HeaderSize)
  /\ \A s, t \in 1 .. Len(log) : headers[s] = headers[t] => s = t
  /\ \A s \in 1 .. Len(log) - 1 : elementCount[headers[s]] = Len(log[s])
  /\ PlaceOf(write_stream) = PlaceAfter(headers, log, sizes, Len(log), Len(log[Len(log)]))
  /\ write_stream.header = headers[Len(log)]
  /\ PlaceOf(read_stream) = PlaceAfter(headers, log, sizes, section, read_stream.elementIndex)
  /\ read_stream.header = headers[section]

ChainInv ==
  /\ PlacesInv
  /\ read_stream \in Streams
  /\ section \in 1 .. Len(log)
  /\ write_stream.elementIndex = Len(log[Len(log)])
  /\ read_stream.elementIndex \in 0 .. Len(log[section])
  /\ \E headers \in [1 .. Len(log) -> DOMAIN elementCount] : Chained(headers)

-----------------------------------------------------------------------------
(* The moves of a stream.                                                  *)

\* A page holds its link and any one element or header.
LEMMA Lengths ==
  /\ PageSize \in Nat /\ PageLink \in Nat \ {0} /\ HeaderSize \in Nat \ {0}
  /\ \A l \in Sizes \cup {HeaderSize} : l \in Nat \ {0} /\ PageLink + l <= PageSize
  /\ 0 \notin Sizes
BY StreamAssumption

\* A move over length units, to the page after the current one if they do not
\* fit: the address returned is the one that follows, the stream is behind it.
LEMMA MoveFacts ==
  ASSUME NEW stream \in Streams, NEW length \in Sizes \cup {HeaderSize},
         stream.offsetInPage <= PageSize,
         NEW page, Fits(stream, length) \/ page = stream.page + 1,
         NEW moved, moved = Moved(stream, page, length),
         NEW a, a = Following(PlaceOf(stream), length)
  PROVE  /\ moved \in Streams /\ a \in Addresses
         /\ a = Returned(moved, length)
         /\ moved.page = a[1] /\ moved.offsetInPage = a[2] + length
         /\ moved.elementIndex = stream.elementIndex /\ moved.header = stream.header
         /\ a = IF Fits(stream, length) THEN PlaceOf(stream) ELSE <<stream.page + 1, PageLink>>
         /\ a[2] + length <= PageSize
<1>1. /\ PageSize \in Nat /\ PageLink \in Nat /\ length \in Nat \ {0}
      /\ PageLink + length <= PageSize
  BY Lengths
<1>2. /\ stream.page \in Nat /\ stream.offsetInPage \in Nat /\ stream.elementIndex \in Nat
      /\ stream.header \in Addresses
      /\ stream = [page |-> stream.page, offsetInPage |-> stream.offsetInPage,
                   elementIndex |-> stream.elementIndex, header |-> stream.header]
  BY DEF Streams
<1>3. a = IF Fits(stream, length) THEN PlaceOf(stream) ELSE <<stream.page + 1, PageLink>>
  BY DEF Following, PlaceOf, Fits
<1>4. CASE Fits(stream, length)
  <2>1. moved = [stream EXCEPT !.offsetInPage = @ + length]  BY <1>4 DEF Moved
  <2>2. /\ moved.page = stream.page /\ moved.offsetInPage = stream.offsetInPage + length
        /\ moved.elementIndex = stream.elementIndex /\ moved.header = stream.header
        /\ moved \in Streams
    BY <1>1, <1>2, <2>1 DEF Streams
  <2>3. a = <<stream.page, stream.offsetInPage>>  BY <1>3, <1>4 DEF PlaceOf
  <2>4. Returned(moved, length) = a
    <3>1. (stream.offsetInPage + length) - length = stream.offsetInPage  BY <1>1, <1>2
    <3> QED BY <2>2, <2>3, <3>1 DEF Returned
  <2>5. a \in Addresses /\ a[1] = stream.page /\ a[2] = stream.offsetInPage
    BY <1>2, <2>3 DEF Addresses
  <2> QED BY <1>3, <1>4, <2>2, <2>4, <2>5 DEF Fits
<1>5. CASE ~ Fits(stream, length)
  <2>1. moved = [stream EXCEPT !.page = page, !.offsetInPage = PageLink + length]
    BY <1>5 DEF Moved
  <2>2. /\ moved.page = stream.page + 1 /\ moved.offsetInPage = PageLink + length
        /\ moved.elementIndex = stream.elementIndex /\ moved.header = stream.header
        /\ moved \in Streams
    <3>1. page = stream.page + 1 /\ page \in Nat /\ PageLink + length \in Nat  BY <1>1, <1>2, <1>5
    <3> QED BY <1>2, <2>1, <3>1 DEF Streams
  <2>3. a = <<stream.page + 1, PageLink>>  BY <1>3, <1>5
  <2>4. Returned(moved, length) = a
    <3>1. (PageLink + length) - length = PageLink  BY <1>1
    <3> QED BY <2>2, <2>3, <3>1 DEF Returned
  <2>5. a \in Addresses /\ a[1] = stream.page + 1 /\ a[2] = PageLink
    BY <1>1, <1>2, <2>3 DEF Addresses
  <2> QED BY <1>1, <1>3, <1>5, <2>2, <2>4, <2>5
<1> QED BY <1>4, <1>5

\* iterateStreamArchiver and cutStreamArchiver on the write stream: the pages
\* stay linked in order, and what the writer gets is behind nothing it passed.
LEMMA WriterMoves ==
  ASSUME PlacesInv, NEW length \in Sizes \cup {HeaderSize},
         NEW moved, moved = Moved(write_stream, NewPage, length),
         NEW a, a = Following(PlaceOf(write_stream), length),
         next' = Linked(write_stream, length),
         write_stream'.page = moved.page, write_stream'.offsetInPage = moved.offsetInPage
  PROVE  /\ moved \in Streams /\ a \in Addresses /\ a = Returned(moved, length)
         /\ moved.page = a[1] /\ moved.offsetInPage = a[2] + length
         /\ moved.elementIndex = write_stream.elementIndex
         /\ moved.header = write_stream.header
         /\ Pages'
         /\ Passed(a, length)'
         /\ \A b, l : l \in Nat /\ Passed(b, l) =>
              Passed(b, l)' /\ Apart(b, l, a, length) /\ Apart(a, length, b, l)
<1>1. /\ PageSize \in Nat /\ PageLink \in Nat \ {0} /\ length \in Nat \ {0}
      /\ PageLink + length <= PageSize
  BY Lengths
<1>2. /\ write_stream \in Streams /\ write_stream.page = Len(next)
      /\ write_stream.offsetInPage \in PageLink .. PageSize
      /\ next \in Seq(Nat) /\ Len(next) >= 1
      /\ \A p \in 1 .. Len(next) : next[p] = IF p = Len(next) THEN 0 ELSE p + 1
  BY DEF PlacesInv, Pages
<1>3. PICK w \in Streams : w = write_stream  BY <1>2
<1>4. /\ w.page = Len(next) /\ w.page \in Nat /\ w.page >= 1
      /\ w.offsetInPage \in Nat /\ PageLink <= w.offsetInPage /\ w.offsetInPage <= PageSize
  BY <1>1, <1>2, <1>3
<1>5. NewPage = w.page + 1  BY <1>4 DEF NewPage
<1>6. /\ moved \in Streams /\ a \in Addresses /\ a = Returned(moved, length)
      /\ moved.page = a[1] /\ moved.offsetInPage = a[2] + length
      /\ moved.elementIndex = w.elementIndex /\ moved.header = w.header
      /\ a = IF Fits(w, length) THEN PlaceOf(w) ELSE <<w.page + 1, PageLink>>
      /\ a[2] + length <= PageSize
  BY <1>3, <1>4, <1>5, MoveFacts
<1>7. CASE Fits(w, length)
  <2>1. next' = next  BY <1>3, <1>7 DEF Linked
  <2>2. a[1] = w.page /\ a[2] = w.offsetInPage  BY <1>6, <1>7 DEF PlaceOf
  <2>3. Pages'
    <3>1. a[2] + length \in PageLink .. PageSize  BY <1>1, <1>4, <1>6, <2>2
    <3> QED BY <1>2, <1>4, <1>6, <2>1, <2>2, <3>1 DEF Pages
  <2>4. Passed(a, length)'  BY <1>1, <1>4, <1>6, <2>2 DEF Passed
  <2>5. ASSUME NEW b, NEW l \in Nat, Passed(b, l)
        PROVE  Passed(b, l)' /\ Apart(b, l, a, length) /\ Apart(a, length, b, l)
    <3>1. /\ b \in Addresses /\ b[1] \in Nat /\ b[2] \in Nat /\ b[1] >= 1 /\ b[1] <= w.page
          /\ PageLink <= b[2] /\ b[2] + l <= PageSize
          /\ b[1] = w.page => b[2] + l <= w.offsetInPage
      BY <1>3, <1>4, <2>5 DEF Passed, Addresses
    <3>2. Apart(b, l, a, length) /\ Apart(a, length, b, l)  BY <2>2, <3>1 DEF Apart
    <3>3. b[1] = w.page => b[2] + l <= w.offsetInPage + length  BY <1>1, <1>4, <3>1
    <3>4. Passed(b, l)'  BY <1>4, <1>6, <2>2, <3>1, <3>3 DEF Passed
    <3> QED BY <3>2, <3>4
  <2> QED BY <1>3, <1>6, <2>3, <2>4, <2>5
<1>8. CASE ~ Fits(w, length)
  <2>1. next' = Append([next EXCEPT ![w.page] = w.page + 1], 0)
    BY <1>3, <1>5, <1>8 DEF Linked
  <2>2. a[1] = w.page + 1 /\ a[2] = PageLink  BY <1>6, <1>8
  <2>3. Pages'
    <3>1. PICK n \in Nat : n = Len(next) /\ n >= 1 /\ n = w.page  BY <1>2, <1>4
    <3>2. PICK q \in Seq(Nat) : q = [next EXCEPT ![n] = n + 1] /\ Len(q) = n
      <4>1. next \in [1 .. n -> Nat] /\ n + 1 \in Nat /\ n \in 1 .. n
        <5>1. \A f \in Seq(Nat) : f \in [1 .. Len(f) -> Nat]  OBVIOUS
        <5>2. next \in [1 .. n -> Nat]  BY <1>2, <3>1, <5>1
        <5> QED BY <3>1, <5>2
      <4>2. [next EXCEPT ![n] = n + 1] \in [1 .. n -> Nat]  BY <4>1
      <4>3. \A f \in [1 .. n -> Nat] : f \in Seq(Nat) /\ Len(f) = n  OBVIOUS
      <4> QED BY <4>2, <4>3
    <3>3. \A p \in 1 .. n : q[p] = p + 1  BY <1>2, <3>1, <3>2
    <3>4. next' = Append(q, 0)  BY <2>1, <3>1, <3>2
    <3>5. /\ next' \in Seq(Nat) /\ Len(next') = n + 1
          /\ \A p \in 1 .. n : next'[p] = q[p]
          /\ next'[n + 1] = 0
      BY <3>1, <3>2, <3>4
    <3>6. \A p \in 1 .. n + 1 : next'[p] = IF p = n + 1 THEN 0 ELSE p + 1
      <4>1. \A p \in 1 .. n + 1 : p = n + 1 \/ (p \in 1 .. n /\ p # n + 1)  OBVIOUS
      <4> QED BY <3>3, <3>5, <4>1
    <3>7. PageLink + length \in PageLink .. PageSize  BY <1>1
    <3> QED BY <1>6, <2>2, <3>1, <3>5, <3>6, <3>7 DEF Pages
  <2>4. Passed(a, length)'  BY <1>1, <1>4, <1>6, <2>2 DEF Passed
  <2>5. ASSUME NEW b, NEW l \in Nat, Passed(b, l)
        PROVE  Passed(b, l)' /\ Apart(b, l, a, length) /\ Apart(a, length, b, l)
    <3>1. /\ b \in Addresses /\ b[1] \in Nat /\ b[2] \in Nat /\ b[1] >= 1 /\ b[1] <= w.page
          /\ PageLink <= b[2] /\ b[2] + l <= PageSize
      BY <1>3, <1>4, <2>5 DEF Passed, Addresses
    <3>2. Apart(b, l, a, length) /\ Apart(a, length, b, l)  BY <1>4, <2>2, <3>1 DEF Apart
    <3>3. Passed(b, l)'  BY <1>4, <1>6, <2>2, <3>1 DEF Passed
    <3> QED BY <3>2, <3>3
  <2> QED BY <1>3, <1>6, <2>3, <2>4, <2>5
<1> QED BY <1>7, <1>8

\* iterateStreamArchiver(write_stream, true, size): the log grows by the
\* address that follows the writer's place.
LEMMA InsertFacts ==
  ASSUME PlacesInv, NEW size \in Sizes, Insert(size),
         NEW a, a = Following(PlaceOf(write_stream), size),
         NEW last, last = Len(log), NEW n, n = Len(log[last])
  PROVE  /\ last \in Nat /\ last >= 1 /\ n \in Nat
         /\ log' \in Seq(Seq(Addresses)) /\ Len(log') = last
         /\ \A s \in 1 .. last : s # last => log'[s] = log[s] /\ sizes'[s] = sizes[s]
         /\ Len(log'[last]) = n + 1 /\ log'[last][n + 1] = a
         /\ \A k \in 1 .. n : log'[last][k] = log[last][k]
         /\ sizes' \in Seq(Sizes \cup {0}) /\ Len(sizes') = last /\ sizes'[last] = size
         /\ n > 0 => sizes[last] = size
         /\ write_stream' \in Streams
         /\ write_stream'.page = a[1] /\ write_stream'.offsetInPage = a[2] + size
         /\ write_stream'.elementIndex = write_stream.elementIndex + 1
         /\ write_stream'.header = write_stream.header
         /\ Pages' /\ Passed(a, size)' /\ a \in Addresses
         /\ \A b, l : l \in Nat /\ Passed(b, l) =>
              Passed(b, l)' /\ Apart(b, l, a, size) /\ Apart(a, size, b, l)
<1>1. /\ log \in Seq(Seq(Addresses)) /\ last \in Nat /\ last >= 1
      /\ sizes \in Seq(Sizes \cup {0}) /\ Len(sizes) = last
      /\ \A s \in 1 .. last : Len(log[s]) > 0 => sizes[s] \in Sizes
  BY DEF PlacesInv, Sections
<1>2. last \in 1 .. last /\ log[last] \in Seq(Addresses) /\ n \in Nat  BY <1>1
<1>3. PICK moved : moved = Moved(write_stream, NewPage, size)  OBVIOUS
<1>4. /\ next' = Linked(write_stream, size)
      /\ write_stream' = [moved EXCEPT !.elementIndex = @ + 1]
      /\ log' = [log EXCEPT ![last] = Append(log[last], Returned(moved, size))]
      /\ sizes' = [sizes EXCEPT ![last] = size]
      /\ sizes[last] \in {0, size}
  BY <1>3 DEF Insert
<1>5. size \in Nat \ {0}  BY Lengths
<1>6. moved \in Streams
  <2>1. /\ write_stream \in Streams /\ write_stream.offsetInPage <= PageSize
        /\ write_stream.page = Len(next) /\ next \in Seq(Nat)
    BY Lengths DEF PlacesInv, Pages
  <2>2. NewPage = write_stream.page + 1  BY <2>1 DEF NewPage
  <2> QED BY <1>3, <2>1, <2>2, MoveFacts
<1>7. /\ write_stream'.page = moved.page /\ write_stream'.offsetInPage = moved.offsetInPage
      /\ write_stream'.elementIndex = moved.elementIndex + 1
      /\ write_stream'.header = moved.header /\ write_stream' \in Streams
  BY <1>4, <1>6 DEF Streams
<1>8. /\ a \in Addresses /\ a = Returned(moved, size)
      /\ moved.page = a[1] /\ moved.offsetInPage = a[2] + size
      /\ moved.elementIndex = write_stream.elementIndex
      /\ moved.header = write_stream.header
      /\ Pages' /\ Passed(a, size)'
      /\ \A b, l : l \in Nat /\ Passed(b, l) =>
           Passed(b, l)' /\ Apart(b, l, a, size) /\ Apart(a, size, b, l)
  BY <1>3, <1>4, <1>7, WriterMoves
<1>9. PICK q \in Seq(Addresses) : q = Append(log[last], a)
  <2>1. Append(log[last], a) \in Seq(Addresses)  BY <1>2, <1>8
  <2> QED BY <2>1
<1>10. /\ Len(q) = n + 1 /\ q[n + 1] = a /\ \A k \in 1 .. n : q[k] = log[last][k]
  BY <1>2, <1>9
<1>11. log' = [log EXCEPT ![last] = q]  BY <1>4, <1>8, <1>9
<1>12. /\ log' \in Seq(Seq(Addresses)) /\ Len(log') = last /\ log'[last] = q
       /\ \A s \in 1 .. last : s # last => log'[s] = log[s]
  BY <1>1, <1>2, <1>9, <1>11
<1>13. /\ sizes' \in Seq(Sizes \cup {0}) /\ Len(sizes') = last /\ sizes'[last] = size
       /\ \A s \in 1 .. last : s # last => sizes'[s] = sizes[s]
  BY <1>1, <1>2, <1>4
<1>14. n > 0 => sizes[last] = size
  BY <1>1, <1>2, <1>4, Lengths
<1> QED BY <1>1, <1>2, <1>7, <1>8, <1>10, <1>12, <1>13, <1>14

\* An element added to the stream is apart from all there is.
LEMMA InsertPlaces ==
  ASSUME PlacesInv, NEW size \in Sizes, Insert(size)
  PROVE  PlacesInv'
<1>1. PICK a, last, n : /\ a = Following(PlaceOf(write_stream), size)
                        /\ last = Len(log) /\ n = Len(log[last])
  OBVIOUS
<1>2. /\ last \in Nat /\ last >= 1 /\ n \in Nat
      /\ log' \in Seq(Seq(Addresses)) /\ Len(log') = last
      /\ \A s \in 1 .. last : s # last => log'[s] = log[s] /\ sizes'[s] = sizes[s]
      /\ Len(log'[last]) = n + 1 /\ log'[last][n + 1] = a
      /\ \A k \in 1 .. n : log'[last][k] = log[last][k]
      /\ sizes' \in Seq(Sizes \cup {0}) /\ Len(sizes') = last /\ sizes'[last] = size
      /\ n > 0 => sizes[last] = size
      /\ write_stream' \in Streams /\ write_stream'.header = write_stream.header
      /\ Pages' /\ Passed(a, size)'
  BY <1>1, InsertFacts
<1>3. \A b, l : l \in Nat /\ Passed(b, l) =>
        Passed(b, l)' /\ Apart(b, l, a, size) /\ Apart(a, size, b, l)
  BY <1>1, InsertFacts
<1>4. elementCount' = elementCount  BY DEF Insert
<1>5. HeaderSize \in Nat /\ size \in Nat /\ \A s \in 1 .. last : sizes[s] \in Nat
  <2>1. sizes \in Seq(Sizes \cup {0}) /\ Len(sizes) = last  BY <1>1 DEF PlacesInv, Sections
  <2>2. \A s \in 1 .. last : sizes[s] \in Sizes \cup {0}  BY <1>2, <2>1
  <2> QED BY <2>2, Lengths
<1>6. Sections'
  <2>1. \A s \in 1 .. last : Len(log'[s]) > 0 => sizes'[s] \in Sizes
    BY <1>1, <1>2 DEF PlacesInv, Sections
  <2> QED BY <1>2, <2>1 DEF Sections
\* The elements there were, and the new one.
<1>7. ASSUME NEW s \in 1 .. last, NEW k \in 1 .. Len(log'[s])
      PROVE  \/ /\ k \in 1 .. Len(log[s])
                /\ log'[s][k] = log[s][k] /\ sizes'[s] = sizes[s]
             \/ s = last /\ k = n + 1 /\ log'[s][k] = a /\ sizes'[s] = size
  <2>1. CASE s # last  BY <1>2, <2>1
  <2>2. CASE s = last
    <3>1. k \in 1 .. n + 1  BY <1>2, <2>2
    <3>2. k = n + 1 \/ (k \in 1 .. n /\ n > 0)  BY <1>2, <3>1
    <3> QED BY <1>1, <1>2, <2>2, <3>2
  <2> QED BY <2>1, <2>2
<1>8. \A s \in 1 .. last : \A k \in 1 .. Len(log[s]) : Passed(log[s][k], sizes[s])
  BY <1>1 DEF PlacesInv, AllPassed
<1>9. \A h \in DOMAIN elementCount : Passed(h, HeaderSize)  BY DEF PlacesInv, AllPassed
<1>10. AllPassed'
  <2>1. ASSUME NEW s \in 1 .. last, NEW k \in 1 .. Len(log'[s])
        PROVE  Passed(log[s][k], sizes[s])'
    <3>1. PICK b, l : b = log'[s][k] /\ l = sizes'[s]  OBVIOUS
    <3>2. CASE k \in 1 .. Len(log[s]) /\ b = log[s][k] /\ l = sizes[s]
      <4>1. Passed(b, l) /\ l \in Nat  BY <1>5, <1>8, <3>2
      <4>2. Passed(b, l)'  BY <1>3, <4>1
      <4> QED BY <3>1, <4>2 DEF Passed
    <3>3. CASE b = a /\ l = size  BY <1>2, <3>1, <3>3 DEF Passed
    <3> QED BY <1>7, <3>1, <3>2, <3>3
  <2>2. \A h \in DOMAIN elementCount : Passed(h, HeaderSize)'  BY <1>3, <1>5, <1>9
  <2> QED BY <1>2, <1>4, <2>1, <2>2 DEF AllPassed
<1>11. AllApart'
  <2>1. ASSUME NEW s \in 1 .. last, NEW t \in 1 .. last,
               NEW k \in 1 .. Len(log'[s]), NEW j \in 1 .. Len(log'[t]), s # t \/ k # j
        PROVE  Apart(log'[s][k], sizes'[s], log'[t][j], sizes'[t])
    <3>1. CASE k \in 1 .. Len(log[s]) /\ log'[s][k] = log[s][k] /\ sizes'[s] = sizes[s]
      <4>1. Passed(log[s][k], sizes[s]) /\ sizes[s] \in Nat  BY <1>5, <1>8, <3>1
      <4>2. CASE j \in 1 .. Len(log[t]) /\ log'[t][j] = log[t][j] /\ sizes'[t] = sizes[t]
        BY <1>1, <2>1, <3>1, <4>2 DEF PlacesInv, AllApart
      <4>3. CASE log'[t][j] = a /\ sizes'[t] = size  BY <1>3, <3>1, <4>1, <4>3
      <4> QED BY <1>7, <4>2, <4>3
    <3>2. CASE s = last /\ k = n + 1 /\ log'[s][k] = a /\ sizes'[s] = size
      <4>1. CASE j \in 1 .. Len(log[t]) /\ log'[t][j] = log[t][j] /\ sizes'[t] = sizes[t]
        <5>1. Passed(log[t][j], sizes[t]) /\ sizes[t] \in Nat  BY <1>5, <1>8, <4>1
        <5> QED BY <1>3, <3>2, <4>1, <5>1
      <4>2. CASE t = last /\ j = n + 1  BY <2>1, <3>2, <4>2
      <4> QED BY <1>7, <4>1, <4>2
    <3> QED BY <1>7, <3>1, <3>2
  <2>2. ASSUME NEW s \in 1 .. last, NEW k \in 1 .. Len(log'[s]), NEW h \in DOMAIN elementCount
        PROVE  Apart(log'[s][k], sizes'[s], h, HeaderSize)
    <3>1. CASE k \in 1 .. Len(log[s]) /\ log'[s][k] = log[s][k] /\ sizes'[s] = sizes[s]
      BY <1>1, <3>1 DEF PlacesInv, AllApart
    <3>2. CASE log'[s][k] = a /\ sizes'[s] = size  BY <1>3, <1>5, <1>9, <3>2
    <3> QED BY <1>7, <3>1, <3>2
  <2> QED BY <1>2, <1>4, <2>1, <2>2 DEF PlacesInv, AllApart
<1> QED BY <1>2, <1>4, <1>6, <1>10, <1>11 DEF PlacesInv

\* cutStreamArchiver: a new header and an empty section.
LEMMA CutFacts ==
  ASSUME PlacesInv, Cut,
         NEW a, a = Following(PlaceOf(write_stream), HeaderSize),
         NEW last, last = Len(log)
  PROVE  /\ last \in Nat /\ last >= 1
         /\ log' \in Seq(Seq(Addresses)) /\ Len(log') = last + 1 /\ log'[last + 1] = <<>>
         /\ \A s \in 1 .. last : log'[s] = log[s] /\ sizes'[s] = sizes[s]
         /\ sizes' \in Seq(Sizes \cup {0}) /\ Len(sizes') = last + 1
         /\ DOMAIN elementCount' = DOMAIN elementCount \cup {a} /\ a \notin DOMAIN elementCount
         /\ elementCount'[write_stream.header] = write_stream.elementIndex
         /\ \A h \in DOMAIN elementCount :
              h # write_stream.header => elementCount'[h] = elementCount[h]
         /\ write_stream' \in Streams
         /\ write_stream'.page = a[1] /\ write_stream'.offsetInPage = a[2] + HeaderSize
         /\ write_stream'.elementIndex = 0 /\ write_stream'.header = a
         /\ Pages' /\ Passed(a, HeaderSize)' /\ a \in Addresses
         /\ \A b, l : l \in Nat /\ Passed(b, l) =>
              Passed(b, l)' /\ Apart(b, l, a, HeaderSize) /\ Apart(a, HeaderSize, b, l)
<1>1. /\ log \in Seq(Seq(Addresses)) /\ last \in Nat /\ last >= 1
      /\ sizes \in Seq(Sizes \cup {0}) /\ Len(sizes) = last
  BY DEF PlacesInv, Sections
<1>2. HeaderSize \in Nat \ {0} /\ HeaderSize \in Sizes \cup {HeaderSize}  BY Lengths
<1>3. PICK moved : moved = Moved(write_stream, NewPage, HeaderSize)  OBVIOUS
<1>4. PICK header : header = Returned(moved, HeaderSize)  OBVIOUS
<1>5. /\ next' = Linked(write_stream, HeaderSize)
      /\ elementCount' = [x \in DOMAIN elementCount \cup {header} |->
                            IF x = write_stream.header THEN write_stream.elementIndex
                            ELSE IF x = header THEN Unset ELSE elementCount[x]]
      /\ write_stream' = [moved EXCEPT !.elementIndex = 0, !.header = header]
      /\ log' = Append(log, <<>>) /\ sizes' = Append(sizes, 0)
  BY <1>3, <1>4 DEF Cut, CountOf
<1>6. moved \in Streams /\ header = a /\ a \in Addresses
  <2>1. /\ write_stream \in Streams /\ write_stream.offsetInPage <= PageSize
        /\ write_stream.page = Len(next) /\ next \in Seq(Nat)
    BY Lengths DEF PlacesInv, Pages
  <2>2. NewPage = write_stream.page + 1  BY <2>1 DEF NewPage
  <2> QED BY <1>2, <1>3, <1>4, <2>1, <2>2, MoveFacts
<1>7. /\ write_stream'.page = moved.page /\ write_stream'.offsetInPage = moved.offsetInPage
      /\ write_stream'.elementIndex = 0 /\ write_stream'.header = a /\ write_stream' \in Streams
  BY <1>5, <1>6 DEF Streams
<1>8. /\ moved.page = a[1] /\ moved.offsetInPage = a[2] + HeaderSize
      /\ Pages' /\ Passed(a, HeaderSize)'
      /\ \A b, l : l \in Nat /\ Passed(b, l) =>
           Passed(b, l)' /\ Apart(b, l, a, HeaderSize) /\ Apart(a, HeaderSize, b, l)
  BY <1>2, <1>3, <1>5, <1>7, WriterMoves
<1>9. a \notin DOMAIN elementCount
  <2>1. SUFFICES ASSUME a \in DOMAIN elementCount PROVE FALSE  OBVIOUS
  <2>2. Passed(a, HeaderSize)  BY <2>1 DEF PlacesInv, AllPassed
  <2>3. Apart(a, HeaderSize, a, HeaderSize)  BY <1>2, <1>8, <2>2
  <2>4. a[2] \in Nat  BY <1>6 DEF Addresses
  <2> QED BY <1>2, <2>3, <2>4 DEF Apart
<1>10. /\ DOMAIN elementCount' = DOMAIN elementCount \cup {a}
       /\ elementCount'[write_stream.header] = write_stream.elementIndex
       /\ \A h \in DOMAIN elementCount :
            h # write_stream.header => elementCount'[h] = elementCount[h]
  <2>1. write_stream.header \in DOMAIN elementCount  BY DEF PlacesInv
  <2> QED BY <1>5, <1>6, <1>9, <2>1
<1>11. /\ log' \in Seq(Seq(Addresses)) /\ Len(log') = last + 1 /\ log'[last + 1] = <<>>
       /\ \A s \in 1 .. last : log'[s] = log[s]
  <2>1. <<>> \in Seq(Addresses)  OBVIOUS
  <2> QED BY <1>1, <1>5, <2>1
<1>12. /\ sizes' \in Seq(Sizes \cup {0}) /\ Len(sizes') = last + 1
       /\ \A s \in 1 .. last : sizes'[s] = sizes[s]
  BY <1>1, <1>5
<1> QED BY <1>1, <1>6, <1>7, <1>8, <1>9, <1>10, <1>11, <1>12

\* A header added to the stream is apart from all there is.
LEMMA CutPlaces == PlacesInv /\ Cut => PlacesInv'
<1> SUFFICES ASSUME PlacesInv, Cut PROVE PlacesInv'  OBVIOUS
<1>1. PICK a, last : a = Following(PlaceOf(write_stream), HeaderSize) /\ last = Len(log)
  OBVIOUS
<1>2. /\ last \in Nat /\ last >= 1
      /\ log' \in Seq(Seq(Addresses)) /\ Len(log') = last + 1 /\ log'[last + 1] = <<>>
      /\ \A s \in 1 .. last : log'[s] = log[s] /\ sizes'[s] = sizes[s]
      /\ sizes' \in Seq(Sizes \cup {0}) /\ Len(sizes') = last + 1
      /\ DOMAIN elementCount' = DOMAIN elementCount \cup {a}
      /\ write_stream' \in Streams /\ write_stream'.header = a
      /\ Pages' /\ Passed(a, HeaderSize)'
  BY <1>1, CutFacts
<1>3. \A b, l : l \in Nat /\ Passed(b, l) =>
        Passed(b, l)' /\ Apart(b, l, a, HeaderSize) /\ Apart(a, HeaderSize, b, l)
  BY <1>1, CutFacts
<1>4. HeaderSize \in Nat /\ \A s \in 1 .. last : sizes[s] \in Nat
  <2>1. sizes \in Seq(Sizes \cup {0}) /\ Len(sizes) = last  BY <1>1 DEF PlacesInv, Sections
  <2>2. \A s \in 1 .. last : sizes[s] \in Sizes \cup {0}  BY <1>2, <2>1
  <2> QED BY <2>2, Lengths
\* The elements are those there were.
<1>5. ASSUME NEW s \in 1 .. Len(log'), NEW k \in 1 .. Len(log'[s])
      PROVE  /\ s \in 1 .. last /\ k \in 1 .. Len(log[s])
             /\ log'[s][k] = log[s][k] /\ sizes'[s] = sizes[s]
  <2>1. CASE s = last + 1
    <3>1. Len(log'[s]) = 0  BY <1>2, <2>1
    <3> QED BY <3>1
  <2>2. CASE s # last + 1
    <3>1. s \in 1 .. last  BY <1>2, <2>2
    <3> QED BY <1>2, <3>1
  <2> QED BY <2>1, <2>2
<1>6. \A s \in 1 .. last : \A k \in 1 .. Len(log[s]) : Passed(log[s][k], sizes[s])
  BY <1>1 DEF PlacesInv, AllPassed
<1>7. \A h \in DOMAIN elementCount : Passed(h, HeaderSize)  BY DEF PlacesInv, AllPassed
<1>8. Sections'
  <2>1. ASSUME NEW s \in 1 .. Len(log'), Len(log'[s]) > 0 PROVE sizes'[s] \in Sizes
    <3>1. log'[s] \in Seq(Addresses)  BY <1>2
    <3>2. 1 \in 1 .. Len(log'[s])  BY <2>1, <3>1
    <3>3. s \in 1 .. last /\ sizes'[s] = sizes[s]  BY <1>5, <3>2
    <3>4. Len(log[s]) > 0  BY <1>2, <2>1, <3>3
    <3> QED BY <1>1, <3>3, <3>4 DEF PlacesInv, Sections
  <2>2. Len(log') >= 1  BY <1>2
  <2> QED BY <1>2, <2>1, <2>2 DEF Sections
<1>9. AllPassed'
  <2>1. ASSUME NEW s \in 1 .. Len(log'), NEW k \in 1 .. Len(log'[s])
        PROVE  Passed(log[s][k], sizes[s])'
    <3>1. PICK b, l : b = log'[s][k] /\ l = sizes'[s]  OBVIOUS
    <3>2. Passed(b, l) /\ l \in Nat  BY <1>4, <1>5, <1>6, <3>1
    <3>3. Passed(b, l)'  BY <1>3, <3>2
    <3> QED BY <3>1, <3>3 DEF Passed
  <2>2. \A h \in DOMAIN elementCount' : Passed(h, HeaderSize)'  BY <1>2, <1>3, <1>4, <1>7
  <2> QED BY <2>1, <2>2 DEF AllPassed
<1>10. AllApart'
  <2>1. \A s, t \in 1 .. Len(log') : \A k \in 1 .. Len(log'[s]) : \A j \in 1 .. Len(log'[t]) :
          s # t \/ k # j => Apart(log'[s][k], sizes'[s], log'[t][j], sizes'[t])
    BY <1>1, <1>5 DEF PlacesInv, AllApart
  <2>2. ASSUME NEW s \in 1 .. Len(log'), NEW k \in 1 .. Len(log'[s]), NEW h \in DOMAIN elementCount'
        PROVE  Apart(log'[s][k], sizes'[s], h, HeaderSize)
    <3>1. /\ s \in 1 .. last /\ k \in 1 .. Len(log[s])
          /\ log'[s][k] = log[s][k] /\ sizes'[s] = sizes[s]
      BY <1>5
    <3>2. CASE h \in DOMAIN elementCount  BY <1>1, <3>1, <3>2 DEF PlacesInv, AllApart
    <3>3. CASE h = a
      <4>1. Passed(log[s][k], sizes[s]) /\ sizes[s] \in Nat  BY <1>4, <1>6, <3>1
      <4> QED BY <1>3, <3>1, <3>3, <4>1
    <3> QED BY <1>2, <3>2, <3>3
  <2>3. ASSUME NEW g \in DOMAIN elementCount', NEW h \in DOMAIN elementCount', g # h
        PROVE  Apart(g, HeaderSize, h, HeaderSize)
    <3>1. CASE g \in DOMAIN elementCount /\ h \in DOMAIN elementCount
      BY <2>3, <3>1 DEF PlacesInv, AllApart
    <3>2. CASE g \in DOMAIN elementCount /\ h = a  BY <1>3, <1>4, <1>7, <3>2
    <3>3. CASE g = a /\ h \in DOMAIN elementCount  BY <1>3, <1>4, <1>7, <3>3
    <3> QED BY <1>2, <2>3, <3>1, <3>2, <3>3
  <2> QED BY <2>1, <2>2, <2>3 DEF AllApart
<1> QED BY <1>2, <1>8, <1>9, <1>10 DEF PlacesInv

\* init_stream_archiver: one page with a header.
LEMMA InitPlaces == Init => PlacesInv
<1> SUFFICES ASSUME Init PROVE PlacesInv  OBVIOUS
<1>1. /\ next = <<0>> /\ log = << <<>> >> /\ sizes = <<0>>
      /\ write_stream = [page |-> 1, offsetInPage |-> PageLink + HeaderSize, elementIndex |-> 0,
                         header |-> <<1, PageLink>>]
      /\ DOMAIN elementCount = {<<1, PageLink>>}
  BY DEF Init
<1>2. /\ PageSize \in Nat /\ PageLink \in Nat \ {0} /\ HeaderSize \in Nat \ {0}
      /\ PageLink + HeaderSize <= PageSize
  BY Lengths
<1>3. <<1, PageLink>> \in Addresses  BY <1>2 DEF Addresses
<1>4. write_stream \in Streams  BY <1>1, <1>2, <1>3 DEF Streams
<1>5. Pages
  <2>1. next \in Seq(Nat) /\ Len(next) = 1 /\ next[1] = 0  BY <1>1
  <2>2. PageLink + HeaderSize \in PageLink .. PageSize  BY <1>2
  <2> QED BY <1>1, <2>1, <2>2 DEF Pages
<1>6. Len(log) = 1 /\ log[1] = <<>> /\ Len(log[1]) = 0  BY <1>1
<1>7. Sections
  <2>1. <<>> \in Seq(Addresses)  OBVIOUS
  <2>2. log \in Seq(Seq(Addresses))  BY <1>1, <2>1
  <2>3. sizes \in Seq(Sizes \cup {0}) /\ Len(sizes) = 1  BY <1>1
  <2> QED BY <1>6, <2>2, <2>3 DEF Sections
<1>8. AllPassed
  <2>1. Passed(<<1, PageLink>>, HeaderSize)  BY <1>1, <1>2, <1>3 DEF Passed
  <2> QED BY <1>1, <1>6, <2>1 DEF AllPassed
<1>9. AllApart  BY <1>1, <1>6 DEF AllApart
<1> QED BY <1>1, <1>4, <1>5, <1>7, <1>8, <1>9 DEF PlacesInv

\* The reader moves nothing but itself.
LEMMA ReaderPlaces ==
  ASSUME PlacesInv, UNCHANGED <<next, write_stream, log, sizes, elementCount>>
  PROVE  PlacesInv'
<1>1. Pages' /\ Sections'  BY DEF PlacesInv, Pages, Sections
<1>2. AllPassed'  BY DEF PlacesInv, AllPassed, Passed
<1>3. AllApart'  BY DEF PlacesInv, AllApart
<1> QED BY <1>1, <1>2, <1>3 DEF PlacesInv

\* Lengths that are apart share no unit.
LEMMA ApartUnits ==
  ASSUME NEW a \in Addresses, NEW b \in Addresses, NEW l \in Nat, NEW m \in Nat, Apart(a, l, b, m)
  PROVE  Units(a, l) \cap Units(b, m) = {}
<1>1. a[1] \in Nat /\ a[2] \in Nat /\ b[1] \in Nat /\ b[2] \in Nat  BY DEF Addresses
<1>2. ASSUME NEW u, u \in Units(a, l), u \in Units(b, m) PROVE FALSE
  <2>1. PICK k \in 0 .. l - 1 : u = <<a[1], a[2] + k>>  BY <1>2 DEF Units
  <2>2. PICK j \in 0 .. m - 1 : u = <<b[1], b[2] + j>>  BY <1>2 DEF Units
  <2>3. a[1] = b[1] /\ a[2] + k = b[2] + j  BY <2>1, <2>2
  <2> QED BY <1>1, <2>1, <2>2, <2>3 DEF Apart
<1> QED BY <1>2

\* Every step keeps the elements, headers and page links apart, inside the
\* pages: pointers into the stream stay valid whatever is written after them.
THEOREM ElementsStayApart == Spec => []ElementsApart
<1>1. ASSUME PlacesInv, [Next]_vars PROVE PlacesInv'
  <2>1. CASE \E size \in Sizes : Insert(size)  BY <1>1, <2>1, InsertPlaces
  <2>2. CASE Cut  BY <1>1, <2>2, CutPlaces
  <2>3. CASE CopyStream  BY <1>1, <2>3, ReaderPlaces DEF CopyStream
  <2>4. CASE Read  BY <1>1, <2>4, ReaderPlaces DEF Read, GetNext, GetNull, historyVars
  <2>5. CASE UNCHANGED vars  BY <1>1, <2>5, ReaderPlaces DEF vars, historyVars
  <2> QED BY <1>1, <2>1, <2>2, <2>3, <2>4, <2>5 DEF Next, Write
<1>2. ASSUME PlacesInv PROVE ElementsApart
  <2> DEFINE elements == { x \in (1 .. Len(log)) \X (1 .. MaxPages * PageSize) :
                             x[2] <= Len(log[x[1]]) }
             U(x)     == Units(log[x[1]][x[2]], sizes[x[1]])
             headers  == DOMAIN elementCount
             units    == (1 .. Len(next)) \X (PageLink .. PageSize - 1)
  <2>1. /\ log \in Seq(Seq(Addresses)) /\ Len(log) \in Nat
        /\ sizes \in Seq(Sizes \cup {0}) /\ Len(sizes) = Len(log)
    BY <1>2 DEF PlacesInv, Sections
  <2>2. \A s \in 1 .. Len(log) : sizes[s] \in Nat /\ Len(log[s]) \in Nat
    <3>1. \A s \in 1 .. Len(log) : sizes[s] \in Sizes \cup {0} /\ log[s] \in Seq(Addresses)
      BY <2>1
    <3> QED BY <3>1, Lengths
  <2>3. HeaderSize \in Nat /\ PageLink \in Nat /\ PageSize \in Nat /\ MaxPages \in Nat
    BY Lengths, StreamAssumption
  <2>4. write_stream.page = Len(next) /\ Len(next) \in Nat  BY <1>2 DEF PlacesInv, Pages
  <2>5. ASSUME NEW x \in elements
        PROVE  /\ x[1] \in 1 .. Len(log) /\ x[2] \in 1 .. Len(log[x[1]])
               /\ Passed(log[x[1]][x[2]], sizes[x[1]]) /\ sizes[x[1]] \in Nat
    <3>1. x[1] \in 1 .. Len(log) /\ x[2] \in 1 .. MaxPages * PageSize /\ x[2] <= Len(log[x[1]])
      OBVIOUS
    <3>2. MaxPages * PageSize \in Nat  BY <2>3
    <3>3. x[2] \in 1 .. Len(log[x[1]])  BY <2>2, <3>1, <3>2
    <3> QED BY <1>2, <2>2, <3>1, <3>3 DEF PlacesInv, AllPassed
  <2>6. \A h \in headers : Passed(h, HeaderSize)  BY <1>2 DEF PlacesInv, AllPassed
  <2>7. ASSUME NEW b, NEW l \in Nat, Passed(b, l) PROVE Units(b, l) \subseteq units
    <3>1. /\ b[1] \in 1 .. Len(next) /\ b[2] \in Nat /\ PageLink <= b[2] /\ b[2] + l <= PageSize
      BY <2>4, <2>7 DEF Passed, Addresses
    <3>2. \A k \in 0 .. l - 1 : b[2] + k \in PageLink .. PageSize - 1  BY <2>3, <3>1
    <3> QED BY <3>1, <3>2 DEF Units
  <2>8. \A b, l : Passed(b, l) => b \in Addresses  BY DEF Passed
  <2>9. ASSUME NEW x \in elements
        PROVE  /\ U(x) \subseteq units
               /\ \A y \in elements \ {x} : U(x) \cap U(y) = {}
               /\ \A h \in headers : U(x) \cap Units(h, HeaderSize) = {}
    <3>1. U(x) \subseteq units  BY <2>5, <2>7
    <3>2. ASSUME NEW y \in elements, x # y PROVE U(x) \cap U(y) = {}
      <4>1. x[1] # y[1] \/ x[2] # y[2]  BY <3>2
      <4>2. Apart(log[x[1]][x[2]], sizes[x[1]], log[y[1]][y[2]], sizes[y[1]])
        <5>1. /\ x[1] \in 1 .. Len(log) /\ x[2] \in 1 .. Len(log[x[1]])
              /\ y[1] \in 1 .. Len(log) /\ y[2] \in 1 .. Len(log[y[1]])
          BY <2>5
        <5> QED BY <1>2, <4>1, <5>1 DEF PlacesInv, AllApart
      <4> QED BY <2>5, <2>8, <4>2, ApartUnits
    <3>3. ASSUME NEW h \in headers PROVE U(x) \cap Units(h, HeaderSize) = {}
      <4>1. Apart(log[x[1]][x[2]], sizes[x[1]], h, HeaderSize)
        BY <1>2, <2>5 DEF PlacesInv, AllApart
      <4> QED BY <2>3, <2>5, <2>6, <2>8, <4>1, ApartUnits
    <3> QED BY <3>1, <3>2, <3>3
  <2>10. ASSUME NEW h \in headers
         PROVE  /\ Units(h, HeaderSize) \subseteq units
                /\ \A g \in headers \ {h} : Units(g, HeaderSize) \cap Units(h, HeaderSize) = {}
    <3>1. Units(h, HeaderSize) \subseteq units  BY <2>3, <2>6, <2>7
    <3>2. ASSUME NEW g \in headers, g # h
          PROVE  Units(g, HeaderSize) \cap Units(h, HeaderSize) = {}
      <4>1. Apart(g, HeaderSize, h, HeaderSize)  BY <1>2, <3>2 DEF PlacesInv, AllApart
      <4> QED BY <2>3, <2>6, <2>8, <4>1, ApartUnits
    <3> QED BY <3>1, <3>2
  <2> QED BY <2>9, <2>10 DEF ElementsApart
<1> QED BY <1>1, <1>2, InitPlaces, PTL DEF Spec

-----------------------------------------------------------------------------
(* The path of elements and headers through the pages.                     *)

\* The copy main makes of the new stream is where the stream is.
LEMMA InitChain == Init => ChainInv
<1> SUFFICES ASSUME Init PROVE ChainInv  OBVIOUS
<1>1. PlacesInv  BY InitPlaces
<1>2. /\ log = << <<>> >> /\ sizes = <<0>> /\ section = 1
      /\ write_stream = [page |-> 1, offsetInPage |-> PageLink + HeaderSize, elementIndex |-> 0,
                         header |-> <<1, PageLink>>]
      /\ read_stream = write_stream
      /\ DOMAIN elementCount = {<<1, PageLink>>}
  BY DEF Init
<1>3. Len(log) = 1 /\ log[1] = <<>> /\ Len(log[1]) = 0  BY <1>2
<1>4. PICK headers : headers = [s \in 1 .. 1 |-> <<1, PageLink>>]  OBVIOUS
<1>5. headers \in [1 .. Len(log) -> DOMAIN elementCount] /\ headers[1] = <<1, PageLink>>
  BY <1>2, <1>3, <1>4
<1>6. PlaceOf(write_stream) = PlaceAfter(headers, log, sizes, 1, 0)
  BY <1>2, <1>5 DEF PlaceOf, PlaceAfter
<1>7. write_stream.header = <<1, PageLink>> /\ write_stream.elementIndex = 0  BY <1>2
<1>8. Chained(headers)  BY <1>2, <1>3, <1>5, <1>6, <1>7 DEF Chained
<1>9. read_stream \in Streams  BY <1>1, <1>2 DEF PlacesInv
<1> QED BY <1>1, <1>2, <1>3, <1>5, <1>7, <1>8, <1>9 DEF ChainInv

\* insertStreamArchiver: the path is continued by the element.
LEMMA InsertChain ==
  ASSUME ChainInv, NEW size \in Sizes, Insert(size)
  PROVE  ChainInv'
<1>1. PlacesInv' /\ PlacesInv  BY InsertPlaces DEF ChainInv
<1>2. PICK a, last, n : /\ a = Following(PlaceOf(write_stream), size)
                        /\ last = Len(log) /\ n = Len(log[last])
  OBVIOUS
<1>3. /\ last \in Nat /\ last >= 1 /\ n \in Nat
      /\ Len(log') = last
      /\ \A s \in 1 .. last : s # last => log'[s] = log[s] /\ sizes'[s] = sizes[s]
      /\ Len(log'[last]) = n + 1 /\ log'[last][n + 1] = a
      /\ \A k \in 1 .. n : log'[last][k] = log[last][k]
      /\ sizes'[last] = size
      /\ n > 0 => sizes[last] = size
      /\ write_stream'.page = a[1] /\ write_stream'.offsetInPage = a[2] + size
      /\ write_stream'.elementIndex = write_stream.elementIndex + 1
      /\ write_stream'.header = write_stream.header
      /\ a \in Addresses
  BY <1>1, <1>2, InsertFacts
<1>4. /\ elementCount' = elementCount /\ read_stream' = read_stream /\ section' = section
  BY DEF Insert
<1>5. /\ section \in 1 .. last /\ write_stream.elementIndex = n
      /\ read_stream.elementIndex \in 0 .. Len(log[section]) /\ read_stream \in Streams
  BY <1>2 DEF ChainInv
<1>6. PICK headers \in [1 .. last -> DOMAIN elementCount] : Chained(headers)
  BY <1>2 DEF ChainInv
<1>7. /\ \A s \in 1 .. last : \A k \in 1 .. Len(log[s]) :
           log[s][k] = Following(PlaceAfter(headers, log, sizes, s, k - 1), sizes[s])
      /\ \A s \in 1 .. last - 1 :
           headers[s + 1] = Following(PlaceAfter(headers, log, sizes, s, Len(log[s])), HeaderSize)
      /\ \A s, t \in 1 .. last : headers[s] = headers[t] => s = t
      /\ \A s \in 1 .. last - 1 : elementCount[headers[s]] = Len(log[s])
      /\ PlaceOf(write_stream) = PlaceAfter(headers, log, sizes, last, n)
      /\ write_stream.header = headers[last]
      /\ PlaceOf(read_stream) = PlaceAfter(headers, log, sizes, section, read_stream.elementIndex)
      /\ read_stream.header = headers[section]
  BY <1>2, <1>6 DEF Chained
<1>8. \A s \in 1 .. last : log[s] \in Seq(Addresses) /\ Len(log[s]) \in Nat
  BY <1>1, <1>2 DEF PlacesInv, Sections
<1>9. ASSUME NEW s \in 1 .. last, NEW k \in 0 .. Len(log[s])
      PROVE  PlaceAfter(headers, log', sizes', s, k) = PlaceAfter(headers, log, sizes, s, k)
  <2>1. CASE k = 0  BY <2>1 DEF PlaceAfter
  <2>2. CASE k # 0
    <3>1. k \in 1 .. Len(log[s])  BY <1>8, <2>2
    <3>2. log'[s][k] = log[s][k] /\ sizes'[s] = sizes[s]
      <4>1. CASE s # last  BY <1>3, <4>1
      <4>2. CASE s = last
        <5>1. k \in 1 .. n /\ n > 0  BY <1>2, <1>3, <3>1, <4>2
        <5> QED BY <1>3, <4>2, <5>1
      <4> QED BY <4>1, <4>2
    <3> QED BY <2>2, <3>2 DEF PlaceAfter
  <2> QED BY <2>1, <2>2
<1>10. PlaceAfter(headers, log', sizes', last, n + 1) = <<a[1], a[2] + size>>
  <2>1. n + 1 # 0  BY <1>3
  <2> QED BY <1>3, <2>1 DEF PlaceAfter
<1>11. ASSUME NEW s \in 1 .. last, NEW k \in 1 .. Len(log'[s])
       PROVE  log'[s][k] = Following(PlaceAfter(headers, log', sizes', s, k - 1), sizes'[s])
  <2>1. CASE s # last
    <3>1. log'[s] = log[s] /\ sizes'[s] = sizes[s] /\ k \in 1 .. Len(log[s])  BY <1>3, <2>1
    <3>2. k - 1 \in 0 .. Len(log[s])  BY <1>8, <3>1
    <3> QED BY <1>7, <1>9, <3>1, <3>2
  <2>2. CASE s = last
    <3>1. k \in 1 .. n + 1  BY <1>3, <2>2
    <3>2. CASE k = n + 1
      <4>1. k - 1 = n /\ n \in 0 .. Len(log[s])  BY <1>2, <1>3, <2>2, <3>2
      <4>2. PlaceAfter(headers, log', sizes', s, k - 1) = PlaceOf(write_stream)
        BY <1>7, <1>9, <2>2, <4>1
      <4> QED BY <1>2, <1>3, <2>2, <3>2, <4>2
    <3>3. CASE k # n + 1
      <4>1. k \in 1 .. n /\ n > 0 /\ k - 1 \in 0 .. n  BY <1>3, <3>1, <3>3
      <4>2. log[s][k] = Following(PlaceAfter(headers, log, sizes, s, k - 1), sizes[s])
        BY <1>2, <1>7, <2>2, <4>1
      <4>3. PlaceAfter(headers, log', sizes', s, k - 1) = PlaceAfter(headers, log, sizes, s, k - 1)
        BY <1>2, <1>9, <2>2, <4>1
      <4> QED BY <1>3, <2>2, <4>1, <4>2, <4>3
    <3> QED BY <3>2, <3>3
  <2> QED BY <2>1, <2>2
<1>12. ASSUME NEW s \in 1 .. last - 1
       PROVE  /\ headers[s + 1] =
                   Following(PlaceAfter(headers, log', sizes', s, Len(log'[s])), HeaderSize)
              /\ elementCount'[headers[s]] = Len(log'[s])
  <2>1. s \in 1 .. last /\ s # last  BY <1>3
  <2>2. log'[s] = log[s] /\ Len(log[s]) \in 0 .. Len(log[s])  BY <1>3, <1>8, <2>1
  <2>3. PlaceAfter(headers, log', sizes', s, Len(log[s])) =
          PlaceAfter(headers, log, sizes, s, Len(log[s]))
    BY <1>9, <2>1, <2>2
  <2> QED BY <1>4, <1>7, <2>2, <2>3
<1>13. PlaceOf(write_stream') = PlaceAfter(headers, log', sizes', last, n + 1)
  BY <1>3, <1>10 DEF PlaceOf
<1>14. PlaceOf(read_stream') =
         PlaceAfter(headers, log', sizes', section, read_stream.elementIndex)
  BY <1>4, <1>5, <1>7, <1>9
<1>15. Chained(headers)'
  BY <1>3, <1>4, <1>7, <1>11, <1>12, <1>13, <1>14 DEF Chained, PlaceOf
<1>16. read_stream.elementIndex \in 0 .. Len(log'[section])
  <2>1. CASE section # last  BY <1>3, <1>5, <2>1
  <2>2. CASE section = last  BY <1>2, <1>3, <1>5, <2>2
  <2> QED BY <2>1, <2>2
<1>17. \E h \in [1 .. Len(log') -> DOMAIN elementCount'] : Chained(h)'
  BY <1>3, <1>4, <1>6, <1>15
<1> QED BY <1>1, <1>3, <1>4, <1>5, <1>16, <1>17 DEF ChainInv

\* cutStreamArchiver: the path is continued by a header, and the count of the
\* section that ends is final.
LEMMA CutChain == ChainInv /\ Cut => ChainInv'
<1> SUFFICES ASSUME ChainInv, Cut PROVE ChainInv'  OBVIOUS
<1>1. PlacesInv' /\ PlacesInv  BY CutPlaces DEF ChainInv
<1>2. PICK a, last : a = Following(PlaceOf(write_stream), HeaderSize) /\ last = Len(log)
  OBVIOUS
<1>3. /\ last \in Nat /\ last >= 1
      /\ Len(log') = last + 1 /\ log'[last + 1] = <<>>
      /\ \A s \in 1 .. last : log'[s] = log[s] /\ sizes'[s] = sizes[s]
      /\ DOMAIN elementCount' = DOMAIN elementCount \cup {a} /\ a \notin DOMAIN elementCount
      /\ elementCount'[write_stream.header] = write_stream.elementIndex
      /\ \A h \in DOMAIN elementCount :
           h # write_stream.header => elementCount'[h] = elementCount[h]
      /\ write_stream'.page = a[1] /\ write_stream'.offsetInPage = a[2] + HeaderSize
      /\ write_stream'.elementIndex = 0 /\ write_stream'.header = a
      /\ a \in Addresses
  BY <1>1, <1>2, CutFacts
<1>4. read_stream' = read_stream /\ section' = section  BY DEF Cut
<1>5. /\ section \in 1 .. last /\ write_stream.elementIndex = Len(log[last])
      /\ read_stream.elementIndex \in 0 .. Len(log[section]) /\ read_stream \in Streams
  BY <1>2 DEF ChainInv
<1>6. PICK old \in [1 .. last -> DOMAIN elementCount] : Chained(old)
  BY <1>2 DEF ChainInv
<1>7. /\ \A s \in 1 .. last : \A k \in 1 .. Len(log[s]) :
           log[s][k] = Following(PlaceAfter(old, log, sizes, s, k - 1), sizes[s])
      /\ \A s \in 1 .. last - 1 :
           old[s + 1] = Following(PlaceAfter(old, log, sizes, s, Len(log[s])), HeaderSize)
      /\ \A s, t \in 1 .. last : old[s] = old[t] => s = t
      /\ \A s \in 1 .. last - 1 : elementCount[old[s]] = Len(log[s])
      /\ PlaceOf(write_stream) = PlaceAfter(old, log, sizes, last, Len(log[last]))
      /\ write_stream.header = old[last]
      /\ PlaceOf(read_stream) = PlaceAfter(old, log, sizes, section, read_stream.elementIndex)
      /\ read_stream.header = old[section]
  BY <1>2, <1>6 DEF Chained
<1>8. PICK headers : headers = [s \in 1 .. last + 1 |-> IF s = last + 1 THEN a ELSE old[s]]
  OBVIOUS
<1>9. /\ \A s \in 1 .. last : headers[s] = old[s] /\ old[s] \in DOMAIN elementCount
      /\ headers[last + 1] = a
      /\ headers \in [1 .. last + 1 -> DOMAIN elementCount']
  <2>1. \A s \in 1 .. last : s # last + 1 /\ s \in 1 .. last + 1  BY <1>3
  <2>2. \A s \in 1 .. last + 1 : s = last + 1 \/ s \in 1 .. last  BY <1>3
  <2>3. last + 1 \in 1 .. last + 1  BY <1>3
  <2> QED BY <1>3, <1>6, <1>8, <2>1, <2>2, <2>3
<1>10. \A s \in 1 .. last : log[s] \in Seq(Addresses) /\ Len(log[s]) \in Nat
  BY <1>1, <1>2 DEF PlacesInv, Sections
<1>11. \A s \in 1 .. last : \A k :
         PlaceAfter(headers, log', sizes', s, k) = PlaceAfter(old, log, sizes, s, k)
  BY <1>3, <1>9 DEF PlaceAfter
<1>12. PlaceAfter(headers, log', sizes', last + 1, 0) = <<a[1], a[2] + HeaderSize>>
  BY <1>9 DEF PlaceAfter
<1>13. \A s \in 1 .. last + 1 : s \in 1 .. last \/ s = last + 1  BY <1>3
<1>14. Len(log'[last + 1]) = 0  BY <1>3
<1>15. ASSUME NEW s \in 1 .. last + 1, NEW k \in 1 .. Len(log'[s])
       PROVE  log'[s][k] = Following(PlaceAfter(headers, log', sizes', s, k - 1), sizes'[s])
  <2>1. CASE s = last + 1
    <3>1. k \in 1 .. 0  BY <1>14, <2>1
    <3> QED BY <3>1
  <2>2. CASE s \in 1 .. last
    <3>1. log'[s] = log[s] /\ sizes'[s] = sizes[s] /\ k \in 1 .. Len(log[s])  BY <1>3, <2>2
    <3>2. log[s][k] = Following(PlaceAfter(old, log, sizes, s, k - 1), sizes[s])
      BY <1>7, <2>2, <3>1
    <3>3. PlaceAfter(headers, log', sizes', s, k - 1) = PlaceAfter(old, log, sizes, s, k - 1)
      BY <1>11, <2>2
    <3> QED BY <3>1, <3>2, <3>3
  <2> QED BY <1>13, <2>1, <2>2
<1>16. ASSUME NEW s \in 1 .. last
       PROVE  /\ headers[s + 1] =
                   Following(PlaceAfter(headers, log', sizes', s, Len(log'[s])), HeaderSize)
              /\ elementCount'[headers[s]] = Len(log'[s])
  <2>1. PlaceAfter(headers, log', sizes', s, Len(log'[s])) =
          PlaceAfter(old, log, sizes, s, Len(log[s]))
    BY <1>3, <1>11
  <2>2. CASE s = last  BY <1>2, <1>3, <1>5, <1>7, <1>9, <2>1, <2>2
  <2>3. CASE s # last
    <3>1. s \in 1 .. last - 1 /\ s + 1 \in 1 .. last /\ last \in 1 .. last  BY <1>3, <2>3
    <3>2. old[s] # old[last]  BY <1>7, <2>3, <3>1
    <3>3. elementCount'[headers[s]] = elementCount[old[s]]  BY <1>3, <1>7, <1>9, <3>2
    <3> QED BY <1>3, <1>7, <1>9, <2>1, <3>1, <3>3
  <2> QED BY <2>2, <2>3
<1>17. ASSUME NEW s \in 1 .. last + 1, NEW t \in 1 .. last + 1, headers[s] = headers[t]
       PROVE  s = t
  <2>1. CASE s \in 1 .. last /\ t \in 1 .. last  BY <1>7, <1>9, <1>17, <2>1
  <2>2. CASE s \in 1 .. last /\ t = last + 1  BY <1>3, <1>9, <1>17, <2>2
  <2>3. CASE s = last + 1 /\ t \in 1 .. last  BY <1>3, <1>9, <1>17, <2>3
  <2> QED BY <1>13, <2>1, <2>2, <2>3
<1>18. PlaceOf(write_stream') = PlaceAfter(headers, log', sizes', last + 1, 0)
  BY <1>3, <1>12 DEF PlaceOf
<1>19. /\ PlaceOf(read_stream') =
            PlaceAfter(headers, log', sizes', section, read_stream.elementIndex)
       /\ read_stream.header = headers[section]
  BY <1>4, <1>5, <1>7, <1>9, <1>11
<1>20. Chained(headers)'
  <2>1. (last + 1) - 1 = last  BY <1>3
  <2>2. write_stream'.header = headers[last + 1]  BY <1>3, <1>9
  <2>3. Len(log') = last + 1 /\ Len(log') - 1 = last  BY <1>3, <2>1
  <2>4. \A s \in 1 .. Len(log') : \A k \in 1 .. Len(log'[s]) :
          log'[s][k] = Following(PlaceAfter(headers, log', sizes', s, k - 1), sizes'[s])
    BY <1>15, <2>3
  <2>5. \A s \in 1 .. Len(log') - 1 :
          /\ headers[s + 1] =
               Following(PlaceAfter(headers, log', sizes', s, Len(log'[s])), HeaderSize)
          /\ elementCount'[headers[s]] = Len(log'[s])
    BY <1>16, <2>3
  <2>6. \A s, t \in 1 .. Len(log') : headers[s] = headers[t] => s = t  BY <1>17, <2>3
  <2>7. /\ PlaceOf(write_stream') =
             PlaceAfter(headers, log', sizes', Len(log'), Len(log'[Len(log')]))
        /\ write_stream'.header = headers[Len(log')]
    BY <1>14, <1>18, <2>2, <2>3
  <2>8. /\ PlaceOf(read_stream') =
             PlaceAfter(headers, log', sizes', section', read_stream'.elementIndex)
        /\ read_stream'.header = headers[section']
    BY <1>4, <1>19
  <2> QED BY <2>4, <2>5, <2>6, <2>7, <2>8, Zenon DEF Chained, PlaceOf
<1>21. section \in 1 .. last + 1 /\ read_stream.elementIndex \in 0 .. Len(log'[section])
  BY <1>3, <1>5
<1>22. \E h \in [1 .. Len(log') -> DOMAIN elementCount'] : Chained(h)'
  BY <1>3, <1>9, <1>20
<1> QED BY <1>1, <1>3, <1>4, <1>5, <1>14, <1>21, <1>22 DEF ChainInv

\* A copy of the write stream is at the start of the section it is made in.
LEMMA CopyChain == ChainInv /\ CopyStream => ChainInv'
<1> SUFFICES ASSUME ChainInv, CopyStream PROVE ChainInv'  OBVIOUS
<1>1. /\ log[Len(log)] = <<>> /\ read_stream' = write_stream /\ section' = Len(log)
      /\ next' = next /\ elementCount' = elementCount /\ write_stream' = write_stream
      /\ log' = log /\ sizes' = sizes
  BY DEF CopyStream
<1>2. PlacesInv /\ PlacesInv'  BY <1>1, ReaderPlaces DEF ChainInv
<1>3. PICK headers \in [1 .. Len(log) -> DOMAIN elementCount] : Chained(headers)
  BY DEF ChainInv
<1>4. write_stream.elementIndex = Len(log[Len(log)]) /\ write_stream \in Streams
  BY <1>2 DEF ChainInv, PlacesInv
<1>5. Chained(headers)'  BY <1>1, <1>3, <1>4 DEF Chained
<1>6. Len(log) \in 1 .. Len(log)  BY <1>2 DEF PlacesInv, Sections
<1>7. Len(log[Len(log)]) \in 0 .. Len(log[Len(log)])
  <2>1. Len(log[Len(log)]) = 0  BY <1>1
  <2> QED BY <2>1
<1>8. \E h \in [1 .. Len(log') -> DOMAIN elementCount'] : Chained(h)'  BY <1>1, <1>3, <1>5
<1> QED BY <1>1, <1>2, <1>4, <1>6, <1>7, <1>8 DEF ChainInv

\* The reader finds what follows its place, on the next page if it has to.
LEMMA ReaderMoves ==
  ASSUME ChainInv, NEW headers \in [1 .. Len(log) -> DOMAIN elementCount], Chained(headers),
         NEW length \in Sizes \cup {HeaderSize},
         NEW a, a = Following(PlaceOf(read_stream), length), a[1] <= Len(next),
         NEW moved, moved = Moved(read_stream, Followed(read_stream), length)
  PROVE  /\ moved \in Streams /\ a \in Addresses /\ a = Returned(moved, length)
         /\ PlaceOf(moved) = <<a[1], a[2] + length>>
         /\ moved.elementIndex = read_stream.elementIndex /\ moved.header = read_stream.header
<1>1. /\ PlacesInv /\ section \in 1 .. Len(log) /\ read_stream \in Streams
      /\ read_stream.elementIndex \in 0 .. Len(log[section])
  BY DEF ChainInv
<1>2. /\ next \in Seq(Nat) /\ Len(next) \in Nat /\ write_stream.page = Len(next)
      /\ \A p \in 1 .. Len(next) : next[p] = IF p = Len(next) THEN 0 ELSE p + 1
  BY <1>1 DEF PlacesInv, Pages
<1>3. /\ PageSize \in Nat /\ PageLink \in Nat /\ HeaderSize \in Nat /\ length \in Nat \ {0}
  BY Lengths
<1>4. PICK r \in Streams : r = read_stream  BY <1>1
<1>5. r.page \in 1 .. Len(next) /\ r.offsetInPage \in Nat /\ r.offsetInPage <= PageSize
  <2>1. <<r.page, r.offsetInPage>> =
          PlaceAfter(headers, log, sizes, section, read_stream.elementIndex)
    BY <1>4 DEF Chained, PlaceOf
  <2>2. CASE read_stream.elementIndex = 0
    <3>1. headers[section] \in DOMAIN elementCount  BY <1>1
    <3>2. Passed(headers[section], HeaderSize)  BY <1>1, <3>1 DEF PlacesInv, AllPassed
    <3>3. r.page = headers[section][1] /\ r.offsetInPage = headers[section][2] + HeaderSize
      BY <2>1, <2>2 DEF PlaceAfter
    <3>4. PICK h \in Addresses : h = headers[section] /\ Passed(h, HeaderSize)
      BY <3>2 DEF Passed
    <3>5. /\ h[1] \in 1 .. Len(next) /\ h[2] \in Nat /\ h[2] + HeaderSize <= PageSize
      BY <1>2, <3>4 DEF Passed, Addresses
    <3> QED BY <1>3, <3>3, <3>4, <3>5
  <2>3. CASE read_stream.elementIndex # 0
    <3>1. PICK k : k = read_stream.elementIndex  OBVIOUS
    <3>2. k \in 1 .. Len(log[section])
      <4>1. log[section] \in Seq(Addresses)  BY <1>1 DEF PlacesInv, Sections
      <4>2. Len(log[section]) \in Nat  BY <4>1
      <4> QED BY <1>1, <2>3, <3>1, <4>2
    <3>3. Passed(log[section][k], sizes[section])  BY <1>1, <3>2 DEF PlacesInv, AllPassed
    <3>4. r.page = log[section][k][1] /\ r.offsetInPage = log[section][k][2] + sizes[section]
      BY <2>1, <2>3, <3>1 DEF PlaceAfter
    <3>5. sizes[section] \in Nat
      <4>1. sizes \in Seq(Sizes \cup {0}) /\ Len(sizes) = Len(log)
        BY <1>1 DEF PlacesInv, Sections
      <4>2. sizes[section] \in Sizes \cup {0}  BY <1>1, <4>1
      <4> QED BY <4>2, Lengths
    <3> QED BY <1>2, <1>3, <3>3, <3>4, <3>5, SMTT(30) DEF Passed, Addresses
  <2> QED BY <2>2, <2>3
<1>6. Fits(r, length) \/ Followed(r) = r.page + 1
  <2>1. SUFFICES ASSUME ~ Fits(r, length) PROVE Followed(r) = r.page + 1  OBVIOUS
  <2>2. a = <<r.page + 1, PageLink>>  BY <1>4, <2>1 DEF Following, PlaceOf, Fits
  <2>3. r.page + 1 <= Len(next)  BY <2>2
  <2>4. r.page # Len(next)  BY <1>2, <1>5, <2>3
  <2> QED BY <1>2, <1>5, <2>4 DEF Followed
<1>7. PICK page : page = Followed(r)  OBVIOUS
<1>8. moved = Moved(r, page, length) /\ a = Following(PlaceOf(r), length)  BY <1>4, <1>7
<1>9. /\ moved \in Streams /\ a \in Addresses /\ a = Returned(moved, length)
      /\ moved.page = a[1] /\ moved.offsetInPage = a[2] + length
      /\ moved.elementIndex = r.elementIndex /\ moved.header = r.header
  BY <1>5, <1>6, <1>7, <1>8, MoveFacts
<1> QED BY <1>4, <1>9 DEF PlaceOf

\* iterateStreamArchiver(read_stream, false, size) before the end of a section:
\* the address is the one the writer got for the element.
LEMMA GetNextChain ==
  ASSUME ChainInv, NEW size \in Sizes, GetNext(size)
  PROVE  /\ ChainInv'
         /\ section < Len(log) /\ read_stream.elementIndex < Len(log[section])
         /\ returned' = log[section][read_stream.elementIndex + 1]
         /\ read_stream'.elementIndex = read_stream.elementIndex + 1
<1>1. /\ next' = next /\ elementCount' = elementCount /\ write_stream' = write_stream
      /\ log' = log /\ sizes' = sizes /\ section' = section
  BY DEF GetNext, historyVars
<1>2. PlacesInv /\ PlacesInv'  BY <1>1, ReaderPlaces DEF ChainInv
<1>3. PICK headers \in [1 .. Len(log) -> DOMAIN elementCount] : Chained(headers)
  BY DEF ChainInv
<1>4. /\ log \in Seq(Seq(Addresses)) /\ Len(log) \in Nat
      /\ section \in 1 .. Len(log) /\ read_stream \in Streams
      /\ read_stream.elementIndex \in 0 .. Len(log[section])
      /\ write_stream.elementIndex = Len(log[Len(log)])
      /\ \A s \in 1 .. Len(log) : Len(log[s]) > 0 => sizes[s] \in Sizes
  BY <1>2 DEF ChainInv, PlacesInv, Sections
<1>5. section < Len(log) /\ sizes[section] \in {0, size}  BY DEF GetNext, Readable
<1>6. PICK i \in Nat : i = read_stream.elementIndex  BY <1>4 DEF Streams
<1>7. PICK n \in Nat : n = Len(log[section])
  <2>1. log[section] \in Seq(Addresses)  BY <1>4
  <2> QED BY <2>1
<1>8. i < n
  <2>1. section \in 1 .. Len(log) - 1  BY <1>4, <1>5
  <2>2. elementCount[read_stream.header] = n  BY <1>3, <1>7, <2>1 DEF Chained
  <2>3. ~ (i + 1 > n)  BY <1>6, <2>2 DEF GetNext, AtEnd
  <2> QED BY <2>3
<1>9. i + 1 \in 1 .. n /\ n > 0 /\ (i + 1) - 1 = i  BY <1>8
<1>10. sizes[section] = size
  <2>1. sizes[section] \in Sizes  BY <1>4, <1>7, <1>9
  <2> QED BY <1>5, <2>1, Lengths
<1>11. PICK a : a = log[section][i + 1]  OBVIOUS
<1>12. a = Following(PlaceOf(read_stream), size)
  <2>1. log[section][i + 1] = Following(PlaceAfter(headers, log, sizes, section, i), sizes[section])
    BY <1>3, <1>4, <1>7, <1>9 DEF Chained
  <2>2. PlaceOf(read_stream) = PlaceAfter(headers, log, sizes, section, i)
    BY <1>3, <1>6 DEF Chained
  <2> QED BY <1>10, <1>11, <2>1, <2>2
<1>13. a[1] <= Len(next)
  <2>1. Passed(a, size)  BY <1>2, <1>4, <1>7, <1>9, <1>10, <1>11 DEF PlacesInv, AllPassed
  <2>2. write_stream.page = Len(next) /\ Len(next) \in Nat  BY <1>2 DEF PlacesInv, Pages
  <2> QED BY <2>1, <2>2 DEF Passed
<1>14. PICK moved : moved = Moved(read_stream, Followed(read_stream), size)  OBVIOUS
<1>15. /\ moved \in Streams /\ a = Returned(moved, size)
       /\ PlaceOf(moved) = <<a[1], a[2] + size>>
       /\ moved.elementIndex = read_stream.elementIndex /\ moved.header = read_stream.header
  BY <1>3, <1>12, <1>13, <1>14, ReaderMoves
<1>16. read_stream' = [moved EXCEPT !.elementIndex = @ + 1] /\ returned' = a
  BY <1>14, <1>15 DEF GetNext
<1>17. /\ read_stream' \in Streams /\ read_stream'.elementIndex = i + 1
       /\ read_stream'.header = read_stream.header
       /\ PlaceOf(read_stream') = <<a[1], a[2] + size>>
  <2>1. moved.elementIndex = i /\ i + 1 \in Nat  BY <1>6, <1>15
  <2>2. /\ read_stream' \in Streams /\ read_stream'.elementIndex = i + 1
        /\ read_stream'.header = moved.header
        /\ read_stream'.page = moved.page /\ read_stream'.offsetInPage = moved.offsetInPage
    BY <1>15, <1>16, <2>1 DEF Streams
  <2> QED BY <1>15, <2>2 DEF PlaceOf
<1>18. PlaceAfter(headers, log, sizes, section, i + 1) = <<a[1], a[2] + size>>
  <2>1. i + 1 # 0  BY <1>9
  <2> QED BY <1>10, <1>11, <2>1 DEF PlaceAfter
<1>19. Chained(headers)'  BY <1>1, <1>3, <1>17, <1>18 DEF Chained, PlaceOf
<1>20. \E h \in [1 .. Len(log') -> DOMAIN elementCount'] : Chained(h)'  BY <1>1, <1>3, <1>19
<1>21. i + 1 \in 0 .. Len(log[section])  BY <1>7, <1>9
<1>22. ChainInv'  BY <1>1, <1>2, <1>4, <1>17, <1>20, <1>21 DEF ChainInv
<1> QED BY <1>5, <1>6, <1>7, <1>8, <1>11, <1>16, <1>17, <1>22

\* and at its end: the stream goes to the header of the next section.
LEMMA GetNullChain ==
  ASSUME ChainInv, NEW size \in Sizes, GetNull(size)
  PROVE  /\ ChainInv'
         /\ section < Len(log) /\ read_stream.elementIndex = Len(log[section])
         /\ read_stream'.elementIndex = 0
<1>1. /\ next' = next /\ elementCount' = elementCount /\ write_stream' = write_stream
      /\ log' = log /\ sizes' = sizes /\ section' = section + 1
  BY DEF GetNull
<1>2. PlacesInv /\ PlacesInv'  BY <1>1, ReaderPlaces DEF ChainInv
<1>3. PICK headers \in [1 .. Len(log) -> DOMAIN elementCount] : Chained(headers)
  BY DEF ChainInv
<1>4. /\ log \in Seq(Seq(Addresses)) /\ Len(log) \in Nat
      /\ section \in 1 .. Len(log) /\ read_stream \in Streams
      /\ read_stream.elementIndex \in 0 .. Len(log[section])
      /\ write_stream.elementIndex = Len(log[Len(log)])
  BY <1>2 DEF ChainInv, PlacesInv, Sections
<1>5. section < Len(log)  BY DEF GetNull, Readable
<1>6. section \in 1 .. Len(log) - 1 /\ section + 1 \in 1 .. Len(log)  BY <1>4, <1>5
<1>7. PICK n \in Nat : n = Len(log[section])
  <2>1. log[section] \in Seq(Addresses)  BY <1>4
  <2> QED BY <2>1
<1>8. read_stream.elementIndex = n
  <2>1. elementCount[read_stream.header] = n  BY <1>3, <1>6, <1>7 DEF Chained
  <2>2. read_stream.elementIndex + 1 > n  BY <2>1 DEF GetNull, AtEnd
  <2> QED BY <1>4, <1>7, <2>2
<1>9. PICK a : a = headers[section + 1]  OBVIOUS
<1>10. a = Following(PlaceOf(read_stream), HeaderSize)
  <2>1. a = Following(PlaceAfter(headers, log, sizes, section, n), HeaderSize)
    BY <1>3, <1>6, <1>7, <1>9 DEF Chained
  <2>2. PlaceOf(read_stream) = PlaceAfter(headers, log, sizes, section, n)
    BY <1>3, <1>8 DEF Chained
  <2> QED BY <2>1, <2>2
<1>11. a[1] <= Len(next)
  <2>1. a \in DOMAIN elementCount  BY <1>3, <1>6, <1>9
  <2>2. Passed(a, HeaderSize)  BY <1>2, <2>1 DEF PlacesInv, AllPassed
  <2>3. write_stream.page = Len(next) /\ Len(next) \in Nat  BY <1>2 DEF PlacesInv, Pages
  <2> QED BY <2>2, <2>3 DEF Passed
<1>12. PICK moved : moved = Moved(read_stream, Followed(read_stream), HeaderSize)  OBVIOUS
<1>13. /\ moved \in Streams /\ a \in Addresses /\ a = Returned(moved, HeaderSize)
       /\ PlaceOf(moved) = <<a[1], a[2] + HeaderSize>>
  BY <1>3, <1>10, <1>11, <1>12, ReaderMoves
<1>14. read_stream' = [moved EXCEPT !.elementIndex = 0, !.header = a]
  BY <1>12, <1>13 DEF GetNull
<1>15. /\ read_stream' \in Streams /\ read_stream'.elementIndex = 0 /\ read_stream'.header = a
       /\ PlaceOf(read_stream') = <<a[1], a[2] + HeaderSize>>
  <2>1. /\ read_stream' \in Streams /\ read_stream'.elementIndex = 0 /\ read_stream'.header = a
        /\ read_stream'.page = moved.page /\ read_stream'.offsetInPage = moved.offsetInPage
    BY <1>13, <1>14 DEF Streams
  <2> QED BY <1>13, <2>1 DEF PlaceOf
<1>16. PlaceAfter(headers, log, sizes, section + 1, 0) = <<a[1], a[2] + HeaderSize>>
  BY <1>9 DEF PlaceAfter
<1>17. Chained(headers)'  BY <1>1, <1>3, <1>9, <1>15, <1>16 DEF Chained, PlaceOf
<1>18. \E h \in [1 .. Len(log') -> DOMAIN elementCount'] : Chained(h)'  BY <1>1, <1>3, <1>17
<1>19. 0 \in 0 .. Len(log[section + 1])
  <2>1. log[section + 1] \in Seq(Addresses)  BY <1>4, <1>6
  <2>2. Len(log[section + 1]) \in Nat  BY <2>1
  <2> QED BY <2>2
<1>20. ChainInv'  BY <1>1, <1>2, <1>4, <1>6, <1>15, <1>18, <1>19 DEF ChainInv
<1> QED BY <1>5, <1>7, <1>8, <1>15, <1>20

\* The chain is an invariant: whatever the writer adds and wherever readers
\* are forked, both streams stay on one path through the pages.
THEOREM ChainInvariance == Spec => []ChainInv
<1>1. ASSUME ChainInv, [Next]_vars PROVE ChainInv'
  <2>1. ASSUME NEW size \in Sizes, Insert(size) PROVE ChainInv'  BY <1>1, <2>1, InsertChain
  <2>2. CASE Cut  BY <1>1, <2>2, CutChain
  <2>3. CASE CopyStream  BY <1>1, <2>3, CopyChain
  <2>4. ASSUME NEW size \in Sizes, GetNext(size) PROVE ChainInv'  BY <1>1, <2>4, GetNextChain
  <2>5. ASSUME NEW size \in Sizes, GetNull(size) PROVE ChainInv'  BY <1>1, <2>5, GetNullChain
  <2>6. CASE UNCHANGED vars
    <3>1. PlacesInv'  BY <1>1, <2>6, ReaderPlaces DEF ChainInv, vars, historyVars
    <3>2. PICK headers \in [1 .. Len(log) -> DOMAIN elementCount] : Chained(headers)
      BY <1>1 DEF ChainInv
    <3>3. Chained(headers)'  BY <2>6, <3>2 DEF Chained, vars, historyVars
    <3>4. \E h \in [1 .. Len(log') -> DOMAIN elementCount'] : Chained(h)'
      BY <2>6, <3>2, <3>3 DEF vars, historyVars
    <3> QED BY <1>1, <2>6, <3>1, <3>4 DEF ChainInv, vars, historyVars
  <2> QED BY <1>1, <2>1, <2>2, <2>3, <2>4, <2>5, <2>6 DEF Next, Write, Read
<1> QED BY InitChain, <1>1, PTL DEF Spec

\* The stream archiver implements the log of sections: every insertion, cut,
\* copy and read is a step of the log, so a reader gets exactly the addresses
\* the writer got, in order, and NULL once at the end of each section.
THEOREM StreamIsALog == Spec => ImplementsSectionLog
<1>1. Init => Log!LogInit
  BY DEF Init, Log!LogInit, Log!Nothing, NULL
<1>2. ASSUME ChainInv, [Next]_vars PROVE [Log!LogNext]_(Log!logVars)
  <2>1. ASSUME NEW size \in Sizes, Insert(size) PROVE Log!AppendElement
    <3>1. PICK a, last, n : /\ a = Following(PlaceOf(write_stream), size)
                            /\ last = Len(log) /\ n = Len(log[last])
      OBVIOUS
    <3>2. PlacesInv  BY <1>2 DEF ChainInv
    <3>3. /\ n \in Nat /\ Len(log'[last]) = n + 1 /\ log'[last][n + 1] = a
      BY <2>1, <3>1, <3>2, InsertFacts
    <3>4. log'[last] # <<>>  BY <3>3
    <3>5. log' = [log EXCEPT ![last] = Append(@, a)]
      <4>1. PICK moved : moved = Moved(write_stream, NewPage, size)  OBVIOUS
      <4>2. log' = [log EXCEPT ![last] = Append(@, Returned(moved, size))]
        BY <2>1, <3>1, <4>1 DEF Insert
      <4>3. /\ next' = Linked(write_stream, size)
            /\ write_stream' = [moved EXCEPT !.elementIndex = @ + 1]
        BY <2>1, <4>1 DEF Insert
      <4>4. moved \in Streams
        <5>1. /\ write_stream \in Streams /\ write_stream.offsetInPage <= PageSize
              /\ write_stream.page = Len(next) /\ next \in Seq(Nat)
          BY <3>2, Lengths DEF PlacesInv, Pages
        <5>2. NewPage = write_stream.page + 1  BY <5>1 DEF NewPage
        <5> QED BY <4>1, <5>1, <5>2, MoveFacts
      <4>5. /\ write_stream'.page = moved.page
            /\ write_stream'.offsetInPage = moved.offsetInPage
        BY <4>3, <4>4 DEF Streams
      <4>6. a = Returned(moved, size)  BY <3>1, <3>2, <4>1, <4>3, <4>5, WriterMoves
      <4> QED BY <4>2, <4>6
    <3>6. a = log'[last][Len(log'[last])]  BY <3>3
    <3>7. read_stream' = read_stream /\ section' = section /\ returned' = returned
      BY <2>1 DEF Insert
    <3> QED BY <3>1, <3>4, <3>5, <3>6, <3>7 DEF Log!AppendElement
  <2>2. ASSUME Cut PROVE Log!EndSection  BY <2>2 DEF Cut, Log!EndSection
  <2>3. ASSUME CopyStream PROVE Log!Fork
    <3>1. Len(log[Len(log)]) = 0  BY <2>3 DEF CopyStream
    <3>2. write_stream.elementIndex = 0  BY <1>2, <3>1 DEF ChainInv
    <3> QED BY <2>3, <3>2 DEF CopyStream, Log!Fork
  <2>4. ASSUME NEW size \in Sizes, GetNext(size) PROVE Log!ReadElement
    <3>1. /\ section < Len(log) /\ read_stream.elementIndex < Len(log[section])
          /\ returned' = log[section][read_stream.elementIndex + 1]
          /\ read_stream'.elementIndex = read_stream.elementIndex + 1
      BY <1>2, <2>4, GetNextChain
    <3>2. section' = section /\ log' = log  BY <2>4 DEF GetNext, historyVars
    <3> QED BY <3>1, <3>2 DEF Log!ReadElement
  <2>5. ASSUME NEW size \in Sizes, GetNull(size) PROVE Log!ReadEnd
    <3>1. /\ section < Len(log) /\ read_stream.elementIndex = Len(log[section])
          /\ read_stream'.elementIndex = 0
      BY <1>2, <2>5, GetNullChain
    <3>2. section' = section + 1 /\ log' = log /\ returned' = <<>>
      BY <2>5 DEF GetNull, NULL
    <3> QED BY <3>1, <3>2 DEF Log!ReadEnd, Log!Nothing
  <2>6. CASE UNCHANGED vars  BY <2>6 DEF vars, historyVars, Log!logVars
  <2> QED BY <1>2, <2>1, <2>2, <2>3, <2>4, <2>5, <2>6 DEF Next, Write, Read, Log!LogNext
<1> QED BY ChainInvariance, <1>1, <1>2, PTL DEF Spec, ImplementsSectionLog, Log!LogSpec

-----------------------------------------------------------------------------

(***************************************************************************)
(* The recursion.                                                          *)
(***************************************************************************)
\* A directory that is being read: its number in the order of the files, and
\* the child that is next.  A moment of the recursion: the path of directories
\* that are being read, and how many files were read before.
PathFrames == [num : Nat \ {0}, next : Nat \ {0}]
Moments == [path : Seq(PathFrames), read : Nat \ {0}]

\* The files in the order they are met in; the root is the first.
Visiting(met, m) == Top(m.path).next <= Len(Children(met[Top(m.path).num]))
ChildAt(met, m) == Children(met[Top(m.path).num])[Top(m.path).next]

ToNextChild(path) == WithTop(path, [Top(path) EXCEPT !.next = @ + 1])

\* One iteration of either recursion, or its return.
AfterMoment(met, m) ==
  IF Visiting(met, m)
    THEN [ path |-> IF tree.is_dir[ChildAt(met, m)]
                      THEN Append(m.path, [num |-> m.read + 1, next |-> 1])
                      ELSE ToNextChild(m.path),
           read |-> m.read + 1 ]
    ELSE [ path |-> IF Len(m.path) = 1 THEN <<>> ELSE ToNextChild(Pop(m.path)), read |-> m.read ]

MomentOK(met, m) ==
  /\ m.read <= Len(met)
  /\ \A k \in 1 .. Len(m.path) :
       /\ m.path[k].num \in 1 .. m.read /\ tree.is_dir[met[m.path[k].num]]
       /\ m.path[k].next <= Len(Children(met[m.path[k].num])) + 1
  /\ \A k \in 1 .. Len(m.path) - 1 :
       /\ m.path[k].next <= Len(Children(met[m.path[k].num]))
       /\ Children(met[m.path[k].num])[m.path[k].next] = met[m.path[k + 1].num]
  /\ \A k, j \in 1 .. Len(m.path) : k < j => m.path[k].num < m.path[j].num
  /\ m.path # <<>> => m.path[1].num = 1

Walk(met, walk) ==
  /\ met \in Seq(Nodes) /\ Len(met) >= 1 /\ met[1] = 1
  /\ walk \in Seq(Moments) /\ Len(walk) >= 1
  /\ walk[1] = [path |-> << [num |-> 1, next |-> 1] >>, read |-> 1]
  /\ \A k \in 1 .. Len(walk) : MomentOK(met, walk[k])
  /\ \A k \in 1 .. Len(walk) - 1 :
       /\ walk[k].path # <<>> /\ walk[k + 1] = AfterMoment(met, walk[k])
       /\ Visiting(met, walk[k]) => met[walk[k].read + 1] = ChildAt(met, walk[k])
  /\ Top(walk).read = Len(met)

(***************************************************************************)
(* The stream.                                                             *)
(***************************************************************************)
\* The sections of the n-th file, from its dentry on.
DentryAt(n) == 4 * n - 5
NameAt(n) == 4 * n - 4
ExtentsAt(n) == 4 * n - 3
CountAt(n) == 4 * n - 2

\* What is counted so far of the n-th file.
CountIs(met, path, n, x) ==
  /\ \A k \in 1 .. Len(path) : path[k].num = n => x = path[k].next - 1
  /\ (\A k \in 1 .. Len(path) : path[k].num # n) =>
       x = IF tree.is_dir[met[n]] THEN Len(Children(met[n])) ELSE -1

StoredFile(lg, met, path, n) ==
  /\ n > 1 => /\ lg[DentryAt(n)] = << Element("dentry", met[n], 0) >>
              /\ lg[NameAt(n)] = NameOf(met[n])
  /\ lg[ExtentsAt(n)] = ExtentsOf(met[n])
  /\ CountAt(n) < Len(lg) =>
       \E x \in Int : lg[CountAt(n)] = << Element("count", met[n], x) >> /\ CountIs(met, path, n, x)

Stored(lg, met, path) == \A n \in 1 .. Len(met) : StoredFile(lg, met, path, n)

Kinds == {"none", "null", "garbage", "extent", "count", "dentry", "name"}
Elements == [type : Kinds, of : Nat, n : Int]
\* The sections; there is an open one always.
Logs == { lg \in Seq(Seq(Elements)) : Len(lg) >= 1 }

Positions == [section : Nat, index : Nat]
Iterators == [stream : Positions, current : Elements]

\* An iterator over the extents of a node that has read one at least.
Reads(iterator, node, s) ==
  \/ iterator.current = NullElement
  \/ \E n \in 1 .. tree.extents[node] :
       /\ iterator.stream = [section |-> s, index |-> n]
       /\ iterator.current = Element("extent", node, n)

(***************************************************************************)
(* The writing half.                                                       *)
(***************************************************************************)
CallFrames == [dir : Nat, iterator : Iterators, count : Nat, next : Nat]

\* A call that has entered its directory.
CallOK(met, call, frame) ==
  /\ call.dir = met[frame.num] /\ call.next = frame.next /\ call.count = CountAt(frame.num)
  /\ Reads(call.iterator, met[frame.num], ExtentsAt(frame.num))

Writing(met, path) ==
  /\ pc \in {"traverse", "visit"}
  /\ calls \in Seq(CallFrames) /\ Len(calls) = Len(path) /\ Len(path) >= 1
  /\ Len(sections) = IF pc = "traverse" THEN CountAt(Len(met)) ELSE CountAt(Len(met)) + 1
  /\ \A k \in 1 .. Len(calls) :
       IF pc = "traverse" /\ k = Len(calls)
         THEN /\ path[k] = [num |-> Len(met), next |-> 1]
              /\ calls[k].dir = met[Len(met)] /\ calls[k].next = 1
              /\ calls[k].iterator = Iterator(Start(ExtentsAt(Len(met))))
         ELSE CallOK(met, calls[k], path[k])
  /\ position = Start(1) /\ builds = <<>> /\ built = <<>>

(***************************************************************************)
(* The building half.                                                      *)
(***************************************************************************)
Files == [dentry : Elements, name : Seq(Elements), extents : Seq(Elements)]
BuildFrames == [iterator : Iterators, child_count : Int, i : Int, file : Files]

FileOf(node) ==
  [ dentry  |-> Element("dentry", node, 0),
    name    |-> NameOf(node),
    extents |-> IF tree.is_dir[node] THEN <<>> ELSE ExtentsOf(node) ]

\* A file of which so many parts of the name and extents are read.
FilePart(node, names, extents) ==
  [ dentry  |-> Element("dentry", node, 0),
    name    |-> SubSeq(NameOf(node), 1, names),
    extents |-> SubSeq(ExtentsOf(node), 1, extents) ]

At(s, n) == [section |-> s, index |-> n]

\* The builder has read the first m.read files, and is in the n-th, or behind it.
Entering(met, m) ==
  LET n == m.read
  IN  /\ Top(m.path) = [num |-> n, next |-> 1]
      /\ \/ pc = "build" /\ position = Start(ExtentsAt(n))
         \/ pc = "skip_dir_extents" /\ \E x \in 0 .. tree.extents[met[n]] : position = At(ExtentsAt(n), x)
         \/ pc = "child_count" /\ position = Start(CountAt(n))
         \/ pc = "cut_count" /\ position = At(CountAt(n), 1)

ReadingChild(met, m) ==
  LET n == m.read + 1
      node == ChildAt(met, m)
      file == Top(builds).file
  IN  /\ Visiting(met, m)
      /\ \/ pc = "cut_dentry" /\ position = At(DentryAt(n), 1) /\ file = FilePart(node, 0, 0)
         \/ pc = "name" /\ \E x \in 0 .. tree.parts[node] :
                             position = At(NameAt(n), x) /\ file = FilePart(node, x, 0)
         \/ pc = "place" /\ position = Start(ExtentsAt(n)) /\ file = FilePart(node, tree.parts[node], 0)
         \/ /\ ~ tree.is_dir[node]
            /\ \/ pc = "set_extents" /\ \E x \in 0 .. tree.extents[node] :
                    position = At(ExtentsAt(n), x) /\ file = FilePart(node, tree.parts[node], x)
               \/ pc = "skip_child_count" /\ \E x \in 0 .. 1 :
                    /\ position = At(CountAt(n), x)
                    /\ file = FilePart(node, tree.parts[node], tree.extents[node])

Between(met, m) ==
  /\ position = Start(DentryAt(m.read + 1))
  /\ \/ pc = "child"
     \/ pc = "done" /\ Len(m.path) = 1 /\ ~ Visiting(met, m)

Frames(met, m) ==
  /\ builds \in Seq(BuildFrames)
  /\ Len(builds) = IF pc = "build" THEN Len(m.path) - 1 ELSE Len(m.path)
  /\ \A k \in 1 .. Len(builds) :
       LET num == m.path[k].num
       IN  /\ builds[k].i = m.path[k].next - 1
           /\ Reads(builds[k].iterator, met[num], ExtentsAt(num))
           /\ k < Len(m.path) \/ pc \notin {"skip_dir_extents", "child_count"} =>
                builds[k].child_count = Len(Children(met[num]))
           /\ k < Len(m.path) => builds[k].file.dentry = Element("dentry", met[m.path[k + 1].num], 0)
  /\ built \in Seq(Files) /\ Len(built) = m.read - 1
  /\ \A n \in 1 .. Len(built) : built[n] = FileOf(met[n + 1])

Building(met, walk) ==
  /\ Top(walk).path = <<>> /\ calls = <<>>
  /\ Len(sections) = CountAt(Len(met)) + 1
  /\ \E k \in 1 .. Len(walk) - 1 :
       /\ Frames(met, walk[k])
       /\ Entering(met, walk[k]) \/ ReadingChild(met, walk[k]) \/ Between(met, walk[k])

Starting ==
  /\ pc = "main" /\ sections = << <<>> >> /\ position = Start(1)
  /\ calls = <<>> /\ builds = <<>> /\ built = <<>>

Phase(met, walk) ==
  /\ Walk(met, walk) /\ Stored(sections, met, Top(walk).path)
  /\ Writing(met, Top(walk).path) \/ Building(met, walk)

TraverseInv ==
  /\ tree \in Trees
  /\ sections \in Logs
  /\ ReadAsWritten
  /\ Starting \/ \E met, walk : Phase(met, walk)

-----------------------------------------------------------------------------
\* What TreeAssumption says of the tree at hand.
LEMMA TreeFacts ==
  ASSUME tree \in Trees
  PROVE  /\ Nodes \subseteq Nat \ {0} /\ 1 \in Nodes /\ tree.is_dir[1]
         /\ tree.is_dir \in [Nodes -> BOOLEAN]
         /\ \A node \in Nodes : /\ tree.extents[node] \in Nat /\ tree.parts[node] \in Nat
                                /\ Children(node) \in Seq(Nodes)
<1>1. PICK count \in Nat \ {0} :
        /\ tree.is_dir \in [1 .. count -> BOOLEAN] /\ tree.is_dir[1]
        /\ tree.extents \in [1 .. count -> Nat] /\ tree.parts \in [1 .. count -> Nat]
        /\ tree.children \in [1 .. count -> Seq(1 .. count)]
  BY TreeAssumption
<1>2. Nodes = 1 .. count  BY <1>1 DEF Nodes
<1> QED BY <1>1, <1>2 DEF Children

\* The elements of the tree in the stream.
LEMMA ContentFacts ==
  ASSUME tree \in Trees, NEW node \in Nodes
  PROVE  /\ ExtentsOf(node) \in Seq(Elements) /\ Len(ExtentsOf(node)) = tree.extents[node]
         /\ \A n \in 1 .. tree.extents[node] : ExtentsOf(node)[n] = Element("extent", node, n)
         /\ NameOf(node) \in Seq(Elements) /\ Len(NameOf(node)) = tree.parts[node]
         /\ \A n \in 1 .. tree.parts[node] : NameOf(node)[n] = Element("name", node, n)
<1>1. node \in Nat /\ tree.extents[node] \in Nat /\ tree.parts[node] \in Nat  BY TreeFacts
<1>2. \A n \in Nat : Element("extent", node, n) \in Elements /\ Element("name", node, n) \in Elements
  BY <1>1 DEF Element, Elements, Kinds
<1>3. \A n \in 1 .. tree.extents[node] : n \in Nat  OBVIOUS
<1>4. \A n \in 1 .. tree.parts[node] : n \in Nat  OBVIOUS
<1>5. ExtentsOf(node) \in [1 .. tree.extents[node] -> Elements]  BY <1>2, <1>3 DEF ExtentsOf
<1>6. NameOf(node) \in [1 .. tree.parts[node] -> Elements]  BY <1>2, <1>4 DEF NameOf
<1> QED BY <1>1, <1>5, <1>6 DEF ExtentsOf, NameOf

\* A stack seen from its top.
LEMMA StackFacts ==
  ASSUME NEW S, NEW stack \in Seq(S), stack # <<>>
  PROVE  /\ Len(stack) \in Nat \ {0} /\ Top(stack) = stack[Len(stack)] /\ Top(stack) \in S
         /\ Pop(stack) \in Seq(S) /\ Len(Pop(stack)) = Len(stack) - 1
         /\ \A k \in 1 .. Len(stack) - 1 : Pop(stack)[k] = stack[k]
<1>1. Len(stack) \in Nat \ {0}  OBVIOUS
<1>2. Top(stack) = stack[Len(stack)] /\ Top(stack) \in S  BY <1>1 DEF Top
<1>3. /\ Pop(stack) \in Seq(S) /\ Len(Pop(stack)) = Len(stack) - 1
      /\ \A k \in 1 .. Len(stack) - 1 : Pop(stack)[k] = stack[k]
  <2>1. Pop(stack) = SubSeq(stack, 1, Len(stack) - 1)  BY DEF Pop
  <2>2. Len(stack) - 1 \in Nat /\ 1 .. Len(stack) - 1 \subseteq 1 .. Len(stack)  BY <1>1
  <2>3. \A k \in 1 .. Len(stack) : stack[k] \in S  OBVIOUS
  <2>4. Pop(stack) \in Seq(S)  BY <2>1
  <2>5. Len(Pop(stack)) = Len(stack) - 1
    <3>1. ASSUME NEW n \in Nat, Len(stack) = n + 1 PROVE Len(SubSeq(stack, 1, n)) = n  BY <3>1
    <3>2. Len(stack) = (Len(stack) - 1) + 1  BY <1>1
    <3> QED BY <2>1, <2>2, <3>1, <3>2
  <2>6. \A k \in 1 .. Len(stack) - 1 : Pop(stack)[k] = stack[k]  BY <1>1, <2>1, <2>2
  <2> QED BY <2>4, <2>5, <2>6
<1> QED BY <1>1, <1>2, <1>3

\* A stack with another frame on top.
LEMMA WithTopFacts ==
  ASSUME NEW S, NEW stack \in Seq(S), stack # <<>>, NEW frame \in S
  PROVE  /\ WithTop(stack, frame) \in Seq(S) /\ Len(WithTop(stack, frame)) = Len(stack)
         /\ \A k \in 1 .. Len(stack) :
              WithTop(stack, frame)[k] = IF k = Len(stack) THEN frame ELSE stack[k]
<1>1. Len(stack) \in Nat \ {0}  OBVIOUS
<1> QED BY <1>1 DEF WithTop

\* The path of one moment more.
LEMMA MomentFacts ==
  ASSUME tree \in Trees, NEW met \in Seq(Nodes), NEW m \in Moments, m.path # <<>>, MomentOK(met, m)
  PROVE  /\ Len(m.path) \in Nat \ {0} /\ m.path \in Seq(PathFrames) /\ m.read \in Nat \ {0}
         /\ Top(m.path) = m.path[Len(m.path)] /\ Top(m.path) \in PathFrames
         /\ Top(m.path).num \in 1 .. m.read /\ met[Top(m.path).num] \in Nodes
         /\ Children(met[Top(m.path).num]) \in Seq(Nodes)
         /\ tree.is_dir[met[Top(m.path).num]]
         /\ Top(m.path).next <= Len(Children(met[Top(m.path).num])) + 1
         /\ Visiting(met, m) => ChildAt(met, m) \in Nodes
         /\ ~ Visiting(met, m) => Top(m.path).next = Len(Children(met[Top(m.path).num])) + 1
<1>1. m.path \in Seq(PathFrames) /\ m.read \in Nat \ {0}  BY DEF Moments
<1>2. /\ Len(m.path) \in Nat \ {0} /\ Top(m.path) = m.path[Len(m.path)] /\ Top(m.path) \in PathFrames
  BY <1>1, StackFacts
<1>3. /\ Top(m.path).num \in 1 .. m.read /\ tree.is_dir[met[Top(m.path).num]]
      /\ Top(m.path).next <= Len(Children(met[Top(m.path).num])) + 1
  BY <1>1, <1>2 DEF MomentOK
<1>4. met[Top(m.path).num] \in Nodes  BY <1>1, <1>3 DEF MomentOK
<1>5. Children(met[Top(m.path).num]) \in Seq(Nodes)  BY <1>4, TreeFacts
<1>6. Top(m.path).next \in Nat \ {0}  BY <1>2 DEF PathFrames
<1> QED BY <1>1, <1>2, <1>3, <1>4, <1>5, <1>6 DEF Visiting, ChildAt

\* Files that are met later change nothing of an earlier moment.
LEMMA MetGrows ==
  ASSUME tree \in Trees, NEW met \in Seq(Nodes), NEW node \in Nodes, NEW m \in Moments, MomentOK(met, m)
  PROVE  /\ MomentOK(Append(met, node), m)
         /\ m.path # <<>> => /\ Visiting(Append(met, node), m) = Visiting(met, m)
                             /\ ChildAt(Append(met, node), m) = ChildAt(met, m)
                             /\ AfterMoment(Append(met, node), m) = AfterMoment(met, m)
<1> DEFINE longer == Append(met, node)
<1>1. /\ m.path \in Seq(PathFrames) /\ m.read \in Nat /\ m.read <= Len(met) /\ Len(met) \in Nat
  BY DEF Moments, MomentOK
<1>2. Len(longer) = Len(met) + 1 /\ \A n \in 1 .. Len(met) : longer[n] = met[n]  OBVIOUS
<1>3. \A k \in 1 .. Len(m.path) : m.path[k].num \in 1 .. Len(met)
  BY <1>1 DEF MomentOK
<1>4. \A k \in 1 .. Len(m.path) : longer[m.path[k].num] = met[m.path[k].num]
  BY <1>2, <1>3
<1>5. \A k \in 1 .. Len(m.path) - 1 : k \in 1 .. Len(m.path) /\ k + 1 \in 1 .. Len(m.path)
  BY <1>1
<1> HIDE DEF longer
<1>6. MomentOK(longer, m)
  <2>1. m.read <= Len(longer)  BY <1>1, <1>2
  <2>2. /\ \A k \in 1 .. Len(m.path) :
             /\ m.path[k].num \in 1 .. m.read /\ tree.is_dir[met[m.path[k].num]]
             /\ m.path[k].next <= Len(Children(met[m.path[k].num])) + 1
        /\ \A k \in 1 .. Len(m.path) - 1 :
             /\ m.path[k].next <= Len(Children(met[m.path[k].num]))
             /\ Children(met[m.path[k].num])[m.path[k].next] = met[m.path[k + 1].num]
        /\ \A k, j \in 1 .. Len(m.path) : k < j => m.path[k].num < m.path[j].num
        /\ m.path # <<>> => m.path[1].num = 1
    BY DEF MomentOK
  <2>3. \A k \in 1 .. Len(m.path) :
          /\ m.path[k].num \in 1 .. m.read /\ tree.is_dir[longer[m.path[k].num]]
          /\ m.path[k].next <= Len(Children(longer[m.path[k].num])) + 1
    BY <1>4, <2>2
  <2>4. \A k \in 1 .. Len(m.path) - 1 :
          /\ m.path[k].next <= Len(Children(longer[m.path[k].num]))
          /\ Children(longer[m.path[k].num])[m.path[k].next] = longer[m.path[k + 1].num]
    BY <1>4, <1>5, <2>2
  <2> QED BY <2>1, <2>2, <2>3, <2>4 DEF MomentOK
<1>7. ASSUME m.path # <<>>
      PROVE  /\ Visiting(longer, m) = Visiting(met, m) /\ ChildAt(longer, m) = ChildAt(met, m)
             /\ AfterMoment(longer, m) = AfterMoment(met, m)
  <2>1. longer[Top(m.path).num] = met[Top(m.path).num]
    <3>0. Len(m.path) \in Nat \ {0} /\ Top(m.path) = m.path[Len(m.path)]
      BY <1>1, <1>7, StackFacts
    <3>1. Len(m.path) \in 1 .. Len(m.path)  BY <3>0
    <3> QED BY <1>4, <3>0, <3>1
  <2>2. Visiting(longer, m) = Visiting(met, m) /\ ChildAt(longer, m) = ChildAt(met, m)
    BY <2>1 DEF Visiting, ChildAt
  <2> QED BY <2>2 DEF AfterMoment
<1> QED BY <1>6, <1>7 DEF longer

\* On to the next child: of the directory on top, or of the one below it.
LEMMA NextChildOK ==
  ASSUME tree \in Trees, NEW met \in Seq(Nodes), NEW path \in Seq(PathFrames), path # <<>>,
         NEW read \in Nat, NEW more \in Nat \ {0}, read <= more, more <= Len(met),
         MomentOK(met, [path |-> path, read |-> read]),
         Top(path).next <= Len(Children(met[Top(path).num]))
  PROVE  /\ ToNextChild(path) \in Seq(PathFrames) /\ Len(ToNextChild(path)) = Len(path)
         /\ \A k \in 1 .. Len(path) :
              ToNextChild(path)[k] = IF k = Len(path) THEN [num |-> path[k].num, next |-> path[k].next + 1]
                                     ELSE path[k]
         /\ MomentOK(met, [path |-> ToNextChild(path), read |-> more])
<1> DEFINE top == [num |-> path[Len(path)].num, next |-> path[Len(path)].next + 1]
           new == ToNextChild(path)
<1>1. Len(path) \in Nat \ {0} /\ Top(path) = path[Len(path)] /\ Top(path) \in PathFrames
  BY StackFacts
<1>2. [Top(path) EXCEPT !.next = @ + 1] = top /\ top \in PathFrames  BY <1>1 DEF PathFrames
<1>3. new \in Seq(PathFrames) /\ Len(new) = Len(path)
      /\ \A k \in 1 .. Len(path) : new[k] = IF k = Len(path) THEN top ELSE path[k]
  <2> HIDE DEF top
  <2>1. new = WithTop(path, top)  BY <1>2 DEF ToNextChild
  <2>2. /\ WithTop(path, top) \in Seq(PathFrames) /\ Len(WithTop(path, top)) = Len(path)
        /\ \A k \in 1 .. Len(path) : WithTop(path, top)[k] = IF k = Len(path) THEN top ELSE path[k]
    BY <1>2, WithTopFacts
  <2> QED BY <2>1, <2>2
<1>a. top.num = path[Len(path)].num /\ top.next = path[Len(path)].next + 1  OBVIOUS
<1> HIDE DEF new, top
<1>4. /\ \A k \in 1 .. Len(path) : new[k].num = path[k].num
      /\ \A k \in 1 .. Len(path) : k # Len(path) => new[k] = path[k]
      /\ new[Len(path)].next = path[Len(path)].next + 1
  BY <1>1, <1>3, <1>a
<1>5. MomentOK(met, [path |-> new, read |-> more])
  <2>1. /\ \A k \in 1 .. Len(path) :
             /\ path[k].num \in 1 .. read /\ tree.is_dir[met[path[k].num]]
             /\ path[k].next <= Len(Children(met[path[k].num])) + 1
        /\ \A k \in 1 .. Len(path) - 1 :
             /\ path[k].next <= Len(Children(met[path[k].num]))
             /\ Children(met[path[k].num])[path[k].next] = met[path[k + 1].num]
        /\ \A k, j \in 1 .. Len(path) : k < j => path[k].num < path[j].num
        /\ path # <<>> => path[1].num = 1
    BY DEF MomentOK
  <2>2. path[Len(path)].next <= Len(Children(met[path[Len(path)].num]))  BY <1>1
  <2>3. met[path[Len(path)].num] \in Nodes  BY <1>1, <2>1
  <2>4. Len(Children(met[path[Len(path)].num])) \in Nat /\ path[Len(path)].next \in Nat
    <3>1. Children(met[path[Len(path)].num]) \in Seq(Nodes)  BY <2>3, TreeFacts
    <3>2. path[Len(path)].next \in Nat  BY <1>1 DEF PathFrames
    <3> QED BY <3>1, <3>2
  <2>5. ASSUME NEW k \in 1 .. Len(new)
        PROVE  /\ new[k].num \in 1 .. more /\ tree.is_dir[met[new[k].num]]
               /\ new[k].next <= Len(Children(met[new[k].num])) + 1
    <3> k \in 1 .. Len(path)  BY <1>3
    <3>0. new[k].num = path[k].num /\ path[k].num \in 1 .. read /\ tree.is_dir[met[path[k].num]]
      BY <1>4, <2>1
    <3>1. new[k].num \in 1 .. more /\ tree.is_dir[met[new[k].num]]  BY <3>0
    <3>2. CASE k = Len(path)  BY <1>4, <2>2, <2>4, <3>1, <3>2
    <3>3. CASE k # Len(path)  BY <1>3, <1>4, <2>1, <3>1, <3>3
    <3> QED BY <3>2, <3>3
  <2>6. ASSUME NEW k \in 1 .. Len(new) - 1
        PROVE  /\ new[k].next <= Len(Children(met[new[k].num]))
               /\ Children(met[new[k].num])[new[k].next] = met[new[k + 1].num]
    <3>1. k \in 1 .. Len(path) /\ k + 1 \in 1 .. Len(path) /\ k # Len(path) /\ k \in 1 .. Len(path) - 1
      BY <1>1, <1>3
    <3> QED BY <1>4, <2>1, <3>1
  <2>7. \A k, j \in 1 .. Len(new) : k < j => new[k].num < new[j].num
    BY <1>3, <1>4, <2>1
  <2>8. new # <<>> => new[1].num = 1  BY <1>1, <1>3, <1>4, <2>1
  <2> QED BY <2>5, <2>6, <2>7, <2>8 DEF MomentOK
<1> QED BY <1>3, <1>5 DEF top, new

\* Into a directory: it is the child its parent has next.
LEMMA EnteredOK ==
  ASSUME tree \in Trees, NEW met \in Seq(Nodes), NEW m \in Moments, m.path # <<>>, MomentOK(met, m),
         Visiting(met, m), m.read + 1 <= Len(met), met[m.read + 1] = ChildAt(met, m),
         tree.is_dir[ChildAt(met, m)]
  PROVE  LET path == Append(m.path, [num |-> m.read + 1, next |-> 1])
         IN  path \in Seq(PathFrames) /\ MomentOK(met, [path |-> path, read |-> m.read + 1])
<1> DEFINE frame == [num |-> m.read + 1, next |-> 1]
           path == Append(m.path, frame)
<1>1. /\ Len(m.path) \in Nat \ {0} /\ m.path \in Seq(PathFrames) /\ m.read \in Nat \ {0}
      /\ Top(m.path) = m.path[Len(m.path)] /\ ChildAt(met, m) \in Nodes
      /\ Top(m.path).next <= Len(Children(met[Top(m.path).num]))
  BY MomentFacts DEF Visiting
<1>2. frame \in PathFrames /\ frame.num = m.read + 1 /\ frame.next = 1  BY <1>1 DEF PathFrames
<1>3. Children(ChildAt(met, m)) \in Seq(Nodes)  BY <1>1, TreeFacts
<1>4. /\ \A k \in 1 .. Len(m.path) :
           /\ m.path[k].num \in 1 .. m.read /\ tree.is_dir[met[m.path[k].num]]
           /\ m.path[k].next <= Len(Children(met[m.path[k].num])) + 1
      /\ \A k \in 1 .. Len(m.path) - 1 :
           /\ m.path[k].next <= Len(Children(met[m.path[k].num]))
           /\ Children(met[m.path[k].num])[m.path[k].next] = met[m.path[k + 1].num]
      /\ \A k, j \in 1 .. Len(m.path) : k < j => m.path[k].num < m.path[j].num
      /\ m.path[1].num = 1
  BY DEF MomentOK
<1> HIDE DEF frame
<1>5. /\ path \in Seq(PathFrames) /\ Len(path) = Len(m.path) + 1
      /\ path[Len(m.path) + 1] = frame
      /\ \A k \in 1 .. Len(m.path) : path[k] = m.path[k]
  BY <1>1, <1>2
<1> HIDE DEF path
<1>6. ASSUME NEW k \in 1 .. Len(path)
      PROVE  /\ path[k].num \in 1 .. m.read + 1 /\ tree.is_dir[met[path[k].num]]
             /\ path[k].next <= Len(Children(met[path[k].num])) + 1
  <2>1. CASE k \in 1 .. Len(m.path)
    <3>1. path[k] = m.path[k]  BY <1>5, <2>1
    <3>2. /\ m.path[k].num \in 1 .. m.read /\ tree.is_dir[met[m.path[k].num]]
          /\ m.path[k].next <= Len(Children(met[m.path[k].num])) + 1
      BY <1>4, <2>1
    <3>3. \A n, j : j \in 1 .. m.read => j \in 1 .. m.read + 1  BY <1>1
    <3> QED BY <3>1, <3>2, <3>3, Zenon
  <2>2. CASE k = Len(m.path) + 1
    <3>1. path[k].num = m.read + 1 /\ path[k].next = 1  BY <1>2, <1>5, <2>2
    <3> QED BY <1>1, <1>3, <3>1
  <2> QED BY <1>1, <1>5, <2>1, <2>2
<1>7. ASSUME NEW k \in 1 .. Len(path) - 1
      PROVE  /\ path[k].next <= Len(Children(met[path[k].num]))
             /\ Children(met[path[k].num])[path[k].next] = met[path[k + 1].num]
  <2>1. k \in 1 .. Len(m.path) /\ path[k] = m.path[k]  BY <1>1, <1>5
  <2>2. CASE k = Len(m.path)
    <3>1. path[k + 1].num = m.read + 1  BY <1>2, <1>5, <2>2
    <3>2. path[k] = Top(m.path)  BY <1>1, <2>1, <2>2
    <3> QED BY <1>1, <3>1, <3>2 DEF ChildAt
  <2>3. CASE k # Len(m.path)
    <3>1. k \in 1 .. Len(m.path) - 1 /\ k + 1 \in 1 .. Len(m.path)  BY <1>1, <2>1, <2>3
    <3>2. path[k + 1] = m.path[k + 1]  BY <1>5, <3>1
    <3> QED BY <1>4, <2>1, <3>1, <3>2
  <2> QED BY <2>2, <2>3
<1>8. ASSUME NEW k \in 1 .. Len(path), NEW j \in 1 .. Len(path), k < j
      PROVE  path[k].num < path[j].num
  <2>1. k \in 1 .. Len(m.path) /\ path[k] = m.path[k]  BY <1>1, <1>5, <1>8
  <2>2. CASE j = Len(m.path) + 1
    <3>1. path[j].num = m.read + 1 /\ path[k].num \in 1 .. m.read  BY <1>2, <1>4, <1>5, <2>1, <2>2
    <3> QED BY <1>1, <3>1
  <2>3. CASE j # Len(m.path) + 1
    <3>1. j \in 1 .. Len(m.path)  BY <1>1, <1>5, <2>3
    <3> QED BY <1>4, <1>5, <1>8, <2>1, <3>1
  <2> QED BY <2>2, <2>3
<1>9. path[1].num = 1
  <2>1. 1 \in 1 .. Len(m.path)  BY <1>1
  <2> QED BY <1>4, <1>5, <2>1
<1>10. MomentOK(met, [path |-> path, read |-> m.read + 1])
  BY <1>6, <1>7, <1>8, <1>9 DEF MomentOK
<1> QED BY <1>5, <1>10 DEF path, frame

\* Back to the directory below.
LEMMA ReturnedOK ==
  ASSUME tree \in Trees, NEW met \in Seq(Nodes), NEW m \in Moments, Len(m.path) > 1, MomentOK(met, m)
  PROVE  /\ Pop(m.path) \in Seq(PathFrames) /\ Pop(m.path) # <<>>
         /\ Len(Pop(m.path)) = Len(m.path) - 1
         /\ \A k \in 1 .. Len(m.path) - 1 : Pop(m.path)[k] = m.path[k]
         /\ Top(Pop(m.path)) = m.path[Len(m.path) - 1]
         /\ Top(Pop(m.path)).next <= Len(Children(met[Top(Pop(m.path)).num]))
         /\ MomentOK(met, [path |-> Pop(m.path), read |-> m.read])
<1>1. m.path \in Seq(PathFrames) /\ m.read \in Nat  BY DEF Moments
<1>2. m.path # <<>>  OBVIOUS
<1> DEFINE path == Pop(m.path)
<1>3. /\ path \in Seq(PathFrames) /\ Len(path) = Len(m.path) - 1 /\ Len(m.path) \in Nat
      /\ \A k \in 1 .. Len(m.path) - 1 : path[k] = m.path[k]
  BY <1>1, <1>2, StackFacts
<1> HIDE DEF path
<1>4. path # <<>> /\ Top(path) = m.path[Len(m.path) - 1]
  <2>0. \A n, j \in Nat : n > 1 /\ j = n - 1 => j # 0 /\ j \in 1 .. n - 1  OBVIOUS
  <2>a. Len(path) \in Nat  BY <1>3
  <2>1. Len(path) # 0 /\ Len(path) \in 1 .. Len(m.path) - 1  BY <1>3, <2>0, <2>a, Zenon
  <2> QED BY <1>3, <2>1 DEF Top
<1>5. /\ m.read <= Len(met)
      /\ \A k \in 1 .. Len(m.path) :
           /\ m.path[k].num \in 1 .. m.read /\ tree.is_dir[met[m.path[k].num]]
           /\ m.path[k].next <= Len(Children(met[m.path[k].num])) + 1
      /\ \A k \in 1 .. Len(m.path) - 1 :
           /\ m.path[k].next <= Len(Children(met[m.path[k].num]))
           /\ Children(met[m.path[k].num])[m.path[k].next] = met[m.path[k + 1].num]
      /\ \A k, j \in 1 .. Len(m.path) : k < j => m.path[k].num < m.path[j].num
      /\ m.path[1].num = 1
  BY <1>2 DEF MomentOK
<1>6. Top(path).next <= Len(Children(met[Top(path).num]))
  <2>1. Len(m.path) - 1 \in 1 .. Len(m.path) - 1  BY <1>3
  <2> QED BY <1>4, <1>5, <2>1
<1>7. \A k \in 1 .. Len(path) : k \in 1 .. Len(m.path) /\ path[k] = m.path[k]  BY <1>3
<1>8. \A k \in 1 .. Len(path) - 1 :
        k \in 1 .. Len(m.path) - 1 /\ path[k] = m.path[k] /\ path[k + 1] = m.path[k + 1]
  BY <1>3
<1>9. path[1] = m.path[1]  BY <1>3
<1>10. MomentOK(met, [path |-> path, read |-> m.read])
  <2>1. \A k \in 1 .. Len(path) :
          /\ path[k].num \in 1 .. m.read /\ tree.is_dir[met[path[k].num]]
          /\ path[k].next <= Len(Children(met[path[k].num])) + 1
    BY <1>5, <1>7
  <2>2. \A k \in 1 .. Len(path) - 1 :
          /\ path[k].next <= Len(Children(met[path[k].num]))
          /\ Children(met[path[k].num])[path[k].next] = met[path[k + 1].num]
    BY <1>5, <1>8
  <2>3. \A k, j \in 1 .. Len(path) : k < j => path[k].num < path[j].num  BY <1>5, <1>7
  <2> QED BY <1>5, <1>9, <2>1, <2>2, <2>3 DEF MomentOK
<1> QED BY <1>3, <1>4, <1>6, <1>10 DEF path

\* A moment and the next one.
LEMMA AfterOK ==
  ASSUME tree \in Trees, NEW met \in Seq(Nodes), NEW m \in Moments, m.path # <<>>, MomentOK(met, m),
         Visiting(met, m) => m.read + 1 <= Len(met) /\ met[m.read + 1] = ChildAt(met, m)
  PROVE  AfterMoment(met, m) \in Moments /\ MomentOK(met, AfterMoment(met, m))
<1>1. /\ Len(m.path) \in Nat \ {0} /\ m.path \in Seq(PathFrames) /\ m.read \in Nat \ {0}
      /\ m.read <= Len(met)
  BY MomentFacts DEF MomentOK
<1>2. m = [path |-> m.path, read |-> m.read]  BY DEF Moments
<1>3. CASE Visiting(met, m) /\ tree.is_dir[ChildAt(met, m)]
  <2>1. AfterMoment(met, m) = [path |-> Append(m.path, [num |-> m.read + 1, next |-> 1]), read |-> m.read + 1]
    BY <1>3 DEF AfterMoment
  <2>2. m.read + 1 <= Len(met) /\ met[m.read + 1] = ChildAt(met, m) /\ m.read + 1 \in Nat \ {0}
    BY <1>1, <1>3
  <2>3. /\ Append(m.path, [num |-> m.read + 1, next |-> 1]) \in Seq(PathFrames)
        /\ MomentOK(met, [path |-> Append(m.path, [num |-> m.read + 1, next |-> 1]), read |-> m.read + 1])
    BY <1>3, <2>2, EnteredOK
  <2> QED BY <2>1, <2>2, <2>3 DEF Moments
<1>4. CASE Visiting(met, m) /\ ~ tree.is_dir[ChildAt(met, m)]
  <2>1. AfterMoment(met, m) = [path |-> ToNextChild(m.path), read |-> m.read + 1]
    BY <1>4 DEF AfterMoment
  <2>2. Top(m.path).next <= Len(Children(met[Top(m.path).num]))  BY <1>4 DEF Visiting
  <2>3. /\ m.read \in Nat /\ m.read + 1 \in Nat \ {0} /\ m.read <= m.read + 1 /\ m.read + 1 <= Len(met)
        /\ MomentOK(met, [path |-> m.path, read |-> m.read])
    BY <1>1, <1>2, <1>4
  <2>4. /\ ToNextChild(m.path) \in Seq(PathFrames)
        /\ MomentOK(met, [path |-> ToNextChild(m.path), read |-> m.read + 1])
    BY <1>1, <2>2, <2>3, NextChildOK
  <2> QED BY <2>1, <2>3, <2>4 DEF Moments
<1>5. CASE ~ Visiting(met, m) /\ Len(m.path) = 1
  <2>1. AfterMoment(met, m) = [path |-> <<>>, read |-> m.read]  BY <1>5 DEF AfterMoment
  <2>2. MomentOK(met, [path |-> <<>>, read |-> m.read])  BY <1>1 DEF MomentOK
  <2>3. <<>> \in Seq(PathFrames)  OBVIOUS
  <2> QED BY <1>1, <2>1, <2>2, <2>3 DEF Moments
<1>6. CASE ~ Visiting(met, m) /\ Len(m.path) # 1
  <2>1. AfterMoment(met, m) = [path |-> ToNextChild(Pop(m.path)), read |-> m.read]
    BY <1>6 DEF AfterMoment
  <2>2. Len(m.path) > 1
    <3>1. \A n \in Nat \ {0} : n # 1 => n > 1  OBVIOUS
    <3> QED BY <1>1, <1>6, <3>1, Zenon
  <2>3. /\ Pop(m.path) \in Seq(PathFrames) /\ Pop(m.path) # <<>>
        /\ Top(Pop(m.path)).next <= Len(Children(met[Top(Pop(m.path)).num]))
        /\ MomentOK(met, [path |-> Pop(m.path), read |-> m.read])
    BY <2>2, ReturnedOK
  <2>4. m.read \in Nat /\ m.read <= m.read  BY <1>1
  <2>5. /\ ToNextChild(Pop(m.path)) \in Seq(PathFrames)
        /\ MomentOK(met, [path |-> ToNextChild(Pop(m.path)), read |-> m.read])
    BY <1>1, <2>3, <2>4, NextChildOK
  <2> QED BY <1>1, <2>1, <2>5 DEF Moments
<1> QED BY <1>3, <1>4, <1>5, <1>6

\* The walk so far, and one moment more.
LEMMA WalkGrows ==
  ASSUME tree \in Trees, NEW met, NEW walk, Walk(met, walk), Top(walk).path # <<>>,
         NEW longer, longer = IF Visiting(met, Top(walk)) THEN Append(met, ChildAt(met, Top(walk))) ELSE met
  PROVE  /\ Walk(longer, Append(walk, AfterMoment(met, Top(walk))))
         /\ Top(Append(walk, AfterMoment(met, Top(walk)))) = AfterMoment(met, Top(walk))
<1> DEFINE m == Top(walk)
           new == AfterMoment(met, m)
           after == Append(walk, new)
<1>1. /\ met \in Seq(Nodes) /\ Len(met) \in Nat \ {0} /\ met[1] = 1
      /\ walk \in Seq(Moments) /\ Len(walk) \in Nat \ {0} /\ m = walk[Len(walk)] /\ m.read = Len(met)
  BY DEF Walk, Top
<1>2. m \in Moments /\ MomentOK(met, m)  BY <1>1 DEF Walk
<1> HIDE DEF m
<1>3. Visiting(met, m) => ChildAt(met, m) \in Nodes  BY <1>1, <1>2, MomentFacts DEF m
<1>4. /\ longer \in Seq(Nodes) /\ longer[1] = 1 /\ Len(longer) >= 1
      /\ \A k \in 1 .. Len(met) : longer[k] = met[k]
      /\ Visiting(met, m) => Len(longer) = Len(met) + 1 /\ longer[m.read + 1] = ChildAt(met, m)
      /\ ~ Visiting(met, m) => longer = met
  BY <1>1, <1>3 DEF m
<1>5. ASSUME NEW n \in Moments, MomentOK(met, n)
      PROVE  /\ MomentOK(longer, n)
             /\ n.path # <<>> => /\ Visiting(longer, n) = Visiting(met, n)
                                 /\ ChildAt(longer, n) = ChildAt(met, n)
                                 /\ AfterMoment(longer, n) = AfterMoment(met, n)
  <2>1. CASE Visiting(met, m)
    <3>1. longer = Append(met, ChildAt(met, m))  BY <2>1 DEF m
    <3> QED BY <1>1, <1>3, <1>5, <2>1, <3>1, MetGrows
  <2>2. CASE ~ Visiting(met, m)  BY <1>4, <1>5, <2>2
  <2> QED BY <2>1, <2>2
<1>6. m.path # <<>>  BY DEF m
<1>7. /\ Visiting(longer, m) = Visiting(met, m) /\ ChildAt(longer, m) = ChildAt(met, m)
      /\ AfterMoment(longer, m) = new /\ MomentOK(longer, m)
  BY <1>2, <1>5, <1>6
<1>8. new \in Moments /\ MomentOK(longer, new)
  <2>1. Visiting(longer, m) => m.read + 1 <= Len(longer) /\ longer[m.read + 1] = ChildAt(longer, m)
    BY <1>1, <1>4, <1>7
  <2> QED BY <1>2, <1>4, <1>6, <1>7, <2>1, AfterOK
<1>9. new.read = Len(longer)  BY <1>1, <1>4 DEF AfterMoment
<1> HIDE DEF new
<1>10. /\ after \in Seq(Moments) /\ Len(after) = Len(walk) + 1 /\ after[Len(walk) + 1] = new
       /\ \A k \in 1 .. Len(walk) : after[k] = walk[k]
  BY <1>1, <1>8
<1> HIDE DEF after
<1>11. Top(after) = new  BY <1>10 DEF Top
<1>12. \A k \in 1 .. Len(after) : MomentOK(longer, after[k])
  <2>1. \A k \in 1 .. Len(walk) : walk[k] \in Moments /\ MomentOK(met, walk[k])  BY <1>1 DEF Walk
  <2> QED BY <1>1, <1>5, <1>8, <1>10, <2>1
<1>13. ASSUME NEW k \in 1 .. Len(after) - 1
       PROVE  /\ after[k].path # <<>> /\ after[k + 1] = AfterMoment(longer, after[k])
              /\ Visiting(longer, after[k]) => longer[after[k].read + 1] = ChildAt(longer, after[k])
  <2>1. k \in 1 .. Len(walk) /\ after[k] = walk[k] /\ walk[k] \in Moments /\ MomentOK(met, walk[k])
    BY <1>1, <1>10 DEF Walk
  <2>2. CASE k = Len(walk)
    <3>1. after[k] = m /\ after[k + 1] = new  BY <1>1, <1>10, <2>1, <2>2
    <3> QED BY <1>4, <1>6, <1>7, <3>1
  <2>3. CASE k # Len(walk)
    <3>1. k \in 1 .. Len(walk) - 1 /\ k + 1 \in 1 .. Len(walk)  BY <1>1, <2>1, <2>3
    <3>2. /\ walk[k].path # <<>> /\ walk[k + 1] = AfterMoment(met, walk[k])
          /\ Visiting(met, walk[k]) => met[walk[k].read + 1] = ChildAt(met, walk[k])
      BY <3>1 DEF Walk
    <3>3. after[k + 1] = walk[k + 1]  BY <1>10, <3>1
    <3>4. /\ Visiting(longer, walk[k]) = Visiting(met, walk[k])
          /\ ChildAt(longer, walk[k]) = ChildAt(met, walk[k])
          /\ AfterMoment(longer, walk[k]) = AfterMoment(met, walk[k])
      BY <1>5, <2>1, <3>2
    <3>5. ASSUME Visiting(met, walk[k]) PROVE longer[walk[k].read + 1] = met[walk[k].read + 1]
      <4>1. walk[k + 1].read = walk[k].read + 1  BY <3>2, <3>5 DEF AfterMoment
      <4>2. walk[k + 1].read <= Len(met) /\ walk[k].read \in Nat \ {0}
        BY <1>1, <2>1, <3>1 DEF Walk, MomentOK, Moments
      <4> QED BY <1>1, <1>4, <4>1, <4>2
    <3> QED BY <2>1, <3>2, <3>3, <3>4, <3>5
  <2> QED BY <2>2, <2>3
<1>14. after[1] = walk[1]  BY <1>1, <1>10
<1>15. Len(after) >= 1  BY <1>1, <1>10
<1>16. walk[1] = [path |-> << [num |-> 1, next |-> 1] >>, read |-> 1]  BY DEF Walk
<1>17. Walk(longer, after)  BY <1>4, <1>9, <1>10, <1>11, <1>12, <1>13, <1>14, <1>15, <1>16 DEF Walk
<1> QED BY <1>11, <1>17 DEF after, new, m

(***************************************************************************)
(* What the calls of the writer make of the sections.                      *)
(***************************************************************************)
\* A section is closed.
LEMMA SectionFacts ==
  ASSUME NEW lg \in Logs, NEW elements \in Seq(Elements)
  PROVE  /\ Section(lg, elements) \in Logs /\ Len(Section(lg, elements)) = Len(lg) + 1
         /\ Section(lg, elements)[Len(lg)] = elements
         /\ \A s \in 1 .. Len(lg) - 1 : Section(lg, elements)[s] = lg[s]
<1>1. lg \in Seq(Seq(Elements)) /\ Len(lg) \in Nat \ {0}  BY DEF Logs
<1>2. <<>> \in Seq(Elements)  OBVIOUS
<1> DEFINE closed == [lg EXCEPT ![Len(lg)] = elements]
<1>3. /\ closed \in Seq(Seq(Elements)) /\ Len(closed) = Len(lg)
      /\ \A s \in 1 .. Len(lg) : closed[s] = IF s = Len(lg) THEN elements ELSE lg[s]
  BY <1>1
<1> HIDE DEF closed
<1>4. /\ Append(closed, <<>>) \in Seq(Seq(Elements)) /\ Len(Append(closed, <<>>)) = Len(lg) + 1
      /\ \A s \in 1 .. Len(lg) : Append(closed, <<>>)[s] = closed[s]
  BY <1>1, <1>2, <1>3
<1>5. Section(lg, elements) = Append(closed, <<>>)  BY DEF Section, closed
<1> QED BY <1>1, <1>3, <1>4, <1>5 DEF Logs

\* A file all of whose sections are closed stays what it is.
LEMMA ClosedFile ==
  ASSUME NEW lg \in Logs, NEW elements \in Seq(Elements), NEW met, NEW path, NEW n \in Nat \ {0},
         CountAt(n) < Len(lg), StoredFile(lg, met, path, n)
  PROVE  StoredFile(Section(lg, elements), met, path, n)
<1> DEFINE more == Section(lg, elements)
<1>1. Len(lg) \in Nat \ {0}  BY DEF Logs
<1>2. \A s \in 1 .. Len(lg) - 1 : more[s] = lg[s]  BY SectionFacts
<1> HIDE DEF more
<1>3. /\ ExtentsAt(n) \in 1 .. Len(lg) - 1 /\ CountAt(n) \in 1 .. Len(lg) - 1
      /\ n > 1 => DentryAt(n) \in 1 .. Len(lg) - 1 /\ NameAt(n) \in 1 .. Len(lg) - 1
  BY <1>1 DEF DentryAt, NameAt, ExtentsAt, CountAt
<1>4. /\ more[ExtentsAt(n)] = lg[ExtentsAt(n)] /\ more[CountAt(n)] = lg[CountAt(n)]
      /\ n > 1 => more[DentryAt(n)] = lg[DentryAt(n)] /\ more[NameAt(n)] = lg[NameAt(n)]
  BY <1>2, <1>3
<1>5. StoredFile(more, met, path, n)  BY <1>4 DEF StoredFile
<1> QED BY <1>5 DEF more

\* Dentry, name and extents of the next file.
LEMMA AddFile ==
  ASSUME tree \in Trees, NEW lg \in Logs, NEW met \in Seq(Nodes), NEW path, NEW node \in Nodes,
         Len(lg) = CountAt(Len(met)) + 1, Stored(lg, met, path)
  PROVE  LET more == Section(Section(Section(lg, << Element("dentry", node, 0) >>), NameOf(node)), ExtentsOf(node))
         IN  /\ more \in Logs /\ Len(more) = CountAt(Len(met) + 1)
             /\ Stored(more, Append(met, node), path)
<1> DEFINE dentry == << Element("dentry", node, 0) >>
           one == Section(lg, dentry)
           two == Section(one, NameOf(node))
           three == Section(two, ExtentsOf(node))
           longer == Append(met, node)
<1>1. node \in Nat /\ Len(lg) \in Nat \ {0} /\ Len(met) \in Nat  BY TreeFacts DEF Logs
<1>2. dentry \in Seq(Elements)  BY <1>1 DEF Element, Elements, Kinds
<1>3. NameOf(node) \in Seq(Elements) /\ ExtentsOf(node) \in Seq(Elements)  BY ContentFacts
<1> HIDE DEF dentry
<1>4. /\ one \in Logs /\ Len(one) = Len(lg) + 1 /\ one[Len(lg)] = dentry
  BY <1>2, SectionFacts
<1> HIDE DEF one
<1>5. /\ two \in Logs /\ Len(two) = Len(lg) + 2 /\ two[Len(lg) + 1] = NameOf(node)
      /\ \A s \in 1 .. Len(lg) : two[s] = one[s]
  <2>1. /\ two \in Logs /\ Len(two) = Len(one) + 1 /\ two[Len(one)] = NameOf(node)
        /\ \A s \in 1 .. Len(one) - 1 : two[s] = one[s]
    BY <1>3, <1>4, SectionFacts
  <2> QED BY <1>1, <1>4, <2>1
<1> HIDE DEF two
<1>6. /\ three \in Logs /\ Len(three) = Len(lg) + 3 /\ three[Len(lg) + 2] = ExtentsOf(node)
      /\ \A s \in 1 .. Len(lg) + 1 : three[s] = two[s]
  <2>1. /\ three \in Logs /\ Len(three) = Len(two) + 1 /\ three[Len(two)] = ExtentsOf(node)
        /\ \A s \in 1 .. Len(two) - 1 : three[s] = two[s]
    BY <1>3, <1>5, SectionFacts
  <2> QED BY <1>1, <1>5, <2>1
<1>7. ASSUME NEW n \in 1 .. Len(met) PROVE StoredFile(three, met, path, n)
  <2>1. n \in Nat \ {0} /\ CountAt(n) < Len(lg) /\ CountAt(n) < Len(lg) + 1 /\ CountAt(n) < Len(lg) + 2
    BY <1>1 DEF CountAt
  <2>2. StoredFile(lg, met, path, n)  BY DEF Stored
  <2>3. StoredFile(one, met, path, n)  BY <1>2, <2>1, <2>2, ClosedFile DEF one
  <2>4. StoredFile(two, met, path, n)  BY <1>3, <1>4, <2>1, <2>3, ClosedFile DEF two
  <2> QED BY <1>3, <1>5, <2>1, <2>4, ClosedFile
<1> HIDE DEF three
<1>8. Len(longer) = Len(met) + 1 /\ longer[Len(met) + 1] = node /\ \A n \in 1 .. Len(met) : longer[n] = met[n]
  OBVIOUS
<1> HIDE DEF longer
<1>9. ASSUME NEW n \in 1 .. Len(met) PROVE StoredFile(three, longer, path, n)
  <2>1. StoredFile(three, met, path, n) /\ longer[n] = met[n]  BY <1>7, <1>8
  <2> QED BY <2>1 DEF StoredFile, CountIs
<1>10. StoredFile(three, longer, path, Len(met) + 1)
  <2> DEFINE n == Len(met) + 1
  <2>1. /\ DentryAt(n) = Len(lg) /\ NameAt(n) = Len(lg) + 1 /\ ExtentsAt(n) = Len(lg) + 2
        /\ ~ CountAt(n) < Len(lg) + 3
    BY <1>1 DEF DentryAt, NameAt, ExtentsAt, CountAt
  <2>2. Len(lg) \in 1 .. Len(lg) /\ Len(lg) \in 1 .. Len(lg) + 1 /\ Len(lg) + 1 \in 1 .. Len(lg) + 1
    BY <1>1
  <2>3. /\ three[Len(lg)] = dentry /\ three[Len(lg) + 1] = NameOf(node)
        /\ three[Len(lg) + 2] = ExtentsOf(node)
    BY <1>4, <1>5, <1>6, <2>2
  <2> QED BY <1>6, <1>8, <2>1, <2>3 DEF StoredFile, dentry
<1>11. Stored(three, longer, path)
  <2>1. \A n \in 1 .. Len(longer) : n \in 1 .. Len(met) \/ n = Len(met) + 1  BY <1>1, <1>8
  <2> QED BY <1>9, <1>10, <2>1 DEF Stored
<1>12. Len(three) = CountAt(Len(met) + 1)  BY <1>1, <1>6 DEF CountAt
<1> QED BY <1>6, <1>11, <1>12 DEF three, two, one, dentry, longer

\* The count of the last file.
LEMMA AddCount ==
  ASSUME tree \in Trees, NEW lg \in Logs, NEW met \in Seq(Nodes), Len(met) >= 1, NEW path,
         Len(lg) = CountAt(Len(met)), Stored(lg, met, path),
         NEW x \in Int, CountIs(met, path, Len(met), x)
  PROVE  LET more == Section(lg, << Element("count", met[Len(met)], x) >>)
         IN  more \in Logs /\ Len(more) = CountAt(Len(met)) + 1 /\ Stored(more, met, path)
<1> DEFINE count == << Element("count", met[Len(met)], x) >>
           more == Section(lg, count)
<1>1. met[Len(met)] \in Nat /\ Len(lg) \in Nat \ {0} /\ Len(met) \in Nat \ {0}  BY TreeFacts DEF Logs
<1>2. count \in Seq(Elements)  BY <1>1 DEF Element, Elements, Kinds
<1> HIDE DEF count
<1>3. /\ more \in Logs /\ Len(more) = Len(lg) + 1 /\ more[Len(lg)] = count
      /\ \A s \in 1 .. Len(lg) - 1 : more[s] = lg[s]
  BY <1>2, SectionFacts
<1>4. ASSUME NEW n \in 1 .. Len(met) PROVE StoredFile(more, met, path, n)
  <2>1. StoredFile(lg, met, path, n) /\ n \in Nat \ {0}  BY DEF Stored
  <2>2. CASE n # Len(met)
    <3>1. CountAt(n) < Len(lg)  BY <1>1, <2>1, <2>2 DEF CountAt
    <3> QED BY <1>2, <2>1, <3>1, ClosedFile
  <2>3. CASE n = Len(met)
    <3> HIDE DEF more
    <3>1. /\ ExtentsAt(n) \in 1 .. Len(lg) - 1
          /\ n > 1 => DentryAt(n) \in 1 .. Len(lg) - 1 /\ NameAt(n) \in 1 .. Len(lg) - 1
      BY <1>1, <2>3 DEF DentryAt, NameAt, ExtentsAt, CountAt
    <3>2. /\ more[ExtentsAt(n)] = lg[ExtentsAt(n)]
          /\ n > 1 => more[DentryAt(n)] = lg[DentryAt(n)] /\ more[NameAt(n)] = lg[NameAt(n)]
      BY <1>3, <3>1
    <3>3. more[CountAt(n)] = << Element("count", met[n], x) >> /\ CountIs(met, path, n, x)
      BY <1>3, <2>3 DEF count
    <3> QED BY <2>1, <3>2, <3>3 DEF StoredFile
  <2> QED BY <2>2, <2>3
<1> HIDE DEF more
<1>5. more \in Logs /\ Len(more) = CountAt(Len(met)) + 1 /\ Stored(more, met, path)
  BY <1>3, <1>4 DEF Stored
<1> QED BY <1>5 DEF more, count

\* A directory whose count is not written yet is entered.
LEMMA EnteredStored ==
  ASSUME NEW lg \in Logs, NEW met \in Seq(Nodes), NEW path \in Seq(PathFrames),
         Len(lg) = CountAt(Len(met)), Stored(lg, met, path)
  PROVE  Stored(lg, met, Append(path, [num |-> Len(met), next |-> 1]))
<1> DEFINE longer == Append(path, [num |-> Len(met), next |-> 1])
<1>1. Len(met) \in Nat /\ Len(path) \in Nat  OBVIOUS
<1>2. /\ Len(longer) = Len(path) + 1 /\ longer[Len(path) + 1].num = Len(met)
      /\ \A k \in 1 .. Len(path) : longer[k] = path[k]
  OBVIOUS
<1> HIDE DEF longer
<1>3. ASSUME NEW n \in 1 .. Len(met) PROVE StoredFile(lg, met, longer, n)
  <2>1. StoredFile(lg, met, path, n)  BY DEF Stored
  <2>2. ASSUME CountAt(n) < Len(lg), NEW x, CountIs(met, path, n, x) PROVE CountIs(met, longer, n, x)
    <3>1. n # Len(met)  BY <1>1, <2>2 DEF CountAt
    <3>2. \A k \in 1 .. Len(longer) : k \in 1 .. Len(path) \/ k = Len(path) + 1  BY <1>1, <1>2
    <3>3. \A k \in 1 .. Len(longer) : longer[k].num = n => k \in 1 .. Len(path) /\ longer[k] = path[k]
      BY <1>2, <3>1, <3>2
    <3>4. \A k \in 1 .. Len(path) : k \in 1 .. Len(longer)  BY <1>1, <1>2
    <3> QED BY <1>2, <2>2, <3>3, <3>4 DEF CountIs
  <2> QED BY <2>1, <2>2 DEF StoredFile
<1> QED BY <1>3 DEF Stored, longer

\* A directory that was read to its end has all its children counted.
LEMMA ReturnedStored ==
  ASSUME tree \in Trees, NEW lg \in Logs, NEW met \in Seq(Nodes), NEW m \in Moments, m.path # <<>>,
         MomentOK(met, m), ~ Visiting(met, m), Stored(lg, met, m.path)
  PROVE  Stored(lg, met, Pop(m.path))
<1> DEFINE path == m.path
           popped == Pop(m.path)
<1>1. /\ Len(path) \in Nat \ {0} /\ path \in Seq(PathFrames)
      /\ Top(path) = path[Len(path)] /\ tree.is_dir[met[Top(path).num]]
      /\ Top(path).next = Len(Children(met[Top(path).num])) + 1
      /\ Children(met[Top(path).num]) \in Seq(Nodes)
  BY MomentFacts
<1>2. Len(popped) = Len(path) - 1 /\ \A k \in 1 .. Len(path) - 1 : popped[k] = path[k]
  BY <1>1, StackFacts
<1> HIDE DEF popped
<1>3. ASSUME NEW n \in 1 .. Len(met) PROVE StoredFile(lg, met, popped, n)
  <2>1. StoredFile(lg, met, path, n)  BY DEF Stored
  <2>2. ASSUME NEW x, CountIs(met, path, n, x) PROVE CountIs(met, popped, n, x)
    <3>1. /\ \A k \in 1 .. Len(path) : path[k].num = n => x = path[k].next - 1
          /\ (\A k \in 1 .. Len(path) : path[k].num # n) =>
               x = IF tree.is_dir[met[n]] THEN Len(Children(met[n])) ELSE -1
      BY <2>2 DEF CountIs
    <3>2. \A k \in 1 .. Len(popped) : k \in 1 .. Len(path) /\ popped[k] = path[k]  BY <1>1, <1>2
    <3>3. \A k \in 1 .. Len(popped) : popped[k].num = n => x = popped[k].next - 1  BY <3>1, <3>2
    <3>4. ASSUME \A k \in 1 .. Len(popped) : popped[k].num # n
          PROVE  x = IF tree.is_dir[met[n]] THEN Len(Children(met[n])) ELSE -1
      <4>1. CASE path[Len(path)].num = n
        <5>1. Len(path) \in 1 .. Len(path)  BY <1>1
        <5>2. x = path[Len(path)].next - 1  BY <3>1, <4>1, <5>1
        <5>3. path[Len(path)].next = Len(Children(met[n])) + 1 /\ tree.is_dir[met[n]]
              /\ Len(Children(met[n])) \in Nat
          BY <1>1, <4>1
        <5> QED BY <5>2, <5>3
      <4>2. CASE path[Len(path)].num # n
        <5>1. \A k \in 1 .. Len(path) : k \in 1 .. Len(popped) \/ k = Len(path)  BY <1>1, <1>2
        <5>2. \A k \in 1 .. Len(path) : path[k].num # n  BY <3>2, <3>4, <4>2, <5>1
        <5> QED BY <3>1, <5>2
      <4> QED BY <4>1, <4>2
    <3> QED BY <3>3, <3>4 DEF CountIs
  <2> QED BY <2>1, <2>2 DEF StoredFile
<1> QED BY <1>3 DEF Stored, popped

\* One more child is counted, in the section of the directory on top.
LEMMA CountedStored ==
  ASSUME tree \in Trees, NEW lg \in Logs, NEW met \in Seq(Nodes), NEW path \in Seq(PathFrames), path # <<>>,
         NEW read \in Nat, MomentOK(met, [path |-> path, read |-> read]), Stored(lg, met, path),
         NEW new \in Seq(PathFrames), Len(new) = Len(path),
         \A k \in 1 .. Len(path) :
           new[k] = IF k = Len(path) THEN [num |-> path[k].num, next |-> path[k].next + 1] ELSE path[k],
         NEW frame, frame.count = CountAt(Top(path).num), CountAt(Len(met)) < Len(lg)
  PROVE  /\ Counted(lg, frame) \in Logs /\ Len(Counted(lg, frame)) = Len(lg)
         /\ Stored(Counted(lg, frame), met, new)
<1> DEFINE top == Top(path)
           more == Counted(lg, frame)
<1>1. Len(path) \in Nat \ {0} /\ top = path[Len(path)] /\ top \in PathFrames  BY StackFacts
<1>2. /\ top.num \in 1 .. Len(met) /\ top.num \in Nat \ {0} /\ top.next \in Nat
      /\ \A k, j \in 1 .. Len(path) : k < j => path[k].num < path[j].num
      /\ \A k \in 1 .. Len(path) : path[k].num \in Nat
  <2>1. \A k \in 1 .. Len(path) : path[k].num \in 1 .. read  BY DEF MomentOK
  <2>2. read <= Len(met)  BY DEF MomentOK
  <2>3. \A k, j \in 1 .. Len(path) : k < j => path[k].num < path[j].num  BY DEF MomentOK
  <2>4. top.num \in 1 .. read  BY <1>1, <2>1
  <2>5. top.next \in Nat  BY <1>1 DEF PathFrames
  <2>6. \A k \in 1 .. Len(path) : path[k].num \in Nat  BY <2>1
  <2>7. Len(met) \in Nat  OBVIOUS
  <2> HIDE DEF top
  <2>8. top.num \in 1 .. Len(met) /\ top.num \in Nat \ {0}  BY <2>2, <2>4, <2>7
  <2> QED BY <2>3, <2>5, <2>6, <2>8
<1>b. /\ \A k \in 1 .. Len(path) : new[k].num = path[k].num
      /\ \A k \in 1 .. Len(path) : k # Len(path) => new[k] = path[k]
      /\ new[Len(path)].next = path[Len(path)].next + 1
  <2>1. ASSUME NEW k \in 1 .. Len(path) PROVE new[k].num = path[k].num
    <3>1. CASE k = Len(path)
      <4>1. new[k] = [num |-> path[k].num, next |-> path[k].next + 1]  BY <3>1
      <4> QED BY <4>1
    <3>2. CASE k # Len(path)
      <4>1. new[k] = path[k]  BY <3>2
      <4> QED BY <4>1
    <3> QED BY <3>1, <3>2
  <2>2. new[Len(path)] = [num |-> path[Len(path)].num, next |-> path[Len(path)].next + 1]
    <3>1. Len(path) \in 1 .. Len(path)  BY <1>1
    <3> QED BY <3>1
  <2>3. new[Len(path)].next = path[Len(path)].next + 1  BY <2>2
  <2> QED BY <2>1, <2>3
<1>a. CountAt(top.num) < Len(lg)
  <2>1. Len(met) \in Nat /\ Len(lg) \in Nat  BY DEF Logs
  <2> QED BY <1>2, <2>1 DEF CountAt
<1>3. PICK x \in Int : lg[CountAt(top.num)] = << Element("count", met[top.num], x) >> /\ CountIs(met, path, top.num, x)
  BY <1>2, <1>a DEF Stored, StoredFile
<1>4. x = top.next - 1
  <2>1. Len(path) \in 1 .. Len(path)  BY <1>1
  <2> QED BY <1>1, <1>3, <2>1 DEF CountIs
<1> DEFINE c == CountAt(top.num)
<1>5. /\ more \in Logs /\ Len(more) = Len(lg)
      /\ \A s \in 1 .. Len(lg) :
           more[s] = IF s = c THEN << Element("count", met[top.num], x + 1) >> ELSE lg[s]
  <2>1. lg \in Seq(Seq(Elements)) /\ Len(lg) \in Nat \ {0}  BY DEF Logs
  <2>2. c \in 1 .. Len(lg)
    <3>1. \A n \in Nat \ {0} : CountAt(n) \in Nat \ {0}  BY DEF CountAt
    <3>2. c \in Nat \ {0}  BY <1>2, <3>1
    <3> HIDE DEF c, top
    <3> QED BY <1>a, <2>1, <3>2 DEF c
  <2>3. met[top.num] \in Nat  BY <1>2, TreeFacts
  <2>4. << Element("count", met[top.num], x + 1) >> \in Seq(Elements)
    BY <1>3, <2>3 DEF Element, Elements, Kinds
  <2>5. [lg[c] EXCEPT ![1].n = @ + 1] = << Element("count", met[top.num], x + 1) >>
    BY <1>3 DEF Element
  <2>6. more = [lg EXCEPT ![c] = << Element("count", met[top.num], x + 1) >>]
    BY <2>5 DEF Counted
  <2> HIDE DEF more, c, top
  <2> QED BY <2>1, <2>2, <2>4, <2>6 DEF Logs
<1> HIDE DEF more
<1>6. ASSUME NEW n \in 1 .. Len(met) PROVE StoredFile(more, met, new, n)
  <2>1. StoredFile(lg, met, path, n) /\ n \in Nat \ {0}  BY DEF Stored
  <2>2. Len(lg) \in Nat /\ Len(met) \in Nat  BY DEF Logs
  <2>3. /\ ExtentsAt(n) \in 1 .. Len(lg) /\ ExtentsAt(n) # c /\ CountAt(n) \in 1 .. Len(lg)
        /\ n > 1 => /\ DentryAt(n) # c /\ DentryAt(n) \in 1 .. Len(lg)
                    /\ NameAt(n) # c /\ NameAt(n) \in 1 .. Len(lg)
        /\ CountAt(n) = c => n = top.num
    <3>1. PICK t \in Nat \ {0} : t = top.num  BY <1>2
    <3>2. c = 4 * t - 2  BY <3>1 DEF CountAt
    <3>3. n <= Len(met) /\ 4 * Len(met) - 2 < Len(lg)  BY <2>2 DEF CountAt
    <3>4. PICK a \in Nat, b \in Nat, i \in Nat \ {0} :
            a = Len(met) /\ b = Len(lg) /\ i = n /\ i <= a /\ 4 * a - 2 < b
      BY <2>1, <2>2, <3>3
    <3>5. 4 * i - 2 = 4 * t - 2 => i = t  OBVIOUS
    <3>6. \A f \in 2 .. 3 : 4 * i - f \in 1 .. b  BY <3>4
    <3>7. i > 1 => /\ 4 * i - 4 \in 1 .. b /\ 4 * i - 5 \in 1 .. b
                   /\ 4 * i - 4 # 4 * t - 2 /\ 4 * i - 5 # 4 * t - 2
      BY <3>4
    <3>8. 4 * i - 3 # 4 * t - 2  OBVIOUS
    <3> HIDE DEF top, c
    <3> QED BY <3>1, <3>2, <3>4, <3>5, <3>6, <3>7, <3>8 DEF DentryAt, NameAt, ExtentsAt, CountAt
  <2>4. /\ more[ExtentsAt(n)] = lg[ExtentsAt(n)]
        /\ n > 1 => more[DentryAt(n)] = lg[DentryAt(n)] /\ more[NameAt(n)] = lg[NameAt(n)]
    BY <1>5, <2>3
  <2>5. CASE n = top.num
    <3>1. more[CountAt(n)] = << Element("count", met[n], x + 1) >>  BY <1>5, <2>3, <2>5
    <3>2. CountIs(met, new, n, x + 1)
      <4>1. Len(path) \in 1 .. Len(path) /\ new[Len(path)].num = n /\ new[Len(path)].next = top.next + 1
        BY <1>1, <1>b, <2>5
      <4>2. ASSUME NEW k \in 1 .. Len(path), k # Len(path) PROVE new[k].num # n
        <5>1. path[k].num < path[Len(path)].num /\ path[k].num \in Nat /\ path[Len(path)].num \in Nat
          BY <1>1, <1>2, <4>1, <4>2
        <5>2. new[k] = path[k]  BY <1>b, <4>2
        <5> QED BY <1>1, <2>5, <5>1, <5>2
      <4>3. x + 1 = new[Len(path)].next - 1  BY <1>2, <1>4, <4>1
      <4> QED BY <4>1, <4>2, <4>3 DEF CountIs
    <3> QED BY <1>3, <2>1, <2>4, <3>1, <3>2 DEF StoredFile
  <2>6. CASE n # top.num
    <3>1. more[CountAt(n)] = lg[CountAt(n)]  BY <1>5, <2>3, <2>6
    <3>2. ASSUME NEW y, CountIs(met, path, n, y) PROVE CountIs(met, new, n, y)
      <4>1. \A k \in 1 .. Len(path) : new[k].num = path[k].num  BY <1>b
      <4>2. new[Len(path)].num # n
        <5>1. Len(path) \in 1 .. Len(path)  BY <1>1
        <5> QED BY <1>1, <2>6, <4>1, <5>1
      <4>3. \A k \in 1 .. Len(path) : new[k].num = n => new[k] = path[k]  BY <1>b, <4>2
      <4> QED BY <3>2, <4>1, <4>3 DEF CountIs
    <3> QED BY <1>5, <2>1, <2>4, <3>1, <3>2 DEF StoredFile
  <2> QED BY <2>5, <2>6
<1>7. Stored(more, met, new)  BY <1>6 DEF Stored
<1> QED BY <1>5, <1>7 DEF more

(***************************************************************************)
(* What stays where it is when the tree does.                              *)
(***************************************************************************)
LEMMA WalkKept ==
  ASSUME tree' = tree, NEW met, NEW walk, Walk(met, walk)
  PROVE  Walk(met, walk)'
<1>1. Nodes' = Nodes /\ \A node : Children(node)' = Children(node)  BY DEF Nodes, Children
<1>2. \A m : /\ Visiting(met, m)' = Visiting(met, m) /\ ChildAt(met, m)' = ChildAt(met, m)
             /\ MomentOK(met, m)' = MomentOK(met, m)
  BY <1>1 DEF Visiting, ChildAt, MomentOK
<1>3. ASSUME NEW m PROVE AfterMoment(met, m)' = AfterMoment(met, m)
  <2>1. (Visiting(met, m)' <=> Visiting(met, m)) /\ ChildAt(met, m)' = ChildAt(met, m)  BY <1>2
  <2>2. CASE Visiting(met, m)  BY <2>1, <2>2 DEF AfterMoment
  <2>3. CASE ~ Visiting(met, m)  BY <2>1, <2>3 DEF AfterMoment
  <2> QED BY <2>2, <2>3
<1> QED BY <1>1, <1>2, <1>3 DEF Walk

\* What is stored is stored after a step that leaves the sections alone.
LEMMA StoredKept ==
  ASSUME tree' = tree, NEW met, NEW path, Stored(sections', met, path)
  PROVE  Stored(sections, met, path)'
<1>1. \A node : /\ Children(node)' = Children(node) /\ NameOf(node)' = NameOf(node)
                /\ ExtentsOf(node)' = ExtentsOf(node)
  BY DEF Children, NameOf, ExtentsOf
<1>2. \A n, x : CountIs(met, path, n, x)' = CountIs(met, path, n, x)  BY <1>1 DEF CountIs
<1> QED BY <1>1, <1>2 DEF Stored, StoredFile

\* An iterator reads on, and stays within the extents of its directory.
LEMMA IteratorReads ==
  ASSUME tree \in Trees, sections \in Logs, NEW node \in Nodes, NEW s \in Nat \ {0},
         s < Len(sections), sections[s] = ExtentsOf(node),
         NEW iterator, iterator \in Iterators, iterator = Iterator(Start(s)) \/ Reads(iterator, node, s)
  PROVE  /\ Advanced(iterator) \in Iterators /\ Reads(Advanced(iterator), node, s)
         /\ Advanced(iterator).current = NullElement \/ Advanced(iterator).current.type = "extent"
<1> DEFINE new == Advanced(iterator)
<1>1. /\ Len(sections) \in Nat /\ tree.extents[node] \in Nat /\ Len(sections[s]) = tree.extents[node]
      /\ \A n \in 1 .. tree.extents[node] :
           /\ sections[s][n] = Element("extent", node, n) /\ Element("extent", node, n) \in Elements
           /\ Element("extent", node, n) # NullElement
  <2>1. \A n \in 1 .. tree.extents[node] :
           /\ ExtentsOf(node)[n] = Element("extent", node, n)
           /\ ExtentsOf(node)[n] \in Elements
    <3>1. ExtentsOf(node) \in Seq(Elements) /\ Len(ExtentsOf(node)) = tree.extents[node]  BY ContentFacts
    <3> QED BY <3>1, ContentFacts
  <2>2. \A n : Element("extent", node, n) # NullElement  BY DEF Element, NullElement
  <2>3. Len(sections) \in Nat  BY DEF Logs
  <2>4. tree.extents[node] \in Nat  BY TreeFacts
  <2>5. Len(sections[s]) = tree.extents[node]  BY ContentFacts
  <2> QED BY <2>1, <2>2, <2>3, <2>4, <2>5
<1>2. CASE iterator.current = NullElement
  <2>1. new = iterator  BY <1>2 DEF Advanced
  <2> QED BY <1>2, <2>1 DEF Reads
<1>3. ASSUME NEW n \in 0 .. tree.extents[node],
             iterator.stream = [section |-> s, index |-> n], iterator.current # NullElement
      PROVE  /\ new \in Iterators /\ Reads(new, node, s)
             /\ new.current = NullElement \/ new.current.type = "extent"
  <2>1. new = [stream |-> NextElement(iterator.stream)[2], current |-> NextElement(iterator.stream)[1]]
    BY <1>3 DEF Advanced
  <2>2. ~ iterator.stream.section >= Len(sections)  BY <1>1, <1>3
  <2>3. CASE n < tree.extents[node]
    <3>1. NextElement(iterator.stream) = << sections[s][n + 1], [section |-> s, index |-> n + 1] >>
      BY <1>1, <1>3, <2>2, <2>3 DEF NextElement
    <3>2. n + 1 \in 1 .. tree.extents[node] /\ n + 1 \in Nat  BY <1>1, <2>3
    <3>3. /\ new.stream = [section |-> s, index |-> n + 1]
          /\ new.current = Element("extent", node, n + 1) /\ new.current \in Elements
      BY <1>1, <2>1, <3>1, <3>2
    <3>4. new \in Iterators  BY <2>1, <3>1, <3>2, <3>3 DEF Iterators, Positions
    <3>5. Reads(new, node, s)  BY <3>2, <3>3 DEF Reads
    <3>6. new.current.type = "extent"  BY <3>3 DEF Element
    <3> QED BY <3>4, <3>5, <3>6
  <2>4. CASE ~ n < tree.extents[node]
    <3>1. NextElement(iterator.stream) = << NullElement, [section |-> s + 1, index |-> 0] >>
      BY <1>1, <1>3, <2>2, <2>4 DEF NextElement, Start
    <3>2. NullElement \in Elements  BY DEF NullElement, Element, Elements, Kinds
    <3>3. new.current = NullElement /\ new = [stream |-> [section |-> s + 1, index |-> 0], current |-> NullElement]
      BY <2>1, <3>1
    <3>4. new \in Iterators  BY <3>2, <3>3 DEF Iterators, Positions
    <3> QED BY <3>3, <3>4 DEF Reads
  <2> QED BY <2>3, <2>4
<1>4. CASE iterator.current # NullElement
  <2>1. CASE iterator = Iterator(Start(s))
    <3>1. iterator.stream = [section |-> s, index |-> 0]  BY <2>1 DEF Iterator, Start
    <3>2. 0 \in 0 .. tree.extents[node]  BY <1>1
    <3> QED BY <1>3, <1>4, <3>1, <3>2
  <2>2. CASE Reads(iterator, node, s)
    <3>1. PICK n \in 1 .. tree.extents[node] : iterator.stream = [section |-> s, index |-> n]
      BY <1>4, <2>2 DEF Reads
    <3>2. n \in 0 .. tree.extents[node]  BY <1>1
    <3> QED BY <1>3, <1>4, <3>1, <3>2
  <2> QED BY <2>1, <2>2
<1> QED BY <1>2, <1>4

(***************************************************************************)
(* The writing half, step by step.                                         *)
(***************************************************************************)
\* What is known while the writer is at work.
LEMMA WriterFacts ==
  ASSUME TraverseInv, pc \in {"traverse", "visit"}
  PROVE  \E met, walk :
           /\ Walk(met, walk) /\ met \in Seq(Nodes) /\ Len(met) \in Nat \ {0}
           /\ Stored(sections, met, Top(walk).path) /\ Writing(met, Top(walk).path)
           /\ Top(walk) \in Moments /\ MomentOK(met, Top(walk)) /\ Top(walk).read = Len(met)
           /\ Top(walk).path # <<>> /\ Top(walk).path \in Seq(PathFrames)
           /\ Len(calls) = Len(Top(walk).path) /\ calls # <<>> /\ calls \in Seq(CallFrames)
           /\ Len(calls) \in Nat \ {0} /\ Top(calls) = calls[Len(calls)] /\ Top(calls) \in CallFrames
<1>1. PICK met, walk : Phase(met, walk)  BY DEF TraverseInv, Starting
<1>2. Writing(met, Top(walk).path)
  <2>1. ~ Building(met, walk)
    BY DEF Building, Entering, ReadingChild, Between
  <2> QED BY <1>1, <2>1 DEF Phase
<1>3. Walk(met, walk) /\ Stored(sections, met, Top(walk).path)  BY <1>1 DEF Phase
<1>4. /\ met \in Seq(Nodes) /\ Len(met) \in Nat \ {0} /\ walk \in Seq(Moments) /\ Len(walk) \in Nat \ {0}
      /\ Top(walk) = walk[Len(walk)] /\ Top(walk).read = Len(met)
  BY <1>3 DEF Walk, Top
<1>5. Top(walk) \in Moments /\ MomentOK(met, Top(walk))  BY <1>3, <1>4 DEF Walk
<1>6. Top(walk).path \in Seq(PathFrames) /\ Top(walk).path # <<>>  BY <1>2, <1>5 DEF Moments, Writing
<1>7. Len(calls) = Len(Top(walk).path) /\ Len(Top(walk).path) >= 1 /\ calls \in Seq(CallFrames)
  BY <1>2 DEF Writing
<1>8. calls # <<>>  BY <1>7
<1>9. Len(calls) \in Nat \ {0} /\ Top(calls) = calls[Len(calls)] /\ Top(calls) \in CallFrames
  BY <1>7, <1>8, StackFacts
<1> QED BY <1>2, <1>3, <1>4, <1>5, <1>6, <1>7, <1>8, <1>9

\* A step of the writer.
LEMMA WriterStep ==
  ASSUME tree \in Trees, tree' = tree, sections' \in Logs, NEW met, NEW walk,
         Walk(met, walk), Stored(sections', met, Top(walk).path),
         Writing(met, Top(walk).path)', ReadAsWritten'
  PROVE  TraverseInv'
<1>1. Phase(met, walk)'  BY WalkKept, StoredKept DEF Phase
<1> QED BY <1>1 DEF TraverseInv

\* main: the extents of the root begin the stream.
LEMMA MapRootStep == TraverseInv /\ MapRoot => TraverseInv'
<1> SUFFICES ASSUME TraverseInv, MapRoot PROVE TraverseInv'  OBVIOUS
<1> DEFINE path == << [num |-> 1, next |-> 1] >>
           m == [path |-> path, read |-> 1]
<1>1. /\ tree \in Trees /\ tree' = tree /\ Starting
      /\ sections' = Section(sections, ExtentsOf(1)) /\ calls' = << Frame(1, Start(1)) >>
      /\ pc' = "traverse" /\ position' = position /\ builds' = builds /\ built' = built
      /\ got' = got /\ asked' = asked
  <2>1. Starting
    <3>1. ASSUME NEW met, NEW walk PROVE ~ Phase(met, walk)
      BY DEF MapRoot, Phase, Writing, Building, Entering, ReadingChild, Between
    <3> QED BY <3>1 DEF TraverseInv
  <2> QED BY <2>1 DEF TraverseInv, MapRoot, readerVars
<1>2. 1 \in Nodes /\ ExtentsOf(1) \in Seq(Elements) /\ tree.is_dir[1] /\ Children(1) \in Seq(Nodes)
  BY <1>1, ContentFacts, TreeFacts
<1>3. sections \in Logs /\ Len(sections) = 1
  <2>1. Len(<< <<>> >>) = 1  OBVIOUS
  <2> QED BY <1>1, <2>1 DEF TraverseInv, Starting
<1>4. sections' \in Logs /\ Len(sections') = 2 /\ sections'[1] = ExtentsOf(1)
  <2>1. /\ Section(sections, ExtentsOf(1)) \in Logs
        /\ Len(Section(sections, ExtentsOf(1))) = Len(sections) + 1
        /\ Section(sections, ExtentsOf(1))[Len(sections)] = ExtentsOf(1)
    BY <1>2, <1>3, SectionFacts
  <2>2. Len(Section(sections, ExtentsOf(1))) = 2  BY <1>3, <2>1
  <2> QED BY <1>1, <1>3, <2>1, <2>2
<1>5. path \in Seq(PathFrames) /\ Len(path) = 1 /\ path[1] = [num |-> 1, next |-> 1]
  BY DEF PathFrames
<1>6. m \in Moments /\ m.path = path /\ m.read = 1  BY <1>5 DEF Moments
<1> HIDE DEF path
<1>7. MomentOK(<< 1 >>, m)
  <2>1. Len(Children(1)) \in Nat  BY <1>2
  <2> HIDE DEF m
  <2>2. \A k \in 1 .. Len(m.path) : k = 1
    <3>1. Len(m.path) = 1  BY <1>5, <1>6
    <3> QED BY <3>1
  <2>3. \A k \in 1 .. Len(m.path) : m.path[k].num = 1 /\ m.path[k].next = 1  BY <1>5, <1>6, <2>2
  <2>4. << 1 >>[1] = 1 /\ Len(<< 1 >>) = 1  OBVIOUS
  <2>5. \A k \in 1 .. Len(m.path) - 1 : FALSE
    <3>1. Len(m.path) = 1  BY <1>5, <1>6
    <3> QED BY <3>1
  <2>6. /\ m.read <= Len(<< 1 >>) /\ m.path[1].num = 1
        /\ \A k \in 1 .. Len(m.path) :
             /\ m.path[k].num \in 1 .. m.read /\ tree.is_dir[<< 1 >>[m.path[k].num]]
             /\ m.path[k].next <= Len(Children(<< 1 >>[m.path[k].num])) + 1
    BY <1>2, <1>5, <1>6, <2>1, <2>3, <2>4
  <2>7. \A k, j \in 1 .. Len(m.path) : k < j => m.path[k].num < m.path[j].num
    <3>1. \A k, j \in 1 .. Len(m.path) : ~ k < j  BY <2>2
    <3> QED BY <3>1
  <2> QED BY <2>5, <2>6, <2>7 DEF MomentOK
<1> DEFINE walk == << m >>
<1>8. walk \in Seq(Moments) /\ Len(walk) = 1 /\ walk[1] = m /\ Top(walk) = m  BY <1>6 DEF Top
<1> HIDE DEF m, walk
<1>9. Walk(<< 1 >>, walk)
  <2>1. << 1 >> \in Seq(Nodes) /\ Len(<< 1 >>) = 1 /\ << 1 >>[1] = 1  BY <1>2
  <2>2. walk[1] = [path |-> << [num |-> 1, next |-> 1] >>, read |-> 1]  BY <1>8 DEF m, path
  <2>3. \A k \in 1 .. Len(walk) : k = 1  BY <1>8
  <2>4. 1 .. Len(walk) - 1 = {}  BY <1>8
  <2>5. \A k \in 1 .. Len(walk) : MomentOK(<< 1 >>, walk[k])  BY <1>7, <1>8, <2>3
  <2>6. Top(walk).read = Len(<< 1 >>) /\ Len(walk) >= 1  BY <1>6, <1>8, <2>1
  <2> QED BY <1>8, <2>1, <2>2, <2>4, <2>5, <2>6 DEF Walk
<1>10. Stored(sections', << 1 >>, path)
  <2>1. /\ ExtentsAt(1) = 1 /\ CountAt(1) = 2 /\ << 1 >>[1] = 1
        /\ \A n \in 1 .. Len(<< 1 >>) : n = 1
    BY DEF ExtentsAt, CountAt
  <2>2. StoredFile(sections', << 1 >>, path, 1)  BY <1>4, <2>1 DEF StoredFile
  <2> QED BY <2>1, <2>2 DEF Stored
<1>11. Writing(<< 1 >>, path)'
  <2>1. Frame(1, Start(1)) \in CallFrames
    BY DEF Frame, Start, Iterator, CallFrames, Iterators, Positions, Element, Elements, Kinds
  <2>2. /\ calls' \in Seq(CallFrames) /\ Len(calls') = 1 /\ calls'[1] = Frame(1, Start(1))
    BY <1>1, <2>1
  <2>3. Len(<< 1 >>) = 1 /\ << 1 >>[1] = 1 /\ ExtentsAt(1) = 1 /\ CountAt(1) = 2  BY DEF ExtentsAt, CountAt
  <2>4. ASSUME NEW k \in 1 .. Len(calls')
        PROVE  /\ calls'[k].dir = << 1 >>[Len(<< 1 >>)] /\ calls'[k].next = 1
               /\ calls'[k].iterator = Iterator(Start(ExtentsAt(Len(<< 1 >>))))
               /\ path[k] = [num |-> Len(<< 1 >>), next |-> 1] /\ k = Len(calls')
    <3>1. k = 1  BY <2>2
    <3> QED BY <1>5, <2>2, <2>3, <3>1 DEF Frame
  <2>5. position' = Start(1) /\ builds' = <<>> /\ built' = <<>>  BY <1>1 DEF Starting
  <2>6. Len(sections') = CountAt(Len(<< 1 >>)) /\ Len(calls') = Len(path) /\ Len(path) >= 1
    BY <1>4, <1>5, <2>2, <2>3
  <2>7. (Start(1))' = Start(1)  BY DEF Start
  <2> QED BY <1>1, <2>2, <2>4, <2>5, <2>6, <2>7 DEF Writing, Iterator, Start, Element
<1>12. ReadAsWritten'  BY <1>1 DEF TraverseInv, ReadAsWritten, NullElement
<1> QED BY <1>1, <1>4, <1>6, <1>8, <1>9, <1>10, <1>11, <1>12, WriterStep

\* traverse is entered: the walk is at its new directory already.
LEMMA EnterTraverseStep == TraverseInv /\ EnterTraverse => TraverseInv'
<1> SUFFICES ASSUME TraverseInv, EnterTraverse PROVE TraverseInv'  OBVIOUS
<1> DEFINE frame == Top(calls)
           first == Advanced(frame.iterator)
           new == [frame EXCEPT !.count = Len(sections), !.iterator = first]
<1>1. /\ tree \in Trees /\ tree' = tree /\ sections \in Logs /\ pc = "traverse" /\ pc' = "visit"
      /\ sections' = Section(sections, << Element("count", frame.dir, 0) >>)
      /\ calls' = WithTop(calls, new) /\ got' = first.current /\ asked' = "extent"
      /\ position' = position /\ builds' = builds /\ built' = built
  BY DEF TraverseInv, EnterTraverse, readerVars
<1>2. PICK met, walk :
           /\ Walk(met, walk) /\ met \in Seq(Nodes) /\ Len(met) \in Nat \ {0}
           /\ Stored(sections, met, Top(walk).path) /\ Writing(met, Top(walk).path)
           /\ Top(walk) \in Moments /\ MomentOK(met, Top(walk)) /\ Top(walk).read = Len(met)
           /\ Top(walk).path # <<>> /\ Top(walk).path \in Seq(PathFrames)
           /\ Len(calls) = Len(Top(walk).path) /\ calls # <<>> /\ calls \in Seq(CallFrames)
           /\ Len(calls) \in Nat \ {0} /\ Top(calls) = calls[Len(calls)] /\ Top(calls) \in CallFrames
  BY <1>1, WriterFacts
<1> DEFINE path == Top(walk).path
           last == Len(calls)
           node == met[Len(met)]
<1>3. last \in 1 .. Len(calls) /\ last \in 1 .. Len(path)  BY <1>2
<1>4. /\ path[last] = [num |-> Len(met), next |-> 1]
      /\ frame.dir = node /\ frame.next = 1 /\ frame.iterator = Iterator(Start(ExtentsAt(Len(met))))
      /\ Len(sections) = CountAt(Len(met))
      /\ \A k \in 1 .. Len(calls) : k # last => CallOK(met, calls[k], path[k])
      /\ position = Start(1) /\ builds = <<>> /\ built = <<>>
  BY <1>1, <1>2, <1>3 DEF Writing
<1>5. node \in Nodes /\ Len(met) \in 1 .. Len(met)  BY <1>2
<1>6. /\ first \in Iterators /\ Reads(first, node, ExtentsAt(Len(met)))
      /\ first.current = NullElement \/ first.current.type = "extent"
  <2>1. ExtentsAt(Len(met)) \in Nat \ {0} /\ ExtentsAt(Len(met)) < Len(sections)
    BY <1>2, <1>4 DEF ExtentsAt, CountAt
  <2>2. sections[ExtentsAt(Len(met))] = ExtentsOf(node)  BY <1>2, <1>5 DEF Stored, StoredFile
  <2>3. frame.iterator \in Iterators  BY <1>2 DEF CallFrames
  <2> QED BY <1>1, <1>4, <1>5, <2>1, <2>2, <2>3, IteratorReads
<1>7. CountIs(met, path, Len(met), 0)
  <2>1. \A k \in 1 .. Len(path) : path[k].num = Len(met) => k = last
    <3>1. \A k \in 1 .. Len(path) : k < last => path[k].num < path[last].num
      BY <1>2, <1>3 DEF MomentOK
    <3>2. path[last].num = Len(met)  BY <1>4
    <3>3. ASSUME NEW k \in 1 .. Len(path), path[k].num = Len(met), k # last PROVE FALSE
      <4>1. k < last  BY <1>2, <3>3
      <4> QED BY <1>2, <3>1, <3>2, <3>3, <4>1
    <3> QED BY <3>3
  <2>2. path[last].next = 1 /\ path[last].num = Len(met)  BY <1>4
  <2> QED BY <1>3, <2>1, <2>2 DEF CountIs
<1>8. sections' \in Logs /\ Len(sections') = CountAt(Len(met)) + 1 /\ Stored(sections', met, path)
  <2>1. Len(met) >= 1 /\ 0 \in Int  BY <1>2
  <2>2. /\ Section(sections, << Element("count", node, 0) >>) \in Logs
        /\ Len(Section(sections, << Element("count", node, 0) >>)) = CountAt(Len(met)) + 1
        /\ Stored(Section(sections, << Element("count", node, 0) >>), met, path)
    BY <1>1, <1>2, <1>4, <1>7, <2>1, AddCount
  <2> QED BY <1>1, <1>4, <2>2
<1>9. new \in CallFrames /\ CallOK(met, new, path[last])
  <2> HIDE DEF first
  <2>1. Len(sections) \in Nat  BY <1>1 DEF Logs
  <2>2. new \in CallFrames  BY <1>2, <1>6, <2>1 DEF CallFrames
  <2>3. new.dir = node /\ new.next = 1 /\ new.count = CountAt(Len(met)) /\ new.iterator = first
    BY <1>2, <1>4 DEF CallFrames
  <2> QED BY <1>4, <1>6, <2>2, <2>3 DEF CallOK
<1> HIDE DEF new, first, frame
<1>10. /\ calls' \in Seq(CallFrames) /\ Len(calls') = Len(path)
       /\ \A k \in 1 .. Len(calls') : calls'[k] = IF k = last THEN new ELSE calls[k]
  <2>0. calls \in Seq(CallFrames) /\ calls # <<>> /\ new \in CallFrames  BY <1>2, <1>9
  <2>1. /\ WithTop(calls, new) \in Seq(CallFrames) /\ Len(WithTop(calls, new)) = Len(calls)
        /\ \A k \in 1 .. Len(calls) : WithTop(calls, new)[k] = IF k = Len(calls) THEN new ELSE calls[k]
    BY <2>0, WithTopFacts
  <2> QED BY <1>1, <1>2, <2>1
<1>11. \A k \in 1 .. Len(calls') : CallOK(met, calls'[k], path[k])
  BY <1>2, <1>4, <1>9, <1>10
<1>12. Writing(met, path)'
  <2>1. \A k \in 1 .. Len(calls') : (CallOK(met, calls[k], path[k]))'
    BY <1>1, <1>11 DEF CallOK, Reads
  <2>2. (Start(1))' = Start(1)  BY DEF Start
  <2>3. Len(path) >= 1  BY <1>2
  <2> QED BY <1>1, <1>4, <1>8, <1>10, <2>1, <2>2, <2>3 DEF Writing
<1>13. ReadAsWritten'  BY <1>1, <1>6 DEF ReadAsWritten, NullElement, Element
<1> QED BY <1>1, <1>2, <1>8, <1>12, <1>13, WriterStep

\* The iterator of traverse goes on.
LEMMA NextExtentStep == TraverseInv /\ NextExtent => TraverseInv'
<1> SUFFICES ASSUME TraverseInv, NextExtent PROVE TraverseInv'  OBVIOUS
<1> DEFINE frame == Top(calls)
           advanced == Advanced(frame.iterator)
           new == [frame EXCEPT !.iterator = advanced]
<1>1. /\ tree \in Trees /\ tree' = tree /\ sections \in Logs /\ sections' = sections
      /\ pc = "visit" /\ pc' = pc
      /\ calls' = WithTop(calls, new) /\ got' = advanced.current /\ asked' = "extent"
      /\ position' = position /\ builds' = builds /\ built' = built
  BY DEF TraverseInv, NextExtent, readerVars
<1>2. PICK met, walk :
           /\ Walk(met, walk) /\ met \in Seq(Nodes) /\ Len(met) \in Nat \ {0}
           /\ Stored(sections, met, Top(walk).path) /\ Writing(met, Top(walk).path)
           /\ Top(walk) \in Moments /\ MomentOK(met, Top(walk)) /\ Top(walk).read = Len(met)
           /\ Top(walk).path # <<>> /\ Top(walk).path \in Seq(PathFrames)
           /\ Len(calls) = Len(Top(walk).path) /\ calls # <<>> /\ calls \in Seq(CallFrames)
           /\ Len(calls) \in Nat \ {0} /\ Top(calls) = calls[Len(calls)] /\ Top(calls) \in CallFrames
  BY <1>1, WriterFacts
<1> DEFINE path == Top(walk).path
           last == Len(calls)
           num == path[last].num
<1>3. last \in 1 .. Len(calls) /\ last \in 1 .. Len(path)  BY <1>2
<1>4. /\ \A k \in 1 .. Len(calls) : CallOK(met, calls[k], path[k])
      /\ Len(sections) = CountAt(Len(met)) + 1
      /\ position = Start(1) /\ builds = <<>> /\ built = <<>>
  BY <1>1, <1>2 DEF Writing
<1>5. num \in 1 .. Len(met) /\ num \in Nat \ {0} /\ met[num] \in Nodes
  <2>1. \A k \in 1 .. Len(path) : path[k].num \in 1 .. Top(walk).read  BY <1>2 DEF MomentOK
  <2>2. num \in 1 .. Len(met)  BY <1>2, <1>3, <2>1
  <2>3. met \in Seq(Nodes)  BY <1>2
  <2> HIDE DEF num
  <2> QED BY <2>2, <2>3
<1>6. /\ advanced \in Iterators /\ Reads(advanced, met[num], ExtentsAt(num))
      /\ advanced.current = NullElement \/ advanced.current.type = "extent"
  <2>1. ExtentsAt(num) \in Nat \ {0} /\ ExtentsAt(num) < Len(sections)
    <3>1. Len(met) \in Nat /\ Len(sections) = CountAt(Len(met)) + 1  BY <1>2, <1>4
    <3>2. num \in 1 .. Len(met)  BY <1>5
    <3> HIDE DEF num
    <3> QED BY <3>1, <3>2 DEF ExtentsAt, CountAt
  <2>2. sections[ExtentsAt(num)] = ExtentsOf(met[num])  BY <1>2, <1>5 DEF Stored, StoredFile
  <2>3. frame.iterator \in Iterators  BY <1>2 DEF CallFrames
  <2>4. Reads(frame.iterator, met[num], ExtentsAt(num))  BY <1>2, <1>3, <1>4 DEF CallOK
  <2> QED BY <1>1, <1>5, <2>1, <2>2, <2>3, <2>4, IteratorReads
<1>7. new \in CallFrames /\ CallOK(met, new, path[last])
  <2> HIDE DEF advanced
  <2>1. new \in CallFrames  BY <1>2, <1>6 DEF CallFrames
  <2>2. new.dir = frame.dir /\ new.next = frame.next /\ new.count = frame.count /\ new.iterator = advanced
    BY <1>2 DEF CallFrames
  <2>3. CallOK(met, frame, path[last])  BY <1>2, <1>3, <1>4
  <2> HIDE DEF new
  <2> QED BY <1>6, <2>1, <2>2, <2>3 DEF CallOK
<1> HIDE DEF new, advanced, frame
<1>8. /\ calls' \in Seq(CallFrames) /\ Len(calls') = Len(path)
      /\ \A k \in 1 .. Len(calls') : calls'[k] = IF k = last THEN new ELSE calls[k]
  <2>0. calls \in Seq(CallFrames) /\ calls # <<>> /\ new \in CallFrames  BY <1>2, <1>7
  <2>1. /\ WithTop(calls, new) \in Seq(CallFrames) /\ Len(WithTop(calls, new)) = Len(calls)
        /\ \A k \in 1 .. Len(calls) : WithTop(calls, new)[k] = IF k = Len(calls) THEN new ELSE calls[k]
    BY <2>0, WithTopFacts
  <2> QED BY <1>1, <1>2, <2>1
<1>9. \A k \in 1 .. Len(calls') : CallOK(met, calls'[k], path[k])
  BY <1>2, <1>4, <1>7, <1>8
<1>10. Writing(met, path)'
  <2>1. \A k \in 1 .. Len(calls') : (CallOK(met, calls[k], path[k]))'
    BY <1>1, <1>9 DEF CallOK, Reads
  <2>2. (Start(1))' = Start(1)  BY DEF Start
  <2>3. Len(path) >= 1  BY <1>2
  <2> QED BY <1>1, <1>4, <1>8, <2>1, <2>2, <2>3 DEF Writing
<1>11. ReadAsWritten'  BY <1>1, <1>6 DEF ReadAsWritten, NullElement, Element
<1>12. Stored(sections', met, path)  BY <1>1, <1>2
<1> QED BY <1>1, <1>2, <1>10, <1>11, <1>12, WriterStep

\* The call on top goes on to its next child.
LEMMA NextCall ==
  ASSUME NEW met, NEW stack \in Seq(CallFrames), stack # <<>>, NEW path \in Seq(PathFrames),
         Len(stack) = Len(path), \A k \in 1 .. Len(stack) : CallOK(met, stack[k], path[k]),
         NEW new, \A k \in 1 .. Len(path) :
           new[k] = IF k = Len(path) THEN [num |-> path[k].num, next |-> path[k].next + 1] ELSE path[k]
  PROVE  LET on == WithTop(stack, [Top(stack) EXCEPT !.next = @ + 1])
         IN  /\ on \in Seq(CallFrames) /\ Len(on) = Len(path)
             /\ \A k \in 1 .. Len(path) : CallOK(met, on[k], new[k])
<1> DEFINE top == [Top(stack) EXCEPT !.next = @ + 1]
           on == WithTop(stack, top)
<1>1. Len(stack) \in Nat \ {0} /\ Top(stack) = stack[Len(stack)] /\ Top(stack) \in CallFrames
  BY StackFacts
<1>2. /\ top \in CallFrames /\ top.dir = Top(stack).dir /\ top.next = Top(stack).next + 1
      /\ top.count = Top(stack).count /\ top.iterator = Top(stack).iterator
  <2>1. ASSUME NEW call \in CallFrames, NEW moved, moved = [call EXCEPT !.next = @ + 1]
        PROVE  /\ moved \in CallFrames /\ moved.dir = call.dir /\ moved.next = call.next + 1
               /\ moved.count = call.count /\ moved.iterator = call.iterator
    <3>1. call.next + 1 \in Nat  BY DEF CallFrames
    <3>2. moved = [dir |-> call.dir, iterator |-> call.iterator, count |-> call.count, next |-> call.next + 1]
      BY <2>1 DEF CallFrames
    <3> QED BY <3>1, <3>2 DEF CallFrames
  <2> QED BY <1>1, <2>1
<1> HIDE DEF top
<1>3. /\ on \in Seq(CallFrames) /\ Len(on) = Len(stack)
      /\ \A k \in 1 .. Len(stack) : on[k] = IF k = Len(stack) THEN top ELSE stack[k]
  <2>1. stack \in Seq(CallFrames) /\ stack # <<>> /\ top \in CallFrames  BY <1>2
  <2>2. \A st \in Seq(CallFrames), f \in CallFrames : st # <<>> =>
          /\ WithTop(st, f) \in Seq(CallFrames) /\ Len(WithTop(st, f)) = Len(st)
          /\ \A k \in 1 .. Len(st) : WithTop(st, f)[k] = IF k = Len(st) THEN f ELSE st[k]
    <3> TAKE st \in Seq(CallFrames), f \in CallFrames
    <3> HAVE st # <<>>
    <3> QED BY WithTopFacts
  <2> QED BY <2>1, <2>2, Zenon
<1> HIDE DEF on
<1>4. CallOK(met, top, new[Len(path)])
  <2> DEFINE frame == path[Len(path)]
             after == [num |-> frame.num, next |-> frame.next + 1]
  <2>1. Len(path) \in 1 .. Len(path)  BY <1>1
  <2>2. new[Len(path)] = after  BY <2>1
  <2>3. CallOK(met, Top(stack), frame)  BY <1>1, <2>1
  <2>4. after.num = frame.num /\ after.next = frame.next + 1  OBVIOUS
  <2> HIDE DEF after, frame
  <2> QED BY <1>2, <2>2, <2>3, <2>4 DEF CallOK
<1>5. ASSUME NEW k \in 1 .. Len(path) PROVE CallOK(met, on[k], new[k])
  <2>1. CASE k = Len(path)  BY <1>3, <1>4, <2>1
  <2>2. CASE k # Len(path)
    <3>1. new[k] = path[k] /\ on[k] = stack[k]  BY <1>3, <2>2
    <3> QED BY <3>1
  <2> QED BY <2>1, <2>2
<1>6. on \in Seq(CallFrames) /\ Len(on) = Len(path)  BY <1>3
<1> QED BY <1>5, <1>6 DEF on, top

\* The calls do not see that a file more is met.
LEMMA CallsGrow ==
  ASSUME NEW met \in Seq(Nodes), NEW node, NEW call, NEW frame, frame.num \in 1 .. Len(met),
         CallOK(met, call, frame)
  PROVE  CallOK(Append(met, node), call, frame)
<1>1. Append(met, node)[frame.num] = met[frame.num]  OBVIOUS
<1> QED BY <1>1 DEF CallOK

\* A child is read: the walk has one moment more, the stream one file more.
LEMMA VisitChildStep == TraverseInv /\ VisitChild => TraverseInv'
<1> SUFFICES ASSUME TraverseInv, VisitChild PROVE TraverseInv'  OBVIOUS
<1> DEFINE frame == Top(calls)
           node  == Children(frame.dir)[frame.next]
           dentry == << Element("dentry", node, 0) >>
           named == Section(Section(sections, dentry), NameOf(node))
           mapped == Section(named, ExtentsOf(node))
           counted == Section(mapped, << Element("count", node, -1) >>)
<1>1. /\ tree \in Trees /\ tree' = tree /\ sections \in Logs /\ pc = "visit" /\ ~ AllVisited(frame)
      /\ IF tree.is_dir[node]
           THEN /\ sections' = mapped
                /\ calls' = Append(calls, Frame(node, ForkFor(named)))
                /\ pc' = "traverse"
           ELSE /\ sections' = Counted(counted, frame)
                /\ calls' = WithTop(calls, [frame EXCEPT !.next = @ + 1])
                /\ pc' = pc
      /\ got' = got /\ asked' = asked
      /\ position' = position /\ builds' = builds /\ built' = built
  BY DEF TraverseInv, VisitChild, readerVars
<1>2. PICK met, walk :
           /\ Walk(met, walk) /\ met \in Seq(Nodes) /\ Len(met) \in Nat \ {0}
           /\ Stored(sections, met, Top(walk).path) /\ Writing(met, Top(walk).path)
           /\ Top(walk) \in Moments /\ MomentOK(met, Top(walk)) /\ Top(walk).read = Len(met)
           /\ Top(walk).path # <<>> /\ Top(walk).path \in Seq(PathFrames)
           /\ Len(calls) = Len(Top(walk).path) /\ calls # <<>> /\ calls \in Seq(CallFrames)
           /\ Len(calls) \in Nat \ {0} /\ Top(calls) = calls[Len(calls)] /\ Top(calls) \in CallFrames
  BY <1>1, WriterFacts
<1> DEFINE m == Top(walk)
           path == m.path
           last == Len(calls)
<1>3. last \in 1 .. Len(calls) /\ last \in 1 .. Len(path)  BY <1>2
<1>4. /\ \A k \in 1 .. Len(calls) : CallOK(met, calls[k], path[k])
      /\ Len(sections) = CountAt(Len(met)) + 1
      /\ position = Start(1) /\ builds = <<>> /\ built = <<>>
  BY <1>1, <1>2 DEF Writing
<1>5. /\ Top(path) = path[last] /\ Top(path).num \in 1 .. Len(met) /\ met[Top(path).num] \in Nodes
      /\ Children(met[Top(path).num]) \in Seq(Nodes) /\ Top(path).next \in Nat
      /\ Visiting(met, m) => ChildAt(met, m) \in Nodes
  <2>1. /\ Top(path) = path[Len(path)] /\ Top(path).num \in 1 .. m.read /\ met[Top(path).num] \in Nodes
        /\ Children(met[Top(path).num]) \in Seq(Nodes) /\ Top(path) \in PathFrames
        /\ Visiting(met, m) => ChildAt(met, m) \in Nodes
    BY <1>1, <1>2, MomentFacts
  <2> QED BY <1>2, <2>1 DEF PathFrames
<1>6. frame.dir = met[Top(path).num] /\ frame.next = Top(path).next /\ frame.count = CountAt(Top(path).num)
  <2>1. CallOK(met, frame, path[last])  BY <1>2, <1>3, <1>4
  <2> QED BY <1>5, <2>1 DEF CallOK
<1>7. Visiting(met, m) /\ ChildAt(met, m) = node /\ node \in Nodes
  <2>1. Visiting(met, m)
    <3>1. ~ frame.next > Len(Children(frame.dir))  BY <1>1 DEF AllVisited
    <3>2. ~ Top(path).next > Len(Children(met[Top(path).num]))  BY <1>6, <3>1
    <3>3. Top(path).next \in Nat /\ Len(Children(met[Top(path).num])) \in Nat  BY <1>5
    <3>4. Top(path).next <= Len(Children(met[Top(path).num]))  BY <3>2, <3>3
    <3> QED BY <3>4 DEF Visiting
  <2>2. ChildAt(met, m) = node  BY <1>6 DEF ChildAt
  <2> QED BY <1>5, <2>1, <2>2
<1>8. PICK longer, after :
        /\ Walk(longer, after) /\ Top(after) = AfterMoment(met, m) /\ longer = Append(met, node)
        /\ longer \in Seq(Nodes) /\ Len(longer) = Len(met) + 1 /\ longer[Len(met) + 1] = node
        /\ \A n \in 1 .. Len(met) : longer[n] = met[n]
  <2> DEFINE longer == Append(met, node)
             after == Append(walk, AfterMoment(met, m))
  <2>1. longer = IF Visiting(met, m) THEN Append(met, ChildAt(met, m)) ELSE met  BY <1>7
  <2>2. Walk(longer, after) /\ Top(after) = AfterMoment(met, m)
    BY <1>1, <1>2, <2>1, WalkGrows
  <2>3. /\ longer \in Seq(Nodes) /\ Len(longer) = Len(met) + 1 /\ longer[Len(met) + 1] = node
        /\ \A n \in 1 .. Len(met) : longer[n] = met[n]
    BY <1>2, <1>7
  <2> QED BY <2>2, <2>3
<1> HIDE DEF frame, node
<1>9. mapped \in Logs /\ Len(mapped) = CountAt(Len(met) + 1) /\ Stored(mapped, longer, path)
  BY <1>1, <1>2, <1>4, <1>7, <1>8, AddFile
<1>10. Len(named) = ExtentsAt(Len(met) + 1)
  <2>1. dentry \in Seq(Elements) /\ NameOf(node) \in Seq(Elements)
    <3>1. node \in Nat  BY <1>1, <1>7, TreeFacts
    <3>2. Element("dentry", node, 0) \in Elements  BY <3>1 DEF Element, Elements, Kinds
    <3> QED BY <1>1, <1>7, <3>2, ContentFacts
  <2> HIDE DEF dentry
  <2>2. Section(sections, dentry) \in Logs /\ Len(Section(sections, dentry)) = Len(sections) + 1
    BY <1>1, <2>1, SectionFacts
  <2>3. Len(named) = Len(sections) + 2
    <3>1. Len(named) = Len(Section(sections, dentry)) + 1  BY <2>1, <2>2, SectionFacts
    <3>2. Len(sections) \in Nat  BY <1>1 DEF Logs
    <3> QED BY <2>2, <3>1, <3>2
  <2> HIDE DEF named
  <2> QED BY <1>2, <1>4, <2>3 DEF CountAt, ExtentsAt
<1>11. ReadAsWritten'  BY <1>1 DEF TraverseInv, ReadAsWritten, NullElement
<1>12. \A k \in 1 .. Len(calls) : CallOK(longer, calls[k], path[k])
  <2>1. \A k \in 1 .. Len(path) : path[k].num \in 1 .. Len(met)  BY <1>2 DEF MomentOK
  <2> QED BY <1>2, <1>4, <1>8, <2>1, CallsGrow
<1> HIDE DEF mapped, named
<1>13. CASE tree.is_dir[node]
  <2> DEFINE entered == [num |-> Len(met) + 1, next |-> 1]
             deeper == Append(path, entered)
             callee == Frame(node, ForkFor(named))
  <2>1. Top(after).path = deeper
    <3>1. AfterMoment(met, m).path = Append(m.path, [num |-> m.read + 1, next |-> 1])
      BY <1>7, <1>13 DEF AfterMoment
    <3> QED BY <1>2, <1>8, <3>1
  <2>2. entered \in PathFrames  BY <1>2 DEF PathFrames
  <2>3. /\ deeper \in Seq(PathFrames) /\ Len(deeper) = Len(path) + 1 /\ deeper[Len(path) + 1] = entered
        /\ \A k \in 1 .. Len(path) : deeper[k] = path[k]
    <3> HIDE DEF entered
    <3> QED BY <1>2, <2>2
  <2>4. Stored(mapped, longer, deeper)
    BY <1>2, <1>8, <1>9, EnteredStored
  <2>5. /\ callee \in CallFrames /\ callee.dir = node /\ callee.next = 1
        /\ callee.iterator = Iterator(Start(ExtentsAt(Len(met) + 1)))
    <3>1. node \in Nat /\ ExtentsAt(Len(met) + 1) \in Nat  BY <1>1, <1>2, <1>7, TreeFacts DEF ExtentsAt
    <3> QED BY <1>10, <3>1 DEF Frame, ForkFor, Start, Iterator, CallFrames, Iterators, Positions, Element, Elements, Kinds
  <2> HIDE DEF callee, deeper, entered
  <2>6. /\ calls' \in Seq(CallFrames) /\ Len(calls') = Len(deeper) /\ calls'[Len(calls) + 1] = callee
        /\ \A k \in 1 .. Len(calls) : calls'[k] = calls[k]
    <3>1. calls' = Append(calls, callee)  BY <1>1, <1>13 DEF callee
    <3> QED BY <1>2, <2>3, <2>5, <3>1
  <2>7. Writing(longer, deeper)'
    <3>1. \A k \in 1 .. Len(calls') : k \in 1 .. Len(calls) \/ k = Len(calls')  BY <1>2, <2>3, <2>6
    <3>2. \A k \in 1 .. Len(calls') : k # Len(calls') => CallOK(longer, calls'[k], deeper[k])
      BY <1>2, <1>12, <2>3, <2>6, <3>1
    <3>3. /\ deeper[Len(calls')] = [num |-> Len(longer), next |-> 1]
          /\ calls'[Len(calls')].dir = longer[Len(longer)] /\ calls'[Len(calls')].next = 1
          /\ calls'[Len(calls')].iterator = Iterator(Start(ExtentsAt(Len(longer))))
      BY <1>2, <1>8, <2>3, <2>5, <2>6 DEF entered
    <3>4. pc' = "traverse" /\ Len(sections') = CountAt(Len(longer))  BY <1>1, <1>8, <1>9, <1>13
    <3>5. position' = Start(1) /\ builds' = <<>> /\ built' = <<>> /\ Len(deeper) >= 1
      BY <1>1, <1>2, <1>4, <2>3
    <3> QED BY <1>1, <2>6, <3>2, <3>3, <3>4, <3>5 DEF Writing, CallOK, Reads
  <2>8. sections' \in Logs /\ Stored(sections', longer, deeper)  BY <1>1, <1>9, <1>13, <2>4
  <2> QED BY <1>1, <1>8, <1>11, <2>1, <2>7, <2>8, WriterStep
<1>14. CASE ~ tree.is_dir[node]
  <2> DEFINE on == ToNextChild(path)
             top == [frame EXCEPT !.next = @ + 1]
  <2>1. Top(after).path = on  BY <1>2, <1>7, <1>8, <1>14 DEF AfterMoment
  <2>2. m = [path |-> path, read |-> Len(met)]  BY <1>2 DEF Moments
  <2>3. MomentOK(longer, [path |-> path, read |-> Len(met)])
    BY <1>1, <1>2, <1>7, <1>8, <2>2, MetGrows
  <2>4. on \in Seq(PathFrames) /\ Len(on) = Len(path)
        /\ \A k \in 1 .. Len(path) :
             on[k] = IF k = Len(path) THEN [num |-> path[k].num, next |-> path[k].next + 1] ELSE path[k]
    <3>1. Top(path).next <= Len(Children(met[Top(path).num]))  BY <1>7 DEF Visiting
    <3>2. MomentOK(met, [path |-> path, read |-> Len(met)]) /\ Len(met) <= Len(met)  BY <1>2, <2>2
    <3> QED BY <1>1, <1>2, <3>1, <3>2, NextChildOK
  <2>5. counted \in Logs /\ Len(counted) = CountAt(Len(met) + 1) + 1 /\ Stored(counted, longer, path)
    <3>1. CountIs(longer, path, Len(met) + 1, -1)
      <4>1. \A k \in 1 .. Len(path) : path[k].num \in 1 .. Len(met)  BY <1>2 DEF MomentOK
      <4>2. \A k \in 1 .. Len(path) : path[k].num # Len(met) + 1  BY <1>2, <4>1
      <4> QED BY <1>8, <1>14, <4>2 DEF CountIs
    <3>2. Len(longer) >= 1 /\ -1 \in Int  BY <1>2, <1>8
    <3> DEFINE added == Section(mapped, << Element("count", longer[Len(longer)], -1) >>)
    <3>3. added \in Logs /\ Len(added) = CountAt(Len(longer)) + 1 /\ Stored(added, longer, path)
      BY <1>1, <1>8, <1>9, <3>1, <3>2, AddCount
    <3>4. added = counted  BY <1>8
    <3> QED BY <1>8, <3>3, <3>4
  <2> HIDE DEF counted
  <2>6. /\ sections' \in Logs /\ Len(sections') = CountAt(Len(longer)) + 1
        /\ Stored(sections', longer, on)
    <3>1. CountAt(Len(longer)) < Len(counted)
      <4>1. CountAt(Len(met) + 1) \in Int  BY <1>2 DEF CountAt
      <4> QED BY <1>8, <2>5, <4>1
    <3>2. Len(met) \in Nat  BY <1>2
    <3> HIDE DEF on
    <3>3. /\ Counted(counted, frame) \in Logs /\ Len(Counted(counted, frame)) = Len(counted)
          /\ Stored(Counted(counted, frame), longer, on)
      <4>1. path \in Seq(PathFrames) /\ path # <<>> /\ longer \in Seq(Nodes) /\ counted \in Logs
        BY <1>2, <1>8, <2>5
      <4>2. Stored(counted, longer, path) /\ frame.count = CountAt(Top(path).num)
        BY <1>6, <2>5
      <4>3. on \in Seq(PathFrames) /\ Len(on) = Len(path)  BY <2>4
      <4> HIDE DEF path, m
      <4> QED BY <1>1, <2>3, <2>4, <3>1, <3>2, <4>1, <4>2, <4>3, CountedStored
    <3> QED BY <1>1, <1>8, <1>14, <2>5, <3>3
  <2>7. /\ calls' \in Seq(CallFrames) /\ Len(calls') = Len(on)
        /\ \A k \in 1 .. Len(calls') : CallOK(longer, calls'[k], on[k])
    <3> DEFINE moved == WithTop(calls, [Top(calls) EXCEPT !.next = @ + 1])
    <3> HIDE DEF on
    <3>1. /\ moved \in Seq(CallFrames) /\ Len(moved) = Len(path)
          /\ \A k \in 1 .. Len(path) : CallOK(longer, moved[k], on[k])
      BY <1>2, <1>12, <2>4, NextCall
    <3>2. calls' = moved  BY <1>1, <1>14 DEF frame
    <3> HIDE DEF moved
    <3> QED BY <2>4, <3>1, <3>2
  <2> HIDE DEF on
  <2>8. Writing(longer, on)'
    <3>1. pc' = "visit" /\ Len(on) >= 1  BY <1>1, <1>2, <1>14, <2>4
    <3>2. position' = Start(1) /\ builds' = <<>> /\ built' = <<>>  BY <1>1, <1>4
    <3> QED BY <1>1, <2>6, <2>7, <3>1, <3>2 DEF Writing, CallOK, Reads
  <2> QED BY <1>1, <1>8, <1>11, <2>1, <2>6, <2>8, WriterStep
<1> QED BY <1>13, <1>14

\* traverse returns: the walk goes on at the next child of the caller, or ends.
LEMMA ReturnFromTraverseStep == TraverseInv /\ ReturnFromTraverse => TraverseInv'
<1> SUFFICES ASSUME TraverseInv, ReturnFromTraverse PROVE TraverseInv'  OBVIOUS
<1> DEFINE frame == Top(Pop(calls))
<1>1. /\ tree \in Trees /\ tree' = tree /\ sections \in Logs /\ pc = "visit" /\ AllVisited(Top(calls))
      /\ IF Len(calls) = 1
           THEN pc' = "build" /\ calls' = <<>> /\ sections' = sections
           ELSE /\ sections' = Counted(sections, frame)
                /\ calls' = WithTop(Pop(calls), [frame EXCEPT !.next = @ + 1])
                /\ pc' = pc
      /\ got' = got /\ asked' = asked
      /\ position' = position /\ builds' = builds /\ built' = built
  BY DEF TraverseInv, ReturnFromTraverse, readerVars
<1>2. PICK met, walk :
           /\ Walk(met, walk) /\ met \in Seq(Nodes) /\ Len(met) \in Nat \ {0}
           /\ Stored(sections, met, Top(walk).path) /\ Writing(met, Top(walk).path)
           /\ Top(walk) \in Moments /\ MomentOK(met, Top(walk)) /\ Top(walk).read = Len(met)
           /\ Top(walk).path # <<>> /\ Top(walk).path \in Seq(PathFrames)
           /\ Len(calls) = Len(Top(walk).path) /\ calls # <<>> /\ calls \in Seq(CallFrames)
           /\ Len(calls) \in Nat \ {0} /\ Top(calls) = calls[Len(calls)] /\ Top(calls) \in CallFrames
  BY <1>1, WriterFacts
<1> DEFINE m == Top(walk)
           path == m.path
           last == Len(calls)
<1>3. last \in 1 .. Len(calls) /\ last \in 1 .. Len(path)  BY <1>2
<1>4. /\ \A k \in 1 .. Len(calls) : CallOK(met, calls[k], path[k])
      /\ Len(sections) = CountAt(Len(met)) + 1
      /\ position = Start(1) /\ builds = <<>> /\ built = <<>>
  BY <1>1, <1>2 DEF Writing
<1>5. ~ Visiting(met, m)
  <2>1. /\ Top(path) = path[Len(path)] /\ Top(path) \in PathFrames
        /\ Children(met[Top(path).num]) \in Seq(Nodes)
    BY <1>1, <1>2, MomentFacts
  <2>2. CallOK(met, Top(calls), Top(path))  BY <1>2, <1>3, <1>4, <2>1
  <2>3. Top(path).next > Len(Children(met[Top(path).num]))  BY <1>1, <2>2 DEF AllVisited, CallOK
  <2>4. \A a, b \in Nat : a > b => ~ a <= b  OBVIOUS
  <2>5. Top(path).next \in Nat /\ Len(Children(met[Top(path).num])) \in Nat  BY <2>1 DEF PathFrames
  <2> QED BY <2>3, <2>4, <2>5 DEF Visiting
<1>6. PICK after : Walk(met, after) /\ Top(after) = AfterMoment(met, m)
  <2>1. met = IF Visiting(met, m) THEN Append(met, ChildAt(met, m)) ELSE met  BY <1>5
  <2> QED BY <1>1, <1>2, <2>1, WalkGrows
<1>7. Stored(sections, met, Pop(path))  BY <1>1, <1>2, <1>5, ReturnedStored
<1>8. /\ Pop(path) \in Seq(PathFrames) /\ Len(Pop(path)) = Len(path) - 1
      /\ \A k \in 1 .. Len(path) - 1 : Pop(path)[k] = path[k]
      /\ Pop(calls) \in Seq(CallFrames) /\ Len(Pop(calls)) = Len(calls) - 1
      /\ \A k \in 1 .. Len(calls) - 1 : Pop(calls)[k] = calls[k]
  BY <1>2, StackFacts
<1>9. ReadAsWritten'  BY <1>1 DEF TraverseInv, ReadAsWritten, NullElement
<1>10. CASE Len(calls) = 1
  <2>1. Len(path) = 1  BY <1>2, <1>10
  <2>2. Top(after).path = <<>>  BY <1>5, <1>6, <2>1 DEF AfterMoment
  <2>3. Stored(sections', met, Top(after).path)
    <3>1. Len(Pop(path)) = 0  BY <1>8, <2>1
    <3>2. Pop(path) = <<>>  BY <1>8, <3>1
    <3> QED BY <1>1, <1>7, <1>10, <2>2, <3>2
  <2>4. /\ after \in Seq(Moments) /\ Len(after) >= 1 /\ Top(after) = after[Len(after)]
        /\ after[1] = [path |-> << [num |-> 1, next |-> 1] >>, read |-> 1]
    BY <1>6 DEF Walk, Top
  <2>5. after[1].path = << [num |-> 1, next |-> 1] >> /\ after[1].read = 1
    BY <2>4
  <2>6. 1 \in 1 .. Len(after) - 1
    <3>1. << [num |-> 1, next |-> 1] >> # <<>>  OBVIOUS
    <3>2. Len(after) # 1  BY <2>2, <2>4, <2>5, <3>1
    <3> QED BY <2>4, <3>2
  <2>7. Frames(met, after[1])'
    <3>1. builds' = <<>> /\ built' = <<>> /\ pc' = "build"  BY <1>1, <1>4, <1>10
    <3>2. Len(after[1].path) = 1  BY <2>5
    <3>3. Len(<<>>) = 0 /\ <<>> \in Seq(BuildFrames) /\ <<>> \in Seq(Files)  OBVIOUS
    <3> QED BY <2>5, <3>1, <3>2, <3>3 DEF Frames
  <2>8. Entering(met, after[1])'
    <3>1. Top(after[1].path) = [num |-> 1, next |-> 1]  BY <2>5 DEF Top
    <3>2. position' = Start(1) /\ pc' = "build" /\ ExtentsAt(1) = 1  BY <1>1, <1>4, <1>10 DEF ExtentsAt
    <3> QED BY <2>5, <3>1, <3>2 DEF Entering, Start
  <2>9. Building(met, after)'
    <3>1. Len(sections') = CountAt(Len(met)) + 1 /\ calls' = <<>>  BY <1>1, <1>4, <1>10
    <3> QED BY <2>2, <2>6, <2>7, <2>8, <3>1 DEF Building
  <2>10. Phase(met, after)'
    <3>1. Walk(met, after)'  BY <1>1, <1>6, WalkKept
    <3>2. Stored(sections, met, Top(after).path)'  BY <1>1, <2>3, StoredKept
    <3> QED BY <2>9, <3>1, <3>2 DEF Phase
  <2> QED BY <1>1, <1>9, <1>10, <2>10 DEF TraverseInv
<1>11. CASE Len(calls) # 1
  <2> DEFINE on == ToNextChild(Pop(path))
  <2>1. Len(path) > 1
    <3>1. \A n \in Nat \ {0} : n # 1 => n > 1  OBVIOUS
    <3>2. Len(path) \in Nat \ {0} /\ Len(path) # 1  BY <1>2, <1>11
    <3> QED BY <3>1, <3>2
  <2>2. Top(after).path = on
    <3>1. Len(path) # 1  BY <1>2, <1>11
    <3> QED BY <1>5, <1>6, <3>1 DEF AfterMoment
  <2>3. /\ Pop(path) \in Seq(PathFrames) /\ Pop(path) # <<>>
        /\ Top(Pop(path)) = path[Len(path) - 1]
        /\ Top(Pop(path)).next <= Len(Children(met[Top(Pop(path)).num]))
        /\ MomentOK(met, [path |-> Pop(path), read |-> m.read])
    BY <1>1, <1>2, <2>1, ReturnedOK
  <2>4. m.read \in Nat /\ m.read \in Nat \ {0} /\ m.read <= m.read /\ m.read <= Len(met)
    BY <1>2
  <2>5. on \in Seq(PathFrames) /\ Len(on) = Len(Pop(path))
        /\ \A k \in 1 .. Len(Pop(path)) :
             on[k] = IF k = Len(Pop(path)) THEN [num |-> Pop(path)[k].num, next |-> Pop(path)[k].next + 1]
                     ELSE Pop(path)[k]
    <3> HIDE DEF path, m
    <3> QED BY <1>1, <1>2, <2>3, <2>4, NextChildOK DEF m
  <2>6. \A k \in 1 .. Len(Pop(calls)) : CallOK(met, Pop(calls)[k], Pop(path)[k])
    <3>1. \A k \in 1 .. Len(Pop(calls)) :
            k \in 1 .. Len(calls) /\ Pop(calls)[k] = calls[k] /\ Pop(path)[k] = path[k]
      BY <1>2, <1>8
    <3> QED BY <1>4, <3>1
  <2>7. Pop(calls) # <<>> /\ Len(Pop(calls)) = Len(Pop(path)) /\ Top(Pop(calls)) \in CallFrames
    <3>1. Len(Pop(calls)) = Len(Pop(path))  BY <1>2, <1>8
    <3>2. Pop(calls) # <<>>  BY <1>8, <2>3, <3>1
    <3> QED BY <1>8, <3>1, <3>2, StackFacts
  <2>8. frame.count = CountAt(Top(Pop(path)).num)
    <3>1. /\ Top(Pop(calls)) = Pop(calls)[Len(Pop(calls))] /\ Top(Pop(path)) = Pop(path)[Len(Pop(path))]
          /\ Len(Pop(calls)) \in Nat \ {0}
      BY <1>8, <2>3, <2>7, StackFacts
    <3>2. Len(Pop(calls)) \in 1 .. Len(Pop(calls))  BY <3>1
    <3> QED BY <2>6, <2>7, <3>1, <3>2 DEF CallOK
  <2>9. /\ sections' \in Logs /\ Len(sections') = CountAt(Len(met)) + 1
        /\ Stored(sections', met, on)
    <3>1. CountAt(Len(met)) < Len(sections)
      <4>1. CountAt(Len(met)) \in Int  BY <1>2 DEF CountAt
      <4> QED BY <1>4, <4>1
    <3>2. Pop(path) \in Seq(PathFrames) /\ Pop(path) # <<>> /\ met \in Seq(Nodes)
      BY <1>2, <2>3
    <3>3. /\ Counted(sections, frame) \in Logs /\ Len(Counted(sections, frame)) = Len(sections)
          /\ Stored(Counted(sections, frame), met, on)
      <4> HIDE DEF on, frame, path, m
      <4> QED BY <1>1, <1>7, <2>3, <2>4, <2>5, <2>8, <3>1, <3>2, CountedStored
    <3> QED BY <1>1, <1>4, <1>11, <3>3
  <2>10. /\ calls' \in Seq(CallFrames) /\ Len(calls') = Len(on)
         /\ \A k \in 1 .. Len(calls') : CallOK(met, calls'[k], on[k])
    <3> DEFINE moved == WithTop(Pop(calls), [Top(Pop(calls)) EXCEPT !.next = @ + 1])
    <3> HIDE DEF on, path, m
    <3>1. /\ moved \in Seq(CallFrames) /\ Len(moved) = Len(Pop(path))
          /\ \A k \in 1 .. Len(Pop(path)) : CallOK(met, moved[k], on[k])
      BY <1>8, <2>5, <2>6, <2>7, NextCall
    <3>2. calls' = moved  BY <1>1, <1>11 DEF frame
    <3> HIDE DEF moved
    <3> QED BY <2>5, <3>1, <3>2
  <2> HIDE DEF on
  <2>11. Writing(met, on)'
    <3>1. pc' = "visit"  BY <1>1, <1>11
    <3>2. position' = Start(1) /\ builds' = <<>> /\ built' = <<>>  BY <1>1, <1>4
    <3>3. Len(on) >= 1
      <4>1. Len(Pop(path)) # 0 /\ Len(Pop(path)) \in Nat  BY <2>3
      <4> QED BY <2>5, <4>1
    <3> QED BY <1>1, <2>9, <2>10, <3>1, <3>2, <3>3 DEF Writing, CallOK, Reads
  <2> QED BY <1>1, <1>6, <1>9, <2>2, <2>9, <2>11, WriterStep
<1> QED BY <1>10, <1>11

(***************************************************************************)
(* The building half, step by step.                                        *)
(***************************************************************************)
\* What is known while the builder is at work.
LEMMA BuilderFacts ==
  ASSUME TraverseInv, pc \notin {"main", "traverse", "visit"}
  PROVE  \E met, walk, k, m, after :
           /\ Walk(met, walk) /\ met \in Seq(Nodes) /\ Len(met) \in Nat \ {0} /\ Stored(sections, met, <<>>)
           /\ Top(walk).path = <<>> /\ calls = <<>> /\ Len(sections) = CountAt(Len(met)) + 1
           /\ Frames(met, m) /\ (Entering(met, m) \/ ReadingChild(met, m) \/ Between(met, m))
           /\ m \in Moments /\ MomentOK(met, m) /\ m.path # <<>> /\ m.path \in Seq(PathFrames)
           /\ m.read \in Nat \ {0} /\ m.read <= Len(met) /\ Len(m.path) \in Nat \ {0}
           /\ m = walk[k] /\ after = AfterMoment(met, m) /\ MomentOK(met, after) /\ after \in Moments
           /\ Visiting(met, m) => m.read + 1 <= Len(met) /\ met[m.read + 1] = ChildAt(met, m)
           /\ after.path # <<>> => k + 1 \in 1 .. Len(walk) - 1 /\ after = walk[k + 1]
           /\ k \in 1 .. Len(walk) - 1
<1>1. PICK met, walk : Phase(met, walk)  BY DEF TraverseInv, Starting
<1>2. Building(met, walk)  BY <1>1 DEF Phase, Writing
<1>3. Walk(met, walk) /\ Stored(sections, met, Top(walk).path)  BY <1>1 DEF Phase
<1>4. PICK k \in 1 .. Len(walk) - 1 :
        /\ Frames(met, walk[k])
        /\ Entering(met, walk[k]) \/ ReadingChild(met, walk[k]) \/ Between(met, walk[k])
  BY <1>2 DEF Building
<1>5. Top(walk).path = <<>> /\ calls = <<>> /\ Len(sections) = CountAt(Len(met)) + 1
  BY <1>2 DEF Building
<1> DEFINE m == walk[k]
           after == walk[k + 1]
<1>6. /\ met \in Seq(Nodes) /\ Len(met) \in Nat \ {0} /\ walk \in Seq(Moments) /\ Len(walk) \in Nat
      /\ Top(walk) = walk[Len(walk)]
  BY <1>3 DEF Walk, Top
<1>7. k \in 1 .. Len(walk) /\ k + 1 \in 1 .. Len(walk)  BY <1>6
<1>8. /\ m \in Moments /\ MomentOK(met, m) /\ after \in Moments /\ MomentOK(met, after)
      /\ m.path # <<>> /\ after = AfterMoment(met, m)
      /\ Visiting(met, m) => met[m.read + 1] = ChildAt(met, m)
  BY <1>3, <1>6, <1>7 DEF Walk
<1>9. after.path # <<>> => k + 1 \in 1 .. Len(walk) - 1  BY <1>5, <1>6, <1>7
<1>10. m.path \in Seq(PathFrames) /\ m.read \in Nat \ {0} /\ m.read <= Len(met)
  BY <1>8 DEF Moments, MomentOK
<1>11. Visiting(met, m) => m.read + 1 <= Len(met)
  <2>1. Visiting(met, m) => after.read = m.read + 1  BY <1>8 DEF AfterMoment
  <2> QED BY <1>8, <2>1 DEF MomentOK
<1>12. Len(m.path) \in Nat \ {0}  BY <1>8, <1>10
<1>13. Stored(sections, met, <<>>)  BY <1>3, <1>5
<1> HIDE DEF m, after
<1>14. Frames(met, m) /\ (Entering(met, m) \/ ReadingChild(met, m) \/ Between(met, m))
  BY <1>4 DEF m
<1>15. m = walk[k] /\ after = walk[k + 1]  BY DEF m, after
<1> QED BY <1>3, <1>5, <1>6, <1>8, <1>9, <1>10, <1>11, <1>12, <1>13, <1>14, <1>15

\* A step of the builder.
LEMMA BuilderStep ==
  ASSUME tree \in Trees, tree' = tree, sections \in Logs, sections' = sections, calls' = calls,
         NEW met, NEW walk, Walk(met, walk), Stored(sections, met, <<>>), Top(walk).path = <<>>,
         calls = <<>>, Len(sections) = CountAt(Len(met)) + 1,
         NEW k \in 1 .. Len(walk) - 1, NEW m, m = walk[k], Frames(met, m)',
         Entering(met, m)' \/ ReadingChild(met, m)' \/ Between(met, m)', ReadAsWritten'
  PROVE  TraverseInv'
<1>1. Walk(met, walk)'  BY WalkKept
<1>2. Stored(sections, met, <<>>)'
  <2>1. Stored(sections', met, <<>>)  OBVIOUS
  <2> QED BY <2>1, StoredKept
<1>3. Building(met, walk)'
  <2>1. Len(sections') = CountAt(Len(met)) + 1 /\ calls' = <<>>  OBVIOUS
  <2>2. \E j \in 1 .. Len(walk) - 1 :
          /\ Frames(met, walk[j])'
          /\ Entering(met, walk[j])' \/ ReadingChild(met, walk[j])' \/ Between(met, walk[j])'
    OBVIOUS
  <2> QED BY <2>1, <2>2 DEF Building
<1>4. Phase(met, walk)'  BY <1>1, <1>2, <1>3 DEF Phase
<1> QED BY <1>4 DEF TraverseInv

\* The next element at a place in a section that is closed.
LEMMA ReadFacts ==
  ASSUME sections \in Logs, NEW s \in Nat \ {0}, s < Len(sections), NEW x \in Nat, x <= Len(sections[s]),
         position = At(s, x)
  PROVE  /\ x < Len(sections[s]) => /\ NextElement(position)[1] = sections[s][x + 1]
                                    /\ NextElement(position)[2] = At(s, x + 1)
         /\ x = Len(sections[s]) => /\ NextElement(position)[1] = NullElement
                                    /\ NextElement(position)[2] = Start(s + 1)
<1>1. Len(sections) \in Nat /\ Len(sections[s]) \in Nat
  <2>1. sections \in Seq(Seq(Elements)) /\ Len(sections) \in Nat  BY DEF Logs
  <2>2. sections[s] \in Seq(Elements)  BY <2>1
  <2> QED BY <2>1, <2>2
<1>2. position.section = s /\ position.index = x  BY DEF At
<1>3. ~ position.section >= Len(sections)  BY <1>1, <1>2
<1>4. CASE x < Len(sections[s])
  <2>1. NextElement(position) = << sections[s][x + 1], [position EXCEPT !.index = @ + 1] >>
    BY <1>2, <1>3, <1>4 DEF NextElement
  <2>2. [position EXCEPT !.index = @ + 1] = At(s, x + 1)  BY DEF At
  <2> QED BY <1>1, <1>4, <2>1, <2>2
<1>5. CASE x = Len(sections[s])
  <2>1. ~ x < Len(sections[s])  BY <1>1, <1>5
  <2>2. NextElement(position) = << NullElement, Start(s + 1) >>
    BY <1>2, <1>3, <2>1 DEF NextElement
  <2> QED BY <1>1, <1>5, <2>2
<1> QED BY <1>1, <1>4, <1>5

\* What the builder finds in the sections of the n-th file.
LEMMA FoundFacts ==
  ASSUME tree \in Trees, sections \in Logs, NEW met \in Seq(Nodes), Stored(sections, met, <<>>),
         Len(sections) = CountAt(Len(met)) + 1, NEW n \in 1 .. Len(met)
  PROVE  /\ n \in Nat \ {0} /\ met[n] \in Nodes
         /\ ExtentsAt(n) \in Nat \ {0} /\ ExtentsAt(n) < Len(sections)
         /\ CountAt(n) \in Nat \ {0} /\ CountAt(n) < Len(sections)
         /\ Start(ExtentsAt(n)) = At(ExtentsAt(n), 0) /\ Start(CountAt(n)) = At(CountAt(n), 0)
         /\ ExtentsAt(n) + 1 = CountAt(n) /\ CountAt(n) + 1 = DentryAt(n + 1)
         /\ sections[ExtentsAt(n)] = ExtentsOf(met[n])
         /\ \E x \in Int : /\ sections[CountAt(n)] = << Element("count", met[n], x) >>
                           /\ tree.is_dir[met[n]] => x = Len(Children(met[n]))
         /\ n > 1 => /\ DentryAt(n) \in Nat \ {0} /\ DentryAt(n) < Len(sections)
                     /\ NameAt(n) \in Nat \ {0} /\ NameAt(n) < Len(sections)
                     /\ DentryAt(n) + 1 = NameAt(n) /\ NameAt(n) + 1 = ExtentsAt(n)
                     /\ Start(DentryAt(n)) = At(DentryAt(n), 0) /\ Start(NameAt(n)) = At(NameAt(n), 0)
                     /\ sections[DentryAt(n)] = << Element("dentry", met[n], 0) >>
                     /\ sections[NameAt(n)] = NameOf(met[n])
<1>1. n \in Nat \ {0} /\ met[n] \in Nodes /\ Len(met) \in Nat  OBVIOUS
<1>2. /\ ExtentsAt(n) \in Nat \ {0} /\ ExtentsAt(n) < Len(sections)
      /\ CountAt(n) \in Nat \ {0} /\ CountAt(n) < Len(sections)
      /\ ExtentsAt(n) + 1 = CountAt(n) /\ CountAt(n) + 1 = DentryAt(n + 1)
  BY <1>1 DEF ExtentsAt, CountAt, DentryAt
<1>3. n > 1 => /\ DentryAt(n) \in Nat \ {0} /\ DentryAt(n) < Len(sections)
               /\ NameAt(n) \in Nat \ {0} /\ NameAt(n) < Len(sections)
               /\ DentryAt(n) + 1 = NameAt(n) /\ NameAt(n) + 1 = ExtentsAt(n)
  BY <1>1 DEF NameAt, ExtentsAt, CountAt, DentryAt
<1>4. \A s : Start(s) = At(s, 0)  BY DEF Start, At
<1>5. StoredFile(sections, met, <<>>, n)  BY DEF Stored
<1>6. PICK x \in Int : sections[CountAt(n)] = << Element("count", met[n], x) >> /\ CountIs(met, <<>>, n, x)
  BY <1>2, <1>5 DEF StoredFile
<1>7. tree.is_dir[met[n]] => x = Len(Children(met[n]))
  <2>1. \A j \in 1 .. Len(<<>>) : FALSE  OBVIOUS
  <2> QED BY <1>6, <2>1 DEF CountIs
<1> QED BY <1>1, <1>2, <1>3, <1>4, <1>5, <1>6, <1>7 DEF StoredFile

\* The stack of the builder when nothing in it changes.
LEMMA FramesSame ==
  ASSUME tree' = tree, builds' = builds, built' = built, NEW met, NEW m, Frames(met, m),
         pc # "build", pc' # "build",
         pc \in {"skip_dir_extents", "child_count"} => pc' \in {"skip_dir_extents", "child_count"}
  PROVE  Frames(met, m)'
BY DEF Frames, Reads, Children, FileOf, NameOf, ExtentsOf

\* The stack of the builder when its top changes.
LEMMA FramesTop ==
  ASSUME tree' = tree, built' = built, NEW met, NEW m, Frames(met, m), m.path # <<>>, m.path \in Seq(PathFrames),
         pc # "build", pc' # "build", NEW new \in BuildFrames, builds' = WithTop(builds, new),
         new.i = Top(builds).i, Reads(new.iterator, met[Top(m.path).num], ExtentsAt(Top(m.path).num)),
         pc' \notin {"skip_dir_extents", "child_count"} =>
           new.child_count = Len(Children(met[Top(m.path).num]))
  PROVE  Frames(met, m)'
<1> DEFINE last == Len(m.path)
<1>1. last \in Nat \ {0} /\ Top(m.path) = m.path[last]  BY StackFacts
<1>2. /\ builds \in Seq(BuildFrames) /\ Len(builds) = last
      /\ built \in Seq(Files) /\ Len(built) = m.read - 1
      /\ \A n \in 1 .. Len(built) : built[n] = FileOf(met[n + 1])
  BY DEF Frames
<1>3. builds # <<>>  BY <1>1, <1>2
<1>4. Top(builds) = builds[last]  BY <1>2, <1>3, StackFacts
<1>5. /\ builds' \in Seq(BuildFrames) /\ Len(builds') = last
      /\ \A k \in 1 .. last : builds'[k] = IF k = last THEN new ELSE builds[k]
  <2>1. \A stack \in Seq(BuildFrames), frame \in BuildFrames :
          stack # <<>> =>
            /\ WithTop(stack, frame) \in Seq(BuildFrames) /\ Len(WithTop(stack, frame)) = Len(stack)
            /\ \A k \in 1 .. Len(stack) :
                 WithTop(stack, frame)[k] = IF k = Len(stack) THEN frame ELSE stack[k]
    BY WithTopFacts
  <2> HIDE DEF last
  <2>2. /\ WithTop(builds, new) \in Seq(BuildFrames) /\ Len(WithTop(builds, new)) = Len(builds)
        /\ \A k \in 1 .. Len(builds) : WithTop(builds, new)[k] = IF k = Len(builds) THEN new ELSE builds[k]
    BY <1>2, <1>3, <2>1, Zenon
  <2> QED BY <1>2, <2>2
<1>6. ASSUME NEW k \in 1 .. last
      PROVE  /\ builds'[k].i = m.path[k].next - 1
             /\ Reads(builds'[k].iterator, met[m.path[k].num], ExtentsAt(m.path[k].num))
             /\ k < last \/ pc' \notin {"skip_dir_extents", "child_count"} =>
                  builds'[k].child_count = Len(Children(met[m.path[k].num]))
             /\ k < last => builds'[k].file.dentry = Element("dentry", met[m.path[k + 1].num], 0)
  <2>1. /\ builds[k].i = m.path[k].next - 1
        /\ Reads(builds[k].iterator, met[m.path[k].num], ExtentsAt(m.path[k].num))
        /\ k < last => builds[k].child_count = Len(Children(met[m.path[k].num]))
        /\ k < last => builds[k].file.dentry = Element("dentry", met[m.path[k + 1].num], 0)
    BY <1>2 DEF Frames
  <2>2. CASE k = last
    <3>1. builds'[k] = new /\ m.path[k] = Top(m.path) /\ builds[k] = Top(builds) /\ ~ k < last
      BY <1>1, <1>4, <1>5, <2>2
    <3> QED BY <2>1, <3>1
  <2>3. CASE k # last
    <3>1. k < last /\ builds'[k] = builds[k]  BY <1>1, <1>5, <2>3
    <3> QED BY <2>1, <3>1
  <2> QED BY <2>2, <2>3
<1> HIDE DEF last
<1>7. Len(m.path) = last  BY DEF last
<1> QED BY <1>2, <1>5, <1>6, <1>7 DEF Frames, Reads, Children, FileOf, NameOf, ExtentsOf

\* The extents of the directory are skipped on the main stream.
LEMMA SkipDirExtentsStep == TraverseInv /\ skip_dir_extents => TraverseInv'
<1> SUFFICES ASSUME TraverseInv, skip_dir_extents PROVE TraverseInv'  OBVIOUS
<1>1. /\ tree \in Trees /\ tree' = tree /\ sections \in Logs /\ sections' = sections /\ calls' = calls
      /\ builds' = builds /\ built' = built /\ pc = "skip_dir_extents"
      /\ got' = NextElement(position)[1] /\ asked' = "extent" /\ position' = NextElement(position)[2]
      /\ pc' = IF got' = NullElement THEN "child_count" ELSE "skip_dir_extents"
  BY DEF TraverseInv, skip_dir_extents, ReadElement, writerVars
<1>2. PICK met, walk, k, m, after :
           /\ Walk(met, walk) /\ met \in Seq(Nodes) /\ Len(met) \in Nat \ {0} /\ Stored(sections, met, <<>>)
           /\ Top(walk).path = <<>> /\ calls = <<>> /\ Len(sections) = CountAt(Len(met)) + 1
           /\ Frames(met, m) /\ (Entering(met, m) \/ ReadingChild(met, m) \/ Between(met, m))
           /\ m \in Moments /\ MomentOK(met, m) /\ m.path # <<>> /\ m.path \in Seq(PathFrames)
           /\ m.read \in Nat \ {0} /\ m.read <= Len(met) /\ Len(m.path) \in Nat \ {0}
           /\ m = walk[k] /\ after = AfterMoment(met, m) /\ MomentOK(met, after) /\ after \in Moments
           /\ Visiting(met, m) => m.read + 1 <= Len(met) /\ met[m.read + 1] = ChildAt(met, m)
           /\ after.path # <<>> => k + 1 \in 1 .. Len(walk) - 1 /\ after = walk[k + 1]
           /\ k \in 1 .. Len(walk) - 1
  BY <1>1, BuilderFacts
<1> DEFINE n == m.read
           node == met[n]
<1>3. Entering(met, m)  BY <1>1, <1>2 DEF ReadingChild, Between
<1>4. PICK x \in 0 .. tree.extents[node] : position = At(ExtentsAt(n), x)
  BY <1>1, <1>3 DEF Entering
<1>5. n \in 1 .. Len(met)  BY <1>2
<1>6. /\ node \in Nodes /\ ExtentsAt(n) \in Nat \ {0} /\ ExtentsAt(n) < Len(sections)
      /\ sections[ExtentsAt(n)] = ExtentsOf(node) /\ ExtentsAt(n) + 1 = CountAt(n)
  <2>1. /\ tree \in Trees /\ sections \in Logs /\ met \in Seq(Nodes) /\ Stored(sections, met, <<>>)
        /\ Len(sections) = CountAt(Len(met)) + 1
    BY <1>1, <1>2
  <2> HIDE DEF n
  <2> QED BY <1>5, <2>1, FoundFacts
<1>7. /\ Len(ExtentsOf(node)) = tree.extents[node] /\ tree.extents[node] \in Nat
      /\ \A j \in 1 .. tree.extents[node] : ExtentsOf(node)[j] = Element("extent", node, j)
  BY <1>1, <1>6, ContentFacts, TreeFacts
<1>8. x \in Nat /\ x <= Len(sections[ExtentsAt(n)])  BY <1>6, <1>7
<1>9. Frames(met, m)'  BY <1>1, <1>2, FramesSame
<1>10. Top(m.path) = [num |-> n, next |-> 1]  BY <1>3 DEF Entering
<1>11. Entering(met, m)' /\ ReadAsWritten'
  <2>1. CASE x < tree.extents[node]
    <3>1. got' = Element("extent", node, x + 1) /\ position' = At(ExtentsAt(n), x + 1)
      <4>1. x + 1 \in 1 .. tree.extents[node]  BY <1>7, <1>8, <2>1
      <4>2. x < Len(sections[ExtentsAt(n)])  BY <1>6, <1>7, <2>1
      <4>3. got' = sections[ExtentsAt(n)][x + 1] /\ position' = At(ExtentsAt(n), x + 1)
        BY <1>1, <1>4, <1>6, <1>8, <4>2, ReadFacts
      <4> QED BY <1>6, <1>7, <4>1, <4>3
    <3>2. got' # NullElement /\ got'.type = asked'  BY <1>1, <3>1 DEF Element, NullElement
    <3>3. pc' = "skip_dir_extents" /\ x + 1 \in 0 .. tree'.extents[node]  BY <1>1, <1>7, <1>8, <2>1, <3>2
    <3>4. Entering(met, m)'  BY <1>10, <3>1, <3>3 DEF Entering
    <3> QED BY <3>2, <3>4 DEF ReadAsWritten
  <2>2. CASE x = tree.extents[node]
    <3>1. x = Len(sections[ExtentsAt(n)])  BY <1>6, <1>7, <2>2
    <3>2. got' = NullElement /\ position' = Start(CountAt(n))
      BY <1>1, <1>4, <1>6, <1>8, <3>1, ReadFacts
    <3>3. pc' = "child_count"  BY <1>1, <3>2
    <3>4. Entering(met, m)'  BY <1>10, <3>2, <3>3 DEF Entering
    <3> QED BY <3>2, <3>4 DEF ReadAsWritten, NullElement
  <2> QED BY <1>7, <1>8, <2>1, <2>2
<1> QED BY <1>1, <1>2, <1>9, <1>11, BuilderStep

\* The frame on top of the builder's stack.
LEMMA TopBuild ==
  ASSUME NEW met, NEW m, Frames(met, m), pc # "build", m.path # <<>>, m.path \in Seq(PathFrames)
  PROVE  /\ builds \in Seq(BuildFrames) /\ builds # <<>> /\ Len(builds) = Len(m.path)
         /\ Top(builds) \in BuildFrames /\ Top(builds) = builds[Len(m.path)]
         /\ Top(builds).i = Top(m.path).next - 1
         /\ Reads(Top(builds).iterator, met[Top(m.path).num], ExtentsAt(Top(m.path).num))
         /\ pc \notin {"skip_dir_extents", "child_count"} =>
              Top(builds).child_count = Len(Children(met[Top(m.path).num]))
<1>1. Len(m.path) \in Nat \ {0} /\ Top(m.path) = m.path[Len(m.path)]  BY StackFacts
<1>2. builds \in Seq(BuildFrames) /\ Len(builds) = Len(m.path)  BY DEF Frames
<1>3. builds # <<>>  BY <1>1, <1>2
<1>4. Top(builds) = builds[Len(m.path)] /\ Top(builds) \in BuildFrames  BY <1>2, <1>3, StackFacts
<1>5. Len(m.path) \in 1 .. Len(builds)  BY <1>1, <1>2
<1> QED BY <1>1, <1>2, <1>3, <1>4, <1>5 DEF Frames

\* What the builder finds of the next child.
LEMMA ChildFacts ==
  ASSUME tree \in Trees, sections \in Logs, NEW met \in Seq(Nodes), Stored(sections, met, <<>>),
         Len(sections) = CountAt(Len(met)) + 1, NEW n \in 1 .. Len(met), n > 1
  PROVE  /\ n \in Nat \ {0} /\ met[n] \in Nodes
         /\ DentryAt(n) \in Nat \ {0} /\ DentryAt(n) < Len(sections)
         /\ NameAt(n) \in Nat \ {0} /\ NameAt(n) < Len(sections)
         /\ ExtentsAt(n) \in Nat \ {0} /\ ExtentsAt(n) < Len(sections)
         /\ CountAt(n) \in Nat \ {0} /\ CountAt(n) < Len(sections)
         /\ DentryAt(n) + 1 = NameAt(n) /\ NameAt(n) + 1 = ExtentsAt(n)
         /\ ExtentsAt(n) + 1 = CountAt(n) /\ CountAt(n) + 1 = DentryAt(n + 1)
         /\ Start(DentryAt(n)) = At(DentryAt(n), 0) /\ Start(NameAt(n)) = At(NameAt(n), 0)
         /\ Start(ExtentsAt(n)) = At(ExtentsAt(n), 0) /\ Start(CountAt(n)) = At(CountAt(n), 0)
         /\ sections[DentryAt(n)] = << Element("dentry", met[n], 0) >>
         /\ sections[NameAt(n)] = NameOf(met[n]) /\ sections[ExtentsAt(n)] = ExtentsOf(met[n])
         /\ \E x \in Int : sections[CountAt(n)] = << Element("count", met[n], x) >>
<1>1. /\ n \in Nat \ {0} /\ met[n] \in Nodes
      /\ ExtentsAt(n) \in Nat \ {0} /\ ExtentsAt(n) < Len(sections)
      /\ CountAt(n) \in Nat \ {0} /\ CountAt(n) < Len(sections)
      /\ Start(ExtentsAt(n)) = At(ExtentsAt(n), 0) /\ Start(CountAt(n)) = At(CountAt(n), 0)
      /\ ExtentsAt(n) + 1 = CountAt(n) /\ CountAt(n) + 1 = DentryAt(n + 1)
      /\ sections[ExtentsAt(n)] = ExtentsOf(met[n])
  BY FoundFacts
<1>2. \E x \in Int : sections[CountAt(n)] = << Element("count", met[n], x) >>
  <2>1. \E x \in Int : /\ sections[CountAt(n)] = << Element("count", met[n], x) >>
                       /\ tree.is_dir[met[n]] => x = Len(Children(met[n]))
    BY FoundFacts, Zenon
  <2> QED BY <2>1
<1>3. /\ DentryAt(n) \in Nat \ {0} /\ DentryAt(n) < Len(sections)
      /\ NameAt(n) \in Nat \ {0} /\ NameAt(n) < Len(sections)
      /\ DentryAt(n) + 1 = NameAt(n) /\ NameAt(n) + 1 = ExtentsAt(n)
      /\ Start(DentryAt(n)) = At(DentryAt(n), 0) /\ Start(NameAt(n)) = At(NameAt(n), 0)
      /\ sections[DentryAt(n)] = << Element("dentry", met[n], 0) >>
      /\ sections[NameAt(n)] = NameOf(met[n])
  BY FoundFacts
<1> QED BY <1>1, <1>2, <1>3

\* A step within the child that is being read.
LEMMA ReadingOn ==
  ASSUME tree' = tree, NEW met, NEW m, NEW node, Visiting(met, m), node = ChildAt(met, m), NEW n, n = m.read + 1,
         \/ /\ pc' = "cut_dentry" /\ position' = At(DentryAt(n), 1)
            /\ Top(builds').file = FilePart(node, 0, 0)
         \/ pc' = "name" /\ \E x \in 0 .. tree.parts[node] :
              position' = At(NameAt(n), x) /\ Top(builds').file = FilePart(node, x, 0)
         \/ /\ pc' = "place" /\ position' = Start(ExtentsAt(n))
            /\ Top(builds').file = FilePart(node, tree.parts[node], 0)
         \/ /\ ~ tree.is_dir[node] /\ pc' = "set_extents"
            /\ \E x \in 0 .. tree.extents[node] :
                 position' = At(ExtentsAt(n), x) /\ Top(builds').file = FilePart(node, tree.parts[node], x)
         \/ /\ ~ tree.is_dir[node] /\ pc' = "skip_child_count"
            /\ \E x \in 0 .. 1 :
                 /\ position' = At(CountAt(n), x)
                 /\ Top(builds').file = FilePart(node, tree.parts[node], tree.extents[node])
  PROVE  ReadingChild(met, m)'
<1>1. Visiting(met, m)' /\ ChildAt(met, m)' = node  BY DEF Visiting, ChildAt, Children
<1>2. \A a, b : FilePart(node, a, b)' = FilePart(node, a, b)
  BY DEF FilePart, NameOf, ExtentsOf
<1>3. Top(builds)' = Top(builds')  BY DEF Top
<1> QED BY <1>1, <1>2, <1>3 DEF ReadingChild, FilePart, NameOf, ExtentsOf

\* The number of children is what traverse has counted.
LEMMA ReadChildCountStep == TraverseInv /\ ReadChildCount => TraverseInv'
<1> SUFFICES ASSUME TraverseInv, ReadChildCount PROVE TraverseInv'  OBVIOUS
<1> DEFINE new == [Top(builds) EXCEPT !.child_count = got'.n]
<1>1. /\ tree \in Trees /\ tree' = tree /\ sections \in Logs /\ sections' = sections /\ calls' = calls
      /\ builds' = WithTop(builds, new) /\ built' = built /\ pc = "child_count"
      /\ got' = NextElement(position)[1] /\ asked' = "count" /\ position' = NextElement(position)[2]
      /\ pc' = "cut_count"
  BY DEF TraverseInv, ReadChildCount, ReadElement, writerVars
<1>2. PICK met, walk, k, m, after :
           /\ Walk(met, walk) /\ met \in Seq(Nodes) /\ Len(met) \in Nat \ {0} /\ Stored(sections, met, <<>>)
           /\ Top(walk).path = <<>> /\ calls = <<>> /\ Len(sections) = CountAt(Len(met)) + 1
           /\ Frames(met, m) /\ (Entering(met, m) \/ ReadingChild(met, m) \/ Between(met, m))
           /\ m \in Moments /\ MomentOK(met, m) /\ m.path # <<>> /\ m.path \in Seq(PathFrames)
           /\ m.read \in Nat \ {0} /\ m.read <= Len(met) /\ Len(m.path) \in Nat \ {0}
           /\ m = walk[k] /\ after = AfterMoment(met, m) /\ MomentOK(met, after) /\ after \in Moments
           /\ Visiting(met, m) => m.read + 1 <= Len(met) /\ met[m.read + 1] = ChildAt(met, m)
           /\ after.path # <<>> => k + 1 \in 1 .. Len(walk) - 1 /\ after = walk[k + 1]
           /\ k \in 1 .. Len(walk) - 1
  BY <1>1, BuilderFacts
<1>3. Entering(met, m)  BY <1>1, <1>2 DEF ReadingChild, Between
<1>4. position = Start(CountAt(m.read)) /\ Top(m.path) = [num |-> m.read, next |-> 1]
  BY <1>1, <1>3 DEF Entering
<1>5. m.read \in 1 .. Len(met)  BY <1>2
<1>6. /\ met[m.read] \in Nodes /\ CountAt(m.read) \in Nat \ {0} /\ CountAt(m.read) < Len(sections)
      /\ Start(CountAt(m.read)) = At(CountAt(m.read), 0)
      /\ \E x \in Int : /\ sections[CountAt(m.read)] = << Element("count", met[m.read], x) >>
                        /\ tree.is_dir[met[m.read]] => x = Len(Children(met[m.read]))
  BY <1>1, <1>2, <1>5, FoundFacts
<1>7. PICK x \in Int : /\ sections[CountAt(m.read)] = << Element("count", met[m.read], x) >>
                       /\ tree.is_dir[met[m.read]] => x = Len(Children(met[m.read]))
  BY <1>6
<1>8. x = Len(Children(met[m.read]))
  <2>1. Top(m.path).num = m.read  BY <1>4
  <2>2. tree.is_dir[met[Top(m.path).num]]  BY <1>1, <1>2, MomentFacts
  <2> QED BY <1>7, <2>1, <2>2
<1>9. got' = Element("count", met[m.read], x) /\ position' = At(CountAt(m.read), 1)
  <2>1. Len(sections[CountAt(m.read)]) = 1 /\ sections[CountAt(m.read)][1] = Element("count", met[m.read], x)
    BY <1>7
  <2>2. position = At(CountAt(m.read), 0) /\ 0 < Len(sections[CountAt(m.read)]) /\ 0 <= Len(sections[CountAt(m.read)])
    BY <1>4, <1>6, <2>1
  <2>3. got' = sections[CountAt(m.read)][0 + 1] /\ position' = At(CountAt(m.read), 0 + 1)
    BY <1>1, <1>6, <2>2, ReadFacts
  <2> QED BY <2>1, <2>3
<1>10. got'.n = x /\ got'.type = asked'  BY <1>1, <1>9 DEF Element
<1>11. /\ builds \in Seq(BuildFrames) /\ builds # <<>> /\ Top(builds) \in BuildFrames
       /\ Reads(Top(builds).iterator, met[Top(m.path).num], ExtentsAt(Top(m.path).num))
  BY <1>1, <1>2, TopBuild
<1>12. /\ new \in BuildFrames /\ new.i = Top(builds).i /\ new.iterator = Top(builds).iterator
       /\ new.child_count = x
  BY <1>7, <1>10, <1>11 DEF BuildFrames
<1> HIDE DEF new
<1>13. Frames(met, m)'
  <2>1. new.child_count = Len(Children(met[Top(m.path).num]))  BY <1>4, <1>8, <1>12
  <2> QED BY <1>1, <1>2, <1>11, <1>12, <2>1, FramesTop
<1>14. Entering(met, m)'  BY <1>1, <1>4, <1>9 DEF Entering
<1>15. ReadAsWritten'  BY <1>10 DEF ReadAsWritten
<1> QED BY <1>1, <1>2, <1>13, <1>14, <1>15, BuilderStep

\* A cut is behind an element that was read.
LEMMA ConsumeCutStep == TraverseInv /\ ConsumeCut => TraverseInv'
<1> SUFFICES ASSUME TraverseInv, ConsumeCut PROVE TraverseInv'  OBVIOUS
<1>1. /\ tree \in Trees /\ tree' = tree /\ sections \in Logs /\ sections' = sections /\ calls' = calls
      /\ builds' = builds /\ built' = built
      /\ got' = NextElement(position)[1] /\ position' = NextElement(position)[2]
      /\ \/ pc = "cut_count" /\ pc' = "child"
         \/ pc = "cut_dentry" /\ pc' = "name"
  BY DEF TraverseInv, ConsumeCut, CutOfDentry, ReadElement, writerVars
<1>2. PICK met, walk, k, m, after :
           /\ Walk(met, walk) /\ met \in Seq(Nodes) /\ Len(met) \in Nat \ {0} /\ Stored(sections, met, <<>>)
           /\ Top(walk).path = <<>> /\ calls = <<>> /\ Len(sections) = CountAt(Len(met)) + 1
           /\ Frames(met, m) /\ (Entering(met, m) \/ ReadingChild(met, m) \/ Between(met, m))
           /\ m \in Moments /\ MomentOK(met, m) /\ m.path # <<>> /\ m.path \in Seq(PathFrames)
           /\ m.read \in Nat \ {0} /\ m.read <= Len(met) /\ Len(m.path) \in Nat \ {0}
           /\ m = walk[k] /\ after = AfterMoment(met, m) /\ MomentOK(met, after) /\ after \in Moments
           /\ Visiting(met, m) => m.read + 1 <= Len(met) /\ met[m.read + 1] = ChildAt(met, m)
           /\ after.path # <<>> => k + 1 \in 1 .. Len(walk) - 1 /\ after = walk[k + 1]
           /\ k \in 1 .. Len(walk) - 1
  BY <1>1, BuilderFacts
<1>3. Frames(met, m)'  BY <1>1, <1>2, FramesSame
<1>4. CASE pc = "cut_count"
  <2>1. Entering(met, m)  BY <1>2, <1>4 DEF ReadingChild, Between
  <2>2. position = At(CountAt(m.read), 1)  BY <1>4, <2>1 DEF Entering
  <2>3. m.read \in 1 .. Len(met)  BY <1>2
  <2>4. /\ CountAt(m.read) \in Nat \ {0} /\ CountAt(m.read) < Len(sections)
        /\ CountAt(m.read) + 1 = DentryAt(m.read + 1)
        /\ \E x \in Int : /\ sections[CountAt(m.read)] = << Element("count", met[m.read], x) >>
                          /\ tree.is_dir[met[m.read]] => x = Len(Children(met[m.read]))
    BY <1>1, <1>2, <2>3, FoundFacts
  <2>5. 1 = Len(sections[CountAt(m.read)]) /\ 1 <= Len(sections[CountAt(m.read)]) /\ 1 \in Nat  BY <2>4
  <2>6. got' = NullElement /\ position' = Start(DentryAt(m.read + 1))
    BY <1>1, <2>2, <2>4, <2>5, ReadFacts
  <2>7. Between(met, m)'  BY <1>1, <1>4, <2>6 DEF Between
  <2>8. ReadAsWritten'  BY <2>6 DEF ReadAsWritten, NullElement
  <2> QED BY <1>1, <1>2, <1>3, <2>7, <2>8, BuilderStep
<1>5. CASE pc = "cut_dentry"
  <2>1. PICK node, n : node = ChildAt(met, m) /\ n = m.read + 1  OBVIOUS
  <2>2. /\ Visiting(met, m) /\ position = At(DentryAt(n), 1) /\ Top(builds).file = FilePart(node, 0, 0)
    BY <1>2, <1>5, <2>1 DEF ReadingChild, Entering, Between
  <2>3. /\ DentryAt(n) \in Nat \ {0} /\ DentryAt(n) < Len(sections) /\ DentryAt(n) + 1 = NameAt(n)
        /\ Start(NameAt(n)) = At(NameAt(n), 0) /\ node \in Nodes
        /\ sections[DentryAt(n)] = << Element("dentry", node, 0) >>
    <3>1. /\ tree \in Trees /\ sections \in Logs /\ met \in Seq(Nodes) /\ Stored(sections, met, <<>>)
          /\ Len(sections) = CountAt(Len(met)) + 1 /\ m.read \in Nat \ {0} /\ m.read + 1 <= Len(met)
          /\ met[n] = node
      BY <1>1, <1>2, <2>1, <2>2
    <3>2. n \in 1 .. Len(met) /\ n > 1  BY <2>1, <3>1
    <3> QED BY <3>1, <3>2, ChildFacts
  <2>4. 1 = Len(sections[DentryAt(n)]) /\ 1 <= Len(sections[DentryAt(n)]) /\ 1 \in Nat  BY <2>3
  <2>5. got' = NullElement /\ position' = At(NameAt(n), 0)
    BY <1>1, <2>2, <2>3, <2>4, ReadFacts
  <2>6. 0 \in 0 .. tree.parts[node]  BY <1>1, <2>3, TreeFacts
  <2>7. ReadingChild(met, m)'  BY <1>1, <1>5, <2>1, <2>2, <2>5, <2>6, ReadingOn
  <2>8. ReadAsWritten'  BY <2>5 DEF ReadAsWritten, NullElement
  <2> QED BY <1>1, <1>2, <1>3, <2>7, <2>8, BuilderStep
<1> QED BY <1>1, <1>4, <1>5

\* The stack with another frame on top, from its top.
LEMMA NewTop ==
  ASSUME NEW S, NEW stack \in Seq(S), stack # <<>>, NEW frame \in S
  PROVE  Top(WithTop(stack, frame)) = frame
<1>1. Len(stack) \in Nat \ {0}  OBVIOUS
<1>2. /\ Len(WithTop(stack, frame)) = Len(stack)
      /\ \A k \in 1 .. Len(stack) :
           WithTop(stack, frame)[k] = IF k = Len(stack) THEN frame ELSE stack[k]
  BY WithTopFacts
<1> QED BY <1>1, <1>2 DEF Top

\* What is read of a sequence so far.
LEMMA PrefixFacts ==
  ASSUME NEW S, NEW s \in Seq(S)
  PROVE  /\ SubSeq(s, 1, 0) = <<>> /\ SubSeq(s, 1, Len(s)) = s
         /\ \A x \in 0 .. Len(s) : SubSeq(s, 1, x) \in Seq(S)
         /\ \A x \in 0 .. Len(s) - 1 : Append(SubSeq(s, 1, x), s[x + 1]) = SubSeq(s, 1, x + 1)
<1>1. Len(s) \in Nat  OBVIOUS
<1>2. SubSeq(s, 1, 0) = <<>>  OBVIOUS
<1>3. \A x \in 0 .. Len(s) : /\ SubSeq(s, 1, x) \in Seq(S) /\ Len(SubSeq(s, 1, x)) = x
                             /\ \A k \in 1 .. x : SubSeq(s, 1, x)[k] = s[k]
  <2> TAKE x \in 0 .. Len(s)
  <2>1. x \in Nat /\ 1 .. x \subseteq 1 .. Len(s)  BY <1>1
  <2>2. \A k \in 1 .. x : s[k] \in S  BY <2>1
  <2> QED BY <2>1, <2>2
<1>4. SubSeq(s, 1, Len(s)) = s
  <2>1. Len(s) \in 0 .. Len(s)  BY <1>1
  <2>2. SubSeq(s, 1, Len(s)) \in Seq(S) /\ Len(SubSeq(s, 1, Len(s))) = Len(s)
        /\ \A k \in 1 .. Len(s) : SubSeq(s, 1, Len(s))[k] = s[k]
    BY <1>3, <2>1
  <2> DEFINE whole == SubSeq(s, 1, Len(s))
  <2> HIDE DEF whole
  <2>3. whole = s  BY <2>2 DEF whole
  <2> QED BY <2>3 DEF whole
<1>5. ASSUME NEW x \in 0 .. Len(s) - 1
      PROVE  Append(SubSeq(s, 1, x), s[x + 1]) = SubSeq(s, 1, x + 1)
  <2>1. x \in 0 .. Len(s) /\ x + 1 \in 0 .. Len(s) /\ x \in Nat /\ x + 1 \in 1 .. Len(s) /\ s[x + 1] \in S
    BY <1>1
  <2> DEFINE less == SubSeq(s, 1, x)
             more == SubSeq(s, 1, x + 1)
  <2>2. /\ less \in Seq(S) /\ Len(less) = x /\ \A k \in 1 .. x : less[k] = s[k]
        /\ more \in Seq(S) /\ Len(more) = x + 1 /\ \A k \in 1 .. x + 1 : more[k] = s[k]
    BY <1>3, <2>1
  <2> HIDE DEF less, more
  <2>3. /\ Append(less, s[x + 1]) \in Seq(S) /\ Len(Append(less, s[x + 1])) = x + 1
        /\ \A k \in 1 .. x + 1 : Append(less, s[x + 1])[k] = s[k]
    <3>1. \A k \in 1 .. x + 1 : k \in 1 .. x \/ k = x + 1  BY <2>1
    <3> QED BY <2>1, <2>2, <3>1
  <2>4. Append(less, s[x + 1]) = more
    <3> DEFINE app == Append(less, s[x + 1])
    <3>1. app \in Seq(S) /\ Len(app) = x + 1 /\ \A k \in 1 .. x + 1 : app[k] = s[k]  BY <2>3
    <3> HIDE DEF app
    <3>2. app = more  BY <2>2, <3>1
    <3> QED BY <3>2 DEF app
  <2> QED BY <2>4 DEF less, more
<1> QED BY <1>2, <1>3, <1>4, <1>5

\* A file that is read element by element.
LEMMA FileFacts ==
  ASSUME tree \in Trees, NEW node \in Nodes
  PROVE  /\ FilePart(node, 0, 0) = [NoFile EXCEPT !.dentry = Element("dentry", node, 0)]
         /\ \A x \in 0 .. tree.parts[node], y \in 0 .. tree.extents[node] : FilePart(node, x, y) \in Files
         /\ \A x \in 0 .. tree.parts[node] - 1 :
              [FilePart(node, x, 0) EXCEPT !.name = Append(@, Element("name", node, x + 1))]
                = FilePart(node, x + 1, 0)
         /\ \A x \in 0 .. tree.parts[node], y \in 0 .. tree.extents[node] - 1 :
              [FilePart(node, x, y) EXCEPT !.extents = Append(@, Element("extent", node, y + 1))]
                = FilePart(node, x, y + 1)
         /\ FileOf(node) = IF tree.is_dir[node] THEN FilePart(node, tree.parts[node], 0)
                           ELSE FilePart(node, tree.parts[node], tree.extents[node])
<1> DEFINE name == NameOf(node)
           extents == ExtentsOf(node)
<1>1. /\ name \in Seq(Elements) /\ Len(name) = tree.parts[node] /\ tree.parts[node] \in Nat
      /\ \A n \in 1 .. tree.parts[node] : name[n] = Element("name", node, n)
      /\ extents \in Seq(Elements) /\ Len(extents) = tree.extents[node] /\ tree.extents[node] \in Nat
      /\ \A n \in 1 .. tree.extents[node] : extents[n] = Element("extent", node, n)
  BY ContentFacts, TreeFacts
<1>2. Element("dentry", node, 0) \in Elements
  <2>1. node \in Nat  BY TreeFacts
  <2> QED BY <2>1 DEF Element, Elements, Kinds
<1> HIDE DEF name, extents
<1>3. /\ SubSeq(name, 1, 0) = <<>> /\ SubSeq(name, 1, tree.parts[node]) = name
      /\ \A x \in 0 .. tree.parts[node] : SubSeq(name, 1, x) \in Seq(Elements)
      /\ \A x \in 0 .. tree.parts[node] - 1 : Append(SubSeq(name, 1, x), name[x + 1]) = SubSeq(name, 1, x + 1)
  BY <1>1, PrefixFacts
<1>4. /\ SubSeq(extents, 1, 0) = <<>> /\ SubSeq(extents, 1, tree.extents[node]) = extents
      /\ \A y \in 0 .. tree.extents[node] : SubSeq(extents, 1, y) \in Seq(Elements)
      /\ \A y \in 0 .. tree.extents[node] - 1 :
           Append(SubSeq(extents, 1, y), extents[y + 1]) = SubSeq(extents, 1, y + 1)
  BY <1>1, PrefixFacts
<1>5. \A x, y : FilePart(node, x, y) = [ dentry  |-> Element("dentry", node, 0), name |-> SubSeq(name, 1, x),
                                         extents |-> SubSeq(extents, 1, y) ]
  BY DEF FilePart, name, extents
<1>6. FilePart(node, 0, 0) = [NoFile EXCEPT !.dentry = Element("dentry", node, 0)]
  BY <1>3, <1>4, <1>5 DEF NoFile
<1>7. \A x \in 0 .. tree.parts[node], y \in 0 .. tree.extents[node] : FilePart(node, x, y) \in Files
  <2> TAKE x \in 0 .. tree.parts[node], y \in 0 .. tree.extents[node]
  <2>1. SubSeq(name, 1, x) \in Seq(Elements) /\ SubSeq(extents, 1, y) \in Seq(Elements)  BY <1>3, <1>4
  <2> QED BY <1>2, <2>1 DEF Files, FilePart, name, extents
<1>8. ASSUME NEW x \in 0 .. tree.parts[node] - 1
      PROVE  [FilePart(node, x, 0) EXCEPT !.name = Append(@, Element("name", node, x + 1))]
               = FilePart(node, x + 1, 0)
  <2>1. x + 1 \in 1 .. tree.parts[node]  BY <1>1
  <2>2. name[x + 1] = Element("name", node, x + 1)  BY <1>1, <2>1
  <2>3. Append(SubSeq(name, 1, x), Element("name", node, x + 1)) = SubSeq(name, 1, x + 1)  BY <1>3, <2>2
  <2>4. \A d, a, b, c : [[dentry |-> d, name |-> a, extents |-> c] EXCEPT !.name = b] = [dentry |-> d, name |-> b, extents |-> c]
    OBVIOUS
  <2>5. /\ FilePart(node, x, 0) = [ dentry  |-> Element("dentry", node, 0), name |-> SubSeq(name, 1, x),
                                    extents |-> SubSeq(extents, 1, 0) ]
        /\ FilePart(node, x + 1, 0) = [ dentry  |-> Element("dentry", node, 0), name |-> SubSeq(name, 1, x + 1),
                                        extents |-> SubSeq(extents, 1, 0) ]
    BY DEF FilePart, name, extents
  <2> DEFINE d == Element("dentry", node, 0)
             a == SubSeq(name, 1, x)
             b == SubSeq(name, 1, x + 1)
             c == SubSeq(extents, 1, 0)
             e == Element("name", node, x + 1)
  <2>6. [[dentry |-> d, name |-> a, extents |-> c] EXCEPT !.name = Append(@, e)]
          = [dentry |-> d, name |-> b, extents |-> c]
    <3> DEFINE file == [dentry |-> d, name |-> a, extents |-> c]
    <3>1. Append(a, e) = b  BY <2>3
    <3> HIDE DEF d, a, b, c, e
    <3>2. file.name = a /\ [file EXCEPT !.name = b] = [dentry |-> d, name |-> b, extents |-> c]  BY <2>4
    <3>3. [file EXCEPT !.name = Append(@, e)] = [file EXCEPT !.name = b]
      <4> HIDE DEF file
      <4> QED BY <3>1, <3>2
    <3> QED BY <3>2, <3>3
  <2> QED BY <2>5, <2>6
<1>9. ASSUME NEW x \in 0 .. tree.parts[node], NEW y \in 0 .. tree.extents[node] - 1
      PROVE  [FilePart(node, x, y) EXCEPT !.extents = Append(@, Element("extent", node, y + 1))]
               = FilePart(node, x, y + 1)
  <2>1. y + 1 \in 1 .. tree.extents[node]  BY <1>1
  <2>2. extents[y + 1] = Element("extent", node, y + 1)  BY <1>1, <2>1
  <2>3. Append(SubSeq(extents, 1, y), Element("extent", node, y + 1)) = SubSeq(extents, 1, y + 1)
    BY <1>4, <2>2
  <2>4. \A d, a, b, c : [[dentry |-> d, name |-> c, extents |-> a] EXCEPT !.extents = b] = [dentry |-> d, name |-> c, extents |-> b]
    OBVIOUS
  <2>5. /\ FilePart(node, x, y) = [ dentry  |-> Element("dentry", node, 0), name |-> SubSeq(name, 1, x),
                                    extents |-> SubSeq(extents, 1, y) ]
        /\ FilePart(node, x, y + 1) = [ dentry  |-> Element("dentry", node, 0), name |-> SubSeq(name, 1, x),
                                        extents |-> SubSeq(extents, 1, y + 1) ]
    BY DEF FilePart, name, extents
  <2> DEFINE d == Element("dentry", node, 0)
             c == SubSeq(name, 1, x)
             a == SubSeq(extents, 1, y)
             b == SubSeq(extents, 1, y + 1)
             e == Element("extent", node, y + 1)
  <2>6. [[dentry |-> d, name |-> c, extents |-> a] EXCEPT !.extents = Append(@, e)]
          = [dentry |-> d, name |-> c, extents |-> b]
    <3> DEFINE file == [dentry |-> d, name |-> c, extents |-> a]
    <3>1. Append(a, e) = b  BY <2>3
    <3> HIDE DEF d, a, b, c, e
    <3>2. file.extents = a /\ [file EXCEPT !.extents = b] = [dentry |-> d, name |-> c, extents |-> b]  BY <2>4
    <3>3. [file EXCEPT !.extents = Append(@, e)] = [file EXCEPT !.extents = b]
      <4> HIDE DEF file
      <4> QED BY <3>1, <3>2
    <3> QED BY <3>2, <3>3
  <2> QED BY <2>5, <2>6
<1>10. FileOf(node) = IF tree.is_dir[node] THEN FilePart(node, tree.parts[node], 0)
                      ELSE FilePart(node, tree.parts[node], tree.extents[node])
  BY <1>3, <1>4, <1>5 DEF FileOf, name, extents
<1> QED BY <1>6, <1>7, <1>8, <1>9, <1>10

\* build_ext4_metadata_tree is entered at the extents of its directory.
LEMMA EnterBuildStep == TraverseInv /\ EnterBuild => TraverseInv'
<1> SUFFICES ASSUME TraverseInv, EnterBuild PROVE TraverseInv'  OBVIOUS
<1> DEFINE first == Advanced(Iterator(position))
           new == [iterator |-> first, child_count |-> 0, i |-> 0, file |-> NoFile]
<1>1. /\ tree \in Trees /\ tree' = tree /\ sections \in Logs /\ sections' = sections /\ calls' = calls
      /\ builds' = Append(builds, new) /\ built' = built /\ position' = position /\ pc = "build"
      /\ got' = first.current /\ asked' = "extent" /\ pc' = "skip_dir_extents"
  BY DEF TraverseInv, EnterBuild, writerVars
<1>2. PICK met, walk, k, m, after :
           /\ Walk(met, walk) /\ met \in Seq(Nodes) /\ Len(met) \in Nat \ {0} /\ Stored(sections, met, <<>>)
           /\ Top(walk).path = <<>> /\ calls = <<>> /\ Len(sections) = CountAt(Len(met)) + 1
           /\ Frames(met, m) /\ (Entering(met, m) \/ ReadingChild(met, m) \/ Between(met, m))
           /\ m \in Moments /\ MomentOK(met, m) /\ m.path # <<>> /\ m.path \in Seq(PathFrames)
           /\ m.read \in Nat \ {0} /\ m.read <= Len(met) /\ Len(m.path) \in Nat \ {0}
           /\ m = walk[k] /\ after = AfterMoment(met, m) /\ MomentOK(met, after) /\ after \in Moments
           /\ Visiting(met, m) => m.read + 1 <= Len(met) /\ met[m.read + 1] = ChildAt(met, m)
           /\ after.path # <<>> => k + 1 \in 1 .. Len(walk) - 1 /\ after = walk[k + 1]
           /\ k \in 1 .. Len(walk) - 1
  BY <1>1, BuilderFacts
<1>3. Entering(met, m)  BY <1>1, <1>2 DEF ReadingChild, Between
<1>4. PICK n \in 1 .. Len(met) : n = m.read  BY <1>2
<1>5. position = Start(ExtentsAt(n)) /\ Top(m.path) = [num |-> n, next |-> 1]
  BY <1>1, <1>3, <1>4 DEF Entering
<1>6. /\ met[n] \in Nodes /\ ExtentsAt(n) \in Nat \ {0} /\ ExtentsAt(n) < Len(sections)
      /\ sections[ExtentsAt(n)] = ExtentsOf(met[n]) /\ Start(ExtentsAt(n)) = At(ExtentsAt(n), 0)
  <2>1. /\ tree \in Trees /\ sections \in Logs /\ met \in Seq(Nodes) /\ Stored(sections, met, <<>>)
        /\ Len(sections) = CountAt(Len(met)) + 1
    BY <1>1, <1>2
  <2> QED BY <2>1, FoundFacts
<1>7. /\ first \in Iterators /\ Reads(first, met[n], ExtentsAt(n))
      /\ first.current = NullElement \/ first.current.type = "extent"
  <2>1. Iterator(position) \in Iterators
    <3>1. Element("none", 0, 0) \in Elements  BY DEF Element, Elements, Kinds
    <3>2. position \in Positions  BY <1>5, <1>6 DEF At, Positions
    <3> QED BY <3>1, <3>2 DEF Iterator, Iterators
  <2>2. Iterator(position) = Iterator(Start(ExtentsAt(n)))  BY <1>5
  <2> QED BY <1>1, <1>6, <2>1, <2>2, IteratorReads
<1> HIDE DEF first
<1>8. new \in BuildFrames /\ new.i = 0 /\ new.iterator = first
  <2>1. NoFile \in Files  BY DEF NoFile, Files, NullElement, Element, Elements, Kinds
  <2> QED BY <1>7, <2>1 DEF BuildFrames
<1> HIDE DEF new
<1> DEFINE last == Len(m.path)
<1>9. last \in Nat \ {0} /\ Top(m.path) = m.path[last]  BY <1>2, StackFacts
<1>10. /\ builds \in Seq(BuildFrames) /\ Len(builds) = last - 1
       /\ built \in Seq(Files) /\ Len(built) = m.read - 1
       /\ \A j \in 1 .. Len(built) : built[j] = FileOf(met[j + 1])
  BY <1>1, <1>2 DEF Frames
<1>11. /\ builds' \in Seq(BuildFrames) /\ Len(builds') = last
       /\ \A j \in 1 .. last : builds'[j] = IF j = last THEN new ELSE builds[j]
  <2>1. \A j \in 1 .. last : j # last => j \in 1 .. Len(builds)  BY <1>9, <1>10
  <2> HIDE DEF last
  <2>2. builds' = Append(builds, new) /\ Len(builds) + 1 = last  BY <1>1, <1>9, <1>10
  <2> QED BY <1>8, <1>10, <2>1, <2>2
<1>12. ASSUME NEW j \in 1 .. last
       PROVE  /\ builds'[j].i = m.path[j].next - 1
              /\ Reads(builds'[j].iterator, met[m.path[j].num], ExtentsAt(m.path[j].num))
              /\ j < last => builds'[j].child_count = Len(Children(met[m.path[j].num]))
              /\ j < last => builds'[j].file.dentry = Element("dentry", met[m.path[j + 1].num], 0)
  <2>1. CASE j = last
    <3>1. builds'[j] = new /\ m.path[j] = [num |-> n, next |-> 1] /\ ~ j < last
      BY <1>5, <1>9, <1>11, <2>1
    <3> QED BY <1>7, <1>8, <3>1
  <2>2. CASE j # last
    <3>1. j < last /\ j \in 1 .. Len(builds) /\ builds'[j] = builds[j]  BY <1>9, <1>10, <1>11, <2>2
    <3> QED BY <1>2, <3>1 DEF Frames
  <2> QED BY <2>1, <2>2
<1> HIDE DEF last
<1>13. Frames(met, m)'
  <2>1. Len(m.path) = last  BY DEF last
  <2> QED BY <1>1, <1>10, <1>11, <1>12, <2>1 DEF Frames, Reads, Children, FileOf, NameOf, ExtentsOf
<1>14. Entering(met, m)'
  <2>1. 0 \in 0 .. tree.extents[met[n]]  BY <1>1, <1>6, TreeFacts
  <2>2. position' = At(ExtentsAt(n), 0)  BY <1>1, <1>5, <1>6
  <2> QED BY <1>1, <1>4, <1>5, <2>1, <2>2 DEF Entering
<1>15. ReadAsWritten'  BY <1>1, <1>7 DEF ReadAsWritten, NullElement
<1> QED BY <1>1, <1>2, <1>13, <1>14, <1>15, BuilderStep

\* The entry is that of the next child.
LEMMA ReadDentryStep == TraverseInv /\ ReadDentry => TraverseInv'
<1> SUFFICES ASSUME TraverseInv, ReadDentry PROVE TraverseInv'  OBVIOUS
<1> DEFINE new == [Top(builds) EXCEPT !.file = [NoFile EXCEPT !.dentry = got']]
<1>1. /\ tree \in Trees /\ tree' = tree /\ sections \in Logs /\ sections' = sections /\ calls' = calls
      /\ builds' = WithTop(builds, new) /\ built' = built /\ pc = "child"
      /\ Top(builds).i < Top(builds).child_count
      /\ got' = NextElement(position)[1] /\ asked' = "dentry" /\ position' = NextElement(position)[2]
      /\ pc' = "cut_dentry"
  BY DEF TraverseInv, ReadDentry, ReadElement, writerVars
<1>2. PICK met, walk, k, m, after :
           /\ Walk(met, walk) /\ met \in Seq(Nodes) /\ Len(met) \in Nat \ {0} /\ Stored(sections, met, <<>>)
           /\ Top(walk).path = <<>> /\ calls = <<>> /\ Len(sections) = CountAt(Len(met)) + 1
           /\ Frames(met, m) /\ (Entering(met, m) \/ ReadingChild(met, m) \/ Between(met, m))
           /\ m \in Moments /\ MomentOK(met, m) /\ m.path # <<>> /\ m.path \in Seq(PathFrames)
           /\ m.read \in Nat \ {0} /\ m.read <= Len(met) /\ Len(m.path) \in Nat \ {0}
           /\ m = walk[k] /\ after = AfterMoment(met, m) /\ MomentOK(met, after) /\ after \in Moments
           /\ Visiting(met, m) => m.read + 1 <= Len(met) /\ met[m.read + 1] = ChildAt(met, m)
           /\ after.path # <<>> => k + 1 \in 1 .. Len(walk) - 1 /\ after = walk[k + 1]
           /\ k \in 1 .. Len(walk) - 1
  BY <1>1, BuilderFacts
<1>3. Between(met, m)  BY <1>1, <1>2 DEF ReadingChild, Entering
<1>4. /\ builds \in Seq(BuildFrames) /\ builds # <<>> /\ Top(builds) \in BuildFrames
      /\ Top(builds).i = Top(m.path).next - 1
      /\ Reads(Top(builds).iterator, met[Top(m.path).num], ExtentsAt(Top(m.path).num))
      /\ Top(builds).child_count = Len(Children(met[Top(m.path).num]))
  BY <1>1, <1>2, TopBuild
<1>5. Visiting(met, m)
  <2>1. Top(m.path) \in PathFrames /\ Children(met[Top(m.path).num]) \in Seq(Nodes)
    BY <1>1, <1>2, MomentFacts
  <2>2. Top(m.path).next \in Nat /\ Len(Children(met[Top(m.path).num])) \in Nat
    BY <2>1 DEF PathFrames
  <2>3. \A a, b \in Nat : a - 1 < b => a <= b  OBVIOUS
  <2> QED BY <1>1, <1>4, <2>2, <2>3 DEF Visiting
<1>6. PICK n \in 1 .. Len(met), node \in Nodes :
        n = m.read + 1 /\ n > 1 /\ met[n] = node /\ node = ChildAt(met, m)
  <2>1. m.read + 1 \in 1 .. Len(met) /\ m.read + 1 > 1 /\ met[m.read + 1] = ChildAt(met, m)
    BY <1>2, <1>5
  <2> QED BY <1>2, <2>1
<1>7. /\ DentryAt(n) \in Nat \ {0} /\ DentryAt(n) < Len(sections)
      /\ Start(DentryAt(n)) = At(DentryAt(n), 0)
      /\ sections[DentryAt(n)] = << Element("dentry", node, 0) >>
  <2>1. /\ tree \in Trees /\ sections \in Logs /\ met \in Seq(Nodes) /\ Stored(sections, met, <<>>)
        /\ Len(sections) = CountAt(Len(met)) + 1
    BY <1>1, <1>2
  <2>2. n \in 1 .. Len(met) /\ n > 1  BY <1>6
  <2>3. /\ DentryAt(n) \in Nat \ {0} /\ DentryAt(n) < Len(sections)
        /\ Start(DentryAt(n)) = At(DentryAt(n), 0)
        /\ sections[DentryAt(n)] = << Element("dentry", met[n], 0) >>
    BY <2>1, <2>2, ChildFacts
  <2> QED BY <1>6, <2>3
<1>8. got' = Element("dentry", node, 0) /\ position' = At(DentryAt(n), 1)
  <2>1. Len(sections[DentryAt(n)]) = 1 /\ sections[DentryAt(n)][1] = Element("dentry", node, 0)
    BY <1>7
  <2>2. /\ position = At(DentryAt(n), 0) /\ 0 < Len(sections[DentryAt(n)])
        /\ 0 <= Len(sections[DentryAt(n)])
    BY <1>3, <1>6, <1>7, <2>1 DEF Between
  <2>3. got' = sections[DentryAt(n)][0 + 1] /\ position' = At(DentryAt(n), 0 + 1)
    BY <1>1, <1>7, <2>2, ReadFacts
  <2> QED BY <2>1, <2>3
<1>9. FilePart(node, 0, 0) = [NoFile EXCEPT !.dentry = got'] /\ FilePart(node, 0, 0) \in Files
  <2>1. 0 \in 0 .. tree.parts[node] /\ 0 \in 0 .. tree.extents[node]  BY <1>1, TreeFacts
  <2>2. FilePart(node, 0, 0) = [NoFile EXCEPT !.dentry = Element("dentry", node, 0)]  BY <1>1, FileFacts
  <2>3. FilePart(node, 0, 0) \in Files  BY <1>1, <2>1, FileFacts
  <2> QED BY <1>8, <2>2, <2>3
<1>10. /\ new \in BuildFrames /\ new.i = Top(builds).i /\ new.iterator = Top(builds).iterator
       /\ new.child_count = Top(builds).child_count /\ new.file = FilePart(node, 0, 0)
  BY <1>4, <1>9 DEF BuildFrames
<1> HIDE DEF new
<1>11. Frames(met, m)'  BY <1>1, <1>2, <1>4, <1>10, FramesTop
<1>12. Top(builds') = new
  <2>1. Top(WithTop(builds, new)) = new  BY <1>4, <1>10, NewTop
  <2> QED BY <1>1, <2>1
<1>13. ReadingChild(met, m)'  BY <1>1, <1>5, <1>6, <1>8, <1>10, <1>12, ReadingOn
<1>14. ReadAsWritten'  BY <1>1, <1>8 DEF ReadAsWritten, Element
<1> QED BY <1>1, <1>2, <1>11, <1>13, <1>14, BuilderStep

\* The name, up to its NullElement.
LEMMA ReadNameStep == TraverseInv /\ ReadName => TraverseInv'
<1> SUFFICES ASSUME TraverseInv, ReadName PROVE TraverseInv'  OBVIOUS
<1> DEFINE new == [Top(builds) EXCEPT !.file.name = Append(@, got')]
<1>1. /\ tree \in Trees /\ tree' = tree /\ sections \in Logs /\ sections' = sections /\ calls' = calls
      /\ builds' = (IF got' = NullElement THEN builds ELSE WithTop(builds, new))
      /\ built' = built /\ pc = "name"
      /\ got' = NextElement(position)[1] /\ asked' = "name" /\ position' = NextElement(position)[2]
      /\ pc' = IF got' = NullElement THEN "place" ELSE "name"
  BY DEF TraverseInv, ReadName, ReadElement, writerVars
<1>2. PICK met, walk, k, m, after :
           /\ Walk(met, walk) /\ met \in Seq(Nodes) /\ Len(met) \in Nat \ {0} /\ Stored(sections, met, <<>>)
           /\ Top(walk).path = <<>> /\ calls = <<>> /\ Len(sections) = CountAt(Len(met)) + 1
           /\ Frames(met, m) /\ (Entering(met, m) \/ ReadingChild(met, m) \/ Between(met, m))
           /\ m \in Moments /\ MomentOK(met, m) /\ m.path # <<>> /\ m.path \in Seq(PathFrames)
           /\ m.read \in Nat \ {0} /\ m.read <= Len(met) /\ Len(m.path) \in Nat \ {0}
           /\ m = walk[k] /\ after = AfterMoment(met, m) /\ MomentOK(met, after) /\ after \in Moments
           /\ Visiting(met, m) => m.read + 1 <= Len(met) /\ met[m.read + 1] = ChildAt(met, m)
           /\ after.path # <<>> => k + 1 \in 1 .. Len(walk) - 1 /\ after = walk[k + 1]
           /\ k \in 1 .. Len(walk) - 1
  BY <1>1, BuilderFacts
<1>3. ReadingChild(met, m)  BY <1>1, <1>2 DEF Between, Entering
<1>4. /\ builds \in Seq(BuildFrames) /\ builds # <<>> /\ Top(builds) \in BuildFrames
      /\ Reads(Top(builds).iterator, met[Top(m.path).num], ExtentsAt(Top(m.path).num))
      /\ Top(builds).child_count = Len(Children(met[Top(m.path).num]))
  BY <1>1, <1>2, TopBuild
<1>5. Visiting(met, m)  BY <1>3 DEF ReadingChild
<1>6. PICK n \in 1 .. Len(met), node \in Nodes :
        n = m.read + 1 /\ n > 1 /\ met[n] = node /\ node = ChildAt(met, m)
  <2>1. m.read + 1 \in 1 .. Len(met) /\ m.read + 1 > 1 /\ met[m.read + 1] = ChildAt(met, m)
    BY <1>2, <1>5
  <2> QED BY <1>2, <2>1
<1>7. PICK x \in 0 .. tree.parts[node] :
        position = At(NameAt(n), x) /\ Top(builds).file = FilePart(node, x, 0)
  BY <1>1, <1>3, <1>6 DEF ReadingChild
<1>8. /\ NameAt(n) \in Nat \ {0} /\ NameAt(n) < Len(sections) /\ NameAt(n) + 1 = ExtentsAt(n)
      /\ sections[NameAt(n)] = NameOf(node)
  <2>1. /\ tree \in Trees /\ sections \in Logs /\ met \in Seq(Nodes) /\ Stored(sections, met, <<>>)
        /\ Len(sections) = CountAt(Len(met)) + 1
    BY <1>1, <1>2
  <2>2. n \in 1 .. Len(met) /\ n > 1  BY <1>6
  <2>3. /\ NameAt(n) \in Nat \ {0} /\ NameAt(n) < Len(sections) /\ NameAt(n) + 1 = ExtentsAt(n)
        /\ sections[NameAt(n)] = NameOf(met[n])
    BY <2>1, <2>2, ChildFacts
  <2> QED BY <1>6, <2>3
<1>9. /\ Len(NameOf(node)) = tree.parts[node] /\ tree.parts[node] \in Nat /\ tree.extents[node] \in Nat
      /\ \A j \in 1 .. tree.parts[node] : NameOf(node)[j] = Element("name", node, j)
  BY <1>1, <1>6, ContentFacts, TreeFacts
<1>10. x \in Nat /\ x <= Len(sections[NameAt(n)]) /\ Len(sections[NameAt(n)]) = tree.parts[node]
  BY <1>8, <1>9
<1>11. CASE x < tree.parts[node]
  <2>1. got' = Element("name", node, x + 1) /\ position' = At(NameAt(n), x + 1)
    <3>1. x + 1 \in 1 .. tree.parts[node]  BY <1>9, <1>10, <1>11
    <3>2. got' = sections[NameAt(n)][x + 1] /\ position' = At(NameAt(n), x + 1)
      BY <1>1, <1>7, <1>8, <1>10, <1>11, ReadFacts
    <3> QED BY <1>8, <1>9, <3>1, <3>2
  <2>2. got' # NullElement /\ got'.type = asked'  BY <1>1, <2>1 DEF Element, NullElement
  <2>3. /\ [FilePart(node, x, 0) EXCEPT !.name = Append(@, got')] = FilePart(node, x + 1, 0)
        /\ FilePart(node, x + 1, 0) \in Files /\ x + 1 \in 0 .. tree.parts[node]
    <3>1. x \in 0 .. tree.parts[node] - 1 /\ x + 1 \in 0 .. tree.parts[node] /\ 0 \in 0 .. tree.extents[node]
      BY <1>9, <1>10, <1>11
    <3>2. [FilePart(node, x, 0) EXCEPT !.name = Append(@, Element("name", node, x + 1))] = FilePart(node, x + 1, 0)
      BY <1>1, <3>1, FileFacts
    <3>3. FilePart(node, x + 1, 0) \in Files  BY <1>1, <3>1, FileFacts
    <3> QED BY <2>1, <3>1, <3>2, <3>3
  <2>4. /\ new \in BuildFrames /\ new.i = Top(builds).i /\ new.iterator = Top(builds).iterator
        /\ new.child_count = Top(builds).child_count /\ new.file = FilePart(node, x + 1, 0)
    <3>1. new = [Top(builds) EXCEPT !.file = [Top(builds).file EXCEPT !.name = Append(@, got')]]
      BY <1>4 DEF BuildFrames, Files
    <3>2. new = [Top(builds) EXCEPT !.file = FilePart(node, x + 1, 0)]  BY <1>7, <2>3, <3>1
    <3> HIDE DEF new
    <3> QED BY <1>4, <2>3, <3>2 DEF BuildFrames
  <2> HIDE DEF new
  <2>5. builds' = WithTop(builds, new) /\ pc' = "name"  BY <1>1, <2>2
  <2>6. Frames(met, m)'  BY <1>1, <1>2, <1>4, <2>4, <2>5, FramesTop
  <2>7. Top(builds') = new
    <3>1. Top(WithTop(builds, new)) = new  BY <1>4, <2>4, NewTop
    <3> QED BY <2>5, <3>1
  <2>8. ReadingChild(met, m)'  BY <1>1, <1>5, <1>6, <2>1, <2>3, <2>4, <2>5, <2>7, ReadingOn
  <2>9. ReadAsWritten'  BY <2>2 DEF ReadAsWritten
  <2> QED BY <1>1, <1>2, <2>6, <2>8, <2>9, BuilderStep
<1>12. CASE x = tree.parts[node]
  <2>1. x = Len(sections[NameAt(n)])  BY <1>10, <1>12
  <2>2. got' = NullElement /\ position' = Start(ExtentsAt(n))
    BY <1>1, <1>7, <1>8, <1>10, <2>1, ReadFacts
  <2>3. builds' = builds /\ pc' = "place"  BY <1>1, <2>2
  <2>4. Frames(met, m)'  BY <1>1, <1>2, <2>3, FramesSame
  <2>5. Top(builds').file = FilePart(node, tree.parts[node], 0)  BY <1>7, <1>12, <2>3
  <2>6. ReadingChild(met, m)'  BY <1>1, <1>5, <1>6, <2>2, <2>3, <2>5, ReadingOn
  <2>7. ReadAsWritten'  BY <2>2 DEF ReadAsWritten, NullElement
  <2> QED BY <1>1, <1>2, <2>4, <2>6, <2>7, BuilderStep
<1> QED BY <1>9, <1>10, <1>11, <1>12

\* The extents of a file, up to their NullElement.
LEMMA SetExtentsStep == TraverseInv /\ set_extents => TraverseInv'
<1> SUFFICES ASSUME TraverseInv, set_extents PROVE TraverseInv'  OBVIOUS
<1> DEFINE new == [Top(builds) EXCEPT !.file.extents = Append(@, got')]
<1>1. /\ tree \in Trees /\ tree' = tree /\ sections \in Logs /\ sections' = sections /\ calls' = calls
      /\ builds' = (IF got' = NullElement THEN builds ELSE WithTop(builds, new))
      /\ built' = built /\ pc = "set_extents"
      /\ got' = NextElement(position)[1] /\ asked' = "extent" /\ position' = NextElement(position)[2]
      /\ pc' = IF got' = NullElement THEN "skip_child_count" ELSE "set_extents"
  BY DEF TraverseInv, set_extents, ReadElement, writerVars
<1>2. PICK met, walk, k, m, after :
           /\ Walk(met, walk) /\ met \in Seq(Nodes) /\ Len(met) \in Nat \ {0} /\ Stored(sections, met, <<>>)
           /\ Top(walk).path = <<>> /\ calls = <<>> /\ Len(sections) = CountAt(Len(met)) + 1
           /\ Frames(met, m) /\ (Entering(met, m) \/ ReadingChild(met, m) \/ Between(met, m))
           /\ m \in Moments /\ MomentOK(met, m) /\ m.path # <<>> /\ m.path \in Seq(PathFrames)
           /\ m.read \in Nat \ {0} /\ m.read <= Len(met) /\ Len(m.path) \in Nat \ {0}
           /\ m = walk[k] /\ after = AfterMoment(met, m) /\ MomentOK(met, after) /\ after \in Moments
           /\ Visiting(met, m) => m.read + 1 <= Len(met) /\ met[m.read + 1] = ChildAt(met, m)
           /\ after.path # <<>> => k + 1 \in 1 .. Len(walk) - 1 /\ after = walk[k + 1]
           /\ k \in 1 .. Len(walk) - 1
  BY <1>1, BuilderFacts
<1>3. ReadingChild(met, m)  BY <1>1, <1>2 DEF Between, Entering
<1>4. /\ builds \in Seq(BuildFrames) /\ builds # <<>> /\ Top(builds) \in BuildFrames
      /\ Reads(Top(builds).iterator, met[Top(m.path).num], ExtentsAt(Top(m.path).num))
      /\ Top(builds).child_count = Len(Children(met[Top(m.path).num]))
  BY <1>1, <1>2, TopBuild
<1>5. Visiting(met, m)  BY <1>3 DEF ReadingChild
<1>6. PICK n \in 1 .. Len(met), node \in Nodes :
        n = m.read + 1 /\ n > 1 /\ met[n] = node /\ node = ChildAt(met, m)
  <2>1. m.read + 1 \in 1 .. Len(met) /\ m.read + 1 > 1 /\ met[m.read + 1] = ChildAt(met, m)
    BY <1>2, <1>5
  <2> QED BY <1>2, <2>1
<1>7. PICK x \in 0 .. tree.extents[node] :
        position = At(ExtentsAt(n), x) /\ Top(builds).file = FilePart(node, tree.parts[node], x)
  BY <1>1, <1>3, <1>6 DEF ReadingChild
<1>8. /\ ExtentsAt(n) \in Nat \ {0} /\ ExtentsAt(n) < Len(sections) /\ ExtentsAt(n) + 1 = CountAt(n)
      /\ sections[ExtentsAt(n)] = ExtentsOf(node) /\ Start(CountAt(n)) = At(CountAt(n), 0)
  <2>1. /\ tree \in Trees /\ sections \in Logs /\ met \in Seq(Nodes) /\ Stored(sections, met, <<>>)
        /\ Len(sections) = CountAt(Len(met)) + 1
    BY <1>1, <1>2
  <2>2. n \in 1 .. Len(met) /\ n > 1  BY <1>6
  <2>3. /\ ExtentsAt(n) \in Nat \ {0} /\ ExtentsAt(n) < Len(sections) /\ ExtentsAt(n) + 1 = CountAt(n)
        /\ sections[ExtentsAt(n)] = ExtentsOf(met[n]) /\ Start(CountAt(n)) = At(CountAt(n), 0)
    BY <2>1, <2>2, ChildFacts
  <2> QED BY <1>6, <2>3
<1>9. /\ Len(ExtentsOf(node)) = tree.extents[node] /\ tree.extents[node] \in Nat /\ tree.parts[node] \in Nat
      /\ \A j \in 1 .. tree.extents[node] : ExtentsOf(node)[j] = Element("extent", node, j)
  BY <1>1, <1>6, ContentFacts, TreeFacts
<1>10. x \in Nat /\ x <= Len(sections[ExtentsAt(n)]) /\ Len(sections[ExtentsAt(n)]) = tree.extents[node]
  BY <1>8, <1>9
<1>a. ~ tree.is_dir[node]  BY <1>1, <1>3, <1>6 DEF ReadingChild
<1>11. CASE x < tree.extents[node]
  <2>1. got' = Element("extent", node, x + 1) /\ position' = At(ExtentsAt(n), x + 1)
    <3>1. x + 1 \in 1 .. tree.extents[node]  BY <1>9, <1>10, <1>11
    <3>2. got' = sections[ExtentsAt(n)][x + 1] /\ position' = At(ExtentsAt(n), x + 1)
      BY <1>1, <1>7, <1>8, <1>10, <1>11, ReadFacts
    <3> QED BY <1>8, <1>9, <3>1, <3>2
  <2>2. got' # NullElement /\ got'.type = asked'  BY <1>1, <2>1 DEF Element, NullElement
  <2> DEFINE parts == tree.parts[node]
  <2>3. /\ [FilePart(node, parts, x) EXCEPT !.extents = Append(@, got')] = FilePart(node, parts, x + 1)
        /\ FilePart(node, parts, x + 1) \in Files /\ x + 1 \in 0 .. tree.extents[node]
    <3>1. x \in 0 .. tree.extents[node] - 1 /\ x + 1 \in 0 .. tree.extents[node] /\ parts \in 0 .. tree.parts[node]
      BY <1>9, <1>10, <1>11
    <3> HIDE DEF parts
    <3>2. [FilePart(node, parts, x) EXCEPT !.extents = Append(@, Element("extent", node, x + 1))]
            = FilePart(node, parts, x + 1)
      BY <1>1, <3>1, FileFacts
    <3>3. FilePart(node, parts, x + 1) \in Files  BY <1>1, <3>1, FileFacts
    <3> QED BY <2>1, <3>1, <3>2, <3>3
  <2>4. /\ new \in BuildFrames /\ new.i = Top(builds).i /\ new.iterator = Top(builds).iterator
        /\ new.child_count = Top(builds).child_count /\ new.file = FilePart(node, parts, x + 1)
    <3>1. new = [Top(builds) EXCEPT !.file = [Top(builds).file EXCEPT !.extents = Append(@, got')]]
      BY <1>4 DEF BuildFrames, Files
    <3>2. new = [Top(builds) EXCEPT !.file = FilePart(node, parts, x + 1)]  BY <1>7, <2>3, <3>1
    <3> HIDE DEF new
    <3> QED BY <1>4, <2>3, <3>2 DEF BuildFrames
  <2> HIDE DEF new
  <2>5. builds' = WithTop(builds, new) /\ pc' = "set_extents"  BY <1>1, <2>2
  <2>6. Frames(met, m)'  BY <1>1, <1>2, <1>4, <2>4, <2>5, FramesTop
  <2>7. Top(builds') = new
    <3>1. Top(WithTop(builds, new)) = new  BY <1>4, <2>4, NewTop
    <3> QED BY <2>5, <3>1
  <2>8. ReadingChild(met, m)'  BY <1>1, <1>5, <1>6, <1>a, <2>1, <2>3, <2>4, <2>5, <2>7, ReadingOn
  <2>9. ReadAsWritten'  BY <2>2 DEF ReadAsWritten
  <2> QED BY <1>1, <1>2, <2>6, <2>8, <2>9, BuilderStep
<1>12. CASE x = tree.extents[node]
  <2>1. x = Len(sections[ExtentsAt(n)])  BY <1>10, <1>12
  <2>2. got' = NullElement /\ position' = At(CountAt(n), 0)
    BY <1>1, <1>7, <1>8, <1>10, <2>1, ReadFacts
  <2>3. builds' = builds /\ pc' = "skip_child_count"  BY <1>1, <2>2
  <2>4. Frames(met, m)'  BY <1>1, <1>2, <2>3, FramesSame
  <2>5. Top(builds').file = FilePart(node, tree.parts[node], tree.extents[node])  BY <1>7, <1>12, <2>3
  <2>6. ReadingChild(met, m)'  BY <1>1, <1>5, <1>6, <1>a, <2>2, <2>3, <2>5, ReadingOn
  <2>7. ReadAsWritten'  BY <2>2 DEF ReadAsWritten, NullElement
  <2> QED BY <1>1, <1>2, <2>4, <2>6, <2>7, BuilderStep
<1> QED BY <1>9, <1>10, <1>11, <1>12

\* The path when the directory on top has gone on to its next child.
LEMMA PathOn ==
  ASSUME NEW path \in Seq(PathFrames), path # <<>>
  PROVE  /\ ToNextChild(path) \in Seq(PathFrames) /\ Len(ToNextChild(path)) = Len(path)
         /\ \A k \in 1 .. Len(path) :
              ToNextChild(path)[k] = IF k = Len(path) THEN [num |-> path[k].num, next |-> path[k].next + 1]
                                     ELSE path[k]
<1> DEFINE top == [num |-> path[Len(path)].num, next |-> path[Len(path)].next + 1]
<1>1. Len(path) \in Nat \ {0} /\ Top(path) = path[Len(path)] /\ Top(path) \in PathFrames
  BY StackFacts
<1>2. [Top(path) EXCEPT !.next = @ + 1] = top /\ top \in PathFrames  BY <1>1 DEF PathFrames
<1> HIDE DEF top
<1>3. ToNextChild(path) = WithTop(path, top)  BY <1>2 DEF ToNextChild
<1>4. /\ WithTop(path, top) \in Seq(PathFrames) /\ Len(WithTop(path, top)) = Len(path)
      /\ \A k \in 1 .. Len(path) : WithTop(path, top)[k] = IF k = Len(path) THEN top ELSE path[k]
  BY <1>2, WithTopFacts
<1> QED BY <1>3, <1>4 DEF top

\* A frame of the builder whose children are counted.
FrameOK(met, build, frame) ==
  /\ build.i = frame.next - 1 /\ Reads(build.iterator, met[frame.num], ExtentsAt(frame.num))
  /\ build.child_count = Len(Children(met[frame.num]))

\* The frames of the builder along a path, when their children are counted.
StackOK(met, stack, path) ==
  /\ stack \in Seq(BuildFrames) /\ Len(stack) = Len(path)
  /\ \A k \in 1 .. Len(path) : FrameOK(met, stack[k], path[k])
  /\ \A k \in 1 .. Len(path) - 1 : stack[k].file.dentry = Element("dentry", met[path[k + 1].num], 0)

\* One child more.
LEMMA CountedFrame ==
  ASSUME NEW build \in BuildFrames
  PROVE  LET on == [build EXCEPT !.i = @ + 1]
         IN  /\ on \in BuildFrames /\ on.i = build.i + 1 /\ build.i \in Int
             /\ on.iterator = build.iterator /\ on.child_count = build.child_count
             /\ on.file = build.file
BY DEF BuildFrames

\* The builder counts a child, and so does the path.
LEMMA NextFrames ==
  ASSUME NEW met, NEW path \in Seq(PathFrames), path # <<>>, NEW stack, StackOK(met, stack, path)
  PROVE  /\ StackOK(met, WithTop(stack, [Top(stack) EXCEPT !.i = @ + 1]), ToNextChild(path))
         /\ Len(ToNextChild(path)) = Len(path)
<1> DEFINE top == [Top(stack) EXCEPT !.i = @ + 1]
           new == WithTop(stack, top)
           on  == ToNextChild(path)
<1>0. /\ stack \in Seq(BuildFrames) /\ Len(stack) = Len(path)
      /\ \A k \in 1 .. Len(path) : FrameOK(met, stack[k], path[k])
      /\ \A k \in 1 .. Len(path) - 1 : stack[k].file.dentry = Element("dentry", met[path[k + 1].num], 0)
  BY DEF StackOK
<1>1. Len(path) \in Nat \ {0} /\ stack # <<>>  BY <1>0, StackFacts
<1>2. Top(stack) = stack[Len(path)] /\ Top(stack) \in BuildFrames  BY <1>0, <1>1, StackFacts
<1>3. /\ top \in BuildFrames /\ top.i = Top(stack).i + 1 /\ top.iterator = Top(stack).iterator
      /\ top.child_count = Top(stack).child_count /\ Top(stack).i \in Int
  BY <1>2, CountedFrame
<1> HIDE DEF top
<1>4. /\ new \in Seq(BuildFrames) /\ Len(new) = Len(stack)
      /\ \A k \in 1 .. Len(stack) : new[k] = IF k = Len(stack) THEN top ELSE stack[k]
  <2>1. stack \in Seq(BuildFrames) /\ stack # <<>> /\ top \in BuildFrames  BY <1>0, <1>1, <1>3
  <2>2. \A s \in Seq(BuildFrames), f \in BuildFrames : s # <<>> =>
          /\ WithTop(s, f) \in Seq(BuildFrames) /\ Len(WithTop(s, f)) = Len(s)
          /\ \A k \in 1 .. Len(s) : WithTop(s, f)[k] = IF k = Len(s) THEN f ELSE s[k]
    <3> TAKE s \in Seq(BuildFrames), f \in BuildFrames
    <3> HAVE s # <<>>
    <3> QED BY WithTopFacts
  <2> QED BY <2>1, <2>2, Zenon
<1>5. /\ on \in Seq(PathFrames) /\ Len(on) = Len(path)
      /\ \A k \in 1 .. Len(path) :
           on[k] = IF k = Len(path) THEN [num |-> path[k].num, next |-> path[k].next + 1] ELSE path[k]
  BY PathOn
<1> HIDE DEF new, on
<1>6. ASSUME NEW k \in 1 .. Len(path) PROVE FrameOK(met, new[k], on[k])
  <2>1. FrameOK(met, stack[k], path[k])  BY <1>0
  <2>2. CASE k = Len(path)
    <3>1. new[k] = top /\ stack[k] = Top(stack)  BY <1>0, <1>2, <1>4, <2>2
    <3>2. on[k].num = path[k].num /\ on[k].next = path[k].next + 1
      <4>1. on[k] = [num |-> path[k].num, next |-> path[k].next + 1]  BY <1>5, <2>2
      <4> QED BY <4>1
    <3>3. path[k].next \in Nat
      <4>1. path[k] \in PathFrames  OBVIOUS
      <4> QED BY <4>1 DEF PathFrames
    <3>4. top.i = on[k].next - 1
      <4>1. Top(stack).i = path[k].next - 1  BY <2>1, <3>1 DEF FrameOK
      <4>2. top.i = Top(stack).i + 1  BY <1>3
      <4> QED BY <3>2, <3>3, <4>1, <4>2
    <3> QED BY <1>3, <2>1, <3>1, <3>2, <3>4 DEF FrameOK
  <2>3. CASE k # Len(path)
    <3>1. new[k] = stack[k] /\ on[k] = path[k]  BY <1>0, <1>4, <1>5, <2>3
    <3> QED BY <2>1, <3>1
  <2> QED BY <2>2, <2>3
<1>7. ASSUME NEW k \in 1 .. Len(path) - 1
      PROVE  new[k].file.dentry = Element("dentry", met[on[k + 1].num], 0)
  <2>1. k \in 1 .. Len(path) /\ k # Len(path) /\ k + 1 \in 1 .. Len(path)  BY <1>1
  <2>2. new[k] = stack[k]  BY <1>0, <1>4, <2>1
  <2>3. on[k + 1].num = path[k + 1].num
    <3>1. \A j \in 1 .. Len(path) : on[j].num = path[j].num
      <4> TAKE j \in 1 .. Len(path)
      <4>1. on[j] = IF j = Len(path) THEN [num |-> path[j].num, next |-> path[j].next + 1] ELSE path[j]
        BY <1>5
      <4> QED BY <4>1
    <3> QED BY <2>1, <3>1
  <2> QED BY <1>0, <2>2, <2>3
<1>8. StackOK(met, new, on)  BY <1>0, <1>4, <1>5, <1>6, <1>7 DEF StackOK
<1> QED BY <1>5, <1>8 DEF new, on, top

\* The stack of the builder between two children.
LEMMA FramesFrom ==
  ASSUME tree' = tree, NEW met, NEW m, pc' \notin {"build", "skip_dir_extents", "child_count"},
         StackOK(met, builds', m.path), Len(m.path) \in Nat, built' \in Seq(Files), Len(built') = m.read - 1,
         \A n \in 1 .. Len(built') : built'[n] = FileOf(met[n + 1])
  PROVE  Frames(met, m)'
<1>1. \A k \in 1 .. Len(m.path) : k < Len(m.path) => k \in 1 .. Len(m.path) - 1  OBVIOUS
<1>2. \A k \in 1 .. Len(builds') :
        /\ builds'[k].i = m.path[k].next - 1
        /\ Reads(builds'[k].iterator, met[m.path[k].num], ExtentsAt(m.path[k].num))
        /\ builds'[k].child_count = Len(Children(met[m.path[k].num]))
        /\ k < Len(m.path) => builds'[k].file.dentry = Element("dentry", met[m.path[k + 1].num], 0)
  BY <1>1 DEF FrameOK, StackOK
<1>3. builds' \in Seq(BuildFrames) /\ Len(builds') = Len(m.path)  BY DEF StackOK
<1> QED BY <1>2, <1>3 DEF Frames, Reads, Children, FileOf, NameOf, ExtentsOf

\* The builder is done with one file more.
LEMMA BuiltGrows ==
  ASSUME NEW met, NEW m, Frames(met, m), m.read \in Nat \ {0}, NEW node, met[m.read + 1] = node,
         NEW file \in Files, file = FileOf(node)
  PROVE  /\ Append(built, file) \in Seq(Files) /\ Len(Append(built, file)) = m.read
         /\ \A n \in 1 .. m.read : Append(built, file)[n] = FileOf(met[n + 1])
<1>1. /\ built \in Seq(Files) /\ Len(built) = m.read - 1
      /\ \A n \in 1 .. Len(built) : built[n] = FileOf(met[n + 1])
  BY DEF Frames
<1>2. PICK read \in Nat \ {0} : read = m.read  OBVIOUS
<1>3. Append(built, file) \in Seq(Files) /\ Len(Append(built, file)) = read  BY <1>1, <1>2
<1>4. ASSUME NEW n \in 1 .. read PROVE Append(built, file)[n] = FileOf(met[n + 1])
  <2>1. CASE n = read
    <3>1. Append(built, file)[n] = file  BY <1>1, <1>2, <2>1
    <3> QED BY <1>2, <2>1, <3>1
  <2>2. CASE n # read
    <3>1. n \in 1 .. Len(built)  BY <1>1, <1>2, <2>2
    <3>2. Append(built, file)[n] = built[n]  BY <1>1, <3>1
    <3> QED BY <1>1, <3>1, <3>2
  <2> QED BY <2>1, <2>2
<1> QED BY <1>2, <1>3, <1>4

\* The frames of the builder, when the one on top has counted its children.
LEMMA CountedFrames ==
  ASSUME NEW met, NEW m, Frames(met, m), pc \notin {"build", "skip_dir_extents", "child_count"},
         Len(m.path) \in Nat
  PROVE  StackOK(met, builds, m.path)
<1>1. \A k \in 1 .. Len(m.path) - 1 : k \in 1 .. Len(m.path) /\ k < Len(m.path)  OBVIOUS
<1> QED BY <1>1 DEF Frames, FrameOK, StackOK

\* The -1 of a file, and its cut: the builder is at the next moment of the walk.
LEMMA SkipChildCountStep == TraverseInv /\ skip_child_count => TraverseInv'
<1> SUFFICES ASSUME TraverseInv, skip_child_count PROVE TraverseInv'  OBVIOUS
<1> DEFINE new == [Top(builds) EXCEPT !.i = @ + 1]
<1>1. /\ tree \in Trees /\ tree' = tree /\ sections \in Logs /\ sections' = sections /\ calls' = calls
      /\ IF got' = NullElement
           THEN builds' = WithTop(builds, new) /\ built' = Append(built, Top(builds).file)
           ELSE builds' = builds /\ built' = built
      /\ pc = "skip_child_count"
      /\ got' = NextElement(position)[1] /\ asked' = "count" /\ position' = NextElement(position)[2]
      /\ pc' = IF got' = NullElement THEN "child" ELSE "skip_child_count"
  BY DEF TraverseInv, skip_child_count, ReadElement, writerVars, WithFile
<1>2. PICK met, walk, k, m, after :
           /\ Walk(met, walk) /\ met \in Seq(Nodes) /\ Len(met) \in Nat \ {0} /\ Stored(sections, met, <<>>)
           /\ Top(walk).path = <<>> /\ calls = <<>> /\ Len(sections) = CountAt(Len(met)) + 1
           /\ Frames(met, m) /\ (Entering(met, m) \/ ReadingChild(met, m) \/ Between(met, m))
           /\ m \in Moments /\ MomentOK(met, m) /\ m.path # <<>> /\ m.path \in Seq(PathFrames)
           /\ m.read \in Nat \ {0} /\ m.read <= Len(met) /\ Len(m.path) \in Nat \ {0}
           /\ m = walk[k] /\ after = AfterMoment(met, m) /\ MomentOK(met, after) /\ after \in Moments
           /\ Visiting(met, m) => m.read + 1 <= Len(met) /\ met[m.read + 1] = ChildAt(met, m)
           /\ after.path # <<>> => k + 1 \in 1 .. Len(walk) - 1 /\ after = walk[k + 1]
           /\ k \in 1 .. Len(walk) - 1
  BY <1>1, BuilderFacts
<1>3. ReadingChild(met, m)  BY <1>1, <1>2 DEF Between, Entering
<1>4. Visiting(met, m)  BY <1>3 DEF ReadingChild
<1>5. PICK n \in 1 .. Len(met), node \in Nodes :
        n = m.read + 1 /\ n > 1 /\ met[n] = node /\ node = ChildAt(met, m)
  <2>1. m.read + 1 \in 1 .. Len(met) /\ m.read + 1 > 1 /\ met[m.read + 1] = ChildAt(met, m)
    BY <1>2, <1>4
  <2> QED BY <1>2, <2>1
<1>6. PICK x \in 0 .. 1 :
        position = At(CountAt(n), x) /\ Top(builds).file = FilePart(node, tree.parts[node], tree.extents[node])
  BY <1>1, <1>3, <1>5 DEF ReadingChild
<1>7. ~ tree.is_dir[node]  BY <1>1, <1>3, <1>5 DEF ReadingChild
<1>8. /\ CountAt(n) \in Nat \ {0} /\ CountAt(n) < Len(sections) /\ CountAt(n) + 1 = DentryAt(n + 1)
      /\ \E y \in Int : sections[CountAt(n)] = << Element("count", node, y) >>
  <2>1. /\ tree \in Trees /\ sections \in Logs /\ met \in Seq(Nodes) /\ Stored(sections, met, <<>>)
        /\ Len(sections) = CountAt(Len(met)) + 1
    BY <1>1, <1>2
  <2>2. n \in 1 .. Len(met) /\ n > 1  BY <1>5
  <2>3. /\ CountAt(n) \in Nat \ {0} /\ CountAt(n) < Len(sections) /\ CountAt(n) + 1 = DentryAt(n + 1)
        /\ \E y \in Int : sections[CountAt(n)] = << Element("count", met[n], y) >>
    BY <2>1, <2>2, ChildFacts
  <2> QED BY <1>5, <2>3
<1>9. PICK y \in Int : sections[CountAt(n)] = << Element("count", node, y) >>  BY <1>8
<1>10. Len(sections[CountAt(n)]) = 1 /\ sections[CountAt(n)][1] = Element("count", node, y)  BY <1>9
<1>11. CASE x = 0
  <2>1. position = At(CountAt(n), 0) /\ 0 < Len(sections[CountAt(n)]) /\ 0 <= Len(sections[CountAt(n)])
    BY <1>6, <1>10, <1>11
  <2>2. got' = sections[CountAt(n)][0 + 1] /\ position' = At(CountAt(n), 0 + 1)
    BY <1>1, <1>8, <2>1, ReadFacts
  <2>3. got' = Element("count", node, y) /\ position' = At(CountAt(n), 1)  BY <1>10, <2>2
  <2>4. got' # NullElement /\ got'.type = asked'  BY <1>1, <2>3 DEF Element, NullElement
  <2>5. builds' = builds /\ built' = built /\ pc' = "skip_child_count"  BY <1>1, <2>4
  <2>6. Frames(met, m)'  BY <1>1, <1>2, <2>5, FramesSame
  <2>7. Top(builds').file = FilePart(node, tree.parts[node], tree.extents[node])  BY <1>6, <2>5
  <2>8. ReadingChild(met, m)'  BY <1>1, <1>4, <1>5, <1>7, <2>3, <2>5, <2>7, ReadingOn
  <2>9. ReadAsWritten'  BY <2>4 DEF ReadAsWritten
  <2> QED BY <1>1, <1>2, <2>6, <2>8, <2>9, BuilderStep
<1>12. CASE x = 1
  <2>1. /\ position = At(CountAt(n), 1) /\ 1 = Len(sections[CountAt(n)]) /\ 1 <= Len(sections[CountAt(n)])
        /\ 1 \in Nat
    BY <1>6, <1>10, <1>12
  <2>2. got' = NullElement /\ position' = Start(DentryAt(n + 1))
    BY <1>1, <1>8, <2>1, ReadFacts
  <2>3. builds' = WithTop(builds, new) /\ built' = Append(built, Top(builds).file) /\ pc' = "child"
    BY <1>1, <2>2
  <2>4. after.path = ToNextChild(m.path) /\ after.read = n
    BY <1>2, <1>4, <1>5, <1>7 DEF AfterMoment
  <2>5. Top(builds).file \in Files /\ Top(builds).file = FileOf(node)
    <3>1. tree.parts[node] \in 0 .. tree.parts[node] /\ tree.extents[node] \in 0 .. tree.extents[node]
      BY <1>1, TreeFacts
    <3>2. FilePart(node, tree.parts[node], tree.extents[node]) \in Files  BY <1>1, <3>1, FileFacts
    <3>3. FileOf(node) = FilePart(node, tree.parts[node], tree.extents[node])  BY <1>1, <1>7, FileFacts
    <3> QED BY <1>6, <3>2, <3>3
  <2>6. /\ built' \in Seq(Files) /\ Len(built') = after.read - 1
        /\ \A j \in 1 .. Len(built') : built'[j] = FileOf(met[j + 1])
    <3>1. met[m.read + 1] = node  BY <1>5
    <3> DEFINE file == Top(builds).file
    <3>a. file \in Files /\ file = FileOf(node)  BY <2>5
    <3>2. /\ Append(built, file) \in Seq(Files) /\ Len(Append(built, file)) = m.read
          /\ \A j \in 1 .. m.read : Append(built, file)[j] = FileOf(met[j + 1])
      <4>1. Frames(met, m) /\ m.read \in Nat \ {0}  BY <1>2
      <4> HIDE DEF file
      <4> QED BY <3>1, <3>a, <4>1, BuiltGrows
    <3>3. after.read - 1 = m.read  BY <1>2, <1>5, <2>4
    <3> QED BY <2>3, <3>2, <3>3
  <2>7. StackOK(met, builds, m.path)
    <3>1. Frames(met, m) /\ pc \notin {"build", "skip_dir_extents", "child_count"} /\ Len(m.path) \in Nat
      BY <1>1, <1>2
    <3> QED BY <3>1, CountedFrames
  <2>8. StackOK(met, builds', after.path) /\ Len(after.path) = Len(m.path)
    <3>1. /\ StackOK(met, WithTop(builds, new), ToNextChild(m.path))
          /\ Len(ToNextChild(m.path)) = Len(m.path)
      BY <1>2, <2>7, NextFrames
    <3> QED BY <2>3, <2>4, <3>1
  <2>9. Frames(met, after)'  BY <1>1, <1>2, <2>3, <2>6, <2>8, FramesFrom
  <2>10. Between(met, after)'  BY <2>2, <2>3, <2>4 DEF Between
  <2>11. after.path # <<>>  BY <1>2, <2>8
  <2>12. ReadAsWritten'  BY <2>2 DEF ReadAsWritten, NullElement
  <2> QED BY <1>1, <1>2, <2>9, <2>10, <2>11, <2>12, BuilderStep
<1> QED BY <1>11, <1>12

\* build_ext4_metadata_tree returns: the next moment of the walk.
LEMMA ReturnFromBuildStep == TraverseInv /\ ReturnFromBuild => TraverseInv'
<1> SUFFICES ASSUME TraverseInv, ReturnFromBuild PROVE TraverseInv'  OBVIOUS
<1> DEFINE new == [Top(Pop(builds)) EXCEPT !.i = @ + 1]
<1>1. /\ tree \in Trees /\ tree' = tree /\ sections \in Logs /\ sections' = sections /\ calls' = calls
      /\ position' = position /\ built' = built /\ got' = got /\ asked' = asked
      /\ pc = "child" /\ Top(builds).i >= Top(builds).child_count
      /\ IF Len(builds) = 1 THEN pc' = "done" /\ builds' = builds
         ELSE builds' = WithTop(Pop(builds), new) /\ pc' = pc
  BY DEF TraverseInv, ReturnFromBuild, writerVars
<1>2. PICK met, walk, k, m, after :
           /\ Walk(met, walk) /\ met \in Seq(Nodes) /\ Len(met) \in Nat \ {0} /\ Stored(sections, met, <<>>)
           /\ Top(walk).path = <<>> /\ calls = <<>> /\ Len(sections) = CountAt(Len(met)) + 1
           /\ Frames(met, m) /\ (Entering(met, m) \/ ReadingChild(met, m) \/ Between(met, m))
           /\ m \in Moments /\ MomentOK(met, m) /\ m.path # <<>> /\ m.path \in Seq(PathFrames)
           /\ m.read \in Nat \ {0} /\ m.read <= Len(met) /\ Len(m.path) \in Nat \ {0}
           /\ m = walk[k] /\ after = AfterMoment(met, m) /\ MomentOK(met, after) /\ after \in Moments
           /\ Visiting(met, m) => m.read + 1 <= Len(met) /\ met[m.read + 1] = ChildAt(met, m)
           /\ after.path # <<>> => k + 1 \in 1 .. Len(walk) - 1 /\ after = walk[k + 1]
           /\ k \in 1 .. Len(walk) - 1
  BY <1>1, BuilderFacts
<1>3. Between(met, m)  BY <1>1, <1>2 DEF ReadingChild, Entering
<1>4. /\ builds \in Seq(BuildFrames) /\ builds # <<>> /\ Len(builds) = Len(m.path)
      /\ Top(builds) \in BuildFrames /\ Top(builds).i = Top(m.path).next - 1
      /\ Top(builds).child_count = Len(Children(met[Top(m.path).num]))
  BY <1>1, <1>2, TopBuild
<1>5. ~ Visiting(met, m)
  <2>1. Top(m.path) \in PathFrames /\ Children(met[Top(m.path).num]) \in Seq(Nodes)
    BY <1>1, <1>2, MomentFacts
  <2>2. Top(m.path).next \in Nat /\ Len(Children(met[Top(m.path).num])) \in Nat
    BY <2>1 DEF PathFrames
  <2>3. \A a, b \in Nat : a - 1 >= b => ~ a <= b  OBVIOUS
  <2> QED BY <1>1, <1>4, <2>2, <2>3 DEF Visiting
<1>6. position = Start(DentryAt(m.read + 1))  BY <1>3 DEF Between
<1>7. ReadAsWritten'  BY <1>1 DEF TraverseInv, ReadAsWritten, NullElement
<1>8. CASE Len(builds) = 1
  <2>1. pc' = "done" /\ builds' = builds  BY <1>1, <1>8
  <2>2. Frames(met, m)'  BY <1>1, <1>2, <2>1, FramesSame
  <2>3. Len(m.path) = 1  BY <1>4, <1>8
  <2>4. ~ Visiting(met, m)'  BY <1>1, <1>5 DEF Visiting, Children
  <2>5. Between(met, m)'  BY <1>1, <1>6, <2>1, <2>3, <2>4 DEF Between
  <2> QED BY <1>1, <1>2, <1>7, <2>2, <2>5, BuilderStep
<1>9. CASE Len(builds) # 1
  <2>1. builds' = WithTop(Pop(builds), new) /\ pc' = "child"  BY <1>1, <1>9
  <2>2. after.path = ToNextChild(Pop(m.path)) /\ after.read = m.read
    <3>1. Len(m.path) # 1  BY <1>4, <1>9
    <3> QED BY <1>2, <1>5, <3>1 DEF AfterMoment
  <2>3. /\ Pop(m.path) \in Seq(PathFrames) /\ Len(Pop(m.path)) = Len(m.path) - 1
        /\ \A j \in 1 .. Len(m.path) - 1 : Pop(m.path)[j] = m.path[j]
    BY <1>2, StackFacts
  <2>4. /\ Pop(builds) \in Seq(BuildFrames) /\ Len(Pop(builds)) = Len(builds) - 1
        /\ \A j \in 1 .. Len(builds) - 1 : Pop(builds)[j] = builds[j]
    BY <1>4, StackFacts
  <2>5. StackOK(met, builds, m.path)
    <3>1. Frames(met, m) /\ pc \notin {"build", "skip_dir_extents", "child_count"} /\ Len(m.path) \in Nat
      BY <1>1, <1>2
    <3> QED BY <3>1, CountedFrames
  <2>6. StackOK(met, Pop(builds), Pop(m.path)) /\ Pop(m.path) # <<>>
    <3>1. PICK last \in Nat \ {0} : last = Len(m.path)  BY <1>2
    <3>2. last # 1  BY <1>4, <1>9, <3>1
    <3>3. Len(Pop(builds)) = last - 1 /\ Len(Pop(m.path)) = last - 1  BY <1>4, <2>3, <2>4, <3>1
    <3>4. Pop(m.path) # <<>>  BY <2>3, <3>2, <3>3
    <3>5. \A j \in 1 .. last - 1 : FrameOK(met, Pop(builds)[j], Pop(m.path)[j])
      <4> TAKE j \in 1 .. last - 1
      <4>1. j \in 1 .. last  OBVIOUS
      <4>2. Pop(builds)[j] = builds[j] /\ Pop(m.path)[j] = m.path[j]  BY <1>4, <2>3, <2>4, <3>1
      <4> QED BY <2>5, <3>1, <4>1, <4>2 DEF StackOK
    <3>6. \A j \in 1 .. last - 1 - 1 :
            Pop(builds)[j].file.dentry = Element("dentry", met[Pop(m.path)[j + 1].num], 0)
      <4> TAKE j \in 1 .. last - 1 - 1
      <4>1. j \in 1 .. last - 1 /\ j + 1 \in 1 .. last - 1  OBVIOUS
      <4>2. Pop(builds)[j] = builds[j] /\ Pop(m.path)[j + 1] = m.path[j + 1]
        BY <1>4, <2>3, <2>4, <3>1, <4>1
      <4> QED BY <2>5, <3>1, <4>1, <4>2 DEF StackOK
    <3>7. Pop(builds) \in Seq(BuildFrames)  BY <2>4
    <3> QED BY <3>3, <3>4, <3>5, <3>6, <3>7 DEF StackOK
  <2>7. StackOK(met, builds', after.path) /\ Len(after.path) = Len(Pop(m.path))
    <3>1. /\ StackOK(met, WithTop(Pop(builds), new), ToNextChild(Pop(m.path)))
          /\ Len(ToNextChild(Pop(m.path))) = Len(Pop(m.path))
      BY <2>3, <2>6, NextFrames
    <3> QED BY <2>1, <2>2, <3>1
  <2>8. Len(after.path) \in Nat /\ after.path # <<>>
    <3>1. Len(Pop(m.path)) \in Nat /\ Len(Pop(m.path)) # 0
      <4>1. Pop(m.path) \in Seq(PathFrames) /\ Pop(m.path) # <<>>  BY <2>3, <2>6
      <4>2. \A s \in Seq(PathFrames) : s # <<>> => Len(s) \in Nat /\ Len(s) # 0  OBVIOUS
      <4> QED BY <4>1, <4>2
    <3>2. Len(after.path) # 0 /\ Len(after.path) \in Nat  BY <2>7, <3>1
    <3> QED BY <3>2
  <2>9. /\ built' \in Seq(Files) /\ Len(built') = after.read - 1
        /\ \A j \in 1 .. Len(built') : built'[j] = FileOf(met[j + 1])
    BY <1>1, <1>2, <2>2 DEF Frames
  <2>10. Frames(met, after)'  BY <1>1, <2>1, <2>7, <2>8, <2>9, FramesFrom
  <2>11. Between(met, after)'  BY <1>1, <1>6, <2>1, <2>2 DEF Between
  <2> QED BY <1>1, <1>2, <1>7, <2>8, <2>10, <2>11, BuilderStep
<1> QED BY <1>8, <1>9

\* Another frame on top of the builder's stack.
LEMMA ReplacedTop ==
  ASSUME NEW met, NEW path \in Seq(PathFrames), path # <<>>, NEW stack, StackOK(met, stack, path),
         NEW new \in BuildFrames, FrameOK(met, new, Top(path))
  PROVE  StackOK(met, WithTop(stack, new), path) /\ WithTop(stack, new)[Len(path)] = new
<1> DEFINE other == WithTop(stack, new)
<1>1. /\ stack \in Seq(BuildFrames) /\ Len(stack) = Len(path)
      /\ \A k \in 1 .. Len(path) : FrameOK(met, stack[k], path[k])
      /\ \A k \in 1 .. Len(path) - 1 : stack[k].file.dentry = Element("dentry", met[path[k + 1].num], 0)
  BY DEF StackOK
<1>2. Len(path) \in Nat \ {0} /\ Top(path) = path[Len(path)]  BY StackFacts
<1>3. stack # <<>>  BY <1>1, <1>2
<1>4. /\ other \in Seq(BuildFrames) /\ Len(other) = Len(stack)
      /\ \A k \in 1 .. Len(stack) : other[k] = IF k = Len(stack) THEN new ELSE stack[k]
  <2>1. \A s \in Seq(BuildFrames), f \in BuildFrames : s # <<>> =>
          /\ WithTop(s, f) \in Seq(BuildFrames) /\ Len(WithTop(s, f)) = Len(s)
          /\ \A k \in 1 .. Len(s) : WithTop(s, f)[k] = IF k = Len(s) THEN f ELSE s[k]
    <3> TAKE s \in Seq(BuildFrames), f \in BuildFrames
    <3> HAVE s # <<>>
    <3> QED BY WithTopFacts
  <2> QED BY <1>1, <1>3, <2>1, Zenon
<1> HIDE DEF other
<1>5. other[Len(path)] = new  BY <1>1, <1>2, <1>4
<1>6. \A k \in 1 .. Len(path) : k # Len(path) => other[k] = stack[k]  BY <1>1, <1>4
<1>7. \A k \in 1 .. Len(path) : FrameOK(met, other[k], path[k])
  <2> TAKE k \in 1 .. Len(path)
  <2>1. CASE k = Len(path)  BY <1>2, <1>5, <2>1
  <2>2. CASE k # Len(path)  BY <1>1, <1>6, <2>2
  <2> QED BY <2>1, <2>2
<1>8. \A k \in 1 .. Len(path) - 1 : other[k].file.dentry = Element("dentry", met[path[k + 1].num], 0)
  <2> TAKE k \in 1 .. Len(path) - 1
  <2>1. k \in 1 .. Len(path) /\ k # Len(path)  BY <1>2
  <2> QED BY <1>1, <1>6, <2>1
<1>9. StackOK(met, other, path)  BY <1>1, <1>4, <1>7, <1>8 DEF StackOK
<1> QED BY <1>5, <1>9 DEF other

\* The entry is placed: a directory is built at once, a file goes on.
LEMMA PlaceDentryStep == TraverseInv /\ PlaceDentry => TraverseInv'
<1> SUFFICES ASSUME TraverseInv, PlaceDentry PROVE TraverseInv'  OBVIOUS
<1> DEFINE frame == Top(builds)
<1>1. /\ tree \in Trees /\ tree' = tree /\ sections \in Logs /\ sections' = sections /\ calls' = calls
      /\ position' = position /\ pc = "place" /\ asked' = "extent"
      /\ \E iterator \in {frame.iterator, Advanced(frame.iterator)} :
           /\ builds' = WithTop(builds, [frame EXCEPT !.iterator = iterator])
           /\ got' = iterator.current
      /\ pc' = (IF is_dir(frame.file.dentry) THEN "build" ELSE "set_extents")
      /\ built' = IF is_dir(frame.file.dentry) THEN Append(built, frame.file) ELSE built
  BY DEF TraverseInv, PlaceDentry, writerVars, WithFile
<1>2. PICK met, walk, k, m, after :
           /\ Walk(met, walk) /\ met \in Seq(Nodes) /\ Len(met) \in Nat \ {0} /\ Stored(sections, met, <<>>)
           /\ Top(walk).path = <<>> /\ calls = <<>> /\ Len(sections) = CountAt(Len(met)) + 1
           /\ Frames(met, m) /\ (Entering(met, m) \/ ReadingChild(met, m) \/ Between(met, m))
           /\ m \in Moments /\ MomentOK(met, m) /\ m.path # <<>> /\ m.path \in Seq(PathFrames)
           /\ m.read \in Nat \ {0} /\ m.read <= Len(met) /\ Len(m.path) \in Nat \ {0}
           /\ m = walk[k] /\ after = AfterMoment(met, m) /\ MomentOK(met, after) /\ after \in Moments
           /\ Visiting(met, m) => m.read + 1 <= Len(met) /\ met[m.read + 1] = ChildAt(met, m)
           /\ after.path # <<>> => k + 1 \in 1 .. Len(walk) - 1 /\ after = walk[k + 1]
           /\ k \in 1 .. Len(walk) - 1
  BY <1>1, BuilderFacts
<1>3. ReadingChild(met, m)  BY <1>1, <1>2 DEF Between, Entering
<1>4. Visiting(met, m)  BY <1>3 DEF ReadingChild
<1>5. PICK n \in 1 .. Len(met), node \in Nodes :
        n = m.read + 1 /\ n > 1 /\ met[n] = node /\ node = ChildAt(met, m)
  <2>1. m.read + 1 \in 1 .. Len(met) /\ m.read + 1 > 1 /\ met[m.read + 1] = ChildAt(met, m)
    BY <1>2, <1>4
  <2> QED BY <1>2, <2>1
<1>6. position = Start(ExtentsAt(n)) /\ frame.file = FilePart(node, tree.parts[node], 0)
  BY <1>1, <1>3, <1>5 DEF ReadingChild
<1>7. Start(ExtentsAt(n)) = At(ExtentsAt(n), 0)  BY DEF Start, At
<1>8. /\ builds \in Seq(BuildFrames) /\ builds # <<>> /\ frame \in BuildFrames
      /\ frame.i = Top(m.path).next - 1
      /\ Reads(frame.iterator, met[Top(m.path).num], ExtentsAt(Top(m.path).num))
      /\ frame.child_count = Len(Children(met[Top(m.path).num]))
  BY <1>1, <1>2, TopBuild
<1>9. frame.file.dentry = Element("dentry", node, 0) /\ is_dir(frame.file.dentry) = tree.is_dir[node]
  <2>1. frame.file.dentry = Element("dentry", node, 0)  BY <1>6 DEF FilePart
  <2>2. frame.file.dentry.of = node  BY <2>1 DEF Element
  <2>3. tree.is_dir[node] \in BOOLEAN  BY <1>1, TreeFacts
  <2> QED BY <2>1, <2>2, <2>3 DEF is_dir
<1>10. PICK iterator :
         /\ iterator \in {frame.iterator, Advanced(frame.iterator)}
         /\ builds' = WithTop(builds, [frame EXCEPT !.iterator = iterator])
         /\ got' = iterator.current
  BY <1>1
<1>11. /\ iterator \in Iterators /\ Reads(iterator, met[Top(m.path).num], ExtentsAt(Top(m.path).num))
       /\ iterator.current = NullElement \/ iterator.current.type = "extent"
  <2>1. PICK j \in 1 .. Len(met) : j = Top(m.path).num
    <3>1. Top(m.path).num \in 1 .. m.read  BY <1>1, <1>2, MomentFacts
    <3> QED BY <1>2, <3>1
  <2>2. frame.iterator \in Iterators /\ Reads(frame.iterator, met[j], ExtentsAt(j))
    BY <1>8, <2>1 DEF BuildFrames
  <2>3. /\ met[j] \in Nodes /\ ExtentsAt(j) \in Nat \ {0} /\ ExtentsAt(j) < Len(sections)
        /\ sections[ExtentsAt(j)] = ExtentsOf(met[j])
    <3>1. /\ tree \in Trees /\ sections \in Logs /\ met \in Seq(Nodes) /\ Stored(sections, met, <<>>)
          /\ Len(sections) = CountAt(Len(met)) + 1
      BY <1>1, <1>2
    <3> QED BY <3>1, FoundFacts
  <2>4. CASE iterator = frame.iterator
    <3>1. iterator.current = NullElement \/ iterator.current.type = "extent"
      <4>1. Reads(iterator, met[j], ExtentsAt(j))  BY <2>2, <2>4
      <4>2. \A of, x : Element("extent", of, x).type = "extent"  BY DEF Element
      <4> QED BY <4>1, <4>2 DEF Reads
    <3> QED BY <2>1, <2>2, <2>4, <3>1
  <2>5. CASE iterator = Advanced(frame.iterator)
    <3>1. /\ Advanced(frame.iterator) \in Iterators /\ Reads(Advanced(frame.iterator), met[j], ExtentsAt(j))
          /\ Advanced(frame.iterator).current = NullElement \/ Advanced(frame.iterator).current.type = "extent"
      BY <1>1, <2>2, <2>3, IteratorReads
    <3> QED BY <2>1, <2>5, <3>1
  <2> QED BY <1>10, <2>4, <2>5
<1> DEFINE new == [frame EXCEPT !.iterator = iterator]
<1>12. /\ new \in BuildFrames /\ new.i = frame.i /\ new.iterator = iterator
       /\ new.child_count = frame.child_count /\ new.file = frame.file
  BY <1>8, <1>11 DEF BuildFrames
<1>13. builds' = WithTop(builds, new)  BY <1>10
<1> HIDE DEF new
<1>14. Top(builds') = new
  <2>1. Top(WithTop(builds, new)) = new  BY <1>8, <1>12, NewTop
  <2> QED BY <1>13, <2>1
<1>15. ReadAsWritten'  BY <1>1, <1>10, <1>11 DEF ReadAsWritten, NullElement
<1>16. tree.parts[node] \in 0 .. tree.parts[node] /\ 0 \in 0 .. tree.extents[node]  BY <1>1, TreeFacts
<1>17. CASE ~ tree.is_dir[node]
  <2>1. pc' = "set_extents" /\ built' = built  BY <1>1, <1>9, <1>17
  <2>2. Frames(met, m)'  BY <1>1, <1>2, <1>8, <1>11, <1>12, <1>13, <2>1, FramesTop
  <2>3. position' = At(ExtentsAt(n), 0)  BY <1>1, <1>6, <1>7
  <2>4. Top(builds').file = FilePart(node, tree.parts[node], 0)  BY <1>6, <1>12, <1>14
  <2>5. ReadingChild(met, m)'  BY <1>1, <1>4, <1>5, <1>16, <1>17, <2>1, <2>3, <2>4, ReadingOn
  <2> QED BY <1>1, <1>2, <1>15, <2>2, <2>5, BuilderStep
<1>18. CASE tree.is_dir[node]
  <2>1. pc' = "build" /\ built' = Append(built, frame.file)  BY <1>1, <1>9, <1>18
  <2>2. after.path = Append(m.path, [num |-> n, next |-> 1]) /\ after.read = n
    BY <1>2, <1>4, <1>5, <1>18 DEF AfterMoment
  <2>3. frame.file \in Files /\ frame.file = FileOf(node)
    <3>1. FilePart(node, tree.parts[node], 0) \in Files  BY <1>1, <1>16, FileFacts
    <3>2. FileOf(node) = FilePart(node, tree.parts[node], 0)  BY <1>1, <1>18, FileFacts
    <3> QED BY <1>6, <3>1, <3>2
  <2>4. /\ built' \in Seq(Files) /\ Len(built') = after.read - 1
        /\ \A j \in 1 .. Len(built') : built'[j] = FileOf(met[j + 1])
    <3>1. met[m.read + 1] = node  BY <1>5
    <3>2. /\ Append(built, frame.file) \in Seq(Files) /\ Len(Append(built, frame.file)) = m.read
          /\ \A j \in 1 .. m.read : Append(built, frame.file)[j] = FileOf(met[j + 1])
      <4>1. Frames(met, m) /\ m.read \in Nat \ {0}  BY <1>2
      <4> QED BY <2>3, <3>1, <4>1, BuiltGrows
    <3>3. after.read - 1 = m.read  BY <1>2, <1>5, <2>2
    <3> QED BY <2>1, <3>2, <3>3
  <2> DEFINE last == Len(m.path)
  <2>5. StackOK(met, builds', m.path) /\ builds'[last] = new
    <3>1. StackOK(met, builds, m.path)
      <4>1. Frames(met, m) /\ pc \notin {"build", "skip_dir_extents", "child_count"} /\ Len(m.path) \in Nat
        BY <1>1, <1>2
      <4> QED BY <4>1, CountedFrames
    <3>2. FrameOK(met, new, Top(m.path))  BY <1>8, <1>11, <1>12 DEF FrameOK
    <3>3. StackOK(met, WithTop(builds, new), m.path) /\ WithTop(builds, new)[Len(m.path)] = new
      BY <1>2, <1>12, <3>1, <3>2, ReplacedTop
    <3> QED BY <1>13, <3>3
  <2>6. /\ last \in Nat \ {0} /\ Len(after.path) = last + 1 /\ after.path[last + 1] = [num |-> n, next |-> 1]
        /\ \A j \in 1 .. last : after.path[j] = m.path[j]
    BY <1>2, <2>2
  <2> HIDE DEF last
  <2>7. ASSUME NEW j \in 1 .. last
        PROVE  /\ builds'[j].i = after.path[j].next - 1
               /\ Reads(builds'[j].iterator, met[after.path[j].num], ExtentsAt(after.path[j].num))
               /\ builds'[j].child_count = Len(Children(met[after.path[j].num]))
               /\ builds'[j].file.dentry = Element("dentry", met[after.path[j + 1].num], 0)
    <3>1. FrameOK(met, builds'[j], m.path[j])  BY <2>5 DEF StackOK, last
    <3>2. after.path[j] = m.path[j]  BY <2>6
    <3>3. builds'[j].file.dentry = Element("dentry", met[after.path[j + 1].num], 0)
      <4>1. CASE j = last
        <5>1. after.path[j + 1].num = n  BY <2>6, <4>1
        <5>2. builds'[j].file.dentry = Element("dentry", node, 0)  BY <1>9, <1>12, <2>5, <4>1
        <5> QED BY <1>5, <5>1, <5>2
      <4>2. CASE j # last
        <5>1. j \in 1 .. last - 1 /\ j + 1 \in 1 .. last  BY <2>6, <4>2
        <5>2. builds'[j].file.dentry = Element("dentry", met[m.path[j + 1].num], 0)
          BY <2>5, <5>1 DEF StackOK, last
        <5> QED BY <2>6, <5>1, <5>2
      <4> QED BY <4>1, <4>2
    <3> QED BY <3>1, <3>2, <3>3 DEF FrameOK
  <2>8. builds' \in Seq(BuildFrames) /\ Len(builds') = last  BY <2>5 DEF StackOK, last
  <2>9. Frames(met, after)'
    <3>1. Len(after.path) - 1 = last  BY <2>6
    <3> QED BY <1>1, <2>1, <2>4, <2>7, <2>8, <3>1 DEF Frames, Reads, Children, FileOf, NameOf, ExtentsOf
  <2>10. Entering(met, after)'
    <3>1. Top(after.path) = [num |-> n, next |-> 1]  BY <2>6 DEF Top
    <3>2. position' = Start(ExtentsAt(n))  BY <1>1, <1>6
    <3> QED BY <2>1, <2>2, <3>1, <3>2 DEF Entering
  <2>11. after.path # <<>>  BY <2>6
  <2> QED BY <1>1, <1>2, <1>15, <2>9, <2>10, <2>11, BuilderStep
<1> QED BY <1>17, <1>18

-----------------------------------------------------------------------------
\* Nothing is written yet.
LEMMA InitTraverse == TraversalInit => TraverseInv
<1> SUFFICES ASSUME TraversalInit PROVE TraverseInv  OBVIOUS
<1>1. tree \in Trees /\ ReadAsWritten /\ Starting
  BY DEF TraversalInit, ReadAsWritten, Starting
<1>2. sections \in Logs
  <2>1. sections = << <<>> >>  BY DEF TraversalInit
  <2>2. <<>> \in Seq(Elements)  OBVIOUS
  <2> QED BY <2>1, <2>2 DEF Logs
<1> QED BY <1>1, <1>2 DEF TraverseInv

\* A step that changes nothing.
LEMMA StutterTraverse == TraverseInv /\ UNCHANGED traversalVars => TraverseInv'
<1> SUFFICES ASSUME TraverseInv, UNCHANGED traversalVars PROVE TraverseInv'  OBVIOUS
<1>1. /\ tree' = tree /\ sections' = sections /\ calls' = calls /\ position' = position
      /\ builds' = builds /\ got' = got /\ asked' = asked /\ built' = built /\ pc' = pc
  BY DEF traversalVars
<1>2. tree' \in Trees /\ sections' \in Logs  BY <1>1 DEF TraverseInv
<1>3. ReadAsWritten'  BY <1>1 DEF TraverseInv, ReadAsWritten, NullElement
<1>4. CASE Starting
  <2>1. Starting'  BY <1>1, <1>4 DEF Starting, Start
  <2> QED BY <1>2, <1>3, <2>1 DEF TraverseInv, Logs, Elements, Kinds
<1>5. ASSUME NEW met, NEW walk, Phase(met, walk) PROVE TraverseInv'
  <2>1. Walk(met, walk) /\ Stored(sections, met, Top(walk).path)  BY <1>5 DEF Phase
  <2>2. Walk(met, walk)'  BY <1>1, <2>1, WalkKept
  <2>3. Stored(sections, met, Top(walk).path)'
    <3>1. Stored(sections', met, Top(walk).path)  BY <1>1, <2>1
    <3> QED BY <1>1, <3>1, StoredKept
  <2>4. CASE Writing(met, Top(walk).path)
    <3>1. Writing(met, Top(walk).path)'
      BY <1>1, <2>4 DEF Writing, CallOK, Reads, Start, Iterator, Top
    <3> QED BY <1>2, <1>3, <2>2, <2>3, <3>1 DEF TraverseInv, Phase, Logs, Elements, Kinds
  <2>5. CASE Building(met, walk)
    <3>1. Building(met, walk)'
      <4>1. PICK k \in 1 .. Len(walk) - 1 :
              /\ Frames(met, walk[k])
              /\ Entering(met, walk[k]) \/ ReadingChild(met, walk[k]) \/ Between(met, walk[k])
        BY <2>5 DEF Building
      <4>2. PICK m : m = walk[k]  OBVIOUS
      <4>3. Frames(met, m)'  BY <1>1, <4>1, <4>2 DEF Frames, Reads, Children, FileOf, NameOf, ExtentsOf
      <4>4. ASSUME Entering(met, m) PROVE Entering(met, m)'  BY <1>1, <4>4 DEF Entering
      <4>5. ASSUME Between(met, m) PROVE Between(met, m)'
        BY <1>1, <4>5 DEF Between, Visiting, Children
      <4>6. ASSUME ReadingChild(met, m) PROVE ReadingChild(met, m)'
        <5>1. PICK node, n : node = ChildAt(met, m) /\ n = m.read + 1  OBVIOUS
        <5> QED BY <1>1, <4>6, <5>1, ReadingOn DEF ReadingChild
      <4>7. Frames(met, walk[k])' /\ (Entering(met, walk[k])' \/ ReadingChild(met, walk[k])' \/ Between(met, walk[k])')
        BY <4>1, <4>2, <4>3, <4>4, <4>5, <4>6
      <4>8. /\ Top(walk).path = <<>> /\ calls' = <<>>
            /\ Len(sections') = CountAt(Len(met)) + 1
        BY <1>1, <2>5 DEF Building
      <4> QED BY <4>7, <4>8 DEF Building
    <3> QED BY <1>2, <1>3, <2>2, <2>3, <3>1 DEF TraverseInv, Phase, Logs, Elements, Kinds
  <2> QED BY <1>5, <2>4, <2>5 DEF Phase
<1> QED BY <1>4, <1>5 DEF TraverseInv

\* The walk of the recursion, which the code has nowhere, explains every state.
THEOREM TraversalInvariance == TraversalSpec => []TraverseInv
<1>1. TraversalInit => TraverseInv  BY InitTraverse
<1>2. TraverseInv /\ [TraversalNext]_traversalVars => TraverseInv'
  <2> SUFFICES ASSUME TraverseInv, [TraversalNext]_traversalVars PROVE TraverseInv'  OBVIOUS
  <2>1. CASE MapRoot  BY <2>1, MapRootStep
  <2>2. CASE EnterTraverse  BY <2>2, EnterTraverseStep
  <2>3. CASE NextExtent  BY <2>3, NextExtentStep
  <2>4. CASE VisitChild  BY <2>4, VisitChildStep
  <2>5. CASE ReturnFromTraverse  BY <2>5, ReturnFromTraverseStep
  <2>6. CASE EnterBuild  BY <2>6, EnterBuildStep
  <2>7. CASE skip_dir_extents  BY <2>7, SkipDirExtentsStep
  <2>8. CASE ReadChildCount  BY <2>8, ReadChildCountStep
  <2>9. CASE ConsumeCut  BY <2>9, ConsumeCutStep
  <2>10. CASE ReadDentry  BY <2>10, ReadDentryStep
  <2>11. CASE ReadName  BY <2>11, ReadNameStep
  <2>12. CASE PlaceDentry  BY <2>12, PlaceDentryStep
  <2>13. CASE set_extents  BY <2>13, SetExtentsStep
  <2>14. CASE skip_child_count  BY <2>14, SkipChildCountStep
  <2>15. CASE ReturnFromBuild  BY <2>15, ReturnFromBuildStep
  <2>16. CASE UNCHANGED traversalVars  BY <2>16, StutterTraverse
  <2> QED BY <2>1, <2>2, <2>3, <2>4, <2>5, <2>6, <2>7, <2>8, <2>9, <2>10, <2>11, <2>12, <2>13, <2>14,
             <2>15, <2>16 DEF TraversalNext, Work, Done
<1> QED BY <1>1, <1>2, PTL DEF TraversalSpec

\* Whatever is read from the stream was written as what the reader takes it for.
THEOREM StreamReadAsWritten == TraversalSpec => []ReadAsWritten
<1>1. TraverseInv => ReadAsWritten  BY DEF TraverseInv
<1> QED BY <1>1, TraversalInvariance, PTL

\* An iterator reads the extents of the directory of its frame.
LEMMA OwnExtentsInv == TraverseInv => OwnExtents
<1> SUFFICES ASSUME TraverseInv PROVE OwnExtents  OBVIOUS
<1>1. \A iterator, node, s : Reads(iterator, node, s) =>
        (iterator.current.type = "extent" => iterator.current.of = node)
  <2> TAKE iterator, node, s
  <2>1. NullElement.type # "extent"  BY DEF NullElement, Element
  <2>2. \A n : Element("extent", node, n).of = node  BY DEF Element
  <2> QED BY <2>1, <2>2 DEF Reads
<1>2. CASE Starting
  <2>1. \A k \in 1 .. Len(calls) : FALSE  BY <1>2 DEF Starting
  <2>2. \A k \in 1 .. Len(builds) : FALSE  BY <1>2 DEF Starting
  <2> QED BY <2>1, <2>2 DEF OwnExtents
<1>3. ASSUME NEW met, NEW walk, Phase(met, walk) PROVE OwnExtents
  <2>1. CASE Writing(met, Top(walk).path)
    <3>1. \A k \in 1 .. Len(builds) : FALSE  BY <2>1 DEF Writing
    <3>2. ASSUME NEW k \in 1 .. Len(calls), calls[k].iterator.current.type = "extent"
          PROVE  calls[k].iterator.current.of = calls[k].dir
      <4> DEFINE path == Top(walk).path
      <4>1. \/ calls[k].iterator = Iterator(Start(ExtentsAt(Len(met))))
            \/ CallOK(met, calls[k], path[k])
        BY <2>1 DEF Writing
      <4>2. CASE calls[k].iterator = Iterator(Start(ExtentsAt(Len(met))))
        <5>1. calls[k].iterator.current = Element("none", 0, 0)  BY <4>2 DEF Iterator
        <5>2. Element("none", 0, 0).type # "extent"  BY DEF Element
        <5> QED BY <3>2, <5>1, <5>2
      <4>3. CASE CallOK(met, calls[k], path[k])
        BY <1>1, <3>2, <4>3 DEF CallOK
      <4> QED BY <4>1, <4>2, <4>3
    <3> QED BY <3>1, <3>2 DEF OwnExtents
  <2>2. CASE Building(met, walk)
    <3>1. \A k \in 1 .. Len(calls) : FALSE  BY <2>2 DEF Building
    <3>2. pc \notin {"main", "traverse", "visit"}
      BY <2>2 DEF Building, Entering, ReadingChild, Between
    <3>3. PICK files, m :
            /\ Frames(files, m) /\ MomentOK(files, m) /\ m.path # <<>> /\ Len(m.path) \in Nat \ {0}
            /\ files[1] = 1
      <4>1. \E files, w, k, m, after : Walk(files, w) /\ Frames(files, m) /\ MomentOK(files, m) /\ m.path # <<>>
              /\ Len(m.path) \in Nat \ {0}
        BY <3>2, BuilderFacts
      <4>2. \A files, w : Walk(files, w) => files[1] = 1  BY DEF Walk
      <4> QED BY <4>1, <4>2
    <3>4. m.path[1].num = 1  BY <3>3 DEF MomentOK
    <3>5. Len(builds) \in Nat /\ Len(builds) <= Len(m.path)  BY <3>3 DEF Frames
    <3>6. ASSUME NEW k \in 1 .. Len(builds), builds[k].iterator.current.type = "extent"
          PROVE  builds[k].iterator.current.of = IF k = 1 THEN 1 ELSE builds[k - 1].file.dentry.of
      <4>1. Reads(builds[k].iterator, files[m.path[k].num], ExtentsAt(m.path[k].num))
        BY <3>3 DEF Frames
      <4>2. builds[k].iterator.current.of = files[m.path[k].num]  BY <1>1, <3>6, <4>1
      <4>3. CASE k = 1  BY <3>3, <3>4, <4>2, <4>3
      <4>4. CASE k # 1
        <5>1. PICK j \in 1 .. Len(builds) : j = k - 1 /\ j + 1 = k /\ j < Len(m.path)  BY <3>3, <3>5, <4>4
        <5>2. builds[j].file.dentry = Element("dentry", files[m.path[j + 1].num], 0)
          BY <3>3, <5>1 DEF Frames
        <5>3. builds[j].file.dentry.of = files[m.path[k].num]  BY <5>1, <5>2 DEF Element
        <5> QED BY <4>2, <4>4, <5>1, <5>3
      <4> QED BY <4>3, <4>4
    <3> QED BY <3>1, <3>6 DEF OwnExtents
  <2> QED BY <1>3, <2>1, <2>2 DEF Phase
<1> QED BY <1>2, <1>3 DEF TraverseInv

\* The forks of the stream, that of the reading half at a directory while the
\* stream grows and that of the building half while it is read on, stay in the
\* extents of their directory.
THEOREM ForksKeepTheirExtents == TraversalSpec => []OwnExtents
BY OwnExtentsInv, TraversalInvariance, PTL

-----------------------------------------------------------------------------
(***************************************************************************)
(* The listing: the equations that define it have a solution.              *)
(***************************************************************************)
Places == UNION { {dir} \X (0 .. Len(Children(dir))) : dir \in Nodes }

Listed(f, at) ==
  LET child == Children(at[1])[at[2]]
  IN  IF at[2] = 0 THEN <<>>
      ELSE f[<<at[1], at[2] - 1>>] \o << child >>
             \o IF tree.is_dir[child] THEN f[<<child, Len(Children(child))>>] ELSE <<>>

Solves(f, S) == f = [at \in S |-> Listed(f, at)]

\* A set of naturals has a least element.
LEMMA LeastNat ==
  ASSUME NEW S, S \subseteq Nat, S # {}
  PROVE  \E x \in S : \A y \in S : x <= y
<1>1. PICK x \in S : \A y \in S : ~ (<<y, x>> \in OpToRel(<, Nat))
  BY NatLessThanWellFounded, WFMin, Zenon
<1>2. ASSUME NEW y \in S PROVE x <= y
  <2>1. <<y, x>> \notin OpToRel(<, Nat)  BY <1>1
  <2>2. x \in Nat /\ y \in Nat  OBVIOUS
  <2>3. <<y, x>> \in Nat \X Nat /\ <<y, x>>[1] = y /\ <<y, x>>[2] = x  BY <2>2
  <2>4. y < x => <<y, x>> \in OpToRel(<, Nat)  BY <2>3, Zenon DEF OpToRel
  <2>5. ~ (y < x)  BY <2>1, <2>4, Zenon
  <2> QED BY <2>2, <2>5
<1> QED BY <1>2

\* The places that the listing at a place needs.
Needs(S, at) ==
  at[2] # 0 =>
    /\ <<at[1], at[2] - 1>> \in S
    /\ tree.is_dir[Children(at[1])[at[2]]] =>
         <<Children(at[1])[at[2]], Len(Children(Children(at[1])[at[2]]))>> \in S

\* One place more.
LEMMA SolvesMore ==
  ASSUME NEW S, NEW f, Solves(f, S), NEW q, q \notin S, \A at \in S \cup {q} : Needs(S, at)
  PROVE  \E g : Solves(g, S \cup {q})
<1> DEFINE g == [at \in S \cup {q} |-> IF at = q THEN Listed(f, q) ELSE f[at]]
<1>1. \A at \in S : g[at] = f[at]  OBVIOUS
<1>2. \A at \in S : f[at] = Listed(f, at)  BY Zenon DEF Solves
<1>3. g[q] = Listed(f, q)  OBVIOUS
<1>4. \A at \in S \cup {q} : g[at] = Listed(f, at)  BY <1>1, <1>2, <1>3, Zenon
<1>5. g = [at \in S \cup {q} |-> g[at]]  OBVIOUS
<1> HIDE DEF g
<1>6. \A at \in S \cup {q} : Listed(g, at) = Listed(f, at)
  <2> TAKE at \in S \cup {q}
  <2>1. CASE at[2] = 0  BY <2>1 DEF Listed
  <2>2. CASE at[2] # 0
    <3>1. g[<<at[1], at[2] - 1>>] = f[<<at[1], at[2] - 1>>]  BY <1>1, <2>2 DEF Needs
    <3> DEFINE child == Children(at[1])[at[2]]
    <3>2. tree.is_dir[child] => g[<<child, Len(Children(child))>>] = f[<<child, Len(Children(child))>>]
      BY <1>1, <2>2 DEF Needs
    <3> QED BY <3>1, <3>2, Zenon DEF Listed
  <2> QED BY <2>1, <2>2
<1>7. g = [at \in S \cup {q} |-> Listed(g, at)]
  <2>1. \A at \in S \cup {q} : g[at] = Listed(g, at)  BY <1>4, <1>6
  <2> QED BY <1>5, <2>1
<1> QED BY <1>7, Zenon DEF Solves

\* The listing is the solution.
LEMMA ListingIs ==
  ASSUME \E f : Solves(f, Places)
  PROVE  Solves(Listing, Places)
BY Zenon DEF Listing, Solves, Listed, Places

\* The places up to the n-th child of the j-th directory, from the last one.
From(j, n) == { at \in Places : at[1] > j \/ (at[1] = j /\ at[2] <= n) }

\* The children of a directory come after it, so there is a listing.
LEMMA ListingSolves == tree \in Trees => Solves(Listing, Places)
<1> SUFFICES ASSUME tree \in Trees PROVE Solves(Listing, Places)  OBVIOUS
<1>1. PICK count \in Nat \ {0} :
        /\ Nodes = 1 .. count /\ tree.children \in [1 .. count -> Seq(1 .. count)]
        /\ \A node \in 1 .. count : \A n \in 1 .. Len(tree.children[node]) : tree.children[node][n] > node
  <2>1. PICK count \in DOMAIN tree.is_dir :
          /\ count \in Nat \ {0} /\ tree.is_dir \in [1 .. count -> BOOLEAN]
          /\ tree.children \in [1 .. count -> Seq(1 .. count)]
          /\ \A node \in 1 .. count : \A n \in 1 .. Len(tree.children[node]) : tree.children[node][n] > node
    BY TreeAssumption
  <2> QED BY <2>1 DEF Nodes
<1>2. \A node \in 1 .. count : Children(node) \in Seq(1 .. count) /\ Len(Children(node)) \in Nat
  BY <1>1 DEF Children
<1>3. \A node \in 1 .. count : \A n \in 1 .. Len(Children(node)) :
        Children(node)[n] \in 1 .. count /\ Children(node)[n] > node
  <2> TAKE node \in 1 .. count
  <2> TAKE n \in 1 .. Len(Children(node))
  <2>1. Children(node) \in Seq(1 .. count)  BY <1>2
  <2>2. Children(node)[n] \in 1 .. count  BY <2>1
  <2>3. Children(node)[n] > node  BY <1>1 DEF Children
  <2> QED BY <2>2, <2>3
<1>4. \A j, n : <<j, n>> \in Places <=> j \in 1 .. count /\ n \in 0 .. Len(Children(j))
  BY <1>1 DEF Places
<1>5. \A at \in Places : at = <<at[1], at[2]>> /\ at[1] \in 1 .. count /\ at[2] \in 0 .. Len(Children(at[1]))
  BY <1>1 DEF Places
<1>6. ASSUME NEW S, NEW at \in Places,
             \A j, n : <<j, n>> \in Places /\ (j > at[1] \/ (j = at[1] /\ n < at[2])) => <<j, n>> \in S
      PROVE  Needs(S, at)
  <2>1. CASE at[2] = 0  BY <2>1 DEF Needs
  <2>2. CASE at[2] # 0
    <3> DEFINE child == Children(at[1])[at[2]]
    <3>1. at[1] \in 1 .. count /\ at[2] \in 1 .. Len(Children(at[1])) /\ Len(Children(at[1])) \in Nat
      BY <1>2, <1>5, <2>2
    <3>2. child \in 1 .. count /\ child > at[1]  BY <1>3, <3>1
    <3>3. at[2] - 1 \in 0 .. Len(Children(at[1])) /\ at[2] - 1 < at[2]  BY <3>1
    <3>4. <<at[1], at[2] - 1>> \in S  BY <1>4, <1>6, <3>1, <3>3
    <3>5. Len(Children(child)) \in 0 .. Len(Children(child))  BY <1>2, <3>2
    <3> HIDE DEF child
    <3>6. <<child, Len(Children(child))>> \in S  BY <1>4, <1>6, <3>2, <3>5
    <3> QED BY <3>4, <3>6 DEF Needs, child
  <2> QED BY <2>1, <2>2
<1> DEFINE Bad == { j \in 1 .. count : \E n \in 0 .. Len(Children(j)) : ~ \E f : Solves(f, From(j, n)) }
<1>7. Bad = {}
  <2>1. SUFFICES ASSUME Bad # {} PROVE FALSE  OBVIOUS
  <2>2. PICK j \in Bad : \A i \in Bad : i <= j
    <3> DEFINE K == { count - i : i \in Bad }
    <3>1. K \subseteq Nat /\ K # {}  BY <2>1
    <3> HIDE DEF K
    <3>2. PICK x \in K : \A y \in K : x <= y  BY <3>1, LeastNat, Zenon
    <3>3. PICK j \in Bad : x = count - j  BY <3>2 DEF K
    <3>4. \A i \in Bad : count - j <= count - i  BY <3>2, <3>3 DEF K
    <3>5. \A i \in Bad : i \in Nat  OBVIOUS
    <3>6. \A a, b \in Nat : count - a <= count - b => b <= a  OBVIOUS
    <3> HIDE DEF Bad
    <3>7. \A i \in Bad : i <= j  BY <3>3, <3>4, <3>5, <3>6
    <3> QED BY <3>3, <3>7
  <2>3. j \in 1 .. count  OBVIOUS
  <2> DEFINE C == { n \in 0 .. Len(Children(j)) : ~ \E f : Solves(f, From(j, n)) }
  <2>4. C \subseteq Nat /\ C # {}  BY <2>3
  <2>5. PICK n \in C : \A i \in C : n <= i
    <3> HIDE DEF C
    <3> QED BY <2>4, LeastNat, Zenon
  <2>6. n \in 0 .. Len(Children(j)) /\ n \in Nat  OBVIOUS
  <2> DEFINE q == <<j, n>>
             S == From(j, n) \ {q}
  <2>7. q \in Places /\ q[1] = j /\ q[2] = n /\ q \in From(j, n)
    <3>1. q \in Places  BY <1>4, <2>3, <2>6
    <3> QED BY <2>6, <3>1 DEF From
  <2>8. From(j, n) = S \cup {q} /\ q \notin S  BY <2>7
  <2>9. \E f : Solves(f, S)
    <3>1. CASE n # 0
      <4>0. n - 1 \in 0 .. Len(Children(j)) /\ ~ n <= n - 1  BY <1>2, <2>3, <2>6, <3>1
      <4>1. n - 1 \in 0 .. Len(Children(j)) /\ n - 1 \notin C
        <5> HIDE DEF C
        <5> QED BY <2>5, <4>0
      <4>2. \E f : Solves(f, From(j, n - 1))  BY <4>1
      <4>3. S = From(j, n - 1)
        <5>1. ASSUME NEW at \in Places
              PROVE  at \in S <=> at \in From(j, n - 1)
          <6>1. at = <<at[1], at[2]>> /\ at[1] \in Nat /\ at[2] \in Nat  BY <1>2, <1>5
          <6>2. at = q <=> at[1] = j /\ at[2] = n  BY <6>1, <2>7
          <6> QED BY <2>3, <2>6, <6>1, <6>2 DEF From
        <5> QED BY <5>1 DEF From
      <4> HIDE DEF S
      <4> QED BY <4>2, <4>3
    <3>2. CASE n = 0 /\ j = count
      <4>1. S = {}
        <5>1. ASSUME NEW at \in S PROVE FALSE
          <6>1. at \in Places /\ (at[1] > j \/ (at[1] = j /\ at[2] <= n)) /\ at # q  BY DEF From
          <6>2. at = <<at[1], at[2]>> /\ at[1] \in 1 .. count /\ at[2] \in Nat  BY <1>2, <1>5, <6>1
          <6>3. at[1] = j /\ at[2] = 0  BY <3>2, <6>1, <6>2
          <6> QED BY <3>2, <6>1, <6>2, <6>3
        <5> QED BY <5>1
      <4>2. \E f : Solves(f, {})
        <5>1. [at \in {} |-> 0] = [at \in {} |-> Listed([x \in {} |-> 0], at)]  OBVIOUS
        <5> QED BY <5>1, Zenon DEF Solves
      <4> HIDE DEF S
      <4> QED BY <4>1, <4>2
    <3>3. CASE n = 0 /\ j # count
      <4>1. j + 1 \in 1 .. count /\ j + 1 \notin Bad  BY <2>2, <2>3, <3>3
      <4> DEFINE all == Len(Children(j + 1))
      <4>2. all \in 0 .. all  BY <1>2, <4>1
      <4>3. \E f : Solves(f, From(j + 1, all))  BY <4>1, <4>2
      <4> HIDE DEF all
      <4>4. S = From(j + 1, all)
        <5>1. ASSUME NEW at \in Places
              PROVE  at \in S <=> at \in From(j + 1, all)
          <6>1. at = <<at[1], at[2]>> /\ at[1] \in Nat /\ at[2] \in Nat /\ j \in Nat  BY <1>2, <1>5, <2>3
          <6>2. at = q <=> at[1] = j /\ at[2] = 0  BY <6>1, <2>7, <3>3
          <6>3. at[1] = j + 1 => at[2] <= all
            <7>1. at[2] \in 0 .. Len(Children(at[1]))  BY <1>5
            <7> QED BY <7>1 DEF all
          <6>4. at \in S <=> (at[1] > j \/ (at[1] = j /\ at[2] <= 0)) /\ at # q  BY <3>3 DEF From
          <6>5. at \in From(j + 1, all) <=> at[1] > j + 1 \/ (at[1] = j + 1 /\ at[2] <= all)  BY DEF From
          <6>6. at \in S <=> at[1] > j
            <7>1. at[2] <= 0 <=> at[2] = 0  BY <6>1
            <7>2. at[1] > j => at[1] # j  BY <6>1
            <7> HIDE DEF S, q
            <7> QED BY <6>2, <6>4, <7>1, <7>2
          <6>7. at[1] > j <=> at[1] > j + 1 \/ at[1] = j + 1  BY <6>1
          <6> HIDE DEF S, q
          <6> QED BY <6>3, <6>5, <6>6, <6>7
        <5> QED BY <5>1 DEF From
      <4> HIDE DEF S
      <4> QED BY <4>3, <4>4
    <3> QED BY <3>1, <3>2, <3>3
  <2>10. \A at \in S \cup {q} : Needs(S, at)
    <3> TAKE at \in S \cup {q}
    <3>1. at \in Places /\ at \in From(j, n)  BY <2>8 DEF From
    <3>2. at[1] \in Nat /\ at[2] \in Nat /\ (at[1] > j \/ (at[1] = j /\ at[2] <= n))
      BY <1>2, <1>5, <3>1 DEF From
    <3>3. ASSUME NEW a, NEW b, <<a, b>> \in Places, a > at[1] \/ (a = at[1] /\ b < at[2])
          PROVE  <<a, b>> \in S
      <4>1. a \in Nat /\ b \in Nat  BY <1>2, <1>4, <3>3
      <4>2. a > j \/ (a = j /\ b < n)  BY <2>3, <2>6, <3>2, <3>3, <4>1
      <4>3. <<a, b>> \in From(j, n)
        <5>1. <<a, b>>[1] = a /\ <<a, b>>[2] = b  OBVIOUS
        <5>2. a > j \/ (a = j /\ b <= n)  BY <2>6, <4>1, <4>2
        <5> QED BY <3>3, <5>1, <5>2 DEF From
      <4>4. <<a, b>> # q  BY <2>3, <2>6, <4>1, <4>2
      <4> QED BY <4>3, <4>4
    <3> HIDE DEF S
    <3> QED BY <1>6, <3>1, <3>3
  <2>11. \E g : Solves(g, S \cup {q})
    <3> HIDE DEF S, q
    <3> QED BY <2>8, <2>9, <2>10, SolvesMore
  <2>12. \E g : Solves(g, From(j, n))
    <3> HIDE DEF S, q
    <3> QED BY <2>8, <2>11
  <2> QED BY <2>5, <2>12
<1>8. \E f : Solves(f, Places)
  <2> DEFINE all == Len(Children(1))
  <2>1. 1 \in 1 .. count /\ all \in 0 .. all  BY <1>2
  <2>2. \E f : Solves(f, From(1, all))  BY <1>7, <2>1
  <2>3. From(1, all) = Places
    <3>1. ASSUME NEW at \in Places PROVE at[1] > 1 \/ (at[1] = 1 /\ at[2] <= all)
      <4>1. at[1] \in 1 .. count /\ at[2] \in 0 .. Len(Children(at[1]))  BY <1>5
      <4> QED BY <1>2, <4>1
    <3> QED BY <3>1 DEF From
  <2> HIDE DEF all
  <2> QED BY <2>2, <2>3
<1> QED BY <1>8, ListingIs

\* The listing, one child more.
LEMMA ListingAt ==
  ASSUME tree \in Trees, NEW dir \in Nodes
  PROVE  /\ Listing[<<dir, 0>>] = <<>>
         /\ \A n \in 1 .. Len(Children(dir)) :
              Listing[<<dir, n>>] =
                Listing[<<dir, n - 1>>] \o << Children(dir)[n] >>
                  \o IF tree.is_dir[Children(dir)[n]]
                       THEN Listing[<<Children(dir)[n], Len(Children(Children(dir)[n]))>>] ELSE <<>>
<1>1. Len(Children(dir)) \in Nat  BY TreeFacts
<1>2. \A n \in 0 .. Len(Children(dir)) : <<dir, n>> \in Places  BY DEF Places
<1>3. \A at \in Places : Listing[at] = Listed(Listing, at)  BY ListingSolves, Zenon DEF Solves
<1>4. Listing[<<dir, 0>>] = <<>>
  <2>1. <<dir, 0>> \in Places  BY <1>1, <1>2
  <2>2. <<dir, 0>>[2] = 0  OBVIOUS
  <2>3. Listed(Listing, <<dir, 0>>) = <<>>  BY <2>2, Zenon DEF Listed
  <2> QED BY <1>3, <2>1, <2>3
<1>5. ASSUME NEW n \in 1 .. Len(Children(dir))
      PROVE  Listing[<<dir, n>>] =
               Listing[<<dir, n - 1>>] \o << Children(dir)[n] >>
                 \o IF tree.is_dir[Children(dir)[n]]
                      THEN Listing[<<Children(dir)[n], Len(Children(Children(dir)[n]))>>] ELSE <<>>
  <2>1. <<dir, n>> \in Places /\ n # 0  BY <1>1, <1>2
  <2>2. Listing[<<dir, n>>] = Listed(Listing, <<dir, n>>)  BY <1>3, <2>1
  <2>3. <<dir, n>>[1] = dir /\ <<dir, n>>[2] = n  OBVIOUS
  <2> QED BY <2>1, <2>2, <2>3, Zenon DEF Listed
<1> QED BY <1>4, <1>5

\* A concatenation, element by element.
LEMMA ConcatFacts ==
  ASSUME NEW S, NEW x \in Seq(S), NEW y \in Seq(S)
  PROVE  /\ x \o y \in Seq(S) /\ Len(x \o y) = Len(x) + Len(y)
         /\ \A k \in 1 .. Len(x) : (x \o y)[k] = x[k]
         /\ \A k \in 1 .. Len(y) : (x \o y)[Len(x) + k] = y[k]
<1>1. Len(x) \in Nat /\ Len(y) \in Nat  OBVIOUS
<1>2. x \o y \in Seq(S) /\ Len(x \o y) = Len(x) + Len(y)  OBVIOUS
<1>3. \A k \in 1 .. Len(x) : (x \o y)[k] = x[k]  BY <1>1
<1>4. \A k \in 1 .. Len(y) : (x \o y)[Len(x) + k] = y[k]
  <2> TAKE k \in 1 .. Len(y)
  <2>1. Len(x) + k \in 1 .. Len(x) + Len(y) /\ ~ Len(x) + k <= Len(x) /\ Len(x) + k - Len(x) = k  BY <1>1
  <2> QED BY <1>1, <2>1
<1> QED BY <1>2, <1>3, <1>4

\* Two parts of a sequence and what is between them.
LEMMA SubSeqJoin ==
  ASSUME NEW S, NEW s \in Seq(S), NEW a \in Nat \ {0}, NEW b \in Nat, NEW c \in Nat,
         a <= b + 1, b + 1 <= c, c <= Len(s)
  PROVE  SubSeq(s, a, b) \o << s[b + 1] >> \o SubSeq(s, b + 2, c) = SubSeq(s, a, c)
<1>a. \A x, y \in Seq(S) :
        /\ x \o y \in Seq(S) /\ Len(x \o y) = Len(x) + Len(y)
        /\ \A k \in 1 .. Len(x) : (x \o y)[k] = x[k]
        /\ \A k \in 1 .. Len(y) : (x \o y)[Len(x) + k] = y[k]
  <2> TAKE x, y \in Seq(S)
  <2> QED BY ConcatFacts
<1> DEFINE left == SubSeq(s, a, b)
           right == SubSeq(s, b + 2, c)
           whole == SubSeq(s, a, c)
           mid == << s[b + 1] >>
<1>1. Len(s) \in Nat /\ s[b + 1] \in S  OBVIOUS
<1>0. PICK l \in Nat, r \in Nat : l = b - a + 1 /\ r = c - b - 1 /\ l + 1 + r = c - a + 1
  <2>1. b - a + 1 \in Nat /\ c - b - 1 \in Nat /\ (b - a + 1) + 1 + (c - b - 1) = c - a + 1  OBVIOUS
  <2> QED BY <2>1
<1>2. left \in Seq(S) /\ Len(left) = l /\ \A k \in 1 .. l : left[k] = s[a + k - 1]
  <2>1. \A k \in a .. b : s[k] \in S  OBVIOUS
  <2> QED BY <1>0, <2>1
<1>3. right \in Seq(S) /\ Len(right) = r /\ \A k \in 1 .. r : right[k] = s[b + 1 + k]
  <2>1. \A k \in b + 2 .. c : s[k] \in S  OBVIOUS
  <2> QED BY <1>0, <2>1
<1>4. whole \in Seq(S) /\ Len(whole) = l + 1 + r /\ \A k \in 1 .. l + 1 + r : whole[k] = s[a + k - 1]
  <2>1. \A k \in a .. c : s[k] \in S  OBVIOUS
  <2> QED BY <1>0, <2>1
<1>5. mid \in Seq(S) /\ Len(mid) = 1 /\ mid[1] = s[b + 1]  BY <1>1
<1> HIDE DEF left, right, whole, mid
<1> DEFINE head == left \o mid
<1>6. /\ head \in Seq(S) /\ Len(head) = l + 1
      /\ \A k \in 1 .. l : head[k] = left[k]
      /\ head[l + 1] = mid[1]
  <2>1. /\ head \in Seq(S) /\ Len(head) = Len(left) + Len(mid)
        /\ \A k \in 1 .. Len(left) : head[k] = left[k]
        /\ \A k \in 1 .. Len(mid) : head[Len(left) + k] = mid[k]
    <3>1. left \in Seq(S) /\ mid \in Seq(S)  BY <1>2, <1>5
    <3> QED BY <1>a, <3>1, Zenon
  <2> HIDE DEF head
  <2> QED BY <1>2, <1>5, <2>1
<1> HIDE DEF head
<1> DEFINE all == head \o right
<1>7. /\ all \in Seq(S) /\ Len(all) = l + 1 + r
      /\ \A k \in 1 .. l + 1 : all[k] = head[k]
      /\ \A k \in 1 .. r : all[l + 1 + k] = right[k]
  <2>1. /\ all \in Seq(S) /\ Len(all) = Len(head) + Len(right)
        /\ \A k \in 1 .. Len(head) : all[k] = head[k]
        /\ \A k \in 1 .. Len(right) : all[Len(head) + k] = right[k]
    <3>1. head \in Seq(S) /\ right \in Seq(S)  BY <1>3, <1>6
    <3> QED BY <1>a, <3>1, Zenon
  <2> HIDE DEF all
  <2> QED BY <1>3, <1>6, <2>1
<1> HIDE DEF all
<1>8. ASSUME NEW k \in 1 .. l + 1 + r PROVE all[k] = s[a + k - 1]
  <2>1. CASE k <= l
    <3>1. k \in 1 .. l /\ k \in 1 .. l + 1  BY <2>1
    <3> QED BY <1>2, <1>6, <1>7, <3>1
  <2>2. CASE k = l + 1
    <3>1. k \in 1 .. l + 1 /\ a + k - 1 = b + 1  BY <1>0, <2>2
    <3>2. all[k] = mid[1]  BY <1>6, <1>7, <2>2, <3>1
    <3> QED BY <1>5, <3>1, <3>2
  <2>3. CASE k > l + 1
    <3>1. PICK j \in 1 .. r : k = l + 1 + j  BY <2>3
    <3>2. all[k] = s[b + 1 + j]  BY <1>3, <1>7, <3>1
    <3>3. b + 1 + j = a + k - 1  BY <1>0, <3>1
    <3> QED BY <3>2, <3>3
  <2> QED BY <2>1, <2>2, <2>3
<1>9. all = whole
  <2>1. \A k \in 1 .. l + 1 + r : all[k] = whole[k]  BY <1>4, <1>8
  <2>2. all \in Seq(S) /\ whole \in Seq(S) /\ Len(all) = l + 1 + r /\ Len(whole) = l + 1 + r
    BY <1>4, <1>7
  <2>3. \A k \in 1 .. Len(all) : all[k] = whole[k]  BY <2>1, <2>2
  <2> QED BY <2>2, <2>3
<1> QED BY <1>9 DEF all, head, left, mid, right, whole

\* The end of what is read below the j-th directory of a path, without the
\* directory that is being read.
EndOf(m, j) == IF j = Len(m.path) THEN m.read ELSE m.path[j + 1].num - 1

\* What is met of a directory so far is what the listing has there.
ListedOK(met, m) ==
  \A j \in 1 .. Len(m.path) :
    Listing[<<met[m.path[j].num], m.path[j].next - 1>>] = SubSeq(met, m.path[j].num + 1, EndOf(m, j))

\* One moment more: what the listing has so far is what is met below each directory.
LEMMA ListedAfter ==
  ASSUME tree \in Trees, NEW met \in Seq(Nodes), NEW m \in Moments, m.path # <<>>, MomentOK(met, m),
         ListedOK(met, m), Visiting(met, m) => m.read + 1 <= Len(met) /\ met[m.read + 1] = ChildAt(met, m),
         NEW after, after = AfterMoment(met, m)
  PROVE  ListedOK(met, after)
<1>1. PICK d \in Nat \ {0}, r \in Nat \ {0} : d = Len(m.path) /\ r = m.read /\ r <= Len(met)
  BY MomentFacts DEF MomentOK
<1>2. /\ m.path \in Seq(PathFrames) /\ Top(m.path) = m.path[d]
      /\ Children(met[Top(m.path).num]) \in Seq(Nodes) /\ tree.is_dir[met[Top(m.path).num]]
      /\ ~ Visiting(met, m) => Top(m.path).next = Len(Children(met[Top(m.path).num])) + 1
  BY <1>1, MomentFacts
<1>3. \A j \in 1 .. d : m.path[j].num \in Nat \ {0} /\ m.path[j].next \in Nat \ {0}
  <2> TAKE j \in 1 .. d
  <2>1. m.path[j] \in PathFrames  BY <1>1, <1>2
  <2> QED BY <2>1 DEF PathFrames
<1>4. /\ \A j \in 1 .. d : m.path[j].num \in 1 .. r /\ tree.is_dir[met[m.path[j].num]]
      /\ \A j \in 1 .. d - 1 :
           /\ m.path[j].next <= Len(Children(met[m.path[j].num]))
           /\ Children(met[m.path[j].num])[m.path[j].next] = met[m.path[j + 1].num]
      /\ \A k, j \in 1 .. d : k < j => m.path[k].num < m.path[j].num
  BY <1>1 DEF MomentOK
<1>5. \A j \in 1 .. d : met[m.path[j].num] \in Nodes  BY <1>1, <1>4
<1>6. \A j \in 1 .. d :
        Listing[<<met[m.path[j].num], m.path[j].next - 1>>] = SubSeq(met, m.path[j].num + 1, EndOf(m, j))
  BY <1>1 DEF ListedOK
<1>7. \A j \in 1 .. d : EndOf(m, j) = IF j = d THEN r ELSE m.path[j + 1].num - 1
  BY <1>1 DEF EndOf
<1>8. d \in 1 .. d  OBVIOUS
<1> DEFINE top == m.path[d]
           x == met[top.num]
<1>9. top.num \in 1 .. r /\ top.next \in Nat \ {0} /\ x \in Nodes /\ tree.is_dir[x]
  BY <1>3, <1>4, <1>5, <1>8
<1>a. Listing[<<x, top.next - 1>>] = SubSeq(met, top.num + 1, r)
  BY <1>6, <1>7, <1>8
<1>10. \A a \in Nat : SubSeq(met, a + 1, a) = <<>>
  <2> TAKE a \in Nat
  <2>1. \A k \in a + 1 .. a : FALSE  OBVIOUS
  <2>2. SubSeq(met, a + 1, a) \in Seq(Nodes) /\ Len(SubSeq(met, a + 1, a)) = 0  BY <2>1
  <2> QED BY <2>2
<1>11. CASE Visiting(met, m) /\ tree.is_dir[ChildAt(met, m)]
  <2> DEFINE frame == [num |-> r + 1, next |-> 1]
  <2>1. after.path = Append(m.path, frame) /\ after.read = r + 1  BY <1>1, <1>11 DEF AfterMoment
  <2>2. /\ Len(after.path) = d + 1 /\ after.path[d + 1] = frame
        /\ \A j \in 1 .. d : after.path[j] = m.path[j]
    BY <1>1, <1>2, <2>1
  <2>3. frame.num = r + 1 /\ frame.next = 1  OBVIOUS
  <2> HIDE DEF frame
  <2>4. ASSUME NEW j \in 1 .. d + 1
        PROVE  Listing[<<met[after.path[j].num], after.path[j].next - 1>>]
                 = SubSeq(met, after.path[j].num + 1, EndOf(after, j))
    <3>1. CASE j = d + 1
      <4>1. EndOf(after, j) = r + 1  BY <2>1, <2>2, <3>1 DEF EndOf
      <4>2. met[r + 1] \in Nodes  BY <1>1, <1>11
      <4>3. Listing[<<met[r + 1], 0>>] = <<>>  BY <4>2, ListingAt
      <4>4. SubSeq(met, (r + 1) + 1, r + 1) = <<>>  BY <1>10
      <4>5. after.path[j].num = r + 1 /\ after.path[j].next - 1 = 0  BY <2>2, <2>3, <3>1
      <4> QED BY <4>1, <4>3, <4>4, <4>5
    <3>2. CASE j # d + 1
      <4>1. j \in 1 .. d /\ j + 1 \in 1 .. d + 1  BY <3>2
      <4>2. EndOf(after, j) = after.path[j + 1].num - 1  BY <2>2, <3>2 DEF EndOf
      <4>3. EndOf(after, j) = EndOf(m, j)
        <5>1. CASE j = d
          <6>1. after.path[j + 1].num - 1 = r  BY <2>2, <2>3, <5>1
          <6> QED BY <1>7, <1>8, <4>2, <5>1, <6>1
        <5>2. CASE j # d
          <6>1. j + 1 \in 1 .. d  BY <4>1, <5>2
          <6>2. after.path[j + 1] = m.path[j + 1]  BY <2>2, <6>1
          <6> QED BY <1>7, <4>1, <4>2, <5>2, <6>2
        <5> QED BY <5>1, <5>2
      <4>4. after.path[j] = m.path[j]  BY <2>2, <4>1
      <4> QED BY <1>6, <4>1, <4>3, <4>4
    <3> QED BY <3>1, <3>2
  <2> QED BY <2>2, <2>4 DEF ListedOK
<1>12. CASE Visiting(met, m) /\ ~ tree.is_dir[ChildAt(met, m)]
  <2>1. after.path = ToNextChild(m.path) /\ after.read = r + 1  BY <1>1, <1>12 DEF AfterMoment
  <2>2. /\ Len(after.path) = d
        /\ \A j \in 1 .. d : after.path[j] = IF j = d THEN [num |-> m.path[j].num, next |-> m.path[j].next + 1]
                                             ELSE m.path[j]
    BY <1>1, <1>2, <2>1, PathOn
  <2>3. after.path[d].num = top.num /\ after.path[d].next = top.next + 1
    <3>1. after.path[d] = [num |-> top.num, next |-> top.next + 1]  BY <1>8, <2>2
    <3> QED BY <3>1
  <2>4. \A j \in 1 .. d : j # d => after.path[j] = m.path[j]  BY <2>2
  <2>5. \A j \in 1 .. d : after.path[j].num = m.path[j].num  BY <2>3, <2>4
  <2>6. Listing[<<x, top.next>>] = SubSeq(met, top.num + 1, r + 1)
    <3>1. /\ ChildAt(met, m) = Children(x)[top.next] /\ top.next \in 1 .. Len(Children(x))
          /\ Children(x)[top.next] = met[r + 1] /\ r + 1 <= Len(met)
      <4>1. top.next <= Len(Children(x)) /\ ChildAt(met, m) = Children(x)[top.next]
        BY <1>2, <1>12 DEF Visiting, ChildAt
      <4>2. Len(Children(x)) \in Nat  BY <1>9, TreeFacts
      <4> QED BY <1>1, <1>9, <1>12, <4>1, <4>2
    <3>2. Listing[<<x, top.next>>] = Listing[<<x, top.next - 1>>] \o << met[r + 1] >> \o <<>>
      <4>1. Listing[<<x, top.next>>] =
              Listing[<<x, top.next - 1>>] \o << Children(x)[top.next] >>
                \o IF tree.is_dir[Children(x)[top.next]]
                     THEN Listing[<<Children(x)[top.next], Len(Children(Children(x)[top.next]))>>] ELSE <<>>
        BY <1>9, <3>1, ListingAt
      <4>2. ~ tree.is_dir[Children(x)[top.next]]  BY <1>12, <3>1
      <4> QED BY <3>1, <4>1, <4>2
    <3>3. SubSeq(met, top.num + 1, r) \o << met[r + 1] >> \o SubSeq(met, r + 2, r + 1)
            = SubSeq(met, top.num + 1, r + 1)
      <4>0. top.num \in 1 .. r  BY <1>9
      <4> HIDE DEF top
      <4>1. top.num + 1 \in Nat \ {0} /\ r \in Nat /\ r + 1 \in Nat /\ top.num + 1 <= r + 1
            /\ r + 1 <= r + 1
        BY <4>0
      <4> QED BY <3>1, <4>1, SubSeqJoin
    <3>4. SubSeq(met, r + 2, r + 1) = <<>>
      <4>1. SubSeq(met, (r + 1) + 1, r + 1) = <<>>  BY <1>10
      <4>2. (r + 1) + 1 = r + 2  OBVIOUS
      <4> QED BY <4>1, <4>2
    <3> HIDE DEF top, x
    <3> QED BY <1>a, <3>2, <3>3, <3>4
  <2>7. ASSUME NEW j \in 1 .. d
        PROVE  Listing[<<met[after.path[j].num], after.path[j].next - 1>>]
                 = SubSeq(met, after.path[j].num + 1, EndOf(after, j))
    <3>1. CASE j = d
      <4>1. EndOf(after, j) = r + 1  BY <2>1, <2>2, <3>1 DEF EndOf
      <4>2. after.path[j].num = top.num /\ after.path[j].next - 1 = top.next  BY <1>9, <2>3, <3>1
      <4> QED BY <2>6, <4>1, <4>2
    <3>2. CASE j # d
      <4>1. j + 1 \in 1 .. d  BY <3>2
      <4>2. EndOf(after, j) = after.path[j + 1].num - 1  BY <2>2, <3>2 DEF EndOf
      <4>3. EndOf(after, j) = EndOf(m, j)  BY <1>7, <2>5, <3>2, <4>1, <4>2
      <4> QED BY <1>6, <2>4, <3>2, <4>3
    <3> QED BY <3>1, <3>2
  <2> QED BY <2>2, <2>7 DEF ListedOK
<1>13. CASE ~ Visiting(met, m) /\ d = 1
  <2>1. after.path = <<>>  BY <1>1, <1>13 DEF AfterMoment
  <2>2. \A j \in 1 .. Len(after.path) : FALSE  BY <2>1
  <2> QED BY <2>2 DEF ListedOK
<1>14. CASE ~ Visiting(met, m) /\ d # 1
  <2>1. after.path = ToNextChild(Pop(m.path)) /\ after.read = r  BY <1>1, <1>14 DEF AfterMoment
  <2>2. PICK e \in 1 .. d : e + 1 = d /\ e \in Nat \ {0} /\ e \in 1 .. d - 1
    <3>1. d - 1 \in 1 .. d /\ (d - 1) + 1 = d /\ d - 1 \in Nat \ {0} /\ d - 1 \in 1 .. d - 1  BY <1>14
    <3> QED BY <3>1
  <2>3. /\ Pop(m.path) \in Seq(PathFrames) /\ Len(Pop(m.path)) = e
        /\ \A j \in 1 .. e : Pop(m.path)[j] = m.path[j]
    <3>1. /\ Pop(m.path) \in Seq(PathFrames) /\ Len(Pop(m.path)) = Len(m.path) - 1
          /\ \A j \in 1 .. Len(m.path) - 1 : Pop(m.path)[j] = m.path[j]
      BY <1>2, StackFacts
    <3>2. Len(m.path) - 1 = e  BY <1>1, <2>2
    <3> QED BY <3>1, <3>2
  <2>4. Pop(m.path) # <<>>  BY <2>2, <2>3
  <2> DEFINE p == m.path[e]
             y == met[p.num]
  <2>5. /\ Len(after.path) = e
        /\ \A j \in 1 .. e : after.path[j] = IF j = e THEN [num |-> m.path[j].num, next |-> m.path[j].next + 1]
                                             ELSE m.path[j]
    <3> DEFINE rest == Pop(m.path)
    <3>1. /\ Len(ToNextChild(rest)) = Len(rest)
          /\ \A j \in 1 .. Len(rest) :
               ToNextChild(rest)[j] = IF j = Len(rest) THEN [num |-> rest[j].num, next |-> rest[j].next + 1]
                                      ELSE rest[j]
      BY <2>3, <2>4, PathOn
    <3> QED BY <2>1, <2>3, <3>1
  <2>6. after.path[e].num = p.num /\ after.path[e].next = p.next + 1
    <3>0. e \in 1 .. e  BY <2>2
    <3>1. after.path[e] = [num |-> p.num, next |-> p.next + 1]  BY <2>5, <3>0
    <3> QED BY <3>1
  <2>7. \A j \in 1 .. e : j # e => after.path[j] = m.path[j]  BY <2>5
  <2>8. \A j \in 1 .. e : after.path[j].num = m.path[j].num  BY <2>6, <2>7
  <2>9. /\ p.num \in Nat \ {0} /\ p.next \in Nat \ {0} /\ p.num < top.num /\ y \in Nodes
        /\ p.next <= Len(Children(y)) /\ Children(y)[p.next] = x
    <3>1. e < d  BY <2>2
    <3>2. p.num < top.num  BY <1>4, <1>8, <2>2, <3>1
    <3> QED BY <1>3, <1>4, <1>5, <2>2, <3>2
  <2>a. Listing[<<y, p.next - 1>>] = SubSeq(met, p.num + 1, top.num - 1)
    <3>1. e # d  BY <2>2
    <3>2. EndOf(m, e) = top.num - 1  BY <1>7, <2>2, <3>1
    <3> QED BY <1>6, <2>2, <3>2
  <2>10. Listing[<<y, p.next>>] = SubSeq(met, p.num + 1, r)
    <3>1. Listing[<<y, p.next>>] =
            Listing[<<y, p.next - 1>>] \o << Children(y)[p.next] >>
              \o IF tree.is_dir[Children(y)[p.next]]
                   THEN Listing[<<Children(y)[p.next], Len(Children(Children(y)[p.next]))>>] ELSE <<>>
      <4>1. Len(Children(y)) \in Nat  BY <2>9, TreeFacts
      <4>2. p.next \in 1 .. Len(Children(y))  BY <2>9, <4>1
      <4> QED BY <2>9, <4>2, ListingAt
    <3>2. Listing[<<x, Len(Children(x))>>] = SubSeq(met, top.num + 1, r)
      <4>1. top.next = Len(Children(x)) + 1  BY <1>2, <1>14
      <4>2. Len(Children(x)) \in Nat  BY <1>9, TreeFacts
      <4>3. top.next - 1 = Len(Children(x))  BY <4>1, <4>2
      <4> QED BY <1>a, <4>3
    <3>3. Listing[<<y, p.next>>] = SubSeq(met, p.num + 1, top.num - 1) \o << x >> \o SubSeq(met, top.num + 1, r)
      BY <1>9, <2>9, <2>a, <3>1, <3>2
    <3>4. SubSeq(met, p.num + 1, top.num - 1) \o << met[top.num] >> \o SubSeq(met, top.num + 1, r)
            = SubSeq(met, p.num + 1, r)
      <4>1. PICK b \in Nat : b + 1 = top.num /\ b = top.num - 1 /\ b + 2 = top.num + 1  BY <1>9
      <4>2. p.num + 1 \in Nat \ {0} /\ p.num + 1 <= b + 1 /\ b + 1 <= r /\ r \in Nat /\ r <= Len(met)
        <5>0. p.num \in Nat \ {0} /\ top.num \in Nat  BY <1>9, <2>9
        <5>1. PICK a \in Nat \ {0}, c \in Nat : a = p.num /\ c = top.num
          <6> HIDE DEF p, top
          <6> QED BY <5>0
        <5>2. a < c /\ c <= r /\ b + 1 = c  BY <1>9, <2>9, <4>1, <5>1
        <5>3. a + 1 \in Nat \ {0} /\ a + 1 <= b + 1 /\ b + 1 <= r  BY <5>2
        <5> HIDE DEF p, top
        <5> QED BY <1>1, <5>1, <5>3
      <4>3. SubSeq(met, p.num + 1, b) \o << met[b + 1] >> \o SubSeq(met, b + 2, r) = SubSeq(met, p.num + 1, r)
        <5> HIDE DEF p
        <5> QED BY <4>2, SubSeqJoin
      <4> QED BY <4>1, <4>3
    <3> QED BY <3>3, <3>4
  <2>11. ASSUME NEW j \in 1 .. e
         PROVE  Listing[<<met[after.path[j].num], after.path[j].next - 1>>]
                  = SubSeq(met, after.path[j].num + 1, EndOf(after, j))
    <3>1. CASE j = e
      <4>1. EndOf(after, j) = r  BY <2>1, <2>5, <3>1 DEF EndOf
      <4>2. after.path[j].num = p.num /\ after.path[j].next - 1 = p.next
        <5>1. after.path[j].num = p.num /\ after.path[j].next = p.next + 1  BY <2>6, <3>1
        <5>2. p.next \in Nat  BY <2>9
        <5>3. PICK a \in Nat : a = p.next
          <6> HIDE DEF p
          <6> QED BY <5>2
        <5>4. after.path[j].next = a + 1
          <6> HIDE DEF p
          <6> QED BY <5>1, <5>3
        <5>5. after.path[j].next - 1 = a  BY <5>4
        <5> HIDE DEF p
        <5> QED BY <5>1, <5>3, <5>5
      <4> QED BY <2>10, <4>1, <4>2
    <3>2. CASE j # e
      <4>1. j + 1 \in 1 .. e /\ j \in 1 .. d /\ j # d  BY <2>2, <3>2
      <4>2. EndOf(after, j) = after.path[j + 1].num - 1  BY <2>5, <3>2 DEF EndOf
      <4>3. EndOf(after, j) = EndOf(m, j)  BY <1>7, <2>8, <4>1, <4>2
      <4> QED BY <1>6, <2>7, <3>2, <4>1, <4>3
    <3> QED BY <3>1, <3>2
  <2> QED BY <2>5, <2>11 DEF ListedOK
<1> QED BY <1>11, <1>12, <1>13, <1>14

\* At every moment of the recursion.
LEMMA ListedAlways ==
  ASSUME tree \in Trees, NEW met, NEW walk, Walk(met, walk)
  PROVE  \A k \in 1 .. Len(walk) : ListedOK(met, walk[k])
<1>1. /\ met \in Seq(Nodes) /\ Len(met) \in Nat \ {0} /\ met[1] = 1
      /\ walk \in Seq(Moments) /\ Len(walk) \in Nat \ {0}
      /\ walk[1] = [path |-> << [num |-> 1, next |-> 1] >>, read |-> 1]
  BY DEF Walk
<1>2. ListedOK(met, walk[1])
  <2> DEFINE first == walk[1]
  <2>1. /\ Len(first.path) = 1 /\ first.path[1].num = 1 /\ first.path[1].next = 1 /\ first.read = 1
    <3>1. first.path = << [num |-> 1, next |-> 1] >> /\ first.read = 1  BY <1>1
    <3> QED BY <3>1
  <2> HIDE DEF first
  <2>2. EndOf(first, 1) = 1  BY <2>1 DEF EndOf
  <2>3. 1 \in Nodes /\ <<1, 0>> = <<1, 1 - 1>>  BY TreeFacts
  <2>4. Listing[<<1, 0>>] = <<>>  BY <2>3, ListingAt
  <2>5. SubSeq(met, 1 + 1, 1) = <<>>
    <3>1. \A k \in 1 + 1 .. 1 : FALSE  OBVIOUS
    <3>2. SubSeq(met, 1 + 1, 1) \in Seq(Nodes) /\ Len(SubSeq(met, 1 + 1, 1)) = 0  BY <1>1, <3>1
    <3> QED BY <3>2
  <2>6. ASSUME NEW j \in 1 .. Len(first.path)
        PROVE  Listing[<<met[first.path[j].num], first.path[j].next - 1>>]
                 = SubSeq(met, first.path[j].num + 1, EndOf(first, j))
    <3>1. j = 1  BY <2>1
    <3> QED BY <1>1, <2>1, <2>2, <2>3, <2>4, <2>5, <3>1
  <2>7. ListedOK(met, first)  BY <2>6 DEF ListedOK
  <2> QED BY <2>7 DEF first
<1>3. ASSUME NEW k \in 1 .. Len(walk) - 1, ListedOK(met, walk[k])
      PROVE  ListedOK(met, walk[k + 1])
  <2>1. k \in 1 .. Len(walk) /\ k + 1 \in 1 .. Len(walk)  BY <1>1
  <2>2. /\ walk[k] \in Moments /\ walk[k + 1] \in Moments
        /\ MomentOK(met, walk[k]) /\ MomentOK(met, walk[k + 1])
        /\ walk[k].path # <<>> /\ walk[k + 1] = AfterMoment(met, walk[k])
        /\ Visiting(met, walk[k]) => met[walk[k].read + 1] = ChildAt(met, walk[k])
    BY <1>1, <2>1 DEF Walk
  <2>3. Visiting(met, walk[k]) => walk[k].read + 1 <= Len(met)
    <3>1. Visiting(met, walk[k]) => walk[k + 1].read = walk[k].read + 1  BY <2>2 DEF AfterMoment
    <3> QED BY <2>2, <3>1 DEF MomentOK
  <2> DEFINE m == walk[k]
             after == walk[k + 1]
  <2>4. /\ m \in Moments /\ m.path # <<>> /\ MomentOK(met, m) /\ ListedOK(met, m)
        /\ Visiting(met, m) => m.read + 1 <= Len(met) /\ met[m.read + 1] = ChildAt(met, m)
        /\ after = AfterMoment(met, m)
    BY <1>3, <2>2, <2>3
  <2>5. ListedOK(met, after)
    <3> HIDE DEF m, after
    <3> QED BY <1>1, <2>4, ListedAfter
  <2> QED BY <2>5
<1> DEFINE Bad == { k \in 1 .. Len(walk) : ~ ListedOK(met, walk[k]) }
<1>4. SUFFICES ASSUME Bad # {} PROVE FALSE  OBVIOUS
<1>5. Bad \subseteq Nat  OBVIOUS
<1>6. PICK x \in Bad : \A y \in Bad : x <= y
  <2> HIDE DEF Bad
  <2> QED BY <1>4, <1>5, LeastNat
<1>7. x \in 1 .. Len(walk) /\ ~ ListedOK(met, walk[x])  OBVIOUS
<1>8. x # 1  BY <1>2, <1>7
<1>9. PICK k \in 1 .. Len(walk) - 1 : x = k + 1
  <2>1. x - 1 \in 1 .. Len(walk) - 1 /\ x = (x - 1) + 1  BY <1>1, <1>7, <1>8
  <2> QED BY <2>1
<1>10. k \in 1 .. Len(walk) /\ ~ x <= k  BY <1>1, <1>9
<1>11. k \notin Bad
  <2> HIDE DEF Bad
  <2> QED BY <1>6, <1>10
<1>12. ListedOK(met, walk[k])  BY <1>10, <1>11
<1> QED BY <1>3, <1>7, <1>9, <1>12

\* In the end.
LEMMA TreeRebuiltInv == TraverseInv => TreeRebuilt
<1> SUFFICES ASSUME TraverseInv, pc = "done"
             PROVE  /\ position = Start(Len(sections))
                    /\ built = [n \in 1 .. Len(Listing[<<1, Len(Children(1))>>]) |->
                                  FileOf(Listing[<<1, Len(Children(1))>>][n])]
  BY Zenon DEF TreeRebuilt, FileOf
<1>1. tree \in Trees  BY DEF TraverseInv
<1>2. PICK met, walk, k, m, after :
           /\ Walk(met, walk) /\ met \in Seq(Nodes) /\ Len(met) \in Nat \ {0} /\ Stored(sections, met, <<>>)
           /\ Top(walk).path = <<>> /\ calls = <<>> /\ Len(sections) = CountAt(Len(met)) + 1
           /\ Frames(met, m) /\ (Entering(met, m) \/ ReadingChild(met, m) \/ Between(met, m))
           /\ m \in Moments /\ MomentOK(met, m) /\ m.path # <<>> /\ m.path \in Seq(PathFrames)
           /\ m.read \in Nat \ {0} /\ m.read <= Len(met) /\ Len(m.path) \in Nat \ {0}
           /\ m = walk[k] /\ after = AfterMoment(met, m) /\ MomentOK(met, after) /\ after \in Moments
           /\ Visiting(met, m) => m.read + 1 <= Len(met) /\ met[m.read + 1] = ChildAt(met, m)
           /\ after.path # <<>> => k + 1 \in 1 .. Len(walk) - 1 /\ after = walk[k + 1]
           /\ k \in 1 .. Len(walk) - 1
  BY BuilderFacts
<1>3. Between(met, m)  BY <1>2 DEF Entering, ReadingChild
<1>4. position = Start(DentryAt(m.read + 1)) /\ Len(m.path) = 1 /\ ~ Visiting(met, m)
  BY <1>3 DEF Between
<1>5. m.read = Len(met)
  <2>1. /\ walk \in Seq(Moments) /\ Len(walk) \in Nat \ {0} /\ Top(walk).read = Len(met)
        /\ \A j \in 1 .. Len(walk) - 1 : walk[j].path # <<>> /\ walk[j + 1] = AfterMoment(met, walk[j])
    <3>1. Walk(met, walk)  BY <1>2
    <3> QED BY <3>1 DEF Walk
  <2>2. after.path = <<>> /\ after.read = m.read  BY <1>2, <1>4 DEF AfterMoment
  <2>3. walk[k + 1] = after  BY <1>2, <2>1
  <2>4. ~ k + 1 \in 1 .. Len(walk) - 1  BY <2>1, <2>2, <2>3
  <2>5. k + 1 = Len(walk)  BY <1>2, <2>1, <2>4
  <2>6. Top(walk) = after  BY <2>3, <2>5 DEF Top
  <2> QED BY <2>1, <2>2, <2>6
<1>6. PICK count \in Nat : Len(met) = count + 1
  <2>1. Len(met) - 1 \in Nat /\ Len(met) = (Len(met) - 1) + 1  BY <1>2
  <2> QED BY <2>1
<1>7. position = Start(Len(sections))
  <2>1. DentryAt(m.read + 1) = Len(sections)  BY <1>2, <1>5, <1>6 DEF DentryAt, CountAt
  <2> QED BY <1>4, <2>1
<1>8. met[1] = 1  BY <1>2 DEF Walk
<1> DEFINE files == Listing[<<1, Len(Children(1))>>]
<1>9. files = SubSeq(met, 2, count + 1)
  <2>1. ListedOK(met, m)
    <3>1. Len(walk) \in Nat /\ k \in 1 .. Len(walk)  BY <1>2 DEF Walk
    <3>2. \A j \in 1 .. Len(walk) : ListedOK(met, walk[j])  BY <1>1, <1>2, ListedAlways
    <3> QED BY <1>2, <3>1, <3>2
  <2>2. m.path[1].num = 1  BY <1>2 DEF MomentOK
  <2>3. m.path[1].next - 1 = Len(Children(1))
    <3>1. Top(m.path) = m.path[1] /\ Top(m.path).next = Len(Children(met[Top(m.path).num])) + 1
      BY <1>1, <1>2, <1>4, MomentFacts
    <3>2. m.path[1].next = Len(Children(1)) + 1  BY <1>8, <2>2, <3>1
    <3>3. Len(Children(1)) \in Nat  BY <1>1, TreeFacts
    <3> QED BY <3>2, <3>3
  <2>4. EndOf(m, 1) = count + 1  BY <1>4, <1>5, <1>6 DEF EndOf
  <2>5. Listing[<<met[m.path[1].num], m.path[1].next - 1>>] = SubSeq(met, m.path[1].num + 1, EndOf(m, 1))
    BY <1>4, <2>1 DEF ListedOK
  <2> QED BY <1>8, <2>2, <2>3, <2>4, <2>5
<1>10. Len(files) = count /\ \A n \in 1 .. count : files[n] = met[n + 1]
  <2>1. \A j \in 2 .. count + 1 : met[j] \in Nodes  BY <1>2, <1>6
  <2>2. Len(SubSeq(met, 2, count + 1)) = count  BY <1>2, <1>6, <2>1
  <2>3. \A n \in 1 .. count : SubSeq(met, 2, count + 1)[n] = met[n + 1]  BY <1>2, <1>6, <2>1
  <2> HIDE DEF files
  <2> QED BY <1>9, <2>2, <2>3
<1>11. /\ built \in Seq(Files) /\ Len(built) = count
       /\ \A n \in 1 .. count : built[n] = FileOf(met[n + 1])
  BY <1>2, <1>5, <1>6 DEF Frames
<1>12. built = [n \in 1 .. Len(files) |-> FileOf(files[n])]
  <2> HIDE DEF files
  <2>1. built = [n \in 1 .. count |-> built[n]]  BY <1>11
  <2>2. \A n \in 1 .. count : built[n] = FileOf(files[n])  BY <1>10, <1>11
  <2>3. [n \in 1 .. count |-> built[n]] = [n \in 1 .. count |-> FileOf(files[n])]  BY <2>2, Zenon
  <2> QED BY <1>10, <2>1, <2>3
<1> QED BY <1>7, <1>12

\* When the builder is done, it has every file of the tree once, in the order
\* of the recursion, with its own entry, name and extents, and nothing of the
\* stream is left.
THEOREM TreeIsRebuilt == TraversalSpec => []TreeRebuilt
BY TreeRebuiltInv, TraversalInvariance, PTL
=============================================================================
