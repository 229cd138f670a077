--------------------------- MODULE StreamArchiver ---------------------------
(***************************************************************************)
(* The stream archiver (stream-archiver.cpp): a list of pages, clusters    *)
(* from the allocator, into which metadata_reader.cpp writes the directory *)
(* tree and from which tree_builder.cpp reads it.  The format stores no    *)
(* types or sizes: the reader has to make the same moves in the pages as   *)
(* the writer did.  A stream is a small record that is copied freely;      *)
(* copies share the pages, the page links and the headers.                 *)
(*                                                                         *)
(* An element is identified by its address: reader and writer agree if     *)
(* they get the same addresses in the same order.                          *)
(***************************************************************************)
EXTENDS Naturals, Sequences

CONSTANTS PageSize,
          PageLink,       \* sizeof(Page)
          HeaderSize,     \* sizeof(StreamArchiver::Header)
          Sizes,          \* The sizes of the elements; one per section
          MaxPages, MaxSections   \* Bounds of the model

ASSUME StreamAssumption ==
  /\ PageSize \in Nat /\ PageLink \in Nat \ {0} /\ HeaderSize \in Nat \ {0}
  /\ Sizes \subseteq Nat \ {0}
  /\ \A s \in Sizes \cup {HeaderSize} : PageLink + s <= PageSize
  /\ MaxPages \in Nat \ {0} /\ MaxSections \in Nat \ {0}

VARIABLES next,           \* The next pointer of every page, 0 for NULL
          elementCount,   \* The count in every header, by address
          write_stream, read_stream,
          returned,       \* What the last read returned
          log, sizes,     \* History: the addresses handed out, by section,
                          \* and the size of each section's elements
          section         \* History: the section the reader is in

historyVars == <<log, sizes, section>>
vars == <<next, elementCount, write_stream, read_stream, returned, historyVars>>

NULL == <<>>
Unset == "unset"          \* A header's count before the cut

-----------------------------------------------------------------------------
(***************************************************************************)
(* A move of the stream over length units: to the given page if they do    *)
(* not fit into the current one.                                           *)
(***************************************************************************)
\* Mutated: the element has to fit, but its first unit may be the last.
FitsByStart(s, length) == s.offsetInPage < PageSize

Fits(s, length) == s.offsetInPage + length <= PageSize

Moved(s, page, length) ==
  IF Fits(s, length)
  THEN [s EXCEPT !.offsetInPage = @ + length]
  ELSE [s EXCEPT !.page = page, !.offsetInPage = PageLink + length]

\* The address the last move of s, by length units, returned.
Returned(s, length) == <<s.page, s.offsetInPage - length>>

NewPage == Len(next) + 1

\* The page links after an insertion: the page of the stream gets the new one.
Linked(s, length) ==
  IF Fits(s, length) THEN next ELSE Append([next EXCEPT ![s.page] = NewPage], 0)

\* Mutated: the reader turns the page where the writer does, one too far.
FollowedTwice(s) == IF next[next[s.page]] = 0 THEN next[s.page] ELSE next[next[s.page]]

\* The page the reader turns to.
Followed(s) == next[s.page]

-----------------------------------------------------------------------------
\* init_stream_archiver, whose cut allocates the first page, and the copy of
\* the stream main makes.
Init ==
  LET opened == [page |-> 1, offsetInPage |-> PageLink + HeaderSize, elementIndex |-> 0,
                 header |-> <<1, PageLink>>]
  IN  /\ next = <<0>>
      /\ elementCount = [a \in {opened.header} |-> Unset]
      /\ write_stream = opened /\ read_stream = opened
      /\ returned = NULL
      /\ log = << <<>> >> /\ sizes = <<0>>
      /\ section = 1

\* iterateStreamArchiver(stream, true, size): all elements of a section have
\* one size.
Insert(size) ==
  LET moved == Moved(write_stream, NewPage, size)
  IN  /\ sizes[Len(log)] \in {0, size}
      /\ Len(Linked(write_stream, size)) <= MaxPages
      /\ next' = Linked(write_stream, size)
      /\ write_stream' = [moved EXCEPT !.elementIndex = @ + 1]
      /\ log' = [log EXCEPT ![Len(log)] = Append(@, Returned(moved, size))]
      /\ sizes' = [sizes EXCEPT ![Len(log)] = size]
      /\ UNCHANGED <<elementCount, read_stream, returned, section>>

CountOf(s) == s.elementIndex

\* cutStreamArchiver: the count goes to the header, then comes a new header.
Cut ==
  LET moved  == Moved(write_stream, NewPage, HeaderSize)
      header == Returned(moved, HeaderSize)
  IN  /\ Len(log) < MaxSections
      /\ Len(Linked(write_stream, HeaderSize)) <= MaxPages
      /\ next' = Linked(write_stream, HeaderSize)
      /\ elementCount' = [a \in DOMAIN elementCount \cup {header} |->
                            IF a = write_stream.header THEN CountOf(write_stream)
                            ELSE IF a = header THEN Unset ELSE elementCount[a]]
      /\ write_stream' = [moved EXCEPT !.elementIndex = 0, !.header = header]
      /\ log' = Append(log, <<>>) /\ sizes' = Append(sizes, 0)
      /\ UNCHANGED <<read_stream, returned, section>>

\* traverse copies the stream before it writes the extents of a file.
CopyStream ==
  /\ log[Len(log)] = <<>>
  /\ read_stream' = write_stream
  /\ section' = Len(log)
  /\ UNCHANGED <<next, elementCount, write_stream, returned, log, sizes>>

-----------------------------------------------------------------------------
\* Callers read finished sections only, with the size they were written with
\* (any size to find an empty section empty).
Readable(size) == section < Len(log) /\ sizes[section] \in {0, size}

AtEnd == read_stream.elementIndex + 1 > elementCount[read_stream.header]

\* iterateStreamArchiver(stream, false, size) with an element left,
GetNext(size) ==
  LET moved == Moved(read_stream, Followed(read_stream), size)
  IN  /\ Readable(size)
      /\ ~ AtEnd
      /\ read_stream' = [moved EXCEPT !.elementIndex = @ + 1]
      /\ returned' = Returned(moved, size)
      /\ UNCHANGED <<next, elementCount, write_stream, historyVars>>

\* and at the end of the section: on to the next header.
GetNull(size) ==
  LET moved == Moved(read_stream, Followed(read_stream), HeaderSize)
  IN  /\ Readable(size)
      /\ AtEnd
      /\ read_stream' = [moved EXCEPT !.elementIndex = 0,
                                      !.header = Returned(moved, HeaderSize)]
      /\ returned' = NULL
      /\ section' = section + 1
      /\ UNCHANGED <<next, elementCount, write_stream, log, sizes>>

Write == Cut \/ \E size \in Sizes : Insert(size)
Read == \E size \in Sizes : GetNext(size) \/ GetNull(size)

Next == Write \/ CopyStream \/ Read

Spec == Init /\ [][Next]_vars

-----------------------------------------------------------------------------
\* Every pointer the reader gets is the one the writer got for that element,
\* across page boundaries and headers, in whatever section it was forked and
\* however far the writer has gone on.
Log == INSTANCE SectionLog
         WITH position <- [section |-> section, index |-> read_stream.elementIndex],
              got <- returned

ImplementsSectionLog == Log!LogSpec

\* The units of an address that holds length units.
Units(address, length) == { <<address[1], address[2] + k>> : k \in 0 .. length - 1 }

\* Pointers handed out stay valid (traverse counts the children of a directory
\* through one while it writes them): elements, headers and page links lie
\* inside their page and share no unit.
ElementsApart ==
  LET elements == { x \in (1 .. Len(log)) \X (1 .. MaxPages * PageSize) : x[2] <= Len(log[x[1]]) }
      U(x)     == Units(log[x[1]][x[2]], sizes[x[1]])
      headers  == DOMAIN elementCount
      units    == (1 .. Len(next)) \X (PageLink .. PageSize - 1)
  IN  /\ \A x \in elements : /\ U(x) \subseteq units
                             /\ \A y \in elements \ {x} : U(x) \cap U(y) = {}
                             /\ \A h \in headers : U(x) \cap Units(h, HeaderSize) = {}
      /\ \A h \in headers : /\ Units(h, HeaderSize) \subseteq units
                           /\ \A g \in headers \ {h} :
                                Units(g, HeaderSize) \cap Units(h, HeaderSize) = {}
=============================================================================
