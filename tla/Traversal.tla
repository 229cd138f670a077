------------------------------ MODULE Traversal ------------------------------
(***************************************************************************)
(* The hand-over of the directory tree from traverse (metadata_reader.cpp) *)
(* to build_ext4_metadata_tree (tree_builder.cpp) through one stream.      *)
(* The two recursions are stacks of frames.  The stream is a sequence of     *)
(* sections (SectionLog, which StreamArchiver implements); it has no       *)
(* types, so an element is tagged with what was written: its type, the     *)
(* file it is of and a value.  Both sides also fork the stream to read the *)
(* extents of a directory while the main stream has gone on.               *)
(***************************************************************************)
EXTENDS Integers, Sequences, FiniteSetsExt

CONSTANT Trees     \* Records: children of every node, is_dir, extents, parts; root is 1

\* What a consistent FAT holds: numbered from the root downwards, no file has
\* itself below it.
ASSUME TreeAssumption ==
  \A t \in Trees : \E count \in DOMAIN t.is_dir :
    /\ count \in Nat \ {0} /\ t.is_dir \in [1 .. count -> BOOLEAN] /\ t.is_dir[1]
    /\ t.extents \in [1 .. count -> Nat] /\ t.parts \in [1 .. count -> Nat]
    /\ t.children \in [1 .. count -> Seq(1 .. count)]
    /\ \A node \in 1 .. count : \A n \in 1 .. Len(t.children[node]) : t.children[node][n] > node

VARIABLES tree,
          sections,       \* The sections of the stream; the last one is still open
          calls,          \* traverse: a frame per directory being read
          position,       \* [section, index]: the builder's position
          builds,         \* build_ext4_metadata_tree: a frame per directory
          got, asked,     \* The last element read, and what the code took it for
          built,          \* What the builder made of every file
          pc

traversalVars == <<tree, sections, calls, position, builds, got, asked, built, pc>>

Element(type, of, n) == [type |-> type, of |-> of, n |-> n]
NullElement == Element("null", 0, 0)
Garbage == Element("garbage", 0, 0)

Nodes == DOMAIN tree.is_dir
Top(stack) == stack[Len(stack)]
Pop(stack) == SubSeq(stack, 1, Len(stack) - 1)
WithTop(stack, frame) == [stack EXCEPT ![Len(stack)] = frame]
Start(section) == [section |-> section, index |-> 0]

-----------------------------------------------------------------------------
(***************************************************************************)
(* The stream.                                                             *)
(***************************************************************************)
\* Elements of one section, and the cut after them.
Section(lg, elements) == Append([lg EXCEPT ![Len(lg)] = elements], <<>>)

\* getNext: the element, NullElement at the end of a section, which is passed; the
\* header of a section that is not cut yet has no count.
NextElement(at) ==
  IF at.section >= Len(sections) THEN << Garbage, at >>
  ELSE IF at.index < Len(sections[at.section])
  THEN << sections[at.section][at.index + 1], [at EXCEPT !.index = @ + 1] >>
  ELSE << NullElement, Start(at.section + 1) >>

ExtentsOf(node) == [n \in 1 .. tree.extents[node] |-> Element("extent", node, n)]
NameOf(node) == [n \in 1 .. tree.parts[node] |-> Element("name", node, n)]

\* An iterator (extent_iterator.cpp) reads its fork until it gets NullElement.
Iterator(at) == [stream |-> at, current |-> Element("none", 0, 0)]

\* Mutated: at the end of the extents the iterator starts again.
AdvancedAround(iterator) ==
  LET next == NextElement(iterator.stream)
      from == IF next[1] = NullElement THEN NextElement(Start(iterator.stream.section)) ELSE next
  IN  [stream |-> from[2], current |-> from[1]]

Advanced(iterator) ==
  IF iterator.current = NullElement THEN iterator
  ELSE LET next == NextElement(iterator.stream) IN [stream |-> next[2], current |-> next[1]]

-----------------------------------------------------------------------------
TraversalInit ==
  /\ tree \in Trees
  /\ sections = << <<>> >>
  /\ calls = <<>> /\ builds = <<>> /\ built = <<>>
  /\ position = Start(1)
  /\ got = NullElement /\ asked = "null"
  /\ pc = "main"

readerVars == <<position, builds, built>>

\* A frame of traverse: the section of its children_count, the next child.
Frame(dir, at) == [dir |-> dir, iterator |-> Iterator(at), count |-> 0, next |-> 1]

\* main maps the extents of the root.
MapRoot ==
  /\ pc = "main"
  /\ sections' = Section(sections, ExtentsOf(1))
  /\ calls' = << Frame(1, Start(1)) >>
  /\ pc' = "traverse"
  /\ UNCHANGED <<tree, readerVars, got, asked>>

\* Entry of traverse: the count is reserved, the iterator reads an extent.
EnterTraverse ==
  LET frame == Top(calls)
      first == Advanced(frame.iterator)
  IN  /\ pc = "traverse"
      /\ sections' = Section(sections, << Element("count", frame.dir, 0) >>)
      /\ calls' = WithTop(calls, [frame EXCEPT !.count = Len(sections), !.iterator = first])
      /\ got' = first.current /\ asked' = "extent"
      /\ pc' = "visit"
      /\ UNCHANGED <<tree, readerVars>>

Children(dir) == tree.children[dir]

\* The extent of the directory that holds the entry of its next child.
ExtentOfNext(frame) == Min({frame.next, tree.extents[frame.dir]})

AllVisited(frame) == frame.next > Len(Children(frame.dir))

\* next_dentry leaves an extent, for the next child, or because the table has
\* no end marker.
NextExtent ==
  LET frame == Top(calls)
      next  == Advanced(frame.iterator)
  IN  /\ pc = "visit"
      /\ frame.iterator.current # NullElement
      /\ AllVisited(frame) \/ frame.iterator.current.n < ExtentOfNext(frame)
      /\ calls' = WithTop(calls, [frame EXCEPT !.iterator = next])
      /\ got' = next.current /\ asked' = "extent"
      /\ UNCHANGED <<tree, sections, readerVars, pc>>

\* Mutated: the count in the stream stays zero.
CountedNowhere(lg, frame) == lg

\* (*children_count)++, through the pointer into the stream.
Counted(lg, frame) == [lg EXCEPT ![frame.count][1].n = @ + 1]

\* Mutated: the recursion is handed the stream of the root.
ForkOfRoot(lg) == Start(1)

\* read_extent_stream = *write_stream
ForkFor(lg) == Start(Len(lg))

\* Dentry, name and extents of the next child; then -1 for a file, and the
\* recursion for a directory.
VisitChild ==
  LET frame == Top(calls)
      node  == Children(frame.dir)[frame.next]
      named == Section(Section(sections, << Element("dentry", node, 0) >>), NameOf(node))
      mapped == Section(named, ExtentsOf(node))
  IN  /\ pc = "visit"
      /\ ~ AllVisited(frame)
      /\ frame.iterator.current.n = ExtentOfNext(frame)
      /\ IF tree.is_dir[node]
           THEN /\ sections' = mapped
                /\ calls' = Append(calls, Frame(node, ForkFor(named)))
                /\ pc' = "traverse"
           ELSE /\ sections' = Counted(Section(mapped, << Element("count", node, -1) >>), frame)
                /\ calls' = WithTop(calls, [frame EXCEPT !.next = @ + 1])
                /\ UNCHANGED pc
      /\ UNCHANGED <<tree, readerVars, got, asked>>

\* traverse returns; the caller counts the directory.
ReturnFromTraverse ==
  /\ pc = "visit"
  /\ AllVisited(Top(calls))
  /\ IF Len(calls) = 1
       THEN pc' = "build" /\ calls' = <<>> /\ UNCHANGED sections
       ELSE LET frame == Top(Pop(calls))
            IN  /\ sections' = Counted(sections, frame)
                /\ calls' = WithTop(Pop(calls), [frame EXCEPT !.next = @ + 1])
                /\ UNCHANGED pc
  /\ UNCHANGED <<tree, readerVars, got, asked>>

-----------------------------------------------------------------------------
(***************************************************************************)
(* build_ext4_metadata_tree, one action per call of getNext.  The builder  *)
(* knows the tree only from what it reads: a frame has the number of       *)
(* children, and the file at hand.                                         *)
(***************************************************************************)
writerVars == <<tree, sections, calls>>

NoFile == [dentry |-> NullElement, name |-> <<>>, extents |-> <<>>]

\* Read an element the code takes for one of this type; on with it at label l,
\* or at label m if there is none.
ReadElement(type, l, m) ==
  /\ got' = NextElement(position)[1]
  /\ asked' = type
  /\ position' = NextElement(position)[2]
  /\ pc' = IF got' = NullElement THEN m ELSE l

\* Entry: the fork for the blocks of the directory, and its first extent.
EnterBuild ==
  LET first == Advanced(Iterator(position))
  IN  /\ pc = "build"
      /\ builds' = Append(builds, [iterator |-> first, child_count |-> 0, i |-> 0, file |-> NoFile])
      /\ got' = first.current /\ asked' = "extent"
      /\ pc' = "skip_dir_extents"
      /\ UNCHANGED <<writerVars, position, built>>

skip_dir_extents ==
  /\ pc = "skip_dir_extents"
  /\ ReadElement("extent", "skip_dir_extents", "child_count")
  /\ UNCHANGED <<writerVars, builds, built>>

ReadChildCount ==
  /\ pc = "child_count"
  /\ ReadElement("count", "cut_count", "cut_count")
  /\ builds' = WithTop(builds, [Top(builds) EXCEPT !.child_count = got'.n])
  /\ UNCHANGED <<writerVars, built>>

\* Mutated: the cut after the dentry is not consumed.
CutOfDentryLeft == pc' = "name" /\ UNCHANGED <<position, got, asked>>

CutOfDentry == ReadElement("dentry", "name", "name")

ConsumeCut ==
  /\ \/ pc = "cut_count" /\ ReadElement("count", "child", "child")
     \/ pc = "cut_dentry" /\ CutOfDentry
  /\ UNCHANGED <<writerVars, builds, built>>

ReadDentry ==
  /\ pc = "child"
  /\ Top(builds).i < Top(builds).child_count
  /\ ReadElement("dentry", "cut_dentry", "cut_dentry")
  /\ builds' = WithTop(builds, [Top(builds) EXCEPT !.file = [NoFile EXCEPT !.dentry = got']])
  /\ UNCHANGED <<writerVars, built>>

\* build_dentry reads the name to its NullElement.
ReadName ==
  /\ pc = "name"
  /\ ReadElement("name", "name", "place")
  /\ builds' = IF got' = NullElement THEN builds
               ELSE WithTop(builds, [Top(builds) EXCEPT !.file.name = Append(@, got')])
  /\ UNCHANGED <<writerVars, built>>

is_dir(dentry) == dentry.of \in Nodes /\ tree.is_dir[dentry.of]

WithFile(frame) == Append(built, frame.file)

\* The entry is placed, in the block at hand or in the next one, whose cluster
\* may be in the next extent of the fork.  A directory is built at once.
PlaceDentry ==
  LET frame == Top(builds)
      dir   == is_dir(frame.file.dentry)
  IN  /\ pc = "place"
      /\ \E iterator \in {frame.iterator, Advanced(frame.iterator)} :
           /\ builds' = WithTop(builds, [frame EXCEPT !.iterator = iterator])
           /\ got' = iterator.current /\ asked' = "extent"
      /\ pc' = IF dir THEN "build" ELSE "set_extents"
      /\ built' = IF dir THEN WithFile(frame) ELSE built
      /\ UNCHANGED <<writerVars, position>>

set_extents ==
  /\ pc = "set_extents"
  /\ ReadElement("extent", "set_extents", "skip_child_count")
  /\ builds' = IF got' = NullElement THEN builds
               ELSE WithTop(builds, [Top(builds) EXCEPT !.file.extents = Append(@, got')])
  /\ UNCHANGED <<writerVars, built>>

skip_child_count ==
  /\ pc = "skip_child_count"
  /\ ReadElement("count", "skip_child_count", "child")
  /\ IF got' = NullElement
       THEN /\ builds' = WithTop(builds, [Top(builds) EXCEPT !.i = @ + 1])
            /\ built' = WithFile(Top(builds))
       ELSE UNCHANGED <<builds, built>>
  /\ UNCHANGED writerVars

ReturnFromBuild ==
  /\ pc = "child"
  /\ Top(builds).i >= Top(builds).child_count
  /\ IF Len(builds) = 1 THEN pc' = "done" /\ UNCHANGED builds
     ELSE /\ builds' = WithTop(Pop(builds), [Top(Pop(builds)) EXCEPT !.i = @ + 1])
          /\ UNCHANGED pc
  /\ UNCHANGED <<writerVars, position, built, got, asked>>

Done == pc = "done" /\ UNCHANGED traversalVars

Work ==
  \/ MapRoot \/ EnterTraverse \/ NextExtent \/ VisitChild \/ ReturnFromTraverse
  \/ EnterBuild \/ skip_dir_extents \/ ReadChildCount \/ ConsumeCut \/ ReadDentry \/ ReadName
  \/ PlaceDentry \/ set_extents \/ skip_child_count \/ ReturnFromBuild

TraversalNext == Work \/ Done

TraversalSpec == TraversalInit /\ [][TraversalNext]_traversalVars /\ WF_traversalVars(Work)

-----------------------------------------------------------------------------
\* Whatever is read from the stream was written as what the reader takes it
\* for: no section is entered in its middle, skipped, or read before its cut.
ReadAsWritten == got = NullElement \/ got.type = asked

\* The iterators over the extents of a directory, of the reading half while
\* the stream grows and of the building half while it is read on, never leave
\* the extents of their directory, not even after the last of them.
OwnExtents ==
  /\ \A k \in 1 .. Len(calls) :
       calls[k].iterator.current.type = "extent" => calls[k].iterator.current.of = calls[k].dir
  /\ \A k \in 1 .. Len(builds) :
       builds[k].iterator.current.type = "extent" =>
         builds[k].iterator.current.of = IF k = 1 THEN 1 ELSE builds[k-1].file.dentry.of

\* The files of the first at[2] children of the directory at[1], each before
\* what is below it: the order of the recursion.
Listing[at \in UNION { {dir} \X (0 .. Len(Children(dir))) : dir \in Nodes }] ==
  LET child == Children(at[1])[at[2]]
  IN  IF at[2] = 0 THEN <<>>
      ELSE Listing[<<at[1], at[2] - 1>>] \o << child >>
             \o IF tree.is_dir[child] THEN Listing[<<child, Len(Children(child))>>] ELSE <<>>

\* In the end the builder has every file once, in its directory, with its own
\* entry, all parts of its name and all extents, and has read the whole stream.
TreeRebuilt ==
  pc = "done" =>
    LET files == Listing[<<1, Len(Children(1))>>]
    IN  /\ position = Start(Len(sections))
        /\ built = [n \in 1 .. Len(files) |->
             [ dentry  |-> Element("dentry", files[n], 0),
               name    |-> NameOf(files[n]),
               extents |-> IF tree.is_dir[files[n]] THEN <<>> ELSE ExtentsOf(files[n]) ]]

\* Both recursions end.
TraversalEnds == pc = "main" ~> pc = "done"
=============================================================================
