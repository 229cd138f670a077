----------------------------- MODULE DirBuilder -----------------------------
(***************************************************************************)
(* The building of the ext4 directories (tree_builder.cpp): the entries of *)
(* a directory are packed into blocks, the clusters of the FAT directory   *)
(* first and then blocks from the allocator; a directory met on the way is *)
(* built before the next entry of its parent, from a stack of calls of     *)
(* build_ext4_metadata_tree.  Last comes lost+found.                       *)
(*                                                                         *)
(* Lengths are in units of four bytes, which next_multiple_of_four rounds  *)
(* to.  rec_len has 16 bits, so what is stored there is reduced modulo     *)
(* RecLenRange units; main goes on with blocks of up to 256 KiB, which are *)
(* longer than that.  allocate_extent(1) is that of FirstFit.              *)
(***************************************************************************)
EXTENDS ExtentIterator, Integers, FiniteSets, SequencesExt

CONSTANTS Trees,          \* The directory trees
          BlockSize,      \* block_size(), in units
          RecLenRange,    \* 2^16 bytes in units: rec_len is less
          Free            \* The blocks the allocator may grant

EXT4_DOT_DENTRY_SIZE == 3

(***************************************************************************)
(* A tree gives, by number, each directory:                                *)
(*   extents:  where its clusters are,                                     *)
(*   children: the sequence of [len, dir], the length of the entry and the *)
(*             number of the directory, 0 for a file.                      *)
(* The root directory is number 1, lost+found is number 0.                 *)
(***************************************************************************)
Root == 1
LostFound == 0

\* The names of entries that are not the number of a child.
DotName == 0
DotDotName == -1
LostFoundName == -2

ClustersOf(e) == e.physical_start .. e.physical_start + e.length - 1

\* The clusters of directory d: no cluster is in two extents, of one directory
\* or of two, and the allocator grants none of them.
SoundExtents(t, d) ==
  /\ t[d].extents \in Seq([physical_start : Nat \ {0}, length : Nat \ {0}])
  /\ \A k \in DOMAIN t[d].extents :
       /\ ClustersOf(t[d].extents[k]) \cap Free = {}
       /\ \A e \in DOMAIN t : \A j \in DOMAIN t[e].extents :
            ClustersOf(t[d].extents[k]) \cap ClustersOf(t[e].extents[j]) # {} => d = e /\ k = j

\* The entries of directory d: a directory comes after the one it is in, the
\* only one; its entries fit into a block, and their lengths, at most 264 bytes,
\* into rec_len.
SoundChildren(t, d) ==
  /\ t[d].children \in Seq([len : EXT4_DOT_DENTRY_SIZE .. BlockSize, dir : {0} \cup DOMAIN t])
  /\ \A k \in DOMAIN t[d].children : t[d].children[k].len < RecLenRange
  /\ \A k \in DOMAIN t[d].children :
       t[d].children[k].dir # 0 =>
         /\ d < t[d].children[k].dir
         /\ \A e \in DOMAIN t : \A j \in DOMAIN t[e].children :
              t[e].children[j].dir = t[d].children[k].dir => d = e /\ k = j
  /\ d # Root => \E e \in DOMAIN t : \E k \in DOMAIN t[e].children : t[e].children[k].dir = d

ASSUME DirBuilderAssumption ==
  /\ BlockSize \in Nat /\ BlockSize >= 2 * EXT4_DOT_DENTRY_SIZE
  /\ RecLenRange \in Nat /\ RecLenRange > EXT4_DOT_DENTRY_SIZE
  /\ Free \subseteq Nat \ {0} /\ IsFiniteSet(Free)
  /\ \A t \in Trees :
       /\ Root \in DOMAIN t /\ DOMAIN t \subseteq Nat \ {0}
       /\ \A d \in DOMAIN t : SoundExtents(t, d) /\ SoundChildren(t, d)

VARIABLES tree,
          stack,          \* The calls of build_ext4_metadata_tree, outermost first
          avail,
          written,        \* The entries of every block: [of, child, rec_len]
          registered,     \* Per directory, its blocks in logical order
          links,          \* i_links_count of every directory
          size,           \* The size of every directory, in blocks
          pc

vars == <<tree, stack, avail, written, registered, links, size, pc>>

Dirs == DOMAIN tree \cup {LostFound}

Top == stack[Len(stack)]

-----------------------------------------------------------------------------
(***************************************************************************)
(* next_dir_block: the next cluster of the FAT directory, or a new block;  *)
(* the program exits if there is none.  NoBlock stands for that.           *)
(***************************************************************************)
NoBlock == 0

\* Mutated: a directory that outgrew its clusters starts over with them.
BlockForStartsOver(exts, it) ==
  IF next_cluster_no(exts, it)[1] # 0 THEN next_cluster_no(exts, it)
  ELSE IF Len(exts) > 0 THEN next_cluster_no(exts, init(1))
  ELSE <<IF avail = {} THEN NoBlock ELSE Min(avail), it>>

BlockFor(exts, it) ==
  LET cluster == next_cluster_no(exts, it)
  IN  IF cluster[1] # 0 THEN cluster
      ELSE <<IF avail = {} THEN NoBlock ELSE Min(avail), cluster[2]>>

Dot(child) == [child |-> child, rec_len |-> EXT4_DOT_DENTRY_SIZE]

\* build_dot_dirs
DotDirs == << Dot(DotName), Dot(DotDotName) >>

\* What a store to rec_len keeps of a length.
uint16_t(len) == len % RecLenRange

Lengths(recs) == FoldLeft(LAMBDA sum, r : sum + r.rec_len, 0, recs)

\* Mutated: the last entry keeps its own length.
NotFilled(recs, position) == recs

\* The last entry of a block gets the rest of it.
Filled(recs, position) ==
  [recs EXCEPT ![Len(recs)].rec_len = uint16_t(@ + (BlockSize - position))]

\* A call of build_ext4_metadata_tree, up to its loop.
Call(d, block, it) ==
  [dir |-> d, block |-> block, iterator |-> it, i |-> 0,
   position_in_block |-> 2 * EXT4_DOT_DENTRY_SIZE, block_count |-> 1]

Put(f, k, v) == [x \in DOMAIN f \cup {k} |-> IF x = k THEN v ELSE f[x]]

-----------------------------------------------------------------------------
\* The inodes of the directories exist from build_inode on; the root counts
\* its two dot entries and that of lost+found.
Init ==
  /\ tree \in Trees
  /\ stack = <<>>
  /\ avail = Free
  /\ written = [b \in {} |-> <<>>]
  /\ registered = [d \in Dirs |-> <<>>]
  /\ links = [d \in Dirs |-> IF d = Root THEN 3 ELSE 2]
  /\ size = [d \in Dirs |-> 0]
  /\ pc = "call"

\* The directory to build next: the root, or the child just entered.
Callee ==
  IF stack = <<>> THEN Root ELSE tree[Top.dir].children[Top.i].dir

Enter ==
  LET next == BlockFor(tree[Callee].extents, init(1))
  IN  /\ pc = "call"
      /\ next[1] # NoBlock
      /\ avail' = avail \ {next[1]}
      /\ stack' = Append(stack, Call(Callee, next[1], next[2]))
      /\ written' = Put(written, next[1], DotDirs)
      /\ pc' = "loop"
      /\ UNCHANGED <<tree, registered, links, size>>

Fits(frame, len) == len <= BlockSize - frame.position_in_block

MoreChildren == Top.i < Len(tree[Top.dir].children)

\* Mutated: the link of the child's dot-dot entry is forgotten.
LinksUnchanged(d, child) == links

\* incr_links_count for the parent of a directory.
LinksAfter(d, child) == IF child = 0 THEN links ELSE [links EXCEPT ![d] = @ + 1]

\* An entry is put at position of a block; the call goes on with it, and with a
\* directory by calling itself.
Place(frame, recs, position, block, iterator, count) ==
  LET child == tree[frame.dir].children[frame.i + 1]
      rec   == [child |-> frame.i + 1, rec_len |-> child.len]
  IN  /\ written' = Put(IF block = frame.block THEN written
                        ELSE Put(written, frame.block,
                                 Filled(written[frame.block], frame.position_in_block)),
                        block, Append(recs, rec))
      /\ stack' = [stack EXCEPT ![Len(stack)] =
                     [frame EXCEPT !.block = block, !.iterator = iterator, !.i = @ + 1,
                                   !.position_in_block = position + child.len,
                                   !.block_count = count]]
      /\ links' = LinksAfter(frame.dir, child.dir)
      /\ pc' = IF child.dir = 0 THEN "loop" ELSE "call"

AddDentry ==
  /\ pc = "loop" /\ MoreChildren
  /\ Fits(Top, tree[Top.dir].children[Top.i + 1].len)
  /\ Place(Top, written[Top.block], Top.position_in_block, Top.block, Top.iterator,
           Top.block_count)
  /\ UNCHANGED <<tree, avail, registered, size>>

\* register_dir_extent for the current block of a call.
Registered(frame) == [registered EXCEPT ![frame.dir] = Append(@, frame.block)]

\* The entry does not fit: the block is filled up and registered, the entry
\* goes to the next one.
AddDentryInNextBlock ==
  LET next == BlockFor(tree[Top.dir].extents, Top.iterator)
  IN  /\ pc = "loop" /\ MoreChildren
      /\ ~ Fits(Top, tree[Top.dir].children[Top.i + 1].len)
      /\ next[1] # NoBlock
      /\ avail' = avail \ {next[1]}
      /\ registered' = Registered(Top)
      /\ Place(Top, <<>>, 0, next[1], next[2], Top.block_count + 1)
      /\ UNCHANGED <<tree, size>>

\* The end of build_ext4_metadata_tree, and the return to the parent.
Finish ==
  /\ pc = "loop" /\ ~ MoreChildren
  /\ written' = [written EXCEPT ![Top.block] = Filled(@, Top.position_in_block)]
  /\ registered' = Registered(Top)
  /\ size' = [size EXCEPT ![Top.dir] = Top.block_count]
  /\ stack' = SubSeq(stack, 1, Len(stack) - 1)
  /\ pc' = IF Len(stack) = 1 THEN "lost+found" ELSE "loop"
  /\ UNCHANGED <<tree, avail, links>>

\* "File system is too small": an allocation fails, in next_dir_block or in
\* build_lost_found.
Full ==
  /\ avail = {}
  /\ \/ pc = "call" /\ BlockFor(tree[Callee].extents, init(1))[1] = NoBlock
     \/ /\ pc = "loop" /\ MoreChildren
        /\ ~ Fits(Top, tree[Top.dir].children[Top.i + 1].len)
        /\ BlockFor(tree[Top.dir].extents, Top.iterator)[1] = NoBlock
     \/ pc \in {"lost+found", "lost+found dir"}
  /\ pc' = "exited"
  /\ UNCHANGED <<tree, stack, avail, written, registered, links, size>>

-----------------------------------------------------------------------------
\* build_lost_found: a block of the root for its entry,
ExtendRoot ==
  /\ pc = "lost+found"
  /\ avail # {}
  /\ avail' = avail \ {Min(avail)}
  /\ written' = Put(written, Min(avail), << [child |-> LostFoundName, rec_len |-> uint16_t(BlockSize)] >>)
  /\ registered' = [registered EXCEPT ![Root] = Append(@, Min(avail))]
  /\ size' = [size EXCEPT ![Root] = @ + 1]
  /\ pc' = "lost+found dir"
  /\ UNCHANGED <<tree, stack, links>>

\* and its own block, with dot-dot up to the end.
BuildLostFound ==
  /\ pc = "lost+found dir"
  /\ avail # {}
  /\ avail' = avail \ {Min(avail)}
  /\ written' = Put(written, Min(avail),
                    << Dot(DotName),
                       [child |-> DotDotName, rec_len |-> uint16_t(BlockSize - EXT4_DOT_DENTRY_SIZE)] >>)
  /\ registered' = [registered EXCEPT ![LostFound] = Append(@, Min(avail))]
  /\ size' = [size EXCEPT ![LostFound] = 1]
  /\ pc' = "done"
  /\ UNCHANGED <<tree, stack, links>>

Stopped == pc \in {"done", "exited"} /\ UNCHANGED vars

Next ==
  \/ Enter \/ AddDentry \/ AddDentryInNextBlock \/ Finish \/ Full
  \/ ExtendRoot \/ BuildLostFound \/ Stopped

Spec == Init /\ [][Next]_vars

-----------------------------------------------------------------------------
Blocks(d) == { registered[d][k] : k \in DOMAIN registered[d] }

\* A block being filled holds its entries up to position_in_block, which stays
\* inside it.
InsideBlock ==
  \A k \in DOMAIN stack :
    /\ stack[k].position_in_block <= BlockSize
    /\ Lengths(written[stack[k].block]) = stack[k].position_in_block

\* A block handed to an inode is a chain of entries from its start exactly to
\* its end, each at least as long as its name needs: what e2fsck and the kernel
\* require, in blocks that were filled up before and after a subdirectory.
\* Until then what build_ext4_metadata_tree writes stays inside the block.
\* Blocks whose length rec_len cannot hold, of 64 KiB and more, are left out:
\* there the length of lost+found's entry wraps, to zero for every one of them.
BlocksAreChains ==
  /\ InsideBlock
  /\ BlockSize < RecLenRange => \A d \in Dirs : \A b \in Blocks(d) :
       /\ Lengths(written[b]) = BlockSize
       /\ \A k \in DOMAIN written[b] :
            written[b][k].rec_len >=
              (IF written[b][k].child > 0 THEN tree[d].children[written[b][k].child].len
               ELSE EXT4_DOT_DENTRY_SIZE)

\* No block belongs to two directories, or twice to one, whether it was a
\* cluster of the FAT directory or came from the allocator.
BlocksHaveOneOwner ==
  /\ \A d, e \in Dirs : \A j \in DOMAIN registered[d], k \in DOMAIN registered[e] :
       registered[d][j] = registered[e][k] => d = e /\ j = k
  /\ \A j, k \in DOMAIN stack : stack[j].block = stack[k].block => j = k
  /\ \A d \in Dirs : \A k \in DOMAIN stack : stack[k].block \notin Blocks(d)

\* At the end every directory lists its children once and in order after the
\* dot entries, the root lost+found besides; sizes and link counts agree.
DirectoriesComplete ==
  pc = "done" => \A d \in Dirs :
    LET entries == FlattenSeq([k \in DOMAIN registered[d] |-> written[registered[d][k]]])
        names   == [k \in DOMAIN entries |-> entries[k].child]
        count   == IF d = LostFound THEN 0 ELSE Len(tree[d].children)
        subdirs == IF d = LostFound THEN 0
                   ELSE Cardinality({ k \in 1 .. count : tree[d].children[k].dir # 0 })
    IN  /\ names = <<DotName, DotDotName>> \o [k \in 1 .. count |-> k]
                     \o (IF d = Root THEN <<LostFoundName>> ELSE <<>>)
        /\ size[d] = Len(registered[d])
        /\ links[d] = 2 + subdirs + (IF d = Root THEN 1 ELSE 0)
=============================================================================
