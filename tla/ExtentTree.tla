----------------------------- MODULE ExtentTree -----------------------------
(***************************************************************************)
(* The extent trees of the new inodes (ext4_extent.cpp).  The root node is *)
(* in the inode; when it is full its entries move to a block of their own. *)
(* Files and directories register extents interleaved, since a directory   *)
(* registers its blocks between those of its children; at the end          *)
(* build_lost_found appends one more block to the root directory, at the   *)
(* logical address its last extent gives.                                  *)
(*                                                                         *)
(* The effect on the block bitmaps is that of BlockGroups: a set of marked *)
(* blocks and a free count.  allocate_extent(1) is that of FirstFit: the   *)
(* first available block, or exit when there is none.                      *)
(***************************************************************************)
EXTENDS Integers, FiniteSets, SequencesExt

CONSTANTS Inodes,           \* Inodes of files and directories; numbers apart
                            \* from those of blocks
          RootMax,          \* Entries in the inode: 4
          BlockMax,         \* max_entries() of a block
          Payload,          \* The blocks of the files and directories
          Index             \* The blocks the allocator may grant

RootDir == 2                \* EXT4_ROOT_INODE
LostFoundInode == 11        \* EXT4_LOST_FOUND_INODE

ASSUME ExtentTreeAssumption ==
  /\ Inodes \subseteq Nat \ {0} /\ RootDir \in Inodes /\ LostFoundInode \notin Inodes
  /\ (Inodes \cup {LostFoundInode}) \cap (Payload \cup Index) = {}
  /\ RootMax \in Nat /\ BlockMax \in Nat /\ 2 <= RootMax /\ RootMax < BlockMax
  /\ Payload \subseteq Nat \ {0} /\ Index \subseteq Nat \ {0}
  /\ IsFiniteSet(Payload) /\ IsFiniteSet(Index)
  /\ Payload \cap Index = {}

VARIABLES nodes,            \* The nodes, by inode or block number
          i_blocks,         \* Per inode, in file system blocks
          marked,           \* The blocks marked in the block bitmaps
          free_blocks,      \* The sum of the free counts
          index_blocks,     \* The blocks the allocator has left
          block,            \* The one build_lost_found got last
          given,            \* Per inode, the extents registered so far
          tree_pc

treeVars == <<nodes, i_blocks, marked, free_blocks, index_blocks, block, given, tree_pc>>

AllInodes == Inodes \cup {LostFoundInode}

Entry(kind, logical, start, len) ==
  [kind |-> kind, logical |-> logical, start |-> start, len |-> len]

\* to_ext4_extent
Extent(logical, start, len) == Entry("extent", logical, start, len)

EmptyRoot == [depth |-> 0, max |-> RootMax, entries |-> <<>>]

ExtentBlocks(e) == e.start .. e.start + e.len - 1

TotalLength(exts) == FoldLeft(LAMBDA sum, e : sum + e.len, 0, exts)

TreeInit ==
  /\ nodes = [n \in AllInodes |-> EmptyRoot]
  /\ i_blocks = [n \in AllInodes |-> 0]
  /\ marked = {}
  /\ free_blocks = Cardinality(Payload \cup Index)
  /\ index_blocks = Index /\ block = 0
  /\ given = [n \in AllInodes |-> <<>>]
  /\ tree_pc = "tree"

-----------------------------------------------------------------------------
(***************************************************************************)
(* The walk down the last child of every level.                            *)
(***************************************************************************)
\* What an index slot points to once an extent was copied over it: no block.
Nowhere == 0

Child(nds, r) ==
  LET last == Last(nds[r].entries)
  IN  IF last.kind = "index" THEN last.start ELSE Nowhere

\* The nodes from the root of n to the level 0 block, root first.
Path(nds, n) ==
  LET p[level \in 1 .. nds[n].depth + 1] ==
        IF level = 1 THEN n
        ELSE IF p[level - 1] = Nowhere THEN Nowhere ELSE Child(nds, p[level - 1])
  IN  p

Broken(nds, n) == \E level \in DOMAIN Path(nds, n) : Path(nds, n)[level] = Nowhere

LevelsWithRoom(nds, n) ==
  { level \in DOMAIN Path(nds, n) :
      Len(nds[Path(nds, n)[level]].entries) < nds[Path(nds, n)[level]].max }

\* append_to_extent_tree when some level has room, the deepest one first.  At
\* level 0 the extent is appended.  Above, append_to_new_idx_path(depth, ...)
\* is to create a path of new blocks, but its loop from depth down to depth
\* never runs: the extent itself is copied to the given slot, which is that of
\* the last entry in use, and the number of entries stays.
AppendedTo(nds, n, e) ==
  LET deepest == Max(LevelsWithRoom(nds, n))
      r       == Path(nds, n)[deepest]
  IN  IF deepest = Len(Path(nds, n))
      THEN [nds EXCEPT ![r].entries = Append(@, e)]
      ELSE [nds EXCEPT ![r].entries[Len(nds[r].entries)] = e]

\* Mutated: the copy is one entry short.
DeepenedOneShort(nds, n, b) ==
  [r \in DOMAIN nds \cup {b} |->
     IF r = b THEN [nds[n] EXCEPT !.max = BlockMax, !.entries[RootMax] = Extent(0, 0, 0)]
     ELSE IF r = n THEN [nds[n] EXCEPT !.depth = @ + 1, !.entries = <<Entry("index", 0, b, 0)>>]
     ELSE nds[r]]

\* make_tree_deeper with block b: it becomes a copy of the root.
Deepened(nds, n, b) ==
  [r \in DOMAIN nds \cup {b} |->
     IF r = b THEN [nds[n] EXCEPT !.max = BlockMax]
     ELSE IF r = n THEN [nds[n] EXCEPT !.depth = @ + 1, !.entries = <<Entry("index", 0, b, 0)>>]
     ELSE nds[r]]

-----------------------------------------------------------------------------
\* Mutated: index blocks are not counted.
AccountOnlyExtent(n, e, idx) ==
  /\ i_blocks' = [i_blocks EXCEPT ![n] = @ + e.len]
  /\ marked' = marked \cup ExtentBlocks(e)
  /\ free_blocks' = free_blocks - e.len

\* The end of register_extent, for the extent and the index blocks it took.
Account(n, e, idx) ==
  /\ i_blocks' = [i_blocks EXCEPT ![n] = @ + e.len + Cardinality(idx)]
  /\ marked' = marked \cup ExtentBlocks(e) \cup idx
  /\ free_blocks' = free_blocks - e.len - Cardinality(idx)

\* register_extent(e, n) when the tree has room.
RegisterInTree(n, e) ==
  /\ ~ Broken(nodes, n)
  /\ LevelsWithRoom(nodes, n) # {}
  /\ nodes' = AppendedTo(nodes, n, e)
  /\ Account(n, e, {})
  /\ given' = [given EXCEPT ![n] = Append(@, e)]

\* register_extent(e, n) when the tree is full: add_extent adds a level in the
\* block allocate_extent(1) grants, and tries again.
RegisterDeeper(n, e) ==
  LET b      == Min(index_blocks)
      deeper == Deepened(nodes, n, b)
  IN  /\ ~ Broken(nodes, n)
      /\ LevelsWithRoom(nodes, n) = {}
      /\ index_blocks # {}
      /\ index_blocks' = index_blocks \ {b}
      /\ nodes' = IF LevelsWithRoom(deeper, n) # {} THEN AppendedTo(deeper, n, e) ELSE deeper
      /\ Account(n, e, {b})
      /\ given' = [given EXCEPT ![n] = Append(@, e)]

Fail(n) ==
  /\ \/ /\ Broken(nodes, n)          \* Any block is taken for a node of the
        /\ tree_pc' = "astray"       \* tree: the model ends here
     \/ /\ ~ Broken(nodes, n)
        /\ LevelsWithRoom(nodes, n) = {}
        /\ index_blocks = {}         \* "File system is too small"
        /\ tree_pc' = "exited"
  /\ UNCHANGED <<nodes, i_blocks, marked, free_blocks, index_blocks, given>>

-----------------------------------------------------------------------------
\* The next extent of file or directory n: the logical address goes on where
\* the last one ended, the blocks are the next of the payload.
NextExtent(n, len) ==
  Extent(TotalLength(given[n]), Min(Payload \ marked), len)

\* set_extents and register_dir_extent: one extent of some inode.
register_extent ==
  /\ tree_pc = "tree"
  /\ \E n \in Inodes, len \in 1 .. 2 :
       /\ Payload \ marked # {}
       /\ ExtentBlocks(NextExtent(n, len)) \subseteq Payload \ marked
       /\ \/ RegisterInTree(n, NextExtent(n, len)) /\ UNCHANGED <<index_blocks, tree_pc>>
          \/ RegisterDeeper(n, NextExtent(n, len)) /\ UNCHANGED tree_pc
          \/ Fail(n)
  /\ UNCHANGED block

\* Mutated: the extent before the last one.
LastExtentNotLast(n) == nodes[Last(Path(nodes, n))].entries[1]

last_extent(n) == Last(nodes[Last(Path(nodes, n))].entries)

\* allocate_extent(1) in build_lost_found, on to label l.
Allocate(l) ==
  /\ IF index_blocks = {} THEN tree_pc' = "exited" /\ UNCHANGED <<index_blocks, block>>
     ELSE /\ tree_pc' = l /\ block' = Min(index_blocks)
          /\ index_blocks' = index_blocks \ {Min(index_blocks)}
  /\ UNCHANGED <<nodes, i_blocks, marked, free_blocks, given>>

\* build_lost_found, once the tree is built: a block for its entry in the root,
\* registered where the last extent of the root ends,
AllocateRootBlock == tree_pc = "tree" /\ given[RootDir] # <<>> /\ Allocate("root")

RegisterRootBlock ==
  LET last == last_extent(RootDir)
      e    == Extent(last.logical + last.len, block, 1)
  IN  /\ tree_pc = "root"
      /\ \/ RegisterInTree(RootDir, e) /\ tree_pc' = "directory" /\ UNCHANGED index_blocks
         \/ RegisterDeeper(RootDir, e) /\ tree_pc' = "directory"
         \/ Fail(RootDir)
      /\ UNCHANGED block

\* and a block for the directory itself.
AllocateDirBlock == tree_pc = "directory" /\ Allocate("lost+found")

RegisterDirBlock ==
  /\ tree_pc = "lost+found"
  /\ RegisterInTree(LostFoundInode, Extent(0, block, 1))
  /\ tree_pc' = "done"
  /\ UNCHANGED <<index_blocks, block>>

TreeStopped == tree_pc \in {"done", "exited", "astray"} /\ UNCHANGED treeVars

TreeNext ==
  \/ register_extent
  \/ AllocateRootBlock \/ RegisterRootBlock \/ AllocateDirBlock \/ RegisterDirBlock
  \/ TreeStopped

TreeSpec == TreeInit /\ [][TreeNext]_treeVars

-----------------------------------------------------------------------------
\* The extents that can be reached from the root of n.  The tree has at most
\* two levels: a root with an index never fills up.
Listed(n) ==
  IF nodes[n].depth = 0 THEN nodes[n].entries
  ELSE FoldLeft(LAMBDA acc, x : IF x.kind = "index" THEN acc \o nodes[x.start].entries ELSE acc,
                <<>>, nodes[n].entries)

\* Up to max_entries() extents, in the inode or moved to a block, the tree
\* lists the extents of a file in order, with no one lost or doubled.
TreeListsExtents ==
  \A n \in AllInodes : Len(given[n]) <= BlockMax => Listed(n) = given[n]

\* Every block of an extent or of a tree is marked once: the block bitmaps, the
\* free counts and i_blocks agree with the trees, and no block has two uses.
SpaceAccounted ==
  LET IndexOf(n) == { r \in DOMAIN nodes \ AllInodes :
                        \E k \in DOMAIN nodes[n].entries : nodes[n].entries[k].start = r }
      DataOf(n)  == UNION { ExtentBlocks(given[n][k]) : k \in DOMAIN given[n] }
  IN  /\ marked = (UNION { DataOf(n) : n \in AllInodes }) \cup (DOMAIN nodes \ AllInodes)
      /\ free_blocks = Cardinality(Payload \cup Index) - Cardinality(marked)
      /\ \A n \in AllInodes :
           Len(given[n]) <= BlockMax =>
             i_blocks[n] = Cardinality(DataOf(n)) + Cardinality(IndexOf(n))

\* The block of lost+found's entry does not lie over another block of the root
\* directory, nor leave a hole, wherever the last extent of it is stored.
RootDirContiguous ==
  tree_pc \in {"directory", "lost+found", "done"} =>
    \A k \in DOMAIN given[RootDir] :
      given[RootDir][k].logical = TotalLength(SubSeq(given[RootDir], 1, k - 1))

\* "All existing level 0 blocks are full, create a new one" (ext4_extent.cpp:81)
\* and "attempt adding extent again, should succeed this time" (:117): every
\* extent given to register_extent can be found in the tree.
FullBlocksAreFollowed ==
  \A n \in AllInodes : \A k \in DOMAIN given[n] :
    \E j \in DOMAIN Listed(n) : Listed(n)[j] = given[n][k]
=============================================================================
