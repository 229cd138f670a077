----------------------------- MODULE BlockGroups -----------------------------
(***************************************************************************)
(* The block groups of the new file system (ext4_bg.cpp): the descriptors  *)
(* with their counts, the two bitmaps of every group and the inode tables, *)
(* from init_ext4_group_descs, the first step that overwrites the FAT file *)
(* system, to the superblock copies of finalize_block_groups_on_disk.  In  *)
(* between, tree_builder.cpp adds inodes and marks extents.                *)
(***************************************************************************)
EXTENDS Geometry, FiniteSetsExt

CONSTANTS Layouts,        \* The superblock layouts
          BitsPerBlock,   \* 8 * block_size()
          CountRange,     \* 2^32 in the code: counts are kept modulo it
          IndexRange,     \* 2^16 in the code: the loop index of the sums has 16 bits
          Trees,          \* The kinds of the files, in the order build_inode sees them
          Extents         \* Pairs <<begin, end>> of blocks the tree builder may register

EXT4_ROOT_INODE == 2
EXT4_LOST_FOUND_INODE == 11
EXT4_FIRST_NON_RSV_INODE == 11

ASSUME CountRangeAssumption == CountRange \in Nat /\ CountRange > BitsPerBlock

ASSUME BitsAssumption == BitsPerBlock \in Nat

ASSUME IndexRangeAssumption == IndexRange \in Nat

\* The boot sector counts the sectors of the partition in 32 bits, and FAT32
\* has less than 2^28 clusters: about 33 thousand groups of blocks of 1 KiB.
ASSUME BlockGroupsAssumption ==
  \A g \in Layouts : /\ UsableLayout(g)
                     /\ HoldsMetadata(g)
                     /\ g.blocks_count < CountRange
                     /\ g.blocks_per_group <= BitsPerBlock
                     /\ g.inodes_per_group \in EXT4_FIRST_NON_RSV_INODE .. BitsPerBlock
                     /\ block_group_count(g) * g.inodes_per_group < CountRange
                     /\ block_group_count(g) < IndexRange

ASSUME TreesAssumption == Trees \subseteq Seq({"file", "dir"})

ASSUME ExtentsAssumption == \A e \in Extents : e \in Nat \X Nat /\ e[1] < e[2]

VARIABLES sb, tree,
          group_descs,          \* The counts of every descriptor, groups from 0
          block_bitmap,         \* Per group, the bits that are set
          inode_bitmap,
          inode_table,          \* What each inode written so far is
          first_free_inode_no,
          registered,           \* The extents registered so far
          totals,               \* s_free_blocks_count, s_free_inodes_count
          copies,               \* Per group, the totals in the superblock copy it holds
          pc, i                 \* The step of main, and its loop index

groupVars == <<group_descs, block_bitmap, inode_bitmap, inode_table>>
sumVars == <<totals, copies>>
vars == <<sb, tree, groupVars, first_free_inode_no, registered, sumVars, pc, i>>

Groups == 0 .. block_group_count(sb) - 1

\* Counts are 32 bits wide, kept in two halves of 16.
Wrap(n) == n % CountRange

\* bitmap_set_bits
set_bits(bitmap, begin, end) == bitmap \cup (begin .. end - 1)

block_group_block_count(num) ==
  Min({sb.blocks_per_group, Wrap(sb.blocks_count - block_group_start(sb, num))})

-----------------------------------------------------------------------------
Init ==
  /\ sb \in Layouts
  /\ tree \in Trees
  /\ group_descs = <<>> /\ block_bitmap = <<>> /\ inode_bitmap = <<>> /\ inode_table = <<>>
  /\ first_free_inode_no = EXT4_FIRST_NON_RSV_INODE + 1
  /\ registered = {}
  /\ totals = [blocks |-> 0, inodes |-> 0]
  /\ copies = <<>>
  /\ pc = "descs" /\ i = 0

Put(f, k, v) == [x \in DOMAIN f \cup {k} |-> IF x = k THEN v ELSE f[x]]

\* Mutated: the blocks after the end of the partition stay free in the bitmap.
BlockBitmapWithoutTail(num) == set_bits({}, 0, block_group_overhead(sb, num))

\* The bits of a new block bitmap: the metadata, and what the group lacks.
InitialBlockBitmap(num) ==
  set_bits(set_bits({}, 0, block_group_overhead(sb, num)),
           block_group_block_count(num), BitsPerBlock)

used_inodes(num) == IF num = 0 THEN EXT4_FIRST_NON_RSV_INODE ELSE 0

\* One iteration of init_ext4_group_descs.
InitGroupDesc ==
  /\ pc = "descs"
  /\ i \in Groups
  /\ group_descs' = Put(group_descs, i,
       [free_blocks |-> Wrap(block_group_block_count(i) - block_group_overhead(sb, i)),
        free_inodes |-> Wrap(sb.inodes_per_group - used_inodes(i)),
        used_dirs   |-> 0])
  /\ block_bitmap' = Put(block_bitmap, i, InitialBlockBitmap(i))
  /\ inode_bitmap' = Put(inode_bitmap, i,
       set_bits(set_bits({}, 0, used_inodes(i)), sb.inodes_per_group, BitsPerBlock))
  /\ i' = i + 1
  /\ UNCHANGED <<sb, tree, inode_table, first_free_inode_no, registered, sumVars, pc>>

-----------------------------------------------------------------------------
(***************************************************************************)
(* Inodes, numbered from 1.                                                *)
(***************************************************************************)
\* Mutated: inode numbers from 0.
GroupOfInodeFromZero(inode_num) == inode_num \div sb.inodes_per_group

GroupOfInode(inode_num) == (inode_num - 1) \div sb.inodes_per_group

num_in_bg(inode_num) == (inode_num - 1) % sb.inodes_per_group

WithDir(bg, kind) == IF kind = "dir" THEN [bg EXCEPT !.used_dirs = @ + 1] ELSE bg

\* Reserved inodes are marked, and counted as used, from the start.
add_reserved_inode(inode_num, kind) ==
  /\ inode_table' = Put(inode_table, inode_num, kind)
  /\ group_descs' = [group_descs EXCEPT ![GroupOfInode(inode_num)] = WithDir(@, kind)]
  /\ UNCHANGED <<block_bitmap, inode_bitmap>>

build_root_inode ==
  /\ pc = "descs"
  /\ i = block_group_count(sb)
  /\ add_reserved_inode(EXT4_ROOT_INODE, "dir")
  /\ pc' = "tree" /\ i' = 1
  /\ UNCHANGED <<sb, tree, first_free_inode_no, registered, sumVars>>

\* Mutated: a new directory is not counted in its group.
WithInodeNotDir(bg, kind) == [bg EXCEPT !.free_inodes = Wrap(@ - 1)]

\* The descriptor after one more inode of this kind.
WithInode(bg, kind) == WithDir([bg EXCEPT !.free_inodes = Wrap(@ - 1)], kind)

\* build_inode and add_inode for the next file of the tree.
build_inode ==
  LET bg_num == GroupOfInode(first_free_inode_no)
      kind   == tree[i]
  IN  /\ pc = "tree"
      /\ i <= Len(tree)
      /\ bg_num < block_group_count(sb)
      /\ inode_bitmap' = [inode_bitmap EXCEPT ![bg_num] = @ \cup {num_in_bg(first_free_inode_no)}]
      /\ inode_table' = Put(inode_table, first_free_inode_no, kind)
      /\ group_descs' = [group_descs EXCEPT ![bg_num] = WithInode(@, kind)]
      /\ first_free_inode_no' = first_free_inode_no + 1
      /\ i' = i + 1
      /\ UNCHANGED <<sb, tree, block_bitmap, registered, sumVars, pc>>

\* "Not enough inodes in your file system": exit(1).
NotEnoughInodes ==
  /\ pc = "tree"
  /\ i <= Len(tree)
  /\ GroupOfInode(first_free_inode_no) >= block_group_count(sb)
  /\ pc' = "exited"
  /\ UNCHANGED <<sb, tree, groupVars, first_free_inode_no, registered, sumVars, i>>

-----------------------------------------------------------------------------
(***************************************************************************)
(* Extents.  One extent lies in a single group, which add_extent_to_block_ *)
(* bitmap takes for granted (ExtentMapper: ExtentsFitExt4).                *)
(***************************************************************************)
\* Mutated: the first data block is not subtracted.
BitsOfExtentFromZero(begin, end) ==
  LET bg_num == begin \div sb.blocks_per_group
  IN  <<bg_num, begin - bg_num * sb.blocks_per_group, end - bg_num * sb.blocks_per_group>>

\* The group of an extent, and its bits there.
BitsOfExtent(begin, end) ==
  LET bg_num == GroupOfBlock(sb, begin)
  IN  <<bg_num, begin - block_group_start(sb, bg_num), end - block_group_start(sb, bg_num)>>

add_extent_to_block_bitmap(begin, end) ==
  LET bits == BitsOfExtent(begin, end)
  IN  /\ block_bitmap' = [block_bitmap EXCEPT ![bits[1]] = set_bits(@, bits[2], bits[3])]
      /\ group_descs' = [group_descs EXCEPT ![bits[1]].free_blocks = Wrap(@ - (end - begin))]
      /\ UNCHANGED <<inode_bitmap, inode_table>>

\* What the mapper may hand over: blocks in use by nobody, in one group.
Registrable ==
  { e \in Extents :
      /\ GroupOfBlock(sb, e[1]) = GroupOfBlock(sb, e[2] - 1)
      /\ \A b \in e[1] .. e[2] - 1 :
           /\ b \in sb.data_start .. sb.blocks_count - 1
           /\ b >= sb.first_data_block
           /\ ~ IsMetadataBlock(sb, b)
           /\ \A r \in registered : b \notin r[1] .. r[2] - 1 }

register_extent ==
  /\ pc \in {"tree", "lost+found"}
  /\ \E e \in Registrable :
       /\ add_extent_to_block_bitmap(e[1], e[2])
       /\ registered' = registered \cup {e}
  /\ UNCHANGED <<sb, tree, first_free_inode_no, sumVars, pc, i>>

-----------------------------------------------------------------------------
\* build_lost_found, once the whole tree is built.
build_lost_found_inode ==
  /\ pc = "tree"
  /\ i > Len(tree)
  /\ add_reserved_inode(EXT4_LOST_FOUND_INODE, "dir")
  /\ pc' = "lost+found" /\ i' = 0
  /\ UNCHANGED <<sb, tree, first_free_inode_no, registered, sumVars>>

uint16_t(n) == n % IndexRange

\* finalize_block_groups_on_disk, one iteration of its loop.
SumGroup ==
  /\ pc \in {"lost+found", "sums"}
  /\ i \in Groups
  /\ totals' = [blocks |-> totals.blocks + group_descs[i].free_blocks,
                inodes |-> Wrap(totals.inodes + group_descs[i].free_inodes)]
  /\ pc' = "sums" /\ i' = uint16_t(i + 1)
  /\ UNCHANGED <<sb, tree, groupVars, first_free_inode_no, registered, copies>>

\* Mutated: the last group gets no copy.
CopyTargetsWithoutLast == {0, backup_bgs(sb)[1]}

CopyTargets == {0, backup_bgs(sb)[1], backup_bgs(sb)[2]}

\* The three calls of write_sb_copy.
write_sb_copies ==
  /\ pc = "sums"
  /\ i = block_group_count(sb)
  /\ copies' = [g \in CopyTargets |-> totals]
  /\ pc' = "done"
  /\ UNCHANGED <<sb, tree, groupVars, first_free_inode_no, registered, totals, i>>

Stopped == pc \in {"done", "exited"} /\ UNCHANGED vars

Next ==
  \/ InitGroupDesc \/ build_root_inode \/ build_inode \/ NotEnoughInodes \/ register_extent
  \/ build_lost_found_inode \/ SumGroup \/ write_sb_copies \/ Stopped

Spec == Init /\ [][Next]_vars

-----------------------------------------------------------------------------
Initialised == DOMAIN group_descs

BlocksOf(num) == 0 .. block_group_block_count(num) - 1
InodesOf(num) == 0 .. sb.inodes_per_group - 1

\* The counts of every descriptor are those e2fsck would compute from the
\* bitmaps, at every step, for groups of full length and a short last one.
CountsMatchBitmaps ==
  \A g \in Initialised :
    /\ group_descs[g].free_blocks = Cardinality(BlocksOf(g) \ block_bitmap[g])
    /\ group_descs[g].free_inodes = Cardinality(InodesOf(g) \ inode_bitmap[g])

\* The block bitmaps mark the metadata, the registered extents and the blocks
\* the partition does not have, and nothing else.
BitmapsMarkTheUsed ==
  \A g \in Initialised : \A bit \in 0 .. BitsPerBlock - 1 :
    LET b == block_group_start(sb, g) + bit
    IN  bit \in block_bitmap[g] <=>
          \/ bit \notin BlocksOf(g)
          \/ IsMetadataBlock(sb, b)
          \/ \E r \in registered : b \in r[1] .. r[2] - 1

\* An inode is in the table of a group iff its bit is set (the reserved ones
\* are always set), and the directories are counted where they are.
InodesMatchBitmaps ==
  \A g \in Initialised :
    LET inside == { n \in DOMAIN inode_table : GroupOfInode(n) = g }
    IN  /\ { n \in inside : n > EXT4_FIRST_NON_RSV_INODE } =
             { g * sb.inodes_per_group + bit + 1 :
                 bit \in { x \in inode_bitmap[g] \cap InodesOf(g) : x >= used_inodes(g) } }
        /\ group_descs[g].used_dirs = Cardinality({ n \in inside : inode_table[n] = "dir" })

\* The program gives up for lack of inodes only if every inode is in use.
ExitOnlyWithoutInodes ==
  pc = "exited" => \A g \in Groups : InodesOf(g) \subseteq inode_bitmap[g]

\* At the end the copies are where s_backup_bgs and the metadata extents have
\* room for them, and hold the free counts of the whole file system.
CopiesComplete ==
  pc = "done" =>
    /\ DOMAIN copies = { g \in Groups : block_group_has_sb_copy(sb, g) }
    /\ \A g \in DOMAIN copies :
         /\ copies[g].blocks = FoldSet(LAMBDA h, sum :
              Cardinality(BlocksOf(h) \ block_bitmap[h]) + sum, 0, Groups)
         /\ copies[g].inodes = FoldSet(LAMBDA h, sum :
              Cardinality(InodesOf(h) \ inode_bitmap[h]) + sum, 0, Groups)
=============================================================================
