---------------------------- MODULE MCExtentMapper ----------------------------
(***************************************************************************)
(* Groups of ten blocks; the metadata takes five of them with a superblock *)
(* copy and three without.  Chains: every short chain over clusters on     *)
(* both sides of a blocked extent, and long runs across whole ones.        *)
(***************************************************************************)
EXTENDS ExtentMapper

Layout(blocks, start) ==
  [ blocks_count |-> blocks, blocks_per_group |-> 10, first_data_block |-> 0,
    inodes_per_group |-> 4, inodes_per_block |-> 4, descs_per_block |-> 4,
    data_start |-> start ]

MCLayouts ==
  { Layout(40, 4),     \* metadata of group 0 cut to one cluster
    Layout(40, 5),     \* metadata of group 0 ends where the data starts
    Layout(36, 13) }   \* group 0 before the data, short last group

MCSizes == 1 .. EXT4_MAX_INIT_EXTENT_LEN

\* Chains of up to three clusters in any order, around a blocked extent.
Scattered ==
  LET S == {2, 3, 7, 8, 17, 18}
  IN  { c \in UNION { [1..n -> S] : n \in 0..3 } :
          \A j, k \in DOMAIN c : c[j] = c[k] => j = k }

\* Runs of consecutive clusters, some across one or two whole blocked extents.
Run(first, n) == [k \in 1..n |-> first + k - 1]
Runs == { Run(first, n) : first \in {2, 6, 14, 16}, n \in {5, 6, 9, 14} }

Disjoint(c, d) == \A j \in DOMAIN c, k \in DOMAIN d : c[j] # d[k]

MCFileSystems ==
  { fs \in { <<c, d>> : c \in Scattered, d \in { <<>>, <<9>>, <<10, 9>>, <<19, 20>> } }
           \cup { <<c, r, <<29>> >> : c \in { <<>>, <<3>> }, r \in Runs } :
      \A f, g \in DOMAIN fs : f # g => Disjoint(fs[f], fs[g]) }
=============================================================================
