----------------------------- MODULE MCConverter -----------------------------
(***************************************************************************)
(* Groups of ten blocks, with five of metadata and a superblock copy or    *)
(* three without.  A root directory and two files or a directory, with     *)
(* clusters in and around the metadata of two groups; enough free clusters,*)
(* just enough, and too few.                                               *)
(***************************************************************************)
EXTENDS Converter

Layout(blocks, start) ==
  [ blocks_count |-> blocks, blocks_per_group |-> 10, first_data_block |-> 0,
    inodes_per_group |-> 4, inodes_per_block |-> 4, descs_per_block |-> 4,
    data_start |-> start ]

MCLayouts == { Layout(20, 4), Layout(40, 4), Layout(28, 9), Layout(16, 9) }

D(chain) == [dir |-> TRUE, chain |-> chain]
F(chain) == [dir |-> FALSE, chain |-> chain]

MCFileSystems ==
  { << D(<<10>>), F(<<9, 11>>), D(<<12>>) >>,            \* across the metadata of group 1
    << D(<<9, 14>>), F(<<13, 10>>), F(<<>>) >>,          \* fragmented, an empty file
    << D(<<10>>), F(<<11, 12>>), F(<<14, 15>>) >> }      \* mostly under the metadata

MCPaths == {"image", "zero", "missing", "other"}
=============================================================================
