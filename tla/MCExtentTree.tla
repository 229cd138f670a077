---------------------------- MODULE MCExtentTree ----------------------------
(***************************************************************************)
(* A directory and a file with two entries in the inode and four in a      *)
(* block: three extents move the entries to a block, the fifth finds the   *)
(* block full.                                                             *)
(***************************************************************************)
EXTENDS ExtentTree

MCInodes == {2, 12}
MCPayload == 20 .. 30
MCIndex == 41 .. 44
=============================================================================
