---------------------------- MODULE MCDirReader ----------------------------
(***************************************************************************)
(* Directories of up to four items in clusters of two entries: long names  *)
(* of two parts reach over the end of a cluster and of an extent.          *)
(***************************************************************************)
EXTENDS DirReader

File(parts, low, five) == [kind |-> "file", parts |-> parts, low |-> low, five |-> five]

MCItems ==
  { [kind |-> "deleted"], [kind |-> "dot"],
    File(0, FALSE, 1), File(0, TRUE, 1), File(0, TRUE, 2),
    File(1, FALSE, 1), File(2, FALSE, 1), File(2, TRUE, 3) }

Ext(start, len) == [physical_start |-> start, length |-> len]

MCExtents ==
  { <<Ext(5, 1)>>, <<Ext(5, 2)>>, <<Ext(9, 1), Ext(5, 1)>>, <<Ext(5, 1), Ext(9, 2)>>,
    <<Ext(5, 2), Ext(3, 2)>>, <<Ext(7, 5)>>, <<Ext(3, 3), Ext(9, 3)>> }
=============================================================================
