---------------------------- MODULE MCVolumeLabel ----------------------------
(***************************************************************************)
(* Labels of three bytes, every mix of two letters and blanks; volume ids  *)
(* of two bytes, of which none, one or both read as a blank.               *)
(***************************************************************************)
EXTENDS VolumeLabel

MCLabels == [1 .. 3 -> {Blank, 65, 66}]
MCVolumeIds == [1 .. 2 -> {Blank, 7}]
=============================================================================
