-------------------------- MODULE MCNameConversion --------------------------
(***************************************************************************)
(* Long name entries of five units.  Long names of up to seven units, the  *)
(* limit of a FAT name being the limit of an ext4 name, of characters at   *)
(* the edges of one, two and three bytes; short names with every length of *)
(* both fields.                                                            *)
(***************************************************************************)
EXTENDS NameConversion

MCLfnFields == <<2, 2, 1>>

NonEmptySeq(S, n) == UNION { [1 .. m -> S] : m \in 1 .. n }

MCLongNames == NonEmptySeq({127, 128, 2048}, 7) \cup NonEmptySeq({65, 2047, 65534, 128}, 4)

\* "A", "AB", "AB.C", ..., blank-padded.
MCShortNames ==
  [ name : { <<65, Space>>, <<65, 66>>, <<233, 90>> },
    extension : { <<Space>>, <<67>>, <<126>> },
    lower_name : BOOLEAN, lower_extension : BOOLEAN ]

MCLeftovers == {0, 65, 65535}
=============================================================================
