-------------------------- MODULE MCTimeConversion --------------------------
(***************************************************************************)
(* Stamps at the ends of days, months and years, in leap years, in 2000,   *)
(* which is one, and in 2100, which is not, around the limits of 31 and 32 *)
(* bits (January 2038, February 2106); and the stamp of no date.           *)
(***************************************************************************)
EXTENDS TimeConversion

Stamp(y, m, d, h, min, s) ==
  [year |-> y, month |-> m, day |-> d, hour |-> h, minute |-> min, second |-> s]

NoStamp == Stamp(1980, 0, 0, 0, 0, 0)

LastDay(y, m) == IF m \in {4, 6, 9, 11} THEN 30 ELSE IF m # 2 THEN 31
                 ELSE IF y % 4 = 0 /\ y # 2100 THEN 29 ELSE 28

Days(y, m) == {1, 18, 19, LastDay(y, m)}

MCModStamps ==
  UNION { UNION { { Stamp(y, m, d, t[1], t[2], t[3]) : d \in Days(y, m),
                      t \in {<<0, 0, 0>>, <<3, 14, 6>>, <<3, 14, 8>>, <<23, 59, 58>>} } :
            m \in {1, 2, 3, 4, 11, 12} } :
      y \in {1980, 1999, 2000, 2001, 2037, 2038, 2100, 2106, 2107} } \cup {NoStamp}

MCOtherStamps == { NoStamp, Stamp(1980, 1, 1, 0, 0, 0), Stamp(2004, 2, 29, 12, 30, 2),
                   Stamp(2030, 12, 31, 23, 59, 58) }
=============================================================================
