------------------------------ MODULE FirstFit ------------------------------
(***************************************************************************)
(* What the extent allocator promises its callers: a request for up to     *)
(* n clusters gets the first run of consecutive available clusters, cut to *)
(* n, and no cluster is ever granted twice.  The only way a request fails  *)
(* is that fewer than n clusters are left, and then no later request is    *)
(* served (the program exits).                                             *)
(***************************************************************************)
EXTENDS Integers, FiniteSets

CONSTANT Sizes            \* The lengths callers ask for

ASSUME SizesAssumption == Sizes \subseteq Nat \ {0}

VARIABLES avail,          \* Clusters that may still be granted
          phase,          \* "idle", "busy" with a request, or "full"
          want,           \* Length of the request being served
          out             \* The clusters granted last, when idle

ffVars == <<avail, phase, want, out>>

-----------------------------------------------------------------------------
\* lo..hi is the first run of consecutive members of s, cut to n.
IsFirstRun(lo, hi, s, n) ==
  /\ lo..hi \subseteq s
  /\ \A c \in s : lo <= c
  /\ hi - lo + 1 <= n
  /\ hi - lo + 1 = n \/ hi + 1 \notin s

FFInit ==
  /\ avail \in SUBSET Nat
  /\ phase = "idle"
  /\ want = 0
  /\ out = {}

Request(n) ==
  /\ phase = "idle"
  /\ phase' = "busy"
  /\ want' = n
  /\ out' = {}
  /\ UNCHANGED avail

Grant ==
  /\ phase = "busy"
  /\ \E lo, hi \in avail : IsFirstRun(lo, hi, avail, want) /\ out' = lo..hi
  /\ avail' = avail \ out'
  /\ phase' = "idle"
  /\ UNCHANGED want

Fail ==
  /\ phase = "busy"
  /\ Cardinality(avail) < want
  /\ phase' = "full"
  /\ UNCHANGED <<avail, want, out>>

FFNext == (\E n \in Sizes : Request(n)) \/ Grant \/ Fail

FFSpec == FFInit /\ [][FFNext]_ffVars
=============================================================================
