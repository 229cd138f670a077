--------------------------- MODULE ExtentIterator ---------------------------
(***************************************************************************)
(* The clusters of a sequence of extents, one at a time                    *)
(* (extent_iterator.cpp).  Constant operators only: an iterator is the     *)
(* number of the extent it is in and of the clusters of it already         *)
(* returned; the number after the last extent stands for NULL.             *)
(***************************************************************************)
EXTENDS Naturals, Sequences

\* init: at the start of the k-th extent the stream returns.
init(k) == [extent |-> k, cluster |-> 0]

\* An iterator that has returned the whole extent goes on to the next one,
\* which is not empty.
Entered(exts, it) ==
  IF it.extent <= Len(exts) /\ it.cluster >= exts[it.extent].length
  THEN init(it.extent + 1) ELSE it

\* next_cluster_no: the cluster number, 0 for none, and the iterator after it.
next_cluster_no(exts, it) ==
  LET at == Entered(exts, it)
  IN  IF at.extent > Len(exts) THEN <<0, at>>
      ELSE <<exts[at.extent].physical_start + at.cluster, [at EXCEPT !.cluster = @ + 1]>>
=============================================================================
