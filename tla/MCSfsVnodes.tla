---------------------------- MODULE MCSfsVnodes ----------------------------
(* Threads, which are alike, on a small disk.                              *)
EXTENDS SfsVnodes, TLC

CONSTANTS t1, t2, t3, n1, n2, MaxBusy

(* A bound: the threads that have a vnode at once; one that is lost counts *)
(* as two.                                                                 *)
Busy == {t \in Thread : file[t] # NULL \/ hand[t] # NULL}
FewBusy == Cardinality(Busy) + 2 * Cardinality(lost) <= MaxBusy

Alike == Permutations(Thread) \cup Permutations(Name)
=============================================================================
