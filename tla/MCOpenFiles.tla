---------------------------- MODULE MCOpenFiles ----------------------------
(* Three processes that share two open files, of two descriptors each.     *)
EXTENDS OpenFiles, TLC

CONSTANTS p1, p2, p3, f1, f2, disk, con, MaxCalls

(* A bound: the calls that are under way at once. *)
Calling == {p \in Proc : pc[p] \notin {"none", "embryo", "user"}}
FewCalls == Cardinality(Calling) <= MaxCalls

Alike == Permutations(Proc) \cup Permutations(File)
=============================================================================
