---------------------------- MODULE WaitChannel ----------------------------
(***************************************************************************)
(* The list of a wait channel (wc_threads of kern/thread/thread.c): a      *)
(* thread is on it by its one t_listnode, so at most once.                 *)
(***************************************************************************)
EXTENDS Naturals, Sequences

(* The sequence wchan lists the members of the set S, each of them once.   *)
Lists(wchan, S) ==
    /\ \A t \in S : \E i \in DOMAIN wchan : wchan[i] = t
    /\ \A i \in DOMAIN wchan : wchan[i] \in S
    /\ \A i, j \in DOMAIN wchan : wchan[i] = wchan[j] => i = j
=============================================================================
