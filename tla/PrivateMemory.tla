--------------------------- MODULE PrivateMemory ---------------------------
(***************************************************************************)
(* What the virtual memory system promises to user programs: every process *)
(* has a memory of its own.  Nobody else's stores show in it, a fork gives *)
(* the child the parent's memory as it is, and a program starts with what  *)
(* its file says and zeros.  A page it has no access to holds nothing.     *)
(***************************************************************************)
EXTENDS Naturals

CONSTANTS
    Proc, Page, Value,
    Image,      \* page -> what it holds when a program starts
    NULL        \* no program, or no access

VARIABLE mem    \* process -> page -> what it holds

TypeOK == mem \in [Proc -> [Page -> Value \cup {NULL}] \cup {NULL}]

Init == mem = [p \in Proc |-> NULL]

Store(p, pg, v) ==
    /\ mem[p] # NULL /\ mem[p][pg] # NULL
    /\ mem' = [mem EXCEPT ![p] = [@ EXCEPT ![pg] = v]]

Fork(p, q) ==
    /\ mem[p] # NULL /\ mem[q] = NULL
    /\ mem' = [mem EXCEPT ![q] = mem[p]]

Exec(p) == mem' = [mem EXCEPT ![p] = Image]

Exit(p) == mem' = [mem EXCEPT ![p] = NULL]

Next ==
    \E p \in Proc :
        \/ \E pg \in Page, v \in Value : Store(p, pg, v)
        \/ \E q \in Proc : Fork(p, q)
        \/ Exec(p)
        \/ Exit(p)

Spec == Init /\ [][Next]_mem
=============================================================================
