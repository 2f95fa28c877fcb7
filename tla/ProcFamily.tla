----------------------------- MODULE ProcFamily -----------------------------
(***************************************************************************)
(* What fork, waitpid and _exit promise, with no process table: each       *)
(* process holds the set of its children that it has not collected, each   *)
(* running or ended with a status.  A child's status reaches the process   *)
(* that forked it, at most once, and nobody else; a pid is given to a new  *)
(* child only when no process runs under it and nobody holds its status.   *)
(***************************************************************************)
EXTENDS Naturals

CONSTANTS Proc, KProc, KernelPid, UserPid, NoPid, Status, Running, Nothing

VARIABLES
    pidOf,      \* process -> the pid it runs under, or NoPid
    kids,       \* process -> function from its children's pids to status
    got         \* process -> the <<pid, status>> its last call delivered

vars == <<pidOf, kids, got>>

None == [pid \in {} |-> Running]
Without(f, pid) == [q \in DOMAIN f \ {pid} |-> f[q]]
With(f, pid, s) == [q \in DOMAIN f \cup {pid} |-> IF q = pid THEN s ELSE f[q]]

InUse(pid) == \E p \in Proc : pidOf[p] = pid \/ pid \in DOMAIN kids[p]

Init ==
    /\ pidOf = [p \in Proc |-> IF p = KProc THEN KernelPid ELSE NoPid]
    /\ kids = [p \in Proc |-> None]
    /\ got = [p \in Proc |-> Nothing]

Spawn(p, c, pid) ==
    /\ pidOf[p] # NoPid /\ pidOf[c] = NoPid
    /\ ~InUse(pid)
    /\ pidOf' = [pidOf EXCEPT ![c] = pid]
    /\ kids' = [kids EXCEPT ![p] = With(@, pid, Running)]
    /\ UNCHANGED got

(* The fork failed half way: it is as if it never was. *)
Unspawn(p, c) ==
    /\ pidOf[c] \in DOMAIN kids[p]
    /\ kids[p][pidOf[c]] = Running
    /\ kids' = [kids EXCEPT ![p] = Without(@, pidOf[c])]
    /\ pidOf' = [pidOf EXCEPT ![c] = NoPid]
    /\ got' = [got EXCEPT ![p] = Nothing]

(* The status goes to the parent if it is there; p's own children are      *)
(* nobody's from now on.                                                   *)
Terminate(p, s) ==
    /\ p # KProc
    /\ pidOf[p] # NoPid
    /\ kids' = [q \in Proc |->
                  IF q = p THEN None
                  ELSE IF pidOf[p] \in DOMAIN kids[q]
                       THEN With(kids[q], pidOf[p], s) ELSE kids[q]]
    /\ pidOf' = [pidOf EXCEPT ![p] = NoPid]
    /\ UNCHANGED got

(* The status is delivered, or thrown away, and is gone. *)
Collect(p, pid) ==
    /\ pid \in DOMAIN kids[p]
    /\ kids[p][pid] # Running
    /\ got' \in {[got EXCEPT ![p] = r] : r \in {<<pid, kids[p][pid]>>, Nothing}}
    /\ kids' = [kids EXCEPT ![p] = Without(@, pid)]
    /\ UNCHANGED pidOf

(* Any other call returns something that is no status. *)
Answer(P) ==
    /\ got' = [p \in Proc |-> IF p \in P THEN Nothing ELSE got[p]]
    /\ UNCHANGED <<pidOf, kids>>

Next ==
    \/ \E p, c \in Proc : Unspawn(p, c) \/ \E pid \in UserPid : Spawn(p, c, pid)
    \/ \E p \in Proc, s \in Status : Terminate(p, s)
    \/ \E p \in Proc, pid \in UserPid : Collect(p, pid)
    \/ \E P \in SUBSET Proc : Answer(P)

Spec == Init /\ [][Next]_vars
=============================================================================
