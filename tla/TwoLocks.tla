------------------------------ MODULE TwoLocks ------------------------------
(***************************************************************************)
(* The two-lock exercise (kern/asst1/twolocks.c of the asst1 tree): Bill   *)
(* and Ben go round their loops of lock_acquire's and lock_release's.  The *)
(* code is a script here: data, so that a changed order of operations is a *)
(* changed script.  A lock is what module Monitor shows it to be: one      *)
(* holder, and a free lock is taken by one of those who want it.           *)
(***************************************************************************)
EXTENDS Naturals, Sequences

CONSTANT NUM_LOOPS      \* 1000 in the code

ConstantsOK == NUM_LOOPS \in Nat \ {0}

Lock == {"a", "b"}
Free == "nobody"

acquire(l) == [op |-> "acquire", of |-> {l}]
release(l) == [op |-> "release", of |-> {l}]
section(ls) == [op |-> "section", of |-> ls]    \* the calls of holds_lock...()

Bill_LocksAFirst == <<
    acquire("a"), section({"a"}), release("a"),
    acquire("b"), section({"b"}), release("b"),
    acquire("a"), acquire("b"), section({"a", "b"}), release("b"), release("a")>>
Bill == <<
    acquire("a"), section({"a"}), release("a"),
    acquire("b"), section({"b"}), release("b"),
    acquire("a"), release("a"),
    acquire("b"), acquire("a"), section({"a", "b"}), release("b"), release("a")>>

Ben == <<
    acquire("a"), section({"a"}), release("a"),
    acquire("b"), section({"b"}), release("b"),
    acquire("b"), acquire("a"), section({"a", "b"}), release("a"), release("b")>>

Script == [bill |-> Bill, ben |-> Ben]
Thread == DOMAIN Script

VARIABLES
    holder,     \* lock -> the thread that holds it
    pc,         \* thread -> 0 before its thread_fork, else the step of its
                \* script it is at; one more: the loop is over
    i,          \* thread -> rounds it has made
    finished,   \* the semaphore's count
    waited      \* P(finished)'s that twolocks() has done

vars == <<holder, pc, i, finished, waited>>

Over(t) == Len(Script[t]) + 1
Gone(t) == Over(t) + 1

Init ==
    /\ holder = [l \in Lock |-> Free]
    /\ pc = [t \in Thread |-> 0]
    /\ i = [t \in Thread |-> 0]
    /\ finished = 0
    /\ waited = 0

(* twolocks() starts Bill, then Ben.                                       *)
Start(t) ==
    /\ pc[t] = 0
    /\ t = "ben" => pc["bill"] # 0
    /\ pc' = [pc EXCEPT ![t] = 1]
    /\ UNCHANGED <<holder, i, finished, waited>>

At(t, op) == pc[t] \in DOMAIN Script[t] /\ Script[t][pc[t]].op = op
Locks(t) == Script[t][pc[t]].of
Step(t) == pc' = [pc EXCEPT ![t] = @ + 1]

Acquire(t) ==
    /\ At(t, "acquire")
    /\ \A l \in Locks(t) : holder[l] = Free
    /\ holder' = [l \in Lock |-> IF l \in Locks(t) THEN t ELSE holder[l]]
    /\ Step(t)
    /\ UNCHANGED <<i, finished, waited>>

Release(t) ==
    /\ At(t, "release")
    /\ holder' = [l \in Lock |-> IF l \in Locks(t) THEN Free ELSE holder[l]]
    /\ Step(t)
    /\ UNCHANGED <<i, finished, waited>>

Section(t) ==
    /\ At(t, "section")
    /\ Step(t)
    /\ UNCHANGED <<holder, i, finished, waited>>

(* The end of the loop's body, and of the loop: V(finished).               *)
Round(t) ==
    /\ pc[t] = Over(t)
    /\ i[t] + 1 < NUM_LOOPS
    /\ i' = [i EXCEPT ![t] = @ + 1]
    /\ pc' = [pc EXCEPT ![t] = 1]
    /\ UNCHANGED <<holder, finished, waited>>

Bye(t) ==
    /\ pc[t] = Over(t)
    /\ i[t] + 1 >= NUM_LOOPS
    /\ finished' = finished + 1
    /\ pc' = [pc EXCEPT ![t] = Gone(t)]
    /\ UNCHANGED <<holder, i, waited>>

(* twolocks() waits for both, and returns.                                 *)
Wait ==
    /\ pc["ben"] # 0
    /\ waited < 2
    /\ finished > 0
    /\ finished' = finished - 1
    /\ waited' = waited + 1
    /\ UNCHANGED <<holder, pc, i>>

Runs(t) == Acquire(t) \/ Release(t) \/ Section(t) \/ Round(t) \/ Bye(t)

Returned == waited = 2
AtMenu == Returned /\ UNCHANGED vars

Next == (\E t \in Thread : Start(t) \/ Runs(t)) \/ Wait \/ AtMenu

Spec == Init /\ [][Next]_vars

-----------------------------------------------------------------------------
(***************************************************************************)
(* No deadly embrace: whoever waits for a lock, its holder waits for none. *)
(* Both take the second lock while they hold the first, so this needs the  *)
(* same order in both scripts.                                             *)
(***************************************************************************)
Blocked(t) == At(t, "acquire") /\ \E l \in Locks(t) : holder[l] # Free
NoDeadlyEmbrace ==
    \A t \in Thread : Blocked(t) =>
        \A l \in Locks(t) : holder[l] = Free \/ ~Blocked(holder[l])

(* twolocks() returns when both have gone, with both locks free.           *)
ReturnsLast ==
    waited = 2 => /\ \A t \in Thread : pc[t] = Gone(t)
                  /\ \A l \in Lock : holder[l] = Free
=============================================================================
