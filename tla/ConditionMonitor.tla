-------------------------- MODULE ConditionMonitor --------------------------
(***************************************************************************)
(* What a lock and a condition variable used with it promise: at most one  *)
(* thread is inside; wait leaves and joins the waiters in one step; signal *)
(* sends the longest waiting thread back to the entrance, broadcast all of *)
(* them; and while the monitor is free and threads stand at the entrance,  *)
(* one of them gets in.                                                    *)
(***************************************************************************)
EXTENDS Sequences

CONSTANTS Thread, NULL

VARIABLES
    holder,     \* the thread inside, or NULL
    waiters,    \* the waiting threads, longest first
    place       \* thread -> "out", "entering", "in" or "waiting"

vars == <<holder, waiters, place>>

Init == holder = NULL /\ waiters = <<>> /\ place = [t \in Thread |-> "out"]

Call(t) ==
    /\ place[t] = "out"
    /\ place' = [place EXCEPT ![t] = "entering"]
    /\ UNCHANGED <<holder, waiters>>

Enter(t) ==
    /\ place[t] \in {"out", "entering"} /\ holder = NULL
    /\ holder' = t
    /\ place' = [place EXCEPT ![t] = "in"]
    /\ UNCHANGED waiters

Leave(t) ==
    /\ holder = t
    /\ holder' = NULL
    /\ place' = [place EXCEPT ![t] = "out"]
    /\ UNCHANGED waiters

Wait(t) ==
    /\ holder = t
    /\ holder' = NULL
    /\ waiters' = Append(waiters, t)
    /\ place' = [place EXCEPT ![t] = "waiting"]

Signal(t) ==
    /\ holder = t /\ waiters # <<>>
    /\ waiters' = Tail(waiters)
    /\ place' = [place EXCEPT ![Head(waiters)] = "entering"]
    /\ UNCHANGED holder

Broadcast(t) ==
    /\ holder = t
    /\ waiters' = <<>>
    /\ place' = [u \in Thread |->
                   IF place[u] = "waiting" THEN "entering" ELSE place[u]]
    /\ UNCHANGED holder

SomeoneEnters == \E t \in Thread : place[t] = "entering" /\ Enter(t)

Next == \E t \in Thread :
    Call(t) \/ Enter(t) \/ Leave(t) \/ Wait(t) \/ Signal(t) \/ Broadcast(t)

Safety == Init /\ [][Next]_vars
Spec == Safety /\ WF_vars(SomeoneEnters)
=============================================================================
