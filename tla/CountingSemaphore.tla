------------------------- MODULE CountingSemaphore -------------------------
(***************************************************************************)
(* What a semaphore promises: a count of units; V adds one, and a thread   *)
(* that has called P leaves with one.  Who leaves first is not promised    *)
(* (the comment in P), only that somebody does while units are left.       *)
(***************************************************************************)
EXTENDS Naturals

CONSTANTS Thread, MaxCount, Initial

VARIABLES count, in_P
vars == <<count, in_P>>

Init == count = Initial /\ in_P = {}

CallP(t) == t \notin in_P /\ in_P' = in_P \cup {t} /\ UNCHANGED count

LeaveP(t) ==
    /\ t \in in_P /\ count > 0
    /\ in_P' = in_P \ {t}
    /\ count' = count - 1

(* P without waiting. *)
PassP(t) == t \notin in_P /\ count > 0 /\ count' = count - 1 /\ UNCHANGED in_P

V == count < MaxCount /\ count' = count + 1 /\ UNCHANGED in_P

SomeoneLeaves == \E t \in Thread : LeaveP(t)

Next == V \/ SomeoneLeaves \/ \E t \in Thread : CallP(t) \/ PassP(t)

Safety == Init /\ [][Next]_vars
Spec == Safety /\ WF_vars(SomeoneLeaves)
=============================================================================
