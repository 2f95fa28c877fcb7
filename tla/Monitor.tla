------------------------------ MODULE Monitor ------------------------------
(***************************************************************************)
(* Sleep locks and condition variables (kern/thread/synch.c): one lock and *)
(* one condition variable used with it.  A critical section of the lock's  *)
(* own spinlock, lk_lock, is one step.  The spinlock of the condition      *)
(* variable, cv_wchanlock, is a variable: cv_wait keeps it while it lets   *)
(* go of the lock.                                                         *)
(***************************************************************************)
EXTENDS Naturals, Sequences, WaitChannel

CONSTANTS
    Thread,
    NULL        \* no thread

ASSUME NullAssumption == NULL \notin Thread

VARIABLES
    lk_holder,      \* the thread that holds the lock
    lk_wchan,       \* the threads asleep in lock_acquire
    cv_wchan,       \* the threads asleep in cv_wait
    cv_wchanlock,   \* the thread that holds the spinlock of cv_wchan
    pc              \* thread -> its control point

vars == <<lk_holder, lk_wchan, cv_wchan, cv_wchanlock, pc>>

(***************************************************************************)
(* Control points.  "out": without the lock; "acquire": in lock_acquire,   *)
(* on its way to the test of the loop; "asleep": on lk_wchan; "in": has    *)
(* the lock; "wait": in cv_wait, has both; "released": in cv_wait, has     *)
(* cv_wchanlock only; "cvasleep": on cv_wchan; "signalled": made runnable, *)
(* about to take cv_wchanlock at the end of wchan_sleep.                   *)
(***************************************************************************)
Point == {"out", "acquire", "asleep", "in", "wait", "released", "cvasleep",
          "signalled"}

Init ==
    /\ lk_holder = NULL /\ lk_wchan = <<>>
    /\ cv_wchan = <<>> /\ cv_wchanlock = NULL
    /\ pc = [t \in Thread |-> "out"]

-----------------------------------------------------------------------------
(* lock_acquire, first and every later time round its loop.                *)
GetLock(t) ==
    /\ lk_holder = NULL
    /\ lk_holder' = t
    /\ pc' = [pc EXCEPT ![t] = "in"]
    /\ UNCHANGED lk_wchan

SleepOnLock(t) ==
    /\ lk_holder # NULL
    /\ lk_wchan' = Append(lk_wchan, t)
    /\ pc' = [pc EXCEPT ![t] = "asleep"]
    /\ UNCHANGED lk_holder

Acquire(t) ==
    /\ pc[t] = "out"
    /\ GetLock(t) \/ SleepOnLock(t)
    /\ UNCHANGED <<cv_wchan, cv_wchanlock>>

Retest_NotDone(t) ==
    /\ lk_holder' = t
    /\ pc' = [pc EXCEPT ![t] = "in"]
    /\ UNCHANGED lk_wchan
Retest(t) == GetLock(t) \/ SleepOnLock(t)

AcquireAgain(t) ==
    /\ pc[t] = "acquire"
    /\ Retest(t)
    /\ UNCHANGED <<cv_wchan, cv_wchanlock>>

(* The body of lock_release: after it the caller t is at the point next.   *)
DoRelease_WakesNoOne(t, next) ==
    /\ lk_holder' = NULL
    /\ pc' = [pc EXCEPT ![t] = next]
    /\ UNCHANGED lk_wchan
DoRelease(t, next) ==
    /\ lk_holder' = NULL
    /\ IF lk_wchan = <<>>
       THEN /\ pc' = [pc EXCEPT ![t] = next]
            /\ UNCHANGED lk_wchan
       ELSE /\ lk_wchan' = Tail(lk_wchan)
            /\ pc' = [pc EXCEPT ![t] = next, ![Head(lk_wchan)] = "acquire"]

Release(t) ==
    /\ pc[t] = "in"
    /\ DoRelease(t, "out")
    /\ UNCHANGED <<cv_wchan, cv_wchanlock>>

-----------------------------------------------------------------------------
(* cv_wait: take cv_wchanlock, release the lock, sleep (which releases     *)
(* cv_wchanlock), take and release cv_wchanlock, acquire the lock.         *)
WaitBegin(t) ==
    /\ pc[t] = "in" /\ cv_wchanlock = NULL
    /\ cv_wchanlock' = t
    /\ pc' = [pc EXCEPT ![t] = "wait"]
    /\ UNCHANGED <<lk_holder, lk_wchan, cv_wchan>>

WaitRelease_NotAtomic(t) ==
    /\ pc[t] = "wait"
    /\ DoRelease(t, "released")
    /\ cv_wchanlock' = NULL
    /\ UNCHANGED cv_wchan
WaitRelease(t) ==
    /\ pc[t] = "wait"
    /\ DoRelease(t, "released")
    /\ UNCHANGED <<cv_wchan, cv_wchanlock>>

WaitSleep(t) ==
    /\ pc[t] = "released"
    /\ cv_wchan' = Append(cv_wchan, t)
    /\ cv_wchanlock' = NULL
    /\ pc' = [pc EXCEPT ![t] = "cvasleep"]
    /\ UNCHANGED <<lk_holder, lk_wchan>>

WaitReturn(t) ==
    /\ pc[t] = "signalled" /\ cv_wchanlock = NULL
    /\ pc' = [pc EXCEPT ![t] = "acquire"]
    /\ UNCHANGED <<lk_holder, lk_wchan, cv_wchan, cv_wchanlock>>

(* cv_signal and cv_broadcast, called (synch.h) with the lock held.        *)
Signal(t) ==
    /\ pc[t] = "in" /\ cv_wchanlock = NULL /\ cv_wchan # <<>>
    /\ cv_wchan' = Tail(cv_wchan)
    /\ pc' = [pc EXCEPT ![Head(cv_wchan)] = "signalled"]
    /\ UNCHANGED <<lk_holder, lk_wchan, cv_wchanlock>>

AllSignalled_ButLast ==
    [u \in Thread |-> IF pc[u] = "cvasleep" /\ cv_wchan[Len(cv_wchan)] # u
                      THEN "signalled" ELSE pc[u]]
AllSignalled ==
    [u \in Thread |-> IF pc[u] = "cvasleep" THEN "signalled" ELSE pc[u]]

Broadcast(t) ==
    /\ pc[t] = "in" /\ cv_wchanlock = NULL
    /\ cv_wchan' = <<>>
    /\ pc' = AllSignalled
    /\ UNCHANGED <<lk_holder, lk_wchan, cv_wchanlock>>

-----------------------------------------------------------------------------
Next == \E t \in Thread :
    \/ Acquire(t) \/ AcquireAgain(t) \/ Release(t)
    \/ WaitBegin(t) \/ WaitRelease(t) \/ WaitSleep(t) \/ WaitReturn(t)
    \/ Signal(t) \/ Broadcast(t)

Spec == Init /\ [][Next]_vars

(***************************************************************************)
(* A thread that was made runnable is run, and one that has begun cv_wait  *)
(* goes on to sleep; nothing makes a thread release the lock or signal.    *)
(***************************************************************************)
FairSpec ==
    /\ Spec
    /\ \A t \in Thread : /\ WF_vars(AcquireAgain(t))
                         /\ WF_vars(WaitRelease(t) \/ WaitSleep(t))
                         /\ WF_vars(WaitReturn(t))

-----------------------------------------------------------------------------
TypeOK ==
    /\ lk_holder \in Thread \cup {NULL}
    /\ lk_wchan \in Seq(Thread)
    /\ cv_wchan \in Seq(Thread)
    /\ cv_wchanlock \in Thread \cup {NULL}
    /\ pc \in [Thread -> Point]

(***************************************************************************)
(* Mutual exclusion: the threads between lock_acquire and lock_release are *)
(* exactly the holder, and those between the two accesses of cv_wchanlock  *)
(* in cv_wait exactly its holder.                                          *)
(***************************************************************************)
MutualExclusion ==
    \A t \in Thread : /\ pc[t] \in {"in", "wait"} <=> lk_holder = t
                      /\ pc[t] \in {"wait", "released"} <=> cv_wchanlock = t

(* Each wait channel lists the threads that sleep on it.                   *)
Sleeping(point) == {t \in Thread : pc[t] = point}
WchansExact ==
    Lists(lk_wchan, Sleeping("asleep")) /\ Lists(cv_wchan, Sleeping("cvasleep"))

(***************************************************************************)
(* If the lock is free while threads sleep for it, one that was woken is   *)
(* on its way: whoever else gets in first will wake the next one.          *)
(***************************************************************************)
NoLostWakeup ==
    lk_wchan # <<>> /\ lk_holder = NULL => \E t \in Thread : pc[t] = "acquire"

(***************************************************************************)
(* The whole: an inductive invariant.  In particular no thread sleeps      *)
(* where nobody can find it, and none is on a channel it has left.         *)
(***************************************************************************)
MonitorInv == TypeOK /\ MutualExclusion /\ WchansExact /\ NoLostWakeup

(***************************************************************************)
(* Together they are a monitor (module ConditionMonitor): in particular a  *)
(* thread is a waiter from the moment it releases the lock, so no signal   *)
(* sent after that passes it by.                                           *)
(***************************************************************************)
Place(p) ==
    CASE p = "out" -> "out"
      [] p \in {"acquire", "asleep", "signalled"} -> "entering"
      [] p \in {"in", "wait"} -> "in"
      [] p \in {"released", "cvasleep"} -> "waiting"

Waiters == IF cv_wchanlock \in Thread /\ pc[cv_wchanlock] = "released"
           THEN Append(cv_wchan, cv_wchanlock) ELSE cv_wchan
Places == [t \in Thread |-> Place(pc[t])]

Abstract == INSTANCE ConditionMonitor
    WITH holder <- lk_holder, waiters <- Waiters, place <- Places
ImplementsMonitor == Abstract!Spec
=============================================================================
