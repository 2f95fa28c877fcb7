----------------------------- MODULE Semaphore -----------------------------
(***************************************************************************)
(* Semaphores (kern/thread/synch.c).  P and V run between a                *)
(* spinlock_acquire and a spinlock_release of sem_lock, and wchan_sleep    *)
(* lets go of it: each step here is one such critical section.  V may be   *)
(* called from an interrupt handler, so it is not tied to a thread.        *)
(***************************************************************************)
EXTENDS Naturals, Sequences, FiniteSets, WaitChannel

CONSTANTS
    Thread,     \* the threads that call P
    MaxCount,   \* bound: V is not called at this count (UINT_MAX in the code)
    Initial     \* initial_count

ASSUME ConstantsAssumption ==
    /\ IsFiniteSet(Thread)
    /\ MaxCount \in Nat /\ Initial \in 0 .. MaxCount

VARIABLES
    sem_count,  \* units left
    sem_wchan,  \* the threads asleep in P, in the order they came
    pc          \* thread -> "out" of P, "asleep" in it, or "woken": made
                \* runnable, on its way back to the test of the loop

vars == <<sem_count, sem_wchan, pc>>

Init ==
    /\ sem_count = Initial
    /\ sem_wchan = <<>>
    /\ pc = [t \in Thread |-> "out"]

Woken == {t \in Thread : pc[t] = "woken"}

(* The loop of P finds a unit...                                           *)
Take(t) ==
    /\ sem_count > 0
    /\ sem_count' = sem_count - 1
    /\ pc' = [pc EXCEPT ![t] = "out"]
    /\ UNCHANGED sem_wchan

(* ...or none: wchan_sleep.                                                *)
Sleep(t) ==
    /\ sem_count = 0
    /\ sem_wchan' = Append(sem_wchan, t)
    /\ pc' = [pc EXCEPT ![t] = "asleep"]
    /\ UNCHANGED sem_count

P(t) == pc[t] = "out" /\ (Take(t) \/ Sleep(t))

(* Back from wchan_sleep, a thread tests the count again.                  *)
Retest_NotDone(t) ==
    /\ sem_count' = sem_count - 1
    /\ pc' = [pc EXCEPT ![t] = "out"]
    /\ UNCHANGED sem_wchan
Retest(t) == Take(t) \/ Sleep(t)

PAgain(t) == pc[t] = "woken" /\ Retest(t)

(* wchan_wakeone                                                           *)
WakeOne_AtZero ==
    IF sem_wchan = <<>> \/ sem_count > 0
    THEN UNCHANGED <<sem_wchan, pc>>
    ELSE /\ sem_wchan' = Tail(sem_wchan)
         /\ pc' = [pc EXCEPT ![Head(sem_wchan)] = "woken"]
WakeOne ==
    IF sem_wchan = <<>>
    THEN UNCHANGED <<sem_wchan, pc>>
    ELSE /\ sem_wchan' = Tail(sem_wchan)
         /\ pc' = [pc EXCEPT ![Head(sem_wchan)] = "woken"]

V ==
    /\ sem_count < MaxCount
    /\ sem_count' = sem_count + 1
    /\ WakeOne

Next == V \/ \E t \in Thread : P(t) \/ PAgain(t)

Spec == Init /\ [][Next]_vars

(* A thread that was made runnable is run (ReadyRuns of module Scheduler). *)
FairSpec == Spec /\ \A t \in Thread : WF_vars(PAgain(t))

-----------------------------------------------------------------------------
(* Types; P never takes a unit that is not there.                          *)
TypeOK ==
    /\ sem_count \in 0 .. MaxCount
    /\ sem_wchan \in Seq(Thread)
    /\ pc \in [Thread -> {"out", "asleep", "woken"}]

(***************************************************************************)
(* The wait channel holds the sleeping threads, each of them once: nobody  *)
(* sleeps where no V can find it.                                          *)
(***************************************************************************)
Asleep == {t \in Thread : pc[t] = "asleep"}
WchanExact == Lists(sem_wchan, Asleep)

(***************************************************************************)
(* While threads sleep, every unit of the count has a woken thread coming  *)
(* for it: a V that finds units left must wake a thread all the same,      *)
(* since an earlier V's thread may not have run yet.                       *)
(***************************************************************************)
NoLostWakeup == sem_wchan # <<>> => sem_count <= Cardinality(Woken)

(* The whole: an inductive invariant.                                      *)
SemaphoreInv == TypeOK /\ WchanExact /\ NoLostWakeup

(***************************************************************************)
(* A semaphore counts, and lets one of its callers go while units are left *)
(* (module CountingSemaphore).                                             *)
(***************************************************************************)
Counting == INSTANCE CountingSemaphore
    WITH count <- sem_count, in_P <- {t \in Thread : pc[t] # "out"}
ImplementsCounting == Counting!Spec
=============================================================================
