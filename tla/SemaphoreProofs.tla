-------------------------- MODULE SemaphoreProofs --------------------------
(***************************************************************************)
(* The semaphore's invariant, and that its steps are steps of a counting   *)
(* semaphore, for any number of threads and units.                         *)
(***************************************************************************)
EXTENDS Semaphore, TLAPS, FiniteSetTheorems

(***************************************************************************)
(* What sleeping and waking do to the list of a wait channel.              *)
(***************************************************************************)

(* An empty channel lists nobody.                                          *)
LEMMA ListsNone == Lists(<<>>, {})
BY DEF Lists

(* thread_switch puts a thread that was not on the channel at its end.     *)
LEMMA ListsAppend ==
    ASSUME NEW T, NEW w \in Seq(T), NEW S, Lists(w, S), NEW t \in T, t \notin S
    PROVE  /\ Append(w, t) \in Seq(T)
           /\ Append(w, t) # <<>>
           /\ Lists(Append(w, t), S \cup {t})
<1> DEFINE a == Append(w, t)
<1>1. a \in Seq(T) /\ Len(a) = Len(w) + 1 /\ a[Len(a)] = t
  OBVIOUS
<1>2. \A i \in 1 .. Len(w) : a[i] = w[i]
  OBVIOUS
<1>3. DOMAIN w = 1 .. Len(w) /\ DOMAIN a = 1 .. Len(w) + 1 /\ Len(w) \in Nat
  BY <1>1
<1> HIDE DEF a
<1>4. \A u \in S \cup {t} : \E i \in DOMAIN a : a[i] = u
  <2> SUFFICES ASSUME NEW u \in S \cup {t} PROVE \E i \in DOMAIN a : a[i] = u
    OBVIOUS
  <2>1. CASE u = t
    BY <1>1, <1>3, <2>1
  <2>2. CASE u \in S
    <3>1. PICK i \in DOMAIN w : w[i] = u
      BY <2>2 DEF Lists
    <3> QED BY <1>2, <1>3, <3>1
  <2> QED BY <2>1, <2>2
<1>5. \A i \in DOMAIN a : a[i] \in S \cup {t}
  BY <1>1, <1>2, <1>3 DEF Lists
<1>6. \A i, j \in DOMAIN a : a[i] = a[j] => i = j
  BY <1>1, <1>2, <1>3 DEF Lists
<1>7. a # <<>>
  BY <1>1, <1>3
<1> QED BY <1>1, <1>4, <1>5, <1>6, <1>7 DEF Lists, a

(* wchan_wakeone takes the thread at the head off the channel.             *)
LEMMA ListsTail ==
    ASSUME NEW T, NEW w \in Seq(T), w # <<>>, NEW S, Lists(w, S)
    PROVE  /\ Tail(w) \in Seq(T)
           /\ Head(w) \in T /\ Head(w) \in S
           /\ Lists(Tail(w), S \ {Head(w)})
<1> DEFINE b == Tail(w)  h == Head(w)
<1>1. /\ b \in Seq(T) /\ Len(b) = Len(w) - 1 /\ h = w[1] /\ h \in T
      /\ Len(w) \in Nat /\ Len(w) > 0
  OBVIOUS
<1>2. \A i \in 1 .. Len(w) - 1 : b[i] = w[i + 1]
  OBVIOUS
<1>3. DOMAIN w = 1 .. Len(w) /\ DOMAIN b = 1 .. Len(w) - 1
  BY <1>1
<1> HIDE DEF b, h
<1>4. h \in S
  BY <1>1, <1>3 DEF Lists
<1>5. \A u \in S \ {h} : \E i \in DOMAIN b : b[i] = u
  <2> SUFFICES ASSUME NEW u \in S, u # h PROVE \E i \in DOMAIN b : b[i] = u
    OBVIOUS
  <2>1. PICK i \in DOMAIN w : w[i] = u
    BY DEF Lists
  <2>2. i \in Nat /\ i > 1 /\ i <= Len(w)
    BY <1>1, <1>3, <2>1
  <2>3. i - 1 \in 1 .. Len(w) - 1 /\ (i - 1) + 1 = i
    BY <1>1, <2>2
  <2> QED BY <1>2, <1>3, <2>1, <2>3
<1>6. \A i \in DOMAIN b : b[i] \in S \ {h}
  <2> SUFFICES ASSUME NEW i \in 1 .. Len(w) - 1 PROVE b[i] \in S \ {h}
    BY <1>3
  <2>1. i + 1 \in DOMAIN w /\ 1 \in DOMAIN w /\ i + 1 # 1
    BY <1>1, <1>3
  <2> QED BY <1>1, <1>2, <2>1 DEF Lists
<1>7. \A i, j \in DOMAIN b : b[i] = b[j] => i = j
  <2> SUFFICES ASSUME NEW i \in 1 .. Len(w) - 1, NEW j \in 1 .. Len(w) - 1, b[i] = b[j]
               PROVE  i = j
    BY <1>3
  <2>1. i + 1 \in DOMAIN w /\ j + 1 \in DOMAIN w /\ w[i + 1] = w[j + 1]
    BY <1>1, <1>2, <1>3
  <2>2. i + 1 = j + 1
    BY <2>1 DEF Lists
  <2> QED BY <2>2
<1> QED BY <1>1, <1>4, <1>5, <1>6, <1>7 DEF Lists, b, h

-----------------------------------------------------------------------------
(* The woken threads are finitely many, at least one fewer without t.      *)
LEMMA WokenCard ==
    ASSUME NEW S, IsFiniteSet(S), NEW t
    PROVE  /\ Cardinality(S) \in Nat
           /\ IsFiniteSet(S \cup {t}) /\ IsFiniteSet(S \ {t})
           /\ t \notin S => Cardinality(S \cup {t}) = Cardinality(S) + 1
           /\ t \in S => Cardinality(S \ {t}) = Cardinality(S) - 1
<1>1. Cardinality(S) \in Nat
  BY FS_CardinalityType
<1>2. IsFiniteSet(S \cup {t})
      /\ (t \notin S => Cardinality(S \cup {t}) = Cardinality(S) + 1)
  BY FS_AddElement
<1>3. IsFiniteSet(S \ {t}) /\ (t \in S => Cardinality(S \ {t}) = Cardinality(S) - 1)
  BY FS_RemoveElement
<1> QED BY <1>1, <1>2, <1>3

LEMMA WokenFinite ==
    Woken \subseteq Thread /\ IsFiniteSet(Woken) /\ Cardinality(Woken) \in Nat
<1>1. Woken \subseteq Thread
  BY DEF Woken
<1>2. IsFiniteSet(Woken)
  BY <1>1, FS_Subset, ConstantsAssumption
<1> QED BY <1>1, <1>2, FS_CardinalityType

LEMMA InitInv == Init => SemaphoreInv
<1> SUFFICES ASSUME Init PROVE SemaphoreInv
  OBVIOUS
<1> USE DEF Init
<1>1. TypeOK
  BY ConstantsAssumption DEF TypeOK
<1>2. WchanExact
  <2>1. Asleep = {}
    BY DEF Asleep
  <2> QED BY <2>1, ListsNone DEF WchanExact
<1>3. NoLostWakeup
  BY DEF NoLostWakeup
<1> QED BY <1>1, <1>2, <1>3 DEF SemaphoreInv

(* A thread, new or woken, that takes a unit.                              *)
LEMMA TakeInv ==
    ASSUME SemaphoreInv, NEW t \in Thread, pc[t] # "asleep", Take(t)
    PROVE  SemaphoreInv'
<1> USE DEF SemaphoreInv, TypeOK, Take
<1>1. TypeOK'
  BY ConstantsAssumption
<1>2. Asleep' = Asleep /\ Woken' = Woken \ {t}
  BY DEF Asleep, Woken
<1>3. WchanExact'
  BY <1>2 DEF WchanExact
<1>4. NoLostWakeup'
  <2>1. /\ Cardinality(Woken) \in Nat
        /\ t \notin Woken => Woken' = Woken
        /\ t \in Woken => Cardinality(Woken') = Cardinality(Woken) - 1
    BY <1>2, WokenFinite, WokenCard
  <2>2. t \in Woken \/ t \notin Woken
    OBVIOUS
  <2>3. sem_count \in Nat /\ sem_count' = sem_count - 1 /\ sem_wchan' = sem_wchan
    BY ConstantsAssumption
  <2> QED BY <2>1, <2>2, <2>3 DEF NoLostWakeup
<1> QED BY <1>1, <1>3, <1>4

(* A thread, new or woken, that finds no unit and goes to sleep.           *)
LEMMA SleepInv ==
    ASSUME SemaphoreInv, NEW t \in Thread, pc[t] # "asleep", Sleep(t)
    PROVE  SemaphoreInv'
<1> USE DEF SemaphoreInv, TypeOK, Sleep
<1>1. t \notin Asleep /\ Asleep' = Asleep \cup {t}
  BY DEF Asleep
<1>2. sem_wchan' \in Seq(Thread) /\ Lists(sem_wchan', Asleep')
  BY <1>1, ListsAppend DEF WchanExact
<1>3. TypeOK'
  BY <1>2
<1>4. WchanExact'
  BY <1>2 DEF WchanExact
<1>5. NoLostWakeup'
  <2>1. Woken' \subseteq Thread
    BY DEF Woken
  <2>2. Cardinality(Woken') \in Nat
    BY <2>1, FS_Subset, FS_CardinalityType, ConstantsAssumption
  <2> QED BY <2>2 DEF NoLostWakeup
<1> QED BY <1>3, <1>4, <1>5

LEMMA VInv == ASSUME SemaphoreInv, V PROVE SemaphoreInv'
<1> USE DEF SemaphoreInv, TypeOK, V, WakeOne
<1>0. sem_count' \in 0 .. MaxCount /\ sem_count' = sem_count + 1 /\ sem_count \in Nat
  BY ConstantsAssumption
<1>1. CASE sem_wchan = <<>>
  <2>1. UNCHANGED <<sem_wchan, pc>>
    BY <1>1
  <2>2. Asleep' = Asleep
    BY <2>1 DEF Asleep
  <2>3. TypeOK' /\ WchanExact' /\ NoLostWakeup'
    BY <1>0, <1>1, <2>1, <2>2 DEF WchanExact, NoLostWakeup
  <2> QED BY <2>3
<1>2. CASE sem_wchan # <<>>
  <2> DEFINE h == Head(sem_wchan)
  <2>1. /\ Tail(sem_wchan) \in Seq(Thread) /\ h \in Thread /\ h \in Asleep
        /\ Lists(Tail(sem_wchan), Asleep \ {h})
    BY <1>2, ListsTail DEF WchanExact
  <2>2. sem_wchan' = Tail(sem_wchan) /\ pc' = [pc EXCEPT ![h] = "woken"]
    BY <1>2
  <2>3. TypeOK'
    BY <1>0, <2>1, <2>2
  <2>4. Asleep' = Asleep \ {h} /\ Woken' = Woken \cup {h} /\ h \notin Woken
    BY <2>1, <2>2 DEF Asleep, Woken
  <2>5. WchanExact'
    BY <2>1, <2>2, <2>4 DEF WchanExact
  <2>6. Cardinality(Woken') = Cardinality(Woken) + 1 /\ Cardinality(Woken) \in Nat
    BY <2>4, WokenFinite, WokenCard
  <2>7. NoLostWakeup'
    BY <1>0, <1>2, <2>6 DEF NoLostWakeup
  <2> QED BY <2>3, <2>5, <2>7
<1> QED BY <1>1, <1>2

LEMMA NextInv == SemaphoreInv /\ [Next]_vars => SemaphoreInv'
<1> SUFFICES ASSUME SemaphoreInv, [Next]_vars PROVE SemaphoreInv'
  OBVIOUS
<1>1. CASE V
  BY <1>1, VInv
<1>2. ASSUME NEW t \in Thread, P(t) PROVE SemaphoreInv'
  BY <1>2, TakeInv, SleepInv DEF P
<1>3. ASSUME NEW t \in Thread, PAgain(t) PROVE SemaphoreInv'
  BY <1>3, TakeInv, SleepInv DEF PAgain, Retest
<1>4. CASE UNCHANGED vars
  BY <1>4 DEF vars, SemaphoreInv, TypeOK, WchanExact, Asleep, NoLostWakeup, Woken
<1> QED BY <1>1, <1>2, <1>3, <1>4 DEF Next

(***************************************************************************)
(* Every reachable state of a semaphore satisfies its invariant.           *)
(***************************************************************************)
THEOREM SemaphoreCorrect == Spec => []SemaphoreInv
BY InitInv, NextInv, PTL DEF Spec

(***************************************************************************)
(* While threads sleep in P every unit left has a woken thread coming for  *)
(* it, however V, P and the wakeups interleave.                            *)
(***************************************************************************)
THEOREM WakeupsNotLost == Spec => []NoLostWakeup
<1>1. SemaphoreInv => NoLostWakeup
  BY DEF SemaphoreInv
<1> QED BY <1>1, SemaphoreCorrect, PTL

(***************************************************************************)
(* Every step of the semaphore is a step of a counting semaphore, or none: *)
(* P leaves with a unit that was there, and V adds one.                    *)
(***************************************************************************)
THEOREM SemaphoreCounts == Spec => Counting!Safety
<1>1. Init => Counting!Init
  BY DEF Init, Counting!Init
<1>2. SemaphoreInv /\ [Next]_vars => [Counting!Next]_(Counting!vars)
  <2> SUFFICES ASSUME SemaphoreInv, [Next]_vars
               PROVE  [Counting!Next]_(Counting!vars)
    OBVIOUS
  <2> USE DEF Counting!Next, Counting!vars, SemaphoreInv, TypeOK
  <2>1. CASE V
    <3>1. {t \in Thread : pc'[t] # "out"} = {t \in Thread : pc[t] # "out"}
      <4>1. CASE sem_wchan = <<>>
        BY <2>1, <4>1 DEF V, WakeOne
      <4>2. CASE sem_wchan # <<>>
        <5>1. Head(sem_wchan) \in Asleep
          BY <4>2, ListsTail DEF WchanExact
        <5> QED BY <2>1, <4>2, <5>1 DEF V, WakeOne, Asleep
      <4> QED BY <4>1, <4>2
    <3>2. Counting!V
      BY <2>1, <3>1 DEF V, Counting!V
    <3> QED BY <3>2
  <2>2. ASSUME NEW t \in Thread, P(t) PROVE [Counting!Next]_(Counting!vars)
    <3>1. CASE Take(t)
      <4>1. Counting!PassP(t)
        BY <2>2, <3>1 DEF P, Take, Counting!PassP
      <4> QED BY <4>1
    <3>2. CASE Sleep(t)
      <4>1. Counting!CallP(t)
        BY <2>2, <3>2 DEF P, Sleep, Counting!CallP
      <4> QED BY <4>1
    <3> QED BY <2>2, <3>1, <3>2 DEF P
  <2>3. ASSUME NEW t \in Thread, PAgain(t) PROVE [Counting!Next]_(Counting!vars)
    <3>1. CASE Take(t)
      <4>1. Counting!LeaveP(t)
        BY <2>3, <3>1 DEF PAgain, Take, Counting!LeaveP
      <4> QED BY <4>1 DEF Counting!SomeoneLeaves
    <3>2. CASE Sleep(t)
      <4>1. UNCHANGED Counting!vars
        BY <2>3, <3>2 DEF PAgain, Sleep
      <4> QED BY <4>1
    <3> QED BY <2>3, <3>1, <3>2 DEF PAgain, Retest
  <2>4. CASE UNCHANGED vars
    BY <2>4 DEF vars
  <2> QED BY <2>1, <2>2, <2>3, <2>4 DEF Next
<1> QED BY <1>1, <1>2, SemaphoreCorrect, PTL DEF Spec, Counting!Safety
=============================================================================
