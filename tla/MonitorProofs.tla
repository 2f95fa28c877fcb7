---------------------------- MODULE MonitorProofs ----------------------------
(***************************************************************************)
(* Sleep locks exclude, lose no wakeup and, with a condition variable,     *)
(* implement a monitor, for any number of threads.                         *)
(***************************************************************************)
EXTENDS Monitor, TLAPS

(***************************************************************************)
(* What sleeping and waking do to the list of a wait channel.              *)
(***************************************************************************)

(* An empty channel lists nobody.                                          *)
LEMMA ListsNone == Lists(<<>>, {})
BY DEF Lists

(* thread_switch puts a thread that was not on the channel at its end.     *)
LEMMA ListsAppend ==
    ASSUME NEW T, NEW w \in Seq(T), NEW S, Lists(w, S), NEW t \in T, t \notin S
    PROVE  /\ Append(w, t) \in Seq(T)
           /\ Append(w, t) # <<>>
           /\ Lists(Append(w, t), S \cup {t})
<1> DEFINE a == Append(w, t)
<1>1. a \in Seq(T) /\ Len(a) = Len(w) + 1 /\ a[Len(a)] = t
  OBVIOUS
<1>2. \A i \in 1 .. Len(w) : a[i] = w[i]
  OBVIOUS
<1>3. DOMAIN w = 1 .. Len(w) /\ DOMAIN a = 1 .. Len(w) + 1 /\ Len(w) \in Nat
  BY <1>1
<1> HIDE DEF a
<1>4. \A u \in S \cup {t} : \E i \in DOMAIN a : a[i] = u
  <2> SUFFICES ASSUME NEW u \in S \cup {t} PROVE \E i \in DOMAIN a : a[i] = u
    OBVIOUS
  <2>1. CASE u = t
    BY <1>1, <1>3, <2>1
  <2>2. CASE u \in S
    <3>1. PICK i \in DOMAIN w : w[i] = u
      BY <2>2 DEF Lists
    <3> QED BY <1>2, <1>3, <3>1
  <2> QED BY <2>1, <2>2
<1>5. \A i \in DOMAIN a : a[i] \in S \cup {t}
  BY <1>1, <1>2, <1>3 DEF Lists
<1>6. \A i, j \in DOMAIN a : a[i] = a[j] => i = j
  BY <1>1, <1>2, <1>3 DEF Lists
<1>7. a # <<>>
  BY <1>1, <1>3
<1> QED BY <1>1, <1>4, <1>5, <1>6, <1>7 DEF Lists, a

(* wchan_wakeone takes the thread at the head off the channel.             *)
LEMMA ListsTail ==
    ASSUME NEW T, NEW w \in Seq(T), w # <<>>, NEW S, Lists(w, S)
    PROVE  /\ Tail(w) \in Seq(T)
           /\ Head(w) \in T /\ Head(w) \in S
           /\ Lists(Tail(w), S \ {Head(w)})
<1> DEFINE b == Tail(w)  h == Head(w)
<1>1. /\ b \in Seq(T) /\ Len(b) = Len(w) - 1 /\ h = w[1] /\ h \in T
      /\ Len(w) \in Nat /\ Len(w) > 0
  OBVIOUS
<1>2. \A i \in 1 .. Len(w) - 1 : b[i] = w[i + 1]
  OBVIOUS
<1>3. DOMAIN w = 1 .. Len(w) /\ DOMAIN b = 1 .. Len(w) - 1
  BY <1>1
<1> HIDE DEF b, h
<1>4. h \in S
  BY <1>1, <1>3 DEF Lists
<1>5. \A u \in S \ {h} : \E i \in DOMAIN b : b[i] = u
  <2> SUFFICES ASSUME NEW u \in S, u # h PROVE \E i \in DOMAIN b : b[i] = u
    OBVIOUS
  <2>1. PICK i \in DOMAIN w : w[i] = u
    BY DEF Lists
  <2>2. i \in Nat /\ i > 1 /\ i <= Len(w)
    BY <1>1, <1>3, <2>1
  <2>3. i - 1 \in 1 .. Len(w) - 1 /\ (i - 1) + 1 = i
    BY <1>1, <2>2
  <2> QED BY <1>2, <1>3, <2>1, <2>3
<1>6. \A i \in DOMAIN b : b[i] \in S \ {h}
  <2> SUFFICES ASSUME NEW i \in 1 .. Len(w) - 1 PROVE b[i] \in S \ {h}
    BY <1>3
  <2>1. i + 1 \in DOMAIN w /\ 1 \in DOMAIN w /\ i + 1 # 1
    BY <1>1, <1>3
  <2> QED BY <1>1, <1>2, <2>1 DEF Lists
<1>7. \A i, j \in DOMAIN b : b[i] = b[j] => i = j
  <2> SUFFICES ASSUME NEW i \in 1 .. Len(w) - 1, NEW j \in 1 .. Len(w) - 1, b[i] = b[j]
               PROVE  i = j
    BY <1>3
  <2>1. i + 1 \in DOMAIN w /\ j + 1 \in DOMAIN w /\ w[i + 1] = w[j + 1]
    BY <1>1, <1>2, <1>3
  <2>2. i + 1 = j + 1
    BY <2>1 DEF Lists
  <2> QED BY <2>2
<1> QED BY <1>1, <1>4, <1>5, <1>6, <1>7 DEF Lists, b, h

-----------------------------------------------------------------------------
LEMMA InitInv == Init => MonitorInv
<1> SUFFICES ASSUME Init PROVE MonitorInv
  OBVIOUS
<1> USE DEF Init
<1>1. TypeOK /\ MutualExclusion /\ NoLostWakeup
  BY NullAssumption DEF TypeOK, Point, MutualExclusion, NoLostWakeup
<1>2. Sleeping("asleep") = {} /\ Sleeping("cvasleep") = {}
  BY DEF Sleeping
<1>3. WchansExact
  BY <1>2, ListsNone DEF WchansExact
<1> QED BY <1>1, <1>3 DEF MonitorInv

(* lock_acquire gets the lock, from either point.                          *)
LEMMA GetLockInv ==
    ASSUME MonitorInv, NEW t \in Thread, pc[t] \in {"out", "acquire"},
           GetLock(t), UNCHANGED <<cv_wchan, cv_wchanlock>>
    PROVE  MonitorInv'
<1> USE DEF MonitorInv, GetLock
<1>1. TypeOK'
  BY DEF TypeOK, Point
<1>2. \A u \in Thread : pc'[u] = IF u = t THEN "in" ELSE pc[u]
  BY DEF TypeOK
<1>3. MutualExclusion'
  BY <1>2, NullAssumption DEF MutualExclusion
<1>4. Sleeping("asleep")' = Sleeping("asleep")
      /\ Sleeping("cvasleep")' = Sleeping("cvasleep")
  BY <1>2 DEF Sleeping
<1>5. WchansExact'
  BY <1>4 DEF WchansExact
<1>6. NoLostWakeup'
  BY NullAssumption DEF NoLostWakeup
<1> QED BY <1>1, <1>3, <1>5, <1>6

(* lock_acquire finds the lock held, and sleeps.                           *)
LEMMA SleepOnLockInv ==
    ASSUME MonitorInv, NEW t \in Thread, pc[t] \in {"out", "acquire"},
           SleepOnLock(t), UNCHANGED <<cv_wchan, cv_wchanlock>>
    PROVE  MonitorInv'
<1> USE DEF MonitorInv, SleepOnLock
<1>1. \A u \in Thread : pc'[u] = IF u = t THEN "asleep" ELSE pc[u]
  BY DEF TypeOK
<1>2. /\ t \notin Sleeping("asleep")
      /\ Sleeping("asleep")' = Sleeping("asleep") \cup {t}
      /\ Sleeping("cvasleep")' = Sleeping("cvasleep")
  BY <1>1 DEF Sleeping
<1>3. lk_wchan' \in Seq(Thread) /\ Lists(lk_wchan', Sleeping("asleep")')
  BY <1>2, ListsAppend DEF WchansExact, TypeOK
<1>4. TypeOK'
  BY <1>3 DEF TypeOK, Point
<1>5. MutualExclusion'
  BY <1>1 DEF MutualExclusion
<1>6. WchansExact'
  BY <1>2, <1>3 DEF WchansExact
<1>7. NoLostWakeup'
  BY DEF NoLostWakeup
<1> QED BY <1>4, <1>5, <1>6, <1>7

(***************************************************************************)
(* The body of lock_release, called by the holder: what it does to the     *)
(* lock and its channel.  Its caller goes on at the point next.            *)
(***************************************************************************)
LEMMA DoReleaseFacts ==
    ASSUME MonitorInv, NEW t \in Thread, pc[t] \in {"in", "wait"},
           NEW next \in {"out", "released"}, DoRelease(t, next)
    PROVE  /\ lk_holder' = NULL
           /\ lk_wchan' \in Seq(Thread)
           /\ pc' \in [Thread -> Point]
           /\ \A u \in Thread : \/ pc'[u] = IF u = t THEN next ELSE pc[u]
                                \/ u # t /\ pc[u] = "asleep" /\ pc'[u] = "acquire"
           /\ Lists(lk_wchan', Sleeping("asleep")')
           /\ Sleeping("cvasleep")' = Sleeping("cvasleep")
           /\ lk_wchan' # <<>> => \E u \in Thread : pc'[u] = "acquire"
<1> USE DEF MonitorInv, TypeOK, DoRelease
<1>1. CASE lk_wchan = <<>>
  <2>1. lk_wchan' = lk_wchan /\ pc' = [pc EXCEPT ![t] = next]
    BY <1>1
  <2>2. \A u \in Thread : pc'[u] = IF u = t THEN next ELSE pc[u]
    BY <2>1
  <2>3. Sleeping("asleep")' = Sleeping("asleep")
        /\ Sleeping("cvasleep")' = Sleeping("cvasleep")
    BY <2>2 DEF Sleeping
  <2>4. pc' \in [Thread -> Point]
    BY <2>1 DEF Point
  <2> QED BY <1>1, <2>1, <2>2, <2>3, <2>4 DEF WchansExact
<1>2. CASE lk_wchan # <<>>
  <2> DEFINE h == Head(lk_wchan)
  <2>1. /\ Tail(lk_wchan) \in Seq(Thread) /\ h \in Thread
        /\ h \in Sleeping("asleep")
        /\ Lists(Tail(lk_wchan), Sleeping("asleep") \ {h})
    BY <1>2, ListsTail DEF WchansExact
  <2>2. lk_wchan' = Tail(lk_wchan)
        /\ pc' = [pc EXCEPT ![t] = next, ![h] = "acquire"]
    BY <1>2
  <2> HIDE DEF h
  <2>3. pc[h] = "asleep" /\ h # t
    BY <2>1 DEF Sleeping
  <2>4. \A u \in Thread : pc'[u] = IF u = h THEN "acquire"
                                   ELSE IF u = t THEN next ELSE pc[u]
    BY <2>1, <2>2, <2>3
  <2>5. Sleeping("asleep")' = Sleeping("asleep") \ {h}
        /\ Sleeping("cvasleep")' = Sleeping("cvasleep")
    BY <2>3, <2>4 DEF Sleeping
  <2>6. pc' \in [Thread -> Point]
    BY <2>1, <2>2 DEF Point
  <2>7. pc'[h] = "acquire"
    BY <2>1, <2>4
  <2>8. \A u \in Thread : \/ pc'[u] = IF u = t THEN next ELSE pc[u]
                          \/ u # t /\ pc[u] = "asleep" /\ pc'[u] = "acquire"
    BY <2>3, <2>4
  <2> QED BY <2>1, <2>2, <2>5, <2>6, <2>7, <2>8
<1> QED BY <1>1, <1>2

LEMMA ReleaseInv ==
    ASSUME MonitorInv, NEW t \in Thread, Release(t) PROVE MonitorInv'
<1> USE DEF MonitorInv, Release
<1>1. /\ lk_holder' = NULL
      /\ lk_wchan' \in Seq(Thread)
      /\ pc' \in [Thread -> Point]
      /\ \A u \in Thread : \/ pc'[u] = IF u = t THEN "out" ELSE pc[u]
                           \/ u # t /\ pc[u] = "asleep" /\ pc'[u] = "acquire"
      /\ Lists(lk_wchan', Sleeping("asleep")')
      /\ Sleeping("cvasleep")' = Sleeping("cvasleep")
      /\ lk_wchan' # <<>> => \E u \in Thread : pc'[u] = "acquire"
  BY DoReleaseFacts
<1>2. TypeOK'
  BY <1>1 DEF TypeOK
<1>3. MutualExclusion'
  BY <1>1, NullAssumption DEF MutualExclusion, TypeOK
<1>4. WchansExact' /\ NoLostWakeup'
  BY <1>1 DEF WchansExact, NoLostWakeup
<1> QED BY <1>2, <1>3, <1>4

LEMMA WaitReleaseInv ==
    ASSUME MonitorInv, NEW t \in Thread, WaitRelease(t) PROVE MonitorInv'
<1> USE DEF MonitorInv, WaitRelease
<1>1. /\ lk_holder' = NULL
      /\ lk_wchan' \in Seq(Thread)
      /\ pc' \in [Thread -> Point]
      /\ \A u \in Thread : \/ pc'[u] = IF u = t THEN "released" ELSE pc[u]
                           \/ u # t /\ pc[u] = "asleep" /\ pc'[u] = "acquire"
      /\ Lists(lk_wchan', Sleeping("asleep")')
      /\ Sleeping("cvasleep")' = Sleeping("cvasleep")
      /\ lk_wchan' # <<>> => \E u \in Thread : pc'[u] = "acquire"
  BY DoReleaseFacts
<1>2. TypeOK'
  BY <1>1 DEF TypeOK
<1>3. MutualExclusion'
  BY <1>1, NullAssumption DEF MutualExclusion, TypeOK
<1>4. WchansExact' /\ NoLostWakeup'
  BY <1>1 DEF WchansExact, NoLostWakeup
<1> QED BY <1>2, <1>3, <1>4

LEMMA WaitBeginInv ==
    ASSUME MonitorInv, NEW t \in Thread, WaitBegin(t) PROVE MonitorInv'
<1> USE DEF MonitorInv, WaitBegin
<1>1. TypeOK'
  BY DEF TypeOK, Point
<1>2. \A u \in Thread : pc'[u] = IF u = t THEN "wait" ELSE pc[u]
  BY DEF TypeOK
<1>3. MutualExclusion'
  BY <1>2, NullAssumption DEF MutualExclusion
<1>4. Sleeping("asleep")' = Sleeping("asleep")
      /\ Sleeping("cvasleep")' = Sleeping("cvasleep")
  BY <1>2 DEF Sleeping
<1>5. WchansExact'
  BY <1>4 DEF WchansExact
<1>6. lk_holder = t
  BY DEF MutualExclusion
<1>7. NoLostWakeup'
  BY <1>6, NullAssumption DEF NoLostWakeup
<1> QED BY <1>1, <1>3, <1>5, <1>7

LEMMA WaitSleepInv ==
    ASSUME MonitorInv, NEW t \in Thread, WaitSleep(t) PROVE MonitorInv'
<1> USE DEF MonitorInv, WaitSleep
<1>1. \A u \in Thread : pc'[u] = IF u = t THEN "cvasleep" ELSE pc[u]
  BY DEF TypeOK
<1>2. /\ t \notin Sleeping("cvasleep")
      /\ Sleeping("cvasleep")' = Sleeping("cvasleep") \cup {t}
      /\ Sleeping("asleep")' = Sleeping("asleep")
  BY <1>1 DEF Sleeping
<1>3. cv_wchan' \in Seq(Thread) /\ Lists(cv_wchan', Sleeping("cvasleep")')
  BY <1>2, ListsAppend DEF WchansExact, TypeOK
<1>4. TypeOK'
  BY <1>3 DEF TypeOK, Point
<1>5. MutualExclusion'
  BY <1>1, NullAssumption DEF MutualExclusion
<1>6. WchansExact'
  BY <1>2, <1>3 DEF WchansExact
<1>7. NoLostWakeup'
  BY <1>1 DEF NoLostWakeup
<1> QED BY <1>4, <1>5, <1>6, <1>7

LEMMA WaitReturnInv ==
    ASSUME MonitorInv, NEW t \in Thread, WaitReturn(t) PROVE MonitorInv'
<1> USE DEF MonitorInv, WaitReturn
<1>1. TypeOK'
  BY DEF TypeOK, Point
<1>2. \A u \in Thread : pc'[u] = IF u = t THEN "acquire" ELSE pc[u]
  BY DEF TypeOK
<1>3. MutualExclusion'
  BY <1>2 DEF MutualExclusion
<1>4. Sleeping("asleep")' = Sleeping("asleep")
      /\ Sleeping("cvasleep")' = Sleeping("cvasleep")
  BY <1>2 DEF Sleeping
<1>5. WchansExact' /\ NoLostWakeup'
  BY <1>2, <1>4 DEF WchansExact, NoLostWakeup
<1> QED BY <1>1, <1>3, <1>5

LEMMA SignalInv ==
    ASSUME MonitorInv, NEW t \in Thread, Signal(t) PROVE MonitorInv'
<1> USE DEF MonitorInv, Signal
<1> DEFINE h == Head(cv_wchan)
<1>1. /\ Tail(cv_wchan) \in Seq(Thread) /\ h \in Thread
      /\ h \in Sleeping("cvasleep")
      /\ Lists(Tail(cv_wchan), Sleeping("cvasleep") \ {h})
  BY ListsTail DEF WchansExact, TypeOK
<1>2. pc' = [pc EXCEPT ![h] = "signalled"] /\ cv_wchan' = Tail(cv_wchan)
  OBVIOUS
<1> HIDE DEF h
<1>3. \A u \in Thread : pc'[u] = IF u = h THEN "signalled" ELSE pc[u]
  BY <1>2 DEF TypeOK
<1>4. pc[h] = "cvasleep"
  BY <1>1 DEF Sleeping
<1>5. TypeOK'
  BY <1>1, <1>2 DEF TypeOK, Point
<1>6. MutualExclusion'
  BY <1>3, <1>4 DEF MutualExclusion
<1>7. Sleeping("asleep")' = Sleeping("asleep")
      /\ Sleeping("cvasleep")' = Sleeping("cvasleep") \ {h}
  BY <1>3, <1>4 DEF Sleeping
<1>8. WchansExact' /\ NoLostWakeup'
  BY <1>1, <1>2, <1>3, <1>4, <1>7 DEF WchansExact, NoLostWakeup
<1> QED BY <1>5, <1>6, <1>8

LEMMA BroadcastInv ==
    ASSUME MonitorInv, NEW t \in Thread, Broadcast(t) PROVE MonitorInv'
<1> USE DEF MonitorInv, Broadcast, AllSignalled
<1>1. \A u \in Thread : pc'[u] = IF pc[u] = "cvasleep" THEN "signalled" ELSE pc[u]
  OBVIOUS
<1>2. TypeOK'
  BY DEF TypeOK, Point
<1>3. MutualExclusion'
  BY <1>1 DEF MutualExclusion
<1>4. Sleeping("asleep")' = Sleeping("asleep") /\ Sleeping("cvasleep")' = {}
  BY <1>1 DEF Sleeping
<1>5. WchansExact' /\ NoLostWakeup'
  BY <1>1, <1>4, ListsNone DEF WchansExact, NoLostWakeup
<1> QED BY <1>2, <1>3, <1>5

LEMMA NextInv == MonitorInv /\ [Next]_vars => MonitorInv'
<1> SUFFICES ASSUME MonitorInv, [Next]_vars PROVE MonitorInv'
  OBVIOUS
<1>1. ASSUME NEW t \in Thread, Acquire(t) \/ AcquireAgain(t) PROVE MonitorInv'
  BY <1>1, GetLockInv, SleepOnLockInv DEF Acquire, AcquireAgain, Retest
<1>2. ASSUME NEW t \in Thread, Release(t) PROVE MonitorInv'
  BY <1>2, ReleaseInv
<1>3. ASSUME NEW t \in Thread,
             WaitBegin(t) \/ WaitRelease(t) \/ WaitSleep(t) \/ WaitReturn(t)
      PROVE  MonitorInv'
  BY <1>3, WaitBeginInv, WaitReleaseInv, WaitSleepInv, WaitReturnInv
<1>4. ASSUME NEW t \in Thread, Signal(t) \/ Broadcast(t) PROVE MonitorInv'
  BY <1>4, SignalInv, BroadcastInv
<1>5. CASE UNCHANGED vars
  BY <1>5 DEF vars, MonitorInv, TypeOK, MutualExclusion, WchansExact, Sleeping,
              NoLostWakeup
<1> QED BY <1>1, <1>2, <1>3, <1>4, <1>5 DEF Next

(***************************************************************************)
(* Every reachable state of a lock and its condition variable satisfies    *)
(* the invariant: exclusion, exact wait channels, no lost wakeup.          *)
(***************************************************************************)
THEOREM MonitorCorrect == Spec => []MonitorInv
BY InitInv, NextInv, PTL DEF Spec

(***************************************************************************)
(* Between lock_acquire and lock_release, also inside cv_wait up to its    *)
(* lock_release, a thread is the only one.                                 *)
(***************************************************************************)
THEOREM LockExcludes == Spec => []MutualExclusion
<1>1. MonitorInv => MutualExclusion
  BY DEF MonitorInv
<1> QED BY <1>1, MonitorCorrect, PTL

(***************************************************************************)
(* No thread is left in the lock's wait channel while the lock is free and *)
(* nobody has been woken for it.                                           *)
(***************************************************************************)
THEOREM LockWakeupsReach == Spec => []NoLostWakeup
<1>1. MonitorInv => NoLostWakeup
  BY DEF MonitorInv
<1> QED BY <1>1, MonitorCorrect, PTL

-----------------------------------------------------------------------------
(***************************************************************************)
(* The refinement.  A step moves one thread from a point to another; the   *)
(* abstract place changes with it, and nothing else of the mapping does.   *)
(***************************************************************************)
LEMMA PlaceOf ==
    /\ Place("out") = "out" /\ Place("acquire") = "entering"
    /\ Place("asleep") = "entering" /\ Place("signalled") = "entering"
    /\ Place("in") = "in" /\ Place("wait") = "in"
    /\ Place("released") = "waiting" /\ Place("cvasleep") = "waiting"
BY DEF Place

(* One thread t changes its place to q, and the others keep theirs.        *)
LEMMA PlacesChange ==
    ASSUME NEW t \in Thread, NEW q,
           \A u \in Thread : Place(pc'[u]) = IF u = t THEN q ELSE Place(pc[u])
    PROVE  Places' = [Places EXCEPT ![t] = q]
BY DEF Places

LEMMA AcquireRefines ==
    ASSUME MonitorInv, NEW t \in Thread, Acquire(t) \/ AcquireAgain(t)
    PROVE  [Abstract!Next]_(Abstract!vars)
<1> USE DEF Acquire, AcquireAgain, Retest
<1>1. pc \in [Thread -> Point] /\ pc[t] \in {"out", "acquire"} /\ cv_wchanlock # t
  BY DEF MonitorInv, TypeOK, MutualExclusion
<1>2. CASE GetLock(t)
  <2>1. \A u \in Thread : pc'[u] = IF u = t THEN "in" ELSE pc[u]
    BY <1>1, <1>2 DEF GetLock
  <2>2. Waiters' = Waiters
    BY <1>1, <2>1 DEF Waiters
  <2>3. Places' = [Places EXCEPT ![t] = "in"] /\ Places[t] \in {"out", "entering"}
    <3>1. \A u \in Thread : Place(pc'[u]) = IF u = t THEN "in" ELSE Place(pc[u])
      BY <2>1, PlaceOf
    <3>2. Places[t] \in {"out", "entering"}
      BY <1>1, PlaceOf DEF Places
    <3> QED BY <3>1, <3>2, PlacesChange
  <2>4. Abstract!Enter(t)
    BY <1>2, <2>2, <2>3 DEF Abstract!Enter, GetLock
  <2> QED BY <2>4 DEF Abstract!Next
<1>3. CASE SleepOnLock(t)
  <2>1. \A u \in Thread : pc'[u] = IF u = t THEN "asleep" ELSE pc[u]
    BY <1>1, <1>3 DEF SleepOnLock
  <2>2. Waiters' = Waiters
    BY <1>1, <2>1 DEF Waiters
  <2>3. Places' = [Places EXCEPT ![t] = "entering"]
    <3>1. \A u \in Thread : Place(pc'[u]) = IF u = t THEN "entering" ELSE Place(pc[u])
      BY <2>1, PlaceOf
    <3> QED BY <3>1, PlacesChange
  <2>4. CASE pc[t] = "out"
    <3>1. Places[t] = "out"
      BY <2>4, PlaceOf DEF Places
    <3>2. Abstract!Call(t)
      BY <1>3, <2>2, <2>3, <3>1 DEF Abstract!Call, SleepOnLock
    <3> QED BY <3>2 DEF Abstract!Next
  <2>5. CASE pc[t] = "acquire"
    <3>1. Places' = Places
      <4>1. \A u \in Thread : Place(pc'[u]) = Place(pc[u])
        BY <2>1, <2>5, PlaceOf
      <4> QED BY <4>1 DEF Places
    <3> QED BY <1>3, <2>2, <3>1 DEF Abstract!vars, SleepOnLock
  <2> QED BY <1>1, <2>4, <2>5
<1> QED BY <1>2, <1>3

LEMMA ReleaseRefines ==
    ASSUME MonitorInv, NEW t \in Thread, Release(t)
    PROVE  [Abstract!Next]_(Abstract!vars)
<1> USE DEF Release
<1>1. /\ pc \in [Thread -> Point] /\ lk_holder = t
      /\ \A u \in Thread : pc[u] \in {"wait", "released"} <=> cv_wchanlock = u
  BY DEF MonitorInv, TypeOK, MutualExclusion
<1>2. /\ lk_holder' = NULL
      /\ \A u \in Thread : \/ pc'[u] = IF u = t THEN "out" ELSE pc[u]
                           \/ u # t /\ pc[u] = "asleep" /\ pc'[u] = "acquire"
  BY DoReleaseFacts
<1>3. Waiters' = Waiters
  BY <1>1, <1>2 DEF Waiters
<1>4. Places' = [Places EXCEPT ![t] = "out"]
  <2>1. \A u \in Thread : Place(pc'[u]) = IF u = t THEN "out" ELSE Place(pc[u])
    BY <1>2, PlaceOf
  <2> QED BY <2>1, PlacesChange
<1>5. Abstract!Leave(t)
  BY <1>1, <1>2, <1>3, <1>4 DEF Abstract!Leave
<1> QED BY <1>5 DEF Abstract!Next

LEMMA WaitReleaseRefines ==
    ASSUME MonitorInv, NEW t \in Thread, WaitRelease(t)
    PROVE  [Abstract!Next]_(Abstract!vars)
<1> USE DEF WaitRelease
<1>1. /\ pc \in [Thread -> Point] /\ lk_holder = t /\ cv_wchanlock = t
  BY DEF MonitorInv, TypeOK, MutualExclusion
<1>2. /\ lk_holder' = NULL
      /\ \A u \in Thread : \/ pc'[u] = IF u = t THEN "released" ELSE pc[u]
                           \/ u # t /\ pc[u] = "asleep" /\ pc'[u] = "acquire"
  BY DoReleaseFacts
<1>3. Waiters' = Append(Waiters, t)
  BY <1>1, <1>2 DEF Waiters
<1>4. Places' = [Places EXCEPT ![t] = "waiting"]
  <2>1. \A u \in Thread : Place(pc'[u]) = IF u = t THEN "waiting" ELSE Place(pc[u])
    BY <1>2, PlaceOf
  <2> QED BY <2>1, PlacesChange
<1>5. Abstract!Wait(t)
  BY <1>1, <1>2, <1>3, <1>4 DEF Abstract!Wait
<1> QED BY <1>5 DEF Abstract!Next

LEMMA CvWaitRefines ==
    ASSUME MonitorInv, NEW t \in Thread,
           WaitBegin(t) \/ WaitSleep(t) \/ WaitReturn(t)
    PROVE  UNCHANGED Abstract!vars
<1>1. /\ pc \in [Thread -> Point] /\ NULL \notin Thread
      /\ \A u \in Thread : pc[u] \in {"wait", "released"} <=> cv_wchanlock = u
  BY NullAssumption DEF MonitorInv, TypeOK, MutualExclusion
<1>2. PICK p \in {"wait", "cvasleep", "acquire"} :
        \A u \in Thread : pc'[u] = IF u = t THEN p ELSE pc[u]
  BY <1>1 DEF WaitBegin, WaitSleep, WaitReturn
<1>3. lk_holder' = lk_holder
  BY DEF WaitBegin, WaitSleep, WaitReturn
<1>4. Waiters' = Waiters
  <2>1. CASE WaitBegin(t)
    BY <1>1, <2>1 DEF WaitBegin, Waiters
  <2>2. CASE WaitSleep(t)
    BY <1>1, <2>2 DEF WaitSleep, Waiters
  <2>3. CASE WaitReturn(t)
    BY <1>1, <2>3 DEF WaitReturn, Waiters
  <2> QED BY <2>1, <2>2, <2>3
<1>5. Places' = Places
  <2>1. \A u \in Thread : Place(pc'[u]) = Place(pc[u])
    BY <1>1 DEF WaitBegin, WaitSleep, WaitReturn, Place
  <2> QED BY <2>1 DEF Places
<1> QED BY <1>3, <1>4, <1>5 DEF Abstract!vars

LEMMA SignalRefines ==
    ASSUME MonitorInv, NEW t \in Thread, Signal(t) \/ Broadcast(t)
    PROVE  [Abstract!Next]_(Abstract!vars)
<1>1. /\ pc \in [Thread -> Point] /\ NULL \notin Thread /\ lk_holder = t
      /\ \A u \in Thread : pc[u] \in {"wait", "released"} <=> cv_wchanlock = u
  BY NullAssumption DEF MonitorInv, TypeOK, MutualExclusion, Signal, Broadcast
<1>2. cv_wchanlock = NULL /\ cv_wchanlock' = NULL /\ lk_holder' = lk_holder
  BY DEF Signal, Broadcast
<1>3. Waiters = cv_wchan /\ Waiters' = cv_wchan'
  BY <1>1, <1>2 DEF Waiters
<1>4. CASE Signal(t)
  <2> DEFINE h == Head(cv_wchan)
  <2>1. h \in Thread /\ h \in Sleeping("cvasleep")
    BY <1>4, ListsTail DEF Signal, MonitorInv, TypeOK, WchansExact
  <2>2. pc' = [pc EXCEPT ![h] = "signalled"] /\ cv_wchan' = Tail(cv_wchan)
        /\ cv_wchan # <<>>
    BY <1>4 DEF Signal
  <2> HIDE DEF h
  <2>3. \A u \in Thread : pc'[u] = IF u = h THEN "signalled" ELSE pc[u]
    BY <1>1, <2>2
  <2>4. Places' = [Places EXCEPT ![h] = "entering"]
    <3>1. \A u \in Thread : Place(pc'[u]) = IF u = h THEN "entering" ELSE Place(pc[u])
      BY <2>3, PlaceOf
    <3> QED BY <2>1, <3>1, PlacesChange
  <2>5. Abstract!Signal(t)
    BY <1>1, <1>2, <1>3, <2>2, <2>4 DEF Abstract!Signal, h
  <2> QED BY <2>5 DEF Abstract!Next
<1>5. CASE Broadcast(t)
  <2>1. \A u \in Thread : pc'[u] = IF pc[u] = "cvasleep" THEN "signalled" ELSE pc[u]
    BY <1>5 DEF Broadcast, AllSignalled
  <2>2. \A u \in Thread : pc[u] # "released" /\ pc[u] \in Point
    BY <1>1, <1>2
  <2>3. \A u \in Thread : Place(pc'[u]) = IF Place(pc[u]) = "waiting" THEN "entering"
                                         ELSE Place(pc[u])
    <3> SUFFICES ASSUME NEW u \in Thread
                 PROVE  Place(pc'[u]) = IF Place(pc[u]) = "waiting" THEN "entering"
                                        ELSE Place(pc[u])
      OBVIOUS
    <3>1. CASE pc[u] = "cvasleep"
      <4>1. pc'[u] = "signalled"
        BY <2>1, <3>1
      <4> QED BY <3>1, <4>1, PlaceOf
    <3>2. CASE pc[u] # "cvasleep"
      <4>1. pc'[u] = pc[u]
        BY <2>1, <3>2
      <4>2. pc[u] \in Point /\ pc[u] # "released"
        BY <2>2
      <4>3. Place(pc[u]) # "waiting"
        BY <3>2, <4>2, PlaceOf DEF Point
      <4> QED BY <4>1, <4>3
    <3> QED BY <3>1, <3>2
  <2>4. Places' = [u \in Thread |-> IF Places[u] = "waiting" THEN "entering"
                                    ELSE Places[u]]
    BY <2>3 DEF Places
  <2>5. Abstract!Broadcast(t)
    BY <1>1, <1>2, <1>3, <1>5, <2>4 DEF Abstract!Broadcast, Broadcast
  <2> QED BY <2>5 DEF Abstract!Next
<1> QED BY <1>4, <1>5

(***************************************************************************)
(* Every step of the lock and the condition variable is a step of a        *)
(* monitor, or none: cv_wait leaves and waits at once, and a signal goes   *)
(* to the longest waiting thread.                                          *)
(***************************************************************************)
THEOREM MonitorRefines == Spec => Abstract!Safety
<1>1. Init => Abstract!Init
  <2> SUFFICES ASSUME Init PROVE Abstract!Init
    OBVIOUS
  <2>1. Waiters = <<>> /\ Places = [t \in Thread |-> "out"]
    BY NullAssumption DEF Init, Waiters, Places, Place
  <2> QED BY <2>1 DEF Init, Abstract!Init
<1>2. MonitorInv /\ [Next]_vars => [Abstract!Next]_(Abstract!vars)
  <2> SUFFICES ASSUME MonitorInv, [Next]_vars PROVE [Abstract!Next]_(Abstract!vars)
    OBVIOUS
  <2>1. CASE UNCHANGED vars
    BY <2>1 DEF vars, Abstract!vars, Waiters, Places
  <2>2. ASSUME NEW t \in Thread, WaitBegin(t) \/ WaitSleep(t) \/ WaitReturn(t)
        PROVE  [Abstract!Next]_(Abstract!vars)
    BY <2>2, CvWaitRefines
  <2> QED BY <2>1, <2>2, AcquireRefines, ReleaseRefines, WaitReleaseRefines,
             SignalRefines DEF Next
<1> QED BY <1>1, <1>2, MonitorCorrect, PTL DEF Spec, Abstract!Safety
=============================================================================
