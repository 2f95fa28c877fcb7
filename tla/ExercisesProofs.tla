-------------------------- MODULE ExercisesProofs --------------------------
(***************************************************************************)
(* The four exercises for any number of rounds, adders, producers,         *)
(* consumers, items, slots, philosophers and courses: each has an          *)
(* inductive invariant, and each command leaves the other three alone.     *)
(***************************************************************************)
EXTENDS Exercises, Sequences, FiniteSetTheorems, WellFoundedInduction, TLAPS

-----------------------------------------------------------------------------
(* The exercises count sets as this module does.                           *)
LEMMA SameCounts ==
    /\ \A S : maths!Cardinality(S) = Cardinality(S)
    /\ \A S : buffer!Cardinality(S) = Cardinality(S)
    /\ \A S : buffer!IsFiniteSet(S) = IsFiniteSet(S)
BY DEF maths!Cardinality, buffer!Cardinality, buffer!IsFiniteSet, Cardinality, IsFiniteSet

-----------------------------------------------------------------------------
(* Two locks.  The scripts, step by step.                                  *)
Acquires(t, l) ==
    IF t = "bill" THEN IF l = "a" THEN {1, 7, 10} ELSE {4, 9}
                  ELSE IF l = "a" THEN {1, 8} ELSE {4, 7}
Releases(t, l) ==
    IF t = "bill" THEN IF l = "a" THEN {3, 8, 13} ELSE {6, 12}
                  ELSE IF l = "a" THEN {3, 10} ELSE {6, 11}
LastStep(t) == IF t = "bill" THEN 13 ELSE 11

(* The steps at which a thread has a lock.                                 *)
Keeps(t, l) ==
    IF t = "bill" THEN IF l = "a" THEN {2, 3, 8, 11, 12, 13} ELSE {5, 6, 10, 11, 12}
                  ELSE IF l = "a" THEN {2, 3, 9, 10} ELSE {5, 6, 8, 9, 10, 11}

LEMMA TheThreads == twolocks!Thread = {"bill", "ben"}
BY DEF twolocks!Thread, twolocks!Script

LEMMA TheScripts ==
    ASSUME NEW t \in twolocks!Thread
    PROVE  /\ twolocks!Over(t) = LastStep(t) + 1 /\ twolocks!Gone(t) = LastStep(t) + 2
           /\ DOMAIN twolocks!Script[t] = 1 .. LastStep(t)
           /\ \A n \in 1 .. LastStep(t) :
                  /\ twolocks!Script[t][n].op = "acquire" => \E l \in twolocks!Lock :
                         twolocks!Script[t][n].of = {l} /\ n \in Acquires(t, l)
                  /\ twolocks!Script[t][n].op = "release" => \E l \in twolocks!Lock :
                         twolocks!Script[t][n].of = {l} /\ n \in Releases(t, l)
                  /\ twolocks!Script[t][n].op = "section" => \A l \in twolocks!Lock :
                         n \notin Acquires(t, l) \cup Releases(t, l)
<1>1. CASE t = "bill"
  <2>1. twolocks!Script[t] = twolocks!Bill
    BY <1>1 DEF twolocks!Script
  <2>2. DOMAIN twolocks!Bill = 1 .. 13 /\ Len(twolocks!Bill) = 13
    BY DEF twolocks!Bill
  <2>3. \A n \in 1 .. 13 : n \in {1, 2, 3, 4, 5, 6, 7, 8, 9, 10, 11, 12, 13}
    OBVIOUS
  <2>4. /\ twolocks!Bill[1] = twolocks!acquire("a")
        /\ twolocks!Bill[2] = twolocks!section({"a"})
        /\ twolocks!Bill[3] = twolocks!release("a")
        /\ twolocks!Bill[4] = twolocks!acquire("b")
        /\ twolocks!Bill[5] = twolocks!section({"b"})
        /\ twolocks!Bill[6] = twolocks!release("b")
        /\ twolocks!Bill[7] = twolocks!acquire("a")
        /\ twolocks!Bill[8] = twolocks!release("a")
        /\ twolocks!Bill[9] = twolocks!acquire("b")
        /\ twolocks!Bill[10] = twolocks!acquire("a")
        /\ twolocks!Bill[11] = twolocks!section({"a", "b"})
        /\ twolocks!Bill[12] = twolocks!release("b") /\ twolocks!Bill[13] = twolocks!release("a")
    BY DEF twolocks!Bill
  <2> QED
    BY <1>1, <2>1, <2>2, <2>3, <2>4
       DEF LastStep, twolocks!Over, twolocks!Gone, twolocks!acquire, twolocks!release,
          twolocks!section, Acquires, Releases, twolocks!Lock
<1>2. CASE t = "ben"
  <2>1. twolocks!Script[t] = twolocks!Ben
    BY <1>2 DEF twolocks!Script
  <2>2. DOMAIN twolocks!Ben = 1 .. 11 /\ Len(twolocks!Ben) = 11
    BY DEF twolocks!Ben
  <2>3. \A n \in 1 .. 11 : n \in {1, 2, 3, 4, 5, 6, 7, 8, 9, 10, 11}
    OBVIOUS
  <2>4. /\ twolocks!Ben[1] = twolocks!acquire("a")
        /\ twolocks!Ben[2] = twolocks!section({"a"})
        /\ twolocks!Ben[3] = twolocks!release("a")
        /\ twolocks!Ben[4] = twolocks!acquire("b")
        /\ twolocks!Ben[5] = twolocks!section({"b"})
        /\ twolocks!Ben[6] = twolocks!release("b")
        /\ twolocks!Ben[7] = twolocks!acquire("b") /\ twolocks!Ben[8] = twolocks!acquire("a")
        /\ twolocks!Ben[9] = twolocks!section({"a", "b"})
        /\ twolocks!Ben[10] = twolocks!release("a") /\ twolocks!Ben[11] = twolocks!release("b")
    BY DEF twolocks!Ben
  <2> QED
    BY <1>2, <2>1, <2>2, <2>3, <2>4
       DEF LastStep, twolocks!Over, twolocks!Gone, twolocks!acquire, twolocks!release,
          twolocks!section, Acquires, Releases, twolocks!Lock
<1> QED
  BY <1>1, <1>2, TheThreads

(* A thread has a lock just at the steps between its acquire and its       *)
(* release of it; and twolocks() has waited for those who are gone.        *)
HasGone(t) == IF lock_pc[t] = twolocks!Gone(t) THEN 1 ELSE 0
LocksInv ==
    /\ lock_pc \in [twolocks!Thread -> 0 .. 15]
    /\ lock_holder \in [twolocks!Lock -> twolocks!Thread \cup {twolocks!Free}]
    /\ \A t \in twolocks!Thread : lock_pc[t] <= twolocks!Gone(t)
    /\ \A t \in twolocks!Thread, l \in twolocks!Lock :
           lock_holder[l] = t <=> lock_pc[t] \in Keeps(t, l)
    /\ lock_finished \in Nat /\ lock_waited \in Nat
    /\ lock_finished + lock_waited = HasGone("bill") + HasGone("ben")

LEMMA LocksInit == twolocks!Init => LocksInv
BY TheThreads, TheScripts DEF twolocks!Init, LocksInv, HasGone, twolocks!Lock, twolocks!Free,
   Keeps, LastStep

(* A step of the script.                                                   *)
LEMMA LocksScript ==
    ASSUME LocksInv, NEW t \in twolocks!Thread, twolocks!Acquire(t) \/ twolocks!Release(t) \/
        twolocks!Section(t)
    PROVE  LocksInv'
<1>1. /\ lock_pc[t] \in 1 .. LastStep(t) /\ lock_pc[t] < twolocks!Over(t)
      /\ twolocks!Over(t) = LastStep(t) + 1 /\ twolocks!Gone(t) = LastStep(t) + 2
  BY TheScripts DEF twolocks!Acquire, twolocks!Release, twolocks!Section, twolocks!At, LastStep
<1>2. /\ lock_pc' = [lock_pc EXCEPT ![t] = @ + 1] /\ lock_finished' = lock_finished
      /\ lock_waited' = lock_waited
  BY DEF twolocks!Acquire, twolocks!Release, twolocks!Section, twolocks!Step
<1>3. lock_pc' \in [twolocks!Thread -> 0 .. 15] /\ \A u \in twolocks!Thread :
          lock_pc'[u] <= twolocks!Gone(u)
  BY <1>1, <1>2 DEF LocksInv, LastStep
<1>4. \A u \in twolocks!Thread : lock_pc'[u] = IF u = t THEN lock_pc[t] + 1 ELSE lock_pc[u]
  BY <1>2 DEF LocksInv
<1>5. \A u \in twolocks!Thread : HasGone(u)' = HasGone(u)
  BY <1>1, <1>4 DEF HasGone, twolocks!Gone, twolocks!Over, LastStep, LocksInv
<1>6. CASE twolocks!Acquire(t)
  <2>1. PICK l \in twolocks!Lock : /\ twolocks!Script[t][lock_pc[t]].of = {l}
                                   /\ lock_pc[t] \in Acquires(t, l)
    BY <1>1, <1>6, TheScripts DEF twolocks!Acquire, twolocks!At
  <2>2. lock_holder' = [m \in twolocks!Lock |-> IF m = l THEN t ELSE lock_holder[m]] /\
            lock_holder[l] = twolocks!Free
    BY <1>6, <2>1 DEF twolocks!Acquire, twolocks!Locks
  <2>3. lock_holder' \in [twolocks!Lock -> twolocks!Thread \cup {twolocks!Free}]
    BY <2>2 DEF LocksInv
  <2>4. \A m \in twolocks!Lock : m # l => (lock_pc[t] + 1 \in Keeps(t, m) <=>
            lock_pc[t] \in Keeps(t, m))
    BY <2>1, TheThreads DEF Acquires, Keeps, twolocks!Lock
  <2>5. lock_pc[t] + 1 \in Keeps(t, l)
    BY <2>1, TheThreads DEF Acquires, Keeps, twolocks!Lock
  <2>6. \A u \in twolocks!Thread : lock_pc[u] \notin Keeps(u, l)
    BY <2>2, TheThreads DEF LocksInv, twolocks!Free
  <2>7. ASSUME NEW u \in twolocks!Thread, NEW m \in twolocks!Lock
        PROVE  lock_holder'[m] = u <=> lock_pc'[u] \in Keeps(u, m)
    BY <1>4, <2>2, <2>4, <2>5, <2>6 DEF LocksInv
  <2> QED
    BY <1>2, <1>3, <1>5, <2>3, <2>7, TheThreads DEF LocksInv
<1>7. CASE twolocks!Release(t)
  <2>1. PICK l \in twolocks!Lock : /\ twolocks!Script[t][lock_pc[t]].of = {l}
                                   /\ lock_pc[t] \in Releases(t, l)
    BY <1>1, <1>7, TheScripts DEF twolocks!Release, twolocks!At
  <2>2. lock_holder' = [m \in twolocks!Lock |-> IF m = l THEN twolocks!Free ELSE lock_holder[m]]
    BY <1>7, <2>1 DEF twolocks!Release, twolocks!Locks
  <2>3. lock_holder' \in [twolocks!Lock -> twolocks!Thread \cup {twolocks!Free}]
    BY <2>2 DEF LocksInv
  <2>4. \A m \in twolocks!Lock : m # l => (lock_pc[t] + 1 \in Keeps(t, m) <=>
            lock_pc[t] \in Keeps(t, m))
    BY <2>1, TheThreads DEF Releases, Keeps, twolocks!Lock
  <2>5. lock_pc[t] + 1 \notin Keeps(t, l) /\ lock_pc[t] \in Keeps(t, l)
    BY <2>1, TheThreads DEF Releases, Keeps, twolocks!Lock
  <2>6. \A u \in twolocks!Thread : u # t => lock_pc[u] \notin Keeps(u, l)
    BY <2>5 DEF LocksInv
  <2>7. twolocks!Free \notin twolocks!Thread
    BY TheThreads DEF twolocks!Free
  <2>8. ASSUME NEW u \in twolocks!Thread, NEW m \in twolocks!Lock
        PROVE  lock_holder'[m] = u <=> lock_pc'[u] \in Keeps(u, m)
    BY <1>4, <2>2, <2>4, <2>5, <2>6, <2>7 DEF LocksInv
  <2> QED
    BY <1>2, <1>3, <1>5, <2>3, <2>8, TheThreads DEF LocksInv
<1>8. CASE twolocks!Section(t)
  <2>1. \A l \in twolocks!Lock : lock_pc[t] \notin Acquires(t, l) \cup Releases(t, l)
    BY <1>1, <1>8, TheScripts DEF twolocks!Section, twolocks!At
  <2>2. \A l \in twolocks!Lock : lock_pc[t] + 1 \in Keeps(t, l) <=> lock_pc[t] \in Keeps(t, l)
    BY <1>1, <2>1, TheThreads DEF Acquires, Releases, Keeps, twolocks!Lock, LastStep
  <2>3. lock_holder' = lock_holder
    BY <1>8 DEF twolocks!Section
  <2>4. ASSUME NEW u \in twolocks!Thread, NEW m \in twolocks!Lock
        PROVE  lock_holder'[m] = u <=> lock_pc'[u] \in Keeps(u, m)
    BY <1>4, <2>2, <2>3 DEF LocksInv
  <2> QED
    BY <1>2, <1>3, <1>5, <2>3, <2>4, TheThreads DEF LocksInv
<1> QED
  BY <1>6, <1>7, <1>8

(* The start, the end of a round and of the loop: no lock is held.         *)
LEMMA LocksNone ==
    ASSUME LocksInv, NEW t \in twolocks!Thread, twolocks!Start(t) \/ twolocks!Round(t) \/
        twolocks!Bye(t)
    PROVE  LocksInv'
<1>1. /\ twolocks!Over(t) = LastStep(t) + 1 /\ twolocks!Gone(t) = LastStep(t) + 2
      /\ lock_pc[t] \in {0, twolocks!Over(t)}
  BY TheScripts DEF twolocks!Start, twolocks!Round, twolocks!Bye
<1>2. PICK n \in {1, twolocks!Gone(t)} : lock_pc' = [lock_pc EXCEPT ![t] = n] /\
          (n = twolocks!Gone(t) <=> twolocks!Bye(t))
  BY <1>1 DEF twolocks!Start, twolocks!Round, twolocks!Bye, LastStep
<1>3. lock_holder' = lock_holder /\ lock_waited' = lock_waited
  BY DEF twolocks!Start, twolocks!Round, twolocks!Bye
<1>4. \A u \in twolocks!Thread : lock_pc'[u] = IF u = t THEN n ELSE lock_pc[u]
  BY <1>2 DEF LocksInv
<1>5. \A l \in twolocks!Lock : lock_pc[t] \notin Keeps(t, l) /\ n \notin Keeps(t, l)
  BY <1>1, TheThreads DEF Keeps, LastStep, twolocks!Lock
<1>6. lock_pc' \in [twolocks!Thread -> 0 .. 15] /\ \A u \in twolocks!Thread :
          lock_pc'[u] <= twolocks!Gone(u)
  BY <1>1, <1>2, <1>4 DEF LocksInv, LastStep
<1>7. ASSUME NEW u \in twolocks!Thread, NEW l \in twolocks!Lock
      PROVE  lock_holder'[l] = u <=> lock_pc'[u] \in Keeps(u, l)
  BY <1>3, <1>4, <1>5 DEF LocksInv
<1>8. lock_finished' \in Nat /\ lock_finished' + lock_waited' = HasGone("bill")' + HasGone("ben")'
  <2>1. \A u \in twolocks!Thread : u # t => HasGone(u)' = HasGone(u)
    BY <1>4 DEF HasGone, twolocks!Gone, twolocks!Over
  <2>2. HasGone(t) = 0 /\ HasGone(t)' = IF twolocks!Bye(t) THEN 1 ELSE 0
    BY <1>1, <1>2, <1>4 DEF HasGone, twolocks!Gone, twolocks!Over, LastStep
  <2>3. lock_finished' = IF twolocks!Bye(t) THEN lock_finished + 1 ELSE lock_finished
    BY DEF twolocks!Start, twolocks!Round, twolocks!Bye
  <2>4. HasGone("bill") \in Nat /\ HasGone("ben") \in Nat
    BY DEF HasGone
  <2> QED
    BY <1>3, <2>1, <2>2, <2>3, <2>4, TheThreads DEF LocksInv
<1> QED
  BY <1>3, <1>6, <1>7, <1>8 DEF LocksInv

LEMMA LocksStep == LocksInv /\ [twolocks!Next]_(twolocks!vars) => LocksInv'
<1> SUFFICES ASSUME LocksInv, [twolocks!Next]_(twolocks!vars) PROVE LocksInv'
  OBVIOUS
<1>1. CASE twolocks!Wait
  BY <1>1 DEF twolocks!Wait, LocksInv, HasGone, twolocks!Gone, twolocks!Over
<1>2. CASE UNCHANGED twolocks!vars
  BY <1>2 DEF twolocks!vars, LocksInv, HasGone, twolocks!Gone, twolocks!Over
<1>3. CASE \E t \in twolocks!Thread : twolocks!Start(t) \/ twolocks!Runs(t)
  BY <1>3, LocksScript, LocksNone DEF twolocks!Runs
<1> QED
  BY <1>1, <1>2, <1>3 DEF twolocks!Next, twolocks!AtMenu

(* Ben asks for a lock while it has another at one step, Bill too: both    *)
(* have b and ask for a.                                                   *)
LEMMA LocksNoEmbrace == LocksInv => twolocks!NoDeadlyEmbrace
<1> SUFFICES ASSUME LocksInv, NEW t \in twolocks!Thread, twolocks!Blocked(t),
    NEW l \in twolocks!Locks(t),
                    lock_holder[l] # twolocks!Free, twolocks!Blocked(lock_holder[l])
             PROVE  FALSE
  BY DEF twolocks!NoDeadlyEmbrace
<1>1. PICK m \in twolocks!Lock : twolocks!Locks(t) = {m} /\ lock_pc[t] \in Acquires(t, m)
  BY TheScripts DEF twolocks!Blocked, twolocks!At, twolocks!Locks
<1>2. l = m /\ l \in twolocks!Lock
  BY <1>1
<1>3. PICK u \in twolocks!Thread : lock_holder[l] = u
  BY <1>2 DEF LocksInv
<1>4. twolocks!Blocked(u)
  BY <1>3
<1>5. PICK k \in twolocks!Lock : twolocks!Locks(u) = {k} /\ lock_pc[u] \in Acquires(u, k)
  BY <1>4, TheScripts DEF twolocks!Blocked, twolocks!At, twolocks!Locks
<1>6. lock_holder[k] # twolocks!Free
  BY <1>4, <1>5 DEF twolocks!Blocked
<1>7. PICK v \in twolocks!Thread : lock_holder[k] = v
  BY <1>6, <1>5 DEF LocksInv
<1>8. lock_pc[u] \in Keeps(u, l) /\ lock_pc[v] \in Keeps(v, k) /\ lock_pc[t] \in Acquires(t, l)
  BY <1>1, <1>2, <1>3, <1>7, <1>5 DEF LocksInv
<1>9. l = "b" /\ k = "a" /\ lock_pc[u] \in {8, 10}
  BY <1>2, <1>8, <1>5, TheThreads DEF Acquires, Keeps, twolocks!Lock
<1>10. v = t
  BY <1>2, <1>8, <1>9, <1>5, TheThreads DEF Acquires, Keeps, twolocks!Lock
<1> QED
  BY <1>8, <1>9, <1>10, TheThreads DEF Acquires, Keeps

LEMMA LocksReturnLast == LocksInv => twolocks!ReturnsLast
<1> SUFFICES ASSUME LocksInv, lock_waited = 2
             PROVE  /\ \A t \in twolocks!Thread : lock_pc[t] = twolocks!Gone(t)
                    /\ \A l \in twolocks!Lock : lock_holder[l] = twolocks!Free
  BY DEF twolocks!ReturnsLast
<1>1. HasGone("bill") = 1 /\ HasGone("ben") = 1
  BY DEF LocksInv, HasGone
<1>2. \A t \in twolocks!Thread : lock_pc[t] = twolocks!Gone(t)
  BY <1>1, TheThreads DEF HasGone
<1>3. \A t \in twolocks!Thread, l \in twolocks!Lock : lock_pc[t] \notin Keeps(t, l)
  BY <1>2, TheThreads, TheScripts DEF Keeps, LastStep, twolocks!Lock
<1> QED
  BY <1>2, <1>3 DEF LocksInv
-----------------------------------------------------------------------------
(* The sums of the first n statistics.                                     *)
IsSums(sums, f) ==
    sums = [n \in 0 .. NADDERS |-> IF n = 0 THEN 0 ELSE sums[n - 1] + f[n - 1]]

LEMMA MathsRange ==
    /\ NADDERS \in Nat /\ NADDERS > 0 /\ NADDS \in Nat /\ NADDS > 0
    /\ IsFiniteSet(maths!Adder) /\ Cardinality(maths!Adder) = NADDERS
    /\ maths!Free \notin maths!Adder
<1>1. NADDERS \in Nat /\ NADDERS > 0 /\ NADDS \in Nat /\ NADDS > 0
  BY ExercisesAssumption DEF maths!ConstantsOK
<1>2. IsFiniteSet(0 .. NADDERS - 1) /\ Cardinality(0 .. NADDERS - 1) = NADDERS
  BY <1>1, FS_Interval
<1> QED
  BY <1>1, <1>2 DEF maths!Adder, maths!Free

(* The least number of a set of numbers.                                   *)
LEMMA LeastOf ==
    ASSUME NEW S \in SUBSET Nat, S # {}
    PROVE  \E n \in S : \A k \in S : n <= k
<1> DEFINE Less == {ss \in Nat \X Nat : ss[1] < ss[2]}
<1>1. OpToRel(<, Nat) = Less
  BY Zenon DEF OpToRel
<1>2. IsWellFoundedOn(Less, Nat)
  BY <1>1, NatLessThanWellFounded
<1>3. \A n, k \in Nat : <<n, k>> \notin Less => k <= n
  OBVIOUS
<1> HIDE DEF Less
<1>4. PICK n \in S : \A k \in S : <<k, n>> \notin Less
  BY <1>2, WFMin
<1> QED
  BY <1>3, <1>4

(* Sums up to n exist: else there is a least n for which there are none.   *)
LEMMA SumsExist ==
    ASSUME NEW f \in [maths!Adder -> Nat]
    PROVE  \E sums : IsSums(sums, f)
<1> DEFINE UpTo(n, g) == /\ g \in [0 .. n -> Nat] /\ g[0] = 0
                         /\ \A k \in 1 .. n : g[k] = g[k - 1] + f[k - 1]
           Bad == {n \in 0 .. NADDERS : ~ \E g : UpTo(n, g)}
<1> USE MathsRange
<1>1. ASSUME Bad # {} PROVE FALSE
  <2>1. PICK n \in Bad : \A k \in Bad : n <= k
    <3>1. Bad \in SUBSET Nat
      OBVIOUS
    <3> HIDE DEF Bad
    <3> QED
      BY <1>1, <3>1, LeastOf
  <2>2. n \in 0 .. NADDERS
    OBVIOUS
  <2>3. CASE n = 0
    <3>1. UpTo(0, [k \in 0 .. 0 |-> 0])
      OBVIOUS
    <3> QED
      BY <2>3, <3>1
  <2>4. CASE n # 0
    <3>1. n - 1 \in 0 .. NADDERS /\ n - 1 \in maths!Adder /\ ~ n <= n - 1
      BY <2>2, <2>4 DEF maths!Adder
    <3>2. n - 1 \notin Bad
      <4> HIDE DEF Bad
      <4> QED
        BY <2>1, <3>1
    <3>3. PICK g : UpTo(n - 1, g)
      <4> HIDE DEF UpTo
      <4> QED
        BY <3>1, <3>2
    <3>4. UpTo(n, [k \in 0 .. n |-> IF k = n THEN g[n - 1] + f[n - 1] ELSE g[k]])
      <4> DEFINE h == [k \in 0 .. n |-> IF k = n THEN g[n - 1] + f[n - 1] ELSE g[k]]
      <4>1. g[n - 1] \in Nat /\ f[n - 1] \in Nat
        BY <2>2, <2>4, <3>1, <3>3
      <4>2. h \in [0 .. n -> Nat] /\ h[0] = 0
        BY <2>2, <2>4, <3>3, <4>1
      <4>3. ASSUME NEW k \in 1 .. n PROVE h[k] = h[k - 1] + f[k - 1]
        <5>1. k \in 0 .. n /\ k - 1 \in 0 .. n - 1
          BY <2>2
        <5>2. CASE k = n
          BY <5>1, <5>2
        <5>3. CASE k # n
          <6>1. k \in 1 .. n - 1
            BY <2>2, <5>3
          <6>2. g[k] = g[k - 1] + f[k - 1]
            BY <3>3, <6>1
          <6> QED
            BY <5>1, <5>3, <6>1, <6>2
        <5> QED
          BY <5>2, <5>3
      <4> QED
        BY <4>2, <4>3
    <3> QED
      BY <3>4
  <2> QED
    BY <2>3, <2>4
<1>2. PICK g : UpTo(NADDERS, g)
  <2>1. NADDERS \in 0 .. NADDERS
    OBVIOUS
  <2> HIDE DEF UpTo
  <2> QED
    BY <1>1, <2>1
<1>3. g = [n \in 0 .. NADDERS |-> IF n = 0 THEN 0 ELSE g[n - 1] + f[n - 1]]
  <2>1. \A n \in 0 .. NADDERS : g[n] = IF n = 0 THEN 0 ELSE g[n - 1] + f[n - 1]
    BY <1>2
  <2> QED
    BY <1>2, <2>1
<1> QED
  BY <1>3 DEF IsSums

LEMMA SumsNat ==
    ASSUME NEW f \in [maths!Adder -> Nat], NEW sums, IsSums(sums, f)
    PROVE  /\ sums[0] = 0
           /\ \A n \in 0 .. NADDERS : sums[n] \in Nat
           /\ \A n \in 1 .. NADDERS : n - 1 \in maths!Adder /\ sums[n] = sums[n - 1] + f[n - 1]
<1> USE MathsRange
<1>1. \A n \in 0 .. NADDERS : sums[n] = IF n = 0 THEN 0 ELSE sums[n - 1] + f[n - 1]
  <2> DEFINE G == [n \in 0 .. NADDERS |-> IF n = 0 THEN 0 ELSE sums[n - 1] + f[n - 1]]
  <2>1. \A n \in 0 .. NADDERS : G[n] = IF n = 0 THEN 0 ELSE sums[n - 1] + f[n - 1]
    OBVIOUS
  <2>2. sums = G
    BY DEF IsSums
  <2> HIDE DEF G
  <2> QED
    BY <2>1, <2>2
<1>2. \A n \in 1 .. NADDERS : n - 1 \in maths!Adder /\ n - 1 \in 0 .. NADDERS
  BY DEF maths!Adder
<1> DEFINE Bad == {n \in 0 .. NADDERS : sums[n] \notin Nat}
<1>3. ASSUME Bad # {} PROVE FALSE
  <2>1. PICK n \in Bad : \A k \in Bad : n <= k
    <3>1. Bad \in SUBSET Nat
      OBVIOUS
    <3> HIDE DEF Bad
    <3> QED
      BY <1>3, <3>1, LeastOf
  <2>2. n # 0
    BY <1>1
  <2>3. n - 1 \notin Bad /\ n \in 1 .. NADDERS
    BY <2>1, <2>2
  <2>4. sums[n - 1] \in Nat
    BY <1>2, <2>3
  <2>5. sums[n] = sums[n - 1] + f[n - 1]
    BY <1>1, <2>2
  <2>6. f[n - 1] \in Nat
    BY <1>2, <2>3
  <2> QED
    BY <2>4, <2>5, <2>6
<1> QED
  BY <1>1, <1>2, <1>3

(* One more for one adder is one more in all.                              *)
LEMMA SumsMore ==
    ASSUME NEW f \in [maths!Adder -> Nat], NEW sums, IsSums(sums, f),
           NEW t \in maths!Adder,
           NEW more, IsSums(more, [f EXCEPT ![t] = @ + 1])
    PROVE  more[NADDERS] = sums[NADDERS] + 1
<1> USE MathsRange
<1> DEFINE g == [f EXCEPT ![t] = @ + 1]
<1>1. /\ g \in [maths!Adder -> Nat] /\ g[t] = f[t] + 1
      /\ \A u \in maths!Adder : u # t => g[u] = f[u]
  OBVIOUS
<1>2. IsSums(more, g)
  OBVIOUS
<1> HIDE DEF g
<1>3. /\ sums[0] = 0 /\ more[0] = 0
      /\ \A n \in 0 .. NADDERS : sums[n] \in Nat /\ more[n] \in Nat
      /\ \A n \in 1 .. NADDERS : /\ n - 1 \in maths!Adder
                                 /\ sums[n] = sums[n - 1] + f[n - 1]
                                 /\ more[n] = more[n - 1] + g[n - 1]
  BY <1>1, <1>2, SumsNat
<1> DEFINE Bad == {n \in 0 .. NADDERS : more[n] # IF n > t THEN sums[n] + 1 ELSE sums[n]}
<1>4. ASSUME Bad # {} PROVE FALSE
  <2>1. PICK n \in Bad : \A k \in Bad : n <= k
    <3>1. Bad \in SUBSET Nat
      OBVIOUS
    <3> HIDE DEF Bad
    <3> QED
      BY <1>4, <3>1, LeastOf
  <2>2. t \in Nat /\ t < NADDERS
    BY DEF maths!Adder
  <2>3. n # 0
    BY <1>3, <2>2
  <2>4. n - 1 \notin Bad /\ n \in 1 .. NADDERS /\ n - 1 \in 0 .. NADDERS
    BY <2>1, <2>3
  <2>5. more[n - 1] = IF n - 1 > t THEN sums[n - 1] + 1 ELSE sums[n - 1]
    BY <2>4
  <2>6. /\ sums[n] = sums[n - 1] + f[n - 1] /\ more[n] = more[n - 1] + g[n - 1]
        /\ sums[n - 1] \in Nat /\ f[n - 1] \in Nat /\ n - 1 \in maths!Adder
    BY <1>3, <2>4
  <2>7. g[n - 1] = IF n - 1 = t THEN f[n - 1] + 1 ELSE f[n - 1]
    BY <1>1, <2>6
  <2>8. more[n] = IF n > t THEN sums[n] + 1 ELSE sums[n]
    <3>1. CASE n - 1 > t
      BY <2>2, <2>4, <2>5, <2>6, <2>7, <3>1
    <3>2. CASE n - 1 = t
      BY <2>2, <2>4, <2>5, <2>6, <2>7, <3>2
    <3>3. CASE n - 1 < t
      BY <2>2, <2>4, <2>5, <2>6, <2>7, <3>3
    <3> QED
      BY <2>2, <2>4, <3>1, <3>2, <3>3
  <2> QED
    BY <2>8
<1>5. NADDERS \in 0 .. NADDERS /\ NADDERS > t
  BY DEF maths!Adder
<1> QED
  BY <1>4, <1>5

LEMMA TotalIs == maths!Total = (CHOOSE sums : IsSums(sums, adder_counters))[NADDERS]
BY DEF maths!Total, IsSums

LEMMA TotalZero ==
    ASSUME adder_counters = [t \in maths!Adder |-> 0]
    PROVE  maths!Total = 0
<1> USE MathsRange
<1>1. PICK sums : /\ IsSums(sums, adder_counters)
                  /\ maths!Total = sums[NADDERS]
  BY SumsExist, TotalIs
<1>2. IsSums([n \in 0 .. NADDERS |-> 0], adder_counters)
  BY DEF IsSums, maths!Adder
<1> DEFINE Bad == {n \in 0 .. NADDERS : sums[n] # 0}
<1>3. ASSUME Bad # {} PROVE FALSE
  <2>1. PICK n \in Bad : \A k \in Bad : n <= k
    <3>1. Bad \in SUBSET Nat
      OBVIOUS
    <3> HIDE DEF Bad
    <3> QED
      BY <1>3, <3>1, LeastOf
  <2>2. /\ sums[0] = 0 /\ \A k \in 1 .. NADDERS : k - 1 \in maths!Adder /\
           sums[k] = sums[k - 1] + adder_counters[k - 1]
    BY <1>1, SumsNat
  <2>3. n # 0 /\ n - 1 \notin Bad /\ n \in 1 .. NADDERS
    BY <2>1, <2>2
  <2>4. sums[n - 1] = 0 /\ adder_counters[n - 1] = 0
    BY <2>2, <2>3
  <2> QED
    BY <2>2, <2>3, <2>4
<1> QED
  BY <1>1, <1>3

LEMMA TotalNat ==
    ASSUME adder_counters \in [maths!Adder -> Nat]
    PROVE  maths!Total \in Nat
<1>1. PICK sums : IsSums(sums, adder_counters) /\ maths!Total = sums[NADDERS]
  BY SumsExist, TotalIs
<1> QED
  BY <1>1, SumsNat, MathsRange

LEMMA TotalMore ==
    ASSUME adder_counters \in [maths!Adder -> Nat], NEW t \in maths!Adder,
           adder_counters' = [adder_counters EXCEPT ![t] = @ + 1]
    PROVE  maths!Total' = maths!Total + 1
<1>1. PICK sums : IsSums(sums, adder_counters) /\ maths!Total = sums[NADDERS]
  BY SumsExist, TotalIs
<1>2. adder_counters' \in [maths!Adder -> Nat]
  OBVIOUS
<1>3. maths!Total' = (CHOOSE more : IsSums(more, adder_counters'))[NADDERS]
  BY DEF maths!Total, IsSums
<1>4. PICK more : IsSums(more, adder_counters') /\ maths!Total' = more[NADDERS]
  BY <1>2, <1>3, SumsExist
<1> QED
  BY <1>1, <1>4, SumsMore

LEMMA TotalSame == adder_counters' = adder_counters => maths!Total' = maths!Total
BY DEF maths!Total
-----------------------------------------------------------------------------
(* The adders.  Who is inside holds the lock, and the locals follow the    *)
(* counter while it is held.                                               *)
MathsTypes ==
    /\ counter \in Nat /\ adder_counters \in [maths!Adder -> Nat]
    /\ sum_holder \in maths!Adder \cup {maths!Free}
    /\ a \in [maths!Adder -> Nat] /\ b \in [maths!Adder -> Nat] /\ sum_reg \in [maths!Adder -> Nat]
    /\ sum_pc \in [maths!Adder -> maths!Place]
    /\ sum_finished \in Nat /\ sum_waited \in 0 .. NADDERS

AdderHolds == \A t \in maths!Adder : sum_pc[t] \in maths!Locked <=> sum_holder = t

LocalsFollow ==
    \A t \in maths!Adder :
        /\ sum_pc[t] \in {"test", "load", "store"} => a[t] = counter
        /\ sum_pc[t] \in {"load", "store"} => a[t] < NADDS
        /\ sum_pc[t] = "store" => sum_reg[t] = counter
        /\ sum_pc[t] = "reread" => counter = a[t] + 1
        /\ sum_pc[t] \in {"release", "statistics", "check"} => b[t] = a[t] + 1
        /\ sum_pc[t] \in {"stop", "bye", "gone"} => counter = NADDS

GoneAdders == {t \in maths!Adder : sum_pc[t] = "gone"}
AddersFinish == sum_finished + sum_waited = Cardinality(GoneAdders)

MathsInv == MathsTypes /\ AdderHolds /\ LocalsFollow /\ AddersFinish /\ maths!CountExact

(* How many adders are at one of the places of ps, when one moves.         *)
Adding(ps) == {t \in maths!Adder : sum_pc[t] \in ps}
LEMMA AdderMoves ==
    ASSUME sum_pc \in [maths!Adder -> maths!Place], NEW ps,
           NEW t \in maths!Adder, NEW to, sum_pc' = [sum_pc EXCEPT ![t] = to]
    PROVE  /\ Cardinality(Adding(ps)) \in Nat /\ Cardinality(Adding(ps)') \in Nat
           /\ (sum_pc[t] \in ps <=> to \in ps)
                  => Cardinality(Adding(ps)') = Cardinality(Adding(ps))
           /\ sum_pc[t] \notin ps /\ to \in ps
                  => Cardinality(Adding(ps)') = Cardinality(Adding(ps)) + 1
           /\ sum_pc[t] \in ps /\ to \notin ps
                  => Cardinality(Adding(ps)') = Cardinality(Adding(ps)) - 1
<1> DEFINE B == {u \in maths!Adder \ {t} : sum_pc[u] \in ps}
<1>1. IsFiniteSet(Adding(ps)) /\ IsFiniteSet(Adding(ps)') /\ IsFiniteSet(B) /\ t \notin B
  BY MathsRange, FS_Subset DEF Adding
<1>2. /\ Adding(ps) = IF sum_pc[t] \in ps THEN B \cup {t} ELSE B
      /\ Adding(ps)' = IF to \in ps THEN B \cup {t} ELSE B
  BY DEF Adding
<1>3. Cardinality(B) \in Nat /\ Cardinality(B \cup {t}) = Cardinality(B) + 1
  BY <1>1, FS_AddElement, FS_CardinalityType
<1>4. Cardinality(Adding(ps)) \in Nat /\ Cardinality(Adding(ps)') \in Nat
  BY <1>1, FS_CardinalityType
<1> HIDE DEF B
<1> QED
  BY <1>2, <1>3, <1>4

UncountedIn == {"reread", "release", "statistics"}
Delayed == Cardinality(maths!Uncounted)
AddersLeft == Cardinality(GoneAdders)

LEMMA CountsOfAdders ==
    ASSUME sum_pc \in [maths!Adder -> maths!Place], NEW t \in maths!Adder, NEW to,
        sum_pc' = [sum_pc EXCEPT ![t] = to]
    PROVE  /\ Delayed \in Nat /\ AddersLeft \in Nat
           /\ Delayed' = IF sum_pc[t] \notin UncountedIn /\ to \in UncountedIn THEN Delayed + 1
                         ELSE IF sum_pc[t] \in UncountedIn /\ to \notin UncountedIn THEN Delayed - 1
                         ELSE Delayed
           /\ sum_pc[t] # "gone" => AddersLeft' = IF to = "gone" THEN AddersLeft + 1 ELSE AddersLeft
<1>1. /\ maths!Uncounted = Adding(UncountedIn) /\ maths!Uncounted' = Adding(UncountedIn)'
      /\ GoneAdders = Adding({"gone"}) /\ GoneAdders' = Adding({"gone"})'
  BY DEF maths!Uncounted, Adding, UncountedIn, GoneAdders
<1>2. /\ Delayed \in Nat /\ Delayed' \in Nat
      /\ (sum_pc[t] \in UncountedIn <=> to \in UncountedIn) => Delayed' = Delayed
      /\ sum_pc[t] \notin UncountedIn /\ to \in UncountedIn => Delayed' = Delayed + 1
      /\ sum_pc[t] \in UncountedIn /\ to \notin UncountedIn => Delayed' = Delayed - 1
  BY <1>1, AdderMoves DEF Delayed
<1>3. /\ AddersLeft \in Nat /\ AddersLeft' \in Nat
      /\ (sum_pc[t] \in {"gone"} <=> to \in {"gone"}) => AddersLeft' = AddersLeft
      /\ sum_pc[t] \notin {"gone"} /\ to \in {"gone"} => AddersLeft' = AddersLeft + 1
  BY <1>1, AdderMoves DEF AddersLeft
<1> QED
  BY <1>2, <1>3

LEMMA MathsInit == maths!Init => MathsInv
<1> SUFFICES ASSUME maths!Init PROVE MathsInv
  OBVIOUS
<1> USE MathsRange
<1>1. MathsTypes
  BY DEF maths!Init, MathsTypes, maths!Place
<1>2. AdderHolds
  BY DEF maths!Init, AdderHolds, maths!Locked
<1>3. LocalsFollow
  BY DEF maths!Init, LocalsFollow
<1>4. AddersFinish
  <2>1. GoneAdders = {}
    BY DEF maths!Init, GoneAdders
  <2> QED
    BY <2>1, FS_EmptySet DEF maths!Init, AddersFinish
<1>5. maths!CountExact
  <2>1. maths!Uncounted = {} /\ maths!Total = 0
    BY TotalZero DEF maths!Init, maths!Uncounted
  <2> QED
    BY SameCounts, <2>1, FS_EmptySet DEF maths!Init, maths!CountExact
<1> QED
  BY <1>1, <1>2, <1>3, <1>4, <1>5 DEF MathsInv

(* Two adders are never both inside.                                       *)
LEMMA AdderAlone ==
    ASSUME MathsInv, NEW t \in maths!Adder, sum_pc[t] \in maths!Locked
    PROVE  sum_holder = t /\ \A u \in maths!Adder : u # t => sum_pc[u] \notin maths!Locked
BY MathsRange DEF MathsInv, AdderHolds

(* The steps that leave the counter and its statistics alone.              *)
LEMMA AdderQuiet ==
    ASSUME MathsInv, NEW t \in maths!Adder, NEW to, sum_pc' = [sum_pc EXCEPT ![t] = to],
           sum_pc[t] \in UncountedIn <=> to \in UncountedIn,
           UNCHANGED <<counter, adder_counters>>
    PROVE  maths!CountExact'
<1>1. Delayed' = Delayed /\ maths!Total' = maths!Total
  BY CountsOfAdders, TotalSame DEF MathsInv, MathsTypes
<1> QED
  BY SameCounts, <1>1 DEF MathsInv, maths!CountExact, Delayed

LEMMA AdderStays ==
    ASSUME MathsInv, NEW t \in maths!Adder, NEW to, sum_pc' = [sum_pc EXCEPT ![t] = to],
           sum_pc[t] # "gone", to # "gone", UNCHANGED <<sum_finished, sum_waited>>
    PROVE  AddersFinish'
<1>1. AddersLeft' = AddersLeft
  BY CountsOfAdders DEF MathsInv, MathsTypes
<1> QED
  BY <1>1 DEF MathsInv, AddersFinish, AddersLeft

LEMMA AdderInv ==
    ASSUME MathsInv, NEW t \in maths!Adder, maths!Fork(t) \/ maths!adder(t)
    PROVE  MathsInv'
<1> USE MathsRange
<1>1. /\ MathsTypes /\ AdderHolds /\ LocalsFollow /\ sum_pc \in [maths!Adder -> maths!Place]
  BY DEF MathsInv, MathsTypes
<1>2. ASSUME NEW from, NEW to \in maths!Place, maths!Go(t, from, to)
      PROVE  /\ sum_pc[t] = from /\ sum_pc' = [sum_pc EXCEPT ![t] = to]
             /\ sum_pc' \in [maths!Adder -> maths!Place]
             /\ \A u \in maths!Adder : sum_pc'[u] = IF u = t THEN to ELSE sum_pc[u]
  BY <1>1, <1>2 DEF maths!Go
<1> USE DEF maths!locals, maths!mainVars
<1>3. CASE maths!Fork(t)
  <2>1. /\ sum_pc[t] = "unborn" /\ sum_pc' = [sum_pc EXCEPT ![t] = "flag"]
        /\ sum_pc' \in [maths!Adder -> maths!Place]
        /\ \A u \in maths!Adder : sum_pc'[u] = IF u = t THEN "flag" ELSE sum_pc[u]
        /\ UNCHANGED <<counter, adder_counters, sum_holder, a, b, sum_reg, sum_finished,
           sum_waited>>
    BY <1>2, <1>3 DEF maths!Fork, maths!Place
  <2>2. MathsTypes'
    BY <1>1, <2>1 DEF MathsTypes
  <2>3. AdderHolds'
    BY <1>1, <2>1 DEF AdderHolds, maths!Locked
  <2>4. LocalsFollow'
    BY <1>1, <2>1 DEF LocalsFollow
  <2>5. AddersFinish'
    BY <2>1, AdderStays
  <2>6. maths!CountExact'
    BY <2>1, AdderQuiet DEF UncountedIn
  <2> QED
    BY <2>2, <2>3, <2>4, <2>5, <2>6 DEF MathsInv
<1>4. CASE maths!Acquire(t)
  <2>1. /\ sum_pc[t] = "flag" /\ sum_pc' = [sum_pc EXCEPT ![t] = "read"]
        /\ sum_pc' \in [maths!Adder -> maths!Place]
        /\ \A u \in maths!Adder : sum_pc'[u] = IF u = t THEN "read" ELSE sum_pc[u]
        /\ UNCHANGED <<counter, adder_counters, a, b, sum_reg, sum_finished, sum_waited>>
        /\ sum_holder = maths!Free
        /\ sum_holder' = t
    BY <1>2, <1>4 DEF maths!Acquire, maths!Place
  <2>2. MathsTypes'
    BY <1>1, <2>1 DEF MathsTypes
  <2>3. AdderHolds'
    BY <1>1, <2>1 DEF AdderHolds, MathsTypes, maths!Locked
  <2>4. LocalsFollow'
    BY <1>1, <2>1 DEF LocalsFollow, MathsTypes
  <2>5. AddersFinish'
    BY <2>1, AdderStays
  <2>6. maths!CountExact'
    BY <2>1, AdderQuiet DEF UncountedIn
  <2> QED
    BY <2>2, <2>3, <2>4, <2>5, <2>6 DEF MathsInv
<1>5. CASE maths!Read(t)
  <2>1. /\ sum_pc[t] = "read" /\ sum_pc' = [sum_pc EXCEPT ![t] = "test"]
        /\ sum_pc' \in [maths!Adder -> maths!Place]
        /\ \A u \in maths!Adder : sum_pc'[u] = IF u = t THEN "test" ELSE sum_pc[u]
        /\ UNCHANGED <<counter, adder_counters, sum_holder, b, sum_reg, sum_finished, sum_waited>>
        /\ a' = [a EXCEPT ![t] = counter]
    BY <1>2, <1>5 DEF maths!Read, maths!Place
  <2>2. MathsTypes'
    BY <1>1, <2>1 DEF MathsTypes
  <2>3. AdderHolds'
    BY <1>1, <2>1 DEF AdderHolds, MathsTypes, maths!Locked
  <2>4. LocalsFollow'
    BY <1>1, <2>1 DEF LocalsFollow, MathsTypes
  <2>5. AddersFinish'
    BY <2>1, AdderStays
  <2>6. maths!CountExact'
    BY <2>1, AdderQuiet DEF UncountedIn
  <2> QED
    BY <2>2, <2>3, <2>4, <2>5, <2>6 DEF MathsInv
<1>6. CASE maths!Load(t)
  <2>1. /\ sum_pc[t] = "load" /\ sum_pc' = [sum_pc EXCEPT ![t] = "store"]
        /\ sum_pc' \in [maths!Adder -> maths!Place]
        /\ \A u \in maths!Adder : sum_pc'[u] = IF u = t THEN "store" ELSE sum_pc[u]
        /\ UNCHANGED <<counter, adder_counters, sum_holder, a, b, sum_finished, sum_waited>>
        /\ sum_reg' = [sum_reg EXCEPT ![t] = counter]
    BY <1>2, <1>6 DEF maths!Load, maths!Place
  <2>2. MathsTypes'
    BY <1>1, <2>1 DEF MathsTypes
  <2>3. AdderHolds'
    BY <1>1, <2>1 DEF AdderHolds, MathsTypes, maths!Locked
  <2>4. LocalsFollow'
    BY <1>1, <2>1 DEF LocalsFollow, MathsTypes
  <2>5. AddersFinish'
    BY <2>1, AdderStays
  <2>6. maths!CountExact'
    BY <2>1, AdderQuiet DEF UncountedIn
  <2> QED
    BY <2>2, <2>3, <2>4, <2>5, <2>6 DEF MathsInv
<1>7. CASE maths!Reread(t)
  <2>1. /\ sum_pc[t] = "reread" /\ sum_pc' = [sum_pc EXCEPT ![t] = "release"]
        /\ sum_pc' \in [maths!Adder -> maths!Place]
        /\ \A u \in maths!Adder : sum_pc'[u] = IF u = t THEN "release" ELSE sum_pc[u]
        /\ UNCHANGED <<counter, adder_counters, sum_holder, a, sum_reg, sum_finished, sum_waited>>
        /\ b' = [b EXCEPT ![t] = counter]
    BY <1>2, <1>7 DEF maths!Reread, maths!Place
  <2>2. MathsTypes'
    BY <1>1, <2>1 DEF MathsTypes
  <2>3. AdderHolds'
    BY <1>1, <2>1 DEF AdderHolds, MathsTypes, maths!Locked
  <2>4. LocalsFollow'
    BY <1>1, <2>1 DEF LocalsFollow, MathsTypes
  <2>5. AddersFinish'
    BY <2>1, AdderStays
  <2>6. maths!CountExact'
    BY <2>1, AdderQuiet DEF UncountedIn
  <2> QED
    BY <2>2, <2>3, <2>4, <2>5, <2>6 DEF MathsInv
<1>8. CASE maths!Release(t)
  <2>1. /\ sum_pc[t] = "release" /\ sum_pc' = [sum_pc EXCEPT ![t] = "statistics"]
        /\ sum_pc' \in [maths!Adder -> maths!Place]
        /\ \A u \in maths!Adder : sum_pc'[u] = IF u = t THEN "statistics" ELSE sum_pc[u]
        /\ UNCHANGED <<counter, adder_counters, a, b, sum_reg, sum_finished, sum_waited>>
        /\ sum_holder' = maths!Free
    BY <1>2, <1>8 DEF maths!Release, maths!Place
  <2>2. MathsTypes'
    BY <1>1, <2>1 DEF MathsTypes
  <2>3. AdderHolds'
    BY <1>1, <2>1 DEF AdderHolds, MathsTypes, maths!Locked
  <2>4. LocalsFollow'
    BY <1>1, <2>1 DEF LocalsFollow, MathsTypes
  <2>5. AddersFinish'
    BY <2>1, AdderStays
  <2>6. maths!CountExact'
    BY <2>1, AdderQuiet DEF UncountedIn
  <2> QED
    BY <2>2, <2>3, <2>4, <2>5, <2>6 DEF MathsInv
<1>9. CASE maths!Check(t)
  <2>1. /\ sum_pc[t] = "check" /\ sum_pc' = [sum_pc EXCEPT ![t] = "flag"]
        /\ sum_pc' \in [maths!Adder -> maths!Place]
        /\ \A u \in maths!Adder : sum_pc'[u] = IF u = t THEN "flag" ELSE sum_pc[u]
        /\ UNCHANGED <<counter, adder_counters, sum_holder, sum_finished, sum_waited>>
        /\ a' = [a EXCEPT ![t] = 0]
        /\ b' = [b EXCEPT ![t] = 0]
        /\ sum_reg' = [sum_reg EXCEPT ![t] = 0]
    BY <1>2, <1>9 DEF maths!Check, maths!Place
  <2>2. MathsTypes'
    BY <1>1, <2>1 DEF MathsTypes
  <2>3. AdderHolds'
    BY <1>1, <2>1 DEF AdderHolds, MathsTypes, maths!Locked
  <2>4. LocalsFollow'
    BY <1>1, <2>1 DEF LocalsFollow, MathsTypes
  <2>5. AddersFinish'
    BY <2>1, AdderStays
  <2>6. maths!CountExact'
    BY <2>1, AdderQuiet DEF UncountedIn
  <2> QED
    BY <2>2, <2>3, <2>4, <2>5, <2>6 DEF MathsInv
<1>10. CASE maths!Stop(t)
  <2>1. /\ sum_pc[t] = "stop" /\ sum_pc' = [sum_pc EXCEPT ![t] = "bye"]
        /\ sum_pc' \in [maths!Adder -> maths!Place]
        /\ \A u \in maths!Adder : sum_pc'[u] = IF u = t THEN "bye" ELSE sum_pc[u]
        /\ UNCHANGED <<counter, adder_counters, b, sum_reg, sum_finished, sum_waited>>
        /\ sum_holder' = maths!Free
        /\ a' = [a EXCEPT ![t] = 0]
    BY <1>2, <1>10 DEF maths!Stop, maths!Place
  <2>2. MathsTypes'
    BY <1>1, <2>1 DEF MathsTypes
  <2>3. AdderHolds'
    BY <1>1, <2>1 DEF AdderHolds, MathsTypes, maths!Locked
  <2>4. LocalsFollow'
    BY <1>1, <2>1 DEF LocalsFollow, MathsTypes
  <2>5. AddersFinish'
    BY <2>1, AdderStays
  <2>6. maths!CountExact'
    BY <2>1, AdderQuiet DEF UncountedIn
  <2> QED
    BY <2>2, <2>3, <2>4, <2>5, <2>6 DEF MathsInv
<1>11. CASE maths!Test(t)
  <2>1. PICK to \in {"load", "stop"} :
            /\ sum_pc[t] = "test" /\ sum_pc' = [sum_pc EXCEPT ![t] = to]
            /\ sum_pc' \in [maths!Adder -> maths!Place]
            /\ \A u \in maths!Adder : sum_pc'[u] = IF u = t THEN to ELSE sum_pc[u]
            /\ to = "load" <=> a[t] < NADDS
            /\ UNCHANGED <<counter, adder_counters, sum_holder, a, b, sum_reg, sum_finished,
               sum_waited>>
    <3>1. CASE a[t] < NADDS
      BY <1>2, <1>11, <3>1 DEF maths!Test, maths!Place
    <3>2. CASE ~ a[t] < NADDS
      BY <1>2, <1>11, <3>2 DEF maths!Test, maths!Place
    <3> QED
      BY <3>1, <3>2
  <2>2. MathsTypes'
    BY <1>1, <2>1 DEF MathsTypes
  <2>3. AdderHolds'
    BY <1>1, <2>1 DEF AdderHolds, maths!Locked
  <2>4. LocalsFollow'
    <3>1. to = "stop" => counter = NADDS
      BY <1>1, <2>1 DEF MathsInv, MathsTypes, LocalsFollow, maths!CountExact
    <3> QED
      BY <1>1, <2>1, <3>1 DEF LocalsFollow
  <2>5. AddersFinish'
    BY <2>1, AdderStays
  <2>6. maths!CountExact'
    BY <2>1, AdderQuiet DEF UncountedIn
  <2> QED
    BY <2>2, <2>3, <2>4, <2>5, <2>6 DEF MathsInv
<1>12. CASE maths!Store(t)
  <2>1. /\ sum_pc[t] = "store" /\ sum_pc' = [sum_pc EXCEPT ![t] = "reread"]
        /\ sum_pc' \in [maths!Adder -> maths!Place]
        /\ \A u \in maths!Adder : sum_pc'[u] = IF u = t THEN "reread" ELSE sum_pc[u]
        /\ counter' = sum_reg[t] + 1
        /\ UNCHANGED <<adder_counters, sum_holder, a, b, sum_reg, sum_finished, sum_waited>>
    BY <1>2, <1>12 DEF maths!adder, maths!Store, maths!Place
  <2>2. /\ counter' = counter + 1 /\ counter' = a[t] + 1 /\ counter < NADDS
        /\ counter \in Nat
    BY <1>1, <2>1 DEF LocalsFollow, MathsTypes
  <2>3. \A u \in maths!Adder : u # t => sum_pc[u] \notin maths!Locked
    BY <2>1, AdderAlone DEF maths!Locked
  <2>4. MathsTypes'
    BY <1>1, <2>1, <2>2 DEF MathsTypes
  <2>5. AdderHolds'
    BY <1>1, <2>1 DEF AdderHolds, maths!Locked
  <2>6. LocalsFollow'
    <3>1. \A u \in maths!Adder : sum_pc[u] \notin {"stop", "bye", "gone"}
      BY <1>1, <2>2 DEF LocalsFollow
    <3> QED
      BY <1>1, <2>1, <2>2, <2>3, <3>1 DEF LocalsFollow, maths!Locked
  <2>7. AddersFinish'
    BY <2>1, AdderStays
  <2>8. maths!CountExact'
    <3>1. Delayed' = Delayed + 1 /\ Delayed \in Nat
      BY <1>1, <2>1, CountsOfAdders DEF UncountedIn
    <3>2. maths!Total' = maths!Total /\ maths!Total \in Nat
      BY <1>1, <2>1, TotalSame, TotalNat DEF MathsTypes
    <3> QED
      BY SameCounts, <2>2, <3>1, <3>2 DEF MathsInv, maths!CountExact, Delayed
  <2> QED
    BY <2>4, <2>5, <2>6, <2>7, <2>8 DEF MathsInv
<1>13. CASE maths!Statistics(t)
  <2>1. /\ sum_pc[t] = "statistics" /\ sum_pc' = [sum_pc EXCEPT ![t] = "check"]
        /\ sum_pc' \in [maths!Adder -> maths!Place]
        /\ \A u \in maths!Adder : sum_pc'[u] = IF u = t THEN "check" ELSE sum_pc[u]
        /\ adder_counters' = [adder_counters EXCEPT ![t] = @ + 1]
        /\ UNCHANGED <<counter, sum_holder, a, b, sum_reg, sum_finished, sum_waited>>
    BY <1>2, <1>13 DEF maths!adder, maths!Statistics, maths!Place
  <2>2. MathsTypes'
    BY <1>1, <2>1 DEF MathsTypes
  <2>3. AdderHolds'
    BY <1>1, <2>1 DEF AdderHolds, maths!Locked
  <2>4. LocalsFollow'
    BY <1>1, <2>1 DEF LocalsFollow
  <2>5. AddersFinish'
    BY <2>1, AdderStays
  <2>6. maths!CountExact'
    <3>1. Delayed' = Delayed - 1 /\ Delayed \in Nat
      BY <1>1, <2>1, CountsOfAdders DEF UncountedIn
    <3>2. maths!Total' = maths!Total + 1 /\ maths!Total \in Nat
      BY <1>1, <2>1, TotalMore, TotalNat DEF MathsTypes
    <3> QED
      BY SameCounts, <2>1, <3>1, <3>2 DEF MathsInv, maths!CountExact, Delayed
  <2> QED
    BY <2>2, <2>3, <2>4, <2>5, <2>6 DEF MathsInv
<1>14. CASE maths!Bye(t)
  <2>1. /\ sum_pc[t] = "bye" /\ sum_pc' = [sum_pc EXCEPT ![t] = "gone"]
        /\ sum_pc' \in [maths!Adder -> maths!Place]
        /\ \A u \in maths!Adder : sum_pc'[u] = IF u = t THEN "gone" ELSE sum_pc[u]
        /\ sum_finished' = sum_finished + 1
        /\ UNCHANGED <<counter, adder_counters, sum_holder, a, b, sum_reg, sum_waited>>
    BY <1>2, <1>14 DEF maths!adder, maths!Bye, maths!Place
  <2>2. MathsTypes'
    BY <1>1, <2>1 DEF MathsTypes
  <2>3. AdderHolds'
    BY <1>1, <2>1 DEF AdderHolds, maths!Locked
  <2>4. LocalsFollow'
    BY <1>1, <2>1 DEF LocalsFollow
  <2>5. AddersFinish'
    <3>1. AddersLeft' = AddersLeft + 1
      BY <1>1, <2>1, CountsOfAdders
    <3> QED
      BY <1>1, <2>1, <3>1 DEF MathsInv, MathsTypes, AddersFinish, AddersLeft
  <2>6. maths!CountExact'
    BY <2>1, AdderQuiet DEF UncountedIn
  <2> QED
    BY <2>2, <2>3, <2>4, <2>5, <2>6 DEF MathsInv
<1> QED
  BY <1>3, <1>4, <1>5, <1>6, <1>7, <1>8, <1>9, <1>10, <1>11, <1>12, <1>13, <1>14 DEF maths!adder

(* All adders are gone once the main thread has waited for each.           *)
LEMMA AllAddersGone ==
    ASSUME MathsInv, maths!Returned
    PROVE  /\ \A t \in maths!Adder : sum_pc[t] = "gone"
           /\ sum_finished = 0 /\ sum_holder = maths!Free /\ counter = NADDS
           /\ maths!Uncounted = {} /\ maths!Total = NADDS
<1> USE MathsRange
<1>1. /\ IsFiniteSet(GoneAdders) /\ GoneAdders \subseteq maths!Adder
      /\ Cardinality(GoneAdders) \in Nat /\ Cardinality(GoneAdders) <= NADDERS
  BY FS_Subset, FS_CardinalityType DEF GoneAdders
<1>2. sum_finished + NADDERS = Cardinality(GoneAdders) /\ sum_finished \in Nat
  BY DEF MathsInv, MathsTypes, AddersFinish, maths!Returned
<1>3. sum_finished = 0 /\ Cardinality(GoneAdders) = Cardinality(maths!Adder)
  BY <1>1, <1>2
<1>4. GoneAdders = maths!Adder
  BY <1>1, <1>3, FS_Subset
<1>5. \A t \in maths!Adder : sum_pc[t] = "gone"
  BY <1>4 DEF GoneAdders
<1>6. sum_holder = maths!Free
  BY <1>5 DEF MathsInv, MathsTypes, AdderHolds, maths!Locked
<1>7. counter = NADDS
  <2>1. 0 \in maths!Adder
    BY DEF maths!Adder
  <2> QED
    BY <1>5, <2>1 DEF MathsInv, LocalsFollow
<1>8. maths!Uncounted = {}
  BY <1>5 DEF maths!Uncounted
<1>9. maths!Total = NADDS
  <2>1. Cardinality(maths!Uncounted) = 0
    BY <1>8, FS_EmptySet
  <2>2. maths!Total \in Nat
    BY TotalNat DEF MathsInv, MathsTypes
  <2> QED
    BY SameCounts, <1>7, <2>1, <2>2 DEF MathsInv, maths!CountExact
<1> QED
  BY <1>3, <1>5, <1>6, <1>7, <1>8, <1>9

LEMMA MathsStep == MathsInv /\ [maths!Next]_(maths!vars) => MathsInv'
<1> SUFFICES ASSUME MathsInv, [maths!Next]_(maths!vars) PROVE MathsInv'
  OBVIOUS
<1> USE MathsRange
<1>1. ASSUME NEW t \in maths!Adder, maths!Fork(t) \/ maths!adder(t) PROVE MathsInv'
  BY <1>1, AdderInv
<1>2. CASE maths!Wait
  <2>1. /\ sum_finished > 0 /\ sum_finished' = sum_finished - 1
        /\ sum_waited < NADDERS /\ sum_waited' = sum_waited + 1
        /\ UNCHANGED <<counter, adder_counters, sum_holder, a, b, sum_reg, sum_pc>>
    BY <1>2 DEF maths!Wait, maths!locals
  <2>2. MathsTypes'
    BY <2>1 DEF MathsInv, MathsTypes
  <2>3. AdderHolds' /\ LocalsFollow'
    BY <2>1 DEF MathsInv, AdderHolds, LocalsFollow
  <2>4. AddersFinish'
    <3>1. GoneAdders' = GoneAdders
      BY <2>1 DEF GoneAdders
    <3> QED
      BY <2>1, <3>1 DEF MathsInv, MathsTypes, AddersFinish
  <2>5. maths!CountExact'
    BY <2>1, TotalSame DEF MathsInv, maths!CountExact, maths!Uncounted
  <2> QED
    BY <2>2, <2>3, <2>4, <2>5 DEF MathsInv
<1>3. CASE maths!Again
  <2>1. /\ sum_pc' = [t \in maths!Adder |-> "unborn"] /\ sum_waited' = 0
        /\ UNCHANGED <<counter, adder_counters, sum_holder, a, b, sum_reg, sum_finished>>
    BY <1>3 DEF maths!Again, maths!locals
  <2>2. /\ sum_finished = 0 /\ sum_holder = maths!Free /\ counter = NADDS /\ maths!Total = NADDS
    BY <1>3, AllAddersGone DEF maths!Again
  <2>3. MathsTypes'
    BY <2>1 DEF MathsInv, MathsTypes, maths!Place
  <2>4. AdderHolds' /\ LocalsFollow'
    BY <2>1, <2>2 DEF AdderHolds, LocalsFollow, maths!Locked
  <2>5. AddersFinish'
    <3>1. GoneAdders' = {}
      BY <2>1 DEF GoneAdders
    <3> QED
      BY <2>1, <2>2, <3>1, FS_EmptySet DEF AddersFinish
  <2>6. maths!CountExact'
    <3>1. maths!Uncounted' = {} /\ maths!Total' = maths!Total
      BY <2>1, TotalSame DEF maths!Uncounted
    <3> QED
      BY SameCounts, <2>1, <2>2, <3>1, FS_EmptySet DEF maths!CountExact
  <2> QED
    BY <2>3, <2>4, <2>5, <2>6 DEF MathsInv
<1>4. CASE maths!AtMenu \/ UNCHANGED maths!vars
  <2>1. UNCHANGED <<counter, adder_counters, sum_holder, a, b, sum_reg, sum_pc, sum_finished,
            sum_waited>>
    BY <1>4 DEF maths!AtMenu, maths!vars, maths!locals, maths!mainVars
  <2>2. MathsTypes' /\ AdderHolds' /\ LocalsFollow'
    BY <2>1 DEF MathsInv, MathsTypes, AdderHolds, LocalsFollow
  <2>3. AddersFinish' /\ maths!CountExact'
    BY <2>1, TotalSame DEF MathsInv, AddersFinish, GoneAdders, maths!CountExact, maths!Uncounted
  <2> QED
    BY <2>2, <2>3 DEF MathsInv
<1> QED
  BY <1>1, <1>2, <1>3, <1>4 DEF maths!Next

LEMMA MathsSane == MathsInv => maths!CountExact /\ maths!Sane
BY DEF MathsInv, LocalsFollow, maths!Sane

(* In the first call the statistics are of that call.                      *)
OwnInv ==
    /\ calls \in Nat \ {0} /\ performed \in [maths!Adder -> Nat]
    /\ calls = 1 =>
           \A t \in maths!Adder :
               performed[t] = adder_counters[t] + IF sum_pc[t] \in UncountedIn THEN 1 ELSE 0

LEMMA OwnInit == maths!Init => OwnInv
BY DEF maths!Init, OwnInv, UncountedIn

LEMMA OwnStep == MathsInv /\ OwnInv /\ [maths!Next]_(maths!vars) => OwnInv'
<1> SUFFICES ASSUME MathsInv, OwnInv, [maths!Next]_(maths!vars) PROVE OwnInv'
  OBVIOUS
<1>1. /\ adder_counters \in [maths!Adder -> Nat] /\ sum_pc \in [maths!Adder -> maths!Place]
  BY DEF MathsInv, MathsTypes
<1>2. ASSUME NEW t \in maths!Adder, maths!Store(t) PROVE OwnInv'
  BY <1>1, <1>2 DEF OwnInv, maths!Store, maths!Go, UncountedIn
<1>3. ASSUME NEW t \in maths!Adder, maths!Statistics(t) PROVE OwnInv'
  BY <1>1, <1>3 DEF OwnInv, maths!Statistics, maths!Go, maths!mainVars, UncountedIn
<1>4. ASSUME NEW t \in maths!Adder,
             \/ maths!Fork(t) \/ maths!Acquire(t) \/ maths!Read(t) \/ maths!Test(t)
             \/ maths!Load(t) \/ maths!Reread(t) \/ maths!Release(t) \/ maths!Check(t)
             \/ maths!Stop(t) \/ maths!Bye(t)
      PROVE  OwnInv'
  <2>1. /\ UNCHANGED <<adder_counters, performed, calls>>
        /\ \E from, to \in maths!Place :
              /\ sum_pc[t] = from /\ sum_pc' = [sum_pc EXCEPT ![t] = to]
              /\ from \in UncountedIn <=> to \in UncountedIn
    <3>1. UNCHANGED <<adder_counters, performed, calls>>
      BY <1>4 DEF maths!Fork, maths!Acquire, maths!Read, maths!Test, maths!Load, maths!Reread,
           maths!Release, maths!Check, maths!Stop, maths!Bye, maths!mainVars
    <3>2. CASE maths!Fork(t) \/ maths!Acquire(t) \/ maths!Read(t) \/ maths!Test(t)
      BY <3>1, <3>2 DEF maths!Fork, maths!Acquire, maths!Read, maths!Test, maths!Go,
           maths!Place, UncountedIn
    <3>3. CASE \/ maths!Load(t) \/ maths!Reread(t) \/ maths!Release(t) \/ maths!Check(t)
               \/ maths!Stop(t) \/ maths!Bye(t)
      BY <3>1, <3>3 DEF maths!Load, maths!Reread, maths!Release, maths!Check, maths!Stop,
           maths!Bye, maths!Go, maths!Place, UncountedIn
    <3> QED
      BY <1>4, <3>1, <3>2, <3>3
  <2> QED
    BY <1>1, <2>1 DEF OwnInv
<1>5. CASE maths!Again
  BY <1>5 DEF OwnInv, maths!Again
<1>6. CASE maths!Wait \/ maths!AtMenu \/ UNCHANGED maths!vars
  <2>1. UNCHANGED <<adder_counters, performed, calls, sum_pc>>
    BY <1>6 DEF maths!Wait, maths!AtMenu, maths!vars, maths!mainVars
  <2> QED
    BY <2>1 DEF OwnInv
<1> QED
  BY <1>2, <1>3, <1>4, <1>5, <1>6 DEF maths!Next, maths!adder

LEMMA MathsCleanedUp == MathsInv /\ OwnInv => maths!CleanedUpLast
<1> SUFFICES ASSUME MathsInv, OwnInv, maths!Returned PROVE maths!CleanedUpLast
  BY DEF maths!CleanedUpLast
<1>1. \A t \in maths!Adder : sum_pc[t] = "gone"
  BY AllAddersGone
<1>2. ASSUME calls = 1 PROVE adder_counters = performed
  <2>1. adder_counters \in [maths!Adder -> Nat] /\ performed \in [maths!Adder -> Nat]
    BY DEF MathsInv, MathsTypes, OwnInv
  <2>2. \A t \in maths!Adder : adder_counters[t] = performed[t]
    BY <1>1, <1>2, <2>1 DEF OwnInv, UncountedIn
  <2> QED
    BY <2>1, <2>2
<1> QED
  BY <1>2, AllAddersGone DEF maths!CleanedUpLast, maths!OwnWork
-----------------------------------------------------------------------------
(* The bounded buffer.  Where a thread is and what it has in its hands.    *)
Carries == {"P_empty", "P_mutex", "store", "advance"}
Sending == Carries \cup {"V_mutex", "V_full"}
Receiving == {"advance", "V_mutex", "V_empty", "check"}
Inside == {"store", "fetch", "advance", "V_mutex"}
Born == {"fork", "wait_producers"}      \* main, before it stops the consumers
Stopping == buffer!SendPlace \cup {"wait_consumers", "done"}
Made(t) == [by |-> t, n |-> to_go[t]]

BufferTypes ==
    /\ item_buffer \in [buffer!Slot -> buffer!Item \cup {NULL}]
    /\ head \in buffer!Slot /\ tail \in buffer!Slot
    /\ sem \in [buffer!Semaphore -> Nat]
    /\ buf_pc \in [buffer!Thread -> {"unborn", "gone"} \cup buffer!SendPlace
                                   \cup buffer!ReceivePlace \cup buffer!MainPlace]
    /\ \A t \in Producer : buf_pc[t] \in {"unborn", "gone"} \cup buffer!SendPlace
    /\ \A c \in Consumer : buf_pc[c] \in {"unborn", "gone"} \cup buffer!ReceivePlace
    /\ buf_pc[Main] \in Born \cup Stopping
    /\ item \in [buffer!Thread -> buffer!Item \cup {NULL}]
    /\ to_go \in [buffer!Sender -> 0 .. ITEMS_TO_PRODUCE + Cardinality(Consumer)]
    /\ buf_waited \in Nat
    /\ heap \subseteq buffer!Item /\ IsFiniteSet(heap)

(* One thread at a time is at the buffer and the indices.                  *)
OneInside ==
    /\ sem["mutex"] = 1 \/ sem["mutex"] = 0
    /\ sem["mutex"] = 1 <=> \A t \in buffer!Thread : buf_pc[t] \notin Inside
    /\ \A t, u \in buffer!Thread : buf_pc[t] \in Inside /\ buf_pc[u] \in Inside => t = u

ItemOfPlace ==
    /\ \A t \in buffer!Sender : buf_pc[t] \in Sending => to_go[t] > 0
    /\ \A t \in buffer!Sender : buf_pc[t] \in Carries => item[t] = Made(t)
    /\ \A t \in buffer!Sender : buf_pc[t] \notin Carries => item[t] = NULL
    /\ \A t \in buffer!Sender : buf_pc[t] = "advance" => item_buffer[tail] = item[t]
    /\ \A c \in Consumer : buf_pc[c] \in Receiving <=> item[c] # NULL

(* The driver's phases.                                                    *)
Phases ==
    /\ buf_pc[Main] # "fork" => \A t \in buffer!Thread : buf_pc[t] # "unborn"
    /\ buf_pc[Main] \in Born => to_go[Main] = Cardinality(Consumer)
    /\ buf_pc[Main] \in Stopping => \A t \in Producer : buf_pc[t] = "gone"
    /\ buf_pc[Main] \in {"wait_consumers", "done"} => to_go[Main] = 0
    /\ buf_pc[Main] = "done" => buf_waited = Cardinality(Consumer)
    /\ sem["producer_finished"]
             + (IF buf_pc[Main] \in Born THEN buf_waited ELSE Cardinality(Producer))
           = Cardinality(buffer!At(Producer, {"gone"}))
    /\ sem["consumer_finished"] + (IF buf_pc[Main] \in Stopping THEN buf_waited ELSE 0)
           = Cardinality(buffer!At(Consumer, {"gone"}))

(* Items are numbered downwards as they are made.                          *)
Fresh ==
    \A i \in heap : \/ i.n > to_go[i.by]
                    \/ i.n = to_go[i.by] /\ buf_pc[i.by] \in Sending

Once ==
    /\ \A i \in 1 .. buffer!Filled : buffer!Queue[i] \in buffer!Item
    /\ \A i, j \in 1 .. buffer!Filled : buffer!Queue[i] = buffer!Queue[j] => i = j
    /\ \A t, u \in buffer!Held : item[t] = item[u] => t = u
    /\ \A i \in 1 .. buffer!Filled : \A t \in buffer!Held : buffer!Queue[i] # item[t]
    /\ heap = buffer!InBuffer \cup {item[t] : t \in buffer!Held}

(* One stop item for each consumer that has not stopped, behind all others.*)
StopItems == {i \in heap : i.by = Main}
Stopped(c) == buf_pc[c] = "gone" \/ buffer!Stops(item[c])
StopsLast ==
    /\ buf_pc[Main] \in Born => StopItems = {} /\ \A c \in Consumer : buf_pc[c] # "gone"
    /\ Cardinality(StopItems) + to_go[Main] + Cardinality(buffer!At(Consumer, {"gone"}))
           = Cardinality(Consumer) + (IF buf_pc[Main] \in Sending THEN 1 ELSE 0)
    /\ \A i, j \in 1 .. buffer!Filled :
           i < j /\ buffer!Queue[i].by = Main => buffer!Queue[j].by = Main
    /\ (\E c \in Consumer : Stopped(c)) => \A i \in 1 .. buffer!Filled : buffer!Queue[i].by = Main

BufferInv ==
    /\ BufferTypes /\ OneInside /\ ItemOfPlace /\ Phases /\ buffer!SlotsAccounted
    /\ Fresh /\ Once /\ StopsLast

LEMMA Roles ==
    /\ IsFiniteSet(Producer) /\ IsFiniteSet(Consumer) /\ IsFiniteSet(buffer!Sender)
    /\ Producer \cap Consumer = {} /\ Main \notin Producer /\ Main \notin Consumer
    /\ buffer!Sender \cap Consumer = {} /\ Producer \subseteq buffer!Sender
    /\ Main \in buffer!Sender
    /\ buffer!Sender \subseteq buffer!Thread /\ Consumer \subseteq buffer!Thread
    /\ NULL \notin buffer!Item
    /\ BUFFER_SIZE \in Nat /\ BUFFER_SIZE > 0
    /\ Cardinality(Consumer) \in Nat /\ Cardinality(Producer) \in Nat
    /\ ITEMS_TO_PRODUCE \in Nat
<1>1. IsFiniteSet(buffer!Sender)
  BY SameCounts, ExercisesAssumption, FS_AddElement DEF buffer!ConstantsOK, buffer!Sender
<1>2. NULL \notin buffer!Item
  BY ExercisesAssumption, FS_CardinalityType DEF buffer!ConstantsOK, buffer!Sender, buffer!Item
<1> QED
  BY SameCounts, <1>1, <1>2, ExercisesAssumption, FS_CardinalityType DEF buffer!ConstantsOK,
     buffer!Sender, buffer!Thread

(* How many threads of T are at one of the places of ps, when one moves.    *)
LEMMA OneMoves ==
    ASSUME BufferTypes, NEW T \in SUBSET buffer!Thread, IsFiniteSet(T), NEW ps,
           NEW t \in buffer!Thread, NEW to, buf_pc' = [buf_pc EXCEPT ![t] = to]
    PROVE  /\ Cardinality(buffer!At(T, ps)) \in Nat /\ Cardinality(buffer!At(T, ps))' \in Nat
           /\ t \notin T \/ (buf_pc[t] \in ps <=> to \in ps)
                  => Cardinality(buffer!At(T, ps))' = Cardinality(buffer!At(T, ps))
           /\ t \in T /\ buf_pc[t] \notin ps /\ to \in ps
                  => Cardinality(buffer!At(T, ps))' = Cardinality(buffer!At(T, ps)) + 1
           /\ t \in T /\ buf_pc[t] \in ps /\ to \notin ps
                  => Cardinality(buffer!At(T, ps))' = Cardinality(buffer!At(T, ps)) - 1
<1> DEFINE B == buffer!At(T \ {t}, ps)
<1>1. IsFiniteSet(buffer!At(T, ps)) /\ IsFiniteSet(buffer!At(T, ps)')
  BY FS_Subset DEF buffer!At
<1>2. IsFiniteSet(B) /\ t \notin B
  BY <1>1, FS_Subset DEF buffer!At
<1>3. /\ buffer!At(T, ps) = IF t \in T /\ buf_pc[t] \in ps THEN B \cup {t} ELSE B
      /\ buffer!At(T, ps)' = IF t \in T /\ to \in ps THEN B \cup {t} ELSE B
  BY DEF buffer!At, BufferTypes
<1>4. Cardinality(B) \in Nat /\ Cardinality(B \cup {t}) = Cardinality(B) + 1
  BY <1>2, FS_AddElement, FS_CardinalityType
<1>5. Cardinality(buffer!At(T, ps)) \in Nat /\ Cardinality(buffer!At(T, ps)') \in Nat
  BY <1>1, FS_CardinalityType
<1> HIDE DEF B
<1> QED
  BY <1>3, <1>4, <1>5

Stored == Cardinality(buffer!At(buffer!Sender, {"V_mutex", "V_full"}))
Claimed == Cardinality(buffer!At(Consumer, {"P_mutex", "fetch"}))
Storing == Cardinality(buffer!At(buffer!Sender, {"P_mutex", "store", "advance"}))
Emptied == Cardinality(buffer!At(Consumer, {"advance", "V_mutex", "V_empty"}))
GoneProducers == Cardinality(buffer!At(Producer, {"gone"}))
GoneConsumers == Cardinality(buffer!At(Consumer, {"gone"}))

(* The move of t from a place to another adds one to the count n.          *)
Counted(n, m, T, ps, t, from, to) ==
    /\ n \in Nat /\ m \in Nat
    /\ t \notin T \/ (from \in ps <=> to \in ps) => m = n
    /\ t \in T /\ from \notin ps /\ to \in ps => m = n + 1
    /\ t \in T /\ from \in ps /\ to \notin ps => m = n - 1

LEMMA CountsMove ==
    ASSUME BufferTypes, NEW t \in buffer!Thread, NEW to, buf_pc' = [buf_pc EXCEPT ![t] = to]
    PROVE  /\ Counted(Stored, Stored', buffer!Sender, {"V_mutex", "V_full"}, t, buf_pc[t], to)
           /\ Counted(Claimed, Claimed', Consumer, {"P_mutex", "fetch"}, t, buf_pc[t], to)
           /\ Counted(Storing, Storing', buffer!Sender, {"P_mutex", "store", "advance"}, t,
              buf_pc[t], to)
           /\ Counted(Emptied, Emptied', Consumer, {"advance", "V_mutex", "V_empty"}, t,
              buf_pc[t], to)
           /\ Counted(GoneProducers, GoneProducers', Producer, {"gone"}, t, buf_pc[t], to)
           /\ Counted(GoneConsumers, GoneConsumers', Consumer, {"gone"}, t, buf_pc[t], to)
<1>1. /\ buffer!Sender \in SUBSET buffer!Thread /\ Consumer \in SUBSET buffer!Thread
      /\ Producer \in SUBSET buffer!Thread
      /\ IsFiniteSet(buffer!Sender) /\ IsFiniteSet(Consumer) /\ IsFiniteSet(Producer)
  BY Roles
<1>2. ASSUME NEW T \in SUBSET buffer!Thread, IsFiniteSet(T), NEW ps
      PROVE  Counted(Cardinality(buffer!At(T, ps)), Cardinality(buffer!At(T, ps))', T, ps, t,
          buf_pc[t], to)
  BY <1>2, OneMoves DEF Counted
<1>3. Counted(Stored, Stored', buffer!Sender, {"V_mutex", "V_full"}, t, buf_pc[t], to)
  BY <1>1, <1>2 DEF Stored
<1>4. Counted(Claimed, Claimed', Consumer, {"P_mutex", "fetch"}, t, buf_pc[t], to)
  BY <1>1, <1>2 DEF Claimed
<1>5. Counted(Storing, Storing', buffer!Sender, {"P_mutex", "store", "advance"}, t, buf_pc[t], to)
  BY <1>1, <1>2 DEF Storing
<1>6. Counted(Emptied, Emptied', Consumer, {"advance", "V_mutex", "V_empty"}, t, buf_pc[t], to)
  BY <1>1, <1>2 DEF Emptied
<1>7. Counted(GoneProducers, GoneProducers', Producer, {"gone"}, t, buf_pc[t], to)
  BY <1>1, <1>2 DEF GoneProducers
<1>8. Counted(GoneConsumers, GoneConsumers', Consumer, {"gone"}, t, buf_pc[t], to)
  BY <1>1, <1>2 DEF GoneConsumers
<1> QED
  BY <1>3, <1>4, <1>5, <1>6, <1>7, <1>8

-----------------------------------------------------------------------------
(* Round the slots.                                                        *)
LEMMA Wrap ==
    ASSUME NEW x \in buffer!Slot, NEW k \in 0 .. BUFFER_SIZE
    PROVE  /\ (x + k) % BUFFER_SIZE = IF x + k < BUFFER_SIZE THEN x + k ELSE x + k - BUFFER_SIZE
           /\ (x + k) % BUFFER_SIZE \in buffer!Slot
BY Roles DEF buffer!Slot

LEMMA AfterWraps ==
    ASSUME NEW x \in buffer!Slot
    PROVE  /\ buffer!After(x) = IF x = BUFFER_SIZE - 1 THEN 0 ELSE x + 1
           /\ buffer!After(x) \in buffer!Slot
BY Roles, Wrap DEF buffer!After, buffer!Slot

SlotAt(k) == (buffer!Oldest + k - 1) % BUFFER_SIZE

LEMMA FilledForm ==
    /\ buffer!Filled = sem["full"] + Stored + Claimed
    /\ buffer!SlotsAccounted <=> /\ BUFFER_SIZE = sem["empty"] + buffer!Filled + Storing + Emptied
                                 /\ tail = (buffer!Oldest + buffer!Filled) % BUFFER_SIZE
BY SameCounts DEF buffer!Filled, buffer!SlotsAccounted, Stored, Claimed, Storing, Emptied

LEMMA FilledRange ==
    ASSUME BufferTypes, buffer!SlotsAccounted
    PROVE  /\ buffer!Filled \in 0 .. BUFFER_SIZE /\ buffer!Oldest \in buffer!Slot
           /\ \A t \in buffer!Sender : buf_pc[t] \in {"P_mutex", "store", "advance"} =>
              buffer!Filled < BUFFER_SIZE
           /\ \A c \in Consumer : buf_pc[c] \in {"P_mutex", "fetch"} => buffer!Filled > 0
<1>1. /\ Stored \in Nat /\ Claimed \in Nat /\ Storing \in Nat /\ Emptied \in Nat
      /\ \A t \in buffer!Sender : buf_pc[t] \in {"P_mutex", "store", "advance"} => Storing > 0
      /\ \A c \in Consumer : buf_pc[c] \in {"P_mutex", "fetch"} => Claimed > 0
  <2>1. /\ IsFiniteSet(buffer!At(buffer!Sender, {"V_mutex", "V_full"}))
        /\ IsFiniteSet(buffer!At(Consumer, {"P_mutex", "fetch"}))
        /\ IsFiniteSet(buffer!At(buffer!Sender, {"P_mutex", "store", "advance"}))
        /\ IsFiniteSet(buffer!At(Consumer, {"advance", "V_mutex", "V_empty"}))
    BY Roles, FS_Subset DEF buffer!At
  <2>2. Stored \in Nat /\ Claimed \in Nat /\ Storing \in Nat /\ Emptied \in Nat
    BY <2>1, FS_CardinalityType DEF Stored, Claimed, Storing, Emptied
  <2>3. Storing = 0 => \A t \in buffer!Sender : buf_pc[t] \notin {"P_mutex", "store", "advance"}
    BY <2>1, FS_EmptySet DEF Storing, buffer!At
  <2>4. Claimed = 0 => \A c \in Consumer : buf_pc[c] \notin {"P_mutex", "fetch"}
    BY <2>1, FS_EmptySet DEF Claimed, buffer!At
  <2>5. ASSUME NEW t \in buffer!Sender, buf_pc[t] \in {"P_mutex", "store", "advance"}
        PROVE  Storing > 0
    BY <2>2, <2>3, <2>5
  <2>6. ASSUME NEW c \in Consumer, buf_pc[c] \in {"P_mutex", "fetch"} PROVE Claimed > 0
    BY <2>2, <2>4, <2>6
  <2> QED
    BY <2>2, <2>5, <2>6
<1>2. sem["empty"] \in Nat /\ sem["full"] \in Nat
  BY DEF BufferTypes, buffer!Semaphore
<1>3. buffer!Oldest \in buffer!Slot
  BY AfterWraps DEF BufferTypes, buffer!Oldest
<1>4. /\ BUFFER_SIZE = sem["empty"] + buffer!Filled + Storing + Emptied
      /\ buffer!Filled = sem["full"] + Stored + Claimed
  BY FilledForm
<1>5. buffer!Filled \in Nat /\ Claimed <= buffer!Filled
  BY <1>1, <1>2, <1>4
<1>6. buffer!Filled + Storing <= BUFFER_SIZE
  BY <1>1, <1>2, <1>4, <1>5
<1>7. buffer!Filled \in 0 .. BUFFER_SIZE
  BY <1>1, <1>5, <1>6, Roles
<1>8. ASSUME NEW t \in buffer!Sender, buf_pc[t] \in {"P_mutex", "store", "advance"}
      PROVE  buffer!Filled < BUFFER_SIZE
  BY <1>1, <1>5, <1>6, <1>8, Roles
<1>9. ASSUME NEW c \in Consumer, buf_pc[c] \in {"P_mutex", "fetch"} PROVE buffer!Filled > 0
  BY <1>1, <1>5, <1>9
<1> QED
  BY <1>3, <1>7, <1>8, <1>9

LEMMA SlotsAt ==
    ASSUME BufferTypes, buffer!SlotsAccounted
    PROVE  /\ \A k \in 1 .. BUFFER_SIZE : SlotAt(k) \in buffer!Slot
           /\ \A j, k \in 1 .. BUFFER_SIZE : SlotAt(j) = SlotAt(k) => j = k
           /\ buffer!Filled < BUFFER_SIZE => tail = SlotAt(buffer!Filled + 1)
           /\ buffer!At(Consumer, {"advance"}) = {} => head = SlotAt(1)
<1>1. buffer!Filled \in 0 .. BUFFER_SIZE /\ buffer!Oldest \in buffer!Slot
  BY FilledRange
<1>2. ASSUME NEW k \in 1 .. BUFFER_SIZE
      PROVE  /\ SlotAt(k) = IF buffer!Oldest + (k - 1) < BUFFER_SIZE THEN buffer!Oldest + (k - 1)
                                                         ELSE buffer!Oldest + (k - 1) - BUFFER_SIZE
             /\ SlotAt(k) \in buffer!Slot
  <2>1. k - 1 \in 0 .. BUFFER_SIZE /\ buffer!Oldest + k - 1 = buffer!Oldest + (k - 1)
    BY <1>1, Roles DEF buffer!Slot
  <2> QED
    BY <1>1, <2>1, Wrap DEF SlotAt
<1>3. \A j, k \in 1 .. BUFFER_SIZE : SlotAt(j) = SlotAt(k) => j = k
  BY <1>1, <1>2, Roles DEF buffer!Slot
<1>4. buffer!Filled < BUFFER_SIZE => tail = SlotAt(buffer!Filled + 1)
  <2>1. buffer!Oldest + buffer!Filled = buffer!Oldest + (buffer!Filled + 1) - 1
    BY <1>1 DEF buffer!Slot
  <2> QED
    BY <2>1 DEF buffer!SlotsAccounted, SlotAt
<1>5. buffer!At(Consumer, {"advance"}) = {} => head = SlotAt(1)
  BY <1>1, <1>2, Roles DEF buffer!Oldest, buffer!Slot
<1> QED
  BY <1>2, <1>3, <1>4, <1>5

-----------------------------------------------------------------------------
LEMMA CountsInit ==
    ASSUME buf_pc = [t \in buffer!Thread |-> IF t = Main THEN "fork" ELSE "unborn"]
    PROVE  /\ Stored = 0 /\ Claimed = 0 /\ Storing = 0 /\ Emptied = 0
           /\ GoneProducers = 0 /\ GoneConsumers = 0
<1>1. /\ buffer!At(buffer!Sender, {"V_mutex", "V_full"}) = {}
      /\ buffer!At(Consumer, {"P_mutex", "fetch"}) = {}
      /\ buffer!At(buffer!Sender, {"P_mutex", "store", "advance"}) = {}
      /\ buffer!At(Consumer, {"advance", "V_mutex", "V_empty"}) = {}
      /\ buffer!At(Producer, {"gone"}) = {} /\ buffer!At(Consumer, {"gone"}) = {}
  BY Roles DEF buffer!At
<1> QED
  BY <1>1, FS_EmptySet DEF Stored, Claimed, Storing, Emptied, GoneProducers, GoneConsumers

LEMMA BufferInit == buffer!Init => BufferInv
<1> SUFFICES ASSUME buffer!Init PROVE BufferInv
  OBVIOUS
<1>1. /\ Stored = 0 /\ Claimed = 0 /\ Storing = 0 /\ Emptied = 0
      /\ GoneProducers = 0 /\ GoneConsumers = 0
  BY CountsInit DEF buffer!Init
<1>2. buf_pc[Main] = "fork" /\ \A t \in buffer!Thread : t # Main => buf_pc[t] = "unborn"
  BY Roles DEF buffer!Init
<1>3. BufferTypes
  BY SameCounts, Roles, FS_EmptySet, <1>2 DEF buffer!Init, BufferTypes, buffer!Semaphore, Born,
     buffer!MainPlace
<1>4. OneInside
  BY <1>2 DEF buffer!Init, OneInside, Inside
<1>5. ItemOfPlace
  BY <1>2, Roles DEF buffer!Init, ItemOfPlace, Sending, Carries, Receiving
<1>6. Phases
  BY SameCounts, <1>1, <1>2, Roles DEF buffer!Init, Phases, Born, Stopping, buffer!SendPlace,
     GoneProducers, GoneConsumers
<1>7. buffer!At(Consumer, {"advance"}) = {}
  BY <1>2, Roles DEF buffer!At
<1>8. buffer!Filled = 0 /\ buffer!Oldest = head
  BY <1>1, <1>7, FilledForm DEF buffer!Init, buffer!Oldest
<1>9. buffer!SlotsAccounted
  <2>1. head + 0 < BUFFER_SIZE /\ head + 0 = head
    BY Roles DEF buffer!Init, buffer!Slot
  <2>2. (head + 0) % BUFFER_SIZE = head
    BY <2>1, Wrap, Roles DEF buffer!Init
  <2> QED
    BY <1>1, <1>8, <2>2, FilledForm, Roles DEF buffer!Init
<1>10. Fresh /\ buffer!Held = {}
  BY DEF buffer!Init, Fresh, buffer!Held
<1>11. 1 .. buffer!Filled = {}
  BY <1>8
<1>12. Once
  BY <1>10, <1>11 DEF buffer!Init, Once, buffer!InBuffer
<1>13. StopItems = {}
  BY DEF buffer!Init, StopItems
<1>14. StopsLast
  BY SameCounts, <1>1, <1>2, <1>11, <1>13, Roles, FS_EmptySet
     DEF buffer!Init, StopsLast, GoneConsumers, Sending, Carries, Born
<1> QED
  BY <1>3, <1>4, <1>5, <1>6, <1>9, <1>10, <1>12, <1>14 DEF BufferInv

-----------------------------------------------------------------------------
(* Most steps leave the items where they are.                              *)
SameCargo ==
    /\ buffer!Filled' = buffer!Filled /\ buffer!Queue' = buffer!Queue /\ item' = item
    /\ heap' = heap /\ to_go' = to_go

LEMMA CargoKept ==
    ASSUME BufferInv, SameCargo, BufferTypes',
           \A u \in buffer!Sender : buf_pc[u] \in Sending <=> buf_pc'[u] \in Sending,
           \A c \in Consumer : buf_pc[c] = "gone" <=> buf_pc'[c] = "gone",
           GoneConsumers' = GoneConsumers, buf_pc'[Main] \in Born => buf_pc[Main] \in Born
    PROVE  Fresh' /\ Once' /\ StopsLast'
<1>1. Fresh'
  BY DEF BufferInv, SameCargo, Fresh, BufferTypes, buffer!Item
<1>2. Once'
  BY DEF BufferInv, SameCargo, Once, buffer!Held, buffer!InBuffer
<1>3. StopItems' = StopItems
  BY DEF SameCargo, StopItems
<1>4. StopsLast'
  BY <1>3, Roles DEF BufferInv, SameCargo, StopsLast, GoneConsumers, Stopped, buffer!Stops
<1> QED
  BY <1>1, <1>2, <1>4

LEMMA QueueKept ==
    ASSUME buffer!Filled' = buffer!Filled, buffer!Oldest' = buffer!Oldest,
        item_buffer' = item_buffer
    PROVE  buffer!Queue' = buffer!Queue
BY DEF buffer!Queue

(* The accounts after a move: what the semaphores and the counts make.     *)
LEMMA AccountsKept ==
    ASSUME BufferInv, BufferTypes', buffer!Oldest' = buffer!Oldest,
           sem'["full"] + Stored' + Claimed' = sem["full"] + Stored + Claimed,
           sem'["empty"] + Storing' + Emptied' = sem["empty"] + Storing + Emptied,
           Stored \in Nat, Claimed \in Nat, Storing \in Nat, Emptied \in Nat,
           Stored' \in Nat, Claimed' \in Nat, Storing' \in Nat, Emptied' \in Nat,
           tail' = tail
    PROVE  buffer!Filled' = buffer!Filled /\ buffer!SlotsAccounted'
<1>1. /\ buffer!Filled = sem["full"] + Stored + Claimed
      /\ buffer!Filled' = sem'["full"] + Stored' + Claimed'
  BY SameCounts DEF buffer!Filled, Stored, Claimed
<1>2. buffer!SlotsAccounted' <=> /\ BUFFER_SIZE = sem'["empty"] + buffer!Filled' + Storing' +
                                    Emptied'
                                 /\ tail' = (buffer!Oldest' + buffer!Filled') % BUFFER_SIZE
  BY SameCounts DEF buffer!Filled, buffer!SlotsAccounted, Stored, Claimed, Storing, Emptied
<1>3. sem["empty"] \in Nat /\ sem["full"] \in Nat /\ sem'["empty"] \in Nat /\ sem'["full"] \in Nat
  BY DEF BufferInv, BufferTypes, buffer!Semaphore
<1>4. /\ BUFFER_SIZE = sem["empty"] + buffer!Filled + Storing + Emptied
      /\ tail = (buffer!Oldest + buffer!Filled) % BUFFER_SIZE
  BY FilledForm DEF BufferInv
<1>5. buffer!Filled' = buffer!Filled /\ buffer!Filled \in Nat
  BY <1>1, <1>3
<1>6. BUFFER_SIZE = sem'["empty"] + buffer!Filled' + Storing' + Emptied'
  <2>1. sem["empty"] + buffer!Filled + Storing + Emptied = (sem["empty"] + Storing + Emptied) +
            buffer!Filled
    BY <1>3, <1>5
  <2>2. sem'["empty"] + buffer!Filled' + Storing' + Emptied' = (sem'["empty"] + Storing' +
            Emptied') + buffer!Filled'
    BY <1>3, <1>5
  <2> QED
    BY <1>4, <1>5, <2>1, <2>2
<1> QED
  BY <1>2, <1>4, <1>5, <1>6

-----------------------------------------------------------------------------
(* The P's and V's.                                                        *)
Operation(t, k, from, to) ==
    \/ /\ buffer!P(t, k, from, to)
       /\ \/ t \in buffer!Sender /\ k = "empty" /\ from = "P_empty" /\ to = "P_mutex"
          \/ t \in buffer!Sender /\ k = "mutex" /\ from = "P_mutex" /\ to = "store"
          \/ t \in Consumer /\ k = "full" /\ from = "P_full" /\ to = "P_mutex"
          \/ t \in Consumer /\ k = "mutex" /\ from = "P_mutex" /\ to = "fetch"
    \/ /\ buffer!V(t, k, from, to)
       /\ \/ t \in buffer!Sender /\ k = "mutex" /\ from = "V_mutex" /\ to = "V_full"
          \/ t \in Consumer /\ k = "mutex" /\ from = "V_mutex" /\ to = "V_empty"
          \/ t \in Consumer /\ k = "empty" /\ from = "V_empty" /\ to = "check"
          \/ t \in Producer /\ k = "producer_finished" /\ from = "make" /\ to = "gone"

LEMMA OperationInv ==
    ASSUME BufferInv, NEW t \in buffer!Thread, NEW k \in buffer!Semaphore, NEW from, NEW to,
           Operation(t, k, from, to)
    PROVE  BufferInv' /\ buffer!Queue' = buffer!Queue /\ item' = item
<1> USE Roles
<1>1. /\ buf_pc[t] = from /\ buf_pc' = [buf_pc EXCEPT ![t] = to]
      /\ \A u \in buffer!Thread : buf_pc'[u] = IF u = t THEN to ELSE buf_pc[u]
  BY DEF Operation, buffer!P, buffer!V, buffer!Go, BufferInv, BufferTypes
<1>2. /\ item_buffer' = item_buffer /\ head' = head /\ tail' = tail /\ item' = item
      /\ to_go' = to_go /\ buf_waited' = buf_waited /\ heap' = heap
  BY DEF Operation, buffer!P, buffer!V, buffer!bufferVars
<1>3. /\ sem' \in [buffer!Semaphore -> Nat]
      /\ \A j \in buffer!Semaphore : j # k => sem'[j] = sem[j]
      /\ buffer!P(t, k, from, to) => sem[k] > 0 /\ sem'[k] = sem[k] - 1
      /\ buffer!V(t, k, from, to) => sem'[k] = sem[k] + 1
      /\ sem[k] \in Nat
  BY DEF Operation, buffer!P, buffer!V, BufferInv, BufferTypes
<1>4. BufferTypes'
  <2>1. /\ to \in {"gone"} \cup buffer!SendPlace \cup buffer!ReceivePlace
        /\ t \in Producer => to \in {"gone"} \cup buffer!SendPlace
        /\ t \in Consumer => to \in buffer!ReceivePlace
        /\ t = Main => to \in buffer!SendPlace
    BY DEF Operation, buffer!SendPlace, buffer!ReceivePlace
  <2>2. /\ buf_pc' \in [buffer!Thread -> {"unborn", "gone"} \cup buffer!SendPlace
           \cup buffer!ReceivePlace \cup buffer!MainPlace]
        /\ \A u \in Producer : buf_pc'[u] \in {"unborn", "gone"} \cup buffer!SendPlace
        /\ \A c \in Consumer : buf_pc'[c] \in {"unborn", "gone"} \cup buffer!ReceivePlace
        /\ buf_pc'[Main] \in Born \cup Stopping
    BY <1>1, <2>1 DEF BufferInv, BufferTypes, Stopping
  <2> QED
    BY <1>2, <1>3, <2>2 DEF BufferInv, BufferTypes
<1>5. OneInside'
  <2>1. CASE k = "mutex" /\ buffer!P(t, k, from, to)
    <3>1. sem["mutex"] = 1 /\ sem'["mutex"] = 0 /\ to \in Inside
      BY <1>3, <2>1 DEF Operation, BufferInv, OneInside, Inside, buffer!P, buffer!V
    <3> QED
      BY <1>1, <3>1 DEF BufferInv, OneInside
  <2>2. CASE k = "mutex" /\ ~buffer!P(t, k, from, to)
    <3>1. buffer!V(t, k, from, to) /\ from \in Inside /\ to \notin Inside
      BY <2>2 DEF Operation, Inside
    <3>2. sem["mutex"] = 0 /\ sem'["mutex"] = 1
      BY <1>1, <1>3, <2>2, <3>1 DEF BufferInv, OneInside
    <3> QED
      BY <1>1, <3>1, <3>2 DEF BufferInv, OneInside
  <2>3. CASE k # "mutex"
    <3>1. from \notin Inside /\ to \notin Inside
      BY <2>3 DEF Operation, Inside
    <3>2. sem'["mutex"] = sem["mutex"]
      BY <1>3, <2>3 DEF buffer!Semaphore
    <3> QED
      BY <1>1, <3>1, <3>2 DEF BufferInv, OneInside
  <2> QED
    BY <2>1, <2>2, <2>3
<1>6. /\ t \in buffer!Sender => (from \in Sending <=> to \in Sending)
      /\ t \in buffer!Sender => (from \in Carries <=> to \in Carries)
      /\ t \in Consumer => (from \in Receiving <=> to \in Receiving)
      /\ t \in buffer!Sender => to # "advance"
  BY DEF Operation, Sending, Carries, Receiving
<1>7. ItemOfPlace'
  <2>1. \A u \in buffer!Sender : Made(u)' = Made(u)
    BY <1>2 DEF Made
  <2> QED
    BY <1>1, <1>2, <1>6, <2>1 DEF BufferInv, ItemOfPlace
<1>8. /\ Counted(Stored, Stored', buffer!Sender, {"V_mutex", "V_full"}, t, from, to)
      /\ Counted(Claimed, Claimed', Consumer, {"P_mutex", "fetch"}, t, from, to)
      /\ Counted(Storing, Storing', buffer!Sender, {"P_mutex", "store", "advance"}, t, from, to)
      /\ Counted(Emptied, Emptied', Consumer, {"advance", "V_mutex", "V_empty"}, t, from, to)
      /\ Counted(GoneProducers, GoneProducers', Producer, {"gone"}, t, from, to)
      /\ Counted(GoneConsumers, GoneConsumers', Consumer, {"gone"}, t, from, to)
  BY <1>1, CountsMove DEF BufferInv
<1>9. Phases'
  <2>1. GoneConsumers' = GoneConsumers
    BY <1>8 DEF Operation, Counted
  <2>2. sem'["consumer_finished"] = sem["consumer_finished"]
    BY <1>3 DEF Operation, buffer!Semaphore
  <2>3. /\ GoneProducers \in Nat /\ GoneProducers' \in Nat /\ sem["producer_finished"] \in Nat
        /\ GoneProducers' - sem'["producer_finished"] = GoneProducers - sem["producer_finished"]
    BY <1>3, <1>8 DEF Operation, Counted, buffer!Semaphore, BufferInv, BufferTypes
  <2>4. t = Main => from \in buffer!SendPlace \ {"make"} /\ to \in buffer!SendPlace
    BY DEF Operation, buffer!SendPlace
  <2>5. /\ buf_pc'[Main] \in Born <=> buf_pc[Main] \in Born
        /\ buf_pc'[Main] \in Stopping <=> buf_pc[Main] \in Stopping
        /\ buf_pc'[Main] \in {"fork", "wait_consumers", "done"} => buf_pc'[Main] = buf_pc[Main]
        /\ buf_pc[Main] = "fork" => buf_pc'[Main] = "fork"
    BY <1>1, <2>4 DEF Born, Stopping, buffer!SendPlace
  <2>6. /\ buf_pc'[Main] # "fork" => \A u \in buffer!Thread : buf_pc'[u] # "unborn"
        /\ buf_pc'[Main] \in Stopping => \A u \in Producer : buf_pc'[u] = "gone"
    <3>1. to # "unborn" /\ (t \in Producer => from # "gone")
      BY DEF Operation
    <3> QED
      BY <1>1, <2>5, <3>1 DEF BufferInv, Phases, Stopping, Born, buffer!SendPlace
  <2> DEFINE w == IF buf_pc[Main] \in Born THEN buf_waited ELSE Cardinality(Producer)
  <2>7. w \in Nat /\ w' = w
    BY <1>2, <2>5 DEF BufferInv, BufferTypes
  <2>8. sem["producer_finished"] + w = GoneProducers
    BY DEF BufferInv, Phases, GoneProducers
  <2> HIDE DEF w
  <2>9. sem'["producer_finished"] + w' = GoneProducers'
    BY <1>3, <2>3, <2>7, <2>8 DEF buffer!Semaphore
  <2>10. sem'["producer_finished"] + (IF buf_pc'[Main] \in Born THEN buf_waited' ELSE
             Cardinality(Producer))
             = GoneProducers'
    BY <2>9 DEF w
  <2>11. sem'["consumer_finished"] + (IF buf_pc'[Main] \in Stopping THEN buf_waited' ELSE 0)
             = GoneConsumers'
    BY <1>2, <2>1, <2>2, <2>5 DEF BufferInv, Phases, GoneConsumers
  <2>12. /\ buf_pc'[Main] \in Born => to_go'[Main] = Cardinality(Consumer)
         /\ buf_pc'[Main] \in {"wait_consumers", "done"} => to_go'[Main] = 0
         /\ buf_pc'[Main] = "done" => buf_waited' = Cardinality(Consumer)
    BY <1>2, <2>5 DEF BufferInv, Phases
  <2> QED
    BY <2>6, <2>10, <2>11, <2>12 DEF Phases, GoneProducers, GoneConsumers
<1>10. buffer!Oldest' = buffer!Oldest
  <2>1. buffer!At(Consumer, {"advance"})' = buffer!At(Consumer, {"advance"})
    BY <1>1 DEF buffer!At, Operation
  <2> QED
    BY <1>2, <2>1 DEF buffer!Oldest
<1>11. /\ sem'["full"] + Stored' + Claimed' = sem["full"] + Stored + Claimed
       /\ sem'["empty"] + Storing' + Emptied' = sem["empty"] + Storing + Emptied
       /\ Stored \in Nat /\ Claimed \in Nat /\ Storing \in Nat /\ Emptied \in Nat
       /\ Stored' \in Nat /\ Claimed' \in Nat /\ Storing' \in Nat /\ Emptied' \in Nat
  BY <1>3, <1>8 DEF Operation, Counted, buffer!Semaphore
<1>12. buffer!Filled' = buffer!Filled /\ buffer!SlotsAccounted'
  BY <1>2, <1>4, <1>10, <1>11, AccountsKept
<1>13. SameCargo
  BY <1>2, <1>10, <1>12, QueueKept DEF SameCargo
<1>14. Fresh' /\ Once' /\ StopsLast'
  <2>1. /\ \A u \in buffer!Sender : buf_pc[u] \in Sending <=> buf_pc'[u] \in Sending
        /\ \A c \in Consumer : buf_pc[c] = "gone" <=> buf_pc'[c] = "gone"
        /\ buf_pc'[Main] \in Born => buf_pc[Main] \in Born
    BY <1>1, <1>6 DEF Operation, Born
  <2>2. GoneConsumers' = GoneConsumers
    BY <1>8 DEF Operation, Counted
  <2> QED
    BY <1>4, <1>13, <2>1, <2>2, CargoKept
<1> QED
  BY <1>14, <1>4, <1>5, <1>7, <1>9, <1>12, <1>13 DEF BufferInv, SameCargo

-----------------------------------------------------------------------------
(* The driver: the forks and the main thread's moves from phase to phase.  *)
Drives(t, from, to) ==
    \/ buffer!Fork(t) /\ t \in Producer /\ from = "unborn" /\ to = "make"
    \/ buffer!Fork(t) /\ t \in Consumer /\ from = "unborn" /\ to = "P_full"
    \/ buffer!Forked /\ t = Main /\ from = "fork" /\ to = "wait_producers"
    \/ buffer!StopConsumers /\ t = Main /\ from = "wait_producers" /\ to = "make"
    \/ buffer!AllStopped /\ t = Main /\ from = "make" /\ to = "wait_consumers"
    \/ buffer!Shutdown /\ t = Main /\ from = "wait_consumers" /\ to = "done"

LEMMA AllProducersGone ==
    ASSUME BufferInv, GoneProducers >= Cardinality(Producer)
    PROVE  /\ \A t \in Producer : buf_pc[t] = "gone"
           /\ GoneProducers = Cardinality(Producer)
<1>1. /\ buffer!At(Producer, {"gone"}) \subseteq Producer
      /\ IsFiniteSet(Producer) /\ Cardinality(Producer) \in Nat
  BY Roles DEF buffer!At
<1>2. Cardinality(buffer!At(Producer, {"gone"})) = Cardinality(Producer)
      /\ buffer!At(Producer, {"gone"}) = Producer
  BY <1>1, FS_Subset, FS_CardinalityType DEF GoneProducers
<1> QED
  BY <1>2 DEF buffer!At, GoneProducers

LEMMA DriverInv ==
    ASSUME BufferInv, NEW t \in buffer!Thread, NEW from, NEW to, Drives(t, from, to)
    PROVE  BufferInv' /\ buffer!Queue' = buffer!Queue /\ item' = item
<1> USE Roles
<1>1. /\ buf_pc[t] = from /\ buf_pc' = [buf_pc EXCEPT ![t] = to]
      /\ \A u \in buffer!Thread : buf_pc'[u] = IF u = t THEN to ELSE buf_pc[u]
  BY DEF Drives, buffer!Fork, buffer!Forked, buffer!StopConsumers, buffer!AllStopped,
     buffer!Shutdown, buffer!Go, BufferInv, BufferTypes
<1>2. /\ item_buffer' = item_buffer /\ head' = head /\ tail' = tail /\ item' = item
      /\ to_go' = to_go /\ sem' = sem /\ heap' = heap
  BY DEF Drives, buffer!Fork, buffer!Forked, buffer!StopConsumers, buffer!AllStopped,
     buffer!Shutdown, buffer!bufferVars
<1>3. buf_waited' = IF from = "wait_producers" THEN 0 ELSE buf_waited
  BY DEF Drives, buffer!Fork, buffer!Forked, buffer!StopConsumers, buffer!AllStopped,
     buffer!Shutdown
<1>4. BufferTypes'
  <2>1. /\ to \in buffer!SendPlace \cup buffer!ReceivePlace \cup buffer!MainPlace
        /\ t \in Producer => to \in buffer!SendPlace
        /\ t \in Consumer => to \in buffer!ReceivePlace
        /\ t = Main => to \in Born \cup Stopping
    BY DEF Drives, buffer!SendPlace, buffer!ReceivePlace, buffer!MainPlace, Born, Stopping
  <2>2. /\ buf_pc' \in [buffer!Thread -> {"unborn", "gone"} \cup buffer!SendPlace
           \cup buffer!ReceivePlace \cup buffer!MainPlace]
        /\ \A u \in Producer : buf_pc'[u] \in {"unborn", "gone"} \cup buffer!SendPlace
        /\ \A c \in Consumer : buf_pc'[c] \in {"unborn", "gone"} \cup buffer!ReceivePlace
        /\ buf_pc'[Main] \in Born \cup Stopping
    BY <1>1, <2>1 DEF BufferInv, BufferTypes
  <2> QED
    BY <1>2, <1>3, <2>2 DEF BufferInv, BufferTypes
<1>5. /\ {from, to} \cap (Inside \cup Sending \cup Receiving) = {}
      /\ from # "gone" /\ to # "gone"
  BY DEF Drives, Inside, Sending, Carries, Receiving
<1>6. OneInside'
  BY <1>1, <1>2, <1>5 DEF BufferInv, OneInside
<1>7. ItemOfPlace'
  <2>1. \A u \in buffer!Sender : Made(u)' = Made(u)
    BY <1>2 DEF Made
  <2> QED
    BY <1>1, <1>2, <1>5, <2>1 DEF BufferInv, ItemOfPlace, Sending, Carries
<1>8. /\ Stored' = Stored /\ Claimed' = Claimed /\ Storing' = Storing /\ Emptied' = Emptied
      /\ GoneProducers' = GoneProducers /\ GoneConsumers' = GoneConsumers
      /\ Stored \in Nat /\ Claimed \in Nat /\ Storing \in Nat /\ Emptied \in Nat
      /\ GoneProducers \in Nat /\ GoneConsumers \in Nat
  <2>1. /\ Counted(Stored, Stored', buffer!Sender, {"V_mutex", "V_full"}, t, from, to)
        /\ Counted(Claimed, Claimed', Consumer, {"P_mutex", "fetch"}, t, from, to)
        /\ Counted(Storing, Storing', buffer!Sender, {"P_mutex", "store", "advance"}, t, from, to)
        /\ Counted(Emptied, Emptied', Consumer, {"advance", "V_mutex", "V_empty"}, t, from, to)
        /\ Counted(GoneProducers, GoneProducers', Producer, {"gone"}, t, from, to)
        /\ Counted(GoneConsumers, GoneConsumers', Consumer, {"gone"}, t, from, to)
    BY <1>1, CountsMove DEF BufferInv
  <2> QED
    BY <2>1 DEF Drives, Counted
<1>9. Phases'
  <2> DEFINE w == IF buf_pc[Main] \in Born THEN buf_waited ELSE Cardinality(Producer)
  <2>1. /\ sem["producer_finished"] + w = GoneProducers /\ sem["producer_finished"] \in Nat
        /\ w \in Nat
    BY DEF BufferInv, BufferTypes, Phases, GoneProducers, buffer!Semaphore
  <2>2. CASE buffer!StopConsumers /\ t = Main /\ from = "wait_producers" /\ to = "make"
    <3>1. buf_waited = Cardinality(Producer) /\ w = buf_waited
      BY SameCounts, <1>1, <2>2 DEF buffer!StopConsumers, Born
    <3>2. GoneProducers >= Cardinality(Producer)
      BY <2>1, <3>1
    <3>3. GoneProducers = Cardinality(Producer) /\ \A u \in Producer : buf_pc[u] = "gone"
      BY <3>2, AllProducersGone
    <3>4. sem["producer_finished"] = 0
      BY <2>1, <3>1, <3>3
    <3>5. sem["consumer_finished"] = GoneConsumers
      BY <1>1, <1>8, <2>2 DEF BufferInv, BufferTypes, Phases, Stopping, buffer!SendPlace,
         GoneConsumers, buffer!Semaphore
    <3>6. \A u \in buffer!Thread : buf_pc'[u] # "unborn"
      BY <1>1, <2>2 DEF BufferInv, Phases
    <3>7. buf_pc'[Main] = "make" /\ buf_waited' = 0 /\ \A u \in Producer : buf_pc'[u] = "gone"
      BY <1>1, <1>3, <2>2, <3>3
    <3> QED
      BY <1>2, <1>8, <3>3, <3>4, <3>5, <3>6, <3>7
         DEF Phases, GoneProducers, GoneConsumers, Born, Stopping, buffer!SendPlace
  <2>3. CASE from # "wait_producers"
    <3>1. /\ buf_pc'[Main] \in Born <=> buf_pc[Main] \in Born
          /\ buf_pc'[Main] \in Stopping <=> buf_pc[Main] \in Stopping
          /\ buf_pc'[Main] \in {"wait_consumers", "done"} => to_go[Main] = 0
          /\ buf_pc'[Main] = "done" => buf_waited = Cardinality(Consumer)
          /\ buf_pc'[Main] # "fork" => \A u \in buffer!Thread : buf_pc'[u] # "unborn"
          /\ buf_pc'[Main] \in Stopping => \A u \in Producer : buf_pc'[u] = "gone"
      <4>1. CASE t # Main
        <5>1. from = "unborn" /\ to # "unborn" /\ buf_pc'[Main] = buf_pc[Main] /\ buffer!Fork(t)
          BY <1>1, <4>1 DEF Drives
        <5>2. buf_pc[Main] = "fork"
          BY <1>1, <5>1 DEF BufferInv, Phases
        <5> QED
          BY <5>1, <5>2 DEF Born, Stopping, buffer!SendPlace
      <4>2. CASE t = Main
        <5>1. \A u \in buffer!Thread : u # Main => buf_pc'[u] = buf_pc[u]
          BY <1>1, <4>2
        <5>2. buf_pc'[Main] = to /\ buf_pc[Main] = from /\ to # "unborn"
          BY <1>1, <4>2 DEF Drives
        <5>3. CASE buffer!Forked /\ from = "fork" /\ to = "wait_producers"
          <6>1. \A u \in buffer!Thread : buf_pc[u] # "unborn"
            BY <5>3 DEF buffer!Forked, buffer!Unborn
          <6> QED
            BY <5>1, <5>2, <5>3, <6>1 DEF Born, Stopping, buffer!SendPlace
        <5>4. CASE buffer!AllStopped /\ from = "make" /\ to = "wait_consumers"
          BY <5>1, <5>2, <5>4 DEF Born, Stopping, buffer!SendPlace, buffer!AllStopped,
             BufferInv, Phases
        <5>5. CASE buffer!Shutdown /\ from = "wait_consumers" /\ to = "done"
          BY SameCounts, <5>1, <5>2, <5>5 DEF Born, Stopping, buffer!SendPlace,
             buffer!Shutdown, BufferInv, Phases
        <5> QED
          BY <2>3, <4>2, <5>3, <5>4, <5>5 DEF Drives
      <4> QED
        BY <4>1, <4>2
    <3>2. buf_waited' = buf_waited
      BY <1>3, <2>3
    <3> QED
      BY <1>2, <1>8, <3>1, <3>2 DEF BufferInv, Phases, GoneProducers, GoneConsumers
  <2> QED
    BY <2>2, <2>3 DEF Drives
<1>10. buffer!Oldest' = buffer!Oldest
  <2>1. buffer!At(Consumer, {"advance"})' = buffer!At(Consumer, {"advance"})
    BY <1>1 DEF buffer!At, Drives
  <2> QED
    BY <1>2, <2>1 DEF buffer!Oldest
<1>11. buffer!Filled' = buffer!Filled /\ buffer!SlotsAccounted'
  BY <1>2, <1>4, <1>8, <1>10, AccountsKept
<1>12. SameCargo
  BY <1>2, <1>10, <1>11, QueueKept DEF SameCargo
<1>13. Fresh' /\ Once' /\ StopsLast'
  <2>1. /\ \A u \in buffer!Sender : buf_pc[u] \in Sending <=> buf_pc'[u] \in Sending
        /\ \A c \in Consumer : buf_pc[c] = "gone" <=> buf_pc'[c] = "gone"
    BY <1>1, <1>5
  <2>2. buf_pc'[Main] \in Born => buf_pc[Main] \in Born
    BY <1>1 DEF Drives, Born
  <2> QED
    BY <1>4, <1>8, <1>12, <2>1, <2>2, CargoKept
<1> QED
  BY <1>13, <1>4, <1>6, <1>7, <1>9, <1>11, <1>12 DEF BufferInv, SameCargo

(* The main thread's waits.                                                *)
LEMMA WaitInv ==
    ASSUME BufferInv, buffer!WaitProducer \/ buffer!WaitConsumer
    PROVE  BufferInv' /\ buffer!Queue' = buffer!Queue /\ item' = item
<1> USE Roles
<1>1. /\ buf_pc' = buf_pc /\ item_buffer' = item_buffer /\ head' = head /\ tail' = tail
      /\ item' = item /\ to_go' = to_go /\ heap' = heap /\ buf_waited' = buf_waited + 1
  BY DEF buffer!WaitProducer, buffer!WaitConsumer, buffer!Wait, buffer!bufferVars
<1>2. /\ Stored' = Stored /\ Claimed' = Claimed /\ Storing' = Storing /\ Emptied' = Emptied
      /\ GoneProducers' = GoneProducers /\ GoneConsumers' = GoneConsumers
      /\ buffer!At(Consumer, {"advance"})' = buffer!At(Consumer, {"advance"})
  BY <1>1 DEF Stored, Claimed, Storing, Emptied, GoneProducers, GoneConsumers, buffer!At
<1>3. PICK k \in {"producer_finished", "consumer_finished"} :
          /\ sem[k] > 0 /\ sem' = [sem EXCEPT ![k] = @ - 1]
          /\ k = "producer_finished" => buf_pc[Main] = "wait_producers"
          /\ k = "consumer_finished" => buf_pc[Main] = "wait_consumers"
  BY DEF buffer!WaitProducer, buffer!WaitConsumer, buffer!Wait
<1>4. /\ k \in buffer!Semaphore /\ sem[k] \in Nat /\ sem'[k] = sem[k] - 1
      /\ \A j \in buffer!Semaphore : j # k => sem'[j] = sem[j]
      /\ sem' \in [buffer!Semaphore -> Nat]
  BY <1>3 DEF BufferInv, BufferTypes, buffer!Semaphore
<1>5. /\ sem'["mutex"] = sem["mutex"] /\ sem'["full"] = sem["full"] /\ sem'["empty"] = sem["empty"]
  BY <1>4 DEF buffer!Semaphore
<1>6. BufferTypes'
  BY <1>1, <1>4 DEF BufferInv, BufferTypes
<1>7. OneInside' /\ ItemOfPlace'
  BY <1>1, <1>5 DEF BufferInv, OneInside, ItemOfPlace, Made
<1>8. Phases'
  <2>1. /\ sem["producer_finished"] \in Nat /\ sem["consumer_finished"] \in Nat
        /\ buf_waited \in Nat
        /\ sem["producer_finished"] + (IF buf_pc[Main] \in Born THEN buf_waited ELSE
           Cardinality(Producer))
               = GoneProducers
        /\ sem["consumer_finished"] + (IF buf_pc[Main] \in Stopping THEN buf_waited ELSE 0)
           = GoneConsumers
    BY DEF BufferInv, BufferTypes, Phases, GoneProducers, GoneConsumers, buffer!Semaphore
  <2>2. CASE k = "producer_finished"
    <3>1. /\ buf_pc[Main] \in Born /\ buf_pc[Main] \notin Stopping /\ buf_pc[Main] # "done"
          /\ sem'["consumer_finished"] = sem["consumer_finished"]
          /\ sem'["producer_finished"] = sem["producer_finished"] - 1
      BY <1>3, <1>4, <2>2 DEF Born, Stopping, buffer!SendPlace, buffer!Semaphore
    <3>2. /\ sem'["producer_finished"] + buf_waited' = GoneProducers
          /\ sem'["consumer_finished"] = GoneConsumers
      BY <1>1, <2>1, <3>1
    <3> QED
      BY <1>1, <1>2, <2>1, <3>1, <3>2 DEF BufferInv, Phases, GoneProducers, GoneConsumers
  <2>3. CASE k = "consumer_finished"
    <3>1. /\ buf_pc[Main] \notin Born /\ buf_pc[Main] \in Stopping /\ buf_pc[Main] # "done"
          /\ sem'["producer_finished"] = sem["producer_finished"]
          /\ sem'["consumer_finished"] = sem["consumer_finished"] - 1
      BY <1>3, <1>4, <2>3 DEF Born, Stopping, buffer!SendPlace, buffer!Semaphore
    <3>2. /\ sem'["producer_finished"] + Cardinality(Producer) = GoneProducers
          /\ sem'["consumer_finished"] + buf_waited' = GoneConsumers
      BY <1>1, <2>1, <3>1
    <3> QED
      BY <1>1, <1>2, <2>1, <3>1, <3>2 DEF BufferInv, Phases, GoneProducers, GoneConsumers
  <2> QED
    BY <2>2, <2>3
<1>9. buffer!Oldest' = buffer!Oldest /\ buffer!Filled' = buffer!Filled /\ buffer!SlotsAccounted'
  BY <1>1, <1>2, <1>5 DEF buffer!Oldest, buffer!Filled, Stored, Claimed, Storing, Emptied,
     buffer!SlotsAccounted, BufferInv, buffer!At
<1>10. SameCargo
  BY <1>1, <1>9, QueueKept DEF SameCargo
<1>11. Fresh' /\ Once' /\ StopsLast'
  <2> QED
    BY <1>1, <1>2, <1>6, <1>10, CargoKept
<1> QED
  BY <1>11, <1>6, <1>7, <1>8, <1>9, <1>10 DEF BufferInv, SameCargo

-----------------------------------------------------------------------------
LEMMA WrapNext ==
    ASSUME NEW x \in buffer!Slot, NEW k \in 0 .. BUFFER_SIZE - 1
    PROVE  /\ buffer!After((x + k) % BUFFER_SIZE) = (x + (k + 1)) % BUFFER_SIZE
           /\ (buffer!After(x) + k) % BUFFER_SIZE = (x + (k + 1)) % BUFFER_SIZE
<1>1. k \in 0 .. BUFFER_SIZE /\ k + 1 \in 0 .. BUFFER_SIZE /\ x \in Nat /\ k \in Nat
  BY Roles DEF buffer!Slot
<1>2. /\ (x + k) % BUFFER_SIZE = IF x + k < BUFFER_SIZE THEN x + k ELSE x + k - BUFFER_SIZE
      /\ (x + k) % BUFFER_SIZE \in buffer!Slot
  BY <1>1, Wrap
<1>3. (x + (k + 1)) % BUFFER_SIZE
          = IF x + (k + 1) < BUFFER_SIZE THEN x + (k + 1) ELSE x + (k + 1) - BUFFER_SIZE
  BY <1>1, Wrap
<1>4. buffer!After((x + k) % BUFFER_SIZE)
          = IF (x + k) % BUFFER_SIZE = BUFFER_SIZE - 1 THEN 0 ELSE ((x + k) % BUFFER_SIZE) + 1
  BY <1>2, AfterWraps
<1>5. /\ buffer!After(x) = IF x = BUFFER_SIZE - 1 THEN 0 ELSE x + 1
      /\ (buffer!After(x) + k) % BUFFER_SIZE
             = IF buffer!After(x) + k < BUFFER_SIZE THEN buffer!After(x) + k ELSE
                 buffer!After(x) + k - BUFFER_SIZE
  BY <1>1, AfterWraps, Wrap
<1>6. x < BUFFER_SIZE /\ k < BUFFER_SIZE /\ BUFFER_SIZE \in Nat
  BY Roles DEF buffer!Slot
<1>7. buffer!After((x + k) % BUFFER_SIZE) = (x + (k + 1)) % BUFFER_SIZE
  BY <1>1, <1>2, <1>3, <1>4, <1>6
<1>8. (buffer!After(x) + k) % BUFFER_SIZE = (x + (k + 1)) % BUFFER_SIZE
  BY <1>1, <1>3, <1>5, <1>6
<1> QED
  BY <1>7, <1>8

(* The item that a sender makes is a new one.                              *)
LEMMA MakeInv ==
    ASSUME BufferInv, NEW t \in buffer!Sender, buffer!Make(t)
    PROVE  /\ BufferInv' /\ buffer!Queue' = buffer!Queue
           /\ \A c \in Consumer : item'[c] = item[c]
<1> USE Roles
<1>1. /\ buf_pc[t] = "make" /\ to_go[t] > 0 /\ buf_pc' = [buf_pc EXCEPT ![t] = "P_empty"]
      /\ \A u \in buffer!Thread : buf_pc'[u] = IF u = t THEN "P_empty" ELSE buf_pc[u]
  BY DEF buffer!Make, buffer!Go, BufferInv, BufferTypes
<1>2. /\ item_buffer' = item_buffer /\ head' = head /\ tail' = tail /\ sem' = sem
      /\ to_go' = to_go /\ buf_waited' = buf_waited /\ heap' = heap \cup {Made(t)}
      /\ item' = [item EXCEPT ![t] = Made(t)]
  BY DEF buffer!Make, buffer!bufferVars, Made
<1>3. Made(t) \in buffer!Item /\ Made(t).by = t /\ Made(t).n = to_go[t]
  BY SameCounts, <1>1 DEF BufferInv, BufferTypes, Made, buffer!Item
<1>4. \A u \in buffer!Thread : item'[u] = IF u = t THEN Made(t) ELSE item[u]
  BY <1>2 DEF BufferInv, BufferTypes
<1>5. BufferTypes'
  <2>1. heap' \subseteq buffer!Item /\ IsFiniteSet(heap')
    BY <1>2, <1>3, FS_AddElement DEF BufferInv, BufferTypes
  <2>2. item' \in [buffer!Thread -> buffer!Item \cup {NULL}]
    BY <1>2, <1>3 DEF BufferInv, BufferTypes
  <2>3. /\ buf_pc' \in [buffer!Thread -> {"unborn", "gone"} \cup buffer!SendPlace
           \cup buffer!ReceivePlace \cup buffer!MainPlace]
        /\ \A u \in Producer : buf_pc'[u] \in {"unborn", "gone"} \cup buffer!SendPlace
        /\ \A c \in Consumer : buf_pc'[c] \in {"unborn", "gone"} \cup buffer!ReceivePlace
        /\ buf_pc'[Main] \in Born \cup Stopping
    BY <1>1 DEF BufferInv, BufferTypes, Stopping, buffer!SendPlace
  <2> QED
    BY <1>2, <2>1, <2>2, <2>3 DEF BufferInv, BufferTypes
<1>6. OneInside'
  BY <1>1, <1>2 DEF BufferInv, OneInside, Inside
<1>7. ItemOfPlace'
  <2>1. \A u \in buffer!Sender : Made(u)' = Made(u)
    BY <1>2 DEF Made
  <2> QED
    BY <1>1, <1>2, <1>4, <2>1 DEF BufferInv, ItemOfPlace, Sending, Carries
<1>8. /\ Stored' = Stored /\ Claimed' = Claimed /\ Storing' = Storing /\ Emptied' = Emptied
      /\ GoneProducers' = GoneProducers /\ GoneConsumers' = GoneConsumers
      /\ Stored \in Nat /\ Claimed \in Nat /\ Storing \in Nat /\ Emptied \in Nat
      /\ GoneProducers \in Nat /\ GoneConsumers \in Nat
  <2>1. /\ Counted(Stored, Stored', buffer!Sender, {"V_mutex", "V_full"}, t, "make", "P_empty")
        /\ Counted(Claimed, Claimed', Consumer, {"P_mutex", "fetch"}, t, "make", "P_empty")
        /\ Counted(Storing, Storing', buffer!Sender, {"P_mutex", "store", "advance"}, t, "make",
           "P_empty")
        /\ Counted(Emptied, Emptied', Consumer, {"advance", "V_mutex", "V_empty"}, t, "make",
           "P_empty")
        /\ Counted(GoneProducers, GoneProducers', Producer, {"gone"}, t, "make", "P_empty")
        /\ Counted(GoneConsumers, GoneConsumers', Consumer, {"gone"}, t, "make", "P_empty")
    BY <1>1, CountsMove DEF BufferInv
  <2> QED
    BY <2>1 DEF Counted
<1>9. Phases'
  <2>1. /\ buf_pc'[Main] \in Born <=> buf_pc[Main] \in Born
        /\ buf_pc'[Main] \in Stopping <=> buf_pc[Main] \in Stopping
        /\ buf_pc'[Main] \in {"wait_consumers", "done"} <=> buf_pc[Main] \in {"wait_consumers",
           "done"}
        /\ buf_pc'[Main] = "done" => buf_pc[Main] = "done"
        /\ buf_pc'[Main] # "fork" => buf_pc[Main] # "fork"
    BY <1>1 DEF Born, Stopping, buffer!SendPlace
  <2>2. /\ buf_pc'[Main] # "fork" => \A u \in buffer!Thread : buf_pc'[u] # "unborn"
        /\ buf_pc'[Main] \in Stopping => \A u \in Producer : buf_pc'[u] = "gone"
    BY <1>1, <2>1 DEF BufferInv, Phases
  <2> QED
    BY <1>2, <1>8, <2>1, <2>2 DEF BufferInv, Phases, GoneProducers, GoneConsumers
<1>10. buffer!Oldest' = buffer!Oldest
  <2>1. buffer!At(Consumer, {"advance"})' = buffer!At(Consumer, {"advance"})
    BY <1>1 DEF buffer!At
  <2> QED
    BY <1>2, <2>1 DEF buffer!Oldest
<1>11. buffer!Filled' = buffer!Filled /\ buffer!SlotsAccounted'
  BY <1>2, <1>5, <1>8, <1>10, AccountsKept
<1>12. buffer!Queue' = buffer!Queue
  BY <1>2, <1>10, <1>11, QueueKept
<1>13. Made(t) \notin heap
  <2>1. buf_pc[t] \notin Sending /\ to_go[t] \in Nat
    BY <1>1 DEF Sending, Carries, BufferInv, BufferTypes
  <2>2. \A i \in heap : i.by = t => i.n > to_go[t]
    BY <2>1 DEF BufferInv, Fresh
  <2> QED
    BY <1>3, <2>1, <2>2
<1>14. Fresh'
  <2>1. Made(t).by = t /\ Made(t).n = to_go[t] /\ buf_pc'[t] \in Sending
    BY <1>1, <1>3 DEF Sending, Carries
  <2>2. ASSUME NEW i \in heap
        PROVE  i.n > to_go[i.by] \/ (i.n = to_go[i.by] /\ buf_pc'[i.by] \in Sending)
    <3>1. i.by \in buffer!Thread
      BY DEF BufferInv, BufferTypes, buffer!Item
    <3>2. i.n > to_go[i.by] \/ (i.n = to_go[i.by] /\ buf_pc[i.by] \in Sending)
      BY DEF BufferInv, Fresh
    <3>3. buf_pc[i.by] \in Sending => buf_pc'[i.by] \in Sending
      BY <1>1, <2>1, <3>1
    <3> QED
      BY <3>2, <3>3
  <2> QED
    BY <1>2, <2>1, <2>2 DEF Fresh
<1>15. Once'
  <2>1. item[t] = NULL
    BY <1>1 DEF BufferInv, ItemOfPlace, Carries
  <2>2. buffer!Held' = buffer!Held \cup {t} /\ t \notin buffer!Held
    BY <1>3, <1>4, <2>1 DEF buffer!Held
  <2>3. \A i \in 1 .. buffer!Filled : buffer!Queue[i] \in heap
    BY DEF BufferInv, Once, buffer!InBuffer
  <2>4. \A u \in buffer!Held : item[u] \in heap /\ item'[u] = item[u]
    BY <1>4, <2>2 DEF BufferInv, Once, buffer!Held
  <2>5. item'[t] = Made(t)
    BY <1>4
  <2>6. buffer!InBuffer' = buffer!InBuffer
    BY <1>11, <1>12 DEF buffer!InBuffer
  <2>7. heap' = buffer!InBuffer' \cup {item'[u] : u \in buffer!Held'}
    BY <1>2, <2>2, <2>4, <2>5, <2>6 DEF BufferInv, Once
  <2>8. \A u, v \in buffer!Held' : item'[u] = item'[v] => u = v
    BY <1>13, <2>2, <2>4, <2>5 DEF BufferInv, Once
  <2>9. \A i \in 1 .. buffer!Filled' : \A u \in buffer!Held' : buffer!Queue'[i] # item'[u]
    BY <1>11, <1>12, <1>13, <2>2, <2>3, <2>4, <2>5 DEF BufferInv, Once
  <2> QED
    BY <1>11, <1>12, <2>7, <2>8, <2>9 DEF BufferInv, Once
<1>16. StopsLast'
  <2>1. CASE t = Main
    <3>1. StopItems' = StopItems \cup {Made(t)} /\ Made(t) \notin StopItems
      BY <1>2, <1>3, <1>13, <2>1 DEF StopItems
    <3>2. IsFiniteSet(StopItems)
      BY FS_Subset DEF BufferInv, BufferTypes, StopItems
    <3>3. Cardinality(StopItems') = Cardinality(StopItems) + 1 /\ Cardinality(StopItems) \in Nat
      BY <3>1, <3>2, FS_AddElement, FS_CardinalityType
    <3>4. buf_pc[Main] \notin Sending /\ buf_pc'[Main] \in Sending /\ buf_pc'[Main] \notin Born
      BY <1>1, <2>1 DEF Sending, Carries, Born
    <3>5. Cardinality(StopItems) + to_go[Main] + GoneConsumers = Cardinality(Consumer)
      BY <3>4 DEF BufferInv, StopsLast, GoneConsumers
    <3>6. Cardinality(StopItems') + to_go'[Main] + GoneConsumers' = Cardinality(Consumer) + 1
      BY <1>1, <1>2, <1>8, <2>1, <3>3, <3>5 DEF BufferInv, BufferTypes
    <3>7. \A c \in Consumer : Stopped(c)' <=> Stopped(c)
      BY <1>1, <1>4, <2>1 DEF Stopped, buffer!Stops
    <3> QED
      BY <1>11, <1>12, <3>4, <3>6, <3>7 DEF BufferInv, StopsLast, GoneConsumers
  <2>2. CASE t # Main
    <3>1. StopItems' = StopItems
      BY <1>2, <1>3, <2>2 DEF StopItems
    <3>2. \A c \in Consumer : (Stopped(c)' <=> Stopped(c)) /\ buf_pc'[c] = buf_pc[c]
      BY <1>1, <1>4 DEF Stopped, buffer!Stops
    <3>3. buf_pc'[Main] = buf_pc[Main]
      BY <1>1, <2>2
    <3> QED
      BY <1>2, <1>8, <1>11, <1>12, <3>1, <3>2, <3>3 DEF BufferInv, StopsLast, GoneConsumers
  <2> QED
    BY <2>1, <2>2
<1> QED
  BY <1>4, <1>5, <1>6, <1>7, <1>9, <1>11, <1>12, <1>14, <1>15, <1>16 DEF BufferInv

-----------------------------------------------------------------------------
(* Who is at the buffer is alone there.                                    *)
LEMMA AloneInside ==
    ASSUME BufferInv, NEW t \in buffer!Thread, buf_pc[t] \in Inside
    PROVE  \A u \in buffer!Thread : u # t => buf_pc[u] \notin Inside
BY DEF BufferInv, OneInside

(* The typing of a thread's next place.                                    *)
LEMMA PlaceTypes ==
    ASSUME BufferInv, NEW t \in buffer!Thread, NEW to, buf_pc' = [buf_pc EXCEPT ![t] = to],
           t \in buffer!Sender => to \in buffer!SendPlace,
           t \in Consumer => to \in buffer!ReceivePlace \cup {"gone"}
    PROVE  /\ buf_pc' \in [buffer!Thread -> {"unborn", "gone"} \cup buffer!SendPlace
              \cup buffer!ReceivePlace \cup buffer!MainPlace]
           /\ \A u \in Producer : buf_pc'[u] \in {"unborn", "gone"} \cup buffer!SendPlace
           /\ \A c \in Consumer : buf_pc'[c] \in {"unborn", "gone"} \cup buffer!ReceivePlace
           /\ buf_pc'[Main] \in Born \cup Stopping
BY Roles DEF BufferInv, BufferTypes, Stopping, buffer!Thread

(* Steps in which no thread's phase changes.                               *)
LEMMA PhasesKept ==
    ASSUME BufferInv, NEW t \in buffer!Thread, NEW to, buf_pc' = [buf_pc EXCEPT ![t] = to],
           t \in buffer!Sender => buf_pc[t] \in buffer!SendPlace /\ to \in buffer!SendPlace,
           t \in Consumer => buf_pc[t] \in buffer!ReceivePlace /\ to \in buffer!ReceivePlace,
           to_go'[Main] = to_go[Main] \/ t = Main, buf_waited' = buf_waited,
           sem'["producer_finished"] = sem["producer_finished"],
           sem'["consumer_finished"] = sem["consumer_finished"]
    PROVE  Phases' /\ GoneConsumers' = GoneConsumers
<1> USE Roles
<1>1. \A u \in buffer!Thread : buf_pc'[u] = IF u = t THEN to ELSE buf_pc[u]
  BY DEF BufferInv, BufferTypes
<1>2. buf_pc[t] \notin {"gone", "unborn"} /\ to \notin {"gone", "unborn"}
  BY DEF buffer!Thread, buffer!SendPlace, buffer!ReceivePlace
<1>3. GoneProducers' = GoneProducers /\ GoneConsumers' = GoneConsumers
  <2>1. /\ Counted(GoneProducers, GoneProducers', Producer, {"gone"}, t, buf_pc[t], to)
        /\ Counted(GoneConsumers, GoneConsumers', Consumer, {"gone"}, t, buf_pc[t], to)
    BY CountsMove DEF BufferInv
  <2> QED
    BY <1>2, <2>1 DEF Counted
<1>4. /\ buf_pc'[Main] \in Born <=> buf_pc[Main] \in Born
      /\ buf_pc'[Main] \in Stopping <=> buf_pc[Main] \in Stopping
      /\ buf_pc'[Main] \in {"wait_consumers", "done"} => t # Main /\ buf_pc[Main] = buf_pc'[Main]
      /\ buf_pc'[Main] \in Born => t # Main
      /\ buf_pc'[Main] # "fork" => buf_pc[Main] # "fork"
  BY <1>1 DEF Born, Stopping, buffer!SendPlace
<1>5. /\ buf_pc'[Main] # "fork" => \A u \in buffer!Thread : buf_pc'[u] # "unborn"
      /\ buf_pc'[Main] \in Stopping => \A u \in Producer : buf_pc'[u] = "gone"
  BY <1>1, <1>2, <1>4 DEF BufferInv, Phases
<1>6. /\ buf_pc'[Main] \in Born => to_go'[Main] = Cardinality(Consumer)
      /\ buf_pc'[Main] \in {"wait_consumers", "done"} => to_go'[Main] = 0
      /\ buf_pc'[Main] = "done" => buf_waited' = Cardinality(Consumer)
  BY <1>4 DEF BufferInv, Phases
<1>7. sem'["producer_finished"] + (IF buf_pc'[Main] \in Born THEN buf_waited' ELSE
          Cardinality(Producer))
          = GoneProducers'
  BY <1>3, <1>4 DEF BufferInv, Phases, GoneProducers
<1>8. sem'["consumer_finished"] + (IF buf_pc'[Main] \in Stopping THEN buf_waited' ELSE 0)
          = GoneConsumers'
  BY <1>3, <1>4 DEF BufferInv, Phases, GoneConsumers
<1> QED
  BY <1>3, <1>5, <1>6, <1>7, <1>8 DEF Phases, GoneProducers, GoneConsumers

(* producer_send writes a slot that is not of the queue.                   *)
LEMMA StoreInv ==
    ASSUME BufferInv, NEW t \in buffer!Sender, buffer!SendStore(t)
    PROVE  BufferInv' /\ SameCargo
<1> USE Roles
<1>1. /\ buf_pc[t] = "store" /\ buf_pc' = [buf_pc EXCEPT ![t] = "advance"]
      /\ \A u \in buffer!Thread : buf_pc'[u] = IF u = t THEN "advance" ELSE buf_pc[u]
  BY DEF buffer!SendStore, buffer!Go, BufferInv, BufferTypes
<1>2. /\ item_buffer' = [item_buffer EXCEPT ![tail] = item[t]]
      /\ head' = head /\ tail' = tail /\ sem' = sem /\ item' = item
      /\ to_go' = to_go /\ buf_waited' = buf_waited /\ heap' = heap
  BY DEF buffer!SendStore
<1>3. \A u \in buffer!Thread : u # t => buf_pc[u] \notin Inside
  BY <1>1, AloneInside DEF Inside
<1>4. BufferTypes'
  <2>1. "advance" \in buffer!SendPlace
    BY DEF buffer!SendPlace
  <2>2. /\ buf_pc' \in [buffer!Thread -> {"unborn", "gone"} \cup buffer!SendPlace
           \cup buffer!ReceivePlace \cup buffer!MainPlace]
        /\ \A u \in Producer : buf_pc'[u] \in {"unborn", "gone"} \cup buffer!SendPlace
        /\ \A c \in Consumer : buf_pc'[c] \in {"unborn", "gone"} \cup buffer!ReceivePlace
        /\ buf_pc'[Main] \in Born \cup Stopping
    BY <1>1, <2>1, PlaceTypes
  <2>3. item_buffer' \in [buffer!Slot -> buffer!Item \cup {NULL}]
    BY <1>2 DEF BufferInv, BufferTypes
  <2> QED
    BY <1>2, <2>2, <2>3 DEF BufferInv, BufferTypes
<1>5. OneInside'
  BY <1>1, <1>2, <1>3 DEF BufferInv, OneInside, Inside
<1>6. ItemOfPlace'
  <2>1. \A u \in buffer!Sender : Made(u)' = Made(u)
    BY <1>2 DEF Made
  <2>2. \A u \in buffer!Sender : buf_pc'[u] = "advance" => u = t
    BY <1>1, <1>3 DEF Inside
  <2>3. item_buffer'[tail] = item[t]
    BY <1>2 DEF BufferInv, BufferTypes
  <2> QED
    BY <1>1, <1>2, <2>1, <2>2, <2>3 DEF BufferInv, ItemOfPlace, Sending, Carries
<1>7. Phases' /\ GoneConsumers' = GoneConsumers
  BY <1>1, <1>2, PhasesKept DEF buffer!SendPlace
<1>8. /\ Stored' = Stored /\ Claimed' = Claimed /\ Storing' = Storing /\ Emptied' = Emptied
      /\ Stored \in Nat /\ Claimed \in Nat /\ Storing \in Nat /\ Emptied \in Nat
  <2>1. /\ Counted(Stored, Stored', buffer!Sender, {"V_mutex", "V_full"}, t, "store", "advance")
        /\ Counted(Claimed, Claimed', Consumer, {"P_mutex", "fetch"}, t, "store", "advance")
        /\ Counted(Storing, Storing', buffer!Sender, {"P_mutex", "store", "advance"}, t,
           "store", "advance")
        /\ Counted(Emptied, Emptied', Consumer, {"advance", "V_mutex", "V_empty"}, t, "store",
           "advance")
    BY <1>1, CountsMove DEF BufferInv
  <2> QED
    BY <2>1 DEF Counted
<1>9. buffer!Oldest' = buffer!Oldest
  <2>1. buffer!At(Consumer, {"advance"})' = buffer!At(Consumer, {"advance"})
    BY <1>1 DEF buffer!At
  <2> QED
    BY <1>2, <2>1 DEF buffer!Oldest
<1>10. buffer!Filled' = buffer!Filled /\ buffer!SlotsAccounted'
  BY <1>2, <1>4, <1>8, <1>9, AccountsKept
<1>11. buffer!Queue' = buffer!Queue
  <2>1. buffer!Filled \in 0 .. BUFFER_SIZE /\ buffer!Filled < BUFFER_SIZE
    BY <1>1, FilledRange DEF BufferInv
  <2>2. ASSUME NEW i \in 1 .. buffer!Filled PROVE item_buffer'[SlotAt(i)] = item_buffer[SlotAt(i)]
    <3>1. SlotAt(i) # tail /\ SlotAt(i) \in buffer!Slot
      <4>1. /\ i \in 1 .. BUFFER_SIZE /\ buffer!Filled + 1 \in 1 .. BUFFER_SIZE
            /\ i # buffer!Filled + 1
        BY <2>1
      <4> QED
        BY <2>1, <4>1, SlotsAt DEF BufferInv
    <3> QED
      BY <1>2, <3>1 DEF BufferInv, BufferTypes
  <2>3. \A i \in 1 .. buffer!Filled : item_buffer'[(buffer!Oldest + i - 1) % BUFFER_SIZE]
                                   = item_buffer[(buffer!Oldest + i - 1) % BUFFER_SIZE]
    BY <2>2 DEF SlotAt
  <2> QED
    BY <1>9, <1>10, <2>3 DEF buffer!Queue
<1>12. SameCargo
  BY <1>2, <1>10, <1>11 DEF SameCargo
<1>13. Fresh' /\ Once' /\ StopsLast'
  <2>1. /\ \A u \in buffer!Sender : buf_pc[u] \in Sending <=> buf_pc'[u] \in Sending
        /\ \A c \in Consumer : buf_pc[c] = "gone" <=> buf_pc'[c] = "gone"
        /\ buf_pc'[Main] \in Born => buf_pc[Main] \in Born
    BY <1>1 DEF Sending, Carries, Born
  <2> QED
    BY <1>4, <1>7, <1>12, <2>1, CargoKept
<1> QED
  BY <1>4, <1>5, <1>6, <1>7, <1>10, <1>12, <1>13 DEF BufferInv

(* The item joins the queue when tail moves on.                            *)
LEMMA AdvanceInv ==
    ASSUME BufferInv, NEW t \in buffer!Sender, buffer!SendAdvance(t)
    PROVE  /\ BufferInv' /\ buffer!Filled < BUFFER_SIZE /\ buffer!Filled' = buffer!Filled + 1
           /\ \A i \in 1 .. buffer!Filled : buffer!Queue'[i] = buffer!Queue[i]
           /\ buffer!Queue'[buffer!Filled + 1] = item[t] /\ item[t] \in buffer!Item
           /\ t \in buffer!Held
           /\ \A u \in buffer!Thread : item'[u] = IF u = t THEN NULL ELSE item[u]
<1> USE Roles
<1>1. /\ buf_pc[t] = "advance" /\ buf_pc' = [buf_pc EXCEPT ![t] = "V_mutex"]
      /\ \A u \in buffer!Thread : buf_pc'[u] = IF u = t THEN "V_mutex" ELSE buf_pc[u]
  BY DEF buffer!SendAdvance, buffer!Go, BufferInv, BufferTypes
<1>2. /\ item_buffer' = item_buffer /\ head' = head /\ tail' = buffer!After(tail) /\ sem' = sem
      /\ item' = [item EXCEPT ![t] = NULL]
      /\ to_go' = to_go /\ buf_waited' = buf_waited /\ heap' = heap
  BY DEF buffer!SendAdvance
<1>3. \A u \in buffer!Thread : u # t => buf_pc[u] \notin Inside
  BY <1>1, AloneInside DEF Inside
<1>4. \A u \in buffer!Thread : item'[u] = IF u = t THEN NULL ELSE item[u]
  BY <1>2 DEF BufferInv, BufferTypes
<1>5. /\ item[t] = Made(t) /\ item[t] \in buffer!Item /\ t \in buffer!Held
      /\ item_buffer[tail] = item[t]
  <2>1. item[t] = Made(t) /\ to_go[t] > 0
    BY <1>1 DEF BufferInv, ItemOfPlace, Sending, Carries
  <2>2. Made(t) \in buffer!Item
    BY SameCounts, <2>1 DEF Made, buffer!Item, BufferInv, BufferTypes
  <2> QED
    BY <1>1, <2>1, <2>2 DEF BufferInv, ItemOfPlace, buffer!Held
<1>6. BufferTypes'
  <2>1. "V_mutex" \in buffer!SendPlace
    BY DEF buffer!SendPlace
  <2>2. /\ buf_pc' \in [buffer!Thread -> {"unborn", "gone"} \cup buffer!SendPlace
           \cup buffer!ReceivePlace \cup buffer!MainPlace]
        /\ \A u \in Producer : buf_pc'[u] \in {"unborn", "gone"} \cup buffer!SendPlace
        /\ \A c \in Consumer : buf_pc'[c] \in {"unborn", "gone"} \cup buffer!ReceivePlace
        /\ buf_pc'[Main] \in Born \cup Stopping
    BY <1>1, <2>1, PlaceTypes
  <2>3. item' \in [buffer!Thread -> buffer!Item \cup {NULL}] /\ tail' \in buffer!Slot
    BY <1>2, AfterWraps DEF BufferInv, BufferTypes
  <2> QED
    BY <1>2, <2>2, <2>3 DEF BufferInv, BufferTypes
<1>7. OneInside'
  BY <1>1, <1>2, <1>3 DEF BufferInv, OneInside, Inside
<1>8. ItemOfPlace'
  <2>1. \A u \in buffer!Sender : Made(u)' = Made(u)
    BY <1>2 DEF Made
  <2>2. \A u \in buffer!Sender : buf_pc'[u] # "advance"
    BY <1>1, <1>3 DEF Inside
  <2> QED
    BY <1>1, <1>2, <1>4, <2>1, <2>2 DEF BufferInv, ItemOfPlace, Sending, Carries
<1>9. Phases' /\ GoneConsumers' = GoneConsumers
  BY <1>1, <1>2, PhasesKept DEF buffer!SendPlace
<1>10. /\ Stored' = Stored + 1 /\ Claimed' = Claimed /\ Storing' = Storing - 1 /\ Emptied' = Emptied
       /\ Stored \in Nat /\ Claimed \in Nat /\ Storing \in Nat /\ Emptied \in Nat
  <2>1. /\ Counted(Stored, Stored', buffer!Sender, {"V_mutex", "V_full"}, t, "advance", "V_mutex")
        /\ Counted(Claimed, Claimed', Consumer, {"P_mutex", "fetch"}, t, "advance", "V_mutex")
        /\ Counted(Storing, Storing', buffer!Sender, {"P_mutex", "store", "advance"}, t,
           "advance", "V_mutex")
        /\ Counted(Emptied, Emptied', Consumer, {"advance", "V_mutex", "V_empty"}, t, "advance",
           "V_mutex")
    BY <1>1, CountsMove DEF BufferInv
  <2> QED
    BY <2>1 DEF Counted
<1>11. buffer!Oldest' = buffer!Oldest
  <2>1. buffer!At(Consumer, {"advance"})' = buffer!At(Consumer, {"advance"})
    BY <1>1 DEF buffer!At
  <2> QED
    BY <1>2, <2>1 DEF buffer!Oldest
<1>12. /\ buffer!Filled < BUFFER_SIZE /\ buffer!Filled \in 0 .. BUFFER_SIZE
       /\ buffer!Oldest \in buffer!Slot
  BY <1>1, FilledRange DEF BufferInv
<1>13. buffer!Filled' = buffer!Filled + 1
  <2>1. /\ buffer!Filled = sem["full"] + Stored + Claimed
        /\ buffer!Filled' = sem'["full"] + Stored' + Claimed'
    BY SameCounts DEF buffer!Filled, Stored, Claimed
  <2>2. sem["full"] \in Nat
    BY DEF BufferInv, BufferTypes, buffer!Semaphore
  <2> QED
    BY <1>2, <1>10, <2>1, <2>2
<1>14. buffer!SlotsAccounted'
  <2>1. /\ BUFFER_SIZE = sem["empty"] + buffer!Filled + Storing + Emptied
        /\ tail = (buffer!Oldest + buffer!Filled) % BUFFER_SIZE
    BY FilledForm DEF BufferInv
  <2>2. sem["empty"] \in Nat
    BY DEF BufferInv, BufferTypes, buffer!Semaphore
  <2>3. BUFFER_SIZE = sem'["empty"] + buffer!Filled' + Storing' + Emptied'
    BY <1>2, <1>10, <1>12, <1>13, <2>1, <2>2
  <2>4. buffer!Filled \in 0 .. BUFFER_SIZE - 1
    BY <1>12
  <2>5. tail' = (buffer!Oldest' + buffer!Filled') % BUFFER_SIZE
    BY <1>2, <1>11, <1>12, <1>13, <2>1, <2>4, WrapNext
  <2> QED
    BY SameCounts, <2>3, <2>5 DEF buffer!SlotsAccounted, Storing, Emptied
<1>15. \A i \in 1 .. buffer!Filled : buffer!Queue'[i] = buffer!Queue[i]
  BY <1>2, <1>11, <1>12, <1>13 DEF buffer!Queue
<1>16. buffer!Queue'[buffer!Filled + 1] = item[t]
  <2>1. buffer!Queue'[buffer!Filled + 1] = item_buffer[SlotAt(buffer!Filled + 1)]
    BY <1>2, <1>11, <1>12, <1>13 DEF buffer!Queue, SlotAt
  <2>2. tail = SlotAt(buffer!Filled + 1)
    BY <1>12, SlotsAt DEF BufferInv
  <2> QED
    BY <1>5, <2>1, <2>2
<1>17. /\ 1 .. buffer!Filled' = (1 .. buffer!Filled) \cup {buffer!Filled + 1}
       /\ buffer!Filled + 1 \notin 1 .. buffer!Filled
  BY <1>12, <1>13
<1>18. Fresh'
  <2>1. ASSUME NEW i \in heap
        PROVE  i.n > to_go[i.by] \/ (i.n = to_go[i.by] /\ buf_pc'[i.by] \in Sending)
    <3>1. i.n > to_go[i.by] \/ (i.n = to_go[i.by] /\ buf_pc[i.by] \in Sending)
      BY DEF BufferInv, Fresh
    <3>2. i.by \in buffer!Thread
      BY DEF BufferInv, BufferTypes, buffer!Item
    <3>3. buf_pc[i.by] \in Sending => buf_pc'[i.by] \in Sending
      BY <1>1, <3>2 DEF Sending
    <3> QED
      BY <3>1, <3>3
  <2> QED
    BY <1>2, <2>1 DEF Fresh
<1>19. Once'
  <2>1. buffer!Held' = buffer!Held \ {t} /\ \A u \in buffer!Held' : item'[u] = item[u]
    BY <1>4 DEF buffer!Held
  <2>2. buffer!InBuffer' = buffer!InBuffer \cup {item[t]}
    BY <1>15, <1>16, <1>17 DEF buffer!InBuffer
  <2>3. heap' = buffer!InBuffer' \cup {item'[u] : u \in buffer!Held'}
    BY <1>2, <1>5, <2>1, <2>2 DEF BufferInv, Once
  <2>4. \A i \in 1 .. buffer!Filled' : buffer!Queue'[i] \in buffer!Item
    BY <1>5, <1>15, <1>16, <1>17 DEF BufferInv, Once
  <2>5. \A i, j \in 1 .. buffer!Filled' : buffer!Queue'[i] = buffer!Queue'[j] => i = j
    BY <1>5, <1>15, <1>16, <1>17 DEF BufferInv, Once
  <2>6. \A u, v \in buffer!Held' : item'[u] = item'[v] => u = v
    BY <2>1 DEF BufferInv, Once
  <2>7. \A i \in 1 .. buffer!Filled' : \A u \in buffer!Held' : buffer!Queue'[i] # item'[u]
    BY <1>5, <1>15, <1>16, <1>17, <2>1 DEF BufferInv, Once
  <2> QED
    BY <2>3, <2>4, <2>5, <2>6, <2>7 DEF Once
<1>20. StopsLast'
  <2>1. StopItems' = StopItems
    BY <1>2 DEF StopItems
  <2>2. /\ buf_pc'[Main] \in Born => buf_pc[Main] \in Born
        /\ buf_pc'[Main] \in Sending <=> buf_pc[Main] \in Sending
    BY <1>1 DEF Born, Sending, Carries
  <2>3. \A c \in Consumer : (Stopped(c)' <=> Stopped(c)) /\ buf_pc'[c] = buf_pc[c]
    BY <1>1, <1>4 DEF Stopped, buffer!Stops
  <2>4. CASE t = Main
    <3>1. item[t].by = Main
      BY <1>5, <2>4 DEF Made
    <3>2. \A i \in 1 .. buffer!Filled' : \A j \in 1 .. buffer!Filled' :
              i < j /\ buffer!Queue'[i].by = Main => buffer!Queue'[j].by = Main
      <4> SUFFICES ASSUME NEW i \in 1 .. buffer!Filled', NEW j \in 1 .. buffer!Filled', i < j,
                          buffer!Queue'[i].by = Main
                   PROVE  buffer!Queue'[j].by = Main
        OBVIOUS
      <4>1. CASE j = buffer!Filled + 1
        BY <1>16, <3>1, <4>1
      <4>2. CASE j # buffer!Filled + 1
        <5>1. i \in 1 .. buffer!Filled /\ j \in 1 .. buffer!Filled
          BY <1>12, <1>13, <4>2
        <5> QED
          BY <1>15, <5>1 DEF BufferInv, StopsLast
      <4> QED
        BY <4>1, <4>2
    <3>3. (\E c \in Consumer : Stopped(c)') => \A i \in 1 .. buffer!Filled' :
              buffer!Queue'[i].by = Main
      BY <1>15, <1>16, <1>17, <2>3, <3>1 DEF BufferInv, StopsLast
    <3> QED
      BY <1>2, <1>9, <2>1, <2>2, <2>3, <3>2, <3>3 DEF BufferInv, StopsLast, GoneConsumers
  <2>5. CASE t # Main
    <3>1. buf_pc[Main] \in Born
      <4>1. buf_pc[t] # "gone" /\ t \in Producer
        BY <1>1, <2>5 DEF buffer!Sender
      <4> QED
        BY <4>1 DEF BufferInv, BufferTypes, Phases
    <3>2. StopItems = {} /\ \A c \in Consumer : buf_pc[c] # "gone"
      BY <3>1 DEF BufferInv, StopsLast
    <3>3. \A i \in heap : i.by # Main
      BY <3>2 DEF StopItems
    <3>4. \A i \in 1 .. buffer!Filled' : buffer!Queue'[i] \in heap'
      BY <1>19 DEF Once, buffer!InBuffer
    <3>5. \A c \in Consumer : ~Stopped(c)
      BY <3>2, <3>3 DEF Stopped, buffer!Stops, BufferInv, Once, buffer!Held
    <3> QED
      BY <1>2, <1>9, <2>1, <2>2, <2>3, <3>3, <3>4, <3>5
         DEF BufferInv, StopsLast, GoneConsumers
  <2> QED
    BY <2>4, <2>5
<1> QED
  BY <1>4, <1>5, <1>6, <1>7, <1>8, <1>9, <1>12, <1>13, <1>14, <1>15, <1>16, <1>18, <1>19, <1>20
     DEF BufferInv

-----------------------------------------------------------------------------
(* V(full), and one item less to go.                                       *)
LEMMA DoneInv ==
    ASSUME BufferInv, NEW t \in buffer!Sender, buffer!SendDone(t)
    PROVE  BufferInv' /\ buffer!Queue' = buffer!Queue /\ item' = item
<1> USE Roles
<1>1. /\ buf_pc[t] = "V_full" /\ buf_pc' = [buf_pc EXCEPT ![t] = "make"]
      /\ \A u \in buffer!Thread : buf_pc'[u] = IF u = t THEN "make" ELSE buf_pc[u]
  BY DEF buffer!SendDone, buffer!Go, BufferInv, BufferTypes
<1>2. /\ item_buffer' = item_buffer /\ head' = head /\ tail' = tail
      /\ item' = item /\ buf_waited' = buf_waited /\ heap' = heap
      /\ to_go' = [to_go EXCEPT ![t] = @ - 1]
  BY DEF buffer!SendDone, buffer!bufferVars
<1>3. /\ sem' \in [buffer!Semaphore -> Nat] /\ sem["full"] \in Nat /\ sem'["full"] = sem["full"] + 1
      /\ \A j \in buffer!Semaphore : j # "full" => sem'[j] = sem[j]
  BY DEF buffer!SendDone, BufferInv, BufferTypes, buffer!Semaphore
<1>4. /\ to_go[t] \in Nat /\ to_go[t] > 0
      /\ \A u \in buffer!Sender : to_go'[u] = IF u = t THEN to_go[t] - 1 ELSE to_go[u]
      /\ to_go' \in [buffer!Sender -> 0 .. ITEMS_TO_PRODUCE + Cardinality(Consumer)]
  <2>1. to_go[t] > 0 /\ to_go[t] \in 0 .. ITEMS_TO_PRODUCE + Cardinality(Consumer)
    BY <1>1 DEF BufferInv, BufferTypes, ItemOfPlace, Sending
  <2>2. to_go[t] - 1 \in 0 .. ITEMS_TO_PRODUCE + Cardinality(Consumer)
    BY <2>1
  <2> QED
    BY <1>2, <2>1, <2>2 DEF BufferInv, BufferTypes
<1>5. BufferTypes'
  <2>1. "make" \in buffer!SendPlace
    BY DEF buffer!SendPlace
  <2>2. /\ buf_pc' \in [buffer!Thread -> {"unborn", "gone"} \cup buffer!SendPlace
           \cup buffer!ReceivePlace \cup buffer!MainPlace]
        /\ \A u \in Producer : buf_pc'[u] \in {"unborn", "gone"} \cup buffer!SendPlace
        /\ \A c \in Consumer : buf_pc'[c] \in {"unborn", "gone"} \cup buffer!ReceivePlace
        /\ buf_pc'[Main] \in Born \cup Stopping
    BY <1>1, <2>1, PlaceTypes
  <2> QED
    BY <1>2, <1>3, <1>4, <2>2 DEF BufferInv, BufferTypes
<1>6. OneInside'
  BY <1>1, <1>3 DEF BufferInv, OneInside, Inside, buffer!Semaphore
<1>7. ItemOfPlace'
  <2>1. \A u \in buffer!Sender : u # t => Made(u)' = Made(u)
    BY <1>4 DEF Made
  <2> QED
    BY <1>1, <1>2, <1>4, <2>1 DEF BufferInv, ItemOfPlace, Sending, Carries
<1>8. Phases' /\ GoneConsumers' = GoneConsumers
  <2>1. /\ sem'["producer_finished"] = sem["producer_finished"]
        /\ sem'["consumer_finished"] = sem["consumer_finished"]
    BY <1>3 DEF buffer!Semaphore
  <2> QED
    BY <1>1, <1>2, <1>4, <2>1, PhasesKept DEF buffer!SendPlace
<1>9. /\ Stored' = Stored - 1 /\ Claimed' = Claimed /\ Storing' = Storing /\ Emptied' = Emptied
      /\ Stored \in Nat /\ Claimed \in Nat /\ Storing \in Nat /\ Emptied \in Nat
      /\ Stored' \in Nat
  <2>1. /\ Counted(Stored, Stored', buffer!Sender, {"V_mutex", "V_full"}, t, "V_full", "make")
        /\ Counted(Claimed, Claimed', Consumer, {"P_mutex", "fetch"}, t, "V_full", "make")
        /\ Counted(Storing, Storing', buffer!Sender, {"P_mutex", "store", "advance"}, t,
           "V_full", "make")
        /\ Counted(Emptied, Emptied', Consumer, {"advance", "V_mutex", "V_empty"}, t, "V_full",
           "make")
    BY <1>1, CountsMove DEF BufferInv
  <2> QED
    BY <2>1 DEF Counted
<1>10. buffer!Oldest' = buffer!Oldest
  <2>1. buffer!At(Consumer, {"advance"})' = buffer!At(Consumer, {"advance"})
    BY <1>1 DEF buffer!At
  <2> QED
    BY <1>2, <2>1 DEF buffer!Oldest
<1>11. buffer!Filled' = buffer!Filled /\ buffer!SlotsAccounted'
  <2>1. /\ sem'["full"] + Stored' + Claimed' = sem["full"] + Stored + Claimed
        /\ sem'["empty"] + Storing' + Emptied' = sem["empty"] + Storing + Emptied
    BY <1>3, <1>9 DEF buffer!Semaphore
  <2> QED
    BY <1>2, <1>5, <1>9, <1>10, <2>1, AccountsKept
<1>12. buffer!Queue' = buffer!Queue
  BY <1>2, <1>10, <1>11, QueueKept
<1>13. Fresh'
  <2>1. ASSUME NEW i \in heap
        PROVE  i.n > to_go'[i.by] \/ (i.n = to_go'[i.by] /\ buf_pc'[i.by] \in Sending)
    <3>1. i.n > to_go[i.by] \/ (i.n = to_go[i.by] /\ buf_pc[i.by] \in Sending)
      BY DEF BufferInv, Fresh
    <3>2. i.by \in buffer!Sender /\ i.by \in buffer!Thread /\ i.n \in Nat
      BY DEF BufferInv, BufferTypes, buffer!Item
    <3>3. CASE i.by = t
      BY <1>4, <3>1, <3>2, <3>3
    <3>4. CASE i.by # t
      BY <1>1, <1>4, <3>1, <3>2, <3>4
    <3> QED
      BY <3>3, <3>4
  <2> QED
    BY <1>2, <2>1 DEF Fresh
<1>14. Once'
  BY <1>2, <1>11, <1>12 DEF BufferInv, Once, buffer!Held, buffer!InBuffer
<1>15. StopsLast'
  <2>1. StopItems' = StopItems /\ Cardinality(StopItems) \in Nat
    BY <1>2, FS_Subset, FS_CardinalityType DEF StopItems, BufferInv, BufferTypes
  <2>2. GoneConsumers \in Nat
    BY Roles, FS_Subset, FS_CardinalityType DEF GoneConsumers, buffer!At
  <2>3. \A c \in Consumer : (Stopped(c)' <=> Stopped(c)) /\ buf_pc'[c] = buf_pc[c]
    BY <1>1, <1>2 DEF Stopped, buffer!Stops
  <2>4. buf_pc'[Main] \in Born => buf_pc[Main] \in Born
    BY <1>1 DEF Born
  <2>5. Cardinality(StopItems) + to_go[Main] + GoneConsumers
            = Cardinality(Consumer) + (IF buf_pc[Main] \in Sending THEN 1 ELSE 0)
    BY DEF BufferInv, StopsLast, GoneConsumers
  <2>6. Cardinality(StopItems') + to_go'[Main] + GoneConsumers'
            = Cardinality(Consumer) + (IF buf_pc'[Main] \in Sending THEN 1 ELSE 0)
    <3>1. CASE t = Main
      <4>1. /\ buf_pc[Main] \in Sending /\ buf_pc'[Main] \notin Sending
            /\ to_go'[Main] = to_go[Main] - 1 /\ to_go[Main] \in Nat
        BY <1>1, <1>4, <3>1 DEF Sending, Carries
      <4> QED
        BY <1>8, <2>1, <2>2, <2>5, <4>1
    <3>2. CASE t # Main
      <4>1. buf_pc'[Main] = buf_pc[Main] /\ to_go'[Main] = to_go[Main]
        BY <1>1, <1>4, <3>2
      <4> QED
        BY <1>8, <2>1, <2>5, <4>1
    <3> QED
      BY <3>1, <3>2
  <2> QED
    BY <1>11, <1>12, <2>1, <2>3, <2>4, <2>6 DEF BufferInv, StopsLast, GoneConsumers
<1> QED
  BY <1>2, <1>5, <1>6, <1>7, <1>8, <1>11, <1>12, <1>13, <1>14, <1>15 DEF BufferInv

-----------------------------------------------------------------------------
(* consumer_receive takes the oldest item, and then moves head on.         *)
LEMMA FetchInv ==
    ASSUME BufferInv, NEW c \in Consumer, buffer!ReceiveFetch(c)
    PROVE  /\ BufferInv' /\ buffer!Filled > 0 /\ buffer!Filled' = buffer!Filled - 1
           /\ c \notin buffer!Held
           /\ \A i \in 1 .. buffer!Filled' : buffer!Queue'[i] = buffer!Queue[i + 1]
           /\ \A u \in buffer!Thread : item'[u] = IF u = c THEN buffer!Queue[1] ELSE item[u]
<1> USE Roles
<1>1. /\ buf_pc[c] = "fetch" /\ buf_pc' = [buf_pc EXCEPT ![c] = "advance"]
      /\ \A u \in buffer!Thread : buf_pc'[u] = IF u = c THEN "advance" ELSE buf_pc[u]
  BY DEF buffer!ReceiveFetch, buffer!Go, BufferInv, BufferTypes
<1>2. /\ item_buffer' = item_buffer /\ head' = head /\ tail' = tail /\ sem' = sem
      /\ to_go' = to_go /\ buf_waited' = buf_waited /\ heap' = heap
      /\ item' = [item EXCEPT ![c] = item_buffer[head]]
  BY DEF buffer!ReceiveFetch, buffer!bufferVars
<1>3. \A u \in buffer!Thread : u # c => buf_pc[u] \notin Inside
  BY <1>1, AloneInside DEF Inside
<1>4. buffer!At(Consumer, {"advance"}) = {} /\ buffer!At(Consumer, {"advance"})' # {}
  BY <1>1, <1>3 DEF buffer!At, Inside
<1>5. buffer!Oldest = head /\ buffer!Oldest' = buffer!After(head) /\ head \in buffer!Slot
  BY <1>2, <1>4 DEF buffer!Oldest, BufferInv, BufferTypes
<1>6. buffer!Filled > 0 /\ buffer!Filled \in 0 .. BUFFER_SIZE
  BY <1>1, FilledRange DEF BufferInv
<1>7. item_buffer[head] = buffer!Queue[1] /\ buffer!Queue[1] \in buffer!Item
  <2>1. head = SlotAt(1)
    BY <1>4, SlotsAt DEF BufferInv
  <2>2. 1 \in 1 .. buffer!Filled
    BY <1>6
  <2> QED
    BY <2>1, <2>2 DEF buffer!Queue, SlotAt, BufferInv, Once
<1>8. /\ c \notin buffer!Held
      /\ \A u \in buffer!Thread : item'[u] = IF u = c THEN buffer!Queue[1] ELSE item[u]
  BY <1>1, <1>2, <1>7 DEF BufferInv, BufferTypes, ItemOfPlace, buffer!Held, Receiving
<1>9. BufferTypes'
  <2>1. "advance" \in buffer!ReceivePlace
    BY DEF buffer!ReceivePlace
  <2>2. /\ buf_pc' \in [buffer!Thread -> {"unborn", "gone"} \cup buffer!SendPlace
           \cup buffer!ReceivePlace \cup buffer!MainPlace]
        /\ \A u \in Producer : buf_pc'[u] \in {"unborn", "gone"} \cup buffer!SendPlace
        /\ \A d \in Consumer : buf_pc'[d] \in {"unborn", "gone"} \cup buffer!ReceivePlace
        /\ buf_pc'[Main] \in Born \cup Stopping
    BY <1>1, <2>1, PlaceTypes
  <2>3. item' \in [buffer!Thread -> buffer!Item \cup {NULL}]
    BY <1>2, <1>7 DEF BufferInv, BufferTypes
  <2> QED
    BY <1>2, <2>2, <2>3 DEF BufferInv, BufferTypes
<1>10. OneInside'
  BY <1>1, <1>2, <1>3 DEF BufferInv, OneInside, Inside
<1>11. ItemOfPlace'
  <2>1. \A u \in buffer!Sender : Made(u)' = Made(u)
    BY <1>2 DEF Made
  <2>2. \A u \in buffer!Sender : buf_pc'[u] = buf_pc[u] /\ item'[u] = item[u]
    BY <1>1, <1>8
  <2>3. \A d \in Consumer : buf_pc'[d] \in Receiving <=> item'[d] # NULL
    BY <1>1, <1>7, <1>8 DEF BufferInv, ItemOfPlace, Receiving
  <2> QED
    BY <1>2, <2>1, <2>2, <2>3 DEF BufferInv, ItemOfPlace
<1>12. Phases' /\ GoneConsumers' = GoneConsumers
  BY <1>1, <1>2, PhasesKept DEF buffer!ReceivePlace
<1>13. /\ Stored' = Stored /\ Claimed' = Claimed - 1 /\ Storing' = Storing /\ Emptied' = Emptied + 1
       /\ Stored \in Nat /\ Claimed \in Nat /\ Storing \in Nat /\ Emptied \in Nat
  <2>1. /\ Counted(Stored, Stored', buffer!Sender, {"V_mutex", "V_full"}, c, "fetch", "advance")
        /\ Counted(Claimed, Claimed', Consumer, {"P_mutex", "fetch"}, c, "fetch", "advance")
        /\ Counted(Storing, Storing', buffer!Sender, {"P_mutex", "store", "advance"}, c,
           "fetch", "advance")
        /\ Counted(Emptied, Emptied', Consumer, {"advance", "V_mutex", "V_empty"}, c, "fetch",
           "advance")
    BY <1>1, CountsMove DEF BufferInv
  <2> QED
    BY <2>1 DEF Counted
<1>14. buffer!Filled' = buffer!Filled - 1
  <2>1. /\ buffer!Filled = sem["full"] + Stored + Claimed
        /\ buffer!Filled' = sem'["full"] + Stored' + Claimed'
    BY SameCounts DEF buffer!Filled, Stored, Claimed
  <2>2. sem["full"] \in Nat
    BY DEF BufferInv, BufferTypes, buffer!Semaphore
  <2> QED
    BY <1>2, <1>13, <2>1, <2>2
<1>15. buffer!SlotsAccounted'
  <2>1. /\ BUFFER_SIZE = sem["empty"] + buffer!Filled + Storing + Emptied
        /\ tail = (buffer!Oldest + buffer!Filled) % BUFFER_SIZE
    BY FilledForm DEF BufferInv
  <2>2. sem["empty"] \in Nat
    BY DEF BufferInv, BufferTypes, buffer!Semaphore
  <2>3. BUFFER_SIZE = sem'["empty"] + buffer!Filled' + Storing' + Emptied'
    BY <1>2, <1>6, <1>13, <1>14, <2>1, <2>2
  <2>4. buffer!Filled' \in 0 .. BUFFER_SIZE - 1 /\ buffer!Filled = buffer!Filled' + 1
    BY <1>6, <1>14
  <2>5. (buffer!After(head) + buffer!Filled') % BUFFER_SIZE = (head + (buffer!Filled' + 1)) %
            BUFFER_SIZE
    BY <1>5, <2>4, WrapNext
  <2>6. tail' = (buffer!Oldest' + buffer!Filled') % BUFFER_SIZE
    BY <1>2, <1>5, <2>1, <2>4, <2>5
  <2> QED
    BY SameCounts, <2>3, <2>6 DEF buffer!SlotsAccounted, Storing, Emptied
<1>16. ASSUME NEW i \in 1 .. buffer!Filled'
       PROVE  buffer!Queue'[i] = buffer!Queue[i + 1] /\ i + 1 \in 1 .. buffer!Filled
  <2>1. i - 1 \in 0 .. BUFFER_SIZE - 1 /\ i + 1 \in 1 .. buffer!Filled
    BY <1>6, <1>14
  <2>2. (buffer!After(head) + (i - 1)) % BUFFER_SIZE = (head + ((i - 1) + 1)) % BUFFER_SIZE
    BY <1>5, <2>1, WrapNext
  <2>3. buffer!After(head) \in buffer!Slot
    BY <1>5, AfterWraps
  <2>4. /\ buffer!After(head) + (i - 1) = buffer!After(head) + i - 1
        /\ head + ((i - 1) + 1) = head + (i + 1) - 1
    BY <1>5, <2>1, <2>3 DEF buffer!Slot
  <2>5. buffer!Queue'[i] = item_buffer[(buffer!After(head) + i - 1) % BUFFER_SIZE]
    BY <1>2, <1>5 DEF buffer!Queue
  <2>6. buffer!Queue[i + 1] = item_buffer[(head + (i + 1) - 1) % BUFFER_SIZE]
    BY <1>5, <2>1 DEF buffer!Queue
  <2> QED
    BY <2>1, <2>2, <2>4, <2>5, <2>6
<1>17. Fresh'
  <2>1. \A i \in heap : i.by \in buffer!Sender
    BY DEF BufferInv, BufferTypes, buffer!Item
  <2>2. \A u \in buffer!Sender : buf_pc'[u] = buf_pc[u]
    BY <1>1
  <2> QED
    BY <1>2, <2>1, <2>2 DEF BufferInv, Fresh
<1>18. 1 \in 1 .. buffer!Filled /\ \A i \in 1 .. buffer!Filled : i = 1 \/
           (i - 1 \in 1 .. buffer!Filled' /\ buffer!Queue[i] = buffer!Queue'[i - 1])
  <2>1. ASSUME NEW i \in 1 .. buffer!Filled, i # 1
        PROVE  i - 1 \in 1 .. buffer!Filled' /\ buffer!Queue[i] = buffer!Queue'[i - 1]
    <3>1. i - 1 \in 1 .. buffer!Filled' /\ (i - 1) + 1 = i
      BY <1>6, <1>14, <2>1
    <3> QED
      BY <1>16, <3>1
  <2> QED
    BY <1>6, <2>1
<1>19. Once'
  <2>1. buffer!Held' = buffer!Held \cup {c} /\ c \notin buffer!Held
    BY <1>7, <1>8 DEF buffer!Held
  <2>2. item'[c] = buffer!Queue[1] /\ \A u \in buffer!Held : item'[u] = item[u]
    BY <1>8 DEF buffer!Held
  <2>3. buffer!InBuffer = buffer!InBuffer' \cup {buffer!Queue[1]}
    BY <1>16, <1>18 DEF buffer!InBuffer
  <2>4. heap' = buffer!InBuffer' \cup {item'[u] : u \in buffer!Held'}
    BY <1>2, <2>1, <2>2, <2>3 DEF BufferInv, Once
  <2>5. \A i \in 1 .. buffer!Filled' : buffer!Queue'[i] \in buffer!Item
    BY <1>16 DEF BufferInv, Once
  <2>6. ASSUME NEW i \in 1 .. buffer!Filled', NEW j \in 1 .. buffer!Filled', buffer!Queue'[i]
            = buffer!Queue'[j]
        PROVE  i = j
    <3>1. i + 1 = j + 1
      BY <1>16, <2>6 DEF BufferInv, Once
    <3> QED
      BY <1>6, <1>14, <3>1
  <2>7. \A i \in 1 .. buffer!Filled' : buffer!Queue'[i] # buffer!Queue[1]
    <3>1. \A i \in 1 .. buffer!Filled' : i + 1 # 1
      BY <1>6, <1>14
    <3> QED
      BY <1>16, <1>18, <3>1 DEF BufferInv, Once
  <2>8. \A u, v \in buffer!Held' : item'[u] = item'[v] => u = v
    BY <1>18, <2>1, <2>2 DEF BufferInv, Once
  <2>9. \A i \in 1 .. buffer!Filled' : \A u \in buffer!Held' : buffer!Queue'[i] # item'[u]
    BY <1>16, <2>1, <2>2, <2>7 DEF BufferInv, Once
  <2> QED
    BY <2>4, <2>5, <2>6, <2>8, <2>9 DEF Once
<1>20. StopsLast'
  <2>1. StopItems' = StopItems
    BY <1>2 DEF StopItems
  <2>2. buf_pc'[Main] = buf_pc[Main]
    BY <1>1
  <2>3. \A d \in Consumer : buf_pc'[d] = "gone" <=> buf_pc[d] = "gone"
    BY <1>1
  <2>4. ASSUME NEW i \in 1 .. buffer!Filled', NEW j \in 1 .. buffer!Filled', i < j,
            buffer!Queue'[i].by = Main
        PROVE  buffer!Queue'[j].by = Main
    <3>1. i + 1 < j + 1
      BY <1>6, <1>14, <2>4
    <3> QED
      BY <1>16, <2>4, <3>1 DEF BufferInv, StopsLast
  <2>5. ASSUME NEW d \in Consumer, Stopped(d)', NEW i \in 1 .. buffer!Filled'
        PROVE  buffer!Queue'[i].by = Main
    <3>1. CASE Stopped(d)
      BY <1>16, <3>1 DEF BufferInv, StopsLast
    <3>2. CASE ~Stopped(d)
      <4>1. d = c /\ buffer!Queue[1].by = Main
        BY <1>1, <1>8, <2>5, <3>2 DEF Stopped, buffer!Stops
      <4>2. 1 < i + 1
        BY <1>6, <1>14
      <4> QED
        BY <1>16, <1>18, <4>1, <4>2 DEF BufferInv, StopsLast
    <3> QED
      BY <3>1, <3>2
  <2>6. Cardinality(StopItems') + to_go'[Main] + GoneConsumers'
            = Cardinality(Consumer) + (IF buf_pc'[Main] \in Sending THEN 1 ELSE 0)
    BY <1>2, <1>12, <2>1, <2>2 DEF BufferInv, StopsLast, GoneConsumers
  <2>7. buf_pc'[Main] \in Born => StopItems' = {} /\ \A d \in Consumer : buf_pc'[d] # "gone"
    BY <2>1, <2>2, <2>3 DEF BufferInv, StopsLast
  <2> QED
    BY <2>4, <2>5, <2>6, <2>7 DEF StopsLast, GoneConsumers
<1> QED
  BY <1>6, <1>8, <1>9, <1>10, <1>11, <1>12, <1>14, <1>15, <1>16, <1>17, <1>19, <1>20 DEF BufferInv

LEMMA HeadInv ==
    ASSUME BufferInv, NEW c \in Consumer, buffer!ReceiveAdvance(c)
    PROVE  BufferInv' /\ SameCargo
<1> USE Roles
<1>1. /\ buf_pc[c] = "advance" /\ buf_pc' = [buf_pc EXCEPT ![c] = "V_mutex"]
      /\ \A u \in buffer!Thread : buf_pc'[u] = IF u = c THEN "V_mutex" ELSE buf_pc[u]
  BY DEF buffer!ReceiveAdvance, buffer!Go, BufferInv, BufferTypes
<1>2. /\ item_buffer' = item_buffer /\ head' = buffer!After(head) /\ tail' = tail /\ sem' = sem
      /\ to_go' = to_go /\ buf_waited' = buf_waited /\ heap' = heap /\ item' = item
  BY DEF buffer!ReceiveAdvance
<1>3. \A u \in buffer!Thread : u # c => buf_pc[u] \notin Inside
  BY <1>1, AloneInside DEF Inside
<1>4. buffer!At(Consumer, {"advance"}) # {} /\ buffer!At(Consumer, {"advance"})' = {}
  BY <1>1, <1>3 DEF buffer!At, Inside
<1>5. buffer!Oldest' = buffer!Oldest
  BY <1>2, <1>4 DEF buffer!Oldest
<1>6. BufferTypes'
  <2>1. "V_mutex" \in buffer!ReceivePlace
    BY DEF buffer!ReceivePlace
  <2>2. /\ buf_pc' \in [buffer!Thread -> {"unborn", "gone"} \cup buffer!SendPlace
           \cup buffer!ReceivePlace \cup buffer!MainPlace]
        /\ \A u \in Producer : buf_pc'[u] \in {"unborn", "gone"} \cup buffer!SendPlace
        /\ \A d \in Consumer : buf_pc'[d] \in {"unborn", "gone"} \cup buffer!ReceivePlace
        /\ buf_pc'[Main] \in Born \cup Stopping
    BY <1>1, <2>1, PlaceTypes
  <2>3. head' \in buffer!Slot
    BY <1>2, AfterWraps DEF BufferInv, BufferTypes
  <2> QED
    BY <1>2, <2>2, <2>3 DEF BufferInv, BufferTypes
<1>7. OneInside'
  BY <1>1, <1>2, <1>3 DEF BufferInv, OneInside, Inside
<1>8. ItemOfPlace'
  <2>1. \A u \in buffer!Sender : Made(u)' = Made(u)
    BY <1>2 DEF Made
  <2>2. \A u \in buffer!Sender : buf_pc'[u] = buf_pc[u]
    BY <1>1
  <2>3. \A d \in Consumer : buf_pc'[d] \in Receiving <=> item'[d] # NULL
    BY <1>1, <1>2 DEF BufferInv, ItemOfPlace, Receiving
  <2> QED
    BY <1>2, <2>1, <2>2, <2>3 DEF BufferInv, ItemOfPlace
<1>9. Phases' /\ GoneConsumers' = GoneConsumers
  BY <1>1, <1>2, PhasesKept DEF buffer!ReceivePlace
<1>10. /\ Stored' = Stored /\ Claimed' = Claimed /\ Storing' = Storing /\ Emptied' = Emptied
       /\ Stored \in Nat /\ Claimed \in Nat /\ Storing \in Nat /\ Emptied \in Nat
  <2>1. /\ Counted(Stored, Stored', buffer!Sender, {"V_mutex", "V_full"}, c, "advance", "V_mutex")
        /\ Counted(Claimed, Claimed', Consumer, {"P_mutex", "fetch"}, c, "advance", "V_mutex")
        /\ Counted(Storing, Storing', buffer!Sender, {"P_mutex", "store", "advance"}, c,
           "advance", "V_mutex")
        /\ Counted(Emptied, Emptied', Consumer, {"advance", "V_mutex", "V_empty"}, c, "advance",
           "V_mutex")
    BY <1>1, CountsMove DEF BufferInv
  <2> QED
    BY <2>1 DEF Counted
<1>11. buffer!Filled' = buffer!Filled /\ buffer!SlotsAccounted'
  BY <1>2, <1>5, <1>6, <1>10, AccountsKept
<1>12. SameCargo
  BY <1>2, <1>5, <1>11, QueueKept DEF SameCargo
<1>13. Fresh' /\ Once' /\ StopsLast'
  <2>1. /\ \A u \in buffer!Sender : buf_pc[u] \in Sending <=> buf_pc'[u] \in Sending
        /\ \A d \in Consumer : buf_pc[d] = "gone" <=> buf_pc'[d] = "gone"
        /\ buf_pc'[Main] \in Born => buf_pc[Main] \in Born
    BY <1>1
  <2> QED
    BY <1>6, <1>9, <1>12, <2>1, CargoKept
<1> QED
  BY <1>6, <1>7, <1>8, <1>9, <1>11, <1>12, <1>13 DEF BufferInv

(* The consumer frees its item, and goes round its loop or stops.          *)
LEMMA FreeInv ==
    ASSUME BufferInv, NEW c \in Consumer, buffer!Check(c) \/ buffer!ConsumerFinish(c)
    PROVE  /\ BufferInv' /\ buffer!Queue' = buffer!Queue /\ c \in buffer!Held
           /\ \A u \in buffer!Thread : item'[u] = IF u = c THEN NULL ELSE item[u]
<1> USE Roles
<1>1. PICK to \in {"P_full", "gone"} :
          /\ buf_pc[c] = "check" /\ buf_pc' = [buf_pc EXCEPT ![c] = to]
          /\ \A u \in buffer!Thread : buf_pc'[u] = IF u = c THEN to ELSE buf_pc[u]
          /\ to = "gone" <=> buffer!Stops(item[c])
          /\ buffer!Check(c) <=> to # "gone"
  <2>1. CASE buffer!Check(c)
    BY <2>1 DEF buffer!Check, buffer!ConsumerFinish, buffer!Go, BufferInv, BufferTypes
  <2>2. CASE buffer!ConsumerFinish(c)
    BY <2>2 DEF buffer!Check, buffer!ConsumerFinish, buffer!Go, BufferInv, BufferTypes
  <2> QED
    BY <2>1, <2>2
<1>2. /\ item_buffer' = item_buffer /\ head' = head /\ tail' = tail
      /\ to_go' = to_go /\ buf_waited' = buf_waited /\ heap' = heap \ {item[c]}
      /\ item' = [item EXCEPT ![c] = NULL]
  BY DEF buffer!Check, buffer!ConsumerFinish, buffer!bufferVars
<1>3. /\ sem' \in [buffer!Semaphore -> Nat] /\ sem["consumer_finished"] \in Nat
      /\ \A j \in buffer!Semaphore : j # "consumer_finished" => sem'[j] = sem[j]
      /\ sem'["consumer_finished"] = IF to = "gone" THEN sem["consumer_finished"] + 1
                                                    ELSE sem["consumer_finished"]
  <2>1. CASE buffer!Check(c)
    <3>1. sem' = sem /\ to # "gone"
      BY <1>1, <2>1 DEF buffer!Check
    <3> QED
      BY <3>1 DEF BufferInv, BufferTypes, buffer!Semaphore
  <2>2. CASE ~buffer!Check(c)
    <3>1. to = "gone" /\ sem' = [sem EXCEPT !.consumer_finished = @ + 1]
      BY <1>1, <2>2 DEF buffer!ConsumerFinish
    <3> QED
      BY <3>1 DEF BufferInv, BufferTypes, buffer!Semaphore
  <2> QED
    BY <2>1, <2>2
<1>4. /\ c \in buffer!Held /\ item[c] \in buffer!Item /\ item[c] \in heap
      /\ \A u \in buffer!Thread : item'[u] = IF u = c THEN NULL ELSE item[u]
  <2>1. item[c] # NULL /\ item[c] \in buffer!Item
    BY <1>1 DEF BufferInv, BufferTypes, ItemOfPlace, Receiving
  <2>2. c \in buffer!Held
    BY <2>1 DEF buffer!Held
  <2>3. item[c] \in heap
    BY <2>2 DEF BufferInv, Once
  <2> QED
    BY <1>2, <2>1, <2>2, <2>3 DEF BufferInv, BufferTypes
<1>5. BufferTypes'
  <2>1. to \in buffer!ReceivePlace \cup {"gone"}
    BY DEF buffer!ReceivePlace
  <2>2. /\ buf_pc' \in [buffer!Thread -> {"unborn", "gone"} \cup buffer!SendPlace
           \cup buffer!ReceivePlace \cup buffer!MainPlace]
        /\ \A u \in Producer : buf_pc'[u] \in {"unborn", "gone"} \cup buffer!SendPlace
        /\ \A d \in Consumer : buf_pc'[d] \in {"unborn", "gone"} \cup buffer!ReceivePlace
        /\ buf_pc'[Main] \in Born \cup Stopping
    BY <1>1, <2>1, PlaceTypes
  <2>3. heap' \subseteq buffer!Item /\ IsFiniteSet(heap')
    BY <1>2, FS_RemoveElement DEF BufferInv, BufferTypes
  <2>4. item' \in [buffer!Thread -> buffer!Item \cup {NULL}]
    BY <1>2 DEF BufferInv, BufferTypes
  <2> QED
    BY <1>2, <1>3, <2>2, <2>3, <2>4 DEF BufferInv, BufferTypes
<1>6. OneInside'
  BY <1>1, <1>3 DEF BufferInv, OneInside, Inside, buffer!Semaphore
<1>7. ItemOfPlace'
  <2>1. \A u \in buffer!Sender : Made(u)' = Made(u)
    BY <1>2 DEF Made
  <2>2. \A u \in buffer!Sender : buf_pc'[u] = buf_pc[u] /\ item'[u] = item[u]
    BY <1>1, <1>4
  <2>3. \A d \in Consumer : buf_pc'[d] \in Receiving <=> item'[d] # NULL
    BY <1>1, <1>4 DEF BufferInv, ItemOfPlace, Receiving
  <2> QED
    BY <1>2, <2>1, <2>2, <2>3 DEF BufferInv, ItemOfPlace
<1>8. /\ Stored' = Stored /\ Claimed' = Claimed /\ Storing' = Storing /\ Emptied' = Emptied
      /\ Stored \in Nat /\ Claimed \in Nat /\ Storing \in Nat /\ Emptied \in Nat
      /\ GoneProducers' = GoneProducers /\ GoneConsumers \in Nat
      /\ GoneConsumers' = IF to = "gone" THEN GoneConsumers + 1 ELSE GoneConsumers
  <2>1. /\ Counted(Stored, Stored', buffer!Sender, {"V_mutex", "V_full"}, c, "check", to)
        /\ Counted(Claimed, Claimed', Consumer, {"P_mutex", "fetch"}, c, "check", to)
        /\ Counted(Storing, Storing', buffer!Sender, {"P_mutex", "store", "advance"}, c,
           "check", to)
        /\ Counted(Emptied, Emptied', Consumer, {"advance", "V_mutex", "V_empty"}, c, "check", to)
        /\ Counted(GoneProducers, GoneProducers', Producer, {"gone"}, c, "check", to)
        /\ Counted(GoneConsumers, GoneConsumers', Consumer, {"gone"}, c, "check", to)
    BY <1>1, CountsMove DEF BufferInv
  <2> QED
    BY <2>1 DEF Counted
<1>9. /\ buffer!Stops(item[c]) => item[c].by = Main
      /\ item[c].by = Main => buffer!Stops(item[c]) /\ item[c] \in StopItems
      /\ item[c].by = Main => buf_pc[Main] \in Stopping
  <2>1. buffer!Stops(item[c]) <=> item[c].by = Main
    BY <1>4 DEF buffer!Stops
  <2>2. item[c].by = Main => item[c] \in StopItems
    BY <1>4 DEF StopItems
  <2>3. item[c].by = Main => buf_pc[Main] \in Stopping
    BY <2>2 DEF BufferInv, StopsLast, BufferTypes
  <2> QED
    BY <2>1, <2>2, <2>3
<1>10. Phases'
  <2>1. buf_pc'[Main] = buf_pc[Main] /\ \A u \in Producer : buf_pc'[u] = buf_pc[u]
    BY <1>1
  <2>2. sem'["consumer_finished"] + (IF buf_pc'[Main] \in Stopping THEN buf_waited' ELSE 0)
            = GoneConsumers'
    <3>1. sem["consumer_finished"] + (IF buf_pc[Main] \in Stopping THEN buf_waited ELSE 0)
              = GoneConsumers
      BY DEF BufferInv, Phases, GoneConsumers
    <3>2. buf_waited \in Nat
      BY DEF BufferInv, BufferTypes
    <3> QED
      BY <1>2, <1>3, <1>8, <2>1, <3>1, <3>2
  <2>3. sem'["producer_finished"] = sem["producer_finished"]
    BY <1>3 DEF buffer!Semaphore
  <2>4. buf_pc'[Main] # "fork" => \A u \in buffer!Thread : buf_pc'[u] # "unborn"
    BY <1>1, <2>1 DEF BufferInv, Phases
  <2> QED
    BY <1>2, <1>8, <2>1, <2>2, <2>3, <2>4 DEF BufferInv, Phases, GoneProducers, GoneConsumers
<1>11. buffer!Oldest' = buffer!Oldest
  <2>1. buffer!At(Consumer, {"advance"})' = buffer!At(Consumer, {"advance"})
    BY <1>1 DEF buffer!At
  <2> QED
    BY <1>2, <2>1 DEF buffer!Oldest
<1>12. buffer!Filled' = buffer!Filled /\ buffer!SlotsAccounted'
  <2>1. sem'["full"] = sem["full"] /\ sem'["empty"] = sem["empty"]
    BY <1>3 DEF buffer!Semaphore
  <2> QED
    BY <1>2, <1>5, <1>8, <1>11, <2>1, AccountsKept
<1>13. buffer!Queue' = buffer!Queue
  BY <1>2, <1>11, <1>12, QueueKept
<1>14. Fresh'
  <2>1. \A i \in heap : i.by \in buffer!Sender
    BY DEF BufferInv, BufferTypes, buffer!Item
  <2>2. \A u \in buffer!Sender : buf_pc'[u] = buf_pc[u]
    BY <1>1
  <2> QED
    BY <1>2, <2>1, <2>2 DEF BufferInv, Fresh
<1>15. Once'
  <2>1. buffer!Held' = buffer!Held \ {c} /\ \A u \in buffer!Held' : item'[u] = item[u]
    BY <1>4 DEF buffer!Held
  <2>2. buffer!InBuffer' = buffer!InBuffer /\ item[c] \notin buffer!InBuffer
    BY <1>4, <1>12, <1>13 DEF buffer!InBuffer, BufferInv, Once
  <2>3. \A u \in buffer!Held' : item[u] # item[c]
    BY <1>4, <2>1 DEF BufferInv, Once
  <2>4. heap' = buffer!InBuffer' \cup {item'[u] : u \in buffer!Held'}
    BY <1>2, <1>4, <2>1, <2>2, <2>3 DEF BufferInv, Once
  <2>5. \A u, v \in buffer!Held' : item'[u] = item'[v] => u = v
    BY <2>1 DEF BufferInv, Once
  <2>6. \A i \in 1 .. buffer!Filled' : \A u \in buffer!Held' : buffer!Queue'[i] # item'[u]
    BY <1>12, <1>13, <2>1 DEF BufferInv, Once
  <2> QED
    BY <1>12, <1>13, <2>4, <2>5, <2>6 DEF BufferInv, Once
<1>16. StopsLast'
  <2>1. buf_pc'[Main] = buf_pc[Main]
    BY <1>1
  <2>2. IsFiniteSet(StopItems) /\ Cardinality(StopItems) \in Nat
    BY FS_Subset, FS_CardinalityType DEF BufferInv, BufferTypes, StopItems
  <2>3. Cardinality(StopItems') = IF to = "gone" THEN Cardinality(StopItems) - 1 ELSE
            Cardinality(StopItems)
    <3>1. CASE to = "gone"
      <4>1. StopItems' = StopItems \ {item[c]} /\ item[c] \in StopItems
        BY <1>1, <1>2, <1>9, <3>1 DEF StopItems
      <4> QED
        BY <2>2, <3>1, <4>1, FS_RemoveElement
    <3>2. CASE to # "gone"
      <4>1. StopItems' = StopItems
        BY <1>1, <1>2, <1>9, <3>2 DEF StopItems
      <4> QED
        BY <3>2, <4>1
    <3> QED
      BY <3>1, <3>2
  <2>4. to_go[Main] \in Nat
    BY DEF BufferInv, BufferTypes
  <2>5. Cardinality(StopItems') + to_go'[Main] + GoneConsumers'
            = Cardinality(Consumer) + (IF buf_pc'[Main] \in Sending THEN 1 ELSE 0)
    <3>1. Cardinality(StopItems) + to_go[Main] + GoneConsumers
              = Cardinality(Consumer) + (IF buf_pc[Main] \in Sending THEN 1 ELSE 0)
      BY DEF BufferInv, StopsLast, GoneConsumers
    <3>2. Cardinality(StopItems') + to_go[Main] + GoneConsumers'
              = Cardinality(StopItems) + to_go[Main] + GoneConsumers
      BY <1>8, <2>2, <2>3, <2>4
    <3> QED
      BY <1>2, <2>1, <3>1, <3>2
  <2>6. \A d \in Consumer : Stopped(d)' => Stopped(d)
    BY <1>1, <1>4 DEF Stopped, buffer!Stops
  <2>7. ASSUME buf_pc'[Main] \in Born
        PROVE  StopItems' = {} /\ \A d \in Consumer : buf_pc'[d] # "gone"
    <3>1. StopItems = {} /\ \A d \in Consumer : buf_pc[d] # "gone"
      BY <2>1, <2>7 DEF BufferInv, StopsLast
    <3>2. to # "gone" /\ StopItems' \subseteq StopItems
      BY <1>1, <1>2, <1>9, <3>1 DEF StopItems
    <3> QED
      BY <1>1, <3>1, <3>2
  <2> QED
    BY <1>12, <1>13, <2>5, <2>6, <2>7 DEF BufferInv, StopsLast, GoneConsumers
<1> QED
  BY <1>4, <1>5, <1>6, <1>7, <1>10, <1>12, <1>13, <1>14, <1>15, <1>16 DEF BufferInv

-----------------------------------------------------------------------------
LEMMA StutterBuffer ==
    ASSUME BufferInv, UNCHANGED buffer!vars
    PROVE  BufferInv' /\ buffer!Queue' = buffer!Queue /\ item' = item
<1>1. /\ item_buffer' = item_buffer /\ head' = head /\ tail' = tail /\ sem' = sem
      /\ buf_pc' = buf_pc
      /\ item' = item /\ to_go' = to_go /\ buf_waited' = buf_waited /\ heap' = heap
  BY DEF buffer!vars, buffer!bufferVars
<1>2. /\ Stored' = Stored /\ Claimed' = Claimed /\ Storing' = Storing /\ Emptied' = Emptied
      /\ GoneProducers' = GoneProducers /\ GoneConsumers' = GoneConsumers
      /\ buffer!At(Consumer, {"advance"})' = buffer!At(Consumer, {"advance"})
  BY <1>1 DEF Stored, Claimed, Storing, Emptied, GoneProducers, GoneConsumers, buffer!At
<1>3. BufferTypes' /\ OneInside' /\ ItemOfPlace'
  BY <1>1 DEF BufferInv, BufferTypes, OneInside, ItemOfPlace, Made
<1>4. Phases'
  BY <1>1, <1>2 DEF BufferInv, Phases, GoneProducers, GoneConsumers
<1>5. buffer!Filled' = buffer!Filled /\ buffer!Oldest' = buffer!Oldest
  BY SameCounts, <1>1, <1>2 DEF buffer!Filled, buffer!Oldest, Stored, Claimed
<1>6. buffer!SlotsAccounted'
  BY SameCounts, <1>1, <1>2, <1>5 DEF BufferInv, buffer!SlotsAccounted, Storing, Emptied
<1>7. SameCargo
  BY <1>1, <1>5, QueueKept DEF SameCargo
<1>8. Fresh' /\ Once' /\ StopsLast'
  BY <1>1, <1>2, <1>3, <1>7, CargoKept
<1> QED
  BY <1>1, <1>3, <1>4, <1>6, <1>7, <1>8 DEF BufferInv, SameCargo

Hands == [c \in Consumer |-> item[c]]

LEMMA SenderStep ==
    ASSUME BufferInv, NEW t \in buffer!Sender,
           \/ buffer!Make(t) \/ buffer!SendReserve(t) \/ buffer!SendLock(t) \/
              buffer!SendStore(t) \/ buffer!SendUnlock(t)
           \/ buffer!SendDone(t) \/ buffer!ProducerFinish(t)
    PROVE  BufferInv' /\ buffer!Queue' = buffer!Queue /\ Hands' = Hands
<1> USE Roles
<1>1. CASE buffer!Make(t)
  BY <1>1, MakeInv DEF Hands
<1>2. ASSUME NEW k \in buffer!Semaphore, NEW from, NEW to, Operation(t, k, from, to)
      PROVE  BufferInv' /\ buffer!Queue' = buffer!Queue /\ Hands' = Hands
  BY <1>2, OperationInv DEF Hands
<1>3. CASE buffer!SendReserve(t)
  BY <1>2, <1>3 DEF buffer!SendReserve, Operation, buffer!Semaphore
<1>4. CASE buffer!SendLock(t)
  BY <1>2, <1>4 DEF buffer!SendLock, Operation, buffer!Semaphore
<1>5. CASE buffer!SendStore(t)
  BY <1>5, StoreInv DEF Hands, SameCargo
<1>6. CASE buffer!SendUnlock(t)
  BY <1>2, <1>6 DEF buffer!SendUnlock, Operation, buffer!Semaphore
<1>7. CASE buffer!SendDone(t)
  BY <1>7, DoneInv DEF Hands
<1>8. CASE buffer!ProducerFinish(t)
  BY <1>2, <1>8 DEF buffer!ProducerFinish, Operation, buffer!Semaphore
<1> QED
  BY <1>1, <1>3, <1>4, <1>5, <1>6, <1>7, <1>8

LEMMA ConsumerStep ==
    ASSUME BufferInv, NEW c \in Consumer,
           \/ buffer!ReceiveReserve(c) \/ buffer!ReceiveLock(c) \/ buffer!ReceiveAdvance(c)
           \/ buffer!ReceiveUnlock(c) \/ buffer!ReceiveDone(c)
    PROVE  BufferInv' /\ buffer!Queue' = buffer!Queue /\ Hands' = Hands
<1> USE Roles
<1>1. ASSUME NEW k \in buffer!Semaphore, NEW from, NEW to, Operation(c, k, from, to)
      PROVE  BufferInv' /\ buffer!Queue' = buffer!Queue /\ Hands' = Hands
  BY <1>1, OperationInv DEF Hands
<1>2. CASE buffer!ReceiveReserve(c)
  BY <1>1, <1>2 DEF buffer!ReceiveReserve, Operation, buffer!Semaphore
<1>3. CASE buffer!ReceiveLock(c)
  BY <1>1, <1>3 DEF buffer!ReceiveLock, Operation, buffer!Semaphore
<1>4. CASE buffer!ReceiveAdvance(c)
  BY <1>4, HeadInv DEF Hands, SameCargo
<1>5. CASE buffer!ReceiveUnlock(c)
  BY <1>1, <1>5 DEF buffer!ReceiveUnlock, Operation, buffer!Semaphore
<1>6. CASE buffer!ReceiveDone(c)
  BY <1>1, <1>6 DEF buffer!ReceiveDone, Operation, buffer!Semaphore
<1> QED
  BY <1>2, <1>3, <1>4, <1>5, <1>6

LEMMA DriverStep ==
    ASSUME BufferInv,
           \/ \E t \in Producer \cup Consumer : buffer!Fork(t)
           \/ buffer!Forked \/ buffer!WaitProducer \/ buffer!StopConsumers \/
              buffer!AllStopped \/ buffer!WaitConsumer \/ buffer!Shutdown
           \/ UNCHANGED buffer!vars
    PROVE  BufferInv' /\ buffer!Queue' = buffer!Queue /\ Hands' = Hands
<1> USE Roles
<1>1. ASSUME NEW t \in buffer!Thread, NEW from, NEW to, Drives(t, from, to)
      PROVE  BufferInv' /\ buffer!Queue' = buffer!Queue /\ Hands' = Hands
  BY <1>1, DriverInv DEF Hands
<1>2. ASSUME NEW t \in Producer \cup Consumer, buffer!Fork(t)
      PROVE  BufferInv' /\ buffer!Queue' = buffer!Queue /\ Hands' = Hands
  <2>1. CASE t \in Producer
    BY <1>1, <1>2, <2>1 DEF Drives
  <2>2. CASE t \in Consumer
    BY <1>1, <1>2, <2>2 DEF Drives
  <2> QED
    BY <2>1, <2>2
<1>3. CASE buffer!Forked
  BY <1>1, <1>3 DEF Drives
<1>4. CASE buffer!StopConsumers
  BY <1>1, <1>4 DEF Drives
<1>5. CASE buffer!AllStopped
  BY <1>1, <1>5 DEF Drives
<1>6. CASE buffer!Shutdown
  BY <1>1, <1>6 DEF Drives
<1>7. CASE buffer!WaitProducer \/ buffer!WaitConsumer
  BY <1>7, WaitInv DEF Hands
<1>8. CASE UNCHANGED buffer!vars
  BY <1>8, StutterBuffer DEF Hands
<1> QED
  BY <1>2, <1>3, <1>4, <1>5, <1>6, <1>7, <1>8

(* Every step moves an item into the queue, out of it, out of a hand, or   *)
(* none.                                                                   *)
LEMMA BufferCases ==
    ASSUME BufferInv, [buffer!Next]_(buffer!vars)
    PROVE  \/ BufferInv' /\ buffer!Queue' = buffer!Queue /\ Hands' = Hands
           \/ \E t \in buffer!Sender : buffer!SendAdvance(t)
           \/ \E c \in Consumer : buffer!ReceiveFetch(c) \/ buffer!Check(c) \/
              buffer!ConsumerFinish(c)
<1> USE Roles
<1>1. ASSUME NEW t \in Producer, buffer!Fork(t) \/ buffer!ProducerRuns(t)
      PROVE  (BufferInv' /\ buffer!Queue' = buffer!Queue /\ Hands' = Hands) \/ buffer!SendAdvance(t)
  BY <1>1, SenderStep, DriverStep DEF buffer!ProducerRuns, buffer!Sends
<1>2. ASSUME NEW c \in Consumer, buffer!Fork(c) \/ buffer!ConsumerRuns(c)
      PROVE  \/ BufferInv' /\ buffer!Queue' = buffer!Queue /\ Hands' = Hands
             \/ buffer!ReceiveFetch(c) \/ buffer!Check(c) \/ buffer!ConsumerFinish(c)
  BY <1>2, ConsumerStep, DriverStep DEF buffer!ConsumerRuns
<1>3. ASSUME buffer!MainRuns
      PROVE  (BufferInv' /\ buffer!Queue' = buffer!Queue /\ Hands' = Hands) \/
          buffer!SendAdvance(Main)
  BY <1>3, SenderStep, DriverStep DEF buffer!MainRuns, buffer!Sends
<1>4. CASE buffer!Returned \/ UNCHANGED buffer!vars
  BY <1>4, DriverStep DEF buffer!Returned
<1> QED
  BY <1>1, <1>2, <1>3, <1>4 DEF buffer!Next

LEMMA BufferStep == BufferInv /\ [buffer!Next]_(buffer!vars) => BufferInv'
<1> SUFFICES ASSUME BufferInv, [buffer!Next]_(buffer!vars) PROVE BufferInv'
  OBVIOUS
<1>1. ASSUME NEW t \in buffer!Sender, buffer!SendAdvance(t) PROVE BufferInv'
  BY <1>1, AdvanceInv
<1>2. ASSUME NEW c \in Consumer, buffer!ReceiveFetch(c) PROVE BufferInv'
  BY <1>2, FetchInv
<1>3. ASSUME NEW c \in Consumer, buffer!Check(c) \/ buffer!ConsumerFinish(c) PROVE BufferInv'
  BY <1>3, FreeInv
<1> QED
  BY <1>1, <1>2, <1>3, BufferCases

-----------------------------------------------------------------------------
(* The heap, counted.                                                      *)
LEMMA HeapCounted ==
    ASSUME BufferInv
    PROVE  buffer!ItemsOnce
<1> DEFINE Inheld == {item[t] : t \in buffer!Held}
<1>1. buffer!Filled \in Nat
  BY FilledRange DEF BufferInv
<1>2. IsFiniteSet(buffer!Held)
  BY Roles, FS_Union, FS_Subset DEF buffer!Held, buffer!Thread
<1>3. IsFiniteSet(buffer!InBuffer) /\ Cardinality(buffer!InBuffer) = buffer!Filled
  <2>1. IsFiniteSet(1 .. buffer!Filled) /\ Cardinality(1 .. buffer!Filled) = buffer!Filled
    BY <1>1, FS_Interval
  <2> DEFINE f == [i \in 1 .. buffer!Filled |-> buffer!Queue[i]]
  <2>2. f \in Surjection(1 .. buffer!Filled, buffer!InBuffer)
    BY DEF buffer!InBuffer, Surjection
  <2>3. f \in Injection(1 .. buffer!Filled, buffer!InBuffer)
    BY DEF buffer!InBuffer, Injection, IsInjective, BufferInv, Once
  <2> HIDE DEF f
  <2> QED
    BY <2>1, <2>2, <2>3, FS_Surjection
<1>4. IsFiniteSet(Inheld) /\ Cardinality(Inheld) = Cardinality(buffer!Held)
  <2> DEFINE f == [t \in buffer!Held |-> item[t]]
  <2>1. f \in Surjection(buffer!Held, Inheld)
    BY DEF Surjection
  <2>2. f \in Injection(buffer!Held, Inheld)
    BY DEF Injection, IsInjective, BufferInv, Once
  <2> HIDE DEF f, Inheld
  <2> QED
    BY <1>2, <2>1, <2>2, FS_Surjection
<1>5. heap = buffer!InBuffer \cup Inheld /\ buffer!InBuffer \cap Inheld = {}
  BY DEF BufferInv, Once, buffer!InBuffer
<1>6. Cardinality(buffer!Held) \in Nat
  BY <1>2, FS_CardinalityType
<1> HIDE DEF Inheld
<1>7. Cardinality(heap) = buffer!Filled + Cardinality(buffer!Held)
  <2>1. Cardinality(buffer!InBuffer \cup Inheld)
            = Cardinality(buffer!InBuffer) + Cardinality(Inheld) - Cardinality(buffer!InBuffer
                \cap Inheld)
    BY <1>3, <1>4, FS_Union
  <2>2. Cardinality(buffer!InBuffer \cap Inheld) = 0
    BY <1>5, FS_EmptySet
  <2>3. Cardinality(heap) = Cardinality(buffer!InBuffer \cup Inheld)
    BY <1>5
  <2> QED
    BY <1>1, <1>3, <1>4, <1>6, <2>1, <2>2, <2>3
<1> QED
  BY SameCounts, <1>5, <1>7 DEF buffer!ItemsOnce, Inheld

(* When main has waited for every consumer, every stop item has been taken *)
(* and all other items before.                                             *)
LEMMA BufferShutdown == BufferInv => buffer!ShutdownClean
<1> SUFFICES ASSUME BufferInv, buffer!Done
             PROVE  /\ heap = {} /\ head = tail
                    /\ buffer!At(Producer \cup Consumer, {"gone"}) = Producer \cup Consumer
                    /\ sem = [mutex |-> 1, empty |-> BUFFER_SIZE, full |-> 0,
                              producer_finished |-> 0, consumer_finished |-> 0]
  BY DEF buffer!ShutdownClean
<1> USE Roles
<1>1. /\ buf_pc[Main] = "done" /\ buf_pc[Main] \in Stopping /\ buf_pc[Main] \notin Born
      /\ buf_pc[Main] \notin Sending
  BY DEF buffer!Done, Stopping, Born, Sending, Carries
<1>2. /\ \A t \in Producer : buf_pc[t] = "gone"
      /\ to_go[Main] = 0 /\ buf_waited = Cardinality(Consumer)
  BY <1>1 DEF BufferInv, Phases
<1>3. /\ sem \in [buffer!Semaphore -> Nat] /\ sem["consumer_finished"] \in Nat
      /\ sem["producer_finished"] \in Nat /\ sem["full"] \in Nat /\ sem["empty"] \in Nat
  BY DEF BufferInv, BufferTypes, buffer!Semaphore
<1>4. /\ buffer!At(Consumer, {"gone"}) \subseteq Consumer /\ IsFiniteSet(Consumer)
      /\ GoneConsumers \in Nat /\ GoneConsumers <= Cardinality(Consumer)
  BY FS_Subset, FS_CardinalityType DEF buffer!At, GoneConsumers
<1>5. sem["consumer_finished"] + Cardinality(Consumer) = GoneConsumers
  BY <1>1, <1>2 DEF BufferInv, Phases, GoneConsumers
<1>6. sem["consumer_finished"] = 0 /\ GoneConsumers = Cardinality(Consumer)
  BY <1>3, <1>4, <1>5
<1>7. buffer!At(Consumer, {"gone"}) = Consumer
  BY <1>4, <1>6, FS_Subset DEF GoneConsumers
<1>8. \A t \in Producer \cup Consumer : buf_pc[t] = "gone"
  BY <1>2, <1>7 DEF buffer!At
<1>9. GoneProducers = Cardinality(Producer)
  <2>1. buffer!At(Producer, {"gone"}) = Producer
    BY <1>2 DEF buffer!At
  <2> QED
    BY <2>1 DEF GoneProducers
<1>10. sem["producer_finished"] = 0
  <2>1. sem["producer_finished"] + Cardinality(Producer) = Cardinality(Producer)
    BY <1>1, <1>9 DEF BufferInv, Phases, GoneProducers
  <2> QED
    BY <1>3, <2>1
<1>11. StopItems = {}
  <2>1. IsFiniteSet(StopItems) /\ Cardinality(StopItems) \in Nat
    BY FS_Subset, FS_CardinalityType DEF BufferInv, BufferTypes, StopItems
  <2>2. Cardinality(StopItems) + 0 + GoneConsumers = Cardinality(Consumer) + 0
    BY <1>1, <1>2 DEF BufferInv, StopsLast, GoneConsumers
  <2>3. Cardinality(StopItems) = 0
    BY <1>4, <1>6, <2>1, <2>2
  <2> QED
    BY <2>1, <2>3, FS_EmptySet
<1>12. buffer!Filled = 0
  <2>1. PICK c \in Consumer : buf_pc[c] = "gone"
    BY <1>8, ExercisesAssumption DEF buffer!ConstantsOK
  <2>2. \A i \in 1 .. buffer!Filled : buffer!Queue[i].by = Main
    BY <2>1 DEF BufferInv, StopsLast, Stopped
  <2>3. \A i \in 1 .. buffer!Filled : buffer!Queue[i] \in StopItems
    BY <2>2 DEF BufferInv, Once, buffer!InBuffer, StopItems
  <2>4. buffer!Filled \in Nat
    BY FilledRange DEF BufferInv
  <2> QED
    BY <1>11, <2>3, <2>4
<1>13. heap = {}
  <2>1. \A t \in buffer!Thread : item[t] = NULL
    BY <1>1, <1>8 DEF BufferInv, ItemOfPlace, Carries, Receiving, buffer!Thread, buffer!Sender,
       Sending
  <2>2. buffer!Held = {} /\ 1 .. buffer!Filled = {}
    BY <1>12, <2>1 DEF buffer!Held
  <2> QED
    BY <2>2 DEF BufferInv, Once, buffer!InBuffer
<1>14. /\ buffer!At(buffer!Sender, {"V_mutex", "V_full"}) = {}
       /\ buffer!At(Consumer, {"P_mutex", "fetch"}) = {}
       /\ buffer!At(buffer!Sender, {"P_mutex", "store", "advance"}) = {}
       /\ buffer!At(Consumer, {"advance", "V_mutex", "V_empty"}) = {}
       /\ buffer!At(Consumer, {"advance"}) = {}
  BY <1>1, <1>8 DEF buffer!At, buffer!Sender
<1>15. Stored = 0 /\ Claimed = 0 /\ Storing = 0 /\ Emptied = 0
  BY <1>14, FS_EmptySet DEF Stored, Claimed, Storing, Emptied
<1>16. sem["full"] = 0 /\ sem["empty"] = BUFFER_SIZE
  BY <1>3, <1>12, <1>15, FilledForm DEF BufferInv
<1>17. sem["mutex"] = 1
  <2>1. \A t \in buffer!Thread : buf_pc[t] \notin Inside
    BY <1>1, <1>8 DEF Inside, buffer!Thread, buffer!Sender
  <2> QED
    BY <2>1 DEF BufferInv, OneInside
<1>18. head = tail
  <2>1. buffer!Oldest = head /\ head \in buffer!Slot
    BY <1>14 DEF buffer!Oldest, BufferInv, BufferTypes
  <2>2. (head + 0) % BUFFER_SIZE = head
    <3>1. head + 0 < BUFFER_SIZE /\ head + 0 = head /\ 0 \in 0 .. BUFFER_SIZE
      BY <2>1 DEF buffer!Slot
    <3> QED
      BY <2>1, <3>1, Wrap
  <2>3. tail = (head + 0) % BUFFER_SIZE
    BY <1>12, <2>1 DEF BufferInv, buffer!SlotsAccounted
  <2> QED
    BY <2>2, <2>3
<1>19. sem = [mutex |-> 1, empty |-> BUFFER_SIZE, full |-> 0,
              producer_finished |-> 0, consumer_finished |-> 0]
  BY <1>3, <1>6, <1>10, <1>16, <1>17 DEF buffer!Semaphore
<1>20. buffer!At(Producer \cup Consumer, {"gone"}) = Producer \cup Consumer
  BY <1>8 DEF buffer!At
<1> QED
  BY <1>13, <1>18, <1>19, <1>20

-----------------------------------------------------------------------------
(* The queue as a sequence.                                                *)
LEMMA FunctionIsSequence ==
    ASSUME NEW n \in Nat, NEW f, NEW S, \A i \in 1 .. n : f[i] \in S
    PROVE  /\ [i \in 1 .. n |-> f[i]] \in Seq(S)
           /\ Len([i \in 1 .. n |-> f[i]]) = n
OBVIOUS

LEMMA OneLonger ==
    ASSUME NEW n \in Nat, NEW S, NEW q \in Seq(S), NEW r \in Seq(S), NEW e \in S,
           Len(q) = n, Len(r) = n + 1, \A i \in 1 .. n : r[i] = q[i], r[n + 1] = e
    PROVE  r = Append(q, e)
OBVIOUS

LEMMA OneShorter ==
    ASSUME NEW n \in Nat, NEW S, NEW q \in Seq(S), NEW r \in Seq(S),
           Len(q) = n + 1, Len(r) = n, \A i \in 1 .. n : r[i] = q[i + 1]
    PROVE  r = Tail(q) /\ q # <<>> /\ Head(q) = q[1]
OBVIOUS

LEMMA QueueSequence ==
    ASSUME BufferInv
    PROVE  buffer!Filled \in Nat /\ buffer!Queue \in Seq(buffer!Item) /\ Len(buffer!Queue)
        = buffer!Filled
<1>1. buffer!Filled \in Nat
  BY FilledRange DEF BufferInv
<1>2. \A i \in 1 .. buffer!Filled : buffer!Queue[i] \in buffer!Item
  BY DEF BufferInv, Once
<1>3. buffer!Queue = [i \in 1 .. buffer!Filled |-> buffer!Queue[i]]
  BY DEF buffer!Queue
<1> HIDE DEF buffer!Queue, buffer!Filled
<1> QED
  BY <1>1, <1>2, <1>3, FunctionIsSequence

LEMMA QueueSequenceNext ==
    ASSUME BufferInv', buffer!Filled' \in Nat
    PROVE  buffer!Queue' \in Seq(buffer!Item) /\ Len(buffer!Queue') = buffer!Filled'
<1>1. \A i \in 1 .. buffer!Filled' : buffer!Queue'[i] \in buffer!Item
  BY DEF BufferInv, Once
<1>2. buffer!Queue' = [i \in 1 .. buffer!Filled' |-> buffer!Queue'[i]]
  BY DEF buffer!Queue
<1> HIDE DEF buffer!Queue, buffer!Filled
<1> QED
  BY <1>1, <1>2, FunctionIsSequence

(* The hands that change.                                                  *)
LEMMA HandsChange ==
    ASSUME BufferInv, BufferInv'
    PROVE  /\ \A c \in Consumer : \A x : (\A u \in buffer!Thread : item'[u] = IF u = c THEN x
              ELSE item[u])
                                     => Hands' = [Hands EXCEPT ![c] = x]
           /\ \A t \in buffer!Sender : \A x : (\A u \in buffer!Thread : item'[u] = IF u = t THEN
              x ELSE item[u])
                                     => Hands' = Hands
           /\ \A c \in Consumer : Hands[c] = item[c]
BY Roles DEF Hands

(* A step is a Send, a Receive or a Free of the bounded buffer, or leaves  *)
(* its queue and hands alone.                                              *)
LEMMA BufferRefines ==
    ASSUME BufferInv, [buffer!Next]_(buffer!vars)
    PROVE  [buffer!Buffer!Next]_<<buffer!Queue, Hands>>
<1> USE Roles
<1>1. ASSUME NEW t \in buffer!Sender, buffer!SendAdvance(t) PROVE buffer!Buffer!Next
  <2>1. /\ BufferInv' /\ buffer!Filled < BUFFER_SIZE /\ buffer!Filled' = buffer!Filled + 1
        /\ \A i \in 1 .. buffer!Filled : buffer!Queue'[i] = buffer!Queue[i]
        /\ buffer!Queue'[buffer!Filled + 1] = item[t] /\ item[t] \in buffer!Item
        /\ t \in buffer!Held
        /\ \A u \in buffer!Thread : item'[u] = IF u = t THEN NULL ELSE item[u]
    BY <1>1, AdvanceInv
  <2>2. /\ buffer!Filled \in Nat /\ buffer!Queue \in Seq(buffer!Item)
        /\ Len(buffer!Queue) = buffer!Filled
        /\ buffer!Filled' \in Nat
    BY <2>1, QueueSequence
  <2>3. buffer!Queue' \in Seq(buffer!Item) /\ Len(buffer!Queue') = buffer!Filled'
    BY <2>1, <2>2, QueueSequenceNext
  <2>4. buffer!Queue' = Append(buffer!Queue, item[t])
    BY <2>1, <2>2, <2>3, OneLonger
  <2>5. Hands' = Hands
    BY <2>1, HandsChange
  <2>6. \A i \in 1 .. buffer!Filled : buffer!Queue[i] # item[t]
    BY <2>1 DEF BufferInv, Once
  <2>7. \A c \in Consumer : item[c] # item[t]
    BY <2>1 DEF BufferInv, Once, buffer!Held
  <2>8. DOMAIN buffer!Queue = 1 .. buffer!Filled
    BY DEF buffer!Queue
  <2>9. item[t] \notin buffer!Buffer!InUse
    BY <2>6, <2>7, <2>8 DEF buffer!Buffer!InUse
  <2>10. buffer!Buffer!Send(item[t])
    BY <2>1, <2>2, <2>4, <2>5, <2>9, <2>3 DEF buffer!Buffer!Send, Hands
  <2> QED
    BY <2>1, <2>10 DEF buffer!Buffer!Next
<1>2. ASSUME NEW c \in Consumer, buffer!ReceiveFetch(c) PROVE buffer!Buffer!Next
  <2>1. /\ BufferInv' /\ buffer!Filled > 0 /\ buffer!Filled' = buffer!Filled - 1
        /\ c \notin buffer!Held
        /\ \A i \in 1 .. buffer!Filled' : buffer!Queue'[i] = buffer!Queue[i + 1]
        /\ \A u \in buffer!Thread : item'[u] = IF u = c THEN buffer!Queue[1] ELSE item[u]
    BY <1>2, FetchInv
  <2>2. /\ buffer!Filled \in Nat /\ buffer!Queue \in Seq(buffer!Item)
        /\ Len(buffer!Queue) = buffer!Filled
        /\ buffer!Filled' \in Nat
    BY <2>1, QueueSequence
  <2>3. buffer!Queue' \in Seq(buffer!Item) /\ Len(buffer!Queue') = buffer!Filled'
    BY <2>1, <2>2, QueueSequenceNext
  <2>4. Len(buffer!Queue) = buffer!Filled' + 1
    BY <2>1, <2>2
  <2>5. /\ buffer!Queue' = Tail(buffer!Queue) /\ buffer!Queue # <<>>
        /\ Head(buffer!Queue) = buffer!Queue[1]
    BY <2>1, <2>2, <2>4, <2>3, OneShorter
  <2>6. Hands' = [Hands EXCEPT ![c] = Head(buffer!Queue)] /\ Hands[c] = item[c]
    <3>1. \A u \in buffer!Thread : item'[u] = IF u = c THEN Head(buffer!Queue) ELSE item[u]
      BY <2>1, <2>5
    <3> HIDE DEF buffer!Queue, buffer!Held, Hands
    <3> QED
      BY <2>1, <3>1, HandsChange
  <2>7. item[c] = NULL
    BY <2>1 DEF buffer!Held
  <2>8. buffer!Buffer!Receive(c)
    BY <2>5, <2>6, <2>7 DEF buffer!Buffer!Receive, Hands
  <2> QED
    BY <2>8 DEF buffer!Buffer!Next
<1>3. ASSUME NEW c \in Consumer, buffer!Check(c) \/ buffer!ConsumerFinish(c)
      PROVE  buffer!Buffer!Next
  <2>1. /\ BufferInv' /\ buffer!Queue' = buffer!Queue /\ c \in buffer!Held
        /\ \A u \in buffer!Thread : item'[u] = IF u = c THEN NULL ELSE item[u]
    BY <1>3, FreeInv
  <2>2. Hands' = [Hands EXCEPT ![c] = NULL] /\ Hands[c] # NULL
    BY <2>1, HandsChange DEF buffer!Held
  <2>3. buffer!Buffer!Free(c)
    BY <2>1, <2>2 DEF buffer!Buffer!Free, Hands
  <2> QED
    BY <2>3 DEF buffer!Buffer!Next
<1> QED
  BY <1>1, <1>2, <1>3, BufferCases

LEMMA BufferStarts == buffer!Init => buffer!Buffer!Init
<1> SUFFICES ASSUME buffer!Init PROVE buffer!Queue = <<>> /\ Hands = [c \in Consumer |-> NULL]
  BY DEF buffer!Buffer!Init, Hands
<1>1. BufferInv
  BY BufferInit
<1>2. /\ buffer!Filled \in Nat /\ buffer!Queue \in Seq(buffer!Item)
      /\ Len(buffer!Queue) = buffer!Filled
  BY <1>1, QueueSequence
<1>3. /\ buffer!At(buffer!Sender, {"V_mutex", "V_full"}) = {}
      /\ buffer!At(Consumer, {"P_mutex", "fetch"}) = {}
  BY Roles DEF buffer!Init, buffer!At, buffer!Thread
<1>4. buffer!Filled = 0
  BY SameCounts, <1>3, FS_EmptySet DEF buffer!Filled, buffer!Init
<1> QED
  BY <1>2, <1>4, Roles DEF Hands, buffer!Init


-----------------------------------------------------------------------------
(* The dining philosophers: status[], s[] and the forks.                   *)

LEMMA Neighbours ==
    ASSUME NEW p \in dining!Philosopher
    PROVE  /\ dining!LEFT(p) \in dining!Philosopher /\ dining!RIGHT(p) \in dining!Philosopher
           /\ dining!LEFT(p) # p /\ dining!RIGHT(p) # p
           /\ dining!RIGHT(dining!LEFT(p)) = p /\ dining!LEFT(dining!RIGHT(p)) = p
BY ExercisesAssumption DEF dining!ConstantsOK, dining!Philosopher, dining!LEFT, dining!RIGHT

(* What a philosopher's status is where it is.                             *)
Idle == {"unborn", "think", "next", "gone", "taking"} \cup (dining!Putting \ {"putting"})
StatusOfPlace ==
    \A p \in dining!Philosopher :
        /\ eat_pc[p] \in Idle => status[p] = dining!THINKING
        /\ eat_pc[p] \in {"asking", "granting"} => status[p] = dining!HUNGRY
        /\ eat_pc[p] \in {"taken", "wait"} => status[p] \in {dining!HUNGRY, dining!EATING}
        /\ eat_pc[p] \in dining!Eats \cup {"fed", "putting"} => status[p] = dining!EATING

TableTypes ==
    /\ status \in [dining!Philosopher -> {dining!THINKING, dining!HUNGRY, dining!EATING}]
    /\ mutex \in {0, 1}
    /\ s \in [dining!Philosopher -> {0, 1}]
    /\ eat_pc \in [dining!Philosopher -> dining!Place]

(* One philosopher at a time is between P(mutex) and V(mutex).             *)
OneInMutex ==
    /\ mutex = 1 => \A p \in dining!Philosopher : eat_pc[p] \notin dining!InMutex
    /\ \A p, q \in dining!Philosopher : eat_pc[p] \in dining!InMutex /\
       eat_pc[q] \in dining!InMutex => p = q

(* What the tests found is so until the grant.                             *)
Tested ==
    \A p \in dining!Philosopher :
        /\ eat_pc[p] = "granting" => dining!MayEat(p)
        /\ eat_pc[p] = "grant_left" => dining!MayEat(dining!LEFT(p))
        /\ eat_pc[p] = "grant_right" => dining!MayEat(dining!RIGHT(p))

NeighboursExclude ==
    \A p \in dining!Philosopher : status[p] = dining!EATING => status[dining!RIGHT(p)] #
        dining!EATING

(* Who is hungry has a neighbour who is eating, or is about to be looked   *)
(* at by the one in the mutex.                                             *)
LooksAt(p, q) ==
    \/ eat_pc[p] \in {"asking", "granting"} /\ q = p
    \/ eat_pc[p] \in {"test_left", "grant_left"} /\ q \in {dining!LEFT(p), dining!RIGHT(p)}
    \/ eat_pc[p] \in {"test_right", "grant_right"} /\ q = dining!RIGHT(p)
NextToEating(q) == status[dining!LEFT(q)] = dining!EATING \/ status[dining!RIGHT(q)] = dining!EATING
Watched ==
    \A q \in dining!Philosopher :
        status[q] = dining!HUNGRY => NextToEating(q) \/ \E p \in dining!Philosopher : LooksAt(p, q)

SOfPlace == \A p \in dining!Philosopher : s[p] = IF dining!Granted(p) THEN 1 ELSE 0

(* The inductive invariant.                                                *)
TableInv ==
    /\ TableTypes /\ StatusOfPlace /\ SOfPlace /\ OneInMutex /\ Tested
    /\ NeighboursExclude /\ Watched

LEMMA TableInit == dining!Init => TableInv
<1> SUFFICES ASSUME dining!Init PROVE TableInv
  OBVIOUS
<1>1. TableTypes /\ StatusOfPlace /\ SOfPlace /\ OneInMutex /\ Tested
  BY DEF dining!Init, TableTypes, dining!Place, StatusOfPlace, SOfPlace, dining!Granted,
     OneInMutex, dining!InMutex,
         dining!Taking, dining!Putting, Tested, dining!Eats, dining!THINKING
<1>2. NeighboursExclude /\ Watched
  BY Neighbours DEF dining!Init, NeighboursExclude, Watched, dining!THINKING, dining!HUNGRY,
     dining!EATING
<1> QED
  BY <1>1, <1>2 DEF TableInv

-----------------------------------------------------------------------------
(* Steps outside the mutex leave the table alone.                          *)
LEMMA OutsideInv ==
    ASSUME TableInv, NEW p \in dining!Philosopher, NEW to \in dining!Place,
           eat_pc' = [eat_pc EXCEPT ![p] = to], status' = status, mutex' = mutex,
           eat_pc[p] \notin dining!InMutex, to \notin dining!InMutex,
           \/ s' = s /\ {eat_pc[p], to} \subseteq Idle
           \/ s' = s /\ {eat_pc[p], to} \subseteq dining!Eats \cup {"fed"}
           \/ /\ s' = [s EXCEPT ![p] = @ - 1] /\ s[p] > 0
              /\ eat_pc[p] = "wait" /\ to = "load_left"
    PROVE  TableInv'
<1>1. \A q \in dining!Philosopher : eat_pc'[q] = IF q = p THEN to ELSE eat_pc[q]
  BY DEF TableInv, TableTypes
<1>2. \A q \in dining!Philosopher : q # p => s'[q] = s[q]
  BY DEF TableInv, TableTypes
<1>3. s[p] > 0 => dining!Granted(p)
  BY DEF TableInv, SOfPlace
<1>4. StatusOfPlace'
  BY <1>1, <1>3 DEF TableInv, StatusOfPlace, dining!Granted, Idle, dining!Eats, dining!Putting,
     TableTypes
<1>5. SOfPlace' /\ TableTypes'
  <2>1. CASE s' = s
    BY <1>1, <2>1 DEF TableInv, SOfPlace, dining!Granted, Idle, dining!Eats, dining!Putting,
       TableTypes
  <2>2. CASE s' = [s EXCEPT ![p] = @ - 1] /\ s[p] > 0 /\ eat_pc[p] = "wait" /\ to = "load_left"
    <3>1. s[p] = 1
      BY <2>2 DEF TableInv, TableTypes
    <3>2. \A q \in dining!Philosopher : s'[q] = IF q = p THEN 0 ELSE s[q]
      BY <2>2, <3>1 DEF TableInv, TableTypes
    <3>3. SOfPlace'
      BY <1>1, <2>2, <3>2 DEF TableInv, SOfPlace, dining!Granted
    <3> QED
      BY <2>2, <3>1, <3>3 DEF TableInv, TableTypes
  <2> QED
    BY <2>1, <2>2
<1>6. OneInMutex'
  BY <1>1 DEF TableInv, OneInMutex
<1>7. Tested'
  BY <1>1 DEF TableInv, Tested, dining!MayEat, dining!InMutex, dining!Taking, dining!Putting
<1>8. NeighboursExclude'
  BY DEF TableInv, NeighboursExclude
<1>9. Watched'
  <2>1. \A r, q \in dining!Philosopher : LooksAt(r, q) => LooksAt(r, q)'
    BY <1>1 DEF LooksAt, dining!InMutex, dining!Taking, dining!Putting
  <2>2. \A q \in dining!Philosopher : NextToEating(q) => NextToEating(q)'
    BY DEF NextToEating
  <2> QED
    BY <2>1, <2>2 DEF TableInv, Watched
<1> QED
  BY <1>4, <1>5, <1>6, <1>7, <1>8, <1>9 DEF TableInv

(* P(mutex) and V(mutex).                                                  *)
LEMMA EnterInv ==
    ASSUME TableInv, NEW p \in dining!Philosopher, NEW from, NEW to, dining!EnterMutex(p, from, to),
           \/ from = "think" /\ to = "taking"
           \/ from = "fed" /\ to = "putting"
    PROVE  TableInv'
<1>1. \A q \in dining!Philosopher : eat_pc'[q] = IF q = p THEN to ELSE eat_pc[q]
  BY DEF TableInv, TableTypes, dining!EnterMutex, dining!Go
<1>2. mutex = 1 /\ mutex' = 0
  BY DEF TableInv, TableTypes, dining!EnterMutex
<1>3. eat_pc[p] = from /\ status' = status /\ s' = s
  BY DEF dining!EnterMutex, dining!Go
<1>4. to \in dining!Place /\ eat_pc' = [eat_pc EXCEPT ![p] = to]
  BY DEF dining!Place, dining!InMutex, dining!Taking, dining!Putting, dining!EnterMutex, dining!Go
<1>5. TableTypes'
  BY <1>2, <1>3, <1>4 DEF TableInv, TableTypes
<1>6. StatusOfPlace'
  BY <1>1, <1>3 DEF TableInv, StatusOfPlace, Idle, dining!Eats, dining!Putting
<1>7. SOfPlace'
  BY <1>1, <1>3 DEF TableInv, SOfPlace, dining!Granted
<1>8. OneInMutex'
  BY <1>1, <1>2 DEF TableInv, OneInMutex
<1>9. Tested'
  BY <1>1, <1>3 DEF TableInv, Tested, dining!MayEat
<1>10. NeighboursExclude'
  BY <1>3 DEF TableInv, NeighboursExclude
<1>11. Watched'
  <2>1. \A r, q \in dining!Philosopher : LooksAt(r, q) => LooksAt(r, q)'
    BY <1>1, <1>3 DEF LooksAt
  <2>2. \A q \in dining!Philosopher : NextToEating(q) => NextToEating(q)'
    BY <1>3 DEF NextToEating
  <2> QED
    BY <1>3, <2>1, <2>2 DEF TableInv, Watched
<1> QED
  BY <1>5, <1>6, <1>7, <1>8, <1>9, <1>10, <1>11 DEF TableInv

LEMMA LeaveInv ==
    ASSUME TableInv, NEW p \in dining!Philosopher, NEW from, NEW to, dining!LeaveMutex(p, from, to),
           \/ from = "taken" /\ to = "wait"
           \/ from = "put" /\ to = "next"
    PROVE  TableInv'
<1>1. \A q \in dining!Philosopher : eat_pc'[q] = IF q = p THEN to ELSE eat_pc[q]
  BY DEF TableInv, TableTypes, dining!LeaveMutex, dining!Go
<1>2. eat_pc[p] = from /\ status' = status /\ s' = s
  BY DEF dining!LeaveMutex, dining!Go
<1>3. eat_pc[p] \in dining!InMutex /\ to \notin dining!InMutex
  BY <1>2 DEF dining!InMutex, dining!Taking, dining!Putting
<1>4. mutex = 0 /\ mutex' = 1
  BY <1>3 DEF TableInv, TableTypes, OneInMutex, dining!LeaveMutex
<1>5. to \in dining!Place /\ eat_pc' = [eat_pc EXCEPT ![p] = to]
  BY DEF dining!Place, dining!InMutex, dining!Taking, dining!Putting, dining!LeaveMutex, dining!Go
<1>6. TableTypes'
  BY <1>2, <1>4, <1>5 DEF TableInv, TableTypes
<1>7. StatusOfPlace'
  BY <1>1, <1>2 DEF TableInv, StatusOfPlace, Idle, dining!Eats, dining!Putting
<1>8. SOfPlace'
  BY <1>1, <1>2 DEF TableInv, SOfPlace, dining!Granted
<1>9. OneInMutex'
  BY <1>1, <1>3, <1>4 DEF TableInv, OneInMutex
<1>10. Tested'
  BY <1>1, <1>2 DEF TableInv, Tested, dining!MayEat
<1>11. NeighboursExclude'
  BY <1>2 DEF TableInv, NeighboursExclude
<1>12. Watched'
  <2>1. \A r, q \in dining!Philosopher : LooksAt(r, q) => LooksAt(r, q)'
    BY <1>1, <1>2 DEF LooksAt
  <2>2. \A q \in dining!Philosopher : NextToEating(q) => NextToEating(q)'
    BY <1>2 DEF NextToEating
  <2> QED
    BY <1>2, <2>1, <2>2 DEF TableInv, Watched
<1> QED
  BY <1>6, <1>7, <1>8, <1>9, <1>10, <1>11, <1>12 DEF TableInv

-----------------------------------------------------------------------------
(* Inside the mutex: the others stay where they are, outside.              *)
LEMMA Alone ==
    ASSUME TableInv, NEW p \in dining!Philosopher, eat_pc[p] \in dining!InMutex
    PROVE  /\ mutex = 0
           /\ \A q \in dining!Philosopher : q # p => eat_pc[q] \notin dining!InMutex
           /\ \A r, q \in dining!Philosopher : LooksAt(r, q) => r = p
<1>1. mutex = 0 /\ \A q \in dining!Philosopher : q # p => eat_pc[q] \notin dining!InMutex
  BY DEF TableInv, TableTypes, OneInMutex
<1> QED
  BY <1>1 DEF LooksAt, dining!InMutex, dining!Taking, dining!Putting

(* take_forks says that it is hungry, put_forks that it is not eating.     *)
LEMMA HungryInv ==
    ASSUME TableInv, NEW p \in dining!Philosopher, dining!TakeHungry(p)
    PROVE  TableInv'
<1>1. \A q \in dining!Philosopher : eat_pc'[q] = IF q = p THEN "asking" ELSE eat_pc[q]
  BY DEF TableInv, TableTypes, dining!TakeHungry, dining!Go
<1>2. \A q \in dining!Philosopher : status'[q] = IF q = p THEN dining!HUNGRY ELSE status[q]
  BY DEF TableInv, TableTypes, dining!TakeHungry, dining!SetStatus
<1>3. eat_pc[p] = "taking" /\ s' = s /\ mutex' = mutex
  BY DEF dining!TakeHungry, dining!Go
<1>4. status[p] = dining!THINKING
  BY <1>3 DEF TableInv, StatusOfPlace, Idle
<1>5. /\ mutex = 0
      /\ \A q \in dining!Philosopher : q # p => eat_pc[q] \notin dining!InMutex
      /\ \A r, q \in dining!Philosopher : LooksAt(r, q) => r = p
  BY <1>3, Alone DEF dining!InMutex, dining!Taking
<1>6. TableTypes'
  BY <1>3 DEF TableInv, TableTypes, dining!TakeHungry, dining!Go, dining!SetStatus,
     dining!Place, dining!InMutex, dining!Taking
<1>7. StatusOfPlace'
  BY <1>1, <1>2 DEF TableInv, StatusOfPlace, Idle, dining!Eats, dining!Putting
<1>8. SOfPlace'
  BY <1>1, <1>2, <1>3 DEF TableInv, SOfPlace, dining!Granted
<1>9. OneInMutex'
  BY <1>1, <1>3, <1>5 DEF TableInv, OneInMutex
<1>10. Tested'
  BY <1>1, <1>5 DEF Tested, dining!InMutex, dining!Taking, dining!Putting
<1>11. NeighboursExclude'
  BY <1>2, Neighbours DEF TableInv, NeighboursExclude, dining!HUNGRY, dining!EATING
<1>12. Watched'
  <2> SUFFICES ASSUME NEW q \in dining!Philosopher, status'[q] = dining!HUNGRY
               PROVE  NextToEating(q)' \/ \E r \in dining!Philosopher : LooksAt(r, q)'
    BY DEF Watched
  <2>1. CASE q = p
    BY <1>1, <2>1 DEF LooksAt
  <2>2. CASE q # p
    <3>1. status[q] = dining!HUNGRY
      BY <1>2, <2>2
    <3>2. \A r \in dining!Philosopher : ~LooksAt(r, q)
      BY <1>3, <1>5 DEF LooksAt
    <3>3. NextToEating(q)
      BY <3>1, <3>2 DEF TableInv, Watched
    <3>4. NextToEating(q)'
      BY <1>2, <1>4, <3>3, Neighbours DEF NextToEating, dining!THINKING, dining!HUNGRY,
         dining!EATING
    <3> QED
      BY <3>4
  <2> QED
    BY <2>1, <2>2
<1> QED
  BY <1>6, <1>7, <1>8, <1>9, <1>10, <1>11, <1>12 DEF TableInv

LEMMA ThinkingInv ==
    ASSUME TableInv, NEW p \in dining!Philosopher, dining!PutThinking(p)
    PROVE  TableInv'
<1>1. \A q \in dining!Philosopher : eat_pc'[q] = IF q = p THEN "test_left" ELSE eat_pc[q]
  BY DEF TableInv, TableTypes, dining!PutThinking, dining!Go
<1>2. \A q \in dining!Philosopher : status'[q] = IF q = p THEN dining!THINKING ELSE status[q]
  BY DEF TableInv, TableTypes, dining!PutThinking, dining!SetStatus
<1>3. eat_pc[p] = "putting" /\ s' = s /\ mutex' = mutex
  BY DEF dining!PutThinking, dining!Go
<1>4. /\ mutex = 0
      /\ \A q \in dining!Philosopher : q # p => eat_pc[q] \notin dining!InMutex
      /\ \A r, q \in dining!Philosopher : LooksAt(r, q) => r = p
  BY <1>3, Alone DEF dining!InMutex, dining!Putting
<1>5. TableTypes'
  BY <1>3 DEF TableInv, TableTypes, dining!PutThinking, dining!Go, dining!SetStatus,
     dining!Place, dining!InMutex, dining!Putting
<1>6. StatusOfPlace'
  BY <1>1, <1>2 DEF TableInv, StatusOfPlace, Idle, dining!Eats, dining!Putting
<1>7. SOfPlace'
  BY <1>1, <1>2, <1>3 DEF TableInv, SOfPlace, dining!Granted
<1>8. OneInMutex'
  BY <1>1, <1>3, <1>4 DEF TableInv, OneInMutex
<1>9. Tested'
  BY <1>1, <1>4 DEF Tested, dining!InMutex, dining!Taking, dining!Putting
<1>10. NeighboursExclude'
  BY <1>2, Neighbours DEF TableInv, NeighboursExclude, dining!THINKING, dining!EATING
<1>11. Watched'
  <2> SUFFICES ASSUME NEW q \in dining!Philosopher, status'[q] = dining!HUNGRY
               PROVE  NextToEating(q)' \/ \E r \in dining!Philosopher : LooksAt(r, q)'
    BY DEF Watched
  <2>1. q # p /\ status[q] = dining!HUNGRY
    BY <1>2 DEF dining!THINKING, dining!HUNGRY
  <2>2. \A r \in dining!Philosopher : ~LooksAt(r, q)
    BY <1>3, <1>4 DEF LooksAt
  <2>3. NextToEating(q)
    BY <2>1, <2>2 DEF TableInv, Watched
  <2>4. CASE q \in {dining!LEFT(p), dining!RIGHT(p)}
    BY <1>1, <2>4 DEF LooksAt
  <2>5. CASE q \notin {dining!LEFT(p), dining!RIGHT(p)}
    <3>1. dining!LEFT(q) # p /\ dining!RIGHT(q) # p
      BY <2>5, Neighbours
    <3>2. NextToEating(q)'
      BY <1>2, <2>3, <3>1, Neighbours DEF NextToEating
    <3> QED
      BY <3>2
  <2> QED
    BY <2>4, <2>5
<1> QED
  BY <1>5, <1>6, <1>7, <1>8, <1>9, <1>10, <1>11 DEF TableInv

(* The tests.                                                              *)
LEMMA TestInv ==
    ASSUME TableInv, NEW p \in dining!Philosopher, NEW q \in dining!Philosopher,
           NEW from, NEW yes, NEW no, dining!Test(p, q, from, yes, no),
           \/ from = "asking" /\ yes = "granting" /\ no = "taken" /\ q = p
           \/ from = "test_left" /\ yes = "grant_left" /\ no = "test_right" /\ q = dining!LEFT(p)
           \/ from = "test_right" /\ yes = "grant_right" /\ no = "put" /\ q = dining!RIGHT(p)
    PROVE  TableInv'
<1> DEFINE to == IF dining!MayEat(q) THEN yes ELSE no
<1>1. \A u \in dining!Philosopher : eat_pc'[u] = IF u = p THEN to ELSE eat_pc[u]
  BY DEF TableInv, TableTypes, dining!Test, dining!Go
<1>2. eat_pc[p] = from /\ status' = status /\ s' = s /\ mutex' = mutex
  BY DEF dining!Test, dining!Go, dining!tableVars
<1>3. eat_pc[p] \in dining!InMutex /\ to \in dining!InMutex /\ to \in dining!Place
  BY <1>2 DEF dining!InMutex, dining!Taking, dining!Putting, dining!Place
<1>4. /\ mutex = 0
      /\ \A u \in dining!Philosopher : u # p => eat_pc[u] \notin dining!InMutex
      /\ \A r, u \in dining!Philosopher : LooksAt(r, u) => r = p
  BY <1>3, Alone
<1>5. TableTypes'
  BY <1>2, <1>3 DEF TableInv, TableTypes, dining!Test, dining!Go
<1>6. StatusOfPlace'
  BY <1>1, <1>2 DEF TableInv, StatusOfPlace, Idle, dining!Eats, dining!Putting
<1>7. SOfPlace'
  BY <1>1, <1>2 DEF TableInv, StatusOfPlace, SOfPlace, dining!Granted, dining!HUNGRY,
     dining!EATING, Idle, dining!Putting
<1>8. OneInMutex'
  BY <1>1, <1>2, <1>4 DEF TableInv, OneInMutex
<1>9. Tested'
  <2>1. dining!MayEat(q)' = dining!MayEat(q)
    BY <1>2 DEF dining!MayEat
  <2>2. \A u \in dining!Philosopher : u # p => eat_pc'[u] \notin dining!InMutex
    BY <1>1, <1>4
  <2>3. eat_pc'[p] \in {"granting", "grant_left", "grant_right"} => dining!MayEat(q)
    BY <1>1
  <2> QED
    BY <1>1, <2>1, <2>2, <2>3 DEF Tested, dining!InMutex, dining!Taking, dining!Putting
<1>10. NeighboursExclude'
  BY <1>2 DEF TableInv, NeighboursExclude
<1>11. Watched'
  <2> SUFFICES ASSUME NEW u \in dining!Philosopher, status[u] = dining!HUNGRY, ~NextToEating(u)
               PROVE  LooksAt(p, u)'
    BY <1>2 DEF Watched, NextToEating
  <2>1. LooksAt(p, u)
    BY <1>4 DEF TableInv, Watched
  <2>2. dining!MayEat(u)
    BY DEF NextToEating, dining!MayEat
  <2> QED
    BY <1>1, <1>2, <2>1, <2>2 DEF LooksAt
<1> QED
  BY <1>5, <1>6, <1>7, <1>8, <1>9, <1>10, <1>11 DEF TableInv

(* The grants: to the philosopher itself, or to a neighbour that waits.    *)
LEMMA GrantInv ==
    ASSUME TableInv, NEW p \in dining!Philosopher, NEW q \in dining!Philosopher,
           NEW from, NEW to, dining!Grant(p, q, from, to),
           \/ from = "granting" /\ to = "taken" /\ q = p
           \/ from = "grant_left" /\ to = "test_right" /\ q = dining!LEFT(p)
           \/ from = "grant_right" /\ to = "put" /\ q = dining!RIGHT(p)
    PROVE  TableInv' /\ dining!MayEat(q)
<1>1. \A u \in dining!Philosopher : eat_pc'[u] = IF u = p THEN to ELSE eat_pc[u]
  BY DEF TableInv, TableTypes, dining!Grant, dining!Go
<1>2. \A u \in dining!Philosopher : status'[u] = IF u = q THEN dining!EATING ELSE status[u]
  BY DEF TableInv, TableTypes, dining!Grant, dining!SetStatus
<1>3. eat_pc[p] = from /\ mutex' = mutex
  BY DEF dining!Grant, dining!Go
<1>4. eat_pc[p] \in dining!InMutex /\ to \in dining!InMutex /\ to \in dining!Place
  BY <1>3 DEF dining!InMutex, dining!Taking, dining!Putting, dining!Place
<1>5. /\ mutex = 0
      /\ \A u \in dining!Philosopher : u # p => eat_pc[u] \notin dining!InMutex
      /\ \A r, u \in dining!Philosopher : LooksAt(r, u) => r = p
  BY <1>4, Alone
<1>6. dining!MayEat(q) /\ status[q] = dining!HUNGRY
  BY <1>3 DEF TableInv, Tested, dining!MayEat
<1>7. s[q] = 0
  BY <1>6 DEF TableInv, SOfPlace, dining!Granted, dining!HUNGRY, dining!EATING
<1>8. \A u \in dining!Philosopher : s'[u] = IF u = q THEN 1 ELSE s[u]
  BY <1>7 DEF TableInv, TableTypes, dining!Grant
<1>9. eat_pc'[q] \in {"taken", "wait"}
  <2>1. CASE q = p
    BY <1>1, <1>3, <2>1, Neighbours
  <2>2. CASE q # p
    <3>1. eat_pc[q] \notin dining!InMutex
      BY <1>5, <2>2
    <3>2. eat_pc[q] \in dining!Place
      BY DEF TableInv, TableTypes
    <3>3. eat_pc[q] = "wait"
      BY <1>6, <3>1, <3>2
         DEF TableInv, StatusOfPlace, dining!THINKING, dining!HUNGRY, dining!EATING,
            dining!Place, Idle, dining!InMutex, dining!Taking,
             dining!Putting, dining!Eats
    <3> QED
      BY <1>1, <2>2, <3>3
  <2> QED
    BY <2>1, <2>2
<1>10. TableTypes'
  <2>1. status' \in [dining!Philosopher -> {dining!THINKING, dining!HUNGRY, dining!EATING}]
    BY DEF TableInv, TableTypes, dining!Grant, dining!SetStatus
  <2>2. s' \in [dining!Philosopher -> {0, 1}]
    BY <1>7 DEF TableInv, TableTypes, dining!Grant
  <2>3. eat_pc' \in [dining!Philosopher -> dining!Place]
    BY <1>4 DEF TableInv, TableTypes, dining!Grant, dining!Go
  <2> QED
    BY <1>3, <2>1, <2>2, <2>3 DEF TableInv, TableTypes
<1>11. StatusOfPlace'
  <2> SUFFICES ASSUME NEW u \in dining!Philosopher
               PROVE  /\ eat_pc'[u] \in Idle => status'[u] = dining!THINKING
                      /\ eat_pc'[u] \in {"asking", "granting"} => status'[u] = dining!HUNGRY
                      /\ eat_pc'[u] \in {"taken", "wait"} => status'[u] \in {dining!HUNGRY,
                         dining!EATING}
                      /\ eat_pc'[u] \in dining!Eats \cup {"fed", "putting"} =>
                         status'[u] = dining!EATING
    BY DEF StatusOfPlace
  <2>1. CASE u = q
    BY <1>2, <1>9, <2>1 DEF Idle, dining!Putting, dining!Eats
  <2>2. CASE u # q /\ u # p
    BY <1>1, <1>2, <2>2 DEF TableInv, StatusOfPlace
  <2>3. CASE u # q /\ u = p
    BY <1>1, <1>2, <1>3, <2>3 DEF TableInv, StatusOfPlace, Idle, dining!Putting, dining!Eats
  <2> QED
    BY <2>1, <2>2, <2>3
<1>12. SOfPlace'
  <2> SUFFICES ASSUME NEW u \in dining!Philosopher PROVE s'[u] = IF dining!Granted(u)' THEN 1 ELSE 0
    BY DEF SOfPlace
  <2>1. CASE u = q
    BY <1>2, <1>8, <1>9, <2>1 DEF dining!Granted
  <2>2. CASE u # q /\ u # p
    BY <1>1, <1>2, <1>8, <2>2 DEF TableInv, SOfPlace, dining!Granted
  <2>3. CASE u # q /\ u = p
    BY <1>1, <1>2, <1>3, <1>8, <2>3 DEF TableInv, SOfPlace, dining!Granted
  <2> QED
    BY <2>1, <2>2, <2>3
<1>13. OneInMutex'
  BY <1>1, <1>3, <1>5 DEF TableInv, OneInMutex
<1>14. Tested'
  BY <1>1, <1>5 DEF Tested, dining!InMutex, dining!Taking, dining!Putting
<1>15. NeighboursExclude'
  BY <1>2, <1>6, Neighbours DEF TableInv, NeighboursExclude, dining!MayEat
<1>16. Watched'
  <2> SUFFICES ASSUME NEW u \in dining!Philosopher, status'[u] = dining!HUNGRY, ~NextToEating(u)'
               PROVE  LooksAt(p, u)'
    BY DEF Watched
  <2>1. u # q /\ status[u] = dining!HUNGRY
    BY <1>2 DEF dining!HUNGRY, dining!EATING
  <2>2. ~NextToEating(u)
    BY <1>2, Neighbours DEF NextToEating
  <2>3. LooksAt(p, u)
    BY <1>5, <2>1, <2>2 DEF TableInv, Watched
  <2> QED
    BY <1>1, <1>3, <2>1, <2>3 DEF LooksAt
<1> QED
  BY <1>6, <1>10, <1>11, <1>12, <1>13, <1>14, <1>15, <1>16 DEF TableInv

-----------------------------------------------------------------------------
(* Only take_forks, put_forks and P(s[]) touch the table.                  *)
LEMMA StutterInv ==
    ASSUME TableInv, dining!tableVars' = dining!tableVars, eat_pc' = eat_pc
    PROVE  TableInv'
BY DEF TableInv, dining!tableVars, TableTypes, StatusOfPlace, SOfPlace, dining!Granted,
   OneInMutex, Tested, dining!MayEat,
       NeighboursExclude, Watched, NextToEating, LooksAt

LEMMA TakeTable ==
    ASSUME TableInv, NEW p \in dining!Philosopher, dining!Take(p)
    PROVE  TableInv'
<1>1. CASE dining!TakeEnter(p)
  BY <1>1, EnterInv DEF dining!TakeEnter
<1>2. CASE dining!TakeHungry(p)
  BY <1>2, HungryInv
<1>3. CASE dining!TakeTest(p)
  BY <1>3, TestInv DEF dining!TakeTest
<1>4. CASE dining!TakeGrant(p)
  BY <1>4, GrantInv DEF dining!TakeGrant
<1>5. CASE dining!TakeLeave(p)
  BY <1>5, LeaveInv DEF dining!TakeLeave
<1>6. CASE dining!TakeWait(p)
  BY <1>6, OutsideInv DEF dining!TakeWait, dining!Go, dining!Place, dining!Eats,
     dining!InMutex, dining!Taking, dining!Putting
<1> QED
  BY <1>1, <1>2, <1>3, <1>4, <1>5, <1>6 DEF dining!Take

LEMMA PutTable ==
    ASSUME TableInv, NEW p \in dining!Philosopher, dining!Put(p)
    PROVE  TableInv'
<1>1. CASE dining!PutEnter(p)
  BY <1>1, EnterInv DEF dining!PutEnter
<1>2. CASE dining!PutThinking(p)
  BY <1>2, ThinkingInv
<1>3. CASE dining!PutTestLeft(p)
  BY <1>3, TestInv, Neighbours DEF dining!PutTestLeft
<1>4. CASE dining!PutGrantLeft(p)
  BY <1>4, GrantInv, Neighbours DEF dining!PutGrantLeft
<1>5. CASE dining!PutTestRight(p)
  BY <1>5, TestInv, Neighbours DEF dining!PutTestRight
<1>6. CASE dining!PutGrantRight(p)
  BY <1>6, GrantInv, Neighbours DEF dining!PutGrantRight
<1>7. CASE dining!PutLeave(p)
  BY <1>7, LeaveInv DEF dining!PutLeave
<1> QED
  BY <1>1, <1>2, <1>3, <1>4, <1>5, <1>6, <1>7 DEF dining!Put

LEMMA TableStep == TableInv /\ [dining!Next]_(dining!vars) => TableInv'
<1> SUFFICES ASSUME TableInv, [dining!Next]_(dining!vars) PROVE TableInv'
  OBVIOUS
<1>1. CASE UNCHANGED dining!vars \/ dining!Wait \/ dining!Destroy \/ dining!Returned
  <2>1. dining!tableVars' = dining!tableVars /\ eat_pc' = eat_pc
    BY <1>1 DEF dining!vars, dining!Wait, dining!Destroy, dining!Returned
  <2> QED
    BY <2>1, StutterInv
<1>2. ASSUME NEW p \in dining!Philosopher, dining!Fork(p) \/ dining!NextCourse(p) \/ dining!Bye(p)
      PROVE  TableInv'
  BY <1>2, OutsideInv
     DEF dining!Fork, dining!NextCourse, dining!Bye, dining!Go, dining!tableVars, dining!Place,
        Idle, dining!Eats, dining!InMutex, dining!Taking, dining!Putting
<1>3. ASSUME NEW p \in dining!Philosopher, dining!Eat(p) PROVE TableInv'
  BY <1>3, OutsideInv
     DEF dining!Eat, dining!Load, dining!Store, dining!Go, dining!tableVars, dining!Place,
        dining!Eats, dining!InMutex, dining!Taking, dining!Putting
<1>4. ASSUME NEW p \in dining!Philosopher, dining!Take(p) \/ dining!Put(p) PROVE TableInv'
  BY <1>4, TakeTable, PutTable
<1> QED
  BY <1>1, <1>2, <1>3, <1>4 DEF dining!Next, dining!philosopher_thread

(* status[] and s[] tell the same story; and who would look at a hungry    *)
(* philosopher from inside the mutex is not there when nobody is.          *)
LEMMA TableGrants == TableInv => dining!GrantsKept
BY DEF TableInv, StatusOfPlace, SOfPlace, dining!GrantsKept, dining!THINKING, dining!HUNGRY,
   dining!EATING

LEMMA TableRemembers == TableInv => dining!NobodyForgotten
<1> SUFFICES ASSUME TableInv, mutex = 1, NEW q \in dining!Philosopher, status[q] = dining!HUNGRY
             PROVE  NextToEating(q)
  BY DEF dining!NobodyForgotten, NextToEating
<1>1. \A p \in dining!Philosopher : ~LooksAt(p, q)
  BY DEF TableInv, OneInMutex, LooksAt, dining!InMutex, dining!Taking, dining!Putting
<1> QED
  BY <1>1 DEF TableInv, Watched

-----------------------------------------------------------------------------
(* The forks.                                                              *)
Users == [f \in dining!Philosopher |->
             {p \in dining!Philosopher : status[p] = dining!EATING /\ f \in {p, dining!RIGHT(p)}}]

LEMMA TheForks ==
    /\ dining!Table!Philosopher = dining!Philosopher
    /\ \A p \in dining!Philosopher : dining!Table!ForksOf(p) = {p, dining!RIGHT(p)}
<1>1. ASSUME NEW p \in dining!Philosopher PROVE (p + 1) % NUM_PHILOSOPHERS = dining!RIGHT(p)
  BY ExercisesAssumption DEF dining!ConstantsOK, dining!Philosopher, dining!RIGHT
<1> QED
  BY <1>1 DEF dining!Table!Philosopher, dining!Table!ForksOf, dining!Philosopher

(* Nobody else has a fork of an eater, or of one who may eat.              *)
LEMMA ForkUsers ==
    ASSUME TableInv, NEW q \in dining!Philosopher, NEW f \in {q, dining!RIGHT(q)}
    PROVE  /\ status[q] = dining!EATING => Users[f] = {q}
           /\ dining!MayEat(q) => Users[f] = {}
<1>1. f \in dining!Philosopher
  BY Neighbours
<1>2. ASSUME NEW p \in dining!Philosopher, f \in {p, dining!RIGHT(p)}
      PROVE  p \in {dining!LEFT(q), q, dining!RIGHT(q)}
  BY <1>2, Neighbours
<1>3. status[q] = dining!EATING => status[dining!RIGHT(q)] # dining!EATING /\
          status[dining!LEFT(q)] # dining!EATING
  BY Neighbours DEF TableInv, NeighboursExclude
<1>4. status[q] = dining!EATING => Users[f] = {q}
  BY <1>1, <1>2, <1>3 DEF Users
<1>5. dining!MayEat(q) => Users[f] = {}
  BY <1>1, <1>2 DEF Users, dining!MayEat, dining!HUNGRY, dining!EATING
<1> QED
  BY <1>4, <1>5

LEMMA StatusSame ==
    ASSUME \A p \in dining!Philosopher : (status'[p] = dining!EATING) = (status[p] = dining!EATING)
    PROVE  Users' = Users
BY DEF Users

LEMMA GrantTakes ==
    ASSUME TableInv, NEW p \in dining!Philosopher, NEW q \in dining!Philosopher,
           NEW from, NEW to, dining!Grant(p, q, from, to), dining!MayEat(q)
    PROVE  dining!Table!Take(q)
<1>1. \A u \in dining!Philosopher : status'[u] = IF u = q THEN dining!EATING ELSE status[u]
  BY DEF TableInv, TableTypes, dining!Grant, dining!SetStatus
<1>2. \A f \in {q, dining!RIGHT(q)} : Users[f] = {}
  BY ForkUsers
<1>3. Users' = [f \in dining!Philosopher |-> IF f \in {q, dining!RIGHT(q)} THEN {q} ELSE Users[f]]
  <2>1. ASSUME NEW f \in {q, dining!RIGHT(q)} PROVE Users'[f] = {q}
    BY <1>1, <1>2, Neighbours DEF Users
  <2>2. ASSUME NEW f \in dining!Philosopher, f \notin {q, dining!RIGHT(q)}
        PROVE  Users'[f] = Users[f]
    BY <1>1, <2>2 DEF Users
  <2> QED
    BY <2>1, <2>2 DEF Users
<1> QED
  BY <1>2, <1>3, TheForks DEF dining!Table!Take, Users

LEMMA ThinkingPuts ==
    ASSUME TableInv, NEW q \in dining!Philosopher, dining!PutThinking(q)
    PROVE  dining!Table!Put(q)
<1>1. \A u \in dining!Philosopher : status'[u] = IF u = q THEN dining!THINKING ELSE status[u]
  BY DEF TableInv, TableTypes, dining!PutThinking, dining!SetStatus
<1>2. status[q] = dining!EATING
  BY DEF TableInv, StatusOfPlace, dining!PutThinking, dining!Go
<1>3. \A f \in {q, dining!RIGHT(q)} : Users[f] = {q}
  BY <1>2, ForkUsers
<1>4. Users' = [f \in dining!Philosopher |-> IF f \in {q, dining!RIGHT(q)} THEN {} ELSE Users[f]]
  <2>1. ASSUME NEW f \in {q, dining!RIGHT(q)} PROVE Users'[f] = {}
    <3>1. f \in dining!Philosopher
      BY Neighbours
    <3>2. \A u \in dining!Philosopher : status'[u] = dining!EATING =>
              status[u] = dining!EATING /\ u # q
      BY <1>1 DEF dining!THINKING, dining!EATING
    <3>3. Users'[f] \subseteq Users[f] \ {q}
      BY <3>1, <3>2 DEF Users
    <3> QED
      BY <1>3, <3>3
  <2>2. ASSUME NEW f \in dining!Philosopher, f \notin {q, dining!RIGHT(q)}
        PROVE  Users'[f] = Users[f]
    BY <1>1, <2>2 DEF Users
  <2> QED
    BY <2>1, <2>2 DEF Users
<1> QED
  BY <1>3, <1>4, TheForks DEF dining!Table!Put, Users

LEMMA StepForks ==
    TableInv /\ [dining!Next]_(dining!vars) => \/ \E q \in dining!Table!Philosopher :
                                                  dining!Table!Take(q) \/ dining!Table!Put(q)
                                               \/ Users' = Users
<1> SUFFICES ASSUME TableInv, [dining!Next]_(dining!vars)
             PROVE  \/ \E q \in dining!Philosopher : dining!Table!Take(q) \/ dining!Table!Put(q)
                    \/ Users' = Users
  BY TheForks
<1>1. ASSUME status' = status PROVE Users' = Users
  BY <1>1 DEF Users
<1>2. CASE UNCHANGED dining!vars \/ dining!Wait \/ dining!Destroy \/ dining!Returned
  BY <1>1, <1>2 DEF dining!vars, dining!Wait, dining!Destroy, dining!Returned, dining!tableVars
<1>3. ASSUME NEW p \in dining!Philosopher, dining!Fork(p) \/ dining!Eat(p) \/
          dining!NextCourse(p) \/ dining!Bye(p)
      PROVE  Users' = Users
  BY <1>1, <1>3 DEF dining!Fork, dining!Eat, dining!Load, dining!Store, dining!NextCourse,
     dining!Bye, dining!tableVars
<1>4. ASSUME NEW p \in dining!Philosopher,
             \/ dining!TakeEnter(p) \/ dining!TakeTest(p) \/ dining!TakeLeave(p) \/
                dining!TakeWait(p)
             \/ dining!PutEnter(p) \/ dining!PutTestLeft(p) \/ dining!PutTestRight(p) \/
                dining!PutLeave(p)
      PROVE  Users' = Users
  BY <1>1, <1>4 DEF dining!TakeEnter, dining!TakeTest, dining!TakeLeave, dining!TakeWait,
     dining!PutEnter, dining!PutTestLeft,
     dining!PutTestRight, dining!PutLeave, dining!EnterMutex, dining!LeaveMutex, dining!Test,
         dining!tableVars
<1>5. ASSUME NEW p \in dining!Philosopher, dining!TakeHungry(p) PROVE Users' = Users
  <2>1. status[p] = dining!THINKING
    BY <1>5 DEF TableInv, StatusOfPlace, Idle, dining!TakeHungry, dining!Go
  <2> QED
    BY <1>5, <2>1, StatusSame DEF TableInv, TableTypes, dining!TakeHungry, dining!SetStatus,
       dining!THINKING, dining!HUNGRY, dining!EATING
<1>6. ASSUME NEW p \in dining!Philosopher, dining!TakeGrant(p) \/ dining!PutGrantLeft(p) \/
          dining!PutGrantRight(p)
      PROVE  \E q \in dining!Philosopher : dining!Table!Take(q)
  <2>1. CASE dining!TakeGrant(p)
    BY <2>1, GrantInv, GrantTakes DEF dining!TakeGrant
  <2>2. CASE dining!PutGrantLeft(p)
    BY <2>2, GrantInv, GrantTakes, Neighbours DEF dining!PutGrantLeft
  <2>3. CASE dining!PutGrantRight(p)
    BY <2>3, GrantInv, GrantTakes, Neighbours DEF dining!PutGrantRight
  <2> QED
    BY <1>6, <2>1, <2>2, <2>3
<1>7. ASSUME NEW p \in dining!Philosopher, dining!PutThinking(p)
      PROVE  \E q \in dining!Philosopher : dining!Table!Put(q)
  BY <1>7, ThinkingPuts
<1> QED
  BY <1>2, <1>3, <1>4, <1>5, <1>6, <1>7 DEF dining!Next, dining!philosopher_thread,
     dining!Take, dining!Put

LEMMA ForksStart == dining!Init => dining!Table!Init
BY TheForks DEF dining!Init, dining!Table!Init, dining!THINKING, dining!EATING

-----------------------------------------------------------------------------
(* How often each fork was used: once a course by the philosopher to its   *)
(* right, and once by the one to its left.                                 *)
LeftUsed == {"load_right", "store_right", "fed", "next"} \cup dining!Putting
RightUsed == {"fed", "next"} \cup dining!Putting
Uses(p, places) == course[p] + (IF eat_pc[p] \in places THEN 1 ELSE 0)

CountTypes ==
    /\ fork_count \in [dining!Philosopher -> Nat] /\ eat_reg \in [dining!Philosopher -> Nat]
    /\ course \in [dining!Philosopher -> 0 .. TIMES_TO_EAT]
    /\ eat_finished \in Nat /\ eat_waited \in 0 .. NUM_PHILOSOPHERS

ForksCounted ==
    \A f \in dining!Philosopher :
        fork_count[f] = Uses(f, LeftUsed) + Uses(dining!LEFT(f), RightUsed)

(* Nobody stores to a fork between an eater's load and its store.          *)
LoadedLast ==
    \A p \in dining!Philosopher :
        /\ eat_pc[p] = "store_left" => eat_reg[p] = fork_count[p]
        /\ eat_pc[p] = "store_right" => eat_reg[p] = fork_count[dining!RIGHT(p)]

CoursesEaten ==
    \A p \in dining!Philosopher :
        IF eat_pc[p] = "gone" THEN course[p] = TIMES_TO_EAT ELSE course[p] < TIMES_TO_EAT

GoneEaters == {p \in dining!Philosopher : eat_pc[p] = "gone"}
EatersFinish == eat_finished + eat_waited = Cardinality(GoneEaters)

CountInv == CountTypes /\ ForksCounted /\ LoadedLast /\ CoursesEaten /\ EatersFinish

(* A philosopher moves, and the other places stay.                         *)
Moves(p, from, to) ==
    /\ eat_pc[p] = from /\ to \in dining!Place
    /\ eat_pc' = [eat_pc EXCEPT ![p] = to]
    /\ \A q \in dining!Philosopher : eat_pc'[q] = IF q = p THEN to ELSE eat_pc[q]

LEMMA GoMoves ==
    ASSUME TableInv, NEW p \in dining!Philosopher, NEW from, NEW to \in dining!Place,
        dining!Go(p, from, to)
    PROVE  Moves(p, from, to)
BY DEF Moves, dining!Go, TableInv, TableTypes

LEMMA UsesMove ==
    ASSUME CountTypes, NEW p \in dining!Philosopher, NEW from, NEW to, Moves(p, from, to),
           NEW places
    PROVE  /\ \A q \in dining!Philosopher : Uses(q, places) \in Nat
           /\ course' = course =>
                  /\ \A q \in dining!Philosopher : q # p => Uses(q, places)' = Uses(q, places)
                  /\ (from \in places <=> to \in places)
                         => Uses(p, places)' = Uses(p, places)
                  /\ from \notin places /\ to \in places
                         => Uses(p, places)' = Uses(p, places) + 1
BY DEF Moves, Uses, CountTypes

LEMMA FinishMove ==
    ASSUME EatersFinish, NEW p \in dining!Philosopher, NEW from, NEW to, Moves(p, from, to),
           from # "gone"
    PROVE  /\ Cardinality(GoneEaters) \in Nat
           /\ to # "gone" => GoneEaters' = GoneEaters
           /\ to = "gone" => Cardinality(GoneEaters)' = Cardinality(GoneEaters) + 1
<1>1. IsFiniteSet(GoneEaters)
  <2>1. IsFiniteSet(0 .. NUM_PHILOSOPHERS - 1)
    BY ExercisesAssumption, FS_Interval DEF dining!ConstantsOK
  <2> QED
    BY <2>1, FS_Subset DEF GoneEaters, dining!Philosopher
<1>2. Cardinality(GoneEaters) \in Nat
  BY <1>1, FS_CardinalityType
<1>3. ASSUME to # "gone" PROVE GoneEaters' = GoneEaters
  BY <1>3 DEF Moves, GoneEaters
<1>4. ASSUME to = "gone" PROVE Cardinality(GoneEaters)' = Cardinality(GoneEaters) + 1
  <2>1. GoneEaters' = GoneEaters \cup {p} /\ p \notin GoneEaters
    BY <1>4 DEF Moves, GoneEaters
  <2>2. Cardinality(GoneEaters \cup {p}) = Cardinality(GoneEaters) + 1
    BY <1>1, <2>1, FS_AddElement
  <2> QED
    BY <2>1, <2>2
<1> QED
  BY <1>2, <1>3, <1>4

LEMMA CountInit == dining!Init => CountInv
<1> SUFFICES ASSUME dining!Init PROVE CountInv
  OBVIOUS
<1> USE ExercisesAssumption DEF dining!ConstantsOK
<1>1. CountTypes
  BY DEF dining!Init, CountTypes
<1>2. ForksCounted
  BY Neighbours DEF dining!Init, ForksCounted, Uses, LeftUsed, RightUsed, dining!Putting
<1>3. LoadedLast /\ CoursesEaten
  BY DEF dining!Init, LoadedLast, CoursesEaten
<1>4. EatersFinish
  <2>1. GoneEaters = {}
    BY DEF dining!Init, GoneEaters
  <2> QED
    BY <2>1, FS_EmptySet DEF dining!Init, EatersFinish
<1> QED
  BY <1>1, <1>2, <1>3, <1>4 DEF CountInv

(* The steps away from the forks.                                          *)
LEMMA CountKept ==
    ASSUME TableInv, CountInv, NEW p \in dining!Philosopher, NEW from, NEW to, Moves(p, from, to),
           UNCHANGED <<fork_count, course, eat_reg, eat_finished, eat_waited>>,
           from \in LeftUsed <=> to \in LeftUsed, from \in RightUsed <=> to \in RightUsed,
           to \notin {"store_left", "store_right", "gone"}, from # "gone"
    PROVE  CountInv'
<1>1. CountTypes'
  BY DEF CountInv, CountTypes
<1>2. ForksCounted'
  <2>1. \A q \in dining!Philosopher : /\ Uses(q, LeftUsed)' = Uses(q, LeftUsed)
                                      /\ Uses(q, RightUsed)' = Uses(q, RightUsed)
    BY UsesMove DEF CountInv
  <2> QED
    BY <2>1, Neighbours DEF CountInv, ForksCounted
<1>3. LoadedLast'
  BY DEF CountInv, LoadedLast, Moves
<1>4. CoursesEaten'
  BY DEF CountInv, CoursesEaten, Moves
<1>5. EatersFinish'
  BY FinishMove DEF CountInv, EatersFinish
<1> QED
  BY <1>1, <1>2, <1>3, <1>4, <1>5 DEF CountInv

(* Two neighbours are not both at the fork between them.                   *)
LEMMA EatsAlone ==
    ASSUME TableInv, NEW p \in dining!Philosopher, eat_pc[p] \in dining!Eats
    PROVE  eat_pc[dining!LEFT(p)] \notin dining!Eats /\ eat_pc[dining!RIGHT(p)] \notin dining!Eats
BY Neighbours DEF TableInv, StatusOfPlace, NeighboursExclude

LEMMA LoadCounts ==
    ASSUME TableInv, CountInv, NEW p \in dining!Philosopher, NEW f \in dining!Philosopher,
           NEW from, NEW to, dining!Load(p, f, from, to),
           \/ from = "load_left" /\ to = "store_left" /\ f = p
           \/ from = "load_right" /\ to = "store_right" /\ f = dining!RIGHT(p)
    PROVE  CountInv'
<1>1. from \in {"load_left", "load_right"} /\ to \in {"store_left", "store_right"}
  OBVIOUS
<1>2. Moves(p, from, to)
  BY <1>1, GoMoves DEF dining!Load, dining!Place, dining!Eats
<1>3. /\ \A q \in dining!Philosopher : eat_reg'[q] = IF q = p THEN fork_count[f] ELSE eat_reg[q]
      /\ eat_reg' \in [dining!Philosopher -> Nat]
      /\ UNCHANGED <<fork_count, course, eat_finished, eat_waited>>
  BY <1>1, Neighbours DEF dining!Load, CountInv, CountTypes, dining!mainVars
<1>4. CountTypes'
  BY <1>3 DEF CountInv, CountTypes
<1>5. ForksCounted'
  <2>1. \A q \in dining!Philosopher : /\ Uses(q, LeftUsed)' = Uses(q, LeftUsed)
                                      /\ Uses(q, RightUsed)' = Uses(q, RightUsed)
    BY <1>1, <1>2, <1>3, UsesMove DEF CountInv, LeftUsed, RightUsed, dining!Putting
  <2> QED
    BY <1>3, <2>1, Neighbours DEF CountInv, ForksCounted
<1>6. LoadedLast'
  BY <1>1, <1>2, <1>3 DEF CountInv, LoadedLast, Moves
<1>7. CoursesEaten'
  BY <1>1, <1>2, <1>3 DEF CountInv, CoursesEaten, Moves
<1>8. EatersFinish'
  BY <1>1, <1>2, <1>3, FinishMove DEF CountInv, EatersFinish
<1> QED
  BY <1>4, <1>5, <1>6, <1>7, <1>8 DEF CountInv

LEMMA StoreLeftCounts ==
    ASSUME TableInv, CountInv, NEW p \in dining!Philosopher, dining!Store(p, p, "store_left",
        "load_right")
    PROVE  CountInv'
<1>1. Moves(p, "store_left", "load_right")
  BY GoMoves DEF dining!Store, dining!Place, dining!Eats
<1>2. eat_reg[p] = fork_count[p] /\ fork_count[p] \in Nat
  BY <1>1 DEF CountInv, CountTypes, LoadedLast, Moves
<1>3. /\ \A f \in dining!Philosopher : fork_count'[f] = IF f = p THEN fork_count[p] + 1 ELSE
         fork_count[f]
      /\ \A q \in dining!Philosopher : q # p => eat_reg'[q] = eat_reg[q]
      /\ fork_count' \in [dining!Philosopher -> Nat] /\ eat_reg' \in [dining!Philosopher -> Nat]
      /\ UNCHANGED <<course, eat_finished, eat_waited>>
  BY <1>2 DEF dining!Store, CountInv, CountTypes, dining!mainVars
<1>4. CountTypes'
  BY <1>3 DEF CountInv, CountTypes
<1>5. ForksCounted'
  <2>1. /\ \A q \in dining!Philosopher : q # p => Uses(q, LeftUsed)' = Uses(q, LeftUsed)
        /\ \A q \in dining!Philosopher : Uses(q, RightUsed)' = Uses(q, RightUsed)
        /\ Uses(p, LeftUsed)' = Uses(p, LeftUsed) + 1
    BY <1>1, <1>3, UsesMove DEF CountInv, LeftUsed, RightUsed, dining!Putting
  <2>2. \A q \in dining!Philosopher : Uses(q, LeftUsed) \in Nat /\ Uses(q, RightUsed) \in Nat
    BY <1>1, UsesMove DEF CountInv
  <2> HIDE DEF LeftUsed, RightUsed
  <2> QED
    BY <1>3, <2>1, <2>2, Neighbours DEF CountInv, ForksCounted
<1>6. LoadedLast'
  <2>1. eat_pc[dining!LEFT(p)] # "store_right"
    BY <1>1, EatsAlone DEF Moves, dining!Eats
  <2>2. \A q \in dining!Philosopher : dining!RIGHT(q) = p => q = dining!LEFT(p)
    BY Neighbours
  <2> QED
    BY <1>1, <1>3, <2>1, <2>2, Neighbours DEF CountInv, LoadedLast, Moves
<1>7. CoursesEaten'
  BY <1>1, <1>3 DEF CountInv, CoursesEaten, Moves
<1>8. EatersFinish'
  BY <1>1, <1>3, FinishMove DEF CountInv, EatersFinish
<1> QED
  BY <1>4, <1>5, <1>6, <1>7, <1>8 DEF CountInv

LEMMA StoreRightCounts ==
    ASSUME TableInv, CountInv, NEW p \in dining!Philosopher,
           dining!Store(p, dining!RIGHT(p), "store_right", "fed")
    PROVE  CountInv'
<1> DEFINE r == dining!RIGHT(p)
<1>1. Moves(p, "store_right", "fed")
  BY GoMoves DEF dining!Store, dining!Place
<1>2. r \in dining!Philosopher /\ dining!LEFT(r) = p /\ r # p
  BY Neighbours
<1>3. eat_reg[p] = fork_count[r] /\ fork_count[r] \in Nat
  BY <1>1, <1>2 DEF CountInv, CountTypes, LoadedLast, Moves
<1>4. /\ \A f \in dining!Philosopher : fork_count'[f] = IF f = r THEN fork_count[r] + 1 ELSE
         fork_count[f]
      /\ \A q \in dining!Philosopher : q # p => eat_reg'[q] = eat_reg[q]
      /\ fork_count' \in [dining!Philosopher -> Nat] /\ eat_reg' \in [dining!Philosopher -> Nat]
      /\ UNCHANGED <<course, eat_finished, eat_waited>>
  BY <1>2, <1>3 DEF dining!Store, CountInv, CountTypes, dining!mainVars
<1>5. CountTypes'
  BY <1>4 DEF CountInv, CountTypes
<1>6. eat_pc[r] \notin dining!Eats
  BY <1>1, EatsAlone DEF Moves, dining!Eats
<1> HIDE DEF r
<1>7. ForksCounted'
  <2>1. /\ \A q \in dining!Philosopher : Uses(q, LeftUsed)' = Uses(q, LeftUsed)
        /\ \A q \in dining!Philosopher : q # p => Uses(q, RightUsed)' = Uses(q, RightUsed)
        /\ Uses(p, RightUsed)' = Uses(p, RightUsed) + 1
    BY <1>1, <1>4, UsesMove DEF CountInv, LeftUsed, RightUsed, dining!Putting
  <2>2. \A q \in dining!Philosopher : Uses(q, LeftUsed) \in Nat /\ Uses(q, RightUsed) \in Nat
    BY <1>1, UsesMove DEF CountInv
  <2>3. \A q \in dining!Philosopher : q # r => dining!LEFT(q) # p
    BY <1>2, Neighbours DEF r
  <2> QED
    BY <1>2, <1>4, <2>1, <2>2, <2>3, Neighbours DEF CountInv, ForksCounted
<1>8. LoadedLast'
  <2>1. \A q \in dining!Philosopher : dining!RIGHT(q) = r => q = p
    BY <1>2, Neighbours DEF r
  <2> QED
    BY <1>1, <1>2, <1>4, <1>6, <2>1, Neighbours DEF CountInv, LoadedLast, Moves, dining!Eats
<1>9. CoursesEaten'
  BY <1>1, <1>4 DEF CountInv, CoursesEaten, Moves
<1>10. EatersFinish'
  BY <1>1, <1>4, FinishMove DEF CountInv, EatersFinish
<1> QED
  BY <1>5, <1>7, <1>8, <1>9, <1>10 DEF CountInv

(* A course is over: it counts as one use of both forks.                   *)
LEMMA CourseCounts ==
    ASSUME TableInv, CountInv, NEW p \in dining!Philosopher, dining!NextCourse(p) \/ dining!Bye(p)
    PROVE  CountInv'
<1>1. PICK to \in {"think", "gone"} :
          /\ Moves(p, "next", to)
          /\ to = "gone" <=> course[p] + 1 >= TIMES_TO_EAT
          /\ eat_finished' = IF to = "gone" THEN eat_finished + 1 ELSE eat_finished
  <2>1. course[p] \in Nat /\ TIMES_TO_EAT \in Nat
    BY ExercisesAssumption DEF dining!ConstantsOK, CountInv, CountTypes
  <2>2. CASE dining!NextCourse(p)
    <3>1. Moves(p, "next", "think")
      BY <2>2, GoMoves DEF dining!NextCourse, dining!Place
    <3> QED
      BY <2>1, <2>2, <3>1 DEF dining!NextCourse, dining!mainVars
  <2>3. CASE dining!Bye(p)
    <3>1. Moves(p, "next", "gone")
      BY <2>3, GoMoves DEF dining!Bye, dining!Place
    <3> QED
      BY <2>1, <2>3, <3>1 DEF dining!Bye
  <2> QED
    BY <2>2, <2>3
<1>2. /\ \A q \in dining!Philosopher : course'[q] = IF q = p THEN course[p] + 1 ELSE course[q]
      /\ course' = [course EXCEPT ![p] = @ + 1]
      /\ UNCHANGED <<fork_count, eat_reg, eat_waited>>
  BY DEF dining!NextCourse, dining!Bye, dining!mainVars, CountInv, CountTypes
<1>3. course[p] \in Nat /\ course[p] < TIMES_TO_EAT
  BY <1>1 DEF CountInv, CountTypes, CoursesEaten, Moves
<1>4. TIMES_TO_EAT \in Nat
  BY ExercisesAssumption DEF dining!ConstantsOK
<1>5. CountTypes'
  BY <1>1, <1>2, <1>3, <1>4 DEF CountInv, CountTypes
<1>6. ForksCounted'
  <2>1. \A q \in dining!Philosopher : /\ Uses(q, LeftUsed)' = Uses(q, LeftUsed)
                                      /\ Uses(q, RightUsed)' = Uses(q, RightUsed)
    <3>1. /\ "next" \in LeftUsed /\ "next" \in RightUsed
          /\ to \notin LeftUsed /\ to \notin RightUsed
      BY DEF LeftUsed, RightUsed, dining!Putting
    <3> HIDE DEF LeftUsed, RightUsed
    <3> QED
      BY <1>1, <1>2, <1>3, <3>1 DEF Uses, Moves
  <2> QED
    BY <1>2, <2>1, Neighbours DEF CountInv, ForksCounted
<1>7. LoadedLast'
  BY <1>1, <1>2 DEF CountInv, LoadedLast, Moves
<1>8. CoursesEaten'
  BY <1>1, <1>2, <1>3, <1>4 DEF CountInv, CoursesEaten, Moves
<1>9. EatersFinish'
  BY <1>1, <1>2, FinishMove DEF CountInv, CountTypes, EatersFinish
<1> QED
  BY <1>5, <1>6, <1>7, <1>8, <1>9 DEF CountInv

LEMMA CountStep == TableInv /\ CountInv /\ [dining!Next]_(dining!vars) => CountInv'
<1> SUFFICES ASSUME TableInv, CountInv, [dining!Next]_(dining!vars) PROVE CountInv'
  OBVIOUS
<1>1. CASE UNCHANGED dining!vars \/ dining!Destroy \/ dining!Returned \/ dining!Wait
  <2>1. UNCHANGED <<fork_count, course, eat_reg, eat_pc>>
    BY <1>1 DEF dining!vars, dining!Destroy, dining!Returned, dining!Wait, dining!driverVars
  <2>2. /\ eat_finished' \in Nat /\ eat_waited' \in 0 .. NUM_PHILOSOPHERS
        /\ eat_finished' + eat_waited' = eat_finished + eat_waited
    <3>1. CASE UNCHANGED dining!vars \/ dining!Destroy \/ dining!Returned
      BY <3>1 DEF dining!vars, dining!Destroy, dining!Returned, dining!mainVars, CountInv,
         CountTypes
    <3>2. CASE dining!Wait
      <4>1. /\ eat_finished \in Nat /\ eat_finished > 0 /\ eat_finished' = eat_finished - 1
            /\ eat_waited \in 0 .. NUM_PHILOSOPHERS /\ eat_waited < NUM_PHILOSOPHERS
            /\ eat_waited' = eat_waited + 1 /\ NUM_PHILOSOPHERS \in Nat
        BY <3>2, ExercisesAssumption DEF dining!Wait, CountInv, CountTypes, dining!ConstantsOK
      <4> QED
        BY <4>1
    <3> QED
      BY <1>1, <3>1, <3>2
  <2> QED
    BY <2>1, <2>2 DEF CountInv, CountTypes, ForksCounted, Uses, LoadedLast, CoursesEaten,
       EatersFinish, GoneEaters
<1>2. ASSUME NEW p \in dining!Philosopher, NEW from, NEW to \in dining!Place, dining!Go(p, from,
          to),
             UNCHANGED <<dining!driverVars, dining!mainVars>>,
             from \in LeftUsed <=> to \in LeftUsed, from \in RightUsed <=> to \in RightUsed,
             to \notin {"store_left", "store_right", "gone"}, from # "gone"
      PROVE  CountInv'
  BY <1>2, GoMoves, CountKept DEF dining!driverVars, dining!mainVars
<1>3. ASSUME NEW p \in dining!Philosopher, dining!Fork(p) PROVE CountInv'
  BY <1>2, <1>3 DEF dining!Fork, dining!Place, LeftUsed, RightUsed, dining!Putting
<1>4. ASSUME NEW p \in dining!Philosopher, dining!Take(p) PROVE CountInv'
  <2> USE DEF dining!Place, dining!InMutex, dining!Taking, dining!Eats, LeftUsed, RightUsed,
      dining!Putting
  <2>1. CASE dining!TakeEnter(p)
    BY <1>2, <2>1 DEF dining!TakeEnter, dining!EnterMutex
  <2>2. CASE dining!TakeHungry(p)
    BY <1>2, <2>2 DEF dining!TakeHungry
  <2>3. CASE dining!TakeTest(p)
    BY <1>2, <2>3 DEF dining!TakeTest, dining!Test
  <2>4. CASE dining!TakeGrant(p)
    BY <1>2, <2>4 DEF dining!TakeGrant, dining!Grant
  <2>5. CASE dining!TakeLeave(p)
    BY <1>2, <2>5 DEF dining!TakeLeave, dining!LeaveMutex
  <2>6. CASE dining!TakeWait(p)
    BY <1>2, <2>6 DEF dining!TakeWait
  <2> QED
    BY <1>4, <2>1, <2>2, <2>3, <2>4, <2>5, <2>6 DEF dining!Take
<1>5. ASSUME NEW p \in dining!Philosopher, dining!Put(p) PROVE CountInv'
  <2> USE DEF dining!Place, dining!InMutex, LeftUsed, RightUsed, dining!Putting
  <2>1. CASE dining!PutEnter(p)
    BY <1>2, <2>1 DEF dining!PutEnter, dining!EnterMutex
  <2>2. CASE dining!PutThinking(p)
    BY <1>2, <2>2 DEF dining!PutThinking
  <2>3. CASE dining!PutTestLeft(p)
    BY <1>2, <2>3 DEF dining!PutTestLeft, dining!Test
  <2>4. CASE dining!PutGrantLeft(p)
    BY <1>2, <2>4 DEF dining!PutGrantLeft, dining!Grant
  <2>5. CASE dining!PutTestRight(p)
    BY <1>2, <2>5 DEF dining!PutTestRight, dining!Test
  <2>6. CASE dining!PutGrantRight(p)
    BY <1>2, <2>6 DEF dining!PutGrantRight, dining!Grant
  <2>7. CASE dining!PutLeave(p)
    BY <1>2, <2>7 DEF dining!PutLeave, dining!LeaveMutex
  <2> QED
    BY <1>5, <2>1, <2>2, <2>3, <2>4, <2>5, <2>6, <2>7 DEF dining!Put
<1>6. ASSUME NEW p \in dining!Philosopher, dining!Eat(p) PROVE CountInv'
  <2>1. CASE dining!Load(p, p, "load_left", "store_left")
    BY <2>1, LoadCounts
  <2>2. CASE dining!Load(p, dining!RIGHT(p), "load_right", "store_right")
    BY <2>2, LoadCounts, Neighbours
  <2> QED
    BY <1>6, <2>1, <2>2, StoreLeftCounts, StoreRightCounts DEF dining!Eat
<1>7. ASSUME NEW p \in dining!Philosopher, dining!NextCourse(p) \/ dining!Bye(p) PROVE CountInv'
  BY <1>7, CourseCounts
<1> QED
  BY <1>1, <1>3, <1>4, <1>5, <1>6, <1>7 DEF dining!Next, dining!philosopher_thread

LEMMA ReportIsExact == CountInv => dining!ReportExact
<1> SUFFICES ASSUME CountInv, eat_waited = NUM_PHILOSOPHERS
             PROVE  \A p \in dining!Philosopher : eat_pc[p] = "gone" /\
                 fork_count[p] = 2 * TIMES_TO_EAT
  BY DEF dining!ReportExact
<1>1. /\ IsFiniteSet(0 .. NUM_PHILOSOPHERS - 1)
      /\ Cardinality(0 .. NUM_PHILOSOPHERS - 1) = NUM_PHILOSOPHERS
  BY ExercisesAssumption, FS_Interval DEF dining!ConstantsOK
<1>2. IsFiniteSet(dining!Philosopher) /\ Cardinality(dining!Philosopher) = NUM_PHILOSOPHERS
  BY <1>1 DEF dining!Philosopher
<1>3. /\ GoneEaters \subseteq dining!Philosopher
      /\ Cardinality(GoneEaters) \in Nat /\ Cardinality(GoneEaters) <= NUM_PHILOSOPHERS
  BY <1>2, FS_Subset, FS_CardinalityType DEF GoneEaters
<1>4. Cardinality(GoneEaters) = NUM_PHILOSOPHERS
  BY <1>3, ExercisesAssumption DEF CountInv, CountTypes, EatersFinish, dining!ConstantsOK
<1>5. GoneEaters = dining!Philosopher
  BY <1>2, <1>3, <1>4, FS_Subset
<1>6. \A p \in dining!Philosopher : eat_pc[p] = "gone" /\ course[p] = TIMES_TO_EAT
  BY <1>5 DEF GoneEaters, CountInv, CoursesEaten
<1>7. \A p \in dining!Philosopher : Uses(p, LeftUsed) = TIMES_TO_EAT /\ Uses(p, RightUsed)
          = TIMES_TO_EAT
  BY <1>6, ExercisesAssumption DEF Uses, LeftUsed, RightUsed, dining!Putting, dining!ConstantsOK
<1>8. TIMES_TO_EAT \in Nat
  BY ExercisesAssumption DEF dining!ConstantsOK
<1> QED
  BY <1>6, <1>7, <1>8, Neighbours DEF CountInv, ForksCounted

-----------------------------------------------------------------------------
(* The menu: a command runs one exercise and leaves the others alone.      *)
LEMMA MenuSteps ==
    ASSUME [Next]_vars
    PROVE  /\ [twolocks!Next]_(twolocks!vars) /\ [maths!Next]_(maths!vars)
           /\ [buffer!Next]_(buffer!vars) /\ [dining!Next]_(dining!vars)
<1> DEFINE Same(v) == v' = v
<1>1. /\ twolocksVars' = twolocksVars => UNCHANGED twolocks!vars
      /\ mathsVars' = mathsVars => UNCHANGED maths!vars
      /\ bufferVars' = bufferVars => UNCHANGED buffer!vars
      /\ diningVars' = diningVars => UNCHANGED dining!vars
  BY DEF twolocksVars, mathsVars, bufferVars, diningVars, twolocks!vars,
     maths!vars, maths!locals, maths!mainVars, buffer!vars, buffer!bufferVars,
     dining!vars, dining!tableVars, dining!driverVars, dining!mainVars
<1>2. \/ maths!Next /\ UNCHANGED <<twolocksVars, bufferVars, diningVars>>
      \/ twolocks!Next /\ UNCHANGED <<mathsVars, bufferVars, diningVars>>
      \/ buffer!Next /\ UNCHANGED <<twolocksVars, mathsVars, diningVars>>
      \/ dining!Next /\ UNCHANGED <<twolocksVars, mathsVars, bufferVars>>
      \/ UNCHANGED <<twolocksVars, mathsVars, bufferVars, diningVars>>
  BY DEF Next, RunMaths, RunTwolocks, RunProducerConsumer, RunPhilosophers, vars
<1> QED
  BY <1>1, <1>2

(* The invariants of the four exercises, together.                         *)
ExercisesInv == LocksInv /\ MathsInv /\ OwnInv /\ BufferInv /\ TableInv /\ CountInv

(* Every command keeps every invariant, whatever the constants are: this   *)
(* is the induction that the theorems below rest on.                       *)
THEOREM ExercisesSafe == Spec => []ExercisesInv
<1>1. Init => ExercisesInv
  BY LocksInit, MathsInit, OwnInit, BufferInit, TableInit, CountInit DEF Init, ExercisesInv
<1>2. ExercisesInv /\ [Next]_vars => ExercisesInv'
  BY MenuSteps, LocksStep, MathsStep, OwnStep, BufferStep, TableStep, CountStep DEF ExercisesInv
<1> QED
  BY <1>1, <1>2, PTL DEF Spec

(* twolocks, for any number of rounds: the holder of a lock that one       *)
(* thread waits for never waits for a lock itself.                         *)
THEOREM NoEmbrace == Spec => []NoDeadlyEmbrace
<1>1. ExercisesInv => NoDeadlyEmbrace
  BY LocksNoEmbrace DEF ExercisesInv, NoDeadlyEmbrace
<1> QED
  BY <1>1, ExercisesSafe, PTL

(* maths, for any number of adders, of additions and of runs: no increment *)
(* is lost or done once too often, and no adder reads another's sum.       *)
THEOREM CountsExactly == Spec => []CountExact
<1>1. ExercisesInv => CountExact
  BY MathsSane DEF ExercisesInv, CountExact
<1> QED
  BY <1>1, ExercisesSafe, PTL

(* The buffer, for any number of producers, consumers, slots and items:    *)
(* each slot is accounted for, and an item is with one thread or in the    *)
(* buffer at one place.                                                    *)
THEOREM ItemsAreOnce == Spec => []ItemsOnce
<1>1. ExercisesInv => ItemsOnce
  BY HeapCounted DEF ExercisesInv, BufferInv, ItemsOnce
<1> QED
  BY <1>1, ExercisesSafe, PTL

(* status[] and s[] tell the same story for any number of philosophers: no *)
(* grant of test() is given twice and none is lost before P(s[]).          *)
THEOREM EveryGrantKept == Spec => []GrantsKept
<1>1. ExercisesInv => GrantsKept
  BY TableGrants DEF ExercisesInv, GrantsKept
<1> QED
  BY <1>1, ExercisesSafe, PTL

(* Who is hungry while nobody is in the mutex has an eating neighbour, who *)
(* will look at it in put_forks: for any number of philosophers.           *)
THEOREM NobodyIsForgotten == Spec => []NobodyForgotten
<1>1. ExercisesInv => NobodyForgotten
  BY TableRemembers DEF ExercisesInv, NobodyForgotten
<1> QED
  BY <1>1, ExercisesSafe, PTL

(* What each command destroys at its end nobody uses any more, and its     *)
(* report is exact, for any sizes of the four exercises.                   *)
THEOREM CleanUpIsLast == Spec => []CleansUpLast
<1>1. ExercisesInv => CleansUpLast
  BY LocksReturnLast, MathsCleanedUp, BufferShutdown, ReportIsExact
     DEF ExercisesInv, CleansUpLast
<1> QED
  BY <1>1, ExercisesSafe, PTL

(* producer_send and consumer_receive implement the first-in first-out     *)
(* buffer of BUFFER_SIZE items: a send is its move of tail, a receive its  *)
(* fetch of the item.                                                      *)
THEOREM BufferIsFifo == Spec => ImplementsBuffer
<1>1. Init => buffer!Buffer!Init
  BY BufferStarts DEF Init
<1>2. ExercisesInv /\ [Next]_vars => [buffer!Buffer!Next]_<<buffer!Queue, Hands>>
  BY MenuSteps, BufferRefines DEF ExercisesInv
<1>3. Hands = [c \in Consumer |-> item[c]]
  BY DEF Hands
<1> QED
  BY <1>1, <1>2, ExercisesSafe, PTL
     DEF Spec, ImplementsBuffer, buffer!ImplementsBuffer, buffer!Buffer!Spec, Hands

(* take_forks and put_forks are what module Forks promises: the two forks  *)
(* of a philosopher are taken in one step when both are free, by the grant *)
(* of test(), and put back in one step.                                    *)
THEOREM ForksExclusive == Spec => ImplementsForks
<1>1. Init => dining!Table!Init
  BY ForksStart DEF Init
<1>2. ExercisesInv /\ [Next]_vars
      => [\E p \in dining!Table!Philosopher : dining!Table!Take(p) \/ dining!Table!Put(p)]_Users
  BY MenuSteps, StepForks DEF ExercisesInv
<1>3. Users = [f \in dining!Philosopher |->
                  {p \in dining!Philosopher : status[p] = dining!EATING /\
                      f \in {p, dining!RIGHT(p)}}]
  BY DEF Users
<1> QED
  BY <1>1, <1>2, ExercisesSafe, PTL
     DEF Spec, ImplementsForks, dining!ImplementsForks, dining!Table!Spec, Users
=============================================================================
