-------------------------- MODULE SchedulerProofs --------------------------
(***************************************************************************)
(* The thread system keeps its books for any number of processors and      *)
(* threads: proofs of the safety properties of module Scheduler.           *)
(***************************************************************************)
EXTENDS Scheduler, TLAPS, FiniteSetTheorems, SequenceTheorems

-----------------------------------------------------------------------------
(* Thread lists: what threadlist_addtail, threadlist_remhead and the loops *)
(* over them do to the set of threads that is on a list.                   *)
LEMMA InList ==
    ASSUME NEW T, NEW s \in Seq(T)
    PROVE  /\ Len(s) \in Nat /\ DOMAIN s = 1 .. Len(s)
           /\ ToSet(s) \subseteq T
           /\ \A k \in 1 .. Len(s) : s[k] \in ToSet(s)
           /\ \A x \in ToSet(s) : \E k \in 1 .. Len(s) : s[k] = x
           /\ s = <<>> <=> ToSet(s) = {}
           /\ s = <<>> <=> Len(s) = 0
<1>1. Len(s) \in Nat /\ DOMAIN s = 1 .. Len(s) /\ \A k \in 1 .. Len(s) : s[k] \in T
  OBVIOUS
<1>2. s = <<>> <=> Len(s) = 0
  BY EmptySeq
<1>3. \A x : x \in ToSet(s) <=> \E k \in 1 .. Len(s) : s[k] = x
  BY <1>1 DEF ToSet
<1>4. CASE s = <<>>
  BY <1>1, <1>2, <1>3, <1>4
<1>5. CASE s # <<>>
  <2>1. 1 \in 1 .. Len(s)
    BY <1>1, <1>2, <1>5
  <2> QED
    BY <1>1, <1>2, <1>3, <1>5, <2>1
<1> QED
  BY <1>4, <1>5

LEMMA AddTail ==
    ASSUME NEW T, NEW s \in Seq(T), NEW t \in T
    PROVE  /\ Append(s, t) \in Seq(T)
           /\ Append(s, t) # <<>>
           /\ Len(Append(s, t)) = Len(s) + 1
           /\ ToSet(Append(s, t)) = ToSet(s) \cup {t}
           /\ IsInjective(s) /\ t \notin ToSet(s) => IsInjective(Append(s, t))
<1> DEFINE a == Append(s, t)
<1>1. /\ a \in Seq(T) /\ Len(a) = Len(s) + 1 /\ a # <<>>
      /\ \A k \in 1 .. Len(s) : a[k] = s[k]
      /\ a[Len(s) + 1] = t
  BY AppendProperties
<1>2. Len(s) \in Nat /\ DOMAIN s = 1 .. Len(s) /\ DOMAIN a = 1 .. Len(s) + 1
  BY <1>1, LenProperties
<1> HIDE DEF a
<1>3. ToSet(a) = ToSet(s) \cup {t}
  BY <1>1, <1>2 DEF ToSet
<1>4. IsInjective(s) /\ t \notin ToSet(s) => IsInjective(a)
  <2> SUFFICES ASSUME IsInjective(s), t \notin ToSet(s),
                      NEW j \in 1 .. Len(s) + 1, NEW k \in 1 .. Len(s) + 1, a[j] = a[k]
               PROVE  j = k
    BY <1>2 DEF IsInjective
  <2>1. \A i \in 1 .. Len(s) : s[i] # t
    BY <1>2 DEF ToSet
  <2>2. CASE j = Len(s) + 1 \/ k = Len(s) + 1
    BY <1>1, <1>2, <2>1, <2>2
  <2>3. CASE j \in 1 .. Len(s) /\ k \in 1 .. Len(s)
    BY <1>1, <1>2, <2>3 DEF IsInjective
  <2> QED
    BY <1>2, <2>2, <2>3
<1> QED
  BY <1>1, <1>3, <1>4 DEF a

LEMMA Split ==
    ASSUME NEW T, NEW s \in Seq(T), NEW n \in 0 .. Len(s)
    PROVE  LET a == SubSeq(s, 1, n)
               b == SubSeq(s, n + 1, Len(s)) IN
           /\ a \in Seq(T) /\ b \in Seq(T)
           /\ Len(a) = n /\ Len(b) = Len(s) - n
           /\ ToSet(s) = ToSet(a) \cup ToSet(b)
           /\ IsInjective(s) => /\ IsInjective(a) /\ IsInjective(b)
                                /\ ToSet(a) \cap ToSet(b) = {}
           /\ \A k \in 1 .. n : a[k] = s[k]
           /\ \A k \in 1 .. Len(s) - n : b[k] = s[k + n]
<1> DEFINE a == SubSeq(s, 1, n)  b == SubSeq(s, n + 1, Len(s))
<1>1. Len(s) \in Nat /\ DOMAIN s = 1 .. Len(s) /\ \A k \in 1 .. Len(s) : s[k] \in T
  OBVIOUS
<1>2. n \in Nat /\ n <= Len(s)
  BY <1>1
<1>3. a \in Seq(T) /\ Len(a) = n /\ \A k \in 1 .. n : a[k] = s[k]
  <2>1. \A k \in 1 .. n : s[k] \in T
    BY <1>1, <1>2
  <2> QED
    BY <1>2, <2>1, SubSeqProperties
<1>4. b \in Seq(T) /\ Len(b) = Len(s) - n /\ \A k \in 1 .. Len(s) - n : b[k] = s[k + n]
  <2>1. \A k \in n + 1 .. Len(s) : s[k] \in T
    BY <1>1, <1>2
  <2>2. /\ b \in Seq(T)
        /\ Len(b) = IF n + 1 <= Len(s) THEN Len(s) - (n + 1) + 1 ELSE 0
        /\ \A k \in 1 .. Len(s) - (n + 1) + 1 : b[k] = s[n + 1 + k - 1]
    BY <1>1, <1>2, <2>1, SubSeqProperties
  <2> HIDE DEF b
  <2>3. Len(b) = Len(s) - n
    <3> DEFINE l == Len(s)
    <3>1. l \in Nat /\ Len(b) = IF n + 1 <= l THEN l - (n + 1) + 1 ELSE 0
      BY <1>1, <2>2
    <3> HIDE DEF l
    <3>2. n <= l
      BY <1>2 DEF l
    <3>3. (IF n + 1 <= l THEN l - (n + 1) + 1 ELSE 0) = l - n
      BY <1>2, <3>1, <3>2
    <3> QED
      BY <3>1, <3>3 DEF l
  <2>4. ASSUME NEW k \in 1 .. Len(s) - n PROVE b[k] = s[k + n]
    <3>1. k \in 1 .. Len(s) - (n + 1) + 1 /\ n + 1 + k - 1 = k + n
      BY <1>1, <1>2
    <3> QED
      BY <2>2, <3>1
  <2> QED
    BY <2>2, <2>3, <2>4
<1>5. DOMAIN a = 1 .. n /\ DOMAIN b = 1 .. Len(s) - n
  BY <1>3, <1>4
<1> HIDE DEF a, b
<1>6. ToSet(s) = ToSet(a) \cup ToSet(b)
  <2>1. \A x \in ToSet(s) : x \in ToSet(a) \cup ToSet(b)
    <3> SUFFICES ASSUME NEW k \in 1 .. Len(s) PROVE s[k] \in ToSet(a) \cup ToSet(b)
      BY <1>1 DEF ToSet
    <3>1. CASE k <= n
      BY <1>1, <1>2, <1>3, <1>5, <3>1 DEF ToSet
    <3>2. CASE k > n
      <4>1. k - n \in 1 .. Len(s) - n /\ (k - n) + n = k
        BY <1>1, <1>2, <3>2
      <4> QED
        BY <1>4, <1>5, <4>1 DEF ToSet
    <3> QED
      BY <1>1, <1>2, <3>1, <3>2
  <2>2. \A k \in 1 .. Len(s) - n : k + n \in 1 .. Len(s)
    BY <1>1, <1>2
  <2>3. \A k \in 1 .. n : k \in 1 .. Len(s)
    BY <1>1, <1>2
  <2>4. ToSet(a) \subseteq ToSet(s)
    BY <1>1, <1>3, <1>5, <2>3 DEF ToSet
  <2>5. ToSet(b) \subseteq ToSet(s)
    BY <1>1, <1>4, <1>5, <2>2 DEF ToSet
  <2> QED
    BY <2>1, <2>4, <2>5
<1>7. ASSUME IsInjective(s)
      PROVE  IsInjective(a) /\ IsInjective(b) /\ ToSet(a) \cap ToSet(b) = {}
  <2>1. \A j, k \in 1 .. Len(s) : s[j] = s[k] => j = k
    BY <1>1, <1>7 DEF IsInjective
  <2>2. IsInjective(a)
    BY <1>1, <1>2, <1>3, <1>5, <2>1 DEF IsInjective
  <2>3. IsInjective(b)
    <3> SUFFICES ASSUME NEW j \in 1 .. Len(s) - n, NEW k \in 1 .. Len(s) - n, b[j] = b[k]
                 PROVE  j = k
      BY <1>5 DEF IsInjective
    <3>1. j + n \in 1 .. Len(s) /\ k + n \in 1 .. Len(s) /\ s[j + n] = s[k + n]
      BY <1>1, <1>2, <1>4
    <3>2. j + n = k + n
      BY <2>1, <3>1
    <3> QED
      BY <1>2, <3>2
  <2>4. ASSUME NEW j \in 1 .. n, NEW k \in 1 .. Len(s) - n PROVE a[j] # b[k]
    <3>1. j \in 1 .. Len(s) /\ k + n \in 1 .. Len(s) /\ j # k + n
      BY <1>1, <1>2
    <3> QED
      BY <1>3, <1>4, <2>1, <3>1
  <2>5. ToSet(a) \cap ToSet(b) = {}
    BY <1>5, <2>4 DEF ToSet
  <2> QED
    BY <2>2, <2>3, <2>5
<1> QED
  BY <1>3, <1>4, <1>6, <1>7 DEF a, b

LEMMA RemHead ==
    ASSUME NEW T, NEW s \in Seq(T), s # <<>>, IsInjective(s)
    PROVE  /\ Tail(s) \in Seq(T) /\ Len(Tail(s)) = Len(s) - 1
           /\ Head(s) \in ToSet(s) /\ Head(s) \in T
           /\ ToSet(Tail(s)) = ToSet(s) \ {Head(s)}
           /\ IsInjective(Tail(s))
<1> DEFINE b == Tail(s)  h == Head(s)
<1>1. /\ b \in Seq(T) /\ Len(b) = Len(s) - 1 /\ h = s[1] /\ h \in T
      /\ Len(s) \in Nat /\ Len(s) > 0
  OBVIOUS
<1>2. \A k \in 1 .. Len(s) - 1 : b[k] = s[k + 1]
  OBVIOUS
<1>3. DOMAIN s = 1 .. Len(s) /\ DOMAIN b = 1 .. Len(s) - 1
  BY <1>1
<1> HIDE DEF b, h
<1>4. \A j, k \in 1 .. Len(s) : s[j] = s[k] => j = k
  BY <1>3 DEF IsInjective
<1>5. \A k \in 1 .. Len(s) - 1 : k + 1 \in 1 .. Len(s) /\ k + 1 # 1
  BY <1>1
<1>6. h \in ToSet(s)
  BY <1>1, <1>3 DEF ToSet
<1>7. ASSUME NEW x \in ToSet(s), x # h PROVE x \in ToSet(b)
  <2>1. PICK k \in 1 .. Len(s) : s[k] = x
    BY <1>3 DEF ToSet
  <2>2. k - 1 \in 1 .. Len(s) - 1 /\ (k - 1) + 1 = k
    BY <1>1, <1>7, <2>1
  <2> QED
    BY <1>2, <1>3, <2>1, <2>2 DEF ToSet
<1>8. ASSUME NEW k \in 1 .. Len(s) - 1 PROVE b[k] \in ToSet(s) /\ b[k] # h
  BY <1>1, <1>2, <1>3, <1>4, <1>5 DEF ToSet
<1>9. ToSet(b) = ToSet(s) \ {h}
  BY <1>3, <1>7, <1>8 DEF ToSet
<1>10. ASSUME NEW j \in 1 .. Len(s) - 1, NEW k \in 1 .. Len(s) - 1, b[j] = b[k]
       PROVE  j = k
  <2>1. j + 1 = k + 1
    BY <1>2, <1>4, <1>5, <1>10
  <2> QED
    BY <2>1
<1>11. IsInjective(b)
  BY <1>3, <1>10 DEF IsInjective
<1> QED
  BY <1>1, <1>6, <1>9, <1>11 DEF b, h

LEMMA Joined ==
    ASSUME NEW T, NEW a \in Seq(T), NEW b \in Seq(T)
    PROVE  /\ a \o b \in Seq(T)
           /\ Len(a \o b) = Len(a) + Len(b)
           /\ ToSet(a \o b) = ToSet(a) \cup ToSet(b)
           /\ IsInjective(a) /\ IsInjective(b) /\ ToSet(a) \cap ToSet(b) = {} =>
                  IsInjective(a \o b)
<1> DEFINE s == a \o b  n == Len(a)  m == Len(b)
<1>1. /\ s \in Seq(T) /\ Len(s) = n + m
      /\ \A k \in 1 .. n + m : s[k] = IF k <= n THEN a[k] ELSE b[k - n]
  BY ConcatProperties
<1>2. /\ n \in Nat /\ m \in Nat /\ DOMAIN a = 1 .. n /\ DOMAIN b = 1 .. m
      /\ DOMAIN s = 1 .. n + m
  BY <1>1
<1> HIDE DEF s, n, m
<1>3. \A k \in 1 .. n : k \in 1 .. n + m /\ s[k] = a[k]
  BY <1>1, <1>2
<1>4. \A k \in 1 .. m : k + n \in 1 .. n + m /\ s[k + n] = b[k]
  <2> TAKE k \in 1 .. m
  <2>1. k + n \in 1 .. n + m /\ ~(k + n <= n) /\ (k + n) - n = k
    BY <1>2
  <2> QED
    BY <1>1, <2>1
<1>5. \A k \in 1 .. n + m : k \in 1 .. n \/ (k - n \in 1 .. m /\ (k - n) + n = k)
  BY <1>2
<1>6. ToSet(s) = ToSet(a) \cup ToSet(b)
  <2>1. ASSUME NEW k \in 1 .. n + m PROVE s[k] \in ToSet(a) \cup ToSet(b)
    <3>1. CASE k \in 1 .. n
      BY <1>2, <1>3, <3>1 DEF ToSet
    <3>2. CASE k - n \in 1 .. m /\ (k - n) + n = k
      <4>1. s[k] = b[k - n]
        BY <1>4, <3>2
      <4> QED
        BY <1>2, <3>2, <4>1 DEF ToSet
    <3> QED
      BY <1>5, <3>1, <3>2
  <2>2. ToSet(s) \subseteq ToSet(a) \cup ToSet(b)
    BY <1>2, <2>1 DEF ToSet
  <2>3. ToSet(a) \subseteq ToSet(s)
    BY <1>2, <1>3 DEF ToSet
  <2>4. ToSet(b) \subseteq ToSet(s)
    BY <1>2, <1>4 DEF ToSet
  <2> QED
    BY <2>2, <2>3, <2>4
<1>7. ASSUME IsInjective(a), IsInjective(b), ToSet(a) \cap ToSet(b) = {}
      PROVE  IsInjective(s)
  <2>0. \A j \in 1 .. n, k \in 1 .. m : a[j] # b[k]
    BY <1>2, <1>7 DEF ToSet
  <2> SUFFICES ASSUME NEW j \in 1 .. n + m, NEW k \in 1 .. n + m, s[j] = s[k]
               PROVE  j = k
    BY <1>2 DEF IsInjective
  <2>1. CASE j \in 1 .. n /\ k \in 1 .. n
    BY <1>2, <1>3, <1>7, <2>1 DEF IsInjective
  <2>2. CASE j \in 1 .. n /\ k - n \in 1 .. m /\ (k - n) + n = k
    <3>1. s[j] = a[j] /\ s[k] = b[k - n]
      BY <1>3, <1>4, <2>2
    <3> QED
      BY <2>0, <2>2, <3>1
  <2>3. CASE k \in 1 .. n /\ j - n \in 1 .. m /\ (j - n) + n = j
    <3>1. s[k] = a[k] /\ s[j] = b[j - n]
      BY <1>3, <1>4, <2>3
    <3> QED
      BY <2>0, <2>3, <3>1
  <2>4. CASE j - n \in 1 .. m /\ (j - n) + n = j /\ k - n \in 1 .. m /\ (k - n) + n = k
    <3>1. s[j] = b[j - n] /\ s[k] = b[k - n]
      BY <1>4, <2>4
    <3>2. j - n = k - n
      BY <1>2, <1>7, <2>4, <3>1 DEF IsInjective
    <3> QED
      BY <1>2, <3>2, <2>4
  <2> QED
    BY <1>5, <2>1, <2>2, <2>3, <2>4
<1> QED
  BY <1>1, <1>6, <1>7 DEF s, n, m

(* The only place of the current thread in a list of distinct threads is   *)
(* Fixed; Movable is the list without it.                                  *)
LEMMA WithoutCurrent ==
    ASSUME NEW c, NEW s \in Seq(Thread), IsInjective(s)
    PROVE  /\ Fixed(c, s) = {} <=> Cur(c) \notin ToSet(s)
           /\ Movable(c, s) \in Seq(Thread)
           /\ IsInjective(Movable(c, s))
           /\ ToSet(Movable(c, s)) = ToSet(s) \ {Cur(c)}
<1>1. /\ Len(s) \in Nat /\ DOMAIN s = 1 .. Len(s)
      /\ \A x : x \in ToSet(s) <=> \E k \in 1 .. Len(s) : s[k] = x
      /\ Fixed(c, s) = {k \in 1 .. Len(s) : s[k] = Cur(c)}
  BY DEF ToSet, Fixed, MayMigrate
<1>2. CASE Cur(c) \notin ToSet(s)
  BY <1>1, <1>2 DEF Movable
<1>3. CASE Cur(c) \in ToSet(s)
  <2>1. PICK k \in 1 .. Len(s) : s[k] = Cur(c)
    BY <1>1, <1>3
  <2>2. Fixed(c, s) = {k}
    BY <1>1, <2>1 DEF IsInjective
  <2>3. Min(Fixed(c, s)) = k
    BY <1>1, <2>2 DEF Min
  <2> DEFINE a == SubSeq(s, 1, k - 1)
             aa == SubSeq(s, 1, k)
             b == SubSeq(s, k + 1, Len(s))
  <2>4. Movable(c, s) = a \o b
    BY <2>2, <2>3 DEF Movable, RemoveAt
  <2>5. k - 1 \in 0 .. Len(s) /\ k \in 0 .. Len(s)
    BY <1>1
  <2>6. /\ a \in Seq(Thread) /\ Len(a) = k - 1 /\ IsInjective(a)
        /\ \A j \in 1 .. k - 1 : a[j] = s[j]
    BY <2>5, Split
  <2>7. /\ aa \in Seq(Thread) /\ Len(aa) = k /\ \A j \in 1 .. k : aa[j] = s[j]
        /\ b \in Seq(Thread) /\ IsInjective(b)
        /\ ToSet(s) = ToSet(aa) \cup ToSet(b) /\ ToSet(aa) \cap ToSet(b) = {}
    BY <2>5, Split
  <2> HIDE DEF a, aa, b
  <2>8. DOMAIN a = 1 .. k - 1 /\ DOMAIN aa = 1 .. k
    BY <2>6, <2>7
  <2>9. 1 .. k = (1 .. k - 1) \cup {k} /\ k \notin 1 .. k - 1 /\ 1 .. k \subseteq 1 .. Len(s)
    BY <1>1
  <2>10. ToSet(aa) = ToSet(a) \cup {Cur(c)}
    <3>1. /\ \A x : x \in ToSet(aa) <=> \E j \in 1 .. k : aa[j] = x
          /\ \A x : x \in ToSet(a) <=> \E j \in 1 .. k - 1 : a[j] = x
      BY <2>8 DEF ToSet
    <3>2. \A j \in 1 .. k - 1 : j \in 1 .. k /\ aa[j] = a[j]
      BY <2>6, <2>7, <2>9
    <3>3. k \in 1 .. k /\ aa[k] = Cur(c)
      BY <2>1, <2>7, <2>9
    <3>4. \A j \in 1 .. k : j \in 1 .. k - 1 \/ j = k
      BY <2>9
    <3> QED
      BY <3>1, <3>2, <3>3, <3>4
  <2>11. Cur(c) \notin ToSet(a)
    BY <1>1, <2>1, <2>6, <2>8, <2>9 DEF ToSet, IsInjective
  <2> QED
    BY <1>3, <2>2, <2>4, <2>6, <2>7, <2>10, <2>11, Joined
<1> QED
  BY <1>2, <1>3

LEMMA MinMax ==
    ASSUME NEW a \in Int, NEW b \in Int
    PROVE  /\ Min({a, b}) \in {a, b} /\ Min({a, b}) <= a /\ Min({a, b}) <= b
           /\ Max({a, b}) \in {a, b} /\ a <= Max({a, b}) /\ b <= Max({a, b})
<1>1. \E x \in {a, b} : \A y \in {a, b} : x =< y
  BY a <= b \/ b <= a
<1>2. \E x \in {a, b} : \A y \in {a, b} : x >= y
  BY a <= b \/ b <= a
<1> QED
  BY <1>1, <1>2 DEF Min, Max

LEMMA NotNegative == ASSUME NEW n \in Int PROVE Max({0, n}) \in Nat
<1> DEFINE z == 0
<1>1. z \in Int /\ z = 0
  OBVIOUS
<1> HIDE DEF z
<1>2. Max({z, n}) \in {z, n} /\ z <= Max({z, n})
  BY <1>1, MinMax
<1>3. Max({z, n}) \in Nat
  BY <1>1, <1>2
<1> QED
  BY <1>1, <1>3

LEMMA TurnsFit ==
    ASSUME NEW c, NEW room \in Nat, job[c].send \in Nat
    PROVE  Turns(c, room) \in 0 .. job[c].send
<1> DEFINE send == job[c].send
<1>1. send \in Nat
  OBVIOUS
<1> HIDE DEF send
<1>2. ASSUME NEW n \in Nat PROVE Min({send, n}) \in 0 .. send
  <2>1. Min({send, n}) \in {send, n} /\ Min({send, n}) <= send
    BY <1>1, MinMax
  <2> QED
    BY <1>1, <2>1
<1>3. room + 1 \in Nat
  OBVIOUS
<1> QED
  BY <1>2, <1>3 DEF Turns, send

LEMMA ShareNat ==
    ASSUME NEW total \in Nat
    PROVE  OneShare(total) \in Nat
<1>1. NumCpus \in Nat \ {0}
  BY ConstantsAssumption
<1>2. \A n \in Nat, d \in Nat \ {0} : n \div d \in Nat
  OBVIOUS
<1>3. total + NumCpus - 1 \in Nat
  BY <1>1
<1> QED
  BY <1>1, <1>2, <1>3 DEF OneShare

-----------------------------------------------------------------------------
LEMMA Lists ==
    ASSUME SchedulerInv
    PROVE  /\ wc_threads \in Seq(Thread) /\ IsInjective(wc_threads)
           /\ \A c \in Cpu : /\ Queue(c) \in Seq(Thread)
                             /\ job[c].targets \in Seq(Thread)
                             /\ IsInjective(Queue(c))
                             /\ IsInjective(job[c].targets)
BY DEF SchedulerInv, TypeOK, NoneTwice, Queue, Job

LEMMA InitInv == Init => SchedulerInv
<1> SUFFICES ASSUME Init PROVE SchedulerInv
  OBVIOUS
<1>1. \A c \in Cpu : c \in 0 .. NumCpus - 1 /\ c # Unlocked
  BY ConstantsAssumption DEF Cpu, Unlocked
<1>2. 0 \in Cpu /\ NumCpus \in Nat /\ NumCpus > 0
  BY ConstantsAssumption DEF Cpu
<1>3. \A c \in Cpu : t_cpu[BootThread[c]] = c
  BY ConstantsAssumption DEF Init
<1>4. t_cpu \in [Thread -> Cpu]
  BY <1>2 DEF Init
<1>5. TypeOK
  <2>1. /\ t_state \in [Thread -> {"none", "S_RUN", "S_READY", "S_SLEEP", "S_ZOMBIE"}]
        /\ saved \in [Thread -> BOOLEAN]
        /\ c_curthread \in [Cpu -> Thread]
    BY ConstantsAssumption DEF Init
  <2>4. /\ c_zombies \in [Cpu -> SUBSET Thread]
        /\ c_isidle \in [Cpu -> BOOLEAN] /\ c_ipi_pending \in [Cpu -> BOOLEAN]
        /\ rqlock \in [Cpu -> Cpu \cup {Unlocked}]
        /\ wclock \in Cpu \cup {Unlocked}
        /\ pc \in [Cpu -> Point] /\ panicked \in BOOLEAN
    BY DEF Init, Point
  <2>5. <<>> \in Seq(Thread)
    OBVIOUS
  <2>6. c_runqueue \in [Cpu -> Seq(Thread)] /\ wc_threads \in Seq(Thread)
    BY <2>5 DEF Init
  <2>2. NoJob \in Job
    BY <1>2 DEF NoJob, Job
  <2>3. job \in [Cpu -> Job]
    BY <2>2 DEF Init
  <2> QED
    BY <1>4, <2>1, <2>3, <2>4, <2>6 DEF TypeOK
<1>6. ToSet(<<>>) = {} /\ IsInjective(<<>>) /\ Len(<<>>) = 0
  BY DEF ToSet, IsInjective
<1>7. NoPanic /\ LocksHeld /\ IdleFlag /\ NoLostUnidle
  BY <1>1 DEF Init, NoPanic, LocksHeld, IdleFlag, NoLostUnidle
<1>8. JobFits /\ NoneTwice /\ ListsSorted
  BY <1>6 DEF Init, JobFits, NoneTwice, ListsSorted, ListsOf, NoJob, Queue
<1>9. CurrentSane
  BY <1>3, <1>6, ConstantsAssumption DEF Init, CurrentSane, CurrentOf, Cur
<1>10. Placed
  BY <1>3, <1>4, <1>6 DEF Init, Placed, InPlace, Cur
<1> QED
  BY <1>5, <1>7, <1>8, <1>9, <1>10 DEF SchedulerInv

LEMMA CpuFacts ==
    /\ NumCpus \in Nat /\ NumCpus > 0
    /\ \A c \in Cpu : c \in Nat /\ c < NumCpus /\ c # Unlocked
    /\ \A c \in Nat : c < NumCpus => c \in Cpu
    /\ 0 \in Cpu
BY ConstantsAssumption DEF Cpu, Unlocked

(* A step that moves no thread from list to list.                          *)
LEMMA NothingMoves ==
    ASSUME SchedulerInv,
           UNCHANGED <<t_state, t_cpu, saved, c_curthread, c_runqueue, c_zombies,
                       c_isidle, wc_threads>>,
           \A d \in Cpu : /\ job'[d].targets = job[d].targets
                          /\ job[d].targets # <<>> => (pc'[d] = "wake" <=> pc[d] = "wake")
                          /\ pc'[d] = "finish" <=> pc[d] = "finish"
    PROVE  NoneTwice' /\ ListsSorted' /\ CurrentSane' /\ Placed'
<1>1. TypeOK /\ ListsSorted /\ NoneTwice /\ CurrentSane /\ Placed
  BY DEF SchedulerInv
<1>2. NoneTwice'
  BY <1>1 DEF NoneTwice, Queue
<1>3. \A d \in Cpu : \A t \in ToSet(job[d].targets) : pc'[d] = "wake" <=> pc[d] = "wake"
  BY Lists, InList
<1>4. ListsSorted'
  BY <1>1, <1>3 DEF ListsSorted, ListsOf, Queue
<1>5. CurrentSane'
  BY <1>1 DEF CurrentSane, CurrentOf, Cur, Queue
<1>6. Placed'
  <2>1. \A t \in Thread : t_cpu[t] \in Cpu
    BY <1>1 DEF TypeOK
  <2> QED
    BY <1>1, <2>1 DEF Placed, InPlace, Cur, Queue
<1> QED
  BY <1>2, <1>4, <1>5, <1>6


(* What each processor's lists and flags say, for one processor.           *)
LEMMA AtCpu ==
    ASSUME SchedulerInv, NEW d \in Cpu
    PROVE  /\ Cur(d) \in Thread /\ t_cpu[Cur(d)] = d /\ t_state[Cur(d)] # "none"
           /\ Queue(d) \in Seq(Thread) /\ Len(Queue(d)) \in Nat
           /\ ToSet(Queue(d)) \subseteq Thread /\ ToSet(job[d].targets) \subseteq Thread
           /\ IsInjective(Queue(d)) /\ IsInjective(job[d].targets)
           /\ job[d] \in Job /\ job[d].targets \in Seq(Thread)
           /\ pc[d] \in Point /\ c_isidle[d] \in BOOLEAN
<1>1. /\ Cur(d) \in Thread /\ t_cpu[Cur(d)] = d /\ t_state[Cur(d)] # "none"
  BY DEF SchedulerInv, TypeOK, CurrentSane, CurrentOf, Cur
<1>2. /\ Queue(d) \in Seq(Thread) /\ job[d] \in Job /\ job[d].targets \in Seq(Thread)
      /\ pc[d] \in Point /\ c_isidle[d] \in BOOLEAN
  BY Lists DEF SchedulerInv, TypeOK, Job
<1>3. IsInjective(Queue(d)) /\ IsInjective(job[d].targets)
  BY Lists
<1>4. Len(Queue(d)) \in Nat
  BY <1>2
<1>5. ToSet(Queue(d)) \subseteq Thread /\ ToSet(job[d].targets) \subseteq Thread
  BY <1>2, InList
<1> QED
  BY <1>1, <1>2, <1>3, <1>4, <1>5

LEMMA ForkInv ==
    ASSUME SchedulerInv, NEW c \in Cpu, Fork(c)
    PROVE  SchedulerInv'
<1>1. pc[c] = "run" /\ t_cpu[Cur(c)] = c
  BY AtCpu DEF Fork, At
<1>2. PICK t \in Thread :
        /\ t_state[t] = "none"
        /\ t_state' = [t_state EXCEPT ![t] = "S_READY"]
        /\ t_cpu' = [t_cpu EXCEPT ![t] = c]
        /\ saved' = [saved EXCEPT ![t] = TRUE]
        /\ c_runqueue' = [c_runqueue EXCEPT ![c] = Append(@, t)]
  BY <1>1 DEF Fork
<1>3. UNCHANGED <<c_curthread, c_zombies, c_isidle, c_ipi_pending, rqlock,
                  wc_threads, wclock, pc, job, panicked>>
  BY DEF Fork
<1>4. /\ t_state'[t] = "S_READY" /\ t_cpu'[t] = c /\ saved'[t] = TRUE
      /\ \A u \in Thread : u # t => /\ t_state'[u] = t_state[u]
                                    /\ t_cpu'[u] = t_cpu[u] /\ saved'[u] = saved[u]
  BY <1>2 DEF SchedulerInv, TypeOK
<1>5. /\ Queue(c)' = Append(Queue(c), t)
      /\ \A d \in Cpu : d # c => Queue(d)' = Queue(d)
  BY <1>2 DEF SchedulerInv, TypeOK, Queue
<1>6. /\ t \notin ToSet(wc_threads)
      /\ \A d \in Cpu : /\ t \notin ToSet(Queue(d)) /\ t \notin ToSet(job[d].targets)
                        /\ t \notin c_zombies[d] /\ t # Cur(d)
  <2>1. \A d \in Cpu : t \notin ToSet(job[d].targets)
    BY <1>2 DEF SchedulerInv, ListsSorted, ListsOf
  <2> QED
    BY <1>2, <2>1 DEF SchedulerInv, ListsSorted, ListsOf, CurrentSane, CurrentOf
<1>7. /\ Queue(c)' \in Seq(Thread) /\ IsInjective(Queue(c)')
      /\ ToSet(Queue(c)') = ToSet(Queue(c)) \cup {t}
      /\ Len(Queue(c)') = Len(Queue(c)) + 1
  BY <1>5, <1>6, Lists, AddTail
<1>8. TypeOK'
  <2>1. t_cpu' \in [Thread -> Cpu] /\ saved' \in [Thread -> BOOLEAN]
    BY <1>2 DEF SchedulerInv, TypeOK
  <2>2. c_runqueue' \in [Cpu -> Seq(Thread)]
    BY <1>2, <1>5, <1>7 DEF SchedulerInv, TypeOK, Queue
  <2> QED
    BY <1>2, <1>3, <2>1, <2>2 DEF SchedulerInv, TypeOK
<1>9. NoPanic' /\ LocksHeld' /\ IdleFlag'
  BY <1>3 DEF SchedulerInv, NoPanic, LocksHeld, IdleFlag
<1>10. JobFits'
  <2>1. Len(Queue(c)) \in Nat
    BY AtCpu
  <2> QED
    BY <1>1, <1>3, <1>5 DEF SchedulerInv, JobFits
<1>11. NoneTwice'
  BY <1>3, <1>5, <1>7 DEF SchedulerInv, NoneTwice
<1>12. ListsSorted'
  <2>1. ASSUME NEW d \in Cpu, NEW u \in ToSet(Queue(d)')
        PROVE  t_state'[u] = "S_READY" /\ t_cpu'[u] = d
    <3>1. CASE u = t
      BY <1>4, <1>5, <1>6, <2>1, <3>1
    <3>2. CASE u # t
      <4>1. u \in ToSet(Queue(d)) /\ u \in Thread
        BY <1>5, <1>7, <2>1, <3>2, AtCpu DEF Queue
      <4> QED
        BY <1>4, <3>2, <4>1 DEF SchedulerInv, ListsSorted, ListsOf
    <3> QED
      BY <3>1, <3>2
  <2>2. ASSUME NEW d \in Cpu, NEW u \in ToSet(job'[d].targets)
        PROVE  /\ pc'[d] = "wake" => t_state'[u] = "S_SLEEP"
               /\ pc'[d] # "wake" => /\ t_state'[u] = "S_READY" /\ t_cpu'[u] = d
                                     /\ u \notin ToSet(Queue(d)')
    <3>1. u \in ToSet(job[d].targets) /\ u \in Thread /\ u # t
      BY <1>3, <1>6, <2>2, AtCpu
    <3>2. u \in ToSet(Queue(d)') <=> u \in ToSet(Queue(d))
      BY <1>5, <1>7, <3>1
    <3> QED
      BY <1>3, <1>4, <3>1, <3>2 DEF SchedulerInv, ListsSorted, ListsOf
  <2>3. ASSUME NEW d \in Cpu, NEW u \in c_zombies'[d]
        PROVE  t_state'[u] = "S_ZOMBIE" /\ t_cpu'[u] = d
    BY <1>3, <1>4, <1>6, <2>3 DEF SchedulerInv, TypeOK, ListsSorted, ListsOf
  <2>4. ASSUME NEW u \in ToSet(wc_threads')
        PROVE  t_state'[u] = "S_SLEEP" /\ \A d \in Cpu : u \notin ToSet(job'[d].targets)
    BY <1>3, <1>4, <1>6, <2>4, Lists, InList DEF SchedulerInv, ListsSorted, ListsOf
  <2> QED
    BY <2>1, <2>2, <2>3, <2>4 DEF ListsSorted, ListsOf
<1>13. CurrentSane'
  BY <1>1, <1>3, <1>4, <1>5, <1>6, AtCpu DEF SchedulerInv, CurrentSane, CurrentOf, Cur
<1>14. Placed'
  <2> SUFFICES ASSUME NEW u \in Thread PROVE InPlace(u)'
    BY DEF Placed
  <2>1. CASE u = t
    BY <1>4, <1>7, <2>1 DEF InPlace
  <2>2. CASE u # t
    <3>1. t_cpu[u] \in Cpu /\ t_cpu'[u] = t_cpu[u]
      BY <1>4, <2>2 DEF SchedulerInv, TypeOK
    <3>2. u \in ToSet(Queue(t_cpu[u])) => u \in ToSet(c_runqueue'[t_cpu[u]])
      BY <1>5, <1>7, <3>1 DEF Queue
    <3>3. InPlace(u)
      BY DEF SchedulerInv, Placed
    <3> QED
      BY <1>3, <1>4, <2>2, <3>1, <3>2, <3>3 DEF InPlace, Cur, Queue
  <2> QED
    BY <2>1, <2>2
<1>15. NoLostUnidle'
  BY <1>1, <1>3, <1>5 DEF SchedulerInv, NoLostUnidle
<1> QED
  BY <1>8, <1>9, <1>10, <1>11, <1>12, <1>13, <1>14, <1>15 DEF SchedulerInv

-----------------------------------------------------------------------------
(* The running thread is on no list, and its processor has none in hand.   *)
LEMMA RunningNowhere ==
    ASSUME SchedulerInv, NEW c \in Cpu, pc[c] \in {"run", "yield", "sleep"}
    PROVE  /\ t_state[Cur(c)] = "S_RUN" /\ ~c_isidle[c] /\ job[c].targets = <<>>
           /\ Cur(c) \notin ToSet(wc_threads)
           /\ \A d \in Cpu : /\ Cur(c) \notin ToSet(Queue(d))
                             /\ Cur(c) \notin ToSet(job[d].targets)
                             /\ Cur(c) \notin c_zombies[d]
                             /\ d # c => Cur(d) # Cur(c)
<1>1. /\ t_state[Cur(c)] = "S_RUN" /\ ~c_isidle[c] /\ job[c].targets = <<>>
      /\ \A d \in Cpu : t_cpu[Cur(d)] = d
  BY DEF SchedulerInv, IdleFlag, JobFits, CurrentSane, CurrentOf
<1>2. ASSUME NEW d \in Cpu
      PROVE  /\ Cur(c) \notin ToSet(Queue(d)) /\ Cur(c) \notin ToSet(job[d].targets)
             /\ Cur(c) \notin c_zombies[d]
  BY <1>1 DEF SchedulerInv, ListsSorted, ListsOf
<1>3. Cur(c) \notin ToSet(wc_threads)
  BY <1>1 DEF SchedulerInv, ListsSorted
<1> QED
  BY <1>1, <1>2, <1>3

(* EnterChoice: a processor leaves its thread, which becomes anything but  *)
(* free and joins no queue but its own processor's.                        *)
LEMMA SwitchOut ==
    ASSUME SchedulerInv, NEW c \in Cpu, pc[c] \in {"run", "yield", "sleep"},
           EnterChoice(c),
           UNCHANGED <<t_cpu, saved, c_curthread, c_ipi_pending, job, panicked>>,
           t_state'[Cur(c)] # "none",
           \A u \in Thread : u # Cur(c) => t_state'[u] = t_state[u],
           c_runqueue'[c] = Queue(c) \/ c_runqueue'[c] = Append(Queue(c), Cur(c)),
           \A d \in Cpu : d # c => c_runqueue'[d] = Queue(d)
    PROVE  /\ pc' \in [Cpu -> Point] /\ c_isidle' \in [Cpu -> BOOLEAN]
           /\ rqlock' \in [Cpu -> Cpu \cup {Unlocked}]
           /\ pc'[c] = "next" /\ c_isidle'[c] /\ rqlock'[c] = c
           /\ \A d \in Cpu : d # c => /\ pc'[d] = pc[d] /\ c_isidle'[d] = c_isidle[d]
                                     /\ rqlock'[d] = rqlock[d]
           /\ NoPanic' /\ IdleFlag' /\ JobFits' /\ CurrentSane' /\ NoLostUnidle'
<1>1. /\ pc' \in [Cpu -> Point] /\ c_isidle' \in [Cpu -> BOOLEAN]
      /\ rqlock' \in [Cpu -> Cpu \cup {Unlocked}]
      /\ pc'[c] = "next" /\ c_isidle'[c] /\ rqlock'[c] = c
      /\ \A d \in Cpu : d # c => /\ pc'[d] = pc[d] /\ c_isidle'[d] = c_isidle[d]
                                /\ rqlock'[d] = rqlock[d]
  BY DEF EnterChoice, Goto, SchedulerInv, TypeOK, Point
<1>2. NoPanic' /\ IdleFlag'
  BY <1>1 DEF SchedulerInv, NoPanic, IdleFlag
<1>3. JobFits'
  <2>1. job[c].i = 0 /\ job[c].my = 0 /\ job[c].targets = <<>>
    BY DEF SchedulerInv, JobFits
  <2> QED
    BY <1>1, <2>1 DEF SchedulerInv, JobFits, Queue
<1>4. CurrentSane'
  <2> SUFFICES ASSUME NEW d \in Cpu PROVE CurrentOf(d)'
    BY DEF CurrentSane
  <2>1. CASE d = c
    BY <1>1, <2>1, AtCpu DEF CurrentOf, Cur
  <2>2. CASE d # c
    <3>1. Cur(d) \in Thread /\ Cur(d) # Cur(c)
      BY <2>2, AtCpu
    <3>2. t_state'[Cur(d)] = t_state[Cur(d)] /\ c_runqueue'[d] = Queue(d)
      BY <2>2, <3>1
    <3>3. CurrentOf(d)
      BY DEF SchedulerInv, CurrentSane
    <3> QED
      BY <1>1, <2>2, <3>2, <3>3 DEF CurrentOf, Cur, Queue
  <2> QED
    BY <2>1, <2>2
<1>5. NoLostUnidle'
  BY <1>1 DEF SchedulerInv, NoLostUnidle, Queue
<1> QED
  BY <1>1, <1>2, <1>3, <1>4, <1>5

LEMMA SwitchSleepInv ==
    ASSUME SchedulerInv, NEW c \in Cpu, SwitchSleep(c)
    PROVE  SchedulerInv'
<1> DEFINE t == Cur(c)
<1>1. /\ pc[c] = "sleep" /\ t \in Thread /\ t_cpu[t] = c
      /\ wc_threads' = Append(wc_threads, t) /\ wclock' = Unlocked
      /\ t_state' = [t_state EXCEPT ![t] = "S_SLEEP"]
      /\ EnterChoice(c)
      /\ UNCHANGED <<t_cpu, saved, c_curthread, c_runqueue, c_zombies,
                     c_ipi_pending, job, panicked>>
  BY AtCpu DEF SwitchSleep, At
<1>2. /\ t_state[t] = "S_RUN" /\ ~c_isidle[c] /\ job[c].targets = <<>>
      /\ t \notin ToSet(wc_threads)
      /\ \A d \in Cpu : /\ t \notin ToSet(Queue(d)) /\ t \notin ToSet(job[d].targets)
                        /\ t \notin c_zombies[d] /\ (d # c => Cur(d) # t)
  BY <1>1, RunningNowhere
<1>3. /\ t_state'[t] = "S_SLEEP"
      /\ \A u \in Thread : u # t => t_state'[u] = t_state[u]
  BY <1>1 DEF SchedulerInv, TypeOK
<1> HIDE DEF t
<1>4. /\ wc_threads' \in Seq(Thread) /\ IsInjective(wc_threads')
      /\ ToSet(wc_threads') = ToSet(wc_threads) \cup {t}
  BY <1>1, <1>2, Lists, AddTail
<1>5. /\ pc' \in [Cpu -> Point] /\ c_isidle' \in [Cpu -> BOOLEAN]
      /\ rqlock' \in [Cpu -> Cpu \cup {Unlocked}]
      /\ pc'[c] = "next" /\ c_isidle'[c] /\ rqlock'[c] = c
      /\ \A d \in Cpu : d # c => /\ pc'[d] = pc[d] /\ c_isidle'[d] = c_isidle[d]
                                /\ rqlock'[d] = rqlock[d]
      /\ NoPanic' /\ IdleFlag' /\ JobFits' /\ CurrentSane' /\ NoLostUnidle'
  <2>1. c_runqueue'[c] = Queue(c) /\ \A d \in Cpu : d # c => c_runqueue'[d] = Queue(d)
    BY <1>1 DEF Queue
  <2> QED
    BY <1>1, <1>3, <2>1, SwitchOut DEF t
<1>6. TypeOK'
  BY <1>1, <1>4, <1>5 DEF SchedulerInv, TypeOK
<1>7. LocksHeld'
  <2>1. wclock = c
    BY <1>1 DEF SchedulerInv, LocksHeld
  <2> QED
    BY <1>1, <1>5, <2>1, CpuFacts DEF SchedulerInv, LocksHeld
<1>8. NoneTwice'
  BY <1>1, <1>4 DEF SchedulerInv, NoneTwice, Queue
<1>9. ListsSorted'
  <2>1. ASSUME NEW d \in Cpu PROVE ListsOf(d)'
    <3>1. ListsOf(d) /\ ToSet(Queue(d)) \subseteq Thread
          /\ ToSet(job[d].targets) \subseteq Thread /\ c_zombies[d] \subseteq Thread
      BY AtCpu DEF SchedulerInv, ListsSorted, TypeOK
    <3>2. CASE d = c
      BY <1>1, <1>2, <1>3, <1>5, <3>1, <3>2 DEF ListsOf, Queue, ToSet
    <3>3. CASE d # c
      BY <1>1, <1>2, <1>3, <1>5, <3>1, <3>3 DEF ListsOf, Queue
    <3> QED
      BY <3>2, <3>3
  <2>2. ASSUME NEW u \in ToSet(wc_threads')
        PROVE  t_state'[u] = "S_SLEEP" /\ \A d \in Cpu : u \notin ToSet(job'[d].targets)
    BY <1>1, <1>2, <1>3, <1>4, Lists, InList DEF SchedulerInv, ListsSorted
  <2> QED
    BY <2>1, <2>2 DEF ListsSorted
<1>10. Placed'
  <2> SUFFICES ASSUME NEW u \in Thread PROVE InPlace(u)'
    BY DEF Placed
  <2>1. CASE u = t
    BY <1>1, <1>3, <1>4, <2>1 DEF InPlace, Cur, t
  <2>2. CASE u # t
    <3>1. t_cpu[u] \in Cpu /\ InPlace(u)
      BY DEF SchedulerInv, TypeOK, Placed
    <3>2. t_cpu[u] = c => Cur(c) # u
      BY <2>2 DEF t
    <3> QED
      BY <1>1, <1>3, <1>4, <1>5, <2>2, <3>1, <3>2 DEF InPlace, Cur, Queue
  <2> QED
    BY <2>1, <2>2
<1> QED
  BY <1>5, <1>6, <1>7, <1>8, <1>9, <1>10 DEF SchedulerInv

LEMMA ExitInv ==
    ASSUME SchedulerInv, NEW c \in Cpu, Exit(c)
    PROVE  SchedulerInv'
<1> DEFINE t == Cur(c)
<1>1. /\ pc[c] = "run" /\ t \in Thread /\ t_cpu[t] = c
      /\ c_zombies' = [c_zombies EXCEPT ![c] = @ \cup {t}]
      /\ t_state' = [t_state EXCEPT ![t] = "S_ZOMBIE"]
      /\ EnterChoice(c)
      /\ UNCHANGED <<t_cpu, saved, c_curthread, c_runqueue, c_ipi_pending,
                     wc_threads, wclock, job, panicked>>
  BY AtCpu DEF Exit, At
<1>2. /\ t_state[t] = "S_RUN" /\ ~c_isidle[c] /\ job[c].targets = <<>>
      /\ t \notin ToSet(wc_threads)
      /\ \A d \in Cpu : /\ t \notin ToSet(Queue(d)) /\ t \notin ToSet(job[d].targets)
                        /\ t \notin c_zombies[d] /\ (d # c => Cur(d) # t)
  BY <1>1, RunningNowhere
<1>3. /\ t_state'[t] = "S_ZOMBIE"
      /\ \A u \in Thread : u # t => t_state'[u] = t_state[u]
  BY <1>1 DEF SchedulerInv, TypeOK
<1> HIDE DEF t
<1>4. /\ c_zombies' \in [Cpu -> SUBSET Thread]
      /\ c_zombies'[c] = c_zombies[c] \cup {t}
      /\ \A d \in Cpu : d # c => c_zombies'[d] = c_zombies[d]
  BY <1>1 DEF SchedulerInv, TypeOK
<1>5. /\ pc' \in [Cpu -> Point] /\ c_isidle' \in [Cpu -> BOOLEAN]
      /\ rqlock' \in [Cpu -> Cpu \cup {Unlocked}]
      /\ pc'[c] = "next" /\ c_isidle'[c] /\ rqlock'[c] = c
      /\ \A d \in Cpu : d # c => /\ pc'[d] = pc[d] /\ c_isidle'[d] = c_isidle[d]
                                /\ rqlock'[d] = rqlock[d]
      /\ NoPanic' /\ IdleFlag' /\ JobFits' /\ CurrentSane' /\ NoLostUnidle'
  <2>1. c_runqueue'[c] = Queue(c) /\ \A d \in Cpu : d # c => c_runqueue'[d] = Queue(d)
    BY <1>1 DEF Queue
  <2> QED
    BY <1>1, <1>3, <2>1, SwitchOut DEF t
<1>6. TypeOK'
  BY <1>1, <1>4, <1>5 DEF SchedulerInv, TypeOK
<1>7. LocksHeld'
  BY <1>1, <1>5, CpuFacts DEF SchedulerInv, LocksHeld
<1>8. NoneTwice'
  BY <1>1, <1>4 DEF SchedulerInv, NoneTwice, Queue
<1>9. ListsSorted'
  <2>1. ASSUME NEW d \in Cpu PROVE ListsOf(d)'
    <3>1. ListsOf(d) /\ ToSet(Queue(d)) \subseteq Thread
          /\ ToSet(job[d].targets) \subseteq Thread /\ c_zombies[d] \subseteq Thread
      BY AtCpu DEF SchedulerInv, ListsSorted, TypeOK
    <3>2. CASE d = c
      BY <1>1, <1>2, <1>3, <1>4, <1>5, <3>1, <3>2 DEF ListsOf, Queue, ToSet
    <3>3. CASE d # c
      BY <1>1, <1>2, <1>3, <1>4, <1>5, <3>1, <3>3 DEF ListsOf, Queue
    <3> QED
      BY <3>2, <3>3
  <2>2. ASSUME NEW u \in ToSet(wc_threads')
        PROVE  t_state'[u] = "S_SLEEP" /\ \A d \in Cpu : u \notin ToSet(job'[d].targets)
    BY <1>1, <1>2, <1>3, <1>4, Lists, InList DEF SchedulerInv, ListsSorted
  <2> QED
    BY <2>1, <2>2 DEF ListsSorted
<1>10. Placed'
  <2> SUFFICES ASSUME NEW u \in Thread PROVE InPlace(u)'
    BY DEF Placed
  <2>1. CASE u = t
    BY <1>1, <1>3, <1>4, <2>1 DEF InPlace, Cur, t
  <2>2. CASE u # t
    <3>1. t_cpu[u] \in Cpu /\ InPlace(u)
      BY DEF SchedulerInv, TypeOK, Placed
    <3>2. t_cpu[u] = c => Cur(c) # u
      BY <2>2 DEF t
    <3> QED
      BY <1>1, <1>3, <1>4, <1>5, <2>2, <3>1, <3>2 DEF InPlace, Cur, Queue
  <2> QED
    BY <2>1, <2>2
<1> QED
  BY <1>5, <1>6, <1>7, <1>8, <1>9, <1>10 DEF SchedulerInv

LEMMA YieldInv ==
    ASSUME SchedulerInv, NEW c \in Cpu, Yield(c)
    PROVE  SchedulerInv'
<1> DEFINE t == Cur(c)
<1>1. pc[c] \in {"run", "yield"} /\ t \in Thread /\ t_cpu[t] = c
  BY AtCpu DEF Yield, At
<1>2. /\ t_state[t] = "S_RUN" /\ ~c_isidle[c] /\ job[c].targets = <<>>
      /\ t \notin ToSet(wc_threads)
      /\ \A d \in Cpu : /\ t \notin ToSet(Queue(d)) /\ t \notin ToSet(job[d].targets)
                        /\ t \notin c_zombies[d] /\ (d # c => Cur(d) # t)
  BY <1>1, RunningNowhere
<1>3. UNCHANGED <<t_cpu, saved, c_curthread, c_zombies, wc_threads, wclock,
                  job, panicked>>
  BY DEF Yield
<1>4. CASE Queue(c) = <<>>
  <2>1. /\ pc'[c] = "run" /\ \A d \in Cpu : d # c => pc'[d] = pc[d]
        /\ pc' \in [Cpu -> Point]
        /\ UNCHANGED <<t_state, c_runqueue, c_ipi_pending, rqlock, c_isidle>>
    BY <1>4 DEF Yield, Goto, SchedulerInv, TypeOK, Point
  <2>2. TypeOK' /\ NoPanic' /\ LocksHeld'
    BY <1>1, <1>3, <2>1 DEF SchedulerInv, TypeOK, NoPanic, LocksHeld
  <2>3. IdleFlag' /\ NoLostUnidle' /\ JobFits'
    BY <1>1, <1>2, <1>3, <2>1 DEF SchedulerInv, IdleFlag, NoLostUnidle, JobFits, Queue
  <2>4. NoneTwice' /\ ListsSorted' /\ CurrentSane' /\ Placed'
    BY <1>1, <1>2, <1>3, <2>1, NothingMoves
  <2> QED
    BY <2>2, <2>3, <2>4 DEF SchedulerInv
<1>5. CASE Queue(c) # <<>>
  <2>1. /\ t_state' = [t_state EXCEPT ![t] = "S_READY"]
        /\ c_runqueue' = [c_runqueue EXCEPT ![c] = Append(@, t)]
        /\ EnterChoice(c)
    BY <1>1, <1>5 DEF Yield, MakeRunnable
  <2>2. c_ipi_pending' = c_ipi_pending
    BY <1>1, <1>2, <1>5 DEF Yield, MakeRunnable, Unidles, SchedulerInv, TypeOK
  <2>3. /\ t_state'[t] = "S_READY"
        /\ \A u \in Thread : u # t => t_state'[u] = t_state[u]
    BY <1>1, <2>1 DEF SchedulerInv, TypeOK
  <2>4. /\ c_runqueue'[c] = Append(Queue(c), t)
        /\ \A d \in Cpu : d # c => c_runqueue'[d] = Queue(d)
    BY <2>1 DEF SchedulerInv, TypeOK, Queue
  <2> HIDE DEF t
  <2>5. /\ c_runqueue'[c] \in Seq(Thread) /\ IsInjective(c_runqueue'[c])
        /\ ToSet(c_runqueue'[c]) = ToSet(Queue(c)) \cup {t}
    BY <1>1, <1>2, <2>4, Lists, AddTail
  <2>6. /\ pc' \in [Cpu -> Point] /\ c_isidle' \in [Cpu -> BOOLEAN]
        /\ rqlock' \in [Cpu -> Cpu \cup {Unlocked}]
        /\ pc'[c] = "next" /\ c_isidle'[c] /\ rqlock'[c] = c
        /\ \A d \in Cpu : d # c => /\ pc'[d] = pc[d] /\ c_isidle'[d] = c_isidle[d]
                                  /\ rqlock'[d] = rqlock[d]
        /\ NoPanic' /\ IdleFlag' /\ JobFits' /\ CurrentSane' /\ NoLostUnidle'
    BY <1>1, <1>3, <2>1, <2>2, <2>3, <2>4, SwitchOut DEF t
  <2>7. TypeOK'
    <3>1. c_runqueue' \in [Cpu -> Seq(Thread)]
      BY <2>1, <2>5 DEF SchedulerInv, TypeOK
    <3> QED
      BY <1>3, <2>1, <2>2, <2>6, <3>1 DEF SchedulerInv, TypeOK
  <2>8. LocksHeld'
    BY <1>1, <1>3, <2>6, CpuFacts DEF SchedulerInv, LocksHeld
  <2>9. NoneTwice'
    BY <1>3, <2>4, <2>5 DEF SchedulerInv, NoneTwice, Queue
  <2>10. ListsSorted'
    <3>1. ASSUME NEW d \in Cpu PROVE ListsOf(d)'
      <4>1. /\ ListsOf(d) /\ ToSet(Queue(d)) \subseteq Thread
            /\ ToSet(job[d].targets) \subseteq Thread /\ c_zombies[d] \subseteq Thread
        BY AtCpu DEF SchedulerInv, ListsSorted, TypeOK
      <4>2. CASE d = c
        <5>1. ToSet(job'[c].targets) = {}
          BY <1>2, <1>3 DEF ToSet
        <5> QED
          BY <1>1, <1>2, <1>3, <2>3, <2>5, <4>1, <4>2, <5>1 DEF ListsOf, Queue
      <4>3. CASE d # c
        BY <1>2, <1>3, <2>3, <2>4, <2>6, <4>1, <4>3 DEF ListsOf, Queue
      <4> QED
        BY <4>2, <4>3
    <3>2. ASSUME NEW u \in ToSet(wc_threads')
          PROVE  t_state'[u] = "S_SLEEP" /\ \A d \in Cpu : u \notin ToSet(job'[d].targets)
      BY <1>2, <1>3, <2>3, Lists, InList DEF SchedulerInv, ListsSorted
    <3> QED
      BY <3>1, <3>2 DEF ListsSorted
  <2>11. Placed'
    <3> SUFFICES ASSUME NEW u \in Thread PROVE InPlace(u)'
      BY DEF Placed
    <3>1. CASE u = t
      BY <1>1, <1>3, <2>3, <2>5, <3>1 DEF InPlace, Cur, Queue, t
    <3>2. CASE u # t
      <4>1. t_cpu[u] \in Cpu /\ InPlace(u)
        BY DEF SchedulerInv, TypeOK, Placed
      <4>2. t_cpu[u] = c => Cur(c) # u
        BY <3>2 DEF t
      <4>3. u \in ToSet(Queue(t_cpu[u])) => u \in ToSet(c_runqueue'[t_cpu[u]])
        BY <2>4, <2>5, <4>1
      <4> QED
        BY <1>1, <1>3, <2>3, <2>6, <3>2, <4>1, <4>2, <4>3 DEF InPlace, Cur, Queue
    <3> QED
      BY <3>1, <3>2
  <2> QED
    BY <2>6, <2>7, <2>8, <2>9, <2>10, <2>11 DEF SchedulerInv
<1> QED
  BY <1>4, <1>5

LEMMA SwitchToInv ==
    ASSUME SchedulerInv, NEW c \in Cpu, SwitchTo(c)
    PROVE  SchedulerInv'
<1> DEFINE old == Cur(c)  next == Head(Queue(c))
<1>1. /\ pc[c] = "next" /\ Queue(c) # <<>>
      /\ c_runqueue' = [c_runqueue EXCEPT ![c] = Tail(@)]
      /\ c_isidle' = [c_isidle EXCEPT ![c] = FALSE]
      /\ c_curthread' = [c_curthread EXCEPT ![c] = next]
      /\ saved' = [saved EXCEPT ![old] = TRUE, ![next] = FALSE]
      /\ panicked' = (next # old /\ ~saved[next])
      /\ pc' = [pc EXCEPT ![c] = "finish"]
      /\ UNCHANGED <<t_state, t_cpu, c_zombies, c_ipi_pending, rqlock,
                     wc_threads, wclock, job>>
  BY DEF SwitchTo, At, Goto
<1>2. /\ c_isidle[c] /\ rqlock[c] = c /\ job[c].targets = <<>>
      /\ job[c].i = 0 /\ job[c].my = 0
      /\ old \in Thread /\ t_cpu[old] = c
  BY <1>1, AtCpu DEF SchedulerInv, IdleFlag, LocksHeld, JobFits
<1>3. /\ Tail(Queue(c)) \in Seq(Thread) /\ IsInjective(Tail(Queue(c)))
      /\ next \in ToSet(Queue(c)) /\ next \in Thread
      /\ ToSet(Tail(Queue(c))) = ToSet(Queue(c)) \ {next}
  BY <1>1, Lists, RemHead
<1> HIDE DEF old, next
<1>4. /\ c_runqueue'[c] = Tail(Queue(c)) /\ ~c_isidle'[c] /\ c_curthread'[c] = next
      /\ pc'[c] = "finish"
      /\ \A d \in Cpu : d # c => /\ c_runqueue'[d] = Queue(d) /\ pc'[d] = pc[d]
                                 /\ c_isidle'[d] = c_isidle[d]
                                 /\ c_curthread'[d] = Cur(d)
  BY <1>1 DEF SchedulerInv, TypeOK, Queue, Cur
<1>5. /\ ~saved'[next] /\ (old # next => saved'[old])
      /\ \A u \in Thread : u # old /\ u # next => saved'[u] = saved[u]
  BY <1>1, <1>2, <1>3 DEF SchedulerInv, TypeOK
<1>6. t_state[next] = "S_READY" /\ t_cpu[next] = c
  BY <1>3 DEF SchedulerInv, ListsSorted, ListsOf
<1>7. NoPanic'
  <2>1. ~saved[next] => next = old
    BY <1>3, <1>6 DEF SchedulerInv, Placed, InPlace, old
  <2> QED
    BY <1>1, <2>1 DEF NoPanic
<1>8. TypeOK'
  <2>1. c_runqueue' \in [Cpu -> Seq(Thread)]
    BY <1>1, <1>3, <1>4 DEF SchedulerInv, TypeOK
  <2>2. saved' \in [Thread -> BOOLEAN] /\ c_curthread' \in [Cpu -> Thread]
    BY <1>1, <1>3 DEF SchedulerInv, TypeOK
  <2>3. panicked' \in BOOLEAN
    BY <1>1
  <2> QED
    BY <1>1, <2>1, <2>2, <2>3 DEF SchedulerInv, TypeOK, Point
<1>9. LocksHeld' /\ IdleFlag' /\ NoLostUnidle'
  BY <1>1, <1>2, <1>4 DEF SchedulerInv, LocksHeld, IdleFlag, NoLostUnidle, Queue
<1>10. JobFits'
  BY <1>1, <1>2, <1>4 DEF SchedulerInv, JobFits, Queue
<1>11. NoneTwice'
  BY <1>1, <1>3, <1>4 DEF SchedulerInv, NoneTwice, Queue
<1>12. ListsSorted'
  <2>1. ASSUME NEW d \in Cpu PROVE ListsOf(d)'
    <3>1. ListsOf(d)
      BY DEF SchedulerInv, ListsSorted
    <3>2. CASE d = c
      <4>1. ToSet(job'[c].targets) = {}
        BY <1>1, <1>2 DEF ToSet
      <4> QED
        BY <1>1, <1>3, <1>4, <3>1, <3>2, <4>1 DEF ListsOf, Queue
    <3>3. CASE d # c
      BY <1>1, <1>4, <3>1, <3>3 DEF ListsOf, Queue
    <3> QED
      BY <3>2, <3>3
  <2> QED
    BY <1>1, <2>1 DEF SchedulerInv, ListsSorted
<1>13. CurrentSane'
  <2> SUFFICES ASSUME NEW d \in Cpu PROVE CurrentOf(d)'
    BY DEF CurrentSane
  <2>1. CASE d = c
    BY <1>1, <1>3, <1>4, <1>6, <2>1 DEF CurrentOf, Cur, Queue
  <2>2. CASE d # c
    <3>1. CurrentOf(d)
      BY DEF SchedulerInv, CurrentSane
    <3> QED
      BY <1>1, <1>4, <2>2, <3>1 DEF CurrentOf, Cur, Queue
  <2> QED
    BY <2>1, <2>2
<1>14. Placed'
  <2> SUFFICES ASSUME NEW u \in Thread PROVE InPlace(u)'
    BY DEF Placed
  <2>1. CASE u = next
    BY <1>1, <1>4, <1>6, <2>1 DEF InPlace, Cur
  <2>2. CASE u # next
    <3>1. t_cpu[u] \in Cpu /\ InPlace(u)
      BY DEF SchedulerInv, TypeOK, Placed
    <3>2. u \in ToSet(Queue(t_cpu[u])) => u \in ToSet(c_runqueue'[t_cpu[u]])
      BY <1>3, <1>4, <2>2, <3>1
    <3>3. ~saved'[u] => ~saved[u] /\ u # old
      BY <1>5, <2>2
    <3>4. t_cpu[u] = c => c_isidle[t_cpu[u]] /\ pc[t_cpu[u]] # "finish" /\ Cur(t_cpu[u]) = old
      BY <1>1, <1>2 DEF old
    <3> QED
      BY <1>1, <1>4, <3>1, <3>2, <3>3, <3>4 DEF InPlace, Cur, Queue
  <2> QED
    BY <2>1, <2>2
<1> QED
  BY <1>7, <1>8, <1>9, <1>10, <1>11, <1>12, <1>13, <1>14 DEF SchedulerInv

LEMMA FinishInv ==
    ASSUME SchedulerInv, NEW c \in Cpu, Finish(c)
    PROVE  SchedulerInv'
<1> DEFINE t == Cur(c)  dead == c_zombies[c]
<1>1. pc[c] = "finish" /\ t \in Thread /\ t_cpu[t] = c
  BY AtCpu DEF Finish, At
<1>2. /\ t_state' = [u \in Thread |-> IF u \in dead THEN "none"
                                      ELSE IF u = t THEN "S_RUN" ELSE t_state[u]]
      /\ c_zombies' = [c_zombies EXCEPT ![c] = {}]
      /\ rqlock' = [rqlock EXCEPT ![c] = Unlocked]
      /\ panicked' = (rqlock[c] # c \/ \E z \in dead : z = t \/ t_state[z] # "S_ZOMBIE")
      /\ pc' = [pc EXCEPT ![c] = "run"]
      /\ UNCHANGED <<t_cpu, saved, c_curthread, c_runqueue, c_isidle,
                     c_ipi_pending, wc_threads, wclock, job>>
  BY <1>1 DEF Finish, Reaped, Goto
<1>3. /\ t_state[t] = "S_READY" /\ t \notin ToSet(Queue(c)) /\ ~c_isidle[c]
      /\ rqlock[c] = c /\ job[c].targets = <<>> /\ job[c].i = 0 /\ job[c].my = 0
      /\ \A z \in dead : t_state[z] = "S_ZOMBIE" /\ t_cpu[z] = c
      /\ dead \subseteq Thread
  BY <1>1 DEF SchedulerInv, TypeOK, LocksHeld, IdleFlag, JobFits, CurrentSane, CurrentOf,
              ListsSorted, ListsOf
<1>4. \A d \in Cpu : d # c => Cur(d) # t /\ Cur(d) \notin dead
  BY <1>1, <1>3, AtCpu
<1> HIDE DEF t, dead
<1>5. /\ t \notin dead /\ t_state'[t] = "S_RUN"
      /\ \A u \in dead : t_state'[u] = "none"
      /\ \A u \in Thread : u # t /\ u \notin dead => t_state'[u] = t_state[u]
  BY <1>1, <1>2, <1>3
<1>6. /\ pc'[c] = "run" /\ rqlock'[c] = Unlocked /\ c_zombies'[c] = {}
      /\ \A d \in Cpu : d # c => /\ pc'[d] = pc[d] /\ rqlock'[d] = rqlock[d]
                                 /\ c_zombies'[d] = c_zombies[d]
  BY <1>2 DEF SchedulerInv, TypeOK
<1>7. NoPanic'
  BY <1>2, <1>3, <1>5 DEF NoPanic
<1>8. TypeOK'
  <2>1. t_state' \in [Thread -> {"none", "S_RUN", "S_READY", "S_SLEEP", "S_ZOMBIE"}]
    BY <1>2 DEF SchedulerInv, TypeOK
  <2>2. panicked' \in BOOLEAN
    BY <1>2
  <2> QED
    BY <1>2, <2>1, <2>2 DEF SchedulerInv, TypeOK, Point
<1>9. LocksHeld' /\ IdleFlag' /\ NoLostUnidle'
  BY <1>1, <1>2, <1>3, <1>6, CpuFacts DEF SchedulerInv, LocksHeld, IdleFlag, NoLostUnidle, Queue
<1>10. JobFits' /\ NoneTwice'
  BY <1>1, <1>2, <1>3, <1>6 DEF SchedulerInv, JobFits, NoneTwice, Queue
<1>11. ListsSorted'
  <2>1. ASSUME NEW d \in Cpu PROVE ListsOf(d)'
    <3>1. /\ ListsOf(d) /\ ToSet(Queue(d)) \subseteq Thread
          /\ ToSet(job[d].targets) \subseteq Thread /\ c_zombies[d] \subseteq Thread
      BY AtCpu DEF SchedulerInv, ListsSorted, TypeOK
    <3>2. CASE d = c
      <4>1. ToSet(job'[c].targets) = {}
        BY <1>2, <1>3 DEF ToSet
      <4> QED
        BY <1>2, <1>3, <1>5, <1>6, <3>1, <3>2, <4>1 DEF ListsOf, Queue
    <3>3. CASE d # c
      BY <1>1, <1>2, <1>3, <1>5, <1>6, <3>1, <3>3 DEF ListsOf, Queue
    <3> QED
      BY <3>2, <3>3
  <2>2. ASSUME NEW u \in ToSet(wc_threads')
        PROVE  t_state'[u] = "S_SLEEP" /\ \A d \in Cpu : u \notin ToSet(job'[d].targets)
    BY <1>2, <1>3, <1>5, Lists, InList DEF SchedulerInv, ListsSorted
  <2> QED
    BY <2>1, <2>2 DEF ListsSorted
<1>12. CurrentSane'
  <2> SUFFICES ASSUME NEW d \in Cpu PROVE CurrentOf(d)'
    BY DEF CurrentSane
  <2>1. CASE d = c
    BY <1>1, <1>2, <1>5, <1>6, <2>1 DEF CurrentOf, Cur, t
  <2>2. CASE d # c
    <3>1. CurrentOf(d) /\ t_state'[Cur(d)] = t_state[Cur(d)]
      BY <1>4, <1>5, <2>2, AtCpu DEF SchedulerInv, CurrentSane
    <3> QED
      BY <1>2, <1>6, <2>2, <3>1 DEF CurrentOf, Cur, Queue
  <2> QED
    BY <2>1, <2>2
<1>13. Placed'
  <2> SUFFICES ASSUME NEW u \in Thread PROVE InPlace(u)'
    BY DEF Placed
  <2>1. CASE u = t
    BY <1>1, <1>2, <1>3, <1>5, <2>1 DEF InPlace, Cur, t
  <2>2. CASE u \in dead
    BY <1>5, <2>2 DEF InPlace
  <2>3. CASE u # t /\ u \notin dead
    <3>1. t_cpu[u] \in Cpu /\ InPlace(u) /\ t_state'[u] = t_state[u]
      BY <1>5, <2>3 DEF SchedulerInv, TypeOK, Placed
    <3>2. t_cpu[u] = c => Cur(c) # u /\ u \notin c_zombies[t_cpu[u]]
      BY <2>3 DEF t, dead
    <3> QED
      BY <1>2, <1>6, <3>1, <3>2 DEF InPlace, Cur, Queue
  <2> QED
    BY <2>1, <2>2, <2>3
<1> QED
  BY <1>7, <1>8, <1>9, <1>10, <1>11, <1>12, <1>13 DEF SchedulerInv
-----------------------------------------------------------------------------
(* The actions that move no thread.                                        *)
LEMMA BeginSleepInv ==
    ASSUME SchedulerInv, NEW c \in Cpu, BeginSleep(c)
    PROVE  SchedulerInv'
<1> USE DEF BeginSleep, At, Goto
<1>1. TypeOK' /\ NoPanic'
  BY DEF SchedulerInv, TypeOK, NoPanic, Point
<1>2. LocksHeld' /\ IdleFlag'
  BY CpuFacts DEF SchedulerInv, TypeOK, LocksHeld, IdleFlag
<1>3. JobFits' /\ NoLostUnidle'
  BY DEF SchedulerInv, TypeOK, IdleFlag, JobFits, NoLostUnidle, Queue
<1>4. NoneTwice' /\ ListsSorted' /\ CurrentSane' /\ Placed'
  BY NothingMoves DEF SchedulerInv, TypeOK, JobFits
<1> QED
  BY <1>1, <1>2, <1>3, <1>4 DEF SchedulerInv

LEMMA GoIdleInv ==
    ASSUME SchedulerInv, NEW c \in Cpu, GoIdle(c)
    PROVE  SchedulerInv'
<1> USE DEF GoIdle, At, Goto
<1>1. TypeOK' /\ NoPanic'
  BY DEF SchedulerInv, TypeOK, NoPanic, Point
<1>2. LocksHeld' /\ IdleFlag'
  BY CpuFacts DEF SchedulerInv, TypeOK, LocksHeld, IdleFlag
<1>3. JobFits' /\ NoLostUnidle'
  BY DEF SchedulerInv, TypeOK, IdleFlag, JobFits, NoLostUnidle, Queue
<1>4. NoneTwice' /\ ListsSorted' /\ CurrentSane' /\ Placed'
  BY NothingMoves DEF SchedulerInv, TypeOK, JobFits
<1> QED
  BY <1>1, <1>2, <1>3, <1>4 DEF SchedulerInv

LEMMA RelockInv ==
    ASSUME SchedulerInv, NEW c \in Cpu, Relock(c)
    PROVE  SchedulerInv'
<1> USE DEF Relock, At, Goto
<1>1. TypeOK' /\ NoPanic'
  BY DEF SchedulerInv, TypeOK, NoPanic, Point
<1>2. LocksHeld' /\ IdleFlag'
  BY CpuFacts DEF SchedulerInv, TypeOK, LocksHeld, IdleFlag
<1>3. JobFits' /\ NoLostUnidle'
  BY DEF SchedulerInv, TypeOK, IdleFlag, JobFits, NoLostUnidle, Queue
<1>4. NoneTwice' /\ ListsSorted' /\ CurrentSane' /\ Placed'
  BY NothingMoves DEF SchedulerInv, TypeOK, JobFits
<1> QED
  BY <1>1, <1>2, <1>3, <1>4 DEF SchedulerInv

LEMMA InterprocessorInv ==
    ASSUME SchedulerInv, NEW c \in Cpu, Interprocessor(c)
    PROVE  SchedulerInv'
<1> USE DEF Interprocessor, Interruptible, Return, At, Goto
<1>1. TypeOK' /\ NoPanic'
  BY DEF SchedulerInv, TypeOK, NoPanic, Point
<1>2. LocksHeld' /\ IdleFlag'
  BY CpuFacts DEF SchedulerInv, TypeOK, LocksHeld, IdleFlag
<1>3. JobFits' /\ NoLostUnidle'
  BY DEF SchedulerInv, TypeOK, IdleFlag, JobFits, NoLostUnidle, Queue
<1>4. NoneTwice' /\ ListsSorted' /\ CurrentSane' /\ Placed'
  BY NothingMoves DEF SchedulerInv, TypeOK, JobFits
<1> QED
  BY <1>1, <1>2, <1>3, <1>4 DEF SchedulerInv

LEMMA ClockIdleInv ==
    ASSUME SchedulerInv, NEW c \in Cpu, ClockIdle(c)
    PROVE  SchedulerInv'
<1> USE DEF ClockIdle, Return, At, Goto
<1>1. TypeOK' /\ NoPanic'
  BY DEF SchedulerInv, TypeOK, NoPanic, Point
<1>2. LocksHeld' /\ IdleFlag'
  BY CpuFacts DEF SchedulerInv, TypeOK, LocksHeld, IdleFlag
<1>3. JobFits' /\ NoLostUnidle'
  BY DEF SchedulerInv, TypeOK, IdleFlag, JobFits, NoLostUnidle, Queue
<1>4. NoneTwice' /\ ListsSorted' /\ CurrentSane' /\ Placed'
  BY NothingMoves DEF SchedulerInv, TypeOK, JobFits
<1> QED
  BY <1>1, <1>2, <1>3, <1>4 DEF SchedulerInv

LEMMA WakeDoneInv ==
    ASSUME SchedulerInv, NEW c \in Cpu, WakeDone(c)
    PROVE  SchedulerInv'
<1> USE DEF WakeDone, Return, At, Goto
<1>1. TypeOK' /\ NoPanic'
  BY DEF SchedulerInv, TypeOK, NoPanic, Point
<1>2. LocksHeld' /\ IdleFlag'
  BY CpuFacts DEF SchedulerInv, TypeOK, LocksHeld, IdleFlag
<1>3. JobFits' /\ NoLostUnidle'
  BY DEF SchedulerInv, TypeOK, IdleFlag, JobFits, NoLostUnidle, Queue
<1>4. NoneTwice' /\ ListsSorted' /\ CurrentSane' /\ Placed'
  BY NothingMoves DEF SchedulerInv, TypeOK, JobFits
<1> QED
  BY <1>1, <1>2, <1>3, <1>4 DEF SchedulerInv


-----------------------------------------------------------------------------
LEMMA WakeStartInv ==
    ASSUME SchedulerInv, NEW c \in Cpu, WakeStart(c)
    PROVE  SchedulerInv'
<1>1. PICK n \in 0 .. Len(wc_threads) :
        /\ job' = [job EXCEPT ![c].targets = SubSeq(wc_threads, 1, n)]
        /\ wc_threads' = SubSeq(wc_threads, n + 1, Len(wc_threads))
  <2>1. PICK n \in {k \in {1, Len(wc_threads)} : k <= Len(wc_threads)} :
          /\ job' = [job EXCEPT ![c].targets = SubSeq(wc_threads, 1, n)]
          /\ wc_threads' = SubSeq(wc_threads, n + 1, Len(wc_threads))
    BY DEF WakeStart
  <2>2. Len(wc_threads) \in Nat
    BY Lists
  <2>3. n \in 0 .. Len(wc_threads)
    BY <2>2
  <2> QED
    BY <2>1, <2>3
<1> DEFINE a == SubSeq(wc_threads, 1, n)
<1>2. /\ pc[c] \in {"run", "idle"} /\ wclock = Unlocked /\ wclock' = c
      /\ pc' = [pc EXCEPT ![c] = "wake"]
      /\ UNCHANGED <<t_state, t_cpu, saved, c_curthread, c_runqueue, c_zombies,
                     c_isidle, c_ipi_pending, rqlock, panicked>>
  BY DEF WakeStart, Interruptible, At, Goto
<1>3. job[c] \in Job /\ job[c].targets = <<>> /\ job[c].i = 0 /\ job[c].my = 0
  BY <1>2 DEF SchedulerInv, TypeOK, JobFits
<1>4. /\ a \in Seq(Thread) /\ wc_threads' \in Seq(Thread)
      /\ IsInjective(a) /\ IsInjective(wc_threads')
      /\ ToSet(wc_threads) = ToSet(a) \cup ToSet(wc_threads')
      /\ ToSet(a) \cap ToSet(wc_threads') = {}
  BY <1>1, Lists, Split
<1>5. /\ job'[c] = [job[c] EXCEPT !.targets = a]
      /\ \A d \in Cpu : d # c => job'[d] = job[d]
  BY <1>1 DEF SchedulerInv, TypeOK
<1> HIDE DEF a
<1>6. /\ job'[c] \in Job /\ job'[c].targets = a /\ job'[c].i = 0 /\ job'[c].my = 0
  BY <1>3, <1>4, <1>5 DEF Job
<1>7. pc'[c] = "wake" /\ \A d \in Cpu : d # c => pc'[d] = pc[d]
  BY <1>2 DEF SchedulerInv, TypeOK
<1>8. TypeOK'
  <2>1. job' \in [Cpu -> Job]
    BY <1>1, <1>5, <1>6 DEF SchedulerInv, TypeOK
  <2> QED
    BY <1>2, <1>4, <2>1 DEF SchedulerInv, TypeOK, Point
<1>9. NoPanic' /\ LocksHeld' /\ IdleFlag' /\ NoLostUnidle'
  BY <1>2, <1>7, CpuFacts DEF SchedulerInv, NoPanic, LocksHeld, IdleFlag, NoLostUnidle, Queue
<1>10. JobFits'
  BY <1>2, <1>5, <1>6, <1>7 DEF SchedulerInv, JobFits, Queue
<1>11. NoneTwice'
  BY <1>2, <1>4, <1>5, <1>6 DEF SchedulerInv, NoneTwice, Queue
<1>12. ListsSorted'
  <2>1. ASSUME NEW d \in Cpu PROVE ListsOf(d)'
    <3>1. ListsOf(d)
      BY DEF SchedulerInv, ListsSorted
    <3>2. CASE d = c
      <4>1. \A u \in ToSet(a) : t_state[u] = "S_SLEEP"
        BY <1>4 DEF SchedulerInv, ListsSorted
      <4> QED
        BY <1>2, <1>6, <1>7, <3>1, <3>2, <4>1 DEF ListsOf, Queue
    <3>3. CASE d # c
      BY <1>2, <1>5, <1>7, <3>1, <3>3 DEF ListsOf, Queue
    <3> QED
      BY <3>2, <3>3
  <2>2. ASSUME NEW u \in ToSet(wc_threads')
        PROVE  t_state'[u] = "S_SLEEP" /\ \A d \in Cpu : u \notin ToSet(job'[d].targets)
    <3>1. /\ u \notin ToSet(a) /\ t_state[u] = "S_SLEEP"
          /\ \A d \in Cpu : u \notin ToSet(job[d].targets)
      BY <1>4, <2>2 DEF SchedulerInv, ListsSorted
    <3> QED
      BY <1>2, <1>5, <1>6, <3>1
  <2> QED
    BY <2>1, <2>2 DEF ListsSorted
<1>13. CurrentSane'
  BY <1>2, <1>7 DEF SchedulerInv, CurrentSane, CurrentOf, Cur, Queue
<1>14. Placed'
  <2> SUFFICES ASSUME NEW u \in Thread PROVE InPlace(u)'
    BY DEF Placed
  <2>1. t_cpu[u] \in Cpu /\ InPlace(u)
    BY DEF SchedulerInv, TypeOK, Placed
  <2>2. \A d \in Cpu : u \in ToSet(job[d].targets) => u \in ToSet(job'[d].targets)
    <3>1. u \notin ToSet(job[c].targets)
      BY <1>3 DEF ToSet
    <3> QED
      BY <1>5, <3>1
  <2>3. u \in ToSet(wc_threads) => \/ u \in ToSet(wc_threads')
                                   \/ \E d \in Cpu : u \in ToSet(job'[d].targets)
    BY <1>4, <1>6
  <2>4. pc[t_cpu[u]] = "finish" => pc'[t_cpu[u]] = "finish"
    BY <1>2, <1>7, <2>1
  <2> QED
    BY <1>2, <2>1, <2>2, <2>3, <2>4 DEF InPlace, Cur, Queue
<1> QED
  BY <1>8, <1>9, <1>10, <1>11, <1>12, <1>13, <1>14 DEF SchedulerInv

LEMMA WakeNextInv ==
    ASSUME SchedulerInv, NEW c \in Cpu, WakeNext(c)
    PROVE  SchedulerInv'
<1> DEFINE v == job[c].targets  t == Head(v)  d == t_cpu[t]
<1>1. /\ pc[c] = "wake" /\ v # <<>> /\ rqlock[d] = Unlocked
      /\ t_state' = [t_state EXCEPT ![t] = "S_READY"]
      /\ c_runqueue' = [c_runqueue EXCEPT ![d] = Append(@, t)]
      /\ c_ipi_pending' = [c_ipi_pending EXCEPT ![d] = @ \/ (c_isidle[d] /\ d # c)]
      /\ job' = [job EXCEPT ![c].targets = Tail(v)]
      /\ UNCHANGED <<t_cpu, saved, c_curthread, c_zombies, c_isidle, rqlock,
                     wc_threads, wclock, pc, panicked>>
  BY DEF WakeNext, At, MakeRunnable, Unidles
<1>2. /\ Tail(v) \in Seq(Thread) /\ IsInjective(Tail(v))
      /\ t \in ToSet(v) /\ t \in Thread /\ ToSet(Tail(v)) = ToSet(v) \ {t}
  BY <1>1, Lists, RemHead
<1>3. /\ job[c] \in Job /\ job[c].i = 0 /\ job[c].my = 0
      /\ job'[c] = [job[c] EXCEPT !.targets = Tail(v)]
      /\ \A e \in Cpu : e # c => job'[e] = job[e]
  BY <1>1 DEF SchedulerInv, TypeOK, JobFits
<1>4. t_state[t] = "S_SLEEP" /\ d \in Cpu
  BY <1>1, <1>2 DEF SchedulerInv, TypeOK, ListsSorted, ListsOf
<1>5. /\ t \notin ToSet(wc_threads)
      /\ \A e \in Cpu : /\ t \notin ToSet(Queue(e)) /\ t \notin c_zombies[e]
                        /\ e # c => t \notin ToSet(job[e].targets)
  <2>1. \A e \in Cpu : e # c => pc[e] # "wake"
    BY <1>1 DEF SchedulerInv, LocksHeld
  <2>2. \A e \in Cpu : t \notin ToSet(Queue(e)) /\ t \notin c_zombies[e]
    BY <1>4 DEF SchedulerInv, ListsSorted, ListsOf
  <2>3. \A e \in Cpu : e # c => t \notin ToSet(job[e].targets)
    BY <1>4, <2>1 DEF SchedulerInv, ListsSorted, ListsOf
  <2> QED
    BY <1>2, <2>2, <2>3 DEF SchedulerInv, ListsSorted
<1> HIDE DEF v, t, d
<1>6. /\ job'[c] \in Job /\ job'[c].targets = Tail(v) /\ job'[c].i = 0 /\ job'[c].my = 0
  BY <1>2, <1>3 DEF Job
<1>7. /\ c_runqueue'[d] = Append(Queue(d), t)
      /\ \A e \in Cpu : e # d => c_runqueue'[e] = Queue(e)
  BY <1>1, <1>4 DEF SchedulerInv, TypeOK, Queue
<1>8. /\ c_runqueue'[d] \in Seq(Thread) /\ IsInjective(c_runqueue'[d])
      /\ ToSet(c_runqueue'[d]) = ToSet(Queue(d)) \cup {t}
      /\ Len(c_runqueue'[d]) = Len(Queue(d)) + 1
  BY <1>2, <1>4, <1>5, <1>7, Lists, AddTail
<1>9. /\ t_state'[t] = "S_READY"
      /\ \A u \in Thread : u # t => t_state'[u] = t_state[u]
  BY <1>1, <1>2 DEF SchedulerInv, TypeOK
<1>10. TypeOK'
  <2>1. job' \in [Cpu -> Job]
    BY <1>1, <1>3, <1>6 DEF SchedulerInv, TypeOK
  <2>2. c_runqueue' \in [Cpu -> Seq(Thread)]
    BY <1>1, <1>8, <1>4 DEF SchedulerInv, TypeOK
  <2>3. c_ipi_pending' \in [Cpu -> BOOLEAN]
    BY <1>1 DEF SchedulerInv, TypeOK
  <2> QED
    BY <1>1, <2>1, <2>2, <2>3 DEF SchedulerInv, TypeOK
<1>11. NoPanic' /\ LocksHeld' /\ IdleFlag'
  BY <1>1 DEF SchedulerInv, NoPanic, LocksHeld, IdleFlag
<1>12. NoLostUnidle'
  <2> SUFFICES ASSUME NEW e \in Cpu, pc[e] = "idle", c_runqueue'[e] # <<>>
               PROVE  c_ipi_pending'[e]
    BY <1>1 DEF NoLostUnidle, Queue
  <2>1. CASE e = d
    BY <1>1, <2>1 DEF SchedulerInv, TypeOK, IdleFlag
  <2>2. CASE e # d
    BY <1>1, <1>7, <2>2 DEF SchedulerInv, TypeOK, NoLostUnidle
  <2> QED
    BY <2>1, <2>2
<1>13. JobFits'
  <2>1. \A e \in Cpu : Len(Queue(e)) \in Nat /\ Len(c_runqueue'[e]) >= Len(Queue(e))
    BY <1>7, <1>8, AtCpu
  <2>2. \A e \in Cpu : job[e].send \in Nat /\ job[e].my \in Nat
    BY AtCpu DEF Job
  <2>3. \A e \in Cpu : /\ job[e].send <= Len(Queue(e)) => job[e].send <= Len(c_runqueue'[e])
                       /\ job[e].my <= Len(Queue(e)) => job[e].my <= Len(c_runqueue'[e])
    BY <1>4, <1>7, <1>8, <2>1, <2>2
  <2> QED
    BY <1>1, <1>3, <1>6, <2>3 DEF SchedulerInv, JobFits, Queue
<1>14. NoneTwice'
  BY <1>1, <1>2, <1>3, <1>6, <1>7, <1>8 DEF SchedulerInv, NoneTwice, Queue
<1>15. ListsSorted'
  <2>1. ASSUME NEW e \in Cpu, NEW u \in ToSet(c_runqueue'[e])
        PROVE  t_state'[u] = "S_READY" /\ t_cpu[u] = e
    <3>1. CASE u = t
      BY <1>5, <1>7, <1>9, <2>1, <3>1 DEF d
    <3>2. CASE u # t
      <4>1. u \in ToSet(Queue(e)) /\ u \in Thread
        BY <1>7, <1>8, <2>1, <3>2, AtCpu
      <4> QED
        BY <1>9, <3>2, <4>1 DEF SchedulerInv, ListsSorted, ListsOf
    <3> QED
      BY <3>1, <3>2
  <2>2. ASSUME NEW e \in Cpu, NEW u \in ToSet(job'[e].targets)
        PROVE  /\ pc[e] = "wake" => t_state'[u] = "S_SLEEP"
               /\ pc[e] # "wake" => /\ t_state'[u] = "S_READY" /\ t_cpu[u] = e
                                    /\ u \notin ToSet(c_runqueue'[e])
    <3>1. u \in ToSet(job[e].targets) /\ u # t
      BY <1>2, <1>3, <1>5, <1>6, <2>2 DEF v
    <3>2. u \in Thread /\ t_state'[u] = t_state[u]
      BY <1>9, <3>1, AtCpu
    <3>3. u \in ToSet(c_runqueue'[e]) => u \in ToSet(Queue(e))
      BY <1>7, <1>8, <3>1
    <3> QED
      BY <3>1, <3>2, <3>3 DEF SchedulerInv, ListsSorted, ListsOf
  <2>3. ASSUME NEW e \in Cpu, NEW u \in c_zombies[e]
        PROVE  t_state'[u] = "S_ZOMBIE" /\ t_cpu[u] = e
    BY <1>5, <1>9, <2>3 DEF SchedulerInv, TypeOK, ListsSorted, ListsOf
  <2>4. ASSUME NEW u \in ToSet(wc_threads)
        PROVE  t_state'[u] = "S_SLEEP" /\ \A e \in Cpu : u \notin ToSet(job'[e].targets)
    <3>1. /\ u \in Thread /\ u # t /\ t_state[u] = "S_SLEEP"
          /\ \A e \in Cpu : u \notin ToSet(job[e].targets)
      BY <1>5, <2>4, Lists, InList DEF SchedulerInv, ListsSorted
    <3> QED
      BY <1>2, <1>3, <1>6, <1>9, <3>1 DEF v
  <2> QED
    BY <1>1, <2>1, <2>2, <2>3, <2>4 DEF ListsSorted, ListsOf, Queue
<1>16. CurrentSane'
  <2> SUFFICES ASSUME NEW e \in Cpu PROVE CurrentOf(e)'
    BY DEF CurrentSane
  <2>1. CurrentOf(e) /\ Cur(e) \in Thread
    BY AtCpu DEF SchedulerInv, CurrentSane
  <2>2. CASE Cur(e) = t
    BY <1>1, <1>4, <1>9, <2>1, <2>2 DEF CurrentOf, Cur
  <2>3. CASE Cur(e) # t
    <3>1. t_state'[Cur(e)] = t_state[Cur(e)]
      BY <1>9, <2>1, <2>3
    <3>2. Cur(e) \in ToSet(c_runqueue'[e]) => Cur(e) \in ToSet(Queue(e))
      BY <1>7, <1>8, <2>3
    <3> QED
      BY <1>1, <2>1, <3>1, <3>2 DEF CurrentOf, Cur, Queue
  <2> QED
    BY <2>2, <2>3
<1>17. Placed'
  <2> SUFFICES ASSUME NEW u \in Thread PROVE InPlace(u)'
    BY DEF Placed
  <2>1. t_cpu[u] \in Cpu /\ InPlace(u)
    BY DEF SchedulerInv, TypeOK, Placed
  <2>2. CASE u = t
    <3>1. u \in ToSet(c_runqueue'[t_cpu[u]])
      BY <1>8, <2>2 DEF d
    <3> QED
      BY <1>1, <1>4, <1>9, <2>1, <2>2, <3>1 DEF InPlace, Cur, Queue
  <2>3. CASE u # t
    <3>1. t_state'[u] = t_state[u]
      BY <1>9, <2>3
    <3>2. u \in ToSet(Queue(t_cpu[u])) => u \in ToSet(c_runqueue'[t_cpu[u]])
      BY <1>7, <1>8, <2>1
    <3>3. \A e \in Cpu : u \in ToSet(job[e].targets) => u \in ToSet(job'[e].targets)
      BY <1>2, <1>3, <1>6, <2>3 DEF v
    <3> QED
      BY <1>1, <2>1, <3>1, <3>2, <3>3 DEF InPlace, Cur, Queue
  <2> QED
    BY <2>2, <2>3
<1> QED
  BY <1>10, <1>11, <1>12, <1>13, <1>14, <1>15, <1>16, <1>17 DEF SchedulerInv

LEMMA MigrateStartInv ==
    ASSUME SchedulerInv, NEW c \in Cpu, MigrateStart(c)
    PROVE  SchedulerInv'
<1> USE DEF MigrateStart, Interruptible, At, Goto
<1>1. TypeOK'
  BY DEF SchedulerInv, TypeOK, Point, Job
<1>2. NoPanic' /\ LocksHeld' /\ IdleFlag' /\ NoLostUnidle'
  BY DEF SchedulerInv, TypeOK, NoPanic, LocksHeld, IdleFlag, NoLostUnidle, Queue
<1>3. JobFits'
  <2>1. Len(Queue(c)) \in Nat
    BY Lists
  <2> QED
    <3>1. /\ pc'[c] = "count" /\ \A d \in Cpu : d # c => pc'[d] = pc[d]
          /\ pc[c] \in {"run", "idle"} /\ UNCHANGED <<job, c_runqueue>>
      BY DEF SchedulerInv, TypeOK
    <3>2. job[c].i = 0 /\ job[c].my = 0 /\ job[c].targets = <<>>
      BY <3>1 DEF SchedulerInv, JobFits
    <3> QED
      BY <2>1, <3>1, <3>2, CpuFacts DEF SchedulerInv, JobFits, Queue
<1>4. NoneTwice' /\ ListsSorted' /\ CurrentSane' /\ Placed'
  BY NothingMoves DEF SchedulerInv, TypeOK, JobFits
<1> QED
  BY <1>1, <1>2, <1>3, <1>4 DEF SchedulerInv

(* MigrateReturn: the migration is over, with nothing left to put back.    *)
LEMMA MigrateReturnInv ==
    ASSUME SchedulerInv, NEW c \in Cpu, pc[c] \in {"count", "give"},
           job[c].targets = <<>>, MigrateReturn(c),
           UNCHANGED <<t_state, t_cpu, saved, c_curthread, c_runqueue, c_zombies,
                       c_isidle, c_ipi_pending, rqlock, wc_threads, wclock, panicked>>
    PROVE  SchedulerInv'
<1>1. /\ pc'[c] \in {"relock", "yield"} /\ (pc'[c] = "relock" <=> c_isidle[c])
      /\ job'[c] = NoJob
      /\ \A d \in Cpu : d # c => pc'[d] = pc[d] /\ job'[d] = job[d]
      /\ pc' \in [Cpu -> Point] /\ job' \in [Cpu -> Job]
  <2>1. NoJob \in Job
    BY CpuFacts DEF NoJob, Job
  <2> QED
    BY <2>1 DEF MigrateReturn, Goto, SchedulerInv, TypeOK, Point
<1>2. NoJob.targets = <<>> /\ NoJob.i = 0 /\ NoJob.my = 0
  BY DEF NoJob
<1>3. TypeOK'
  BY <1>1 DEF SchedulerInv, TypeOK
<1>4. NoPanic' /\ LocksHeld'
  BY <1>1 DEF SchedulerInv, NoPanic, LocksHeld
<1>5. IdleFlag' /\ NoLostUnidle'
  BY <1>1 DEF SchedulerInv, TypeOK, IdleFlag, NoLostUnidle, Queue
<1>6. JobFits'
  BY <1>1, <1>2 DEF SchedulerInv, JobFits, Queue
<1>7. NoneTwice' /\ ListsSorted' /\ CurrentSane' /\ Placed'
  BY <1>1, <1>2, NothingMoves
<1> QED
  BY <1>3, <1>4, <1>5, <1>6, <1>7 DEF SchedulerInv

LEMMA MigrateGivenInv ==
    ASSUME SchedulerInv, NEW c \in Cpu, MigrateGiven(c)
    PROVE  SchedulerInv'
<1>1. CASE job[c].targets = <<>>
  BY <1>1, MigrateReturnInv DEF MigrateGiven, At
<1>2. CASE job[c].targets # <<>>
  <2>1. pc[c] = "give" /\ pc' = [pc EXCEPT ![c] = "putback"]
    BY <1>2 DEF MigrateGiven, At, Goto
  <2>2. UNCHANGED <<t_state, t_cpu, saved, c_curthread, c_runqueue, c_zombies,
                    c_isidle, c_ipi_pending, rqlock, wc_threads, wclock, job, panicked>>
    BY <1>2 DEF MigrateGiven
  <2>3. TypeOK'
    BY <2>1, <2>2 DEF SchedulerInv, TypeOK, Point
  <2>4. NoPanic' /\ LocksHeld' /\ IdleFlag' /\ NoLostUnidle'
    BY <2>1, <2>2 DEF SchedulerInv, TypeOK, NoPanic, LocksHeld, IdleFlag, NoLostUnidle, Queue
  <2>5. JobFits'
    BY <2>1, <2>2 DEF SchedulerInv, TypeOK, JobFits, Queue
  <2>6. NoneTwice' /\ ListsSorted' /\ CurrentSane' /\ Placed'
    BY <2>1, <2>2, NothingMoves DEF SchedulerInv, TypeOK
  <2> QED
    BY <2>3, <2>4, <2>5, <2>6 DEF SchedulerInv
<1> QED
  BY <1>1, <1>2

LEMMA MigrateCountInv ==
    ASSUME SchedulerInv, NEW c \in Cpu, MigrateCount(c)
    PROVE  SchedulerInv'
<1> DEFINE i == job[c].i
           n == Len(Queue(i))
           my == IF i = c THEN n ELSE job[c].my
           total == job[c].total + n
           share == OneShare(total)
<1>0. /\ job[c] \in Job /\ i \in Nat /\ job[c].my \in Nat /\ job[c].total \in Nat
      /\ job[c].share \in Nat /\ job[c].send \in Nat
  <2>1. job[c] \in Job
    BY DEF SchedulerInv, TypeOK
  <2>2. job[c].i \in 0 .. NumCpus
    BY <2>1 DEF Job
  <2> QED
    BY <2>1, <2>2, CpuFacts DEF Job
<1>1. /\ pc[c] = "count" /\ job[c].targets = <<>>
      /\ i < NumCpus /\ i \in Cpu
  <2>1. pc[c] = "count"
    BY DEF MigrateCount, At
  <2>2. i < NumCpus /\ job[c].targets = <<>>
    BY <2>1 DEF SchedulerInv, JobFits
  <2> QED
    BY <1>0, <2>1, <2>2, CpuFacts
<1>2. n \in Nat
  BY <1>1, Lists
<1>3. my \in Nat /\ my <= Len(Queue(c))
  BY <1>0, <1>1, <1>2 DEF SchedulerInv, JobFits
<1>4. total \in Nat
  BY <1>0, <1>2
<1>5. share \in Nat
  BY <1>4, ShareNat
<1>6. UNCHANGED <<t_state, t_cpu, saved, c_curthread, c_runqueue, c_zombies,
                  c_isidle, c_ipi_pending, rqlock, wc_threads, wclock, panicked>>
  BY DEF MigrateCount
<1>7. \/ /\ i < NumCpus - 1
         /\ job' = [job EXCEPT ![c].i = i + 1, ![c].my = my, ![c].total = total]
         /\ UNCHANGED pc
      \/ /\ my >= share
         /\ job' = [job EXCEPT ![c] = [NoJob EXCEPT !.share = share,
                                                    !.send = my - share]]
         /\ Goto(c, "take")
      \/ MigrateReturn(c)
  BY DEF MigrateCount, HasSurplus
<1> HIDE DEF i, n, my, total, share
<1>8. CASE /\ i < NumCpus - 1
           /\ job' = [job EXCEPT ![c].i = i + 1, ![c].my = my, ![c].total = total]
           /\ UNCHANGED pc
  <2>0. i + 1 < NumCpus /\ i + 1 \in 0 .. NumCpus
    BY <1>0, <1>8, CpuFacts
  <2> DEFINE new == [job[c] EXCEPT !.i = i + 1, !.my = my, !.total = total]
  <2>a. job' = [job EXCEPT ![c] = new]
    BY <1>8
  <2>b. /\ new \in Job /\ new.i = i + 1 /\ new.my = my /\ new.targets = <<>>
    BY <1>0, <1>1, <1>3, <1>4, <2>0 DEF Job
  <2> HIDE DEF new
  <2>1. /\ job' \in [Cpu -> Job]
        /\ job'[c].i = i + 1 /\ job'[c].my = my /\ job'[c].targets = <<>>
        /\ \A d \in Cpu : d # c => job'[d] = job[d]
    BY <2>a, <2>b DEF SchedulerInv, TypeOK
  <2>2. TypeOK'
    BY <1>6, <1>8, <2>1 DEF SchedulerInv, TypeOK
  <2>3. NoPanic' /\ LocksHeld' /\ IdleFlag' /\ NoLostUnidle'
    BY <1>6, <1>8 DEF SchedulerInv, NoPanic, LocksHeld, IdleFlag, NoLostUnidle, Queue
  <2>4. JobFits'
    BY <1>1, <1>3, <1>6, <1>8, <2>0, <2>1 DEF SchedulerInv, JobFits, Queue
  <2>5. NoneTwice' /\ ListsSorted' /\ CurrentSane' /\ Placed'
    BY <1>1, <1>6, <1>8, <2>1, NothingMoves
  <2> QED
    BY <2>2, <2>3, <2>4, <2>5 DEF SchedulerInv
<1>9. CASE /\ my >= share
           /\ job' = [job EXCEPT ![c] = [NoJob EXCEPT !.share = share,
                                                      !.send = my - share]]
           /\ Goto(c, "take")
  <2>1. my - share \in Nat /\ my - share <= Len(Queue(c))
    <3>1. Len(Queue(c)) \in Nat
      BY Lists
    <3> QED
      BY <1>3, <1>5, <1>9, <3>1
  <2>2. /\ job'[c] = [NoJob EXCEPT !.share = share, !.send = my - share]
        /\ \A d \in Cpu : d # c => job'[d] = job[d] /\ pc'[d] = pc[d]
        /\ pc'[c] = "take" /\ pc' \in [Cpu -> Point]
    BY <1>9 DEF Goto, SchedulerInv, TypeOK, Point
  <2>3. /\ job'[c] \in Job /\ job'[c].targets = <<>> /\ job'[c].i = 0
        /\ job'[c].my = 0 /\ job'[c].send = my - share
    <3>1. NoJob \in Job /\ NoJob.targets = <<>> /\ NoJob.i = 0 /\ NoJob.my = 0
      BY CpuFacts DEF NoJob, Job
    <3> QED
      BY <1>5, <2>1, <2>2, <3>1 DEF Job
  <2>4. job' \in [Cpu -> Job]
    BY <1>9, <2>2, <2>3 DEF SchedulerInv, TypeOK
  <2>5. TypeOK'
    BY <1>6, <2>2, <2>4 DEF SchedulerInv, TypeOK
  <2>6. NoPanic' /\ LocksHeld' /\ IdleFlag' /\ NoLostUnidle'
    BY <1>1, <1>6, <2>2 DEF SchedulerInv, NoPanic, LocksHeld, IdleFlag, NoLostUnidle, Queue
  <2>7. JobFits'
    BY <1>6, <2>1, <2>2, <2>3 DEF SchedulerInv, JobFits, Queue
  <2>8. NoneTwice' /\ ListsSorted' /\ CurrentSane' /\ Placed'
    BY <1>1, <1>6, <2>2, <2>3, NothingMoves
  <2> QED
    BY <2>5, <2>6, <2>7, <2>8 DEF SchedulerInv
<1>10. CASE MigrateReturn(c)
  BY <1>1, <1>6, <1>10, MigrateReturnInv
<1> QED
  BY <1>7, <1>8, <1>9, <1>10

-----------------------------------------------------------------------------
LEMMA MigrateTakeInv ==
    ASSUME SchedulerInv, NEW c \in Cpu, MigrateTake(c)
    PROVE  SchedulerInv'
<1> DEFINE q == Queue(c)
           keep == Len(q) - job[c].send
           a == SubSeq(q, 1, keep)
           b == SubSeq(q, keep + 1, Len(q))
<1>1. /\ pc[c] = "take" /\ rqlock[c] = Unlocked
      /\ c_runqueue' = [c_runqueue EXCEPT ![c] = a]
      /\ job' = [job EXCEPT ![c].targets = b]
      /\ pc' = [pc EXCEPT ![c] = "give"]
      /\ UNCHANGED <<t_state, t_cpu, saved, c_curthread, c_zombies, c_isidle,
                     c_ipi_pending, rqlock, wc_threads, wclock, panicked>>
  BY DEF MigrateTake, At, Goto, Queue
<1>2. /\ job[c] \in Job /\ job[c].targets = <<>> /\ job[c].send <= Len(q)
      /\ q \in Seq(Thread) /\ IsInjective(q)
  BY <1>1, AtCpu DEF SchedulerInv, JobFits
<1>3. keep \in 0 .. Len(q) /\ Len(q) - keep = job[c].send
  <2>1. job[c].send \in Nat /\ Len(q) \in Nat
    BY <1>2 DEF Job
  <2> QED
    BY <1>2, <2>1
<1>4. /\ a \in Seq(Thread) /\ b \in Seq(Thread)
      /\ IsInjective(a) /\ IsInjective(b)
      /\ ToSet(q) = ToSet(a) \cup ToSet(b) /\ ToSet(a) \cap ToSet(b) = {}
      /\ Len(b) = job[c].send
  BY <1>2, <1>3, Split
<1> HIDE DEF a, b, keep
<1>5. /\ job'[c] = [job[c] EXCEPT !.targets = b]
      /\ \A d \in Cpu : d # c => job'[d] = job[d]
  BY <1>1 DEF SchedulerInv, TypeOK
<1>6. job'[c] \in Job /\ job'[c].targets = b /\ job'[c].send = job[c].send
  BY <1>2, <1>4, <1>5 DEF Job
<1>7. /\ c_runqueue'[c] = a /\ pc'[c] = "give"
      /\ \A d \in Cpu : d # c => c_runqueue'[d] = Queue(d) /\ pc'[d] = pc[d]
  BY <1>1 DEF SchedulerInv, TypeOK, Queue
<1>8. TypeOK'
  <2>1. job' \in [Cpu -> Job]
    BY <1>1, <1>5, <1>6 DEF SchedulerInv, TypeOK
  <2>2. c_runqueue' \in [Cpu -> Seq(Thread)]
    BY <1>1, <1>4 DEF SchedulerInv, TypeOK
  <2> QED
    BY <1>1, <2>1, <2>2 DEF SchedulerInv, TypeOK, Point
<1>9. NoPanic' /\ LocksHeld' /\ IdleFlag' /\ NoLostUnidle'
  BY <1>1, <1>7 DEF SchedulerInv, NoPanic, LocksHeld, IdleFlag, NoLostUnidle, Queue
<1>10. JobFits'
  <2>1. job[c].send \in Nat
    BY <1>2 DEF Job
  <2>2. job'[c].send <= Len(job'[c].targets)
    BY <1>4, <1>6, <2>1
  <2> QED
    BY <1>5, <1>7, <2>2 DEF SchedulerInv, JobFits, Queue
<1>11. NoneTwice'
  BY <1>1, <1>4, <1>5, <1>6, <1>7 DEF SchedulerInv, NoneTwice, Queue
<1>12. ListsSorted'
  <2>1. ASSUME NEW d \in Cpu PROVE ListsOf(d)'
    <3>1. ListsOf(d)
      BY DEF SchedulerInv, ListsSorted
    <3>2. CASE d = c
      BY <1>1, <1>4, <1>6, <1>7, <3>1, <3>2 DEF ListsOf, Queue
    <3>3. CASE d # c
      BY <1>1, <1>5, <1>7, <3>1, <3>3 DEF ListsOf, Queue
    <3> QED
      BY <3>2, <3>3
  <2>2. ASSUME NEW u \in ToSet(wc_threads')
        PROVE  t_state'[u] = "S_SLEEP" /\ \A d \in Cpu : u \notin ToSet(job'[d].targets)
    <3>1. t_state[u] = "S_SLEEP" /\ \A d \in Cpu : u \notin ToSet(job[d].targets)
      BY <1>1, <2>2 DEF SchedulerInv, ListsSorted
    <3>2. u \notin ToSet(b)
      BY <1>4, <3>1 DEF SchedulerInv, ListsSorted, ListsOf
    <3> QED
      BY <1>1, <1>5, <1>6, <3>1, <3>2
  <2> QED
    BY <2>1, <2>2 DEF ListsSorted
<1>13. CurrentSane'
  <2> SUFFICES ASSUME NEW d \in Cpu PROVE CurrentOf(d)'
    BY DEF CurrentSane
  <2>1. CurrentOf(d)
    BY DEF SchedulerInv, CurrentSane
  <2>2. CASE d = c
    BY <1>1, <1>7, <2>1, <2>2 DEF CurrentOf, Cur
  <2>3. CASE d # c
    BY <1>1, <1>7, <2>1, <2>3 DEF CurrentOf, Cur, Queue
  <2> QED
    BY <2>2, <2>3
<1>14. Placed'
  <2> SUFFICES ASSUME NEW u \in Thread PROVE InPlace(u)'
    BY DEF Placed
  <2>1. t_cpu[u] \in Cpu /\ InPlace(u)
    BY DEF SchedulerInv, TypeOK, Placed
  <2>2. u \in ToSet(Queue(t_cpu[u])) => \/ u \in ToSet(c_runqueue'[t_cpu[u]])
                                       \/ u \in ToSet(job'[t_cpu[u]].targets)
    BY <1>4, <1>6, <1>7, <2>1 DEF q
  <2>3. \A d \in Cpu : u \in ToSet(job[d].targets) => u \in ToSet(job'[d].targets)
    <3>1. u \notin ToSet(job[c].targets)
      BY <1>2 DEF ToSet
    <3> QED
      BY <1>5, <3>1
  <2>4. pc[t_cpu[u]] = "finish" => pc'[t_cpu[u]] = "finish"
    BY <1>1, <1>7, <2>1
  <2> QED
    BY <1>1, <2>1, <2>2, <2>3, <2>4 DEF InPlace, Cur, Queue
<1> QED
  BY <1>8, <1>9, <1>10, <1>11, <1>12, <1>13, <1>14 DEF SchedulerInv

LEMMA MigratePutBackInv ==
    ASSUME SchedulerInv, NEW c \in Cpu, MigratePutBack(c)
    PROVE  SchedulerInv'
<1> DEFINE q == Queue(c)  v == job[c].targets  s == q \o v
<1>1. /\ pc[c] = "putback" /\ rqlock[c] = Unlocked
      /\ c_runqueue' = [c_runqueue EXCEPT ![c] = s]
      /\ MigrateReturn(c)
      /\ UNCHANGED <<t_state, t_cpu, saved, c_curthread, c_zombies, c_isidle,
                     c_ipi_pending, rqlock, wc_threads, wclock, panicked>>
  BY DEF MigratePutBack, Leftovers, At, Queue
<1>2. /\ pc'[c] \in {"relock", "yield"} /\ (pc'[c] = "relock" <=> c_isidle[c])
      /\ job'[c] = NoJob
      /\ \A d \in Cpu : d # c => pc'[d] = pc[d] /\ job'[d] = job[d]
      /\ pc' \in [Cpu -> Point] /\ job' \in [Cpu -> Job]
  <2>1. NoJob \in Job
    BY CpuFacts DEF NoJob, Job
  <2> QED
    BY <1>1, <2>1 DEF MigrateReturn, Goto, SchedulerInv, TypeOK, Point
<1>3. NoJob.targets = <<>> /\ NoJob.i = 0 /\ NoJob.my = 0 /\ ToSet(<<>>) = {}
      /\ IsInjective(<<>>)
  BY DEF NoJob, ToSet, IsInjective
<1>4. /\ q \in Seq(Thread) /\ v \in Seq(Thread) /\ IsInjective(q) /\ IsInjective(v)
      /\ \A u \in ToSet(v) : t_state[u] = "S_READY" /\ t_cpu[u] = c /\ u \notin ToSet(q)
  BY <1>1, AtCpu DEF SchedulerInv, ListsSorted, ListsOf
<1>5. s \in Seq(Thread) /\ ToSet(s) = ToSet(q) \cup ToSet(v) /\ IsInjective(s)
  BY <1>4, Joined
<1> HIDE DEF s
<1>6. c_runqueue'[c] = s /\ \A d \in Cpu : d # c => c_runqueue'[d] = Queue(d)
  BY <1>1 DEF SchedulerInv, TypeOK, Queue
<1>7. TypeOK'
  <2>1. c_runqueue' \in [Cpu -> Seq(Thread)]
    BY <1>1, <1>5 DEF SchedulerInv, TypeOK
  <2> QED
    BY <1>1, <1>2, <2>1 DEF SchedulerInv, TypeOK
<1>8. NoPanic' /\ LocksHeld'
  BY <1>1, <1>2 DEF SchedulerInv, NoPanic, LocksHeld
<1>9. IdleFlag' /\ NoLostUnidle'
  BY <1>1, <1>2, <1>6 DEF SchedulerInv, TypeOK, IdleFlag, NoLostUnidle, Queue
<1>10. JobFits'
  BY <1>2, <1>3, <1>6 DEF SchedulerInv, JobFits, Queue
<1>11. NoneTwice'
  BY <1>1, <1>2, <1>3, <1>5, <1>6 DEF SchedulerInv, NoneTwice, Queue
<1>12. ListsSorted'
  <2>1. ASSUME NEW d \in Cpu PROVE ListsOf(d)'
    <3>1. ListsOf(d)
      BY DEF SchedulerInv, ListsSorted
    <3>2. CASE d = c
      BY <1>1, <1>2, <1>3, <1>4, <1>5, <1>6, <3>1, <3>2 DEF ListsOf, Queue
    <3>3. CASE d # c
      BY <1>1, <1>2, <1>6, <3>1, <3>3 DEF ListsOf, Queue
    <3> QED
      BY <3>2, <3>3
  <2>2. ASSUME NEW u \in ToSet(wc_threads')
        PROVE  t_state'[u] = "S_SLEEP" /\ \A d \in Cpu : u \notin ToSet(job'[d].targets)
    BY <1>1, <1>2, <1>3, <2>2 DEF SchedulerInv, ListsSorted
  <2> QED
    BY <2>1, <2>2 DEF ListsSorted
<1>13. CurrentSane'
  <2> SUFFICES ASSUME NEW d \in Cpu PROVE CurrentOf(d)'
    BY DEF CurrentSane
  <2>1. CurrentOf(d)
    BY DEF SchedulerInv, CurrentSane
  <2>2. CASE d = c
    BY <1>1, <1>2, <2>1, <2>2 DEF CurrentOf, Cur
  <2>3. CASE d # c
    BY <1>1, <1>2, <1>6, <2>1, <2>3 DEF CurrentOf, Cur, Queue
  <2> QED
    BY <2>2, <2>3
<1>14. Placed'
  <2> SUFFICES ASSUME NEW u \in Thread PROVE InPlace(u)'
    BY DEF Placed
  <2>1. t_cpu[u] \in Cpu /\ InPlace(u)
    BY DEF SchedulerInv, TypeOK, Placed
  <2>2. \A d \in Cpu : u \in ToSet(Queue(d)) => u \in ToSet(c_runqueue'[d])
    BY <1>5, <1>6
  <2>3. \A d \in Cpu : u \in ToSet(job[d].targets) =>
          \/ d # c /\ u \in ToSet(job'[d].targets)
          \/ d = c /\ t_state[u] = "S_READY" /\ t_cpu[u] = c /\ u \in ToSet(c_runqueue'[c])
    BY <1>2, <1>4, <1>5, <1>6
  <2>4. pc[t_cpu[u]] = "finish" => pc'[t_cpu[u]] = "finish"
    BY <1>1, <1>2, <2>1
  <2> QED
    BY <1>1, <2>1, <2>2, <2>3, <2>4 DEF InPlace, Cur, Queue
<1> QED
  BY <1>7, <1>8, <1>9, <1>10, <1>11, <1>12, <1>13, <1>14 DEF SchedulerInv

(* thread_consider_migration gives another processor what fits of its      *)
(* victims; curthread, if it is among them, goes to the end of the list.   *)
LEMMA MigrateGiveInv ==
    ASSUME SchedulerInv, NEW c \in Cpu, MigrateGive(c)
    PROVE  SchedulerInv'
<1> DEFINE i == job[c].i
           v == job[c].targets
           turns == Turns(c, Max({0, job[c].share - Len(Queue(i))}))
           taken == SubSeq(v, 1, turns)
           given == Movable(c, taken)
           rest == SubSeq(v, turns + 1, Len(v))
           skipped == IF Fixed(c, taken) = {} THEN <<>> ELSE <<Cur(c)>>
           left == rest \o skipped
<1>1. /\ pc[c] = "give" /\ i < NumCpus /\ i \in Cpu
      /\ job[c] \in Job /\ v \in Seq(Thread) /\ IsInjective(v)
      /\ job[c].send \in Nat /\ job[c].share \in Nat /\ job[c].send <= Len(v)
      /\ Len(v) \in Nat
  <2>1. pc[c] = "give" /\ i < NumCpus
    BY DEF MigrateGive, At
  <2>2. job[c] \in Job /\ v \in Seq(Thread) /\ IsInjective(v)
    BY AtCpu
  <2>3. i \in 0 .. NumCpus /\ job[c].send \in Nat /\ job[c].share \in Nat
    BY <2>2 DEF Job
  <2> QED
    BY <2>1, <2>2, <2>3, CpuFacts DEF SchedulerInv, JobFits
<1>2. UNCHANGED <<t_state, saved, c_curthread, c_zombies, c_isidle, rqlock,
                  wc_threads, wclock, pc, panicked>>
  BY DEF MigrateGive
<1>3. CASE i = c
  <2> DEFINE new == [job[c] EXCEPT !.i = i + 1]
  <2>1. job' = [job EXCEPT ![c] = new] /\ UNCHANGED <<t_cpu, c_runqueue, c_ipi_pending>>
    BY <1>3 DEF MigrateGive
  <2>2. new \in Job /\ new.targets = v /\ new.send = job[c].send
    <3>1. i + 1 \in 0 .. NumCpus
      BY <1>1, CpuFacts
    <3> QED
      BY <1>1, <3>1 DEF Job
  <2> HIDE DEF new
  <2>3. /\ job' \in [Cpu -> Job] /\ job'[c].targets = v /\ job'[c].send = job[c].send
        /\ \A d \in Cpu : d # c => job'[d] = job[d]
    BY <2>1, <2>2 DEF SchedulerInv, TypeOK
  <2>4. TypeOK' /\ NoPanic' /\ LocksHeld' /\ IdleFlag' /\ NoLostUnidle'
    BY <1>2, <2>1, <2>3 DEF SchedulerInv, TypeOK, NoPanic, LocksHeld, IdleFlag,
                            NoLostUnidle, Queue
  <2>5. JobFits'
    BY <1>1, <1>2, <2>1, <2>3 DEF SchedulerInv, JobFits, Queue
  <2>6. NoneTwice' /\ ListsSorted' /\ CurrentSane' /\ Placed'
    BY <1>2, <2>1, <2>3, NothingMoves
  <2> QED
    BY <2>4, <2>5, <2>6 DEF SchedulerInv
<1>4. CASE i # c
  <2>1. /\ rqlock[i] = Unlocked
        /\ c_runqueue' = [c_runqueue EXCEPT ![i] = @ \o given]
        /\ t_cpu' = NewCpu(given, i)
        /\ c_ipi_pending' = [c_ipi_pending EXCEPT
                               ![i] = @ \/ (given # <<>> /\ Unidled(i))]
        /\ job' = [job EXCEPT ![c].i = i + 1, ![c].send = @ - turns, ![c].targets = left]
    BY <1>4 DEF MigrateGive
  <2>2. turns \in 0 .. Len(v) /\ job[c].send - turns \in Nat
        /\ job[c].send - turns <= Len(v) - turns
    <3> DEFINE room == job[c].share - Len(Queue(i))
    <3>0. room \in Int
      BY <1>1, AtCpu
    <3> HIDE DEF room
    <3>1. Max({0, room}) \in Nat
      BY <3>0, NotNegative
    <3>2. turns \in 0 .. job[c].send
      BY <1>1, <3>1, TurnsFit DEF room
    <3> QED
      BY <1>1, <3>2
  <2> HIDE DEF turns, v
  <2>3. /\ taken \in Seq(Thread) /\ rest \in Seq(Thread)
        /\ IsInjective(taken) /\ IsInjective(rest)
        /\ ToSet(v) = ToSet(taken) \cup ToSet(rest) /\ ToSet(taken) \cap ToSet(rest) = {}
        /\ Len(rest) = Len(v) - turns
    BY <1>1, <2>2, Split
  <2> HIDE DEF taken, rest
  <2>4. /\ Fixed(c, taken) = {} <=> Cur(c) \notin ToSet(taken)
        /\ given \in Seq(Thread) /\ IsInjective(given)
        /\ ToSet(given) = ToSet(taken) \ {Cur(c)}
    BY <2>3, WithoutCurrent
  <2> HIDE DEF given
  <2>5. /\ skipped \in Seq(Thread) /\ IsInjective(skipped) /\ Len(skipped) \in Nat
        /\ ToSet(skipped) = ToSet(taken) \cap {Cur(c)}
    <3>1. CASE Cur(c) \notin ToSet(taken)
      BY <2>4, <3>1 DEF ToSet, IsInjective
    <3>2. CASE Cur(c) \in ToSet(taken)
      BY <2>4, <3>2, AtCpu DEF ToSet, IsInjective
    <3> QED
      BY <3>1, <3>2
  <2> HIDE DEF skipped
  <2>6. /\ left \in Seq(Thread) /\ IsInjective(left)
        /\ ToSet(left) = ToSet(v) \ ToSet(given)
        /\ job[c].send - turns <= Len(left)
    <3>1. ToSet(rest) \cap ToSet(skipped) = {}
      BY <2>3, <2>5
    <3>2. /\ left \in Seq(Thread) /\ IsInjective(left)
          /\ ToSet(left) = ToSet(rest) \cup ToSet(skipped)
          /\ Len(left) = Len(rest) + Len(skipped)
      <4>1. rest \in Seq(Thread) /\ skipped \in Seq(Thread)
        BY <2>3, <2>5
      <4>2. IsInjective(rest) /\ IsInjective(skipped)
        BY <2>3, <2>5
      <4> QED
        BY <3>1, <4>1, <4>2, Joined
    <3>3. ToSet(left) = ToSet(v) \ ToSet(given)
      BY <2>3, <2>4, <2>5, <3>2
    <3>4. Len(rest) + Len(skipped) >= Len(v) - turns
      BY <1>1, <2>2, <2>3, <2>5 DEF v
    <3> QED
      BY <2>2, <3>2, <3>3, <3>4
  <2> HIDE DEF left
  <2>7. \A u \in ToSet(v) : /\ u \in Thread /\ t_state[u] = "S_READY" /\ t_cpu[u] = c
                            /\ u \notin ToSet(Queue(c))
    BY <1>1, AtCpu DEF SchedulerInv, ListsSorted, ListsOf, v
  <2>8. ToSet(given) \subseteq ToSet(v) /\ Cur(c) \notin ToSet(given)
    BY <2>3, <2>4
  <2>9. \A u \in ToSet(given) :
          /\ u \notin ToSet(wc_threads)
          /\ \A d \in Cpu : /\ u \notin ToSet(Queue(d)) /\ u \notin c_zombies[d]
                            /\ d # c => u \notin ToSet(job[d].targets)
                            /\ u # Cur(d)
    <3> SUFFICES ASSUME NEW u \in ToSet(given)
                 PROVE  /\ u \notin ToSet(wc_threads)
                        /\ \A d \in Cpu : /\ u \notin ToSet(Queue(d)) /\ u \notin c_zombies[d]
                                          /\ d # c => u \notin ToSet(job[d].targets)
                                          /\ u # Cur(d)
      OBVIOUS
    <3>1. u \in Thread /\ t_state[u] = "S_READY" /\ t_cpu[u] = c /\ u \notin ToSet(Queue(c))
      BY <2>7, <2>8
    <3>2. u \notin ToSet(wc_threads)
      BY <3>1 DEF SchedulerInv, ListsSorted
    <3>3. ASSUME NEW d \in Cpu
          PROVE  /\ u \notin ToSet(Queue(d)) /\ u \notin c_zombies[d]
                 /\ d # c => u \notin ToSet(job[d].targets)
      BY <3>1 DEF SchedulerInv, ListsSorted, ListsOf
    <3>4. ASSUME NEW d \in Cpu PROVE u # Cur(d)
      BY <2>8, <3>1, AtCpu
    <3> QED
      BY <3>2, <3>3, <3>4
  <2>10. /\ t_cpu' \in [Thread -> Cpu]
         /\ \A u \in ToSet(given) : t_cpu'[u] = i
         /\ \A u \in Thread : u \notin ToSet(given) => t_cpu'[u] = t_cpu[u]
    BY <1>1, <2>1, <2>7, <2>8 DEF NewCpu, SchedulerInv, TypeOK
  <2>11. /\ c_runqueue'[i] = Queue(i) \o given
         /\ \A d \in Cpu : d # i => c_runqueue'[d] = Queue(d)
    BY <1>1, <2>1 DEF SchedulerInv, TypeOK, Queue
  <2>12. /\ c_runqueue'[i] \in Seq(Thread) /\ IsInjective(c_runqueue'[i])
         /\ ToSet(c_runqueue'[i]) = ToSet(Queue(i)) \cup ToSet(given)
         /\ Len(c_runqueue'[i]) >= Len(Queue(i))
    <3>1. Queue(i) \in Seq(Thread) /\ IsInjective(Queue(i)) /\ Len(Queue(i)) \in Nat
      BY <1>1, AtCpu
    <3>2. ToSet(Queue(i)) \cap ToSet(given) = {}
      BY <1>1, <2>9
    <3>3. Len(given) \in Nat
      BY <2>4
    <3> QED
      BY <2>4, <2>11, <3>1, <3>2, <3>3, Joined
  <2> DEFINE new == [job[c] EXCEPT !.i = i + 1, !.send = job[c].send - turns, !.targets = left]
  <2>13. job' = [job EXCEPT ![c] = new]
    BY <2>1
  <2>14. new \in Job /\ new.targets = left /\ new.send = job[c].send - turns
    <3>1. i + 1 \in 0 .. NumCpus
      BY <1>1, CpuFacts
    <3> QED
      BY <1>1, <2>2, <2>6, <3>1 DEF Job
  <2> HIDE DEF new
  <2>15. /\ job' \in [Cpu -> Job] /\ job'[c].targets = left
         /\ job'[c].send = job[c].send - turns
         /\ \A d \in Cpu : d # c => job'[d] = job[d]
    BY <2>13, <2>14 DEF SchedulerInv, TypeOK
  <2> HIDE DEF i
  <2>16. TypeOK'
    <3>1. c_runqueue' \in [Cpu -> Seq(Thread)]
      BY <1>1, <2>1, <2>12 DEF SchedulerInv, TypeOK
    <3>2. c_ipi_pending' \in [Cpu -> BOOLEAN]
      BY <2>1 DEF SchedulerInv, TypeOK, Unidled
    <3> QED
      BY <1>2, <2>10, <2>15, <3>1, <3>2 DEF SchedulerInv, TypeOK
  <2>17. NoPanic' /\ LocksHeld' /\ IdleFlag'
    BY <1>2 DEF SchedulerInv, NoPanic, LocksHeld, IdleFlag
  <2>18. NoLostUnidle'
    <3> SUFFICES ASSUME NEW d \in Cpu, pc[d] = "idle", c_runqueue'[d] # <<>>
                 PROVE  c_ipi_pending'[d]
      BY <1>2 DEF NoLostUnidle, Queue
    <3>1. CASE d = i
      <4>1. Queue(i) # <<>> \/ given # <<>>
        BY <2>11, <3>1
      <4>2. c_isidle[i] /\ (Queue(i) # <<>> => c_ipi_pending[i])
        BY <3>1 DEF SchedulerInv, IdleFlag, NoLostUnidle
      <4> QED
        BY <2>1, <3>1, <4>1, <4>2 DEF SchedulerInv, TypeOK, Unidled
    <3>2. CASE d # i
      BY <2>1, <2>11, <3>2 DEF SchedulerInv, TypeOK, NoLostUnidle
    <3> QED
      BY <3>1, <3>2
  <2>19. JobFits'
    <3>1. \A d \in Cpu : /\ job[d].send <= Len(Queue(d)) => job[d].send <= Len(c_runqueue'[d])
                         /\ job[d].my <= Len(Queue(d)) => job[d].my <= Len(c_runqueue'[d])
      <4> TAKE d \in Cpu
      <4>1. job[d].send \in Nat /\ job[d].my \in Nat /\ Len(Queue(d)) \in Nat
        BY AtCpu DEF Job
      <4>2. CASE d = i
        <5>1. Len(c_runqueue'[d]) \in Nat /\ Len(c_runqueue'[d]) >= Len(Queue(d))
          BY <2>12, <4>2
        <5> QED
          BY <4>1, <5>1
      <4>3. CASE d # i
        BY <2>11, <4>3
      <4> QED
        BY <4>2, <4>3
    <3>2. job'[c].send <= Len(job'[c].targets)
      BY <2>6, <2>15
    <3> QED
      BY <1>1, <1>2, <2>15, <3>1, <3>2 DEF SchedulerInv, JobFits, Queue
  <2>20. NoneTwice'
    BY <1>2, <2>6, <2>11, <2>12, <2>15 DEF SchedulerInv, NoneTwice, Queue
  <2>21. ListsSorted'
    <3>1. ASSUME NEW d \in Cpu, NEW u \in ToSet(c_runqueue'[d])
          PROVE  t_state[u] = "S_READY" /\ t_cpu'[u] = d
      <4>1. CASE u \in ToSet(given)
        <5>1. d = i
          BY <2>9, <2>11, <3>1, <4>1
        <5> QED
          BY <2>7, <2>8, <2>10, <4>1, <5>1
      <4>2. CASE u \notin ToSet(given)
        <5>1. u \in ToSet(Queue(d)) /\ u \in Thread
          BY <2>11, <2>12, <3>1, <4>2, AtCpu
        <5> QED
          BY <2>10, <4>2, <5>1 DEF SchedulerInv, ListsSorted, ListsOf
      <4> QED
        BY <4>1, <4>2
    <3>2. ASSUME NEW d \in Cpu, NEW u \in ToSet(job'[d].targets)
          PROVE  /\ pc[d] = "wake" => t_state[u] = "S_SLEEP"
                 /\ pc[d] # "wake" => /\ t_state[u] = "S_READY" /\ t_cpu'[u] = d
                                      /\ u \notin ToSet(c_runqueue'[d])
      <4>1. u \in ToSet(job[d].targets) /\ u \notin ToSet(given) /\ u \in Thread
        BY <2>6, <2>9, <2>15, <3>2, AtCpu DEF v
      <4>2. u \in ToSet(c_runqueue'[d]) => u \in ToSet(Queue(d))
        BY <2>11, <2>12, <4>1
      <4> QED
        BY <2>10, <4>1, <4>2 DEF SchedulerInv, ListsSorted, ListsOf
    <3>3. ASSUME NEW d \in Cpu, NEW u \in c_zombies[d]
          PROVE  t_state[u] = "S_ZOMBIE" /\ t_cpu'[u] = d
      <4>1. u \in Thread /\ u \notin ToSet(given)
        BY <2>9, <3>3 DEF SchedulerInv, TypeOK
      <4> QED
        BY <2>10, <3>3, <4>1 DEF SchedulerInv, ListsSorted, ListsOf
    <3>4. ASSUME NEW u \in ToSet(wc_threads)
          PROVE  t_state[u] = "S_SLEEP" /\ \A d \in Cpu : u \notin ToSet(job'[d].targets)
      <4>1. t_state[u] = "S_SLEEP" /\ \A d \in Cpu : u \notin ToSet(job[d].targets)
        BY <3>4 DEF SchedulerInv, ListsSorted
      <4> QED
        BY <2>6, <2>15, <4>1 DEF v
    <3> QED
      BY <1>2, <3>1, <3>2, <3>3, <3>4 DEF ListsSorted, ListsOf, Queue
  <2>22. CurrentSane'
    <3> SUFFICES ASSUME NEW d \in Cpu PROVE CurrentOf(d)'
      BY DEF CurrentSane
    <3>1. CurrentOf(d) /\ Cur(d) \in Thread /\ Cur(d) \notin ToSet(given)
      BY <2>9, AtCpu DEF SchedulerInv, CurrentSane
    <3>2. Cur(d) \in ToSet(c_runqueue'[d]) => Cur(d) \in ToSet(Queue(d))
      BY <2>11, <2>12, <3>1
    <3> QED
      BY <1>2, <2>10, <3>1, <3>2 DEF CurrentOf, Cur, Queue
  <2>23. Placed'
    <3> SUFFICES ASSUME NEW u \in Thread PROVE InPlace(u)'
      BY DEF Placed
    <3>1. t_cpu[u] \in Cpu /\ InPlace(u)
      BY DEF SchedulerInv, TypeOK, Placed
    <3>2. CASE u \in ToSet(given)
      <4>1. t_state[u] = "S_READY" /\ t_cpu[u] = c /\ Cur(c) # u
        BY <2>7, <2>8, <3>2
      <4>2. saved[u]
        BY <3>1, <4>1 DEF InPlace
      <4>3. t_cpu'[u] = i /\ u \in ToSet(c_runqueue'[i])
        BY <2>10, <2>12, <3>2
      <4> QED
        BY <1>2, <4>1, <4>2, <4>3 DEF InPlace, Queue
    <3>3. CASE u \notin ToSet(given)
      <4>1. t_cpu'[u] = t_cpu[u]
        BY <2>10, <3>3
      <4>2. u \in ToSet(Queue(t_cpu[u])) => u \in ToSet(c_runqueue'[t_cpu[u]])
        BY <2>11, <2>12, <3>1
      <4>3. \A d \in Cpu : u \in ToSet(job[d].targets) => u \in ToSet(job'[d].targets)
        BY <2>6, <2>15, <3>3 DEF v
      <4> QED
        BY <1>2, <3>1, <4>1, <4>2, <4>3 DEF InPlace, Cur, Queue
    <3> QED
      BY <3>2, <3>3
  <2> QED
    BY <2>16, <2>17, <2>18, <2>19, <2>20, <2>21, <2>22, <2>23 DEF SchedulerInv
<1> QED
  BY <1>3, <1>4

-----------------------------------------------------------------------------
LEMMA StutterInv ==
    ASSUME SchedulerInv, UNCHANGED vars
    PROVE  SchedulerInv'
<1> USE DEF vars
<1>1. TypeOK' /\ NoPanic' /\ LocksHeld' /\ IdleFlag' /\ NoLostUnidle'
  BY DEF SchedulerInv, TypeOK, NoPanic, LocksHeld, IdleFlag, NoLostUnidle, Queue
<1>2. JobFits'
  BY DEF SchedulerInv, JobFits, Queue
<1>3. NoneTwice' /\ ListsSorted' /\ CurrentSane' /\ Placed'
  BY NothingMoves
<1> QED
  BY <1>1, <1>2, <1>3 DEF SchedulerInv

LEMMA StepInv == SchedulerInv /\ [Next]_vars => SchedulerInv'
<1> SUFFICES ASSUME SchedulerInv, [Next]_vars PROVE SchedulerInv'
  OBVIOUS
<1>1. CASE UNCHANGED vars
  BY <1>1, StutterInv
<1>2. CASE Next
  <2>1. PICK c \in Cpu :
          \/ Fork(c) \/ Yield(c) \/ BeginSleep(c) \/ SwitchSleep(c) \/ Exit(c)
          \/ SwitchTo(c) \/ GoIdle(c) \/ Relock(c) \/ Finish(c)
          \/ Interprocessor(c) \/ ClockIdle(c)
          \/ WakeStart(c) \/ WakeNext(c) \/ WakeDone(c)
          \/ MigrateStart(c) \/ MigrateCount(c) \/ MigrateTake(c)
          \/ MigrateGive(c) \/ MigrateGiven(c) \/ MigratePutBack(c)
    BY <1>2 DEF Next
  <2>2. CASE Fork(c) \/ Yield(c) \/ BeginSleep(c) \/ SwitchSleep(c) \/ Exit(c)
    BY <2>2, ForkInv, YieldInv, BeginSleepInv, SwitchSleepInv, ExitInv
  <2>3. CASE SwitchTo(c) \/ GoIdle(c) \/ Relock(c) \/ Finish(c)
    BY <2>3, SwitchToInv, GoIdleInv, RelockInv, FinishInv
  <2>4. CASE Interprocessor(c) \/ ClockIdle(c)
    BY <2>4, InterprocessorInv, ClockIdleInv
  <2>5. CASE WakeStart(c) \/ WakeNext(c) \/ WakeDone(c)
    BY <2>5, WakeStartInv, WakeNextInv, WakeDoneInv
  <2>6. CASE MigrateStart(c) \/ MigrateCount(c) \/ MigrateTake(c)
    BY <2>6, MigrateStartInv, MigrateCountInv, MigrateTakeInv
  <2>7. CASE MigrateGive(c) \/ MigrateGiven(c) \/ MigratePutBack(c)
    BY <2>7, MigrateGiveInv, MigrateGivenInv, MigratePutBackInv
  <2> QED
    BY <2>1, <2>2, <2>3, <2>4, <2>5, <2>6, <2>7
<1> QED
  BY <1>1, <1>2

(* The inductive invariant holds, for any number of processors, threads    *)
(* and turns of the clock: the locks, flags, lists and stale counts of     *)
(* thread.c agree with what each processor is at.                          *)
THEOREM SchedulerInvariant == Spec => []SchedulerInv
BY InitInv, StepInv, PTL DEF Spec

(* No assertion of thread_switch, thread_make_runnable, exorcise or        *)
(* spinlock_release fails, and no stale context is ever resumed.           *)
THEOREM NoAssertionFails == Spec => []NoPanic
<1>1. SchedulerInv => NoPanic
  BY DEF SchedulerInv
<1> QED
  BY <1>1, SchedulerInvariant, PTL

(* switchframe_switch never loads a context that was not saved: why the    *)
(* migration code leaves curthread alone.                                  *)
THEOREM QueuedContextsSaved == Spec => []ContextSaved
<1>1. SchedulerInv => ContextSaved
  <2> SUFFICES ASSUME SchedulerInv, NEW t \in Thread, NEW c \in Cpu,
                      t_state[t] # "none", ~saved[t], t \in ToSet(Queue(c))
               PROVE  Cur(c) = t
    BY DEF ContextSaved
  <2>1. t_cpu[t] = c
    BY DEF SchedulerInv, ListsSorted, ListsOf
  <2> QED
    BY <2>1 DEF SchedulerInv, Placed, InPlace
<1> QED
  BY <1>1, SchedulerInvariant, PTL

(* curcpu, which thread_switch and the interrupt code read through         *)
(* curthread, is the processor they run on.                                *)
THEOREM CurCpuIsThisCpu == Spec => []CurCpu
<1>1. SchedulerInv => CurCpu
  BY AtCpu DEF CurCpu, SchedulerInv, ListsSorted, ListsOf
<1> QED
  BY <1>1, SchedulerInvariant, PTL

(* A processor that idles with work on its run queue has an IPI_UNIDLE     *)
(* coming: thread_make_runnable and the migration never lose one.          *)
THEOREM IdleIsInterrupted == Spec => []NoLostUnidle
<1>1. SchedulerInv => NoLostUnidle
  BY DEF SchedulerInv
<1> QED
  BY <1>1, SchedulerInvariant, PTL

-----------------------------------------------------------------------------
LEMMA PlaceInList ==
    ASSUME NEW list, NEW s \in Seq(Thread), IsInjective(s), NEW t
    PROVE  /\ t \notin ToSet(s) => PlacesIn(list, s, t) = {}
           /\ t \in ToSet(s) => \E x : PlacesIn(list, s, t) = {x}
<1>1. DOMAIN s = 1 .. Len(s) /\ \A k \in DOMAIN s : s[k] \in ToSet(s)
  BY DEF ToSet
<1>2. CASE t \notin ToSet(s)
  BY <1>1, <1>2 DEF PlacesIn
<1>3. CASE t \in ToSet(s)
  <2>1. PICK k \in DOMAIN s : s[k] = t
    BY <1>3 DEF ToSet
  <2>2. {j \in DOMAIN s : s[j] = t} = {k}
    BY <2>1 DEF IsInjective
  <2>3. PlacesIn(list, s, t) = {<<list, k>>}
    BY <2>2 DEF PlacesIn
  <2> QED
    BY <1>3, <2>3
<1> QED
  BY <1>2, <1>3

(* The four kinds of list a thread can be on.                              *)
LEMMA PlacesOf ==
    ASSUME SchedulerInv, NEW t \in Thread
    PROVE  /\ \A x : x \in Places(t) <=>
                 \/ \E d \in Cpu : x \in PlacesIn(<<"queue", d>>, Queue(d), t)
                 \/ \E d \in Cpu : x \in PlacesIn(<<"targets", d>>, job[d].targets, t)
                 \/ x \in PlacesIn(<<"wchan", 0>>, wc_threads, t)
                 \/ \E d \in Cpu : t \in c_zombies[d] /\ x = <<"zombie", d>>
           /\ \A d \in Cpu : t \notin ToSet(Queue(d)) =>
                                 PlacesIn(<<"queue", d>>, Queue(d), t) = {}
           /\ \A d \in Cpu : t \notin ToSet(job[d].targets) =>
                                 PlacesIn(<<"targets", d>>, job[d].targets, t) = {}
           /\ t \notin ToSet(wc_threads) => PlacesIn(<<"wchan", 0>>, wc_threads, t) = {}
<1>1. \A x : x \in Places(t) <=>
                 \/ \E d \in Cpu : x \in PlacesIn(<<"queue", d>>, Queue(d), t)
                 \/ \E d \in Cpu : x \in PlacesIn(<<"targets", d>>, job[d].targets, t)
                 \/ x \in PlacesIn(<<"wchan", 0>>, wc_threads, t)
                 \/ \E d \in Cpu : t \in c_zombies[d] /\ x = <<"zombie", d>>
  <2> DEFINE Q == UNION {PlacesIn(<<"queue", d>>, Queue(d), t) : d \in Cpu}
             V == UNION {PlacesIn(<<"targets", d>>, job[d].targets, t) : d \in Cpu}
             W == PlacesIn(<<"wchan", 0>>, wc_threads, t)
             Z == {<<"zombie", d>> : d \in {e \in Cpu : t \in c_zombies[e]}}
  <2>1. \A x : x \in Q <=> \E d \in Cpu : x \in PlacesIn(<<"queue", d>>, Queue(d), t)
    OBVIOUS
  <2>2. \A x : x \in V <=>
            \E d \in Cpu : x \in PlacesIn(<<"targets", d>>, job[d].targets, t)
    OBVIOUS
  <2>3. \A x : x \in Z <=> \E d \in Cpu : t \in c_zombies[d] /\ x = <<"zombie", d>>
    OBVIOUS
  <2>4. Places(t) = Q \cup V \cup W \cup Z
    BY DEF Places
  <2> HIDE DEF Q, V, Z
  <2> QED
    BY <2>1, <2>2, <2>3, <2>4
<1> QED
  BY <1>1, Lists, PlaceInList

(* A thread that is free or running is on no list...                       *)
LEMMA NowhereElse ==
    ASSUME SchedulerInv, NEW t \in Thread, t_state[t] = "none" \/ Running(t)
    PROVE  Places(t) = {}
<1>1. /\ t \notin ToSet(wc_threads)
      /\ \A d \in Cpu : /\ t \notin ToSet(Queue(d)) /\ t \notin ToSet(job[d].targets)
                        /\ t \notin c_zombies[d]
  <2>1. CASE t_state[t] \in {"none", "S_RUN"}
    BY <2>1 DEF SchedulerInv, ListsSorted, ListsOf
  <2>2. CASE t_state[t] \notin {"none", "S_RUN"}
    <3>1. PICK c \in Cpu : Cur(c) = t /\ ~c_isidle[c]
      BY <2>2 DEF Running
    <3>2. /\ t_cpu[t] = c /\ pc[c] = "finish" /\ t_state[t] = "S_READY"
          /\ t \notin ToSet(Queue(c)) /\ job[c].targets = <<>>
      BY <2>2, <3>1 DEF SchedulerInv, CurrentSane, CurrentOf, JobFits
    <3>3. t \notin ToSet(wc_threads)
      BY <3>2 DEF SchedulerInv, ListsSorted
    <3>4. ASSUME NEW d \in Cpu
          PROVE  t \notin ToSet(Queue(d)) /\ t \notin c_zombies[d]
      BY <3>2 DEF SchedulerInv, ListsSorted, ListsOf
    <3>5. ASSUME NEW d \in Cpu, t \in ToSet(job[d].targets) PROVE FALSE
      <4>1. d = c
        BY <3>2, <3>5 DEF SchedulerInv, ListsSorted, ListsOf
      <4> QED
        BY <3>2, <3>5, <4>1 DEF ToSet
    <3> QED
      BY <3>3, <3>4, <3>5
  <2> QED
    BY <2>1, <2>2
<1> QED
  BY <1>1, PlacesOf

LEMMA JustOne ==
    ASSUME NEW S, NEW x, \A y : y \in S <=> y = x
    PROVE  \E z : S = {z}
<1>1. S = {x}
  OBVIOUS
<1> QED
  BY <1>1

(* ...and any other is on just one of them, once.                          *)
LEMMA Somewhere ==
    ASSUME SchedulerInv, NEW t \in Thread, t_state[t] # "none", ~Running(t)
    PROVE  \E x : Places(t) = {x}
<1> DEFINE c == t_cpu[t]
<1>1. c \in Cpu /\ InPlace(t) /\ t_state[t] \in {"S_RUN", "S_READY", "S_SLEEP", "S_ZOMBIE"}
  BY DEF SchedulerInv, TypeOK, Placed
<1>2. /\ t \in ToSet(wc_threads) => /\ t_state[t] = "S_SLEEP"
                                    /\ \A d \in Cpu : t \notin ToSet(job[d].targets)
      /\ \A d \in Cpu :
           /\ t \in ToSet(Queue(d)) => t_state[t] = "S_READY" /\ d = c
           /\ t \in ToSet(job[d].targets) =>
                 \/ pc[d] = "wake" /\ t_state[t] = "S_SLEEP"
                 \/ /\ t_state[t] = "S_READY" /\ d = c
                    /\ t \notin ToSet(Queue(d))
           /\ t \in c_zombies[d] => t_state[t] = "S_ZOMBIE" /\ d = c
  <2>1. t \in ToSet(wc_threads) => /\ t_state[t] = "S_SLEEP"
                                   /\ \A d \in Cpu : t \notin ToSet(job[d].targets)
    BY DEF SchedulerInv, ListsSorted
  <2>2. ASSUME NEW d \in Cpu PROVE ListsOf(d)
    BY DEF SchedulerInv, ListsSorted
  <2> QED
    BY <2>1, <2>2 DEF ListsOf
<1> HIDE DEF c
<1>3. CASE t_state[t] = "S_RUN"
  BY <1>1, <1>3 DEF InPlace, Running, c
<1>4. CASE t_state[t] = "S_READY" /\ t \in ToSet(Queue(c))
  <2>1. PICK x : PlacesIn(<<"queue", c>>, Queue(c), t) = {x}
    BY <1>1, <1>4, Lists, PlaceInList
  <2>2. /\ t \notin ToSet(wc_threads)
        /\ \A d \in Cpu : /\ d # c => t \notin ToSet(Queue(d))
                          /\ t \notin ToSet(job[d].targets) /\ t \notin c_zombies[d]
    BY <1>2, <1>4
  <2>3. \A y : y \in Places(t) <=> y = x
    BY <1>1, <2>1, <2>2, PlacesOf
  <2> QED
    BY <2>3, JustOne
<1>5. CASE t_state[t] = "S_READY" /\ t \notin ToSet(Queue(c))
  <2>1. t \in ToSet(job[c].targets)
    <3>1. ~(Cur(c) = t /\ pc[c] = "finish")
      BY <1>1 DEF Running, SchedulerInv, IdleFlag
    <3> QED
      BY <1>1, <1>5, <3>1 DEF InPlace, c
  <2>2. PICK x : PlacesIn(<<"targets", c>>, job[c].targets, t) = {x}
    BY <1>1, <2>1, Lists, PlaceInList
  <2>3. /\ t \notin ToSet(wc_threads)
        /\ \A d \in Cpu : /\ d # c => t \notin ToSet(job[d].targets)
                          /\ t \notin ToSet(Queue(d)) /\ t \notin c_zombies[d]
    BY <1>2, <1>5
  <2>4. \A y : y \in Places(t) <=> y = x
    BY <1>1, <2>2, <2>3, PlacesOf
  <2> QED
    BY <2>4, JustOne
<1>6. CASE t_state[t] = "S_SLEEP" /\ t \in ToSet(wc_threads)
  <2>1. PICK x : PlacesIn(<<"wchan", 0>>, wc_threads, t) = {x}
    BY <1>6, Lists, PlaceInList
  <2>2. \A d \in Cpu : /\ t \notin ToSet(job[d].targets)
                       /\ t \notin ToSet(Queue(d)) /\ t \notin c_zombies[d]
    BY <1>2, <1>6
  <2>3. \A y : y \in Places(t) <=> y = x
    BY <2>1, <2>2, PlacesOf
  <2> QED
    BY <2>3, JustOne
<1>7. CASE t_state[t] = "S_SLEEP" /\ t \notin ToSet(wc_threads)
  <2>1. PICK e \in Cpu : t \in ToSet(job[e].targets)
    BY <1>1, <1>7 DEF InPlace
  <2>2. PICK x : PlacesIn(<<"targets", e>>, job[e].targets, t) = {x}
    BY <2>1, Lists, PlaceInList
  <2>3. \A d \in Cpu : t \in ToSet(job[d].targets) => pc[d] = "wake"
    BY <1>2, <1>7
  <2>4. \A d \in Cpu : t \in ToSet(job[d].targets) => wclock = d
    BY <2>3 DEF SchedulerInv, LocksHeld
  <2>5. \A d \in Cpu : /\ d # e => t \notin ToSet(job[d].targets)
                       /\ t \notin ToSet(Queue(d)) /\ t \notin c_zombies[d]
    BY <1>2, <1>7, <2>1, <2>4
  <2>6. \A y : y \in Places(t) <=> y = x
    BY <1>7, <2>1, <2>2, <2>5, PlacesOf
  <2>7. Places(t) = {x}
    BY <2>6
  <2> QED
    BY <2>7
<1>8. CASE t_state[t] = "S_ZOMBIE"
  <2>1. t \in c_zombies[c]
    BY <1>1, <1>8 DEF InPlace, c
  <2>2. /\ t \notin ToSet(wc_threads)
        /\ \A d \in Cpu : /\ d # c => t \notin c_zombies[d]
                          /\ t \notin ToSet(Queue(d)) /\ t \notin ToSet(job[d].targets)
    BY <1>2, <1>8
  <2> DEFINE x == <<"zombie", c>>
  <2>3. \A y : y \in Places(t) <=> y = x
    BY <1>1, <2>1, <2>2, PlacesOf
  <2> HIDE DEF x
  <2> QED
    BY <2>3, JustOne
<1> QED
  BY <1>1, <1>3, <1>4, <1>5, <1>6, <1>7, <1>8

(* A thread is in one place: on one processor, or once on one list, and    *)
(* never on the stack of a thread another processor is on.                 *)
THEOREM ThreadInOnePlace == Spec => []OnePlace
<1>1. SchedulerInv => OnePlace
  <2> SUFFICES ASSUME SchedulerInv, NEW t \in Thread
               PROVE  /\ Cardinality(Places(t)) =
                             IF t_state[t] = "none" \/ Running(t) THEN 0 ELSE 1
                      /\ t_state[t] = "none" => \A c \in Cpu : Cur(c) # t
                      /\ Cardinality({c \in Cpu : Cur(c) = t}) <= 1
    BY DEF OnePlace
  <2>1. Cardinality(Places(t)) = IF t_state[t] = "none" \/ Running(t) THEN 0 ELSE 1
    <3>1. CASE t_state[t] = "none" \/ Running(t)
      BY <3>1, NowhereElse, FS_EmptySet
    <3>2. CASE ~(t_state[t] = "none" \/ Running(t))
      BY <3>2, Somewhere, FS_Singleton
    <3> QED
      BY <3>1, <3>2
  <2>2. t_state[t] = "none" => \A c \in Cpu : Cur(c) # t
    BY AtCpu
  <2>3. Cardinality({c \in Cpu : Cur(c) = t}) <= 1
    <3> DEFINE on == {c \in Cpu : Cur(c) = t}
    <3>1. on = {} \/ \E c : on = {c}
      <4>1. \A c \in on : c = t_cpu[t]
        BY AtCpu
      <4> QED
        BY <4>1
    <3>2. Cardinality(on) \in {0, 1}
      BY <3>1, FS_EmptySet, FS_Singleton
    <3> QED
      BY <3>2
  <2> QED
    BY <2>1, <2>2, <2>3
<1> QED
  BY <1>1, SchedulerInvariant, PTL
=============================================================================
