--------------------------- MODULE PidTableProofs ---------------------------
(***************************************************************************)
(* PidInv is an inductive invariant of PidTable, for every set of          *)
(* processes and every size of the table and of the pid range.             *)
(***************************************************************************)
EXTENDS PidTable, TLAPS, FiniteSetTheorems, WellFoundedInduction

(* Arithmetic: pid % PROCS_MAX is a slot, the wrapping counter a pid. *)
LEMMA Wraps ==
    /\ \A pid \in Int : SlotOf(pid) \in Slot
    /\ \A pid, k \in Int : inc_nextpid(pid, k) \in UserPid
  BY ConstantsAssumption DEF SlotOf, Slot, KernelPid, inc_nextpid, UserPid

(* The pids, and the values that are none. *)
LEMMA Pids ==
    /\ Pid \subseteq Int /\ UserPid \subseteq Pid /\ InvalidPid \in Int
    /\ InvalidPid \notin Pid /\ KernelPid \in Pid /\ KernelPid \notin UserPid
  BY ConstantsAssumption DEF Pid, UserPid, KernelPid, InvalidPid

(* The kernel has slot 1; the slots are PROCS_MAX. *)
LEMMA Slots ==
    /\ SlotOf(KernelPid) = KernelPid /\ KernelPid \in Slot
    /\ IsFiniteSet(Slot) /\ Cardinality(Slot) = ProcsMax
<1>1. SlotOf(KernelPid) = KernelPid /\ KernelPid \in Slot
  BY ConstantsAssumption DEF SlotOf, KernelPid, Slot
<1>2. IsFiniteSet(Slot) /\ Cardinality(Slot) = ProcsMax
  BY FS_Interval, ConstantsAssumption DEF Slot, KernelPid
<1> QED
  BY <1>1, <1>2

(* pi_get finds an entry exactly when the slot holds that very pid. *)
LEMMA Found ==
    ASSUME TypeOK, NEW pid \in Pid
    PROVE  /\ pi_get(pid) # NULL <=>
                /\ pidinfo[SlotOf(pid)] # NULL
                /\ pidinfo[SlotOf(pid)].pi_pid = pid
           /\ pi_get(pid) # NULL => /\ pi_get(pid) = pidinfo[SlotOf(pid)]
                                    /\ pi_get(pid) \in PidInfo
                                    /\ SlotOf(pid) \in Occupied
  BY Wraps, Pids, NullAssumption DEF TypeOK, pi_get, Occupied

(* Every entry in the table has a type. *)
LEMMA EntryType ==
    ASSUME TypeOK, NEW i \in Occupied
    PROVE  /\ i \in Slot /\ pidinfo[i] \in PidInfo
           /\ pidinfo[i].pi_pid \in Pid
           /\ pidinfo[i].pi_ppid \in Pid \cup {InvalidPid}
           /\ pidinfo[i].pi_exited \in BOOLEAN
  BY DEF TypeOK, Occupied, PidInfo

(* A table's entries are finitely many, at most one to a slot. *)
LEMMA CountBound ==
    ASSUME NEW table,
           NEW entries, entries = {i \in Slot : table[i] # NULL}
    PROVE  IsFiniteSet(entries) /\ Cardinality(entries) \in 0 .. ProcsMax
<1>1. entries \in SUBSET Slot
  OBVIOUS
<1>2. IsFiniteSet(entries) /\ Cardinality(entries) <= ProcsMax
  BY <1>1, Slots, FS_Subset
<1>3. Cardinality(entries) \in Nat
  BY <1>2, FS_CardinalityType
<1> QED
  BY <1>2, <1>3, ConstantsAssumption

(* The inductive invariant holds at boot, after pid_bootstrap. *)
THEOREM InitInv == Init => PidInv
<1> SUFFICES ASSUME Init PROVE PidInv
  OBVIOUS
<1> USE Wraps, Pids, Slots, ConstantsAssumption, NullAssumption
<1>1. pidinfo_create(KernelPid, InvalidPid) \in PidInfo
  BY DEF pidinfo_create, PidInfo, Pid
<1>2. Occupied = {KernelPid}
  BY <1>1 DEF Init, Occupied
<1>3. CountExact
  BY <1>2, FS_Singleton DEF CountExact, Init
<1>4. TypeOK
  <2>1. pidinfo \in [Slot -> PidInfo \cup {NULL}]
    BY <1>1 DEF Init
  <2>2. nprocs \in 0 .. ProcsMax
    BY <1>3, CountBound DEF CountExact, Occupied
  <2>3. nextpid \in UserPid
    BY DEF Init, UserPid
  <2>4. ret \in [Proc -> Return]
    BY DEF Init, Return, Value, Errno
  <2> QED
    BY <2>1, <2>2, <2>3, <2>4 DEF TypeOK, Init, PState, Pid
<1>5. EntryOwned /\ ParentAlive
  BY <1>2 DEF EntryOwned, ParentAlive, Init, pidinfo_create, KernelPid, InvalidPid
<1>6. PidsDistinct /\ PidWhileAlive
  BY DEF PidsDistinct, PidWhileAlive, Init, InvalidPid, KernelPid
<1>7. ProcHasEntry
  BY <1>1 DEF ProcHasEntry, Init, pi_get, pidinfo_create
<1>8. WaiterSafe /\ ForkOwnsEmbryo /\ NoPanic
  BY DEF WaiterSafe, ForkOwnsEmbryo, NoPanic, Init
<1> QED
  BY <1>3, <1>4, <1>5, <1>6, <1>7, <1>8 DEF PidInv

(* A process with a pid has its entry, and the entry is its own. *)
LEMMA LiveEntry ==
    ASSUME PidInv, NEW p \in Proc, p_pid[p] # InvalidPid
    PROVE  /\ p_pid[p] \in Pid
           /\ SlotOf(p_pid[p]) \in Occupied
           /\ pidinfo[SlotOf(p_pid[p])].pi_pid = p_pid[p]
           /\ ~pidinfo[SlotOf(p_pid[p])].pi_exited
<1>1. p_pid[p] \in Pid
  BY DEF PidInv, TypeOK
<1> QED
  BY <1>1, Found DEF PidInv, ProcHasEntry

(* The entry a sleeper or a woken waiter will use. *)
LEMMA WaiterEntry ==
    ASSUME PidInv, NEW p \in Proc, pstate[p] \in {"sleeping", "woken"}
    PROVE  /\ theirpid[p] \in Pid
           /\ SlotOf(theirpid[p]) \in Occupied
           /\ pidinfo[SlotOf(theirpid[p])].pi_pid = theirpid[p]
           /\ pidinfo[SlotOf(theirpid[p])].pi_ppid = p_pid[p]
           /\ pidinfo[SlotOf(theirpid[p])].pi_exited <=> pstate[p] = "woken"
           /\ p_pid[p] # InvalidPid
<1>1. theirpid[p] \in Int
  BY Pids DEF PidInv, TypeOK
<1>2. pi_get(theirpid[p]) # NULL
  BY DEF PidInv, WaiterSafe
<1>3. SlotOf(theirpid[p]) \in Slot /\ pidinfo[SlotOf(theirpid[p])] # NULL
      /\ pidinfo[SlotOf(theirpid[p])].pi_pid = theirpid[p]
  BY <1>1, <1>2, Wraps DEF pi_get
<1>4. theirpid[p] \in Pid
  BY <1>3, EntryType DEF PidInv, Occupied
<1>5. p_pid[p] # InvalidPid
  BY DEF PidInv, PidWhileAlive
<1> QED
  BY <1>2, <1>3, <1>4, <1>5, Found DEF PidInv, WaiterSafe, Occupied

(* The slot pid_alloc settles on belongs to nobody: no process runs under  *)
(* the new pid and no entry names it as parent. *)
LEMMA FreshPid ==
    ASSUME PidInv, NEW pid \in UserPid, pidinfo[SlotOf(pid)] = NULL
    PROVE  /\ \A q \in Proc : p_pid[q] # pid
           /\ \A i \in Occupied : i # SlotOf(pid)
           /\ \A i \in Occupied : pidinfo[i].pi_ppid # pid
           /\ \A q \in Proc : pstate[q] \in {"sleeping", "woken"}
                                => SlotOf(theirpid[q]) # SlotOf(pid)
           /\ \A q \in Proc : p_pid[q] # InvalidPid
                                => SlotOf(p_pid[q]) # SlotOf(pid)
<1>1. pid # InvalidPid
  BY Pids
<1>2. \A i \in Occupied : i # SlotOf(pid)
  BY DEF Occupied
<1>3. \A q \in Proc : p_pid[q] # InvalidPid => SlotOf(p_pid[q]) # SlotOf(pid)
  BY <1>2, LiveEntry
<1>4. \A q \in Proc : p_pid[q] # pid
  BY <1>1, <1>3
<1>5. \A i \in Occupied : pidinfo[i].pi_ppid # pid
  BY <1>1, <1>4 DEF PidInv, ParentAlive
<1>6. \A q \in Proc : pstate[q] \in {"sleeping", "woken"}
                        => SlotOf(theirpid[q]) # SlotOf(pid)
  BY <1>2, WaiterEntry
<1> QED
  BY <1>2, <1>3, <1>4, <1>5, <1>6

(* fork, first half: the child's entry joins the table. *)
LEMMA ForkAllocInv ==
    ASSUME PidInv, NEW p \in Proc, ForkAlloc(p)
    PROVE  PidInv'
<1> USE Wraps, Pids, NullAssumption
<1>1. PICK c \in Proc, k \in Skips :
        /\ pstate[c] = "none"
        /\ pi_put(inc_nextpid(nextpid, k),
                  pidinfo_create(inc_nextpid(nextpid, k), p_pid[p]))
        /\ nextpid' = inc_nextpid(inc_nextpid(nextpid, k), 1)
        /\ p_pid' = [p_pid EXCEPT ![c] = inc_nextpid(nextpid, k)]
        /\ pstate' = [pstate EXCEPT ![p] = "forking", ![c] = "embryo"]
        /\ newproc' = [newproc EXCEPT ![p] = c]
  BY DEF At, ForkAlloc
<1>2. pstate[p] = "user" /\ UNCHANGED <<theirpid, ret, panicked>>
  BY DEF At, ForkAlloc
<1> DEFINE pid == inc_nextpid(nextpid, k)
           new == pidinfo_create(pid, p_pid[p])
<1>3. k \in Int /\ pidinfo[SlotOf(pid)] = NULL
  BY <1>1, ConstantsAssumption DEF Skips
<1>4. pid \in UserPid /\ nextpid' \in UserPid /\ pid \in Int
  <2>1. nextpid \in Int
    BY DEF PidInv, TypeOK
  <2>2. pid \in UserPid
    BY <1>3, <2>1
  <2>3. pid \in Int
    BY <2>2
  <2>4. nextpid' = inc_nextpid(pid, 1)
    BY <1>1
  <2> QED
    BY <2>2, <2>3, <2>4
<1> HIDE DEF pid
<1>5. p_pid[p] \in Pid /\ p_pid[c] = InvalidPid /\ p # c /\ c # KProc
  BY <1>1, <1>2 DEF PidInv, PidWhileAlive, TypeOK, KernelPid, InvalidPid
<1>6. new \in PidInfo /\ new.pi_pid = pid /\ new.pi_ppid = p_pid[p]
      /\ ~new.pi_exited /\ new # NULL
  <2>1. new \in PidInfo
    BY <1>4, <1>5 DEF pidinfo_create, PidInfo
  <2> QED
    BY <2>1 DEF pidinfo_create
<1> HIDE DEF new
<1>7. SlotOf(pid) \in Slot /\ nprocs' = nprocs + 1
      /\ pidinfo' = [pidinfo EXCEPT ![SlotOf(pid)] = new]
  BY <1>1, <1>4 DEF pi_put, pid, new
<1>8. pidinfo' \in [Slot -> PidInfo \cup {NULL}]
  BY <1>6, <1>7 DEF PidInv, TypeOK
<1>9. Occupied' = Occupied \cup {SlotOf(pid)} /\ SlotOf(pid) \notin Occupied
      /\ \A i \in Occupied : pidinfo'[i] = pidinfo[i]
  BY <1>3, <1>6, <1>7, <1>8 DEF PidInv, TypeOK, Occupied
<1>10. CountExact'
  <2>1. IsFiniteSet(Occupied)
    BY CountBound DEF Occupied
  <2> QED
    BY <2>1, <1>7, <1>9, FS_AddElement DEF PidInv, TypeOK, CountExact
<1>11. TypeOK'
  <2>1. nprocs' \in 0 .. ProcsMax
    BY <1>10, CountBound DEF CountExact, Occupied
  <2> QED
    BY <2>1, <1>1, <1>2, <1>4, <1>8 DEF PidInv, TypeOK, PState, pid
<1>12. \A q \in Proc : p_pid'[q] = IF q = c THEN pid ELSE p_pid[q]
  BY <1>1 DEF PidInv, TypeOK, pid
<1>13. EntryOwned'
  BY <1>4, <1>6, <1>7, <1>9, <1>12, <1>3, <1>5, FreshPid, EntryType
  DEF PidInv, TypeOK, EntryOwned
<1>14. PidsDistinct'
  BY <1>12, <1>3, <1>4, FreshPid DEF PidInv, PidsDistinct
<1>15. ParentAlive'
  BY <1>4, <1>5, <1>6, <1>7, <1>9, <1>12 DEF PidInv, TypeOK, ParentAlive
<1>16. ProcHasEntry'
  BY <1>3, <1>4, <1>6, <1>7, <1>12, LiveEntry, FreshPid
  DEF PidInv, TypeOK, ProcHasEntry, pi_get, Occupied
<1>17. WaiterSafe'
  BY <1>1, <1>2, <1>3, <1>4, <1>7, <1>12, WaiterEntry, FreshPid
  DEF PidInv, TypeOK, WaiterSafe, pi_get, Occupied
<1>18. ForkOwnsEmbryo'
  <2>0. \A q \in Proc : /\ newproc'[q] = IF q = p THEN c ELSE newproc[q]
                        /\ pstate'[q] = IF q = c THEN "embryo" ELSE
                                        IF q = p THEN "forking" ELSE pstate[q]
    BY <1>1 DEF PidInv, TypeOK
  <2> SUFFICES ASSUME NEW q \in Proc, pstate'[q] = "forking"
               PROVE  /\ newproc'[q] \in Proc
                      /\ pstate'[newproc'[q]] = "embryo"
                      /\ pidinfo'[SlotOf(p_pid'[newproc'[q]])].pi_ppid = p_pid'[q]
                      /\ \A i \in Occupied' :
                           pidinfo'[i].pi_ppid # p_pid'[newproc'[q]]
                      /\ \A r \in Proc : pstate'[r] = "forking"
                            /\ newproc'[r] = newproc'[q] => r = q
    BY DEF ForkOwnsEmbryo
  <2>1. \A r \in Proc : pstate[r] = "forking" => newproc[r] # c
    BY <1>1 DEF PidInv, ForkOwnsEmbryo
  <2>2. \A i \in Occupied : pidinfo[i].pi_ppid # pid
    BY <1>3, <1>4, FreshPid
  <2>3. p_pid[p] # pid
    BY <1>3, <1>4, FreshPid
  <2>4. CASE q = p
    <3>1. pidinfo'[SlotOf(pid)] = new
      BY <1>7 DEF PidInv, TypeOK
    <3> QED
      BY <1>5, <1>6, <1>9, <1>12, <2>0, <2>1, <2>2, <2>3, <2>4, <3>1
  <2>5. CASE q # p
    <3>1. /\ newproc[q] \in Proc \ {c, p} /\ pstate[q] = "forking" /\ q # c
          /\ pstate[newproc[q]] = "embryo"
          /\ pidinfo[SlotOf(p_pid[newproc[q]])].pi_ppid = p_pid[q]
          /\ \A i \in Occupied : pidinfo[i].pi_ppid # p_pid[newproc[q]]
          /\ \A r \in Proc : pstate[r] = "forking" /\ newproc[r] = newproc[q]
                               => r = q
      <4>1. pstate[q] = "forking" /\ q # c
        BY <2>0, <2>5
      <4> QED
        BY <1>2, <2>1, <4>1 DEF PidInv, ForkOwnsEmbryo
    <3>2. p_pid[newproc[q]] # InvalidPid
      BY <3>1 DEF PidInv, PidWhileAlive
    <3>3. SlotOf(p_pid[newproc[q]]) \in Occupied
      BY <3>1, <3>2, LiveEntry
    <3>4. p_pid[p] # p_pid[newproc[q]]
      BY <1>2, <3>1, <3>2 DEF PidInv, PidsDistinct
    <3>5. pidinfo'[SlotOf(pid)] = new
      BY <1>7 DEF PidInv, TypeOK
    <3> QED
      BY <1>6, <1>9, <1>12, <2>0, <2>1, <2>5, <3>1, <3>3, <3>4, <3>5
  <2> QED
    BY <2>4, <2>5
<1>19. PidWhileAlive'
  BY <1>1, <1>2, <1>4, <1>5, <1>12, ConstantsAssumption
  DEF PidInv, TypeOK, PidWhileAlive
<1> QED
  BY <1>2, <1>10, <1>11, <1>13, <1>14, <1>15, <1>16, <1>17, <1>18, <1>19
  DEF PidInv, NoPanic

(* Steps that leave the table, the pids and the waiters alone. *)
LEMMA ForkRefusedInv ==
    ASSUME PidInv, NEW p \in Proc, ForkRefused(p)
    PROVE  PidInv'
<1> USE Wraps, Pids
<1>1. UNCHANGED <<pidinfo, nprocs, p_pid, pstate, newproc, theirpid, panicked>>
  BY DEF At, ForkRefused
<1>2. nextpid' \in UserPid
  <2>1. CASE UNCHANGED nextpid
    BY <2>1 DEF PidInv, TypeOK
  <2>2. CASE \E k \in Skips : nextpid' = inc_nextpid(nextpid, k)
    BY <2>2, ConstantsAssumption DEF PidInv, TypeOK, Skips
  <2> QED
    BY <2>1, <2>2 DEF At, ForkRefused
<1>3. ret' \in [Proc -> Return]
  BY DEF At, ForkRefused, PidInv, TypeOK, Return, Error, Errno
<1>4. TypeOK'
  BY <1>1, <1>2, <1>3 DEF PidInv, TypeOK
<1> QED
  BY <1>1, <1>4
  DEF PidInv, CountExact, EntryOwned, PidsDistinct, ParentAlive, ProcHasEntry,
      WaiterSafe, ForkOwnsEmbryo, PidWhileAlive, NoPanic, Occupied, pi_get

(* pi_drop takes one entry out and counts it. *)
LEMMA Drop ==
    ASSUME PidInv, NEW pid, SlotOf(pid) \in Occupied, pi_drop(pid)
    PROVE  /\ pidinfo' \in [Slot -> PidInfo \cup {NULL}]
           /\ Occupied' = Occupied \ {SlotOf(pid)}
           /\ \A i \in Slot : pidinfo'[i] = IF i = SlotOf(pid) THEN NULL
                                            ELSE pidinfo[i]
           /\ CountExact' /\ nprocs' \in 0 .. ProcsMax
<1>1. pidinfo' = [pidinfo EXCEPT ![SlotOf(pid)] = NULL] /\ nprocs' = nprocs - 1
  BY DEF pi_drop
<1>2. pidinfo' \in [Slot -> PidInfo \cup {NULL}]
  BY <1>1 DEF PidInv, TypeOK
<1>3. \A i \in Slot : pidinfo'[i] = IF i = SlotOf(pid) THEN NULL ELSE pidinfo[i]
  BY <1>1 DEF PidInv, TypeOK
<1>4. Occupied' = Occupied \ {SlotOf(pid)}
  BY <1>3 DEF Occupied
<1>5. IsFiniteSet(Occupied)
  BY CountBound DEF Occupied
<1>6. CountExact'
  BY <1>1, <1>4, <1>5, FS_RemoveElement DEF PidInv, TypeOK, CountExact
<1>7. nprocs' \in 0 .. ProcsMax
  BY <1>6, CountBound DEF CountExact, Occupied
<1> QED
  BY <1>2, <1>3, <1>4, <1>6, <1>7

(* Nobody but a child's parent waits for it. *)
LEMMA OneWaiter ==
    ASSUME PidInv, NEW p \in Proc, p_pid[p] # InvalidPid, NEW i \in Occupied,
           pidinfo[i].pi_ppid = p_pid[p],
           NEW q \in Proc, pstate[q] \in {"sleeping", "woken"},
           SlotOf(theirpid[q]) = i
    PROVE  q = p
  BY WaiterEntry DEF PidInv, PidsDistinct

(* pid_alloc's slot is given back when the fork fails half way: the child  *)
(* has not run, so its entry is still as pid_alloc left it. *)
LEMMA ForkFailsInv ==
    ASSUME PidInv, NEW p \in Proc, ForkFails(p)
    PROVE  PidInv'
<1> USE Wraps, Pids, NullAssumption
<1> DEFINE c == newproc[p]
           pid == p_pid[c]
<1>1. /\ p # KProc /\ pstate[p] = "forking" /\ pi_drop(pid)
      /\ p_pid' = [p_pid EXCEPT ![c] = InvalidPid]
      /\ pstate' = [pstate EXCEPT ![p] = "user", ![c] = "none"]
      /\ newproc' = [newproc EXCEPT ![p] = NULL]
      /\ ret' = [ret EXCEPT ![p] = Error("ENOMEM")]
      /\ UNCHANGED <<nextpid, theirpid>>
  BY DEF At, ForkFails
<1>2. panicked' = (pi_get(pid) = NULL \/ pi_get(pid).pi_exited
                   \/ pi_get(pid).pi_ppid # p_pid[p] \/ Sleepers(pid) # {})
  BY DEF At, ForkFails
<1>3. /\ c \in Proc /\ pstate[c] = "embryo" /\ c # p
      /\ pidinfo[SlotOf(pid)].pi_ppid = p_pid[p]
      /\ \A q \in Proc : pstate[q] = "forking" /\ newproc[q] = c => q = p
  BY <1>1 DEF PidInv, ForkOwnsEmbryo
<1>4. pid # InvalidPid /\ p_pid[p] # InvalidPid
  BY <1>1, <1>3 DEF PidInv, PidWhileAlive
<1>5. /\ pid \in Pid /\ SlotOf(pid) \in Occupied
      /\ pidinfo[SlotOf(pid)].pi_pid = pid /\ ~pidinfo[SlotOf(pid)].pi_exited
  BY <1>3, <1>4, LiveEntry
<1> HIDE DEF pid, c
<1>6. \A q \in Proc : pstate[q] \in {"sleeping", "woken"}
                        => SlotOf(theirpid[q]) # SlotOf(pid)
  BY <1>1, <1>3, <1>4, <1>5, OneWaiter
<1>7. panicked' = FALSE
  BY <1>2, <1>3, <1>5, <1>6, Found DEF PidInv, Sleepers, Occupied
<1>8. /\ pidinfo' \in [Slot -> PidInfo \cup {NULL}]
      /\ Occupied' = Occupied \ {SlotOf(pid)}
      /\ \A i \in Slot : pidinfo'[i] = IF i = SlotOf(pid) THEN NULL ELSE pidinfo[i]
      /\ CountExact' /\ nprocs' \in 0 .. ProcsMax
  BY <1>1, <1>5, Drop
<1>9. \A q \in Proc : /\ p_pid'[q] = IF q = c THEN InvalidPid ELSE p_pid[q]
                      /\ pstate'[q] = IF q = c THEN "none" ELSE
                                      IF q = p THEN "user" ELSE pstate[q]
                      /\ newproc'[q] = IF q = p THEN NULL ELSE newproc[q]
  BY <1>1, <1>3 DEF PidInv, TypeOK
<1>10. TypeOK'
  BY <1>1, <1>3, <1>7, <1>8
  DEF PidInv, TypeOK, PState, Return, Error, Errno
<1>11. \A q \in Proc \ {c} : p_pid[q] # pid
  BY <1>3, <1>4 DEF PidInv, PidsDistinct, pid
<1>12. \A q \in Proc \ {c} : p_pid[q] # InvalidPid => SlotOf(p_pid[q]) # SlotOf(pid)
  BY <1>5, <1>11, LiveEntry
<1>13. EntryOwned' /\ PidsDistinct'
  BY <1>4, <1>5, <1>8, <1>9, <1>11, EntryType
  DEF PidInv, EntryOwned, PidsDistinct, Occupied, pid
<1>14. ParentAlive'
  <2>1. \A i \in Occupied : pidinfo[i].pi_ppid # pid
    BY <1>1 DEF PidInv, ForkOwnsEmbryo, pid, c
  <2> QED
    BY <2>1, <1>8, <1>9 DEF PidInv, ParentAlive, Occupied, pid
<1>15. ProcHasEntry'
  BY <1>8, <1>9, <1>12, LiveEntry DEF PidInv, TypeOK, ProcHasEntry, pi_get, Occupied
<1>16. WaiterSafe'
  BY <1>1, <1>3, <1>6, <1>8, <1>9, WaiterEntry
  DEF PidInv, TypeOK, WaiterSafe, pi_get, Occupied
<1>17. ForkOwnsEmbryo'
  <2> SUFFICES ASSUME NEW q \in Proc, pstate'[q] = "forking"
               PROVE  /\ newproc'[q] \in Proc
                      /\ pstate'[newproc'[q]] = "embryo"
                      /\ pidinfo'[SlotOf(p_pid'[newproc'[q]])].pi_ppid = p_pid'[q]
                      /\ \A i \in Occupied' :
                           pidinfo'[i].pi_ppid # p_pid'[newproc'[q]]
                      /\ \A r \in Proc : pstate'[r] = "forking"
                            /\ newproc'[r] = newproc'[q] => r = q
    BY DEF ForkOwnsEmbryo
  <2>1. pstate[q] = "forking" /\ q # p /\ q # c
    BY <1>3, <1>9
  <2>2. /\ newproc[q] \in Proc \ {c} /\ newproc'[q] = newproc[q]
        /\ pstate[newproc[q]] = "embryo"
        /\ pidinfo[SlotOf(p_pid[newproc[q]])].pi_ppid = p_pid[q]
        /\ \A i \in Occupied : pidinfo[i].pi_ppid # p_pid[newproc[q]]
        /\ \A r \in Proc : pstate[r] = "forking" /\ newproc[r] = newproc[q] => r = q
    BY <1>3, <1>9, <2>1 DEF PidInv, ForkOwnsEmbryo
  <2>3. p_pid[newproc[q]] # InvalidPid /\ newproc[q] # p
    BY <1>1, <2>2 DEF PidInv, PidWhileAlive
  <2>4. SlotOf(p_pid[newproc[q]]) \in Slot
        /\ SlotOf(p_pid[newproc[q]]) # SlotOf(pid)
    BY <1>12, <2>2, <2>3 DEF PidInv, TypeOK
  <2> QED
    BY <1>8, <1>9, <2>1, <2>2, <2>3, <2>4 DEF Occupied
<1>18. PidWhileAlive'
  <2>1. c # KProc /\ KProc \in Proc
    BY <1>3, ConstantsAssumption DEF PidInv, PidWhileAlive
  <2> QED
    BY <1>3, <1>4, <1>9, <2>1 DEF PidInv, PidWhileAlive
<1> QED
  BY <1>7, <1>8, <1>10, <1>13, <1>14, <1>15, <1>16, <1>17, <1>18
  DEF PidInv, NoPanic

(* The menu's proc_destroy panics before it frees anything. *)
LEMMA MenuForkFailedInv ==
    ASSUME PidInv, MenuForkFailed
    PROVE  PidInv'
  BY DEF At, MenuForkFailed, PidInv, TypeOK, CountExact, EntryOwned, PidsDistinct,
         ParentAlive, ProcHasEntry, WaiterSafe, ForkOwnsEmbryo, PidWhileAlive,
         NoPanic, Occupied, pi_get

(* When the table and the pids stay, and a step keeps kproc, the embryos   *)
(* and the waiters in their states, the relations between them stay. *)
LEMMA TableKept ==
    ASSUME PidInv, UNCHANGED <<pidinfo, nprocs, p_pid>>
    PROVE  /\ Occupied' = Occupied
           /\ CountExact' /\ EntryOwned' /\ PidsDistinct' /\ ParentAlive'
           /\ ProcHasEntry'
  BY DEF PidInv, CountExact, EntryOwned, PidsDistinct, ParentAlive, ProcHasEntry,
         Occupied, pi_get

(* thread_fork succeeds: the embryo becomes a process of its own. *)
LEMMA ForkStartInv ==
    ASSUME PidInv, NEW p \in Proc, ForkStart(p)
    PROVE  PidInv'
<1> DEFINE c == newproc[p]
<1>1. /\ pstate[p] = "forking" /\ c \in Proc /\ pstate[c] = "embryo" /\ c # p
      /\ \A q \in Proc : pstate[q] = "forking" /\ newproc[q] = c => q = p
  BY DEF At, ForkStart, PidInv, ForkOwnsEmbryo
<1>0. pidinfo' = pidinfo /\ nextpid' = nextpid /\ nprocs' = nprocs
      /\ p_pid' = p_pid /\ panicked' = panicked
  BY DEF At, ForkStart
<1>2. /\ newproc' = [newproc EXCEPT ![p] = NULL]
      /\ theirpid' = [theirpid EXCEPT ![p] = IF p = KProc THEN p_pid[c] ELSE @]
      /\ ret' = [ret EXCEPT ![p] = Value(p_pid[c], Junk),
                            ![c] = Value(InvalidPid, Junk)]
      /\ pstate' = [pstate EXCEPT
                      ![p] = IF p = KProc THEN "mustwait" ELSE "user",
                      ![c] = "user"]
  BY DEF At, ForkStart
<1> HIDE DEF c
<1>3. \A q \in Proc :
        /\ pstate'[q] = IF q = c THEN "user" ELSE
                        IF q # p THEN pstate[q] ELSE
                        IF p = KProc THEN "mustwait" ELSE "user"
        /\ q # p => newproc'[q] = newproc[q] /\ theirpid'[q] = theirpid[q]
  BY <1>1, <1>2 DEF PidInv, TypeOK
<1>4. TypeOK'
  <2>1. p_pid[c] \in Pid \cup {InvalidPid}
    BY <1>1 DEF PidInv, TypeOK
  <2>2. ret' \in [Proc -> Return]
    BY <1>1, <1>2, <2>1 DEF PidInv, TypeOK, Return, Value, Errno
  <2> QED
    BY <1>0, <1>1, <1>2, <2>1, <2>2 DEF PidInv, TypeOK, PState
<1>5. WaiterSafe'
  BY <1>0, <1>3 DEF PidInv, WaiterSafe, pi_get
<1>6. ForkOwnsEmbryo'
  <2>1. Occupied' = Occupied
    BY <1>0, TableKept
  <2>2. \A q \in Proc : pstate'[q] = "forking" =>
          /\ pstate[q] = "forking" /\ q # p /\ newproc'[q] = newproc[q]
          /\ newproc[q] # c /\ newproc[q] # p
    BY <1>1, <1>3 DEF PidInv, ForkOwnsEmbryo
  <2> QED
    BY <1>0, <1>3, <2>1, <2>2 DEF PidInv, ForkOwnsEmbryo
<1>7. PidWhileAlive'
  BY <1>0, <1>1, <1>3, ConstantsAssumption DEF PidInv, PidWhileAlive
<1> QED
  BY <1>0, <1>4, <1>5, <1>6, <1>7, TableKept DEF PidInv, NoPanic

(* A wait that is refused, or WNOHANG with the child still running. *)
LEMMA WaitRefusedInv ==
    ASSUME PidInv, NEW p \in Proc, NEW pid \in Pid \cup {InvalidPid},
           NEW flags \in Flags, WaitRefused(p, pid, flags) \/ WaitNoHang(p, pid, flags)
    PROVE  PidInv'
<1>1. UNCHANGED <<pidinfo, nextpid, nprocs, p_pid, newproc, panicked>>
      /\ pstate[p] \in {"user", "mustwait"}
  BY DEF At, WaitRefused, WaitNoHang, Calls
<1>2. pstate' = [pstate EXCEPT ![p] = "user"]
  BY ConstantsAssumption DEF At, WaitRefused, WaitNoHang, Calls, PidInv, TypeOK
<1>3. \A q \in Proc : /\ pstate'[q] = IF q = p THEN "user" ELSE pstate[q]
                      /\ q # p => theirpid'[q] = theirpid[q]
  BY <1>2 DEF WaitRefused, WaitNoHang, PidInv, TypeOK
<1>4. TypeOK'
  <2>1. WaitError(p, pid, flags) \in Errno
    BY DEF WaitError, Errno
  <2>2. ret' \in [Proc -> Return]
    BY <2>1 DEF WaitRefused, WaitNoHang, PidInv, TypeOK, Return, Error, Value, Errno
  <2>3. pstate' \in [Proc -> PState] /\ theirpid' \in [Proc -> Pid \cup {InvalidPid}]
    BY DEF WaitRefused, WaitNoHang, PidInv, TypeOK, PState
  <2> QED
    BY <1>1, <2>2, <2>3 DEF PidInv, TypeOK
<1>5. WaiterSafe'
  BY <1>1, <1>2, <1>3 DEF PidInv, WaiterSafe, pi_get
<1>6. ForkOwnsEmbryo'
  BY <1>1, <1>2, <1>3, TableKept DEF PidInv, ForkOwnsEmbryo
<1>7. PidWhileAlive'
  BY <1>1, <1>2, <1>3, ConstantsAssumption DEF PidInv, PidWhileAlive
<1> QED
  BY <1>1, <1>4, <1>5, <1>6, <1>7, TableKept DEF PidInv, NoPanic

(* The caller of pid_wait that passes its tests is the child's parent. *)
LEMMA WaitOK ==
    ASSUME PidInv, NEW p \in Proc, NEW pid \in Pid \cup {InvalidPid},
           NEW flags \in Flags,
           Calls(p, pid, flags), WaitError(p, pid, flags) = "OK"
    PROVE  /\ pid \in Pid /\ pid # p_pid[p] /\ pi_get(pid) # NULL
           /\ SlotOf(pid) \in Occupied /\ pi_get(pid) = pidinfo[SlotOf(pid)]
           /\ pidinfo[SlotOf(pid)].pi_pid = pid
           /\ pidinfo[SlotOf(pid)].pi_ppid = p_pid[p]
           /\ p_pid[p] # InvalidPid
           /\ pstate[p] \in {"user", "mustwait"}
<1>1. pid # p_pid[p] /\ pid # InvalidPid
      /\ pi_get(pid) # NULL /\ pi_get(pid).pi_ppid = p_pid[p]
  BY DEF WaitError
<1>2. pid \in Pid
  BY <1>1
<1>3. pstate[p] \in {"user", "mustwait"}
  BY DEF At, Calls
<1>4. p_pid[p] # InvalidPid
  BY <1>3 DEF PidInv, PidWhileAlive
<1> QED
  BY <1>1, <1>2, <1>3, <1>4, Found DEF PidInv

(* pid_wait goes to sleep on a child that runs. *)
LEMMA WaitSleepInv ==
    ASSUME PidInv, NEW p \in Proc, NEW pid \in Pid \cup {InvalidPid},
           NEW flags \in Flags, WaitSleep(p, pid, flags)
    PROVE  PidInv'
<1>1. /\ UNCHANGED <<pidinfo, nextpid, nprocs, p_pid, newproc, ret, panicked>>
      /\ pstate' = [pstate EXCEPT ![p] = "sleeping"]
      /\ theirpid' = [theirpid EXCEPT ![p] = pid]
      /\ ~pi_get(pid).pi_exited
  BY DEF WaitSleep
<1>2. pid \in Pid /\ pi_get(pid) # NULL /\ pi_get(pid).pi_ppid = p_pid[p]
      /\ p_pid[p] # InvalidPid /\ pstate[p] \in {"user", "mustwait"}
  BY WaitOK DEF WaitSleep
<1>3. \A q \in Proc : /\ pstate'[q] = IF q = p THEN "sleeping" ELSE pstate[q]
                      /\ theirpid'[q] = IF q = p THEN pid ELSE theirpid[q]
  BY <1>1 DEF PidInv, TypeOK
<1>4. TypeOK'
  BY <1>1, <1>2 DEF PidInv, TypeOK, PState
<1>5. WaiterSafe'
  BY <1>1, <1>2, <1>3 DEF PidInv, WaiterSafe, pi_get
<1>6. ForkOwnsEmbryo'
  BY <1>1, <1>2, <1>3, TableKept DEF PidInv, ForkOwnsEmbryo
<1>7. PidWhileAlive'
  BY <1>1, <1>2, <1>3, ConstantsAssumption DEF PidInv, PidWhileAlive
<1> QED
  BY <1>1, <1>4, <1>5, <1>6, <1>7, TableKept DEF PidInv, NoPanic

(* The end of pid_wait: the parent takes its exited child's entry out. *)
LEMMA ReapInv ==
    ASSUME PidInv, NEW p \in Proc, NEW pid \in Pid, Reap(p, pid),
           SlotOf(pid) \in Occupied, pidinfo[SlotOf(pid)].pi_pid = pid,
           pidinfo[SlotOf(pid)].pi_exited,
           pidinfo[SlotOf(pid)].pi_ppid = p_pid[p],
           pstate[p] \in {"user", "mustwait", "woken"},
           panicked' = FALSE
    PROVE  PidInv'
<1> USE Wraps, Pids
<1>1. /\ pi_drop(pid) /\ nextpid' = nextpid /\ p_pid' = p_pid
      /\ newproc' = newproc
      /\ pstate' = [pstate EXCEPT ![p] = "user"]
      /\ theirpid' = [theirpid EXCEPT ![p] = InvalidPid]
  BY DEF Reap
<1>2. /\ pidinfo' \in [Slot -> PidInfo \cup {NULL}]
      /\ Occupied' = Occupied \ {SlotOf(pid)}
      /\ \A i \in Slot : pidinfo'[i] = IF i = SlotOf(pid) THEN NULL ELSE pidinfo[i]
      /\ CountExact' /\ nprocs' \in 0 .. ProcsMax
  BY <1>1, Drop
<1>3. \A q \in Proc : /\ pstate'[q] = IF q = p THEN "user" ELSE pstate[q]
                      /\ q # p => theirpid'[q] = theirpid[q]
  BY <1>1 DEF PidInv, TypeOK
<1>4. p_pid[p] # InvalidPid
  BY DEF PidInv, PidWhileAlive
<1>5. \A q \in Proc : p_pid[q] # pid
  BY DEF PidInv, EntryOwned
<1>6. \A q \in Proc : p_pid[q] # InvalidPid => SlotOf(p_pid[q]) # SlotOf(pid)
  BY <1>5, LiveEntry
<1>7. \A q \in Proc : q # p /\ pstate[q] \in {"sleeping", "woken"}
                        => SlotOf(theirpid[q]) # SlotOf(pid)
  BY <1>4, OneWaiter
<1>8. TypeOK'
  <2>1. pidinfo[SlotOf(pid)].pi_exitstatus \in Status \cup {Junk}
    BY DEF PidInv, TypeOK, PidInfo, Occupied
  <2>2. ret' \in [Proc -> Return]
    BY <2>1 DEF Reap, PidInv, TypeOK, Return, Error, Value, Errno
  <2> QED
    BY <1>1, <1>2, <2>2 DEF PidInv, TypeOK, PState
<1>9. EntryOwned' /\ PidsDistinct' /\ ParentAlive'
  BY <1>1, <1>2 DEF PidInv, EntryOwned, PidsDistinct, ParentAlive, Occupied
<1>10. ProcHasEntry'
  BY <1>1, <1>2, <1>6, LiveEntry
  DEF PidInv, TypeOK, ProcHasEntry, pi_get, Occupied
<1>11. WaiterSafe'
  BY <1>1, <1>2, <1>3, <1>7, WaiterEntry
  DEF PidInv, TypeOK, WaiterSafe, pi_get, Occupied
<1>12. ForkOwnsEmbryo'
  <2>1. \A q \in Proc : pstate'[q] = "forking" =>
          /\ pstate[q] = "forking" /\ q # p /\ newproc[q] # p
          /\ p_pid[newproc[q]] # InvalidPid
    BY <1>3 DEF PidInv, ForkOwnsEmbryo, PidWhileAlive
  <2>2. \A q \in Proc : pstate'[q] = "forking" =>
          /\ SlotOf(p_pid[newproc[q]]) \in Slot
          /\ SlotOf(p_pid[newproc[q]]) # SlotOf(pid)
    BY <1>6, <2>1, LiveEntry DEF PidInv, ForkOwnsEmbryo, Occupied
  <2>3. \A i \in Occupied' : i \in Occupied /\ pidinfo'[i] = pidinfo[i]
    BY <1>2 DEF Occupied
  <2> QED
    BY <1>1, <1>2, <1>3, <2>1, <2>2, <2>3 DEF PidInv, ForkOwnsEmbryo
<1>13. PidWhileAlive'
  BY <1>1, <1>3, <1>4, ConstantsAssumption DEF PidInv, PidWhileAlive
<1> QED
  BY <1>2, <1>8, <1>9, <1>10, <1>11, <1>12, <1>13 DEF PidInv, NoPanic

(* waitpid on a child that has already exited. *)
LEMMA WaitAtOnceInv ==
    ASSUME PidInv, NEW p \in Proc, NEW pid \in Pid \cup {InvalidPid},
           NEW flags \in Flags, WaitAtOnce(p, pid, flags)
    PROVE  PidInv'
<1>1. /\ pid \in Pid /\ SlotOf(pid) \in Occupied
      /\ pidinfo[SlotOf(pid)].pi_pid = pid
      /\ pidinfo[SlotOf(pid)].pi_exited
      /\ pidinfo[SlotOf(pid)].pi_ppid = p_pid[p]
      /\ pstate[p] \in {"user", "mustwait", "woken"}
  BY WaitOK DEF WaitAtOnce
<1>2. Sleepers(pid) = {}
  BY <1>1, WaiterEntry DEF Sleepers
<1>3. Reap(p, pid) /\ panicked' = FALSE
  BY <1>2 DEF WaitAtOnce
<1> QED
  BY <1>1, <1>3, ReapInv

(* pid_wait after its cv_wait: the entry it kept is the exited child's. *)
LEMMA WaitWakeInv ==
    ASSUME PidInv, NEW p \in Proc, WaitWake(p)
    PROVE  PidInv'
<1> DEFINE pid == theirpid[p]
<1>1. pstate[p] = "woken" /\ Reap(p, pid)
  BY DEF At, WaitWake
<1>2. /\ pid \in Pid /\ SlotOf(pid) \in Occupied
      /\ pidinfo[SlotOf(pid)].pi_pid = pid
      /\ pidinfo[SlotOf(pid)].pi_exited
      /\ pidinfo[SlotOf(pid)].pi_ppid = p_pid[p]
  BY <1>1, WaiterEntry
<1>3. Sleepers(pid) = {}
  BY <1>2, WaiterEntry DEF Sleepers
<1>4. pi_get(pid) # NULL /\ pi_get(pid) = pidinfo[SlotOf(pid)]
  BY <1>2, Found DEF PidInv, Occupied
<1>5. panicked' = FALSE
  BY <1>2, <1>3, <1>4 DEF At, WaitWake
<1> QED
  BY <1>1, <1>2, <1>5, ReapInv

(* proc_destroy of an exited process. *)
LEMMA ExitDestroyInv ==
    ASSUME PidInv, NEW p \in Proc, ExitDestroy(p)
    PROVE  PidInv'
<1>1. /\ UNCHANGED <<pidinfo, nextpid, nprocs, p_pid, newproc, theirpid>>
      /\ pstate[p] = "exited" /\ pstate' = [pstate EXCEPT ![p] = "none"]
      /\ ret' = [ret EXCEPT ![p] = Value(InvalidPid, Junk)]
      /\ panicked' = (p_pid[p] # InvalidPid)
  BY DEF At, ExitDestroy
<1>2. panicked' = FALSE
  BY <1>1 DEF PidInv, PidWhileAlive
<1>3. \A q \in Proc : pstate'[q] = IF q = p THEN "none" ELSE pstate[q]
  BY <1>1 DEF PidInv, TypeOK
<1>4. TypeOK'
  BY <1>1, <1>2 DEF PidInv, TypeOK, PState, Return, Value, Errno
<1>5. WaiterSafe'
  BY <1>1, <1>3 DEF PidInv, WaiterSafe, pi_get
<1>6. ForkOwnsEmbryo'
  BY <1>1, <1>3, TableKept DEF PidInv, ForkOwnsEmbryo
<1>7. PidWhileAlive'
  BY <1>1, <1>3, ConstantsAssumption DEF PidInv, PidWhileAlive
<1> QED
  BY <1>1, <1>2, <1>4, <1>5, <1>6, <1>7, TableKept DEF PidInv, NoPanic

(* What pid_setexitstatus leaves of the table. *)
LEMMA ExitTable ==
    ASSUME PidInv, NEW p \in Proc, NEW status \in Status, Exit(p, status)
    PROVE  /\ pidinfo' \in [Slot -> PidInfo \cup {NULL}]
           /\ Occupied' = Occupied \ ExitDrops(p)
           /\ \A i \in Occupied' :
                /\ i \in Occupied /\ pidinfo'[i].pi_pid = pidinfo[i].pi_pid
                /\ pidinfo'[i].pi_ppid =
                     IF pidinfo[i].pi_ppid = p_pid[p] THEN InvalidPid
                     ELSE pidinfo[i].pi_ppid
                /\ pidinfo'[i].pi_exited =
                     (i = SlotOf(p_pid[p]) \/ pidinfo[i].pi_exited)
                /\ pidinfo'[i].pi_exitstatus =
                     IF i = SlotOf(p_pid[p]) THEN status ELSE pidinfo[i].pi_exitstatus
           /\ CountExact' /\ nprocs' \in 0 .. ProcsMax
<1> USE Wraps, Pids, NullAssumption
<1>1. /\ pidinfo' = [i \in Slot |-> IF i \in Occupied \ ExitDrops(p)
                                    THEN AfterExit(p, i, status) ELSE NULL]
      /\ nprocs' = nprocs - Cardinality(ExitDrops(p))
      /\ p_pid[p] # InvalidPid
  BY DEF At, Exit, PidInv, PidWhileAlive
<1>2. \A i \in Occupied :
        /\ AfterExit(p, i, status) \in PidInfo
        /\ AfterExit(p, i, status).pi_pid = pidinfo[i].pi_pid
        /\ AfterExit(p, i, status).pi_ppid =
             IF pidinfo[i].pi_ppid = p_pid[p] THEN InvalidPid
             ELSE pidinfo[i].pi_ppid
        /\ AfterExit(p, i, status).pi_exited =
             (i = SlotOf(p_pid[p]) \/ pidinfo[i].pi_exited)
        /\ AfterExit(p, i, status).pi_exitstatus =
             IF i = SlotOf(p_pid[p]) THEN status ELSE pidinfo[i].pi_exitstatus
  <2> SUFFICES ASSUME NEW i \in Occupied
               PROVE  /\ AfterExit(p, i, status) \in PidInfo
                      /\ AfterExit(p, i, status).pi_pid = pidinfo[i].pi_pid
                      /\ AfterExit(p, i, status).pi_ppid =
                           IF pidinfo[i].pi_ppid = p_pid[p] THEN InvalidPid
                           ELSE pidinfo[i].pi_ppid
                      /\ AfterExit(p, i, status).pi_exited =
                           (i = SlotOf(p_pid[p]) \/ pidinfo[i].pi_exited)
                      /\ AfterExit(p, i, status).pi_exitstatus =
                           IF i = SlotOf(p_pid[p]) THEN status
                           ELSE pidinfo[i].pi_exitstatus
    OBVIOUS
  <2>1. pidinfo[i] \in PidInfo
    BY EntryType DEF PidInv
  <2>2. CASE i = SlotOf(p_pid[p])
    <3>1. pidinfo[i].pi_ppid # p_pid[p]
      BY <1>1, <2>2, LiveEntry DEF PidInv, EntryOwned
    <3>2. AfterExit(p, i, status) =
            [pidinfo[i] EXCEPT !.pi_exited = TRUE, !.pi_exitstatus = status]
      BY <2>2 DEF AfterExit
    <3> QED
      BY <2>1, <2>2, <3>1, <3>2 DEF PidInfo
  <2>3. CASE i # SlotOf(p_pid[p]) /\ pidinfo[i].pi_ppid = p_pid[p]
    <3>1. AfterExit(p, i, status) = [pidinfo[i] EXCEPT !.pi_ppid = InvalidPid]
      BY <2>3 DEF AfterExit
    <3> QED
      BY <2>1, <2>3, <3>1 DEF PidInfo
  <2>4. CASE i # SlotOf(p_pid[p]) /\ pidinfo[i].pi_ppid # p_pid[p]
    <3>1. AfterExit(p, i, status) = pidinfo[i]
      BY <2>4 DEF AfterExit
    <3> QED
      BY <2>1, <2>4, <3>1 DEF PidInfo
  <2> QED
    BY <2>2, <2>3, <2>4
<1>3. pidinfo' \in [Slot -> PidInfo \cup {NULL}]
  BY <1>1, <1>2
<1>4. Occupied' = Occupied \ ExitDrops(p)
  BY <1>1, <1>2 DEF Occupied
<1>5. \A i \in Occupied' : i \in Occupied /\ pidinfo'[i] = AfterExit(p, i, status)
  BY <1>1, <1>4 DEF Occupied
<1>6. CountExact'
  <2>1. IsFiniteSet(Occupied)
    BY CountBound DEF Occupied
  <2>2. Occupied \cap ExitDrops(p) = ExitDrops(p)
    BY DEF ExitDrops, ExitedChildren, DropsSelf
  <2> QED
    BY <1>1, <1>4, <2>1, <2>2, FS_Difference DEF PidInv, CountExact
<1>7. nprocs' \in 0 .. ProcsMax
  BY <1>6, CountBound DEF CountExact, Occupied
<1> QED
  BY <1>2, <1>3, <1>4, <1>5, <1>6, <1>7

(* pid_setexitstatus: children disowned, zombies dropped, the parent told. *)
LEMMA ExitInv ==
    ASSUME PidInv, NEW p \in Proc, NEW status \in Status, Exit(p, status)
    PROVE  PidInv'
<1> DEFINE own == SlotOf(p_pid[p])
<1>1. /\ p # KProc /\ pstate[p] = "user"
      /\ nextpid' = nextpid /\ newproc' = newproc /\ theirpid' = theirpid
      /\ ret' = ret
      /\ p_pid' = [p_pid EXCEPT ![p] = InvalidPid]
      /\ pstate' = [Broadcast(p_pid[p]) EXCEPT ![p] = "exited"]
  BY DEF At, Exit
<1>2. /\ p_pid[p] # InvalidPid /\ p_pid[p] \in Pid /\ own \in Occupied
      /\ pidinfo[own].pi_pid = p_pid[p] /\ ~pidinfo[own].pi_exited
  BY <1>1, LiveEntry DEF PidInv, PidWhileAlive
<1>3. /\ pidinfo' \in [Slot -> PidInfo \cup {NULL}]
      /\ Occupied' = Occupied \ ExitDrops(p)
      /\ CountExact' /\ nprocs' \in 0 .. ProcsMax
  BY ExitTable
<1>4. \A i \in Occupied' :
        /\ i \in Occupied /\ pidinfo'[i].pi_pid = pidinfo[i].pi_pid
        /\ pidinfo'[i].pi_ppid = IF pidinfo[i].pi_ppid = p_pid[p]
                                 THEN InvalidPid ELSE pidinfo[i].pi_ppid
        /\ pidinfo'[i].pi_exited = (i = own \/ pidinfo[i].pi_exited)
  BY ExitTable
<1>5. \A i \in Occupied : i \notin Occupied' =>
        \/ pidinfo[i].pi_ppid = p_pid[p] /\ pidinfo[i].pi_exited
        \/ i = own /\ pidinfo[i].pi_ppid = InvalidPid
  BY <1>3 DEF ExitDrops, ExitedChildren, DropsSelf
<1>6. \A i \in Occupied' :
        /\ pidinfo[i].pi_exited => pidinfo[i].pi_ppid # p_pid[p]
        /\ i = own => pidinfo[i].pi_ppid # InvalidPid
  BY <1>3, <1>4 DEF ExitDrops, ExitedChildren, DropsSelf
<1>7. \A q \in Proc :
        /\ p_pid'[q] = IF q = p THEN InvalidPid ELSE p_pid[q]
        /\ pstate'[q] = IF q = p THEN "exited" ELSE
                        IF pstate[q] = "sleeping" /\ theirpid[q] = p_pid[p]
                        THEN "woken" ELSE pstate[q]
  BY <1>1 DEF PidInv, TypeOK, Broadcast, Sleepers
<1> HIDE DEF own
<1>8. \A q \in Proc : q # p => p_pid[q] # p_pid[p]
  BY <1>2 DEF PidInv, PidsDistinct
<1>9. \A q \in Proc : q # p /\ p_pid[q] # InvalidPid =>
        /\ SlotOf(p_pid[q]) # own /\ SlotOf(p_pid[q]) \in Occupied'
        /\ SlotOf(p_pid[q]) \in Occupied
        /\ pidinfo[SlotOf(p_pid[q])].pi_pid = p_pid[q]
        /\ ~pidinfo[SlotOf(p_pid[q])].pi_exited
  BY <1>2, <1>5, <1>8, LiveEntry
<1>10. \A q \in Proc : pstate[q] \in {"sleeping", "woken"} =>
         /\ q # p /\ SlotOf(theirpid[q]) \in Occupied'
         /\ pidinfo[SlotOf(theirpid[q])].pi_pid = theirpid[q]
         /\ pidinfo[SlotOf(theirpid[q])].pi_ppid = p_pid[q]
         /\ pidinfo[SlotOf(theirpid[q])].pi_exited <=> pstate[q] = "woken"
         /\ theirpid[q] \in Pid
  BY <1>1, <1>5, <1>8, WaiterEntry
<1>11. panicked' = FALSE
  <2>1. pi_get(p_pid[p]) # NULL
    BY <1>2 DEF PidInv, ProcHasEntry
  <2>2. \A i \in ExitDrops(p) : Sleepers(pidinfo[i].pi_pid) = {}
    <3>1. SUFFICES ASSUME NEW i \in ExitDrops(p),
                          NEW q \in Sleepers(pidinfo[i].pi_pid)
                   PROVE  FALSE
      OBVIOUS
    <3>2. q \in Proc /\ pstate[q] = "sleeping" /\ theirpid[q] = pidinfo[i].pi_pid
      BY DEF Sleepers
    <3>3. i \in Occupied /\ i \notin Occupied'
      BY <1>3 DEF ExitDrops, ExitedChildren, DropsSelf
    <3>4. SlotOf(pidinfo[i].pi_pid) = i
      BY <3>3 DEF PidInv, EntryOwned
    <3> QED
      BY <1>10, <3>2, <3>3, <3>4
  <2> QED
    BY <2>1, <2>2 DEF At, Exit
<1>12. TypeOK'
  <2>1. pstate' \in [Proc -> PState]
    BY <1>1 DEF PidInv, TypeOK, Broadcast, PState
  <2>2. p_pid' \in [Proc -> Pid \cup {InvalidPid}]
    BY <1>1 DEF PidInv, TypeOK
  <2> QED
    BY <1>1, <1>3, <1>11, <2>1, <2>2 DEF PidInv, TypeOK
<1>13. EntryOwned'
  <2> SUFFICES ASSUME NEW i \in Occupied'
               PROVE  /\ SlotOf(pidinfo'[i].pi_pid) = i
                      /\ pidinfo'[i].pi_ppid # pidinfo'[i].pi_pid
                      /\ ~pidinfo'[i].pi_exited =>
                           \E q \in Proc : p_pid'[q] = pidinfo'[i].pi_pid
                      /\ pidinfo'[i].pi_exited =>
                           /\ pidinfo'[i].pi_ppid # InvalidPid
                           /\ \A q \in Proc : p_pid'[q] # pidinfo'[i].pi_pid
    BY DEF EntryOwned
  <2>1. /\ i \in Occupied /\ SlotOf(pidinfo[i].pi_pid) = i
        /\ pidinfo[i].pi_ppid # pidinfo[i].pi_pid
        /\ ~pidinfo[i].pi_exited => \E q \in Proc : p_pid[q] = pidinfo[i].pi_pid
        /\ pidinfo[i].pi_exited =>
             /\ pidinfo[i].pi_ppid # InvalidPid
             /\ \A q \in Proc : p_pid[q] # pidinfo[i].pi_pid
    BY <1>4 DEF PidInv, EntryOwned
  <2>2. pidinfo[i].pi_pid \in Pid /\ InvalidPid \notin Pid
    BY <2>1, EntryType, Pids DEF PidInv
  <2>3. CASE i = own
    BY <1>2, <1>4, <1>6, <1>7, <1>8, <2>1, <2>2, <2>3
  <2>4. CASE i # own
    <3>1. pidinfo[i].pi_pid # p_pid[p]
      BY <2>1, <2>4 DEF own
    <3> QED
      BY <1>4, <1>6, <1>7, <2>1, <2>2, <2>4, <3>1
  <2> QED
    BY <2>3, <2>4
<1>14. PidsDistinct'
  BY <1>7 DEF PidInv, PidsDistinct
<1>15. ParentAlive'
  BY <1>4, <1>7 DEF PidInv, ParentAlive
<1>16. ProcHasEntry'
  <2> SUFFICES ASSUME NEW q \in Proc, p_pid'[q] # InvalidPid
               PROVE  pi_get(p_pid[q])' # NULL /\ ~pi_get(p_pid[q])'.pi_exited
    BY DEF ProcHasEntry
  <2>1. q # p /\ p_pid'[q] = p_pid[q] /\ p_pid[q] # InvalidPid
    BY <1>7
  <2>2. pi_get(p_pid[q])' = pidinfo'[SlotOf(p_pid[q])]
    BY <1>4, <1>9, <2>1 DEF pi_get, Occupied
  <2> QED
    BY <1>4, <1>9, <2>1, <2>2 DEF Occupied
<1>17. WaiterSafe'
  <2> SUFFICES ASSUME NEW q \in Proc, pstate'[q] \in {"sleeping", "woken"}
               PROVE  /\ pi_get(theirpid[q])' # NULL
                      /\ pi_get(theirpid[q])'.pi_ppid = p_pid'[q]
                      /\ pi_get(theirpid[q])'.pi_exited <=> pstate'[q] = "woken"
    BY DEF WaiterSafe
  <2>1. q # p /\ pstate[q] \in {"sleeping", "woken"} /\ p_pid'[q] = p_pid[q]
    BY <1>7
  <2> DEFINE i == SlotOf(theirpid[q])
  <2>2. /\ i \in Occupied' /\ pidinfo[i].pi_pid = theirpid[q]
        /\ pidinfo[i].pi_ppid = p_pid[q]
        /\ pidinfo[i].pi_exited <=> pstate[q] = "woken"
    BY <1>10, <2>1
  <2>3. pi_get(theirpid[q])' = pidinfo'[i] /\ pidinfo'[i] # NULL
    BY <1>1, <1>4, <2>2 DEF pi_get, Occupied
  <2>4. p_pid[q] # p_pid[p]
    BY <1>8, <2>1
  <2>5. i = own <=> theirpid[q] = p_pid[p]
    BY <1>2, <2>2 DEF own
  <2>6. CASE i = own
    BY <1>2, <1>4, <1>7, <2>1, <2>2, <2>3, <2>4, <2>5, <2>6
  <2>7. CASE i # own
    BY <1>4, <1>7, <2>1, <2>2, <2>3, <2>4, <2>5, <2>7
  <2> QED
    BY <2>6, <2>7
<1>18. ForkOwnsEmbryo'
  <2>1. \A q \in Proc : pstate'[q] = "forking" =>
          pstate[q] = "forking" /\ q # p /\ newproc[q] # p
    BY <1>1, <1>7 DEF PidInv, ForkOwnsEmbryo
  <2>2. \A q \in Proc : pstate[q] = "forking" => p_pid[newproc[q]] # InvalidPid
    BY DEF PidInv, ForkOwnsEmbryo, PidWhileAlive
  <2>3. \A q \in Proc : pstate'[q] = "forking" =>
          SlotOf(p_pid[newproc[q]]) \in Occupied'
    BY <1>9, <2>1, <2>2 DEF PidInv, ForkOwnsEmbryo
  <2> SUFFICES ASSUME NEW q \in Proc, pstate'[q] = "forking"
               PROVE  /\ newproc'[q] \in Proc
                      /\ pstate'[newproc'[q]] = "embryo"
                      /\ pidinfo'[SlotOf(p_pid'[newproc'[q]])].pi_ppid = p_pid'[q]
                      /\ \A i \in Occupied' :
                           pidinfo'[i].pi_ppid # p_pid'[newproc'[q]]
                      /\ \A r \in Proc : pstate'[r] = "forking"
                            /\ newproc'[r] = newproc'[q] => r = q
    BY DEF ForkOwnsEmbryo
  <2>4. /\ newproc[q] \in Proc /\ pstate[newproc[q]] = "embryo"
        /\ pidinfo[SlotOf(p_pid[newproc[q]])].pi_ppid = p_pid[q]
        /\ \A i \in Occupied : pidinfo[i].pi_ppid # p_pid[newproc[q]]
        /\ \A r \in Proc : pstate[r] = "forking" /\ newproc[r] = newproc[q] => r = q
    BY <2>1 DEF PidInv, ForkOwnsEmbryo
  <2> QED
    BY <1>1, <1>4, <1>7, <1>8, <2>1, <2>2, <2>3, <2>4
<1>19. PidWhileAlive'
  BY <1>1, <1>7, ConstantsAssumption DEF PidInv, PidWhileAlive
<1> QED
  BY <1>3, <1>11, <1>12, <1>13, <1>14, <1>15, <1>16, <1>17, <1>18, <1>19
  DEF PidInv, NoPanic

-----------------------------------------------------------------------------
(* Every step keeps the invariant. *)
THEOREM NextInv == PidInv /\ [Next]_vars => PidInv'
<1> SUFFICES ASSUME PidInv, [Next]_vars PROVE PidInv'
  OBVIOUS
<1>1. CASE UNCHANGED vars
  BY <1>1
  DEF vars, PidInv, TypeOK, CountExact, EntryOwned, PidsDistinct, ParentAlive,
      ProcHasEntry, WaiterSafe, ForkOwnsEmbryo, PidWhileAlive, NoPanic, Occupied,
      pi_get
<1>2. CASE MenuForkFailed
  BY <1>2, MenuForkFailedInv
<1>3. ASSUME NEW p \in Proc, Step(p) PROVE PidInv'
  <2>1. CASE ForkAlloc(p)
    BY <2>1, ForkAllocInv
  <2>2. CASE ForkRefused(p)
    BY <2>2, ForkRefusedInv
  <2>3. CASE ForkFails(p)
    BY <2>3, ForkFailsInv
  <2>4. CASE ForkStart(p)
    BY <2>4, ForkStartInv
  <2>5. ASSUME NEW pid \in Pid \cup {InvalidPid}, NEW flags \in Flags,
               Wait(p, pid, flags)
        PROVE  PidInv'
    BY <2>5, WaitRefusedInv, WaitAtOnceInv, WaitSleepInv DEF Wait
  <2>6. CASE WaitWake(p)
    BY <2>6, WaitWakeInv
  <2>7. ASSUME NEW status \in Status, Exit(p, status) PROVE PidInv'
    BY <2>7, ExitInv
  <2>8. CASE ExitDestroy(p)
    BY <2>8, ExitDestroyInv
  <2> QED
    BY <1>3, <2>1, <2>2, <2>3, <2>4, <2>5, <2>6, <2>7, <2>8 DEF Step
<1> QED
  BY <1>1, <1>2, <1>3 DEF Next

(* The table stays consistent: PidInv holds in every reachable state. *)
THEOREM PidTableCorrect == Spec => []PidInv
<1> QED
  BY InitInv, NextInv, PTL DEF Spec

(* The type invariant of the process table and of the processes. *)
THEOREM TypeCorrect == Spec => []TypeOK
<1>1. PidInv => TypeOK
  BY DEF PidInv
<1> QED
  BY PidTableCorrect, <1>1, PTL

(* A parent that sleeps in pid_wait never loses its child's entry and is   *)
(* woken by the child's exit, whatever pids are reused meanwhile: the      *)
(* single cv_wait of pid_wait, without a loop, is right. *)
THEOREM WaitersSafe == Spec => []WaiterSafe
<1>1. PidInv => WaiterSafe
  BY DEF PidInv
<1> QED
  BY PidTableCorrect, <1>1, PTL

(* nprocs counts the entries, parents are alive and every zombie has one   *)
(* that can collect it. *)
THEOREM TableConsistent == Spec => [](CountExact /\ EntryOwned /\ ParentAlive)
<1>1. PidInv => CountExact /\ EntryOwned /\ ParentAlive
  BY DEF PidInv
<1> QED
  BY PidTableCorrect, <1>1, PTL

(* If thread_fork never fails for the menu, no KASSERT of pid.c and        *)
(* proc_destroy ever fails. *)
THEOREM NeverPanics ==
    ASSUME ~MenuForkFails
    PROVE  Spec => []NoPanic
<1>1. PidInv => NoPanic
  BY DEF PidInv
<1> QED
  BY PidTableCorrect, <1>1, PTL

-----------------------------------------------------------------------------
(* The loop of pid_alloc ends.  What is needed of remainders.              *)
LEMMA ModUnique ==
    ASSUME NEW P \in Nat, P > 0, NEW f \in 0 .. P - 1, NEW q \in Int
    PROVE  (f + q * P) % P = f
OBVIOUS

(* Of P numbers in a row one falls into each slot.                         *)
LEMMA OneOfRow ==
    ASSUME NEW P \in Nat, P > 0, NEW f \in 0 .. P - 1, NEW n \in Int
    PROVE  \E m \in 0 .. P - 1 : (n + m) % P = f
<1> DEFINE m == (f - n) % P
           q == (f - n) \div P
<1>1. m \in 0 .. P - 1 /\ q \in Int
  OBVIOUS
<1>2. f - n = P * q + m
  OBVIOUS
<1> HIDE DEF m, q
<1>3. n + m = f + (0 - q) * P /\ 0 - q \in Int
  BY <1>1, <1>2
<1>4. (f + (0 - q) * P) % P = f
  BY <1>3, ModUnique
<1> QED
  BY <1>1, <1>3, <1>4

(* A set of numbers has a least one.                                       *)
LEMMA LeastOf ==
    ASSUME NEW S \in SUBSET Nat, S # {}
    PROVE  \E n \in S : \A k \in S : n <= k
<1> DEFINE Less == {ss \in Nat \X Nat : ss[1] < ss[2]}
<1>1. OpToRel(<, Nat) = Less
  BY Zenon DEF OpToRel
<1>2. IsWellFoundedOn(Less, Nat)
  BY <1>1, NatLessThanWellFounded
<1>3. \A n, k \in Nat : <<n, k>> \notin Less => k <= n
  OBVIOUS
<1> HIDE DEF Less
<1>4. PICK n \in S : \A k \in S : <<k, n>> \notin Less
  BY <1>2, WFMin
<1> QED
  BY <1>3, <1>4

(* Wherever it starts, the counter comes to every slot before it has been  *)
(* advanced twice for each: in the pids up to PID_MAX, or after the wrap.  *)
LEMMA Reaches ==
    ASSUME ProcsMax <= PidMax - PidMin + 1, NEW pid \in UserPid, NEW f \in Slot
    PROVE  \E k \in 0 .. 2 * ProcsMax : SlotOf(inc_nextpid(pid, k)) = f
<1> DEFINE R == PidMax - PidMin + 1
           d == pid - PidMin
<1>1. /\ R \in Nat /\ R > 0 /\ d \in 0 .. R - 1 /\ ProcsMax \in Nat /\ ProcsMax > 0
      /\ ProcsMax <= R /\ f \in 0 .. ProcsMax - 1
      /\ pid \in Int /\ PidMin \in Int /\ pid = PidMin + d
  BY ConstantsAssumption DEF UserPid, Slot, KernelPid
<1>2. \A k : inc_nextpid(pid, k) = PidMin + ((d + k) % R)
  BY DEF inc_nextpid
<1> HIDE DEF R, d
<1>3. CASE d + ProcsMax <= R
  <2>1. PICK m \in 0 .. ProcsMax - 1 : (pid + m) % ProcsMax = f
    BY <1>1, OneOfRow
  <2>2. d + m \in 0 .. R - 1
    BY <1>1, <1>3
  <2>3. (d + m) % R = d + m
    BY <1>1, <2>2
  <2>4. inc_nextpid(pid, m) = pid + m /\ m \in 0 .. 2 * ProcsMax
    BY <1>1, <1>2, <2>3
  <2> QED
    BY <2>1, <2>4 DEF SlotOf
<1>4. CASE ~ d + ProcsMax <= R
  <2>1. PICK m \in 0 .. ProcsMax - 1 : (PidMin + m) % ProcsMax = f
    BY <1>1, OneOfRow
  <2> DEFINE k == (R - d) + m
  <2>2. m \in 0 .. R - 1 /\ d + k = R + m /\ k \in 0 .. 2 * ProcsMax
    BY <1>1, <1>4
  <2>3. (R + m) % R = m
    BY <1>1, <2>2
  <2>4. inc_nextpid(pid, k) = PidMin + m
    BY <1>2, <2>2, <2>3
  <2> QED
    BY <2>1, <2>2, <2>4 DEF SlotOf
<1> QED
  BY <1>3, <1>4

(* While nprocs is below PROCS_MAX a slot is free, so the loop finds one:  *)
(* the first it comes to.                                                  *)
LEMMA AllocFinds ==
    ASSUME ProcsMax <= PidMax - PidMin + 1, PidInv, nprocs # ProcsMax
    PROVE  Skips # {}
<1>1. PICK f \in Slot : pidinfo[f] = NULL
  <2>1. SUFFICES ASSUME \A i \in Slot : pidinfo[i] # NULL PROVE FALSE
    OBVIOUS
  <2>2. Occupied = Slot
    BY <2>1 DEF Occupied
  <2> QED
    BY <2>2, Slots DEF PidInv, CountExact
<1>2. nextpid \in UserPid
  BY DEF PidInv, TypeOK
<1> DEFINE Hit == {k \in 0 .. 2 * ProcsMax + 5 : pidinfo[SlotOf(inc_nextpid(nextpid, k))] = NULL}
<1>3. Hit # {} /\ Hit \in SUBSET Nat
  <2>1. PICK k \in 0 .. 2 * ProcsMax : SlotOf(inc_nextpid(nextpid, k)) = f
    BY <1>2, Reaches
  <2>2. k \in 0 .. 2 * ProcsMax + 5
    BY ConstantsAssumption
  <2>3. Hit \in SUBSET Nat
    BY ConstantsAssumption
  <2> QED
    BY <1>1, <2>1, <2>2, <2>3
<1>4. PICK k \in Hit : \A j \in Hit : k <= j
  <2> HIDE DEF Hit
  <2> QED
    BY <1>3, LeastOf
<1>5. \A j \in 0 .. k - 1 : j \in 0 .. 2 * ProcsMax + 5 /\ j \notin Hit
  <2>1. k \in 0 .. 2 * ProcsMax + 5
    OBVIOUS
  <2>2. \A j \in 0 .. k - 1 : j \in 0 .. 2 * ProcsMax + 5 /\ ~ k <= j
    BY <2>1, ConstantsAssumption
  <2> HIDE DEF Hit
  <2> QED
    BY <1>4, <2>2
<1>6. k \in Skips
  BY <1>5 DEF Skips
<1> QED
  BY <1>6

(* If there are at least as many user pids as slots (in the code 32766 and *)
(* 128), the loop of pid_alloc ends within the bound that it asserts       *)
(* whenever a slot is free, wherever nextpid is.                           *)
THEOREM AllocEnds ==
    ASSUME ProcsMax <= PidMax - PidMin + 1
    PROVE  Spec => []AllocTerminates
<1>1. PidInv => AllocTerminates
  BY AllocFinds DEF AllocTerminates
<1> QED
  BY PidTableCorrect, <1>1, PTL

-----------------------------------------------------------------------------
(* PidTable implements ProcFamily.  The status in an entry is one that a   *)
(* process passed to _exit exactly if the process has exited.              *)
StatusInv ==
    \A i \in Occupied : pidinfo[i].pi_exited <=> pidinfo[i].pi_exitstatus # Junk

(* x is the pid of a child of q, in a table and with pids of processes.    *)
Child(table, pids, q, x) ==
    /\ x \in Pid
    /\ table[SlotOf(x)] # NULL /\ table[SlotOf(x)].pi_pid = x
    /\ table[SlotOf(x)].pi_ppid = pids[q]
    /\ pids[q] # InvalidPid

(* Kids is the function from the pids of children to what their entries    *)
(* say.                                                                    *)
KidsAre ==
    \A q \in Proc :
        /\ \A x : x \in DOMAIN Kids[q] <=> Child(pidinfo, p_pid, q, x)
        /\ \A x \in DOMAIN Kids[q] : Kids[q][x] = pidinfo[SlotOf(x)].pi_exitstatus
        /\ Kids[q] = [x \in DOMAIN Kids[q] |-> Kids[q][x]]

LEMMA KidsNow == PidInv => KidsAre
<1> SUFFICES ASSUME PidInv, NEW q \in Proc
             PROVE  /\ \A x : x \in DOMAIN Kids[q] <=> Child(pidinfo, p_pid, q, x)
                    /\ \A x \in DOMAIN Kids[q] :
                           Kids[q][x] = pidinfo[SlotOf(x)].pi_exitstatus
                    /\ Kids[q] = [x \in DOMAIN Kids[q] |-> Kids[q][x]]
  BY DEF KidsAre
<1>1. Kids[q] = [x \in KidPids(q) |-> pidinfo[SlotOf(x)].pi_exitstatus]
  BY DEF Kids
<1>2. ASSUME NEW x PROVE x \in KidPids(q) <=> Child(pidinfo, p_pid, q, x)
  <2>1. ASSUME x \in KidPids(q) PROVE Child(pidinfo, p_pid, q, x)
    <3>1. PICK i \in Occupied : pidinfo[i].pi_ppid = p_pid[q] /\ x = pidinfo[i].pi_pid
      BY <2>1 DEF KidPids
    <3>2. SlotOf(x) = i /\ x \in Pid /\ pidinfo[i] # NULL
      BY <3>1, EntryType DEF PidInv, EntryOwned, Occupied
    <3> QED
      BY <2>1, <3>1, <3>2 DEF Child, KidPids
  <2>2. ASSUME Child(pidinfo, p_pid, q, x) PROVE x \in KidPids(q)
    <3>1. SlotOf(x) \in Occupied
      BY <2>2, Wraps, Pids DEF Child, Occupied
    <3> QED
      BY <2>2, <3>1 DEF Child, KidPids
  <2> QED
    BY <2>1, <2>2
<1> QED
  BY <1>1, <1>2

LEMMA KidsNext == PidInv' => KidsAre'
  BY KidsNow, PTL

(* Calls that deliver no status.                                           *)
LEMMA Answers ==
    ASSUME PidInv, NEW P \in SUBSET Proc, UNCHANGED <<pidinfo, p_pid>>,
           ret \in [Proc -> Return], ret' \in [Proc -> Return],
           \A q \in Proc : IF q \in P THEN ret'[q].status = Junk ELSE ret'[q] = ret[q]
    PROVE  Family!Next
<1>1. Kids' = Kids
  BY DEF Kids, KidPids, Occupied
<1>2. Got' = [q \in Proc |-> IF q \in P THEN NULL ELSE Got[q]]
  BY DEF Got
<1>3. Family!Answer(P)
  BY <1>1, <1>2 DEF Family!Answer
<1> QED
  BY <1>3 DEF Family!Next

LEMMA AnswerSteps ==
    ASSUME PidInv, PidInv', NEW p \in Proc,
           \/ ForkRefused(p) \/ ForkStart(p) \/ ExitDestroy(p)
           \/ \E pid \in Pid \cup {InvalidPid}, flags \in Flags :
                  WaitRefused(p, pid, flags) \/ WaitNoHang(p, pid, flags)
    PROVE  Family!Next
<1>1. ret \in [Proc -> Return] /\ ret' \in [Proc -> Return]
  BY DEF PidInv, TypeOK
<1>2. UNCHANGED <<pidinfo, p_pid>>
  BY DEF ForkRefused, ForkStart, ExitDestroy, WaitRefused, WaitNoHang
<1>3. \E P \in SUBSET Proc :
          \A q \in Proc : IF q \in P THEN ret'[q].status = Junk ELSE ret'[q] = ret[q]
  <2>1. CASE ForkStart(p)
    <3> DEFINE c == newproc[p]
               P == {p, c}
    <3>1. c \in Proc
      BY <2>1 DEF ForkStart, At, PidInv, ForkOwnsEmbryo
    <3>2. ret' = [ret EXCEPT ![p] = Value(p_pid[c], Junk), ![c] = Value(InvalidPid, Junk)]
      BY <2>1 DEF ForkStart
    <3>3. \A q \in Proc : IF q \in P THEN ret'[q].status = Junk ELSE ret'[q] = ret[q]
      BY <1>1, <3>1, <3>2 DEF Value
    <3>4. P \in SUBSET Proc
      BY <3>1
    <3> QED
      BY <3>3, <3>4
  <2>2. ASSUME NEW r, r.status = Junk, ret' = [ret EXCEPT ![p] = r]
        PROVE  \E P \in SUBSET Proc :
                   \A q \in Proc : IF q \in P THEN ret'[q].status = Junk
                                   ELSE ret'[q] = ret[q]
    <3>1. \A q \in Proc : IF q \in {p} THEN ret'[q].status = Junk ELSE ret'[q] = ret[q]
      BY <1>1, <2>2
    <3> QED
      BY <3>1
  <2>3. CASE \/ ForkRefused(p) \/ ExitDestroy(p)
             \/ \E pid \in Pid \cup {InvalidPid}, flags \in Flags :
                    WaitRefused(p, pid, flags) \/ WaitNoHang(p, pid, flags)
    <3>1. \E r : r.status = Junk /\ ret' = [ret EXCEPT ![p] = r]
      <4>1. \A e, pid : Error(e).status = Junk /\ Value(pid, Junk).status = Junk
        BY DEF Error, Value
      <4>2. (\E e : ret' = [ret EXCEPT ![p] = Error(e)])
            \/ ret' = [ret EXCEPT ![p] = Value(InvalidPid, Junk)]
        BY <2>3 DEF ForkRefused, ExitDestroy, WaitRefused, WaitNoHang
      <4> QED
        BY <4>1, <4>2
    <3> QED
      BY <2>2, <3>1
  <2> QED
    BY <2>1, <2>3
<1> QED
  BY <1>1, <1>2, <1>3, Answers

(* A step that takes one child from its parent, and no other.              *)
LEMMA OneKidLess ==
    ASSUME PidInv, PidInv', NEW p \in Proc, NEW pid,
           \A q \in Proc : \A x : Child(pidinfo', p_pid', q, x) <=>
                                  Child(pidinfo, p_pid, q, x) /\ ~(q = p /\ x = pid),
           \A q \in Proc : \A x : Child(pidinfo', p_pid', q, x) =>
                                  pidinfo'[SlotOf(x)] = pidinfo[SlotOf(x)]
    PROVE  Kids' = [Kids EXCEPT ![p] = Family!Without(Kids[p], pid)]
<1>1. KidsAre /\ KidsAre'
  BY KidsNow, KidsNext
<1>2. ASSUME NEW q \in Proc
      PROVE  Kids'[q] = IF q = p THEN Family!Without(Kids[p], pid) ELSE Kids[q]
  <2>1. /\ \A x : x \in DOMAIN Kids[q] <=> Child(pidinfo, p_pid, q, x)
        /\ \A x \in DOMAIN Kids[q] : Kids[q][x] = pidinfo[SlotOf(x)].pi_exitstatus
        /\ Kids[q] = [x \in DOMAIN Kids[q] |-> Kids[q][x]]
    BY <1>1 DEF KidsAre
  <2>2. /\ \A x : x \in DOMAIN Kids'[q] <=> Child(pidinfo', p_pid', q, x)
        /\ \A x \in DOMAIN Kids'[q] : Kids'[q][x] = pidinfo'[SlotOf(x)].pi_exitstatus
        /\ Kids'[q] = [x \in DOMAIN Kids'[q] |-> Kids'[q][x]]
    BY <1>1 DEF KidsAre
  <2>3. \A x \in DOMAIN Kids'[q] : x \in DOMAIN Kids[q] /\ Kids'[q][x] = Kids[q][x]
    BY <2>1, <2>2
  <2>4. CASE q = p
    <3>1. DOMAIN Kids'[q] = DOMAIN Kids[q] \ {pid}
      BY <2>1, <2>2, <2>4
    <3>2. Kids'[q] = [x \in DOMAIN Kids[q] \ {pid} |-> Kids[q][x]]
      BY <2>2, <2>3, <3>1
    <3> QED
      BY <2>4, <3>2 DEF Family!Without
  <2>5. CASE q # p
    <3>1. DOMAIN Kids'[q] = DOMAIN Kids[q]
      BY <2>1, <2>2, <2>5
    <3> QED
      BY <2>1, <2>2, <2>3, <2>5, <3>1
  <2> QED
    BY <2>4, <2>5
<1> QED
  BY <1>2 DEF Kids

(* waitpid takes the status of a child, once.                              *)
LEMMA ReapCollects ==
    ASSUME PidInv, PidInv', StatusInv, NEW p \in Proc, NEW pid \in Pid, Reap(p, pid),
           SlotOf(pid) \in Occupied, pidinfo[SlotOf(pid)].pi_pid = pid,
           pidinfo[SlotOf(pid)].pi_exited,
           pidinfo[SlotOf(pid)].pi_ppid = p_pid[p],
           p_pid[p] # InvalidPid
    PROVE  Family!Next
<1> USE Wraps, Pids
<1>1. pi_drop(pid) /\ p_pid' = p_pid
  BY DEF Reap
<1>2. \A i \in Slot : pidinfo'[i] = IF i = SlotOf(pid) THEN NULL ELSE pidinfo[i]
  BY <1>1, Drop
<1>3. \A q \in Proc : \A x :
          /\ Child(pidinfo', p_pid', q, x) <=>
                 Child(pidinfo, p_pid, q, x) /\ ~(q = p /\ x = pid)
          /\ Child(pidinfo', p_pid', q, x) => pidinfo'[SlotOf(x)] = pidinfo[SlotOf(x)]
  <2> SUFFICES ASSUME NEW q \in Proc, NEW x
               PROVE  /\ Child(pidinfo', p_pid', q, x) <=>
                             Child(pidinfo, p_pid, q, x) /\ ~(q = p /\ x = pid)
                      /\ Child(pidinfo', p_pid', q, x) =>
                             pidinfo'[SlotOf(x)] = pidinfo[SlotOf(x)]
    OBVIOUS
  <2>1. CASE x \in Pid /\ SlotOf(x) = SlotOf(pid)
    <3>1. ~Child(pidinfo', p_pid', q, x)
      BY <1>2, <2>1 DEF Child
    <3>2. Child(pidinfo, p_pid, q, x) => x = pid /\ p_pid[q] = p_pid[p]
      BY <2>1 DEF Child
    <3>3. Child(pidinfo, p_pid, q, x) => x = pid /\ q = p
      BY <3>2 DEF PidInv, PidsDistinct
    <3> QED
      BY <3>1, <3>3
  <2>2. CASE x \in Pid /\ SlotOf(x) # SlotOf(pid)
    BY <1>1, <1>2, <2>2 DEF Child
  <2>3. CASE x \notin Pid
    BY <2>3 DEF Child
  <2> QED
    BY <2>1, <2>2, <2>3
<1>4. Kids' = [Kids EXCEPT ![p] = Family!Without(Kids[p], pid)]
  BY <1>3, OneKidLess
<1>5. pid \in DOMAIN Kids[p] /\ Kids[p][pid] = pidinfo[SlotOf(pid)].pi_exitstatus
  <2>1. Child(pidinfo, p_pid, p, pid)
    BY DEF Child, Occupied
  <2> QED
    BY <2>1, KidsNow DEF KidsAre
<1>6. Kids[p][pid] # Junk
  BY <1>5 DEF StatusInv
<1>7. pid \in UserPid
  <2>1. p_pid[KProc] = KernelPid /\ KProc \in Proc /\ KernelPid # InvalidPid
    BY ConstantsAssumption DEF PidInv, PidWhileAlive
  <2>2. ~pidinfo[SlotOf(KernelPid)].pi_exited
    BY <2>1, LiveEntry
  <2> QED
    BY <2>2 DEF Pid
<1>8. Got' \in {[Got EXCEPT ![p] = r] : r \in {<<pid, Kids[p][pid]>>, NULL}}
  <2>1. ret \in [Proc -> Return]
    BY DEF PidInv, TypeOK
  <2>2. CASE ret' = [ret EXCEPT ![p] = Value(pid, pidinfo[SlotOf(pid)].pi_exitstatus)]
    <3>1. ret' = [ret EXCEPT ![p] = Value(pid, Kids[p][pid])]
      BY <1>5, <2>2
    <3>2. \A q \in Proc : Got'[q] = IF q = p THEN <<pid, Kids[p][pid]>> ELSE Got[q]
      BY <1>6, <2>1, <3>1 DEF Got, Value
    <3>3. Got' = [Got EXCEPT ![p] = <<pid, Kids[p][pid]>>]
      BY <3>2 DEF Got
    <3> QED
      BY <3>3
  <2>3. CASE ret' = [ret EXCEPT ![p] = Error("EFAULT")]
    <3>1. \A q \in Proc : Got'[q] = IF q = p THEN NULL ELSE Got[q]
      BY <2>1, <2>3 DEF Got, Error
    <3>2. Got' = [Got EXCEPT ![p] = NULL]
      BY <3>1 DEF Got
    <3> QED
      BY <3>2
  <2> QED
    BY <2>2, <2>3 DEF Reap
<1>9. Family!Collect(p, pid)
  BY <1>1, <1>4, <1>5, <1>6, <1>8 DEF Family!Collect
<1> QED
  BY <1>7, <1>9 DEF Family!Next

(* A fork that fails half way.                                             *)
LEMMA ForkFailsUnspawns ==
    ASSUME PidInv, PidInv', StatusInv, NEW p \in Proc, ForkFails(p)
    PROVE  Family!Next
<1> USE Wraps, Pids
<1> DEFINE c == newproc[p]
           pid == p_pid[c]
<1>1. /\ pstate[p] = "forking" /\ c \in Proc /\ pstate[c] = "embryo" /\ c # p
      /\ pidinfo[SlotOf(pid)].pi_ppid = p_pid[p]
      /\ \A i \in Occupied : pidinfo[i].pi_ppid # pid
      /\ pi_drop(pid) /\ p_pid' = [p_pid EXCEPT ![c] = InvalidPid]
      /\ ret' = [ret EXCEPT ![p] = Error("ENOMEM")]
  BY DEF ForkFails, At, PidInv, ForkOwnsEmbryo
<1>2. pid # InvalidPid /\ p_pid[p] # InvalidPid
  BY <1>1 DEF PidInv, PidWhileAlive
<1>3. /\ pid \in Pid /\ SlotOf(pid) \in Occupied /\ pidinfo[SlotOf(pid)].pi_pid = pid
      /\ ~pidinfo[SlotOf(pid)].pi_exited
  BY <1>1, <1>2, LiveEntry
<1>4. \A i \in Slot : pidinfo'[i] = IF i = SlotOf(pid) THEN NULL ELSE pidinfo[i]
  BY <1>1, <1>3, Drop
<1>5. \A q \in Proc : p_pid'[q] = IF q = c THEN InvalidPid ELSE p_pid[q]
  BY <1>1 DEF PidInv, TypeOK
<1> HIDE DEF pid, c
<1>6. \A q \in Proc : \A x :
          /\ Child(pidinfo', p_pid', q, x) <=>
                 Child(pidinfo, p_pid, q, x) /\ ~(q = p /\ x = pid)
          /\ Child(pidinfo', p_pid', q, x) => pidinfo'[SlotOf(x)] = pidinfo[SlotOf(x)]
  <2> SUFFICES ASSUME NEW q \in Proc, NEW x
               PROVE  /\ Child(pidinfo', p_pid', q, x) <=>
                             Child(pidinfo, p_pid, q, x) /\ ~(q = p /\ x = pid)
                      /\ Child(pidinfo', p_pid', q, x) =>
                             pidinfo'[SlotOf(x)] = pidinfo[SlotOf(x)]
    OBVIOUS
  <2>1. CASE x \in Pid /\ SlotOf(x) = SlotOf(pid)
    <3>1. ~Child(pidinfo', p_pid', q, x)
      BY <1>4, <2>1 DEF Child
    <3>2. Child(pidinfo, p_pid, q, x) => x = pid /\ p_pid[q] = p_pid[p]
      BY <1>1, <1>3, <2>1 DEF Child
    <3>3. Child(pidinfo, p_pid, q, x) => x = pid /\ q = p
      BY <1>2, <3>2 DEF PidInv, PidsDistinct
    <3> QED
      BY <3>1, <3>3
  <2>2. CASE x \in Pid /\ SlotOf(x) # SlotOf(pid)
    <3>1. SlotOf(x) \in Slot /\ pidinfo'[SlotOf(x)] = pidinfo[SlotOf(x)]
      BY <1>4, <2>2
    <3>2. ~Child(pidinfo, p_pid, c, x)
      BY <1>1, <3>1 DEF Child, Occupied, pid
    <3>3. CASE q = c
      BY <1>5, <3>2, <3>3 DEF Child
    <3>4. CASE q # c
      BY <1>5, <2>2, <3>1, <3>4 DEF Child
    <3> QED
      BY <3>3, <3>4
  <2>3. CASE x \notin Pid
    BY <2>3 DEF Child
  <2> QED
    BY <2>1, <2>2, <2>3
<1>7. Kids' = [Kids EXCEPT ![p] = Family!Without(Kids[p], pid)]
  BY <1>6, OneKidLess
<1>8. pid \in DOMAIN Kids[p] /\ Kids[p][pid] = pidinfo[SlotOf(pid)].pi_exitstatus
  <2>1. Child(pidinfo, p_pid, p, pid)
    BY <1>1, <1>2, <1>3 DEF Child, Occupied
  <2> QED
    BY <2>1, KidsNow DEF KidsAre
<1>9. Kids[p][pid] = Junk
  BY <1>3, <1>8 DEF StatusInv
<1>10. Got' = [Got EXCEPT ![p] = NULL]
  <2>1. ret \in [Proc -> Return]
    BY DEF PidInv, TypeOK
  <2>2. \A q \in Proc : Got'[q] = IF q = p THEN NULL ELSE Got[q]
    BY <1>1, <2>1 DEF Got, Error
  <2> QED
    BY <2>2 DEF Got
<1>11. pid = p_pid[c] /\ c \in Proc
  BY <1>1 DEF pid
<1>12. Family!Unspawn(p, c)
  BY <1>1, <1>7, <1>8, <1>9, <1>10, <1>11 DEF Family!Unspawn
<1> QED
  BY <1>11, <1>12 DEF Family!Next

(* A fork takes a pid that nobody runs under and whose status nobody       *)
(* holds.                                                                  *)
LEMMA ForkAllocSpawns ==
    ASSUME PidInv, PidInv', NEW p \in Proc, ForkAlloc(p)
    PROVE  Family!Next
<1> USE Wraps, Pids, NullAssumption
<1>1. PICK c \in Proc, k \in Skips :
        /\ pstate[c] = "none"
        /\ pi_put(inc_nextpid(nextpid, k),
                  pidinfo_create(inc_nextpid(nextpid, k), p_pid[p]))
        /\ p_pid' = [p_pid EXCEPT ![c] = inc_nextpid(nextpid, k)]
  BY DEF ForkAlloc
<1>2. pstate[p] = "user" /\ ret' = ret
  BY DEF At, ForkAlloc
<1> DEFINE pid == inc_nextpid(nextpid, k)
           new == pidinfo_create(pid, p_pid[p])
<1>3. k \in Int /\ pidinfo[SlotOf(pid)] = NULL
  BY <1>1, ConstantsAssumption DEF Skips
<1>4. nextpid \in Int
  BY DEF PidInv, TypeOK
<1>5. pid \in UserPid /\ pid \in Int /\ pid \in Pid
  BY <1>3, <1>4
<1> HIDE DEF pid
<1>6. p_pid[p] \in Pid /\ p_pid[p] # InvalidPid /\ p_pid[c] = InvalidPid /\ p # c
  BY <1>1, <1>2 DEF PidInv, PidWhileAlive, TypeOK
<1>7. new.pi_pid = pid /\ new.pi_ppid = p_pid[p] /\ new # NULL /\ new.pi_exitstatus = Junk
  <2>1. new \in PidInfo
    BY <1>5, <1>6 DEF pidinfo_create, PidInfo
  <2> QED
    BY <2>1 DEF pidinfo_create
<1> HIDE DEF new
<1>8. SlotOf(pid) \in Slot /\ pidinfo' = [pidinfo EXCEPT ![SlotOf(pid)] = new]
  BY <1>1, <1>5 DEF pi_put, pid, new
<1>9. \A i \in Slot : pidinfo'[i] = IF i = SlotOf(pid) THEN new ELSE pidinfo[i]
  BY <1>8 DEF PidInv, TypeOK
<1>10. \A q \in Proc : p_pid'[q] = IF q = c THEN pid ELSE p_pid[q]
  BY <1>1 DEF PidInv, TypeOK, pid
<1>11. /\ \A q \in Proc : p_pid[q] # pid
       /\ \A i \in Occupied : pidinfo[i].pi_ppid # pid
  BY <1>3, <1>5, FreshPid
<1>12. \A q \in Proc : \A x :
           /\ Child(pidinfo', p_pid', q, x) <=>
                  Child(pidinfo, p_pid, q, x) \/ (q = p /\ x = pid)
           /\ Child(pidinfo, p_pid, q, x) =>
                  pidinfo'[SlotOf(x)] = pidinfo[SlotOf(x)] /\ x # pid
  <2> SUFFICES ASSUME NEW q \in Proc, NEW x
               PROVE  /\ Child(pidinfo', p_pid', q, x) <=>
                             Child(pidinfo, p_pid, q, x) \/ (q = p /\ x = pid)
                      /\ Child(pidinfo, p_pid, q, x) =>
                             pidinfo'[SlotOf(x)] = pidinfo[SlotOf(x)] /\ x # pid
    OBVIOUS
  <2>1. CASE x \in Pid /\ SlotOf(x) = SlotOf(pid)
    <3>1. ~Child(pidinfo, p_pid, q, x)
      BY <1>3, <2>1 DEF Child
    <3>2. pidinfo'[SlotOf(x)] = new
      BY <1>8, <1>9, <2>1
    <3>3. Child(pidinfo', p_pid', q, x) <=> x = pid /\ p_pid'[q] = p_pid[p]
      BY <1>6, <1>7, <2>1, <3>2 DEF Child
    <3>4. p_pid'[q] = p_pid[p] <=> q = p
      BY <1>6, <1>10, <1>11 DEF PidInv, PidsDistinct
    <3> QED
      BY <3>1, <3>3, <3>4
  <2>2. CASE x \in Pid /\ SlotOf(x) # SlotOf(pid)
    <3>1. SlotOf(x) \in Slot /\ pidinfo'[SlotOf(x)] = pidinfo[SlotOf(x)] /\ x # pid
      BY <1>9, <2>2
    <3>2. CASE q = c
      <4>1. ~Child(pidinfo, p_pid, c, x)
        BY <1>6 DEF Child
      <4>2. ~Child(pidinfo', p_pid', c, x)
        BY <1>10, <1>11, <3>1 DEF Child, Occupied
      <4> QED
        BY <1>6, <3>1, <3>2, <4>1, <4>2
    <3>3. CASE q # c
      BY <1>10, <2>2, <3>1, <3>3 DEF Child
    <3> QED
      BY <3>2, <3>3
  <2>3. CASE x \notin Pid
    BY <1>5, <2>3 DEF Child
  <2> QED
    BY <2>1, <2>2, <2>3
<1>13. \A q \in Proc : p_pid[q] # pid /\ pid \notin DOMAIN Kids[q]
  BY <1>11, <1>12, KidsNow DEF KidsAre
<1>14. ASSUME NEW q \in Proc
       PROVE  Kids'[q] = IF q = p THEN Family!With(Kids[p], pid, Junk) ELSE Kids[q]
  <2>1. /\ \A x : x \in DOMAIN Kids[q] <=> Child(pidinfo, p_pid, q, x)
        /\ \A x \in DOMAIN Kids[q] : Kids[q][x] = pidinfo[SlotOf(x)].pi_exitstatus
        /\ Kids[q] = [x \in DOMAIN Kids[q] |-> Kids[q][x]]
    BY KidsNow DEF KidsAre
  <2>2. /\ \A x : x \in DOMAIN Kids'[q] <=> Child(pidinfo', p_pid', q, x)
        /\ \A x \in DOMAIN Kids'[q] : Kids'[q][x] = pidinfo'[SlotOf(x)].pi_exitstatus
        /\ Kids'[q] = [x \in DOMAIN Kids'[q] |-> Kids'[q][x]]
    BY KidsNext DEF KidsAre
  <2>3. \A x \in DOMAIN Kids[q] :
            x # pid /\ x \in DOMAIN Kids'[q] /\ Kids'[q][x] = Kids[q][x]
    BY <1>12, <2>1, <2>2
  <2>4. CASE q = p
    <3>1. DOMAIN Kids'[q] = DOMAIN Kids[q] \cup {pid}
      BY <1>12, <2>1, <2>2, <2>4
    <3>2. Kids'[q][pid] = Junk
      BY <1>7, <1>8, <1>9, <2>2, <3>1
    <3>3. \A x \in DOMAIN Kids'[q] : Kids'[q][x] = IF x = pid THEN Junk ELSE Kids[q][x]
      BY <2>3, <3>1, <3>2
    <3>4. Kids'[q] = [x \in DOMAIN Kids[q] \cup {pid} |->
                         IF x = pid THEN Junk ELSE Kids[q][x]]
      BY <2>2, <3>1, <3>3
    <3> QED
      BY <2>4, <3>4 DEF Family!With
  <2>5. CASE q # p
    <3>1. DOMAIN Kids'[q] = DOMAIN Kids[q]
      BY <1>12, <2>1, <2>2, <2>5
    <3> QED
      BY <2>1, <2>2, <2>3, <2>5, <3>1
  <2> QED
    BY <2>4, <2>5
<1>15. Kids' = [Kids EXCEPT ![p] = Family!With(Kids[p], pid, Junk)]
  BY <1>14 DEF Kids
<1>16. Got' = Got
  BY <1>2 DEF Got
<1>17. p_pid' = [p_pid EXCEPT ![c] = pid]
  BY <1>1 DEF pid
<1>18. Family!Spawn(p, c, pid)
  BY <1>6, <1>13, <1>15, <1>16, <1>17 DEF Family!Spawn, Family!InUse
<1> QED
  BY <1>5, <1>18 DEF Family!Next

(* _exit leaves the status to the parent and disowns the children.         *)
LEMMA ExitTerminates ==
    ASSUME PidInv, PidInv', NEW p \in Proc, NEW status \in Status, Exit(p, status)
    PROVE  Family!Next
<1> USE Wraps, Pids
<1> DEFINE own == SlotOf(p_pid[p])
<1>1. /\ p # KProc /\ pstate[p] = "user" /\ ret' = ret
      /\ p_pid' = [p_pid EXCEPT ![p] = InvalidPid]
  BY DEF At, Exit
<1>2. /\ p_pid[p] # InvalidPid /\ p_pid[p] \in Pid /\ own \in Occupied
      /\ pidinfo[own].pi_pid = p_pid[p]
  BY <1>1, LiveEntry DEF PidInv, PidWhileAlive
<1>3. Occupied' = Occupied \ ExitDrops(p)
  BY ExitTable
<1>4. \A i \in Occupied' :
        /\ i \in Occupied /\ pidinfo'[i].pi_pid = pidinfo[i].pi_pid
        /\ pidinfo'[i].pi_ppid = IF pidinfo[i].pi_ppid = p_pid[p]
                                 THEN InvalidPid ELSE pidinfo[i].pi_ppid
        /\ pidinfo'[i].pi_exitstatus = IF i = own THEN status
                                       ELSE pidinfo[i].pi_exitstatus
  BY ExitTable
<1>5. \A i \in Occupied : i \notin Occupied' =>
        pidinfo[i].pi_ppid \in {p_pid[p], InvalidPid}
  BY <1>3 DEF ExitDrops, ExitedChildren, DropsSelf
<1>6. \A q \in Proc : p_pid'[q] = IF q = p THEN InvalidPid ELSE p_pid[q]
  BY <1>1 DEF PidInv, TypeOK
<1>7. \A q \in Proc : q # p => p_pid[q] # p_pid[p]
  BY <1>2 DEF PidInv, PidsDistinct
<1> HIDE DEF own
<1>8. \A x : ~Child(pidinfo', p_pid', p, x)
  BY <1>6 DEF Child
<1>9. \A q \in Proc \ {p} : \A x :
          /\ Child(pidinfo', p_pid', q, x) <=> Child(pidinfo, p_pid, q, x)
          /\ Child(pidinfo', p_pid', q, x) =>
                 /\ SlotOf(x) \in Occupied'
                 /\ SlotOf(x) = own <=> x = p_pid[p]
  <2> SUFFICES ASSUME NEW q \in Proc \ {p}, NEW x \in Pid
               PROVE  /\ Child(pidinfo', p_pid', q, x) <=> Child(pidinfo, p_pid, q, x)
                      /\ Child(pidinfo', p_pid', q, x) =>
                             /\ SlotOf(x) \in Occupied'
                             /\ SlotOf(x) = own <=> x = p_pid[p]
    BY DEF Child
  <2> DEFINE i == SlotOf(x)
  <2>1. i \in Slot
    OBVIOUS
  <2> HIDE DEF i
  <2>2. p_pid'[q] = p_pid[q] /\ p_pid[q] # p_pid[p]
    BY <1>6, <1>7
  <2>3. CASE i \in Occupied'
    <3>1. i \in Occupied /\ pidinfo[i] # NULL /\ pidinfo'[i] # NULL
      BY <1>4, <2>3 DEF Occupied
    <3>2. Child(pidinfo', p_pid', q, x) <=> Child(pidinfo, p_pid, q, x)
      BY <1>4, <2>2, <2>3, <3>1 DEF Child, i
    <3>3. Child(pidinfo, p_pid, q, x) => pidinfo[i].pi_pid = x
      BY DEF Child, i
    <3>4. Child(pidinfo, p_pid, q, x) => (i = own <=> x = p_pid[p])
      BY <1>2, <3>3 DEF own, i
    <3> QED
      BY <2>3, <3>2, <3>4 DEF i
  <2>4. CASE i \notin Occupied'
    <3>1. ~Child(pidinfo', p_pid', q, x)
      BY <2>1, <2>4 DEF Child, Occupied, i
    <3>2. ~Child(pidinfo, p_pid, q, x)
      BY <1>5, <2>1, <2>2, <2>4 DEF Child, Occupied, i
    <3> QED
      BY <3>1, <3>2
  <2> QED
    BY <2>3, <2>4
<1>10. ASSUME NEW q \in Proc
       PROVE  Kids'[q] = IF q = p THEN Family!None
                         ELSE IF p_pid[p] \in DOMAIN Kids[q]
                              THEN Family!With(Kids[q], p_pid[p], status) ELSE Kids[q]
  <2>1. /\ \A x : x \in DOMAIN Kids[q] <=> Child(pidinfo, p_pid, q, x)
        /\ \A x \in DOMAIN Kids[q] : Kids[q][x] = pidinfo[SlotOf(x)].pi_exitstatus
        /\ Kids[q] = [x \in DOMAIN Kids[q] |-> Kids[q][x]]
    BY KidsNow DEF KidsAre
  <2>2. /\ \A x : x \in DOMAIN Kids'[q] <=> Child(pidinfo', p_pid', q, x)
        /\ \A x \in DOMAIN Kids'[q] : Kids'[q][x] = pidinfo'[SlotOf(x)].pi_exitstatus
        /\ Kids'[q] = [x \in DOMAIN Kids'[q] |-> Kids'[q][x]]
    BY KidsNext DEF KidsAre
  <2>3. CASE q = p
    <3>1. DOMAIN Kids'[q] = {}
      BY <1>8, <2>2, <2>3
    <3> QED
      BY <2>2, <2>3, <3>1 DEF Family!None
  <2>4. CASE q # p
    <3>1. DOMAIN Kids'[q] = DOMAIN Kids[q]
      BY <1>9, <2>1, <2>2, <2>4
    <3>2. \A x \in DOMAIN Kids[q] :
              Kids'[q][x] = IF x = p_pid[p] THEN status ELSE Kids[q][x]
      BY <1>4, <1>9, <2>1, <2>2, <2>4, <3>1
    <3>3. CASE p_pid[p] \in DOMAIN Kids[q]
      <4>1. DOMAIN Kids[q] \cup {p_pid[p]} = DOMAIN Kids[q]
        BY <3>3
      <4>2. Kids'[q] = [x \in DOMAIN Kids[q] |->
                           IF x = p_pid[p] THEN status ELSE Kids[q][x]]
        BY <2>2, <3>1, <3>2
      <4> QED
        BY <2>4, <3>3, <4>1, <4>2 DEF Family!With
    <3>4. CASE p_pid[p] \notin DOMAIN Kids[q]
      BY <2>1, <2>2, <2>4, <3>1, <3>2, <3>4
    <3> QED
      BY <3>3, <3>4
  <2> QED
    BY <2>3, <2>4
<1>11. Kids' = [q \in Proc |->
                  IF q = p THEN Family!None
                  ELSE IF p_pid[p] \in DOMAIN Kids[q]
                       THEN Family!With(Kids[q], p_pid[p], status) ELSE Kids[q]]
  BY <1>10 DEF Kids
<1>12. Got' = Got
  BY <1>1 DEF Got
<1>13. Family!Terminate(p, status)
  BY <1>1, <1>2, <1>11, <1>12 DEF Family!Terminate
<1> QED
  BY <1>13 DEF Family!Next

(* Entries keep their statuses, and get one on exit.                       *)
LEMMA StatusStep == PidInv /\ PidInv' /\ StatusInv /\ [Next]_vars => StatusInv'
<1> SUFFICES ASSUME PidInv, PidInv', StatusInv, [Next]_vars PROVE StatusInv'
  OBVIOUS
<1> USE Wraps, Pids, NullAssumption
<1>1. ASSUME \A i \in Occupied' : i \in Occupied /\ pidinfo'[i] = pidinfo[i]
      PROVE  StatusInv'
  BY <1>1 DEF StatusInv
<1>2. CASE pidinfo' = pidinfo
  BY <1>1, <1>2 DEF Occupied
<1>3. ASSUME NEW pid, pi_drop(pid) PROVE StatusInv'
  <2>1. pidinfo' = [pidinfo EXCEPT ![SlotOf(pid)] = NULL]
    BY <1>3 DEF pi_drop
  <2>2. \A i \in Slot : pidinfo'[i] # NULL => pidinfo'[i] = pidinfo[i]
    BY <2>1 DEF PidInv, TypeOK
  <2> QED
    BY <1>1, <2>2 DEF Occupied
<1>4. ASSUME NEW p \in Proc, ForkAlloc(p) PROVE StatusInv'
  <2>1. \E s \in Slot : \E pid : pidinfo' = [pidinfo EXCEPT ![s] = pidinfo_create(pid, p_pid[p])]
    <3>1. PICK k \in Skips :
              pi_put(inc_nextpid(nextpid, k), pidinfo_create(inc_nextpid(nextpid, k), p_pid[p]))
      BY <1>4 DEF ForkAlloc
    <3>2. k \in Int /\ nextpid \in Int
      BY <3>1, ConstantsAssumption DEF Skips, PidInv, TypeOK
    <3>3. SlotOf(inc_nextpid(nextpid, k)) \in Slot
      BY <3>2
    <3> QED
      BY <3>1, <3>3 DEF pi_put
  <2>a. PICK s \in Slot : \E pid : pidinfo' = [pidinfo EXCEPT ![s] = pidinfo_create(pid, p_pid[p])]
    BY <2>1
  <2>2. PICK pid : pidinfo' = [pidinfo EXCEPT ![s] = pidinfo_create(pid, p_pid[p])]
    BY <2>a
  <2>3. /\ pidinfo'[s] = pidinfo_create(pid, p_pid[p])
        /\ \A i \in Slot : i # s => pidinfo'[i] = pidinfo[i]
    BY <2>2 DEF PidInv, TypeOK
  <2>4. pidinfo'[s].pi_exited = FALSE /\ pidinfo'[s].pi_exitstatus = Junk
    BY <2>3 DEF pidinfo_create
  <2> QED
    BY <2>3, <2>4 DEF StatusInv, Occupied
<1>5. ASSUME NEW p \in Proc, NEW status \in Status, Exit(p, status) PROVE StatusInv'
  <2>1. \A i \in Occupied' :
          /\ i \in Occupied
          /\ pidinfo'[i].pi_exited = (i = SlotOf(p_pid[p]) \/ pidinfo[i].pi_exited)
          /\ pidinfo'[i].pi_exitstatus = IF i = SlotOf(p_pid[p]) THEN status
                                         ELSE pidinfo[i].pi_exitstatus
    BY <1>5, ExitTable
  <2>2. status # Junk
    BY ConstantsAssumption DEF Junk
  <2> QED
    BY <2>1, <2>2 DEF StatusInv
<1>6. CASE UNCHANGED vars \/ MenuForkFailed
  BY <1>2, <1>6 DEF vars, MenuForkFailed
<1>7. ASSUME NEW p \in Proc, Step(p) PROVE StatusInv'
  <2>1. CASE ForkRefused(p) \/ ForkStart(p) \/ ExitDestroy(p)
    BY <1>2, <2>1 DEF ForkRefused, ForkStart, ExitDestroy
  <2>2. CASE ForkFails(p) \/ WaitWake(p)
    BY <1>3, <2>2 DEF ForkFails, WaitWake, Reap
  <2>3. ASSUME NEW pid, NEW flags, Wait(p, pid, flags) PROVE StatusInv'
    BY <1>2, <1>3, <2>3 DEF Wait, WaitRefused, WaitNoHang, WaitAtOnce, WaitSleep, Reap
  <2> QED
    BY <1>4, <1>5, <1>7, <2>1, <2>2, <2>3 DEF Step
<1> QED
  BY <1>6, <1>7 DEF Next

LEMMA InitFamily == Init => Family!Init /\ StatusInv
<1> SUFFICES ASSUME Init PROVE Family!Init /\ StatusInv
  OBVIOUS
<1>1. PidInv
  BY InitInv
<1>2. Occupied = {KernelPid} /\ pidinfo[KernelPid] = pidinfo_create(KernelPid, InvalidPid)
  <2>1. \A i \in Slot : pidinfo[i] = IF i = KernelPid
                           THEN pidinfo_create(KernelPid, InvalidPid) ELSE NULL
    BY DEF Init
  <2>2. pidinfo_create(KernelPid, InvalidPid) # NULL
    <3>1. pidinfo_create(KernelPid, InvalidPid) \in PidInfo
      BY Pids, ConstantsAssumption DEF pidinfo_create, PidInfo, Pid
    <3> QED
      BY <3>1, NullAssumption
  <2> QED
    BY <2>1, <2>2, Slots DEF Occupied
<1>3. StatusInv
  BY <1>2 DEF StatusInv, pidinfo_create
<1>4. \A q \in Proc : Kids[q] = Family!None
  <2> SUFFICES ASSUME NEW q \in Proc PROVE Kids[q] = Family!None
    OBVIOUS
  <2>1. \A x : ~Child(pidinfo, p_pid, q, x)
    <3> SUFFICES ASSUME NEW x, Child(pidinfo, p_pid, q, x) PROVE FALSE
      OBVIOUS
    <3>1. SlotOf(x) \in Occupied
      BY Wraps, Pids DEF Child, Occupied
    <3>2. pidinfo[SlotOf(x)].pi_ppid = InvalidPid
      BY <1>2, <3>1 DEF pidinfo_create
    <3> QED
      BY <3>2 DEF Child
  <2>2. DOMAIN Kids[q] = {} /\ Kids[q] = [x \in DOMAIN Kids[q] |-> Kids[q][x]]
    BY <1>1, <2>1, KidsNow DEF KidsAre
  <2> QED
    BY <2>2 DEF Family!None
<1>5. Kids = [q \in Proc |-> Family!None]
  BY <1>4 DEF Kids
<1>6. Got = [q \in Proc |-> NULL]
  BY DEF Got, Init, Value
<1> QED
  BY <1>3, <1>5, <1>6 DEF Family!Init, Init

LEMMA StepFamily ==
    PidInv /\ PidInv' /\ StatusInv /\ [Next]_vars =>
        Family!Next \/ UNCHANGED <<p_pid, Kids, Got>>
<1> SUFFICES ASSUME PidInv, PidInv', StatusInv, [Next]_vars
             PROVE  Family!Next \/ UNCHANGED <<p_pid, Kids, Got>>
  OBVIOUS
<1>1. ASSUME UNCHANGED <<pidinfo, p_pid, ret>>
      PROVE  UNCHANGED <<p_pid, Kids, Got>>
  BY <1>1 DEF Kids, KidPids, Occupied, Got
<1>2. CASE UNCHANGED vars \/ MenuForkFailed
  BY <1>1, <1>2 DEF vars, MenuForkFailed
<1>3. ASSUME NEW p \in Proc, Step(p)
      PROVE  Family!Next \/ UNCHANGED <<p_pid, Kids, Got>>
  <2>1. CASE ForkAlloc(p)
    BY <2>1, ForkAllocSpawns
  <2>2. CASE ForkRefused(p) \/ ForkStart(p) \/ ExitDestroy(p)
    BY <2>2, AnswerSteps
  <2>3. CASE ForkFails(p)
    BY <2>3, ForkFailsUnspawns
  <2>4. ASSUME NEW pid \in Pid \cup {InvalidPid}, NEW flags \in Flags, Wait(p, pid, flags)
        PROVE  Family!Next \/ UNCHANGED <<p_pid, Kids, Got>>
    <3>1. CASE WaitRefused(p, pid, flags) \/ WaitNoHang(p, pid, flags)
      BY <3>1, AnswerSteps
    <3>2. CASE WaitSleep(p, pid, flags)
      BY <1>1, <3>2 DEF WaitSleep
    <3>3. CASE WaitAtOnce(p, pid, flags)
      <4>1. /\ pid \in Pid /\ SlotOf(pid) \in Occupied
            /\ pidinfo[SlotOf(pid)].pi_pid = pid
            /\ pidinfo[SlotOf(pid)].pi_exited
            /\ pidinfo[SlotOf(pid)].pi_ppid = p_pid[p]
            /\ p_pid[p] # InvalidPid /\ Reap(p, pid)
        BY <3>3, WaitOK DEF WaitAtOnce
      <4> QED
        BY <4>1, ReapCollects
    <3> QED
      BY <2>4, <3>1, <3>2, <3>3 DEF Wait
  <2>5. CASE WaitWake(p)
    <3> DEFINE pid == theirpid[p]
    <3>1. pstate[p] = "woken" /\ Reap(p, pid)
      BY <2>5 DEF At, WaitWake
    <3>2. /\ pid \in Pid /\ SlotOf(pid) \in Occupied
          /\ pidinfo[SlotOf(pid)].pi_pid = pid
          /\ pidinfo[SlotOf(pid)].pi_exited
          /\ pidinfo[SlotOf(pid)].pi_ppid = p_pid[p]
          /\ p_pid[p] # InvalidPid
      BY <3>1, WaiterEntry
    <3> HIDE DEF pid
    <3> QED
      BY <3>1, <3>2, ReapCollects
  <2>6. ASSUME NEW status \in Status, Exit(p, status) PROVE Family!Next
    BY <2>6, ExitTerminates
  <2> QED
    BY <1>3, <2>1, <2>2, <2>3, <2>4, <2>5, <2>6 DEF Step
<1> QED
  BY <1>2, <1>3 DEF Next

(* Fork, waitpid and _exit do what a family of processes with no table     *)
(* promises: a status reaches the parent and nobody else, once, and no pid *)
(* is given out while a process runs under it or somebody may still        *)
(* collect its status (pid.c, proc.c, proc_syscalls.c).                    *)
THEOREM FamilyImplemented == Spec => ImplementsFamily
<1>1. PidInv /\ PidInv' /\ StatusInv /\ [Next]_vars => [Family!Next]_<<p_pid, Kids, Got>>
  BY StepFamily
<1> QED
  BY <1>1, InitFamily, StatusStep, PidTableCorrect, PTL
  DEF Spec, ImplementsFamily, Family!Spec, Family!vars
=============================================================================
