------------------------------ MODULE PidTable ------------------------------
(***************************************************************************)
(* Process ids, fork, wait and exit (kern/proc/pid.c, the pid side of      *)
(* kern/proc/proc.c and kern/syscall/proc_syscalls.c, and the kernel       *)
(* menu's common_prog in kern/main/menu.c).                                *)
(*                                                                         *)
(* The process table is a hash table indexed by pid % PROCS_MAX with one   *)
(* pidinfo per slot.  Every function of pid.c holds the sleep lock pidlock *)
(* from its first to its last access of the table, so a critical section   *)
(* is one step here; the one place that lets go of pidlock half way, the   *)
(* cv_wait of pid_wait, is the boundary between two steps.  (That a lock   *)
(* excludes and that cv_wait loses no wakeup is the subject of module      *)
(* Monitor.)                                                               *)
(***************************************************************************)
EXTENDS Integers, FiniteSets

CONSTANTS
    Proc,       \* the struct proc objects that can exist at once
    KProc,      \* kproc, the kernel's own process
    NULL,       \* the null pointer
    ProcsMax,   \* PROCS_MAX, the number of slots
    PidMin,     \* PID_MIN
    PidMax,     \* PID_MAX
    Status,     \* the exit statuses a process may pass to _exit
    MenuForkFails   \* can the thread_fork of the menu fail?

InvalidPid == 0
KernelPid == 1
Slot == 0 .. ProcsMax - 1
UserPid == PidMin .. PidMax
Pid == {KernelPid} \cup UserPid
Junk == -1      \* 0xbeef, the status of a process that has not exited

ASSUME ConstantsAssumption ==
    /\ KProc \in Proc
    /\ IsFiniteSet(Proc)
    /\ ProcsMax \in Nat /\ ProcsMax > KernelPid
    /\ PidMin \in Nat /\ PidMin > KernelPid
    /\ PidMax \in Nat /\ PidMax >= PidMin
    /\ Status \subseteq Nat
    /\ MenuForkFails \in BOOLEAN

PidInfo == [pi_pid : Pid, pi_ppid : Pid \cup {InvalidPid},
            pi_exited : BOOLEAN, pi_exitstatus : Status \cup {Junk}]

ASSUME NullAssumption == NULL \notin PidInfo /\ NULL \notin Proc

VARIABLES
    pidinfo,    \* the table: a pidinfo or NULL in each slot
    nextpid,    \* next candidate pid
    nprocs,     \* number of allocated pids
    p_pid,      \* proc -> its pid, INVALID_PID before and after
    pstate,     \* proc -> where its struct and its thread are
    newproc,    \* proc -> the child it is creating, in proc_fork .. thread_fork
    theirpid,   \* proc -> the pid it is waiting for, in pid_wait
    ret,        \* proc -> what its last system call returned
    panicked    \* a KASSERT has failed

vars == <<pidinfo, nextpid, nprocs, p_pid, pstate, newproc, theirpid, ret,
          panicked>>

(***************************************************************************)
(* States of a struct proc and of its only thread.  "none": not allocated; *)
(* "embryo": created, no thread yet; "user": running user code (for kproc, *)
(* the menu prompt); "forking": between pid_alloc and thread_fork;         *)
(* "mustwait": the menu about to call pid_wait; "sleeping": in cv_wait;    *)
(* "woken": broadcast to, waiting to get pidlock back; "exited": past      *)
(* pid_setexitstatus, struct not yet destroyed.                            *)
(***************************************************************************)
PState == {"none", "embryo", "user", "forking", "mustwait", "sleeping",
           "woken", "exited"}

Errno == {"OK", "EAGAIN", "ENOMEM", "EINVAL", "ENOSYS", "ESRCH", "EPERM",
          "EFAULT"}
Return == [err : Errno, val : Pid \cup {InvalidPid},
           status : Status \cup {Junk}]
Error(e) == [err |-> e, val |-> InvalidPid, status |-> Junk]
Value(pid, s) == [err |-> "OK", val |-> pid, status |-> s]

pidinfo_create(pid, ppid) ==
    [pi_pid |-> pid, pi_ppid |-> ppid, pi_exited |-> FALSE,
     pi_exitstatus |-> Junk]

Init ==
    /\ pidinfo = [i \in Slot |->
                    IF i = KernelPid THEN pidinfo_create(KernelPid, InvalidPid)
                                     ELSE NULL]
    /\ nextpid = PidMin
    /\ nprocs = 1
    /\ p_pid = [p \in Proc |-> IF p = KProc THEN KernelPid ELSE InvalidPid]
    /\ pstate = [p \in Proc |-> IF p = KProc THEN "user" ELSE "none"]
    /\ newproc = [p \in Proc |-> NULL]
    /\ theirpid = [p \in Proc |-> InvalidPid]
    /\ ret = [p \in Proc |-> Value(InvalidPid, Junk)]
    /\ panicked = FALSE

-----------------------------------------------------------------------------
(* The table *)

SlotOf(pid) == pid % ProcsMax
Occupied == {i \in Slot : pidinfo[i] # NULL}

(* pi_get compares the whole pid: other pids share the slot. *)
pi_get_SlotOnly(pid) == pidinfo[SlotOf(pid)]
pi_get(pid) ==
    IF pidinfo[SlotOf(pid)] # NULL /\ pidinfo[SlotOf(pid)].pi_pid = pid
    THEN pidinfo[SlotOf(pid)] ELSE NULL

(* pi_put and pi_drop keep nprocs in step with the table. *)
pi_put_Uncounted(pid, pi) ==
    /\ pidinfo' = [pidinfo EXCEPT ![SlotOf(pid)] = pi]
    /\ nprocs' = nprocs
pi_put(pid, pi) ==
    /\ pidinfo' = [pidinfo EXCEPT ![SlotOf(pid)] = pi]
    /\ nprocs' = nprocs + 1

pi_drop(pid) ==
    /\ pidinfo' = [pidinfo EXCEPT ![SlotOf(pid)] = NULL]
    /\ nprocs' = nprocs - 1

(* nextpid after k calls of inc_nextpid: it wraps from PID_MAX to PID_MIN. *)
inc_nextpid(pid, k) == PidMin + ((pid - PidMin + k) % (PidMax - PidMin + 1))

(* The number of candidates the loop of pid_alloc skips (at most one       *)
(* number); the loop asserts that it stays below its bound.                *)
Skips_NoProbe == {0}
Skips == {k \in 0 .. 2 * ProcsMax + 5 :
            /\ pidinfo[SlotOf(inc_nextpid(nextpid, k))] = NULL
            /\ \A j \in 0 .. k - 1 :
                 pidinfo[SlotOf(inc_nextpid(nextpid, j))] # NULL}

(* A thread sleeps on the pi_cv of the pidinfo of `pid'.  cv_destroy       *)
(* asserts there is none.                                                  *)
Sleepers(pid) == {p \in Proc : pstate[p] = "sleeping" /\ theirpid[p] = pid}

(* p's thread is at point s.  After a panic nothing runs. *)
At(p, s) == ~panicked /\ pstate[p] = s

-----------------------------------------------------------------------------
(* fork *)

(* sys_fork -> proc_fork -> proc_create and pid_alloc; for kproc, the      *)
(* menu's proc_create_runprogram -> pid_alloc.                             *)
ForkAlloc(p) ==
    /\ At(p, "user")
    /\ nprocs # ProcsMax
    /\ \E c \in Proc, k \in Skips :
         LET pid == inc_nextpid(nextpid, k) IN
         /\ pstate[c] = "none"
         /\ pi_put(pid, pidinfo_create(pid, p_pid[p]))
         /\ nextpid' = inc_nextpid(pid, 1)
         /\ p_pid' = [p_pid EXCEPT ![c] = pid]
         /\ pstate' = [pstate EXCEPT ![p] = "forking", ![c] = "embryo"]
         /\ newproc' = [newproc EXCEPT ![p] = c]
    /\ UNCHANGED <<theirpid, ret, panicked>>

(* pid_alloc refuses: the table is full, or pidinfo_create is out of       *)
(* memory.  In the second case the loop has already moved nextpid on.      *)
ForkRefused(p) ==
    /\ At(p, "user")
    /\ \/ /\ nprocs = ProcsMax
          /\ ret' = [ret EXCEPT ![p] = Error("EAGAIN")]
          /\ UNCHANGED nextpid
       \/ /\ nprocs # ProcsMax
          /\ \E k \in Skips : nextpid' = inc_nextpid(nextpid, k)
          /\ ret' = [ret EXCEPT ![p] = Error("ENOMEM")]
    /\ UNCHANGED <<pidinfo, nprocs, p_pid, pstate, newproc, theirpid, panicked>>

(* as_copy, filetable_copy or thread_fork fails after pid_alloc: the new   *)
(* pid is given back with pid_unalloc and the proc destroyed.              *)
ForkFails(p) ==
    LET c == newproc[p]
        pid == p_pid[c] IN
    /\ p # KProc
    /\ At(p, "forking")
    /\ pi_drop(pid)
    /\ p_pid' = [p_pid EXCEPT ![c] = InvalidPid]
    /\ pstate' = [pstate EXCEPT ![p] = "user", ![c] = "none"]
    /\ newproc' = [newproc EXCEPT ![p] = NULL]
    /\ ret' = [ret EXCEPT ![p] = Error("ENOMEM")]
    /\ panicked' = (pi_get(pid) = NULL \/ pi_get(pid).pi_exited
                    \/ pi_get(pid).pi_ppid # p_pid[p] \/ Sleepers(pid) # {})
    /\ UNCHANGED <<nextpid, theirpid>>

(* thread_fork fails for the menu: common_prog calls proc_destroy without  *)
(* pid_unalloc, and proc_destroy asserts p_pid == INVALID_PID.             *)
MenuForkFailed ==
    /\ MenuForkFails
    /\ At(KProc, "forking")
    /\ p_pid[newproc[KProc]] # InvalidPid
    /\ panicked' = TRUE
    /\ UNCHANGED <<pidinfo, nextpid, nprocs, p_pid, pstate, newproc, theirpid,
                   ret>>

(* thread_fork succeeds.  The pid to return was read before, because the   *)
(* child may run, exit and be destroyed at once.  The menu keeps it to     *)
(* wait for it.                                                            *)
ForkStart(p) ==
    LET c == newproc[p] IN
    /\ At(p, "forking")
    /\ pstate' = [pstate EXCEPT ![p] = IF p = KProc THEN "mustwait" ELSE "user",
                                ![c] = "user"]
    /\ newproc' = [newproc EXCEPT ![p] = NULL]
    /\ theirpid' = [theirpid EXCEPT ![p] = IF p = KProc THEN p_pid[c] ELSE @]
    /\ ret' = [ret EXCEPT ![p] = Value(p_pid[c], Junk),
                          ![c] = Value(InvalidPid, Junk)]
    /\ UNCHANGED <<pidinfo, nextpid, nprocs, p_pid, panicked>>

-----------------------------------------------------------------------------
(* waitpid *)

(* pid_wait(pid, flags) called by p: the menu waits for the child it       *)
(* started, a user process passes anything.                                *)
Flags == {"none", "WNOHANG", "unknown"}
Calls(p, pid, flags) ==
    \/ p # KProc /\ At(p, "user")
    \/ p = KProc /\ At(p, "mustwait") /\ theirpid[p] = pid /\ flags = "none"

(* The tests of pid_wait in their order.                                   *)
WaitError(p, pid, flags) ==
    CASE pid = p_pid[p] -> "EINVAL"
      [] pid # p_pid[p] /\ pid = InvalidPid -> "ENOSYS"
      [] pid \notin {p_pid[p], InvalidPid} /\ flags = "unknown" -> "EINVAL"
      [] OTHER -> IF pi_get(pid) = NULL THEN "ESRCH"
                  ELSE IF pi_get(pid).pi_ppid # p_pid[p] THEN "EPERM" ELSE "OK"

(* The end of pid_wait: read the status, drop the pidinfo.  After it       *)
(* sys_waitpid copies the status out, which fails if the pointer it was    *)
(* given is bad; the child is gone all the same.  (The menu copies         *)
(* nothing.)                                                               *)
Reap(p, pid) ==
    /\ \/ ret' = [ret EXCEPT
                    ![p] = Value(pid, pidinfo[SlotOf(pid)].pi_exitstatus)]
       \/ p # KProc /\ ret' = [ret EXCEPT ![p] = Error("EFAULT")]
    /\ pi_drop(pid)
    /\ pstate' = [pstate EXCEPT ![p] = "user"]
    /\ theirpid' = [theirpid EXCEPT ![p] = InvalidPid]
    /\ UNCHANGED <<nextpid, p_pid, newproc>>

WaitRefused(p, pid, flags) ==
    /\ Calls(p, pid, flags)
    /\ WaitError(p, pid, flags) # "OK"
    /\ ret' = [ret EXCEPT ![p] = Error(WaitError(p, pid, flags))]
    /\ pstate' = [pstate EXCEPT ![p] = "user"]
    /\ theirpid' = [theirpid EXCEPT ![p] = InvalidPid]
    /\ UNCHANGED <<pidinfo, nextpid, nprocs, p_pid, newproc, panicked>>

(* WNOHANG and the child still runs: 0.                                    *)
WaitNoHang(p, pid, flags) ==
    /\ Calls(p, pid, flags)
    /\ WaitError(p, pid, flags) = "OK"
    /\ flags = "WNOHANG"
    /\ ~pi_get(pid).pi_exited
    /\ ret' = [ret EXCEPT ![p] = Value(InvalidPid, Junk)]
    /\ UNCHANGED <<pidinfo, nextpid, nprocs, p_pid, pstate, newproc, theirpid,
                   panicked>>

WaitAtOnce(p, pid, flags) ==
    /\ Calls(p, pid, flags)
    /\ WaitError(p, pid, flags) = "OK"
    /\ pi_get(pid).pi_exited
    /\ Reap(p, pid)
    /\ panicked' = (Sleepers(pid) # {})

WaitSleep(p, pid, flags) ==
    /\ Calls(p, pid, flags)
    /\ WaitError(p, pid, flags) = "OK"
    /\ flags = "none"
    /\ ~pi_get(pid).pi_exited
    /\ pstate' = [pstate EXCEPT ![p] = "sleeping"]
    /\ theirpid' = [theirpid EXCEPT ![p] = pid]
    /\ UNCHANGED <<pidinfo, nextpid, nprocs, p_pid, newproc, ret, panicked>>

(* cv_wait returns, with pidlock held again.  pid_wait does not loop: it   *)
(* asserts that the child has exited and uses the pidinfo it looked up     *)
(* before sleeping.                                                        *)
WaitWake(p) ==
    LET pid == theirpid[p] IN
    /\ At(p, "woken")
    /\ Reap(p, pid)
    /\ panicked' = (pi_get(pid) = NULL \/ ~pi_get(pid).pi_exited
                    \/ Sleepers(pid) # {})

-----------------------------------------------------------------------------
(* exit *)

(* The slots pid_setexitstatus empties: p's exited children, and p itself  *)
(* if it has no parent any more.                                           *)
ExitedChildren(p) ==
    {i \in Occupied : pidinfo[i].pi_ppid = p_pid[p] /\ pidinfo[i].pi_exited}
DropsSelf_Always(p) == {SlotOf(p_pid[p])}
DropsSelf(p) ==
    {i \in Occupied : i = SlotOf(p_pid[p]) /\ pidinfo[i].pi_ppid = InvalidPid}
ExitDrops(p) == ExitedChildren(p) \cup DropsSelf(p)

(* What it leaves in slot i otherwise: children are disowned, p's own      *)
(* entry gets the status.                                                  *)
AfterExit(p, i, status) ==
    IF i = SlotOf(p_pid[p])
    THEN [pidinfo[i] EXCEPT !.pi_exited = TRUE, !.pi_exitstatus = status]
    ELSE IF pidinfo[i].pi_ppid = p_pid[p]
         THEN [pidinfo[i] EXCEPT !.pi_ppid = InvalidPid]
         ELSE pidinfo[i]

(* cv_broadcast on p's own pi_cv.                                          *)
Broadcast_NoOne(pid) == pstate
Broadcast(pid) ==
    [q \in Proc |-> IF q \in Sleepers(pid) THEN "woken" ELSE pstate[q]]

(* sys__exit -> proc_exit -> pid_setexitstatus, one hold of pidlock.       *)
Exit(p, status) ==
    /\ p # KProc
    /\ At(p, "user")
    /\ pidinfo' = [i \in Slot |-> IF i \in Occupied \ ExitDrops(p)
                                  THEN AfterExit(p, i, status) ELSE NULL]
    /\ nprocs' = nprocs - Cardinality(ExitDrops(p))
    /\ pstate' = [Broadcast(p_pid[p]) EXCEPT ![p] = "exited"]
    /\ p_pid' = [p_pid EXCEPT ![p] = InvalidPid]
    /\ panicked' = (pi_get(p_pid[p]) = NULL
                    \/ \E i \in ExitDrops(p) : Sleepers(pidinfo[i].pi_pid) # {})
    /\ UNCHANGED <<nextpid, newproc, theirpid, ret>>

(* The rest of proc_exit: the thread moves to kproc, proc_destroy frees    *)
(* the struct (and asserts p_pid is INVALID_PID).                          *)
ExitDestroy(p) ==
    /\ At(p, "exited")
    /\ pstate' = [pstate EXCEPT ![p] = "none"]
    /\ panicked' = (p_pid[p] # InvalidPid)
    /\ ret' = [ret EXCEPT ![p] = Value(InvalidPid, Junk)]
    /\ UNCHANGED <<pidinfo, nextpid, nprocs, p_pid, newproc, theirpid>>

-----------------------------------------------------------------------------
Wait(p, pid, flags) ==
    \/ WaitRefused(p, pid, flags)
    \/ WaitNoHang(p, pid, flags)
    \/ WaitAtOnce(p, pid, flags)
    \/ WaitSleep(p, pid, flags)

Step(p) ==
    \/ ForkAlloc(p) \/ ForkRefused(p) \/ ForkFails(p) \/ ForkStart(p)
    \/ \E pid \in Pid \cup {InvalidPid}, flags \in Flags : Wait(p, pid, flags)
    \/ WaitWake(p)
    \/ \E status \in Status : Exit(p, status)
    \/ ExitDestroy(p)

Next == MenuForkFailed \/ \E p \in Proc : Step(p)

(* A runnable thread is scheduled again: it finishes what it has begun in  *)
(* the kernel.  Nothing obliges a process to call fork, wait or _exit.     *)
Fairness ==
    \A p \in Proc : WF_vars(WaitWake(p)) /\ WF_vars(ExitDestroy(p))
                    /\ WF_vars(ForkStart(p))

Spec == Init /\ [][Next]_vars
FairSpec == Spec /\ Fairness

-----------------------------------------------------------------------------
(* Properties *)

TypeOK ==
    /\ pidinfo \in [Slot -> PidInfo \cup {NULL}]
    /\ nextpid \in UserPid
    /\ nprocs \in 0 .. ProcsMax
    /\ p_pid \in [Proc -> Pid \cup {InvalidPid}]
    /\ pstate \in [Proc -> PState]
    /\ newproc \in [Proc -> Proc \cup {NULL}]
    /\ theirpid \in [Proc -> Pid \cup {InvalidPid}]
    /\ ret \in [Proc -> Return]
    /\ panicked \in BOOLEAN

(* No KASSERT of pid.c or of proc_destroy fails, whatever the processes    *)
(* do.                                                                     *)
NoPanic == ~panicked

(* nprocs, the count pid_alloc trusts to find a free slot, is the number   *)
(* of entries in the table.                                                *)
CountExact == nprocs = Cardinality(Occupied)

(* Every entry is either that of exactly one process that has not exited,  *)
(* or a zombie whose parent is there to collect it: no status is kept for  *)
(* nobody, and no pid in use is given out twice.                           *)
EntryOwned ==
    \A i \in Occupied :
      /\ SlotOf(pidinfo[i].pi_pid) = i
      /\ pidinfo[i].pi_ppid # pidinfo[i].pi_pid
      /\ ~pidinfo[i].pi_exited => \E p \in Proc : p_pid[p] = pidinfo[i].pi_pid
      /\ pidinfo[i].pi_exited =>
           /\ pidinfo[i].pi_ppid # InvalidPid
           /\ \A p \in Proc : p_pid[p] # pidinfo[i].pi_pid
PidsDistinct ==
    \A p, q \in Proc : p_pid[p] = p_pid[q] /\ p_pid[p] # InvalidPid => p = q

(* A parent link always names a process that is alive: pids are reused     *)
(* after exit, and a stale link would make a stranger the parent.          *)
ParentAlive ==
    \A i \in Occupied : pidinfo[i].pi_ppid # InvalidPid =>
      \E p \in Proc : p_pid[p] = pidinfo[i].pi_ppid

(* A process with a pid has its entry in the table, not exited.            *)
ProcHasEntry ==
    \A p \in Proc : p_pid[p] # InvalidPid =>
      pi_get(p_pid[p]) # NULL /\ ~pi_get(p_pid[p]).pi_exited

(* pid_wait keeps a pointer to the child's pidinfo across cv_wait: the     *)
(* entry stays, with the same parent, and the sleeper is woken by the      *)
(* exit (it sleeps only while the child has not exited, and once woken the *)
(* child has exited: "don't need to loop on this").                        *)
WaiterSafe ==
    \A p \in Proc : pstate[p] \in {"sleeping", "woken"} =>
      /\ pi_get(theirpid[p]) # NULL
      /\ pi_get(theirpid[p]).pi_ppid = p_pid[p]
      /\ pi_get(theirpid[p]).pi_exited <=> pstate[p] = "woken"

(* Between pid_alloc and thread_fork the parent alone knows the embryo, and *)
(* the embryo, which has no child, is its: ForkFails may take both back.   *)
ForkOwnsEmbryo ==
    \A p \in Proc : pstate[p] = "forking" =>
      /\ newproc[p] \in Proc
      /\ pstate[newproc[p]] = "embryo"
      /\ pidinfo[SlotOf(p_pid[newproc[p]])].pi_ppid = p_pid[p]
      /\ \A i \in Occupied : pidinfo[i].pi_ppid # p_pid[newproc[p]]
      /\ \A q \in Proc : pstate[q] = "forking" /\ newproc[q] = newproc[p]
                         => q = p

(* A process has a pid from pid_alloc until pid_setexitstatus.             *)
PidWhileAlive ==
    /\ p_pid[KProc] = KernelPid /\ pstate[KProc] # "embryo"
    /\ \A p \in Proc : p_pid[p] = InvalidPid <=> pstate[p] \in {"none", "exited"}

(* The inductive invariant: every part is needed to carry the others       *)
(* through some step.                                                      *)
PidInv ==
    /\ TypeOK /\ CountExact
    /\ EntryOwned /\ PidsDistinct /\ ParentAlive /\ ProcHasEntry
    /\ WaiterSafe /\ ForkOwnsEmbryo /\ PidWhileAlive
    /\ ~MenuForkFails => NoPanic

(* The comment in pid_alloc: while nprocs is below PROCS_MAX its loop ends *)
(* within the bound it asserts, wherever nextpid is.                       *)
AllocTerminates == nprocs # ProcsMax => Skips # {}

(* A process that waits for a child that ends gets its answer, unless the *)
(* kernel panics.                                                          *)
WaitReturns ==
    \A p \in Proc :
      pstate[p] \in {"sleeping", "woken"}
        /\ (pi_get(theirpid[p]) = NULL \/ pi_get(theirpid[p]).pi_exited)
      ~> pstate[p] = "user" \/ panicked

(* The table implements the family: the children a process has not         *)
(* collected are the entries that carry its pid as parent.                 *)
KidPids(p) == IF p_pid[p] = InvalidPid THEN {}
              ELSE {pidinfo[i].pi_pid : i \in {j \in Occupied :
                                        pidinfo[j].pi_ppid = p_pid[p]}}
Kids == [p \in Proc |->
           [pid \in KidPids(p) |-> pidinfo[SlotOf(pid)].pi_exitstatus]]
Got == [p \in Proc |-> IF ret[p].status = Junk THEN NULL
                       ELSE <<ret[p].val, ret[p].status>>]
Family == INSTANCE ProcFamily WITH
    NoPid <- InvalidPid, Running <- Junk, Nothing <- NULL,
    pidOf <- p_pid,
    kids <- Kids, got <- Got

(* Every step of fork, wait and exit is a step of the promise above: each  *)
(* status is delivered once, to the process that forked the child.         *)
ImplementsFamily == Family!Spec
=============================================================================
