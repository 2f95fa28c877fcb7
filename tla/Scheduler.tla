----------------------------- MODULE Scheduler -----------------------------
(***************************************************************************)
(* The thread system (kern/thread/thread.c, clock.c, spinlock.c): run      *)
(* queues, context switch, idling, sleep and wakeup, thread creation and   *)
(* exit, and migration between processors.                                 *)
(*                                                                         *)
(* Each processor runs one control path at a time, pc[c].  A path that     *)
(* holds a spinlock has interrupts off, so interrupts arrive only at the   *)
(* points "run" (a thread outside the thread system) and "idle".  A step   *)
(* is what a processor does between two points where another one can see   *)
(* it: it ends when a spinlock is released or kept for later.              *)
(***************************************************************************)
EXTENDS Integers, Sequences, FiniteSets, FiniteSetsExt, SequencesExt

CONSTANTS
    Thread,         \* the struct thread objects that can exist at once
    NumCpus,        \* cpuarray_num(&allcpus)
    BootThread,     \* cpu -> the thread cpu_create made for it
    CanFork,        \* is thread_fork called?  (bounds the state space)
    CanExit         \* is thread_exit called?

Cpu == 0 .. NumCpus - 1
Unlocked == -1

ASSUME ConstantsAssumption ==
    /\ NumCpus \in Nat \ {0}
    /\ IsFiniteSet(Thread)
    /\ BootThread \in [Cpu -> Thread]
    /\ \A c, d \in Cpu : BootThread[c] = BootThread[d] => c = d
    /\ CanFork \in BOOLEAN /\ CanExit \in BOOLEAN

VARIABLES
    t_state,        \* thread -> its state, "none" if the struct is free
    t_cpu,          \* thread -> the processor it belongs to
    saved,          \* thread -> is t_context the place to resume it at?
    c_curthread,    \* cpu -> the thread whose stack it runs on
    c_runqueue,     \* cpu -> the threads ready to run there
    c_zombies,      \* cpu -> exited threads not yet destroyed
    c_isidle,       \* cpu -> is it looking for a thread to run?
    c_ipi_pending,  \* cpu -> is an IPI_UNIDLE pending?
    rqlock,         \* cpu -> the holder of its c_runqueue_lock
    wc_threads,     \* the threads asleep on one wait channel
    wclock,         \* the holder of the channel's spinlock
    pc,             \* cpu -> its control point
    job,            \* cpu -> the locals of a wakeup or a migration
    panicked        \* has a KASSERT failed, or a stale context been resumed?

vars == <<t_state, t_cpu, saved, c_curthread, c_runqueue, c_zombies,
          c_isidle, c_ipi_pending, rqlock, wc_threads, wclock, pc, job,
          panicked>>

(***************************************************************************)
(* Control points.  "run": in a thread, interrupts on; "yield": in         *)
(* hardclock, about to thread_yield; "sleep": in wchan_sleep; "next":      *)
(* choosing a thread, run queue locked; "idle": in cpu_idle; "relock":     *)
(* back from it; "finish": after switchframe_switch, run queue locked;     *)
(* "wake": in wchan_wakeone or wchan_wakeall; "count", "take", "give",     *)
(* "putback": in thread_consider_migration.                                *)
(***************************************************************************)
Point == {"run", "yield", "sleep", "next", "idle", "relock", "finish", "wake",
          "count", "take", "give", "putback"}

(* Locals: targets is the private list of a wakeup, or the victims of a    *)
(* migration; the rest are the counters of thread_consider_migration.      *)
NoJob == [targets |-> <<>>, i |-> 0, my |-> 0, total |-> 0, share |-> 0,
          send |-> 0]

Job == [targets : Seq(Thread), i : 0 .. NumCpus, my : Nat, total : Nat,
        share : Nat, send : Nat]

Cur(c) == c_curthread[c]
Queue(c) == c_runqueue[c]

Init ==
    /\ t_state = [t \in Thread |->
                    IF \E c \in Cpu : BootThread[c] = t THEN "S_RUN" ELSE "none"]
    /\ t_cpu = [t \in Thread |->
                  IF \E c \in Cpu : BootThread[c] = t
                  THEN CHOOSE c \in Cpu : BootThread[c] = t ELSE 0]
    /\ saved = [t \in Thread |-> FALSE]
    /\ c_curthread = BootThread
    /\ c_runqueue = [c \in Cpu |-> <<>>]
    /\ c_zombies = [c \in Cpu |-> {}]
    /\ c_isidle = [c \in Cpu |-> FALSE]
    /\ c_ipi_pending = [c \in Cpu |-> FALSE]
    /\ rqlock = [c \in Cpu |-> Unlocked]
    /\ wc_threads = <<>> /\ wclock = Unlocked
    /\ pc = [c \in Cpu |-> "run"]
    /\ job = [c \in Cpu |-> NoJob]
    /\ panicked = FALSE

At(c, p) == ~panicked /\ pc[c] = p
Goto(c, p) == pc' = [pc EXCEPT ![c] = p]

(***************************************************************************)
(* thread_make_runnable puts t at the tail of d's queue, d being t_cpu[t], *)
(* and c, if it is another processor, interrupts d out of its idling.      *)
(***************************************************************************)
Unidles_Never(c, d) == FALSE
Unidles(c, d) == c_isidle[d] /\ d # c

MakeRunnable(c, t) ==
    LET d == t_cpu[t] IN
    /\ t_state' = [t_state EXCEPT ![t] = "S_READY"]
    /\ c_runqueue' = [c_runqueue EXCEPT ![d] = Append(@, t)]
    /\ c_ipi_pending' = [c_ipi_pending EXCEPT ![d] = @ \/ Unidles(c, d)]

(* thread_fork: the new thread starts on the forker's processor.           *)
Fork(c) ==
    /\ At(c, "run") /\ CanFork /\ rqlock[c] = Unlocked
    /\ \E t \in Thread :
         /\ t_state[t] = "none"
         /\ t_state' = [t_state EXCEPT ![t] = "S_READY"]
         /\ t_cpu' = [t_cpu EXCEPT ![t] = t_cpu[Cur(c)]]
         /\ saved' = [saved EXCEPT ![t] = TRUE]
         /\ c_runqueue' = [c_runqueue EXCEPT ![t_cpu[Cur(c)]] = Append(@, t)]
    /\ UNCHANGED <<c_curthread, c_zombies, c_isidle, c_ipi_pending, rqlock,
                   wc_threads, wclock, pc, job, panicked>>

-----------------------------------------------------------------------------
(***************************************************************************)
(* thread_switch.  A thread leaves its processor by yielding, by going to  *)
(* sleep or by exiting; each takes the run queue lock, puts the thread in  *)
(* its place and goes on to choose the next one.                           *)
(***************************************************************************)
EnterChoice(c) ==
    /\ rqlock' = [rqlock EXCEPT ![c] = c]
    /\ c_isidle' = [c_isidle EXCEPT ![c] = TRUE]
    /\ Goto(c, "next")

(* thread_yield, called by the thread or by hardclock; it does nothing if  *)
(* no thread is ready.                                                     *)
Yield(c) ==
    /\ At(c, "run") \/ At(c, "yield")
    /\ rqlock[c] = Unlocked
    /\ IF Queue(c) = <<>>
       THEN /\ Goto(c, "run")
            /\ UNCHANGED <<t_state, c_runqueue, c_ipi_pending, rqlock, c_isidle>>
       ELSE MakeRunnable(c, Cur(c)) /\ EnterChoice(c)
    /\ UNCHANGED <<t_cpu, saved, c_curthread, c_zombies, wc_threads, wclock,
                   job, panicked>>

(* The caller of wchan_sleep takes the channel's spinlock...               *)
BeginSleep(c) ==
    /\ At(c, "run") /\ wclock = Unlocked
    /\ wclock' = c
    /\ Goto(c, "sleep")
    /\ UNCHANGED <<t_state, t_cpu, saved, c_curthread, c_runqueue, c_zombies,
                   c_isidle, c_ipi_pending, rqlock, wc_threads, job, panicked>>

(* ...and thread_switch lets go of it once the thread is on the channel.   *)
SwitchSleep(c) ==
    /\ At(c, "sleep") /\ rqlock[c] = Unlocked
    /\ wc_threads' = Append(wc_threads, Cur(c))
    /\ wclock' = Unlocked
    /\ t_state' = [t_state EXCEPT ![Cur(c)] = "S_SLEEP"]
    /\ EnterChoice(c)
    /\ UNCHANGED <<t_cpu, saved, c_curthread, c_runqueue, c_zombies,
                   c_ipi_pending, job, panicked>>

(* thread_exit; the boot processor's thread runs the menu for ever.        *)
Exit(c) ==
    /\ At(c, "run") /\ rqlock[c] = Unlocked
    /\ CanExit /\ Cur(c) # BootThread[0]
    /\ c_zombies' = [c_zombies EXCEPT ![c] = @ \cup {Cur(c)}]
    /\ t_state' = [t_state EXCEPT ![Cur(c)] = "S_ZOMBIE"]
    /\ EnterChoice(c)
    /\ UNCHANGED <<t_cpu, saved, c_curthread, c_runqueue, c_ipi_pending,
                   wc_threads, wclock, job, panicked>>

(* A thread is ready: switch to it.  switchframe_switch saves the old      *)
(* context before it loads the new one, which may be the same.             *)
SwitchTo(c) ==
    LET next == Head(Queue(c)) IN
    /\ At(c, "next") /\ Queue(c) # <<>>
    /\ c_runqueue' = [c_runqueue EXCEPT ![c] = Tail(@)]
    /\ c_isidle' = [c_isidle EXCEPT ![c] = FALSE]
    /\ c_curthread' = [c_curthread EXCEPT ![c] = next]
    /\ saved' = [saved EXCEPT ![Cur(c)] = TRUE, ![next] = FALSE]
    /\ panicked' = (next # Cur(c) /\ ~saved[next])
    /\ Goto(c, "finish")
    /\ UNCHANGED <<t_state, t_cpu, c_zombies, c_ipi_pending, rqlock,
                   wc_threads, wclock, job>>

(* No thread is ready: idle with the run queue unlocked.                   *)
GoIdle(c) ==
    /\ At(c, "next") /\ Queue(c) = <<>>
    /\ rqlock' = [rqlock EXCEPT ![c] = Unlocked]
    /\ Goto(c, "idle")
    /\ UNCHANGED <<t_state, t_cpu, saved, c_curthread, c_runqueue, c_zombies,
                   c_isidle, c_ipi_pending, wc_threads, wclock, job, panicked>>

Relock(c) ==
    /\ At(c, "relock") /\ rqlock[c] = Unlocked
    /\ rqlock' = [rqlock EXCEPT ![c] = c]
    /\ Goto(c, "next")
    /\ UNCHANGED <<t_state, t_cpu, saved, c_curthread, c_runqueue, c_zombies,
                   c_isidle, c_ipi_pending, wc_threads, wclock, job, panicked>>

(* The end of thread_switch, or thread_startup, on the new thread's stack: *)
(* release the run queue lock of curcpu (which is curthread->t_cpu) and    *)
(* exorcise the zombies.                                                   *)
Reaped_OfAllCpus(c) == UNION {c_zombies[d] : d \in Cpu}
Reaped(c) == c_zombies[c]

Finish(c) ==
    LET d == t_cpu[Cur(c)] IN
    /\ At(c, "finish")
    /\ t_state' = [t \in Thread |-> IF t \in Reaped(d) THEN "none"
                                    ELSE IF t = Cur(c) THEN "S_RUN" ELSE t_state[t]]
    /\ c_zombies' = [c_zombies EXCEPT ![d] = {}]
    /\ rqlock' = [rqlock EXCEPT ![d] = Unlocked]
    /\ panicked' = (\/ rqlock[d] # c
                    \/ \E z \in Reaped(d) : z = Cur(c) \/ t_state[z] # "S_ZOMBIE")
    /\ Goto(c, "run")
    /\ UNCHANGED <<t_cpu, saved, c_curthread, c_runqueue, c_isidle,
                   c_ipi_pending, wc_threads, wclock, job>>

-----------------------------------------------------------------------------
(***************************************************************************)
(* Interrupts.  They are taken at "run" and at "idle"; a handler that is   *)
(* done goes back to the thread or, if the processor was idling, makes     *)
(* cpu_idle return.                                                        *)
(***************************************************************************)
Interruptible(c) == At(c, "run") \/ At(c, "idle")
Return(c) == Goto(c, IF c_isidle[c] THEN "relock" ELSE "run")

(* interprocessor_interrupt, for IPI_UNIDLE.                               *)
Interprocessor(c) ==
    /\ Interruptible(c) /\ c_ipi_pending[c]
    /\ c_ipi_pending' = [c_ipi_pending EXCEPT ![c] = FALSE]
    /\ Return(c)
    /\ UNCHANGED <<t_state, t_cpu, saved, c_curthread, c_runqueue, c_zombies,
                   c_isidle, rqlock, wc_threads, wclock, job, panicked>>

(* hardclock on an idle processor, without migration: thread_yield finds   *)
(* c_isidle and returns.  (On a busy one it is the action Yield.)          *)
ClockIdle(c) ==
    /\ At(c, "idle")
    /\ Return(c)
    /\ UNCHANGED <<t_state, t_cpu, saved, c_curthread, c_runqueue, c_zombies,
                   c_isidle, c_ipi_pending, rqlock, wc_threads, wclock, job,
                   panicked>>

-----------------------------------------------------------------------------
(***************************************************************************)
(* wchan_wakeone and wchan_wakeall, called by a thread or by an interrupt  *)
(* handler (a device's, or timerclock) that holds the channel's spinlock.  *)
(***************************************************************************)
WakeStart(c) ==
    /\ Interruptible(c) /\ wclock = Unlocked
    /\ wclock' = c
    /\ \E n \in {k \in {1, Len(wc_threads)} : k <= Len(wc_threads)} :
         /\ job' = [job EXCEPT ![c].targets = SubSeq(wc_threads, 1, n)]
         /\ wc_threads' = SubSeq(wc_threads, n + 1, Len(wc_threads))
    /\ Goto(c, "wake")
    /\ UNCHANGED <<t_state, t_cpu, saved, c_curthread, c_runqueue, c_zombies,
                   c_isidle, c_ipi_pending, rqlock, panicked>>

WakeNext(c) ==
    LET targets == job[c].targets IN
    /\ At(c, "wake") /\ targets # <<>>
    /\ rqlock[t_cpu[Head(targets)]] = Unlocked
    /\ MakeRunnable(c, Head(targets))
    /\ job' = [job EXCEPT ![c].targets = Tail(targets)]
    /\ UNCHANGED <<t_cpu, saved, c_curthread, c_zombies, c_isidle, rqlock,
                   wc_threads, wclock, pc, panicked>>

WakeDone(c) ==
    /\ At(c, "wake") /\ job[c].targets = <<>>
    /\ wclock' = Unlocked
    /\ Return(c)
    /\ UNCHANGED <<t_state, t_cpu, saved, c_curthread, c_runqueue, c_zombies,
                   c_isidle, c_ipi_pending, rqlock, wc_threads, job, panicked>>

-----------------------------------------------------------------------------
(***************************************************************************)
(* thread_consider_migration, called by every 16th hardclock.  It locks    *)
(* one run queue at a time, so the counts are stale when they are used.    *)
(* When it is done, hardclock calls thread_yield.                          *)
(***************************************************************************)
MigrateReturn(c) ==
    /\ Goto(c, IF c_isidle[c] THEN "relock" ELSE "yield")
    /\ job' = [job EXCEPT ![c] = NoJob]

MigrateStart(c) ==
    /\ Interruptible(c)
    /\ Goto(c, "count")
    /\ UNCHANGED <<t_state, t_cpu, saved, c_curthread, c_runqueue, c_zombies,
                   c_isidle, c_ipi_pending, rqlock, wc_threads, wclock, job,
                   panicked>>

OneShare(total) == (total + NumCpus - 1) \div NumCpus

HasSurplus_Unchecked(my, share) == TRUE
HasSurplus(my, share) == my >= share

MigrateCount(c) ==
    LET i == job[c].i
        n == Len(Queue(i))
        my == IF i = c THEN n ELSE job[c].my
        total == job[c].total + n
        share == OneShare(total) IN
    /\ At(c, "count") /\ rqlock[i] = Unlocked
    /\ IF i < NumCpus - 1
       THEN /\ job' = [job EXCEPT ![c].i = i + 1, ![c].my = my, ![c].total = total]
            /\ UNCHANGED pc
       ELSE IF HasSurplus(my, share)
       THEN /\ job' = [job EXCEPT ![c] = [NoJob EXCEPT !.share = share,
                                                       !.send = my - share]]
            /\ Goto(c, "take")
       ELSE MigrateReturn(c)
    /\ UNCHANGED <<t_state, t_cpu, saved, c_curthread, c_runqueue, c_zombies,
                   c_isidle, c_ipi_pending, rqlock, wc_threads, wclock, panicked>>

MigrateTake(c) ==
    LET keep == Len(Queue(c)) - job[c].send IN
    /\ At(c, "take") /\ rqlock[c] = Unlocked
    /\ c_runqueue' = [c_runqueue EXCEPT ![c] = SubSeq(@, 1, keep)]
    /\ job' = [job EXCEPT ![c].targets = SubSeq(Queue(c), keep + 1, Len(Queue(c)))]
    /\ Goto(c, "give")
    /\ UNCHANGED <<t_state, t_cpu, saved, c_curthread, c_zombies, c_isidle,
                   c_ipi_pending, rqlock, wc_threads, wclock, panicked>>

(* How many turns the loop at one other processor with room for that many  *)
(* threads takes: curthread uses up a turn, but not a place.               *)
Turns(c, room) ==
    LET v == job[c].targets
        blocked == \E k \in 1 .. Min({room, Len(v)}) : v[k] = Cur(c) IN
    Min({job[c].send, IF blocked THEN room + 1 ELSE room})

MayMigrate_Any(c, t) == TRUE
MayMigrate(c, t) == t # Cur(c)

(* The places in a list of the thread that may not be migrated, and the    *)
(* list without it.                                                        *)
Fixed(c, list) == {k \in DOMAIN list : ~MayMigrate(c, list[k])}
Movable(c, list) ==
    IF Fixed(c, list) = {} THEN list ELSE RemoveAt(list, Min(Fixed(c, list)))

NewCpu_Same(given, i) == t_cpu
NewCpu(given, i) == [t \in Thread |-> IF t \in ToSet(given) THEN i ELSE t_cpu[t]]

Unidled(i) == c_isidle[i]

MigrateGive(c) ==
    LET i == job[c].i
        v == job[c].targets
        turns == Turns(c, Max({0, job[c].share - Len(Queue(i))}))
        taken == SubSeq(v, 1, turns)
        given == Movable(c, taken)
        skipped == IF Fixed(c, taken) = {} THEN <<>> ELSE <<Cur(c)>> IN
    /\ At(c, "give") /\ i < NumCpus /\ job[c].send > 0
    /\ IF i = c
       THEN /\ job' = [job EXCEPT ![c].i = i + 1]
            /\ UNCHANGED <<t_cpu, c_runqueue, c_ipi_pending>>
       ELSE /\ rqlock[i] = Unlocked
            /\ c_runqueue' = [c_runqueue EXCEPT ![i] = @ \o given]
            /\ t_cpu' = NewCpu(given, i)
            /\ c_ipi_pending' = [c_ipi_pending EXCEPT
                                   ![i] = @ \/ (given # <<>> /\ Unidled(i))]
            /\ job' = [job EXCEPT ![c].i = i + 1,
                                  ![c].send = @ - turns,
                                  ![c].targets = SubSeq(v, turns + 1, Len(v)) \o skipped]
    /\ UNCHANGED <<t_state, saved, c_curthread, c_zombies, c_isidle, rqlock,
                   wc_threads, wclock, pc, panicked>>

MigrateGiven(c) ==
    /\ At(c, "give") /\ (job[c].i = NumCpus \/ job[c].send = 0)
    /\ IF job[c].targets = <<>>
       THEN MigrateReturn(c)
       ELSE Goto(c, "putback") /\ UNCHANGED job
    /\ UNCHANGED <<t_state, t_cpu, saved, c_curthread, c_runqueue, c_zombies,
                   c_isidle, c_ipi_pending, rqlock, wc_threads, wclock, panicked>>

Leftovers_Lost(c) == Movable(c, job[c].targets)
Leftovers(c) == job[c].targets

MigratePutBack(c) ==
    /\ At(c, "putback") /\ rqlock[c] = Unlocked
    /\ c_runqueue' = [c_runqueue EXCEPT ![c] = @ \o Leftovers(c)]
    /\ MigrateReturn(c)
    /\ UNCHANGED <<t_state, t_cpu, saved, c_curthread, c_zombies, c_isidle,
                   c_ipi_pending, rqlock, wc_threads, wclock, panicked>>

-----------------------------------------------------------------------------
Next ==
    \E c \in Cpu :
        \/ Fork(c) \/ Yield(c) \/ BeginSleep(c) \/ SwitchSleep(c) \/ Exit(c)
        \/ SwitchTo(c) \/ GoIdle(c) \/ Relock(c) \/ Finish(c)
        \/ Interprocessor(c) \/ ClockIdle(c)
        \/ WakeStart(c) \/ WakeNext(c) \/ WakeDone(c)
        \/ MigrateStart(c) \/ MigrateCount(c) \/ MigrateTake(c)
        \/ MigrateGive(c) \/ MigrateGiven(c) \/ MigratePutBack(c)

Spec == Init /\ [][Next]_vars

(***************************************************************************)
(* Fairness.  A processor goes on with what it has begun; strong, since a  *)
(* spinlock it needs may be taken and released by others over and over.    *)
(* Every processor's clock interrupts the thread it runs.  Nothing is      *)
(* assumed of the clock on an idle processor, of other devices, of threads *)
(* or of migration: an idle processor is woken by an IPI or not at all.    *)
(***************************************************************************)
Continue(c) ==
    \/ SwitchSleep(c) \/ SwitchTo(c) \/ GoIdle(c) \/ Relock(c) \/ Finish(c)
    \/ WakeNext(c) \/ WakeDone(c)
    \/ MigrateCount(c) \/ MigrateTake(c) \/ MigrateGive(c) \/ MigrateGiven(c)
    \/ MigratePutBack(c)

FairSpec ==
    /\ Spec
    /\ \A c \in Cpu : SF_vars(Continue(c)) /\ SF_vars(Yield(c))
                     /\ WF_vars(Interprocessor(c))

-----------------------------------------------------------------------------
TypeOK ==
    /\ t_state \in [Thread -> {"none", "S_RUN", "S_READY", "S_SLEEP", "S_ZOMBIE"}]
    /\ t_cpu \in [Thread -> Cpu]
    /\ saved \in [Thread -> BOOLEAN]
    /\ c_curthread \in [Cpu -> Thread]
    /\ c_runqueue \in [Cpu -> Seq(Thread)]
    /\ c_zombies \in [Cpu -> SUBSET Thread]
    /\ c_isidle \in [Cpu -> BOOLEAN]
    /\ c_ipi_pending \in [Cpu -> BOOLEAN]
    /\ rqlock \in [Cpu -> Cpu \cup {Unlocked}]
    /\ wc_threads \in Seq(Thread)
    /\ wclock \in Cpu \cup {Unlocked}
    /\ pc \in [Cpu -> Point]
    /\ job \in [Cpu -> Job]
    /\ panicked \in BOOLEAN

(***************************************************************************)
(* The parts of the inductive invariant.  A spinlock is held just at the   *)
(* points that say so, and c_isidle tells what a handler interrupted.      *)
(***************************************************************************)
LocksHeld ==
    \A c \in Cpu :
        /\ rqlock[c] = IF pc[c] \in {"next", "finish"} THEN c ELSE Unlocked
        /\ wclock = c <=> pc[c] \in {"sleep", "wake"}

IdleFlag ==
    \A c \in Cpu :
        /\ pc[c] \in {"next", "idle", "relock"} => c_isidle[c]
        /\ pc[c] \in {"run", "yield", "sleep", "finish"} => ~c_isidle[c]

(* Counts that are stale are still no more than there is: a run queue      *)
(* shrinks only by its own processor.                                      *)
JobFits ==
    \A c \in Cpu :
        /\ pc[c] \notin {"count", "take", "give", "putback"} =>
                job[c].i = 0 /\ job[c].my = 0
        /\ pc[c] \notin {"wake", "give", "putback"} => job[c].targets = <<>>
        /\ pc[c] = "count" => job[c].i < NumCpus /\ job[c].my <= Len(Queue(c))
        /\ pc[c] = "take" => job[c].send <= Len(Queue(c))
        /\ pc[c] = "give" => job[c].send <= Len(job[c].targets)

(* No list has a thread twice.                                             *)
NoneTwice ==
    /\ IsInjective(wc_threads)
    /\ \A c \in Cpu : IsInjective(Queue(c)) /\ IsInjective(job[c].targets)

(* What the threads of each list are, and whose.                           *)
ListsOf(c) ==
    /\ \A t \in ToSet(Queue(c)) : t_state[t] = "S_READY" /\ t_cpu[t] = c
    /\ \A t \in ToSet(job[c].targets) :
          /\ pc[c] = "wake" => t_state[t] = "S_SLEEP"
          /\ pc[c] # "wake" => /\ t_state[t] = "S_READY" /\ t_cpu[t] = c
                               /\ t \notin ToSet(Queue(c))
    /\ \A t \in c_zombies[c] : t_state[t] = "S_ZOMBIE" /\ t_cpu[t] = c
ListsSorted ==
    /\ \A c \in Cpu : ListsOf(c)
    /\ \A t \in ToSet(wc_threads) :
          /\ t_state[t] = "S_SLEEP"
          /\ \A c \in Cpu : t \notin ToSet(job[c].targets)

CurrentOf(c) ==
    /\ t_cpu[Cur(c)] = c /\ t_state[Cur(c)] # "none"
    /\ ~c_isidle[c] /\ pc[c] # "finish" => t_state[Cur(c)] = "S_RUN"
    /\ pc[c] = "finish" => /\ t_state[Cur(c)] = "S_READY"
                           /\ Cur(c) \notin ToSet(Queue(c))
CurrentSane == \A c \in Cpu : CurrentOf(c)

(* Where a thread is, by its state.                                        *)
InPlace(t) ==
    LET c == t_cpu[t] IN
    /\ t_state[t] = "S_RUN" => Cur(c) = t /\ ~c_isidle[c]
    /\ t_state[t] = "S_READY" => \/ t \in ToSet(Queue(c))
                                 \/ t \in ToSet(job[c].targets)
                                 \/ Cur(c) = t /\ pc[c] = "finish"
    /\ t_state[t] = "S_SLEEP" => \/ t \in ToSet(wc_threads)
                                 \/ \E d \in Cpu : t \in ToSet(job[d].targets)
    /\ t_state[t] = "S_ZOMBIE" => t \in c_zombies[c]
    /\ t_state[t] # "none" /\ ~saved[t] => Cur(c) = t
Placed == \A t \in Thread : InPlace(t)

(***************************************************************************)
(* No assertion of thread.c or spinlock.c fails, and no processor ever     *)
(* loads a context that is not the place its thread left off: exorcise     *)
(* destroys zombies only, never the running thread, and the lock released  *)
(* at the end of thread_switch is the one taken at its beginning.          *)
(***************************************************************************)
NoPanic == ~panicked

(***************************************************************************)
(* A thread is in one place: it is the current thread of a processor that  *)
(* is not looking for another one, or it is, once, on one run queue, the   *)
(* wait channel, the private list of one wakeup or migration, or one       *)
(* zombie list.  A freed thread is nowhere at all, and no two processors   *)
(* are on one thread's stack, not even while one of them idles on it.      *)
(***************************************************************************)
PlacesIn(list, s, t) == {<<list, k>> : k \in {j \in DOMAIN s : s[j] = t}}
Places(t) ==
    (UNION {PlacesIn(<<"queue", c>>, Queue(c), t) : c \in Cpu})
    \cup (UNION {PlacesIn(<<"targets", c>>, job[c].targets, t) : c \in Cpu})
    \cup PlacesIn(<<"wchan", 0>>, wc_threads, t)
    \cup {<<"zombie", c>> : c \in {d \in Cpu : t \in c_zombies[d]}}

Running(t) == \E c \in Cpu : Cur(c) = t /\ ~c_isidle[c]

OnePlace ==
    \A t \in Thread :
        /\ Cardinality(Places(t)) = IF t_state[t] = "none" \/ Running(t) THEN 0 ELSE 1
        /\ t_state[t] = "none" => \A c \in Cpu : Cur(c) # t
        /\ Cardinality({c \in Cpu : Cur(c) = t}) <= 1

(***************************************************************************)
(* A thread that a processor may pick up has a saved context, unless it is *)
(* that very processor's current thread: why curthread is never migrated.  *)
(***************************************************************************)
ContextSaved ==
    \A t \in Thread : \A c \in Cpu :
        t_state[t] # "none" /\ ~saved[t] /\ t \in ToSet(Queue(c)) => Cur(c) = t

(***************************************************************************)
(* curcpu, which is curthread->t_cpu, is the processor the code runs on,   *)
(* and a queued thread belongs to the queue's processor.                   *)
(***************************************************************************)
CurCpu ==
    \A c \in Cpu : /\ t_cpu[Cur(c)] = c
                   /\ \A t \in ToSet(Queue(c)) : t_cpu[t] = c

(***************************************************************************)
(* A processor that idles with a thread on its run queue has an interrupt  *)
(* coming (the comments on idling in thread_switch): no wakeup, fork or    *)
(* migration to an idle processor goes unnoticed.                          *)
(***************************************************************************)
NoLostUnidle ==
    \A c \in Cpu : pc[c] = "idle" /\ Queue(c) # <<>> => c_ipi_pending[c]

(***************************************************************************)
(* The inductive invariant: every lock, flag, list and count of the thread *)
(* system agrees with what each processor is at (the assertions and the    *)
(* comments of thread_switch and thread_consider_migration rely on it).    *)
(***************************************************************************)
SchedulerInv ==
    /\ TypeOK /\ NoPanic
    /\ LocksHeld /\ IdleFlag /\ JobFits
    /\ NoneTwice /\ ListsSorted /\ CurrentSane /\ Placed
    /\ NoLostUnidle

(***************************************************************************)
(* A thread that is ready is run in the end, whatever migrations move it   *)
(* about and even if the clock of an idle processor never ticks.           *)
(***************************************************************************)
ReadyRuns ==
    \A t \in Thread : t_state[t] = "S_READY" ~> t_state[t] # "S_READY"
=============================================================================
