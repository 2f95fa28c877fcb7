----------------------------- MODULE Exercises -----------------------------
(***************************************************************************)
(* The four synchronisation exercises as commands of the kernel's menu     *)
(* (cmdtable and cmd_dispatch of kern/main/menu.c in the asst1 tree).  The *)
(* menu's thread runs a command to its end before it reads the next, and   *)
(* the exercises share no state, so one behaviour is one command; maths    *)
(* alone is affected by what an earlier run left, and repeats itself.      *)
(***************************************************************************)
EXTENDS Naturals

CONSTANTS
    NUM_LOOPS,
    NADDERS, NADDS, Calls,
    Producer, Consumer, Main, BUFFER_SIZE, ITEMS_TO_PRODUCE, NULL,
    NUM_PHILOSOPHERS, TIMES_TO_EAT

VARIABLES
    command,        \* what the menu was given
    (* of twolocks *)
    lock_holder, lock_pc, lock_i, lock_finished, lock_waited,
    (* of maths *)
    counter, adder_counters, sum_holder, a, b, sum_reg, sum_pc, sum_finished,
    sum_waited, calls, performed,
    (* of run_producerconsumer *)
    item_buffer, head, tail, sem, buf_pc, item, to_go, buf_waited, heap,
    (* of run_philosophers *)
    status, mutex, s, fork_count, course, eat_reg, eat_pc, eat_finished,
    eat_waited, destroyed

twolocks == INSTANCE TwoLocks WITH
    holder <- lock_holder, pc <- lock_pc, i <- lock_i,
    finished <- lock_finished, waited <- lock_waited
maths == INSTANCE Maths WITH
    holder <- sum_holder, reg <- sum_reg, pc <- sum_pc,
    finished <- sum_finished, waited <- sum_waited
buffer == INSTANCE ProducerConsumer WITH
    pc <- buf_pc, waited <- buf_waited
dining == INSTANCE Dining WITH
    reg <- eat_reg, pc <- eat_pc, finished <- eat_finished, waited <- eat_waited

ASSUME ExercisesAssumption ==
    /\ twolocks!ConstantsOK /\ maths!ConstantsOK
    /\ buffer!ConstantsOK /\ dining!ConstantsOK

cmdtable == {"1a", "1b", "1c", "1d"}

twolocksVars == <<lock_holder, lock_pc, lock_i, lock_finished, lock_waited>>
mathsVars == <<counter, adder_counters, sum_holder, a, b, sum_reg, sum_pc,
               sum_finished, sum_waited, calls, performed>>
bufferVars == <<item_buffer, head, tail, sem, buf_pc, item, to_go, buf_waited, heap>>
diningVars == <<status, mutex, s, fork_count, course, eat_reg, eat_pc,
                eat_finished, eat_waited, destroyed>>
vars == <<command, twolocksVars, mathsVars, bufferVars, diningVars>>

Init ==
    /\ command \in cmdtable
    /\ twolocks!Init /\ maths!Init /\ buffer!Init /\ dining!Init

RunMaths ==
    /\ command = "1a"
    /\ maths!Next
    /\ UNCHANGED <<command, twolocksVars, bufferVars, diningVars>>
RunTwolocks ==
    /\ command = "1b"
    /\ twolocks!Next
    /\ UNCHANGED <<command, mathsVars, bufferVars, diningVars>>
RunProducerConsumer ==
    /\ command = "1c"
    /\ buffer!Next
    /\ UNCHANGED <<command, twolocksVars, mathsVars, diningVars>>
RunPhilosophers ==
    /\ command = "1d"
    /\ dining!Next
    /\ UNCHANGED <<command, twolocksVars, mathsVars, bufferVars>>

Next == RunMaths \/ RunTwolocks \/ RunProducerConsumer \/ RunPhilosophers

(***************************************************************************)
(* Ready threads run (ReadyRuns of module Scheduler): weak fairness of     *)
(* each thread of the command that was given, and of the menu's, which     *)
(* forks them and waits.  A semaphore or a lock gives way to one of those  *)
(* who wait; all of the exercises do a finite amount of work, so nobody is *)
(* passed over for ever and no strong fairness is needed.  Nothing makes   *)
(* the user give command 1a again.                                         *)
(***************************************************************************)
MathsMain == maths!Wait \/ \E t \in maths!Adder : maths!Fork(t)
TwolocksMain == twolocks!Wait \/ \E t \in twolocks!Thread : twolocks!Start(t)
BufferMain == buffer!MainRuns \/ \E t \in Producer \cup Consumer : buffer!Fork(t)
DiningMain ==
    dining!Wait \/ dining!Destroy \/ \E t \in dining!Philosopher : dining!Fork(t)
Fairness ==
    /\ \A t \in maths!Adder : WF_mathsVars(command = "1a" /\ maths!adder(t))
    /\ WF_mathsVars(command = "1a" /\ MathsMain)
    /\ \A t \in twolocks!Thread : WF_twolocksVars(command = "1b" /\ twolocks!Runs(t))
    /\ WF_twolocksVars(command = "1b" /\ TwolocksMain)
    /\ \A t \in Producer : WF_bufferVars(command = "1c" /\ buffer!ProducerRuns(t))
    /\ \A t \in Consumer : WF_bufferVars(command = "1c" /\ buffer!ConsumerRuns(t))
    /\ WF_bufferVars(command = "1c" /\ BufferMain)
    /\ \A t \in dining!Philosopher :
           WF_diningVars(command = "1d" /\ dining!philosopher_thread(t))
    /\ WF_diningVars(command = "1d" /\ DiningMain)

Spec == Init /\ [][Next]_vars /\ Fairness

-----------------------------------------------------------------------------
(***************************************************************************)
(* twolocks: whoever waits for a lock, its holder waits for none; both     *)
(* threads take a second lock while they hold a first.                     *)
(***************************************************************************)
NoDeadlyEmbrace == twolocks!NoDeadlyEmbrace

(***************************************************************************)
(* maths: the counter is the statistics and the increments whose           *)
(* statistics are still to come, and never passes NADDS; no adder reads a  *)
(* sum that is not its own.                                                *)
(***************************************************************************)
CountExact == maths!CountExact /\ maths!Sane

(***************************************************************************)
(* The buffer: each slot is free, filled or in one thread's hands, and     *)
(* nothing is lost, received twice or freed twice.                         *)
(***************************************************************************)
ItemsOnce == buffer!SlotsAccounted /\ buffer!ItemsOnce

(***************************************************************************)
(* The philosophers: no grant is given twice or lost between test() and    *)
(* P(s[]), and nobody who is hungry is forgotten.                          *)
(***************************************************************************)
GrantsKept == dining!GrantsKept
NobodyForgotten == dining!NobodyForgotten

(***************************************************************************)
(* What each command finds when it cleans up: the locks free, no thread    *)
(* left that could use what is destroyed, the exact sums in the reports,   *)
(* no item unreceived, the semaphores and indices as at the start.  The    *)
(* increments that the first call of maths reports are its own adders'.    *)
(***************************************************************************)
CleansUpLast ==
    /\ twolocks!ReturnsLast /\ maths!CleanedUpLast
    /\ buffer!ShutdownClean /\ dining!ReportExact

(***************************************************************************)
(* maths "Initialises the counter variables", so what it prints is what    *)
(* the adders of this call have performed, however often it is called.     *)
(***************************************************************************)
ReportsOwnWork == maths!OwnWork

(* The buffer is a bounded first-in first-out buffer (BoundedBuffer).      *)
ImplementsBuffer == buffer!ImplementsBuffer

(* take_forks and put_forks have the two forks in one step (Forks).        *)
ImplementsForks == dining!ImplementsForks

(***************************************************************************)
(* The menu gets its thread back from every command, however the threads   *)
(* of the exercise wait for each other.                                    *)
(***************************************************************************)
Returned ==
    \/ command = "1a" /\ maths!Returned
    \/ command = "1b" /\ twolocks!Returned
    \/ command = "1c" /\ buffer!Done
    \/ command = "1d" /\ destroyed
CommandReturns == []<>Returned
=============================================================================
