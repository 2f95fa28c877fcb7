------------------------------- MODULE Maths -------------------------------
(***************************************************************************)
(* The counting exercise (kern/asst1/math.c of the asst1 tree): adders     *)
(* increment one counter until it has reached NADDS.  The volatile counter *)
(* is loaded and stored in separate steps, as the compiler must.  The menu *)
(* may run maths() again (command 1a); the counters are statics, which     *)
(* nothing resets.                                                         *)
(***************************************************************************)
EXTENDS Naturals, FiniteSets

CONSTANTS
    NADDERS,    \* 10 in the code
    NADDS,      \* 10000 in the code
    Calls       \* bound on the calls of maths()

ConstantsOK ==
    /\ NADDERS \in Nat \ {0} /\ NADDS \in Nat \ {0} /\ Calls \in Nat \ {0}

Adder == 0 .. NADDERS - 1
Free == NADDERS         \* no adder

VARIABLES
    counter, adder_counters,
    holder,     \* of the lock mutex
    a, b,       \* the adders' locals
    reg,        \* the loaded half of counter + 1
    pc,         \* adder -> where it is
    finished,   \* the semaphore's count
    waited,     \* P(finished)'s that maths() has done
    calls,      \* calls of maths(), this one included
    performed   \* auxiliary: adder -> its increments in this call

locals == <<a, b, reg>>
mainVars == <<waited, calls, performed>>
vars == <<counter, adder_counters, holder, locals, pc, finished, mainVars>>

Place == {"unborn", "flag", "read", "test", "load", "store", "reread",
          "release", "statistics", "check", "stop", "bye", "gone"}
Locked == {"read", "test", "load", "store", "reread", "release", "stop"}

Init ==
    /\ counter = 0
    /\ adder_counters = [t \in Adder |-> 0]
    /\ holder = Free
    /\ a = [t \in Adder |-> 0] /\ b = [t \in Adder |-> 0]
    /\ reg = [t \in Adder |-> 0]
    /\ pc = [t \in Adder |-> "unborn"]
    /\ finished = 0
    /\ waited = 0
    /\ calls = 1
    /\ performed = [t \in Adder |-> 0]

Go(t, from, to) == pc[t] = from /\ pc' = [pc EXCEPT ![t] = to]

Fork(t) ==
    /\ \A u \in Adder : u < t => pc[u] # "unborn"
    /\ Go(t, "unborn", "flag")
    /\ UNCHANGED <<counter, adder_counters, holder, locals, finished, mainVars>>

-----------------------------------------------------------------------------
(* adder                                                                   *)
Acquire(t) ==
    /\ Go(t, "flag", "read")
    /\ holder = Free
    /\ holder' = t
    /\ UNCHANGED <<counter, adder_counters, locals, finished, mainVars>>

Read(t) ==
    /\ Go(t, "read", "test")
    /\ a' = [a EXCEPT ![t] = counter]
    /\ UNCHANGED <<counter, adder_counters, holder, b, reg, finished, mainVars>>

Test_OneTooMany(t) ==
    /\ Go(t, "test", IF a[t] <= NADDS THEN "load" ELSE "stop")
    /\ UNCHANGED <<counter, adder_counters, holder, locals, finished, mainVars>>
Test(t) ==
    /\ Go(t, "test", IF a[t] < NADDS THEN "load" ELSE "stop")
    /\ UNCHANGED <<counter, adder_counters, holder, locals, finished, mainVars>>

Load(t) ==
    /\ Go(t, "load", "store")
    /\ reg' = [reg EXCEPT ![t] = counter]
    /\ UNCHANGED <<counter, adder_counters, holder, a, b, finished, mainVars>>

Store(t) ==
    /\ Go(t, "store", "reread")
    /\ counter' = reg[t] + 1
    /\ performed' = [performed EXCEPT ![t] = @ + 1]
    /\ UNCHANGED <<adder_counters, holder, locals, finished, waited, calls>>

Reread(t) ==
    /\ Go(t, "reread", "release")
    /\ b' = [b EXCEPT ![t] = counter]
    /\ UNCHANGED <<counter, adder_counters, holder, a, reg, finished, mainVars>>

Release(t) ==
    /\ Go(t, "release", "statistics")
    /\ holder' = Free
    /\ UNCHANGED <<counter, adder_counters, locals, finished, mainVars>>

Statistics(t) ==
    /\ Go(t, "statistics", "check")
    /\ adder_counters' = [adder_counters EXCEPT ![t] = @ + 1]
    /\ UNCHANGED <<counter, holder, locals, finished, mainVars>>

(* The locals are dead after the check.                                    *)
Check(t) ==
    /\ Go(t, "check", "flag")
    /\ a' = [a EXCEPT ![t] = 0] /\ b' = [b EXCEPT ![t] = 0]
    /\ reg' = [reg EXCEPT ![t] = 0]
    /\ UNCHANGED <<counter, adder_counters, holder, finished, mainVars>>

(* flag = 0 before the lock is released.                                   *)
Stop(t) ==
    /\ Go(t, "stop", "bye")
    /\ holder' = Free
    /\ a' = [a EXCEPT ![t] = 0]
    /\ UNCHANGED <<counter, adder_counters, b, reg, finished, mainVars>>

Bye(t) ==
    /\ Go(t, "bye", "gone")
    /\ finished' = finished + 1
    /\ UNCHANGED <<counter, adder_counters, holder, locals, mainVars>>

-----------------------------------------------------------------------------
(* maths                                                                   *)
Wait_OneShort ==
    /\ \A t \in Adder : pc[t] # "unborn"
    /\ waited < NADDERS
    /\ finished > 0
    /\ finished' = finished - 1
    /\ waited' = IF waited = 0 THEN 2 ELSE waited + 1
    /\ UNCHANGED <<counter, adder_counters, holder, locals, pc, calls, performed>>
Wait ==
    /\ \A t \in Adder : pc[t] # "unborn"
    /\ waited < NADDERS
    /\ finished > 0
    /\ finished' = finished - 1
    /\ waited' = waited + 1
    /\ UNCHANGED <<counter, adder_counters, holder, locals, pc, calls, performed>>

(* The statistics add up, one adder after the other.                       *)
Total ==
    LET sum[n \in 0 .. NADDERS] ==
            IF n = 0 THEN 0 ELSE sum[n - 1] + adder_counters[n - 1]
    IN  sum[NADDERS]

Returned == waited = NADDERS

(* The command is given again: new lock, new semaphore, new threads.       *)
Again ==
    /\ Returned
    /\ calls < Calls
    /\ calls' = calls + 1
    /\ waited' = 0
    /\ pc' = [t \in Adder |-> "unborn"]
    /\ performed' = [t \in Adder |-> 0]
    /\ UNCHANGED <<counter, adder_counters, holder, locals, finished>>

adder(t) == \/ Acquire(t) \/ Read(t) \/ Test(t) \/ Load(t) \/ Store(t) \/ Reread(t)
            \/ Release(t) \/ Statistics(t) \/ Check(t) \/ Stop(t) \/ Bye(t)

AtMenu == Returned /\ UNCHANGED vars

Next == (\E t \in Adder : Fork(t) \/ adder(t)) \/ Wait \/ Again \/ AtMenu

Spec == Init /\ [][Next]_vars

-----------------------------------------------------------------------------
(***************************************************************************)
(* "Only the correct number of increments are performed": whatever the     *)
(* adders are at, the counter is the statistics, plus the increments whose *)
(* statistics are still to come; it never passes NADDS.                    *)
(***************************************************************************)
Uncounted == {t \in Adder : pc[t] \in {"reread", "release", "statistics"}}
CountExact ==
    /\ counter = Total + Cardinality(Uncounted)
    /\ counter <= NADDS

(* "x + 1 == x + 1": no adder reads a sum that is not its own.             *)
Sane == \A t \in Adder : pc[t] = "check" => a[t] + 1 = b[t]

(***************************************************************************)
(* "Adder %d performed %ld increments": the statistics that maths() prints *)
(* are of what its own adders have done.                                   *)
(***************************************************************************)
OwnWork == Returned => adder_counters = performed

(***************************************************************************)
(* When maths() destroys the lock and the semaphore, no adder is left that *)
(* could use them, and the sum it prints is NADDS; the first time, these   *)
(* are the increments that its adders have done (later see OwnWork).       *)
(***************************************************************************)
CleanedUpLast ==
    Returned => /\ \A t \in Adder : pc[t] = "gone"
                /\ holder = Free /\ finished = 0
                /\ counter = NADDS /\ Total = NADDS
                /\ calls = 1 => OwnWork
=============================================================================
