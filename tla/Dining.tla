------------------------------- MODULE Dining -------------------------------
(***************************************************************************)
(* The dining philosophers (kern/asst1/dining.c and dining_driver.c of the *)
(* asst1 tree).  What take_forks and put_forks do between P(mutex) and     *)
(* V(mutex) is split at every access to status[] that another thread could *)
(* come between if the mutex did not keep it out; eat() is split into the  *)
(* loads and stores of its two increments, which no lock protects.         *)
(* A semaphore is its count, as module Semaphore shows.                    *)
(***************************************************************************)
EXTENDS Naturals, FiniteSets

CONSTANTS
    NUM_PHILOSOPHERS,   \* 5 in the code
    TIMES_TO_EAT        \* 1000 in the code

ConstantsOK ==
    /\ NUM_PHILOSOPHERS \in Nat /\ NUM_PHILOSOPHERS >= 2
    /\ TIMES_TO_EAT \in Nat \ {0}

Philosopher == 0 .. NUM_PHILOSOPHERS - 1

(* The macros take remainders modulo NUM_PHILOSOPHERS, in unsigned numbers *)
(* and, the one below zero of LEFT_LEFT wrapping back, without overflow.   *)
LEFT(p) == IF p = 0 THEN NUM_PHILOSOPHERS - 1 ELSE p - 1
RIGHT(p) == IF p = NUM_PHILOSOPHERS - 1 THEN 0 ELSE p + 1

THINKING == 0
HUNGRY == 1
EATING == 2

VARIABLES
    status,         \* status[], as the code keeps it
    mutex,          \* the count of the semaphore mutex
    s,              \* the counts of the semaphores s[]
    fork_count,     \* how often each fork was used; fork p is left of p
    course,         \* philosopher -> courses it has eaten
    reg,            \* philosopher -> the fork_count it has loaded
    pc,             \* philosopher -> where it is, see below
    finished,       \* the count of philosopher_finished
    waited,         \* P(philosopher_finished)'s that run_philosophers did
    destroyed       \* destroy_forks() has run

tableVars == <<status, mutex, s>>
driverVars == <<fork_count, course, reg>>
mainVars == <<finished, waited, destroyed>>
vars == <<tableVars, driverVars, mainVars, pc>>

Taking == {"taking", "asking", "granting", "taken"}
Putting == {"putting", "test_left", "grant_left", "test_right", "grant_right", "put"}
InMutex == Taking \cup Putting
Eats == {"load_left", "store_left", "load_right", "store_right"}
Place == {"unborn", "think", "wait", "fed", "next", "gone"} \cup InMutex \cup Eats

(* run_philosophers up to the first fork; create_forks.                    *)
Init ==
    /\ status = [p \in Philosopher |-> THINKING]
    /\ mutex = 1
    /\ s = [p \in Philosopher |-> 0]
    /\ fork_count = [p \in Philosopher |-> 0]
    /\ course = [p \in Philosopher |-> 0]
    /\ reg = [p \in Philosopher |-> 0]
    /\ pc = [p \in Philosopher |-> "unborn"]
    /\ finished = 0
    /\ waited = 0
    /\ destroyed = FALSE

Go(p, from, to) == pc[p] = from /\ pc' = [pc EXCEPT ![p] = to]
SetStatus(p, v) == status' = [status EXCEPT ![p] = v]

(* The philosophers are forked in order.                                   *)
Fork(p) ==
    /\ \A q \in Philosopher : q < p => pc[q] # "unborn"
    /\ Go(p, "unborn", "think")
    /\ UNCHANGED <<tableVars, driverVars, mainVars>>

-----------------------------------------------------------------------------
(* take_forks                                                              *)
EnterMutex(p, from, to) ==
    /\ Go(p, from, to)
    /\ mutex > 0
    /\ mutex' = mutex - 1
    /\ UNCHANGED <<status, s, driverVars, mainVars>>

TakeEnter(p) == EnterMutex(p, "think", "taking")

TakeHungry(p) ==
    /\ Go(p, "taking", "asking")
    /\ SetStatus(p, HUNGRY)
    /\ UNCHANGED <<mutex, s, driverVars, mainVars>>

(* The tests: of status[p] and of both of its neighbours.                  *)
MayEat_LooksLeft(p) == status[p] = HUNGRY /\ status[LEFT(p)] # EATING
MayEat(p) == /\ status[p] = HUNGRY
             /\ status[LEFT(p)] # EATING
             /\ status[RIGHT(p)] # EATING

Test(p, q, from, yes, no) ==
    /\ Go(p, from, IF MayEat(q) THEN yes ELSE no)
    /\ UNCHANGED <<tableVars, driverVars, mainVars>>

(* status[q] = EATING; V(s[q])                                             *)
Grant_StatusOnly(p, q, from, to) ==
    /\ Go(p, from, to)
    /\ SetStatus(q, EATING)
    /\ UNCHANGED <<mutex, s, driverVars, mainVars>>
Grant(p, q, from, to) ==
    /\ Go(p, from, to)
    /\ SetStatus(q, EATING)
    /\ s' = [s EXCEPT ![q] = @ + 1]
    /\ UNCHANGED <<mutex, driverVars, mainVars>>

TakeTest(p) == Test(p, p, "asking", "granting", "taken")
TakeGrant(p) == Grant(p, p, "granting", "taken")

LeaveMutex(p, from, to) ==
    /\ Go(p, from, to)
    /\ mutex' = mutex + 1
    /\ UNCHANGED <<status, s, driverVars, mainVars>>

TakeLeave(p) == LeaveMutex(p, "taken", "wait")

(* P(s[p])                                                                 *)
TakeWait(p) ==
    /\ Go(p, "wait", "load_left")
    /\ s[p] > 0
    /\ s' = [s EXCEPT ![p] = @ - 1]
    /\ UNCHANGED <<status, mutex, driverVars, mainVars>>

-----------------------------------------------------------------------------
(* eat                                                                     *)
Load(p, f, from, to) ==
    /\ Go(p, from, to)
    /\ reg' = [reg EXCEPT ![p] = fork_count[f]]
    /\ UNCHANGED <<tableVars, fork_count, course, mainVars>>

Store(p, f, from, to) ==
    /\ Go(p, from, to)
    /\ fork_count' = [fork_count EXCEPT ![f] = reg[p] + 1]
    /\ reg' = [reg EXCEPT ![p] = 0]
    /\ UNCHANGED <<tableVars, course, mainVars>>

Eat(p) ==
    \/ Load(p, p, "load_left", "store_left")
    \/ Store(p, p, "store_left", "load_right")
    \/ Load(p, RIGHT(p), "load_right", "store_right")
    \/ Store(p, RIGHT(p), "store_right", "fed")

-----------------------------------------------------------------------------
(* put_forks                                                               *)
PutEnter(p) == EnterMutex(p, "fed", "putting")

PutThinking(p) ==
    /\ Go(p, "putting", "test_left")
    /\ SetStatus(p, THINKING)
    /\ UNCHANGED <<mutex, s, driverVars, mainVars>>

PutTestLeft_Skipped(p) ==
    /\ Go(p, "test_left", "test_right")
    /\ UNCHANGED <<tableVars, driverVars, mainVars>>
PutTestLeft(p) == Test(p, LEFT(p), "test_left", "grant_left", "test_right")
PutGrantLeft(p) == Grant(p, LEFT(p), "grant_left", "test_right")
PutTestRight(p) == Test(p, RIGHT(p), "test_right", "grant_right", "put")
PutGrantRight(p) == Grant(p, RIGHT(p), "grant_right", "put")

PutLeave(p) == LeaveMutex(p, "put", "next")

-----------------------------------------------------------------------------
(* The loop of philosopher_thread, and its V(philosopher_finished).        *)
NextCourse(p) ==
    /\ course[p] + 1 < TIMES_TO_EAT
    /\ Go(p, "next", "think")
    /\ course' = [course EXCEPT ![p] = @ + 1]
    /\ UNCHANGED <<tableVars, fork_count, reg, mainVars>>

Bye(p) ==
    /\ course[p] + 1 >= TIMES_TO_EAT
    /\ Go(p, "next", "gone")
    /\ course' = [course EXCEPT ![p] = @ + 1]
    /\ finished' = finished + 1
    /\ UNCHANGED <<tableVars, fork_count, reg, waited, destroyed>>

(* run_philosophers waits for each thread once, reports and cleans up.     *)
Wait ==
    /\ \A p \in Philosopher : pc[p] # "unborn"
    /\ waited < NUM_PHILOSOPHERS
    /\ finished > 0
    /\ finished' = finished - 1
    /\ waited' = waited + 1
    /\ UNCHANGED <<tableVars, driverVars, pc, destroyed>>

Destroy ==
    /\ waited = NUM_PHILOSOPHERS
    /\ ~destroyed
    /\ destroyed' = TRUE
    /\ UNCHANGED <<tableVars, driverVars, pc, finished, waited>>

Take(p) == \/ TakeEnter(p) \/ TakeHungry(p) \/ TakeTest(p) \/ TakeGrant(p)
           \/ TakeLeave(p) \/ TakeWait(p)
Put(p) == \/ PutEnter(p) \/ PutThinking(p) \/ PutTestLeft(p) \/ PutGrantLeft(p)
          \/ PutTestRight(p) \/ PutGrantRight(p) \/ PutLeave(p)
philosopher_thread(p) == Take(p) \/ Eat(p) \/ Put(p) \/ NextCourse(p) \/ Bye(p)

Returned == destroyed /\ UNCHANGED vars

Next ==
    \/ \E p \in Philosopher : Fork(p) \/ philosopher_thread(p)
    \/ Wait \/ Destroy \/ Returned

Spec == Init /\ [][Next]_vars

-----------------------------------------------------------------------------
TypeOK ==
    /\ status \in [Philosopher -> {THINKING, HUNGRY, EATING}]
    /\ mutex \in {0, 1}
    /\ s \in [Philosopher -> {0, 1}]
    /\ fork_count \in [Philosopher -> Nat]
    /\ course \in [Philosopher -> 0 .. TIMES_TO_EAT]
    /\ reg \in [Philosopher -> Nat]
    /\ pc \in [Philosopher -> Place]
    /\ finished \in 0 .. NUM_PHILOSOPHERS
    /\ waited \in 0 .. NUM_PHILOSOPHERS
    /\ destroyed \in BOOLEAN

(***************************************************************************)
(* status[] and s[] tell the same story: a philosopher is EATING from its  *)
(* grant to its put_forks, and has one unit of s[] while it is EATING and  *)
(* has not yet come through P(s[]); no grant is given twice or lost.       *)
(***************************************************************************)
Granted(p) == pc[p] \in {"taken", "wait"} /\ status[p] = EATING
GrantsKept ==
    \A p \in Philosopher :
        /\ s[p] = (IF Granted(p) THEN 1 ELSE 0)
        /\ pc[p] \in Eats \cup {"fed", "putting"} => status[p] = EATING
        /\ pc[p] \in {"asking", "granting"} => status[p] = HUNGRY
        /\ pc[p] \in {"taken", "wait"} => status[p] # THINKING

(***************************************************************************)
(* With nobody inside the mutex, a philosopher who waits hungry has a      *)
(* neighbour who is EATING and will look at it in put_forks: no hungry     *)
(* philosopher is forgotten.                                               *)
(***************************************************************************)
NobodyForgotten ==
    mutex = 1 => \A p \in Philosopher :
        status[p] = HUNGRY => \/ status[LEFT(p)] = EATING
                              \/ status[RIGHT(p)] = EATING

(***************************************************************************)
(* run_philosophers reports exact counts, each fork used once a course by  *)
(* both its neighbours, and destroys the semaphores when every thread has  *)
(* done its last operation on them.                                        *)
(***************************************************************************)
ReportExact ==
    waited = NUM_PHILOSOPHERS => \A p \in Philosopher :
        pc[p] = "gone" /\ fork_count[p] = 2 * TIMES_TO_EAT

(***************************************************************************)
(* The forks themselves (module Forks): they are had two at a time, from   *)
(* the grant to put_forks.                                                 *)
(***************************************************************************)
Table == INSTANCE Forks WITH
    user <- [f \in Philosopher |->
        {p \in Philosopher : status[p] = EATING /\ f \in {p, RIGHT(p)}}]
ImplementsForks == Table!Spec
=============================================================================
