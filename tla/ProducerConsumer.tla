-------------------------- MODULE ProducerConsumer --------------------------
(***************************************************************************)
(* The bounded buffer (kern/asst1/producerconsumer.c of the asst1 tree)    *)
(* with its driver (producerconsumer_driver.c).  Each P and V, each access *)
(* to the buffer and each move of an index is a step; a semaphore is its   *)
(* count, as module Semaphore shows.  The main thread sends the items that *)
(* stop the consumers, so it is a sender like the producers.               *)
(***************************************************************************)
EXTENDS Naturals, Sequences, FiniteSets

CONSTANTS
    Producer, Consumer,     \* the threads (2 and 5 in the code)
    Main,                   \* the thread that runs run_producerconsumer
    BUFFER_SIZE,            \* 10 in the code
    ITEMS_TO_PRODUCE,       \* 30 in the code
    NULL

ConstantsOK ==
    /\ IsFiniteSet(Producer) /\ IsFiniteSet(Consumer) /\ Consumer # {}
    /\ Producer \cap Consumer = {} /\ Main \notin Producer \cup Consumer
    /\ BUFFER_SIZE \in Nat \ {0} /\ ITEMS_TO_PRODUCE \in Nat
    /\ NULL \notin [by : Producer \cup {Main}, n : Nat]

Sender == Producer \cup {Main}
Thread == Sender \cup Consumer
Slot == 0 .. BUFFER_SIZE - 1

(* An item is known by its sender and by items_to_go when it was made;     *)
(* those the main thread makes carry the two zeros that mean stop.         *)
Item == [by : Sender, n : 1 .. ITEMS_TO_PRODUCE + Cardinality(Consumer)]

Semaphore == {"mutex", "empty", "full", "producer_finished", "consumer_finished"}

VARIABLES
    item_buffer, head, tail,
    sem,        \* semaphore -> its count
    pc,         \* thread -> where it is
    item,       \* thread -> its local item
    to_go,      \* sender -> items still to send
    waited,     \* P's on the ..._finished semaphore that main has done
    heap        \* the items kmalloc'ed and not freed

bufferVars == <<item_buffer, head, tail>>
vars == <<bufferVars, sem, pc, item, to_go, waited, heap>>

SendPlace == {"make", "P_empty", "P_mutex", "store", "advance", "V_mutex", "V_full"}
ReceivePlace == {"P_full", "P_mutex", "fetch", "advance", "V_mutex", "V_empty", "check"}
MainPlace == {"fork", "wait_producers", "wait_consumers", "shutdown", "done"}

(* The statics head and tail keep their values from an earlier run of the  *)
(* command: they are zero at first and equal at the end of each run (see   *)
(* ShutdownClean).  The slots hold nothing that may be used: NULL.         *)
Init ==
    /\ item_buffer = [i \in Slot |-> NULL]
    /\ head \in Slot /\ tail = head
    /\ sem = [mutex |-> 1, empty |-> BUFFER_SIZE, full |-> 0,
              producer_finished |-> 0, consumer_finished |-> 0]
    /\ pc = [t \in Thread |-> IF t = Main THEN "fork" ELSE "unborn"]
    /\ item = [t \in Thread |-> NULL]
    /\ to_go = [t \in Sender |->
                   IF t = Main THEN Cardinality(Consumer) ELSE ITEMS_TO_PRODUCE]
    /\ waited = 0
    /\ heap = {}

Go(t, from, to) == pc[t] = from /\ pc' = [pc EXCEPT ![t] = to]
After(i) == (i + 1) % BUFFER_SIZE

P(t, s, from, to) ==
    /\ Go(t, from, to)
    /\ sem[s] > 0
    /\ sem' = [sem EXCEPT ![s] = @ - 1]
    /\ UNCHANGED <<bufferVars, item, to_go, waited, heap>>

V(t, s, from, to) ==
    /\ Go(t, from, to)
    /\ sem' = [sem EXCEPT ![s] = @ + 1]
    /\ UNCHANGED <<bufferVars, item, to_go, waited, heap>>

-----------------------------------------------------------------------------
(* producer_send                                                           *)
SendReserve(t) == P(t, "empty", "P_empty", "P_mutex")
SendLock(t) == t \in Sender /\ P(t, "mutex", "P_mutex", "store")

SendStore(t) ==
    /\ Go(t, "store", "advance")
    /\ item_buffer' = [item_buffer EXCEPT ![tail] = item[t]]
    /\ UNCHANGED <<head, tail, sem, item, to_go, waited, heap>>

(* The item is the consumers' now.                                         *)
SendAdvance_PastTheEnd(t) ==
    /\ t \in Sender
    /\ Go(t, "advance", "V_mutex")
    /\ tail' = IF tail = BUFFER_SIZE - 1 THEN 1 % BUFFER_SIZE ELSE tail + 1
    /\ item' = [item EXCEPT ![t] = NULL]
    /\ UNCHANGED <<item_buffer, head, sem, to_go, waited, heap>>
SendAdvance(t) ==
    /\ t \in Sender
    /\ Go(t, "advance", "V_mutex")
    /\ tail' = After(tail)
    /\ item' = [item EXCEPT ![t] = NULL]
    /\ UNCHANGED <<item_buffer, head, sem, to_go, waited, heap>>

SendUnlock(t) == t \in Sender /\ V(t, "mutex", "V_mutex", "V_full")

(* V(full), and the caller's items_to_go - 1.                              *)
SendDone(t) ==
    /\ Go(t, "V_full", "make")
    /\ sem' = [sem EXCEPT !.full = @ + 1]
    /\ to_go' = [to_go EXCEPT ![t] = @ - 1]
    /\ UNCHANGED <<bufferVars, item, waited, heap>>

-----------------------------------------------------------------------------
(* consumer_receive                                                        *)
ReceiveReserve(c) == P(c, "full", "P_full", "P_mutex")

ReceiveLock_Open(c) ==
    /\ c \in Consumer
    /\ Go(c, "P_mutex", "fetch")
    /\ UNCHANGED <<bufferVars, sem, item, to_go, waited, heap>>
ReceiveLock(c) == c \in Consumer /\ P(c, "mutex", "P_mutex", "fetch")

ReceiveFetch(c) ==
    /\ Go(c, "fetch", "advance")
    /\ item' = [item EXCEPT ![c] = item_buffer[head]]
    /\ UNCHANGED <<bufferVars, sem, to_go, waited, heap>>

ReceiveAdvance(c) ==
    /\ c \in Consumer
    /\ Go(c, "advance", "V_mutex")
    /\ head' = After(head)
    /\ UNCHANGED <<item_buffer, tail, sem, item, to_go, waited, heap>>

ReceiveUnlock(c) == c \in Consumer /\ V(c, "mutex", "V_mutex", "V_empty")

ReceiveDone(c) == V(c, "empty", "V_empty", "check")

-----------------------------------------------------------------------------
(* The driver: the loops of the producers and of stop_consumer_threads     *)
Make(t) ==
    /\ to_go[t] > 0
    /\ Go(t, "make", "P_empty")
    /\ item' = [item EXCEPT ![t] = [by |-> t, n |-> to_go[t]]]
    /\ heap' = heap \cup {[by |-> t, n |-> to_go[t]]}
    /\ UNCHANGED <<bufferVars, sem, to_go, waited>>

ProducerFinish(t) ==
    /\ t \in Producer
    /\ to_go[t] = 0
    /\ V(t, "producer_finished", "make", "gone")

(* The consumers' loop: free the item, and receive again or stop.          *)
Stops(i) == i \in Item /\ i.by = Main
Check(c) ==
    /\ Go(c, "check", "P_full")
    /\ ~Stops(item[c])
    /\ item' = [item EXCEPT ![c] = NULL]
    /\ heap' = heap \ {item[c]}
    /\ UNCHANGED <<bufferVars, sem, to_go, waited>>

ConsumerFinish(c) ==
    /\ pc[c] = "check"
    /\ Stops(item[c])
    /\ pc' = [pc EXCEPT ![c] = "gone"]
    /\ item' = [item EXCEPT ![c] = NULL]
    /\ heap' = heap \ {item[c]}
    /\ sem' = [sem EXCEPT !.consumer_finished = @ + 1]
    /\ UNCHANGED <<bufferVars, to_go, waited>>

-----------------------------------------------------------------------------
(* run_producerconsumer: the consumers are forked, then the producers...   *)
Unborn(T) == {t \in T : pc[t] = "unborn"}
Fork(t) ==
    /\ pc[t] = "unborn"
    /\ t \in Producer => Unborn(Consumer) = {}
    /\ pc' = [pc EXCEPT ![t] = IF t \in Producer THEN "make" ELSE "P_full"]
    /\ UNCHANGED <<bufferVars, sem, item, to_go, waited, heap>>

Forked ==
    /\ Unborn(Thread) = {}
    /\ Go(Main, "fork", "wait_producers")
    /\ UNCHANGED <<bufferVars, sem, item, to_go, waited, heap>>

(* ...wait_for_producer_threads, and P(consumer_finished)'s...             *)
Wait(s, place) ==
    /\ pc[Main] = place
    /\ sem[s] > 0
    /\ sem' = [sem EXCEPT ![s] = @ - 1]
    /\ waited' = waited + 1
    /\ UNCHANGED <<bufferVars, pc, item, to_go, heap>>

WaitProducer ==
    /\ waited < Cardinality(Producer)
    /\ Wait("producer_finished", "wait_producers")

StopConsumers ==
    /\ waited = Cardinality(Producer)
    /\ Go(Main, "wait_producers", "make")
    /\ waited' = 0
    /\ UNCHANGED <<bufferVars, sem, item, to_go, heap>>

AllStopped ==
    /\ to_go[Main] = 0
    /\ Go(Main, "make", "wait_consumers")
    /\ UNCHANGED <<bufferVars, sem, item, to_go, waited, heap>>

WaitConsumer ==
    /\ waited < Cardinality(Consumer)
    /\ Wait("consumer_finished", "wait_consumers")

(* ...and producerconsumer_shutdown, with the sem_destroy's after it.      *)
Shutdown ==
    /\ waited = Cardinality(Consumer)
    /\ Go(Main, "wait_consumers", "done")
    /\ UNCHANGED <<bufferVars, sem, item, to_go, waited, heap>>

Sends(t) ==
    \/ Make(t) \/ SendReserve(t) \/ SendLock(t) \/ SendStore(t)
    \/ SendAdvance(t) \/ SendUnlock(t) \/ SendDone(t)

ProducerRuns(t) == Sends(t) \/ ProducerFinish(t)

ConsumerRuns(c) ==
    \/ ReceiveReserve(c) \/ ReceiveLock(c) \/ ReceiveFetch(c) \/ ReceiveAdvance(c)
    \/ ReceiveUnlock(c) \/ ReceiveDone(c) \/ Check(c) \/ ConsumerFinish(c)

MainRuns == \/ Forked \/ WaitProducer \/ StopConsumers \/ Sends(Main)
            \/ AllStopped \/ WaitConsumer \/ Shutdown

Done == pc[Main] = "done"
Returned == Done /\ UNCHANGED vars

Next ==
    \/ \E t \in Producer : Fork(t) \/ ProducerRuns(t)
    \/ \E c \in Consumer : Fork(c) \/ ConsumerRuns(c)
    \/ MainRuns \/ Returned

Spec == Init /\ [][Next]_vars

-----------------------------------------------------------------------------
At(T, places) == {t \in T : pc[t] \in places}

(* The items in the buffer, first the one to be received next: those which *)
(* a sender has put there and no consumer has fetched.                     *)
Filled == sem["full"] + Cardinality(At(Sender, {"V_mutex", "V_full"}))
                      + Cardinality(At(Consumer, {"P_mutex", "fetch"}))
Oldest == IF At(Consumer, {"advance"}) = {} THEN head ELSE After(head)
Queue == [i \in 1 .. Filled |-> item_buffer[(Oldest + i - 1) % BUFFER_SIZE]]

(***************************************************************************)
(* Every slot is accounted for: it is free (a unit of empty), filled, or   *)
(* in the hands of one thread between its P and its V; and with nobody at  *)
(* the indices, tail is as far past head as there are filled slots.        *)
(***************************************************************************)
SlotsAccounted ==
    /\ BUFFER_SIZE = sem["empty"] + Filled
           + Cardinality(At(Sender, {"P_mutex", "store", "advance"}))
           + Cardinality(At(Consumer, {"advance", "V_mutex", "V_empty"}))
    /\ tail = (Oldest + Filled) % BUFFER_SIZE

(***************************************************************************)
(* Nothing is lost, received twice or freed twice: an item that has been   *)
(* allocated is with the one thread that made or received it, or in the    *)
(* buffer at one place, and nowhere else.                                  *)
(***************************************************************************)
Held == {t \in Thread : item[t] # NULL}
InBuffer == {Queue[i] : i \in 1 .. Filled}
ItemsOnce ==
    /\ heap = InBuffer \cup {item[t] : t \in Held}
    /\ Cardinality(heap) = Filled + Cardinality(Held)

(***************************************************************************)
(* When the semaphores are destroyed every item has been received and      *)
(* freed, each thread has done its last P and V, and the semaphores and    *)
(* the two indices are as at the start: the command can be run again.      *)
(***************************************************************************)
ShutdownClean ==
    Done => /\ heap = {} /\ head = tail
            /\ At(Producer \cup Consumer, {"gone"}) = Producer \cup Consumer
            /\ sem = [mutex |-> 1, empty |-> BUFFER_SIZE, full |-> 0,
                      producer_finished |-> 0, consumer_finished |-> 0]

(* It is a bounded first-in first-out buffer (module BoundedBuffer).       *)
Buffer == INSTANCE BoundedBuffer
    WITH queue <- Queue, hand <- [c \in Consumer |-> item[c]]
ImplementsBuffer == Buffer!Spec
=============================================================================
