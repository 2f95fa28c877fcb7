--------------------------- MODULE BoundedBuffer ---------------------------
(***************************************************************************)
(* What producer_send and consumer_receive promise: a first-in first-out   *)
(* buffer of BUFFER_SIZE items, each handed to one consumer.               *)
(***************************************************************************)
EXTENDS Naturals, Sequences

CONSTANTS BUFFER_SIZE, Item, Consumer, NULL

VARIABLES
    queue,      \* the items in the buffer
    hand        \* consumer -> the item it has received and not yet freed

Init ==
    /\ queue = <<>>
    /\ hand = [c \in Consumer |-> NULL]

InUse == {queue[i] : i \in DOMAIN queue} \cup {hand[c] : c \in Consumer}

Send(item) ==
    /\ Len(queue) < BUFFER_SIZE
    /\ item \notin InUse
    /\ queue' = Append(queue, item)
    /\ UNCHANGED hand

Receive(c) ==
    /\ queue # <<>> /\ hand[c] = NULL
    /\ hand' = [hand EXCEPT ![c] = Head(queue)]
    /\ queue' = Tail(queue)

Free(c) ==
    /\ hand[c] # NULL
    /\ hand' = [hand EXCEPT ![c] = NULL]
    /\ UNCHANGED queue

Next == (\E item \in Item : Send(item)) \/ \E c \in Consumer : Receive(c) \/ Free(c)

Spec == Init /\ [][Next]_<<queue, hand>>
=============================================================================
