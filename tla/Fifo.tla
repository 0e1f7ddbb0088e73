---------------------------------- MODULE Fifo ----------------------------------
(***************************************************************************)
(* The message queue of the control plane (ctrl_plane/fifo.c) with the     *)
(* loop every one of its consumers runs: fifo_wait, fifo_remove_msg, and   *)
(* back to the top when nothing was removed.  One queue is shared by any   *)
(* number of producers and consumers: the switch has one consumer per      *)
(* queue, the controller one per accepted connection.                      *)
(*                                                                         *)
(* A critical section under queue->lock is one action; the gap between     *)
(* fifo_wait and fifo_remove_msg, where the lock is free, is not closed.   *)
(* pthread_cond_signal wakes one blocked thread if there is one, and a     *)
(* blocked thread may also wake for no reason.                             *)
(***************************************************************************)
EXTENDS Integers, Sequences, FiniteSets

CONSTANTS QSize,      \* P4_BG_QUEUE_SIZE
          Elements,   \* the messages
          Consumers,  \* the threads that run the consumer loop
          None        \* the null pointer, and an unwritten slot

ASSUME QSizeAssumption == QSize \in Nat \ {0}
ASSUME ConsumersAssumption == IsFiniteSet(Consumers)
ASSUME NoneAssumption == None \notin Elements

VARIABLES queue, head, size, tail,   \* the fields of fifo_t
          pc,                        \* where each consumer is in its loop
          cell                       \* what fifo_remove_msg gave it

ring == <<queue, head, size, tail>>
vars == <<queue, head, size, tail, pc, cell>>

Slots == 0 .. QSize - 1

Blocked == {c \in Consumers : pc[c] = "blocked"}
Removing == {c \in Consumers : pc[c] = "remove"}

Init == /\ queue = [i \in Slots |-> None]
        /\ head = 0
        /\ size = 0
        /\ tail = -1
        /\ pc = [c \in Consumers |-> "wait"]
        /\ cell = [c \in Consumers |-> None]

\* Mutant: a message is added without a signal.
SignalForgotten == UNCHANGED pc

\* pthread_cond_signal(&queue->not_empty): fifo_wait has nothing left to do
\* for the woken thread but to release the lock.
SignalNotEmpty ==
    \/ /\ Blocked = {}
       /\ UNCHANGED pc
    \/ \E c \in Blocked : pc' = [pc EXCEPT ![c] = "remove"]

\* Mutants: the bound is not looked at; the slot is written before tail moves;
\* only a message that finds the queue empty is signalled.
AddUnbounded(e) ==
    /\ tail' = (tail + 1) % QSize
    /\ size' = size + 1
    /\ queue' = [queue EXCEPT ![(tail + 1) % QSize] = e]
    /\ SignalNotEmpty
    /\ UNCHANGED <<head, cell>>
AddBeforeMove(e) ==
    /\ size < QSize
    /\ tail' = (tail + 1) % QSize
    /\ size' = size + 1
    /\ queue' = [queue EXCEPT ![tail % QSize] = e]
    /\ SignalNotEmpty
    /\ UNCHANGED <<head, cell>>
AddSignalsIfEmpty(e) ==
    /\ size < QSize
    /\ tail' = (tail + 1) % QSize
    /\ size' = size + 1
    /\ queue' = [queue EXCEPT ![(tail + 1) % QSize] = e]
    /\ IF size = 0 THEN SignalNotEmpty ELSE UNCHANGED pc
    /\ UNCHANGED <<head, cell>>

fifo_add_msg(e) ==
    /\ size < QSize
    /\ tail' = (tail + 1) % QSize
    /\ size' = size + 1
    /\ queue' = [queue EXCEPT ![(tail + 1) % QSize] = e]
    /\ SignalNotEmpty
    /\ UNCHANGED <<head, cell>>

\* A full queue: the element is dropped and the caller is not told.
fifo_add_msg_full(e) ==
    /\ size >= QSize
    /\ UNCHANGED vars

\* The condition is tested once, not in a loop.
fifo_wait(c) ==
    /\ pc[c] = "wait"
    /\ pc' = [pc EXCEPT ![c] = IF size = 0 THEN "blocked" ELSE "remove"]
    /\ UNCHANGED <<ring, cell>>

SpuriousWakeup(c) ==
    /\ pc[c] = "blocked"
    /\ pc' = [pc EXCEPT ![c] = "remove"]
    /\ UNCHANGED <<ring, cell>>

fifo_remove_msg(c) ==
    /\ pc[c] = "remove"
    /\ size > 0
    /\ cell' = [cell EXCEPT ![c] = queue[head]]
    /\ head' = (head + 1) % QSize
    /\ size' = size - 1
    /\ pc' = [pc EXCEPT ![c] = "handle"]
    /\ UNCHANGED <<queue, tail>>

\* fifo_remove_msg returned the null pointer: "if (mem_cell==0) continue".
fifo_remove_nothing(c) ==
    /\ pc[c] = "remove"
    /\ size = 0
    /\ pc' = [pc EXCEPT ![c] = "wait"]
    /\ UNCHANGED <<ring, cell>>

\* The consumer handles the message, frees it and goes back to fifo_wait.
Handle(c) ==
    /\ pc[c] = "handle"
    /\ cell' = [cell EXCEPT ![c] = None]
    /\ pc' = [pc EXCEPT ![c] = "wait"]
    /\ UNCHANGED ring

Consume(c) == \/ fifo_wait(c)
              \/ fifo_remove_msg(c)
              \/ fifo_remove_nothing(c)
              \/ Handle(c)

Next == \/ \E e \in Elements : fifo_add_msg(e) \/ fifo_add_msg_full(e)
        \/ \E c \in Consumers : Consume(c) \/ SpuriousWakeup(c)

Spec == Init /\ [][Next]_vars

\* The threads of the pool are scheduled by the kernel: one that can run does
\* run.  Producers owe nothing, and nothing wakes for no reason for ever.
FairSpec == Spec /\ \A c \in Consumers : WF_vars(Consume(c))
-----------------------------------------------------------------------------
TypeOK == /\ queue \in [Slots -> Elements \cup {None}]
          /\ head \in Slots
          /\ size \in 0 .. QSize
          /\ tail \in -1 .. QSize - 1
          /\ pc \in [Consumers -> {"wait", "blocked", "remove", "handle"}]
          /\ cell \in [Consumers -> Elements \cup {None}]

\* The messages held, oldest first: size slots from head on, around the end.
Contents == [i \in 1 .. size |-> queue[(head + i - 1) % QSize]]

\* head, size and tail agree: the next write goes to the slot after the last
\* held message.  (tail starts at -1, before any message was written.)
RingInv == (tail + 1) % QSize = (head + size) % QSize

\* A held message is one that was added, never a slot nobody wrote.
HeldInv == \A i \in 1 .. size : queue[(head + i - 1) % QSize] \in Elements

\* No wake-up is lost although fifo_wait tests its condition once and a
\* message can be taken by another consumer between a signal and the removal:
\* while a consumer sleeps, there is for every held message a consumer that
\* is past its wait and about to remove one.
NoLostWakeup == Blocked # {} => size <= Cardinality(Removing)

Queue == INSTANCE BoundedQueue WITH Cap <- QSize, q <- Contents

\* What fifo_add_msg and fifo_remove_msg do to the ring is what a bounded queue
\* does: order kept, nothing lost or duplicated, whatever wraps around.
RefinesQueue == Queue!Spec

\* A message in the ring is taken out in the end: fifo_wait leaves no consumer
\* asleep beside a queue that stays non-empty.
QueueServed == Queue!LiveSpec
=============================================================================
