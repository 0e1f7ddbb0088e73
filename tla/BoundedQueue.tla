------------------------------ MODULE BoundedQueue ------------------------------
(***************************************************************************)
(* What the message queue between two threads of the control plane         *)
(* promises: elements leave in the order they entered, none is invented,   *)
(* none is duplicated, at most Cap are held, and one that is in the queue  *)
(* does not stay there for ever.  Fifo.tla is the ring buffer of fifo.c    *)
(* that keeps the promise.                                                 *)
(***************************************************************************)
EXTENDS Naturals, Sequences

CONSTANTS Cap,       \* how many elements the queue holds at most
          Elements   \* what is put into it

VARIABLE q

Init == q = <<>>

Put(e) == /\ Len(q) < Cap
          /\ q' = Append(q, e)

Take == /\ q # <<>>
        /\ q' = Tail(q)

Next == Take \/ \E e \in Elements : Put(e)

Spec == Init /\ [][Next]_q

\* A non-empty queue is eventually served.
LiveSpec == Spec /\ WF_q(Take)
=============================================================================
