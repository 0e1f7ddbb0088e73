-------------------------- MODULE BackendPartsProofs --------------------------
(***************************************************************************)
(* Proofs about the two parts that CtrlBackend takes for granted: the ring *)
(* buffer of fifo.c, for any size of the buffer, any set of messages and   *)
(* any number of consumers, and the two lists of memory cells of           *)
(* ctrl_plane_backend.c, for any number of cells.                          *)
(***************************************************************************)
EXTENDS Fifo, CellList, TLAPS, FiniteSetTheorems, SequenceTheorems,
        WellFoundedInduction

(***************************************************************************)
(* The ring buffer.                                                        *)
(***************************************************************************)
\* The index arithmetic of fifo.c: an index at most one turn ahead of the
\* ring is wrapped by subtracting the size of the ring.
LEMMA ModOneTurn ==
    ASSUME NEW n \in Nat, n < 2 * QSize
    PROVE  n % QSize = IF n < QSize THEN n ELSE n - QSize
BY QSizeAssumption, SMT

\* Every index fifo.c computes is one of the ring.
LEMMA ModInSlots ==
    ASSUME NEW n \in Nat
    PROVE  n % QSize \in Slots
BY QSizeAssumption, SMT DEF Slots
-----------------------------------------------------------------------------
\* The fields of fifo_t and the consumers keep their types.
THEOREM TypeCorrect == Spec => []TypeOK
<1>1. Init => TypeOK
  BY QSizeAssumption DEF Init, TypeOK, Slots
<1>2. TypeOK /\ [Next]_vars => TypeOK'
  <2> SUFFICES ASSUME TypeOK, [Next]_vars PROVE TypeOK'
    OBVIOUS
  <2> USE DEF TypeOK
  <2>1. ASSUME NEW e \in Elements, fifo_add_msg(e) PROVE TypeOK'
    <3>1. tail' \in Slots
      BY <2>1, ModInSlots, tail + 1 \in Nat DEF fifo_add_msg
    <3>2. queue' \in [Slots -> Elements \cup {None}]
      BY <2>1, <3>1 DEF fifo_add_msg
    <3>3. pc' \in [Consumers -> {"wait", "blocked", "remove", "handle"}]
      BY <2>1 DEF fifo_add_msg, SignalNotEmpty, Blocked
    <3> QED
      BY <2>1, <3>1, <3>2, <3>3, QSizeAssumption DEF fifo_add_msg, Slots
  <2>2. ASSUME NEW e \in Elements, fifo_add_msg_full(e) PROVE TypeOK'
    BY <2>2 DEF fifo_add_msg_full, vars
  <2>3. ASSUME NEW c \in Consumers, fifo_wait(c) PROVE TypeOK'
    BY <2>3 DEF fifo_wait, ring
  <2>4. ASSUME NEW c \in Consumers, SpuriousWakeup(c) PROVE TypeOK'
    BY <2>4 DEF SpuriousWakeup, ring
  <2>5. ASSUME NEW c \in Consumers, fifo_remove_msg(c) PROVE TypeOK'
    <3>1. head' \in Slots
      BY <2>5, ModInSlots, head + 1 \in Nat DEF fifo_remove_msg, Slots
    <3> QED
      BY <2>5, <3>1, QSizeAssumption DEF fifo_remove_msg
  <2>6. ASSUME NEW c \in Consumers, fifo_remove_nothing(c) PROVE TypeOK'
    BY <2>6 DEF fifo_remove_nothing, ring
  <2>7. ASSUME NEW c \in Consumers, Handle(c) PROVE TypeOK'
    BY <2>7 DEF Handle, ring
  <2>8. CASE UNCHANGED vars
    BY <2>8 DEF vars
  <2> QED
    BY <2>1, <2>2, <2>3, <2>4, <2>5, <2>6, <2>7, <2>8 DEF Next, Consume
<1> QED
  BY <1>1, <1>2, PTL DEF Spec
-----------------------------------------------------------------------------
\* The removing consumers are counted by a natural number.
LEMMA RemovingFinite == IsFiniteSet(Removing) /\ Cardinality(Removing) \in Nat
<1>1. Removing \subseteq Consumers
  BY DEF Removing
<1> QED
  BY <1>1, ConsumersAssumption, FS_Subset, FS_CardinalityType

\* A consumer that was not about to remove and now is counts for one more.
LEMMA OneMoreRemoving ==
    ASSUME TypeOK, NEW c \in Consumers, pc[c] # "remove",
           pc' = [pc EXCEPT ![c] = "remove"]
    PROVE  Cardinality(Removing') = Cardinality(Removing) + 1
<1>1. Removing' = Removing \cup {c} /\ c \notin Removing
  BY DEF Removing, TypeOK
<1> QED
  BY <1>1, RemovingFinite, FS_AddElement

\* A consumer that leaves fifo_remove_msg counts for one less.
LEMMA OneLessRemoving ==
    ASSUME TypeOK, NEW c \in Consumers, pc[c] = "remove",
           NEW s, s # "remove", pc' = [pc EXCEPT ![c] = s]
    PROVE  Cardinality(Removing') = Cardinality(Removing) - 1
<1>1. Removing' = Removing \ {c} /\ c \in Removing
  BY DEF Removing, TypeOK
<1> QED
  BY <1>1, RemovingFinite, FS_RemoveElement

\* No wake-up is lost: while a consumer sleeps in fifo_wait, every held
\* message has a consumer that is past its wait.
THEOREM WakeupKept == Spec => []NoLostWakeup
<1>1. Init => NoLostWakeup
  BY DEF Init, NoLostWakeup, Blocked
<1>2. TypeOK /\ NoLostWakeup /\ [Next]_vars => NoLostWakeup'
  <2> SUFFICES ASSUME TypeOK, NoLostWakeup, [Next]_vars, Blocked' # {}
               PROVE  size' <= Cardinality(Removing')
    BY DEF NoLostWakeup
  <2>0. Cardinality(Removing) \in Nat /\ size \in Nat
    BY RemovingFinite DEF TypeOK
  <2>1. ASSUME NEW e \in Elements, fifo_add_msg(e)
        PROVE  size' <= Cardinality(Removing')
    <3>1. CASE Blocked = {} /\ UNCHANGED pc
      BY <3>1 DEF Blocked
    <3>2. ASSUME NEW c \in Blocked, pc' = [pc EXCEPT ![c] = "remove"]
          PROVE  size' <= Cardinality(Removing')
      <4>1. c \in Consumers /\ pc[c] = "blocked" /\ Blocked # {}
        BY DEF Blocked
      <4>2. Cardinality(Removing') = Cardinality(Removing) + 1
        BY <4>1, <3>2, OneMoreRemoving
      <4> QED
        BY <2>0, <2>1, <4>1, <4>2 DEF fifo_add_msg, NoLostWakeup
    <3> QED
      BY <2>1, <3>1, <3>2 DEF fifo_add_msg, SignalNotEmpty
  <2>2. ASSUME NEW c \in Consumers, fifo_wait(c)
        PROVE  size' <= Cardinality(Removing')
    <3>1. CASE size = 0
      <4>1. Removing' = Removing
        BY <2>2, <3>1 DEF fifo_wait, Removing, TypeOK
      <4> QED
        BY <2>0, <2>2, <3>1, <4>1 DEF fifo_wait, ring
    <3>2. CASE size # 0
      <4>1. Blocked # {}
        BY <2>2, <3>2 DEF fifo_wait, Blocked, TypeOK
      <4>2. Cardinality(Removing') = Cardinality(Removing) + 1
        BY <2>2, <3>2, OneMoreRemoving DEF fifo_wait
      <4> QED
        BY <2>0, <2>2, <4>1, <4>2 DEF fifo_wait, ring, NoLostWakeup
    <3> QED
      BY <3>1, <3>2
  <2>3. ASSUME NEW c \in Consumers, SpuriousWakeup(c)
        PROVE  size' <= Cardinality(Removing')
    <3>1. Blocked # {}
      BY <2>3 DEF SpuriousWakeup, Blocked
    <3>2. Cardinality(Removing') = Cardinality(Removing) + 1
      BY <2>3, OneMoreRemoving DEF SpuriousWakeup
    <3> QED
      BY <2>0, <2>3, <3>1, <3>2 DEF SpuriousWakeup, ring, NoLostWakeup
  <2>4. ASSUME NEW c \in Consumers, fifo_remove_msg(c)
        PROVE  size' <= Cardinality(Removing')
    <3>1. Blocked # {}
      BY <2>4 DEF fifo_remove_msg, Blocked, TypeOK
    <3>2. Cardinality(Removing') = Cardinality(Removing) - 1
      BY <2>4, OneLessRemoving DEF fifo_remove_msg
    <3> QED
      BY <2>0, <2>4, <3>1, <3>2 DEF fifo_remove_msg, NoLostWakeup
  <2>5. ASSUME NEW c \in Consumers, fifo_remove_nothing(c)
        PROVE  size' <= Cardinality(Removing')
    <3>1. Cardinality(Removing') = Cardinality(Removing) - 1
      BY <2>5, OneLessRemoving DEF fifo_remove_nothing
    <3>2. c \in Removing
      BY <2>5 DEF fifo_remove_nothing, Removing
    <3>3. Cardinality(Removing) # 0
      BY <3>2, RemovingFinite, FS_EmptySet
    <3> QED
      BY <2>0, <2>5, <3>1, <3>3 DEF fifo_remove_nothing, ring
  <2>6. ASSUME NEW c \in Consumers, Handle(c)
        PROVE  size' <= Cardinality(Removing')
    <3>1. Removing' = Removing /\ Blocked' = Blocked
      BY <2>6 DEF Handle, Removing, Blocked, TypeOK
    <3> QED
      BY <2>6, <3>1 DEF Handle, ring, NoLostWakeup
  <2>7. CASE UNCHANGED vars
    BY <2>7 DEF vars, NoLostWakeup, Blocked, Removing
  <2> QED
    BY <2>1, <2>2, <2>3, <2>4, <2>5, <2>6, <2>7
       DEF Next, Consume, fifo_add_msg_full
<1> QED
  BY <1>1, <1>2, TypeCorrect, PTL DEF Spec
-----------------------------------------------------------------------------
\* The three indices of the ring agree, and what is held was added: fifo.c never
\* hands out a slot nobody wrote, whatever the order of calls.
THEOREM RingCorrect == Spec => [](RingInv /\ HeldInv)
<1>1. Init => RingInv /\ HeldInv
  <2> SUFFICES ASSUME Init PROVE RingInv /\ HeldInv
    OBVIOUS
  <2>1. RingInv
    BY DEF Init, RingInv
  <2>2. HeldInv
    BY DEF Init, HeldInv
  <2> QED
    BY <2>1, <2>2
<1>2. TypeOK /\ RingInv /\ HeldInv /\ [Next]_vars => RingInv' /\ HeldInv'
  <2> SUFFICES ASSUME TypeOK, RingInv, HeldInv, [Next]_vars
               PROVE  RingInv' /\ HeldInv'
    OBVIOUS
  <2>0. /\ QSize \in Nat \ {0} /\ head \in Nat /\ head < QSize
        /\ size \in Nat /\ size <= QSize /\ tail + 1 \in Nat /\ tail + 1 <= QSize
    BY QSizeAssumption DEF TypeOK, Slots
  <2>1. ASSUME NEW e \in Elements, fifo_add_msg(e)
        PROVE  RingInv' /\ HeldInv'
    <3>1. tail' = (head + size) % QSize
      BY <2>1 DEF fifo_add_msg, RingInv
    <3>2. RingInv'
      BY <2>0, <2>1, <3>1, ModOneTurn DEF fifo_add_msg, RingInv
    <3>3. HeldInv'
      <4> SUFFICES ASSUME NEW i \in 1 .. size'
                   PROVE  queue'[(head' + i - 1) % QSize] \in Elements
        BY DEF HeldInv
      <4>1. CASE i = size + 1
        BY <2>0, <2>1, <3>1, <4>1, ModInSlots, head + size \in Nat
           DEF fifo_add_msg, TypeOK, RingInv
      <4>2. CASE i \in 1 .. size
        <5>1. (head + i - 1) % QSize # (head + size) % QSize
          BY <2>0, <2>1, <4>2, ModOneTurn DEF fifo_add_msg
        <5> QED
          BY <2>0, <2>1, <3>1, <4>2, <5>1, ModInSlots, head + i - 1 \in Nat
             DEF fifo_add_msg, TypeOK, RingInv, HeldInv
      <4> QED
        BY <2>0, <2>1, <4>1, <4>2 DEF fifo_add_msg
    <3> QED
      BY <3>2, <3>3
  <2>2. ASSUME NEW c \in Consumers, fifo_remove_msg(c)
        PROVE  RingInv' /\ HeldInv'
    <3>1. head' = (head + 1) % QSize /\ size' = size - 1 /\ size > 0
          /\ queue' = queue /\ tail' = tail
      BY <2>2 DEF fifo_remove_msg
    <3>2. ASSUME NEW i \in Nat, i <= size - 1
          PROVE  (head' + i) % QSize = (head + 1 + i) % QSize
      BY <2>0, <3>1, <3>2, ModOneTurn
    <3>3. RingInv'
      <4>1. (head' + (size - 1)) % QSize = (head + 1 + (size - 1)) % QSize
        BY <2>0, <3>1, <3>2
      <4>2. head + 1 + (size - 1) = head + size
        BY <2>0
      <4> QED
        BY <3>1, <4>1, <4>2 DEF RingInv
    <3>4. HeldInv'
      <4> SUFFICES ASSUME NEW i \in 1 .. size - 1
                   PROVE  queue[(head' + i - 1) % QSize] \in Elements
        BY <3>1 DEF HeldInv
      <4>1. (head' + (i - 1)) % QSize = (head + 1 + (i - 1)) % QSize
        BY <2>0, <3>2
      <4>2. /\ head' \in Int
            /\ head' + (i - 1) = head' + i - 1
            /\ head + 1 + (i - 1) = head + (i + 1) - 1
            /\ i + 1 \in 1 .. size
        BY <2>0, <3>1
      <4> QED
        BY <4>1, <4>2 DEF HeldInv
    <3> QED
      BY <3>3, <3>4
  <2>3. CASE UNCHANGED ring
    BY <2>3 DEF ring, RingInv, HeldInv
  <2> QED
    BY <2>1, <2>2, <2>3
       DEF Next, Consume, fifo_add_msg_full, fifo_wait, SpuriousWakeup,
           fifo_remove_nothing, Handle, vars, ring
<1> QED
  BY <1>1, <1>2, TypeCorrect, PTL DEF Spec
-----------------------------------------------------------------------------
\* What fifo_add_msg appends and fifo_remove_msg takes is the sequence of held
\* messages: the code's queue behaves as the abstract queue.
LEMMA ContentsSeq ==
    ASSUME TypeOK, HeldInv
    PROVE  Contents \in Seq(Elements) /\ Len(Contents) = size
BY DEF Contents, HeldInv, TypeOK

\* fifo_add_msg puts one message at the end.
LEMMA AddAppends ==
    ASSUME TypeOK, RingInv, HeldInv, NEW e \in Elements, fifo_add_msg(e)
    PROVE  Queue!Put(e)
<1>0. /\ QSize \in Nat \ {0} /\ head \in Nat /\ head < QSize
      /\ size \in Nat /\ size < QSize /\ size' = size + 1 /\ head' = head
  BY QSizeAssumption DEF TypeOK, Slots, fifo_add_msg
<1>1. (tail + 1) % QSize = (head + size) % QSize /\ (head + size) % QSize \in Slots
  BY <1>0, ModInSlots, head + size \in Nat DEF RingInv
<1>2. queue' = [queue EXCEPT ![(head + size) % QSize] = e]
  BY <1>1 DEF fifo_add_msg
<1>3. ASSUME NEW i \in 1 .. size
      PROVE  queue'[(head + i - 1) % QSize] = queue[(head + i - 1) % QSize]
  <2>1. (head + i - 1) % QSize # (head + size) % QSize
    BY <1>0, ModOneTurn
  <2>2. (head + i - 1) % QSize \in Slots
    BY <1>0, ModInSlots, head + i - 1 \in Nat
  <2> QED
    BY <1>2, <2>1, <2>2 DEF TypeOK
<1>4. queue'[(head + (size + 1) - 1) % QSize] = e
  BY <1>0, <1>1, <1>2, head + (size + 1) - 1 = head + size DEF TypeOK
<1>5. Contents' = [i \in 1 .. size + 1 |-> queue'[(head + i - 1) % QSize]]
  BY <1>0 DEF Contents
<1>6. /\ Append(Contents, e) \in Seq(Elements)
      /\ Len(Append(Contents, e)) = size + 1
      /\ \A i \in 1 .. size : Append(Contents, e)[i] = Contents[i]
      /\ Append(Contents, e)[size + 1] = e
  BY ContentsSeq, AppendProperties
<1>7. \A i \in 1 .. size + 1 :
        queue'[(head + i - 1) % QSize] = Append(Contents, e)[i]
  <2>1. \A i \in 1 .. size : Contents[i] = queue[(head + i - 1) % QSize]
    BY DEF Contents
  <2>2. \A i \in 1 .. size + 1 : i = size + 1 \/ i \in 1 .. size
    BY <1>0
  <2>3. \A i \in 1 .. size :
          queue'[(head + i - 1) % QSize] = Append(Contents, e)[i]
    BY <1>3, <1>6, <2>1
  <2> QED
    BY <1>4, <1>6, <2>2, <2>3
<1>8. Contents' = Append(Contents, e)
  <2>1. Append(Contents, e) = [i \in 1 .. size + 1 |-> Append(Contents, e)[i]]
    BY <1>6, LenProperties
  <2> QED
    BY <1>5, <1>7, <2>1
<1> QED
  BY <1>0, <1>8, ContentsSeq DEF Queue!Put

\* fifo_remove_msg takes the oldest message.
LEMMA RemoveTakes ==
    ASSUME TypeOK, RingInv, HeldInv, NEW c \in Consumers, fifo_remove_msg(c)
    PROVE  Queue!Take
<1>0. /\ QSize \in Nat \ {0} /\ head \in Nat /\ head < QSize
      /\ size \in Nat /\ size <= QSize /\ size > 0
      /\ head' = (head + 1) % QSize /\ size' = size - 1 /\ queue' = queue
  BY QSizeAssumption DEF TypeOK, Slots, fifo_remove_msg
<1>1. ASSUME NEW i \in 1 .. size - 1
      PROVE  (head' + i - 1) % QSize = (head + (i + 1) - 1) % QSize
  <2>1. head' = IF head + 1 < QSize THEN head + 1 ELSE head + 1 - QSize
    BY <1>0, ModOneTurn
  <2> QED
    BY <1>0, <2>1, ModOneTurn
<1>2. Contents' = [i \in 1 .. size - 1 |-> queue[(head' + i - 1) % QSize]]
  BY <1>0 DEF Contents
<1>3. /\ Contents # <<>>
      /\ Tail(Contents) \in Seq(Elements)
      /\ Len(Tail(Contents)) = size - 1
      /\ \A i \in 1 .. size - 1 : Tail(Contents)[i] = Contents[i + 1]
  <2>1. Contents \in Seq(Elements) /\ Len(Contents) = size /\ Contents # <<>>
    BY <1>0, ContentsSeq
  <2> QED
    BY <2>1, HeadTailProperties
<1>4. \A i \in 1 .. size - 1 :
        Tail(Contents)[i] = queue[(head' + i - 1) % QSize]
  <2>1. \A i \in 1 .. size : Contents[i] = queue[(head + i - 1) % QSize]
    BY DEF Contents
  <2> QED
    BY <1>0, <1>1, <1>3, <2>1
<1>5. Contents' = Tail(Contents)
  <2>1. Tail(Contents) = [i \in 1 .. size - 1 |-> Tail(Contents)[i]]
    BY <1>3, LenProperties
  <2> QED
    BY <1>2, <1>4, <2>1
<1> QED
  BY <1>3, <1>5 DEF Queue!Take

\* The ring buffer of fifo.c implements the abstract queue: order kept, nothing
\* lost once accepted, nothing delivered twice.
THEOREM FifoIsQueue == Spec => RefinesQueue
<1>1. Init => Queue!Init
  BY DEF Init, Queue!Init, Contents
<1>2. TypeOK /\ RingInv /\ HeldInv /\ [Next]_vars => [Queue!Next]_Contents
  <2> SUFFICES ASSUME TypeOK, RingInv, HeldInv, [Next]_vars
               PROVE  Queue!Next \/ UNCHANGED Contents
    OBVIOUS
  <2>1. ASSUME NEW e \in Elements, fifo_add_msg(e) PROVE Queue!Next
    BY <2>1, AddAppends DEF Queue!Next
  <2>2. ASSUME NEW c \in Consumers, fifo_remove_msg(c) PROVE Queue!Next
    BY <2>2, RemoveTakes DEF Queue!Next
  <2>3. CASE UNCHANGED ring
    BY <2>3 DEF ring, Contents
  <2> QED
    BY <2>1, <2>2, <2>3
       DEF Next, Consume, fifo_add_msg_full, fifo_wait, SpuriousWakeup,
           fifo_remove_nothing, Handle, vars, ring
<1> QED
  BY <1>1, <1>2, TypeCorrect, RingCorrect, PTL DEF Spec, RefinesQueue, Queue!Spec
-----------------------------------------------------------------------------
(***************************************************************************)
(* The lists of memory cells.                                              *)
(***************************************************************************)
\* What detouch_mem_cell relies on and the lists alone do not say: no cell is
\* behind two others or behind none and one, and the first cell of a list has
\* nothing before it.
Once == /\ \A c, d \in Cells : next[c] = next[d] /\ next[c] # NULL => c = d
        /\ \A c \in Cells : next[c] # NULL => next[c] \notin {unused_head, used_head}
        /\ used_head # NULL => prev[used_head] = NULL
        /\ unused_head # NULL => prev[unused_head] = NULL

IInv == ListsAreThePool /\ Once

\* The cell behind each cell of S is in S, too.
Closed(f, S) == \A x \in S \ {NULL} : f[x] \in S

\* The links f and g of the cells of S are the same.
Same(f, g, S) == \A x \in S : g[x] = f[x]

\* Of the cells of S, c is behind p alone.
OnlyBefore(f, S, p, c) == f[p] = c /\ \A x \in S : f[x] = c => x = p

-----------------------------------------------------------------------------
\* A set of natural numbers with an element has a least one.
LEMMA LeastExists ==
    ASSUME NEW T \in SUBSET Nat, NEW e \in T
    PROVE  \E x \in T : \A y \in T : ~ (y < x)
<1> DEFINE R == OpToRel(<, Nat)
<1>1. IsWellFoundedOn(R, Nat)
  BY NatLessThanWellFounded DEF OpToRel
<1>2. PICK x \in T : \A y \in T : ~ (<<y, x>> \in R)
  BY <1>1, WFMin
<1> QED
  BY <1>2 DEF OpToRel

\* A link leads to a cell or ends the list.
LEMMA Ends == NULL \in Link /\ NULL \notin Cells /\ Cells \subseteq Link
BY NullAssumption, NCellsAssumption DEF Link, Cells

\* What is reached from h has h and is closed.
LEMMA ReachedIsClosed ==
    ASSUME NEW f \in [Cells -> Link], NEW h \in Link
    PROVE  h \in Reached(f, h) /\ Closed(f, Reached(f, h)) /\ Reached(f, h) \subseteq Link
<1>1. \A x \in Reached(f, h) \ {NULL} : f[x] \in Link
  BY DEF Reached, Link
<1> QED
  BY <1>1 DEF Reached, Closed

\* Nothing smaller is closed and has h.
LEMMA ReachedIsLeast ==
    ASSUME NEW f, NEW h, NEW S \in SUBSET Link, h \in S, Closed(f, S)
    PROVE  Reached(f, h) \subseteq S
BY DEF Reached, Closed

\* What is reached from h is the one closed set with h that every such set has.
LEMMA ReachedIs ==
    ASSUME NEW f, NEW h, NEW X \in SUBSET Link, h \in X, Closed(f, X),
           \A S \in SUBSET Link : h \in S /\ Closed(f, S) => X \subseteq S
    PROVE  Reached(f, h) = X
BY DEF Reached, Closed

-----------------------------------------------------------------------------
\* Putting a cell in front of a list puts it in front of what is reached.
LEMMA PutInFront ==
    ASSUME NEW f \in [Cells -> Link], NEW h \in Link, NEW X \in SUBSET Cells,
           Reached(f, h) = X \cup {NULL}, NEW c \in Cells, c \notin X,
           NEW g \in [Cells -> Link], g[c] = h, Same(f, g, X)
    PROVE  Reached(g, c) = X \cup {c, NULL}
<1>0. NULL \notin Cells /\ NULL \in Link /\ Cells \subseteq Link
  BY Ends
<1>1. h \in X \cup {NULL} /\ \A x \in X : f[x] \in X \cup {NULL}
  BY <1>0, ReachedIsClosed DEF Closed
<1>2. Closed(g, X \cup {c, NULL})
  BY <1>1 DEF Closed, Same
<1>3. ASSUME NEW S \in SUBSET Link, c \in S, Closed(g, S)
      PROVE  X \cup {c, NULL} \subseteq S
  <2> DEFINE T == S \cap (X \cup {NULL})
  <2>1. h \in S
    BY <1>0, <1>3 DEF Closed
  <2>2. ASSUME NEW x \in T \ {NULL} PROVE f[x] \in T
    BY <1>1, <1>3, <2>2 DEF Closed, Same
  <2>3. X \cup {NULL} \subseteq T
    BY <1>1, <2>1, <2>2, ReachedIsLeast DEF Closed
  <2> QED
    BY <1>3, <2>3
<1> QED
  BY <1>0, <1>2, <1>3, ReachedIs

\* Taking the first cell off a list takes it out of what is reached, if no cell
\* is behind itself.
LEMMA TakeFirst ==
    ASSUME NEW f \in [Cells -> Link], NEW h \in Cells, NEW X \in SUBSET Cells,
           Reached(f, h) = X \cup {NULL}, \A x \in X : f[x] # h,
           NEW g \in [Cells -> Link], Same(f, g, X \ {h})
    PROVE  h \in X /\ f[h] \in Link /\ Reached(g, f[h]) = (X \ {h}) \cup {NULL}
<1>0. NULL \notin Cells /\ NULL \in Link /\ Cells \subseteq Link
  BY Ends
<1>1. h \in X /\ \A x \in X : f[x] \in X \cup {NULL}
  BY <1>0, ReachedIsClosed DEF Closed
<1>2. f[h] \in (X \ {h}) \cup {NULL}
  BY <1>1
<1>3. Closed(g, (X \ {h}) \cup {NULL})
  BY <1>1 DEF Closed, Same
<1>4. ASSUME NEW S \in SUBSET Link, f[h] \in S, Closed(g, S)
      PROVE  (X \ {h}) \cup {NULL} \subseteq S
  <2> DEFINE T == (S \cap (X \cup {NULL})) \cup {h}
  <2>1. ASSUME NEW x \in T \ {NULL} PROVE f[x] \in T
    <3>1. CASE x = h
      BY <1>2, <1>4, <3>1
    <3>2. CASE x # h
      BY <1>1, <1>4, <2>1, <3>2 DEF Closed, Same
    <3> QED
      BY <3>1, <3>2
  <2>2. X \cup {NULL} \subseteq T
    <3>1. T \in SUBSET Link /\ h \in T
      BY <1>0
    <3>2. Closed(f, T)
      BY <2>1 DEF Closed
    <3> QED
      BY <3>1, <3>2, ReachedIsLeast
  <2> QED
    BY <1>0, <2>2
<1> QED
  BY <1>0, <1>1, <1>2, <1>3, <1>4, ReachedIs

\* A cell of a list other than its first is behind another of its cells.
LEMMA HasOneBefore ==
    ASSUME NEW f \in [Cells -> Link], NEW h \in Link, NEW X \in SUBSET Cells,
           Reached(f, h) = X \cup {NULL}, NEW c \in X, c # h
    PROVE  \E p \in X \ {c} : f[p] = c
<1>0. NULL \notin Cells /\ NULL \in Link /\ Cells \subseteq Link
  BY Ends
<1>1. h \in X \cup {NULL} /\ \A x \in X : f[x] \in X \cup {NULL}
  BY <1>0, ReachedIsClosed DEF Closed
<1> SUFFICES ASSUME \A p \in X \ {c} : f[p] # c PROVE FALSE
  OBVIOUS
<1> DEFINE T == (X \ {c}) \cup {NULL}
<1>2. T \in SUBSET Link /\ h \in T
  BY <1>0, <1>1
<1>3. Closed(f, T)
  BY <1>1 DEF Closed
<1>4. X \cup {NULL} \subseteq T
  BY <1>2, <1>3, ReachedIsLeast
<1> QED
  BY <1>0, <1>4

\* Linking the cell before c to the cell behind it takes c out of what is reached.
LEMMA Unlink ==
    ASSUME NEW f \in [Cells -> Link], NEW h \in Link, NEW X \in SUBSET Cells,
           Reached(f, h) = X \cup {NULL}, NEW c \in X, c # h,
           NEW p \in X \ {c}, OnlyBefore(f, X, p, c),
           NEW g \in [Cells -> Link], g[p] = f[c], Same(f, g, X \ {c, p})
    PROVE  Reached(g, h) = (X \ {c}) \cup {NULL}
<1>0. NULL \notin Cells /\ NULL \in Link /\ Cells \subseteq Link
  BY Ends
<1>1. h \in X \cup {NULL} /\ \A x \in X : f[x] \in X \cup {NULL}
  BY <1>0, ReachedIsClosed DEF Closed
<1>2. h \in (X \ {c}) \cup {NULL}
  BY <1>1
<1>3. Closed(g, (X \ {c}) \cup {NULL})
  BY <1>1 DEF Closed, OnlyBefore, Same
<1>4. ASSUME NEW S \in SUBSET Link, h \in S, Closed(g, S)
      PROVE  (X \ {c}) \cup {NULL} \subseteq S
  <2> DEFINE T == (S \cap ((X \ {c}) \cup {NULL})) \cup {x \in {c} : p \in S}
  <2>1. ASSUME NEW x \in T \ {NULL} PROVE f[x] \in T
    <3>1. CASE x = c
      <4>1. p \in S /\ f[c] \in S
        BY <1>0, <1>4, <2>1, <3>1 DEF Closed
      <4>2. f[c] \in (X \ {c}) \cup {NULL}
        BY <1>1 DEF OnlyBefore
      <4> QED
        BY <3>1, <4>1, <4>2
    <3>2. CASE x = p
      BY <2>1, <3>2 DEF OnlyBefore
    <3>3. CASE x \notin {c, p}
      <4>1. x \in X \ {c, p} /\ x \in S
        BY <2>1, <3>3
      <4>2. f[x] \in S /\ f[x] \in (X \ {c}) \cup {NULL}
        BY <1>0, <1>1, <1>4, <4>1 DEF Closed, OnlyBefore, Same
      <4> QED
        BY <4>2
    <3> QED
      BY <3>1, <3>2, <3>3
  <2>2. X \cup {NULL} \subseteq T
    <3>1. T \in SUBSET Link /\ h \in T
      BY <1>0, <1>2, <1>4
    <3>2. Closed(f, T)
      BY <2>1 DEF Closed
    <3> QED
      BY <3>1, <3>2, ReachedIsLeast
  <2> QED
    BY <1>0, <2>2
<1> QED
  BY <1>0, <1>2, <1>3, <1>4, ReachedIs
-----------------------------------------------------------------------------
\* What setting a link does.
LEMMA SetIs ==
    ASSUME NEW f \in [Cells -> Link], NEW c, NEW v \in Link
    PROVE  /\ Set(f, c, v) \in [Cells -> Link]
           /\ \A x \in Cells : Set(f, c, v)[x] = IF x = c THEN v ELSE f[x]
BY DEF Set

\* touch_mem_cell leaves two lists that have every cell once.
LEMMA TouchKeeps ==
    ASSUME IInv, touch_mem_cell
    PROVE  IInv' /\ unused_head \in Cells \ lent
<1> DEFINE r == unused_head
<1>0. /\ NULL \notin Cells /\ NULL \in Link /\ Cells \subseteq Link
      /\ next \in [Cells -> Link] /\ prev \in [Cells -> Link] /\ lent \subseteq Cells
      /\ used_head \in Link /\ r \in Cells
  BY Ends DEF IInv, ListsAreThePool, CellsTypeOK, touch_mem_cell, Link
<1>1. \A x \in Cells : next[x] # r
  BY <1>0 DEF IInv, Once
<1>2. /\ Reached(next, used_head) = lent \cup {NULL}
      /\ Reached(next, r) = (Cells \ lent) \cup {NULL}
  BY DEF IInv, ListsAreThePool
<1>3. /\ next' = Set(next, r, used_head)
      /\ prev' = Set(Set(prev, next[r], NULL), used_head, r)
      /\ unused_head' = next[r] /\ used_head' = r /\ lent' = lent \cup {r}
  BY DEF touch_mem_cell
<1>4. /\ next' \in [Cells -> Link]
      /\ \A x \in Cells : next'[x] = IF x = r THEN used_head ELSE next[x]
  BY <1>0, <1>3, SetIs
<1>5. /\ prev' \in [Cells -> Link]
      /\ \A x \in Cells : prev'[x] = IF x = used_head THEN r
                                     ELSE IF x = next[r] THEN NULL ELSE prev[x]
  <2>1. Set(prev, next[r], NULL) \in [Cells -> Link]
    BY <1>0, SetIs
  <2> QED
    BY <1>0, <1>3, <2>1, SetIs
<1>6. /\ r \in Cells \ lent /\ next[r] \in Link
      /\ Reached(next', next[r]) = ((Cells \ lent) \ {r}) \cup {NULL}
  <2> DEFINE X == Cells \ lent
  <2>1. X \in SUBSET Cells /\ Reached(next, r) = X \cup {NULL} /\ \A x \in X : next[x] # r
    BY <1>1, <1>2
  <2>2. Same(next, next', X \ {r})
    BY <1>4 DEF Same
  <2>3. r \in X /\ next[r] \in Link /\ Reached(next', next[r]) = (X \ {r}) \cup {NULL}
    <3> HIDE DEF X
    <3> QED
      BY <1>0, <1>4, <2>1, <2>2, TakeFirst
  <2> QED
    BY <2>3
<1>7. Reached(next', r) = lent \cup {r, NULL}
  <2>1. r \notin lent /\ next'[r] = used_head /\ Same(next, next', lent)
    BY <1>0, <1>4, <1>6 DEF Same
  <2> QED
    BY <1>0, <1>2, <1>4, <2>1, PutInFront
<1>8. used_head \in lent \cup {NULL}
  BY <1>0, <1>2, ReachedIsClosed
<1>9. next[r] \notin {r, used_head} \/ next[r] = NULL
  BY <1>0 DEF IInv, Once
<1>10. CellsTypeOK'
  BY <1>0, <1>3, <1>4, <1>5, <1>6 DEF CellsTypeOK
<1>11. /\ Reached(next, used_head)' = lent' \cup {NULL}
       /\ Reached(next, unused_head)' = (Cells \ lent') \cup {NULL}
  BY <1>3, <1>6, <1>7
<1>12. (\A c \in lent : next[c] # NULL => prev[next[c]] = c)'
  <2> SUFFICES ASSUME NEW c \in lent', next'[c] # NULL PROVE prev'[next'[c]] = c
    OBVIOUS
  <2>1. CASE c = r
    BY <1>0, <1>4, <1>5, <2>1 DEF Link
  <2>2. CASE c # r
    <3>1. c \in lent /\ next'[c] = next[c] /\ next[c] \in Cells
      BY <1>0, <1>3, <1>4, <2>2 DEF Link
    <3>2. prev[next[c]] = c /\ next[c] # used_head /\ next[c] # next[r]
      BY <1>0, <2>2, <3>1 DEF IInv, Once, ListsAreThePool
    <3> QED
      BY <1>5, <3>1, <3>2
  <2> QED
    BY <2>1, <2>2
<1>13. Once'
  <2>1. (\A c, d \in Cells : next[c] = next[d] /\ next[c] # NULL => c = d)'
    BY <1>0, <1>4 DEF IInv, Once
  <2>2. (\A c \in Cells : next[c] # NULL => next[c] \notin {unused_head, used_head})'
    BY <1>0, <1>1, <1>3, <1>4, <1>6, <1>8, <1>9 DEF IInv, Once
  <2>3. (used_head # NULL => prev[used_head] = NULL)'
    BY <1>0, <1>3, <1>5, <1>6, <1>8 DEF IInv, Once
  <2>4. (unused_head # NULL => prev[unused_head] = NULL)'
    <3>1. next[r] # NULL => next[r] \in Cells /\ next[r] # used_head
      BY <1>6, <1>9 DEF Link
    <3> QED
      BY <1>3, <1>5, <3>1
  <2> QED
    BY <2>1, <2>2, <2>3, <2>4 DEF Once
<1> QED
  BY <1>6, <1>10, <1>11, <1>12, <1>13 DEF IInv, ListsAreThePool

\* detouch_mem_cell leaves two lists that have every cell once.
LEMMA DetouchKeeps ==
    ASSUME IInv, NEW c \in Cells, detouch_mem_cell(c)
    PROVE  IInv'
<1> DEFINE n == next[c]
           p == prev[c]
           unlinked == IF used_head # c THEN Set(next, p, n) ELSE next
<1>0. /\ NULL \notin Cells /\ NULL \in Link /\ Cells \subseteq Link
      /\ next \in [Cells -> Link] /\ prev \in [Cells -> Link] /\ lent \subseteq Cells
      /\ used_head \in Link /\ unused_head \in Link /\ c \in lent
      /\ n \in Link /\ p \in Link
  BY Ends DEF IInv, ListsAreThePool, CellsTypeOK, detouch_mem_cell
<1>1. /\ Reached(next, used_head) = lent \cup {NULL}
      /\ Reached(next, unused_head) = (Cells \ lent) \cup {NULL}
  BY DEF IInv, ListsAreThePool
<1>2. /\ used_head' = IF used_head # c THEN used_head ELSE n
      /\ next' = Set(unlinked, c, unused_head)
      /\ prev' = Set(Set(Set(prev, n, p), unused_head, c), c, NULL)
      /\ unused_head' = c /\ lent' = lent \ {c}
  BY DEF detouch_mem_cell
<1>3. /\ unused_head \in (Cells \ lent) \cup {NULL} /\ used_head \in lent \cup {NULL}
      /\ \A x \in lent : next[x] \in lent \cup {NULL}
      /\ \A x \in Cells \ lent : next[x] \in (Cells \ lent) \cup {NULL}
  BY <1>0, <1>1, ReachedIsClosed DEF Closed
<1>4. used_head # c => p \in lent \ {c} /\ next[p] = c
  <2> SUFFICES ASSUME used_head # c PROVE p \in lent \ {c} /\ next[p] = c
    OBVIOUS
  <2>1. PICK b \in lent \ {c} : next[b] = c
    BY <1>0, <1>1, HasOneBefore
  <2>2. p = b
    BY <1>0, <2>1 DEF IInv, ListsAreThePool
  <2> QED
    BY <2>1, <2>2
<1>5. n # c /\ (n # NULL => n # used_head /\ n # unused_head)
  <2>1. n # NULL => n # used_head /\ n # unused_head
    BY <1>0 DEF IInv, Once
  <2>2. n # c
    BY <1>0, <1>4, <2>1 DEF IInv, Once
  <2> QED
    BY <2>1, <2>2
<1>6. \A x \in Cells : next[x] = c => x = p
  BY <1>0, <1>4 DEF IInv, Once
<1>7. used_head = c => p = NULL
  BY <1>0 DEF IInv, Once
<1>8. /\ next' \in [Cells -> Link]
      /\ \A x \in Cells : next'[x] = IF x = c THEN unused_head
                                     ELSE IF x = p THEN n ELSE next[x]
  <2>1. /\ unlinked \in [Cells -> Link]
        /\ \A x \in Cells : unlinked[x] = IF x = p THEN n ELSE next[x]
    BY <1>0, <1>4, <1>7, SetIs
  <2> QED
    BY <1>0, <1>2, <2>1, SetIs
<1>9. /\ prev' \in [Cells -> Link]
      /\ \A x \in Cells : prev'[x] = IF x = c THEN NULL ELSE IF x = unused_head THEN c
                                     ELSE IF x = n THEN p ELSE prev[x]
  <2> DEFINE q == Set(prev, n, p)
             s == Set(q, unused_head, c)
  <2>1. q \in [Cells -> Link] /\ \A x \in Cells : q[x] = IF x = n THEN p ELSE prev[x]
    BY <1>0, SetIs
  <2> HIDE DEF q
  <2>2. s \in [Cells -> Link] /\ \A x \in Cells : s[x] = IF x = unused_head THEN c ELSE q[x]
    BY <1>0, <2>1, SetIs
  <2>3. prev' = Set(s, c, NULL)
    BY <1>2 DEF q
  <2> HIDE DEF s
  <2> QED
    BY <1>0, <2>1, <2>2, <2>3, SetIs
<1>10. Reached(next', c) = (Cells \ lent) \cup {c, NULL}
  <2>1. next'[c] = unused_head /\ \A x \in Cells \ lent : next'[x] = next[x]
    BY <1>0, <1>4, <1>7, <1>8
  <2> DEFINE X == Cells \ lent
  <2>2. X \in SUBSET Cells /\ Reached(next, unused_head) = X \cup {NULL} /\ c \notin X
    BY <1>0, <1>1
  <2>3. Same(next, next', X)
    BY <2>1 DEF Same
  <2>4. Reached(next', c) = X \cup {c, NULL}
    <3> HIDE DEF X
    <3> QED
      BY <1>0, <1>8, <2>1, <2>2, <2>3, PutInFront
  <2> QED
    BY <2>4
<1>11. Reached(next', used_head') = (lent \ {c}) \cup {NULL}
  <2>1. CASE used_head # c
    <3>1. used_head' = used_head /\ p \in lent \ {c} /\ next[p] = c /\ p \in Cells
      BY <1>0, <1>2, <1>4, <2>1
    <3>2. next'[p] = n /\ Same(next, next', lent \ {c, p})
      BY <1>0, <1>8, <3>1 DEF Same
    <3>3. OnlyBefore(next, lent, p, c)
      BY <1>0, <1>6, <3>1 DEF OnlyBefore
    <3>4. Reached(next', used_head) = (lent \ {c}) \cup {NULL}
      <4> HIDE DEF p
      <4> QED
        BY <1>0, <1>1, <1>8, <2>1, <3>1, <3>2, <3>3, Unlink
    <3> QED
      BY <3>1, <3>4
  <2>2. CASE used_head = c
    <3>1. \A x \in lent : next[x] # c
      BY <1>0, <1>6, <1>7, <2>2
    <3>2. Same(next, next', lent \ {c})
      BY <1>0, <1>7, <1>8, <2>2 DEF Same
    <3> QED
      BY <1>0, <1>1, <1>2, <1>8, <2>2, <3>1, <3>2, TakeFirst
  <2> QED
    BY <2>1, <2>2
<1>12. CellsTypeOK'
  BY <1>0, <1>2, <1>8, <1>9 DEF CellsTypeOK
<1>13. /\ Reached(next, used_head)' = lent' \cup {NULL}
       /\ Reached(next, unused_head)' = (Cells \ lent') \cup {NULL}
  BY <1>0, <1>2, <1>10, <1>11
<1>14. (\A x \in lent : next[x] # NULL => prev[next[x]] = x)'
  <2> SUFFICES ASSUME NEW x \in lent', next'[x] # NULL PROVE prev'[next'[x]] = x
    OBVIOUS
  <2>0. x \in lent \ {c}
    BY <1>2
  <2>1. CASE x = p
    <3>1. next'[x] = n /\ n \in Cells
      BY <1>0, <1>8, <2>0, <2>1 DEF Link
    <3> QED
      BY <1>5, <1>9, <2>1, <3>1
  <2>2. CASE x # p
    <3>1. next'[x] = next[x] /\ next[x] \in lent
      BY <1>0, <1>3, <1>8, <2>0, <2>2
    <3>2. next[x] # c /\ next[x] # n /\ next[x] # unused_head /\ prev[next[x]] = x
      BY <1>0, <1>3, <1>6, <2>0, <2>2, <3>1 DEF IInv, Once, ListsAreThePool
    <3> QED
      BY <1>0, <1>9, <3>1, <3>2
  <2> QED
    BY <2>1, <2>2
<1>15. Once'
  <2>1. (\A x, y \in Cells : next[x] = next[y] /\ next[x] # NULL => x = y)'
    <3> SUFFICES ASSUME NEW x \in Cells, NEW y \in Cells,
                        next'[x] = next'[y], next'[x] # NULL
                 PROVE  x = y
      OBVIOUS
    <3>1. \A z \in Cells \ {c} : next'[z] # NULL => next'[z] # unused_head
      BY <1>0, <1>5, <1>8 DEF IInv, Once
    <3>2. CASE x # c /\ y # c
      <4>1. \A z \in Cells \ {c} : next'[z] = IF z = p THEN next[c] ELSE next[z]
        BY <1>8
      <4> QED
        BY <1>0, <3>2, <4>1 DEF IInv, Once
    <3> QED
      BY <1>8, <3>1, <3>2
  <2>2. (\A x \in Cells : next[x] # NULL => next[x] \notin {unused_head, used_head})'
    <3> SUFFICES ASSUME NEW x \in Cells, next'[x] # NULL
                 PROVE  next'[x] # c /\ next'[x] # used_head'
      BY <1>2
    <3>1. next'[x] # c
      BY <1>0, <1>3, <1>5, <1>6, <1>8
    <3>2. CASE used_head # c
      <4>1. used_head' = used_head
        BY <1>2, <3>2
      <4>2. CASE x = c
        BY <1>0, <1>3, <1>8, <4>1, <4>2
      <4>3. CASE x # c
        BY <1>0, <1>5, <1>8, <3>1, <4>1, <4>3 DEF IInv, Once
      <4> QED
        BY <4>2, <4>3
    <3>3. CASE used_head = c
      <4>1. used_head' = n /\ p = NULL
        BY <1>2, <1>7, <3>3
      <4>2. CASE x = c
        BY <1>0, <1>3, <1>8, <3>1, <3>3, <4>1, <4>2
      <4>3. CASE x # c
        BY <1>0, <1>8, <3>1, <4>1, <4>3 DEF IInv, Once
      <4> QED
        BY <4>2, <4>3
    <3> QED
      BY <3>1, <3>2, <3>3
  <2>3. (used_head # NULL => prev[used_head] = NULL)'
    <3>1. CASE used_head # c
      <4>1. used_head' = used_head
        BY <1>2, <3>1
      <4>2. used_head # NULL => used_head \in Cells /\ used_head # unused_head /\ used_head # n
        BY <1>0, <1>3, <1>5
      <4> QED
        BY <1>9, <3>1, <4>1, <4>2 DEF IInv, Once
    <3>2. CASE used_head = c
      <4>1. used_head' = n /\ p = NULL
        BY <1>2, <1>7, <3>2
      <4>2. n # NULL => n \in Cells /\ n # c /\ n # unused_head
        BY <1>0, <1>5 DEF Link
      <4> QED
        BY <1>9, <4>1, <4>2
    <3> QED
      BY <3>1, <3>2
  <2>4. (unused_head # NULL => prev[unused_head] = NULL)'
    BY <1>2, <1>9
  <2> QED
    BY <2>1, <2>2, <2>3, <2>4 DEF Once
<1> QED
  BY <1>12, <1>13, <1>14, <1>15 DEF IInv, ListsAreThePool
-----------------------------------------------------------------------------
\* The cells as create_backend links them are one list, from the last to the first.
LEMMA AllLinked ==
    ASSUME NEW S \in SUBSET Link, NCells \in S,
           Closed([c \in Cells |-> IF c = 1 THEN NULL ELSE c - 1], S)
    PROVE  Cells \cup {NULL} \subseteq S
<1>0. NCells \in Nat /\ NCells > 0 /\ Cells = 1 .. NCells /\ NULL \notin Cells
  BY NCellsAssumption, Ends DEF Cells
<1>1. \A c \in Cells : c \in S => IF c = 1 THEN NULL \in S ELSE c - 1 \in S
  <2> SUFFICES ASSUME NEW c \in Cells, c \in S
               PROVE  IF c = 1 THEN NULL \in S ELSE c - 1 \in S
    OBVIOUS
  <2>1. [x \in Cells |-> IF x = 1 THEN NULL ELSE x - 1][c] \in S
    BY <1>0 DEF Closed
  <2> QED
    BY <2>1
<1>2. Cells \subseteq S
  <2> SUFFICES ASSUME NEW c \in Cells, c \notin S PROVE FALSE
    OBVIOUS
  <2> DEFINE T == {d \in Nat : NCells - d \in Cells /\ NCells - d \notin S}
  <2>1. T \in SUBSET Nat /\ NCells - c \in T
    BY <1>0
  <2>2. PICK d \in T : \A e \in T : ~ (e < d)
    BY <2>1, LeastExists
  <2>3. d \in Nat /\ NCells - d \in Cells /\ NCells - d \notin S /\ d # 0
    BY <1>0, <2>2
  <2>4. d - 1 \in Nat /\ d - 1 < d /\ NCells - (d - 1) \in Cells /\ NCells - (d - 1) # 1
        /\ (NCells - (d - 1)) - 1 = NCells - d
    BY <1>0, <2>3
  <2>5. NCells - (d - 1) \in S
    BY <2>2, <2>4
  <2> QED
    BY <1>1, <2>3, <2>4, <2>5
<1>3. NULL \in S
  <2>1. 1 \in Cells
    BY <1>0
  <2> QED
    BY <1>1, <1>2, <2>1
<1> QED
  BY <1>2, <1>3

\* The pool as create_backend leaves it.
LEMMA InitLists == CellsInit => IInv
<1> SUFFICES ASSUME CellsInit PROVE IInv
  OBVIOUS
<1>0. /\ NCells \in Nat /\ NCells > 0 /\ Cells = 1 .. NCells
      /\ NULL \notin Cells /\ NULL \in Link /\ Cells \subseteq Link
  BY NCellsAssumption, Ends DEF Cells
<1>1. /\ unused_head = NCells /\ used_head = NULL /\ lent = {}
      /\ next = [c \in Cells |-> IF c = 1 THEN NULL ELSE c - 1]
      /\ prev = [c \in Cells |-> NULL]
  BY DEF CellsInit
<1>2. \A c \in Cells : IF c = 1 THEN next[c] = NULL
                       ELSE next[c] = c - 1 /\ next[c] \in Cells
  <2>1. \A c \in Cells : c # 1 => c - 1 \in Cells
    BY <1>0
  <2> QED
    BY <1>1, <2>1
<1>3. next \in [Cells -> Link] /\ prev \in [Cells -> Link] /\ NCells \in Cells
  <2>1. \A c \in Cells : next[c] \in Link
    BY <1>0, <1>2
  <2>2. NCells \in Cells
    BY <1>0
  <2> QED
    BY <1>0, <1>1, <2>1, <2>2
<1>4. CellsTypeOK
  BY <1>0, <1>1, <1>3 DEF CellsTypeOK
<1>5. Reached(next, used_head) = lent \cup {NULL}
  <2>1. Closed(next, {NULL})
    BY DEF Closed
  <2>2. {NULL} \in SUBSET Link /\ \A S \in SUBSET Link : NULL \in S => {NULL} \subseteq S
    BY <1>0
  <2>3. Reached(next, NULL) = {NULL}
    BY <2>1, <2>2, ReachedIs
  <2> QED
    BY <1>1, <2>3
<1>6. Reached(next, unused_head) = (Cells \ lent) \cup {NULL}
  <2>1. Closed(next, Cells \cup {NULL})
    BY <1>2 DEF Closed
  <2>2. \A S \in SUBSET Link : NCells \in S /\ Closed(next, S) => Cells \cup {NULL} \subseteq S
    BY <1>1, AllLinked
  <2>3. Reached(next, NCells) = Cells \cup {NULL}
    BY <1>0, <1>3, <2>1, <2>2, ReachedIs
  <2> QED
    BY <1>1, <2>3
<1>7. Once
  <2>1. \A c, d \in Cells : next[c] = next[d] /\ next[c] # NULL => c = d
    BY <1>0, <1>2
  <2>2. \A c \in Cells : next[c] # NULL => next[c] \notin {unused_head, used_head}
    BY <1>0, <1>1, <1>2
  <2> QED
    BY <1>1, <1>3, <2>1, <2>2 DEF Once
<1> QED
  BY <1>1, <1>4, <1>5, <1>6, <1>7 DEF IInv, ListsAreThePool

\* A step on the pool leaves the two lists whole, whatever cell it moves.
LEMMA StepLists == IInv /\ [CellsNext]_cellVars => IInv'
<1> SUFFICES ASSUME IInv, [CellsNext]_cellVars PROVE IInv'
  OBVIOUS
<1>1. CASE touch_mem_cell
  BY <1>1, TouchKeeps
<1>2. ASSUME NEW c \in Cells, detouch_mem_cell(c) PROVE IInv'
  BY <1>2, DetouchKeeps
<1>3. CASE UNCHANGED cellVars
  BY <1>3 DEF cellVars, IInv, ListsAreThePool, CellsTypeOK, Once
<1> QED
  BY <1>1, <1>2, <1>3 DEF CellsNext, touch_mem_cell_empty

\* After any calls of touch_mem_cell and detouch_mem_cell the lists are whole and
\* no cell is behind two others.
THEOREM ListsInductive == CellsSpec => []IInv
<1> QED
  BY InitLists, StepLists, PTL DEF CellsSpec

\* The used list has the cells that were lent, linked both ways, the unused list
\* all others: no cell is lost, lent twice or in both.
THEOREM TheListsAreThePool == CellsSpec => []ListsAreThePool
<1>1. IInv => ListsAreThePool
  BY DEF IInv
<1> QED
  BY <1>1, ListsInductive, PTL

\* Moving cells between the lists is taking a cell from a set and putting it back.
THEOREM ListsImplementThePool == CellsSpec => RefinesCellPool
<1>1. CellsInit => Pool!Init
  <2> SUFFICES ASSUME CellsInit PROVE Pool!Init
    OBVIOUS
  <2>1. IInv /\ lent = {} /\ NULL \notin Cells
    BY InitLists, Ends DEF CellsInit
  <2> QED
    BY <2>1 DEF Pool!Init, IInv, ListsAreThePool
<1>2. IInv /\ IInv' /\ [CellsNext]_cellVars =>
          [Pool!Touch \/ Pool!Detouch]_<<Reached(next, unused_head) \ {NULL}, lent>>
  <2> SUFFICES ASSUME IInv, IInv', [CellsNext]_cellVars
               PROVE  \/ Pool!Touch \/ Pool!Detouch
                      \/ UNCHANGED <<Reached(next, unused_head) \ {NULL}, lent>>
    OBVIOUS
  <2>1. /\ Reached(next, unused_head) \ {NULL} = Cells \ lent
        /\ (Reached(next, unused_head) \ {NULL})' = Cells \ lent'
        /\ lent \subseteq Cells
    BY Ends DEF IInv, ListsAreThePool, CellsTypeOK
  <2>2. CASE touch_mem_cell
    <3>1. unused_head \in Cells \ lent /\ lent' = lent \cup {unused_head}
      BY <2>2, TouchKeeps DEF touch_mem_cell
    <3> QED
      BY <2>1, <3>1 DEF Pool!Touch
  <2>3. ASSUME NEW c \in Cells, detouch_mem_cell(c) PROVE Pool!Detouch
    <3>1. c \in lent /\ lent' = lent \ {c}
      BY <2>3 DEF detouch_mem_cell
    <3> QED
      BY <2>1, <3>1 DEF Pool!Detouch
  <2>4. CASE UNCHANGED cellVars
    BY <2>4 DEF cellVars
  <2> QED
    BY <2>2, <2>3, <2>4 DEF CellsNext, touch_mem_cell_empty
<1> QED
  BY <1>1, <1>2, ListsInductive, PTL DEF CellsSpec, RefinesCellPool, Pool!Spec
=============================================================================
