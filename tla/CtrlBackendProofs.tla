---------------------------- MODULE CtrlBackendProofs ----------------------------
(***************************************************************************)
(* Proofs about the switch's end of the connection to the controller, for  *)
(* any number of cells that fits the queues, any number of lcores and any  *)
(* number of messages and digests: who has which cell, that none is lost   *)
(* but to a failed read, and that messages and digests arrive in order.    *)
(***************************************************************************)
EXTENDS CtrlBackend, TLAPS, FiniteSetTheorems, SequenceTheorems

-----------------------------------------------------------------------------
\* The inductive invariant: where each thread is and what it then has.

Idle == /\ rpc = "off" /\ ipc = "off" /\ opc = "off"
        /\ icell = None /\ ocell = None
        /\ sent = 0 /\ wire = <<>> /\ handled = <<>> /\ delivered = <<>>
        /\ input_queue = <<>>

ControlInv ==
    /\ main = "launch" => /\ conn = "none" /\ ~shutdown /\ ~initialized /\ sock_open
                          /\ output_queue = <<>> /\ digests = <<>>
                          /\ \A l \in Lcores : dig[l] = None
    /\ main = "waiting" => conn # "none" /\ ~shutdown
    /\ conn = "none" => Idle
    /\ rcell = None <=> rpc \in {"off", "select", "touch"}
    /\ ipc \in {"handle", "detouch"} => icell # None
    /\ ipc = "wait" => icell = None
    /\ ipc = "off" => conn = "none" \/ shutdown
    /\ opc \in {"write", "detouch"} => ocell # None
    /\ opc = "wait" => ocell = None
    /\ opc = "off" => conn = "none" \/ shutdown
    /\ ~sock_open => rpc = "off" /\ (shutdown \/ conn = "eof")
    /\ main = "running" /\ conn # "none" => initialized
    /\ initialized => Len(handled) >= InitMsg

\* The cells in a queue, and those of the digests being made.
Queued(q) == {q[i] : i \in DOMAIN q}
InDigests == {dig[l] : l \in Lcores} \ {None}
InHands == {rcell, icell, ocell} \ {None}

\* No cell is twice in a queue, or in the digests of two lcores, or in two hands.
Once(q) == \A i, j \in DOMAIN q : q[i] = q[j] => i = j
OnceEach == /\ Once(input_queue) /\ Once(output_queue)
            /\ \A l, m \in Lcores : dig[l] = dig[m] /\ dig[l] # None => l = m
            /\ rcell # None => rcell # icell /\ rcell # ocell
            /\ icell # None => icell # ocell

\* And the places where a cell may be have no cell in common.
Apart ==
    /\ \A c \in free : /\ c \notin Queued(input_queue) /\ c \notin Queued(output_queue)
                       /\ c \notin InDigests /\ c \notin InHands
    /\ \A c \in Queued(input_queue) : /\ c \notin Queued(output_queue)
                                      /\ c \notin InDigests /\ c \notin InHands
    /\ \A c \in Queued(output_queue) : c \notin InDigests /\ c \notin InHands
    /\ \A c \in InDigests : c \notin InHands

\* The cells that are nowhere: at most one for each failed read so far.
Leaked == {c \in Cells : /\ c \notin free
                         /\ c \notin Queued(input_queue) /\ c \notin Queued(output_queue)
                         /\ c \notin InDigests /\ c \notin InHands}
LeakInv == /\ conn # "eof" => Leaked = {}
           /\ conn = "eof" /\ rpc # "off" => \A x, y \in Leaked : x = y
           /\ conn = "eof" => \A x, y, z \in Leaked : x = y \/ y = z \/ x = z

IInv == TypeOK /\ ControlInv /\ OnceEach /\ Apart

-----------------------------------------------------------------------------
\* The messages are numbered as the controller sent them.  Those handled, the one
\* in the hand of input_processor, those in the queue, the one the reader has read
\* and those on the wire follow one another: how many are before the queue, before
\* the cell of the reader and before the wire.
Handling == IF ipc = "handle" THEN 1 ELSE 0
Reading == IF rpc = "add" THEN 1 ELSE 0
Taken == Len(handled) + Handling
Accepted == Taken + Len(input_queue)
Read == Accepted + Reading

MessageInv ==
    /\ Len(handled) <= sent
    /\ \A i \in 1 .. Len(handled) : handled[i] = i
    /\ ipc # "off" =>
          /\ ipc = "handle" => data[icell] = Taken
          /\ \A i \in 1 .. Len(input_queue) : data[input_queue[i]] = Taken + i
          /\ rpc = "add" => data[rcell] = Read
          /\ \A i \in 1 .. Len(wire) : wire[i] = Read + i
          /\ Read + Len(wire) <= sent
          /\ conn = "up" => Read + Len(wire) = sent

\* The digests in the order of send_digest, as long as all of them are written.
Writing == IF opc = "write" THEN 1 ELSE 0
Written == Len(delivered) + Writing

DigestInv ==
    /\ Len(delivered) <= Len(digests)
    /\ \A i \in 1 .. Len(delivered) : delivered[i] = digests[i]
    /\ conn = "up" /\ sock_open /\ opc # "off" =>
          /\ opc = "write" => data[ocell] = digests[Written]
          /\ \A i \in 1 .. Len(output_queue) :
                data[output_queue[i]] = digests[Written + i]
          /\ Written + Len(output_queue) = Len(digests)
-----------------------------------------------------------------------------
\* Facts about queues of cells.

\* What fifo_add_msg does to a queue with room for the cell.
LEMMA QueueAppend ==
    ASSUME NEW q \in Seq(Cells), NEW c \in Cells
    PROVE  /\ Append(q, c) \in Seq(Cells)
           /\ Len(Append(q, c)) = Len(q) + 1
           /\ \A i \in 1 .. Len(q) : Append(q, c)[i] = q[i]
           /\ Append(q, c)[Len(q) + 1] = c
           /\ Queued(Append(q, c)) = Queued(q) \cup {c}
           /\ Once(q) /\ c \notin Queued(q) => Once(Append(q, c))
<1> DEFINE a == Append(q, c)
<1>1. /\ a \in Seq(Cells) /\ Len(a) = Len(q) + 1 /\ Len(q) \in Nat
      /\ \A i \in 1 .. Len(q) : a[i] = q[i]
      /\ a[Len(q) + 1] = c
      /\ DOMAIN a = 1 .. Len(q) + 1 /\ DOMAIN q = 1 .. Len(q)
  OBVIOUS
<1> HIDE DEF a
<1>2. \A i \in DOMAIN a : i \in 1 .. Len(q) \/ i = Len(q) + 1
  BY <1>1
<1>3. \A i \in DOMAIN q : i \in DOMAIN a
  BY <1>1
<1>4. Len(q) + 1 \in DOMAIN a
  BY <1>1
<1>5. Queued(a) = Queued(q) \cup {c}
  BY <1>1, <1>2, <1>3, <1>4, Zenon DEF Queued
<1>6. ASSUME Once(q), c \notin Queued(q) PROVE Once(a)
  BY <1>1, <1>2, <1>6 DEF Once, Queued
<1> QED
  BY <1>1, <1>5, <1>6 DEF a

\* What fifo_remove_msg does to a queue that is not empty.
LEMMA QueueTail ==
    ASSUME NEW q \in Seq(Cells), q # <<>>
    PROVE  /\ Tail(q) \in Seq(Cells) /\ Head(q) \in Cells /\ Head(q) = q[1]
           /\ Len(q) = Len(Tail(q)) + 1
           /\ \A i \in 1 .. Len(Tail(q)) : i + 1 \in 1 .. Len(q) /\ Tail(q)[i] = q[i + 1]
           /\ Head(q) \in Queued(q)
           /\ Once(q) => Once(Tail(q)) /\ Queued(Tail(q)) = Queued(q) \ {Head(q)}
<1> DEFINE t == Tail(q)
<1>1. /\ t \in Seq(Cells) /\ Len(q) = Len(t) + 1 /\ Len(t) \in Nat
      /\ \A i \in 1 .. Len(t) : i + 1 \in 1 .. Len(q) /\ t[i] = q[i + 1]
      /\ Head(q) = q[1] /\ Head(q) \in Cells
      /\ DOMAIN t = 1 .. Len(t) /\ DOMAIN q = 1 .. Len(q)
  OBVIOUS
<1> HIDE DEF t
<1>2. \A j \in DOMAIN q : j = 1 \/ (j - 1 \in DOMAIN t /\ q[j] = t[j - 1])
  <2> SUFFICES ASSUME NEW j \in DOMAIN q, j # 1
               PROVE  j - 1 \in DOMAIN t /\ q[j] = t[j - 1]
    OBVIOUS
  <2>1. j - 1 \in 1 .. Len(t) /\ (j - 1) + 1 = j
    BY <1>1
  <2> QED
    BY <1>1, <2>1
<1>3. 1 \in DOMAIN q
  BY <1>1
<1>4. ASSUME Once(q) PROVE Once(t) /\ Queued(t) = Queued(q) \ {Head(q)}
  <2>1. Once(t)
    BY <1>1, <1>4 DEF Once
  <2>2. Queued(t) \subseteq Queued(q) \ {Head(q)}
    BY <1>1, <1>3, <1>4 DEF Once, Queued
  <2>3. Queued(q) \ {Head(q)} \subseteq Queued(t)
    BY <1>1, <1>2 DEF Queued
  <2> QED
    BY <2>1, <2>2, <2>3
<1> QED
  BY <1>1, <1>3, <1>4 DEF t, Queued

\* A queue that holds no cell twice and not this one has room for it, as there
\* are no more cells than places: fifo_add_msg never drops one.
LEMMA QueueHasRoom ==
    ASSUME NEW q \in Seq(Cells), NEW c \in Cells, Once(q), c \notin Queued(q)
    PROVE  Added(q, c) = Append(q, c)
<1> DEFINE S == 1 .. Len(q)
           T == Cells \ {c}
<1>1. IsFiniteSet(T) /\ Cardinality(T) = Cardinality(Cells) - 1
  BY CellsAssumption, FS_RemoveElement
<1>2. IsFiniteSet(S) /\ Cardinality(S) = Len(q)
  BY FS_Interval, Len(q) \in Nat
<1>3. q \in Injection(S, T)
  BY DEF Once, Queued, Injection, IsInjective
<1>4. Cardinality(S) <= Cardinality(T)
  BY <1>1, <1>2, <1>3, FS_Injection DEF ExistsInjection
<1>5. Cardinality(Cells) \in Nat /\ QSize \in Nat
  BY CellsAssumption, PoolFitsQueue, FS_CardinalityType
<1> QED
  BY <1>1, <1>2, <1>4, <1>5, PoolFitsQueue, Len(q) \in Nat DEF Added
-----------------------------------------------------------------------------
\* The reader adds its cell to the input queue, which has room for it.
LEMMA AddsToInput ==
    ASSUME IInv, ReaderAdds
    PROVE  /\ rcell \in Cells /\ rcell \notin Queued(input_queue)
           /\ input_queue' = Append(input_queue, rcell)
<1>1. rcell \in Cells /\ rcell \in InHands
  BY DEF IInv, TypeOK, ControlInv, MaybeCell, ReaderAdds, InHands
<1>2. input_queue \in Seq(Cells) /\ Once(input_queue) /\ rcell \notin Queued(input_queue)
  BY <1>1 DEF IInv, TypeOK, OnceEach, Apart
<1> QED
  BY <1>1, <1>2, QueueHasRoom DEF ReaderAdds

\* send_digest adds the cell of the digest to the output queue, which has room.
LEMMA AddsToOutput ==
    ASSUME IInv, NEW l \in Lcores, send_digest(l)
    PROVE  /\ dig[l] \in Cells /\ dig[l] \notin Queued(output_queue)
           /\ output_queue' = Append(output_queue, dig[l])
<1>1. dig[l] \in Cells /\ dig[l] \in InDigests
  BY DEF IInv, TypeOK, MaybeCell, send_digest, InDigests
<1>2. output_queue \in Seq(Cells) /\ Once(output_queue) /\ dig[l] \notin Queued(output_queue)
  BY <1>1 DEF IInv, TypeOK, OnceEach, Apart
<1> QED
  BY <1>1, <1>2, QueueHasRoom DEF send_digest

\* Every step of the program, and of the controller, keeps the types.
LEMMA TypeStep ==
    ASSUME IInv, [Next]_vars
    PROVE  TypeOK'
<1>0. TypeOK /\ ControlInv
  BY DEF IInv
<1> USE <1>0 DEF TypeOK, MaybeCell, net, ctl, pool, reader, input, output, lcores
<1>1. CASE Next
  <2>1. CASE LaunchConnects
    BY <2>1 DEF LaunchConnects
  <2>2. CASE LaunchFails
    BY <2>2 DEF LaunchFails
  <2>3. CASE LaunchReturns
    BY <2>3 DEF LaunchReturns
  <2>4. CASE stop_backend
    BY <2>4 DEF stop_backend
  <2>5. CASE EndOfProcess
    BY <2>5 DEF EndOfProcess
  <2>6. CASE ControllerSends
    <3>1. sent' \in 0 .. MaxMsgs /\ wire' \in Seq(Nat)
      BY <2>6, BoundsAssumption DEF ControllerSends
    <3> QED
      BY <2>6, <3>1 DEF ControllerSends
  <2>7. CASE ConnectionEnds
    <3>1. <<>> \in Seq(Nat)
      BY EmptySeq
    <3>2. wire' \in Seq(Nat)
      BY <2>7, <3>1 DEF ConnectionEnds
    <3> QED
      BY <2>7, <3>2 DEF ConnectionEnds
  <2>8. CASE ReaderSelect
    BY <2>8 DEF ReaderSelect
  <2>9. CASE ReaderTouch
    BY <2>9 DEF ReaderTouch
  <2>10. CASE ReaderReads
    <3>1. wire' \in Seq(Nat) /\ Head(wire) \in Nat
      BY <2>10, HeadTailProperties DEF ReaderReads
    <3>2. data' \in [Cells -> Nat]
      BY <2>10, <3>1 DEF ReaderReads
    <3>3. rpc' \in {"off", "select", "touch", "read", "add"}
      BY <2>10 DEF ReaderReads
    <3>4. UNCHANGED <<conn, sent, sock_open, ctl, free, input_queue, output_queue,
                      rcell, input, output, lcores, handled, delivered>>
      BY <2>10 DEF ReaderReads
    <3> QED
      BY <3>1, <3>2, <3>3, <3>4, SMTT(30)
  <2>11. CASE ReaderAdds
    <3>1. rcell \in Cells /\ input_queue' = Append(input_queue, rcell)
      BY <2>11, AddsToInput
    <3>2. input_queue' \in Seq(Cells)
      BY <3>1, QueueAppend
    <3> QED
      BY <2>11, <3>2 DEF ReaderAdds
  <2>12. CASE ReaderError
    BY <2>12 DEF ReaderError
  <2>13. CASE ReaderEOF
    <3>1. sock_open' \in BOOLEAN /\ rpc' = "off" /\ rcell' = None
      BY <2>13 DEF ReaderEOF
    <3>2. UNCHANGED <<conn, wire, sent, ctl, pool, input_queue, output_queue,
                      input, output, lcores, handled, delivered>>
      BY <2>13 DEF ReaderEOF
    <3> QED
      BY <3>1, <3>2
  <2>14. CASE ReaderStops
    <3>1. rpc' = "off" /\ sock_open' = FALSE
      BY <2>14 DEF ReaderStops
    <3>2. UNCHANGED <<conn, wire, sent, ctl, pool, input_queue, output_queue,
                      rcell, input, output, lcores, handled, delivered>>
      BY <2>14 DEF ReaderStops
    <3>3. sock_open' \in BOOLEAN
      BY <3>1
    <3> QED
      BY <3>1, <3>2, <3>3
  <2>15. CASE InputRemoves
    <3>1. input_queue # <<>> /\ input_queue' = Tail(input_queue) /\ icell' = Head(input_queue)
      BY <2>15 DEF InputRemoves
    <3>2. input_queue' \in Seq(Cells) /\ icell' \in Cells
      BY <3>1, QueueTail
    <3>3. ipc' \in {"off", "handle"}
      BY <2>15 DEF InputRemoves
    <3>4. UNCHANGED <<net, ctl, pool, output_queue, reader, output, lcores, handled, delivered>>
      BY <2>15 DEF InputRemoves
    <3> QED
      BY <3>2, <3>3, <3>4
  <2>16. CASE InputHandles
    BY <2>16 DEF InputHandles, ControlInv
  <2>17. CASE InputDetouches
    BY <2>17 DEF InputDetouches, ControlInv
  <2>18. CASE OutputRemoves
    <3>1. output_queue # <<>> /\ output_queue' = Tail(output_queue) /\ ocell' = Head(output_queue)
      BY <2>18 DEF OutputRemoves
    <3>2. output_queue' \in Seq(Cells) /\ ocell' \in Cells
      BY <3>1, QueueTail
    <3>3. opc' \in {"off", "write"}
      BY <2>18 DEF OutputRemoves
    <3>4. UNCHANGED <<net, ctl, pool, input_queue, reader, input, lcores, handled, delivered>>
      BY <2>18 DEF OutputRemoves
    <3> QED
      BY <3>2, <3>3, <3>4
  <2>19. CASE OutputWrites
    BY <2>19 DEF OutputWrites, ControlInv
  <2>20. CASE OutputKilled
    BY <2>20 DEF OutputKilled
  <2>21. CASE OutputDetouches
    BY <2>21 DEF OutputDetouches, ControlInv
  <2>22. ASSUME NEW l \in Lcores, create_digest(l) PROVE TypeOK'
    BY <2>22, BoundsAssumption DEF create_digest
  <2>23. ASSUME NEW l \in Lcores, create_digest_fails(l) PROVE TypeOK'
    BY <2>23 DEF create_digest_fails
  <2>24. ASSUME NEW l \in Lcores, send_digest(l) PROVE TypeOK'
    <3>0. dig[l] \in Cells /\ output_queue' = Append(output_queue, dig[l])
      BY <2>24, AddsToOutput
    <3>1. output_queue' \in Seq(Cells)
      BY <3>0, QueueAppend
    <3>2. digests' \in Seq(Nat) /\ dig' \in [Lcores -> MaybeCell]
      BY <2>24, <3>0 DEF send_digest
    <3> QED
      BY <2>24, <3>1, <3>2 DEF send_digest
  <2> QED
    BY <1>1, <2>1, <2>2, <2>3, <2>4, <2>5, <2>6, <2>7, <2>8, <2>9, <2>10, <2>11, <2>12,
       <2>13, <2>14, <2>15, <2>16, <2>17, <2>18, <2>19, <2>20, <2>21, <2>22, <2>23, <2>24
       DEF Next, Switch, backend_processor, input_processor, output_processor
<1>2. CASE UNCHANGED vars
  BY <1>2 DEF vars
<1> QED
  BY <1>1, <1>2
\* Every step keeps what each thread has and knows at each of its points.
LEMMA ControlStep ==
    ASSUME IInv, MessageInv, [Next]_vars
    PROVE  ControlInv'
<1>0. TypeOK /\ ControlInv
  BY DEF IInv
<1> USE <1>0, CellsAssumption, InitMsgAssumption
        DEF TypeOK, ControlInv, Idle, MaybeCell, net, ctl, pool, reader, input, output, lcores
<1>1. CASE Next
  <2>1. CASE LaunchConnects
    BY <2>1 DEF LaunchConnects
  <2>2. CASE LaunchFails
    BY <2>2 DEF LaunchFails
  <2>3. CASE LaunchReturns
    BY <2>3 DEF LaunchReturns
  <2>4. CASE stop_backend
    BY <2>4 DEF stop_backend
  <2>5. CASE EndOfProcess
    BY <2>5 DEF EndOfProcess
  <2>6. CASE ControllerSends
    BY <2>6 DEF ControllerSends
  <2>7. CASE ConnectionEnds
    BY <2>7 DEF ConnectionEnds
  <2>8. CASE ReaderSelect
    BY <2>8 DEF ReaderSelect
  <2>9. CASE ReaderTouch
    BY <2>9 DEF ReaderTouch
  <2>10. CASE ReaderReads
    BY <2>10 DEF ReaderReads
  <2>11. CASE ReaderAdds
    BY <2>11, AddsToInput DEF ReaderAdds
  <2>12. CASE ReaderError
    BY <2>12 DEF ReaderError
  <2>13. CASE ReaderEOF
    BY <2>13 DEF ReaderEOF
  <2>14. CASE ReaderStops
    BY <2>14 DEF ReaderStops
  <2>15. CASE InputRemoves
    BY <2>15 DEF InputRemoves
  <2>16. CASE InputHandles
    <3>1. Len(handled') = Len(handled) + 1
      BY <2>16 DEF InputHandles
    <3>2. data[icell] = Len(handled) + 1
      BY <2>16 DEF InputHandles, MessageInv, Taken, Handling
    <3> QED
      BY <2>16, <3>1, <3>2 DEF InputHandles
  <2>17. CASE InputDetouches
    BY <2>17 DEF InputDetouches
  <2>18. CASE OutputRemoves
    BY <2>18 DEF OutputRemoves
  <2>19. CASE OutputWrites
    BY <2>19 DEF OutputWrites
  <2>20. CASE OutputKilled
    BY <2>20 DEF OutputKilled
  <2>21. CASE OutputDetouches
    BY <2>21 DEF OutputDetouches
  <2>22. ASSUME NEW l \in Lcores, create_digest(l) PROVE ControlInv'
    BY <2>22 DEF create_digest
  <2>23. ASSUME NEW l \in Lcores, create_digest_fails(l) PROVE ControlInv'
    BY <2>23 DEF create_digest_fails
  <2>24. ASSUME NEW l \in Lcores, send_digest(l) PROVE ControlInv'
    BY <2>24 DEF send_digest
  <2> QED
    BY <1>1, <2>1, <2>2, <2>3, <2>4, <2>5, <2>6, <2>7, <2>8, <2>9, <2>10, <2>11, <2>12,
       <2>13, <2>14, <2>15, <2>16, <2>17, <2>18, <2>19, <2>20, <2>21, <2>22, <2>23, <2>24
       DEF Next, Switch, backend_processor, input_processor, output_processor
<1>2. CASE UNCHANGED vars
  BY <1>2 DEF vars
<1> QED
  BY <1>1, <1>2
\* How a step moves cells: always from one place to one other, but for the two
\* branches of backend_processor that forget the cell of a failed read.
Forgotten == IF ReaderError \/ ReaderEOF THEN {rcell} ELSE {}

\* Every step keeps the owners of cells apart and loses at most the forgotten one.
LEMMA OwnerStep ==
    ASSUME IInv, [Next]_vars
    PROVE  OnceEach' /\ Apart' /\ Leaked' \subseteq Leaked \cup Forgotten
<1>0. TypeOK /\ ControlInv /\ OnceEach /\ Apart
  BY DEF IInv
<1> USE <1>0, CellsAssumption
        DEF TypeOK, ControlInv, MaybeCell, net, ctl, pool, reader, input, output,
            lcores, Forgotten
<1> DEFINE Goal == OnceEach' /\ Apart' /\ Leaked' \subseteq Leaked \cup Forgotten
<1>1. CASE Next
  <2>1. CASE LaunchConnects
    <3>1. UNCHANGED <<free, input_queue, output_queue, dig, rcell, icell, ocell>>
      BY <2>1 DEF LaunchConnects
    <3> QED
      BY <3>1 DEF OnceEach, Apart, Leaked, InDigests, InHands
  <2>2. CASE LaunchFails
    <3>1. UNCHANGED <<free, input_queue, output_queue, dig, rcell, icell, ocell>>
      BY <2>2 DEF LaunchFails
    <3> QED
      BY <3>1 DEF OnceEach, Apart, Leaked, InDigests, InHands
  <2>3. CASE LaunchReturns
    <3>1. UNCHANGED <<free, input_queue, output_queue, dig, rcell, icell, ocell>>
      BY <2>3 DEF LaunchReturns
    <3> QED
      BY <3>1 DEF OnceEach, Apart, Leaked, InDigests, InHands
  <2>4. CASE stop_backend
    <3>1. UNCHANGED <<free, input_queue, output_queue, dig, rcell, icell, ocell>>
      BY <2>4 DEF stop_backend
    <3> QED
      BY <3>1 DEF OnceEach, Apart, Leaked, InDigests, InHands
  <2>5. CASE EndOfProcess
    <3>1. UNCHANGED <<free, input_queue, output_queue, dig, rcell, icell, ocell>>
      BY <2>5 DEF EndOfProcess
    <3> QED
      BY <3>1 DEF OnceEach, Apart, Leaked, InDigests, InHands
  <2>6. CASE ControllerSends
    <3>1. UNCHANGED <<free, input_queue, output_queue, dig, rcell, icell, ocell>>
      BY <2>6 DEF ControllerSends
    <3> QED
      BY <3>1 DEF OnceEach, Apart, Leaked, InDigests, InHands
  <2>7. CASE ConnectionEnds
    <3>1. UNCHANGED <<free, input_queue, output_queue, dig, rcell, icell, ocell>>
      BY <2>7 DEF ConnectionEnds
    <3> QED
      BY <3>1 DEF OnceEach, Apart, Leaked, InDigests, InHands
  <2>8. CASE ReaderSelect
    <3>1. UNCHANGED <<free, input_queue, output_queue, dig, rcell, icell, ocell>>
      BY <2>8 DEF ReaderSelect
    <3> QED
      BY <3>1 DEF OnceEach, Apart, Leaked, InDigests, InHands
  <2>9. CASE ReaderTouch
    <3>1. UNCHANGED <<input_queue, output_queue, dig, icell, ocell>>
      BY <2>9 DEF ReaderTouch
    <3>2. rcell = None /\ rcell' \in free /\ free' = free \ {rcell'}
      BY <2>9 DEF ReaderTouch
    <3> QED
      BY <3>1, <3>2 DEF OnceEach, Apart, Leaked, InDigests, InHands
  <2>10. CASE ReaderReads
    <3>1. UNCHANGED <<free, input_queue, output_queue, dig, rcell, icell, ocell>>
      BY <2>10 DEF ReaderReads
    <3> QED
      BY <3>1 DEF OnceEach, Apart, Leaked, InDigests, InHands
  <2>11. CASE ReaderAdds
    <3>1. UNCHANGED <<free, output_queue, dig, icell, ocell>> /\ rcell' = None
      BY <2>11 DEF ReaderAdds
    <3>2. /\ rcell \in Cells /\ rcell \notin Queued(input_queue)
          /\ input_queue' = Append(input_queue, rcell)
      BY <2>11, AddsToInput
    <3>3. /\ Queued(input_queue') = Queued(input_queue) \cup {rcell}
          /\ Once(input_queue) => Once(input_queue')
      BY <3>2, QueueAppend
    <3>4. rcell \in InHands /\ rcell # None
      BY <3>2, CellsAssumption DEF InHands
    <3> QED
      BY <3>1, <3>2, <3>3, <3>4 DEF OnceEach, Apart, Leaked, InDigests, InHands
  <2>12. CASE ReaderError
    <3>1. UNCHANGED <<free, input_queue, output_queue, dig, icell, ocell>> /\ rcell' = None
      BY <2>12 DEF ReaderError
    <3>2. Forgotten = {rcell}
      BY <2>12
    <3> QED
      BY <3>1, <3>2 DEF OnceEach, Apart, Leaked, InDigests, InHands
  <2>13. CASE ReaderEOF
    <3>1. UNCHANGED <<free, input_queue, output_queue, dig, icell, ocell>> /\ rcell' = None
      BY <2>13 DEF ReaderEOF
    <3>2. Forgotten = {rcell}
      BY <2>13
    <3> QED
      BY <3>1, <3>2 DEF OnceEach, Apart, Leaked, InDigests, InHands
  <2>14. CASE ReaderStops
    <3>1. UNCHANGED <<free, input_queue, output_queue, dig, rcell, icell, ocell>>
      BY <2>14 DEF ReaderStops
    <3> QED
      BY <3>1 DEF OnceEach, Apart, Leaked, InDigests, InHands
  <2>15. CASE InputRemoves
    <3>1. /\ UNCHANGED <<free, output_queue, dig, rcell, ocell>>
          /\ icell = None /\ icell' = Head(input_queue) /\ input_queue' = Tail(input_queue)
      BY <2>15 DEF InputRemoves
    <3>2. /\ icell' \in Cells /\ icell' \in Queued(input_queue)
          /\ Once(input_queue')
          /\ Queued(input_queue') = Queued(input_queue) \ {icell'}
      BY <2>15, <3>1, QueueTail DEF OnceEach, InputRemoves
    <3>3. icell' # None /\ InHands' = InHands \cup {icell'} /\ InDigests' = InDigests
      BY <3>1, <3>2 DEF InHands, InDigests
    <3>4. OnceEach'
      BY <3>1, <3>2 DEF OnceEach, Apart, InHands
    <3>5. Apart'
      BY <3>1, <3>2, <3>3 DEF Apart
    <3>6. Leaked' \subseteq Leaked
      BY <3>1, <3>2, <3>3 DEF Leaked
    <3> QED
      BY <3>4, <3>5, <3>6
  <2>16. CASE InputHandles
    <3>1. UNCHANGED <<free, input_queue, output_queue, dig, rcell, icell, ocell>>
      BY <2>16 DEF InputHandles
    <3> QED
      BY <3>1 DEF OnceEach, Apart, Leaked, InDigests, InHands
  <2>17. CASE InputDetouches
    <3>1. UNCHANGED <<input_queue, output_queue, dig, rcell, ocell>>
      BY <2>17 DEF InputDetouches
    <3>2. icell \in Cells /\ icell' = None /\ free' = free \cup {icell}
      BY <2>17 DEF InputDetouches
    <3> QED
      BY <3>1, <3>2 DEF OnceEach, Apart, Leaked, InDigests, InHands
  <2>18. CASE OutputRemoves
    <3>1. /\ UNCHANGED <<free, input_queue, dig, rcell, icell>>
          /\ ocell = None /\ ocell' = Head(output_queue) /\ output_queue' = Tail(output_queue)
      BY <2>18 DEF OutputRemoves
    <3>2. /\ ocell' \in Cells /\ ocell' \in Queued(output_queue)
          /\ Once(output_queue')
          /\ Queued(output_queue') = Queued(output_queue) \ {ocell'}
      BY <2>18, <3>1, QueueTail DEF OnceEach, OutputRemoves
    <3>3. ocell' # None /\ InHands' = InHands \cup {ocell'} /\ InDigests' = InDigests
      BY <3>1, <3>2 DEF InHands, InDigests
    <3>4. OnceEach'
      BY <3>1, <3>2 DEF OnceEach, Apart, InHands
    <3>5. Apart'
      BY <3>1, <3>2, <3>3 DEF Apart
    <3>6. Leaked' \subseteq Leaked
      BY <3>1, <3>2, <3>3 DEF Leaked
    <3> QED
      BY <3>4, <3>5, <3>6
  <2>19. CASE OutputWrites
    <3>1. UNCHANGED <<free, input_queue, output_queue, dig, rcell, icell, ocell>>
      BY <2>19 DEF OutputWrites
    <3> QED
      BY <3>1 DEF OnceEach, Apart, Leaked, InDigests, InHands
  <2>20. CASE OutputKilled
    <3>1. UNCHANGED <<free, input_queue, output_queue, dig, rcell, icell, ocell>>
      BY <2>20 DEF OutputKilled
    <3> QED
      BY <3>1 DEF OnceEach, Apart, Leaked, InDigests, InHands
  <2>21. CASE OutputDetouches
    <3>1. UNCHANGED <<input_queue, output_queue, dig, rcell, icell>>
      BY <2>21 DEF OutputDetouches
    <3>2. ocell \in Cells /\ ocell' = None /\ free' = free \cup {ocell}
      BY <2>21 DEF OutputDetouches
    <3> QED
      BY <3>1, <3>2 DEF OnceEach, Apart, Leaked, InDigests, InHands
  <2>22. ASSUME NEW l \in Lcores, create_digest(l) PROVE Goal
    <3>1. UNCHANGED <<input_queue, output_queue, rcell, icell, ocell>> /\ dig[l] = None
      BY <2>22 DEF create_digest
    <3>2. PICK c \in free : free' = free \ {c} /\ dig' = [dig EXCEPT ![l] = c]
      BY <2>22 DEF create_digest
    <3>3. InDigests' = InDigests \cup {c}
      BY <3>1, <3>2 DEF InDigests
    <3>4. OnceEach'
      BY <3>1, <3>2 DEF OnceEach, Apart, InDigests
    <3> QED
      BY <3>1, <3>2, <3>3, <3>4 DEF Apart, Leaked, InHands
  <2>23. ASSUME NEW l \in Lcores, create_digest_fails(l) PROVE Goal
    <3>1. UNCHANGED <<free, input_queue, output_queue, dig, rcell, icell, ocell>>
      BY <2>23 DEF create_digest_fails
    <3> QED
      BY <3>1 DEF OnceEach, Apart, Leaked, InDigests, InHands
  <2>24. ASSUME NEW l \in Lcores, send_digest(l) PROVE Goal
    <3>1. /\ UNCHANGED <<free, input_queue, rcell, icell, ocell>>
          /\ dig' = [dig EXCEPT ![l] = None]
      BY <2>24 DEF send_digest
    <3>2. /\ dig[l] \in Cells /\ dig[l] \notin Queued(output_queue)
          /\ output_queue' = Append(output_queue, dig[l])
      BY <2>24, AddsToOutput
    <3>3. /\ Queued(output_queue') = Queued(output_queue) \cup {dig[l]}
          /\ Once(output_queue) => Once(output_queue')
      BY <3>2, QueueAppend
    <3>4. dig[l] \in InDigests /\ InDigests' = InDigests \ {dig[l]}
      <4>1. dig'[l] = None /\ \A m \in Lcores : m # l => dig'[m] = dig[m]
        BY <3>1
      <4>2. dig[l] \in InDigests
        BY <3>2, <4>1 DEF InDigests
      <4>3. \A m \in Lcores : dig[m] = dig[l] => m = l
        BY <3>2 DEF OnceEach
      <4>4. InDigests' \subseteq InDigests \ {dig[l]}
        BY <4>1, <4>3, Zenon DEF InDigests
      <4>5. InDigests \ {dig[l]} \subseteq InDigests'
        BY <4>1, Zenon DEF InDigests
      <4> QED
        BY <4>2, <4>4, <4>5
    <3>5. OnceEach'
      BY <3>1, <3>2, <3>3 DEF OnceEach
    <3> QED
      BY <3>1, <3>2, <3>3, <3>4, <3>5 DEF Apart, Leaked, InHands
  <2> QED
    BY <1>1, <2>1, <2>2, <2>3, <2>4, <2>5, <2>6, <2>7, <2>8, <2>9, <2>10, <2>11, <2>12,
       <2>13, <2>14, <2>15, <2>16, <2>17, <2>18, <2>19, <2>20, <2>21, <2>22, <2>23, <2>24
       DEF Next, Switch, backend_processor, input_processor, output_processor
<1>2. CASE UNCHANGED vars
  BY <1>2 DEF vars, OnceEach, Apart, Leaked, InDigests, InHands
<1> QED
  BY <1>1, <1>2
\* At most one cell is forgotten for the reset of a connection, and one for its
\* end, after which the reader is gone.
LEMMA LeakStep ==
    ASSUME IInv, LeakInv, [Next]_vars
    PROVE  LeakInv'
<1>0. TypeOK /\ ControlInv
  BY DEF IInv
<1>1. Leaked' \subseteq Leaked \cup Forgotten
  BY OwnerStep
<1>2. CASE ReaderError
  <2>1. conn = "reset" /\ conn' = "eof" /\ Forgotten = {rcell}
    BY <1>2 DEF ReaderError, Forgotten
  <2> QED
    BY <1>1, <2>1 DEF LeakInv
<1>3. CASE ReaderEOF
  <2>1. conn = "eof" /\ conn' = "eof" /\ rpc # "off" /\ rpc' = "off" /\ Forgotten = {rcell}
    BY <1>3 DEF ReaderEOF, Forgotten
  <2> QED
    BY <1>1, <2>1 DEF LeakInv
<1>4. CASE ~ReaderError /\ ~ReaderEOF
  <2>1. Leaked' \subseteq Leaked
    BY <1>1, <1>4 DEF Forgotten
  <2>2. /\ conn' = "eof" => conn # "none"
        /\ conn = "eof" => conn' = "eof" /\ (rpc = "off" => rpc' = "off")
    BY <1>0, <1>4
       DEF TypeOK, ControlInv, net, reader, vars,
           Next, Switch, backend_processor, input_processor, output_processor,
           LaunchConnects, LaunchFails, LaunchReturns, stop_backend, EndOfProcess,
           ControllerSends, ConnectionEnds, ReaderSelect, ReaderTouch, ReaderReads,
           ReaderAdds, ReaderStops, InputRemoves, InputHandles, InputDetouches,
           OutputRemoves, OutputWrites, OutputKilled, OutputDetouches,
           create_digest, create_digest_fails, send_digest
  <2> QED
    BY <2>1, <2>2 DEF LeakInv
<1> QED
  BY <1>2, <1>3, <1>4

\* Every step keeps the messages in order.
LEMMA MessageStep ==
    ASSUME IInv, MessageInv, [Next]_vars
    PROVE  MessageInv'
<1>0. TypeOK /\ ControlInv /\ OnceEach /\ Apart
  BY DEF IInv
<1>3. /\ Len(handled) \in Nat /\ Len(input_queue) \in Nat /\ Len(wire) \in Nat
      /\ sent \in Nat
  BY <1>0 DEF TypeOK
<1>4. MessageInv
  OBVIOUS
<1>6. Handling \in Nat /\ Reading \in Nat
  BY DEF Handling, Reading
<1>5. Taken \in Nat /\ Accepted \in Nat /\ Read \in Nat
  BY <1>3, <1>6 DEF Taken, Accepted, Read
<1> USE DEF net, ctl, pool, reader, input, output, lcores
<1>1. CASE Next
  <2>1. CASE LaunchConnects
    <3>1. /\ sent' = 0 /\ wire' = <<>> /\ handled' = <<>> /\ input_queue' = <<>>
          /\ ipc' = "wait" /\ rpc' = "select"
      BY <1>0, <2>1 DEF LaunchConnects, ControlInv, Idle
    <3> QED
      BY <3>1 DEF MessageInv, Taken, Accepted, Read, Handling, Reading
  <2>2. CASE LaunchFails
    <3>1. UNCHANGED <<conn, wire, sent, handled, ipc, icell, input_queue, rpc, rcell, data>>
      BY <2>2 DEF LaunchFails
    <3> QED
      BY <1>4, <3>1 DEF MessageInv, Taken, Accepted, Read, Handling, Reading
  <2>3. CASE LaunchReturns
    <3>1. UNCHANGED <<conn, wire, sent, handled, ipc, icell, input_queue, rpc, rcell, data>>
      BY <2>3 DEF LaunchReturns
    <3> QED
      BY <1>4, <3>1 DEF MessageInv, Taken, Accepted, Read, Handling, Reading
  <2>4. CASE stop_backend
    <3>1. UNCHANGED <<conn, wire, sent, handled, ipc, icell, input_queue, rpc, rcell, data>>
      BY <2>4 DEF stop_backend
    <3> QED
      BY <1>4, <3>1 DEF MessageInv, Taken, Accepted, Read, Handling, Reading
  <2>5. CASE EndOfProcess
    <3>1. UNCHANGED <<conn, wire, sent, handled, ipc, icell, input_queue, rpc, rcell, data>>
      BY <2>5 DEF EndOfProcess
    <3> QED
      BY <1>4, <3>1 DEF MessageInv, Taken, Accepted, Read, Handling, Reading
  <2>6. CASE ControllerSends
    <3>1. /\ UNCHANGED <<conn, handled, ipc, icell, input_queue, rpc, rcell, data>>
          /\ conn = "up" /\ sent' = sent + 1 /\ wire' = Append(wire, sent + 1)
      BY <2>6 DEF ControllerSends
    <3>2. /\ Len(wire') = Len(wire) + 1
          /\ \A i \in 1 .. Len(wire) : wire'[i] = wire[i]
          /\ wire'[Len(wire) + 1] = sent + 1
      BY <1>0, <3>1 DEF TypeOK
    <3>3. \A i \in 1 .. Len(wire') :
             \/ i \in 1 .. Len(wire) /\ wire'[i] = wire[i]
             \/ i = Len(wire) + 1 /\ wire'[i] = sent + 1
      BY <1>3, <3>2
    <3>9. Taken' = Taken /\ Accepted' = Accepted /\ Read' = Read
      BY <1>3, <3>1 DEF Taken, Accepted, Read, Handling, Reading
    <3>10. Len(handled') <= sent'
      BY <1>3, <1>4, <3>1 DEF MessageInv
    <3>11. ipc # "off" => Read + Len(wire') = sent'
      <4>1. ipc # "off" => Read + Len(wire) = sent
        BY <1>4, <3>1 DEF MessageInv
      <4>2. sent' = sent + 1 /\ Len(wire') = Len(wire) + 1
        BY <3>1, <3>2
      <4> QED
        BY <1>3, <1>5, <4>1, <4>2
    <3>12. ipc # "off" => \A i \in 1 .. Len(wire') : wire'[i] = Read + i
      <4> SUFFICES ASSUME ipc # "off", NEW i \in 1 .. Len(wire')
                   PROVE  wire'[i] = Read + i
        OBVIOUS
      <4>1. Read + Len(wire) = sent
        BY <1>4, <3>1 DEF MessageInv
      <4>2. CASE i \in 1 .. Len(wire) /\ wire'[i] = wire[i]
        BY <1>4, <4>2 DEF MessageInv
      <4>3. CASE i = Len(wire) + 1 /\ wire'[i] = sent + 1
        BY <1>3, <1>5, <4>1, <4>3
      <4> QED
        BY <3>3, <4>2, <4>3
    <3> QED
      BY <1>3, <1>4, <1>5, <3>1, <3>9, <3>10, <3>11, <3>12 DEF MessageInv
  <2>7. CASE ConnectionEnds
    <3>1. /\ UNCHANGED <<sent, handled, ipc, icell, input_queue, rpc, rcell, data>>
          /\ conn' # "up" /\ (wire' = wire \/ wire' = <<>>)
      BY <2>7 DEF ConnectionEnds
    <3>2. /\ Len(wire') \in Nat /\ Len(wire') <= Len(wire)
          /\ \A i \in 1 .. Len(wire') : i \in 1 .. Len(wire) /\ wire'[i] = wire[i]
      BY <1>3, <3>1
    <3>9. Taken' = Taken /\ Accepted' = Accepted /\ Read' = Read
      BY <1>3, <3>1 DEF Taken, Accepted, Read, Handling, Reading
    <3> QED
      BY <1>3, <1>4, <1>5, <3>1, <3>2, <3>9 DEF MessageInv
  <2>8. CASE ReaderSelect
    <3>1. /\ UNCHANGED <<conn, wire, sent, handled, ipc, icell, input_queue, data>>
          /\ rpc # "add" /\ rpc' # "add"
      BY <2>8 DEF ReaderSelect
    <3>9. Taken' = Taken /\ Accepted' = Accepted /\ Read' = Read
      BY <1>3, <3>1 DEF Taken, Accepted, Read, Handling, Reading
    <3> QED
      BY <1>3, <1>4, <1>5, <3>1, <3>9 DEF MessageInv
  <2>9. CASE ReaderTouch
    <3>1. /\ UNCHANGED <<conn, wire, sent, handled, ipc, icell, input_queue, data>>
          /\ rpc # "add" /\ rpc' # "add"
      BY <2>9 DEF ReaderTouch
    <3>9. Taken' = Taken /\ Accepted' = Accepted /\ Read' = Read
      BY <1>3, <3>1 DEF Taken, Accepted, Read, Handling, Reading
    <3> QED
      BY <1>3, <1>4, <1>5, <3>1, <3>9 DEF MessageInv
  <2>10. CASE ReaderReads
    <3>1. /\ UNCHANGED <<conn, sent, handled, ipc, icell, input_queue, rcell>>
          /\ rpc = "read" /\ rpc' = "add" /\ rcell \in Cells
          /\ data' = [data EXCEPT ![rcell] = wire[1]]
      BY <1>0, <2>10 DEF ReaderReads, TypeOK, ControlInv, MaybeCell
    <3>2. /\ Len(wire) = Len(wire') + 1 /\ Len(wire') \in Nat
          /\ \A i \in 1 .. Len(wire') : i + 1 \in 1 .. Len(wire) /\ wire'[i] = wire[i + 1]
      BY <1>0, <2>10 DEF ReaderReads, TypeOK
    <3>3. data'[rcell] = wire[1]
      BY <1>0, <3>1 DEF TypeOK
    <3>4. ipc = "handle" => data'[icell] = data[icell]
      BY <1>0, <3>1, CellsAssumption DEF TypeOK, ControlInv, MaybeCell, OnceEach
    <3>5. \A i \in 1 .. Len(input_queue) : data'[input_queue[i]] = data[input_queue[i]]
      <4>1. rcell \in InHands
        BY <3>1, CellsAssumption DEF InHands
      <4>2. \A i \in 1 .. Len(input_queue) : input_queue[i] \in Cells /\ input_queue[i] # rcell
        BY <1>0, <4>1 DEF TypeOK, Apart, Queued
      <4> QED
        BY <1>0, <3>1, <4>2 DEF TypeOK
    <3>9. Taken' = Taken /\ Accepted' = Accepted /\ Read' = Read + 1
      BY <1>3, <3>1 DEF Taken, Accepted, Read, Handling, Reading
    <3> QED
      BY <1>3, <1>4, <1>5, <3>1, <3>2, <3>3, <3>4, <3>5, <3>9 DEF MessageInv
  <2>11. CASE ReaderAdds
    <3>1. /\ UNCHANGED <<conn, wire, sent, handled, ipc, icell, data>>
          /\ rpc = "add" /\ rpc' = "select"
      BY <1>0, <2>11 DEF ReaderAdds
    <3>2. rcell \in Cells /\ input_queue' = Append(input_queue, rcell)
      BY <2>11, AddsToInput
    <3>3. /\ Len(input_queue') = Len(input_queue) + 1
          /\ \A i \in 1 .. Len(input_queue') :
                \/ i \in 1 .. Len(input_queue) /\ input_queue'[i] = input_queue[i]
                \/ i = Len(input_queue) + 1 /\ input_queue'[i] = rcell
      <4>1. /\ Len(input_queue') = Len(input_queue) + 1
            /\ \A i \in 1 .. Len(input_queue) : input_queue'[i] = input_queue[i]
            /\ input_queue'[Len(input_queue) + 1] = rcell
        BY <1>0, <3>2, QueueAppend DEF TypeOK
      <4> QED
        BY <1>3, <4>1
    <3>4. Handling' = Handling /\ Reading = 1 /\ Reading' = 0
      BY <3>1 DEF Handling, Reading
    <3>5. Accepted' = Accepted + 1 /\ Read = Accepted + 1 /\ Read' = Read
      BY <1>3, <1>6, <3>1, <3>3, <3>4 DEF Taken, Accepted, Read
    <3>6. Taken' = Taken /\ Accepted = Taken + Len(input_queue)
      BY <3>1, <3>4 DEF Taken, Accepted
    <3>7. ipc # "off" => \A i \in 1 .. Len(input_queue') : data'[input_queue'[i]] = Taken' + i
      <4> SUFFICES ASSUME ipc # "off", NEW i \in 1 .. Len(input_queue')
                   PROVE  data'[input_queue'[i]] = Taken' + i
        OBVIOUS
      <4>1. CASE i \in 1 .. Len(input_queue) /\ input_queue'[i] = input_queue[i]
        BY <1>4, <3>1, <3>6, <4>1 DEF MessageInv
      <4>2. CASE i = Len(input_queue) + 1 /\ input_queue'[i] = rcell
        <5>1. data[rcell] = Read
          BY <1>4, <3>1 DEF MessageInv
        <5>2. Read = Taken + i
          BY <1>3, <1>5, <3>5, <3>6, <4>2
        <5> QED
          BY <3>1, <3>6, <4>2, <5>1, <5>2
      <4> QED
        BY <3>3, <4>1, <4>2
    <3> QED
      BY <1>3, <1>4, <1>5, <3>1, <3>5, <3>6, <3>7 DEF MessageInv
  <2>12. CASE ReaderError
    <3>1. /\ UNCHANGED <<wire, sent, handled, ipc, icell, input_queue, data>>
          /\ rpc # "add" /\ rpc' # "add" /\ conn' # "up"
      BY <2>12 DEF ReaderError
    <3>9. Taken' = Taken /\ Accepted' = Accepted /\ Read' = Read
      BY <1>3, <3>1 DEF Taken, Accepted, Read, Handling, Reading
    <3> QED
      BY <1>3, <1>4, <1>5, <3>1, <3>9 DEF MessageInv
  <2>13. CASE ReaderEOF
    <3>1. /\ UNCHANGED <<conn, wire, sent, handled, ipc, icell, input_queue, data>>
          /\ rpc # "add" /\ rpc' # "add"
      BY <2>13 DEF ReaderEOF
    <3>9. Taken' = Taken /\ Accepted' = Accepted /\ Read' = Read
      BY <1>3, <3>1 DEF Taken, Accepted, Read, Handling, Reading
    <3> QED
      BY <1>3, <1>4, <1>5, <3>1, <3>9 DEF MessageInv
  <2>14. CASE ReaderStops
    <3>1. /\ UNCHANGED <<conn, wire, sent, handled, ipc, icell, input_queue, data>>
          /\ rpc # "add" /\ rpc' # "add"
      BY <2>14 DEF ReaderStops
    <3>9. Taken' = Taken /\ Accepted' = Accepted /\ Read' = Read
      BY <1>3, <3>1 DEF Taken, Accepted, Read, Handling, Reading
    <3> QED
      BY <1>3, <1>4, <1>5, <3>1, <3>9 DEF MessageInv
  <2>15. CASE InputRemoves
    <3>1. /\ UNCHANGED <<conn, wire, sent, handled, rpc, rcell, data>>
          /\ ipc = "wait" /\ ipc' \in {"off", "handle"}
          /\ input_queue # <<>>
          /\ icell' = Head(input_queue) /\ input_queue' = Tail(input_queue)
      BY <1>0, <2>15 DEF InputRemoves
    <3>2. /\ icell' = input_queue[1]
          /\ Len(input_queue) = Len(input_queue') + 1 /\ Len(input_queue') \in Nat
          /\ \A i \in 1 .. Len(input_queue') :
                i + 1 \in 1 .. Len(input_queue) /\ input_queue'[i] = input_queue[i + 1]
      BY <1>0, <3>1, QueueTail DEF TypeOK
    <3>3. CASE ipc' = "off"
      BY <1>4, <3>1, <3>3 DEF MessageInv
    <3>4. CASE ipc' = "handle"
      <4>1. Handling = 0 /\ Handling' = 1 /\ Reading' = Reading
        BY <3>1, <3>4 DEF Handling, Reading
      <4>2. Taken' = Taken + 1 /\ Accepted' = Accepted /\ Read' = Read
        BY <1>3, <1>6, <3>1, <3>2, <4>1 DEF Taken, Accepted, Read
      <4>3. data'[icell'] = Taken'
        BY <1>3, <1>4, <1>5, <3>1, <3>2, <4>2 DEF MessageInv
      <4>4. \A i \in 1 .. Len(input_queue') : data'[input_queue'[i]] = Taken' + i
        BY <1>3, <1>4, <1>5, <3>1, <3>2, <4>2 DEF MessageInv
      <4> QED
        BY <1>3, <1>4, <1>5, <3>1, <4>2, <4>3, <4>4 DEF MessageInv
    <3> QED
      BY <3>1, <3>3, <3>4
  <2>16. CASE InputHandles
    <3>1. /\ UNCHANGED <<conn, wire, sent, icell, input_queue, rpc, rcell, data>>
          /\ ipc = "handle" /\ ipc' = "detouch"
          /\ handled' = Append(handled, data[icell])
      BY <2>16 DEF InputHandles
    <3>2. data[icell] \in Nat
      BY <1>0, <3>1 DEF TypeOK, ControlInv, MaybeCell
    <3>3. data[icell] = Len(handled) + 1
      BY <1>3, <1>4, <3>1 DEF MessageInv, Taken, Handling, Reading
    <3>6. /\ Len(handled') = Len(handled) + 1
          /\ \A i \in 1 .. Len(handled) : handled'[i] = handled[i]
          /\ handled'[Len(handled) + 1] = Len(handled) + 1
      BY <1>0, <3>1, <3>2, <3>3 DEF TypeOK
    <3>4. /\ Len(handled') = Len(handled) + 1
          /\ \A i \in 1 .. Len(handled') :
                \/ i \in 1 .. Len(handled) /\ handled'[i] = handled[i]
                \/ i = Len(handled) + 1 /\ handled'[i] = i
      BY <1>3, <3>6
    <3>5. Len(handled) + 1 <= sent
      BY <1>3, <1>4, <3>1 DEF MessageInv, Taken, Accepted, Read, Handling, Reading
    <3>9. Taken' = Taken /\ Accepted' = Accepted /\ Read' = Read
      BY <1>3, <3>1, <3>4 DEF Taken, Accepted, Read, Handling, Reading
    <3> QED
      BY <1>3, <1>4, <1>5, <3>1, <3>4, <3>5, <3>9 DEF MessageInv
  <2>17. CASE InputDetouches
    <3>1. /\ UNCHANGED <<conn, wire, sent, handled, input_queue, rpc, rcell, data>>
          /\ ipc = "detouch" /\ ipc' = "wait"
      BY <2>17 DEF InputDetouches
    <3>9. Taken' = Taken /\ Accepted' = Accepted /\ Read' = Read
      BY <1>3, <3>1 DEF Taken, Accepted, Read, Handling, Reading
    <3> QED
      BY <1>3, <1>4, <1>5, <3>1, <3>9 DEF MessageInv
  <2>18. CASE OutputRemoves
    <3>1. UNCHANGED <<conn, wire, sent, handled, ipc, icell, input_queue, rpc, rcell, data>>
      BY <2>18 DEF OutputRemoves
    <3> QED
      BY <1>4, <3>1 DEF MessageInv, Taken, Accepted, Read, Handling, Reading
  <2>19. CASE OutputWrites
    <3>1. UNCHANGED <<conn, wire, sent, handled, ipc, icell, input_queue, rpc, rcell, data>>
      BY <2>19 DEF OutputWrites
    <3> QED
      BY <1>4, <3>1 DEF MessageInv, Taken, Accepted, Read, Handling, Reading
  <2>20. CASE OutputKilled
    <3>1. UNCHANGED <<conn, wire, sent, handled, ipc, icell, input_queue, rpc, rcell, data>>
      BY <2>20 DEF OutputKilled
    <3> QED
      BY <1>4, <3>1 DEF MessageInv, Taken, Accepted, Read, Handling, Reading
  <2>21. CASE OutputDetouches
    <3>1. UNCHANGED <<conn, wire, sent, handled, ipc, icell, input_queue, rpc, rcell, data>>
      BY <2>21 DEF OutputDetouches
    <3> QED
      BY <1>4, <3>1 DEF MessageInv, Taken, Accepted, Read, Handling, Reading
  <2>22. ASSUME NEW l \in Lcores, create_digest(l) PROVE MessageInv'
    <3>1. UNCHANGED <<conn, wire, sent, handled, ipc, icell, input_queue, rpc, rcell>>
      BY <2>22 DEF create_digest
    <3>2. PICK c \in free : data' = [data EXCEPT ![c] = made + 1]
      BY <2>22 DEF create_digest
    <3>3. /\ ipc = "handle" => data'[icell] = data[icell]
          /\ rpc = "add" => data'[rcell] = data[rcell]
      <4>1. c \notin InHands
        BY <1>0, <3>2 DEF Apart
      <4> QED
        BY <1>0, <3>1, <3>2, <4>1 DEF TypeOK, ControlInv, MaybeCell, InHands
    <3>4. \A i \in 1 .. Len(input_queue) : data'[input_queue[i]] = data[input_queue[i]]
      <4>1. \A i \in 1 .. Len(input_queue) : input_queue[i] \in Cells /\ input_queue[i] # c
        BY <1>0, <3>2 DEF TypeOK, Apart, Queued
      <4> QED
        BY <1>0, <3>2, <4>1 DEF TypeOK
    <3>9. Taken' = Taken /\ Accepted' = Accepted /\ Read' = Read
      BY <1>3, <3>1 DEF Taken, Accepted, Read, Handling, Reading
    <3> QED
      BY <1>3, <1>4, <1>5, <3>1, <3>3, <3>4, <3>9 DEF MessageInv
  <2>23. ASSUME NEW l \in Lcores, create_digest_fails(l) PROVE MessageInv'
    <3>1. UNCHANGED <<conn, wire, sent, handled, ipc, icell, input_queue, rpc, rcell, data>>
      BY <2>23 DEF create_digest_fails
    <3> QED
      BY <1>4, <3>1 DEF MessageInv, Taken, Accepted, Read, Handling, Reading
  <2>24. ASSUME NEW l \in Lcores, send_digest(l) PROVE MessageInv'
    <3>1. UNCHANGED <<conn, wire, sent, handled, ipc, icell, input_queue, rpc, rcell, data>>
      BY <2>24 DEF send_digest
    <3> QED
      BY <1>4, <3>1 DEF MessageInv, Taken, Accepted, Read, Handling, Reading
  <2> QED
    BY <1>1, <2>1, <2>2, <2>3, <2>4, <2>5, <2>6, <2>7, <2>8, <2>9, <2>10, <2>11, <2>12,
       <2>13, <2>14, <2>15, <2>16, <2>17, <2>18, <2>19, <2>20, <2>21, <2>22, <2>23, <2>24
       DEF Next, Switch, backend_processor, input_processor, output_processor
<1>2. CASE UNCHANGED vars
  BY <1>2, <1>4 DEF vars, MessageInv, Taken, Accepted, Read, Handling, Reading
<1> QED
  BY <1>1, <1>2

\* Every step keeps the digests in order.
LEMMA DigestStep ==
    ASSUME IInv, DigestInv, [Next]_vars
    PROVE  DigestInv'
<1>0. TypeOK /\ ControlInv /\ OnceEach /\ Apart
  BY DEF IInv
<1>3. Len(delivered) \in Nat /\ Len(digests) \in Nat /\ Len(output_queue) \in Nat
  BY <1>0 DEF TypeOK
<1>4. DigestInv
  OBVIOUS
<1>5. Written \in Nat
  BY <1>3 DEF Written, Writing
<1> USE DEF net, ctl, pool, reader, input, output, lcores
<1>1. CASE Next
  <2>1. CASE LaunchConnects
    <3>1. /\ delivered' = <<>> /\ digests' = <<>> /\ output_queue' = <<>> /\ opc' = "wait"
      BY <1>0, <2>1 DEF LaunchConnects, ControlInv, Idle
    <3> QED
      BY <3>1 DEF DigestInv, Written, Writing
  <2>2. CASE LaunchFails
    <3>1. UNCHANGED <<conn, sock_open, opc, ocell, output_queue, data, delivered, digests>>
      BY <2>2 DEF LaunchFails
    <3> QED
      BY <1>4, <3>1 DEF DigestInv, Written, Writing
  <2>3. CASE LaunchReturns
    <3>1. UNCHANGED <<conn, sock_open, opc, ocell, output_queue, data, delivered, digests>>
      BY <2>3 DEF LaunchReturns
    <3> QED
      BY <1>4, <3>1 DEF DigestInv, Written, Writing
  <2>4. CASE stop_backend
    <3>1. UNCHANGED <<conn, sock_open, opc, ocell, output_queue, data, delivered, digests>>
      BY <2>4 DEF stop_backend
    <3> QED
      BY <1>4, <3>1 DEF DigestInv, Written, Writing
  <2>5. CASE EndOfProcess
    <3>1. UNCHANGED <<conn, sock_open, opc, ocell, output_queue, data, delivered, digests>>
      BY <2>5 DEF EndOfProcess
    <3> QED
      BY <1>4, <3>1 DEF DigestInv, Written, Writing
  <2>6. CASE ControllerSends
    <3>1. UNCHANGED <<conn, sock_open, opc, ocell, output_queue, data, delivered, digests>>
      BY <2>6 DEF ControllerSends
    <3> QED
      BY <1>4, <3>1 DEF DigestInv, Written, Writing
  <2>7. CASE ConnectionEnds
    <3>1. UNCHANGED <<delivered, digests>> /\ ~(conn' = "up" /\ sock_open')
      BY <2>7 DEF ConnectionEnds
    <3> QED
      BY <1>4, <3>1 DEF DigestInv
  <2>8. CASE ReaderSelect
    <3>1. UNCHANGED <<conn, sock_open, opc, ocell, output_queue, data, delivered, digests>>
      BY <2>8 DEF ReaderSelect
    <3> QED
      BY <1>4, <3>1 DEF DigestInv, Written, Writing
  <2>9. CASE ReaderTouch
    <3>1. UNCHANGED <<conn, sock_open, opc, ocell, output_queue, data, delivered, digests>>
      BY <2>9 DEF ReaderTouch
    <3> QED
      BY <1>4, <3>1 DEF DigestInv, Written, Writing
  <2>10. CASE ReaderReads
    <3>1. /\ UNCHANGED <<conn, sock_open, opc, ocell, output_queue, delivered, digests>>
          /\ rcell \in Cells /\ data' = [data EXCEPT ![rcell] = wire[1]]
      BY <1>0, <2>10 DEF ReaderReads, TypeOK, ControlInv, MaybeCell
    <3>2. opc = "write" => data'[ocell] = data[ocell]
      BY <1>0, <3>1, CellsAssumption DEF TypeOK, ControlInv, MaybeCell, OnceEach
    <3>3. \A i \in 1 .. Len(output_queue) : data'[output_queue[i]] = data[output_queue[i]]
      <4>1. rcell \in InHands
        BY <3>1, CellsAssumption DEF InHands
      <4>2. \A i \in 1 .. Len(output_queue) :
                output_queue[i] \in Cells /\ output_queue[i] # rcell
        BY <1>0, <4>1 DEF TypeOK, Apart, Queued
      <4> QED
        BY <1>0, <3>1, <4>2 DEF TypeOK
    <3>4. Written' = Written
      BY <3>1 DEF Written, Writing
    <3> QED
      BY <1>4, <3>1, <3>2, <3>3, <3>4 DEF DigestInv
  <2>11. CASE ReaderAdds
    <3>1. UNCHANGED <<conn, sock_open, opc, ocell, output_queue, data, delivered, digests>>
      BY <2>11 DEF ReaderAdds
    <3> QED
      BY <1>4, <3>1 DEF DigestInv, Written, Writing
  <2>12. CASE ReaderError
    <3>1. UNCHANGED <<delivered, digests>> /\ ~(conn' = "up" /\ sock_open')
      BY <2>12 DEF ReaderError
    <3> QED
      BY <1>4, <3>1 DEF DigestInv
  <2>13. CASE ReaderEOF
    <3>1. UNCHANGED <<delivered, digests>> /\ ~(conn' = "up" /\ sock_open')
      BY <2>13 DEF ReaderEOF
    <3> QED
      BY <1>4, <3>1 DEF DigestInv
  <2>14. CASE ReaderStops
    <3>1. UNCHANGED <<delivered, digests>> /\ ~(conn' = "up" /\ sock_open')
      BY <2>14 DEF ReaderStops
    <3> QED
      BY <1>4, <3>1 DEF DigestInv
  <2>15. CASE InputRemoves
    <3>1. UNCHANGED <<conn, sock_open, opc, ocell, output_queue, data, delivered, digests>>
      BY <2>15 DEF InputRemoves
    <3> QED
      BY <1>4, <3>1 DEF DigestInv, Written, Writing
  <2>16. CASE InputHandles
    <3>1. UNCHANGED <<conn, sock_open, opc, ocell, output_queue, data, delivered, digests>>
      BY <2>16 DEF InputHandles
    <3> QED
      BY <1>4, <3>1 DEF DigestInv, Written, Writing
  <2>17. CASE InputDetouches
    <3>1. UNCHANGED <<conn, sock_open, opc, ocell, output_queue, data, delivered, digests>>
      BY <2>17 DEF InputDetouches
    <3> QED
      BY <1>4, <3>1 DEF DigestInv, Written, Writing
  <2>18. CASE OutputRemoves
    <3>1. /\ UNCHANGED <<conn, sock_open, data, delivered, digests>>
          /\ opc = "wait" /\ opc' \in {"off", "write"}
          /\ output_queue # <<>>
          /\ ocell' = Head(output_queue) /\ output_queue' = Tail(output_queue)
      BY <1>0, <2>18 DEF OutputRemoves
    <3>2. /\ ocell' = output_queue[1]
          /\ Len(output_queue) = Len(output_queue') + 1 /\ Len(output_queue') \in Nat
          /\ \A i \in 1 .. Len(output_queue') :
                i + 1 \in 1 .. Len(output_queue) /\ output_queue'[i] = output_queue[i + 1]
      BY <1>0, <3>1, QueueTail DEF TypeOK
    <3>3. CASE opc' = "off"
      BY <1>4, <3>1, <3>3 DEF DigestInv
    <3>4. CASE opc' = "write"
      <4>1. Writing = 0 /\ Writing' = 1
        BY <3>1, <3>4 DEF Writing
      <4>2. Written' = Written + 1
        BY <1>3, <3>1, <4>1 DEF Written
      <4>3. conn = "up" /\ sock_open => data'[ocell'] = digests'[Written']
        BY <1>3, <1>4, <3>1, <3>2, <4>2 DEF DigestInv
      <4>4. conn = "up" /\ sock_open =>
               \A i \in 1 .. Len(output_queue') :
                  data'[output_queue'[i]] = digests'[Written' + i]
        <5> SUFFICES ASSUME conn = "up", sock_open, NEW i \in 1 .. Len(output_queue')
                     PROVE  data'[output_queue'[i]] = digests'[Written' + i]
          OBVIOUS
        <5>1. data[output_queue[i + 1]] = digests[Written + (i + 1)]
          BY <1>4, <3>1, <3>2 DEF DigestInv
        <5>2. Written + (i + 1) = Written' + i
          BY <1>3, <1>5, <3>2, <4>2
        <5> QED
          BY <3>1, <3>2, <5>1, <5>2
      <4> QED
        BY <1>3, <1>4, <1>5, <3>1, <3>2, <4>2, <4>3, <4>4 DEF DigestInv
    <3> QED
      BY <3>1, <3>3, <3>4
  <2>19. CASE OutputWrites
    <3>1. /\ UNCHANGED <<conn, sock_open, ocell, output_queue, data, digests>>
          /\ opc = "write" /\ opc' = "detouch"
      BY <2>19 DEF OutputWrites
    <3>2. Writing = 1 /\ Writing' = 0
      BY <3>1 DEF Writing
    <3>3. CASE conn = "up" /\ sock_open
      <4>1. delivered' = Append(delivered, data[ocell])
        BY <2>19, <3>3 DEF OutputWrites
      <4>2. data[ocell] \in Nat /\ data[ocell] = digests[Len(delivered) + 1]
        BY <1>0, <1>3, <1>4, <3>1, <3>2, <3>3
           DEF TypeOK, ControlInv, MaybeCell, DigestInv, Written
      <4>3. /\ Len(delivered') = Len(delivered) + 1
            /\ \A i \in 1 .. Len(delivered) : delivered'[i] = delivered[i]
            /\ delivered'[Len(delivered) + 1] = digests[Len(delivered) + 1]
        BY <1>0, <4>1, <4>2 DEF TypeOK
      <4>4. Written' = Written /\ Written = Len(delivered) + 1
        BY <1>3, <3>2, <4>3 DEF Written
      <4>5. \A i \in 1 .. Len(delivered') : delivered'[i] = digests[i]
        BY <1>3, <1>4, <4>3 DEF DigestInv
      <4> QED
        BY <1>3, <1>4, <3>1, <3>3, <4>3, <4>4, <4>5 DEF DigestInv
    <3>4. CASE ~(conn = "up" /\ sock_open)
      <4>1. delivered' = delivered
        BY <2>19, <3>4 DEF OutputWrites
      <4> QED
        BY <1>4, <3>1, <3>4, <4>1 DEF DigestInv
    <3> QED
      BY <3>3, <3>4
  <2>20. CASE OutputKilled
    <3>1. UNCHANGED <<conn, sock_open, opc, ocell, output_queue, data, delivered, digests>>
      BY <2>20 DEF OutputKilled
    <3> QED
      BY <1>4, <3>1 DEF DigestInv, Written, Writing
  <2>21. CASE OutputDetouches
    <3>1. /\ UNCHANGED <<conn, sock_open, output_queue, data, delivered, digests>>
          /\ opc = "detouch" /\ opc' = "wait"
      BY <2>21 DEF OutputDetouches
    <3>2. Written' = Written
      BY <3>1 DEF Written, Writing
    <3> QED
      BY <1>4, <3>1, <3>2 DEF DigestInv
  <2>22. ASSUME NEW l \in Lcores, create_digest(l) PROVE DigestInv'
    <3>1. UNCHANGED <<conn, sock_open, opc, ocell, output_queue, delivered, digests>>
      BY <2>22 DEF create_digest
    <3>2. PICK c \in free : data' = [data EXCEPT ![c] = made + 1]
      BY <2>22 DEF create_digest
    <3>3. opc = "write" => data'[ocell] = data[ocell]
      <4>1. c \notin InHands
        BY <1>0, <3>2 DEF Apart
      <4> QED
        BY <1>0, <3>1, <3>2, <4>1 DEF TypeOK, ControlInv, MaybeCell, InHands
    <3>4. \A i \in 1 .. Len(output_queue) : data'[output_queue[i]] = data[output_queue[i]]
      <4>1. \A i \in 1 .. Len(output_queue) : output_queue[i] \in Cells /\ output_queue[i] # c
        BY <1>0, <3>2 DEF TypeOK, Apart, Queued
      <4> QED
        BY <1>0, <3>2, <4>1 DEF TypeOK
    <3>5. Written' = Written
      BY <3>1 DEF Written, Writing
    <3> QED
      BY <1>4, <3>1, <3>3, <3>4, <3>5 DEF DigestInv
  <2>23. ASSUME NEW l \in Lcores, create_digest_fails(l) PROVE DigestInv'
    <3>1. UNCHANGED <<conn, sock_open, opc, ocell, output_queue, data, delivered, digests>>
      BY <2>23 DEF create_digest_fails
    <3> QED
      BY <1>4, <3>1 DEF DigestInv, Written, Writing
  <2>24. ASSUME NEW l \in Lcores, send_digest(l) PROVE DigestInv'
    <3> DEFINE d == data[dig[l]]
    <3>1. /\ UNCHANGED <<conn, sock_open, opc, ocell, data, delivered>>
          /\ digests' = Append(digests, d)
      BY <2>24 DEF send_digest
    <3>2. dig[l] \in Cells /\ output_queue' = Append(output_queue, dig[l])
      BY <2>24, AddsToOutput
    <3>3. d \in Nat
      BY <1>0, <3>2 DEF TypeOK
    <3>4. /\ Len(output_queue') = Len(output_queue) + 1
          /\ \A i \in 1 .. Len(output_queue) : output_queue'[i] = output_queue[i]
          /\ output_queue'[Len(output_queue) + 1] = dig[l]
      BY <1>0, <3>2, QueueAppend DEF TypeOK
    <3>5. /\ Len(digests') = Len(digests) + 1
          /\ \A i \in 1 .. Len(digests) : digests'[i] = digests[i]
          /\ digests'[Len(digests) + 1] = d
      BY <1>0, <3>1, <3>3 DEF TypeOK
    <3>6. Written' = Written
      BY <3>1 DEF Written, Writing
    <3>7. /\ Len(delivered') <= Len(digests')
          /\ \A i \in 1 .. Len(delivered') : delivered'[i] = digests'[i]
      BY <1>3, <1>4, <3>1, <3>5 DEF DigestInv
    <3>8. ASSUME conn = "up", sock_open, opc # "off"
          PROVE  /\ opc = "write" => data[ocell] = digests'[Written]
                 /\ \A i \in 1 .. Len(output_queue') :
                       data[output_queue'[i]] = digests'[Written + i]
                 /\ Written + Len(output_queue') = Len(digests')
      <4>1. /\ opc = "write" => data[ocell] = digests[Written]
            /\ \A i \in 1 .. Len(output_queue) : data[output_queue[i]] = digests[Written + i]
            /\ Written + Len(output_queue) = Len(digests)
        BY <1>4, <3>8 DEF DigestInv
      <4>2. opc = "write" => Written \in 1 .. Len(digests)
        BY <1>3, <4>1 DEF Written, Writing
      <4>3. ASSUME NEW i \in 1 .. Len(output_queue')
            PROVE  data[output_queue'[i]] = digests'[Written + i]
        <5>1. CASE i \in 1 .. Len(output_queue)
          <6>1. Written + i \in 1 .. Len(digests)
            BY <1>3, <1>5, <4>1, <5>1
          <6> QED
            BY <3>4, <3>5, <4>1, <5>1, <6>1
        <5>2. CASE i = Len(output_queue) + 1
          <6>1. Written + i = Len(digests) + 1
            BY <1>3, <1>5, <4>1, <5>2
          <6> QED
            BY <3>4, <3>5, <5>2, <6>1
        <5> QED
          BY <1>3, <3>4, <5>1, <5>2
      <4>4. opc = "write" => data[ocell] = digests'[Written]
        BY <3>5, <4>1, <4>2
      <4>5. Written + Len(output_queue') = Len(digests')
        <5>1. Len(output_queue') = Len(output_queue) + 1 /\ Len(digests') = Len(digests) + 1
          BY <3>4, <3>5
        <5>2. Written + Len(output_queue) = Len(digests)
          BY <4>1
        <5> QED
          BY <1>3, <1>5, <5>1, <5>2
      <4> QED
        BY <4>3, <4>4, <4>5
    <3> QED
      BY <3>1, <3>6, <3>7, <3>8 DEF DigestInv
  <2> QED
    BY <1>1, <2>1, <2>2, <2>3, <2>4, <2>5, <2>6, <2>7, <2>8, <2>9, <2>10, <2>11, <2>12,
       <2>13, <2>14, <2>15, <2>16, <2>17, <2>18, <2>19, <2>20, <2>21, <2>22, <2>23, <2>24
       DEF Next, Switch, backend_processor, input_processor, output_processor
<1>2. CASE UNCHANGED vars
  BY <1>2, <1>4 DEF vars, DigestInv, Written, Writing
<1> QED
  BY <1>1, <1>2
-----------------------------------------------------------------------------
\* The invariants of the program.

Inv == IInv /\ LeakInv /\ MessageInv /\ DigestInv

\* create_backend starts with every cell unused and every queue empty.
LEMMA InitInv == Init => Inv
<1> SUFFICES ASSUME Init PROVE Inv
  OBVIOUS
<1> USE CellsAssumption, BoundsAssumption DEF Init
<1>1. TypeOK
  <2>1. <<>> \in Seq(Nat) /\ <<>> \in Seq(Cells)
    BY EmptySeq
  <2>2. data \in [Cells -> Nat] /\ dig \in [Lcores -> MaybeCell]
    BY DEF MaybeCell
  <2>3. rcell \in MaybeCell /\ icell \in MaybeCell /\ ocell \in MaybeCell
    BY DEF MaybeCell
  <2>4. sent \in 0 .. MaxMsgs /\ made \in 0 .. MaxDigests
    OBVIOUS
  <2>5. /\ sock_open \in BOOLEAN /\ initialized \in BOOLEAN
        /\ shutdown \in BOOLEAN /\ dead \in BOOLEAN
    OBVIOUS
  <2> QED
    BY <2>1, <2>2, <2>3, <2>4, <2>5 DEF TypeOK
<1>2. ControlInv
  BY DEF ControlInv, Idle
<1>3. Queued(<<>>) = {} /\ InDigests = {} /\ InHands = {}
  BY DEF Queued, InDigests, InHands
<1>4. OnceEach
  BY DEF OnceEach, Once
<1>5. Apart /\ Leaked = {}
  BY <1>3 DEF Apart, Leaked
<1>6. LeakInv
  BY <1>5 DEF LeakInv
<1>7. MessageInv
  BY DEF MessageInv, Taken, Accepted, Read, Handling, Reading
<1>8. DigestInv
  BY DEF DigestInv, Written, Writing
<1> QED
  BY <1>1, <1>2, <1>4, <1>5, <1>6, <1>7, <1>8 DEF Inv, IInv

\* Who has which cell, what was lost and what is in which order, at every point of
\* the three threads, the main thread and the lcores.
THEOREM Inductive == Spec => []Inv
<1>1. Inv /\ [Next]_vars => Inv'
  BY TypeStep, ControlStep, OwnerStep, LeakStep, MessageStep, DigestStep DEF Inv, IInv
<1> QED
  BY InitInv, <1>1, PTL DEF Spec

\* A set without two different elements.
LEMMA AtMostOne ==
    ASSUME NEW S, \A x, y \in S : x = y
    PROVE  Cardinality(S) = IF S = {} THEN 0 ELSE 1
<1>1. CASE S = {}
  BY <1>1, FS_EmptySet
<1>2. CASE S # {}
  <2>1. PICK x \in S : S = {x}
    BY <1>2
  <2> QED
    BY <2>1, FS_Singleton
<1> QED
  BY <1>1, <1>2

\* Counting the places of a cell: none if it was lost, else one.
LEMMA PlacesCounted ==
    ASSUME IInv, NEW c \in Cells
    PROVE  Places(c) = IF c \in Leaked THEN 0 ELSE 1
<1> DEFINE I == {i \in DOMAIN input_queue : input_queue[i] = c}
           O == {i \in DOMAIN output_queue : output_queue[i] = c}
           D == {l \in Lcores : dig[l] = c}
           H == {p \in {1, 2, 3} : <<rcell, icell, ocell>>[p] = c}
<1>0. TypeOK /\ OnceEach /\ Apart /\ c # None
  BY CellsAssumption DEF IInv
<1>1. Cardinality(I) = IF c \in Queued(input_queue) THEN 1 ELSE 0
  <2>1. \A i, j \in I : i = j
    BY <1>0 DEF OnceEach, Once
  <2>2. I # {} <=> c \in Queued(input_queue)
    BY DEF Queued
  <2> QED
    BY <2>1, <2>2, AtMostOne
<1>2. Cardinality(O) = IF c \in Queued(output_queue) THEN 1 ELSE 0
  <2>1. \A i, j \in O : i = j
    BY <1>0 DEF OnceEach, Once
  <2>2. O # {} <=> c \in Queued(output_queue)
    BY DEF Queued
  <2> QED
    BY <2>1, <2>2, AtMostOne
<1>3. Cardinality(D) = IF c \in InDigests THEN 1 ELSE 0
  <2>1. \A l, m \in D : l = m
    BY <1>0 DEF OnceEach
  <2>2. D # {} <=> c \in InDigests
    BY <1>0 DEF InDigests
  <2> QED
    BY <2>1, <2>2, AtMostOne
<1>4. Cardinality(H) = IF c \in InHands THEN 1 ELSE 0
  <2>1. \A p, r \in H : p = r
    BY <1>0 DEF OnceEach
  <2>2. H # {} <=> c \in InHands
    BY <1>0 DEF InHands
  <2> QED
    BY <2>1, <2>2, AtMostOne
<1>5. Places(c) = Cardinality(I) + Cardinality(O) + Cardinality(D) + Cardinality(H)
                  + (IF c \in free THEN 1 ELSE 0)
  BY DEF Places
<1> HIDE DEF I, O, D, H
<1>6. CASE c \in Leaked
  BY <1>1, <1>2, <1>3, <1>4, <1>5, <1>6 DEF Leaked
<1>7. CASE c \notin Leaked
  BY <1>0, <1>1, <1>2, <1>3, <1>4, <1>5, <1>7 DEF Leaked, Apart
<1> QED
  BY <1>6, <1>7

\* A cell is never in two places at once: whoever writes, reads or frees the
\* memory of a message is the only one that has it.
THEOREM CellsHaveOneOwner == Spec => []OneOwner
<1>1. Inv => OneOwner
  BY PlacesCounted DEF Inv, IInv, OneOwner
<1> QED
  BY Inductive, <1>1, PTL

\* Cells are only lost to failed reads, and to at most two of them.
THEOREM LeaksAreBounded == Spec => []LeakOnlyFailedReads
<1>1. Inv => LeakOnlyFailedReads
  <2> SUFFICES ASSUME Inv PROVE LeakOnlyFailedReads
    OBVIOUS
  <2>1. TypeOK /\ LeakInv
    BY DEF Inv, IInv
  <2>2. {c \in Cells : Places(c) = 0} = Leaked
    BY PlacesCounted DEF Inv, Leaked
  <2>3. (\A x, y \in Leaked : x = y) =>
           Cardinality(Leaked) \in 0 .. 1 /\ (Leaked = {} => Cardinality(Leaked) = 0)
    BY AtMostOne
  <2>4. (\A x, y, z \in Leaked : x = y \/ y = z \/ x = z) => Cardinality(Leaked) <= 2
    <3> SUFFICES ASSUME \A x, y, z \in Leaked : x = y \/ y = z \/ x = z
                 PROVE  Cardinality(Leaked) <= 2
      OBVIOUS
    <3>1. CASE \A x, y \in Leaked : x = y
      BY <2>3, <3>1
    <3>2. CASE \E x, y \in Leaked : x # y
      <4>1. PICK x \in Leaked, y \in Leaked : x # y
        BY <3>2
      <4>2. Leaked = {x} \cup {y}
        BY <4>1
      <4>3. IsFiniteSet({x}) /\ Cardinality({x}) = 1
        BY FS_Singleton
      <4>4. Cardinality({x} \cup {y}) <= 2
        BY <4>3, FS_AddElement
      <4> QED
        BY <4>2, <4>4
    <3> QED
      BY <3>1, <3>2
  <2>5. CASE conn # "eof"
    <3>1. conn \in {"none", "up", "reset"}
      BY <2>1, <2>5 DEF TypeOK
    <3>2. Cardinality(Leaked) = 0
      BY <2>1, <2>3, <2>5 DEF LeakInv
    <3> QED
      BY <2>2, <3>1, <3>2 DEF LeakOnlyFailedReads
  <2>6. CASE conn = "eof" /\ rpc # "off"
    BY <2>1, <2>2, <2>3, <2>6 DEF LeakInv, LeakOnlyFailedReads
  <2>7. CASE conn = "eof" /\ rpc = "off"
    BY <2>1, <2>2, <2>4, <2>7 DEF LeakInv, LeakOnlyFailedReads
  <2> QED
    BY <2>5, <2>6, <2>7
<1> QED
  BY Inductive, <1>1, PTL

\* With a controller, the switch does not forward before it has handled everything
\* up to CTRL_INITIALIZED.
THEOREM ConfigurationComesFirst == Spec => []ConfiguredBeforeRunning
<1>1. Inv => ConfiguredBeforeRunning
  BY DEF Inv, IInv, ControlInv, ConfiguredBeforeRunning
<1> QED
  BY Inductive, <1>1, PTL

-----------------------------------------------------------------------------
\* What is on its way, as a sequence: the parts follow one another.

\* A sequence is the part of another one that begins after its first n elements.
Follows(s, all, n) == \A i \in 1 .. Len(s) : s[i] = all[n + i]

\* What follows the first n elements, and what follows it in turn.
LEMMA FollowsConcat ==
    ASSUME NEW s \in Seq(Nat), NEW t \in Seq(Nat), NEW all, NEW n \in Nat,
           Follows(s, all, n), Follows(t, all, n + Len(s))
    PROVE  /\ s \o t \in Seq(Nat) /\ Len(s \o t) = Len(s) + Len(t)
           /\ Follows(s \o t, all, n)
<1>1. /\ s \o t \in Seq(Nat) /\ Len(s \o t) = Len(s) + Len(t)
      /\ Len(s) \in Nat /\ Len(t) \in Nat
  OBVIOUS
<1>2. ASSUME NEW i \in 1 .. Len(s \o t) PROVE (s \o t)[i] = all[n + i]
  <2>1. CASE i <= Len(s)
    <3>1. i \in 1 .. Len(s) /\ (s \o t)[i] = s[i]
      BY <1>1, <2>1
    <3> QED
      BY <3>1 DEF Follows
  <2>2. CASE i > Len(s)
    <3>1. i - Len(s) \in 1 .. Len(t) /\ (s \o t)[i] = t[i - Len(s)]
      BY <1>1, <2>2
    <3>2. t[i - Len(s)] = all[n + Len(s) + (i - Len(s))]
      BY <3>1 DEF Follows
    <3>3. n + Len(s) + (i - Len(s)) = n + i
      BY <1>1
    <3> QED
      BY <3>1, <3>2, <3>3
  <2> QED
    BY <1>1, <2>1, <2>2
<1> QED
  BY <1>1, <1>2 DEF Follows

\* What begins with the first element is a prefix of the whole, or the whole.
LEMMA FollowsWhole ==
    ASSUME NEW s \in Seq(Nat), NEW all \in Seq(Nat), Follows(s, all, 0),
           Len(s) <= Len(all)
    PROVE  /\ s = SubSeq(all, 1, Len(s))
           /\ Len(s) = Len(all) => s = all
<1>1. /\ Len(s) \in Nat /\ Len(all) \in Nat
      /\ \A i \in 1 .. Len(s) : s[i] = all[i]
  BY DEF Follows
<1> DEFINE p == SubSeq(all, 1, Len(s))
<1>2. /\ p \in Seq(Nat) /\ Len(p) = Len(s)
      /\ \A i \in 1 .. Len(s) : p[i] = all[i]
  BY <1>1
<1>3. s = p
  BY <1>1, <1>2, SeqEqual
<1>4. Len(s) = Len(all) => s = all
  BY <1>1, SeqEqual
<1> QED
  BY <1>3, <1>4

\* A cell in the hand of a thread, as the message or digest it stands for.
LEMMA InHandFollows ==
    ASSUME TypeOK, NEW c, NEW pc, NEW at, NEW all, NEW n \in Nat,
           pc = at => c \in Cells /\ data[c] = all[n + 1]
    PROVE  /\ InHand(pc, at, c) \in Seq(Nat)
           /\ Len(InHand(pc, at, c)) = IF pc = at THEN 1 ELSE 0
           /\ Follows(InHand(pc, at, c), all, n)
<1>1. CASE pc = at
  <2>1. InHand(pc, at, c) = <<data[c]>> /\ data[c] \in Nat
    BY <1>1 DEF InHand, TypeOK
  <2> QED
    BY <1>1, <2>1 DEF Follows
<1>2. CASE pc # at
  <2>1. InHand(pc, at, c) = <<>>
    BY <1>2 DEF InHand
  <2> QED
    BY <1>2, <2>1, EmptySeq DEF Follows
<1> QED
  BY <1>1, <1>2

\* The cells of a queue, as the messages or digests they stand for.
LEMMA DataOfFollows ==
    ASSUME TypeOK, NEW q \in Seq(Cells), NEW all, NEW n \in Nat,
           \A i \in 1 .. Len(q) : data[q[i]] = all[n + i]
    PROVE  /\ DataOf(q) \in Seq(Nat) /\ Len(DataOf(q)) = Len(q)
           /\ Follows(DataOf(q), all, n)
<1>1. DataOf(q) = [i \in 1 .. Len(q) |-> data[q[i]]] /\ Len(q) \in Nat
  BY DEF DataOf
<1>2. \A i \in 1 .. Len(q) : data[q[i]] \in Nat
  BY DEF TypeOK
<1>3. DataOf(q) \in Seq(Nat) /\ Len(DataOf(q)) = Len(q)
  BY <1>1, <1>2
<1> QED
  BY <1>1, <1>3 DEF Follows

\* The messages are handled in the order the controller sent them, none twice and
\* none skipped; and while the connection lasts each is handled or on its way.
THEOREM MessagesArriveInOrder == Spec => []MessagesInOrder
<1>1. Inv => MessagesInOrder
  <2> SUFFICES ASSUME Inv PROVE MessagesInOrder
    OBVIOUS
  <2> DEFINE all == [i \in 1 .. sent |-> i]
             H == InHand(ipc, "handle", icell)
             Q == DataOf(input_queue)
             R == InHand(rpc, "add", rcell)
  <2>1. TypeOK /\ ControlInv /\ MessageInv
    BY DEF Inv, IInv
  <2>2. /\ sent \in Nat /\ handled \in Seq(Nat) /\ wire \in Seq(Nat)
        /\ input_queue \in Seq(Cells)
        /\ Len(handled) \in Nat /\ Len(input_queue) \in Nat /\ Len(wire) \in Nat
    BY <2>1 DEF TypeOK
  <2>3. all \in Seq(Nat) /\ Len(all) = sent /\ \A i \in 1 .. sent : all[i] = i
    BY <2>2
  <2> HIDE DEF all
  <2>4. Len(handled) <= sent /\ Follows(handled, all, 0)
    BY <2>1, <2>2, <2>3 DEF MessageInv, Follows
  <2>5. handled = SubSeq(all, 1, Len(handled))
    BY <2>2, <2>3, <2>4, FollowsWhole
  <2>6. ASSUME conn = "up", ~shutdown PROVE handled \o (H \o Q \o R \o wire) = all
    <3>1. ipc # "off"
      BY <2>1, <2>6 DEF ControlInv
    <3>2. /\ Handling \in Nat /\ Reading \in Nat
          /\ ipc = "handle" => Handling = 1
          /\ rpc = "add" => Reading = 1
      BY DEF Handling, Reading
    <3>3. Read + Len(wire) = sent /\ Read = Accepted + Reading
          /\ Accepted = Taken + Len(input_queue) /\ Taken = Len(handled) + Handling
      BY <2>1, <2>6, <3>1 DEF MessageInv, Taken, Accepted, Read
    <3>4. /\ H \in Seq(Nat) /\ Len(H) = Handling
          /\ Follows(H, all, Len(handled))
      <4>1. ipc = "handle" => icell \in Cells /\ data[icell] = all[Len(handled) + 1]
        <5> SUFFICES ASSUME ipc = "handle"
                     PROVE  icell \in Cells /\ data[icell] = all[Len(handled) + 1]
          OBVIOUS
        <5>1. icell \in Cells
          BY <2>1 DEF ControlInv, TypeOK, MaybeCell
        <5>2. data[icell] = Taken
          BY <2>1, <3>1 DEF MessageInv
        <5>3. Taken = Len(handled) + 1 /\ Taken \in 1 .. sent
          BY <2>2, <3>2, <3>3
        <5> QED
          BY <2>3, <5>1, <5>2, <5>3
      <4> QED
        BY <2>1, <2>2, <4>1, InHandFollows DEF Handling
    <3>5. /\ Q \in Seq(Nat) /\ Len(Q) = Len(input_queue)
          /\ Follows(Q, all, Taken)
      <4>1. \A i \in 1 .. Len(input_queue) : data[input_queue[i]] = all[Taken + i]
        BY <2>1, <2>2, <2>3, <3>1, <3>2, <3>3 DEF MessageInv
      <4>2. Taken \in Nat
        BY <2>2, <3>2, <3>3
      <4> QED
        BY <2>1, <2>2, <4>1, <4>2, DataOfFollows
    <3>6. /\ R \in Seq(Nat) /\ Len(R) = Reading
          /\ Follows(R, all, Accepted)
      <4>1. rpc = "add" => rcell \in Cells /\ data[rcell] = all[Accepted + 1]
        <5> SUFFICES ASSUME rpc = "add"
                     PROVE  rcell \in Cells /\ data[rcell] = all[Accepted + 1]
          OBVIOUS
        <5>1. rcell \in Cells
          BY <2>1 DEF ControlInv, TypeOK, MaybeCell
        <5>2. data[rcell] = Read
          BY <2>1, <3>1 DEF MessageInv
        <5>3. Read = Accepted + 1 /\ Read \in 1 .. sent
          BY <2>2, <3>2, <3>3
        <5> QED
          BY <2>3, <5>1, <5>2, <5>3
      <4>2. Accepted \in Nat
        BY <2>2, <3>2, <3>3
      <4> QED
        BY <2>1, <4>1, <4>2, InHandFollows DEF Reading
    <3>7. Follows(wire, all, Read)
      <4> SUFFICES ASSUME NEW i \in 1 .. Len(wire) PROVE wire[i] = all[Read + i]
        BY DEF Follows
      <4>1. wire[i] = Read + i
        BY <2>1, <3>1 DEF MessageInv
      <4>2. Read + i \in 1 .. sent
        BY <2>2, <3>2, <3>3
      <4> QED
        BY <2>3, <4>1, <4>2
    <3> HIDE DEF H, Q, R
    <3>8. /\ H \o Q \in Seq(Nat) /\ Len(H \o Q) = Handling + Len(input_queue)
          /\ Follows(H \o Q, all, Len(handled))
      <4>1. Len(handled) + Len(H) = Taken
        BY <3>3, <3>4
      <4>2. Follows(Q, all, Len(handled) + Len(H))
        BY <3>5, <4>1
      <4>3. /\ H \o Q \in Seq(Nat) /\ Len(H \o Q) = Len(H) + Len(Q)
            /\ Follows(H \o Q, all, Len(handled))
        BY <2>2, <3>4, <3>5, <4>2, FollowsConcat
      <4> QED
        BY <3>4, <3>5, <4>3
    <3>9. /\ H \o Q \o R \in Seq(Nat)
          /\ Len(H \o Q \o R) = Handling + Len(input_queue) + Reading
          /\ Follows(H \o Q \o R, all, Len(handled))
      <4>1. Len(handled) + Len(H \o Q) = Accepted
        BY <2>2, <3>2, <3>3, <3>8
      <4> QED
        BY <2>2, <3>2, <3>6, <3>8, <4>1, FollowsConcat
    <3>10. /\ H \o Q \o R \o wire \in Seq(Nat)
           /\ Len(H \o Q \o R \o wire) = sent - Len(handled)
           /\ Follows(H \o Q \o R \o wire, all, Len(handled))
      <4>1. Len(handled) + Len(H \o Q \o R) = Read
        BY <2>2, <3>2, <3>3, <3>9
      <4>2. Len(H \o Q \o R) + Len(wire) = sent - Len(handled)
        BY <2>2, <3>2, <3>3, <3>9
      <4> QED
        BY <2>2, <3>7, <3>9, <4>1, <4>2, FollowsConcat
    <3> DEFINE W == H \o Q \o R \o wire
    <3>11. handled \o W \in Seq(Nat) /\ Len(handled \o W) = sent
           /\ Follows(handled \o W, all, 0)
      <4>1. Len(handled) + Len(W) = sent /\ 0 + Len(handled) = Len(handled)
        BY <2>2, <3>10
      <4> HIDE DEF W
      <4>2. W \in Seq(Nat) /\ Follows(W, all, Len(handled))
        BY <3>10 DEF W
      <4> QED
        BY <2>2, <2>4, <4>1, <4>2, FollowsConcat
    <3> DEFINE T == handled \o W
    <3>12. T \in Seq(Nat) /\ Len(T) = Len(all) /\ Follows(T, all, 0)
      BY <2>3, <3>11
    <3> HIDE DEF T
    <3>13. T = all
      BY <2>2, <2>3, <3>12, FollowsWhole
    <3> QED
      BY <3>13 DEF T
  <2> QED
    BY <2>3, <2>4, <2>5, <2>6 DEF MessagesInOrder, InOrder, all
<1> QED
  BY Inductive, <1>1, PTL

\* The digests are written in the order of send_digest, none twice and none
\* skipped; and while the connection lasts each is written or on its way.
THEOREM DigestsArriveInOrder == Spec => []DigestsInOrder
<1>1. Inv => DigestsInOrder
  <2> SUFFICES ASSUME Inv PROVE DigestsInOrder
    OBVIOUS
  <2> DEFINE H == InHand(opc, "write", ocell)
             Q == DataOf(output_queue)
  <2>1. TypeOK /\ ControlInv /\ DigestInv
    BY DEF Inv, IInv
  <2>2. /\ digests \in Seq(Nat) /\ delivered \in Seq(Nat)
        /\ output_queue \in Seq(Cells)
        /\ Len(delivered) \in Nat /\ Len(output_queue) \in Nat /\ Len(digests) \in Nat
    BY <2>1 DEF TypeOK
  <2>3. Len(delivered) <= Len(digests) /\ Follows(delivered, digests, 0)
    BY <2>1, <2>2 DEF DigestInv, Follows
  <2>4. delivered = SubSeq(digests, 1, Len(delivered))
    BY <2>2, <2>3, FollowsWhole
  <2>5. ASSUME conn = "up", ~shutdown PROVE delivered \o (H \o Q) = digests
    <3>1. opc # "off" /\ sock_open
      BY <2>1, <2>5 DEF ControlInv, TypeOK
    <3>2. Writing \in Nat /\ (opc = "write" => Writing = 1)
      BY DEF Writing
    <3>3. Written + Len(output_queue) = Len(digests) /\ Written = Len(delivered) + Writing
      BY <2>1, <2>5, <3>1 DEF DigestInv, Written
    <3>4. /\ H \in Seq(Nat) /\ Len(H) = Writing
          /\ Follows(H, digests, Len(delivered))
      <4>1. opc = "write" => ocell \in Cells /\ data[ocell] = digests[Len(delivered) + 1]
        BY <2>1, <2>5, <3>1, <3>2, <3>3 DEF DigestInv, ControlInv, TypeOK, MaybeCell
      <4> QED
        BY <2>1, <2>2, <4>1, InHandFollows DEF Writing
    <3>5. /\ Q \in Seq(Nat) /\ Len(Q) = Len(output_queue)
          /\ Follows(Q, digests, Written)
      <4>1. \A i \in 1 .. Len(output_queue) : data[output_queue[i]] = digests[Written + i]
        BY <2>1, <2>5, <3>1 DEF DigestInv
      <4>2. Written \in Nat
        BY <2>2, <3>2, <3>3
      <4> QED
        BY <2>1, <2>2, <4>1, <4>2, DataOfFollows
    <3> HIDE DEF H, Q
    <3>6. /\ H \o Q \in Seq(Nat) /\ Len(H \o Q) = Len(H) + Len(Q)
          /\ Follows(H \o Q, digests, Len(delivered))
      BY <2>2, <3>2, <3>3, <3>4, <3>5, FollowsConcat
    <3> DEFINE W == H \o Q
    <3>7. /\ delivered \o W \in Seq(Nat) /\ Len(delivered \o W) = Len(digests)
          /\ Follows(delivered \o W, digests, 0)
      <4>1. Len(delivered) + Len(W) = Len(digests) /\ 0 + Len(delivered) = Len(delivered)
        BY <2>2, <3>2, <3>3, <3>4, <3>5, <3>6
      <4> HIDE DEF W
      <4>2. W \in Seq(Nat) /\ Follows(W, digests, Len(delivered))
        BY <3>6 DEF W
      <4> QED
        BY <2>2, <2>3, <4>1, <4>2, FollowsConcat
    <3> DEFINE T == delivered \o W
    <3>8. T \in Seq(Nat) /\ Len(T) = Len(digests) /\ Follows(T, digests, 0)
      BY <3>7
    <3> HIDE DEF T
    <3>9. T = digests
      BY <2>2, <3>8, FollowsWhole
    <3> QED
      BY <3>9 DEF T
  <2> QED
    BY <2>3, <2>4, <2>5 DEF DigestsInOrder, InOrder
<1> QED
  BY Inductive, <1>1, PTL
=============================================================================
