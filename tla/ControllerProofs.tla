---------------------------- MODULE ControllerProofs ----------------------------
(***************************************************************************)
(* Proofs about the controller framework, for any number of switches that  *)
(* connect, of entries, of digests and of pool threads, and any size of    *)
(* the queue: where each message is, in which order a switch gets its      *)
(* part, and that the first switch is told to start only when it is        *)
(* configured.                                                             *)
(***************************************************************************)
EXTENDS Controller, TLAPS, FiniteSetTheorems, SequenceTheorems

-----------------------------------------------------------------------------
\* The inductive invariant: the main thread, the descriptors, the digests, the
\* messages and their order.

ScriptLen == NEntries + (IF NotifyFirst THEN 0 ELSE 1)

MainInv ==
    /\ mpc = "start" => accepted = 0
    /\ mpc \in {"dispatched", "init"} => accepted # 0
    /\ IF mpc = "init" THEN todo \in 1 .. ScriptLen ELSE todo = 0

\* A connection that is open has the descriptor its output_processor was given.
FilesInv ==
    /\ \A k \in Conns : sock_fd[k] # 0 <=> k <= accepted
    /\ \A k \in Conns : fd[k] # 0 => fd[k] = sock_fd[k]
    /\ \A j, k \in Conns : fd[j] = fd[k] /\ fd[j] # 0 => j = k
    /\ \A k \in Conns : k <= accepted => peer[k] # "none" /\ (fd[k] = 0 => peer[k] = "eof")
    /\ \A k \in Conns : wcell[k] # None \/ recv[k] # <<>> => k <= accepted

Members(q) == {q[i] : i \in DOMAIN q}
Once(q) == \A i, j \in DOMAIN q : q[i] = q[j] => i = j

\* A digest is in one place, until its handler has returned.
OnWires == UNION {Members(wire[k]) : k \in Conns}
InHandlers == {icell[k] : k \in Conns} \ {None}
DigestInv ==
    /\ \A d \in OnWires \cup Members(input_queue) \cup InHandlers \cup answered : d <= made
    /\ \A k \in Conns : Once(wire[k])
    /\ \A j, k \in Conns : j # k => Members(wire[j]) \cap Members(wire[k]) = {}
    /\ Once(input_queue)
    /\ \A j, k \in Conns : icell[j] = icell[k] /\ icell[j] # None => j = k
    /\ \A d \in OnWires :
          d \notin Members(input_queue) /\ d \notin InHandlers /\ d \notin answered
    /\ \A d \in Members(input_queue) : d \notin InHandlers /\ d \notin answered
    /\ \A d \in InHandlers : d \notin answered
    /\ \A k \in Conns : IF icell[k] = None THEN istep[k] = 0
                        ELSE istep[k] <= Len(Answers(icell[k]))

\* A message is in one place: the queue, the hands of an output_processor, what
\* was written to one connection, or it is lost.
InHands == {wcell[k] : k \in Conns} \ {None}
Written == UNION {Members(recv[k]) : k \in Conns}
OnceEach ==
    /\ Once(output_queue)
    /\ \A j, k \in Conns : wcell[j] = wcell[k] /\ wcell[j] # None => j = k
    /\ \A k \in Conns : Once(recv[k])
    /\ \A j, k \in Conns : j # k => Members(recv[j]) \cap Members(recv[k]) = {}
Apart ==
    /\ \A m \in Members(output_queue) : m \notin InHands /\ m \notin Written /\ m \notin lost
    /\ \A m \in InHands : m \notin Written /\ m \notin lost
    /\ \A m \in Written : m \notin lost

\* Every message that was sent, and no other, is somewhere.
Somewhere == Members(output_queue) \cup InHands \cup Written \cup lost
KnownInv == \A m \in Messages : m \in Somewhere <=> WasSent(m)

\* Of one run of init(), or the answers to one digest, what is further on its way was
\* sent earlier.
Before(a, b) == a[1] = b[1] /\ a[2] = b[2] => a[3] < b[3]
Ordered(q) == \A i, j \in DOMAIN q : i < j => Before(q[i], q[j])
OrderInv ==
    /\ Ordered(output_queue)
    /\ \A a \in InHands \cup Written, b \in Members(output_queue) : Before(a, b)
    /\ OneWriterEach =>
          \A k \in Conns : /\ Ordered(recv[k])
                           /\ wcell[k] # None =>
                                 \A a \in Members(recv[k]) : Before(a, wcell[k])

IInv == /\ TypeOK /\ MainInv /\ FilesInv /\ DigestInv
        /\ OnceEach /\ Apart /\ KnownInv /\ OrderInv

\* While there is one connection: a queue that takes all of init() drops none of it,
\* and what is lost was written to a switch that is gone.
Entry(i) == <<"init", 1, i>>
FirstInv ==
    accepted <= 1 =>
       /\ made # 0 => accepted = 1 /\ Told(1)
       /\ mpc # "init" /\ (accepted = 0 \/ mpc = "dispatched") => output_queue = <<>>
       /\ mpc = "init" => Len(output_queue) < todo
       /\ accepted = 1 =>
             /\ \A i \in 1 .. ScriptLen : Entry(i) \in lost => peer[1] # "up"
             /\ Told(1) => \A i \in 1 .. NEntries : Entry(i) \in Members(recv[1])
-----------------------------------------------------------------------------
\* Facts about the queues, and about what is sent.

\* What fifo_add_msg does to a queue with room.
LEMMA QueueAppend ==
    ASSUME NEW S, NEW q \in Seq(S), NEW c \in S
    PROVE  /\ Append(q, c) \in Seq(S) /\ Len(Append(q, c)) = Len(q) + 1 /\ Append(q, c) # <<>>
           /\ Members(Append(q, c)) = Members(q) \cup {c}
           /\ Once(q) /\ c \notin Members(q) => Once(Append(q, c))
           /\ Ordered(q) /\ (\A a \in Members(q) : Before(a, c)) => Ordered(Append(q, c))
<1> DEFINE a == Append(q, c)
<1>1. /\ a \in Seq(S) /\ Len(a) = Len(q) + 1 /\ Len(q) \in Nat
      /\ \A i \in 1 .. Len(q) : a[i] = q[i]
      /\ a[Len(q) + 1] = c
      /\ DOMAIN a = 1 .. Len(q) + 1 /\ DOMAIN q = 1 .. Len(q)
  OBVIOUS
<1> HIDE DEF a
<1>2. \A i \in DOMAIN a : i \in 1 .. Len(q) \/ i = Len(q) + 1
  BY <1>1
<1>3. \A i \in DOMAIN q : i \in DOMAIN a
  BY <1>1
<1>4. Len(q) + 1 \in DOMAIN a
  BY <1>1
<1>5. Members(a) = Members(q) \cup {c}
  BY <1>1, <1>2, <1>3, <1>4, Zenon DEF Members
<1>6. ASSUME Once(q), c \notin Members(q) PROVE Once(a)
  BY <1>1, <1>2, <1>6 DEF Once, Members
<1>7. ASSUME Ordered(q), \A b \in Members(q) : Before(b, c) PROVE Ordered(a)
  <2> SUFFICES ASSUME NEW i \in DOMAIN a, NEW j \in DOMAIN a, i < j PROVE Before(a[i], a[j])
    BY DEF Ordered
  <2>1. i \in DOMAIN q /\ a[i] = q[i]
    BY <1>1, <1>2
  <2>2. CASE j \in 1 .. Len(q)
    BY <1>1, <1>7, <2>1, <2>2 DEF Ordered
  <2>3. CASE j = Len(q) + 1
    BY <1>1, <1>7, <2>1, <2>3 DEF Members
  <2> QED
    BY <1>2, <2>2, <2>3
<1>8. a # <<>>
  BY <1>1
<1> QED
  BY <1>1, <1>5, <1>6, <1>7, <1>8 DEF a

\* What fifo_remove_msg does to a queue that is not empty.
LEMMA QueueTail ==
    ASSUME NEW S, NEW q \in Seq(S), q # <<>>
    PROVE  /\ Tail(q) \in Seq(S) /\ Head(q) \in S /\ Len(q) = Len(Tail(q)) + 1
           /\ Members(q) = Members(Tail(q)) \cup {Head(q)}
           /\ Once(q) => Once(Tail(q)) /\ Head(q) \notin Members(Tail(q))
           /\ Ordered(q) => /\ Ordered(Tail(q))
                            /\ \A b \in Members(Tail(q)) : Before(Head(q), b)
<1> DEFINE t == Tail(q)
<1>1. /\ t \in Seq(S) /\ Len(q) = Len(t) + 1 /\ Len(t) \in Nat
      /\ \A i \in 1 .. Len(t) : i + 1 \in 1 .. Len(q) /\ t[i] = q[i + 1]
      /\ Head(q) = q[1] /\ Head(q) \in S
      /\ DOMAIN t = 1 .. Len(t) /\ DOMAIN q = 1 .. Len(q)
  OBVIOUS
<1> HIDE DEF t
<1>2. \A j \in DOMAIN q : j = 1 \/ (j - 1 \in DOMAIN t /\ q[j] = t[j - 1])
  <2> SUFFICES ASSUME NEW j \in DOMAIN q, j # 1
               PROVE  j - 1 \in DOMAIN t /\ q[j] = t[j - 1]
    OBVIOUS
  <2>1. j - 1 \in 1 .. Len(t) /\ (j - 1) + 1 = j
    BY <1>1
  <2> QED
    BY <1>1, <2>1
<1>3. 1 \in DOMAIN q
  BY <1>1
<1>4. Members(q) = Members(t) \cup {Head(q)}
  <2>1. \A j \in DOMAIN q : q[j] \in Members(t) \cup {Head(q)}
    BY <1>1, <1>2 DEF Members
  <2>2. Members(t) \cup {Head(q)} \subseteq Members(q)
    BY <1>1, <1>3 DEF Members
  <2> QED
    BY <2>1, <2>2 DEF Members
<1>5. \A i \in DOMAIN t : i + 1 \in DOMAIN q /\ t[i] = q[i + 1] /\ 1 < i + 1 /\ i \in Nat
  BY <1>1
<1>6. ASSUME Once(q) PROVE Once(t) /\ Head(q) \notin Members(t)
  <2>1. Once(t)
    BY <1>1, <1>6 DEF Once
  <2>2. \A i \in DOMAIN t : t[i] # q[1]
    BY <1>3, <1>5, <1>6 DEF Once
  <2> QED
    BY <1>1, <2>1, <2>2 DEF Members
<1>7. ASSUME Ordered(q) PROVE Ordered(t) /\ \A b \in Members(t) : Before(Head(q), b)
  <2>1. ASSUME NEW i \in DOMAIN t, NEW j \in DOMAIN t, i < j PROVE Before(t[i], t[j])
    <3>1. i + 1 < j + 1
      BY <1>5, <2>1
    <3> QED
      BY <1>5, <1>7, <3>1 DEF Ordered
  <2>2. \A i \in DOMAIN t : Before(q[1], t[i])
    BY <1>3, <1>5, <1>7 DEF Ordered
  <2> QED
    BY <1>1, <2>1, <2>2 DEF Ordered, Members
<1> QED
  BY <1>1, <1>4, <1>6, <1>7 DEF t

\* The two kinds of message.
LEMMA MessageForms ==
    ASSUME NEW m \in Messages
    PROVE  \/ \E k \in 0 .. MaxConns, i \in 1 .. NEntries + 1 : m = <<"init", k, i>>
           \/ \E d \in Digests, i \in {1, 2} : m = <<"learn", d, i>>
BY DEF Messages

\* The messages of init(), in order; all that is sent is a message.
LEMMA ScriptIs ==
    ASSUME NEW k \in 0 .. MaxConns
    PROVE  /\ Len(Script(k)) = ScriptLen /\ ScriptLen \in 1 .. NEntries + 1
           /\ DOMAIN Script(k) = 1 .. ScriptLen
           /\ \A i \in 1 .. ScriptLen : /\ Script(k)[i] = <<"init", k, i>>
                                        /\ <<"init", k, i>> \in Messages
<1> DEFINE E == [i \in 1 .. NEntries |-> <<"init", k, i>>]
<1>1. NEntries \in Nat \ {0}
  BY NEntriesAssumption
<1>2. \A i \in 1 .. NEntries + 1 : <<"init", k, i>> \in Messages
  BY DEF Messages
<1>3. E \in Seq(Messages) /\ Len(E) = NEntries /\ \A i \in 1 .. NEntries : E[i] = <<"init", k, i>>
  BY <1>1, <1>2
<1>4. CtrlInitialized(k) = <<"init", k, NEntries + 1>> /\ CtrlInitialized(k) \in Messages
  BY <1>1, <1>2 DEF CtrlInitialized
<1> HIDE DEF E
<1>5. CASE NotifyFirst
  <2>1. Script(k) = E \o <<>> /\ ScriptLen = NEntries
    BY <1>1, <1>5 DEF Script, E, ScriptLen
  <2>2. Script(k) = E
    BY <1>3, <2>1
  <2> QED
    BY <1>1, <1>2, <1>3, <2>1, <2>2
<1>6. CASE ~NotifyFirst
  <2>1. Script(k) = E \o <<CtrlInitialized(k)>> /\ ScriptLen = NEntries + 1
    BY <1>6 DEF Script, E, ScriptLen
  <2>2. Script(k) = Append(E, CtrlInitialized(k))
    BY <1>3, <1>4, <2>1
  <2>3. /\ Script(k) \in Seq(Messages) /\ Len(Script(k)) = NEntries + 1
        /\ \A i \in 1 .. NEntries : Script(k)[i] = E[i]
        /\ Script(k)[NEntries + 1] = CtrlInitialized(k)
    BY <1>1, <1>3, <1>4, <2>2
  <2>4. \A i \in 1 .. NEntries + 1 : i \in 1 .. NEntries \/ i = NEntries + 1
    BY <1>1
  <2> QED
    BY <1>1, <1>2, <1>3, <1>4, <2>1, <2>3, <2>4
<1> QED
  BY <1>5, <1>6

\* Which messages of init() were sent ...
LEMMA SentInit ==
    ASSUME NEW k \in 0 .. MaxConns, NEW i \in 1 .. NEntries + 1
    PROVE  WasSent(<<"init", k, i>>) <=>
             IF k = 0 THEN NotifyFirst /\ mpc # "start" /\ i = NEntries + 1
             ELSE /\ i <= ScriptLen
                  /\ \/ k < accepted
                     \/ k = accepted /\ mpc = "select"
                     \/ k = accepted /\ mpc = "init" /\ i < todo
<1> DEFINE m == <<"init", k, i>>
<1>1. m[1] = "init" /\ m[2] = k /\ m[3] = i
  OBVIOUS
<1>2. CASE k = 0
  BY <1>1, <1>2 DEF WasSent, CtrlInitialized
<1>3. CASE k # 0
  <2>1. /\ DOMAIN Script(k) = 1 .. ScriptLen /\ ScriptLen \in Nat
        /\ \A j \in 1 .. ScriptLen : Script(k)[j] = <<"init", k, j>>
    <3>1. /\ DOMAIN Script(k) = 1 .. ScriptLen /\ ScriptLen \in 1 .. NEntries + 1
          /\ \A j \in 1 .. ScriptLen : Script(k)[j] = <<"init", k, j>>
      BY ScriptIs
    <3>2. ScriptLen \in Nat
      BY <3>1, NEntriesAssumption
    <3> QED
      BY <3>1, <3>2
  <2>2. WasSent(m) <=> \E j \in DOMAIN Script(k) :
           /\ Script(k)[j] = m
           /\ \/ k < accepted
              \/ k = accepted /\ mpc = "select"
              \/ k = accepted /\ mpc = "init" /\ j < todo
    BY <1>1, <1>3 DEF WasSent
  <2>3. \A j \in 1 .. ScriptLen : <<"init", k, j>> = m <=> j = i
    OBVIOUS
  <2>4. i \in Nat /\ (i <= ScriptLen <=> i \in 1 .. ScriptLen)
    BY <2>1, NEntriesAssumption
  <2> QED
    BY <1>3, <2>1, <2>2, <2>3, <2>4
<1> QED
  BY <1>2, <1>3

\* ... and which answers.
LEMMA SentLearn ==
    ASSUME NEW d \in Digests, NEW i \in {1, 2}
    PROVE  WasSent(<<"learn", d, i>>) <=>
             d \in answered \ Unknown \/ \E k \in Conns : icell[k] = d /\ i <= istep[k]
<1> DEFINE m == <<"learn", d, i>>
<1>1. m[1] = "learn" /\ m[2] = d /\ m[3] = i
  OBVIOUS
<1> QED
  BY <1>1 DEF WasSent

\* The answers to a digest.
LEMMA AnswersAre ==
    ASSUME NEW d \in Digests
    PROVE  /\ d \in Unknown => Len(Answers(d)) = 0
           /\ d \notin Unknown => /\ Len(Answers(d)) = 2
                                  /\ \A i \in {1, 2} : Answers(d)[i] = <<"learn", d, i>>
           /\ \A i \in {1, 2} : <<"learn", d, i>> \in Messages
BY DEF Answers, Messages

\* The answer that is sent next.
LEMMA NextAnswer ==
    ASSUME NEW d \in Digests, NEW i \in 0 .. 2, i < Len(Answers(d))
    PROVE  /\ d \notin Unknown /\ i + 1 \in {1, 2}
           /\ Answers(d)[i + 1] = <<"learn", d, i + 1>>
           /\ Answers(d)[i + 1] \in Messages
<1>1. d \notin Unknown
  <2>1. d \in Unknown => Len(Answers(d)) = 0
    BY AnswersAre
  <2>2. ~(i < 0)
    OBVIOUS
  <2> QED
    BY <2>1, <2>2
<1>2. Len(Answers(d)) = 2 /\ \A j \in {1, 2} : Answers(d)[j] = <<"learn", d, j>>
                                            /\ <<"learn", d, j>> \in Messages
  BY <1>1, AnswersAre
<1>3. i + 1 \in {1, 2}
  BY <1>2
<1> QED
  BY <1>1, <1>2, <1>3

-----------------------------------------------------------------------------
\* The types, the main thread and the descriptors.

\* Every action keeps the types.
LEMMA TypeStep == ASSUME IInv, [Next]_vars PROVE TypeOK'
<1> USE SizesAssumption, BoundsAssumption, NEntriesAssumption DEF TypeOK
<1>0. TypeOK /\ MainInv /\ FilesInv /\ DigestInv
  BY DEF IInv
<1> USE <1>0
<1>1. ASSUME NEW m \in Messages, send_p4_msg(m)
      PROVE  output_queue' \in Seq(Messages) /\ lost' \subseteq Messages
  <2>1. Append(output_queue, m) \in Seq(Messages)
    BY QueueAppend
  <2> QED
    BY <1>1, <2>1 DEF send_p4_msg
<1>2. CASE MainStarts
  <2>1. CtrlInitialized(0) \in Messages
    BY DEF CtrlInitialized, Messages
  <2>2. output_queue' \in Seq(Messages) /\ lost' \subseteq Messages
    BY <1>1, <1>2, <2>1 DEF MainStarts
  <2> QED
    BY <1>2, <2>2 DEF MainStarts, switches, files, input
<1>3. CASE MainAccepts
  <2>1. accepted' \in Conns /\ accepted' \in 0 .. MaxConns
    BY <1>3 DEF MainAccepts, Conns
  <2>2. PICK n \in Conns : /\ fd' = [fd EXCEPT ![accepted'] = n]
                           /\ sock_fd' = [sock_fd EXCEPT ![accepted'] = n]
    BY <1>3 DEF MainAccepts
  <2>3. n \in 0 .. MaxConns
    BY DEF Conns
  <2>4. fd' \in [Conns -> 0 .. MaxConns] /\ sock_fd' \in [Conns -> 0 .. MaxConns]
    BY <2>2, <2>3
  <2> QED
    BY <1>3, <2>1, <2>4 DEF MainAccepts, switches, input
<1>4. CASE MainDispatches
  BY <1>4 DEF MainDispatches, switches, files, input
<1>5. CASE MainInits
  <2>1. accepted \in 0 .. MaxConns /\ todo \in 1 .. ScriptLen
    BY <1>5 DEF MainInits, MainInv
  <2>2. /\ Len(Script(accepted)) = ScriptLen /\ ScriptLen \in 1 .. NEntries + 1
        /\ Script(accepted)[todo] \in Messages
    BY <2>1, ScriptIs
  <2>3. output_queue' \in Seq(Messages) /\ lost' \subseteq Messages
    BY <1>1, <1>5, <2>2 DEF MainInits
  <2>4. todo' \in 0 .. NEntries + 1 /\ mpc' \in {"start", "select", "dispatched", "init"}
    BY <1>5, <2>1, <2>2 DEF MainInits
  <2> QED
    BY <1>5, <2>3, <2>4 DEF MainInits, switches, files, input
<1>6. ASSUME NEW k \in Conns, MainReads(k) PROVE TypeOK'
  <2>1. Head(wire[k]) \in Digests /\ Tail(wire[k]) \in Seq(Digests)
    BY <1>6, QueueTail DEF MainReads
  <2>2. input_queue' \in Seq(Digests)
    BY <1>6, <2>1, QueueAppend DEF MainReads
  <2>3. wire' \in [Conns -> Seq(Digests)]
    BY <1>6, <2>1 DEF MainReads
  <2> QED
    BY <1>6, <2>2, <2>3 DEF MainReads, main, files, input
<1>7. ASSUME NEW k \in Conns, MainReadError(k) PROVE TypeOK'
  BY <1>7 DEF MainReadError, main, files, input
<1>8. ASSUME NEW k \in Conns, MainReadEOF(k) PROVE TypeOK'
  BY <1>8 DEF MainReadEOF, switches, main, input
<1>9. ASSUME NEW k \in Conns, OutputRemoves(k) PROVE TypeOK'
  <2>1. Head(output_queue) \in Messages /\ Tail(output_queue) \in Seq(Messages)
    BY <1>9, QueueTail DEF OutputRemoves
  <2>2. wcell' \in [Conns -> Messages \cup {None}]
    BY <1>9, <2>1 DEF OutputRemoves
  <2> QED
    BY <1>9, <2>1, <2>2 DEF OutputRemoves, switches, main, files, input
<1>10. ASSUME NEW k \in Conns, OutputWrites(k) PROVE TypeOK'
  <2> DEFINE got == {j \in Conns : fd[j] = sock_fd[k] /\ peer[j] = "up"}
  <2>1. /\ recv' = [j \in Conns |-> IF j \in got THEN Append(recv[j], wcell[k]) ELSE recv[j]]
        /\ lost' = IF got = {} THEN lost \cup {wcell[k]} ELSE lost
        /\ wcell[k] \in Messages
    BY <1>10 DEF OutputWrites
  <2>2. \A j \in Conns : Append(recv[j], wcell[k]) \in Seq(Messages) /\ recv[j] \in Seq(Messages)
    BY <2>1, QueueAppend
  <2> HIDE DEF got
  <2>3. recv' \in [Conns -> Seq(Messages)] /\ lost' \subseteq Messages
    BY <2>1, <2>2
  <2>4. wcell' \in [Conns -> Messages \cup {None}]
    BY <1>10 DEF OutputWrites
  <2> QED
    BY <1>10, <2>3, <2>4 DEF OutputWrites, switches, main, files, input
<1>11. ASSUME NEW k \in Conns, OutputKilled(k) PROVE TypeOK'
  BY <1>11 DEF OutputKilled, switches, main, files, input
<1>12. ASSUME NEW k \in Conns, InputRemoves(k) PROVE TypeOK'
  <2>1. Head(input_queue) \in Digests /\ Tail(input_queue) \in Seq(Digests)
    BY <1>12, QueueTail DEF InputRemoves
  <2>2. icell' \in [Conns -> Digests \cup {None}]
    BY <1>12, <2>1 DEF InputRemoves
  <2> QED
    BY <1>12, <2>1, <2>2 DEF InputRemoves, switches, main, files
<1>13. ASSUME NEW k \in Conns, InputAnswers(k) PROVE TypeOK'
  <2>1. icell[k] \in Digests /\ istep[k] \in 0 .. 2 /\ istep[k] < Len(Answers(icell[k]))
    BY <1>13 DEF InputAnswers
  <2>2. /\ istep[k] + 1 \in {1, 2}
        /\ Answers(icell[k])[istep[k] + 1] \in Messages
    BY <2>1, NextAnswer
  <2>3. istep' \in [Conns -> 0 .. 2] /\ istep'[k] = istep[k] + 1
    BY <1>13, <2>2 DEF InputAnswers
  <2>4. output_queue' \in Seq(Messages) /\ lost' \subseteq Messages
    BY <1>1, <1>13, <2>2, <2>3 DEF InputAnswers
  <2> QED
    BY <1>13, <2>3, <2>4 DEF InputAnswers, switches, main, files
<1>14. ASSUME NEW k \in Conns, InputReturns(k) PROVE TypeOK'
  BY <1>14 DEF InputReturns, switches, main, files
<1>15. CASE SwitchConnects
  BY <1>15 DEF SwitchConnects, main, files, input
<1>16. ASSUME NEW k \in Conns, SwitchSendsDigest(k) PROVE TypeOK'
  <2>1. made' \in Digests /\ made' \in 0 .. MaxDigests
    BY <1>16 DEF SwitchSendsDigest, Digests
  <2>2. Append(wire[k], made') \in Seq(Digests)
    BY <2>1, QueueAppend
  <2>3. wire' \in [Conns -> Seq(Digests)]
    BY <1>16, <2>2 DEF SwitchSendsDigest
  <2> QED
    BY <1>16, <2>1, <2>3 DEF SwitchSendsDigest, main, files, input
<1>17. ASSUME NEW k \in Conns, SwitchEnds(k) PROVE TypeOK'
  <2>1. <<>> \in Seq(Digests)
    BY EmptySeq
  <2>2. /\ wire' \in [Conns -> Seq(Digests)]
        /\ peer' \in [Conns -> {"none", "up", "eof", "reset"}]
    <3>1. /\ wire \in [Conns -> Seq(Digests)]
          /\ peer \in [Conns -> {"none", "up", "eof", "reset"}]
      BY DEF TypeOK
    <3>2. CASE peer' = [peer EXCEPT ![k] = "eof"] /\ wire' = wire
      BY <3>1, <3>2
    <3>3. CASE /\ peer' = [peer EXCEPT ![k] = "reset"]
               /\ wire' = [wire EXCEPT ![k] = <<>>]
      BY <2>1, <3>1, <3>3
    <3> QED
      BY <1>17, <3>2, <3>3 DEF SwitchEnds
  <2>3. UNCHANGED <<made, main, files, input, recv, input_queue, output_queue,
                    wcell, lost, dead>>
    BY <1>17 DEF SwitchEnds
  <2> QED
    BY <2>2, <2>3 DEF main, files, input
<1>18. CASE UNCHANGED vars
  BY <1>18 DEF vars, switches, main, files, input
<1> QED
  BY <1>2, <1>3, <1>4, <1>5, <1>6, <1>7, <1>8, <1>9, <1>10, <1>11, <1>12, <1>13, <1>14,
     <1>15, <1>16, <1>17, <1>18
     DEF Next, execute_controller, output_processor, input_processor

\* init() runs after an accept, for the connection accepted last.
LEMMA MainStep == ASSUME IInv, [Next]_vars PROVE MainInv'
<1>0. TypeOK /\ MainInv
  BY DEF IInv
<1>1. CASE UNCHANGED main
  BY <1>0, <1>1 DEF MainInv, main
<1>2. CASE MainStarts
  BY <1>0, <1>2 DEF TypeOK, MainInv, MainStarts
<1>3. CASE MainAccepts
  BY <1>0, <1>3, BoundsAssumption DEF TypeOK, MainInv, MainAccepts
<1>4. CASE MainDispatches
  <2>1. 1 \in 1 .. ScriptLen
    BY NEntriesAssumption DEF ScriptLen
  <2> QED
    BY <1>0, <1>4, <2>1 DEF TypeOK, MainInv, MainDispatches
<1>5. CASE MainInits
  <2>1. accepted \in 0 .. MaxConns
    BY <1>0 DEF TypeOK
  <2>2. Len(Script(accepted)) = ScriptLen /\ ScriptLen \in Nat
    BY <2>1, ScriptIs, NEntriesAssumption DEF ScriptLen
  <2> QED
    BY <1>0, <1>5, <2>2 DEF TypeOK, MainInv, MainInits
<1>6. \/ UNCHANGED main \/ MainStarts \/ MainAccepts \/ MainDispatches \/ MainInits
  BY DEF Next, execute_controller, output_processor, input_processor, vars, MainReads,
         MainReadError, MainReadEOF, OutputRemoves, OutputWrites, OutputKilled,
         InputRemoves, InputAnswers, InputReturns, SwitchConnects, SwitchSendsDigest,
         SwitchEnds, main
<1> QED
  BY <1>1, <1>2, <1>3, <1>4, <1>5, <1>6

\* A descriptor belongs to one open connection, and to the output_processor that was
\* dispatched for it.
LEMMA FilesStep == ASSUME IInv, [Next]_vars PROVE FilesInv'
<1>0. TypeOK /\ MainInv /\ FilesInv
  BY DEF IInv
<1> DEFINE seen == <<fd, sock_fd, accepted, peer, wcell, recv>>
<1>1. CASE UNCHANGED seen
  BY <1>0, <1>1 DEF FilesInv
<1>2. CASE MainAccepts
  <2> DEFINE a == accepted + 1
  <2>1. PICK n \in Conns : /\ \A k \in Conns : fd[k] # n
                           /\ fd' = [fd EXCEPT ![a] = n]
                           /\ sock_fd' = [sock_fd EXCEPT ![a] = n]
    BY <1>2 DEF MainAccepts
  <2>2. /\ a \in Conns /\ accepted' = a /\ peer[a] # "none" /\ accepted \in Nat
        /\ UNCHANGED <<peer, wcell, recv>>
    BY <1>0, <1>2, BoundsAssumption DEF MainAccepts, TypeOK, Conns, switches
  <2>3. /\ fd'[a] = n /\ sock_fd'[a] = n /\ n # 0
        /\ \A k \in Conns : k # a => fd'[k] = fd[k] /\ sock_fd'[k] = sock_fd[k]
    BY <1>0, <2>1, <2>2 DEF TypeOK, Conns
  <2>4. \A k \in Conns : k <= a <=> k <= accepted \/ k = a
    BY <2>2 DEF Conns
  <2> HIDE DEF a
  <2>5. \A k \in Conns : sock_fd'[k] # 0 <=> k <= accepted'
    BY <1>0, <2>2, <2>3, <2>4 DEF FilesInv
  <2>6. \A k \in Conns : fd'[k] # 0 => fd'[k] = sock_fd'[k]
    BY <1>0, <2>3 DEF FilesInv
  <2>7. \A j, k \in Conns : fd'[j] = fd'[k] /\ fd'[j] # 0 => j = k
    BY <1>0, <2>1, <2>3 DEF FilesInv
  <2>8. \A k \in Conns : k <= accepted' =>
           peer'[k] # "none" /\ (fd'[k] = 0 => peer'[k] = "eof")
    BY <1>0, <2>2, <2>3, <2>4 DEF FilesInv
  <2>9. \A k \in Conns : wcell'[k] # None \/ recv'[k] # <<>> => k <= accepted'
    BY <1>0, <2>2, <2>4 DEF FilesInv
  <2> QED
    BY <2>5, <2>6, <2>7, <2>8, <2>9 DEF FilesInv
<1>3. ASSUME NEW c \in Conns, MainReadError(c) PROVE FilesInv'
  <2>1. /\ UNCHANGED <<fd, sock_fd, accepted, wcell, recv>>
        /\ \A k \in Conns : peer'[k] = peer[k] \/ peer'[k] = "eof"
        /\ \A k \in Conns : peer[k] = "eof" => peer'[k] = "eof"
    BY <1>0, <1>3 DEF MainReadError, TypeOK, main, files
  <2> QED
    BY <1>0, <2>1 DEF FilesInv
<1>4. ASSUME NEW c \in Conns, MainReadEOF(c) PROVE FilesInv'
  <2>1. /\ UNCHANGED <<sock_fd, accepted, peer, wcell, recv>>
        /\ \A k \in Conns : fd'[k] = fd[k] \/ (k = c /\ fd'[k] = 0)
        /\ peer[c] = "eof"
    BY <1>0, <1>4 DEF MainReadEOF, TypeOK, main, switches
  <2> QED
    BY <1>0, <2>1 DEF FilesInv
<1>5. ASSUME NEW c \in Conns, OutputRemoves(c) PROVE FilesInv'
  <2>1. /\ UNCHANGED <<fd, sock_fd, accepted, peer, recv>> /\ c <= accepted
        /\ \A k \in Conns : k # c => wcell'[k] = wcell[k]
    BY <1>0, <1>5 DEF OutputRemoves, OutputJob, TypeOK, main, switches, files
  <2> QED
    BY <1>0, <2>1 DEF FilesInv
<1>6. ASSUME NEW c \in Conns, OutputWrites(c) PROVE FilesInv'
  <2>1. /\ UNCHANGED <<fd, sock_fd, accepted, peer>> /\ wcell[c] # None
        /\ \A k \in Conns : wcell'[k] = wcell[k] \/ wcell'[k] = None
        /\ \A k \in Conns : recv'[k] = recv[k] \/ fd[k] = sock_fd[c]
    BY <1>0, <1>6 DEF OutputWrites, TypeOK, main, switches, files
  <2>2. sock_fd[c] # 0
    BY <1>0, <2>1 DEF FilesInv
  <2>3. \A k \in Conns : fd[k] = sock_fd[c] => k <= accepted
    BY <1>0, <2>2 DEF FilesInv
  <2> QED
    BY <1>0, <2>1, <2>3 DEF FilesInv
<1>7. CASE SwitchConnects
  <2>1. /\ UNCHANGED <<fd, sock_fd, accepted, wcell, recv>>
        /\ \A k \in Conns : peer'[k] = peer[k] \/ (peer[k] = "none" /\ peer'[k] = "up")
    BY <1>0, <1>7 DEF SwitchConnects, TypeOK, main, files
  <2> QED
    BY <1>0, <2>1 DEF FilesInv
<1>8. ASSUME NEW c \in Conns, SwitchEnds(c) PROVE FilesInv'
  <2>1. /\ UNCHANGED <<fd, sock_fd, accepted, wcell, recv>>
        /\ \A k \in Conns : peer'[k] = peer[k]
                            \/ (peer[k] = "up" /\ peer'[k] \in {"eof", "reset"})
    BY <1>0, <1>8 DEF SwitchEnds, TypeOK, main, files
  <2> QED
    BY <1>0, <2>1 DEF FilesInv
<1>9. \/ UNCHANGED seen \/ MainAccepts \/ SwitchConnects
      \/ \E k \in Conns : \/ MainReadError(k) \/ MainReadEOF(k) \/ OutputRemoves(k)
                          \/ OutputWrites(k) \/ SwitchEnds(k)
  BY DEF Next, execute_controller, output_processor, input_processor, vars, MainStarts,
         MainDispatches, MainInits, MainReads, OutputKilled,
         InputRemoves, InputAnswers, InputReturns, SwitchSendsDigest, main, switches,
         files, input
<1> QED
  BY <1>1, <1>2, <1>3, <1>4, <1>5, <1>6, <1>7, <1>8, <1>9
-----------------------------------------------------------------------------
\* The digests.

\* Every digest is read, taken and answered by one handler only.
LEMMA DigestStep == ASSUME IInv, [Next]_vars PROVE DigestInv'
<1>0. TypeOK /\ DigestInv
  BY DEF IInv
<1> DEFINE seen == <<wire, made, input_queue, icell, istep, answered>>
<1>1. CASE UNCHANGED seen
  <2>1. UNCHANGED <<wire, made, input_queue, icell, istep, answered>>
    BY <1>1
  <2>2. OnWires' = OnWires /\ InHandlers' = InHandlers
    BY <2>1 DEF OnWires, InHandlers
  <2> QED
    BY <1>0, <2>1, <2>2 DEF DigestInv
<1>2. ASSUME NEW c \in Conns, MainReads(c) PROVE DigestInv'
  <2> DEFINE d == Head(wire[c])
  <2>1. /\ wire[c] \in Seq(Digests) /\ wire[c] # <<>>
        /\ UNCHANGED <<made, icell, istep, answered>>
        /\ wire' = [wire EXCEPT ![c] = Tail(@)]
        /\ input_queue' = input_queue \/ input_queue' = Append(input_queue, d)
    BY <1>0, <1>2 DEF MainReads, TypeOK, input
  <2>2. /\ d \in Digests /\ Tail(wire[c]) \in Seq(Digests)
        /\ Members(wire[c]) = Members(Tail(wire[c])) \cup {d}
        /\ Once(Tail(wire[c])) /\ d \notin Members(Tail(wire[c]))
    BY <1>0, <2>1, QueueTail DEF DigestInv
  <2> HIDE DEF d
  <2>3. /\ wire'[c] = Tail(wire[c])
        /\ \A k \in Conns : k # c => wire'[k] = wire[k]
    BY <1>0, <2>1 DEF TypeOK
  <2>4. d \in OnWires
    BY <2>2 DEF OnWires
  <2>5. /\ Members(input_queue') \subseteq Members(input_queue) \cup {d}
        /\ Once(input_queue')
    <3>1. Append(input_queue, d) # input_queue => TRUE
      OBVIOUS
    <3>2. /\ Members(Append(input_queue, d)) = Members(input_queue) \cup {d}
          /\ Once(Append(input_queue, d))
      BY <1>0, <2>2, <2>4, QueueAppend DEF DigestInv, TypeOK
    <3> QED
      BY <1>0, <2>1, <3>2 DEF DigestInv
  <2>6. \A k \in Conns : Members(wire'[k]) \subseteq Members(wire[k]) /\ d \notin Members(wire'[k])
    <3>1. \A k \in Conns : k # c => d \notin Members(wire[k])
      BY <1>0, <2>2 DEF DigestInv
    <3> QED
      BY <2>2, <2>3, <3>1
  <2>7. OnWires' \subseteq OnWires /\ d \notin OnWires'
    BY <2>6 DEF OnWires
  <2>8. InHandlers' = InHandlers
    BY <2>1 DEF InHandlers
  <2>9. \A k \in Conns : Once(wire'[k])
    BY <1>0, <2>2, <2>3 DEF DigestInv
  <2>10. \A j, k \in Conns : j # k => Members(wire'[j]) \cap Members(wire'[k]) = {}
    BY <1>0, <2>6 DEF DigestInv
  <2>11. /\ \A e \in OnWires' : e \notin Members(input_queue') /\ e \notin InHandlers'
                                /\ e \notin answered'
         /\ \A e \in Members(input_queue') : e \notin InHandlers' /\ e \notin answered'
         /\ \A e \in InHandlers' : e \notin answered'
    BY <1>0, <2>1, <2>4, <2>5, <2>7, <2>8 DEF DigestInv
  <2>12. \A e \in OnWires' \cup Members(input_queue') \cup InHandlers' \cup answered' :
            e <= made'
    BY <1>0, <2>1, <2>4, <2>5, <2>7, <2>8 DEF DigestInv
  <2> QED
    BY <1>0, <2>1, <2>5, <2>9, <2>10, <2>11, <2>12 DEF DigestInv
<1>3. ASSUME NEW c \in Conns, InputRemoves(c) PROVE DigestInv'
  <2> DEFINE d == Head(input_queue)
  <2>1. /\ icell[c] = None /\ input_queue # <<>> /\ input_queue \in Seq(Digests)
        /\ icell' = [icell EXCEPT ![c] = d] /\ input_queue' = Tail(input_queue)
        /\ UNCHANGED <<wire, made, istep, answered>>
    BY <1>0, <1>3 DEF InputRemoves, TypeOK, switches
  <2>2. /\ d \in Digests
        /\ Members(input_queue) = Members(input_queue') \cup {d}
        /\ Once(input_queue') /\ d \notin Members(input_queue')
    BY <1>0, <2>1, QueueTail DEF DigestInv
  <2> HIDE DEF d
  <2>3. icell'[c] = d /\ (\A k \in Conns : k # c => icell'[k] = icell[k]) /\ d # None
    BY <1>0, <2>1, <2>2, NoneAssumption DEF TypeOK
  <2>4. OnWires' = OnWires /\ InHandlers' = InHandlers \cup {d}
    <3>1. InHandlers' \subseteq InHandlers \cup {d}
      BY <2>3 DEF InHandlers
    <3>2. InHandlers \subseteq InHandlers'
      BY <2>1, <2>3 DEF InHandlers
    <3>3. d \in InHandlers'
      BY <2>3 DEF InHandlers
    <3> QED
      BY <2>1, <3>1, <3>2, <3>3 DEF OnWires
  <2>5. \A j, k \in Conns : icell'[j] = icell'[k] /\ icell'[j] # None => j = k
    <3>1. \A k \in Conns : icell[k] # d
      BY <1>0, <2>2, <2>3 DEF DigestInv, InHandlers
    <3> QED
      BY <1>0, <2>3, <3>1 DEF DigestInv
  <2>6. \A k \in Conns : IF icell'[k] = None THEN istep'[k] = 0
                         ELSE istep'[k] <= Len(Answers(icell'[k]))
    <3>1. istep[c] = 0 /\ 0 <= Len(Answers(d))
      BY <1>0, <2>1, <2>2, AnswersAre DEF DigestInv
    <3> QED
      BY <1>0, <2>1, <2>3, <3>1 DEF DigestInv
  <2>7. /\ \A e \in OnWires' : e \notin Members(input_queue') /\ e \notin InHandlers'
                               /\ e \notin answered'
        /\ \A e \in Members(input_queue') : e \notin InHandlers' /\ e \notin answered'
        /\ \A e \in InHandlers' : e \notin answered'
        /\ \A e \in OnWires' \cup Members(input_queue') \cup InHandlers' \cup answered' :
              e <= made'
    BY <1>0, <2>1, <2>2, <2>4 DEF DigestInv
  <2> QED
    BY <1>0, <2>1, <2>2, <2>5, <2>6, <2>7 DEF DigestInv
<1>4. ASSUME NEW c \in Conns, InputAnswers(c) PROVE DigestInv'
  <2>1. /\ icell[c] # None /\ istep[c] < Len(Answers(icell[c]))
        /\ istep' = [istep EXCEPT ![c] = @ + 1]
        /\ UNCHANGED <<wire, made, input_queue, icell, answered>>
    BY <1>4 DEF InputAnswers, switches
  <2>2. icell[c] \in Digests /\ Len(Answers(icell[c])) \in Nat /\ istep[c] \in Nat
    BY <1>0, <2>1, AnswersAre DEF TypeOK
  <2>3. /\ istep'[c] <= Len(Answers(icell[c]))
        /\ \A k \in Conns : k # c => istep'[k] = istep[k]
    BY <1>0, <2>1, <2>2 DEF TypeOK
  <2>4. \A k \in Conns : IF icell'[k] = None THEN istep'[k] = 0
                         ELSE istep'[k] <= Len(Answers(icell'[k]))
    BY <1>0, <2>1, <2>3 DEF DigestInv
  <2>5. OnWires' = OnWires /\ InHandlers' = InHandlers
    BY <2>1 DEF OnWires, InHandlers
  <2> QED
    BY <1>0, <2>1, <2>4, <2>5 DEF DigestInv
<1>5. ASSUME NEW c \in Conns, InputReturns(c) PROVE DigestInv'
  <2>1. /\ icell[c] # None /\ answered' = answered \cup {icell[c]}
        /\ icell' = [icell EXCEPT ![c] = None] /\ istep' = [istep EXCEPT ![c] = 0]
        /\ UNCHANGED <<wire, made, input_queue>>
    BY <1>5 DEF InputReturns, switches
  <2>2. /\ icell'[c] = None /\ istep'[c] = 0
        /\ \A k \in Conns : k # c => icell'[k] = icell[k] /\ istep'[k] = istep[k]
    BY <1>0, <2>1 DEF TypeOK
  <2>3. OnWires' = OnWires /\ InHandlers' = InHandlers \ {icell[c]} /\ icell[c] \in InHandlers
    <3>1. InHandlers' \subseteq InHandlers \ {icell[c]}
      BY <1>0, <2>1, <2>2 DEF InHandlers, DigestInv
    <3>2. InHandlers \ {icell[c]} \subseteq InHandlers'
      BY <2>2 DEF InHandlers
    <3> QED
      BY <2>1, <3>1, <3>2 DEF OnWires, InHandlers
  <2>4. \A j, k \in Conns : icell'[j] = icell'[k] /\ icell'[j] # None => j = k
    BY <1>0, <2>2 DEF DigestInv
  <2>5. \A k \in Conns : IF icell'[k] = None THEN istep'[k] = 0
                         ELSE istep'[k] <= Len(Answers(icell'[k]))
    BY <1>0, <2>2 DEF DigestInv
  <2>6. /\ \A e \in OnWires' : e \notin Members(input_queue') /\ e \notin InHandlers'
                               /\ e \notin answered'
        /\ \A e \in Members(input_queue') : e \notin InHandlers' /\ e \notin answered'
        /\ \A e \in InHandlers' : e \notin answered'
        /\ \A e \in OnWires' \cup Members(input_queue') \cup InHandlers' \cup answered' :
              e <= made'
    BY <1>0, <2>1, <2>3 DEF DigestInv
  <2> QED
    BY <1>0, <2>1, <2>4, <2>5, <2>6 DEF DigestInv
<1>6. ASSUME NEW c \in Conns, SwitchSendsDigest(c) PROVE DigestInv'
  <2>1. /\ made' = made + 1 /\ made \in Nat /\ made' \in Digests
        /\ wire' = [wire EXCEPT ![c] = Append(@, made')]
        /\ UNCHANGED <<input_queue, icell, istep, answered>>
    BY <1>0, <1>6, BoundsAssumption DEF SwitchSendsDigest, TypeOK, input, Digests
  <2>2. /\ wire'[c] = Append(wire[c], made')
        /\ \A k \in Conns : k # c => wire'[k] = wire[k]
    BY <1>0, <2>1 DEF TypeOK
  <2>3. /\ OnWires \subseteq Nat /\ Members(input_queue) \subseteq Nat
        /\ InHandlers \subseteq Nat /\ answered \subseteq Nat
    <3>1. \A q \in Seq(Digests) : Members(q) \subseteq Digests
      BY DEF Members
    <3>2. Digests \subseteq Nat
      BY BoundsAssumption DEF Digests
    <3> QED
      BY <1>0, <3>1, <3>2 DEF OnWires, InHandlers, TypeOK
  <2>4. /\ made' \notin OnWires /\ made' \notin Members(input_queue)
        /\ made' \notin InHandlers /\ made' \notin answered
    <3>1. ~(made' <= made)
      BY <2>1
    <3> QED
      BY <1>0, <3>1 DEF DigestInv
  <2>5. Members(wire'[c]) = Members(wire[c]) \cup {made'} /\ Once(wire'[c])
    <3>1. made' \notin Members(wire[c]) /\ wire[c] \in Seq(Digests) /\ Once(wire[c])
      BY <1>0, <2>4 DEF OnWires, TypeOK, DigestInv
    <3> QED
      BY <2>1, <2>2, <3>1, QueueAppend
  <2>6. OnWires' = OnWires \cup {made'} /\ InHandlers' = InHandlers
    <3>1. OnWires' \subseteq OnWires \cup {made'}
      BY <2>2, <2>5 DEF OnWires
    <3>2. OnWires \cup {made'} \subseteq OnWires'
      BY <2>2, <2>5 DEF OnWires
    <3> QED
      BY <2>1, <3>1, <3>2 DEF InHandlers
  <2>7. \A j, k \in Conns : j # k => Members(wire'[j]) \cap Members(wire'[k]) = {}
    <3>1. \A k \in Conns : made' \notin Members(wire[k])
      BY <2>4 DEF OnWires
    <3>2. \A j, k \in Conns : j # k => Members(wire[j]) \cap Members(wire[k]) = {}
      BY <1>0 DEF DigestInv
    <3>3. \A k \in Conns : Members(wire'[k]) =
                             IF k = c THEN Members(wire[c]) \cup {made'} ELSE Members(wire[k])
      BY <2>2, <2>5
    <3> QED
      BY <3>1, <3>2, <3>3
  <2>8. \A k \in Conns : Once(wire'[k])
    BY <1>0, <2>2, <2>5 DEF DigestInv
  <2>9. \A e \in OnWires' \cup Members(input_queue') \cup InHandlers' \cup answered' :
           e <= made'
    BY <1>0, <2>1, <2>3, <2>6 DEF DigestInv
  <2>10. /\ \A e \in OnWires' : e \notin Members(input_queue') /\ e \notin InHandlers'
                                /\ e \notin answered'
         /\ \A e \in Members(input_queue') : e \notin InHandlers' /\ e \notin answered'
         /\ \A e \in InHandlers' : e \notin answered'
    BY <1>0, <2>1, <2>4, <2>6 DEF DigestInv
  <2> QED
    BY <1>0, <2>1, <2>7, <2>8, <2>9, <2>10 DEF DigestInv
<1>7. ASSUME NEW c \in Conns, SwitchEnds(c) PROVE DigestInv'
  <2>1. /\ UNCHANGED <<made, input_queue, icell, istep, answered>>
        /\ wire' = wire \/ wire' = [wire EXCEPT ![c] = <<>>]
    BY <1>7 DEF SwitchEnds, input
  <2>2. \A k \in Conns : wire'[k] = wire[k] \/ wire'[k] = <<>>
    BY <1>0, <2>1 DEF TypeOK
  <2>3. Members(<<>>) = {} /\ Once(<<>>)
    BY DEF Members, Once
  <2>4. \A k \in Conns : Members(wire'[k]) \subseteq Members(wire[k]) /\ Once(wire'[k])
    BY <1>0, <2>2, <2>3 DEF DigestInv
  <2>5. OnWires' \subseteq OnWires /\ InHandlers' = InHandlers
    BY <2>1, <2>4 DEF OnWires, InHandlers
  <2>6. \A j, k \in Conns : j # k => Members(wire'[j]) \cap Members(wire'[k]) = {}
    BY <1>0, <2>4 DEF DigestInv
  <2> QED
    BY <1>0, <2>1, <2>4, <2>5, <2>6 DEF DigestInv
<1>8. \/ UNCHANGED seen
      \/ \E k \in Conns : \/ MainReads(k) \/ InputRemoves(k) \/ InputAnswers(k)
                          \/ InputReturns(k) \/ SwitchSendsDigest(k) \/ SwitchEnds(k)
  BY DEF Next, execute_controller, output_processor, input_processor, vars, MainStarts,
         MainAccepts, MainDispatches, MainInits, MainReadError, MainReadEOF,
         OutputRemoves, OutputWrites, OutputKilled, SwitchConnects, main, switches,
         files, input
<1> QED
  BY <1>1, <1>2, <1>3, <1>4, <1>5, <1>6, <1>7, <1>8
-----------------------------------------------------------------------------
\* The messages.

\* A message is sent that is nowhere yet, and after the others of its part.
LEMMA SendKeeps ==
    ASSUME TypeOK, OnceEach, Apart, OrderInv, NEW m \in Messages, m \notin Somewhere,
           \A a \in Somewhere : Before(a, m), send_p4_msg(m),
           UNCHANGED <<wcell, recv, sock_fd, accepted>>
    PROVE  OnceEach' /\ Apart' /\ OrderInv' /\ Somewhere' = Somewhere \cup {m}
<1>1. InHands' = InHands /\ Written' = Written /\ (OneWriterEach' <=> OneWriterEach)
  BY DEF InHands, Written, OneWriterEach
<1>2. \/ output_queue' = Append(output_queue, m) /\ lost' = lost
      \/ output_queue' = output_queue /\ lost' = lost \cup {m}
  BY DEF send_p4_msg
<1>3. /\ m \notin Members(output_queue) /\ m \notin InHands /\ m \notin Written /\ m \notin lost
      /\ \A a \in Members(output_queue) \cup InHands \cup Written : Before(a, m)
  BY DEF Somewhere
<1>4. /\ Once(Append(output_queue, m)) /\ Ordered(Append(output_queue, m))
      /\ Members(Append(output_queue, m)) = Members(output_queue) \cup {m}
  BY <1>3, QueueAppend DEF TypeOK, OnceEach, OrderInv
<1>5. OnceEach'
  BY <1>2, <1>4 DEF OnceEach
<1>6. Apart'
  BY <1>1, <1>2, <1>3, <1>4 DEF Apart
<1>7. /\ Ordered(output_queue')
      /\ \A a \in InHands' \cup Written', b \in Members(output_queue') : Before(a, b)
  <2>1. CASE output_queue' = output_queue
    BY <1>1, <2>1 DEF OrderInv
  <2>2. CASE output_queue' = Append(output_queue, m)
    <3>1. \A a \in InHands \cup Written, b \in Members(output_queue) : Before(a, b)
      BY DEF OrderInv
    <3>2. \A a \in InHands \cup Written, b \in Members(output_queue) \cup {m} : Before(a, b)
      BY <1>3, <3>1
    <3> QED
      BY <1>1, <1>4, <2>2, <3>2
  <2> QED
    BY <1>2, <2>1, <2>2
<1>8. OrderInv'
  BY <1>1, <1>7 DEF OrderInv
<1> QED
  BY <1>1, <1>2, <1>4, <1>5, <1>6, <1>8 DEF Somewhere

\* output_processor takes the first message of the queue.
LEMMA TakeKeeps ==
    ASSUME TypeOK, OnceEach, Apart, OrderInv, NEW c \in Conns, OutputRemoves(c)
    PROVE  OnceEach' /\ Apart' /\ OrderInv' /\ Somewhere' = Somewhere
<1> DEFINE m == Head(output_queue)
<1>1. /\ wcell[c] = None /\ output_queue # <<>> /\ output_queue \in Seq(Messages)
      /\ wcell' = [wcell EXCEPT ![c] = m] /\ output_queue' = Tail(output_queue)
      /\ UNCHANGED <<recv, lost, sock_fd, accepted>>
  BY DEF OutputRemoves, TypeOK, files, main
<1>2. /\ m \in Messages
      /\ Members(output_queue) = Members(output_queue') \cup {m}
      /\ Once(output_queue') /\ m \notin Members(output_queue')
      /\ Ordered(output_queue') /\ \A b \in Members(output_queue') : Before(m, b)
  BY <1>1, QueueTail DEF OnceEach, OrderInv
<1> HIDE DEF m
<1>3. wcell'[c] = m /\ (\A k \in Conns : k # c => wcell'[k] = wcell[k]) /\ m # None
  BY <1>1, <1>2, NoneAssumption DEF TypeOK
<1>4. InHands' = InHands \cup {m} /\ Written' = Written
  <2>1. InHands' \subseteq InHands \cup {m}
    BY <1>3 DEF InHands
  <2>2. InHands \subseteq InHands'
    BY <1>1, <1>3 DEF InHands
  <2>3. m \in InHands'
    BY <1>3 DEF InHands
  <2> QED
    BY <1>1, <2>1, <2>2, <2>3 DEF Written
<1>5. m \notin InHands /\ m \notin Written /\ m \notin lost
  BY <1>2 DEF Apart
<1>6. OnceEach'
  <2>1. \A k \in Conns : wcell[k] # m
    BY <1>3, <1>5 DEF InHands
  <2>2. \A j, k \in Conns : wcell'[j] = wcell'[k] /\ wcell'[j] # None => j = k
    BY <1>3, <2>1 DEF OnceEach
  <2> QED
    BY <1>1, <1>2, <2>2 DEF OnceEach
<1>7. Apart'
  BY <1>1, <1>2, <1>4, <1>5 DEF Apart
<1>8. \A a \in InHands' \cup Written', b \in Members(output_queue') : Before(a, b)
  BY <1>2, <1>4 DEF OrderInv
<1>9. ASSUME OneWriterEach', NEW k \in Conns
      PROVE  /\ Ordered(recv'[k])
             /\ wcell'[k] # None => \A a \in Members(recv'[k]) : Before(a, wcell'[k])
  <2>1. OneWriterEach
    BY <1>1, <1>9 DEF OneWriterEach
  <2>2. CASE k # c
    BY <1>1, <1>3, <2>1, <2>2 DEF OrderInv
  <2>3. CASE k = c
    <3>1. \A a \in Members(recv[c]) : Before(a, m)
      BY <1>2 DEF OrderInv, Written
    <3> QED
      BY <1>1, <1>3, <2>1, <2>3, <3>1 DEF OrderInv
  <2> QED
    BY <2>2, <2>3
<1>10. OrderInv'
  BY <1>2, <1>8, <1>9 DEF OrderInv
<1> QED
  BY <1>1, <1>2, <1>4, <1>6, <1>7, <1>10 DEF Somewhere

\* output_processor writes its message: to the one open connection with the
\* descriptor, or to nobody.
LEMMA WriteKeeps ==
    ASSUME TypeOK, FilesInv, OnceEach, Apart, OrderInv, NEW c \in Conns, OutputWrites(c)
    PROVE  OnceEach' /\ Apart' /\ OrderInv' /\ Somewhere' = Somewhere
<1> DEFINE m == wcell[c]
           got == {j \in Conns : fd[j] = sock_fd[c] /\ peer[j] = "up"}
<1>1. /\ m \in Messages /\ m # None
      /\ recv' = [j \in Conns |-> IF j \in got THEN Append(recv[j], m) ELSE recv[j]]
      /\ lost' = IF got = {} THEN lost \cup {m} ELSE lost
      /\ wcell' = [wcell EXCEPT ![c] = None]
      /\ UNCHANGED <<output_queue, sock_fd, accepted>>
  BY DEF OutputWrites, TypeOK, files, main
<1>2. \A j, k \in got : j = k
  <2>1. sock_fd[c] # 0
    BY <1>1 DEF FilesInv
  <2> QED
    BY <2>1 DEF FilesInv
<1>3. \A j \in got : OneWriterEach => j = c
  <2>1. sock_fd[c] # 0 /\ c <= accepted
    BY <1>1 DEF FilesInv
  <2>2. ASSUME NEW j \in got, OneWriterEach PROVE j = c
    <3>1. sock_fd[j] = sock_fd[c] /\ j <= accepted
      BY <2>1 DEF FilesInv
    <3>2. j \in 1 .. accepted /\ c \in 1 .. accepted
      BY <2>1, <3>1, BoundsAssumption DEF Conns, TypeOK
    <3> QED
      BY <2>2, <3>1, <3>2 DEF OneWriterEach
  <2> QED
    BY <2>2
<1>4. got \subseteq Conns
  OBVIOUS
<1> HIDE DEF got
<1>5. /\ wcell'[c] = None
      /\ \A k \in Conns : k # c => wcell'[k] = wcell[k]
  BY <1>1 DEF TypeOK
<1>6. m \in InHands /\ m \notin Members(output_queue) /\ m \notin Written /\ m \notin lost
  <2>1. m \in InHands
    BY <1>1 DEF InHands
  <2> QED
    BY <2>1 DEF Apart
<1>7. InHands' = InHands \ {m}
  <2>1. InHands' \subseteq InHands \ {m}
    BY <1>1, <1>5 DEF InHands, OnceEach
  <2>2. InHands \ {m} \subseteq InHands'
    BY <1>5 DEF InHands
  <2> QED
    BY <2>1, <2>2
<1> HIDE DEF m
<1>8. \A k \in Conns :
         /\ recv[k] \in Seq(Messages) /\ m \notin Members(recv[k])
         /\ k \in got => /\ recv'[k] = Append(recv[k], m) /\ Once(recv'[k])
                         /\ Members(recv'[k]) = Members(recv[k]) \cup {m}
         /\ k \notin got => recv'[k] = recv[k]
  <2>1. \A k \in Conns : recv[k] \in Seq(Messages) /\ m \notin Members(recv[k]) /\ Once(recv[k])
    BY <1>6 DEF TypeOK, Written, OnceEach
  <2>2. \A k \in Conns : /\ k \in got => recv'[k] = Append(recv[k], m)
                         /\ k \notin got => recv'[k] = recv[k]
    BY <1>1
  <2> QED
    BY <1>1, <2>1, <2>2, QueueAppend
<1>9. Written' = IF got = {} THEN Written ELSE Written \cup {m}
  <2>1. CASE got = {}
    <3>1. \A k \in Conns : recv'[k] = recv[k]
      BY <1>8, <2>1
    <3> QED
      BY <2>1, <3>1 DEF Written
  <2>2. CASE got # {}
    <3>1. \A k \in Conns : Members(recv[k]) \subseteq Members(recv'[k])
                           /\ Members(recv'[k]) \subseteq Members(recv[k]) \cup {m}
      BY <1>8
    <3>2. \E k \in Conns : m \in Members(recv'[k])
      BY <1>4, <1>8, <2>2
    <3>3. Written' \subseteq Written \cup {m}
      BY <3>1 DEF Written
    <3>4. Written \cup {m} \subseteq Written'
      BY <3>1, <3>2 DEF Written
    <3> QED
      BY <2>2, <3>3, <3>4
  <2> QED
    BY <2>1, <2>2
<1>10. OnceEach'
  <2>1. \A j, k \in Conns : wcell'[j] = wcell'[k] /\ wcell'[j] # None => j = k
    BY <1>5 DEF OnceEach
  <2>2. \A k \in Conns : Once(recv'[k])
    BY <1>8 DEF OnceEach
  <2>3. ASSUME NEW j \in Conns, NEW k \in Conns, j # k
        PROVE  Members(recv'[j]) \cap Members(recv'[k]) = {}
    <3>1. Members(recv[j]) \cap Members(recv[k]) = {}
      BY <2>3 DEF OnceEach
    <3>2. j \notin got \/ k \notin got
      BY <1>2, <2>3
    <3>3. m \notin Members(recv[j]) /\ m \notin Members(recv[k])
      BY <1>8
    <3>4. /\ Members(recv'[j]) = IF j \in got THEN Members(recv[j]) \cup {m} ELSE Members(recv[j])
          /\ Members(recv'[k]) = IF k \in got THEN Members(recv[k]) \cup {m} ELSE Members(recv[k])
      BY <1>8
    <3> QED
      BY <3>1, <3>2, <3>3, <3>4
  <2>4. Once(output_queue')
    BY <1>1 DEF OnceEach
  <2> QED
    BY <2>1, <2>2, <2>3, <2>4 DEF OnceEach
<1>11. Apart'
  BY <1>1, <1>6, <1>7, <1>9 DEF Apart
<1>12. /\ Ordered(output_queue')
       /\ \A a \in InHands' \cup Written', b \in Members(output_queue') : Before(a, b)
  <2>1. \A a \in InHands' \cup Written' : a \in InHands \cup Written
    BY <1>6, <1>7, <1>9
  <2> QED
    BY <1>1, <2>1 DEF OrderInv
<1>13. ASSUME OneWriterEach', NEW k \in Conns
       PROVE  /\ Ordered(recv'[k])
              /\ wcell'[k] # None => \A a \in Members(recv'[k]) : Before(a, wcell'[k])
  <2>1. OneWriterEach
    BY <1>1, <1>13 DEF OneWriterEach
  <2>2. CASE k # c
    <3>1. k \notin got /\ wcell'[k] = wcell[k] /\ recv'[k] = recv[k]
      BY <1>3, <1>5, <1>8, <2>1, <2>2
    <3> QED
      BY <2>1, <3>1 DEF OrderInv
  <2>3. CASE k = c
    <3>1. Ordered(recv[c]) /\ \A a \in Members(recv[c]) : Before(a, m)
      BY <1>1, <2>1 DEF OrderInv, m
    <3>2. Ordered(Append(recv[c], m))
      BY <1>1, <1>8, <3>1, QueueAppend
    <3> QED
      BY <1>5, <1>8, <2>3, <3>1, <3>2
  <2> QED
    BY <2>2, <2>3
<1>14. OrderInv'
  BY <1>12, <1>13 DEF OrderInv
<1>15. Somewhere' = Somewhere
  BY <1>1, <1>6, <1>7, <1>9 DEF Somewhere
<1> QED
  BY <1>10, <1>11, <1>14, <1>15

\* What has been sent, in terms of the threads that send it, now and after a step.
SentBy(k, i) ==
    IF k = 0 THEN NotifyFirst /\ mpc # "start" /\ i = NEntries + 1
    ELSE /\ i <= ScriptLen
         /\ \/ k < accepted
            \/ k = accepted /\ mpc = "select"
            \/ k = accepted /\ mpc = "init" /\ i < todo
AnsweredBy(d, i) ==
    d \in answered \ Unknown \/ \E k \in Conns : icell[k] = d /\ i <= istep[k]
SentIs ==
    /\ \A k \in 0 .. MaxConns, i \in 1 .. NEntries + 1 :
          WasSent(<<"init", k, i>>) <=> SentBy(k, i)
    /\ \A d \in Digests, i \in {1, 2} : WasSent(<<"learn", d, i>>) <=> AnsweredBy(d, i)

\* Of each message, who has sent it can be read off the program counters.
LEMMA SentNow == SentIs
BY SentInit, SentLearn DEF SentIs, SentBy, AnsweredBy

\* The same after a step.
LEMMA SentNext == SentIs'
BY SentNow, PTL

\* A step that sends the message m.
LEMMA OneMoreSent ==
    ASSUME TypeOK, OnceEach, Apart, OrderInv, KnownInv, NEW m \in Messages, ~WasSent(m),
           \A a \in Messages : WasSent(a) => Before(a, m), send_p4_msg(m),
           UNCHANGED <<wcell, recv, sock_fd, accepted>>,
           \A a \in Messages : WasSent(a)' <=> WasSent(a) \/ a = m
    PROVE  OnceEach' /\ Apart' /\ OrderInv' /\ KnownInv'
<1>1. Somewhere \subseteq Messages
  <2>1. \A q \in Seq(Messages) : Members(q) \subseteq Messages
    BY DEF Members
  <2> QED
    BY <2>1 DEF Somewhere, InHands, Written, TypeOK
<1>2. m \notin Somewhere /\ \A a \in Somewhere : Before(a, m)
  BY <1>1 DEF KnownInv
<1>3. OnceEach' /\ Apart' /\ OrderInv' /\ Somewhere' = Somewhere \cup {m}
  BY <1>2, SendKeeps
<1>4. KnownInv'
  BY <1>3 DEF KnownInv
<1> QED
  BY <1>3, <1>4

\* A step that sends nothing and moves no message.
LEMMA NoneMoved ==
    ASSUME OnceEach, Apart, OrderInv, KnownInv, UNCHANGED <<output_queue, wcell, recv, lost>>,
           OneWriterEach' => OneWriterEach,
           \A a \in Messages : WasSent(a)' <=> WasSent(a)
    PROVE  OnceEach' /\ Apart' /\ OrderInv' /\ KnownInv'
<1>1. /\ InHands' = InHands /\ Written' = Written
      /\ Members(output_queue') = Members(output_queue)
  BY DEF InHands, Written
<1>2. OnceEach' /\ Apart'
  BY <1>1 DEF OnceEach, Apart
<1>3. OrderInv'
  BY <1>1 DEF OrderInv
<1>4. KnownInv'
  BY <1>1 DEF KnownInv, Somewhere
<1> QED
  BY <1>2, <1>3, <1>4

\* Every message stays in one place, and in its order.
LEMMA MessageStep ==
    ASSUME IInv, [Next]_vars
    PROVE  OnceEach' /\ Apart' /\ OrderInv' /\ KnownInv'
<1>0. /\ TypeOK /\ MainInv /\ FilesInv /\ DigestInv /\ OnceEach /\ Apart /\ OrderInv /\ KnownInv
      /\ SentIs /\ SentIs'
  BY SentNow, SentNext DEF IInv
<1>1. ASSUME \A k \in 0 .. MaxConns, i \in 1 .. NEntries + 1 : SentBy(k, i)' <=> SentBy(k, i),
             \A d \in Digests, i \in {1, 2} : AnsweredBy(d, i)' <=> AnsweredBy(d, i)
      PROVE  \A a \in Messages : WasSent(a)' <=> WasSent(a)
  <2> SUFFICES ASSUME NEW a \in Messages PROVE WasSent(a)' <=> WasSent(a)
    OBVIOUS
  <2>1. CASE \E k \in 0 .. MaxConns, i \in 1 .. NEntries + 1 : a = <<"init", k, i>>
    BY <1>0, <1>1, <2>1 DEF SentIs
  <2>2. CASE \E d \in Digests, i \in {1, 2} : a = <<"learn", d, i>>
    BY <1>0, <1>1, <2>2 DEF SentIs
  <2> QED
    BY <2>1, <2>2, MessageForms
<1>2. CASE UNCHANGED <<output_queue, wcell, recv, lost, sock_fd, main, input>>
  <2>1. \A a \in Messages : WasSent(a)' <=> WasSent(a)
    <3>1. \A k \in 0 .. MaxConns, i \in 1 .. NEntries + 1 : SentBy(k, i)' <=> SentBy(k, i)
      BY <1>2 DEF SentBy, main
    <3>2. \A d \in Digests, i \in {1, 2} : AnsweredBy(d, i)' <=> AnsweredBy(d, i)
      BY <1>2 DEF AnsweredBy, input
    <3> QED
      BY <1>1, <3>1, <3>2
  <2>2. OneWriterEach' <=> OneWriterEach
    BY <1>2 DEF OneWriterEach, main
  <2> QED
    BY <1>0, <1>2, <2>1, <2>2, NoneMoved
<1>3. CASE MainStarts
  <2> DEFINE m == <<"init", 0, NEntries + 1>>
  <2>1. /\ mpc = "start" /\ mpc' = "select" /\ accepted = 0
        /\ UNCHANGED <<sock_fd, wcell, recv, accepted, todo, icell, istep, answered>>
        /\ IF NotifyFirst THEN send_p4_msg(m) ELSE UNCHANGED <<output_queue, lost>>
    BY <1>0, <1>3 DEF MainStarts, MainInv, files, input, CtrlInitialized
  <2>2. \A d \in Digests, i \in {1, 2} : AnsweredBy(d, i)' <=> AnsweredBy(d, i)
    BY <2>1 DEF AnsweredBy
  <2>3. \A k \in 0 .. MaxConns, i \in 1 .. NEntries + 1 :
           SentBy(k, i)' <=> SentBy(k, i) \/ (NotifyFirst /\ k = 0 /\ i = NEntries + 1)
    BY <2>1, BoundsAssumption DEF SentBy
  <2>4. OneWriterEach' <=> OneWriterEach
    BY <2>1 DEF OneWriterEach
  <2>5. CASE ~NotifyFirst
    <3>1. \A a \in Messages : WasSent(a)' <=> WasSent(a)
      BY <1>1, <2>2, <2>3, <2>5
    <3> QED
      BY <1>0, <2>1, <2>4, <2>5, <3>1, NoneMoved
  <2>6. CASE NotifyFirst
    <3>1. 0 \in 0 .. MaxConns /\ NEntries + 1 \in 1 .. NEntries + 1 /\ m \in Messages
      BY BoundsAssumption, NEntriesAssumption DEF Messages
    <3>2. ASSUME NEW a \in Messages
          PROVE  /\ WasSent(a)' <=> WasSent(a) \/ a = m
                 /\ WasSent(a) => Before(a, m)
      <4>1. CASE \E k \in 0 .. MaxConns, i \in 1 .. NEntries + 1 : a = <<"init", k, i>>
        <5>1. PICK k \in 0 .. MaxConns, i \in 1 .. NEntries + 1 : a = <<"init", k, i>>
          BY <4>1
        <5>2. /\ WasSent(a) <=> SentBy(k, i)
              /\ WasSent(a)' <=> SentBy(k, i)'
          BY <1>0, <5>1 DEF SentIs
        <5>3. WasSent(a) => k # 0
          BY <2>1, <5>2 DEF SentBy
        <5>4. a = m <=> k = 0 /\ i = NEntries + 1
          BY <5>1
        <5>5. a[2] = k /\ m[2] = 0
          BY <5>1
        <5> QED
          BY <2>3, <2>6, <5>2, <5>3, <5>4, <5>5 DEF Before
      <4>2. CASE \E d \in Digests, i \in {1, 2} : a = <<"learn", d, i>>
        <5>1. PICK d \in Digests, i \in {1, 2} : a = <<"learn", d, i>>
          BY <4>2
        <5>2. WasSent(a)' <=> WasSent(a)
          BY <1>0, <2>2, <5>1 DEF SentIs
        <5>3. a # m /\ a[1] # m[1]
          BY <5>1
        <5> QED
          BY <5>2, <5>3 DEF Before
      <4> QED
        BY <4>1, <4>2, MessageForms
    <3>3. ~WasSent(m)
      BY <1>0, <2>1, <3>1 DEF SentIs, SentBy
    <3> QED
      BY <1>0, <2>1, <2>6, <3>1, <3>2, <3>3, OneMoreSent
  <2> QED
    BY <2>5, <2>6
<1>4. CASE MainAccepts
  <2>1. /\ mpc = "select" /\ mpc' = "dispatched" /\ accepted' = accepted + 1
        /\ UNCHANGED <<output_queue, wcell, recv, lost, todo, icell, istep, answered>>
        /\ accepted \in Nat /\ accepted' \in 0 .. MaxConns
        /\ \E n \in Conns : sock_fd' = [sock_fd EXCEPT ![accepted'] = n]
    <3>1. accepted \in 0 .. MaxConns /\ MaxConns \in Nat /\ accepted < MaxConns
          /\ accepted' = accepted + 1
      BY <1>0, <1>4, BoundsAssumption DEF MainAccepts, TypeOK
    <3>2. accepted \in Nat /\ accepted' \in 0 .. MaxConns
      BY <3>1
    <3>3. \E n \in Conns : sock_fd' = [sock_fd EXCEPT ![accepted'] = n]
      BY <1>4 DEF MainAccepts
    <3> QED
      BY <1>4, <3>2, <3>3 DEF MainAccepts, input
  <2>2. \A k \in 0 .. MaxConns, i \in 1 .. NEntries + 1 : SentBy(k, i)' <=> SentBy(k, i)
    <3>1. \A k \in 0 .. MaxConns : k < accepted' <=> k < accepted \/ k = accepted
      BY <2>1, BoundsAssumption
    <3> QED
      BY <2>1, <3>1 DEF SentBy
  <2>3. \A d \in Digests, i \in {1, 2} : AnsweredBy(d, i)' <=> AnsweredBy(d, i)
    BY <2>1 DEF AnsweredBy
  <2>4. OneWriterEach' => OneWriterEach
    <3>1. \A k \in 1 .. accepted : k \in 1 .. accepted' /\ sock_fd'[k] = sock_fd[k]
      BY <1>0, <2>1, BoundsAssumption DEF TypeOK, Conns
    <3> QED
      BY <3>1 DEF OneWriterEach
  <2> QED
    BY <1>0, <1>1, <2>1, <2>2, <2>3, <2>4, NoneMoved
<1>5. CASE MainDispatches
  <2>1. /\ mpc = "dispatched" /\ mpc' = "init" /\ todo' = 1
        /\ UNCHANGED <<output_queue, wcell, recv, lost, sock_fd, accepted, icell, istep, answered>>
    BY <1>5 DEF MainDispatches, files, input
  <2>2. \A k \in 0 .. MaxConns, i \in 1 .. NEntries + 1 : SentBy(k, i)' <=> SentBy(k, i)
    BY <2>1 DEF SentBy
  <2>3. \A d \in Digests, i \in {1, 2} : AnsweredBy(d, i)' <=> AnsweredBy(d, i)
    BY <2>1 DEF AnsweredBy
  <2>4. OneWriterEach' => OneWriterEach
    BY <2>1 DEF OneWriterEach
  <2> QED
    BY <1>0, <1>1, <2>1, <2>2, <2>3, <2>4, NoneMoved
<1>6. CASE MainInits
  <2> DEFINE m == <<"init", accepted, todo>>
  <2>1. /\ mpc = "init" /\ accepted \in 0 .. MaxConns /\ accepted # 0 /\ todo \in 1 .. ScriptLen
        /\ UNCHANGED <<wcell, recv, sock_fd, accepted, icell, istep, answered>>
    BY <1>0, <1>6 DEF MainInits, MainInv, TypeOK, files, input
  <2>2. /\ Len(Script(accepted)) = ScriptLen /\ ScriptLen \in 1 .. NEntries + 1
        /\ Script(accepted)[todo] = m /\ m \in Messages
    BY <2>1, ScriptIs
  <2>3. /\ send_p4_msg(m)
        /\ IF todo < ScriptLen THEN todo' = todo + 1 /\ mpc' = "init"
           ELSE todo' = 0 /\ mpc' = "select"
    BY <1>6, <2>1, <2>2 DEF MainInits
  <2>4. todo \in 1 .. NEntries + 1 /\ ScriptLen \in Nat /\ NEntries \in Nat /\ MaxConns \in Nat
    BY <2>1, <2>2, NEntriesAssumption, BoundsAssumption
  <2>5. \A d \in Digests, i \in {1, 2} : AnsweredBy(d, i)' <=> AnsweredBy(d, i)
    BY <2>1 DEF AnsweredBy
  <2>6. \A k \in 0 .. MaxConns, i \in 1 .. NEntries + 1 :
           /\ SentBy(k, i)' <=> SentBy(k, i) \/ (k = accepted /\ i = todo)
           /\ SentBy(k, i) /\ k = accepted => i < todo
    <3> SUFFICES ASSUME NEW k \in 0 .. MaxConns, NEW i \in 1 .. NEntries + 1
                 PROVE  /\ SentBy(k, i)' <=> SentBy(k, i) \/ (k = accepted /\ i = todo)
                        /\ SentBy(k, i) /\ k = accepted => i < todo
      OBVIOUS
    <3>1. CASE k # accepted
      BY <2>1, <2>3, <3>1 DEF SentBy
    <3>2. CASE k = accepted
      <4>1. SentBy(k, i) <=> i <= ScriptLen /\ i < todo
        BY <2>1, <2>4, <3>2 DEF SentBy
      <4>2. CASE todo < ScriptLen
        <5>1. SentBy(k, i)' <=> i <= ScriptLen /\ i < todo + 1
          BY <2>1, <2>3, <2>4, <3>2, <4>2 DEF SentBy
        <5>2. i < todo + 1 <=> i < todo \/ i = todo
          BY <2>4
        <5> QED
          BY <2>4, <3>2, <4>1, <4>2, <5>1, <5>2
      <4>3. CASE ~(todo < ScriptLen)
        <5>1. SentBy(k, i)' <=> i <= ScriptLen
          BY <2>1, <2>3, <2>4, <3>2, <4>3 DEF SentBy
        <5>2. todo = ScriptLen
          BY <2>1, <2>4, <4>3
        <5> QED
          BY <2>4, <3>2, <4>1, <5>1, <5>2
      <4> QED
        BY <4>2, <4>3
    <3> QED
      BY <3>1, <3>2
  <2>7. ASSUME NEW a \in Messages
        PROVE  /\ WasSent(a)' <=> WasSent(a) \/ a = m
               /\ WasSent(a) => Before(a, m)
    <3>1. CASE \E k \in 0 .. MaxConns, i \in 1 .. NEntries + 1 : a = <<"init", k, i>>
      <4>1. PICK k \in 0 .. MaxConns, i \in 1 .. NEntries + 1 : a = <<"init", k, i>>
        BY <3>1
      <4>2. /\ WasSent(a) <=> SentBy(k, i)
            /\ WasSent(a)' <=> SentBy(k, i)'
        BY <1>0, <4>1 DEF SentIs
      <4>3. a = m <=> k = accepted /\ i = todo
        BY <4>1
      <4>4. a[2] = k /\ m[2] = accepted /\ a[3] = i /\ m[3] = todo
        BY <4>1
      <4> QED
        BY <2>6, <4>2, <4>3, <4>4 DEF Before
    <3>2. CASE \E d \in Digests, i \in {1, 2} : a = <<"learn", d, i>>
      <4>1. PICK d \in Digests, i \in {1, 2} : a = <<"learn", d, i>>
        BY <3>2
      <4>2. WasSent(a)' <=> WasSent(a)
        BY <1>0, <2>5, <4>1 DEF SentIs
      <4>3. a # m /\ a[1] # m[1]
        BY <4>1
      <4> QED
        BY <4>2, <4>3 DEF Before
    <3> QED
      BY <3>1, <3>2, MessageForms
  <2>8. ~WasSent(m)
    <3>1. ~SentBy(accepted, todo)
      BY <2>1, <2>4, <2>6
    <3> QED
      BY <1>0, <2>1, <2>4, <3>1 DEF SentIs
  <2> HIDE DEF m
  <2> QED
    BY <1>0, <2>1, <2>2, <2>3, <2>7, <2>8, OneMoreSent
<1>7. ASSUME NEW c \in Conns, OutputRemoves(c)
      PROVE  OnceEach' /\ Apart' /\ OrderInv' /\ KnownInv'
  <2>1. OnceEach' /\ Apart' /\ OrderInv' /\ Somewhere' = Somewhere
    BY <1>0, <1>7, TakeKeeps
  <2>2. UNCHANGED <<mpc, accepted, todo, icell, istep, answered>>
    BY <1>7 DEF OutputRemoves, main, input
  <2>3. \A a \in Messages : WasSent(a)' <=> WasSent(a)
    BY <1>1, <2>2 DEF SentBy, AnsweredBy
  <2> QED
    BY <1>0, <2>1, <2>3 DEF KnownInv
<1>8. ASSUME NEW c \in Conns, OutputWrites(c)
      PROVE  OnceEach' /\ Apart' /\ OrderInv' /\ KnownInv'
  <2>1. OnceEach' /\ Apart' /\ OrderInv' /\ Somewhere' = Somewhere
    BY <1>0, <1>8, WriteKeeps
  <2>2. UNCHANGED <<mpc, accepted, todo, icell, istep, answered>>
    BY <1>8 DEF OutputWrites, main, input
  <2>3. \A a \in Messages : WasSent(a)' <=> WasSent(a)
    BY <1>1, <2>2 DEF SentBy, AnsweredBy
  <2> QED
    BY <1>0, <2>1, <2>3 DEF KnownInv
<1>9. ASSUME NEW c \in Conns, InputRemoves(c)
      PROVE  OnceEach' /\ Apart' /\ OrderInv' /\ KnownInv'
  <2>1. /\ icell[c] = None /\ icell' = [icell EXCEPT ![c] = Head(input_queue)]
        /\ UNCHANGED <<output_queue, wcell, recv, lost, sock_fd, mpc, accepted, todo,
                       istep, answered>>
    BY <1>9 DEF InputRemoves, main, files
  <2>2. istep[c] = 0 /\ \A k \in Conns : k # c => icell'[k] = icell[k]
    BY <1>0, <2>1 DEF DigestInv, TypeOK
  <2>3. \A k \in 0 .. MaxConns, i \in 1 .. NEntries + 1 : SentBy(k, i)' <=> SentBy(k, i)
    BY <2>1 DEF SentBy
  <2>4. \A d \in Digests, i \in {1, 2} : AnsweredBy(d, i)' <=> AnsweredBy(d, i)
    <3>1. \A i \in {1, 2} : ~(i <= istep[c])
      BY <2>2
    <3>2. istep' = istep /\ answered' = answered
      BY <2>1
    <3> QED
      BY <2>2, <3>1, <3>2 DEF AnsweredBy
  <2>5. OneWriterEach' => OneWriterEach
    BY <2>1 DEF OneWriterEach
  <2> QED
    BY <1>0, <1>1, <2>1, <2>3, <2>4, <2>5, NoneMoved
<1>10. ASSUME NEW c \in Conns, InputReturns(c)
       PROVE  OnceEach' /\ Apart' /\ OrderInv' /\ KnownInv'
  <2>1. /\ icell[c] # None /\ istep[c] = Len(Answers(icell[c]))
        /\ answered' = answered \cup {icell[c]}
        /\ icell' = [icell EXCEPT ![c] = None] /\ istep' = [istep EXCEPT ![c] = 0]
        /\ UNCHANGED <<output_queue, wcell, recv, lost, sock_fd, mpc, accepted, todo>>
    BY <1>10 DEF InputReturns, main, files
  <2>2. /\ icell'[c] = None /\ icell[c] \in Digests
        /\ \A k \in Conns : k # c => icell'[k] = icell[k] /\ istep'[k] = istep[k]
    BY <1>0, <2>1 DEF TypeOK
  <2>3. istep[c] = IF icell[c] \in Unknown THEN 0 ELSE 2
    BY <2>1, <2>2, AnswersAre
  <2>4. \A k \in 0 .. MaxConns, i \in 1 .. NEntries + 1 : SentBy(k, i)' <=> SentBy(k, i)
    BY <2>1 DEF SentBy
  <2>5. ASSUME NEW d \in Digests, NEW i \in {1, 2} PROVE AnsweredBy(d, i)' <=> AnsweredBy(d, i)
    <3>1. d # None
      BY NoneAssumption
    <3>2. CASE d # icell[c]
      BY <2>1, <2>2, <3>1, <3>2 DEF AnsweredBy
    <3>3. CASE d = icell[c]
      <4>1. \A k \in Conns : icell[k] = d => k = c
        BY <1>0, <3>1, <3>3 DEF DigestInv
      <4>2. d \notin answered
        BY <1>0, <3>1, <3>3 DEF DigestInv, InHandlers
      <4>3. AnsweredBy(d, i) <=> i <= istep[c]
        BY <3>3, <4>1, <4>2 DEF AnsweredBy
      <4>4. AnsweredBy(d, i)' <=> d \notin Unknown
        BY <2>1, <2>2, <3>1, <3>3, <4>1 DEF AnsweredBy
      <4>5. i <= istep[c] <=> d \notin Unknown
        BY <2>3, <3>3
      <4> QED
        BY <4>3, <4>4, <4>5
    <3> QED
      BY <3>2, <3>3
  <2>6. OneWriterEach' => OneWriterEach
    BY <2>1 DEF OneWriterEach
  <2> QED
    BY <1>0, <1>1, <2>1, <2>4, <2>5, <2>6, NoneMoved
<1>11. ASSUME NEW c \in Conns, InputAnswers(c)
       PROVE  OnceEach' /\ Apart' /\ OrderInv' /\ KnownInv'
  <2> DEFINE d == icell[c]
             n == istep[c] + 1
             m == <<"learn", d, n>>
  <2>1. /\ d # None /\ istep[c] < Len(Answers(d)) /\ istep' = [istep EXCEPT ![c] = n]
        /\ send_p4_msg(Answers(d)[istep'[c]])
        /\ UNCHANGED <<wcell, recv, sock_fd, mpc, accepted, todo, icell, answered>>
    BY <1>11 DEF InputAnswers, main, files
  <2>2. /\ d \in Digests /\ istep[c] \in 0 .. 2 /\ istep'[c] = n
        /\ \A k \in Conns : k # c => istep'[k] = istep[k]
    BY <1>0, <2>1 DEF TypeOK
  <2>3. /\ d \notin Unknown /\ n \in {1, 2} /\ Answers(d)[n] = m /\ m \in Messages
    BY <2>1, <2>2, NextAnswer
  <2>4. \A k \in Conns : icell[k] = d => k = c
    BY <1>0, <2>1 DEF DigestInv
  <2>5. d \notin answered
    BY <1>0, <2>1 DEF DigestInv, InHandlers
  <2>6. \A k \in 0 .. MaxConns, i \in 1 .. NEntries + 1 : SentBy(k, i)' <=> SentBy(k, i)
    BY <2>1 DEF SentBy
  <2>7. ASSUME NEW e \in Digests, NEW i \in {1, 2}
        PROVE  /\ AnsweredBy(e, i)' <=> AnsweredBy(e, i) \/ (e = d /\ i = n)
               /\ AnsweredBy(e, i) /\ e = d => i < n
    <3>1. CASE e # d
      BY <2>1, <2>2, <3>1 DEF AnsweredBy
    <3>2. CASE e = d
      <4>1. AnsweredBy(e, i) <=> i <= istep[c]
        BY <2>4, <2>5, <3>2 DEF AnsweredBy
      <4>2. AnsweredBy(e, i)' <=> i <= n
        BY <2>1, <2>2, <2>4, <2>5, <3>2 DEF AnsweredBy
      <4>3. (i <= n <=> i <= istep[c] \/ i = n) /\ (i <= istep[c] => i < n)
        BY <2>2
      <4> QED
        BY <3>2, <4>1, <4>2, <4>3
    <3> QED
      BY <3>1, <3>2
  <2> HIDE DEF d, n
  <2>8. ASSUME NEW a \in Messages
        PROVE  /\ WasSent(a)' <=> WasSent(a) \/ a = m
               /\ WasSent(a) => Before(a, m)
    <3>1. CASE \E k \in 0 .. MaxConns, i \in 1 .. NEntries + 1 : a = <<"init", k, i>>
      <4>1. PICK k \in 0 .. MaxConns, i \in 1 .. NEntries + 1 : a = <<"init", k, i>>
        BY <3>1
      <4>2. WasSent(a)' <=> WasSent(a)
        BY <1>0, <2>6, <4>1 DEF SentIs
      <4>3. a # m /\ a[1] # m[1]
        BY <4>1
      <4> QED
        BY <4>2, <4>3 DEF Before
    <3>2. CASE \E e \in Digests, i \in {1, 2} : a = <<"learn", e, i>>
      <4>1. PICK e \in Digests, i \in {1, 2} : a = <<"learn", e, i>>
        BY <3>2
      <4>2. /\ WasSent(a) <=> AnsweredBy(e, i)
            /\ WasSent(a)' <=> AnsweredBy(e, i)'
        BY <1>0, <4>1 DEF SentIs
      <4>3. a = m <=> e = d /\ i = n
        BY <4>1
      <4>4. a[2] = e /\ m[2] = d /\ a[3] = i /\ m[3] = n
        BY <4>1
      <4> QED
        BY <2>7, <4>2, <4>3, <4>4 DEF Before
    <3> QED
      BY <3>1, <3>2, MessageForms
  <2>9. ~WasSent(m)
    <3>1. ~AnsweredBy(d, n)
      BY <2>2, <2>3, <2>7
    <3> QED
      BY <1>0, <2>2, <2>3, <3>1 DEF SentIs
  <2>10. send_p4_msg(m)
    BY <2>1, <2>2, <2>3
  <2> HIDE DEF m
  <2> QED
    BY <1>0, <2>1, <2>3, <2>8, <2>9, <2>10, OneMoreSent
<1>12. \/ UNCHANGED <<output_queue, wcell, recv, lost, sock_fd, main, input>>
       \/ MainStarts \/ MainAccepts \/ MainDispatches \/ MainInits
       \/ \E k \in Conns : \/ OutputRemoves(k) \/ OutputWrites(k) \/ InputRemoves(k)
                           \/ InputAnswers(k) \/ InputReturns(k)
  BY DEF Next, execute_controller, output_processor, input_processor, vars, MainReads,
         MainReadError, MainReadEOF, OutputKilled, SwitchConnects, SwitchSendsDigest,
         SwitchEnds, files
<1> QED
  BY <1>2, <1>3, <1>4, <1>5, <1>6, <1>7, <1>8, <1>9, <1>10, <1>11, <1>12

-----------------------------------------------------------------------------
\* The theorems.

\* The invariant holds when the controller starts.
LEMMA ControllerInit == Init => IInv
<1> SUFFICES ASSUME Init PROVE IInv
  OBVIOUS
<1>0. /\ peer = [k \in Conns |-> "none"]
      /\ fd = [k \in Conns |-> 0] /\ sock_fd = [k \in Conns |-> 0]
      /\ wire = [k \in Conns |-> <<>>] /\ recv = [k \in Conns |-> <<>>]
      /\ made = 0 /\ accepted = 0 /\ mpc = "start" /\ todo = 0
      /\ input_queue = <<>> /\ output_queue = <<>>
      /\ wcell = [k \in Conns |-> None] /\ icell = [k \in Conns |-> None]
      /\ istep = [k \in Conns |-> 0] /\ answered = {} /\ lost = {} /\ dead = FALSE
  BY DEF Init
<1>1. /\ MaxConns \in Nat /\ MaxDigests \in Nat /\ NEntries \in Nat
      /\ <<>> \in Seq(Digests) /\ <<>> \in Seq(Messages)
      /\ Members(<<>>) = {} /\ Once(<<>>) /\ Ordered(<<>>)
  BY BoundsAssumption, NEntriesAssumption, EmptySeq DEF Members, Once, Ordered
<1>2. TypeOK
  <2>1. /\ peer \in [Conns -> {"none", "up", "eof", "reset"}]
        /\ wire \in [Conns -> Seq(Digests)] /\ recv \in [Conns -> Seq(Messages)]
    BY <1>0, <1>1
  <2>2. fd \in [Conns -> 0 .. MaxConns] /\ sock_fd \in [Conns -> 0 .. MaxConns]
    BY <1>0, <1>1
  <2>3. /\ wcell \in [Conns -> Messages \cup {None}] /\ icell \in [Conns -> Digests \cup {None}]
        /\ istep \in [Conns -> 0 .. 2]
    BY <1>0
  <2>4. /\ made \in 0 .. MaxDigests /\ accepted \in 0 .. MaxConns /\ todo \in 0 .. NEntries + 1
        /\ mpc \in {"start", "select", "dispatched", "init"}
        /\ input_queue \in Seq(Digests) /\ output_queue \in Seq(Messages)
        /\ answered \subseteq Digests /\ lost \subseteq Messages /\ dead \in BOOLEAN
    <3>1. 0 \in 0 .. MaxDigests /\ 0 \in 0 .. MaxConns /\ 0 \in 0 .. NEntries + 1
      BY <1>1
    <3>2. {} \subseteq Digests /\ {} \subseteq Messages /\ FALSE \in BOOLEAN
      OBVIOUS
    <3>3. /\ made \in 0 .. MaxDigests /\ accepted \in 0 .. MaxConns
          /\ todo \in 0 .. NEntries + 1 /\ mpc \in {"start", "select", "dispatched", "init"}
      BY <1>0, <3>1
    <3>4. input_queue \in Seq(Digests) /\ output_queue \in Seq(Messages)
      BY <1>0, <1>1
    <3>5. answered \subseteq Digests /\ lost \subseteq Messages /\ dead \in BOOLEAN
      BY <1>0, <3>2
    <3> QED
      BY <3>3, <3>4, <3>5
  <2> QED
    BY <2>1, <2>2, <2>3, <2>4 DEF TypeOK
<1>3. MainInv
  BY <1>0 DEF MainInv
<1>4. FilesInv
  <2>1. \A k \in Conns : ~(k <= accepted)
    BY <1>0, <1>1 DEF Conns
  <2> QED
    BY <1>0, <2>1 DEF FilesInv
<1>5. OnWires = {} /\ InHandlers = {} /\ InHands = {} /\ Written = {}
  BY <1>0, <1>1 DEF OnWires, InHandlers, InHands, Written
<1>6. DigestInv
  BY <1>0, <1>1, <1>5 DEF DigestInv
<1>7. OnceEach /\ Apart /\ OrderInv
  BY <1>0, <1>1, <1>5 DEF OnceEach, Apart, OrderInv
<1>8. KnownInv
  <2>1. \A k \in 0 .. MaxConns, i \in 1 .. NEntries + 1 : ~SentBy(k, i)
    BY <1>0 DEF SentBy
  <2>2. \A d \in Digests, i \in {1, 2} : ~AnsweredBy(d, i)
    <3>1. None \notin Digests
      BY NoneAssumption
    <3> QED
      BY <1>0, <3>1 DEF AnsweredBy
  <2>3. ASSUME NEW m \in Messages PROVE ~WasSent(m)
    <3>1. CASE \E k \in 0 .. MaxConns, i \in 1 .. NEntries + 1 : m = <<"init", k, i>>
      BY <2>1, <3>1, SentNow DEF SentIs
    <3>2. CASE \E d \in Digests, i \in {1, 2} : m = <<"learn", d, i>>
      BY <2>2, <3>2, SentNow DEF SentIs
    <3> QED
      BY <3>1, <3>2, MessageForms
  <2> QED
    BY <1>0, <1>1, <1>5, <2>3 DEF KnownInv, Somewhere
<1> QED
  BY <1>2, <1>3, <1>4, <1>6, <1>7, <1>8 DEF IInv

\* Where everything is, at every point of the threads of the controller.
THEOREM ControllerInductive == Spec => []IInv
<1>1. IInv /\ [Next]_vars => IInv'
  BY TypeStep, MainStep, FilesStep, DigestStep, MessageStep DEF IInv
<1> QED
  BY ControllerInit, <1>1, PTL DEF Spec

\* A set without two different elements.
LEMMA AtMostOne ==
    ASSUME NEW S, \A x, y \in S : x = y
    PROVE  Cardinality(S) = IF S = {} THEN 0 ELSE 1
<1>1. CASE S = {}
  BY <1>1, FS_EmptySet
<1>2. CASE S # {}
  <2>1. PICK x \in S : S = {x}
    BY <1>2
  <2> QED
    BY <2>1, FS_Singleton
<1> QED
  BY <1>1, <1>2

\* Counting the places of a message: one if it was sent, else none.
LEMMA PlacesCounted ==
    ASSUME IInv, NEW m \in Messages
    PROVE  Places(m) = IF WasSent(m) THEN 1 ELSE 0
<1> DEFINE Q == At(output_queue, m)
           H == {k \in Conns : wcell[k] = m}
           R == UNION {{k} \X At(recv[k], m) : k \in Conns}
<1>0. OnceEach /\ Apart /\ KnownInv /\ m # None
  BY NoneAssumption DEF IInv
<1>1. Cardinality(Q) = IF m \in Members(output_queue) THEN 1 ELSE 0
  <2>1. \A i, j \in Q : i = j
    BY <1>0 DEF OnceEach, Once, At
  <2>2. Q # {} <=> m \in Members(output_queue)
    BY DEF Members, At
  <2> QED
    BY <2>1, <2>2, AtMostOne
<1>2. Cardinality(H) = IF m \in InHands THEN 1 ELSE 0
  <2>1. \A j, k \in H : j = k
    BY <1>0 DEF OnceEach
  <2>2. H # {} <=> m \in InHands
    BY <1>0 DEF InHands
  <2> QED
    BY <2>1, <2>2, AtMostOne
<1>3. Cardinality(R) = IF m \in Written THEN 1 ELSE 0
  <2>1. \A p \in R : \E k \in Conns : \E i \in At(recv[k], m) : p = <<k, i>>
    OBVIOUS
  <2>2. \A p, q \in R : p = q
    <3> SUFFICES ASSUME NEW p \in R, NEW q \in R PROVE p = q
      OBVIOUS
    <3>1. PICK j \in Conns : \E i \in At(recv[j], m) : p = <<j, i>>
      BY <2>1
    <3>2. PICK k \in Conns : \E i \in At(recv[k], m) : q = <<k, i>>
      BY <2>1
    <3>3. m \in Members(recv[j]) /\ m \in Members(recv[k])
      BY <3>1, <3>2 DEF At, Members
    <3>4. j = k
      BY <1>0, <3>3 DEF OnceEach
    <3>5. \A i, l \in At(recv[k], m) : i = l
      BY <1>0 DEF OnceEach, Once, At
    <3> QED
      BY <3>1, <3>2, <3>4, <3>5
  <2>3. R # {} <=> m \in Written
    <3>1. ASSUME R # {} PROVE m \in Written
      <4>1. PICK k \in Conns : \E i \in At(recv[k], m) : TRUE
        BY <2>1, <3>1
      <4> QED
        BY <4>1 DEF At, Members, Written
    <3>2. ASSUME m \in Written PROVE R # {}
      <4>1. PICK k \in Conns : m \in Members(recv[k])
        BY <3>2 DEF Written
      <4>2. PICK i \in At(recv[k], m) : TRUE
        BY <4>1 DEF At, Members
      <4>3. <<k, i>> \in {k} \X At(recv[k], m)
        BY <4>2
      <4>4. <<k, i>> \in R
        BY <4>3
      <4> QED
        BY <4>4
    <3> QED
      BY <3>1, <3>2
  <2> HIDE DEF R
  <2> QED
    BY <2>2, <2>3, AtMostOne
<1>4. Places(m) = Cardinality(Q) + Cardinality(H) + Cardinality(R)
                  + (IF m \in lost THEN 1 ELSE 0)
  BY DEF Places
<1> HIDE DEF Q, H, R
<1>5. CASE WasSent(m)
  <2>1. m \in Members(output_queue) \/ m \in InHands \/ m \in Written \/ m \in lost
    BY <1>0, <1>5 DEF KnownInv, Somewhere
  <2> QED
    BY <1>0, <1>1, <1>2, <1>3, <1>4, <1>5, <2>1 DEF Apart
<1>6. CASE ~WasSent(m)
  <2>1. m \notin Members(output_queue) /\ m \notin InHands /\ m \notin Written /\ m \notin lost
    BY <1>0, <1>6 DEF KnownInv, Somewhere
  <2> QED
    BY <1>1, <1>2, <1>3, <1>4, <1>6, <2>1
<1> QED
  BY <1>5, <1>6

\* However many switches share the queue, however many threads the pool has and
\* whatever is lost, no message is duplicated and none disappears without being noted.
THEOREM MessagesAreNotCopied == Spec => []EachMessageOnce
<1>1. IInv => EachMessageOnce
  BY PlacesCounted DEF IInv, EachMessageOnce
<1> QED
  BY ControllerInductive, <1>1, PTL

\* A switch gets its part of a run of init(), and of the answers to a digest, in the
\* order of the calls of send_p4_msg, unless a descriptor was used again.
THEOREM PartsComeInOrder == Spec => []PartsInOrder
<1>1. IInv => PartsInOrder
  <2> SUFFICES ASSUME IInv, OneWriterEach, NEW k \in Conns,
                      NEW i \in DOMAIN recv[k], NEW j \in DOMAIN recv[k], i < j
               PROVE  Before(recv[k][i], recv[k][j])
    BY DEF PartsInOrder, Before
  <2> QED
    BY DEF IInv, OrderInv, Ordered
<1> QED
  BY ControllerInductive, <1>1, PTL

-----------------------------------------------------------------------------
\* The first switch.

\* With one connection, CTRL_INITIALIZED is the end of the run of init() for it.
LEMMA ToldIs ==
    ASSUME IInv, ~NotifyFirst, accepted <= 1, NEW k \in Conns, Told(k)
    PROVE  /\ k = 1 /\ accepted = 1 /\ mpc = "select"
           /\ Entry(NEntries + 1) \in Members(recv[1])
<1>0. /\ TypeOK /\ MainInv /\ FilesInv /\ KnownInv /\ SentIs
      /\ NEntries \in Nat /\ MaxConns \in Nat /\ NEntries + 1 \in 1 .. NEntries + 1
  BY SentNow, NEntriesAssumption, BoundsAssumption DEF IInv
<1>1. PICK r \in 0 .. MaxConns : CtrlInitialized(r) \in Members(recv[k])
  BY DEF Told, Members
<1>2. k = 1 /\ accepted = 1
  <2>1. recv[k] # <<>>
    BY <1>1 DEF Members
  <2>2. k <= accepted /\ k \in Nat /\ k >= 1 /\ accepted \in Nat
    BY <1>0, <2>1 DEF FilesInv, TypeOK, Conns
  <2> QED
    BY <2>2
<1>3. CtrlInitialized(r) \in Messages /\ CtrlInitialized(r) = <<"init", r, NEntries + 1>>
  BY <1>0 DEF CtrlInitialized, Messages
<1>4. WasSent(CtrlInitialized(r))
  BY <1>0, <1>1, <1>3 DEF KnownInv, Somewhere, Written
<1>5. SentBy(r, NEntries + 1)
  BY <1>0, <1>3, <1>4 DEF SentIs
<1>6. ScriptLen = NEntries + 1
  BY DEF ScriptLen
<1>7. r = 1 /\ mpc = "select"
  <2>1. r # 0 /\ (r < accepted \/ r = accepted)
    BY <1>5 DEF SentBy
  <2>2. r = 1
    BY <1>2, <2>1
  <2>3. mpc = "init" => ~(NEntries + 1 < todo)
    BY <1>0, <1>6 DEF MainInv
  <2> QED
    BY <1>2, <1>5, <2>2, <2>3 DEF SentBy
<1> QED
  BY <1>1, <1>2, <1>3, <1>7 DEF Entry

\* Up to the second connection nothing of init() is lost but to a switch that is gone,
\* and CTRL_INITIALIZED comes last.
LEMMA FirstStep ==
    ASSUME ~NotifyFirst, NEntries + 1 <= QSize, IInv, FirstInv, [Next]_vars
    PROVE  FirstInv'
<1> SUFFICES ASSUME accepted' <= 1
             PROVE  /\ made' # 0 => accepted' = 1 /\ Told(1)'
                    /\ mpc' # "init" /\ (accepted' = 0 \/ mpc' = "dispatched") =>
                          output_queue' = <<>>
                    /\ mpc' = "init" => Len(output_queue') < todo'
                    /\ accepted' = 1 =>
                          /\ \A i \in 1 .. ScriptLen : Entry(i) \in lost' => peer'[1] # "up"
                          /\ Told(1)' => \A i \in 1 .. NEntries : Entry(i) \in Members(recv'[1])
  BY DEF FirstInv
<1> DEFINE goal == /\ made' # 0 => accepted' = 1 /\ Told(1)'
                   /\ mpc' # "init" /\ (accepted' = 0 \/ mpc' = "dispatched") =>
                         output_queue' = <<>>
                   /\ mpc' = "init" => Len(output_queue') < todo'
                   /\ accepted' = 1 =>
                         /\ \A i \in 1 .. ScriptLen : Entry(i) \in lost' => peer'[1] # "up"
                         /\ Told(1)' => \A i \in 1 .. NEntries : Entry(i) \in Members(recv'[1])
<1>0. /\ TypeOK /\ MainInv /\ FilesInv /\ DigestInv /\ OrderInv /\ KnownInv /\ SentIs
      /\ NEntries \in Nat /\ MaxConns \in Nat /\ MaxDigests \in Nat /\ QSize \in Nat
      /\ ScriptLen = NEntries + 1 /\ accepted \in Nat
  BY SentNow, NEntriesAssumption, BoundsAssumption, SizesAssumption
     DEF IInv, TypeOK, ScriptLen
<1>1. accepted <= 1
  <2>1. accepted' = accepted \/ accepted' = accepted + 1
    BY DEF Next, execute_controller, output_processor, input_processor, vars, MainStarts,
           MainAccepts, MainDispatches, MainInits, MainReads, MainReadError, MainReadEOF,
           OutputRemoves, OutputWrites, OutputKilled, InputRemoves, InputAnswers,
           InputReturns, SwitchConnects, SwitchSendsDigest, SwitchEnds, main
  <2> QED
    BY <1>0, <2>1
<1>2. /\ made # 0 => accepted = 1 /\ Told(1)
      /\ mpc # "init" /\ (accepted = 0 \/ mpc = "dispatched") => output_queue = <<>>
      /\ mpc = "init" => Len(output_queue) < todo
      /\ accepted = 1 => /\ \A i \in 1 .. ScriptLen : Entry(i) \in lost => peer[1] # "up"
                         /\ Told(1) => \A i \in 1 .. NEntries : Entry(i) \in Members(recv[1])
  BY <1>1 DEF FirstInv
<1>3. accepted = 1 => 1 \in Conns
  BY <1>0 DEF TypeOK, Conns
<1>4. CASE UNCHANGED <<made, accepted, mpc, todo, output_queue, lost, peer, recv>>
  BY <1>2, <1>4 DEF Told
<1>5. CASE MainStarts
  <2>1. /\ accepted = 0 /\ mpc = "start" /\ mpc' = "select"
        /\ UNCHANGED <<made, accepted, output_queue>>
    BY <1>0, <1>5 DEF MainStarts, MainInv, switches
  <2> QED
    BY <1>2, <2>1
<1>6. CASE MainAccepts
  <2>1. /\ accepted = 0 /\ accepted' = 1 /\ mpc = "select" /\ mpc' = "dispatched"
        /\ UNCHANGED <<made, output_queue, lost, peer, recv>>
    BY <1>0, <1>6 DEF MainAccepts, switches
  <2>2. 1 \in Conns
    BY <1>0, <1>6, <2>1 DEF MainAccepts, Conns
  <2>3. recv[1] = <<>>
    BY <1>0, <2>1, <2>2 DEF FilesInv
  <2>4. ~Told(1)'
    BY <2>1, <2>3 DEF Told
  <2>5. ASSUME NEW i \in 1 .. ScriptLen PROVE Entry(i) \notin lost
    <3>1. Entry(i) \in Messages /\ i \in 1 .. NEntries + 1 /\ 1 \in 0 .. MaxConns
      BY <1>0, <2>2 DEF Messages, Entry, Conns
    <3>2. ~SentBy(1, i)
      BY <2>1 DEF SentBy
    <3>3. ~WasSent(Entry(i))
      BY <1>0, <3>1, <3>2 DEF SentIs, Entry
    <3> QED
      BY <1>0, <3>1, <3>3 DEF KnownInv, Somewhere
  <2> QED
    BY <1>2, <2>1, <2>4, <2>5
<1>7. CASE MainDispatches
  <2>1. /\ accepted = 1 /\ mpc = "dispatched" /\ mpc' = "init" /\ todo' = 1
        /\ UNCHANGED <<made, accepted, output_queue, lost, peer, recv>>
    BY <1>0, <1>1, <1>7 DEF MainDispatches, MainInv, switches
  <2>2. Len(output_queue) = 0
    BY <1>2, <2>1
  <2> QED
    BY <1>2, <2>1, <2>2 DEF Told
<1>8. CASE MainInits
  <2>1. /\ accepted = 1 /\ mpc = "init" /\ todo \in 1 .. ScriptLen
        /\ send_p4_msg(Script(accepted)[todo])
        /\ UNCHANGED <<made, accepted, peer, recv>>
        /\ \/ todo' = todo + 1 /\ mpc' = mpc
           \/ todo' = 0 /\ mpc' = "select"
    BY <1>0, <1>1, <1>8 DEF MainInits, MainInv, switches
  <2>2. Len(output_queue) < todo /\ Len(output_queue) \in Nat /\ todo <= QSize
    BY <1>0, <1>2, <2>1 DEF TypeOK
  <2>3. Len(output_queue) < QSize
    BY <1>0, <2>1, <2>2
  <2>4. lost' = lost /\ output_queue' = Append(output_queue, Script(accepted)[todo])
    BY <2>1, <2>3 DEF send_p4_msg
  <2>5. Len(output_queue') = Len(output_queue) + 1
    BY <1>0, <2>4 DEF TypeOK
  <2>6. mpc' = "init" => Len(output_queue') < todo'
    BY <2>1, <2>2, <2>5
  <2>7. mpc' # "init" => mpc' = "select"
    BY <2>1
  <2> QED
    BY <1>2, <2>1, <2>4, <2>6, <2>7 DEF Told
<1>9. ASSUME NEW c \in Conns, OutputRemoves(c) PROVE goal
  <2>1. /\ output_queue # <<>> /\ output_queue' = Tail(output_queue)
        /\ UNCHANGED <<made, accepted, mpc, todo, lost, peer, recv>>
    BY <1>9 DEF OutputRemoves, switches, main
  <2>2. Len(output_queue') < Len(output_queue) /\ Len(output_queue) \in Nat
        /\ Len(output_queue') \in Nat
    BY <1>0, <2>1 DEF TypeOK
  <2>3. todo \in Nat
    BY <1>0 DEF TypeOK
  <2>4. mpc = "init" => Len(output_queue') < todo
    BY <1>2, <2>2, <2>3
  <2> QED
    BY <1>2, <2>1, <2>4 DEF Told
<1>10. ASSUME NEW c \in Conns, OutputWrites(c) PROVE goal
  <2> DEFINE m == wcell[c]
             got == {j \in Conns : fd[j] = sock_fd[c] /\ peer[j] = "up"}
  <2>1. /\ m # None /\ m \in Messages
        /\ recv' = [j \in Conns |-> IF j \in got THEN Append(recv[j], m) ELSE recv[j]]
        /\ lost' = IF got = {} THEN lost \cup {m} ELSE lost
        /\ UNCHANGED <<made, accepted, mpc, todo, output_queue, peer>>
    BY <1>0, <1>10 DEF OutputWrites, switches, main, TypeOK
  <2>2. c = 1 /\ accepted = 1 /\ 1 \in Conns
    <3>1. c <= accepted /\ c \in Nat /\ c >= 1
      BY <1>0, <2>1 DEF FilesInv, Conns
    <3> QED
      BY <1>0, <1>1, <1>3, <3>1
  <2>3. \A k \in Conns : k <= accepted => k = 1
    BY <1>0, <2>2 DEF Conns
  <2>4. sock_fd[c] # 0
    BY <1>0, <2>2 DEF FilesInv
  <2>5. CASE peer[1] = "up"
    <3>1. 1 \in got
      BY <1>0, <2>2, <2>5 DEF FilesInv
    <3> HIDE DEF got
    <3>2. recv'[1] = Append(recv[1], m) /\ lost' = lost
      BY <2>1, <2>2, <3>1
    <3>3. /\ recv[1] \in Seq(Messages) /\ Members(recv'[1]) = Members(recv[1]) \cup {m}
      BY <1>0, <2>1, <2>2, <3>2, QueueAppend DEF TypeOK
    <3>4. Told(1) => Told(1)'
      <4>1. Told(1) <=> \E r \in 0 .. MaxConns : CtrlInitialized(r) \in Members(recv[1])
        BY DEF Told, Members
      <4>2. Told(1)' <=> \E r \in 0 .. MaxConns : CtrlInitialized(r) \in Members(recv'[1])
        BY DEF Told, Members, CtrlInitialized
      <4> QED
        BY <3>3, <4>1, <4>2
    <3>5. ASSUME Told(1)', ~Told(1), NEW i \in 1 .. NEntries
          PROVE  Entry(i) \in Members(recv'[1])
      <4>1. PICK r \in 0 .. MaxConns : m = <<"init", r, NEntries + 1>>
        <5>1. PICK r \in 0 .. MaxConns : CtrlInitialized(r) \in Members(recv'[1])
          BY <3>5 DEF Told, Members, CtrlInitialized
        <5>2. CtrlInitialized(r) \notin Members(recv[1])
          BY <3>5 DEF Told, Members
        <5> QED
          BY <3>3, <5>1, <5>2 DEF CtrlInitialized
      <4>2. WasSent(m) /\ m \in InHands
        BY <1>0, <2>1 DEF KnownInv, Somewhere, InHands
      <4>3. SentBy(r, NEntries + 1)
        <5>1. NEntries + 1 \in 1 .. NEntries + 1
          BY <1>0
        <5> QED
          BY <1>0, <4>1, <4>2, <5>1 DEF SentIs
      <4>4. r = 1 /\ mpc = "select"
        <5>1. r # 0 /\ (r < accepted \/ r = accepted)
          BY <4>3 DEF SentBy
        <5>2. r = 1
          BY <2>2, <5>1
        <5>3. mpc = "init" => ~(NEntries + 1 < todo)
          BY <1>0 DEF MainInv
        <5> QED
          BY <2>2, <4>3, <5>2, <5>3 DEF SentBy
      <4>5. i \in 1 .. NEntries + 1 /\ i <= ScriptLen /\ ~(NEntries + 1 < i) /\ i # NEntries + 1
            /\ i \in 1 .. ScriptLen
        BY <1>0
      <4>6. SentBy(1, i) /\ 1 \in 0 .. MaxConns
        BY <2>2, <4>1, <4>4, <4>5 DEF SentBy
      <4>7. Entry(i) \in Messages /\ WasSent(Entry(i))
        BY <1>0, <4>5, <4>6 DEF Messages, Entry, SentIs
      <4>8. Entry(i) \in Somewhere
        BY <1>0, <4>7 DEF KnownInv
      <4>9. Entry(i) \notin lost
        BY <1>2, <2>2, <2>5, <4>5
      <4>10. Entry(i) \notin Members(output_queue)
        <5>1. ~Before(m, Entry(i))
          BY <4>1, <4>4, <4>5 DEF Before, Entry
        <5> QED
          BY <1>0, <4>2, <5>1 DEF OrderInv
      <4>11. Entry(i) \notin InHands
        <5>1. \A k \in Conns : wcell[k] # None => k = 1
          BY <1>0, <2>3 DEF FilesInv
        <5>2. m # Entry(i)
          BY <4>1, <4>5 DEF Entry
        <5> QED
          BY <2>2, <5>1, <5>2 DEF InHands
      <4>12. Entry(i) \in Written
        BY <4>8, <4>9, <4>10, <4>11 DEF Somewhere
      <4>13. PICK k \in Conns : Entry(i) \in Members(recv[k])
        BY <4>12 DEF Written
      <4>14. k = 1
        <5>1. recv[k] # <<>>
          BY <4>13 DEF Members
        <5> QED
          BY <1>0, <2>3, <5>1 DEF FilesInv
      <4> QED
        BY <3>3, <4>13, <4>14
    <3>6. Told(1)' => \A i \in 1 .. NEntries : Entry(i) \in Members(recv'[1])
      BY <1>2, <2>2, <3>3, <3>5
    <3> QED
      BY <1>2, <2>1, <2>2, <3>2, <3>4, <3>6
  <2>6. CASE peer[1] # "up"
    <3>1. got = {}
      <4>1. ASSUME NEW j \in got PROVE FALSE
        <5>1. fd[j] # 0 /\ j \in Conns /\ peer[j] = "up"
          BY <2>4
        <5>2. j <= accepted
          BY <1>0, <5>1 DEF FilesInv
        <5> QED
          BY <2>3, <2>6, <5>1, <5>2
      <4> QED
        BY <4>1
    <3>2. recv' = recv
      <4>1. recv' = [j \in Conns |-> recv[j]]
        BY <2>1, <3>1
      <4> QED
        BY <1>0, <4>1 DEF TypeOK
    <3>3. Told(1)' <=> Told(1)
      BY <3>2 DEF Told, CtrlInitialized
    <3> QED
      BY <1>2, <2>1, <2>2, <2>6, <3>2, <3>3
  <2> QED
    BY <2>5, <2>6
<1>11. ASSUME NEW c \in Conns, InputAnswers(c) PROVE goal
  <2> DEFINE d == icell[c]
             n == istep[c] + 1
  <2>1. /\ d # None /\ istep[c] < Len(Answers(d)) /\ istep' = [istep EXCEPT ![c] = n]
        /\ send_p4_msg(Answers(d)[istep'[c]])
        /\ UNCHANGED <<made, accepted, mpc, todo, peer, recv>>
    BY <1>11 DEF InputAnswers, switches, main
  <2>2. d \in Digests /\ istep[c] \in 0 .. 2 /\ istep'[c] = n
    BY <1>0, <2>1 DEF TypeOK
  <2>3. Answers(d)[n] = <<"learn", d, n>>
    BY <2>1, <2>2, NextAnswer
  <2>4. made # 0
    <3>1. d <= made /\ d >= 1
      BY <1>0, <2>1, <2>2 DEF DigestInv, InHandlers, Digests
    <3> QED
      BY <1>0, <2>2, <3>1 DEF Digests, TypeOK
  <2>5. accepted = 1 /\ Told(1) /\ mpc = "select"
    BY <1>1, <1>2, <1>3, <2>4, ToldIs
  <2>6. lost' \subseteq lost \cup {<<"learn", d, n>>}
    BY <2>1, <2>2, <2>3 DEF send_p4_msg
  <2>7. \A i \in 1 .. ScriptLen : Entry(i) # <<"learn", d, n>>
    BY DEF Entry
  <2>8. Told(1)' <=> Told(1)
    BY <2>1 DEF Told, CtrlInitialized
  <2> QED
    BY <1>2, <2>1, <2>5, <2>6, <2>7, <2>8
<1>12. ASSUME NEW c \in Conns, SwitchSendsDigest(c) PROVE goal
  <2>1. /\ \E j \in Conns : Told(j)
        /\ UNCHANGED <<accepted, mpc, todo, output_queue, lost, peer, recv>>
    BY <1>12 DEF SwitchSendsDigest, main
  <2>2. accepted = 1 /\ Told(1)
    BY <1>1, <2>1, ToldIs
  <2>3. Told(1)' <=> Told(1)
    BY <2>1 DEF Told, CtrlInitialized
  <2> QED
    BY <1>2, <2>1, <2>2, <2>3
<1>13. ASSUME NEW c \in Conns, MainReadError(c) \/ SwitchEnds(c) PROVE goal
  <2>1. /\ UNCHANGED <<made, accepted, mpc, todo, output_queue, lost, recv>>
        /\ \A k \in Conns : peer'[k] = peer[k] \/ peer'[k] # "up"
    BY <1>0, <1>13 DEF MainReadError, SwitchEnds, main, TypeOK
  <2>2. Told(1)' <=> Told(1)
    BY <2>1 DEF Told, CtrlInitialized
  <2> QED
    BY <1>2, <1>3, <2>1, <2>2
<1>14. CASE SwitchConnects
  <2>1. /\ UNCHANGED <<made, accepted, mpc, todo, output_queue, lost, recv>>
        /\ \A k \in Conns : peer'[k] = peer[k] \/ peer[k] = "none"
    BY <1>0, <1>14 DEF SwitchConnects, main, TypeOK
  <2>2. accepted = 1 => peer[1] # "none"
    BY <1>0, <1>3 DEF FilesInv
  <2>3. Told(1)' <=> Told(1)
    BY <2>1 DEF Told, CtrlInitialized
  <2> QED
    BY <1>2, <1>3, <2>1, <2>2, <2>3
<1>15. \/ UNCHANGED <<made, accepted, mpc, todo, output_queue, lost, peer, recv>>
       \/ MainStarts \/ MainAccepts \/ MainDispatches \/ MainInits \/ SwitchConnects
       \/ \E k \in Conns : \/ OutputRemoves(k) \/ OutputWrites(k) \/ InputAnswers(k)
                           \/ SwitchSendsDigest(k) \/ MainReadError(k) \/ SwitchEnds(k)
  BY DEF Next, execute_controller, output_processor, input_processor, vars, MainReads,
         MainReadEOF, OutputKilled, InputRemoves, InputReturns, switches, main
<1> QED
  BY <1>4, <1>5, <1>6, <1>7, <1>8, <1>9, <1>10, <1>11, <1>12, <1>13, <1>14, <1>15

\* If init() notifies, and the queue takes all it sends, the first switch has every
\* entry when it is told that it is initialized.  Both conditions are needed: with
\* NotifyFirst it is told before, and a shorter queue drops entries.
THEOREM FirstSwitchIsConfigured ==
    ASSUME ~NotifyFirst, NEntries + 1 <= QSize
    PROVE  Spec => []ConfiguredWhenTold
<1>1. Init => IInv /\ FirstInv
  <2> SUFFICES ASSUME Init PROVE FirstInv
    BY ControllerInit
  <2>1. made = 0 /\ accepted = 0 /\ mpc = "start" /\ output_queue = <<>>
    BY DEF Init
  <2> QED
    BY <2>1 DEF FirstInv
<1>2. IInv /\ FirstInv /\ [Next]_vars => IInv' /\ FirstInv'
  BY FirstStep, TypeStep, MainStep, FilesStep, DigestStep, MessageStep DEF IInv
<1>3. FirstInv => ConfiguredWhenTold
  <2> SUFFICES ASSUME FirstInv, accepted = 1, Told(1), NEW i \in 1 .. NEntries
               PROVE  At(recv[1], Entry(i)) # {}
    BY DEF ConfiguredWhenTold, Entry
  <2>1. Entry(i) \in Members(recv[1])
    BY DEF FirstInv
  <2>2. PICK j \in DOMAIN recv[1] : recv[1][j] = Entry(i)
    BY <2>1 DEF Members
  <2> QED
    BY <2>2 DEF At
<1> QED
  BY <1>1, <1>2, <1>3, PTL DEF Spec
=============================================================================
