------------------------------- MODULE Controller -------------------------------
(***************************************************************************)
(* The controller process (controller.c, dpdk_ctrl_common.c and the        *)
(* applications): the main thread in execute_controller, which also runs   *)
(* the application's init() for every switch that connects, the            *)
(* output_processor and input_processor of each connection on a pool of    *)
(* three threads, and the one input_queue and the one output_queue that    *)
(* all connections share.  An output_processor writes whatever message is  *)
(* next to the file descriptor its own connection had when it was          *)
(* accepted.                                                               *)
(*                                                                         *)
(* The queues are the ones Fifo.tla verifies, and usleep(1000) between the *)
(* two dispatches is taken to be long enough for the first to be picked    *)
(* up: ThreadPool.tla says what happens otherwise.                         *)
(***************************************************************************)
EXTENDS Integers, Sequences, FiniteSets

CONSTANTS NEntries,    \* the table entries and default actions init() sends
          NotifyFirst, \* main() itself queues CTRL_INITIALIZED, not init()
          QSize,       \* P4_BG_QUEUE_SIZE
          Threads,     \* the threads of the pool
          Unknown,     \* the digests no dispatcher of dhf is there for
          MaxConns,    \* bound: how many connections switches make
          MaxDigests,  \* bound: how many digests switches send
          MaxEnds,     \* bound: how many connections the switches end
          None         \* no message, no digest

ASSUME NEntriesAssumption == NEntries \in Nat \ {0}
ASSUME NotifyFirstAssumption == NotifyFirst \in BOOLEAN
ASSUME SizesAssumption == QSize \in Nat /\ Threads \in Nat
ASSUME BoundsAssumption == MaxConns \in Nat /\ MaxDigests \in Nat /\ MaxEnds \in Nat

VARIABLES
  peer,         \* what the switch did with a connection: "none", "up", "eof", "reset"
  fd,           \* the descriptor of a connection on this side, 0 if not open
  sock_fd,      \* ti->sock_fd: what the connection's output_processor writes to
  wire,         \* digests a switch wrote, not read yet
  recv,         \* history: what was written to a connection, in order
  made,         \* how many digests the switches made
  accepted,     \* how many connections were accepted
  mpc, todo,    \* the main thread: where it is, and how far in init()
  input_queue, output_queue,
  wcell,        \* the message an output_processor has in hand
  icell, istep, \* the digest an input_processor has in hand, the answers sent
  answered,     \* history: the digests whose handler has returned
  lost,         \* history: messages a full queue dropped or no switch got
  dead          \* the process was terminated

switches == <<peer, wire, made>>
main == <<accepted, mpc, todo>>
files == <<fd, sock_fd>>
input == <<icell, istep, answered>>
vars == <<switches, main, files, input, recv, input_queue, output_queue, wcell,
          lost, dead>>

Conns == 1 .. MaxConns
Digests == 1 .. MaxDigests

\* <<"init", k, i>> is message i of the k-th run of init(), <<"learn", d, i>>
\* answer i to digest d.
Messages == {<<"init", k, i>> : k \in 0 .. MaxConns, i \in 1 .. NEntries + 1}
            \cup {<<"learn", d, i>> : d \in Digests, i \in {1, 2}}

ASSUME NoneAssumption == None \notin Digests /\ None \notin Messages

\* CTRL_INITIALIZED is the last message of the k-th run of init(), unless main()
\* has queued it before the first.
CtrlInitialized(k) == <<"init", k, NEntries + 1>>

\* Mutant: init() announces itself before it sends the entries.
NotifyThenEntries(k) ==
    <<CtrlInitialized(k)>> \o [i \in 1 .. NEntries |-> <<"init", k, i>>]

\* What the application's init() sends.
Script(k) == [i \in 1 .. NEntries |-> <<"init", k, i>>]
               \o (IF NotifyFirst THEN <<>> ELSE <<CtrlInitialized(k)>>)

\* mac_learn_digest: an entry for dmac and one for smac.
Answers(d) == IF d \in Unknown THEN <<>>
              ELSE <<<<"learn", d, 1>>, <<"learn", d, 2>>>>

Init == /\ peer = [k \in Conns |-> "none"]
        /\ fd = [k \in Conns |-> 0] /\ sock_fd = [k \in Conns |-> 0]
        /\ wire = [k \in Conns |-> <<>>]
        /\ recv = [k \in Conns |-> <<>>]
        /\ made = 0 /\ accepted = 0
        /\ mpc = "start" /\ todo = 0
        /\ input_queue = <<>> /\ output_queue = <<>>
        /\ wcell = [k \in Conns |-> None]
        /\ icell = [k \in Conns |-> None] /\ istep = [k \in Conns |-> 0]
        /\ answered = {} /\ lost = {} /\ dead = FALSE

\* A thread runs a job until the process ends, so that only the first jobs are
\* ever run: the output_processor of a connection is dispatched before its
\* input_processor, and both before those of the next.
OutputJob(k) == k <= accepted /\ 2 * k - 1 <= Threads
InputJob(k) == /\ \/ k < accepted
                  \/ k = accepted /\ mpc # "dispatched"
               /\ 2 * k <= Threads

\* Mutants: the newest is sent first; the last slot of the queue is not used.
SendInFront(m) == IF Len(output_queue) < QSize
                  THEN output_queue' = <<m>> \o output_queue /\ UNCHANGED lost
                  ELSE lost' = lost \cup {m} /\ UNCHANGED output_queue
SendToShortQueue(m) == IF Len(output_queue) < QSize - 1
                       THEN output_queue' = Append(output_queue, m) /\ UNCHANGED lost
                       ELSE lost' = lost \cup {m} /\ UNCHANGED output_queue

\* The message is copied to a cell of its own.  fifo_add_msg drops it when the
\* queue is full and returns the same as ever.
send_p4_msg(m) == IF Len(output_queue) < QSize
                  THEN output_queue' = Append(output_queue, m) /\ UNCHANGED lost
                  ELSE lost' = lost \cup {m} /\ UNCHANGED output_queue
-----------------------------------------------------------------------------
\* The main thread.

MainStarts == /\ mpc = "start"
              /\ mpc' = "select"
              /\ IF NotifyFirst THEN send_p4_msg(CtrlInitialized(0))
                 ELSE UNCHANGED <<output_queue, lost>>
              /\ UNCHANGED <<switches, files, input, recv, input_queue, wcell,
                             accepted, todo, dead>>

\* accept gives the lowest descriptor that is not open.  The output_processor is
\* dispatched with it.
MainAccepts ==
    /\ mpc = "select"
    /\ accepted < MaxConns
    /\ peer[accepted + 1] # "none"
    /\ accepted' = accepted + 1
    /\ \E n \in Conns :
          /\ \A k \in Conns : fd[k] # n
          /\ \A n2 \in 1 .. n - 1 : \E k \in Conns : fd[k] = n2
          /\ fd' = [fd EXCEPT ![accepted'] = n]
          /\ sock_fd' = [sock_fd EXCEPT ![accepted'] = n]
    /\ mpc' = "dispatched"
    /\ UNCHANGED <<switches, input, recv, input_queue, output_queue, wcell, todo,
                   lost, dead>>

\* Mutant: a switch that connects gets no init().
MainDispatchesOnly == /\ mpc = "dispatched"
                      /\ mpc' = "select" /\ todo' = 0
                      /\ UNCHANGED <<switches, files, input, recv, input_queue,
                                     output_queue, wcell, accepted, lost, dead>>

\* dispatch of input_processor, and the call of init().
MainDispatches == /\ mpc = "dispatched"
                  /\ mpc' = "init" /\ todo' = 1
                  /\ UNCHANGED <<switches, files, input, recv, input_queue,
                                 output_queue, wcell, accepted, lost, dead>>

\* One message of init(); while it runs, nothing is read and nothing accepted.
MainInits == /\ mpc = "init"
             /\ send_p4_msg(Script(accepted)[todo])
             /\ IF todo < Len(Script(accepted))
                THEN todo' = todo + 1 /\ UNCHANGED mpc
                ELSE todo' = 0 /\ mpc' = "select"
             /\ UNCHANGED <<switches, files, input, recv, input_queue, wcell,
                            accepted, dead>>

\* read_p4_msg > 0.
MainReads(k) == /\ mpc = "select"
                /\ fd[k] # 0
                /\ wire[k] # <<>>
                /\ input_queue' = IF Len(input_queue) < QSize
                                  THEN Append(input_queue, Head(wire[k]))
                                  ELSE input_queue
                /\ wire' = [wire EXCEPT ![k] = Tail(@)]
                /\ UNCHANGED <<peer, made, main, files, input, recv,
                               output_queue, wcell, lost, dead>>

\* read_p4_msg < 0: nothing is done about it.  After it the socket is at EOF.
MainReadError(k) == /\ mpc = "select"
                    /\ fd[k] # 0
                    /\ peer[k] = "reset"
                    /\ peer' = [peer EXCEPT ![k] = "eof"]
                    /\ UNCHANGED <<wire, made, main, files, input, recv,
                                   input_queue, output_queue, wcell, lost, dead>>

\* read_p4_msg = 0: the descriptor is closed.  The connection's processors are
\* not told.
MainReadEOF(k) == /\ mpc = "select"
                  /\ fd[k] # 0
                  /\ peer[k] = "eof" /\ wire[k] = <<>>
                  /\ fd' = [fd EXCEPT ![k] = 0]
                  /\ UNCHANGED <<switches, sock_fd, main, input, recv,
                                 input_queue, output_queue, wcell, lost, dead>>

execute_controller == \/ MainAccepts \/ MainDispatches \/ MainInits
                      \/ \E k \in Conns : \/ MainReads(k) \/ MainReadError(k)
                                          \/ MainReadEOF(k)
-----------------------------------------------------------------------------
\* output_processor of connection k.

\* Mutant: the message stays in the queue.
OutputPeeks(k) == /\ OutputJob(k)
                  /\ wcell[k] = None
                  /\ output_queue # <<>>
                  /\ wcell' = [wcell EXCEPT ![k] = Head(output_queue)]
                  /\ UNCHANGED <<switches, main, files, input, recv, input_queue,
                                 output_queue, lost, dead>>

OutputRemoves(k) == /\ OutputJob(k)
                    /\ wcell[k] = None
                    /\ output_queue # <<>>
                    /\ wcell' = [wcell EXCEPT ![k] = Head(output_queue)]
                    /\ output_queue' = Tail(output_queue)
                    /\ UNCHANGED <<switches, main, files, input, recv,
                                   input_queue, lost, dead>>

\* write_p4_msg to the descriptor kept in ti: whoever has it now gets the
\* message.  Nobody (EBADF) or a switch that is gone: the message is lost.
OutputWrites(k) ==
    /\ wcell[k] # None
    /\ LET got == {j \in Conns : fd[j] = sock_fd[k] /\ peer[j] = "up"}
       IN  /\ recv' = [j \in Conns |-> IF j \in got THEN Append(recv[j], wcell[k])
                                       ELSE recv[j]]
           /\ lost' = IF got = {} THEN lost \cup {wcell[k]} ELSE lost
    /\ wcell' = [wcell EXCEPT ![k] = None]
    /\ UNCHANGED <<switches, main, files, input, input_queue, output_queue, dead>>

\* A write to a connection the switch has left may raise SIGPIPE, which nothing
\* in the program handles.
OutputKilled(k) ==
    /\ wcell[k] # None
    /\ \E j \in Conns : fd[j] = sock_fd[k] /\ peer[j] # "up"
    /\ dead' = TRUE
    /\ UNCHANGED <<switches, main, files, input, recv, input_queue, output_queue,
                   wcell, lost>>

output_processor(k) == OutputRemoves(k) \/ OutputWrites(k) \/ OutputKilled(k)
-----------------------------------------------------------------------------
\* input_processor of connection k.  Which connection a digest came from it does
\* not know.

InputRemoves(k) == /\ InputJob(k)
                   /\ icell[k] = None
                   /\ input_queue # <<>>
                   /\ icell' = [icell EXCEPT ![k] = Head(input_queue)]
                   /\ input_queue' = Tail(input_queue)
                   /\ UNCHANGED <<switches, main, files, recv, output_queue,
                                  wcell, istep, answered, lost, dead>>

\* One answer of the digest's handler.
InputAnswers(k) == /\ icell[k] # None
                   /\ istep[k] < Len(Answers(icell[k]))
                   /\ istep' = [istep EXCEPT ![k] = @ + 1]
                   /\ send_p4_msg(Answers(icell[k])[istep'[k]])
                   /\ UNCHANGED <<switches, main, files, recv, input_queue,
                                  wcell, icell, answered, dead>>

\* Mutant: the handler returns after its first entry.
InputReturnsEarly(k) == /\ icell[k] # None
                        /\ istep[k] = 1 \/ Answers(icell[k]) = <<>>
                        /\ answered' = answered \cup {icell[k]}
                        /\ icell' = [icell EXCEPT ![k] = None]
                        /\ istep' = [istep EXCEPT ![k] = 0]
                        /\ UNCHANGED <<switches, main, files, recv, input_queue,
                                       output_queue, wcell, lost, dead>>

\* ct->dh returns, at once if no dispatcher has the digest's name.
InputReturns(k) == /\ icell[k] # None
                   /\ istep[k] = Len(Answers(icell[k]))
                   /\ answered' = answered \cup {icell[k]}
                   /\ icell' = [icell EXCEPT ![k] = None]
                   /\ istep' = [istep EXCEPT ![k] = 0]
                   /\ UNCHANGED <<switches, main, files, recv, input_queue,
                                  output_queue, wcell, lost, dead>>

input_processor(k) == InputRemoves(k) \/ InputAnswers(k) \/ InputReturns(k)
-----------------------------------------------------------------------------
\* The switches (CtrlBackend.tla).  A program that runs several times connects
\* again each time, and its earlier connections stay.

Told(k) == \E i \in DOMAIN recv[k] : \E r \in 0 .. MaxConns :
              recv[k][i] = CtrlInitialized(r)

SwitchConnects == \E k \in Conns :
    /\ peer[k] = "none"
    /\ \A j \in 1 .. k - 1 : peer[j] # "none"
    /\ peer' = [peer EXCEPT ![k] = "up"]
    /\ UNCHANGED <<wire, made, main, files, input, recv, input_queue,
                   output_queue, wcell, lost, dead>>

\* A switch forwards, and makes digests, when it was told to, over this
\* connection or an earlier one of it.
SwitchSendsDigest(k) ==
    /\ peer[k] = "up"
    /\ \E j \in Conns : Told(j)
    /\ made < MaxDigests
    /\ made' = made + 1
    /\ wire' = [wire EXCEPT ![k] = Append(@, made')]
    /\ UNCHANGED <<peer, main, files, input, recv, input_queue, output_queue,
                   wcell, lost, dead>>

SwitchEnds(k) ==
    /\ peer[k] = "up"
    /\ Cardinality({j \in Conns : peer[j] \in {"eof", "reset"}}) < MaxEnds
    /\ \/ peer' = [peer EXCEPT ![k] = "eof"] /\ UNCHANGED wire
       \/ /\ peer' = [peer EXCEPT ![k] = "reset"]
          /\ wire' = [wire EXCEPT ![k] = <<>>]
    /\ UNCHANGED <<made, main, files, input, recv, input_queue, output_queue,
                   wcell, lost, dead>>

Next == /\ ~dead
        /\ \/ MainStarts \/ execute_controller \/ SwitchConnects
           \/ \E k \in Conns : \/ output_processor(k) \/ input_processor(k)
                               \/ SwitchSendsDigest(k) \/ SwitchEnds(k)

Spec == Init /\ [][Next]_vars

\* Each thread of the controller runs while the process is alive, and the main
\* loop serves every descriptor that is ready.  Nothing is asked of the switches.
FairSpec == /\ Spec
            /\ WF_vars(~dead /\ (MainStarts \/ MainDispatches \/ MainInits))
            /\ WF_vars(~dead /\ MainAccepts)
            /\ \A k \in Conns :
                  /\ WF_vars(~dead /\ (MainReads(k) \/ MainReadError(k)
                                         \/ MainReadEOF(k)))
                  /\ WF_vars(~dead /\ output_processor(k))
                  /\ WF_vars(~dead /\ input_processor(k))
-----------------------------------------------------------------------------
TypeOK == /\ peer \in [Conns -> {"none", "up", "eof", "reset"}]
          /\ fd \in [Conns -> 0 .. MaxConns] /\ sock_fd \in [Conns -> 0 .. MaxConns]
          /\ wire \in [Conns -> Seq(Digests)]
          /\ recv \in [Conns -> Seq(Messages)]
          /\ made \in 0 .. MaxDigests /\ accepted \in 0 .. MaxConns
          /\ mpc \in {"start", "select", "dispatched", "init"}
          /\ todo \in 0 .. NEntries + 1
          /\ input_queue \in Seq(Digests) /\ output_queue \in Seq(Messages)
          /\ wcell \in [Conns -> Messages \cup {None}]
          /\ icell \in [Conns -> Digests \cup {None}]
          /\ istep \in [Conns -> 0 .. 2]
          /\ answered \subseteq Digests /\ lost \subseteq Messages
          /\ dead \in BOOLEAN

\* Where a message is in a sequence.
At(q, m) == {i \in DOMAIN q : q[i] = m}

Places(m) == Cardinality(At(output_queue, m))
             + Cardinality({k \in Conns : wcell[k] = m})
             + Cardinality(UNION {{k} \X At(recv[k], m) : k \in Conns})
             + (IF m \in lost THEN 1 ELSE 0)

\* The program has called send_p4_msg for the message.
WasSent(m) ==
    IF m[1] = "learn"
    THEN m[2] \in answered \ Unknown
           \/ \E k \in Conns : icell[k] = m[2] /\ m[3] <= istep[k]
    ELSE IF m[2] = 0 THEN NotifyFirst /\ mpc # "start" /\ m = CtrlInitialized(0)
    ELSE \E i \in DOMAIN Script(m[2]) :
            /\ Script(m[2])[i] = m
            /\ \/ m[2] < accepted
               \/ m[2] = accepted /\ mpc = "select"
               \/ m[2] = accepted /\ mpc = "init" /\ i < todo

\* However many connections share the queue, a message the program sends is in
\* exactly one place until it was written, and is written to one switch once.
\* The type invariant is part of it.
EachMessageOnce ==
    TypeOK /\ \A m \in Messages : Places(m) = IF WasSent(m) THEN 1 ELSE 0

\* When the first switch is told that the controller has initialized it, it has
\* every entry of init(): the message overtakes nothing, no entry was dropped.
ConfiguredWhenTold ==
    accepted = 1 /\ Told(1) =>
        \A i \in 1 .. NEntries : At(recv[1], <<"init", 1, i>>) # {}

\* Two output_processors never write to one descriptor.
OneWriterEach == \A j, k \in 1 .. accepted : sock_fd[j] = sock_fd[k] => j = k

\* As long as no descriptor was used again, what a switch gets of one run of
\* init(), or of the answers to one digest, comes in the order it was sent, also
\* when several switches share the queue and get only parts of it.
PartsInOrder ==
    OneWriterEach =>
        \A k \in Conns : \A i, j \in DOMAIN recv[k] :
            LET a == recv[k][i]
                b == recv[k][j]
            IN  a[1] = b[1] /\ a[2] = b[2] /\ i < j => a[3] < b[3]

\* The first switch is gone, or not the only one, or the process is.
Disturbed == dead \/ peer[1] # "up" \/ accepted > 1

\* A switch that connects, and then waits in launch_backend, is told to start.
SwitchConfigured == peer[1] = "up" ~> Told(1) \/ Disturbed

\* A switch that sends a digest gets both entries it asks for.
DigestAnswered ==
    \A d \in Digests \ Unknown :
        made >= d ~> \/ \A i \in {1, 2} : At(recv[1], <<"learn", d, i>>) # {}
                     \/ Disturbed
=============================================================================
