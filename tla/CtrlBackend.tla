------------------------------- MODULE CtrlBackend -------------------------------
(***************************************************************************)
(* The switch's end of the connection to the controller                    *)
(* (ctrl_plane_backend.c): launch_backend on the main thread, the three    *)
(* threads it starts, and the lcores that send digests.                    *)
(*                                                                         *)
(*   backend_processor   socket -> input_queue                             *)
(*   input_processor     input_queue -> handle_p4_msg -> the tables        *)
(*   output_processor    output_queue -> socket                            *)
(*   the lcores          digest -> output_queue                            *)
(*                                                                         *)
(* All of them take memory cells from one pool and give them on by         *)
(* reference; nothing but the protocol says whose a cell is.  The queues   *)
(* are the ones Fifo.tla verifies, the pool the one of CellList.tla.  The  *)
(* threads are taken to be started: ThreadPool.tla says when they are not. *)
(***************************************************************************)
EXTENDS Integers, Sequences, FiniteSets

CONSTANTS Cells,       \* the cells of the pool (create_backend's queue_size)
          QSize,       \* P4_BG_QUEUE_SIZE
          Lcores,      \* the lcores that may send digests
          InitMsg,     \* which message of the controller is CTRL_INITIALIZED
          MaxMsgs,     \* bound: how many messages the controller sends
          MaxDigests,  \* bound: how many digests the lcores create
          None         \* the null pointer

ASSUME CellsAssumption == IsFiniteSet(Cells) /\ None \notin Cells
ASSUME PoolFitsQueue == QSize \in Nat /\ Cardinality(Cells) <= QSize
ASSUME InitMsgAssumption == InitMsg \in Nat \ {0}
ASSUME BoundsAssumption == MaxMsgs \in Nat /\ MaxDigests \in Nat

VARIABLES
  conn,         \* the TCP connection: "none", "up", "eof", "reset"
  wire,         \* messages the controller wrote, not read yet
  sent,         \* how many messages the controller wrote
  sock_open,    \* controller_sock is not closed on this side
  main,         \* launch_backend: "launch", "waiting", "running"
  initialized,  \* ctrl_is_initialized
  shutdown,     \* bgt->shutdown
  dead,         \* the process was terminated
  free,         \* the cells of the unused list
  data,         \* what the memory of a cell holds
  input_queue, output_queue,
  rpc, rcell,   \* backend_processor: where it is, and its cell
  ipc, icell,   \* input_processor
  opc, ocell,   \* output_processor
  dig,          \* the cell of the digest an lcore is making
  made,         \* how many digests were made
  digests,      \* history: the digests given to send_digest
  handled,      \* history: the messages handle_p4_msg applied
  delivered     \* history: the digests written to the connection

net == <<conn, wire, sent, sock_open>>
ctl == <<main, initialized, shutdown, dead>>
pool == <<free, data>>
reader == <<rpc, rcell>>
input == <<ipc, icell>>
output == <<opc, ocell>>
lcores == <<dig, made, digests>>
vars == <<net, ctl, pool, input_queue, output_queue, reader, input, output,
          lcores, handled, delivered>>

\* create_backend.
Init == /\ conn = "none" /\ wire = <<>> /\ sent = 0 /\ sock_open = TRUE
        /\ main = "launch" /\ initialized = FALSE /\ shutdown = FALSE
        /\ dead = FALSE
        /\ free = Cells
        /\ data = [c \in Cells |-> 0]
        /\ input_queue = <<>> /\ output_queue = <<>>
        /\ rpc = "off" /\ rcell = None
        /\ ipc = "off" /\ icell = None
        /\ opc = "off" /\ ocell = None
        /\ dig = [l \in Lcores |-> None]
        /\ made = 0 /\ digests = <<>> /\ handled = <<>> /\ delivered = <<>>

\* Mutant: the newest is served first.
AddedInFront(q, c) == IF Len(q) < QSize THEN <<c>> \o q ELSE q

\* fifo_add_msg: a full queue drops the cell, and the caller is not told.
Added(q, c) == IF Len(q) < QSize THEN Append(q, c) ELSE q
-----------------------------------------------------------------------------
\* launch_backend and stop_backend, on the main thread.

LaunchConnects == /\ main = "launch"
                  /\ conn' = "up"
                  /\ main' = "waiting"
                  /\ rpc' = "select" /\ ipc' = "wait" /\ opc' = "wait"
                  /\ UNCHANGED <<wire, sent, sock_open, initialized, shutdown,
                                 dead, pool, input_queue, output_queue, rcell,
                                 icell, ocell, lcores, handled, delivered>>

\* connect fails: no thread is started, and the switch runs all the same.
LaunchFails == /\ main = "launch"
               /\ main' = "running"
               /\ UNCHANGED <<net, initialized, shutdown, dead, pool,
                              input_queue, output_queue, reader, input, output,
                              lcores, handled, delivered>>

\* Mutant: launch_backend does not wait.
LaunchReturnsAtOnce == /\ main = "waiting"
                       /\ main' = "running"
                       /\ UNCHANGED <<net, initialized, shutdown, dead, pool,
                                      input_queue, output_queue, reader, input,
                                      output, lcores, handled, delivered>>

\* while (!ctrl_is_initialized) usleep(CTRL_INIT_TIMEOUT)
LaunchReturns == /\ main = "waiting"
                 /\ initialized
                 /\ main' = "running"
                 /\ UNCHANGED <<net, initialized, shutdown, dead, pool,
                                input_queue, output_queue, reader, input, output,
                                lcores, handled, delivered>>

\* shutdown is set first; destroy_threadpool then ends the process with its
\* SIGUSR1, at any time after that (EndOfProcess).
stop_backend == /\ main = "running"
                /\ ~shutdown
                /\ shutdown' = TRUE
                /\ UNCHANGED <<net, main, initialized, dead, pool, input_queue,
                               output_queue, reader, input, output, lcores,
                               handled, delivered>>

EndOfProcess == /\ shutdown
                /\ dead' = TRUE
                /\ UNCHANGED <<net, main, initialized, shutdown, pool,
                               input_queue, output_queue, reader, input, output,
                               lcores, handled, delivered>>
-----------------------------------------------------------------------------
\* The controller's end of the connection.

ControllerSends == /\ conn = "up"
                   /\ sent < MaxMsgs
                   /\ sent' = sent + 1
                   /\ wire' = Append(wire, sent + 1)
                   /\ UNCHANGED <<conn, sock_open, ctl, pool, input_queue,
                                  output_queue, reader, input, output, lcores,
                                  handled, delivered>>

\* It closes the connection (what it wrote still arrives), or the connection is
\* reset (what was not read is gone).
ConnectionEnds == /\ conn = "up"
                  /\ \/ conn' = "eof" /\ UNCHANGED wire
                     \/ conn' = "reset" /\ wire' = <<>>
                  /\ UNCHANGED <<sent, sock_open, ctl, pool, input_queue,
                                 output_queue, reader, input, output, lcores,
                                 handled, delivered>>
-----------------------------------------------------------------------------
\* backend_processor.

\* select returns because of the socket; the timeout only repeats the loop.
ReaderSelect == /\ rpc = "select"
                /\ ~shutdown
                /\ wire # <<>> \/ conn # "up"
                /\ rpc' = "touch"
                /\ UNCHANGED <<net, ctl, pool, input_queue, output_queue, rcell,
                               input, output, lcores, handled, delivered>>

\* Mutant: the reader gives up when there is no cell.
ReaderGivesUp == /\ rpc = "touch"
                 /\ IF free = {} THEN rpc' = "off" /\ UNCHANGED <<rcell, free>>
                    ELSE /\ \E c \in free : rcell' = c /\ free' = free \ {c}
                         /\ rpc' = "read"
                 /\ UNCHANGED <<net, ctl, data, input_queue, output_queue, input,
                                output, lcores, handled, delivered>>

\* touch_mem_cell, tried again until there is a cell.
ReaderTouch == /\ rpc = "touch"
               /\ \E c \in free : rcell' = c /\ free' = free \ {c}
               /\ rpc' = "read"
               /\ UNCHANGED <<net, ctl, data, input_queue, output_queue, input,
                              output, lcores, handled, delivered>>

\* read_p4_msg > 0.
ReaderReads == /\ rpc = "read"
               /\ wire # <<>>
               /\ data' = [data EXCEPT ![rcell] = Head(wire)]
               /\ wire' = Tail(wire)
               /\ rpc' = "add"
               /\ UNCHANGED <<conn, sent, sock_open, ctl, free, input_queue,
                              output_queue, rcell, input, output, lcores,
                              handled, delivered>>

ReaderAdds == /\ rpc = "add"
              /\ input_queue' = Added(input_queue, rcell)
              /\ rcell' = None
              /\ rpc' = "select"
              /\ UNCHANGED <<net, ctl, pool, output_queue, input, output, lcores,
                             handled, delivered>>

\* read_p4_msg < 0: nobody gives the cell back.  After it the socket is at EOF.
ReaderError == /\ rpc = "read"
               /\ conn = "reset"
               /\ conn' = "eof"
               /\ rcell' = None
               /\ rpc' = "select"
               /\ UNCHANGED <<wire, sent, sock_open, ctl, pool, input_queue,
                              output_queue, input, output, lcores, handled,
                              delivered>>

\* read_p4_msg = 0: nor does anybody here.
ReaderEOF == /\ rpc = "read"
             /\ conn = "eof"
             /\ wire = <<>>
             /\ rcell' = None
             /\ rpc' = "off"
             /\ sock_open' = FALSE
             /\ UNCHANGED <<conn, wire, sent, ctl, pool, input_queue,
                            output_queue, input, output, lcores, handled,
                            delivered>>

\* The flag is looked at after select, at the latest after its timeout.
ReaderStops == /\ rpc = "select"
               /\ shutdown
               /\ rpc' = "off"
               /\ sock_open' = FALSE
               /\ UNCHANGED <<conn, wire, sent, ctl, pool, input_queue,
                              output_queue, rcell, input, output, lcores,
                              handled, delivered>>

backend_processor == ReaderSelect \/ ReaderTouch \/ ReaderReads \/ ReaderAdds
                     \/ ReaderError \/ ReaderEOF \/ ReaderStops
-----------------------------------------------------------------------------
\* input_processor.

\* Mutant: the cell is given back before its message is handled.
InputRemovesAndFrees ==
    /\ ipc = "wait"
    /\ input_queue # <<>>
    /\ icell' = Head(input_queue)
    /\ free' = free \cup {Head(input_queue)}
    /\ input_queue' = Tail(input_queue)
    /\ ipc' = IF shutdown THEN "off" ELSE "handle"
    /\ UNCHANGED <<net, ctl, data, output_queue, reader, output, lcores,
                   handled, delivered>>

\* fifo_wait and fifo_remove_msg; shutdown is looked at after the removal, and
\* the cell then stays with the thread that is gone.
InputRemoves == /\ ipc = "wait"
                /\ input_queue # <<>>
                /\ icell' = Head(input_queue)
                /\ input_queue' = Tail(input_queue)
                /\ ipc' = IF shutdown THEN "off" ELSE "handle"
                /\ UNCHANGED <<net, ctl, pool, output_queue, reader, output,
                               lcores, handled, delivered>>

\* handle_p4_msg: the message is applied through the callback.
InputHandles == /\ ipc = "handle"
                /\ handled' = Append(handled, data[icell])
                /\ initialized' = (initialized \/ data[icell] = InitMsg)
                /\ ipc' = "detouch"
                /\ UNCHANGED <<net, main, shutdown, dead, pool, input_queue,
                               output_queue, reader, icell, output, lcores,
                               delivered>>

\* Mutant: the cell is not given back.
InputKeepsCell == /\ ipc = "detouch"
                  /\ icell' = None
                  /\ ipc' = "wait"
                  /\ UNCHANGED <<net, ctl, pool, input_queue, output_queue,
                                 reader, output, lcores, handled, delivered>>

InputDetouches == /\ ipc = "detouch"
                  /\ free' = free \cup {icell}
                  /\ icell' = None
                  /\ ipc' = "wait"
                  /\ UNCHANGED <<net, ctl, data, input_queue, output_queue,
                                 reader, output, lcores, handled, delivered>>

input_processor == InputRemoves \/ InputHandles \/ InputDetouches
-----------------------------------------------------------------------------
\* output_processor.

OutputRemoves == /\ opc = "wait"
                 /\ output_queue # <<>>
                 /\ ocell' = Head(output_queue)
                 /\ output_queue' = Tail(output_queue)
                 /\ opc' = IF shutdown THEN "off" ELSE "write"
                 /\ UNCHANGED <<net, ctl, pool, input_queue, reader, input,
                                lcores, handled, delivered>>

\* write_p4_msg, its result not looked at.
OutputWrites == /\ opc = "write"
                /\ delivered' = IF conn = "up" /\ sock_open
                                THEN Append(delivered, data[ocell]) ELSE delivered
                /\ opc' = "detouch"
                /\ UNCHANGED <<net, ctl, pool, input_queue, output_queue, reader,
                               input, ocell, lcores, handled>>

\* A write to a connection the other side has left may raise SIGPIPE, which
\* nothing in the program handles.
OutputKilled == /\ opc = "write"
                /\ conn # "up" /\ sock_open
                /\ dead' = TRUE
                /\ UNCHANGED <<net, main, initialized, shutdown, pool,
                               input_queue, output_queue, reader, input, output,
                               lcores, handled, delivered>>

\* Mutant: the thread ends with the first digest.
OutputEnds == /\ opc = "detouch"
              /\ free' = free \cup {ocell}
              /\ ocell' = None
              /\ opc' = "off"
              /\ UNCHANGED <<net, ctl, data, input_queue, output_queue, reader,
                             input, lcores, handled, delivered>>

OutputDetouches == /\ opc = "detouch"
                   /\ free' = free \cup {ocell}
                   /\ ocell' = None
                   /\ opc' = "wait"
                   /\ UNCHANGED <<net, ctl, data, input_queue, output_queue,
                                  reader, input, lcores, handled, delivered>>

output_processor == OutputRemoves \/ OutputWrites \/ OutputKilled
                    \/ OutputDetouches
-----------------------------------------------------------------------------
\* An lcore makes a digest while it processes a packet.

create_digest(l) == /\ main = "running"
                    /\ dig[l] = None
                    /\ made < MaxDigests
                    /\ \E c \in free : /\ free' = free \ {c}
                                       /\ dig' = [dig EXCEPT ![l] = c]
                                       /\ data' = [data EXCEPT ![c] = made + 1]
                    /\ made' = made + 1
                    /\ UNCHANGED <<net, ctl, input_queue, output_queue, reader,
                                   input, output, digests, handled, delivered>>

\* No cell: create_digest returns 0, and add_digest_field follows the pointer.
create_digest_fails(l) == /\ main = "running"
                          /\ dig[l] = None
                          /\ made < MaxDigests
                          /\ free = {}
                          /\ dead' = TRUE
                          /\ UNCHANGED <<net, main, initialized, shutdown, pool,
                                         input_queue, output_queue, reader,
                                         input, output, lcores, handled,
                                         delivered>>

send_digest(l) == /\ dig[l] # None
                  /\ output_queue' = Added(output_queue, dig[l])
                  /\ digests' = Append(digests, data[dig[l]])
                  /\ dig' = [dig EXCEPT ![l] = None]
                  /\ UNCHANGED <<net, ctl, pool, input_queue, reader, input,
                                 output, made, handled, delivered>>

Switch == \/ LaunchConnects \/ LaunchFails \/ LaunchReturns
          \/ stop_backend \/ EndOfProcess
          \/ backend_processor \/ input_processor \/ output_processor
          \/ \E l \in Lcores : \/ create_digest(l) \/ create_digest_fails(l)
                               \/ send_digest(l)

Next == ~dead /\ (Switch \/ ControllerSends \/ ConnectionEnds)

Spec == Init /\ [][Next]_vars

\* Each thread of the switch runs while the process is alive.  Nothing is asked
\* of the controller, of the connection or of what makes digests.
FairSpec == /\ Spec
            /\ WF_vars(~dead /\ LaunchReturns)
            /\ WF_vars(~dead /\ backend_processor)
            /\ WF_vars(~dead /\ input_processor)
            /\ WF_vars(~dead /\ output_processor)
            /\ \A l \in Lcores : WF_vars(~dead /\ send_digest(l))
-----------------------------------------------------------------------------
MaybeCell == Cells \cup {None}

TypeOK == /\ conn \in {"none", "up", "eof", "reset"}
          /\ wire \in Seq(Nat) /\ sent \in 0 .. MaxMsgs
          /\ sock_open \in BOOLEAN
          /\ main \in {"launch", "waiting", "running"}
          /\ initialized \in BOOLEAN /\ shutdown \in BOOLEAN /\ dead \in BOOLEAN
          /\ free \subseteq Cells
          /\ data \in [Cells -> Nat]
          /\ input_queue \in Seq(Cells) /\ output_queue \in Seq(Cells)
          /\ rpc \in {"off", "select", "touch", "read", "add"}
          /\ ipc \in {"off", "wait", "handle", "detouch"}
          /\ opc \in {"off", "wait", "write", "detouch"}
          /\ rcell \in MaybeCell /\ icell \in MaybeCell /\ ocell \in MaybeCell
          /\ dig \in [Lcores -> MaybeCell]
          /\ made \in 0 .. MaxDigests
          /\ digests \in Seq(Nat) /\ handled \in Seq(Nat) /\ delivered \in Seq(Nat)

\* In how many places a cell is.
Places(c) == Cardinality({i \in DOMAIN input_queue : input_queue[i] = c})
             + Cardinality({i \in DOMAIN output_queue : output_queue[i] = c})
             + Cardinality({l \in Lcores : dig[l] = c})
             + Cardinality({p \in {1, 2, 3} : <<rcell, icell, ocell>>[p] = c})
             + (IF c \in free THEN 1 ELSE 0)

\* A cell is never in two places: nobody writes, reads or frees the memory of a
\* message somebody else still has.  The type invariant is part of it.
OneOwner == TypeOK /\ \A c \in Cells : Places(c) <= 1

\* A cell leaves the cycle only with a failed read, of which a connection has at
\* most two: one for a reset and one for the EOF.
LeakOnlyFailedReads ==
    LET leaked == Cardinality({c \in Cells : Places(c) = 0})
    IN  leaked <= CASE conn \in {"none", "up", "reset"} -> 0
                    [] conn = "eof" /\ rpc # "off" -> 1
                    [] OTHER -> 2

\* The data of a cell in hand, if the cell still stands for it.
InHand(pc, at, c) == IF pc = at THEN <<data[c]>> ELSE <<>>
DataOf(q) == [i \in DOMAIN q |-> data[q[i]]]

\* What is done is a prefix of everything there was, and with what is on its
\* way all of it while the connection lasts.
InOrder(done, onTheWay, all) ==
    /\ Len(done) <= Len(all)
    /\ done = SubSeq(all, 1, Len(done))
    /\ conn = "up" /\ ~shutdown => done \o onTheWay = all

\* The messages of the controller are handled in the order they were sent, once,
\* and none is skipped, also after the connection is lost; until then each is
\* handled or on its way: no queue drops one, and no cell is used again before
\* its message was handled.
MessagesInOrder ==
    InOrder(handled, InHand(ipc, "handle", icell) \o DataOf(input_queue)
                       \o InHand(rpc, "add", rcell) \o wire,
            [i \in 1 .. sent |-> i])

\* So are the digests of the lcores written to the connection.
DigestsInOrder ==
    InOrder(delivered, InHand(opc, "write", ocell) \o DataOf(output_queue), digests)

\* When the switch starts to forward, everything the controller sent up to
\* CTRL_INITIALIZED is in the tables, unless there is no controller at all.
ConfiguredBeforeRunning == main = "running" /\ conn # "none" =>
                              Len(handled) >= InitMsg

\* The connection or the process has ended.
Lost == conn \in {"eof", "reset"} \/ dead \/ shutdown

\* Every message the controller sends is handled: the reader is not left without
\* a cell by digests and handlers that have them all.
MessagesHandled == \A m \in 1 .. MaxMsgs :
                      sent >= m ~> Len(handled) >= m \/ Lost

\* Every digest given to send_digest is written to the connection, if there was
\* one.
DigestsDelivered == \A n \in 1 .. MaxDigests :
                       Len(digests) >= n ~> Len(delivered) >= n \/ Lost \/ conn = "none"
=============================================================================
