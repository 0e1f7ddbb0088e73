------------------------------ MODULE TableReplica ------------------------------
(***************************************************************************)
(* A match-action table of the DPDK switch, replicated so that it can be   *)
(* changed while the lcores read it (dpdk_lib_change_tables.c).            *)
(*                                                                         *)
(* Every socket has NB_REPLICA copies of the table; an lcore has a pointer *)
(* to one of them and copies the pointer when it starts a packet.  An      *)
(* update (an entry added, a default action set) is made on socket after   *)
(* socket: it writes the replica after the active one, points the lcores   *)
(* of the socket at it one by one, sleeps, and writes the other replicas.  *)
(* Nothing is locked: the sleep is meant to outlast every packet that      *)
(* still reads a replica about to be written.                              *)
(*                                                                         *)
(* Two threads make updates: input_processor for the controller's          *)
(* messages, at any time, and main for the default action of the program,  *)
(* after CTRL_INITIALIZED was handled and before the lcores are launched.  *)
(* Their updates can overlap; what holds then and what only holds for      *)
(* updates that run alone is said at the properties.                       *)
(***************************************************************************)
EXTENDS Integers, Sequences, FiniteSets

CONSTANTS Lcores,       \* the enabled lcores, by their ids
          SocketOf,     \* rte_lcore_to_socket_id
          NumaOn,       \* numa_on, which --no-numa clears
          NB_REPLICA,   \* copies of the table on a socket
          Slow,         \* the lcores whose packets may outlast the sleep
          Meanwhile,    \* messages are handled while main sets the default: the
                        \* controller sends CTRL_INITIALIZED before its entries
          MaxUpdates,   \* bound: how many updates are made
          None          \* no packet in progress

ASSUME LcoresAssumption == Lcores \subseteq Nat /\ IsFiniteSet(Lcores)
ASSUME SocketAssumption == SocketOf \in [Lcores -> Nat]
ASSUME NumaOnAssumption == NumaOn \in BOOLEAN
ASSUME ReplicaAssumption == NB_REPLICA \in Nat /\ NB_REPLICA >= 2
ASSUME MeanwhileAssumption == Meanwhile \in BOOLEAN
ASSUME UpdatesAssumption == MaxUpdates \in Nat
ASSUME NoneAssumption == None \notin Nat
ASSUME SlowAssumption == Slow \subseteq Lcores

VARIABLES tables,           \* lcore_conf[l].state.tables: the replica l uses
          active_replica,   \* state[s].active_replica
          content,          \* the updates made to each replica, in order
          held,             \* the replica the packet in progress copied
          launch,           \* how far main is: it waits for the controller, sets
                            \* the default action, has set it, has launched
          pc,               \* per updating thread, where it is
          socketid,         \* and its locals
          next_replica,
          todo,             \* what is left of the loop it is in
          update,           \* the update it makes
          drain,            \* the packets its sleep outlasts
          made,             \* updates begun so far: they are numbered from 1
          mixed             \* history: the pairs of updates that overlapped

writers == <<pc, socketid, next_replica, todo, update, drain>>
vars == <<tables, active_replica, content, held, launch, writers, made, mixed>>

Threads == {"main", "input_processor"}
Other(t) == IF t = "main" THEN "input_processor" ELSE "main"
Replicas == 0 .. NB_REPLICA - 1

\* The socket whose tables an lcore uses.
get_socketid(l) == IF NumaOn THEN SocketOf[l] ELSE 0

\* state[s].tables[0][0] != NULL
Sockets == {get_socketid(l) : l \in Lcores}
OnSocket(s) == {l \in Lcores : get_socketid(l) = s}

\* Mutant: the loop of change_replica begins at the second lcore.
SwitchedButFirst(s) == {l \in Lcores \ {0} : SocketOf[l] = s}

\* The lcores change_replica finds on a socket: not by get_socketid.
SwitchedOn(s) == {l \in Lcores : SocketOf[l] = s}

\* Loops run through lcores, replicas and sockets in ascending order.
First(S) == CHOOSE x \in S : \A y \in S : x <= y
Later(S, x) == {y \in S : y > x}

Init == /\ tables = [l \in Lcores |-> 0]
        /\ active_replica = [s \in Sockets |-> 0]
        /\ content = [s \in Sockets |-> [r \in Replicas |-> <<>>]]
        /\ held = [l \in Lcores |-> None]
        /\ launch = "waits"
        /\ pc = [t \in Threads |-> "idle"]
        /\ socketid = [t \in Threads |-> 0]
        /\ next_replica = [t \in Threads |-> 0]
        /\ todo = [t \in Threads |-> {}]
        /\ update = [t \in Threads |-> 0]
        /\ drain = [t \in Threads |-> {}]
        /\ made = 0
        /\ mixed = {}
-----------------------------------------------------------------------------
\* An update, by thread t.

\* Mutant: the replicas do not wrap around.
StartUnwrapped(t, s) ==
    /\ pc' = [pc EXCEPT ![t] = "write_next"]
    /\ socketid' = [socketid EXCEPT ![t] = s]
    /\ next_replica' = [next_replica EXCEPT ![t] = active_replica[s] + 1]

\* CHANGE_TABLE on socket s: it starts to write the replica after the active one.
StartSocket(t, s) ==
    /\ pc' = [pc EXCEPT ![t] = "write_next"]
    /\ socketid' = [socketid EXCEPT ![t] = s]
    /\ next_replica' = [next_replica EXCEPT ![t] =
                           (active_replica[s] + 1) % NB_REPLICA]

\* exact_add_promote, lpm_add_promote, ternary_add_promote or
\* table_setdefault_promote is called and runs FORALLNUMANODES.
promote(t) == /\ pc[t] = "idle"
              /\ made < MaxUpdates
              /\ Sockets # {}
              /\ made' = made + 1
              /\ update' = [update EXCEPT ![t] = made + 1]
              /\ StartSocket(t, First(Sockets))
              /\ mixed' = IF pc[Other(t)] = "idle" THEN mixed
                          ELSE mixed \cup {<<update[Other(t)], made + 1>>}
              /\ UNCHANGED <<tables, active_replica, content, held, todo, drain>>

Written(t, r) ==
    content' = [content EXCEPT ![socketid[t]][r] = Append(@, update[t])]

\* fun(state[socketid].tables[tableid][next_replica], par) returns.
WriteNext(t) ==
    /\ pc[t] = "write_next"
    /\ Written(t, next_replica[t])
    /\ pc' = [pc EXCEPT ![t] = "switch"]
    /\ todo' = [todo EXCEPT ![t] = SwitchedOn(socketid[t])]
    /\ UNCHANGED <<tables, active_replica, held, launch, socketid, next_replica,
                   update, drain, made, mixed>>

\* change_replica, for the next lcore: its pointer, and then active_replica.
PointLcore(t) ==
    /\ pc[t] = "switch"
    /\ todo[t] # {}
    /\ tables' = [tables EXCEPT ![First(todo[t])] = next_replica[t]]
    /\ pc' = [pc EXCEPT ![t] = "activate"]
    /\ UNCHANGED <<active_replica, content, held, launch, socketid, next_replica,
                   todo, update, drain, made, mixed>>

Activate(t) ==
    /\ pc[t] = "activate"
    /\ active_replica' = [active_replica EXCEPT ![socketid[t]] = next_replica[t]]
    /\ todo' = [todo EXCEPT ![t] = @ \ {First(@)}]
    /\ pc' = [pc EXCEPT ![t] = "switch"]
    /\ UNCHANGED <<tables, content, held, launch, socketid, next_replica, update,
                   drain, made, mixed>>

change_replica(t) == PointLcore(t) \/ Activate(t)

\* Mutant: it waits for a packet of every lcore, busy or not.
WaitForEveryLcore(t) ==
    /\ pc[t] = "switch"
    /\ todo[t] = {}
    /\ pc' = [pc EXCEPT ![t] = "sleep"]
    /\ drain' = [drain EXCEPT ![t] = Lcores]
    /\ UNCHANGED <<tables, active_replica, content, held, launch, socketid,
                   next_replica, todo, update, made, mixed>>

\* usleep(TABCHANGE_SLEEP_MICROS) begins.  A packet in progress at this
\* moment is over when it returns, unless its lcore is one of Slow.
StartSleep(t) ==
    /\ pc[t] = "switch"
    /\ todo[t] = {}
    /\ pc' = [pc EXCEPT ![t] = "sleep"]
    /\ drain' = [drain EXCEPT ![t] = {l \in Lcores \ Slow : held[l] # None}]
    /\ UNCHANGED <<tables, active_replica, content, held, launch, socketid,
                   next_replica, todo, update, made, mixed>>

\* Mutants: it does not sleep; it goes on with the replicas behind the new one.
EndSleepAtOnce(t) ==
    /\ pc[t] = "sleep"
    /\ pc' = [pc EXCEPT ![t] = "write_others"]
    /\ todo' = [todo EXCEPT ![t] = Replicas \ {next_replica[t]}]
    /\ UNCHANGED <<tables, active_replica, content, held, launch, socketid,
                   next_replica, update, drain, made, mixed>>
EndSleepWritesLater(t) ==
    /\ pc[t] = "sleep"
    /\ drain[t] = {}
    /\ pc' = [pc EXCEPT ![t] = "write_others"]
    /\ todo' = [todo EXCEPT ![t] = Later(Replicas, next_replica[t])]
    /\ UNCHANGED <<tables, active_replica, content, held, launch, socketid,
                   next_replica, update, drain, made, mixed>>

EndSleep(t) ==
    /\ pc[t] = "sleep"
    /\ drain[t] = {}
    /\ pc' = [pc EXCEPT ![t] = "write_others"]
    /\ todo' = [todo EXCEPT ![t] = Replicas \ {next_replica[t]}]
    /\ UNCHANGED <<tables, active_replica, content, held, launch, socketid,
                   next_replica, update, drain, made, mixed>>

\* fun returns for the next of the other replicas.
WriteOther(t) ==
    /\ pc[t] = "write_others"
    /\ todo[t] # {}
    /\ Written(t, First(todo[t]))
    /\ todo' = [todo EXCEPT ![t] = @ \ {First(@)}]
    /\ UNCHANGED <<tables, active_replica, held, launch, pc, socketid, next_replica,
                   update, drain, made, mixed>>

\* The socket is done: on to the next one, or back to the caller.
EndSocket(t) ==
    /\ pc[t] = "write_others"
    /\ todo[t] = {}
    /\ IF Later(Sockets, socketid[t]) # {}
       THEN StartSocket(t, First(Later(Sockets, socketid[t])))
       ELSE /\ pc' = [pc EXCEPT ![t] = "idle"]
            /\ UNCHANGED <<socketid, next_replica>>
    /\ UNCHANGED <<tables, active_replica, content, held, launch, todo, update,
                   drain, made, mixed>>

Update(t) == WriteNext(t) \/ change_replica(t) \/ StartSleep(t) \/ EndSleep(t)
             \/ WriteOther(t) \/ EndSocket(t)
-----------------------------------------------------------------------------
\* input_processor handles a message: an update, or CTRL_INITIALIZED.
HandleUpdate == /\ Meanwhile \/ launch \in {"waits", "launched"}
                /\ promote("input_processor")
                /\ UNCHANGED launch

ctrl_initialized == /\ launch = "waits"
                    /\ pc["input_processor"] = "idle"
                    /\ launch' = "sets_default"
                    /\ UNCHANGED <<tables, active_replica, content, held, writers,
                                   made, mixed>>

\* main: init_table_default_actions makes an update unless it finds that the
\* controller set a default action, and then the lcores are launched.
init_table_default_actions == /\ launch = "sets_default"
                              /\ promote("main")
                              /\ launch' = "has_set_default"

launch_dpdk == /\ launch \in {"sets_default", "has_set_default"}
               /\ pc["main"] = "idle"
               /\ launch' = "launched"
               /\ UNCHANGED <<tables, active_replica, content, held, writers,
                              made, mixed>>
-----------------------------------------------------------------------------
\* The lcores: do_handle_packet copies the state, tables included, and looks
\* everything up through the copy until the packet is sent or dropped.
do_handle_packet(l) == /\ launch = "launched"
                       /\ held[l] = None
                       /\ held' = [held EXCEPT ![l] = tables[l]]
                       /\ UNCHANGED <<tables, active_replica, content, launch,
                                      writers, made, mixed>>

PacketDone(l) == /\ held[l] # None
                 /\ held' = [held EXCEPT ![l] = None]
                 /\ drain' = [t \in Threads |-> drain[t] \ {l}]
                 /\ UNCHANGED <<tables, active_replica, content, launch, pc,
                                socketid, next_replica, todo, update, made, mixed>>

Next == \/ HandleUpdate \/ ctrl_initialized
        \/ init_table_default_actions \/ launch_dpdk
        \/ \E t \in Threads : Update(t)
        \/ \E l \in Lcores : do_handle_packet(l) \/ PacketDone(l)

Spec == Init /\ [][Next]_vars

\* A thread goes on with the update it makes, and every packet ends.
FairSpec == /\ Spec
            /\ \A t \in Threads : WF_vars(Update(t))
            /\ \A l \in Lcores : WF_vars(PacketDone(l))
-----------------------------------------------------------------------------
TypeOK ==
    /\ tables \in [Lcores -> Replicas]
    /\ active_replica \in [Sockets -> Replicas]
    /\ content \in [Sockets -> [Replicas -> Seq(1 .. MaxUpdates)]]
    /\ held \in [Lcores -> Replicas \cup {None}]
    /\ launch \in {"waits", "sets_default", "has_set_default", "launched"}
    /\ pc \in [Threads -> {"idle", "write_next", "switch", "activate", "sleep",
                           "write_others"}]
    /\ socketid \in [Threads -> Sockets \cup {0}]
    /\ next_replica \in [Threads -> Replicas]
    /\ todo \in [Threads -> SUBSET (Lcores \cup Replicas)]
    /\ update \in [Threads -> 0 .. MaxUpdates]
    /\ drain \in [Threads -> SUBSET Lcores]
    /\ made \in 0 .. MaxUpdates
    /\ mixed \subseteq (1 .. MaxUpdates) \X (1 .. MaxUpdates)

Idle == \A t \in Threads : pc[t] = "idle"
Ended(n) == n \in 1 .. made /\ \A t \in Threads : pc[t] = "idle" \/ update[t] # n

\* No updates have overlapped yet, or one that ran alone has ended since.
Apart == \/ mixed = {}
         \/ \E n \in 1 .. made : Ended(n) /\ \A p \in mixed : p[2] < n

\* The replica a thread is in the middle of writing, if any.
Writing(t, s, r) == /\ s = socketid[t]
                    /\ \/ pc[t] = "write_next" /\ r = next_replica[t]
                       \/ pc[t] = "write_others" /\ todo[t] # {} /\ r = First(todo[t])

\* Nobody reads a half-written table: while a replica is written no packet
\* holds it and no lcore would give it to its next packet.  A packet that
\* outlasts the sleep can break this, and so can an update of main and one of
\* input_processor at the same time, until a later update has run alone.
ExclusiveWrite ==
    Apart => \A l \in Lcores \ Slow, t \in Threads, r \in Replicas :
                Writing(t, get_socketid(l), r) => held[l] # r /\ tables[l] # r

\* Between updates every replica has every update, once, so that the next
\* update can start from any of them; and two updates are in the same order in
\* all of them unless they overlapped.  (Two defaults that did can stay in
\* different orders: the replicas then differ for as long as they exist.)
ReplicasConverge ==
    Idle => \A s \in Sockets, r \in Replicas :
               LET c == content[s][r]
               IN  /\ {c[i] : i \in DOMAIN c} = 1 .. made
                   /\ \A i, j \in DOMAIN c :
                         i < j => c[i] < c[j] \/ <<c[j], c[i]>> \in mixed

\* Between updates every lcore uses the active replica of its socket.  Two
\* updates that overlap can leave lcores on other replicas; the next one that
\* runs alone brings all of them back.
LcoresFollow == Idle /\ Apart =>
                   \A l \in Lcores : tables[l] = active_replica[get_socketid(l)]

TableOf(l) == content[get_socketid(l)][tables[l]]
PacketTable(l) == IF held[l] = None THEN None
                  ELSE content[get_socketid(l)][held[l]]
Snapshots == INSTANCE SnapshotTable WITH
                 NoPacket <- None,
                 table <- [l \in Lcores |-> TableOf(l)],
                 packet <- [l \in Lcores |-> PacketTable(l)]

\* A packet sees one table from start to end although CHANGE_TABLE rewrites
\* replicas under it, and the packets of a core see the updates in order:
\* every step up to the first overlap is a step of SnapshotTable.
RefinesSnapshotTable ==
    /\ Snapshots!Init
    /\ [][Snapshots!Next \/ mixed' # {}]_(Snapshots!vars)

\* An update that was begun is made everywhere.
UpdateCompletes == \A t \in Threads : pc[t] # "idle" ~> pc[t] = "idle"
=============================================================================
