-------------------------------- MODULE DataPath --------------------------------
(***************************************************************************)
(* The tables of the switch from the configuration of a controller to the  *)
(* lookups of a packet: the main thread of the switch, which makes the     *)
(* tables, connects, waits to be told CTRL_INITIALIZED, sets the default   *)
(* actions, runs a test case and flushes the tables before the next one;   *)
(* the thread of the backend that handles what the controller sends        *)
(* (controlplane.c.py); and the controller, which goes through its         *)
(* configuration for every connection and answers the digests of a running *)
(* case.                                                                   *)
(*                                                                         *)
(* The connection loses and reorders nothing (CtrlBackend.tla and          *)
(* Controller.tla say when that is so), and an update of a table is one    *)
(* step (TableReplica.tla says what a lookup may see in between).          *)
(***************************************************************************)
EXTENDS MatchTables, ControllerApps

CONSTANTS Setups,     \* [app, hasFile, file, program, big, digests]: a
                      \* controller, its configuration, the tables of the P4
                      \* program, the byte order of the machines, the digests
                      \* packets may cause
          MaxCases,   \* bound: test cases run by the switch
          MaxDigests  \* bound: digests answered

ASSUME BoundsAssumption == MaxCases \in Nat /\ MaxDigests \in Nat

\* What the generator writes of the tables of a program: a name for each, its
\* kind, the size of its key and of its content, and its const entries.
IsSeq(q) == q \in Seq(Range(q))
ASSUME ProgramAssumption ==
  \A s \in Setups :
    /\ IsSeq(s.program)
    /\ \A i, j \in DOMAIN s.program : s.program[i].name = s.program[j].name => i = j
    /\ \A i \in DOMAIN s.program :
         /\ s.program[i].type \in {"exact", "lpm"}
         /\ s.program[i].key_size \in Nat
         /\ s.program[i].max_size \in Nat \ {0}
         /\ IsSeq(s.program[i].const)

VARIABLES
  setup,
  listening,            \* the controller accepts connections
  conns,                \* how many it has accepted
  dict,                 \* its dictionary
  chan,                 \* messages written and not handled yet
  ctrl_is_initialized,
  mpc, idx, case,       \* the main thread: where, at which table, which case
  tables,               \* by name; << >> before the first case
  made,                 \* how many digests were answered
  heard, learned,       \* history: the lines gone through and the digests
                        \* answered since the tables were last flushed
  added                 \* history: the entries added since then

controller == <<listening, conns, dict, made>>
main == <<ctrl_is_initialized, mpc, idx, case>>
history == <<heard, learned, added>>
vars == <<setup, controller, chan, main, tables, history>>

\* The main thread looks at the tables in the order of their short names.
Program == setup.program
Config(name) == CHOOSE t \in Range(Program) : t.name = name

INVALID_ACTION == "INVALID_ACTION"
Entry(action, params) == [id |-> action, params |-> params]

\* main of portfwd and of psa_l2fwd returns when the file is not to their liking.
Listens(s) == CASE s.app = "portfwd"   -> ~s.hasFile
                [] s.app = "psa_l2fwd" -> read_macs_and_ports_from_file(s.file)
                [] OTHER               -> TRUE

Init == /\ setup \in Setups
        /\ listening \in {Listens(setup), FALSE}   \* it may not have been started
        /\ conns = 0 /\ dict = << >> /\ chan = << >> /\ made = 0
        /\ ctrl_is_initialized = FALSE
        /\ mpc = "init_tables" /\ idx = 1 /\ case = 1
        /\ tables = << >>
        /\ heard = << >> /\ learned = {} /\ added = << >>
-----------------------------------------------------------------------------
\* Keys.  A controller's bytes are taken as they come.  The data plane reads a
\* field of up to 32 bits into a number first, a longer one as it is; the
\* generator writes the bytes of such a constant in reverse, except for
\* metadata.
setup_key(config, bitmap) == SubSeq(bitmap, 1, config.key_size)
table_key(config, field) == IF config.key_size <= 4 THEN HostOrder(field, setup.big) ELSE field
const_key(config, field) ==
  IF config.key_size <= 4 /\ ~config.is_metadata THEN Reverse(field) ELSE field

\* The number of the bits of the prefix and of the bytes of the key.
PrefixLength(config, match) == (match.prefix_length + config.key_size) % 256

TableAdd(t, key, depth, entry) ==
  IF t.type = "exact" THEN exact_add(t, key, entry) ELSE lpm_add(t, key, depth, entry, setup.big)

lookup(name, key) ==
  IF tables[name].type = "exact" THEN exact_lookup(tables[name], key)
  ELSE lpm_lookup(tables[name], key, setup.big)

Noted(name, key, depth, entry) == [table |-> name, key |-> key, depth |-> depth, entry |-> entry]

\* The const entries of a table: of the type of their table, added in order.
ConstNotes(config) ==
  [i \in DOMAIN config.const |->
     Noted(config.name, const_key(config, config.const[i].key), config.const[i].depth,
           config.const[i].entry)]
init_table_const_entries(t, config) ==
  LET notes == ConstNotes(config)
      filled[i \in 0 .. Len(notes)] ==
        IF i = 0 THEN t ELSE TableAdd(filled[i - 1], notes[i].key, notes[i].depth, notes[i].entry)
  IN  filled[Len(notes)]

\* The tables are made once, the const entries are added for every case.
create_tables_on_lcore ==
  IF tables # << >> THEN tables
  ELSE [name \in {t.name : t \in Range(Program)} |-> create_table(Config(name))]

init_tables ==
  /\ mpc = "init_tables"
  /\ LET made_now == create_tables_on_lcore
     IN  tables' = [name \in DOMAIN made_now |->
                      init_table_const_entries(made_now[name], Config(name))]
  /\ added' = added \o FlattenSeq([i \in DOMAIN Program |-> ConstNotes(Program[i])])
  /\ mpc' = "connect"
  /\ UNCHANGED <<setup, controller, chan, ctrl_is_initialized, idx, case, heard, learned>>
-----------------------------------------------------------------------------
\* The controller.  The messages it sends when a switch connects: the file of
\* l2fwd has been read to its end and closed by then if it is not the first.
NotifiesFirst == {"l3fwd", "l3-routing-full", "smgw"}

l2fwd_app == process_config_file(l2fwd_start, setup.file, setup.big)

InitScript ==
  CASE setup.app = "l2fwd" ->
         (IF conns = 0 THEN l2fwd_app.out ELSE << >>) \o notify_controller_initialized
    [] setup.app = "psa_l2fwd"   -> psa_init(setup.file)
    [] setup.app = "l3fwd"       -> IF setup.hasFile THEN l3fwd_init_complex(setup.file, setup.big)
                                    ELSE l3fwd_init_simple(setup.big)
    [] setup.app = "l3-routing-full" -> l3_routing_full_init_simple(setup.big)
    [] setup.app = "smgw"        -> IF setup.hasFile THEN smgw_init_complex(setup.file)
                                    ELSE smgw_init_simple
    [] setup.app = "portfwd"     -> portfwd_init(setup.big)
    [] setup.app = "test-digest" -> test_digest_init
    [] setup.app = "dummy"       -> dummy_init

\* The lines a controller goes by: of its file, or built in.
Lines(s) == IF s.hasFile THEN s.file
            ELSE CASE s.app = "l3fwd"           -> BuiltIn(NoGroup)
                   [] s.app = "l3-routing-full" -> BuiltIn(GroupOne)
                   [] OTHER                     -> << >>

\* main of three controllers notifies before any switch has connected.
Script == (IF conns = 0 /\ setup.app \in NotifiesFirst THEN notify_controller_initialized ELSE << >>)
            \o InitScript

\* Reading and closing the closed files of l2fwd again may end the controller.
MayDie == \/ setup.app = "l2fwd" /\ conns > 0 /\ setup.hasFile
          \/ setup.app = "smgw" /\ setup.hasFile /\ smgw_dies(setup.file)
MustDie == setup.app = "smgw" /\ MayDie

write_p4_msg(m) == IF Writable(m, setup.big) THEN <<m>> ELSE << >>
send_p4_msg(messages) ==
  chan' = chan \o Concat([i \in DOMAIN messages |-> write_p4_msg(Converted(messages[i], setup.big))])

\* launch_backend connects, and the controller accepts; the last messages of one
\* that ends may not have been written.
launch_backend ==
  /\ mpc = "connect"
  /\ ctrl_is_initialized' = FALSE
  /\ \/ /\ ~listening
        /\ mpc' = "defaults"
        /\ UNCHANGED <<controller, chan, heard>>
     \/ /\ listening /\ ~MustDie
        /\ send_p4_msg(Script)
        /\ dict' = IF setup.app = "l2fwd" THEN l2fwd_app.dict ELSE dict
        /\ heard' = IF setup.app = "l2fwd" /\ conns > 0 THEN << >> ELSE Lines(setup)
        /\ conns' = conns + 1
        /\ mpc' = "wait"
        /\ UNCHANGED <<listening, made>>
     \/ /\ listening /\ MayDie
        /\ LET written == IF setup.app = "l2fwd" THEN << >> ELSE Script
           IN  \E n \in 0 .. Len(written) : send_p4_msg(SubSeq(written, 1, n))
        /\ listening' = FALSE
        /\ conns' = conns + 1
        /\ mpc' = "wait"
        /\ UNCHANGED <<dict, made, heard>>
  /\ UNCHANGED <<setup, idx, case, tables, learned, added>>

\* A packet of a running case causes a digest, and the controller answers it.
dhf(digest) == CASE setup.app = "l2fwd"       -> l2fwd_dhf(dict, digest, setup.big)
                 [] setup.app = "psa_l2fwd"   -> psa_dhf(digest)
                 [] setup.app = "test-digest" -> test_digest_dhf(digest)
                 [] OTHER                     -> << >>

Digest == /\ mpc = "run" /\ listening /\ conns > 0 /\ made < MaxDigests
          /\ \E digest \in setup.digests :
               /\ send_p4_msg(dhf(digest))
               /\ learned' = learned \cup {digest}
          /\ made' = made + 1
          /\ UNCHANGED <<setup, listening, conns, dict, main, tables, heard, added>>
-----------------------------------------------------------------------------
\* The thread that handles the messages.  A table the program does not have,
\* and an action the table does not have, are reported and skipped.
setup_entry(m) == m.action \in Config(m.table).actions

ctrl_add_table_entry(m) ==
  IF m.table \notin DOMAIN tables \/ ~setup_entry(m) THEN UNCHANGED <<tables, added>>
  ELSE LET config == Config(m.table)
           key    == setup_key(config, m.matches[1].bitmap)
           depth  == PrefixLength(config, m.matches[1])
           entry  == Entry(m.action, m.params)
       IN  /\ tables' = [tables EXCEPT ![m.table] = TableAdd(@, key, depth, entry)]
           /\ added' = Append(added, Noted(m.table, key, depth, entry))

\* As a default action, one the table does not have is set all the same.
make_set_default_table_entry(m) ==
  IF setup_entry(m) THEN Entry(m.action, m.params) ELSE Entry(INVALID_ACTION, << >>)

ctrl_setdefault(m) ==
  /\ IF m.table \notin DOMAIN tables THEN UNCHANGED tables
     ELSE tables' = [tables EXCEPT ![m.table] =
                       table_set_default_action(@, make_set_default_table_entry(m))]
  /\ UNCHANGED added

recv_from_controller ==
  /\ chan # << >>
  /\ chan' = Tail(chan)
  /\ LET m == handle_p4_msg(Head(chan), setup.big)
     IN  /\ CASE m.type = P4T_ADD_TABLE_ENTRY    -> ctrl_add_table_entry(m)
              [] m.type = P4T_SET_DEFAULT_ACTION -> ctrl_setdefault(m)
              [] OTHER                           -> UNCHANGED <<tables, added>>
         /\ ctrl_is_initialized' = (ctrl_is_initialized \/ m.type = P4T_CTRL_INITIALIZED)
  /\ UNCHANGED <<setup, controller, mpc, idx, case, heard, learned>>
-----------------------------------------------------------------------------
\* The rest of the main thread.
LaunchReturns == /\ mpc = "wait" /\ ctrl_is_initialized
                 /\ mpc' = "defaults"
                 /\ UNCHANGED <<setup, controller, chan, ctrl_is_initialized, idx, case,
                                tables, history>>

\* Mutant: the default action of the program is set whatever is there.
WhateverIsThere(t) == TRUE
HasNoDefault(t) == t.default_val = None

\* init_table_default_actions looks at a table, then sets its default.
NextTable(k) == IF k < Len(Program) THEN idx' = k + 1 /\ mpc' = "defaults"
                ELSE idx' = 1 /\ mpc' = "run"

CheckDefault ==
  /\ mpc = "defaults"
  /\ IF HasNoDefault(tables[Program[idx].name]) THEN mpc' = "setdefault" /\ UNCHANGED idx
     ELSE NextTable(idx)
  /\ UNCHANGED <<setup, controller, chan, ctrl_is_initialized, case, tables, history>>

setdefault ==
  /\ mpc = "setdefault"
  /\ tables' = [tables EXCEPT ![Program[idx].name] =
                  table_set_default_action(@, Entry(Program[idx].default, << >>))]
  /\ NextTable(idx)
  /\ UNCHANGED <<setup, controller, chan, ctrl_is_initialized, case, history>>

\* The lcores have returned; flush_tables.
flush_tables ==
  /\ mpc = "run"
  /\ tables' = [name \in DOMAIN tables |-> flush_table(tables[name])]
  /\ IF case < MaxCases THEN case' = case + 1 /\ mpc' = "init_tables"
     ELSE mpc' = "end" /\ UNCHANGED case
  /\ heard' = << >> /\ learned' = {} /\ added' = << >>
  /\ UNCHANGED <<setup, controller, chan, ctrl_is_initialized, idx>>

Next == \/ init_tables \/ launch_backend \/ LaunchReturns \/ CheckDefault \/ setdefault
        \/ flush_tables \/ recv_from_controller \/ Digest

Spec == Init /\ [][Next]_vars
-----------------------------------------------------------------------------
\* Properties.

\* What a line or a digest asks for: a table, a key, the actions that will do
\* and the first parameter (None if any will do).
Want(table, key, actions, param) == [table |-> table, key |-> key, actions |-> actions, param |-> param]

\* One byte is sent of a port of l2fwd, of a digest the first in memory.
SentPort(s, x) == IF x.port > 255 \/ (x.code = "DIGEST" /\ s.big) THEN None ELSE x.port

L3Apps == {"l3fwd", "l3-routing-full"}

\* What the line or digest x asks for, with the translations of dictionary d.
WantedOfL2(s, d, x) ==
  CASE x.code = "EXACT" ->
         {Want(translate(d, x.table), x.key, {translate(d, x.action)},
               IF x.matches < 6 + 3 + 1 THEN None ELSE SentPort(s, x))}
    [] x.code \in {"MAC-FWD", "DIGEST"} ->
         {Want(translate(d, "dmac"), x.key, {translate(d, "forward")}, SentPort(s, x)),
          Want(translate(d, "smac"), x.key, {translate(d, "_nop")}, None)}
    [] OTHER -> {}
WantedOfPsa(x) ==
  {Want("dmac_0", x.key, {"forward"}, x.port), Want("smac_0", x.key, {"._nop"}, None)}
WantedOfLpm(s, x, action) ==
  IF s.big /\ x.prefix <= 28 THEN {Want(".ipv4_lpm", x.key, {action}, None)} ELSE {}
WantedOfL3(s, x) ==
  CASE x.code = "M" -> {Want(".macfwd", x.key, {"._nop"}, None)}
    [] x.code = "N" -> {Want(".nexthops", x.key, {".forward"}, x.dmac)}
    [] x.code = "E" -> WantedOfLpm(s, x, ".set_nhop")
    [] OTHER        -> {}
WantedOfSmgw(s, x) ==
  CASE x.code = "DMAC"      -> {Want("dmac_0", x.key, {"forward"}, x.port)}
    [] x.code = "M-FILTER"  -> {Want("m_filter_0", x.key, {".NoAction", ".drop"}, None)}
    [] x.code = "SMAC-DMAC" -> {Want("ipv4_forward_0", x.key, {"pkt_send"}, x.dmac)}
    [] x.code = "NEXTHOP"   -> WantedOfLpm(s, x, "set_nhgrp")
    [] OTHER                -> {}
WantedOfTest(x) == {Want("ingress.t", <<x.port>>, {"ingress.found"}, x.port)}
Wanted(s, d, x) ==
  CASE s.app = "l2fwd"       -> WantedOfL2(s, d, x)
    [] s.app = "psa_l2fwd"   -> WantedOfPsa(x)
    [] s.app \in L3Apps      -> WantedOfL3(s, x)
    [] s.app = "smgw"        -> WantedOfSmgw(s, x)
    [] s.app = "test-digest" -> WantedOfTest(x)
    [] OTHER                 -> {}

\* The lines before the first wrong one; l2fwd leaves out the wrong ones only.
GoneThrough(s, lines) ==
  LET right == {i \in DOMAIN lines : lines[i].ok}
  IN  {lines[i] : i \in IF s.app = "l2fwd" THEN right ELSE {j \in right : 1 .. j \subseteq right}}

Learned(digests) == {[code |-> "DIGEST", key |-> d.key, port |-> d.port] :
                       d \in {e \in digests : e.name # "test_learn_ip"}}

Known(w) == w.table \in DOMAIN tables /\ w.actions \cap Config(w.table).actions # {}

Fits(name) ==
  Cardinality({<<a.key, a.depth>> : a \in {b \in Range(added) : b.table = name}})
    <= Min({tables[name].max_size, HASH_ENTRIES})

\* What a controller made the default action of a table.
WantedDefaults(s, d, lines) ==
  CASE s.app = "l2fwd" ->
         {<<translate(d, l.table), translate(d, l.action)>> :
            l \in {m \in GoneThrough(s, lines) : m.code = "SET-DEFAULT"}}
    [] s.app = "psa_l2fwd"   -> {<<"smac_0", "mac_learn">>, <<"dmac_0", "bcast">>}
    [] s.app = "portfwd"     -> {<<".t_fwd", "._drop">>}
    [] s.app = "test-digest" -> {<<"ingress.t", "ingress.learn">>}
    [] OTHER                 -> {}

\* A running switch that has handled all its messages finds, for the key of
\* every line its controller went through and every digest it answered, an
\* entry with the action and the parameter that were asked for, and the
\* defaults the controller set before its CTRL_INITIALIZED are still there:
\* dpdk_l2fwd_controller.c:245 to dataplane_key.c.py:65.  Not asked of names
\* the program does not have, tables that are full, ports one byte of which is
\* another port, and LPM lines on little-endian machines or
\* with more than 28 bits.
ConfiguredIsFound ==
  mpc = "run" /\ chan = << >> /\ listening /\ conns > 0 =>
    LET wanted == UNION {Wanted(setup, dict, x) : x \in GoneThrough(setup, heard) \cup Learned(learned)}
    IN  /\ \A w \in wanted :
             Known(w) /\ Fits(w.table) =>
               LET found == lookup(w.table, table_key(Config(w.table), w.key))
               IN  \E v \in wanted : /\ v.table = w.table /\ v.key = w.key
                                     /\ found.id \in v.actions
                                     /\ v.param = None \/ found.params[1] = v.param
        /\ \A d \in WantedDefaults(setup, dict, heard) :
             d[1] \in DOMAIN tables /\ d[2] \in Config(d[1]).actions =>
               tables[d[1]].default_val.id = d[2]

\* What a controller takes for granted of its configuration, of the program of
\* the switches and of their digests.  The names are translated as at the end of
\* the file.
Bytes(n) == [1 .. n -> 0 .. 255]
FinalDict(s) == process_config_file(l2fwd_start, s.file, s.big).dict

\* The exact tables that its lines and digests are for, with the sizes of their keys.
L2KeyTables(s) ==
  {<<translate(FinalDict(s), name), 6>> :
     name \in {"dmac", "smac"} \cup {l.table : l \in {m \in Range(s.file) : m.ok /\ m.code = "EXACT"}}}
KeyTables(s) ==
  CASE s.app = "l2fwd"       -> L2KeyTables(s)
    [] s.app = "psa_l2fwd"   -> {<<"dmac_0", 6>>, <<"smac_0", 6>>}
    [] s.app \in L3Apps      -> {<<".macfwd", 6>>, <<".nexthops", 4>>}
    [] s.app = "smgw"        -> {<<"dmac_0", 6>>, <<"m_filter_0", 1>>, <<"ipv4_forward_0", 1>>}
    [] s.app = "test-digest" -> {<<"ingress.t", 1>>}
    [] OTHER                 -> {}

\* DIGEST is the code of what a digest asks for.
LineFits(s, x) ==
  CASE s.app = "l2fwd" /\ x.code \in {"MAC-FWD", "EXACT"} -> x.key \in Bytes(6) /\ x.port \in Nat
    [] s.app = "l2fwd" /\ x.code = "TEID-RATE-LIMITER"    -> \A k \in KeyTables(s) : k[1] # x.table
    [] s.app = "psa_l2fwd"                  -> x.key \in Bytes(6)
    [] s.app \in L3Apps /\ x.code = "M"     -> x.key \in Bytes(6)
    [] s.app \in L3Apps /\ x.code = "N"     -> x.key \in Bytes(4)
    [] s.app \in L3Apps /\ x.code = "E"     -> x.key \in Bytes(4) /\ x.prefix \in Nat
    [] s.app = "smgw" /\ x.code = "DMAC"    -> x.key \in Bytes(6) /\ x.port \in 0 .. 255
    [] s.app = "smgw" /\ x.code \in {"M-FILTER", "SMAC-DMAC"} -> x.key \in Bytes(1)
    [] s.app = "smgw" /\ x.code = "NEXTHOP" -> x.key \in Bytes(4) /\ x.prefix \in Nat
    [] OTHER -> /\ s.app \notin L3Apps /\ x.code # "DIGEST"
                /\ s.app = "smgw" => x.code \in {"SMAC", "UE-SELECTOR", "TEID-RATE-LIMITER"}

DigestFits(s, d) ==
  /\ s.app \in {"l2fwd", "psa_l2fwd"} =>
       \/ d.name = "mac_learn_digest" /\ d.key \in Bytes(6) /\ d.port \in Nat
       \/ d.name = "test_learn_ip" /\ d.prefix \in 0 .. 255 /\ IsSeq(d.i) /\ Len(d.i) = 3
  /\ s.app = "test-digest" => d.name = "learn_digest"

TableFits(s, t) ==
  /\ \A k \in KeyTables(s) : k[1] = t.name => t.type = "exact" /\ t.key_size = k[2]
  /\ s.app \in L3Apps \cup {"smgw"} /\ t.name = ".ipv4_lpm" =>
       /\ t.type = "lpm" /\ t.key_size = 4
       /\ \A c \in Range(t.const) : \A x \in Range(Lines(s)) :
            x.ok /\ x.code \in {"E", "NEXTHOP"} => c.depth <= x.prefix + 4
  /\ s.app = "smgw" /\ t.name = "m_filter_0" => {".NoAction", ".drop"} \subseteq t.actions

\* l2fwd: the translations come first, and one default is set for a table.
WellMatched(s) ==
  /\ s.app \in {"l2fwd", "psa_l2fwd", "l3fwd", "l3-routing-full", "smgw", "portfwd", "test-digest", "dummy"}
  /\ s.big \in BOOLEAN /\ IsSeq(s.file)
  /\ IF s.hasFile THEN s.app \notin {"l3-routing-full", "test-digest", "dummy"} ELSE s.file = << >>
  /\ \A x \in Range(Lines(s)) : x.ok => LineFits(s, x)
  /\ \A d \in s.digests : DigestFits(s, d)
  /\ \A t \in Range(s.program) : TableFits(s, t)
  /\ s.app = "l2fwd" =>
       /\ \A i, j \in DOMAIN s.file :
            i < j /\ s.file[i].ok /\ s.file[j].ok /\ s.file[j].code = "TRANSLATION" =>
              s.file[i].code \notin {"SET-DEFAULT", "MAC-FWD", "EXACT"}
       /\ \A d, e \in WantedDefaults(s, FinalDict(s), s.file) : d[1] = e[1] => d = e
       /\ \A k \in KeyTables(s) : k[1] # "table1"

\* What a table promises: the entry added last for the key (exact), or last for
\* the longest of the prefixes of the key (LPM), since the table was flushed,
\* and the default action if there is none: dpdk_tables_exact.c:73 and
\* dpdk_tables_lpm.c:93 with their flushes.
Promised(name, key) ==
  LET t      == tables[name]
      covers == {i \in DOMAIN added :
                   /\ added[i].table = name
                   /\ IF t.type = "exact" THEN added[i].key = key
                      ELSE /\ added[i].depth \in 1 .. LpmBits(t)
                           /\ SamePrefix(LpmKey(t, added[i].key, setup.big),
                                         LpmKey(t, key, setup.big), added[i].depth)}
      best   == IF t.type = "exact" THEN covers
                ELSE {i \in covers : \A j \in covers : added[j].depth <= added[i].depth}
  IN  IF covers = {} \/ IsFake(t) THEN t.default_val ELSE added[Max(best)].entry

LookupsAgree ==
  \A name \in DOMAIN tables :
    Fits(name) =>
      LET written == {a.key : a \in {b \in Range(added) : b.table = name}}
          zero    == [i \in 1 .. tables[name].key_size |-> 0]
      IN  \A key \in written \cup {zero} \cup {Reverse(k) : k \in written} :
            lookup(name, key) = Promised(name, key)
===============================================================================
