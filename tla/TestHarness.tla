----------------------------- MODULE TestHarness -----------------------------
(* The test binary: main runs the cases of the suite one after the other,    *)
(* and in each case every lcore plays its own script (dpdk_nicoff.c): it     *)
(* makes the packet of a step, has the switch handle it, and compares what   *)
(* comes out with the script.  The exit code is the verdict.                 *)
(*                                                                           *)
(* The switch under test is the environment: it may do anything to a packet. *)
(* The build is T4P4S_DEBUG, without statistics and asynchronous handling.   *)
(* A step is a record; the bytes of a packet are a sequence.                 *)
EXTENDS Startup

CONSTANTS
  Suites,                \* the suites: sequences of cases, lcore -> script
  Answers,               \* [port, bytes, set]: what the switch does
  RandomPorts,           \* what pick_random_port returns
  REASONABLE_ITER_LIMIT,
  None

T4P4S_BROADCAST_PORT == 100
EGRESS_DROP_VALUE == 200
DROP == -2
ANY  == -3
SAME == -4
RND1 == -5   \* RND2 to RND4 are like it

(* The text of a packet is a sequence of parts: <a|b> has the bytes a on the *)
(* way in and b on the way out, a plain part the same in both.  A byte that  *)
(* is not written as two hexadecimal digits is -1.                           *)
INOUT(from, to) == [in |-> from, out |-> to]
Plain(bytes) == INOUT(bytes, bytes)
fake_packet(text) == FlattenSeq([i \in DOMAIN text |-> text[i].in])
Expected(text) == FlattenSeq([i \in DOMAIN text |-> text[i].out])
is_valid_fake_packet(text) ==
  \A i \in DOMAIN text : ToSet(text[i].in) \cup ToSet(text[i].out) \subseteq 0 .. 255

(* A step without a packet has the empty text.                               *)
SIMPLESEND(in, out, text) ==
  [action |-> "FAKE_PKT", in_port |-> in, out_port |-> out, text |-> text]
FAST(in, out, pkt) == SIMPLESEND(in, out, pkt)
SLOW(in, out, pkt) == SIMPLESEND(in, IF out = DROP THEN EGRESS_DROP_VALUE ELSE out, pkt)
FSLEEP == SIMPLESEND(0, 0, << >>)
FEND   == [FSLEEP EXCEPT !.action = "FAKE_END"]
LCORE(s) == s \o <<FEND>>

Part   == [in : Seq(Int), out : Seq(Int)]
Step   == [action : {"FAKE_PKT", "FAKE_END"}, in_port : Int, out_port : Int, text : Seq(Part)]
Script == {s \in Seq(Step) : s # << >> /\ s[Len(s)].action = "FAKE_END"}

(* Every enabled lcore has a script in every case, and every script ends     *)
(* with FEND.  The egress port of the switch is a bit field, never negative. *)
ASSUME HarnessAssumption ==
  /\ \A suite \in Suites : \E C \in SUBSET Lcores :
       /\ suite \in Seq([C -> Script])
       /\ \A c \in Commands : c.binary = "test" => c.cores \subseteq C
  /\ \A a \in Answers : a.port \in Nat
  /\ RandomPorts \subseteq Int
  /\ None \notin {"OK", "LOOP", "WRONG_OUTPUT", "DROP_SEND", "UNSET_EGRESS_PORT"}

VARIABLES
  steps,       \* t4p4s_test_suite; get_cmd writes the ports it picks into it
  case,        \* idx of the loop in main
  pc,          \* where each lcore is in its main loop
  lcdata,      \* idx, verify_idx, iter_idx and is_valid of each lcore
  rnd_ports,   \* shared by the lcores
  encountered, \* which of the encountered_ flags are set
  infinite_loop_on_core,
  verdict,     \* the exit code of the process
  wrong        \* history: the switch answered a step wrongly

harness == <<steps, case, pc, lcdata, rnd_ports, encountered, infinite_loop_on_core, verdict, wrong>>
vars == <<startup, harness>>

Cmd(c, i) == steps[case][c][i + 1]   \* the scripts count from 0

init_lcore_data == [idx |-> -1, verify_idx |-> -1, iter_idx |-> 0, is_valid |-> TRUE]

Init ==
  /\ StartupInit
  /\ steps \in IF cmd.binary = "test" THEN Suites ELSE {<< >>}
  /\ case = 0 /\ pc = [l \in Lcores |-> "off"] /\ rnd_ports = None
  /\ lcdata = [l \in Lcores |-> init_lcore_data]
  /\ encountered = {} /\ infinite_loop_on_core = None /\ verdict = None /\ wrong = FALSE

-------------------------------------------------------------------------------
(* main                                                                      *)

t4p4s_normal_exit ==
  IF infinite_loop_on_core # None THEN "LOOP"
  ELSE IF "error" \in encountered THEN "WRONG_OUTPUT"
  ELSE IF "drops" \in encountered THEN "DROP_SEND"
  ELSE IF "unset" \in encountered THEN "UNSET_EGRESS_PORT"
  ELSE "OK"

(* mutant: the verdict of the last case counts                               *)
LastCaseOnly ==
  /\ stage = "run" /\ cmd.binary = "test" /\ verdict = None /\ case < Len(steps)
  /\ \A l \in Lcores : pc[l] = "off"
  /\ case' = case + 1 /\ encountered' = {}
  /\ pc' = [l \in Lcores |-> IF l \in cmd.cores THEN "working" ELSE "off"]
  /\ lcdata' = [l \in Lcores |-> init_lcore_data]
  /\ UNCHANGED <<startup, steps, rnd_ports, infinite_loop_on_core, verdict, wrong>>

(* launch_dpdk of the next case, once every lcore has left the one before.   *)
launch_dpdk ==
  /\ stage = "run" /\ cmd.binary = "test" /\ verdict = None /\ case < Len(steps)
  /\ \A l \in Lcores : pc[l] = "off"
  /\ case' = case + 1
  /\ pc' = [l \in Lcores |-> IF l \in cmd.cores THEN "working" ELSE "off"]
  /\ lcdata' = [l \in Lcores |-> init_lcore_data]
  /\ UNCHANGED <<startup, steps, rnd_ports, encountered, infinite_loop_on_core, verdict, wrong>>

exit ==
  /\ stage = "run" /\ cmd.binary = "test" /\ verdict = None /\ case = Len(steps)
  /\ \A l \in Lcores : pc[l] = "off"
  /\ verdict' = t4p4s_normal_exit
  /\ UNCHANGED <<startup, steps, case, pc, lcdata, rnd_ports, encountered, infinite_loop_on_core, wrong>>

-------------------------------------------------------------------------------
(* The loop of one lcore                                                     *)

core_is_working(c) ==
  /\ pc[c] = "working"
  /\ LET n == lcdata[c].iter_idx + 1
         over == n > REASONABLE_ITER_LIMIT
         more == lcdata[c].idx < 0 \/ Cmd(c, lcdata[c].idx).action # "FAKE_END"
     IN /\ lcdata' = [lcdata EXCEPT ![c].iter_idx = n]
        /\ pc' = [pc EXCEPT ![c] = IF over \/ ~more THEN "off" ELSE "pre_rx"]
        /\ infinite_loop_on_core' = IF over THEN c ELSE infinite_loop_on_core
        /\ encountered' = IF over THEN encountered \cup {"error"} ELSE encountered
  /\ UNCHANGED <<startup, steps, case, rnd_ports, verdict, wrong>>

main_loop_pre_rx(c) ==
  /\ pc[c] = "pre_rx" /\ pc' = [pc EXCEPT ![c] = "rx"]
  /\ rnd_ports' \in RandomPorts
  /\ lcdata' = [lcdata EXCEPT ![c].is_valid = TRUE]
  /\ UNCHANGED <<startup, steps, case, encountered, infinite_loop_on_core, verdict, wrong>>

generate_random_port == RandomPorts \ {T4P4S_BROADCAST_PORT, EGRESS_DROP_VALUE}

(* A port of a step after get_cmd; another lcore may write rnd_ports between *)
(* the two reads.                                                            *)
Resolved(port) ==
  IF port = RND1 THEN IF \A l \in Lcores : pc[l] # "pre_rx" THEN {rnd_ports} ELSE RandomPorts
  ELSE {port}

WithPorts(s, in, out) == [s EXCEPT !.in_port = in, !.out_port = out]

(* What get_cmd may turn a step into, in place.                              *)
get_cmd(s) ==
  IF s.action # "FAKE_PKT" THEN {s} ELSE
  UNION {LET out == IF s.out_port = SAME THEN p ELSE s.out_port
         IN {WithPorts(s, q, r) : q \in Resolved(p), r \in Resolved(out)}
         : p \in IF s.in_port = ANY THEN generate_random_port ELSE {s.in_port}}

(* A step that is not valid is passed over, without a trace in the verdict.  *)
receive_packet(c) ==
  /\ pc[c] = "rx"
  /\ LET i == lcdata[c].idx + 1 IN
       /\ lcdata' = [lcdata EXCEPT ![c].idx = i, ![c].is_valid = is_valid_fake_packet(Cmd(c, i).text)]
       /\ \E s \in get_cmd(Cmd(c, i)) :
            /\ steps' = [steps EXCEPT ![case][c][i + 1] = s]
            /\ pc' = [pc EXCEPT ![c] = IF s.action = "FAKE_PKT" /\ s.text # << >>
                                          /\ is_valid_fake_packet(s.text)
                                       THEN "tx" ELSE "working"]
  /\ UNCHANGED <<startup, case, rnd_ports, encountered, infinite_loop_on_core, verdict, wrong>>

is_packet_dropped(a) == a.port = EGRESS_DROP_VALUE
is_real_fake_packet(s) == s.action = "FAKE_PKT" /\ s.text # << >>

(* mutant: the steps without a packet are not skipped                        *)
NextStep(c) == lcdata[c].verify_idx + 1

(* verify_idx moves with the packets that are sent, not with the script.     *)
get_next_real_fake_verify_packet(c) ==
  LET ahead == lcdata[c].verify_idx + 1 .. Len(steps[case][c]) - 1
      stops == {i \in ahead : is_real_fake_packet(Cmd(c, i)) \/ Cmd(c, i).action = "FAKE_END"}
  IN CHOOSE i \in stops : \A j \in stops : i <= j

check_egress_port(s, a) ==
  IF ~a.set /\ ~is_packet_dropped(a) THEN {"unset"}
  ELSE IF s.out_port = a.port THEN {} ELSE {"error"}

(* check_byte_count and check_packet_contents.  The contents of a step that  *)
(* is not valid compare in any way.                                          *)
SameBytes(s, a) ==
  IF is_valid_fake_packet(s.text) THEN {Expected(s.text) = a.bytes} ELSE BOOLEAN

(* A broadcast is checked once per copy, with the same outcome.              *)
check_sent_packet(c, a) ==
  LET i == get_next_real_fake_verify_packet(c)
      port == check_egress_port(Cmd(c, i), a)
  IN \E same \in SameBytes(Cmd(c, i), a) :
       /\ encountered' = encountered \cup port \cup (IF same THEN {} ELSE {"error"})
       /\ lcdata' = [lcdata EXCEPT ![c].verify_idx = i,
                                   ![c].is_valid = @ /\ same /\ ("error" \notin port)]

free_packet(c) ==
  /\ encountered' = IF Cmd(c, lcdata[c].idx).out_port = DROP THEN encountered ELSE encountered \cup {"drops"}
  /\ UNCHANGED lcdata

(* What the author of the script means by a step.                            *)
Right(s, a) ==
  IF s.out_port \in {DROP, EGRESS_DROP_VALUE} THEN is_packet_dropped(a)
  ELSE a.set /\ a.port = s.out_port /\ a.bytes = Expected(s.text)

(* The switch handles the packet, do_single_tx passes its answer on.         *)
do_single_tx(c) ==
  /\ pc[c] = "tx" /\ pc' = [pc EXCEPT ![c] = "working"]
  /\ \E a \in Answers :
       /\ IF is_packet_dropped(a) THEN free_packet(c) ELSE check_sent_packet(c, a)
       /\ wrong' = (wrong \/ ~Right(Cmd(c, lcdata[c].idx), a))
  /\ UNCHANGED <<startup, steps, case, rnd_ports, infinite_loop_on_core, verdict>>

Lcore(c) == core_is_working(c) \/ main_loop_pre_rx(c) \/ receive_packet(c) \/ do_single_tx(c)

main == launch_dpdk \/ exit

Starting == StartupNext /\ UNCHANGED harness

Next == Starting \/ main \/ \E c \in Lcores : Lcore(c)

(* The threads of DPDK never block: every lcore keeps running.               *)
Spec == /\ Init /\ [][Next]_vars
        /\ WF_vars(Starting) /\ WF_vars(main) /\ \A c \in Lcores : WF_vars(Lcore(c))

-------------------------------------------------------------------------------
Scripts == {steps[k][c] : k \in DOMAIN steps, c \in cmd.cores}
WellFormed == \A s \in Scripts : \A i \in DOMAIN s : is_valid_fake_packet(s[i].text)

(* What the harness can judge: no packet is sent after one that was dropped, *)
(* nothing is dropped on the slow path, and the script ends before the limit *)
(* for endless loops.                                                        *)
Judged ==
  /\ WellFormed
  /\ \A s \in Scripts :
       /\ Len(s) + 1 <= REASONABLE_ITER_LIMIT
       /\ \A i \in DOMAIN s :
            /\ is_real_fake_packet(s[i]) => s[i].out_port # EGRESS_DROP_VALUE
            /\ \A j \in 1 .. i - 1 :
                 is_real_fake_packet(s[i]) /\ is_real_fake_packet(s[j]) /\ s[j].out_port = DROP
                   => s[i].out_port = DROP

(* If the test binary exits with OK, the switch answered every step of every *)
(* lcore in every case as the script says, whatever verify_idx was compared  *)
(* with (check_sent_packet, free_packet, t4p4s_normal_exit).                 *)
OkMeansMatched == verdict = "OK" /\ WellFormed => ~wrong

(* The test binary always exits, and if the switch answered every step as    *)
(* the script says and the script is one the harness can judge, it exits     *)
(* with OK.                                                                  *)
CorrectSwitchPasses ==
  <>[](\/ stage = "exit"
       \/ stage = "run" /\ cmd.binary = "std"
       \/ verdict # None /\ (Judged /\ ~wrong => verdict = "OK"))
===============================================================================
