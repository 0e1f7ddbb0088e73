------------------------------ MODULE HarnessProofs ------------------------------
(***************************************************************************)
(* Proofs about the start of the switch and about the test binary, for any *)
(* command lines, any number of lcores, any suites and any switch under    *)
(* test: the transmit queues of lcores are their own, and a test run that  *)
(* ends with OK has seen no wrong answer.                                  *)
(***************************************************************************)
EXTENDS TestHarness, TLAPS, FiniteSetTheorems, WellFoundedInduction, SequenceTheorems

-----------------------------------------------------------------------------
\* What dpdk_init_nic has set up when the lcores run.
NicInv ==
    /\ cmd \in Commands
    /\ stage = "run" =>
         /\ \A l \in cmd.cores : get_socketid(l) \in pools
         /\ \A l \in Lcores, p \in Ports : tx[l][p] = init_tx_on_lcore(l, p)
         /\ \A p \in Ports \cap enabled, l \in TxLcores : <<p, queueid(l)>> \in txqueues

-----------------------------------------------------------------------------
\* The suite keeps its form: get_cmd only writes the ports of steps.
SuiteInv ==
    \E C \in SUBSET Lcores :
       /\ steps \in Seq([C -> Script])
       /\ cmd.binary = "test" => cmd.cores \subseteq C

LcoreData == [idx : Int, verify_idx : Int, iter_idx : Nat, is_valid : BOOLEAN]

TypeInv ==
    /\ case \in 0 .. Len(steps)
    /\ pc \in [Lcores -> {"off", "working", "pre_rx", "rx", "tx"}]
    /\ lcdata \in [Lcores -> LcoreData]
    /\ encountered \subseteq {"error", "drops", "unset"}
    /\ wrong \in BOOLEAN

\* Where an lcore that runs is in the script of the case, and in its verification.
At(c) ==
    /\ stage = "run" /\ cmd.binary = "test" /\ verdict = None /\ case # 0
    /\ c \in cmd.cores
    /\ lcdata[c].idx \in -1 .. Len(steps[case][c]) - 1
    /\ lcdata[c].verify_idx \in -1 .. lcdata[c].idx
    /\ \A j \in 0 .. lcdata[c].idx - 1 : Cmd(c, j).action # "FAKE_END"
    /\ pc[c] \in {"pre_rx", "rx"} /\ lcdata[c].idx >= 0 =>
          Cmd(c, lcdata[c].idx).action # "FAKE_END"
    /\ pc[c] = "rx" => rnd_ports \in RandomPorts
    /\ pc[c] = "tx" => /\ lcdata[c].verify_idx < lcdata[c].idx
                       /\ is_real_fake_packet(Cmd(c, lcdata[c].idx))

\* The packets that verify_idx is behind by: the script wanted them dropped and the
\* switch did drop them.
Behind(c) ==
    \A j \in lcdata[c].verify_idx + 1 .. lcdata[c].idx :
       is_real_fake_packet(Cmd(c, j)) =>
          \/ Cmd(c, j).out_port = DROP
          \/ pc[c] = "tx" /\ j = lcdata[c].idx

RunningInv == \A c \in Lcores : pc[c] # "off" => At(c)

\* Once an error was met, verify_idx may be anywhere.
BehindInv ==
    WellFormed /\ encountered = {} => \A c \in Lcores : pc[c] # "off" => Behind(c)

VerdictInv ==
    /\ WellFormed /\ wrong => encountered # {}
    /\ verdict # None => /\ \A c \in Lcores : pc[c] = "off"
                         /\ stage = "run"
                         /\ verdict = "OK" => encountered = {}

HInv == SuiteInv /\ TypeInv /\ RunningInv /\ BehindInv /\ VerdictInv
-----------------------------------------------------------------------------
\* initialize_args and dpdk_init_nic keep what they promise to the lcores, and the
\* test binary leaves it alone.
LEMMA NicStep == Spec => []NicInv
<1>1. Init => NicInv
  BY DEF Init, StartupInit, NicInv
<1>2. NicInv /\ [Next]_vars => NicInv'
  <2> SUFFICES ASSUME NicInv, [Next]_vars PROVE NicInv'
    OBVIOUS
  <2>1. CASE UNCHANGED startup
    <3>1. UNCHANGED <<cmd, stage, enabled, pools, tx, txqueues>>
      BY <2>1 DEF startup
    <3> QED
      BY <3>1 DEF NicInv, get_socketid, init_tx_on_lcore, Ports, queueid, TxLcores, nb_lcores
  <2>2. CASE initialize_args
    BY <2>2 DEF NicInv, initialize_args
  <2>3. CASE dpdk_init_nic
    <3>1. /\ UNCHANGED <<cmd, enabled>>
          /\ pools' = {get_socketid(l) : l \in cmd.cores}
          /\ tx' = [l \in Lcores |-> [p \in Ports |-> init_tx_on_lcore(l, p)]]
          /\ txqueues' = UNION {dpdk_init_port(p) : p \in Ports \cap enabled}
      BY <2>3 DEF dpdk_init_nic
    <3>2. /\ \A l \in cmd.cores : get_socketid(l) \in pools'
          /\ \A l \in Lcores, p \in Ports : tx'[l][p] = init_tx_on_lcore(l, p)
          /\ \A p \in Ports \cap enabled, l \in TxLcores : <<p, queueid(l)>> \in txqueues'
      BY <3>1 DEF dpdk_init_port
    <3> QED
      BY <3>1, <3>2
         DEF NicInv, get_socketid, init_tx_on_lcore, Ports, queueid, TxLcores, nb_lcores
  <2>4. CASE DpdkFails
    BY <2>4 DEF NicInv, DpdkFails
  <2>5. \/ UNCHANGED startup \/ initialize_args \/ dpdk_init_nic \/ DpdkFails
    BY DEF Next, Starting, StartupNext, main, launch_dpdk, exit, Lcore, core_is_working,
           main_loop_pre_rx, receive_packet, do_single_tx, vars
  <2> QED
    BY <2>1, <2>2, <2>3, <2>4, <2>5
<1> QED
  BY <1>1, <1>2, PTL DEF Spec

\* Counting the lcores below: two lcores with a queue do not count the same.
LEMMA QueuesDiffer ==
    ASSUME IsFiniteSet(TxLcores), TxLcores \subseteq Nat,
           NEW l \in TxLcores, NEW k \in TxLcores, l < k
    PROVE  queueid(l) # queueid(k)
<1> DEFINE L == {j \in TxLcores : j < l}
           K == {j \in TxLcores : j < k}
<1>1. IsFiniteSet(K) /\ Cardinality(K) \in Nat
  BY FS_Subset, FS_CardinalityType
<1>2. L \subseteq K \ {l} /\ l \in K
  <2>1. \A j \in TxLcores : j \in Nat
    OBVIOUS
  <2>2. \A j \in TxLcores : j < l => j < k /\ j # l
    BY <2>1
  <2> QED
    BY <2>2
<1>3. IsFiniteSet(K \ {l}) /\ Cardinality(K \ {l}) = Cardinality(K) - 1
  BY <1>1, <1>2, FS_RemoveElement
<1>4. Cardinality(L) <= Cardinality(K) - 1 /\ Cardinality(L) \in Nat
  BY <1>2, <1>3, FS_Subset, FS_CardinalityType
<1> QED
  BY <1>1, <1>4 DEF queueid

\* If the enabled lcores are numbered without a gap, those that forward packets each
\* have a transmit queue of their own on every port, which was set up, and buffers.
THEOREM LcoresHaveOwnQueues == Spec => []OwnTxQueue
<1>1. NicInv => OwnTxQueue
  <2> SUFFICES ASSUME NicInv, stage = "run", Numbered,
                      NEW l \in Lcores, NEW k \in Lcores, NEW p \in Ports \cap enabled,
                      Forwards(l), Forwards(k)
               PROVE  /\ get_socketid(l) \in pools
                      /\ <<p, tx[l][p]>> \in txqueues
                      /\ l # k => tx[l][p] # tx[k][p]
    BY DEF OwnTxQueue
  <2>1. /\ cmd.cores \subseteq Nat /\ IsFiniteSet(cmd.cores)
        /\ Cardinality(cmd.cores) \in Nat
    BY StartupAssumption, FS_Subset, FS_CardinalityType DEF NicInv
  <2>2. ASSUME NEW m \in Lcores, Forwards(m)
        PROVE  m \in TxLcores /\ tx[m][p] = queueid(m)
    <3>1. m \in cmd.cores /\ m \in 0 .. Cardinality(cmd.cores) - 1
      BY <2>2 DEF Forwards, Numbered
    <3>2. cmd.node => m # Cardinality(cmd.cores) - 1
      BY <2>2 DEF Forwards, is_crypto_node, crypto_node_id
    <3>3. m < nb_lcores
      BY <2>1, <3>1, <3>2 DEF nb_lcores
    <3>4. m \in TxLcores
      BY <3>1, <3>3 DEF TxLcores
    <3>5. tx[m][p] = init_tx_on_lcore(m, p)
      BY DEF NicInv
    <3> QED
      BY <3>4, <3>5 DEF init_tx_on_lcore
  <2>3. get_socketid(l) \in pools
    BY DEF Forwards, NicInv
  <2>4. <<p, tx[l][p]>> \in txqueues
    BY <2>2 DEF NicInv
  <2>5. IsFiniteSet(TxLcores) /\ TxLcores \subseteq Nat
    BY <2>1, FS_Subset DEF TxLcores
  <2>6. ASSUME l # k PROVE tx[l][p] # tx[k][p]
    <3>0. l \in TxLcores /\ k \in TxLcores /\ l \in Nat /\ k \in Nat
      BY <2>2, <2>5
    <3>1. l \in TxLcores /\ k \in TxLcores /\ (l < k \/ k < l)
      BY <2>6, <3>0
    <3>2. queueid(l) # queueid(k)
      BY <2>5, <3>1, QueuesDiffer
    <3> QED
      BY <2>2, <3>2
  <2> QED
    BY <2>3, <2>4, <2>6
<1> QED
  BY NicStep, <1>1, PTL
-----------------------------------------------------------------------------
\* The suite under the hands of the lcores.

\* Loops of the code that ascend reach the least index first.
LEMMA LeastExists ==
    ASSUME NEW S, S \subseteq Nat, S # {}
    PROVE  \E x \in S : \A y \in S : x <= y
<1> DEFINE R == {ss \in Nat \X Nat : ss[1] < ss[2]}
<1>1. IsWellFoundedOn(R, Nat)
  BY NatLessThanWellFounded DEF OpToRel
<1>2. PICK x \in S : \A y \in S : <<y, x>> \notin R
  BY <1>1, WFMin
<1>3. ASSUME NEW y \in S PROVE x <= y
  <2>1. x \in Nat /\ y \in Nat
    OBVIOUS
  <2>2. ~(y < x)
    BY <1>2, <2>1
  <2> QED
    BY <2>1, <2>2
<1> QED
  BY <1>3

\* An lcore that runs has a script for the case, which ends with FEND.
LEMMA ScriptOfCase ==
    ASSUME SuiteInv, TypeInv, RunningInv, NEW c \in Lcores, pc[c] # "off"
    PROVE  /\ case \in DOMAIN steps /\ c \in DOMAIN steps[case]
           /\ Len(steps[case][c]) \in Nat \ {0}
           /\ \A j \in 0 .. Len(steps[case][c]) - 1 : Cmd(c, j) \in Step
           /\ Cmd(c, Len(steps[case][c]) - 1).action = "FAKE_END"
<1>1. PICK C \in SUBSET Lcores :
         steps \in Seq([C -> Script]) /\ (cmd.binary = "test" => cmd.cores \subseteq C)
  BY DEF SuiteInv
<1>2. case \in DOMAIN steps /\ c \in C
  BY <1>1 DEF TypeInv, LcoreData, RunningInv, At
<1>3. steps[case] \in [C -> Script]
  BY <1>1, <1>2
<1>4. steps[case][c] \in Script
  BY <1>2, <1>3
<1>5. /\ steps[case][c] \in Seq(Step) /\ steps[case][c] # << >>
      /\ steps[case][c][Len(steps[case][c])].action = "FAKE_END"
  BY <1>4 DEF Script
<1>6. Len(steps[case][c]) \in Nat \ {0}
  BY <1>5
<1>7. ASSUME NEW j \in 0 .. Len(steps[case][c]) - 1 PROVE Cmd(c, j) \in Step
  <2>1. j + 1 \in 1 .. Len(steps[case][c])
    BY <1>6
  <2> QED
    BY <1>5, <2>1 DEF Cmd
<1>8. Len(steps[case][c]) - 1 + 1 = Len(steps[case][c])
  BY <1>6
<1> QED
  BY <1>2, <1>3, <1>5, <1>6, <1>7, <1>8 DEF Cmd

\* get_cmd changes nothing of a step but its ports.
LEMMA GetCmdKeeps ==
    ASSUME NEW s \in Step, rnd_ports \in RandomPorts, NEW t \in get_cmd(s)
    PROVE  t \in Step /\ t.action = s.action /\ t.text = s.text
<1>1. RandomPorts \subseteq Int /\ rnd_ports \in Int
  BY HarnessAssumption
<1>2. \A p \in Int : Resolved(p) \subseteq Int
  BY <1>1 DEF Resolved
<1>3. CASE s.action # "FAKE_PKT"
  BY <1>3 DEF get_cmd
<1>4. CASE s.action = "FAKE_PKT"
  <2>1. PICK p \in IF s.in_port = ANY THEN generate_random_port ELSE {s.in_port} :
           \E q \in Resolved(p),
              r \in Resolved(IF s.out_port = SAME THEN p ELSE s.out_port) :
                 t = WithPorts(s, q, r)
    BY <1>4, SMT DEF get_cmd
  <2>2. p \in Int /\ s.out_port \in Int
    BY <1>1 DEF generate_random_port, Step
  <2>3. PICK q \in Resolved(p),
             r \in Resolved(IF s.out_port = SAME THEN p ELSE s.out_port) :
                t = WithPorts(s, q, r)
    BY <2>1
  <2>4. q \in Int /\ r \in Int
    BY <1>2, <2>2, <2>3
  <2> QED
    BY <2>3, <2>4 DEF Step, WithPorts
<1> QED
  BY <1>3, <1>4

\* What an lcore writes into the suite is seen by no other lcore and at no other
\* step, and no packet of the suite changes.
LEMMA SuiteWritten ==
    ASSUME SuiteInv, TypeInv, RunningInv, NEW c \in Lcores, pc[c] # "off",
           NEW i \in 0 .. Len(steps[case][c]) - 1, NEW t \in Step,
           t.action = Cmd(c, i).action, t.text = Cmd(c, i).text,
           steps' = [steps EXCEPT ![case][c][i + 1] = t], cmd' = cmd
    PROVE  /\ SuiteInv' /\ Len(steps') = Len(steps)
           /\ \A d \in Lcores : pc[d] # "off" =>
                 /\ Len(steps'[case][d]) = Len(steps[case][d])
                 /\ \A j \in 0 .. Len(steps[case][d]) - 1 :
                       /\ steps'[case][d][j + 1].action = Cmd(d, j).action
                       /\ d # c \/ j # i => steps'[case][d][j + 1] = Cmd(d, j)
           /\ steps'[case][c][i + 1] = t
           /\ WellFormed' <=> WellFormed
<1>1. PICK C \in SUBSET Lcores :
         steps \in Seq([C -> Script]) /\ (cmd.binary = "test" => cmd.cores \subseteq C)
  BY DEF SuiteInv
<1>2. /\ case \in DOMAIN steps /\ cmd.cores \subseteq C
      /\ \A d \in Lcores : pc[d] # "off" => d \in C
  BY <1>1 DEF TypeInv, LcoreData, RunningInv, At
<1> DEFINE row == steps[case]
           old == row[c]
           new == [old EXCEPT ![i + 1] = t]
<1>3. row \in [C -> Script] /\ c \in C /\ old \in Script
  BY <1>1, <1>2
<1>4. /\ old \in Seq(Step) /\ old # << >> /\ Len(old) \in Nat
      /\ old[Len(old)].action = "FAKE_END" /\ i + 1 \in 1 .. Len(old)
  BY <1>3 DEF Script
<1>5. old[i + 1] = Cmd(c, i)
  BY DEF Cmd
<1> HIDE DEF old
<1>6. /\ new \in Seq(Step) /\ Len(new) = Len(old) /\ new[i + 1] = t
      /\ \A j \in 1 .. Len(old) : j # i + 1 => new[j] = old[j]
  BY <1>4
<1>7. \A j \in 1 .. Len(old) : new[j].action = old[j].action /\ new[j].text = old[j].text
  BY <1>5, <1>6
<1>8. new \in Script
  BY <1>4, <1>6, <1>7 DEF Script
<1> HIDE DEF new
<1>9. steps' = [steps EXCEPT ![case] = [row EXCEPT ![c] = new]]
  BY DEF new, old
<1>10. [row EXCEPT ![c] = new] \in [C -> Script]
  BY <1>3, <1>8
<1>11. /\ steps' \in Seq([C -> Script]) /\ Len(steps') = Len(steps)
       /\ steps'[case] = [row EXCEPT ![c] = new]
       /\ \A k \in DOMAIN steps : k # case => steps'[k] = steps[k]
  <2>1. case \in 1 .. Len(steps) /\ DOMAIN steps = 1 .. Len(steps)
    BY <1>1, <1>2
  <2> DEFINE new_row == [row EXCEPT ![c] = new]
  <2>2. new_row \in [C -> Script] /\ steps' = [steps EXCEPT ![case] = new_row]
    BY <1>9, <1>10
  <2> HIDE DEF new_row
  <2>3. /\ [steps EXCEPT ![case] = new_row] \in Seq([C -> Script])
        /\ Len([steps EXCEPT ![case] = new_row]) = Len(steps)
        /\ \A k \in 1 .. Len(steps) :
             [steps EXCEPT ![case] = new_row][k] = IF k = case THEN new_row ELSE steps[k]
    BY <1>1, <2>1, <2>2, ExceptSeq
  <2> QED
    BY <2>1, <2>2, <2>3 DEF new_row
<1>12. /\ steps'[case][c] = new
       /\ \A d \in C : d # c => steps'[case][d] = row[d]
  BY <1>3, <1>11
<1>13. SuiteInv'
  BY <1>1, <1>11 DEF SuiteInv
<1>14. ASSUME NEW d \in Lcores, pc[d] # "off"
       PROVE  /\ Len(steps'[case][d]) = Len(steps[case][d])
              /\ \A j \in 0 .. Len(steps[case][d]) - 1 :
                    /\ steps'[case][d][j + 1].action = Cmd(d, j).action
                    /\ d # c \/ j # i => steps'[case][d][j + 1] = Cmd(d, j)
  <2>1. CASE d # c
    <3>1. steps'[case][d] = steps[case][d]
      BY <1>2, <1>12, <1>14, <2>1
    <3> QED
      BY <3>1 DEF Cmd
  <2>2. CASE d = c
    <3>1. steps'[case][d] = new /\ steps[case][d] = old
      BY <1>12, <2>2 DEF old
    <3>2. \A j \in 0 .. Len(old) - 1 : j + 1 \in 1 .. Len(old) /\ (j # i => j + 1 # i + 1)
      BY <1>4
    <3> QED
      BY <1>6, <1>7, <2>2, <3>1, <3>2 DEF Cmd
  <2> QED
    BY <2>1, <2>2
<1>15. WellFormed' <=> WellFormed
  <2> DEFINE Valid(s) == \A j \in DOMAIN s : is_valid_fake_packet(s[j].text)
  <2>1. DOMAIN steps' = DOMAIN steps
    BY <1>1, <1>11
  <2>2. DOMAIN new = DOMAIN old /\ DOMAIN old = 1 .. Len(old)
    BY <1>4, <1>6
  <2>3. Valid(new) <=> Valid(old)
    BY <1>7, <2>2
  <2> HIDE DEF Valid
  <2>4. \A k \in DOMAIN steps, d \in cmd.cores :
           Valid(steps'[k][d]) <=> Valid(steps[k][d])
    <3>1. ASSUME NEW k \in DOMAIN steps, NEW d \in cmd.cores
          PROVE  Valid(steps'[k][d]) <=> Valid(steps[k][d])
      <4>1. CASE k # case
        BY <1>11, <4>1
      <4>2. CASE k = case /\ d # c
        BY <1>2, <1>12, <4>2
      <4>3. CASE k = case /\ d = c
        BY <1>12, <2>3, <4>3 DEF old
      <4> QED
        BY <4>1, <4>2, <4>3
    <3> QED
      BY <3>1
  <2>5. WellFormed <=> \A k \in DOMAIN steps, d \in cmd.cores : Valid(steps[k][d])
    BY DEF WellFormed, Scripts, Valid
  <2>6. WellFormed' <=> \A k \in DOMAIN steps, d \in cmd.cores : Valid(steps'[k][d])
    <3>1. Scripts' = {steps'[k][d] : k \in DOMAIN steps, d \in cmd.cores}
      BY <2>1 DEF Scripts
    <3>2. WellFormed' <=> \A s \in Scripts' : Valid(s)
      BY DEF WellFormed, Valid, is_valid_fake_packet
    <3> QED
      BY <3>1, <3>2
  <2> QED
    BY <2>4, <2>5, <2>6
<1> QED
  BY <1>6, <1>11, <1>12, <1>13, <1>14, <1>15
-----------------------------------------------------------------------------
\* The steps of main and of the lcores.

\* The steps of initialize_args and dpdk_init_nic come before any lcore runs.
LEMMA StartingStep == ASSUME HInv, Starting PROVE HInv'
<1>1. stage \in {"args", "nic"} /\ cmd' = cmd /\ UNCHANGED harness
  BY DEF Starting, StartupNext, initialize_args, dpdk_init_nic, DpdkFails
<1>2. /\ \A c \in Lcores : pc[c] = "off"
      /\ verdict = None
  BY <1>1 DEF HInv, RunningInv, At, VerdictInv
<1>3. SuiteInv' /\ TypeInv'
  BY <1>1 DEF HInv, SuiteInv, TypeInv, LcoreData, harness
<1>4. RunningInv' /\ BehindInv'
  BY <1>1, <1>2 DEF RunningInv, BehindInv, harness
<1>5. WellFormed' <=> WellFormed
  BY <1>1 DEF WellFormed, Scripts, harness
<1>6. VerdictInv'
  BY <1>1, <1>2, <1>5 DEF HInv, VerdictInv, harness
<1> QED
  BY <1>3, <1>4, <1>6 DEF HInv

\* launch_dpdk starts every enabled lcore at the head of its script of the next case.
LEMMA LaunchStep == ASSUME HInv, launch_dpdk PROVE HInv'
<1>0. SuiteInv /\ TypeInv /\ RunningInv /\ BehindInv /\ VerdictInv
  BY DEF HInv
<1>1. /\ stage = "run" /\ cmd.binary = "test" /\ verdict = None /\ case < Len(steps)
      /\ case' = case + 1
      /\ pc' = [l \in Lcores |-> IF l \in cmd.cores THEN "working" ELSE "off"]
      /\ lcdata' = [l \in Lcores |-> init_lcore_data]
      /\ UNCHANGED <<cmd, stage, steps, encountered, verdict, wrong>>
  BY DEF launch_dpdk, startup
<1>2. init_lcore_data \in LcoreData
  BY DEF init_lcore_data, LcoreData
<1>3. PICK C \in SUBSET Lcores : steps \in Seq([C -> Script]) /\ cmd.cores \subseteq C
  BY <1>0, <1>1 DEF SuiteInv
<1>4. case' \in 1 .. Len(steps) /\ case' # 0
  BY <1>0, <1>1, <1>3 DEF TypeInv, LcoreData
<1>5. SuiteInv'
  BY <1>1, <1>3 DEF SuiteInv
<1>6. TypeInv'
  <2>1. pc' \in [Lcores -> {"off", "working", "pre_rx", "rx", "tx"}]
    BY <1>1
  <2>2. lcdata' \in [Lcores -> LcoreData]
    BY <1>1, <1>2
  <2> QED
    BY <1>0, <1>1, <1>4, <2>1, <2>2 DEF TypeInv, LcoreData
<1>7. ASSUME NEW c \in Lcores, pc'[c] # "off"
      PROVE  /\ c \in cmd.cores /\ pc'[c] = "working"
             /\ lcdata'[c].idx = -1 /\ lcdata'[c].verify_idx = -1
             /\ Len(steps'[case'][c]) \in Nat
  <2>1. c \in cmd.cores /\ pc'[c] = "working" /\ lcdata'[c] = init_lcore_data
    BY <1>1, <1>7
  <2>2. steps[case'] \in [C -> Script]
    BY <1>3, <1>4
  <2>3. steps[case'][c] \in Seq(Step)
    BY <1>3, <2>1, <2>2 DEF Script
  <2> QED
    BY <1>1, <2>1, <2>3 DEF init_lcore_data
<1>8. RunningInv'
  BY <1>1, <1>4, <1>7 DEF RunningInv, At
<1>9. BehindInv'
  BY <1>7 DEF BehindInv, Behind
<1>10. WellFormed' <=> WellFormed
  BY <1>1 DEF WellFormed, Scripts
<1>11. VerdictInv'
  BY <1>0, <1>1, <1>10 DEF VerdictInv
<1> QED
  BY <1>5, <1>6, <1>8, <1>9, <1>11 DEF HInv

\* The verdict is made when no lcore runs any more, and it is OK only if none of the
\* encountered_ flags was set.
LEMMA ExitStep == ASSUME HInv, exit PROVE HInv'
<1>0. SuiteInv /\ TypeInv /\ RunningInv /\ BehindInv /\ VerdictInv
  BY DEF HInv
<1>1. /\ stage = "run" /\ \A l \in Lcores : pc[l] = "off"
      /\ verdict' = t4p4s_normal_exit
      /\ UNCHANGED <<cmd, stage, steps, case, pc, lcdata, rnd_ports, encountered, wrong>>
  BY DEF exit, startup
<1>2. verdict' = "OK" => encountered = {}
  BY <1>0, <1>1 DEF TypeInv, LcoreData, t4p4s_normal_exit
<1>3. SuiteInv' /\ TypeInv'
  BY <1>0, <1>1 DEF SuiteInv, TypeInv, LcoreData
<1>4. RunningInv' /\ BehindInv'
  BY <1>1 DEF RunningInv, BehindInv
<1>5. WellFormed' <=> WellFormed
  BY <1>1 DEF WellFormed, Scripts
<1>6. VerdictInv'
  BY <1>0, <1>1, <1>2, <1>5 DEF VerdictInv
<1> QED
  BY <1>3, <1>4, <1>6 DEF HInv

\* An lcore that another one leaves alone stays where it is.
LEMMA Untouched ==
    ASSUME NEW d \in Lcores, pc[d] # "off", At(d),
           Len(steps[case][d]) \in Nat, Len(steps'[case][d]) = Len(steps[case][d]),
           \A j \in 0 .. Len(steps[case][d]) - 1 : steps'[case][d][j + 1] = Cmd(d, j),
           UNCHANGED <<cmd, stage, case, verdict>>, pc'[d] = pc[d],
           lcdata'[d].idx = lcdata[d].idx, lcdata'[d].verify_idx = lcdata[d].verify_idx,
           rnd_ports' = rnd_ports \/ rnd_ports' \in RandomPorts
    PROVE  At(d)' /\ (Behind(d) => Behind(d)')
<1> DEFINE i == lcdata[d].idx
           v == lcdata[d].verify_idx
           n == Len(steps[case][d])
<1>1. i \in -1 .. n - 1 /\ v \in -1 .. i /\ n \in Nat
  BY DEF At
<1> HIDE DEF i, v, n
<1>2. \A j \in 0 .. n - 1 : Cmd(d, j)' = Cmd(d, j)
  BY DEF Cmd, n
<1>3. \A j \in 0 .. i : j \in 0 .. n - 1
  BY <1>1
<1>4. \A j \in v + 1 .. i : j \in 0 .. i
  BY <1>1
<1>5. i >= 0 => i \in 0 .. i
  BY <1>1
<1>6. v < i => i \in 0 .. i
  BY <1>1
<1>7. \A j \in 0 .. i - 1 : j \in 0 .. i
  BY <1>1
<1>8. lcdata'[d].idx = i /\ lcdata'[d].verify_idx = v /\ Len(steps'[case][d]) = n
  BY DEF i, v, n
<1>9. At(d)'
  <2>1. \A j \in 0 .. i - 1 : Cmd(d, j)'.action # "FAKE_END"
    BY <1>2, <1>3, <1>7 DEF At, i
  <2>2. pc[d] \in {"pre_rx", "rx"} /\ i >= 0 => Cmd(d, i)'.action # "FAKE_END"
    BY <1>2, <1>3, <1>5 DEF At, i
  <2>3. pc[d] = "tx" => v < i /\ is_real_fake_packet(Cmd(d, i)')
    BY <1>2, <1>3, <1>6 DEF At, i, v
  <2>4. pc[d] = "rx" => rnd_ports' \in RandomPorts
    BY DEF At
  <2> QED
    BY <1>1, <1>8, <2>1, <2>2, <2>3, <2>4 DEF At, Cmd, is_real_fake_packet
<1>10. ASSUME Behind(d) PROVE Behind(d)'
  <2>1. \A j \in v + 1 .. i : Cmd(d, j)' = Cmd(d, j)
    BY <1>2, <1>3, <1>4
  <2>2. \A j \in v + 1 .. i : is_real_fake_packet(Cmd(d, j)') =>
           Cmd(d, j)'.out_port = DROP \/ (pc[d] = "tx" /\ j = i)
    <3>1. \A j \in v + 1 .. i : is_real_fake_packet(Cmd(d, j)) =>
             Cmd(d, j).out_port = DROP \/ (pc[d] = "tx" /\ j = i)
      BY <1>10 DEF Behind, i, v
    <3> QED
      BY <2>1, <3>1
  <2> QED
    BY <1>8, <2>2 DEF Behind, Cmd, is_real_fake_packet
<1> QED
  BY <1>9, <1>10

\* core_is_working counts the iteration and stops at FEND or at the limit.
LEMMA WorkingStep == ASSUME HInv, NEW c \in Lcores, core_is_working(c) PROVE HInv'
<1>0. SuiteInv /\ TypeInv /\ RunningInv /\ BehindInv /\ VerdictInv
  BY DEF HInv
<1> DEFINE n == lcdata[c].iter_idx + 1
<1>1. /\ pc[c] = "working"
      /\ lcdata' = [lcdata EXCEPT ![c].iter_idx = n]
      /\ UNCHANGED <<cmd, stage, steps, case, rnd_ports, verdict, wrong>>
      /\ encountered \subseteq encountered' /\ encountered' \subseteq encountered \cup {"error"}
  BY DEF core_is_working, startup
<1>2. \/ pc' = [pc EXCEPT ![c] = "off"]
      \/ /\ pc' = [pc EXCEPT ![c] = "pre_rx"]
         /\ lcdata[c].idx < 0 \/ Cmd(c, lcdata[c].idx).action # "FAKE_END"
  BY DEF core_is_working
<1>3. n \in Nat
  BY <1>0 DEF TypeInv, LcoreData
<1> HIDE DEF n
<1>4. /\ lcdata' \in [Lcores -> LcoreData]
      /\ \A d \in Lcores : /\ lcdata'[d].idx = lcdata[d].idx
                           /\ lcdata'[d].verify_idx = lcdata[d].verify_idx
  BY <1>0, <1>1, <1>3 DEF TypeInv, LcoreData
<1>5. /\ pc' \in [Lcores -> {"off", "working", "pre_rx", "rx", "tx"}]
      /\ \A d \in Lcores : d # c => pc'[d] = pc[d]
      /\ pc'[c] = "off" \/ pc'[c] = "pre_rx"
  BY <1>0, <1>2 DEF TypeInv, LcoreData
<1>6. SuiteInv' /\ TypeInv'
  BY <1>0, <1>1, <1>4, <1>5 DEF SuiteInv, TypeInv, LcoreData
<1>7. pc'[c] # "off" => At(c)' /\ (Behind(c) => Behind(c)')
  <2>1. At(c)
    BY <1>0, <1>1 DEF RunningInv
  <2>2. ASSUME pc'[c] # "off" PROVE At(c)'
    <3>1. pc'[c] = "pre_rx" /\ (lcdata[c].idx >= 0 => Cmd(c, lcdata[c].idx).action # "FAKE_END")
      <4>1. lcdata[c].idx \in Int
        BY <1>0 DEF TypeInv, LcoreData
      <4>2. pc'[c] = "pre_rx" /\ (lcdata[c].idx < 0 \/ Cmd(c, lcdata[c].idx).action # "FAKE_END")
        BY <1>0, <1>2, <2>2 DEF TypeInv, LcoreData
      <4> QED
        BY <4>1, <4>2
    <3> QED
      BY <1>1, <1>4, <2>1, <3>1 DEF At, Cmd
  <2>3. ASSUME Behind(c) PROVE Behind(c)'
    BY <1>1, <1>4, <2>3 DEF Behind, Cmd
  <2> QED
    BY <2>2, <2>3
<1>8. \A d \in Lcores : pc'[d] # "off" => pc[d] # "off" /\ At(d)' /\ (Behind(d) => Behind(d)')
  <2> SUFFICES ASSUME NEW d \in Lcores, d # c, pc'[d] # "off"
               PROVE  pc[d] # "off" /\ At(d)' /\ (Behind(d) => Behind(d)')
    BY <1>1, <1>7
  <2>1. pc[d] # "off" /\ pc'[d] = pc[d] /\ At(d)
    BY <1>0, <1>5 DEF RunningInv
  <2>2. Len(steps[case][d]) \in Nat
    BY <1>0, <2>1, ScriptOfCase
  <2>3. \A j \in 0 .. Len(steps[case][d]) - 1 : steps'[case][d][j + 1] = Cmd(d, j)
    BY <1>1 DEF Cmd
  <2> QED
    BY <1>1, <1>4, <2>1, <2>2, <2>3, Untouched
<1>9. WellFormed' <=> WellFormed
  BY <1>1 DEF WellFormed, Scripts
<1>10. RunningInv' /\ BehindInv'
  BY <1>0, <1>1, <1>8, <1>9 DEF RunningInv, BehindInv
<1>11. VerdictInv'
  <2>1. verdict = None
    BY <1>0, <1>1 DEF RunningInv, At
  <2> QED
    BY <1>0, <1>1, <1>9, <2>1 DEF VerdictInv
<1> QED
  BY <1>6, <1>10, <1>11 DEF HInv

\* main_loop_pre_rx picks the random ports of the iteration.
LEMMA PreRxStep == ASSUME HInv, NEW c \in Lcores, main_loop_pre_rx(c) PROVE HInv'
<1>0. SuiteInv /\ TypeInv /\ RunningInv /\ BehindInv /\ VerdictInv
  BY DEF HInv
<1>1. /\ pc[c] = "pre_rx" /\ pc' = [pc EXCEPT ![c] = "rx"] /\ rnd_ports' \in RandomPorts
      /\ lcdata' = [lcdata EXCEPT ![c].is_valid = TRUE]
      /\ UNCHANGED <<cmd, stage, steps, case, encountered, verdict, wrong>>
  BY DEF main_loop_pre_rx, startup
<1>2. /\ lcdata' \in [Lcores -> LcoreData]
      /\ \A d \in Lcores : /\ lcdata'[d].idx = lcdata[d].idx
                           /\ lcdata'[d].verify_idx = lcdata[d].verify_idx
  BY <1>0, <1>1 DEF TypeInv, LcoreData
<1>3. /\ pc' \in [Lcores -> {"off", "working", "pre_rx", "rx", "tx"}]
      /\ pc'[c] = "rx" /\ \A d \in Lcores : d # c => pc'[d] = pc[d]
  BY <1>0, <1>1 DEF TypeInv, LcoreData
<1>4. SuiteInv' /\ TypeInv'
  BY <1>0, <1>1, <1>2, <1>3 DEF SuiteInv, TypeInv, LcoreData
<1>5. At(c)' /\ (Behind(c) => Behind(c)')
  <2>1. At(c)
    BY <1>0, <1>1 DEF RunningInv
  <2>2. At(c)'
    BY <1>1, <1>2, <1>3, <2>1 DEF At, Cmd
  <2>3. ASSUME Behind(c) PROVE Behind(c)'
    BY <1>1, <1>2, <2>3 DEF Behind, Cmd
  <2> QED
    BY <2>2, <2>3
<1>6. \A d \in Lcores : pc'[d] # "off" => pc[d] # "off" /\ At(d)' /\ (Behind(d) => Behind(d)')
  <2> SUFFICES ASSUME NEW d \in Lcores, d # c, pc'[d] # "off"
               PROVE  pc[d] # "off" /\ At(d)' /\ (Behind(d) => Behind(d)')
    BY <1>1, <1>5
  <2>1. pc[d] # "off" /\ pc'[d] = pc[d] /\ At(d)
    BY <1>0, <1>3 DEF RunningInv
  <2>2. Len(steps[case][d]) \in Nat
    BY <1>0, <2>1, ScriptOfCase
  <2>3. \A j \in 0 .. Len(steps[case][d]) - 1 : steps'[case][d][j + 1] = Cmd(d, j)
    BY <1>1 DEF Cmd
  <2> QED
    BY <1>1, <1>2, <2>1, <2>2, <2>3, Untouched
<1>7. WellFormed' <=> WellFormed
  BY <1>1 DEF WellFormed, Scripts
<1>8. RunningInv' /\ BehindInv'
  BY <1>0, <1>1, <1>6, <1>7 DEF RunningInv, BehindInv
<1>9. VerdictInv'
  <2>1. verdict = None
    BY <1>0, <1>1 DEF RunningInv, At
  <2> QED
    BY <1>0, <1>1, <1>7, <2>1 DEF VerdictInv
<1> QED
  BY <1>4, <1>8, <1>9 DEF HInv

\* receive_packet goes on to the next step.  In a suite that is well-formed it passes
\* over no step with a packet.
LEMMA ReceiveStep == ASSUME HInv, NEW c \in Lcores, receive_packet(c) PROVE HInv'
<1>0. SuiteInv /\ TypeInv /\ RunningInv /\ BehindInv /\ VerdictInv
  BY DEF HInv
<1> DEFINE i == lcdata[c].idx + 1
           n == Len(steps[case][c])
           b == is_valid_fake_packet(Cmd(c, i).text)
<1>1. /\ pc[c] = "rx" /\ lcdata' = [lcdata EXCEPT ![c].idx = i, ![c].is_valid = b]
      /\ UNCHANGED <<cmd, stage, case, rnd_ports, encountered, verdict, wrong>>
  BY DEF receive_packet, startup
<1>2. PICK s \in get_cmd(Cmd(c, i)) :
        /\ steps' = [steps EXCEPT ![case][c][i + 1] = s]
        /\ pc' = [pc EXCEPT ![c] = IF s.action = "FAKE_PKT" /\ s.text # << >>
                                      /\ is_valid_fake_packet(s.text)
                                   THEN "tx" ELSE "working"]
  BY DEF receive_packet
<1>3. At(c) /\ pc[c] # "off"
  BY <1>0, <1>1 DEF RunningInv
<1>4. /\ n \in Nat \ {0} /\ Cmd(c, n - 1).action = "FAKE_END"
      /\ \A j \in 0 .. n - 1 : Cmd(c, j) \in Step
  BY <1>0, <1>3, ScriptOfCase
<1>5. i \in 0 .. n - 1
  <2>1. lcdata[c].idx \in -1 .. n - 1
    BY <1>3 DEF At
  <2>2. lcdata[c].idx >= 0 => lcdata[c].idx # n - 1
    BY <1>1, <1>3, <1>4 DEF At
  <2> QED
    BY <1>4, <2>1, <2>2
<1>6. s \in Step /\ s.action = Cmd(c, i).action /\ s.text = Cmd(c, i).text
  BY <1>1, <1>2, <1>3, <1>4, <1>5, GetCmdKeeps DEF At
<1>7. /\ SuiteInv' /\ Len(steps') = Len(steps)
      /\ \A d \in Lcores : pc[d] # "off" =>
            /\ Len(steps'[case][d]) = Len(steps[case][d])
            /\ \A j \in 0 .. Len(steps[case][d]) - 1 :
                  /\ steps'[case][d][j + 1].action = Cmd(d, j).action
                  /\ d # c \/ j # i => steps'[case][d][j + 1] = Cmd(d, j)
      /\ steps'[case][c][i + 1] = s
      /\ WellFormed' <=> WellFormed
  <2> HIDE DEF i
  <2> QED
    BY <1>0, <1>1, <1>2, <1>3, <1>5, <1>6, SuiteWritten
<1>8. /\ lcdata' \in [Lcores -> LcoreData]
      /\ \A d \in Lcores : lcdata'[d].verify_idx = lcdata[d].verify_idx
      /\ \A d \in Lcores : d # c => lcdata'[d].idx = lcdata[d].idx
      /\ lcdata'[c].idx = i
  <2>1. b \in BOOLEAN
    BY DEF is_valid_fake_packet
  <2>2. i \in Int
    BY <1>5
  <2> HIDE DEF i, b
  <2> QED
    BY <1>0, <1>1, <2>1, <2>2 DEF TypeInv, LcoreData
<1>9. /\ pc' \in [Lcores -> {"off", "working", "pre_rx", "rx", "tx"}]
      /\ pc'[c] \in {"tx", "working"} /\ \A d \in Lcores : d # c => pc'[d] = pc[d]
      /\ pc'[c] = "tx" <=>
            s.action = "FAKE_PKT" /\ s.text # << >> /\ is_valid_fake_packet(s.text)
  BY <1>0, <1>2 DEF TypeInv, LcoreData
<1>10. SuiteInv' /\ TypeInv'
  BY <1>0, <1>1, <1>7, <1>8, <1>9 DEF TypeInv, LcoreData
<1> HIDE DEF b
<1>11. /\ lcdata[c].verify_idx \in -1 .. i - 1 /\ i - 1 = lcdata[c].idx
       /\ \A j \in 0 .. i - 1 : Cmd(c, j).action # "FAKE_END"
  <2>1. /\ lcdata[c].idx \in -1 .. n - 1 /\ lcdata[c].verify_idx \in -1 .. lcdata[c].idx
        /\ \A j \in 0 .. lcdata[c].idx - 1 : Cmd(c, j).action # "FAKE_END"
        /\ lcdata[c].idx >= 0 => Cmd(c, lcdata[c].idx).action # "FAKE_END"
    BY <1>1, <1>3 DEF At
  <2>2. i - 1 = lcdata[c].idx
    BY <2>1
  <2>3. \A j \in 0 .. i - 1 : j \in 0 .. lcdata[c].idx - 1 \/ (j = lcdata[c].idx /\ j >= 0)
    BY <2>1
  <2> QED
    BY <2>1, <2>2, <2>3
<1> HIDE DEF i, n
<1>12. /\ \A j \in 0 .. n - 1 : /\ Cmd(c, j)'.action = Cmd(c, j).action
                                /\ j # i => Cmd(c, j)' = Cmd(c, j)
       /\ \A j \in 0 .. n - 1 : j = i => Cmd(c, j)' = s
  BY <1>1, <1>3, <1>7 DEF Cmd, n
<1>13. At(c)'
  <2>1. \A j \in 0 .. i - 1 : Cmd(c, j)'.action # "FAKE_END"
    <3>1. \A j \in 0 .. i - 1 : j \in 0 .. n - 1
      BY <1>4, <1>5
    <3> QED
      BY <1>11, <1>12, <3>1
  <2>2. i \in -1 .. n - 1 /\ lcdata[c].verify_idx \in -1 .. i /\ lcdata[c].verify_idx < i
    BY <1>4, <1>5, <1>11
  <2>3. pc'[c] = "tx" => \A j \in 0 .. n - 1 : j = i => is_real_fake_packet(Cmd(c, j)')
    BY <1>9, <1>12 DEF is_real_fake_packet
  <2>4. Len(steps'[case][c]) = n
    BY <1>3, <1>7 DEF n
  <2>5. /\ stage = "run" /\ cmd.binary = "test" /\ verdict = None /\ case # 0
        /\ c \in cmd.cores
    BY <1>3 DEF At
  <2>6. lcdata'[c].verify_idx = lcdata[c].verify_idx /\ i \in 0 .. n - 1
    BY <1>5, <1>8
  <2> QED
    BY <1>1, <1>8, <2>6, <1>9, <2>1, <2>2, <2>3, <2>4, <2>5 DEF At, Cmd, is_real_fake_packet
<1>14. ASSUME WellFormed, Behind(c) PROVE Behind(c)'
  <2>1. is_real_fake_packet(s) => pc'[c] = "tx"
    <3>1. steps[case][c] \in Scripts /\ i + 1 \in DOMAIN steps[case][c]
      <4>1. case \in DOMAIN steps /\ steps[case][c] \in Seq(Step)
        <5>1. PICK C \in SUBSET Lcores :
                 steps \in Seq([C -> Script]) /\ (cmd.binary = "test" => cmd.cores \subseteq C)
          BY <1>0 DEF SuiteInv
        <5>2. case \in DOMAIN steps /\ c \in C
          BY <1>0, <1>3, <5>1 DEF TypeInv, LcoreData, At
        <5>3. steps[case] \in [C -> Script]
          BY <5>1, <5>2
        <5> QED
          BY <5>2, <5>3 DEF Script
      <4>2. c \in cmd.cores
        BY <1>3 DEF At
      <4> QED
        BY <1>4, <1>5, <4>1, <4>2 DEF Scripts, n
    <3>2. is_valid_fake_packet(Cmd(c, i).text)
      BY <1>14, <3>1 DEF WellFormed, Cmd
    <3> QED
      BY <1>6, <1>9, <3>2 DEF is_real_fake_packet
  <2>2. \A j \in lcdata[c].verify_idx + 1 .. i : j = i \/ (j # i /\ j \in 0 .. n - 1
             /\ j \in lcdata[c].verify_idx + 1 .. lcdata[c].idx)
    BY <1>4, <1>5, <1>11
  <2>3. \A j \in lcdata[c].verify_idx + 1 .. lcdata[c].idx :
           is_real_fake_packet(Cmd(c, j)) => Cmd(c, j).out_port = DROP
    BY <1>1, <1>14 DEF Behind
  <2>4. \A j \in lcdata[c].verify_idx + 1 .. i : is_real_fake_packet(Cmd(c, j)') =>
           Cmd(c, j)'.out_port = DROP \/ (pc'[c] = "tx" /\ j = i)
    <3> SUFFICES ASSUME NEW j \in lcdata[c].verify_idx + 1 .. i,
                        is_real_fake_packet(Cmd(c, j)')
                 PROVE  Cmd(c, j)'.out_port = DROP \/ (pc'[c] = "tx" /\ j = i)
      OBVIOUS
    <3>1. CASE j = i
      <4>1. Cmd(c, j)' = s
        BY <1>5, <1>12, <3>1
      <4> QED
        BY <2>1, <3>1, <4>1
    <3>2. CASE j # i
      <4>1. Cmd(c, j)' = Cmd(c, j)
        BY <1>12, <2>2, <3>2
      <4> QED
        BY <2>2, <2>3, <3>2, <4>1
    <3> QED
      BY <3>1, <3>2
  <2> QED
    BY <1>8, <2>4 DEF Behind, Cmd, is_real_fake_packet
<1>15. \A d \in Lcores : pc'[d] # "off" =>
          pc[d] # "off" /\ At(d)' /\ (WellFormed /\ Behind(d) => Behind(d)')
  <2> SUFFICES ASSUME NEW d \in Lcores, d # c, pc'[d] # "off"
               PROVE  pc[d] # "off" /\ At(d)' /\ (Behind(d) => Behind(d)')
    BY <1>3, <1>13, <1>14
  <2>1. pc[d] # "off" /\ pc'[d] = pc[d] /\ At(d)
    BY <1>0, <1>9 DEF RunningInv
  <2>2. Len(steps[case][d]) \in Nat
    BY <1>0, <2>1, ScriptOfCase
  <2>3. /\ \A j \in 0 .. Len(steps[case][d]) - 1 : steps'[case][d][j + 1] = Cmd(d, j)
        /\ Len(steps'[case][d]) = Len(steps[case][d])
    BY <1>7, <2>1
  <2> QED
    BY <1>1, <1>8, <2>1, <2>2, <2>3, Untouched
<1>16. RunningInv' /\ BehindInv'
  BY <1>0, <1>1, <1>7, <1>15 DEF RunningInv, BehindInv
<1>17. VerdictInv'
  <2>1. verdict = None
    BY <1>3 DEF At
  <2> QED
    BY <1>0, <1>1, <1>7, <2>1 DEF VerdictInv
<1> QED
  BY <1>10, <1>16, <1>17 DEF HInv

\* get_next_real_fake_verify_packet finds a step of the script, at most the one whose
\* packet is being sent.
LEMMA VerifyPacket ==
    ASSUME SuiteInv, TypeInv, RunningInv, NEW c \in Lcores, pc[c] = "tx"
    PROVE  LET i == get_next_real_fake_verify_packet(c)
           IN  /\ i \in lcdata[c].verify_idx + 1 .. lcdata[c].idx
               /\ i # lcdata[c].idx => is_real_fake_packet(Cmd(c, i))
<1> DEFINE ahead == lcdata[c].verify_idx + 1 .. Len(steps[case][c]) - 1
           stops == {i \in ahead : is_real_fake_packet(Cmd(c, i))
                                   \/ Cmd(c, i).action = "FAKE_END"}
           i == get_next_real_fake_verify_packet(c)
<1>1. At(c)
  BY DEF RunningInv
<1>2. lcdata[c].idx \in stops
  BY <1>1 DEF At
<1>3. stops \subseteq Nat
  BY <1>1 DEF At
<1>4. \E x \in stops : \A y \in stops : x <= y
  BY <1>2, <1>3, LeastExists
<1>5. i = CHOOSE x \in stops : \A y \in stops : x <= y
  BY DEF get_next_real_fake_verify_packet
<1>6. i \in stops /\ \A y \in stops : i <= y
  <2> HIDE DEF stops, i
  <2> QED
    BY <1>4, <1>5
<1>7. i \in lcdata[c].verify_idx + 1 .. lcdata[c].idx
  <2> HIDE DEF i
  <2> QED
    BY <1>1, <1>2, <1>6 DEF At
<1>8. i # lcdata[c].idx => is_real_fake_packet(Cmd(c, i))
  <2> HIDE DEF i
  <2>1. ASSUME i # lcdata[c].idx PROVE Cmd(c, i).action # "FAKE_END"
    <3>1. i \in 0 .. lcdata[c].idx - 1
      BY <1>1, <1>7, <2>1 DEF At
    <3> QED
      BY <1>1, <3>1 DEF At
  <2> QED
    BY <1>6, <2>1
<1> QED
  BY <1>7, <1>8

\* A packet that check_sent_packet compares with a step is judged right only if the
\* answer is what that step wants.
LEMMA FlagsOfCheck ==
    ASSUME NEW s, NEW a \in Answers, ~is_packet_dropped(a), NEW same \in SameBytes(s, a)
    PROVE  /\ s.out_port = DROP => check_egress_port(s, a) # {}
           /\ ~Right(s, a) /\ is_valid_fake_packet(s.text) =>
                 check_egress_port(s, a) # {} \/ same = FALSE
<1>1. a.port \in Nat /\ a.port # EGRESS_DROP_VALUE /\ a.port # DROP
  BY HarnessAssumption DEF is_packet_dropped, DROP
<1>2. check_egress_port(s, a) = {} => a.set /\ s.out_port = a.port
  BY <1>1 DEF check_egress_port, is_packet_dropped
<1>3. is_valid_fake_packet(s.text) => same = (Expected(s.text) = a.bytes)
  BY DEF SameBytes
<1> QED
  BY <1>1, <1>2, <1>3 DEF Right

\* do_single_tx: a packet that was dropped is compared with its own step, one that is
\* sent with the step that verify_idx reaches.  Where the two differ an error is met.
LEMMA TxStep == ASSUME HInv, NEW c \in Lcores, do_single_tx(c) PROVE HInv'
<1>0. SuiteInv /\ TypeInv /\ RunningInv /\ BehindInv /\ VerdictInv
  BY DEF HInv
<1> DEFINE k == lcdata[c].idx
           v == lcdata[c].verify_idx
           i == get_next_real_fake_verify_packet(c)
           own == Cmd(c, k)
<1>1. /\ pc[c] = "tx" /\ pc' = [pc EXCEPT ![c] = "working"]
      /\ UNCHANGED <<cmd, stage, steps, case, rnd_ports, verdict>>
  BY DEF do_single_tx, startup
<1>2. PICK a \in Answers :
         /\ IF is_packet_dropped(a) THEN free_packet(c) ELSE check_sent_packet(c, a)
         /\ wrong' = (wrong \/ ~Right(own, a))
  BY DEF do_single_tx
<1>3. At(c) /\ v < k /\ is_real_fake_packet(own)
  BY <1>0, <1>1 DEF RunningInv, At
<1>4. /\ i \in v + 1 .. k
      /\ i # k => is_real_fake_packet(Cmd(c, i))
  BY <1>0, <1>1, VerifyPacket
<1>5. /\ k \in -1 .. Len(steps[case][c]) - 1 /\ v \in -1 .. k
      /\ \A j \in 0 .. k - 1 : Cmd(c, j).action # "FAKE_END"
  BY <1>3 DEF At
<1>6. WellFormed => is_valid_fake_packet(own.text)
  <2>1. case \in DOMAIN steps /\ steps[case][c] \in Seq(Step) /\ c \in cmd.cores
    <3>1. PICK C \in SUBSET Lcores :
             steps \in Seq([C -> Script]) /\ (cmd.binary = "test" => cmd.cores \subseteq C)
      BY <1>0 DEF SuiteInv
    <3>2. case \in DOMAIN steps /\ c \in C /\ c \in cmd.cores
      BY <1>0, <1>3, <3>1 DEF TypeInv, LcoreData, At
    <3>3. steps[case] \in [C -> Script]
      BY <3>1, <3>2
    <3> QED
      BY <3>2, <3>3 DEF Script
  <2>2. steps[case][c] \in Scripts /\ k + 1 \in DOMAIN steps[case][c]
    BY <1>3, <1>5, <2>1 DEF Scripts
  <2> QED
    BY <2>2 DEF WellFormed, Cmd
<1>7. WellFormed /\ encountered = {} =>
         \A j \in v + 1 .. k : is_real_fake_packet(Cmd(c, j)) =>
            Cmd(c, j).out_port = DROP \/ j = k
  BY <1>0, <1>1 DEF BehindInv, Behind
<1>8. own.out_port = DROP \/ own.out_port # DROP
  OBVIOUS
<1> HIDE DEF i, k, v, own
\* What either way leaves behind.
<1>9. /\ lcdata' \in [Lcores -> LcoreData]
      /\ \A d \in Lcores : /\ lcdata'[d].idx = lcdata[d].idx
                           /\ d # c => lcdata'[d].verify_idx = lcdata[d].verify_idx
      /\ lcdata'[c].idx = k /\ lcdata'[c].verify_idx \in v .. k
      /\ encountered \subseteq encountered' /\ encountered' \subseteq {"error", "drops", "unset"}
      /\ WellFormed /\ ~Right(own, a) => encountered' # {}
      /\ WellFormed /\ encountered' = {} =>
            \A j \in lcdata'[c].verify_idx + 1 .. k :
               is_real_fake_packet(Cmd(c, j)) => Cmd(c, j).out_port = DROP
  <2>1. CASE is_packet_dropped(a)
    <3>1. /\ encountered' = IF own.out_port = DROP THEN encountered
                            ELSE encountered \cup {"drops"}
          /\ lcdata' = lcdata
      BY <1>2, <2>1 DEF free_packet, own, k
    <3>2. ~Right(own, a) => own.out_port # DROP
      BY <2>1 DEF Right
    <3>3. encountered' = {} => encountered = {} /\ own.out_port = DROP
      BY <3>1
    <3>4. WellFormed /\ encountered' = {} =>
            \A j \in v + 1 .. k : is_real_fake_packet(Cmd(c, j)) => Cmd(c, j).out_port = DROP
      BY <1>7, <3>3 DEF own
    <3>5. v \in v .. k
      BY <1>5
    <3> QED
      BY <1>0, <3>1, <3>2, <3>3, <3>4, <3>5 DEF TypeInv, LcoreData, v, k
  <2>2. CASE ~is_packet_dropped(a)
    <3> DEFINE port == check_egress_port(Cmd(c, i), a)
    <3>1. PICK same \in SameBytes(Cmd(c, i), a) :
            /\ encountered' = encountered \cup port \cup (IF same THEN {} ELSE {"error"})
            /\ lcdata' = [lcdata EXCEPT ![c].verify_idx = i,
                                        ![c].is_valid = @ /\ same /\ ("error" \notin port)]
      BY <1>2, <2>2 DEF check_sent_packet, i
    <3>2. port \subseteq {"error", "unset"}
      BY DEF check_egress_port
    <3>3. /\ Cmd(c, i).out_port = DROP => port # {}
          /\ ~Right(Cmd(c, i), a) /\ is_valid_fake_packet(Cmd(c, i).text) =>
                port # {} \/ same = FALSE
      BY <2>2, FlagsOfCheck
    <3>4. same \in BOOLEAN
      BY DEF SameBytes
    <3> HIDE DEF port
    <3>5. /\ encountered \subseteq encountered'
          /\ encountered' \subseteq {"error", "drops", "unset"}
          /\ encountered' = {} => encountered = {} /\ port = {} /\ same = TRUE
      BY <1>0, <3>1, <3>2, <3>4 DEF TypeInv, LcoreData
    <3>6. /\ lcdata' \in [Lcores -> LcoreData]
          /\ \A d \in Lcores : /\ lcdata'[d].idx = lcdata[d].idx
                               /\ d # c => lcdata'[d].verify_idx = lcdata[d].verify_idx
          /\ lcdata'[c].verify_idx = i
      <4>1. i \in Int
        BY <1>4
      <4> DEFINE b == lcdata[c].is_valid /\ same /\ ("error" \notin port)
      <4>2. lcdata' = [lcdata EXCEPT ![c].verify_idx = i, ![c].is_valid = b]
        BY <1>0, <3>1 DEF TypeInv, LcoreData
      <4>3. b \in BOOLEAN
        OBVIOUS
      <4> HIDE DEF b
      <4> QED
        BY <1>0, <4>1, <4>2, <4>3 DEF TypeInv, LcoreData
    <3>7. i \in v .. k /\ (i = k \/ i \in v + 1 .. k - 1)
      BY <1>4, <1>5
    <3>8. ASSUME WellFormed, encountered' = {} PROVE i = k /\ Right(own, a)
      <4>1. i # k => Cmd(c, i).out_port = DROP
        BY <1>4, <1>7, <3>5, <3>8
      <4>2. i = k
        BY <3>3, <3>5, <3>8, <4>1
      <4> QED
        BY <1>6, <3>3, <3>5, <3>8, <4>2 DEF own
    <3>9. \A j \in k + 1 .. k : FALSE
      BY <1>5
    <3>10. lcdata'[c].idx = k
      <4>1. \A d \in Lcores : lcdata'[d].idx = lcdata[d].idx
        BY <3>6
      <4> QED
        BY <4>1 DEF k
    <3> QED
      BY <3>5, <3>6, <3>7, <3>8, <3>9, <3>10
  <2> QED
    BY <2>1, <2>2
<1>10. /\ pc' \in [Lcores -> {"off", "working", "pre_rx", "rx", "tx"}]
       /\ pc'[c] = "working" /\ \A d \in Lcores : d # c => pc'[d] = pc[d]
  BY <1>0, <1>1 DEF TypeInv, LcoreData
<1>11. wrong' \in BOOLEAN
  BY <1>2
<1>12. SuiteInv' /\ TypeInv'
  BY <1>0, <1>1, <1>9, <1>10, <1>11 DEF SuiteInv, TypeInv, LcoreData
<1>13. At(c)'
  <2>1. lcdata'[c].verify_idx \in -1 .. k
    BY <1>5, <1>9
  <2> QED
    BY <1>1, <1>3, <1>5, <1>9, <1>10, <2>1 DEF At, Cmd
<1>14. ASSUME WellFormed, encountered' = {} PROVE Behind(c)'
  BY <1>1, <1>9, <1>14 DEF Behind, Cmd
<1>15. \A d \in Lcores : pc'[d] # "off" =>
          pc[d] # "off" /\ At(d)' /\ (WellFormed /\ encountered' = {} => Behind(d)')
  <2>1. WellFormed /\ encountered' = {} => encountered = {}
    BY <1>9
  <2> SUFFICES ASSUME NEW d \in Lcores, d # c, pc'[d] # "off"
               PROVE  /\ pc[d] # "off" /\ At(d)'
                      /\ WellFormed /\ encountered' = {} => Behind(d)'
    BY <1>1, <1>13, <1>14
  <2>2. pc[d] # "off" /\ pc'[d] = pc[d] /\ At(d)
    BY <1>0, <1>10 DEF RunningInv
  <2>3. Len(steps[case][d]) \in Nat
    BY <1>0, <2>2, ScriptOfCase
  <2>4. \A j \in 0 .. Len(steps[case][d]) - 1 : steps'[case][d][j + 1] = Cmd(d, j)
    BY <1>1 DEF Cmd
  <2>5. At(d)' /\ (Behind(d) => Behind(d)')
    <3>1. /\ lcdata'[d].idx = lcdata[d].idx /\ lcdata'[d].verify_idx = lcdata[d].verify_idx
          /\ UNCHANGED <<cmd, stage, case, verdict>> /\ rnd_ports' = rnd_ports
      BY <1>1, <1>9
    <3>2. Len(steps'[case][d]) = Len(steps[case][d])
      BY <1>1
    <3> QED
      BY <2>2, <2>3, <2>4, <3>1, <3>2, Untouched
  <2> QED
    BY <1>0, <2>1, <2>2, <2>5 DEF BehindInv
<1>16. WellFormed' <=> WellFormed
  BY <1>1 DEF WellFormed, Scripts
<1>17. RunningInv' /\ BehindInv'
  BY <1>15, <1>16 DEF RunningInv, BehindInv
<1>18. VerdictInv'
  <2>1. verdict' = None
    BY <1>1, <1>3 DEF At
  <2>2. WellFormed /\ wrong' => encountered' # {}
    BY <1>0, <1>2, <1>9 DEF VerdictInv
  <2> QED
    BY <1>16, <2>1, <2>2 DEF VerdictInv
<1> QED
  BY <1>12, <1>17, <1>18 DEF HInv
-----------------------------------------------------------------------------
\* The invariant holds before the switch is started.
LEMMA HarnessInit == Init => HInv
<1> SUFFICES ASSUME Init PROVE HInv
  OBVIOUS
<1>1. /\ cmd \in Commands /\ case = 0 /\ pc = [l \in Lcores |-> "off"]
      /\ lcdata = [l \in Lcores |-> init_lcore_data]
      /\ encountered = {} /\ verdict = None /\ wrong = FALSE
      /\ steps \in IF cmd.binary = "test" THEN Suites ELSE {<< >>}
  BY DEF Init, StartupInit
<1>2. SuiteInv
  <2>1. CASE cmd.binary = "test"
    BY <1>1, <2>1, HarnessAssumption DEF SuiteInv
  <2>2. CASE cmd.binary # "test"
    <3>1. << >> \in Seq([{} -> Script]) /\ {} \in SUBSET Lcores
      OBVIOUS
    <3> QED
      BY <1>1, <2>2, <3>1 DEF SuiteInv
  <2> QED
    BY <2>1, <2>2
<1>3. TypeInv
  <2>1. Len(steps) \in Nat
    BY <1>2 DEF SuiteInv
  <2>2. init_lcore_data \in LcoreData
    BY DEF init_lcore_data, LcoreData
  <2>3. /\ pc \in [Lcores -> {"off", "working", "pre_rx", "rx", "tx"}]
        /\ lcdata \in [Lcores -> LcoreData]
    BY <1>1, <2>2
  <2>4. case \in 0 .. Len(steps)
    BY <1>1, <2>1
  <2> QED
    BY <1>1, <2>3, <2>4 DEF TypeInv, LcoreData
<1>4. RunningInv /\ BehindInv /\ VerdictInv
  BY <1>1 DEF RunningInv, BehindInv, VerdictInv
<1> QED
  BY <1>2, <1>3, <1>4 DEF HInv

\* Every lcore is within its script and, as long as no error was met, behind in its
\* verification only by packets that were rightly dropped.
THEOREM HarnessInductive == Spec => []HInv
<1>1. HInv /\ [Next]_vars => HInv'
  <2> SUFFICES ASSUME HInv, [Next]_vars PROVE HInv'
    OBVIOUS
  <2>1. ASSUME NEW c \in Lcores, Lcore(c) PROVE HInv'
    BY <2>1, WorkingStep, PreRxStep, ReceiveStep, TxStep DEF Lcore
  <2>2. CASE UNCHANGED vars
    <3>1. UNCHANGED <<cmd, stage, steps, case, pc, lcdata, rnd_ports, encountered,
                      verdict, wrong>>
      BY <2>2 DEF vars, startup, harness
    <3>2. WellFormed' <=> WellFormed
      BY <3>1 DEF WellFormed, Scripts
    <3>3. SuiteInv' /\ TypeInv' /\ VerdictInv'
      BY <3>1, <3>2 DEF HInv, SuiteInv, TypeInv, LcoreData, VerdictInv
    <3>4. RunningInv' /\ BehindInv'
      BY <3>1, <3>2 DEF HInv, RunningInv, BehindInv, At, Behind, Cmd
    <3> QED
      BY <3>3, <3>4 DEF HInv
  <2> QED
    BY <2>1, <2>2, StartingStep, LaunchStep, ExitStep DEF Next, main
<1> QED
  BY <1>1, HarnessInit, PTL DEF Spec

\* If the test binary exits with OK, the switch answered every step of every lcore in
\* every case as the script says: for every suite, every number of lcores, and every
\* way the lcores interleave and share the random ports.
THEOREM OkIsTrue == Spec => []OkMeansMatched
<1>1. HInv => OkMeansMatched
  <2> SUFFICES ASSUME HInv, verdict = "OK", WellFormed PROVE ~wrong
    BY DEF OkMeansMatched
  <2>1. verdict # None
    BY HarnessAssumption
  <2> QED
    BY <2>1 DEF HInv, VerdictInv
<1> QED
  BY HarnessInductive, <1>1, PTL
=============================================================================
