------------------------------- MODULE Startup -------------------------------
(* The start of the switch process: main hands its command line to           *)
(* initialize_args, then initialize_nic gives every lcore its receive queues *)
(* and its transmit queue on every port (dpdk_lib_parse_args.c and           *)
(* dpdk_lib_init_hw.c).  The process ends at the first error.                *)
(*                                                                           *)
(* A command line is a record: the enabled lcores; the -p options, each the  *)
(* set of its bits, {} when it is zero or not a number; the parenthesised    *)
(* groups of --config; --no-numa.  It also says which binary is started      *)
(* ("test" links dpdk_nicoff.c) and how many ports the machine has.          *)
EXTENDS Integers, FiniteSets, Sequences, SequencesExt

CONSTANTS
  Commands,                 \* the command lines
  Socket,                   \* rte_lcore_to_socket_id
  NB_SOCKETS,
  MAX_LCORE_PARAMS,
  MAX_RX_QUEUE_PER_PORT,
  MAX_RX_QUEUE_PER_LCORE,
  MAX_TX_QUEUE_PER_PORT

ASSUME StartupAssumption ==
  /\ \A c \in Commands :
       /\ c.cores # {} /\ c.cores \subseteq DOMAIN Socket /\ Cardinality(c.masks) <= 1
       /\ c.ports \in Nat /\ c.binary \in {"std", "test"} /\ c.node \in BOOLEAN
  /\ IsFiniteSet(DOMAIN Socket) /\ DOMAIN Socket \subseteq Nat
  /\ Socket \in [DOMAIN Socket -> Nat] /\ MAX_RX_QUEUE_PER_LCORE \in Nat

VARIABLES
  cmd,      \* argc and argv
  stage,    \* how far main is
  params,   \* lcore_params
  enabled,  \* enabled_port_mask, as a set
  pools,    \* the sockets with a pktmbuf_pool
  rx,       \* hw.rx_queue_list of every lcore
  tx,       \* hw.tx_queue_id of every lcore and port
  txqueues  \* the transmit queues that were set up

startup == <<cmd, stage, params, enabled, pools, rx, tx, txqueues>>

Lcores == DOMAIN Socket
Ports  == 0 .. cmd.ports - 1
Bits   == 0 .. 31

(* Both errors return -1, which has every bit set and is not 0.              *)
parse_portmask(bits) == IF bits = {} THEN Bits ELSE bits

(* Three fields or more; what follows the third is not looked at.            *)
ParamsParse(config) ==
  /\ Len(config) <= MAX_LCORE_PARAMS
  /\ \A i \in DOMAIN config :
       Len(config[i]) >= 3 /\ \A f \in 1 .. 3 : config[i][f] \in 0 .. 255

parse_lcore_params(config) ==
  [i \in DOMAIN config |-> [port |-> config[i][1], queue |-> config[i][2], lcore |-> config[i][3]]]

check_lcore_params ==
  \A i \in DOMAIN params' :
    params'[i].queue < MAX_RX_QUEUE_PER_PORT /\ params'[i].lcore \in cmd.cores

(* parse_args: without -p no port is enabled.                                *)
initialize_args ==
  /\ stage = "args"
  /\ enabled' = UNION {parse_portmask(bits) : bits \in cmd.masks}
  /\ params' = IF ParamsParse(cmd.config) THEN parse_lcore_params(cmd.config) ELSE << >>
  /\ stage' = IF ParamsParse(cmd.config) /\ check_lcore_params THEN "nic" ELSE "exit"
  /\ UNCHANGED <<cmd, pools, rx, tx, txqueues>>

-------------------------------------------------------------------------------
get_socketid(l) == IF cmd.numa THEN Socket[l] ELSE 0

init_lcore_rx_queues(l) ==
  LET Mine(p) == p.lcore = l
      mine == SelectSeq(params, Mine)
  IN [i \in DOMAIN mine |-> [port |-> mine[i].port, queue |-> mine[i].queue]]

check_port_config == \A i \in DOMAIN params : params[i].port \in Ports \cap enabled

(* The crypto node gets no queue: it is the last lcore if they are numbered  *)
(* without a gap.                                                            *)
nb_lcores == Cardinality(cmd.cores) - IF cmd.node THEN 1 ELSE 0

n_tx_queue == IF nb_lcores < MAX_TX_QUEUE_PER_PORT THEN nb_lcores ELSE MAX_TX_QUEUE_PER_PORT

(* The loop of dpdk_init_port counts lcores, init_tx_on_lcore skips those    *)
(* that are not enabled.                                                     *)
TxLcores == {l \in cmd.cores : l < nb_lcores}

(* mutant: the queue number is not counted up                                *)
QueueZero(l) == 0

queueid(l) == Cardinality({k \in TxLcores : k < l})

init_tx_on_lcore(l, p) ==
  IF l \in TxLcores /\ p \in Ports \cap enabled THEN queueid(l) ELSE 0

dpdk_init_port(p) == {<<p, queueid(l)>> : l \in TxLcores}

(* What rte_exit is called for; the device refuses a queue that              *)
(* rte_eth_dev_configure was not told of.                                    *)
NicReady ==
  /\ \A l \in cmd.cores : Len(rx'[l]) <= MAX_RX_QUEUE_PER_LCORE
  /\ check_port_config
  /\ \A l \in cmd.cores : get_socketid(l) < NB_SOCKETS
  /\ Ports \cap enabled # {} => \A l \in TxLcores : queueid(l) < n_tx_queue

dpdk_init_nic ==
  /\ stage = "nic"
  /\ rx' = [l \in Lcores |-> init_lcore_rx_queues(l)]
  /\ pools' = {get_socketid(l) : l \in cmd.cores}
  /\ tx' = [l \in Lcores |-> [p \in Ports |-> init_tx_on_lcore(l, p)]]
  /\ txqueues' = UNION {dpdk_init_port(p) : p \in Ports \cap enabled}
  /\ stage' = IF NicReady THEN "run" ELSE "exit"
  /\ UNCHANGED <<cmd, params, enabled>>

(* rte_eal_init, rte_mempool_create or a call to a device fails.             *)
DpdkFails ==
  /\ stage \in {"args", "nic"} /\ stage' = "exit"
  /\ UNCHANGED <<cmd, params, enabled, pools, rx, tx, txqueues>>

StartupInit ==
  /\ cmd \in Commands /\ stage = "args"
  /\ params = << >> /\ enabled = {} /\ pools = {} /\ txqueues = {}
  /\ rx = [l \in Lcores |-> << >>] /\ tx = [l \in Lcores |-> [p \in Ports |-> 0]]

StartupNext == initialize_args \/ dpdk_init_nic \/ DpdkFails

-------------------------------------------------------------------------------
crypto_node_id == Cardinality(cmd.cores) - 1
is_crypto_node(l) == cmd.node /\ l = crypto_node_id

(* initial_check: an lcore without a receive queue has nothing to do.        *)
Forwards(l) == l \in cmd.cores /\ rx[l] # << >> /\ ~is_crypto_node(l)

Numbered == cmd.cores = 0 .. Cardinality(cmd.cores) - 1

(* If the enabled lcores are numbered without a gap, no two lcores that      *)
(* forward packets share a transmit queue of a port, every such queue was    *)
(* set up, and their buffer pools exist (dpdk_init_port and                  *)
(* init_tx_on_lcore count lcores where main counts enabled ones).            *)
OwnTxQueue ==
  stage = "run" /\ Numbered =>
    \A l, k \in Lcores : \A p \in Ports \cap enabled :
      Forwards(l) /\ Forwards(k) =>
        /\ get_socketid(l) \in pools
        /\ <<p, tx[l][p]>> \in txqueues
        /\ l # k => tx[l][p] # tx[k][p]
===============================================================================
