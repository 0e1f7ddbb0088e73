------------------------------ MODULE PacketPath ------------------------------
(* The main loop of one lcore that forwards packets: receive, handle, send   *)
(* (main.c with dpdk_nicon.c), and the packets whose handler is suspended    *)
(* while a crypto operation is under way (main_async.c and the externs of    *)
(* dpdkx_crypto*.c).                                                         *)
(*                                                                           *)
(* The program a packet runs is external (P4): which crypto operations it    *)
(* calls, and whether it leaves on the port it came from, is dropped or is   *)
(* broadcast.  The NIC, the crypto device, the crypto node and the clock are *)
(* the environment.                                                          *)
EXTENDS CryptoTask, Sequences, FiniteSets, SequencesExt

CONSTANTS
  Mbufs,               \* the packet buffers of pktmbuf_pool, numbered
  Ports,               \* the ports
  rx_queue_list,       \* the ports whose receive queue this lcore polls, in order
  Programs,            \* [calls, dest, early, ipsec] records, see MCPacketPath
  Lengths,             \* the lengths of received packets
  MAX_PKT_BURST,
  CRYPTO_BURST_SIZE,
  Contexts,            \* context_pool, or pd_pool
  ASYNC_QUEUE_SIZE,    \* what async_queue can hold
  EVERY_N,             \* DEBUG__CRYPTO_EVERY_N; 1 stands for "not defined"
  Modes,               \* the values of ASYNC_MODE
  None

ASSUME PathAssumption ==
  /\ MAX_PKT_BURST \in Nat \ {0} /\ CRYPTO_BURST_SIZE \in Nat \ {0}
  /\ EVERY_N \in Nat \ {0} /\ Lengths \subseteq Nat
  /\ Mbufs \subseteq Nat /\ IsFiniteSet(Mbufs)
  /\ Ports \subseteq Nat /\ IsFiniteSet(Ports) /\ 0 \in Ports
  /\ rx_queue_list \in Seq(Ports)
  /\ IsFiniteSet(Contexts)
  /\ ASYNC_QUEUE_SIZE \in Nat /\ ASYNC_QUEUE_SIZE >= Cardinality(Contexts)
  /\ Modes \subseteq {"off", "context", "pd", "skip"}

(* A tunnel calls the two operations of ipsec_encapsulate.                   *)
IpsecCalls == <<[type |-> "ENCRYPT", offset |-> ETH + IP + ESPHEAD, phase |-> 0, sync |-> FALSE],
                [type |-> "MD5_HMAC", offset |-> ETH + IP, phase |-> 1, sync |-> FALSE]>>
(* A call is synchronous (md5_hmac, encrypt, decrypt), or one of the          *)
(* asynchronous externs, which belongs to a phase.                           *)
Calls == [type : {"ENCRYPT", "DECRYPT", "MD5_HMAC"}, offset : Nat, phase : Nat, sync : BOOLEAN]
Descriptors == [mbuf : Mbufs, ctx : Contexts, phase : Nat, k : Nat, sync : BOOLEAN]

ASSUME ProgramsAssumption ==
  \A prog \in Programs :
    /\ prog \in [calls : Seq(Calls), dest : {"same", "drop", "broadcast"},
                 early : BOOLEAN, ipsec : BOOLEAN]
    /\ prog.ipsec => prog.calls = IpsecCalls

ASSUME NoneAssumption == None \notin Nat \cup Contexts \cup Descriptors \cup Programs

VARIABLES
  mode,     \* ASYNC_MODE of the build
  node,     \* START_CRYPTO_NODE of the build
  pc,       \* where the lcore is in its main loop
  queue,    \* queue_idx of do_rx: the ports still to be polled
  burst,    \* pkts_burst from pkt_burst_iter on
  pd,       \* the descriptor: mbuf, context or store, phase, next call, ...
  meta,     \* all_metadatas, one buffer per lcore: ingress and egress port
  caller,   \* which loop runs the handler: the main loop or the async loop
  after,    \* where main_loop_async returns to
  free,     \* pktmbuf_pool: the free buffers
  lost,     \* buffers nobody will ever free
  txq,      \* tx_mbufs of every port
  every,    \* crypto_every_n_counter
  pool,     \* free contexts, or free descriptor stores
  freeRing, \* context_free_command_ring
  store,    \* what a suspended handler left in its context or store
  asyncq,   \* async_queue: buffers of the crypto tasks
  dev,      \* buffers of the operations in the device, in order
  ready,    \* how many of them are done
  pending,  \* pending_crypto
  finished, \* dequeued_rte_crypto_ops still to be resumed
  taken,    \* n of dequeue_finished_async_operations
  packet    \* what the NIC wrote in a buffer, and what was done to it

loop  == <<mode, node, every>>
nic   == <<free, lost, txq>>
tasks == <<asyncq, dev, ready, pending, finished, taken>>
ctxs  == <<pool, freeRing, store>>
vars  == <<loop, pc, queue, burst, pd, meta, caller, after, nic, ctxs, tasks, packet>>

(* What is in pd while no handler runs, and in a buffer that was given away,  *)
(* is never read: both are blank then.                                       *)
Least(S, n) == {m \in S : Cardinality({k \in S : k < m}) < n}

NoPd == [mbuf |-> None, ctx |-> None, phase |-> 0, k |-> 1, sync |-> FALSE]
NoPacket == [prog |-> None, from |-> None, received |-> 0, len |-> 0, ptrs |-> << >>,
             done |-> << >>]

init_lcore_data ==
  /\ burst = << >> /\ txq = [p \in Ports |-> << >>] /\ free = Mbufs /\ lost = {}

init_async_data ==
  /\ every = IF mode = "off" THEN 0 ELSE EVERY_N - 1   \* -1, before it wraps
  /\ asyncq = << >> /\ dev = << >> /\ ready = 0 /\ pending = 0
  /\ finished = << >> /\ taken = 0

async_init_storage ==
  /\ pool = Contexts /\ freeRing = << >> /\ store = [c \in Contexts |-> None]

Init ==
  /\ mode \in Modes
  /\ node \in IF mode \in {"context", "pd"} THEN BOOLEAN ELSE {FALSE}
  /\ pc = "pre_rx" /\ queue = << >> /\ caller = "main" /\ after = "pre_rx"
  /\ pd = NoPd /\ meta = [in |-> 0, out |-> 0]
  /\ packet = [m \in Mbufs |-> NoPacket]
  /\ init_lcore_data /\ init_async_data /\ async_init_storage

-------------------------------------------------------------------------------
(* Sending: the NIC takes a prefix of a burst, send_burst frees the rest.    *)

Sent(q, taking) == ToSet(SubSeq(q, 1, taking))
Freed(q, taking) == ToSet(SubSeq(q, taking + 1, Len(q)))

(* mutant: the loop that frees the rest ends one too early                   *)
ForgetsTheLast(q, taking) == Sent(q, taking) \cup ToSet(SubSeq(q, taking + 1, Len(q) - 1))

(* A buffer the NIC has transmitted returns to the pool as well.             *)
send_burst(q, taking) == Sent(q, taking) \cup Freed(q, taking)

(* mutant: the loop over the ports ends after the first                      *)
DrainsFirstPort ==
  /\ pc = "pre_rx" /\ pc' = "rx_group" /\ queue' = rx_queue_list
  /\ txq' = [txq EXCEPT ![0] = << >>] /\ free' = free \cup ToSet(txq[0])
  /\ UNCHANGED <<loop, burst, pd, meta, caller, after, lost, ctxs, tasks, packet>>

(* tx_burst_queue_drain, when more than drain_tsc has passed.                *)
tx_burst_queue_drain ==
  /\ pc = "pre_rx" /\ pc' = "rx_group" /\ queue' = rx_queue_list
  /\ \E taking \in [Ports -> 0 .. MAX_PKT_BURST - 1] :
       /\ \A p \in Ports : taking[p] <= Len(txq[p])
       /\ free' = free \cup UNION {send_burst(txq[p], taking[p]) : p \in Ports}
  /\ txq' = [p \in Ports |-> << >>]
  /\ UNCHANGED <<loop, burst, pd, meta, caller, after, lost, ctxs, tasks, packet>>

(* The same call before the time is over.                                    *)
drain_not_due ==
  /\ pc = "pre_rx" /\ pc' = "rx_group" /\ queue' = rx_queue_list
  /\ UNCHANGED <<loop, burst, pd, meta, caller, after, nic, ctxs, tasks, packet>>

(* main_loop_rx_group: the NIC hands over at most MAX_PKT_BURST packets.     *)
main_loop_rx_group ==
  /\ pc = "rx_group" /\ queue # << >>
  /\ \E n \in 0 .. MAX_PKT_BURST, len \in Lengths :
       /\ n <= Cardinality(free)
       /\ burst' = SetToSeq(Least(free, n))
       /\ free' = free \ Least(free, n)
       /\ packet' = [m \in Mbufs |-> IF m \in Least(free, n)
                                     THEN [NoPacket EXCEPT !.from = Head(queue), !.received = len, !.len = len]
                                     ELSE packet[m]]
  /\ pc' = "single_rx"
  /\ UNCHANGED <<loop, queue, pd, meta, caller, after, lost, txq, ctxs, tasks>>

(* do_rx goes on to the next queue when the burst is done ...                *)
NextGroup ==
  /\ pc = "single_rx" /\ burst = << >>
  /\ queue' = Tail(queue) /\ pc' = "rx_group"
  /\ UNCHANGED <<loop, burst, pd, meta, caller, after, nic, ctxs, tasks, packet>>

(* ... and after the last one the async part of the loop runs once more.     *)
PostRx ==
  /\ pc = "rx_group" /\ queue = << >>
  /\ pc' = IF mode = "off" THEN "pre_rx" ELSE "async"
  /\ after' = "pre_rx"
  /\ UNCHANGED <<loop, queue, burst, pd, meta, caller, nic, ctxs, tasks, packet>>

-------------------------------------------------------------------------------
(* Receiving one packet and starting its handler.                            *)

increase_with_rotation(v) == IF v >= EVERY_N - 1 THEN (v + 1) % EVERY_N ELSE v + 1

(* mutant: handle_packet does not set the ingress port                       *)
KeepsIngress(m, prog, from) ==
  [in |-> meta.in, out |-> IF prog.early /\ prog.dest = "same" THEN from ELSE 0]

(* handle_packet clears the metadata and sets the ingress port; a program    *)
(* may choose the egress port before its crypto calls.                       *)
HandleStarts(m, prog, from) ==
  [in |-> from, out |-> IF prog.early /\ prog.dest = "same" THEN from ELSE 0]

Opened(prog, len) == IF prog.ipsec THEN IpsecOpened(len) ELSE len

AnyContext == CHOOSE c \in pool : TRUE   \* which one makes no difference

(* do_single_rx and async_handle_packet for the next packet of the burst:    *)
(* `need' is PACKET_REQUIRES_CRYPTO.                                         *)
Receives(need, ctx, prog) ==
  LET m == Head(burst) IN
  /\ pd' = [mbuf |-> m, ctx |-> ctx, phase |-> 0, k |-> 1, sync |-> need]
  /\ meta' = HandleStarts(m, prog, Head(queue))
  /\ packet' = [packet EXCEPT ![m].prog = prog, ![m].len = Opened(prog, @)]
  /\ pc' = "handle"
  /\ UNCHANGED lost

do_single_rx ==
  /\ pc = "single_rx" /\ burst # << >>
  /\ every' = increase_with_rotation(every)
  /\ \E prog \in Programs :
       LET need == every' = 0 IN
       \/ /\ mode = "off" \/ ~need
          /\ Receives(need, None, prog) /\ UNCHANGED pool
       \/ /\ mode \in {"context", "pd"} /\ need /\ pool # {}
          /\ Receives(need, AnyContext, prog) /\ pool' = pool \ {AnyContext}
  /\ burst' = Tail(burst) /\ caller' = "main" /\ after' = "single_rx"
  /\ UNCHANGED <<mode, node, queue, free, txq, freeRing, store, tasks>>

(* async_handle_packet_inner without a free context marks the packet to be   *)
(* dropped, but nothing looks at the mark; with ASYNC_MODE_SKIP it does       *)
(* nothing at all.  Either way the buffer is not freed.                      *)
async_handle_packet_drops ==
  /\ pc = "single_rx" /\ burst # << >>
  /\ every' = increase_with_rotation(every) /\ every' = 0
  /\ mode = "skip" \/ (mode \in {"context", "pd"} /\ pool = {})
  /\ pd' = NoPd /\ packet' = [packet EXCEPT ![Head(burst)] = NoPacket]
  /\ lost' = lost \cup {Head(burst)}
  /\ burst' = Tail(burst) /\ pc' = "async" /\ after' = "single_rx"
  /\ UNCHANGED <<mode, node, queue, meta, caller, free, txq, ctxs, tasks>>

-------------------------------------------------------------------------------
(* The handler of the packet in pd.                                          *)

Me == packet[pd.mbuf]
AtCall == pc = "handle" /\ pd.k <= Len(Me.prog.calls)
Call == Me.prog.calls[pd.k]

Return == IF caller = "async" THEN "resume"
          ELSE IF mode = "off" THEN "single_rx" ELSE "async"

(* The externs md5_hmac, encrypt and decrypt are synchronous in every build,  *)
(* the others where ASYNC_MODE is off (and the packet is to have crypto).    *)
IsSync == Call.sync \/ (mode = "off" /\ pd.sync)

(* A build with contexts or stores is not made for a synchronous call.       *)
(* create_crypto_task then reads pd_store->wrapper: the pointer is null      *)
(* without a store and was never set in a context, and a store still holds   *)
(* what its last user left.  The blocking dequeue takes the oldest operation *)
(* of the device, whosever it is; and in the async loop it overwrites the    *)
(* first operation of that loop, and is given back twice.                    *)
MayStray == mode \in {"context", "pd"}
OnItsOwnPacket == MayStray => /\ caller = "main" /\ dev = << >>
                              /\ mode = "pd" => pd.ctx # None

(* do_sync_crypto_operation, execute_task_blocking: the device may refuse the *)
(* operation, but the packet is as long as after it.  With a store, the       *)
(* pointer to it is put in front, and nobody takes it off.                   *)
do_sync_crypto_operation ==
  /\ AtCall /\ IsSync /\ OnItsOwnPacket
  /\ packet' = IF mode = "pd"
               THEN [packet EXCEPT ![pd.mbuf].len = AsyncLength(Call.type, @, Call.offset),
                                   ![pd.mbuf].ptrs = <<pd.ctx>> \o @,
                                   ![pd.mbuf].done = Append(@, Call)]
               ELSE [packet EXCEPT ![pd.mbuf].len = SyncLength(Call.type, @, Call.offset),
                                   ![pd.mbuf].done = Append(@, Call)]
  /\ pd' = [pd EXCEPT !.k = @ + 1]
  /\ UNCHANGED <<loop, pc, queue, burst, meta, caller, after, nic, ctxs, tasks>>

(* The same call where it is ended by a null pointer, or works on a packet   *)
(* or an operation of others: what the lcore does then is not followed.      *)
SyncStrays ==
  /\ AtCall /\ IsSync /\ MayStray
  /\ pc' = "strayed"
  /\ UNCHANGED <<loop, queue, burst, pd, meta, caller, after, nic, ctxs, tasks, packet>>

Strayed == pc = "strayed" /\ UNCHANGED vars

(* do_async_crypto_operation that only counts the packet as forwarded.       *)
SkipsAsync(p) == \/ mode = "off" /\ ~p.sync
                 \/ mode = "skip"
                 \/ mode \in {"context", "pd"} /\ p.ctx = None

CallForwards ==
  /\ AtCall /\ ~Call.sync /\ SkipsAsync(pd)
  /\ pd' = [pd EXCEPT !.k = @ + 1]
  /\ UNCHANGED <<loop, pc, queue, burst, meta, caller, after, nic, ctxs, tasks, packet>>

(* mutant: the call of this phase is passed over as well                     *)
PassesOwnPhase ==
  /\ AtCall /\ mode = "pd" /\ pd.ctx # None /\ ~Call.sync /\ pd.phase <= Call.phase
  /\ pd' = [pd EXCEPT !.k = @ + 1]
  /\ UNCHANGED <<loop, pc, queue, burst, meta, caller, after, nic, ctxs, tasks, packet>>

(* A handler that was started again (ASYNC_MODE_PD) passes over the calls of *)
(* other phases.                                                             *)
CallOfOtherPhase ==
  /\ AtCall /\ mode = "pd" /\ pd.ctx # None /\ ~Call.sync /\ pd.phase # Call.phase
  /\ pd' = [pd EXCEPT !.k = @ + 1]
  /\ UNCHANGED <<loop, pc, queue, burst, meta, caller, after, nic, ctxs, tasks, packet>>

(* do_crypto_task: the descriptor is copied, the task queued with the        *)
(* context pointer in front of the packet, and the loop goes on: a context   *)
(* swaps back to where it was entered, a store jumps by its phase.           *)
jump_to_main_loop == IF pd.phase = 0 THEN "main" ELSE "async"

do_crypto_task ==
  /\ AtCall /\ pd.ctx # None /\ ~Call.sync
  /\ mode = "context" \/ (mode = "pd" /\ pd.phase = Call.phase)
  /\ store' = [store EXCEPT ![pd.ctx] = pd]
  /\ packet' = [packet EXCEPT ![pd.mbuf].len = AsyncLength(Call.type, @, Call.offset),
                              ![pd.mbuf].ptrs = <<pd.ctx>> \o @,
                              ![pd.mbuf].done = Append(@, Call)]
  /\ IF Len(asyncq) < ASYNC_QUEUE_SIZE
     THEN asyncq' = Append(asyncq, pd.mbuf) /\ UNCHANGED lost
     ELSE lost' = lost \cup {pd.mbuf} /\ UNCHANGED asyncq
  /\ pc' = IF (mode = "pd" /\ jump_to_main_loop = "async") \/ (mode = "context" /\ caller = "async")
           THEN "resume" ELSE "async"
  /\ pd' = NoPd
  /\ UNCHANGED <<loop, queue, burst, meta, caller, after, free, txq, pool, freeRing,
                 dev, ready, pending, finished, taken>>

-------------------------------------------------------------------------------
(* do_single_tx, at the end of the handler.                                  *)

Ended == pc = "handle" /\ pd.k > Len(Me.prog.calls)
(* The metadata of the lcore say where the packet goes.                      *)
get_egress_port == IF Me.prog.early THEN meta.out ELSE meta.in

(* main_loop_post_single_tx_async gives the store back, or leaves the        *)
(* context for free_finished_contexts.                                       *)
PostSingleTx ==
  /\ pool' = IF mode = "pd" /\ pd.ctx # None THEN pool \cup {pd.ctx} ELSE pool
  /\ freeRing' = IF mode = "context" /\ pd.ctx # None THEN Append(freeRing, pd.ctx)
                                                     ELSE freeRing
  /\ pd' = NoPd /\ packet' = [packet EXCEPT ![pd.mbuf] = NoPacket]
  /\ pc' = Return
  /\ UNCHANGED store

is_packet_dropped == Me.prog.dest = "drop"

free_packet ==
  /\ Ended /\ is_packet_dropped
  /\ free' = free \cup {pd.mbuf}
  /\ PostSingleTx
  /\ UNCHANGED <<loop, queue, burst, meta, caller, after, lost, txq, tasks>>

(* send_single_packet, dpdk_send_packet: the table of the port is sent when  *)
(* it is full.                                                               *)
dpdk_send_packet ==
  /\ Ended /\ Me.prog.dest = "same"
  /\ LET p == get_egress_port
         q == Append(txq[p], pd.mbuf)
     IN  IF Len(q) = MAX_PKT_BURST
         THEN /\ \E taking \in 0 .. MAX_PKT_BURST : free' = free \cup send_burst(q, taking)
              /\ txq' = [txq EXCEPT ![p] = << >>]
         ELSE txq' = [txq EXCEPT ![p] = q] /\ UNCHANGED free
  /\ PostSingleTx
  /\ UNCHANGED <<loop, queue, burst, meta, caller, after, lost, tasks>>

(* broadcast_packet sends one clone for every other port, each to the        *)
(* pseudo-port T4P4S_BROADCAST_PORT, which has no table and is never         *)
(* drained; the packet itself is neither sent nor freed.                     *)
broadcast_packet ==
  /\ Ended /\ Me.prog.dest = "broadcast"
  /\ LET clones == Least(free, Cardinality(Ports) - 1)
     IN  /\ free' = free \ clones
         /\ lost' = lost \cup clones \cup {pd.mbuf}
  /\ PostSingleTx
  /\ UNCHANGED <<loop, queue, burst, meta, caller, after, txq, tasks>>

-------------------------------------------------------------------------------
(* main_loop_async.                                                          *)

(* mutant: the tasks are not taken out of the queue                          *)
MovesAndKeeps ==
  LET n == IF Len(asyncq) >= CRYPTO_BURST_SIZE THEN CRYPTO_BURST_SIZE ELSE 0
  IN  dev' = dev \o SubSeq(asyncq, 1, n) /\ pending' = pending + n /\ UNCHANGED asyncq

(* mutant: > for >=                                                          *)
MovesOnlyMore ==
  LET n == IF Len(asyncq) > CRYPTO_BURST_SIZE THEN CRYPTO_BURST_SIZE ELSE 0
  IN  /\ dev' = dev \o SubSeq(asyncq, 1, n)
      /\ asyncq' = SubSeq(asyncq, n + 1, Len(asyncq))
      /\ pending' = pending + n

MoveOps ==   \* enqueue_async_operations: only a whole burst
  LET n == IF Len(asyncq) >= CRYPTO_BURST_SIZE THEN CRYPTO_BURST_SIZE ELSE 0
  IN  /\ dev' = dev \o SubSeq(asyncq, 1, n)
      /\ asyncq' = SubSeq(asyncq, n + 1, Len(asyncq))
      /\ pending' = pending + n

(* mutant: the contexts are not taken out of the ring                        *)
FreesAndKeeps ==
  LET n == IF mode = "context" /\ Len(freeRing) > CRYPTO_BURST_SIZE
           THEN CRYPTO_BURST_SIZE ELSE 0
  IN  pool' = pool \cup ToSet(SubSeq(freeRing, 1, n)) /\ UNCHANGED freeRing

FreeContexts ==   \* free_finished_contexts: more than a burst must be waiting
  LET n == IF mode = "context" /\ Len(freeRing) > CRYPTO_BURST_SIZE
           THEN CRYPTO_BURST_SIZE ELSE 0
  IN  /\ pool' = pool \cup ToSet(SubSeq(freeRing, 1, n))
      /\ freeRing' = SubSeq(freeRing, n + 1, Len(freeRing))

enqueue_async_operations ==
  /\ pc = "async" /\ pc' = "dequeue"
  /\ FreeContexts /\ MoveOps
  /\ UNCHANGED <<loop, queue, burst, pd, meta, caller, after, nic, store,
                 ready, finished, taken, packet>>

(* dequeue_finished_async_operations asks the device only when a whole burst *)
(* is pending, and takes what is done.                                       *)
dequeue_finished_async_operations ==
  /\ pc = "dequeue"
  /\ LET done == IF ready < CRYPTO_BURST_SIZE THEN ready ELSE CRYPTO_BURST_SIZE
         n    == IF pending >= CRYPTO_BURST_SIZE THEN done ELSE 0
     IN  /\ finished' = SubSeq(dev, 1, n) /\ taken' = n
         /\ dev' = SubSeq(dev, n + 1, Len(dev)) /\ ready' = ready - n
  /\ pc' = "resume" /\ caller' = "async"
  /\ UNCHANGED <<loop, queue, burst, pd, meta, after, nic, ctxs, asyncq, pending, packet>>

(* resume_packet_handling: the pointer in front of the packet says what to   *)
(* restore.  A context goes on behind its call; with a store the handler     *)
(* runs again from the start, in the next phase.                             *)
resume_packet_handling ==
  /\ pc = "resume" /\ finished # << >>
  /\ LET m == Head(finished)
         c == Head(packet[m].ptrs)
         saved == store[c]
     IN  /\ packet' = [packet EXCEPT ![m].len = ResumedLength(@), ![m].ptrs = Tail(@)]
         /\ store' = [store EXCEPT ![c] = None]
         /\ IF mode = "context"
            THEN pd' = [saved EXCEPT !.k = @ + 1] /\ UNCHANGED meta
            ELSE /\ pd' = [saved EXCEPT !.phase = @ + 1, !.k = 1]
                 /\ meta' = HandleStarts(saved.mbuf, packet[saved.mbuf].prog,
                                         packet[saved.mbuf].from)
  /\ finished' = Tail(finished) /\ pc' = "handle" /\ caller' = "async"
  /\ UNCHANGED <<loop, queue, burst, after, nic, pool, freeRing, asyncq, dev, ready,
                 pending, taken>>

AsyncDone ==
  /\ pc = "resume" /\ finished = << >>
  /\ pending' = pending - taken /\ taken' = 0
  /\ pc' = after
  /\ UNCHANGED <<loop, queue, burst, pd, meta, caller, after, nic, ctxs,
                 asyncq, dev, ready, finished, packet>>

-------------------------------------------------------------------------------
(* The environment: the crypto device finishes an operation, or the crypto   *)
(* node (main_loop_fake_crypto) finishes the burst it took.                  *)
DeviceFinishes ==
  /\ ~node /\ ready < Len(dev) /\ ready' = ready + 1
  /\ UNCHANGED <<loop, pc, queue, burst, pd, meta, caller, after, nic, ctxs,
                 asyncq, dev, pending, finished, taken, packet>>

main_loop_fake_crypto ==
  /\ node /\ ready < Len(dev)
  /\ ready' = IF Len(dev) < ready + CRYPTO_BURST_SIZE THEN Len(dev)
              ELSE ready + CRYPTO_BURST_SIZE
  /\ UNCHANGED <<loop, pc, queue, burst, pd, meta, caller, after, nic, ctxs,
                 asyncq, dev, pending, finished, taken, packet>>

handle_packet == \/ do_sync_crypto_operation \/ SyncStrays \/ CallForwards
                 \/ CallOfOtherPhase \/ do_crypto_task
do_single_tx == free_packet \/ dpdk_send_packet \/ broadcast_packet
do_rx == \/ main_loop_rx_group \/ NextGroup \/ PostRx \/ do_single_rx
         \/ async_handle_packet_drops
main_loop_async == \/ enqueue_async_operations \/ dequeue_finished_async_operations
                   \/ resume_packet_handling \/ AsyncDone

Lcore == \/ tx_burst_queue_drain \/ drain_not_due \/ do_rx \/ handle_packet
         \/ do_single_tx \/ main_loop_async
Device == DeviceFinishes \/ main_loop_fake_crypto
Next == Lcore \/ Device \/ Strayed

(* The lcore runs for ever, operations are finished, and a loop that is run  *)
(* again and again finds that BURST_TX_DRAIN_US are over.                    *)
Fairness == WF_vars(Lcore) /\ WF_vars(Device) /\ SF_vars(tx_burst_queue_drain)

Spec == Init /\ [][Next]_vars /\ Fairness

-------------------------------------------------------------------------------
Suspended == {c \in Contexts : store[c] # None}
InTxq == UNION {ToSet(txq[p]) : p \in Ports}

(* How many of the places S a thing is in.                                   *)
Places(x, S) == Cardinality({i \in DOMAIN S : x \in S[i]})

TypeOK ==
  /\ mode \in Modes /\ node \in BOOLEAN
  /\ pc \in {"pre_rx", "rx_group", "single_rx", "handle", "async", "dequeue", "resume", "strayed"}
  /\ caller \in {"main", "async"} /\ after \in {"pre_rx", "single_rx"}
  /\ pd.mbuf \in Mbufs \cup {None} /\ pd.ctx \in Contexts \cup {None}
  /\ free \subseteq Mbufs /\ lost \subseteq Mbufs /\ pool \subseteq Contexts
  /\ \A p \in Ports : Len(txq[p]) < MAX_PKT_BURST
  /\ every \in 0 .. EVERY_N - 1 /\ ready \in 0 .. Len(dev) /\ pending \in Nat

(* Every packet buffer is in exactly one place: in its pool, in the burst    *)
(* that was received, in the hands of the running handler, in a table of     *)
(* packets to be sent, on its way through the crypto device, or lost.        *)
(* Nothing is freed twice, and nothing is sent while the device works on it  *)
(* (send_burst, free_packet, enqueue_packet_for_async).  The types are part  *)
(* of it.                                                                    *)
MbufsAccounted ==
  TypeOK /\ \A m \in Mbufs :
    Places(m, <<free, ToSet(burst), {pd.mbuf : x \in {pc} \cap {"handle", "strayed"}}, InTxq,
                ToSet(asyncq), ToSet(dev), ToSet(finished), lost>>) = 1

(* Every context (or descriptor store) is free, waits in the ring of the     *)
(* contexts to be freed, belongs to a suspended packet, or to the running    *)
(* handler, and to one of them only: no two packets share a stack            *)
(* (async_handle_packet_inner, main_loop_post_single_tx_async,               *)
(* free_finished_contexts).                                                  *)
ContextsAccounted ==
  \A c \in Contexts :
    Places(c, <<pool, ToSet(freeRing), Suspended,
                {pd.ctx : x \in {pc} \cap {"handle", "strayed"}}>>) = 1

(* The long jump out of a handler that suspends goes to the loop that called *)
(* the handler, never to a frame that has returned (jump_to_main_loop).      *)
JumpsToItsCaller ==
  AtCall /\ mode = "pd" /\ pd.ctx # None /\ pd.phase = Call.phase
     => jump_to_main_loop = caller

(* A context is suspended exactly when one buffer in the crypto machinery    *)
(* carries its pointer, and that buffer is the one its descriptor holds: the *)
(* handler that is resumed goes on with its own packet, and it suspended     *)
(* into the loop that called it (create_crypto_task, jump_to_main_loop,      *)
(* resume_packet_handling).                                                  *)
ResumesItself ==
  LET inCrypto == ToSet(asyncq) \cup ToSet(dev) \cup ToSet(finished)
  IN  /\ \A m \in inCrypto : /\ packet[m].ptrs # << >>
                             /\ store[Head(packet[m].ptrs)] # None
                             /\ store[Head(packet[m].ptrs)].mbuf = m
      /\ Cardinality(Suspended) = Cardinality(inCrypto)
      /\ JumpsToItsCaller

(* The synchronous ones among the first i calls.                             *)
AtOnce(calls) ==
  LET a[i \in 0 .. Len(calls)] ==
        IF i = 0 THEN << >>
        ELSE IF calls[i].sync THEN Append(a[i - 1], calls[i]) ELSE a[i - 1]
  IN  a

(* The programs made for ASYNC_MODE_PD: their calls are asynchronous, one of  *)
(* phase 0, then one of phase 1, and so on; or they are all synchronous.     *)
InPhases(calls) ==
  \/ \A j \in DOMAIN calls : ~calls[j].sync /\ calls[j].phase = j - 1
  \/ \A j \in DOMAIN calls : calls[j].sync

(* When a handler ends, its packet has had every operation of its program    *)
(* once and in order, however often the handler was suspended; where         *)
(* asynchronous operations are only counted, every synchronous one.  With    *)
(* descriptor stores this is so for the programs that follow the phases, and *)
(* for no others: there do_async_crypto_operation passes over a call or      *)
(* changes their order, and the packet is sent all the same                  *)
(* (do_async_crypto_operation, do_crypto_task, resume_packet_handling).      *)
CryptoOnceInOrder ==
  Ended => IF SkipsAsync(pd) THEN Me.done = AtOnce(Me.prog.calls)[Len(Me.prog.calls)]
           ELSE IF mode = "pd" THEN Me.done = Me.prog.calls <=> InPhases(Me.prog.calls)
           ELSE Me.done = Me.prog.calls

(* How long a packet is after each of these operations, when they are done   *)
(* at once; a synchronous one leaves the pointer to its store.               *)
Left(call) == IF mode = "pd" /\ call.sync THEN PTR ELSE 0

SyncLengths(calls, received) ==
  LET l[i \in 0 .. Len(calls)] ==
        IF i = 0 THEN received
        ELSE SyncLength(calls[i].type, l[i - 1], calls[i].offset) + Left(calls[i])
  IN  l

(* However often its handler was suspended, a packet ends as long as if the  *)
(* operations it had had been done at once, and without a pointer in front;  *)
(* but with descriptor stores a synchronous operation leaves its pointer     *)
(* there, and the packet is sent with it.  In a tunnel it ends as long as    *)
(* its headers, what is encrypted and the digest (create_crypto_task,        *)
(* resume_packet_handling, ipsec_encapsulate).                               *)
LengthAsIfSync ==
  Ended =>
    /\ Me.len = SyncLengths(Me.done, Opened(Me.prog, Me.received))[Len(Me.done)]
    /\ Me.ptrs # << >> => mode = "pd" /\ \E i \in DOMAIN Me.done : Me.done[i].sync
    /\ Me.prog.ipsec /\ Me.done = IpsecCalls =>
         IpsecClosed(Me.len) = ETH + IP + ESPHEAD + ToEncrypt(Me.received) + KEPT

(* A packet that goes back to where it came from is sent there, unless the   *)
(* handler is resumed in a context: contexts share the metadata of the lcore *)
(* (get_egress_port, init_metadata_header, copy_packet_descriptor).          *)
SentWhereItCameFrom ==
  Ended /\ Me.prog.dest = "same" /\ mode # "context" => get_egress_port = Me.from

(* A packet in the table of a port does not stay there, as long as the lcore *)
(* runs (tx_burst_queue_drain, dpdk_send_packet).                            *)
QueuedPacketsAreSent ==
  \A m \in Mbufs : m \in InTxq ~> m \notin InTxq \/ pc = "strayed"

(* When a whole burst of operations is queued or under way, some suspended   *)
(* packet is resumed (enqueue_async_operations,                              *)
(* dequeue_finished_async_operations).                                       *)
BurstsResume ==
  (Len(asyncq) >= CRYPTO_BURST_SIZE \/ Len(dev) >= CRYPTO_BURST_SIZE)
     ~> finished # << >> \/ pc = "strayed"

===============================================================================
