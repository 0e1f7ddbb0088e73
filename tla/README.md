# A verification project for T4P4S

T4P4S compiles a P4 program into a software switch for DPDK. The compiler
(Python, `src/src/*.py` and the generators in `src/src/hardware_indep/`) writes C
that is linked with a hand-written runtime (`src/src/hardware_dep/`). The switch
connects to a separate controller process that fills its match-action tables
and receives digests from it.

What can go wrong in this program lies in the runtime: a control plane of
several threads in two processes that pass messages by reference, tables
that are changed without a lock while other cores read them, packets whose
handlers are suspended and resumed, and conversions of names, numbers and keys
that both processes and the generated code have to agree on. That is what this project models. Paths below are relative to the repository;
`ctrl_plane/` is `src/hardware_dep/shared/ctrl_plane/`, `data_plane/` is
`src/hardware_dep/dpdk/data_plane/`.

## 1. The system

| Component | State | Operations | Concurrency and failure |
|---|---|---|---|
| Message queue, `ctrl_plane/fifo.c` | ring of 1024 slots, `head`, `size`, `tail`, a lock and a condition variable | `fifo_add_msg`, `fifo_wait`, `fifo_remove_msg` | any producers and consumers; the wait tests its condition once; a full queue drops silently |
| Memory cells, `ctrl_plane_backend.c` | two lists linked through the cells | `touch_mem_cell`, `detouch_mem_cell` | called by every thread, under a lock; cells are unlinked out of order |
| Switch end of the connection, `ctrl_plane_backend.c`, `sock_helpers.c` | socket, two queues, cells, `ctrl_is_initialized`, `shutdown` | `launch_backend`, `stop_backend`, three thread loops, `create_digest`, `send_digest` | main thread, reader, handler, writer and the lcores; connection lost at any time |
| Thread pool, `ctrl_plane/threadpool.c` | linked list of jobs, `qsize`, a lock, a condition variable | `dispatch`, `do_work` | unlocks before it waits; an unlocked store to `qsize` |
| Replicated tables, `data_plane/dpdk_lib_change_tables.c`, `dpdk_lib_init_tables.c` | per socket and table `NB_REPLICA` copies and `active_replica`; per lcore a pointer | `*_promote`, `change_replica`, the lookup of a packet | no lock; a sleep of 200 microseconds stands for "all packets in progress are over"; `input_processor` and `main` may update at the same time |
| Start-up and reset of tables, `dpdk_lib_init_tables.c`, `hardware_indep/tables.c.py`, `main.c` | the same tables, constant entries, default actions | create, constant entries, default actions, flush on relaunch | runs on the main thread while the handler thread may be updating, if the controller sends `CTRL_INITIALIZED` before its entries |
| Lookup structures, `data_plane/dpdk_tables_*.c`, `shared/data_plane/ternary_naive.c` | a hash and an array of entries; LPM rules; an array of keys and masks | add, lookup, delete, flush | one writer per replica; `static` key buffers |
| Controller framework, `ctrl_plane/controller.c`, `dpdk_ctrl_common.c` | two queues, a thread pool, the sockets | accept, read, dispatch a message, `send_p4_msg` | one reader, two pool threads per connection |
| Controller applications, `ctrl_plane/dpdk_*_controller.c` | fixed arrays of table entries, learnt MAC addresses | initial fill, digest handler | runs on the controller's input thread |
| Messages, `ctrl_plane/messages.c`, `handlers.c` | a buffer with a header | create, check, convert, dispatch by type | partial or malformed messages |
| Application of messages, `hardware_indep/controlplane.c.py` | the tables | `recv_from_controller` and one function per table | on the handler thread |
| Packet main loop, `main.c`, `dpdk_nicon.c`, `dpdk_primitives.c` | per lcore receive and transmit buffers | receive burst, handle, transmit, flush timer | one loop per lcore |
| Asynchronous handling, `main_async.c`, `externs/dpdkx_crypto_ops.c` | contexts, rings of operations, a free pool | suspend, enqueue bursts, dequeue, resume | pool and rings run out; a coroutine per packet; synchronous externs that share buffers and device queues with it |
| Test binary, `dpdk_nicoff.c`, `dpdk_nicoff_check_incoming_packet.c` | the suite, per lcore two indices into its script, flags for the exit code | run a case, make a packet, compare what comes out, exit | all lcores share the suite's random ports and the flags |
| Stateful externs, `externs/dpdkx_smem.c`, `dpdkx_v1model_smem.c`, `*_digest.c` | counters, meters, registers shared by lcores | count, execute, read, write, digest | atomic counters, plain registers |
| Switch start-up, `dpdk_lib_init_hw.c`, `dpdk_lib_parse_args.c` | ports, queues, mempools | set-up in order, early exits | sequential |
| Code generators, `src/*.py`, `hardware_indep/*.py` | | write the C of parser, tables, actions, deparser | output depends on the P4 program |
| Freescale backend, `hardware_dep/freescale/` | | an older second backend | proprietary SDK |

How they interact: `main` initialises the tables, then calls
`init_control_plane`, which creates the backend and blocks in `launch_backend`
until the controller's `CTRL_INITIALIZED` message was handled. That message
travels socket, `backend_processor`, `input_queue`, `input_processor`,
`handle_p4_msg`, `recv_from_controller`; messages before it travel the same way
and end in a `*_promote` call, that is, in a table update on the
`input_processor` thread. When `launch_backend` returns, the lcores start to
process packets, after `main` itself has set the default actions of the program that no
controller set, which are table updates on the `main` thread; a packet looks tables up through the pointers it copied and
may make a digest, which travels `output_queue`, `output_processor`, socket.
The controller answers it with entries, which take the way of the first
messages. In the test binary `main` goes through this once per test case, and flushes
the tables in between.

What makes it hard: the order in which two threads lose and wake each other
(queue, pool); two threads that update one table; memory whose owner is only implied (cells, replicas); a timer in
place of a lock (replicas); a wait for an event that passes through four
components (launch); queues and pools that drop or fail at their limit; a
peer that can go away between any two calls; contexts whose owner is a pointer in
front of a packet that is in a device; state that outlives the case it was made for
(hashes, slots, default actions, files at their end); and keys that are converted on
one side of a connection to be compared with keys converted on the other.

## 2. Modules

| Module | Models | State corresponds to |
|---|---|---|
| `BoundedQueue` | abstract: what a queue promises | |
| `Fifo` | `fifo.c` with its consumer loop | `queue head size tail` the fields of `fifo_t`; `pc` a consumer's place in `fifo_wait`, `fifo_remove_msg`, handling; `cell` its result |
| `CellPool` | abstract: what the pool of cells promises | |
| `CellList` | `touch_mem_cell`, `detouch_mem_cell` on the links | `unused_head used_head next prev` as in the code; `lent` is history: the cells that are out |
| `BackendPartsProofs` | theorems about `Fifo` and `CellList` | |
| `CtrlBackend` | the switch end of the connection | queues as sequences of cells and the pool as a set (justified by `Fifo`, `CellList`); `rpc rcell`, `ipc icell`, `opc ocell` place and cell of reader, handler, writer; `wire conn` the connection; `handled digests delivered` history |
| `CtrlBackendProofs` | theorems about `CtrlBackend` | |
| `Controller` | the controller process: `execute_controller`, its processors, `send_p4_msg`, when an application sends what | `peer wire` the switches' side of the connections, `fd` the open descriptors, `sock_fd` what `threadinfo_t` keeps; `mpc todo` the main thread and how far `init()` is; queues as sequences; `wcell`, `icell istep` what the processors have in hand; `recv answered lost` history |
| `ControllerProofs` | theorems about `Controller` | |
| `ThreadPool` | `dispatch`, `do_work` | `qhead qtail next qsize` as in the code; `qlock` only whether the lock is taken; `loaded` the value of the unlocked store in flight; `spaced` whether calls wait for a pool at rest; `spoilt` history: a call fell between a worker's test and its wait, or a stale count was stored |
| `ThreadPoolProofs` | theorems about `ThreadPool` | |
| `SnapshotTable` | abstract: what a table promises to packets | |
| `TableReplica` | `CHANGE_TABLE`, `change_replica`, the copied pointer of a packet | `tables` the lcores' pointers, `active_replica`, `content` the updates in each replica, `held` the pointer of the packet in progress; `pc socketid next_replica todo update` each of the two updating threads and its locals; `drain` the packets its sleep outlasts; `launch` how far `main` is; `mixed` history: the pairs of updates that overlapped |
| `MCTableReplica` | socket layouts for TLC | |
| `TableReplicaProofs` | theorems about `TableReplica` | |
| `CryptoTask` | the lengths of a packet through a crypto operation, as operators | |
| `PacketPath` | the loop of one lcore (`main.c`, `dpdk_nicon.c`) with the suspended packets of `main_async.c` and `dpdkx_crypto*.c` | `pc queue burst` the place in the loop; `pd meta` descriptor and metadata of the running handler, `store` what a suspended one left; `txq` is `tx_mbufs`; `pool freeRing asyncq pending every` as in the code; `dev ready finished` the operations in the device, done, and taken back; `packet` what a buffer holds and history of it; `lost` the buffers nobody frees |
| `MCPacketPath` | P4 programs for TLC: with and without crypto operations, in the order of the phases and not, synchronous, tunnel, drop, broadcast | |
| `PacketPathProofs` | theorems about `PacketPath` | |
| `Startup` | `dpdk_lib_parse_args.c`, `dpdk_lib_init_hw.c` | `params enabled rx tx pools` as in the code; `txqueues` the queues set up |
| `TestHarness` | the test binary, after `Startup` | `steps` the suite, `lcdata` the fields of that name, `encountered` the flags; `wrong` history: has the switch answered wrongly |
| `MCTestHarness` | command lines and suites for TLC | |
| `HarnessProofs` | theorems about `TestHarness` and `Startup` | |
| `MatchTables` | exact and LPM tables over `rte_hash` and `rte_lpm`, as operators | a table is a record with the fields of `lookup_table_t` and `extended_table_t` |
| `Messages` | `messages.c`, `handlers.c`, as operators | a message is a record |
| `ControllerApps` | the eight controller applications, as the messages they build | a line of a file is a record |
| `DataPath` | a controller, its connection, and the tables of a switch through several cases | `tables` by name; `mpc idx case` the main thread; `chan` messages under way; `dict conns listening` the controller; `heard learned added` history since the last flush |
| `MCDataPath` | controllers, files and programs for TLC | |
| `DataPathProofs` | theorems about `DataPath` and the `MatchTables` it uses | |

One action is one critical section, or one step between two points at which
another thread can run. `CtrlBackend` is the composition: it uses queue and pool
in the abstract form that `Fifo` and `CellList` are shown to implement, so the
detail of ring and links does not multiply with the interleavings of the
threads. `CtrlBackend` takes the three threads to be started; `ThreadPool`
says under which condition they are. A message `CtrlBackend` handles is an
update that the `input_processor` of `TableReplica` makes; the updates of its other thread,
`main`, are those of `init_table_default_actions`, which `DataPath` has message by message. `Controller` is the other process: its connections are
those `CtrlBackend` opens. Each of the two models the other end only by what it may
do to the connection; what `CtrlBackend` needs of it, that `CTRL_INITIALIZED` comes after
the entries, is `ConfiguredWhenTold` of `Controller`.

`DataPath` composes the parts these leave out, and takes from them what they show: it
has the text of a message where they have its number, a connection without faults
where they have every fault, and one table value where `TableReplica` has replicas. It
uses `MatchTables`, `Messages` and `ControllerApps`, which have no state, so a key goes
from a configuration file through message, handler and table to a lookup in one model.
`PacketPath` is what an lcore does once `launch_backend` has returned, and `TestHarness`
what it does instead in the test binary; it includes `Startup`, whose queues `PacketPath`
takes for granted.

### Abstractions

* A message is its number, a digest too; a table's content is the sequence of
  updates made to it. The properties are about order, loss and duplication,
  which these tell apart.
* A write of a table replica is one action, but between the actions before and
  after it the replica counts as being written (`Writing`), which is when
  `ExclusiveWrite` is about.
* `TableReplica` has one table and one launch. `main` updates between
  `ctrl_initialized` and `launch_dpdk`; whether the table has a default action of the controller
  by then is a choice, for either can be. `input_processor` updates in that time too if
  `Meanwhile`, as with the l3fwd, smgw and l3-routing-full controllers, which send
  `CTRL_INITIALIZED` before their entries. (Where the controller cannot be reached `launch_backend`
  returns at once, and no messages come that could overlap anything.) What
  two `table_set_default_action` on one replica at the same instant do to the old default they
  both free is not modelled: a write of a replica is one step.
* `usleep(TABCHANGE_SLEEP_MICROS)` is modelled by what it is used for: it ends
  when every packet that was in progress at its start is over, but for the
  lcores in the constant `Slow`, whose packets may go on.
* In `ThreadPool`, `pthread_cond_wait` without the lock is undefined by POSIX; it
  is modelled by what the library does, make the caller a waiter and open
  the lock, whoever holds it. The store `pool->qsize = pool->qsize` is there or not
  depending on the build, so both are explored (`stores_back`). `dispatch` is called at any time; with `spaced`, only
  when the pool is at rest. A pool that is `spoilt` is not followed further in
  `ThreadPool.cfg` (`Followed`); `ThreadPoolLaunch.cfg` follows it to the end.
* In `CtrlBackend` a read either delivers a message, fails, or finds the end. `read_p4_msg` gives
  -100 for a message longer than a cell (`sock_helpers.c:49-50`), which loses the cell while the
  connection stays up; it is taken together with the other failures, which close the connection,
  for the controllers of the repository cannot send one that long. With an unbounded
  number of those the bound of `LeakOnlyFailedReads` would not hold. And the pool has no more cells than a
  queue has slots, as in the code (`Cells <= QSize`): the drop of a full queue is reached
  in `Fifo`, not here; nor is it in `Controller.cfg`, whose `init()` fits.
* In `Controller` a pool thread keeps a job for ever, for no processor returns: the
  jobs that run are the first three dispatched, output before input, connection by
  connection. An entry or default action is its place in the run of `init()` that
  sends it; a digest asks for two entries (`mac_learn_digest`) or, in `Unknown`, has
  no dispatcher. A write to a descriptor reaches the connection that has the
  number at that time. Messages are written whole: `write_fix` of two writers to one
  descriptor could in principle interleave, which would only add to what
  `OneWriterEach` already excludes from the properties. A read that fails on the
  controller's side leaves the cell it allocated behind; memory is not counted.
  An l2fwd controller with files reads them once and closes them, so what a second
  `init()` of it sends is undefined; `Controller` has the applications that
  send everything again.
* `PacketPath` has one lcore, for all it touches is its own, but for the pools of DPDK. A P4
  program is the list of its crypto calls, whether it chooses the egress port before
  or after them, and where the packet goes. The NIC takes any prefix of a burst; the
  device may take any time, or the lcore of `T4P4S_CRYPTO_NODE` stands for it. A
  packet a program broadcasts is sent to the pseudo-port 100, whose place in
  `tx_mbufs` does not exist (`main.c:52`): it and its copies count as lost, and so
  do packets for which there was no context (`main_async.c:112`).
* Synchronous externs (`md5_hmac`, `encrypt`, `decrypt`) call `do_sync_crypto_operation` in every
  build. With `ASYNC_MODE` off or skip they do what they say. With contexts or stores
  `create_crypto_task` reads `pd->pd_store->wrapper` (`dpdkx_crypto_ops.c:188`): a null pointer, an
  unset one, or what the last user of the store left; the blocking dequeue (line 247) takes
  the oldest operation in the device, which may be a suspended packet's; and inside the async
  loop it overwrites `dequeued_rte_crypto_ops[lcore_id][0]`, over which that loop is iterating,
  and gives the operation back a second time. `SyncStrays` ends such a lcore in
  `pc = "strayed"`, which is possible at every synchronous call in these modes;
  `do_sync_crypto_operation` is the other outcome where the call can work on its own packet
  (`OnItsOwnPacket`), and with a store it leaves a pointer in front of the packet (lines 210-216).
  The programs with these externs in `examples.cfg` are built with `ASYNC_MODE` off.
* In context mode the suspended packets of an lcore share its metadata buffer
  (`main_async.c:201` copies the pointer), so `SentWhereItCameFrom` is asked of the other
  modes only.
* In `TestHarness` the switch is whatever answers; `CorrectSwitchPasses` is asked of scripts
  that the harness can judge (`Judged`): nothing is sent after a step that expects
  a drop, for `verify_idx` moves with packets that are sent, and nothing is expected
  to be dropped on the slow path, which compares a port with 200 that a dropped
  packet never gets to.
* In `DataPath` the value of a parameter is kept and its bytes are not; a table has
  one key element; an update is one step; nothing is lost on the connection. An LPM
  table never gets more than `max_size` entries over all cases: since `size` is not
  reset by a flush, the entry after that would be written outside of its array. The
  dictionary has room, and the files fit the arrays they are read into.
* `process_exact` of l2fwd sends two parameters as soon as `sscanf` found the action
  (`dpdk_l2fwd_controller.c:103-106`), also where a line has no names for them: the names are then what
  the arrays happen to hold. The model keeps the values of parameters, not their names, which the
  switch does not look at. A line that ends before its action is sent under an action name that was
  never set; the model lets it be any (`line.action`).
* `ConfiguredIsFound` is not asked of tables and actions the program does not have,
  of tables that are full, of ports of which one byte is another port, nor of
  LPM lines on little-endian machines or of more than 28 bits: `rte_lpm` takes
  addresses as numbers, the switch hands over bytes as they came, and the byte length of
  the key is added to the prefix length (`controlplane.c.py:144`), so what such a line
  asks for is not what a lookup does. A controller of l2fwd that reads its files a second
  time is at their end, and they are closed; it is asked for nothing then.
* `T4P4S_P4RT` builds and debug output are left out everywhere.

## 3. Runs

| Run | Question | Bounds, and why they are enough |
|---|---|---|
| `fifo` | Is a ring with a single-test wait still a queue that loses no wake-up and is served? | 3 slots, 3 consumers, 2 messages: the ring wraps and fills, two signals can be pending while a third consumer steals. `BackendPartsProofs` removes the bounds for safety. |
| `cell_list` | Do the links stand for the two sets? | 5 cells: front, middle and end of each list, and every order of return. |
| `ctrl_backend` | Is every message handled once, in order, and every digest delivered; who owns a cell? | 3 cells, 3 messages of which the second is `CTRL_INITIALIZED`, 2 digests by 2 lcores: all cells can be out at once, a reader waits for a cell, the pool runs dry; the connection fails, closes or is reset at any step; stop at any time. |
| `table_replica` | Does a table change under running packets stay invisible to them, and do replicas converge? | 3 lcores on 2 sockets, 2 replicas, 2 updating threads, 4 updates: each replica is next and active in turn, a socket with two lcores is half switched; two updates overlap at any points, and two more follow, alone or overlapping again. `TableReplicaProofs` removes the bounds. |
| `controller` | Is a switch configured when it is told it is, and are its digests answered; what is left of this when a second switch shares the queue? | 2 entries and `CTRL_INITIALIZED` per switch into a queue of 3, so that one `init()` just fits and a second one may overflow; 2 connections on 3 pool threads, so that the second has a writer and no input thread; one connection ends, and its descriptor may be used again by the other; 1 digest, answered by two entries. |
| `controller_notify_first` (violation) | Is it, when `main()` queues `CTRL_INITIALIZED`? | The same, with a digest nobody dispatches (the l3fwd controller has no dispatchers). No: see below. |
| `thread_pool` | Does the pool run every job once, in order, until a dispatch meets a worker on its way to the wait; and every job, if none does? | 3 workers, 3 jobs, both builds; jobs that come back; spaced calls, as between two connections of a controller, and calls in a row, as in `launch_backend`. |
| `thread_pool_launch` (violation) | Does it when three jobs are dispatched in a row, as `launch_backend` does? | 3 workers, 3 jobs. No: see below. |
| `packet_path` | Are buffers and contexts in one place each, do suspended handlers resume as themselves, which operations has a packet had at the end and how long is it, and does everything leave? | 2 buffers, 2 ports, 3 contexts, bursts of 2, all four modes, with and without the crypto node, 7 programs (no call, encrypt and decrypt in the order of their phases, the other way round, a tunnel, a synchronous call alone and before an asynchronous one, a broadcast): a burst fills on transmit and on crypto, two packets are suspended while the lcore handles others, the ring of contexts exceeds a burst. |
| `test_suite` | Does the exit code of the test binary say what the switch did; do lcores have transmit queues of their own? | 2641 command lines (every set of 4 lcores, masks, 11 queue configurations, crypto node, NUMA) for the start-up; 7 suites of up to 2 cases, 2 lcores and 6 steps, of a switch that answers with any of 24 outcomes. |
| `data_path` | Is what a configuration file or a digest asks for what a packet finds? Do lookups give what was added since the flush? | 13 configurations of the 8 controllers, on machines of both byte orders; 3 cases, so that tables are flushed and filled twice; 3 digests; tables that fill up, constants, wrong lines, unknown names, a port of two bytes. |
| `no_numa` (violation) | Do lcores follow updates under `--no-numa`? | 2 lcores, one on socket 1, 1 update. No: see below. |

`CHECK_DEADLOCK FALSE` is set where the system may rest: the process can end
(`ctrl_backend`, `controller`, `test_suite`, `data_path`), and a pool without work sleeps
(`thread_pool`, and `thread_pool_launch`). The remaining runs check for deadlock.

### Properties

* `NoLostWakeup`: while a consumer sleeps, there is for each held message a
  consumer past its wait. This is why the `if` in `fifo_wait` is enough, given
  that each consumer tests the result and comes back.
* `RefinesQueue`, `QueueServed`: the ring implements `BoundedQueue`.
* `ListsAreThePool`, `RefinesCellPool`: the links implement `CellPool`.
* `OneOwner`: a cell is never in two hands or places. `LeakOnlyFailedReads`: the
  pool shrinks only by failed reads, at most two per connection.
* `MessagesInOrder`, `DigestsInOrder`: what was handled or delivered is a prefix
  of what was sent, and nothing between is missing while the connection lasts.
* `ConfiguredBeforeRunning`: forwarding starts with everything up to
  `CTRL_INITIALIZED` in the tables. `MessagesHandled`, `DigestsDelivered`: nothing
  waits for ever.
* `EachMessageOnce`: whatever connections share the controller's queue, a message it
  sends is in one place, and is written to one switch once. `PartsInOrder`: as long as
  no descriptor has two writers, each switch gets its part of a configuration in
  order. `ConfiguredWhenTold`, `SwitchConfigured`, `DigestAnswered`: the first switch
  is told only after it has every entry, is told, and gets both entries for a
  digest. These three are limited to a controller with one connection
  because with two they are false: the second connection's writer takes messages of the
  first from the shared queue, `CTRL_INITIALIZED` included. A switch program that
  launches several times connects once for each launch.
* `ExclusiveWrite`: a replica being written is neither held by a packet nor
  pointed at by an lcore. `LcoresFollow`: between updates every lcore uses the active
  replica of its socket. Both are asked while updates are `Apart`: none has overlapped another yet,
  or one has run alone since the last that did. `RefinesSnapshotTable`: packets see
  whole tables, updates in order, in every step up to the first overlap.
  `ReplicasConverge` is asked always: between updates every replica has every update, once, and in one
  order but for the pairs that overlapped.
  `UpdateCompletes`: an update ends although packets keep coming.

  What they leave out is what the code does when `main` and `input_processor` update the same table
  at once. Each reads the active replica, so each may write a replica the other has just
  pointed the lcores at, and a packet may read it half-written. The loops of `change_replica` may
  leave lcores of a socket on different replicas; the next update that runs alone
  repairs that (`LcoresFollow`). Two default actions may end in different orders in different
  replicas, so that their tables differ for good; nothing repairs that. With a
  controller that sends `CTRL_INITIALIZED` last none of this can happen (`KeptApart` in section 5).
* `JobsRunOnceInOrder`, `ListIsBacklog`: the pool, however it is called, as long as it is not
  `spoilt`: no dispatch has got the lock while a worker was between its test and its wait
  (`threadpool.c:49-57`), and no count was undone by line 46. So what can go wrong with order
  or list goes back to one of these two. `SpacedJobsRun`: calls that wait for a pool at
  rest never spoil it, and all their jobs run. `EveryDispatchedJobRuns` says so of all calls, and
  `thread_pool_launch` shows that it is false.
* `MbufsAccounted`, `ContextsAccounted`: every packet buffer, and every context, is in
  one place at any time, so none is freed twice, sent while the device has it, or
  used by two packets. `ResumesItself`: a context is suspended exactly when one
  buffer in the crypto machinery carries its pointer, and that buffer is its own; the
  jump out of a handler goes to the loop that called it.
* `CryptoOnceInOrder`: when a handler ends, the packet has had each operation of its program once
  and in order, whatever was run again; where asynchronous operations are only counted, each
  synchronous one. With descriptor stores (`ASYNC_MODE_PD`) this is asked of the programs that
  follow the phases (encrypt, then decrypt; or only synchronous calls), and the property says
  that it is true of no other: a decrypt alone, a second encrypt, a decrypt before an encrypt, or a synchronous
  call before an asynchronous one is passed over, reordered or repeated, and the packet is sent all
  the same (`dpdkx_crypto.c:41-46,85-92`). `LengthAsIfSync`: a packet is as long as if
  the operations it had had been done at once, with no pointer in front; but a synchronous
  operation leaves the pointer to its store there. `SentWhereItCameFrom`: the metadata are the packet's
  own although an lcore has one buffer for them. `QueuedPacketsAreSent`,
  `BurstsResume`: no packet stays in the table of a port, and a full burst of operations
  leads to a resumption, unless the lcore has strayed. That the last packets before a pause wait for others to fill their
  burst is how the code works (`main_async.c:283`), and no property is against it.
* `OwnTxQueue`: lcores that forward share no transmit queue, if the enabled lcores are
  numbered without a gap; with a gap they do.
* `OkMeansMatched`, `CorrectSwitchPasses`: the verdict of the test binary. The first
  leaves out suites with a packet that does not parse: such a step is passed over and
  the exit code says nothing of it.
* `ConfiguredIsFound`: what was asked for is what a packet finds, and the default actions a
  controller set before its `CTRL_INITIALIZED` survive `init_table_default_actions`.
  `LookupsAgree`: a lookup gives the entry added last for its key, or for the longest of
  its prefixes, since the last flush, with tables that keep content and size
  through a flush.

There is one type invariant per run at most, and only where a theorem uses it; elsewhere
the types are a part of the invariant they are needed for (`MbufsAccounted`).

### Fairness

Only what the scheduler gives. A consumer, a thread of the backend or an
updating thread that can move does move (weak fairness). A packet in progress ends
(`PacketDone`): `handle_packet` has no loop that waits. A worker of the pool gets
`qlock` although others take it in between (strong fairness: a mutex that starves a
waiter for ever is not what the kernel does). Nothing is assumed of the
controller, of the connection, of who makes digests or dispatches jobs, of
spurious wake-ups, and no routine of a job has to return. In `CtrlBackend` the
reader polls for a cell; that it finds one rests on the digests not taking every
freed cell for ever, which the bound `MaxDigests` gives: digests come in
bursts, not as an unbroken stream at the limit of the pool. In `PacketPath` the lcore
never blocks and the device ends what it has (weak fairness), and the timer of
`tx_burst_queue_drain`, which is looked at in every turn of the loop, is over in some
of them (strong fairness). In `TestHarness` every lcore and the main thread run (weak
fairness). `Startup`'s actions belong to it; `DataPath` has no liveness property and
no fairness. In `Controller` the main
loop serves each ready descriptor (weak fairness for each): one turn of the loop
goes through all that `select` returned. That one `init()` fits into the queue is a
bound of the run, not of the code: while 1024 messages wait for the writer,
`fifo_add_msg` drops what `init()` adds, and if that is `CTRL_INITIALIZED`, its last,
`launch_backend` waits for ever.

## 4. What disagrees with the code's own words

* `thread_pool_launch`: `do_work` unlocks (`threadpool.c:56`) before it waits
  (line 57) and `dispatch` signals only for the first job (line 164). A dispatch
  between the two lines wakes nobody, and none after it tries again: all workers
  sleep with jobs in the list. `launch_backend` dispatches its three threads
  right after the pool was created, when workers are on their way to the wait.
  `threadpool.h:49` promises that `dispatch` "sends a thread off to do some work".
* `no_numa`: under `--no-numa` the tables live on socket 0 for every lcore
  (`get_socketid`), but `change_replica` compares the real socket, so lcores
  elsewhere keep their old replica, which every later update rewrites while
  they read it. The usage text offers the option without such a restriction; a
  debug-only warning at `dpdk_lib_init_hw.c:109` hints at it.

* `controller_notify_first`: the l3fwd, smgw and l3-routing-full controllers call
  `notify_controller_initialized` in `main()` before `execute_controller`, so
  `CTRL_INITIALIZED` waits in the queue when the first switch connects and arrives before
  any entry; a later switch never gets one and stays in `launch_backend`. The other
  controllers send it at the end of `init()`, which `controller.h:23` calls the "Init
  script that delegates rules when a switch connects", and the switch reports its
  arrival as "Control plane init done" (`controlplane.c.py:323`).

## 5. Proofs

Checked by TLAPS for every value of the constants that satisfies the named
assumptions: `QSize` at least 1, finitely many consumers, `NB_REPLICA` at least 2, queues that
can hold every cell, and so on. Each proof module defines the inductive invariant
as a conjunction of parts and proves it part by part, and within a part action by action; what
the runs check then follows. Where the names below are those of properties, section 3 says
what they mean.

| Theorem | Property of a run | Assumed beyond the module's assumptions |
|---|---|---|
| `BackendPartsProofs.TypeCorrect`, `WakeupKept`, `FifoIsQueue` | `TypeOK`, `NoLostWakeup`, `RefinesQueue` | |
| `BackendPartsProofs.TheListsAreThePool`, `ListsImplementThePool` | `ListsAreThePool`, `RefinesCellPool` | |
| `CtrlBackendProofs.CellsHaveOneOwner`, `LeaksAreBounded` | `OneOwner`, `LeakOnlyFailedReads` | |
| `CtrlBackendProofs.ConfigurationComesFirst`, `MessagesArriveInOrder`, `DigestsArriveInOrder` | `ConfiguredBeforeRunning`, `MessagesInOrder`, `DigestsInOrder` | |
| `ControllerProofs.MessagesAreNotCopied` | `EachMessageOnce` | |
| `ControllerProofs.PartsComeInOrder` | `PartsInOrder` | in the property: `OneWriterEach` |
| `ControllerProofs.FirstSwitchIsConfigured` | `ConfiguredWhenTold` | `~NotifyFirst`, `NEntries + 1 <= QSize` |
| `ThreadPoolProofs.JobsAreRunInOrder`, `TheListIsTheBacklog` | `JobsRunOnceInOrder`, `ListIsBacklog` | in the properties: not `spoilt` |
| `TableReplicaProofs.TypeCorrect`, `Convergence` | `TypeOK`, `ReplicasConverge` | |
| `TableReplicaProofs.WritesAreExclusive`, `LcoresFollowActive` | `ExclusiveWrite`, `LcoresFollow` | `SocketsAgree`; in the properties: `Apart` |
| `TableReplicaProofs.PacketsSeeSnapshots` | `RefinesSnapshotTable` | `SocketsAgree`, `Slow = {}`; in the property: up to the first overlap |
| `TableReplicaProofs.KeptApart` | that no updates overlap | `~Meanwhile` |
| `TableReplicaProofs.SnapshotsForEver` | the refinement of `SnapshotTable` without the exception | `SocketsAgree`, `Slow = {}`, `~Meanwhile` |
| `PacketPathProofs.MbufsAreNeverShared`, `ContextsAreNeverShared`, `HandlersResumeThemselves` | `MbufsAccounted`, `ContextsAccounted`, `ResumesItself` | |
| `PacketPathProofs.OperationsAreDoneOnce`, `LengthsAreTheSame`, `PacketsGoBack` | `CryptoOnceInOrder`, `LengthAsIfSync`, `SentWhereItCameFrom` | in `SentWhereItCameFrom`: not context mode |
| `HarnessProofs.LcoresHaveOwnQueues` | `OwnTxQueue` | in the property: `Numbered` |
| `HarnessProofs.OkIsTrue` | `OkMeansMatched` | in the property: `WellFormed` |
| `DataPathProofs.LookupsAreRight` | `LookupsAgree` | in the property: `Fits` |
| `DataPathProofs.ConfiguredLinesAreFound` | `ConfiguredIsFound` | `WellMatched(setup)`; no entry is `None`; in the property: `Known`, `Fits` |

The assumptions in the last column are not there for the prover. Without `SocketsAgree` and
`~NotifyFirst` the properties are false, and the runs `no_numa` and
`controller_notify_first` show how; `thread_pool_launch` shows what a spoilt pool does, and the text on
`ExclusiveWrite` in section 3 what happens without `Apart`. A queue shorter than
`init()` drops entries; and what `OneWriterEach`, `Numbered` and `WellFormed` exclude is
explained with the properties.

The arguments, and why the properties alone are not inductive:

* `Fifo`. `NoLostWakeup` is inductive together with the types: an add raises `size` by one
  and moves a sleeper to `Removing` if there is one; a removal lowers both sides by
  one. The refinement needs `RingInv` (the slot written next is the one after
  the last held) and `HeldInv`; that `Contents` grows at the end and loses its
  head is lemmas `AddAppends` and `RemoveTakes`.
* `CellList`. `detouch_mem_cell` links `prev[c]` to `next[c]`; that this takes out `c` alone
  needs `Once`: no cell is behind two others, none is before the first of a list, and the
  first has no `prev`. With it four lemmas say what relinking does to the set of cells
  reached (`PutInFront`, `TakeFirst`, `HasOneBefore`, `Unlink`). `Reached` is defined as the
  least set closed under the links, so no induction along a list is needed; the one
  induction, over the cells as `create_backend` links them, is by the least cell that
  would be missed (`AllLinked`).
* `TableReplica`. `Base` has the types and where in its loops each thread is. On it alone, for any
  overlap, `MemberInv` says which updates a replica has: those that are over and, of a thread's current
  one, whether its loop has passed the replica (`Updated`); `OrderInv`, that two updates are in
  the wrong order only if the pair is in `mixed`. Convergence follows. The pointers
  need updates to be apart. `AloneInv` says of a thread that has been the only one since its update began where it is relative
  to `active_replica` (`WriterInv`), what each lcore points at, during the switch and on the
  sockets behind and before it (`PointerInv`), and which packets may still hold
  the old replica (`PacketInv`: those the sleep waits for); `RestInv` says that between updates that are
  apart all lcores are on the active replica. An update made alone passes over all sockets, so what it establishes does not
  depend on what the overlap left. `WritesAreExclusive` holds for any `Slow`: a packet
  that outlasts the sleep harms only its own lcore. `ExactInv`, up to the first overlap, says that each
  replica has exactly the updates up to the current one, and with `Slow = {}` each step maps to
  one of `SnapshotTable`. `LaunchInv` is why `~Meanwhile` keeps updates apart: `main` updates
  while `launch` is between two values for which `input_processor` has nothing to do.
* `CtrlBackend`. `OneOwner` counts places; the invariant says pair by pair that two places
  have no cell in common (`OnceEach`, `Apart`), and `ControlInv` when a thread has a cell
  at all. `LeakInv` distinguishes by the connection: nothing is lost while it is up, one cell
  while the reader still runs after its end, two at the most. `MessageInv` numbers everything between the
  controller and `handled`: what `input_processor` has in hand is the next after those handled,
  the queue continues it, then the reader's cell, then the wire. `DigestInv` is the same for the
  other direction.
* `Controller`. As above, `OnceEach` and `Apart` for the messages and `DigestInv` for the digests;
  `FilesInv` says which open descriptor is whose. `KnownInv` says which messages there are
  anywhere: exactly those that the progress of `init()` and of the digest handlers says were sent,
  so what is sent next is new. `OrderInv` orders each part along the way from the queue to the
  switch. `FirstInv`, for the first connection only, adds that the queue never has more
  than the run of `init()` has sent, so it drops nothing.
* `ThreadPool`. `do_work` opens a lock it does not hold when it waits. Until the pool is spoilt nobody
  has taken the lock since the worker's test, so it opens nobody's (`LockInv`): whoever is
  inside a critical section has the lock, and one is at a time. `ListInv` then treats the list as if the
  lock were held properly, with what the thread inside has done of it so far. `spoilt` never
  goes back, so the invariant is `spoilt` or these.
* `PacketPath`. `MbufInv` and `CtxInv` say that each buffer and context is in one place and that no
  queue has one twice; `LinkInv` ties every suspended context to the one buffer that
  has its pointer; `LoopInv` relates the place in the loop to what the lcore then has in hand,
  and `pending` to the device. `HandlerInv` is the heart: `Progress` says what a handler has done
  to its packet in terms of its descriptor, for the running handler and, after the steps
  `resume_packet_handling` will make, for each suspended one. In phase mode (`pd`) a
  handler starts again at the top for each phase, so `Progress` says that the calls it passed
  are of other phases (`FirstRun`, `LaterRun`), and what was done by then: if the program's calls are all
  asynchronous, the first of phase 0, the first of phase 1, and so on (`ByPhase`). That this is the program
  itself exactly when it follows the phases is lemma `PhasesDone`. A step to `strayed` changes
  nothing else (`StrayStep`). The lengths are a recursive function over the calls; the lemma on its
  value at each index is proved by the least index at which it would fail.
* `TestHarness`. `OkMeansMatched` needs to know by what `verify_idx` may be behind
  (`BehindInv`): as long as no error was met, only by packets that the script wants dropped
  and that were. `SuiteInv` says that `get_cmd`, which writes into the suite, keeps its form.
  `OwnTxQueue` is about `queueid`, a number of lcores: that two lcores have different
  numbers, all below the number of queues, is by cardinalities of initial segments.

* `DataPath`, the tables. `IInv` says of each table, while the keys added to it fit: the hash has each
  key once, and what lies at its position is what was added last for it (`ExactHolds`); the LPM
  structure has one rule for each prefix that was added, its content what was added last for
  the prefix (`LpmHolds`), and no more rules than there are pairs of key and depth, so `rte_lpm_add`
  never refuses one. `LookupsAgree` follows: the rule of the longest prefix is the one of the
  longest note (`ExactFinds`, `LpmFinds`). One entry is `ExactAdds` and `LpmAdds`; the loop over the const
  entries of a table, and the notes of all tables strung together, are by the least
  index at which they would go wrong (`FillKeeps`, `FillAllKeeps`). `ProgramAssumption` is what
  the generator writes: distinct names, exact or LPM, room for one entry.
* `DataPath`, from the configuration to the lookups. The property speaks of states without a message
  under way, so `FoundInv` has to say what the messages on their way will do. `Answered` splits
  the notes of added entries at the last connection: what the lines gone through and the digests
  answered since ask for is noted after it or ordered by a message still under way, and notes and messages of
  then order nothing else for the exact tables that are wanted. A lookup gives the newest note, so it
  is one that some line or digest with that key asked for. Messages of an earlier connection may still
  be under way at the split; then nothing asked for is noted yet, so what they add is older.
  In the LPM table const entries may be noted too, none deeper than what is wanted. `Settled` says that
  every default that is expected is set or ordered, and in front of every `CTRL_INITIALIZED`, which is why
  `init_table_default_actions` finds it and leaves it alone. `Context` says where the main thread
  and the controller are.

  What each controller sends is one lemma per line and one per file (`ScriptOfL2` to
  `ScriptOfDummy`, `DigestFulfils`): the messages ask for what `Wanted` says, on machines of either
  byte order. That a message arrives as it was built is `Arrives` (both ends convert it), that
  the key taken from it is the key a packet is looked up with is `ExactKeysAre`, and that it is
  nobody else's key is `KeyInjective`.

`WellMatched` is what a controller takes for granted: keys of the lengths its parser reads, tables
with the key sizes it sends, no LPM const entry deeper than a configured prefix, for `smgw` both
actions of its filter if the program has the table, and for `l2fwd` the translations in front of the lines that use them and one
default for a table. Where it does not hold the property may fail and nothing in the code prevents it: `l2fwd`,
for instance, sends a line under the name it has so far. `ControllersAssumption` has TLC check that all
controllers of the run are well-matched. That no entry is `None` says that a pointer to an action
is not `NULL`; TLC has a model value there.

Some definitions are stated so that they can be reasoned about, with the same meaning for
TLC: `ListIsBacklog` says link by link what the list is, `Reached`, `AtOnce` and
`SyncLengths` are sets and functions, `init_table_const_entries` and `process_config_file`
are recursive functions, and `add_p4_action_parameter` appends all the parameters of an action.

Only model-checked:

* Liveness (`QueueServed`, `UpdateCompletes`, `MessagesHandled`, `DigestsDelivered`,
  `SwitchConfigured`, `DigestAnswered`, `SpacedJobsRun`, `QueuedPacketsAreSent`,
  `BurstsResume`, `CorrectSwitchPasses`): the prover cannot treat fairness and `ENABLED`.

No safety property is only model-checked, but for the safety part of `SpacedJobsRun` (spaced calls
do not spoil the pool). `FoundInv` was checked on the instance of
`DataPath.cfg` before it was proved.

## 6. Plan

Done: the queue, the cells, both ends of the connection, the thread pool, the
replicated tables, the packet loop with suspended packets, the start-up, the
test binary, the way of a table entry from a configuration file to a lookup, and the
proofs of every safety property, action property and refinement that the runs check.

To come:

1. Several launches of a suite, and what two `table_set_default_action` free, in `TableReplica`.
2. Several lcores in `PacketPath`, for the pools they share (`dpdkx_crypto_ops.c:263`), and
   tables of more than one key element in `DataPath`.

## 7. Not modelled, and why

* Ternary tables. A controller's message cannot fill one as the code stands:
  `setup_key` has only a TODO for ternary keys (`controlplane.c.py:168`) and no mask
  is taken from a message. With no contents to look up, a model would be of
  code that nothing reaches.
* Counters, meters and registers of P4 programs. The first two are calls into DPDK; a
  register is written by several lcores without a lock, and the code promises nothing
  about the outcome.
* The generators of parser, actions and deparser: what they write depends on the P4
  program. What `tables.c.py`, `controlplane.c.py` and `dataplane_key.c.py` write is in
  `DataPath`.
* The bytes of ciphers and digests, cloned packets other than those of a broadcast,
  checksums, hashes and random numbers: pure functions or calls into DPDK.
* The Freescale backend: its behaviour is in a proprietary SDK.
* P4Runtime builds, debug output, statistics, examples and scripts.
