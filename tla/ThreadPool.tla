------------------------------- MODULE ThreadPool -------------------------------
(***************************************************************************)
(* The pool of threads of the control plane (ctrl_plane/threadpool.c): one *)
(* thread calls dispatch, the workers take the jobs from a linked list and *)
(* run them.                                                               *)
(*                                                                         *)
(* do_work gives qlock back before it calls pthread_cond_wait, which needs *)
(* the caller to own it.  What the library does then is what it always     *)
(* does: it makes the caller a waiter and opens the lock, whosever it is.  *)
(* So qlock is only open or shut here, and a critical section is not one   *)
(* step.  A signal that finds no waiter is lost.                           *)
(***************************************************************************)
EXTENDS Integers, Sequences, FiniteSets

CONSTANTS Workers,     \* the threads of the pool
          NJobs,       \* bound: how many jobs are dispatched
          Spacings,    \* {TRUE}: a call of dispatch waits until the pool is at
                       \* rest, and the pool is left alone during a call;
                       \* {FALSE}: calls come at any time; or both
          JobsReturn,  \* the routine of a job may return
          None         \* the null pointer

ASSUME WorkersAssumption == IsFiniteSet(Workers) /\ Workers # {}
ASSUME NJobsAssumption == NJobs \in Nat
ASSUME FlagsAssumption == Spacings \subseteq BOOLEAN /\ JobsReturn \in BOOLEAN
ASSUME NoneAssumption == None \notin Nat

VARIABLES spaced,              \* how the calls of dispatch come
          stores_back,         \* the build keeps "pool->qsize = pool->qsize"
          qlock,               \* pool->qlock is taken
          qhead, qtail, next,  \* the list of jobs
          qsize,               \* pool->qsize
          pc, cur, loaded,     \* per worker: its place, job, and copy of qsize
          dpc, job,            \* the dispatching thread, and the last job
          started,             \* history: the jobs whose routine was called
          spoilt               \* history: a dispatch, or another change of qsize, fell
                               \* into what do_work does without the lock

list == <<qhead, qtail, next>>
worker == <<pc, cur, loaded>>
dispatcher == <<dpc, job>>
build == <<spaced, stores_back>>
history == <<started, spoilt>>
vars == <<build, qlock, list, qsize, worker, dispatcher, history>>

Jobs == 1 .. NJobs

\* The controllers are built without optimisation, the switch with it.
Init == /\ spaced \in Spacings /\ stores_back \in BOOLEAN
        /\ qlock = FALSE
        /\ qhead = None /\ qtail = None
        /\ next = [j \in Jobs |-> None]
        /\ qsize = 0
        /\ pc = [w \in Workers |-> "top"]
        /\ cur = [w \in Workers |-> None]
        /\ loaded = [w \in Workers |-> 0]
        /\ dpc = "idle" /\ job = 0
        /\ started = <<>>
        /\ spoilt = FALSE

Waiters == {w \in Workers : pc[w] = "blocked"}
Busy == {w \in Workers : pc[w] = "run"}
\* The workers on their way into the wait.
Waiting == {w \in Workers : pc[w] \in {"test", "unlock", "cond_wait"}}
AtRest == dpc = "idle" /\ Waiters \cup Busy = Workers

\* What the spacing of calls gives: nothing else happens during one, and in a
\* build that stores qsize back, nothing before the pool came to rest.
LeftAlone == spaced => IF stores_back THEN AtRest ELSE dpc = "idle"

Goto(w, label) == pc' = [pc EXCEPT ![w] = label]
-----------------------------------------------------------------------------
\* do_work.

\* pool->qsize = pool->qsize, before the lock: nothing, or a load and a store.
Load(w) == /\ pc[w] = "top"
           /\ IF stores_back
              THEN Goto(w, "store") /\ loaded' = [loaded EXCEPT ![w] = qsize]
              ELSE Goto(w, "lock") /\ UNCHANGED loaded
           /\ UNCHANGED <<qlock, list, qsize, cur, dispatcher, history>>

Store(w) == /\ pc[w] = "store"
            /\ qsize' = loaded[w]
            /\ spoilt' = (spoilt \/ qsize # loaded[w])
            /\ Goto(w, "lock")
            /\ UNCHANGED <<qlock, list, cur, loaded, dispatcher, started>>

\* At the top of the loop, or when pthread_cond_wait comes back.
Lock(w) == /\ pc[w] = "lock"
           /\ ~qlock
           /\ qlock' = TRUE
           /\ Goto(w, "test")
           /\ UNCHANGED <<list, qsize, cur, loaded, dispatcher, history>>

\* Mutant: the test is off by one.
TestSizeOffByOne(w) == /\ pc[w] = "test"
                       /\ Goto(w, IF qsize < 0 THEN "unlock" ELSE "take")
                       /\ UNCHANGED <<qlock, list, qsize, cur, loaded,
                                      dispatcher, history>>

\* while (pool->qsize == 0): nothing ever sets pool->shutdown.
TestSize(w) == /\ pc[w] = "test"
               /\ Goto(w, IF qsize = 0 THEN "unlock" ELSE "take")
               /\ UNCHANGED <<qlock, list, qsize, cur, loaded, dispatcher, history>>

Unlock(w) == /\ pc[w] = "unlock"
             /\ qlock' = FALSE
             /\ Goto(w, "cond_wait")
             /\ UNCHANGED <<list, qsize, cur, loaded, dispatcher, history>>

\* pthread_cond_wait, without the lock: it opens it for whoever has it.
CondWait(w) == /\ pc[w] = "cond_wait"
               /\ qlock' = FALSE
               /\ Goto(w, "blocked")
               /\ UNCHANGED <<list, qsize, cur, loaded, dispatcher, history>>

SpuriousWakeup(w) == /\ LeftAlone
                     /\ pc[w] = "blocked"
                     /\ Goto(w, "lock")
                     /\ UNCHANGED <<qlock, list, qsize, cur, loaded,
                                    dispatcher, history>>

Take(w) == /\ pc[w] = "take"
           /\ cur' = [cur EXCEPT ![w] = qhead]
           /\ Goto(w, "advance")
           /\ UNCHANGED <<qlock, list, qsize, loaded, dispatcher, history>>

\* Mutant: the job taken stays at the head.
AdvanceKeepsHead(w) == /\ pc[w] = "advance"
                       /\ qsize' = qsize - 1
                       /\ IF qsize = 1 THEN qhead' = None /\ qtail' = None
                          ELSE UNCHANGED <<qhead, qtail>>
                       /\ Goto(w, "leave")
                       /\ UNCHANGED <<qlock, next, cur, loaded, dispatcher,
                                      history>>

Advance(w) == /\ pc[w] = "advance"
              /\ qsize' = qsize - 1
              /\ IF qsize = 1 THEN qhead' = None /\ qtail' = None
                 ELSE /\ qhead' = IF cur[w] = None THEN None ELSE next[cur[w]]
                      /\ UNCHANGED qtail
              /\ Goto(w, "leave")
              /\ UNCHANGED <<qlock, next, cur, loaded, dispatcher, history>>

\* The lock is given back and the routine of the job called.
Run(w) == /\ pc[w] = "leave"
          /\ qlock' = FALSE
          /\ started' = Append(started, cur[w])
          /\ Goto(w, "run")
          /\ UNCHANGED <<list, qsize, cur, loaded, dispatcher, spoilt>>

Return(w) == /\ JobsReturn
             /\ LeftAlone
             /\ pc[w] = "run"
             /\ cur' = [cur EXCEPT ![w] = None]
             /\ Goto(w, "top")
             /\ UNCHANGED <<qlock, list, qsize, loaded, dispatcher, history>>

do_work(w) == Load(w) \/ Store(w) \/ Lock(w) \/ TestSize(w) \/ Unlock(w)
              \/ CondWait(w) \/ Take(w) \/ Advance(w) \/ Run(w)
-----------------------------------------------------------------------------
\* dispatch.  Nothing ever sets pool->dont_accept.

DispatchLocks == /\ dpc = "idle"
                 /\ job < NJobs
                 /\ spaced => AtRest
                 /\ ~qlock
                 /\ qlock' = TRUE
                 /\ job' = job + 1
                 /\ dpc' = "link"
                 /\ spoilt' = (spoilt \/ Waiting # {})
                 /\ UNCHANGED <<list, qsize, worker, started>>

\* Mutant: dispatch wakes nobody.
SignalForgotten == UNCHANGED pc

\* pthread_cond_signal(&pool->q_not_empty)
SignalNotEmpty == IF Waiters = {} THEN UNCHANGED pc
                  ELSE \E w \in Waiters : Goto(w, "lock")

\* Only the job that finds qsize at 0 wakes a worker.  (Behind a null qtail,
\* which a race can leave, there is nothing to link it to.)
DispatchLinks == /\ dpc = "link"
                 /\ IF qsize = 0
                    THEN qhead' = job /\ UNCHANGED next /\ SignalNotEmpty
                    ELSE /\ next' = IF qtail = None THEN next
                                    ELSE [next EXCEPT ![qtail] = job]
                         /\ UNCHANGED <<qhead, pc>>
                 /\ qtail' = job
                 /\ dpc' = "count"
                 /\ UNCHANGED <<qlock, qsize, cur, loaded, job, history>>

DispatchCounts == /\ dpc = "count"
                  /\ qsize' = qsize + 1
                  /\ dpc' = "return"
                  /\ UNCHANGED <<qlock, list, worker, job, history>>

DispatchReturns == /\ dpc = "return"
                   /\ qlock' = FALSE
                   /\ dpc' = "idle"
                   /\ UNCHANGED <<list, qsize, worker, job, history>>

dispatch == DispatchLocks \/ DispatchLinks \/ DispatchCounts \/ DispatchReturns

\* A worker has called the routine of no job at all: the process has crashed.
Crashed == \E w \in Busy : cur[w] = None

Alive == ~Crashed /\ UNCHANGED build

Next == /\ Alive
        /\ \/ dispatch
           \/ \E w \in Workers : do_work(w) \/ SpuriousWakeup(w) \/ Return(w)

Spec == Init /\ [][Next]_vars

\* A worker that can move does, and gets qlock although others want it too;
\* dispatch finishes what it began.  No routine has to return.
FairSpec == /\ Spec
            /\ WF_vars(Alive /\ dpc # "idle" /\ dispatch)
            /\ \A w \in Workers : SF_vars(Alive /\ do_work(w))
\* Bound: a pool that is spoilt is not followed further, where a cfg says so.
Followed == ~spoilt
-----------------------------------------------------------------------------
TypeOK == /\ build \in BOOLEAN \X BOOLEAN /\ qlock \in BOOLEAN
          /\ qhead \in Jobs \cup {None} /\ qtail \in Jobs \cup {None}
          /\ next \in [Jobs -> Jobs \cup {None}]
          /\ qsize \in 0 .. NJobs
          /\ pc \in [Workers -> {"top", "store", "lock", "test", "unlock",
                                 "cond_wait", "blocked", "take", "advance",
                                 "leave", "run"}]
          /\ cur \in [Workers -> Jobs \cup {None}]
          /\ loaded \in [Workers -> 0 .. NJobs]
          /\ dpc \in {"idle", "link", "count", "return"}
          /\ job \in 0 .. NJobs
          /\ started \in Seq(Jobs)

\* However the calls of dispatch come, only two meetings can spoil the pool: a call
\* gets the lock while a worker is on its way into the wait, which then opens that
\* lock, or a worker stores a size that is no longer right.  Until one of them a job
\* is run by one worker only, and jobs are begun in the order they were dispatched.
JobsRunOnceInOrder == ~spoilt => started = [i \in 1 .. Len(started) |-> i]

\* As long, while nobody is inside a critical section, the list has, from qhead on, the
\* jobs dispatched and not begun, and qsize counts them.  The type invariant is
\* part of it.
Inside == {w \in Workers : pc[w] \in {"test", "unlock", "take", "advance", "leave"}}
ListIsBacklog ==
    ~spoilt =>
      /\ TypeOK
      /\ Inside = {} /\ dpc = "idle" =>
           LET begun == Len(started)
           IN  /\ qsize = job - begun
               /\ qsize > 0 => /\ qhead = begun + 1 /\ qtail = job
                               /\ \A j \in begun + 1 .. job - 1 : next[j] = j + 1

\* Calls that are spaced never spoil the pool, and then no dispatched job waits for
\* ever while a worker has nothing to do.
SpacedJobsRun ==
    /\ [](spaced => ~spoilt)
    /\ spaced => \A j \in Jobs :
                    job >= j ~> Len(started) >= j \/ Busy = Workers

\* A dispatched job does not wait for ever while a worker has nothing to do.
EveryDispatchedJobRuns ==
    \A j \in Jobs : job >= j ~> Len(started) >= j \/ Busy = Workers
=============================================================================
