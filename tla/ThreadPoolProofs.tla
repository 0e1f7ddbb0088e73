---------------------------- MODULE ThreadPoolProofs ----------------------------
(***************************************************************************)
(* Proofs about the thread pool, for any number of workers and jobs, both *)
(* builds and any calls of dispatch.  What do_work does without the lock   *)
(* can spoil the pool in two ways only: a call of dispatch gets the lock   *)
(* while a worker is on its way into its wait, or a worker stores a size   *)
(* that is no longer right.  Until then no two workers are ever at the     *)
(* list together, although a wait may open the lock of another worker, and *)
(* every job is begun once and in the order of the calls.                  *)
(***************************************************************************)
EXTENDS ThreadPool, TLAPS, SequenceTheorems

-----------------------------------------------------------------------------
\* The inductive invariant: who has the lock.

AtList == {"take", "advance", "leave"}
InLock == {"test", "unlock", "cond_wait"} \cup AtList

\* Without the lock a worker waits only when there is no job, and then none comes
\* before it sleeps.  So the lock it opens is not one that guards the list.
LockInv ==
    /\ dpc # "idle" => qlock /\ job # 0 /\ \A w \in Workers : pc[w] \notin InLock
    /\ \A w \in Workers : pc[w] \in {"unlock", "cond_wait"} => qsize = 0
    /\ \A w \in Workers : pc[w] \in AtList \/ (pc[w] = "test" /\ qsize # 0) =>
          qlock /\ \A v \in Workers : pc[v] \in InLock => v = w
    /\ \A w \in Workers : pc[w] \in {"take", "advance"} => qsize # 0

-----------------------------------------------------------------------------
\* The inductive invariant: what the list has.

Leaving == {w \in Workers : pc[w] = "leave"}

\* The jobs taken from the list, linked to it, and counted by qsize.
Taken == IF Leaving = {} THEN Len(started) ELSE Len(started) + 1
Linked == IF dpc = "link" THEN job - 1 ELSE job
Counted == IF dpc \in {"link", "count"} THEN job - 1 ELSE job

ListInv ==
    /\ \A i \in 1 .. Len(started) : started[i] = i
    /\ \A w \in Workers : pc[w] = "advance" => cur[w] = qhead
    /\ \A w \in Workers : pc[w] = "leave" => cur[w] = Taken
    /\ qsize = Counted - Taken
    /\ Taken < Linked => /\ qhead = Taken + 1 /\ qtail = Linked
                         /\ \A j \in Taken + 1 .. Linked - 1 : next[j] = j + 1

PoolInv == ~spoilt /\ TypeOK /\ LockInv /\ ListInv
IInv == spoilt \in BOOLEAN /\ (spoilt \/ PoolInv)

-----------------------------------------------------------------------------
\* The steps of one worker or of the dispatcher, and what all of them keep.
WorkerStep(w) == do_work(w) \/ SpuriousWakeup(w) \/ Return(w)

\* Every step is one of the dispatcher, of a worker, or none.
LEMMA StepCases ==
    ASSUME [Next]_vars
    PROVE  \/ /\ build' = build /\ dispatch
           \/ /\ build' = build /\ \E w \in Workers : WorkerStep(w)
           \/ UNCHANGED vars
BY DEF Next, Alive, WorkerStep

\* What is spoilt stays so.
LEMMA SpoiltStays == ASSUME spoilt \in BOOLEAN, [Next]_vars
                     PROVE  spoilt' \in BOOLEAN /\ (spoilt => spoilt')
<1>1. ASSUME dispatch PROVE spoilt' \in BOOLEAN /\ (spoilt => spoilt')
  BY <1>1 DEF dispatch, DispatchLocks, DispatchLinks, DispatchCounts, DispatchReturns, history
<1>2. ASSUME NEW w \in Workers, WorkerStep(w)
      PROVE  spoilt' \in BOOLEAN /\ (spoilt => spoilt')
  BY <1>2 DEF WorkerStep, do_work, Load, Store, Lock, TestSize, Unlock, CondWait, Take, Advance,
              Run, SpuriousWakeup, Return, history
<1>3. CASE UNCHANGED vars
  BY <1>3 DEF vars, history
<1> QED
  BY <1>1, <1>2, <1>3, StepCases

\* The numbers and places that the steps speak of.
LEMMA Numbers ==
    ASSUME TypeOK
    PROVE  /\ Len(started) \in Nat /\ job \in Nat /\ qsize \in Nat /\ NJobs \in Nat
           /\ \A w \in Workers : pc[w] = "leave" => Taken = Len(started) + 1
           /\ (\A w \in Workers : pc[w] # "leave") => Taken = Len(started)
           /\ Taken \in Nat
<1>1. started \in Seq(Jobs) /\ job \in 0 .. NJobs /\ qsize \in 0 .. NJobs /\ NJobs \in Nat
  BY NJobsAssumption DEF TypeOK
<1>2. Len(started) \in Nat
  BY <1>1, LenProperties
<1> QED
  BY <1>1, <1>2 DEF Taken, Leaving

\* The same numbers after a step.
LEMMA NumbersNext ==
    ASSUME TypeOK'
    PROVE  /\ Len(started') \in Nat /\ job' \in Nat /\ qsize' \in Nat
           /\ \A w \in Workers : pc'[w] = "leave" => Taken' = Len(started') + 1
           /\ (\A w \in Workers : pc'[w] # "leave") => Taken' = Len(started')
           /\ Taken' \in Nat
<1>1. started' \in Seq(Jobs) /\ job' \in 0 .. NJobs /\ qsize' \in 0 .. NJobs /\ NJobs \in Nat
  BY NJobsAssumption DEF TypeOK, Jobs
<1>2. Len(started') \in Nat
  BY <1>1, LenProperties
<1> QED
  BY <1>1, <1>2 DEF Taken, Leaving

\* A worker that advances or leaves has taken a job that is there.
LEMMA TakenIsAJob ==
    ASSUME PoolInv, NEW w \in Workers
    PROVE  /\ pc[w] = "advance" => /\ cur[w] = Len(started) + 1 /\ cur[w] \in Jobs
                                   /\ Taken = Len(started) /\ dpc = "idle"
                                   /\ qsize = job - Taken /\ Taken < job
           /\ pc[w] = "leave" => cur[w] = Len(started) + 1 /\ cur[w] \in Jobs
<1>0. /\ TypeOK /\ LockInv /\ ListInv
      /\ Len(started) \in Nat /\ job \in Nat /\ qsize \in Nat /\ NJobs \in Nat
      /\ \A v \in Workers : pc[v] = "leave" => Taken = Len(started) + 1
      /\ (\A v \in Workers : pc[v] # "leave") => Taken = Len(started)
      /\ job <= NJobs
  BY Numbers DEF PoolInv, TypeOK
<1>1. CASE pc[w] = "advance"
  <2>1. \A v \in Workers : pc[v] # "leave"
    BY <1>0, <1>1 DEF LockInv, InLock, AtList
  <2>2. dpc = "idle"
    BY <1>0, <1>1 DEF LockInv, InLock, AtList
  <2>3. Taken = Len(started) /\ qsize # 0 /\ qsize = job - Taken /\ Linked = job
    BY <1>0, <1>1, <2>1, <2>2 DEF LockInv, ListInv, Linked, Counted
  <2>4. Taken < job
    BY <1>0, <2>3
  <2>5. cur[w] = Taken + 1
    BY <1>0, <1>1, <2>3, <2>4 DEF ListInv
  <2>6. cur[w] \in Jobs
    BY <1>0, <2>3, <2>4, <2>5 DEF Jobs
  <2> QED
    BY <1>1, <2>2, <2>3, <2>4, <2>5, <2>6
<1>2. CASE pc[w] = "leave"
  <2>1. cur[w] = Len(started) + 1
    BY <1>0, <1>2 DEF ListInv
  <2>2. cur[w] \in Jobs \cup {None} /\ cur[w] # None
    BY <1>0, <2>1, NoneAssumption DEF TypeOK
  <2> QED
    BY <1>2, <2>1, <2>2
<1> QED
  BY <1>1, <1>2

-----------------------------------------------------------------------------
\* The types.
LEMMA TypeStep == ASSUME PoolInv, ~spoilt', [Next]_vars PROVE TypeOK'
<1>0. /\ TypeOK /\ LockInv /\ ListInv /\ NJobs \in Nat
  BY NJobsAssumption DEF PoolInv
<1> DEFINE labels == {"top", "store", "lock", "test", "unlock", "cond_wait", "blocked",
                      "take", "advance", "leave", "run"}
<1>1. ASSUME build' = build, dispatch PROVE TypeOK'
  <2>1. CASE DispatchLocks
    <3>1. job' \in 0 .. NJobs
      BY <1>0, <2>1 DEF DispatchLocks, TypeOK
    <3> QED
      BY <1>0, <1>1, <2>1, <3>1 DEF DispatchLocks, TypeOK, list, worker, Jobs
  <2>2. CASE DispatchLinks
    <3>1. job \in Jobs
      BY <1>0, <2>2 DEF DispatchLinks, TypeOK, Jobs, LockInv
    <3>2. pc' \in [Workers -> labels]
      BY <1>0, <2>2 DEF DispatchLinks, SignalNotEmpty, Goto, TypeOK
    <3>3. next' \in [Jobs -> Jobs \cup {None}] /\ qhead' \in Jobs \cup {None}
      BY <1>0, <2>2, <3>1 DEF DispatchLinks, TypeOK
    <3> QED
      BY <1>0, <1>1, <2>2, <3>1, <3>2, <3>3 DEF DispatchLinks, TypeOK, Jobs, history
  <2>3. CASE DispatchCounts
    <3>1. qsize = job - 1 - Taken /\ dpc = "count"
      BY <1>0, <2>3 DEF DispatchCounts, ListInv, Counted
    <3>2. qsize' \in 0 .. NJobs
      BY <1>0, <2>3, <3>1, Numbers DEF DispatchCounts, TypeOK
    <3> QED
      BY <1>0, <1>1, <2>3, <3>2 DEF DispatchCounts, TypeOK, list, worker, Jobs, history
  <2>4. CASE DispatchReturns
    BY <1>0, <1>1, <2>4 DEF DispatchReturns, TypeOK, list, worker, Jobs, history
  <2> QED
    BY <1>1, <2>1, <2>2, <2>3, <2>4 DEF dispatch
<1>2. ASSUME build' = build, NEW w \in Workers, WorkerStep(w) PROVE TypeOK'
  <2>1. pc' \in [Workers -> labels]
    BY <1>0, <1>2 DEF WorkerStep, do_work, TypeOK, Goto, Load, Store, Lock, TestSize, Unlock,
                      CondWait, Take, Advance, Run, SpuriousWakeup, Return
  <2>2. CASE Load(w) \/ Store(w) \/ Lock(w) \/ TestSize(w) \/ Unlock(w) \/ CondWait(w)
             \/ SpuriousWakeup(w)
    <3>1. /\ qlock' \in BOOLEAN /\ qsize' \in 0 .. NJobs /\ loaded' \in [Workers -> 0 .. NJobs]
          /\ UNCHANGED <<list, cur, dispatcher, started>>
      BY <1>0, <2>2 DEF Load, Store, Lock, TestSize, Unlock, CondWait, SpuriousWakeup, TypeOK, history
    <3> QED
      BY <1>0, <1>2, <2>1, <3>1 DEF TypeOK, list, dispatcher, Jobs
  <2>3. CASE Take(w) \/ Return(w)
    <3>1. /\ cur' \in [Workers -> Jobs \cup {None}]
          /\ UNCHANGED <<qlock, list, qsize, loaded, dispatcher, started>>
      BY <1>0, <2>3 DEF Take, Return, TypeOK, history
    <3> QED
      BY <1>0, <1>2, <2>1, <3>1 DEF TypeOK, list, dispatcher, Jobs
  <2>4. CASE Advance(w)
    <3>1. qsize' \in 0 .. NJobs
      BY <1>0, <2>4 DEF Advance, LockInv, TypeOK
    <3>2. qhead' \in Jobs \cup {None} /\ qtail' \in Jobs \cup {None} /\ next' = next
      BY <1>0, <2>4 DEF Advance, TypeOK
    <3> QED
      BY <1>0, <1>2, <2>1, <2>4, <3>1, <3>2 DEF TypeOK, Advance, dispatcher, Jobs, history
  <2>5. CASE Run(w)
    <3>1. Append(started, cur[w]) \in Seq(Jobs)
      BY <1>0, <2>5, TakenIsAJob, AppendProperties DEF Run, TypeOK
    <3> QED
      BY <1>0, <1>2, <2>1, <2>5, <3>1 DEF TypeOK, Run, dispatcher, list, Jobs
  <2> QED
    BY <1>2, <2>2, <2>3, <2>4, <2>5 DEF WorkerStep, do_work
<1>3. CASE UNCHANGED vars
  BY <1>0, <1>3 DEF TypeOK, vars, list, worker, dispatcher, Jobs, history, build
<1> QED
  BY <1>1, <1>2, <1>3, StepCases

-----------------------------------------------------------------------------
-----------------------------------------------------------------------------
\* The lock has one owner at the list, until a dispatch spoils the pool.
LEMMA LockStep == ASSUME PoolInv, ~spoilt', [Next]_vars PROVE LockInv'
<1>0. TypeOK /\ LockInv /\ ListInv /\ TypeOK'
  BY TypeStep DEF PoolInv
<1>1. ASSUME dispatch PROVE LockInv'
  <2>1. CASE DispatchLocks
    <3>1. /\ ~qlock /\ qlock' /\ pc' = pc /\ qsize' = qsize /\ job' # 0
          /\ \A w \in Workers : pc[w] \notin {"test", "unlock", "cond_wait"}
      <4>1. ~qlock /\ qlock' = TRUE /\ pc' = pc /\ qsize' = qsize /\ job' = job + 1
        BY <2>1 DEF DispatchLocks, worker
      <4>2. job \in Nat
        BY <1>0, NJobsAssumption DEF TypeOK
      <4>3. Waiting = {}
        BY <2>1 DEF DispatchLocks
      <4> QED
        BY <4>1, <4>2, <4>3 DEF Waiting
    <3>2. \A w \in Workers : pc[w] \notin InLock
      BY <1>0, <3>1 DEF LockInv, InLock, AtList
    <3> QED
      BY <3>1, <3>2 DEF LockInv, InLock, AtList
  <2>2. CASE DispatchLinks
    <3>1. qlock /\ qlock' = qlock /\ job' = job /\ job # 0
          /\ \A w \in Workers : pc[w] \notin InLock
      BY <1>0, <2>2 DEF DispatchLinks, LockInv
    <3>2. \A w \in Workers : pc'[w] = pc[w] \/ pc'[w] = "lock"
      BY <1>0, <2>2 DEF DispatchLinks, SignalNotEmpty, Goto, TypeOK
    <3>3. \A w \in Workers : pc'[w] \notin InLock
      BY <3>1, <3>2 DEF InLock, AtList
    <3> QED
      BY <3>1, <3>3 DEF LockInv, InLock, AtList
  <2>3. CASE DispatchCounts \/ DispatchReturns
    <3>1. /\ qlock /\ job # 0 /\ pc' = pc /\ job' = job
          /\ dpc' = "idle" \/ qlock' = qlock
          /\ \A w \in Workers : pc[w] \notin InLock
      BY <1>0, <2>3 DEF DispatchCounts, DispatchReturns, LockInv, worker
    <3> QED
      BY <3>1 DEF LockInv, InLock, AtList
  <2> QED
    BY <1>1, <2>1, <2>2, <2>3 DEF dispatch
<1>2. ASSUME NEW w \in Workers, WorkerStep(w) PROVE LockInv'
  <2>1. /\ \A v \in Workers : v # w => pc'[v] = pc[v]
        /\ dpc' = dpc /\ job' = job
    BY <1>0, <1>2 DEF TypeOK, WorkerStep, do_work, Goto, Load, Store, Lock, TestSize, Unlock,
                      CondWait, Take, Advance, Run, SpuriousWakeup, Return, dispatcher
  <2>2. CASE Load(w) \/ Store(w) \/ SpuriousWakeup(w) \/ Return(w)
    <3>1. pc'[w] \notin InLock /\ pc[w] \notin InLock /\ qlock' = qlock
      BY <1>0, <2>2 DEF TypeOK, Goto, Load, Store, SpuriousWakeup, Return, InLock, AtList
    <3>2. qsize' = qsize
      BY <1>0, <2>2 DEF Load, Store, SpuriousWakeup, Return
    <3> QED
      BY <1>0, <2>1, <3>1, <3>2 DEF LockInv, InLock, AtList
  <2>3. CASE Lock(w)
    <3>1. ~qlock /\ qlock' /\ qsize' = qsize /\ pc[w] = "lock" /\ pc'[w] = "test"
      BY <1>0, <2>3 DEF Lock, Goto, TypeOK
    <3>2. ASSUME NEW v \in Workers, v # w, pc[v] \in InLock PROVE qsize = 0 /\ pc[v] \notin AtList
      BY <1>0, <3>1, <3>2 DEF LockInv, InLock, AtList
    <3>3. dpc = "idle"
      BY <1>0, <3>1 DEF LockInv
    <3> QED
      BY <1>0, <2>1, <3>1, <3>2, <3>3 DEF LockInv, InLock, AtList
  <2>4. CASE TestSize(w)
    <3>1. /\ pc[w] = "test" /\ qlock' = qlock /\ qsize' = qsize
          /\ pc'[w] = IF qsize = 0 THEN "unlock" ELSE "take"
      BY <1>0, <2>4 DEF TestSize, Goto, TypeOK
    <3>2. dpc = "idle"
      BY <1>0, <3>1 DEF LockInv, InLock
    <3>3. CASE qsize = 0
      BY <1>0, <2>1, <3>1, <3>2, <3>3 DEF LockInv, InLock, AtList
    <3>4. CASE qsize # 0
      BY <1>0, <2>1, <3>1, <3>2, <3>4 DEF LockInv, InLock, AtList
    <3> QED
      BY <3>3, <3>4
  <2>5. CASE Unlock(w) \/ CondWait(w)
    <3>1. /\ pc[w] \in {"unlock", "cond_wait"} /\ pc'[w] \in {"cond_wait", "blocked"}
          /\ qsize = 0 /\ qsize' = 0
      BY <1>0, <2>5 DEF Unlock, CondWait, Goto, TypeOK, LockInv
    <3>2. dpc = "idle" /\ \A v \in Workers : pc[v] \notin AtList
      BY <1>0, <3>1 DEF LockInv, InLock, AtList
    <3> QED
      BY <1>0, <2>1, <3>1, <3>2 DEF LockInv, InLock, AtList
  <2>6. CASE Take(w) \/ Advance(w)
    <3>1. /\ pc[w] \in {"take", "advance"} /\ qlock' = qlock
          /\ \/ pc'[w] = "advance" /\ qsize' = qsize
             \/ pc'[w] = "leave"
      BY <1>0, <2>6 DEF Take, Advance, Goto, TypeOK
    <3>2. /\ qlock /\ qsize # 0 /\ dpc = "idle"
          /\ \A v \in Workers : pc[v] \in InLock => v = w
      BY <1>0, <3>1 DEF LockInv, InLock, AtList
    <3> QED
      BY <1>0, <2>1, <3>1, <3>2 DEF LockInv, InLock, AtList
  <2>7. CASE Run(w)
    <3>1. pc[w] = "leave" /\ pc'[w] = "run"
      BY <1>0, <2>7 DEF Run, Goto, TypeOK
    <3>2. dpc = "idle" /\ \A v \in Workers : pc[v] \in InLock => v = w
      BY <1>0, <3>1 DEF LockInv, InLock, AtList
    <3> QED
      BY <2>1, <3>1, <3>2 DEF LockInv, InLock, AtList
  <2> QED
    BY <1>2, <2>2, <2>3, <2>4, <2>5, <2>6, <2>7 DEF WorkerStep, do_work
<1>3. CASE UNCHANGED vars
  BY <1>0, <1>3 DEF LockInv, vars, worker, dispatcher
<1> QED
  BY <1>1, <1>2, <1>3, StepCases

-----------------------------------------------------------------------------
\* What the list has.
LEMMA ListStep == ASSUME PoolInv, ~spoilt', [Next]_vars PROVE ListInv'
<1>0. /\ TypeOK /\ LockInv /\ ListInv
      /\ TypeOK' /\ LockInv'
      /\ Len(started) \in Nat /\ job \in Nat /\ qsize \in Nat /\ Taken \in Nat
      /\ started \in Seq(Jobs)
  BY TypeStep, LockStep, Numbers DEF PoolInv, TypeOK
<1>1. ASSUME dispatch PROVE ListInv'
  <2>1. /\ started' = started /\ cur' = cur
        /\ \A w \in Workers : pc'[w] \notin AtList /\ pc[w] \notin AtList
    <3>1. started' = started /\ cur' = cur
      BY <1>1 DEF dispatch, DispatchLocks, DispatchLinks, DispatchCounts, DispatchReturns, worker, history
    <3>2. \A w \in Workers : pc[w] \notin AtList
      BY <1>0, <1>1 DEF dispatch, DispatchLocks, DispatchLinks, DispatchCounts, DispatchReturns,
                        LockInv, InLock, AtList
    <3>3. \A w \in Workers : pc'[w] = pc[w] \/ pc'[w] = "lock"
      BY <1>0, <1>1 DEF dispatch, DispatchLocks, DispatchLinks, DispatchCounts, DispatchReturns,
                        worker, SignalNotEmpty, Goto, TypeOK
    <3> QED
      BY <3>1, <3>2, <3>3 DEF AtList
  <2>2. Taken' = Len(started) /\ Taken = Len(started)
    BY <2>1 DEF Taken, Leaving, AtList
  <2>3. SUFFICES /\ qsize' = Counted' - Taken'
                 /\ Taken' < Linked' =>
                       /\ qhead' = Taken' + 1 /\ qtail' = Linked'
                       /\ \A j \in Taken' + 1 .. Linked' - 1 : next'[j] = j + 1
    BY <1>0, <2>1 DEF ListInv, AtList
  <2>4. CASE DispatchLocks
    <3>1. job' = job + 1 /\ dpc = "idle" /\ dpc' = "link" /\ UNCHANGED <<list, qsize>>
      BY <2>4 DEF DispatchLocks
    <3>2. Linked' = Linked /\ Counted' = Counted
      BY <1>0, <3>1 DEF Linked, Counted
    <3> QED
      BY <1>0, <2>2, <3>1, <3>2 DEF ListInv, list
  <2>5. CASE DispatchLinks
    <3>1. /\ job' = job /\ dpc = "link" /\ dpc' = "count" /\ qsize' = qsize
          /\ Linked = job - 1 /\ Linked' = job /\ Counted = job - 1 /\ Counted' = job - 1
          /\ qtail' = job /\ job # 0 /\ job \in Jobs
      BY <1>0, <2>5 DEF DispatchLinks, Linked, Counted, LockInv, TypeOK, Jobs
    <3>2. qsize = job - 1 - Taken
      BY <1>0, <3>1 DEF ListInv
    <3>3. CASE qsize = 0
      <4>1. qhead' = job
        BY <2>5, <3>3 DEF DispatchLinks
      <4> QED
        BY <1>0, <2>2, <3>1, <3>2, <3>3, <4>1 DEF ListInv
    <3>4. CASE qsize # 0
      <4>1. Taken < job - 1 /\ qhead = Taken + 1 /\ qtail = job - 1
            /\ \A j \in Taken + 1 .. job - 2 : next[j] = j + 1
        <5>1. Taken < job - 1
          BY <1>0, <3>1, <3>2, <3>4
        <5>2. Taken < Linked /\ Linked - 1 = job - 2
          BY <1>0, <3>1, <5>1
        <5> QED
          BY <1>0, <3>1, <5>1, <5>2 DEF ListInv
      <4>2. qtail # None /\ qtail \in Jobs
        BY <1>0, <4>1, NoneAssumption DEF TypeOK
      <4>3. qhead' = qhead /\ next' = [next EXCEPT ![qtail] = job]
        BY <2>5, <3>4, <4>2 DEF DispatchLinks
      <4>4. ASSUME NEW j \in Taken + 1 .. job - 1 PROVE next'[j] = j + 1
        <5>1. j \in Jobs /\ j \in Nat
          BY <1>0, <3>1, NJobsAssumption DEF Jobs, TypeOK
        <5>2. next \in [Jobs -> Jobs \cup {None}]
          BY <1>0 DEF TypeOK
        <5>3. CASE j = job - 1
          BY <3>1, <4>1, <4>2, <4>3, <5>1, <5>2, <5>3
        <5>4. CASE j # job - 1
          <6>1. next'[j] = next[j]
            BY <4>1, <4>3, <5>1, <5>2, <5>4
          <6>2. j \in Taken + 1 .. job - 2
            BY <1>0, <5>1, <5>4
          <6> QED
            BY <4>1, <6>1, <6>2
        <5> QED
          BY <5>3, <5>4
      <4> QED
        BY <1>0, <2>2, <3>1, <3>2, <4>1, <4>3, <4>4 DEF ListInv
    <3> QED
      BY <3>3, <3>4
  <2>6. CASE DispatchCounts
    <3>1. job' = job /\ dpc = "count" /\ dpc' = "return" /\ qsize' = qsize + 1 /\ UNCHANGED list
      BY <2>6 DEF DispatchCounts
    <3>2. Linked' = Linked /\ Counted = job - 1 /\ Counted' = job
      BY <3>1 DEF Linked, Counted
    <3> QED
      BY <1>0, <2>2, <3>1, <3>2 DEF ListInv, list
  <2>7. CASE DispatchReturns
    <3>1. job' = job /\ dpc = "return" /\ dpc' = "idle" /\ UNCHANGED <<list, qsize>>
      BY <2>7 DEF DispatchReturns
    <3>2. Linked' = Linked /\ Counted = Counted'
      BY <3>1 DEF Linked, Counted
    <3> QED
      BY <1>0, <2>2, <3>1, <3>2 DEF ListInv, list
  <2> QED
    BY <1>1, <2>4, <2>5, <2>6, <2>7 DEF dispatch
<1>2. ASSUME NEW w \in Workers, WorkerStep(w) PROVE ListInv'
  <2>1. /\ \A v \in Workers : v # w => pc'[v] = pc[v]
        /\ dpc' = dpc /\ job' = job /\ next' = next /\ Linked' = Linked /\ Counted' = Counted
    BY <1>0, <1>2 DEF TypeOK, WorkerStep, do_work, Goto, Load, Store, Lock, TestSize, Unlock,
                      CondWait, Take, Advance, Run, SpuriousWakeup, Return, list, dispatcher,
                      Linked, Counted
  <2>2. CASE Load(w) \/ Store(w) \/ Lock(w) \/ TestSize(w) \/ Unlock(w) \/ CondWait(w)
             \/ SpuriousWakeup(w) \/ Return(w)
    <3>1. /\ UNCHANGED <<list, started>>
          /\ pc[w] \notin {"advance", "leave"} /\ pc'[w] \notin {"advance", "leave"}
          /\ \A v \in Workers : v # w => cur'[v] = cur[v]
      BY <1>0, <2>2 DEF TypeOK, Goto, Load, Store, Lock, TestSize, Unlock, CondWait,
                        SpuriousWakeup, Return, history
    <3>2. qsize' = qsize
      BY <1>0, <2>2 DEF Load, Store, Lock, TestSize, Unlock, CondWait,
                        SpuriousWakeup, Return
    <3>3. Taken' = Taken
      <4>1. Leaving' = Leaving
        BY <2>1, <3>1 DEF Leaving
      <4> QED
        BY <3>1, <4>1 DEF Taken
    <3> QED
      BY <1>0, <2>1, <3>1, <3>2, <3>3 DEF ListInv, list
  <2>3. CASE Take(w)
    <3>1. /\ UNCHANGED <<list, started, qsize>> /\ pc[w] = "take" /\ pc'[w] = "advance"
          /\ cur' = [cur EXCEPT ![w] = qhead]
      BY <1>0, <2>3 DEF Take, Goto, TypeOK, history
    <3>2. Taken' = Taken
      <4>1. Leaving' = Leaving
        BY <2>1, <3>1 DEF Leaving
      <4> QED
        BY <3>1, <4>1 DEF Taken
    <3>3. \A v \in Workers : cur'[v] = IF v = w THEN qhead ELSE cur[v]
      BY <1>0, <3>1 DEF TypeOK
    <3> QED
      BY <1>0, <2>1, <3>1, <3>2, <3>3 DEF ListInv, list
  <2>4. CASE Advance(w)
    <3>1. /\ pc[w] = "advance" /\ pc'[w] = "leave" /\ started' = started /\ cur' = cur
          /\ qsize' = qsize - 1
      BY <1>0, <2>4 DEF Advance, Goto, TypeOK, history
    <3>2. /\ cur[w] = Len(started) + 1 /\ cur[w] \in Jobs /\ Taken = Len(started)
          /\ dpc = "idle" /\ qsize = job - Taken /\ Taken < job
      BY <3>1, TakenIsAJob
    <3>3. \A v \in Workers : v # w => pc'[v] \notin AtList
      BY <1>0, <2>1, <3>1 DEF LockInv, InLock, AtList
    <3>4. Taken' = Len(started) + 1
      BY <3>1 DEF Taken, Leaving
    <3>5. Linked = job /\ Counted = job
      BY <3>2 DEF Linked, Counted
    <3>6. /\ qhead = Taken + 1 /\ qtail = job
          /\ \A j \in Taken + 1 .. job - 1 : next[j] = j + 1
      BY <1>0, <3>2, <3>5 DEF ListInv
    <3>7. ASSUME Taken' < job PROVE qhead' = Taken' + 1 /\ qtail' = job
      <4>1. qsize # 1 /\ cur[w] # None
        BY <1>0, <3>2, <3>4, <3>7, NoneAssumption
      <4>2. qhead' = next[cur[w]] /\ qtail' = qtail
        BY <2>4, <4>1 DEF Advance
      <4>3. cur[w] \in Taken + 1 .. job - 1
        BY <1>0, <3>2, <3>4, <3>7
      <4> QED
        BY <3>2, <3>4, <3>6, <4>2, <4>3
    <3>8. \A v \in Workers : /\ pc'[v] = "advance" => cur'[v] = qhead'
                             /\ pc'[v] = "leave" => cur'[v] = Taken'
      BY <3>1, <3>2, <3>3, <3>4 DEF AtList
    <3>9. \A j \in Taken' + 1 .. job - 1 : next'[j] = j + 1
      BY <1>0, <2>1, <3>2, <3>4, <3>6
    <3>10. qsize' = Counted' - Taken'
      BY <1>0, <2>1, <3>1, <3>2, <3>4, <3>5
    <3>11. \A i \in 1 .. Len(started') : started'[i] = i
      BY <1>0, <3>1 DEF ListInv
    <3> QED
      BY <2>1, <3>5, <3>7, <3>8, <3>9, <3>10, <3>11 DEF ListInv
  <2>5. CASE Run(w)
    <3>1. /\ pc[w] = "leave" /\ pc'[w] = "run" /\ UNCHANGED <<list, qsize, cur>>
          /\ started' = Append(started, cur[w])
      BY <1>0, <2>5 DEF Run, Goto, TypeOK
    <3>2. cur[w] = Len(started) + 1 /\ cur[w] \in Jobs
      BY <3>1, TakenIsAJob
    <3>3. \A v \in Workers : v # w => pc'[v] \notin AtList
      BY <1>0, <2>1, <3>1 DEF LockInv, InLock, AtList
    <3>4. Len(started') = Len(started) + 1 /\ \A i \in 1 .. Len(started') : started'[i] = i
      <4>1. /\ Len(started') = Len(started) + 1
            /\ \A i \in 1 .. Len(started) : started'[i] = started[i]
            /\ started'[Len(started) + 1] = cur[w]
        BY <1>0, <3>1, <3>2, AppendProperties
      <4> QED
        BY <1>0, <3>2, <4>1 DEF ListInv
    <3>5. Taken' = Len(started) + 1 /\ Taken = Len(started) + 1
      <4>1. \A v \in Workers : pc'[v] # "leave"
        BY <3>1, <3>3 DEF AtList
      <4> QED
        BY <1>0, <3>1, <3>4, <4>1, Numbers, NumbersNext
    <3>6. \A v \in Workers : pc'[v] # "advance" /\ pc'[v] # "leave"
      BY <3>1, <3>3 DEF AtList
    <3> QED
      BY <1>0, <2>1, <3>1, <3>4, <3>5, <3>6 DEF ListInv, list
  <2> QED
    BY <1>2, <2>2, <2>3, <2>4, <2>5 DEF WorkerStep, do_work
<1>3. CASE UNCHANGED vars
  BY <1>0, <1>3 DEF ListInv, Taken, Leaving, Linked, Counted, vars, list, worker, dispatcher, history
<1> QED
  BY <1>1, <1>2, <1>3, StepCases

-----------------------------------------------------------------------------
\* All of it holds when the pool is created.
LEMMA PoolInit == Init => IInv
<1> SUFFICES ASSUME Init PROVE IInv
  OBVIOUS
<1>0. /\ build \in BOOLEAN \X BOOLEAN /\ spoilt = FALSE /\ qlock = FALSE /\ qhead = None /\ qtail = None
      /\ next = [j \in Jobs |-> None] /\ qsize = 0 /\ pc = [w \in Workers |-> "top"]
      /\ cur = [w \in Workers |-> None] /\ loaded = [w \in Workers |-> 0]
      /\ dpc = "idle" /\ job = 0 /\ started = <<>> /\ NJobs \in Nat
  BY NJobsAssumption, FlagsAssumption DEF Init, build
<1>1. started \in Seq(Jobs) /\ Len(started) = 0
  BY <1>0
<1>2. TypeOK
  <2>1. 0 \in 0 .. NJobs
    BY <1>0
  <2>2. qsize \in 0 .. NJobs /\ job \in 0 .. NJobs /\ loaded \in [Workers -> 0 .. NJobs]
    BY <1>0, <2>1
  <2>3. /\ next \in [Jobs -> Jobs \cup {None}] /\ cur \in [Workers -> Jobs \cup {None}]
        /\ qhead \in Jobs \cup {None} /\ qtail \in Jobs \cup {None}
    BY <1>0
  <2>4. /\ pc \in [Workers -> {"top", "store", "lock", "test", "unlock", "cond_wait",
                              "blocked", "take", "advance", "leave", "run"}]
        /\ dpc \in {"idle", "link", "count", "return"} /\ qlock \in BOOLEAN
    BY <1>0
  <2> QED
    BY <1>0, <1>1, <2>2, <2>3, <2>4 DEF TypeOK
<1>3. LockInv
  BY <1>0 DEF LockInv, InLock, AtList
<1>4. ListInv
  <2>1. Taken = 0
    BY <1>0, <1>1 DEF Taken, Leaving
  <2>2. Linked = 0 /\ Counted = 0
    BY <1>0 DEF Linked, Counted
  <2> QED
    BY <1>0, <1>1, <2>1, <2>2 DEF ListInv
<1> QED
  BY <1>0, <1>2, <1>3, <1>4 DEF IInv, PoolInv

\* Whenever dispatch is called, even three times in a row as by launch_backend: until
\* a call gets the lock while a worker is on its way into its wait, or an old size is
\* stored, the list is guarded and has what it should.
THEOREM PoolInductive == Spec => []IInv
<1>1. IInv /\ [Next]_vars => IInv'
  <2> SUFFICES ASSUME IInv, [Next]_vars PROVE IInv'
    OBVIOUS
  <2>1. spoilt' \in BOOLEAN /\ (spoilt => spoilt')
    BY SpoiltStays DEF IInv
  <2>2. ASSUME ~spoilt' PROVE PoolInv'
    <3>1. PoolInv
      BY <2>1, <2>2 DEF IInv
    <3> QED
      BY <2>2, <3>1, TypeStep, LockStep, ListStep DEF PoolInv
  <2> QED
    BY <2>1, <2>2 DEF IInv
<1> QED
  BY PoolInit, <1>1, PTL DEF Spec

\* Until the pool is spoilt every job is begun once, in the order in which the jobs
\* were dispatched.  So a job that two workers run, or that is run before an older
\* one, is due to one of those two meetings.
THEOREM JobsAreRunInOrder == Spec => []JobsRunOnceInOrder
<1>1. IInv => JobsRunOnceInOrder
  <2> SUFFICES ASSUME IInv, ~spoilt PROVE JobsRunOnceInOrder
    BY DEF JobsRunOnceInOrder
  <2>1. started \in Seq(Jobs) /\ \A i \in 1 .. Len(started) : started[i] = i
    BY DEF IInv, PoolInv, TypeOK, ListInv
  <2> QED
    BY <2>1 DEF JobsRunOnceInOrder
<1> QED
  BY PoolInductive, <1>1, PTL

\* As long, between the critical sections the list has the jobs that wait, in their order,
\* and qsize counts them.
THEOREM TheListIsTheBacklog == Spec => []ListIsBacklog
<1>1. IInv => ListIsBacklog
  <2> SUFFICES ASSUME IInv, ~spoilt PROVE ListIsBacklog
    BY DEF ListIsBacklog
  <2>0. /\ TypeOK /\ ListInv /\ job \in Nat /\ qsize \in Nat /\ Len(started) \in Nat
        /\ (\A w \in Workers : pc[w] # "leave") => Taken = Len(started)
    BY Numbers DEF IInv, PoolInv
  <2>1. ASSUME Inside = {}, dpc = "idle"
        PROVE  Taken = Len(started) /\ Linked = job /\ Counted = job
    BY <2>0, <2>1 DEF Inside, Linked, Counted
  <2> QED
    BY <2>0, <2>1 DEF ListIsBacklog, ListInv
<1> QED
  BY PoolInductive, <1>1, PTL

=============================================================================
