--------------------------- MODULE TableReplicaProofs ---------------------------
(***************************************************************************)
(* Proofs about the replicated tables, for any number of lcores, sockets   *)
(* and replicas, with two updating threads.  What is said of the contents  *)
(* of replicas needs nothing else; what is said of pointers and packets    *)
(* needs every lcore to be on the socket whose tables it uses.             *)
(***************************************************************************)
EXTENDS TableReplica, TLAPS, WellFoundedInduction, SequenceTheorems

\* NUMA awareness is on, or there is only socket 0 to be aware of.
SocketsAgree == \A l \in Lcores : get_socketid(l) = SocketOf[l]

\* Loops of the code that ascend through ids reach the least one first.
LEMMA FirstIsLeast ==
    ASSUME NEW S, S \subseteq Nat, S # {}
    PROVE  First(S) \in S /\ \A y \in S : First(S) <= y
<1> DEFINE R == {ss \in Nat \X Nat : ss[1] < ss[2]}
<1>1. IsWellFoundedOn(R, Nat)
  BY NatLessThanWellFounded DEF OpToRel
<1>2. \E x \in S : \A y \in S : <<y, x>> \notin R
  BY <1>1, WFMin
<1>3. \E x \in S : \A y \in S : x <= y
  <2>1. PICK x \in S : \A y \in S : <<y, x>> \notin R
    BY <1>2
  <2>2. ASSUME NEW y \in S PROVE x <= y
    <3>1. x \in Nat /\ y \in Nat
      OBVIOUS
    <3>2. ~(y < x)
      BY <2>1, <3>1
    <3> QED
      BY <3>1, <3>2
  <2> QED
    BY <2>2
<1> QED
  BY <1>3 DEF First
-----------------------------------------------------------------------------
\* The first part of the inductive invariant: types, the numbers of the updates,
\* and the loops of the updating threads.

\* Updates are numbered as they begin, and whatever began during an update that
\* has not ended overlaps it.
NumberInv ==
    /\ \A t \in Threads : pc[t] # "idle" => update[t] \in 1 .. made
    /\ \A t \in Threads : pc[t] # "idle" /\ pc[Other(t)] # "idle"
                             => update[t] # update[Other(t)]
    /\ \A p \in mixed : p[1] < p[2] /\ p[2] <= made
    /\ \A t \in Threads, n \in 1 .. made :
         pc[t] # "idle" /\ n > update[t] => <<update[t], n>> \in mixed

LoopInv ==
    \A t \in Threads :
       /\ pc[t] # "idle" => socketid[t] \in Sockets
       /\ pc[t] \in {"switch", "activate"} => todo[t] \subseteq SwitchedOn(socketid[t])
       /\ pc[t] = "activate" => todo[t] # {}
       /\ pc[t] = "write_others" => todo[t] \subseteq Replicas \ {next_replica[t]}

Base == TypeOK /\ NumberInv /\ LoopInv

\* The sockets are natural numbers, each with an lcore.
LEMMA SocketFacts ==
    /\ Sockets \subseteq Nat
    /\ \A l \in Lcores : get_socketid(l) \in Sockets
    /\ \A s \in Sockets : OnSocket(s) # {}
BY SocketAssumption, NumaOnAssumption DEF Sockets, OnSocket, get_socketid

\* The replica after the active one is another one.
LEMMA NextReplica ==
    ASSUME NEW r \in Replicas
    PROVE  (r + 1) % NB_REPLICA \in Replicas /\ (r + 1) % NB_REPLICA # r
<1>1. r + 1 \in Nat /\ r + 1 <= NB_REPLICA
  BY ReplicaAssumption DEF Replicas
<1>2. (r + 1) % NB_REPLICA = IF r + 1 < NB_REPLICA THEN r + 1 ELSE 0
  BY <1>1, ReplicaAssumption, SMT
<1> QED
  BY <1>1, <1>2, ReplicaAssumption DEF Replicas

\* Starting on a socket: the replica to be written first is not the active one.
LEMMA StartsAside ==
    ASSUME TypeOK, NEW t \in Threads, NEW s \in Sockets, StartSocket(t, s)
    PROVE  /\ pc' = [pc EXCEPT ![t] = "write_next"]
           /\ socketid' = [socketid EXCEPT ![t] = s]
           /\ next_replica'[t] \in Replicas /\ next_replica'[t] # active_replica[s]
           /\ next_replica' = [next_replica EXCEPT ![t] = next_replica'[t]]
<1>1. active_replica[s] \in Replicas
  BY DEF TypeOK
<1>2. next_replica'[t] = (active_replica[s] + 1) % NB_REPLICA
  BY DEF StartSocket, TypeOK
<1> QED
  BY <1>1, <1>2, NextReplica DEF StartSocket

\* The least of what is left in a loop, and the least of what is beyond.
LEMMA LoopFacts ==
    ASSUME TypeOK, NEW t \in Threads
    PROVE  /\ todo[t] # {} => First(todo[t]) \in todo[t]
           /\ Sockets # {} => First(Sockets) \in Sockets
           /\ Later(Sockets, socketid[t]) # {} =>
                First(Later(Sockets, socketid[t])) \in Sockets
<1>1. todo[t] \subseteq Nat
  <2>1. todo[t] \subseteq Lcores \cup Replicas
    BY DEF TypeOK
  <2>2. Lcores \subseteq Nat /\ Replicas \subseteq Nat
    BY LcoresAssumption, ReplicaAssumption DEF Replicas
  <2> QED
    BY <2>1, <2>2
<1>2. Later(Sockets, socketid[t]) \subseteq Sockets
  BY DEF Later
<1> QED
  BY <1>1, <1>2, FirstIsLeast, SocketFacts

LEMMA OtherThread ==
    \A t \in Threads : Other(t) \in Threads /\ Other(t) # t /\ Other(Other(t)) = t
                       /\ \A o \in Threads : o = t \/ o = Other(t)
BY DEF Threads, Other

\* A step of an update that goes on, or ends, numbers nothing.
LEMMA NumbersKept ==
    ASSUME TypeOK, NumberInv, NEW t \in Threads, pc[t] # "idle", NEW x,
           pc' = [pc EXCEPT ![t] = x], UNCHANGED <<update, made, mixed>>
    PROVE  NumberInv'
<1>1. \A o \in Threads : pc'[o] # "idle" => pc[o] # "idle"
  BY DEF TypeOK
<1> QED
  BY <1>1, OtherThread DEF NumberInv

\* A begun update: its number is new, and it overlaps what the other thread does.
LEMMA PromoteNumbers ==
    ASSUME TypeOK, NumberInv, NEW t \in Threads, promote(t)
    PROVE  /\ NumberInv'
           /\ made' \in 1 .. MaxUpdates
           /\ mixed' \subseteq (1 .. MaxUpdates) \X (1 .. MaxUpdates)
           /\ update' = [update EXCEPT ![t] = made + 1] /\ made' = made + 1
           /\ pc' = [pc EXCEPT ![t] = "write_next"]
           /\ \A o \in Threads \ {t} : update'[o] = update[o] /\ pc'[o] = pc[o]
           /\ update'[t] = made + 1
           /\ \/ pc[Other(t)] = "idle" /\ mixed' = mixed
              \/ /\ pc[Other(t)] # "idle"
                 /\ mixed' = mixed \cup {<<update[Other(t)], made + 1>>}
<1> DEFINE o == Other(t)
<1>1. o \in Threads /\ o # t /\ \A u \in Threads : u = t \/ u = o
  BY OtherThread
<1>2. /\ made \in Nat /\ made < MaxUpdates /\ made' = made + 1 /\ MaxUpdates \in Nat
      /\ pc' = [pc EXCEPT ![t] = "write_next"]
      /\ update' = [update EXCEPT ![t] = made + 1]
      /\ \/ pc[o] = "idle" /\ mixed' = mixed
         \/ pc[o] # "idle" /\ mixed' = mixed \cup {<<update[o], made + 1>>}
  BY UpdatesAssumption DEF promote, StartSocket, TypeOK
<1>3. pc'[o] = pc[o] /\ update'[o] = update[o] /\ update'[t] = made + 1
      /\ pc'[t] = "write_next" /\ pc[t] = "idle"
  BY <1>1, <1>2 DEF TypeOK, promote
<1>4. pc[o] # "idle" => update[o] \in 1 .. made
  BY <1>1 DEF NumberInv
<1>5. mixed' \subseteq (1 .. MaxUpdates) \X (1 .. MaxUpdates)
  BY <1>2, <1>4 DEF TypeOK
<1>6. NumberInv'
  <2>1. \A u \in Threads : pc'[u] # "idle" => update'[u] \in 1 .. made'
    BY <1>1, <1>2, <1>3, <1>4
  <2>2. \A u \in Threads : pc'[u] # "idle" /\ pc'[Other(u)] # "idle"
                             => update'[u] # update'[Other(u)]
    BY <1>1, <1>2, <1>3, <1>4, OtherThread
  <2>3. \A p \in mixed' : p[1] < p[2] /\ p[2] <= made'
    <3>1. \A p \in mixed : p \in Nat \X Nat /\ p[1] < p[2] /\ p[2] <= made
      BY DEF NumberInv, TypeOK
    <3>2. CASE pc[o] = "idle"
      BY <1>2, <3>1, <3>2
    <3>3. CASE pc[o] # "idle"
      BY <1>2, <1>4, <3>1, <3>3
    <3> QED
      BY <3>2, <3>3
  <2>4. ASSUME NEW u \in Threads, NEW n \in 1 .. made', pc'[u] # "idle",
               n > update'[u]
        PROVE  <<update'[u], n>> \in mixed'
    <3>1. u = o /\ pc[o] # "idle"
      BY <1>1, <1>2, <1>3, <2>4
    <3>2. CASE n = made + 1
      BY <1>2, <1>3, <3>1, <3>2
    <3>3. CASE n \in 1 .. made
      BY <1>2, <1>3, <2>4, <3>1, <3>3 DEF NumberInv
    <3> QED
      BY <1>2, <3>2, <3>3
  <2> QED
    BY <2>1, <2>2, <2>3, <2>4 DEF NumberInv
<1> QED
  BY <1>1, <1>2, <1>3, <1>5, <1>6

\* next_replica and every pointer stay inside the replicas of a socket.
THEOREM BaseInvariant == Spec => []Base
<1>1. Init => Base
  <2> SUFFICES ASSUME Init PROVE Base
    OBVIOUS
  <2> USE SocketFacts, ReplicaAssumption, UpdatesAssumption DEF Init
  <2>1. TypeOK
    <3>1. <<>> \in Seq(1 .. MaxUpdates)
      OBVIOUS
    <3> QED
      BY <3>1 DEF TypeOK, Replicas
  <2>2. NumberInv /\ LoopInv
    BY DEF NumberInv, LoopInv
  <2> QED
    BY <2>1, <2>2 DEF Base
<1>2. Base /\ [Next]_vars => Base'
  <2> SUFFICES ASSUME Base, [Next]_vars PROVE Base'
    OBVIOUS
  <2> USE DEF Base
  <2>1. ASSUME NEW t \in Threads, promote(t), launch' \in {"waits", "sets_default",
                                            "has_set_default", "launched"}
        PROVE  Base'
    <3> DEFINE s == First(Sockets)
    <3>1. s \in Sockets /\ StartSocket(t, s)
      BY <2>1, LoopFacts DEF promote
    <3>2. /\ pc' = [pc EXCEPT ![t] = "write_next"]
          /\ socketid' = [socketid EXCEPT ![t] = s]
          /\ next_replica'[t] \in Replicas
          /\ next_replica' = [next_replica EXCEPT ![t] = next_replica'[t]]
      BY <3>1, StartsAside
    <3>3. UNCHANGED <<tables, active_replica, content, held, todo, drain>>
      BY <2>1 DEF promote
    <3>4. /\ NumberInv' /\ made' \in 1 .. MaxUpdates
          /\ mixed' \subseteq (1 .. MaxUpdates) \X (1 .. MaxUpdates)
          /\ update' = [update EXCEPT ![t] = made + 1] /\ made' = made + 1
      BY <2>1, PromoteNumbers
    <3>5. TypeOK'
      <4>1. /\ pc' \in [Threads -> {"idle", "write_next", "switch", "activate", "sleep",
                                 "write_others"}]
            /\ socketid' \in [Threads -> Sockets \cup {0}]
        BY <3>1, <3>2 DEF TypeOK
      <4>2. next_replica' \in [Threads -> Replicas]
        BY <3>2 DEF TypeOK
      <4>3. update' \in [Threads -> 0 .. MaxUpdates] /\ made' \in 0 .. MaxUpdates
        BY <3>4, UpdatesAssumption DEF TypeOK
      <4> QED
        BY <2>1, <3>3, <3>4, <4>1, <4>2, <4>3 DEF TypeOK
    <3>6. LoopInv'
      BY <3>1, <3>2, <3>3 DEF LoopInv, TypeOK
    <3> QED
      BY <3>4, <3>5, <3>6
  <2>2. ASSUME NEW t \in Threads, Update(t) PROVE Base'
    <3> DEFINE s == socketid[t]
    <3>0. pc[t] # "idle"
      BY <2>2 DEF Update, WriteNext, change_replica, PointLcore, Activate, StartSleep,
                  EndSleep, WriteOther, EndSocket
    <3>1. s \in Sockets /\ update[t] \in 1 .. MaxUpdates /\ next_replica[t] \in Replicas
      BY <3>0 DEF LoopInv, NumberInv, TypeOK
    <3>2. UNCHANGED <<update, made, mixed>> /\ \E x : pc' = [pc EXCEPT ![t] = x]
      <4>1. WriteOther(t) => pc' = [pc EXCEPT ![t] = pc[t]]
        BY DEF WriteOther, TypeOK
      <4> QED
        BY <2>2, <4>1 DEF Update, WriteNext, change_replica, PointLcore, Activate,
              StartSleep, EndSleep, WriteOther, EndSocket, StartSocket
    <3>3. NumberInv'
      BY <3>0, <3>2, NumbersKept
    <3>4. CASE WriteNext(t)
      <4>1. content' \in [Sockets -> [Replicas -> Seq(1 .. MaxUpdates)]]
        BY <3>1, <3>4 DEF WriteNext, Written, TypeOK
      <4>2. SwitchedOn(s) \subseteq Lcores
        BY DEF SwitchedOn
      <4>3. TypeOK'
        BY <3>4, <4>1, <4>2 DEF WriteNext, TypeOK
      <4>4. LoopInv'
        BY <3>4 DEF WriteNext, LoopInv, TypeOK
      <4> QED
        BY <3>3, <4>3, <4>4
    <3>5. CASE PointLcore(t)
      <4>1. First(todo[t]) \in todo[t] /\ First(todo[t]) \in Lcores
        BY <3>5, LoopFacts DEF PointLcore, LoopInv, SwitchedOn
      <4>2. TypeOK'
        BY <3>1, <3>5, <4>1 DEF PointLcore, TypeOK
      <4>3. LoopInv'
        BY <3>5 DEF PointLcore, LoopInv, TypeOK
      <4> QED
        BY <3>3, <4>2, <4>3
    <3>6. CASE Activate(t)
      <4>1. TypeOK'
        BY <3>1, <3>6 DEF Activate, TypeOK
      <4>2. LoopInv'
        BY <3>6 DEF Activate, LoopInv, TypeOK
      <4> QED
        BY <3>3, <4>1, <4>2
    <3>7. CASE StartSleep(t)
      <4>1. TypeOK'
        BY <3>7 DEF StartSleep, TypeOK
      <4>2. LoopInv'
        BY <3>7 DEF StartSleep, LoopInv, TypeOK
      <4> QED
        BY <3>3, <4>1, <4>2
    <3>8. CASE EndSleep(t)
      <4>1. TypeOK'
        BY <3>8 DEF EndSleep, TypeOK
      <4>2. LoopInv'
        BY <3>8 DEF EndSleep, LoopInv, TypeOK
      <4> QED
        BY <3>3, <4>1, <4>2
    <3>9. CASE WriteOther(t)
      <4>1. First(todo[t]) \in Replicas
        BY <3>9, LoopFacts DEF WriteOther, LoopInv
      <4>2. content' \in [Sockets -> [Replicas -> Seq(1 .. MaxUpdates)]]
        BY <3>1, <3>9, <4>1 DEF WriteOther, Written, TypeOK
      <4>3. TypeOK'
        BY <3>9, <4>2 DEF WriteOther, TypeOK
      <4>4. LoopInv'
        BY <3>9 DEF WriteOther, LoopInv, TypeOK
      <4> QED
        BY <3>3, <4>3, <4>4
    <3>10. CASE EndSocket(t) /\ Later(Sockets, s) # {}
      <4> DEFINE n == First(Later(Sockets, s))
      <4>1. n \in Sockets
        BY <3>10, LoopFacts
      <4>2. StartSocket(t, n)
            /\ UNCHANGED <<tables, active_replica, content, held, launch, todo, update,
                           drain, made, mixed>>
        BY <3>10 DEF EndSocket
      <4>3. /\ pc' = [pc EXCEPT ![t] = "write_next"]
            /\ socketid' = [socketid EXCEPT ![t] = n]
            /\ next_replica'[t] \in Replicas
            /\ next_replica' = [next_replica EXCEPT ![t] = next_replica'[t]]
        BY <4>1, <4>2, StartsAside
      <4>4. TypeOK'
        BY <4>1, <4>2, <4>3 DEF TypeOK
      <4>5. LoopInv'
        BY <4>1, <4>2, <4>3 DEF LoopInv, TypeOK
      <4> QED
        BY <3>3, <4>4, <4>5
    <3>11. CASE EndSocket(t) /\ Later(Sockets, s) = {}
      <4>1. TypeOK'
        BY <3>11 DEF EndSocket, TypeOK
      <4>2. LoopInv'
        BY <3>11 DEF EndSocket, LoopInv, TypeOK
      <4> QED
        BY <3>3, <4>1, <4>2
    <3> QED
      BY <2>2, <3>4, <3>5, <3>6, <3>7, <3>8, <3>9, <3>10, <3>11
         DEF Update, change_replica
  <2>3. CASE ctrl_initialized \/ launch_dpdk
    BY <2>3 DEF ctrl_initialized, launch_dpdk, writers, TypeOK, NumberInv, LoopInv
  <2>4. ASSUME NEW l \in Lcores, do_handle_packet(l) PROVE Base'
    BY <2>4 DEF do_handle_packet, writers, TypeOK, NumberInv, LoopInv
  <2>5. ASSUME NEW l \in Lcores, PacketDone(l) PROVE Base'
    <3>1. TypeOK'
      BY <2>5 DEF PacketDone, TypeOK
    <3>2. NumberInv' /\ LoopInv'
      BY <2>5 DEF PacketDone, NumberInv, LoopInv
    <3> QED
      BY <3>1, <3>2
  <2>6. CASE UNCHANGED vars
    BY <2>6 DEF vars, writers, TypeOK, NumberInv, LoopInv
  <2>7. HandleUpdate \/ init_table_default_actions => Base'
    BY <2>1 DEF HandleUpdate, init_table_default_actions, Threads, TypeOK
  <2> QED
    BY <2>2, <2>3, <2>4, <2>5, <2>6, <2>7 DEF Next
<1> QED
  BY <1>1, <1>2, PTL DEF Spec

\* next_replica and every pointer stay inside the replicas of a socket, and what
\* a replica holds is a sequence of updates that were made.
THEOREM TypeCorrect == Spec => []TypeOK
<1>1. Base => TypeOK
  BY DEF Base
<1> QED
  BY <1>1, BaseInvariant, PTL
-----------------------------------------------------------------------------
\* What the replicas contain.

\* Thread t has written the replica s, r in the update it makes.
Updated(t, s, r) ==
    \/ s < socketid[t]
    \/ /\ s = socketid[t]
       /\ \/ pc[t] \in {"switch", "activate", "sleep"} /\ r = next_replica[t]
          \/ pc[t] = "write_others" /\ r \notin todo[t]

Held(s, r) == {content[s][r][i] : i \in DOMAIN content[s][r]}

\* A replica has every update whose thread has come to it, and nothing else.
MemberInv ==
    \A s \in Sockets, r \in Replicas :
       Held(s, r) = {n \in 1 .. made : \A t \in Threads :
                       pc[t] # "idle" /\ update[t] = n => Updated(t, s, r)}

\* Updates are in the order in which they began, or overlapped.
InOrder(c, pairs) ==
    \A i, j \in DOMAIN c : i < j => c[i] < c[j] \/ <<c[j], c[i]>> \in pairs
OrderInv == \A s \in Sockets, r \in Replicas : InOrder(content[s][r], mixed)

\* What is true of the elements of a sequence and its last one.
LEMMA AppendFacts ==
    ASSUME NEW c \in Seq(Nat), NEW u \in Nat, NEW pairs, InOrder(c, pairs),
           \A i \in DOMAIN c : c[i] < u \/ <<u, c[i]>> \in pairs
    PROVE  /\ InOrder(Append(c, u), pairs)
           /\ {Append(c, u)[i] : i \in DOMAIN Append(c, u)}
                = {c[i] : i \in DOMAIN c} \cup {u}
<1> DEFINE d == Append(c, u)
<1>1. /\ d \in Seq(Nat) /\ Len(d) = Len(c) + 1 /\ DOMAIN d = 1 .. Len(c) + 1
      /\ DOMAIN c = 1 .. Len(c) /\ Len(c) \in Nat
      /\ \A i \in 1 .. Len(c) : d[i] = c[i]
      /\ d[Len(c) + 1] = u
  BY AppendProperties, LenProperties
<1> HIDE DEF d
<1>2. \A i \in DOMAIN d : i \in DOMAIN c \/ i = Len(c) + 1
  BY <1>1
<1>3. InOrder(d, pairs)
  <2>1. ASSUME NEW i \in DOMAIN d, NEW j \in DOMAIN d, i < j
        PROVE  d[i] < d[j] \/ <<d[j], d[i]>> \in pairs
    <3>1. i \in DOMAIN c
      BY <1>1, <2>1
    <3>2. CASE j \in DOMAIN c
      BY <1>1, <2>1, <3>1, <3>2 DEF InOrder
    <3>3. CASE j = Len(c) + 1
      BY <1>1, <3>1, <3>3
    <3> QED
      BY <1>2, <3>2, <3>3
  <2> QED
    BY <2>1 DEF InOrder
<1>4. {d[i] : i \in DOMAIN d} = {c[i] : i \in DOMAIN c} \cup {u}
  <2>1. \A i \in DOMAIN d : d[i] \in {c[k] : k \in DOMAIN c} \cup {u}
    BY <1>1, <1>2
  <2>2. \A i \in DOMAIN c : i \in DOMAIN d /\ d[i] = c[i]
    BY <1>1
  <2>3. Len(c) + 1 \in DOMAIN d
    BY <1>1
  <2> QED
    BY <1>1, <2>1, <2>2, <2>3
<1> QED
  BY <1>3, <1>4 DEF d

\* Writing the replica s, r0 with the update of thread t, which it does not have.
LEMMA WriteFacts ==
    ASSUME Base, MemberInv, OrderInv, NEW t \in Threads, pc[t] # "idle",
           NEW s0 \in Sockets, s0 = socketid[t], NEW u \in Nat, u = update[t],
           NEW r0 \in Replicas, Written(t, r0), ~Updated(t, s0, r0)
    PROVE  \A s \in Sockets, r \in Replicas :
              /\ InOrder(content'[s][r], mixed)
              /\ Held(s, r)' = IF s = s0 /\ r = r0
                               THEN Held(s, r) \cup {u} ELSE Held(s, r)
<1> DEFINE c == content[s0][r0]
<1>1. /\ u \in 1 .. made /\ made \in Nat
      /\ c \in Seq(1 .. MaxUpdates) /\ MaxUpdates \in Nat
  BY UpdatesAssumption DEF Base, LoopInv, NumberInv, TypeOK
<1>2. c \in Seq(Nat)
  BY <1>1
<1>3. InOrder(c, mixed)
  BY DEF OrderInv
<1>4. ASSUME NEW i \in DOMAIN c PROVE c[i] < u \/ <<u, c[i]>> \in mixed
  <2>1. c[i] \in Held(s0, r0)
    BY DEF Held
  <2>2. c[i] \in 1 .. made /\ c[i] # u
    BY <1>1, <2>1 DEF MemberInv
  <2>3. c[i] > u => <<u, c[i]>> \in mixed
    BY <2>2 DEF Base, NumberInv
  <2> QED
    BY <1>1, <2>2, <2>3
<1>5. /\ InOrder(Append(c, u), mixed)
      /\ {Append(c, u)[i] : i \in DOMAIN Append(c, u)} = {c[i] : i \in DOMAIN c} \cup {u}
  <2> HIDE DEF c
  <2> QED
    BY <1>2, <1>3, <1>4, AppendFacts
<1>6. /\ content'[s0][r0] = Append(c, u)
      /\ \A s \in Sockets, r \in Replicas :
           ~(s = s0 /\ r = r0) => content'[s][r] = content[s][r]
  BY DEF Written, Base, TypeOK
<1>7. Held(s0, r0) = {c[i] : i \in DOMAIN c}
  BY DEF Held
<1>8. Held(s0, r0)' = Held(s0, r0) \cup {u} /\ InOrder(content'[s0][r0], mixed)
  <2> DEFINE d == Append(c, u)
             New == {d[i] : i \in DOMAIN d}
  <2>1. Held(s0, r0)' = {content'[s0][r0][i] : i \in DOMAIN content'[s0][r0]}
    BY DEF Held
  <2>2. content'[s0][r0] = d
    BY <1>6
  <2> HIDE DEF d
  <2>3. Held(s0, r0)' = New
    BY ONLY <2>1, <2>2
  <2>4. New = Held(s0, r0) \cup {u} /\ InOrder(d, mixed)
    BY ONLY <1>5, <1>7 DEF d
  <2> QED
    BY <2>2, <2>3, <2>4
<1>9. ASSUME NEW s \in Sockets, NEW r \in Replicas, ~(s = s0 /\ r = r0)
      PROVE  Held(s, r)' = Held(s, r) /\ InOrder(content'[s][r], mixed)
  BY <1>6, <1>9 DEF Held, OrderInv
<1> QED
  BY <1>8, <1>9

\* Each replica has what it should, in order, at every point of the updates.
THEOREM ContentInvariant == Spec => [](MemberInv /\ OrderInv)
<1>1. Init => MemberInv /\ OrderInv
  BY DEF Init, MemberInv, OrderInv, InOrder, Held
<1>2. Base /\ MemberInv /\ OrderInv /\ [Next]_vars => (MemberInv /\ OrderInv)'
  <2> SUFFICES ASSUME Base, MemberInv, OrderInv, [Next]_vars
               PROVE  MemberInv' /\ OrderInv'
    OBVIOUS
  <2>0. made \in Nat /\ Sockets \subseteq Nat
    BY SocketFacts DEF Base, TypeOK
  <2>1. ASSUME NEW t \in Threads, promote(t) PROVE MemberInv' /\ OrderInv'
    <3> DEFINE f == First(Sockets)
    <3>1. f \in Sockets /\ StartSocket(t, f) /\ UNCHANGED <<content, todo>>
      BY <2>1, LoopFacts DEF promote, Base
    <3>2. /\ made' = made + 1 /\ update'[t] = made + 1
          /\ \A o \in Threads \ {t} : update'[o] = update[o] /\ pc'[o] = pc[o]
          /\ mixed \subseteq mixed'
          /\ pc[t] = "idle" /\ pc'[t] = "write_next"
      <4>1. NumberInv /\ TypeOK
        BY DEF Base
      <4> QED
        BY <2>1, <4>1, PromoteNumbers DEF TypeOK, promote
    <3>3. OrderInv'
      BY <3>1, <3>2 DEF OrderInv, InOrder
    <3>4. ASSUME NEW s \in Sockets, NEW r \in Replicas
          PROVE  /\ ~Updated(t, s, r)'
                 /\ \A o \in Threads \ {t} : Updated(o, s, r)' = Updated(o, s, r)
      <4>1. f <= s
        BY FirstIsLeast, <2>0
      <4>2. socketid'[t] = f /\ pc'[t] = "write_next"
        BY <3>1, <3>2 DEF StartSocket, Base, TypeOK
      <4>3. \A o \in Threads \ {t} : socketid'[o] = socketid[o]
                                     /\ next_replica'[o] = next_replica[o]
        BY <3>1 DEF StartSocket, Base, TypeOK
      <4>4. f \in Nat /\ s \in Nat
        BY <2>0, <3>1
      <4> QED
        BY <3>1, <3>2, <4>1, <4>2, <4>3, <4>4 DEF Updated
    <3>5. ASSUME NEW s \in Sockets, NEW r \in Replicas
          PROVE  Held(s, r)' = {n \in 1 .. made' : \A o \in Threads :
                       pc'[o] # "idle" /\ update'[o] = n => Updated(o, s, r)'}
      <4>1. Held(s, r)' = Held(s, r)
        BY <3>1 DEF Held
      <4>2. \A n \in 1 .. made' : n \in 1 .. made \/ n = made + 1
        BY <2>0, <3>2
      <4>3. 1 .. made \subseteq 1 .. made'
        BY <2>0, <3>2
      <4>4. \A n \in 1 .. made : n # made + 1
        BY <2>0
      <4>5. \A n \in 1 .. made :
               (\A o \in Threads : pc[o] # "idle" /\ update[o] = n => Updated(o, s, r))
               <=> (\A o \in Threads : pc'[o] # "idle" /\ update'[o] = n
                                         => Updated(o, s, r)')
        BY <3>2, <3>4, <4>4
      <4>6. ~(pc'[t] # "idle" /\ update'[t] = made + 1 => Updated(t, s, r)')
        BY <3>2, <3>4
      <4> QED
        BY <4>1, <4>2, <4>3, <4>5, <4>6 DEF MemberInv
    <3> QED
      BY <3>3, <3>5 DEF MemberInv
  <2>2. ASSUME NEW t \in Threads, Update(t), UNCHANGED content, pc[t] # "idle",
               \A s \in Sockets, r \in Replicas :
                  Updated(t, s, r) <=> pc'[t] = "idle" \/ Updated(t, s, r)'
        PROVE  MemberInv' /\ OrderInv'
    <3>1. /\ UNCHANGED <<update, made, mixed>>
          /\ \A o \in Threads \ {t} : /\ pc'[o] = pc[o] /\ socketid'[o] = socketid[o]
                                     /\ next_replica'[o] = next_replica[o]
                                     /\ todo'[o] = todo[o]
      BY <2>2 DEF Update, WriteNext, change_replica, PointLcore, Activate, StartSleep,
                  EndSleep, WriteOther, EndSocket, StartSocket, Base, TypeOK
    <3>2. \A o \in Threads \ {t}, s \in Sockets, r \in Replicas :
             Updated(o, s, r)' = Updated(o, s, r)
      BY <3>1 DEF Updated
    <3>3. \A s \in Sockets, r \in Replicas : Held(s, r)' = Held(s, r)
      BY <2>2 DEF Held
    <3>4. ASSUME NEW s \in Sockets, NEW r \in Replicas, NEW n \in 1 .. made
          PROVE  (\A o \in Threads : pc[o] # "idle" /\ update[o] = n => Updated(o, s, r))
               <=> (\A o \in Threads : pc'[o] # "idle" /\ update'[o] = n
                                         => Updated(o, s, r)')
      BY <2>2, <3>1, <3>2
    <3>5. MemberInv'
      BY <3>1, <3>3, <3>4 DEF MemberInv
    <3> QED
      BY <2>2, <3>1, <3>5 DEF OrderInv
  <2>3. ASSUME NEW t \in Threads, Update(t), pc[t] # "idle",
               NEW r0 \in Replicas, Written(t, r0), ~Updated(t, socketid[t], r0),
               pc'[t] # "idle",
               \A s \in Sockets, r \in Replicas :
                  Updated(t, s, r)' <=> Updated(t, s, r) \/ (s = socketid[t] /\ r = r0)
        PROVE  MemberInv' /\ OrderInv'
    <3>1. /\ UNCHANGED <<update, made, mixed>>
          /\ \A o \in Threads \ {t} : /\ pc'[o] = pc[o] /\ socketid'[o] = socketid[o]
                                     /\ next_replica'[o] = next_replica[o]
                                     /\ todo'[o] = todo[o]
      BY <2>3 DEF Update, WriteNext, change_replica, PointLcore, Activate, StartSleep,
                  EndSleep, WriteOther, EndSocket, StartSocket, Base, TypeOK
    <3>2. \A o \in Threads \ {t}, s \in Sockets, r \in Replicas :
             Updated(o, s, r)' = Updated(o, s, r)
      BY <3>1 DEF Updated
    <3>3. \A s \in Sockets, r \in Replicas :
                /\ InOrder(content'[s][r], mixed)
                /\ Held(s, r)' = IF s = socketid[t] /\ r = r0
                                 THEN Held(s, r) \cup {update[t]} ELSE Held(s, r)
      <4>1. socketid[t] \in Sockets /\ update[t] \in Nat
        BY <2>0, <2>3 DEF Base, LoopInv, NumberInv
      <4> QED
        BY <2>3, <4>1, WriteFacts
    <3>4. OrderInv'
      BY <3>1, <3>3 DEF OrderInv
    <3>5. update[t] \in 1 .. made
      BY <2>3 DEF Base, NumberInv
    <3>6. \A o \in Threads \ {t} : pc[o] # "idle" => update[o] # update[t]
      BY <2>3, OtherThread DEF Base, NumberInv
    <3>7. ASSUME NEW s \in Sockets, NEW r \in Replicas
          PROVE  Held(s, r)' = {n \in 1 .. made : \A o \in Threads :
                       pc'[o] # "idle" /\ update[o] = n => Updated(o, s, r)'}
      <4>0. Held(s, r) = {n \in 1 .. made : \A o \in Threads :
                             pc[o] # "idle" /\ update[o] = n => Updated(o, s, r)}
        BY DEF MemberInv
      <4>1. CASE s = socketid[t] /\ r = r0
        <5>1. Held(s, r)' = Held(s, r) \cup {update[t]}
          BY <3>3, <4>1
        <5>2. \A n \in 1 .. made :
                 (\A o \in Threads : pc'[o] # "idle" /\ update[o] = n => Updated(o, s, r)')
                 <=> n = update[t] \/ (\A o \in Threads :
                            pc[o] # "idle" /\ update[o] = n => Updated(o, s, r))
          BY <2>3, <3>1, <3>2, <3>6, <4>1
        <5> QED
          BY <3>5, <4>0, <5>1, <5>2
      <4>2. CASE ~(s = socketid[t] /\ r = r0)
        <5>1. Held(s, r)' = Held(s, r)
          BY <3>3, <4>2
        <5>2. \A n \in 1 .. made :
                 (\A o \in Threads : pc'[o] # "idle" /\ update[o] = n => Updated(o, s, r)')
                 <=> (\A o \in Threads :
                            pc[o] # "idle" /\ update[o] = n => Updated(o, s, r))
          BY <2>3, <3>1, <3>2, <4>2
        <5> QED
          BY <4>0, <5>1, <5>2
      <4> QED
        BY <4>1, <4>2
    <3>8. MemberInv'
      BY <3>1, <3>7 DEF MemberInv
    <3> QED
      BY <3>4, <3>8
  <2>4. ASSUME NEW t \in Threads, Update(t) PROVE MemberInv' /\ OrderInv'
    <3> DEFINE s0 == socketid[t]
    <3>0. pc[t] # "idle"
      BY <2>4 DEF Update, WriteNext, change_replica, PointLcore, Activate, StartSleep,
                  EndSleep, WriteOther, EndSocket
    <3>1. s0 \in Sockets /\ s0 \in Nat /\ next_replica[t] \in Replicas
      BY <2>0, <3>0 DEF Base, LoopInv, TypeOK
    <3>2. CASE WriteNext(t)
      <4>1. /\ pc[t] = "write_next" /\ pc'[t] = "switch" /\ Written(t, next_replica[t])
            /\ UNCHANGED <<socketid, next_replica>>
        BY <3>2 DEF WriteNext, Base, TypeOK
      <4>2. \A s \in Sockets, r \in Replicas :
               Updated(t, s, r)' <=> Updated(t, s, r) \/ (s = s0 /\ r = next_replica[t])
        BY <4>1 DEF Updated
      <4>3. ~Updated(t, s0, next_replica[t])
        BY <3>1, <4>1 DEF Updated
      <4> QED
        BY <2>3, <2>4, <3>0, <3>1, <4>1, <4>2, <4>3
    <3>3. CASE WriteOther(t)
      <4> DEFINE r0 == First(todo[t])
      <4>1. /\ pc[t] = "write_others" /\ pc' = pc /\ Written(t, r0)
            /\ todo'[t] = todo[t] \ {r0}
            /\ UNCHANGED <<socketid, next_replica>>
        BY <3>3 DEF WriteOther, Base, TypeOK
      <4>2. r0 \in todo[t] /\ r0 \in Replicas
        BY <3>3, LoopFacts DEF WriteOther, Base, LoopInv
      <4>3. \A s \in Sockets, r \in Replicas :
               Updated(t, s, r)' <=> Updated(t, s, r) \/ (s = s0 /\ r = r0)
        BY <4>1 DEF Updated
      <4>4. ~Updated(t, s0, r0)
        BY <3>1, <4>1, <4>2 DEF Updated
      <4> QED
        BY <2>3, <2>4, <3>0, <4>1, <4>2, <4>3, <4>4
    <3>4. CASE change_replica(t) \/ StartSleep(t)
      <4>1. /\ pc[t] \in {"switch", "activate"} /\ pc'[t] \in {"switch", "activate", "sleep"}
            /\ UNCHANGED <<content, socketid, next_replica>>
        BY <3>4 DEF change_replica, PointLcore, Activate, StartSleep, Base, TypeOK
      <4>2. \A s \in Sockets, r \in Replicas :
               Updated(t, s, r) <=> pc'[t] = "idle" \/ Updated(t, s, r)'
        BY <4>1 DEF Updated
      <4> QED
        BY <2>2, <2>4, <3>0, <4>1, <4>2
    <3>5. CASE EndSleep(t)
      <4>1. /\ pc[t] = "sleep" /\ pc'[t] = "write_others"
            /\ todo'[t] = Replicas \ {next_replica[t]}
            /\ UNCHANGED <<content, socketid, next_replica>>
        BY <3>5 DEF EndSleep, Base, TypeOK
      <4>2. \A s \in Sockets, r \in Replicas :
               Updated(t, s, r) <=> pc'[t] = "idle" \/ Updated(t, s, r)'
        BY <4>1 DEF Updated
      <4> QED
        BY <2>2, <2>4, <3>0, <4>1, <4>2
    <3>6. CASE EndSocket(t) /\ Later(Sockets, s0) # {}
      <4> DEFINE n == First(Later(Sockets, s0))
      <4>1. StartSocket(t, n) /\ pc[t] = "write_others" /\ todo[t] = {}
            /\ UNCHANGED <<content, todo>>
        BY <3>6 DEF EndSocket
      <4>2. pc'[t] = "write_next" /\ socketid'[t] = n
        BY <4>1 DEF StartSocket, Base, TypeOK
      <4>3. /\ Later(Sockets, s0) \subseteq Nat
            /\ \A x \in Later(Sockets, s0) : x \in Sockets /\ x > s0
            /\ \A x \in Sockets : x > s0 => x \in Later(Sockets, s0)
        BY <2>0 DEF Later
      <4>4. n \in Sockets /\ n > s0 /\ \A x \in Sockets : x > s0 => n <= x
        BY <3>6, <4>3, FirstIsLeast
      <4>5. ASSUME NEW s \in Sockets, NEW r \in Replicas
            PROVE  Updated(t, s, r) <=> pc'[t] = "idle" \/ Updated(t, s, r)'
        <5>1. s \in Nat /\ n \in Nat /\ (s > s0 => n <= s) /\ n > s0
          BY <2>0, <4>4
        <5>2. s < n <=> s < s0 \/ s = s0
          BY <3>1, <5>1
        <5>3. Updated(t, s, r) <=> s < s0 \/ s = s0
          BY <4>1 DEF Updated
        <5>4. Updated(t, s, r)' <=> s < n
          BY <4>2 DEF Updated
        <5> QED
          BY <4>2, <5>2, <5>3, <5>4
      <4> QED
        BY <2>2, <2>4, <3>0, <4>1, <4>5
    <3>7. CASE EndSocket(t) /\ Later(Sockets, s0) = {}
      <4>1. pc[t] = "write_others" /\ todo[t] = {} /\ pc'[t] = "idle"
            /\ UNCHANGED content
        BY <3>7 DEF EndSocket, Base, TypeOK
      <4>2. \A s \in Sockets : s < s0 \/ s = s0
        BY <2>0, <3>1, <3>7 DEF Later
      <4>3. \A s \in Sockets, r \in Replicas :
               Updated(t, s, r) <=> pc'[t] = "idle" \/ Updated(t, s, r)'
        BY <4>1, <4>2 DEF Updated
      <4> QED
        BY <2>2, <2>4, <3>0, <4>1, <4>3
    <3> QED
      BY <2>4, <3>2, <3>3, <3>4, <3>5, <3>6, <3>7 DEF Update
  <2>5. CASE UNCHANGED <<content, pc, socketid, next_replica, todo, update, made, mixed>>
    BY <2>5 DEF MemberInv, OrderInv, Held, Updated
  <2>6. HandleUpdate \/ init_table_default_actions => MemberInv' /\ OrderInv'
    BY <2>1 DEF HandleUpdate, init_table_default_actions, Threads
  <2> QED
    BY <2>4, <2>5, <2>6 DEF Next, ctrl_initialized, launch_dpdk, do_handle_packet,
       PacketDone, vars, writers
<1> QED
  BY <1>1, <1>2, BaseInvariant, PTL DEF Spec

\* No update is lost or made twice in any replica, and no two that did not
\* overlap are in another order anywhere, whichever threads made them.
THEOREM Convergence == Spec => []ReplicasConverge
<1>1. MemberInv /\ OrderInv => ReplicasConverge
  BY DEF MemberInv, OrderInv, InOrder, Held, ReplicasConverge, Idle
<1> QED
  BY <1>1, ContentInvariant, PTL
-----------------------------------------------------------------------------
\* What keeps updates apart.

LaunchInv ==
    /\ mixed = {}
    /\ pc["main"] # "idle" => launch = "has_set_default"
    /\ launch \in {"sets_default", "has_set_default"} => pc["input_processor"] = "idle"

\* No update overlaps another when the controller sends nothing between
\* CTRL_INITIALIZED and the first digest, as those do that send it last: main
\* sets the default action after the messages and before the packets.
THEOREM KeptApart == ASSUME ~Meanwhile PROVE Spec => [](mixed = {})
<1>1. Init => LaunchInv
  BY DEF Init, LaunchInv, Threads
<1>2. Base /\ LaunchInv /\ [Next]_vars => LaunchInv'
  <2> SUFFICES ASSUME Base, LaunchInv, [Next]_vars PROVE LaunchInv'
    OBVIOUS
  <2> USE DEF LaunchInv
  <2>1. CASE HandleUpdate
    <3>1. pc["main"] = "idle" /\ launch \in {"waits", "launched"}
      BY <2>1 DEF HandleUpdate
    <3>2. mixed' = mixed /\ pc'["main"] = pc["main"] /\ launch' = launch
      BY <2>1, <3>1 DEF HandleUpdate, promote, Other, StartSocket, Base, TypeOK
    <3> QED
      BY <3>1, <3>2
  <2>2. CASE init_table_default_actions
    <3>1. pc["input_processor"] = "idle" /\ launch' = "has_set_default"
      BY <2>2 DEF init_table_default_actions
    <3>2. mixed' = mixed /\ pc'["input_processor"] = pc["input_processor"]
      BY <2>2, <3>1 DEF init_table_default_actions, promote, Other, StartSocket, Base,
                        TypeOK
    <3> QED
      BY <3>1, <3>2
  <2>3. CASE ctrl_initialized \/ launch_dpdk
    BY <2>3 DEF ctrl_initialized, launch_dpdk, writers
  <2>4. ASSUME NEW t \in Threads, Update(t) PROVE LaunchInv'
    <3>1. pc[t] # "idle" /\ UNCHANGED <<launch, mixed>>
          /\ \A o \in Threads : pc[o] = "idle" => pc'[o] = "idle"
      BY <2>4 DEF Update, WriteNext, change_replica, PointLcore, Activate, StartSleep,
                  EndSleep, WriteOther, EndSocket, StartSocket, Base, TypeOK
    <3> QED
      BY <3>1 DEF Threads
  <2>5. CASE UNCHANGED <<launch, pc, mixed>>
    BY <2>5
  <2> QED
    BY <2>1, <2>2, <2>3, <2>4, <2>5
       DEF Next, do_handle_packet, PacketDone, vars, writers
<1>3. LaunchInv => mixed = {}
  BY DEF LaunchInv
<1> QED
  BY <1>1, <1>2, <1>3, BaseInvariant, PTL DEF Spec
-----------------------------------------------------------------------------
\* Pointers and packets, during an update that has run alone so far and, after
\* such an update, between updates.

\* Thread t makes an update that has overlapped no other.
Alone(t) == pc[t] # "idle" /\ \A p \in mixed : p[2] < update[t]

Switching(t, l) == pc[t] \in {"switch", "activate"} /\ get_socketid(l) = socketid[t]
Pointed(t, l) == l \notin todo[t] \/ (pc[t] = "activate" /\ l = First(todo[t]))
Past(t, l) == \/ get_socketid(l) < socketid[t]
              \/ get_socketid(l) = socketid[t] /\ pc[t] \in {"sleep", "write_others"}

WriterInv(t) ==
    /\ pc[t] = "write_next" => next_replica[t] # active_replica[socketid[t]]
    /\ pc[t] = "switch" /\ todo[t] # OnSocket(socketid[t])
          => active_replica[socketid[t]] = next_replica[t]
    /\ pc[t] \in {"sleep", "write_others"}
          => active_replica[socketid[t]] = next_replica[t]

\* An lcore uses the active replica of its socket, but for those on the socket
\* where the thread is pointing them at another and those it has yet to come to.
PointerInv(t) ==
    \A l \in Lcores :
       /\ (Apart \/ Past(t, l)) /\ ~Switching(t, l)
             => tables[l] = active_replica[get_socketid(l)]
       /\ Switching(t, l) /\ Pointed(t, l) => tables[l] = next_replica[t]
       /\ Apart /\ Switching(t, l) /\ ~Pointed(t, l) => tables[l] # next_replica[t]

\* A packet holds the replica its lcore uses, but for the packets that were in
\* progress when the lcores of their socket were switched.
PacketInv(t) ==
    \A l \in Lcores \ Slow :
       Apart \/ Past(t, l) =>
          \/ held[l] = None
          \/ held[l] = active_replica[get_socketid(l)]
          \/ Switching(t, l)
          \/ pc[t] = "sleep" /\ get_socketid(l) = socketid[t] /\ l \in drain[t]

AloneInv == \A t \in Threads : Alone(t) => WriterInv(t) /\ PointerInv(t) /\ PacketInv(t)

RestInv == Idle /\ Apart =>
              \A l \in Lcores :
                 /\ tables[l] = active_replica[get_socketid(l)]
                 /\ l \notin Slow => held[l] \in {None, active_replica[get_socketid(l)]}

IInv == Base /\ AloneInv /\ RestInv

\* While an update has run alone so far the other thread makes none, and an
\* update made when updates are apart runs alone.
LEMMA AloneFacts ==
    ASSUME Base, NEW t \in Threads, pc[t] # "idle"
    PROVE  /\ Alone(t) => pc[Other(t)] = "idle"
           /\ Apart => Alone(t)
<1> DEFINE o == Other(t)
<1>1. o \in Threads /\ t = Other(o)
  BY OtherThread
<1>2. update[t] \in 1 .. made /\ (pc[o] # "idle" => update[o] \in 1 .. made)
  BY <1>1 DEF Base, NumberInv
<1>3. Alone(t) => pc[o] = "idle"
  <2> SUFFICES ASSUME Alone(t), pc[o] # "idle" PROVE FALSE
    OBVIOUS
  <2>1. update[t] # update[o]
    BY <1>1 DEF Base, NumberInv
  <2>2. CASE update[o] > update[t]
    <3>1. <<update[t], update[o]>> \in mixed
      BY <1>2, <2>2 DEF Base, NumberInv
    <3> QED
      BY <1>2, <2>2, <3>1 DEF Alone
  <2>3. CASE update[t] > update[o]
    <3>1. <<update[o], update[t]>> \in mixed
      BY <1>1, <1>2, <2>3 DEF Base, NumberInv
    <3> QED
      BY <1>2, <3>1 DEF Alone
  <2> QED
    BY <1>2, <2>1, <2>2, <2>3
<1>4. Apart => Alone(t)
  <2>1. CASE mixed = {}
    BY <2>1 DEF Alone
  <2>2. ASSUME NEW n \in 1 .. made, Ended(n), \A p \in mixed : p[2] < n
        PROVE  Alone(t)
    <3>1. ~(n > update[t])
      <4>1. n > update[t] => <<update[t], n>> \in mixed
        BY DEF Base, NumberInv
      <4> QED
        BY <2>2, <4>1
    <3>2. n # update[t]
      BY <2>2 DEF Ended
    <3>3. made \in Nat /\ \A p \in mixed : p[2] \in Nat
      BY DEF Base, TypeOK
    <3>4. n < update[t]
      BY <1>2, <3>1, <3>2, <3>3
    <3> QED
      BY <1>2, <2>2, <3>3, <3>4 DEF Alone
  <2> QED
    BY <2>1, <2>2 DEF Apart
<1> QED
  BY <1>3, <1>4

\* The invariant holds again after a step of an update that goes on, if it does
\* for its thread.
LEMMA UpdateGoesOn ==
    ASSUME IInv, Base', NEW t \in Threads, pc[t] # "idle", NEW x, x # "idle",
           pc' = [pc EXCEPT ![t] = x], UNCHANGED <<update, made, mixed>>,
           Alone(t) /\ (Apart' <=> Apart) => WriterInv(t)' /\ PointerInv(t)' /\ PacketInv(t)'
    PROVE  IInv'
<1>1. pc'[t] = x /\ \A o \in Threads \ {t} : pc'[o] = pc[o]
  BY DEF IInv, Base, TypeOK
<1>2. ~Idle'
  BY <1>1 DEF Idle
<1>3. Apart' <=> Apart
  <2>1. \A n : Ended(n)' <=> Ended(n)
    BY <1>1 DEF Ended
  <2> QED
    BY <2>1 DEF Apart
<1>4. Alone(t)' <=> Alone(t)
  BY <1>1 DEF Alone
<1>5. ASSUME NEW o \in Threads \ {t} PROVE ~Alone(o)'
  <2>1. Alone(o)' => Alone(o) /\ pc[o] # "idle"
    BY <1>1 DEF Alone
  <2>2. Other(o) = t
    BY OtherThread
  <2> QED
    BY <2>1, <2>2, AloneFacts DEF IInv
<1> QED
  BY <1>2, <1>3, <1>4, <1>5 DEF IInv, AloneInv, RestInv

\* Who refers to which replica, at every point of the two threads.
THEOREM Inductive == ASSUME SocketsAgree PROVE Spec => []IInv
<1>1. Init => AloneInv /\ RestInv
  <2> SUFFICES ASSUME Init PROVE AloneInv /\ RestInv
    OBVIOUS
  <2>1. AloneInv
    BY DEF Init, AloneInv, Alone
  <2>2. RestInv
    BY SocketFacts DEF Init, RestInv
  <2> QED
    BY <2>1, <2>2
<1>2. IInv /\ Base' /\ [Next]_vars => IInv'
  <2> SUFFICES ASSUME IInv, Base', [Next]_vars PROVE IInv'
    OBVIOUS
  <2>0. TypeOK /\ Sockets \subseteq Nat /\ \A l \in Lcores : get_socketid(l) \in Sockets
    BY SocketFacts DEF IInv, Base
  <2>1. ASSUME NEW t \in Threads, promote(t) PROVE IInv'
    <3> DEFINE f == First(Sockets)
               o == Other(t)
    <3>1. f \in Sockets /\ StartSocket(t, f)
          /\ UNCHANGED <<tables, active_replica, content, held, todo, drain>>
      BY <2>0, <2>1, LoopFacts DEF promote
    <3>2. /\ made' = made + 1 /\ update'[t] = made + 1
          /\ pc[t] = "idle" /\ pc'[t] = "write_next"
          /\ \A u \in Threads \ {t} : update'[u] = update[u] /\ pc'[u] = pc[u]
          /\ \/ pc[o] = "idle" /\ mixed' = mixed
             \/ pc[o] # "idle" /\ mixed' = mixed \cup {<<update[o], made + 1>>}
      <4>1. NumberInv /\ TypeOK
        BY DEF IInv, Base
      <4> QED
        BY <2>1, <4>1, PromoteNumbers DEF TypeOK, promote
    <3>3. socketid'[t] = f /\ next_replica'[t] # active_replica[f]
      <4>1. socketid' = [socketid EXCEPT ![t] = f] /\ next_replica'[t] # active_replica[f]
        BY <2>0, <3>1, StartsAside
      <4> QED
        BY <2>0, <4>1 DEF TypeOK
    <3>4. ~Idle'
      BY <3>2 DEF Idle
    <3>5. o \in Threads /\ o # t /\ \A u \in Threads : u = t \/ u = o
      BY OtherThread
    <3>6. made \in Nat /\ (pc[o] # "idle" => update[o] \in 1 .. made)
      BY <3>5 DEF IInv, Base, TypeOK, NumberInv
    <3>7. ~Alone(o)'
      <4> SUFFICES ASSUME pc'[o] # "idle" PROVE \E p \in mixed' : ~(p[2] < update'[o])
        BY DEF Alone
      <4>1. <<update[o], made + 1>> \in mixed'
        BY <3>2, <3>5
      <4>2. ~(made + 1 < update'[o])
        BY <3>2, <3>5, <3>6
      <4> QED
        BY <4>1, <4>2
    <3>8. Alone(t)' => Idle /\ (Apart' => Apart)
      <4> SUFFICES ASSUME Alone(t)' PROVE Idle /\ (Apart' => Apart)
        OBVIOUS
      <4>1. pc[o] = "idle" /\ mixed' = mixed
        <5> SUFFICES ASSUME <<update[o], made + 1>> \in mixed' PROVE FALSE
          BY <3>2
        <5> QED
          BY <3>2, <3>6 DEF Alone
      <4>2. Idle
        BY <3>2, <3>5, <4>1 DEF Idle
      <4>3. ASSUME NEW n \in 1 .. made', Ended(n)' PROVE n \in 1 .. made /\ Ended(n)
        <5>1. n # made + 1
          BY <3>2, <4>3 DEF Ended
        <5>2. n \in 1 .. made
          BY <3>2, <3>6, <5>1
        <5> QED
          BY <4>2, <5>2 DEF Ended, Idle
      <4> QED
        BY <4>1, <4>2, <4>3 DEF Apart
    <3>9. ASSUME Alone(t)' PROVE WriterInv(t)' /\ PointerInv(t)' /\ PacketInv(t)'
      <4>1. \A l \in Lcores : ~Past(t, l)' /\ ~Switching(t, l)'
        <5> SUFFICES ASSUME NEW l \in Lcores PROVE ~(get_socketid(l) < f)
          BY <3>2, <3>3 DEF Past, Switching
        <5>1. f <= get_socketid(l) /\ f \in Nat /\ get_socketid(l) \in Nat
          BY <2>0, <3>1, FirstIsLeast
        <5> QED
          BY <5>1
      <4>2. WriterInv(t)'
        BY <3>1, <3>2, <3>3 DEF WriterInv
      <4>3. Apart' => \A l \in Lcores :
                 /\ tables[l] = active_replica[get_socketid(l)]
                 /\ l \notin Slow => held[l] \in {None, active_replica[get_socketid(l)]}
        BY <3>8, <3>9 DEF IInv, RestInv
      <4>4. PointerInv(t)'
        BY <3>1, <4>1, <4>3 DEF PointerInv
      <4>5. PacketInv(t)'
        BY <3>1, <4>1, <4>3 DEF PacketInv
      <4> QED
        BY <4>2, <4>4, <4>5
    <3> QED
      BY <3>4, <3>5, <3>7, <3>9 DEF IInv, AloneInv, RestInv
  <2>2. ASSUME NEW t \in Threads, WriteNext(t) PROVE IInv'
    <3> DEFINE s == socketid[t]
    <3>1. /\ pc[t] = "write_next" /\ pc' = [pc EXCEPT ![t] = "switch"]
          /\ todo'[t] = OnSocket(s)
          /\ UNCHANGED <<tables, active_replica, held, socketid, next_replica, update,
                         drain, made, mixed>>
      <4>1. SwitchedOn(s) = OnSocket(s)
        BY SocketsAgree DEF SocketsAgree, SwitchedOn, OnSocket
      <4> QED
        BY <2>0, <2>2, <4>1 DEF WriteNext, TypeOK
    <3>2. pc'[t] = "switch"
      BY <2>0, <3>1 DEF TypeOK
    <3>3. ASSUME Alone(t), Apart' <=> Apart
          PROVE  WriterInv(t)' /\ PointerInv(t)' /\ PacketInv(t)'
      <4>1. WriterInv(t) /\ PointerInv(t) /\ PacketInv(t)
        BY <3>3 DEF IInv, AloneInv
      <4>2. \A l \in Lcores : /\ ~Switching(t, l)
                              /\ Switching(t, l)' => ~Pointed(t, l)'
                              /\ Switching(t, l)' <=> get_socketid(l) = s
                              /\ Past(t, l)' <=> Past(t, l)
        BY <3>1, <3>2 DEF Switching, Pointed, Past, OnSocket
      <4>3. WriterInv(t)'
        BY <3>1, <3>2 DEF WriterInv
      <4>4. PointerInv(t)'
        BY <3>1, <3>3, <4>1, <4>2 DEF PointerInv, WriterInv
      <4>5. PacketInv(t)'
        BY <3>1, <3>3, <4>1, <4>2 DEF PacketInv
      <4> QED
        BY <4>3, <4>4, <4>5
    <3> QED
      BY <3>1, <3>3, UpdateGoesOn
  <2>3. ASSUME NEW t \in Threads, PointLcore(t) PROVE IInv'
    <3> DEFINE s == socketid[t]
               k == First(todo[t])
    <3>1. /\ pc[t] = "switch" /\ pc' = [pc EXCEPT ![t] = "activate"]
          /\ tables' = [tables EXCEPT ![k] = next_replica[t]]
          /\ UNCHANGED <<active_replica, held, socketid, next_replica, todo, update,
                         drain, made, mixed>>
      BY <2>3 DEF PointLcore
    <3>2. pc'[t] = "activate"
      BY <2>0, <3>1 DEF TypeOK
    <3>3. k \in todo[t] /\ k \in Lcores /\ get_socketid(k) = s
      <4>1. k \in todo[t] /\ todo[t] \subseteq SwitchedOn(s)
        BY <2>0, <2>3, <3>1, LoopFacts DEF PointLcore, IInv, Base, LoopInv
      <4> QED
        BY <4>1, SocketsAgree DEF SocketsAgree, SwitchedOn
    <3>4. tables'[k] = next_replica[t] /\ \A l \in Lcores \ {k} : tables'[l] = tables[l]
      BY <2>0, <3>1, <3>3 DEF TypeOK
    <3>5. ASSUME Alone(t), Apart' <=> Apart
          PROVE  WriterInv(t)' /\ PointerInv(t)' /\ PacketInv(t)'
      <4>1. WriterInv(t) /\ PointerInv(t) /\ PacketInv(t)
        BY <3>5 DEF IInv, AloneInv
      <4>2. \A l \in Lcores : /\ Switching(t, l)' <=> Switching(t, l)
                              /\ Pointed(t, l)' <=> Pointed(t, l) \/ l = k
                              /\ Past(t, l)' <=> Past(t, l)
        BY <3>1, <3>2 DEF Switching, Pointed, Past
      <4>3. WriterInv(t)'
        BY <3>1, <3>2 DEF WriterInv
      <4>4. Switching(t, k)
        BY <3>1, <3>3 DEF Switching
      <4>5. PointerInv(t)'
        <5> SUFFICES ASSUME NEW l \in Lcores
                     PROVE /\ (Apart \/ Past(t, l)) /\ ~Switching(t, l)
                                => tables'[l] = active_replica[get_socketid(l)]
                           /\ Switching(t, l) /\ (Pointed(t, l) \/ l = k)
                                => tables'[l] = next_replica[t]
                           /\ Apart /\ Switching(t, l) /\ ~(Pointed(t, l) \/ l = k)
                                => tables'[l] # next_replica[t]
          BY <3>1, <3>5, <4>2 DEF PointerInv
        <5>1. CASE l = k
          BY <3>4, <4>4, <5>1
        <5>2. CASE l # k
          BY <3>4, <4>1, <5>2 DEF PointerInv
        <5> QED
          BY <5>1, <5>2
      <4>6. PacketInv(t)'
        BY <3>1, <3>2, <3>5, <4>1, <4>2 DEF PacketInv
      <4> QED
        BY <4>3, <4>5, <4>6
    <3> QED
      BY <3>1, <3>5, UpdateGoesOn
  <2>4. ASSUME NEW t \in Threads, Activate(t) PROVE IInv'
    <3> DEFINE s == socketid[t]
               k == First(todo[t])
    <3>1. /\ pc[t] = "activate" /\ pc' = [pc EXCEPT ![t] = "switch"]
          /\ active_replica' = [active_replica EXCEPT ![s] = next_replica[t]]
          /\ todo'[t] = todo[t] \ {k}
          /\ UNCHANGED <<tables, held, socketid, next_replica, update, drain, made,
                         mixed>>
      BY <2>0, <2>4 DEF Activate, TypeOK
    <3>2. pc'[t] = "switch"
      BY <2>0, <3>1 DEF TypeOK
    <3>3. s \in Sockets /\ active_replica'[s] = next_replica[t]
          /\ \A x \in Sockets \ {s} : active_replica'[x] = active_replica[x]
      BY <2>0, <3>1 DEF IInv, Base, LoopInv, TypeOK
    <3>4. ASSUME Alone(t), Apart' <=> Apart
          PROVE  WriterInv(t)' /\ PointerInv(t)' /\ PacketInv(t)'
      <4>1. WriterInv(t) /\ PointerInv(t) /\ PacketInv(t)
        BY <3>4 DEF IInv, AloneInv
      <4>2. \A l \in Lcores : /\ Switching(t, l)' <=> Switching(t, l)
                              /\ Pointed(t, l)' <=> Pointed(t, l)
                              /\ Past(t, l)' <=> Past(t, l)
        BY <3>1, <3>2 DEF Switching, Pointed, Past
      <4>3. \A l \in Lcores : ~Switching(t, l)
                                 => active_replica'[get_socketid(l)]
                                    = active_replica[get_socketid(l)]
        BY <2>0, <3>1, <3>3 DEF Switching
      <4>4. WriterInv(t)'
        BY <3>1, <3>2, <3>3 DEF WriterInv
      <4>5. PointerInv(t)'
        BY <3>1, <3>4, <4>1, <4>2, <4>3 DEF PointerInv
      <4>6. PacketInv(t)'
        <5>1. \A l \in Lcores : ~(pc[t] = "sleep" /\ get_socketid(l) = socketid[t]
                                  /\ l \in drain[t])
          BY <3>1
        <5> QED
          BY <3>1, <3>2, <3>4, <4>1, <4>2, <4>3, <5>1 DEF PacketInv
      <4> QED
        BY <4>4, <4>5, <4>6
    <3> QED
      BY <3>1, <3>4, UpdateGoesOn
  <2>5. ASSUME NEW t \in Threads, StartSleep(t) PROVE IInv'
    <3> DEFINE s == socketid[t]
    <3>1. /\ pc[t] = "switch" /\ pc' = [pc EXCEPT ![t] = "sleep"] /\ todo[t] = {}
          /\ drain'[t] = {l \in Lcores \ Slow : held[l] # None}
          /\ UNCHANGED <<tables, active_replica, held, socketid, next_replica, todo,
                         update, made, mixed>>
      BY <2>0, <2>5 DEF StartSleep, TypeOK
    <3>2. pc'[t] = "sleep" /\ s \in Sockets /\ OnSocket(s) # {}
      BY <2>0, <3>1, SocketFacts DEF TypeOK, IInv, Base, LoopInv
    <3>3. ASSUME Alone(t), Apart' <=> Apart
          PROVE  WriterInv(t)' /\ PointerInv(t)' /\ PacketInv(t)'
      <4>1. WriterInv(t) /\ PointerInv(t) /\ PacketInv(t)
        BY <3>3 DEF IInv, AloneInv
      <4>2. active_replica[s] = next_replica[t]
        BY <3>1, <3>2, <4>1 DEF WriterInv
      <4>3. \A l \in Lcores : /\ ~Switching(t, l)'
                              /\ Switching(t, l) <=> get_socketid(l) = s
                              /\ Pointed(t, l)
                              /\ Past(t, l)' <=> Past(t, l) \/ get_socketid(l) = s
        BY <3>1, <3>2 DEF Switching, Pointed, Past
      <4>4. WriterInv(t)'
        BY <3>1, <3>2, <4>2 DEF WriterInv
      <4>5. PointerInv(t)'
        BY <3>1, <3>3, <4>1, <4>2, <4>3 DEF PointerInv
      <4>6. PacketInv(t)'
        BY <3>1, <3>2, <3>3, <4>1, <4>3 DEF PacketInv
      <4> QED
        BY <4>4, <4>5, <4>6
    <3> QED
      BY <3>1, <3>3, UpdateGoesOn
  <2>6. ASSUME NEW t \in Threads, EndSleep(t) PROVE IInv'
    <3>1. /\ pc[t] = "sleep" /\ pc' = [pc EXCEPT ![t] = "write_others"] /\ drain[t] = {}
          /\ UNCHANGED <<tables, active_replica, held, socketid, next_replica, update,
                         drain, made, mixed>>
      BY <2>6 DEF EndSleep
    <3>2. pc'[t] = "write_others"
      BY <2>0, <3>1 DEF TypeOK
    <3>3. ASSUME Alone(t), Apart' <=> Apart
          PROVE  WriterInv(t)' /\ PointerInv(t)' /\ PacketInv(t)'
      <4>1. WriterInv(t) /\ PointerInv(t) /\ PacketInv(t)
        BY <3>3 DEF IInv, AloneInv
      <4>2. \A l \in Lcores : /\ ~Switching(t, l)' /\ ~Switching(t, l)
                              /\ Past(t, l)' <=> Past(t, l)
        BY <3>1, <3>2 DEF Switching, Past
      <4>3. WriterInv(t)'
        BY <3>1, <3>2, <4>1 DEF WriterInv
      <4>4. PointerInv(t)'
        BY <3>1, <3>3, <4>1, <4>2 DEF PointerInv
      <4>5. PacketInv(t)'
        BY <3>1, <3>2, <3>3, <4>1, <4>2 DEF PacketInv
      <4> QED
        BY <4>3, <4>4, <4>5
    <3> QED
      BY <3>1, <3>3, UpdateGoesOn
  <2>7. ASSUME NEW t \in Threads, WriteOther(t) PROVE IInv'
    <3>1. /\ pc[t] = "write_others" /\ pc' = [pc EXCEPT ![t] = "write_others"]
          /\ UNCHANGED <<tables, active_replica, held, socketid, next_replica, update,
                         drain, made, mixed>>
      BY <2>0, <2>7 DEF WriteOther, TypeOK
    <3>2. pc'[t] = "write_others"
      BY <2>0, <3>1 DEF TypeOK
    <3>3. ASSUME Alone(t), Apart' <=> Apart
          PROVE  WriterInv(t)' /\ PointerInv(t)' /\ PacketInv(t)'
      <4>1. WriterInv(t) /\ PointerInv(t) /\ PacketInv(t)
        BY <3>3 DEF IInv, AloneInv
      <4>2. \A l \in Lcores : /\ ~Switching(t, l)' /\ ~Switching(t, l)
                              /\ Past(t, l)' <=> Past(t, l)
        BY <3>1, <3>2 DEF Switching, Past
      <4>3. WriterInv(t)'
        BY <3>1, <3>2, <4>1 DEF WriterInv
      <4>4. PointerInv(t)'
        BY <3>1, <3>3, <4>1, <4>2 DEF PointerInv
      <4>5. PacketInv(t)'
        BY <3>1, <3>2, <3>3, <4>1, <4>2 DEF PacketInv
      <4> QED
        BY <4>3, <4>4, <4>5
    <3> QED
      BY <3>1, <3>3, UpdateGoesOn
  <2>8. ASSUME NEW t \in Threads, EndSocket(t), Later(Sockets, socketid[t]) # {}
        PROVE  IInv'
    <3> DEFINE s == socketid[t]
               n == First(Later(Sockets, s))
    <3>1. StartSocket(t, n) /\ pc[t] = "write_others"
          /\ UNCHANGED <<tables, active_replica, held, todo, update, drain, made, mixed>>
      BY <2>8 DEF EndSocket
    <3>2. n \in Sockets /\ n > s /\ \A x \in Sockets : x > s => n <= x
      <4>1. /\ Later(Sockets, s) \subseteq Nat
            /\ \A x \in Later(Sockets, s) : x \in Sockets /\ x > s
            /\ \A x \in Sockets : x > s => x \in Later(Sockets, s)
        BY <2>0 DEF Later
      <4> QED
        BY <2>8, <4>1, FirstIsLeast
    <3>3. /\ pc' = [pc EXCEPT ![t] = "write_next"] /\ pc'[t] = "write_next"
          /\ socketid'[t] = n /\ next_replica'[t] # active_replica[n]
      <4>1. /\ pc' = [pc EXCEPT ![t] = "write_next"]
            /\ socketid' = [socketid EXCEPT ![t] = n]
            /\ next_replica'[t] # active_replica[n]
        BY <2>0, <3>1, <3>2, StartsAside
      <4> QED
        BY <2>0, <4>1 DEF TypeOK
    <3>4. ASSUME Alone(t), Apart' <=> Apart
          PROVE  WriterInv(t)' /\ PointerInv(t)' /\ PacketInv(t)'
      <4>1. WriterInv(t) /\ PointerInv(t) /\ PacketInv(t)
        BY <3>4 DEF IInv, AloneInv
      <4>2. ASSUME NEW l \in Lcores
            PROVE  /\ ~Switching(t, l)' /\ ~Switching(t, l)
                   /\ Past(t, l)' <=> Past(t, l)
        <5>1. s \in Nat /\ n \in Nat /\ get_socketid(l) \in Nat /\ get_socketid(l) \in Sockets
          BY <2>0, <3>1, <3>2 DEF IInv, Base, LoopInv
        <5>2. get_socketid(l) < n <=> get_socketid(l) < s \/ get_socketid(l) = s
          BY <3>2, <5>1
        <5> QED
          BY <3>1, <3>3, <5>2 DEF Switching, Past
      <4>3. WriterInv(t)'
        BY <3>1, <3>3 DEF WriterInv
      <4>4. PointerInv(t)'
        BY <3>1, <3>4, <4>1, <4>2 DEF PointerInv
      <4>5. PacketInv(t)'
        BY <3>1, <3>3, <3>4, <4>1, <4>2 DEF PacketInv
      <4> QED
        BY <4>3, <4>4, <4>5
    <3> QED
      BY <3>1, <3>3, <3>4, UpdateGoesOn
  <2>9. ASSUME NEW t \in Threads, EndSocket(t), Later(Sockets, socketid[t]) = {}
        PROVE  IInv'
    <3> DEFINE s == socketid[t]
               o == Other(t)
    <3>1. /\ pc[t] = "write_others" /\ pc'[t] = "idle"
          /\ \A u \in Threads \ {t} : pc'[u] = pc[u]
          /\ UNCHANGED <<tables, active_replica, held, socketid, next_replica, todo,
                         update, drain, made, mixed>>
      BY <2>0, <2>9 DEF EndSocket, TypeOK
    <3>2. o \in Threads /\ o # t /\ Other(o) = t /\ \A u \in Threads : u = t \/ u = o
      BY OtherThread
    <3>3. AloneInv'
      <4>1. ~Alone(t)'
        BY <3>1 DEF Alone
      <4>2. Alone(o)' => Alone(o) /\ pc[o] # "idle"
        BY <3>1, <3>2 DEF Alone
      <4>3. ~Alone(o)'
        BY <3>1, <3>2, <4>2, AloneFacts DEF IInv
      <4> QED
        BY <3>2, <4>1, <4>3 DEF AloneInv
    <3>4. Apart' => Alone(t)
      <4>1. CASE Apart
        BY <3>1, <4>1, AloneFacts DEF IInv
      <4>2. ASSUME NEW n \in 1 .. made, Ended(n)', ~Ended(n), \A p \in mixed : p[2] < n
            PROVE  Alone(t)
        <5>1. n = update[t]
          BY <3>1, <4>2 DEF Ended
        <5> QED
          BY <3>1, <4>2, <5>1 DEF Alone
      <4> QED
        BY <3>1, <4>1, <4>2 DEF Apart
    <3>5. ASSUME Alone(t), NEW l \in Lcores
          PROVE  /\ tables[l] = active_replica[get_socketid(l)]
                 /\ l \notin Slow => held[l] \in {None, active_replica[get_socketid(l)]}
      <4>1. PointerInv(t) /\ PacketInv(t)
        BY <3>5 DEF IInv, AloneInv
      <4>2. s \in Nat /\ get_socketid(l) \in Nat /\ ~(get_socketid(l) > s)
        BY <2>0, <2>9, <3>1 DEF Later, IInv, Base, LoopInv
      <4>3. Past(t, l)
        BY <3>1, <4>2 DEF Past
      <4>4. ~Switching(t, l)
        BY <3>1 DEF Switching
      <4> QED
        BY <3>1, <4>1, <4>3, <4>4 DEF PointerInv, PacketInv
    <3>6. RestInv'
      BY <3>1, <3>4, <3>5 DEF RestInv
    <3> QED
      BY <3>3, <3>6 DEF IInv
  <2>10. ASSUME NEW l \in Lcores, do_handle_packet(l) PROVE IInv'
    <3>1. /\ held' = [held EXCEPT ![l] = tables[l]]
          /\ UNCHANGED <<tables, active_replica, writers, made, mixed>>
      BY <2>10 DEF do_handle_packet
    <3>2. Apart' = Apart /\ \A t \in Threads : Alone(t)' = Alone(t)
      BY <3>1 DEF Apart, Ended, Alone, writers
    <3>3. held'[l] = tables[l] /\ \A k \in Lcores \ {l} : held'[k] = held[k]
      BY <2>0, <3>1 DEF TypeOK
    <3>4. RestInv'
      BY <3>1, <3>2, <3>3 DEF IInv, RestInv, Idle, writers
    <3>5. ASSUME NEW t \in Threads, Alone(t)
          PROVE  WriterInv(t)' /\ PointerInv(t)' /\ PacketInv(t)'
      <4>1. WriterInv(t) /\ PointerInv(t) /\ PacketInv(t)
        BY <3>5 DEF IInv, AloneInv
      <4>2. \A k \in Lcores : /\ Switching(t, k)' <=> Switching(t, k)
                              /\ Pointed(t, k)' <=> Pointed(t, k)
                              /\ Past(t, k)' <=> Past(t, k)
        BY <3>1 DEF Switching, Pointed, Past, writers
      <4>3. WriterInv(t)' /\ PointerInv(t)'
        BY <3>1, <3>2, <4>1, <4>2 DEF WriterInv, PointerInv, writers
      <4>4. PacketInv(t)'
        BY <3>1, <3>2, <3>3, <4>1, <4>2 DEF PacketInv, PointerInv, writers
      <4> QED
        BY <4>3, <4>4
    <3> QED
      BY <3>2, <3>4, <3>5 DEF IInv, AloneInv
  <2>11. ASSUME NEW l \in Lcores, PacketDone(l) PROVE IInv'
    <3>1. /\ held' = [held EXCEPT ![l] = None]
          /\ drain' = [t \in Threads |-> drain[t] \ {l}]
          /\ UNCHANGED <<tables, active_replica, pc, socketid, next_replica, todo, update,
                         made, mixed>>
      BY <2>11 DEF PacketDone
    <3>2. Apart' = Apart /\ \A t \in Threads : Alone(t)' = Alone(t)
      BY <3>1 DEF Apart, Ended, Alone
    <3>3. held'[l] = None /\ \A k \in Lcores \ {l} : held'[k] = held[k]
      BY <2>0, <3>1 DEF TypeOK
    <3>4. RestInv'
      BY <3>1, <3>2, <3>3 DEF IInv, RestInv, Idle
    <3>5. ASSUME NEW t \in Threads, Alone(t)
          PROVE  WriterInv(t)' /\ PointerInv(t)' /\ PacketInv(t)'
      <4>1. WriterInv(t) /\ PointerInv(t) /\ PacketInv(t)
        BY <3>5 DEF IInv, AloneInv
      <4>2. \A k \in Lcores : /\ Switching(t, k)' <=> Switching(t, k)
                              /\ Pointed(t, k)' <=> Pointed(t, k)
                              /\ Past(t, k)' <=> Past(t, k)
        BY <3>1 DEF Switching, Pointed, Past
      <4>3. WriterInv(t)' /\ PointerInv(t)'
        BY <3>1, <3>2, <4>1, <4>2 DEF WriterInv, PointerInv
      <4>4. drain'[t] = drain[t] \ {l}
        BY <3>1
      <4>5. PacketInv(t)'
        BY <3>1, <3>2, <3>3, <4>1, <4>2, <4>4 DEF PacketInv
      <4> QED
        BY <4>3, <4>5
    <3> QED
      BY <3>2, <3>4, <3>5 DEF IInv, AloneInv
  <2>12. CASE UNCHANGED <<tables, active_replica, held, writers, made, mixed>>
    <3>1. Apart' = Apart /\ \A t \in Threads : Alone(t)' = Alone(t)
      BY <2>12 DEF Apart, Ended, Alone, writers
    <3>2. \A t \in Threads : /\ WriterInv(t)' = WriterInv(t)
                             /\ PointerInv(t)' = PointerInv(t)
                             /\ PacketInv(t)' = PacketInv(t)
      BY <2>12, <3>1 DEF WriterInv, PointerInv, PacketInv, Switching, Pointed, Past, writers
    <3>3. RestInv' = RestInv
      BY <2>12, <3>1 DEF RestInv, Idle, writers
    <3> QED
      BY <3>1, <3>2, <3>3 DEF IInv, AloneInv
  <2>13. HandleUpdate \/ init_table_default_actions => IInv'
    BY <2>1 DEF HandleUpdate, init_table_default_actions, Threads
  <2>14. ctrl_initialized \/ launch_dpdk => IInv'
    BY <2>12 DEF ctrl_initialized, launch_dpdk
  <2>15. UNCHANGED vars => IInv'
    BY <2>12 DEF vars
  <2> QED
    BY <2>2, <2>3, <2>4, <2>5, <2>6, <2>7, <2>8, <2>9, <2>10, <2>11, <2>13, <2>14, <2>15
       DEF Next, Update, change_replica
<1>3. Base /\ AloneInv /\ RestInv => IInv
  BY DEF IInv
<1> QED
  BY <1>1, <1>2, <1>3, BaseInvariant, PTL DEF Spec

\* Nobody reads a replica that is being written while updates are apart, whatever
\* the timing of the lcores, if their packets do not outlast the sleep.
THEOREM WritesAreExclusive == ASSUME SocketsAgree PROVE Spec => []ExclusiveWrite
<1>1. IInv => ExclusiveWrite
  <2> SUFFICES ASSUME IInv, Apart, NEW l \in Lcores \ Slow, NEW t \in Threads,
                      NEW r \in Replicas, Writing(t, get_socketid(l), r)
               PROVE  held[l] # r /\ tables[l] # r
    BY DEF ExclusiveWrite
  <2>1. /\ get_socketid(l) = socketid[t]
        /\ pc[t] \in {"write_next", "write_others"}
    BY DEF Writing
  <2>2. WriterInv(t) /\ PointerInv(t) /\ PacketInv(t)
    BY <2>1, AloneFacts DEF IInv, AloneInv
  <2>3. r # active_replica[socketid[t]]
    <3>1. CASE pc[t] = "write_next"
      BY <2>1, <2>2, <3>1 DEF Writing, WriterInv
    <3>2. CASE pc[t] = "write_others"
      BY <2>1, <2>2, <3>2, LoopFacts DEF Writing, WriterInv, IInv, Base, LoopInv
    <3> QED
      BY <2>1, <3>1, <3>2
  <2>4. ~Switching(t, l)
    BY <2>1 DEF Switching
  <2>5. tables[l] = active_replica[socketid[t]]
    BY <2>1, <2>2, <2>4 DEF PointerInv
  <2>6. held[l] \in {None, active_replica[socketid[t]]}
    BY <2>1, <2>2, <2>4 DEF PacketInv
  <2>7. None # r
    BY NoneAssumption, ReplicaAssumption DEF Replicas
  <2> QED
    BY <2>3, <2>5, <2>6, <2>7
<1> QED
  BY <1>1, Inductive, PTL

\* Between updates every lcore uses the active replica of its socket, if the last
\* one ran alone or none ever overlapped.
THEOREM LcoresFollowActive == ASSUME SocketsAgree PROVE Spec => []LcoresFollow
<1>1. IInv => LcoresFollow
  BY DEF IInv, RestInv, LcoresFollow
<1> QED
  BY <1>1, Inductive, PTL
-----------------------------------------------------------------------------
\* Up to the first overlap every replica holds every update up to the one being
\* made, in order.

Updates(n) == [i \in 1 .. n |-> i]
Behind(s, r) == \E t \in Threads : pc[t] # "idle" /\ ~Updated(t, s, r)
ExactInv == mixed = {} =>
               \A s \in Sockets, r \in Replicas :
                  content[s][r] = Updates(IF Behind(s, r) THEN made - 1 ELSE made)

\* One more update at the end.
LEMMA OneMoreUpdate ==
    ASSUME NEW n \in Nat
    PROVE  /\ Updates(n) \in Seq(Nat)
           /\ Len(Updates(n)) = n
           /\ Append(Updates(n), n + 1) = Updates(n + 1)
<1>1. Updates(n) \in Seq(Nat) /\ Len(Updates(n)) = n
  BY DEF Updates
<1>2. /\ Append(Updates(n), n + 1) \in Seq(Nat)
      /\ Len(Append(Updates(n), n + 1)) = n + 1
      /\ \A i \in 1 .. n : Append(Updates(n), n + 1)[i] = i
      /\ Append(Updates(n), n + 1)[n + 1] = n + 1
  BY <1>1, AppendProperties DEF Updates
<1>3. \A i \in 1 .. n + 1 : i \in 1 .. n \/ i = n + 1
  OBVIOUS
<1>4. \A i \in 1 .. n + 1 : Append(Updates(n), n + 1)[i] = i
  BY <1>2, <1>3
<1>5. Append(Updates(n), n + 1) = [i \in 1 .. n + 1 |-> Append(Updates(n), n + 1)[i]]
  BY <1>2, LenProperties
<1> QED
  BY <1>1, <1>4, <1>5 DEF Updates

\* While no updates have overlapped the one being made is the last one begun.
LEMMA LastUpdate ==
    ASSUME Base, mixed = {}, NEW t \in Threads, pc[t] # "idle"
    PROVE  /\ pc[Other(t)] = "idle" /\ update[t] = made
           /\ made \in Nat /\ made - 1 \in Nat /\ (made - 1) + 1 = made
           /\ \A s, r : Behind(s, r) <=> ~Updated(t, s, r)
<1>1. pc[Other(t)] = "idle"
  BY AloneFacts DEF Apart
<1>2. update[t] \in 1 .. made /\ made \in Nat
  BY DEF Base, TypeOK, NumberInv
<1>3. ~(made > update[t])
  BY <1>2 DEF Base, NumberInv
<1>4. \A o \in Threads : pc[o] # "idle" => o = t
  BY <1>1, OtherThread
<1> QED
  BY <1>1, <1>2, <1>3, <1>4 DEF Behind

\* What every replica holds at each step, while no updates have overlapped.
THEOREM ExactContents == Spec => []ExactInv
<1>1. Init => ExactInv
  BY DEF Init, ExactInv, Behind, Updates
<1>2. Base /\ ExactInv /\ [Next]_vars => ExactInv'
  <2> SUFFICES ASSUME Base, ExactInv, [Next]_vars, mixed' = {},
                      NEW s \in Sockets, NEW r \in Replicas
               PROVE  content'[s][r] = Updates(IF Behind(s, r)' THEN made' - 1 ELSE made')
    BY DEF ExactInv
  <2>0. TypeOK /\ made \in Nat /\ Sockets \subseteq Nat /\ s \in Nat
    BY SocketFacts DEF Base, TypeOK
  <2>1. ASSUME NEW t \in Threads, promote(t)
        PROVE  content'[s][r] = Updates(IF Behind(s, r)' THEN made' - 1 ELSE made')
    <3> DEFINE f == First(Sockets)
    <3>1. f \in Sockets /\ StartSocket(t, f) /\ UNCHANGED content /\ f \in Nat
      BY <2>0, <2>1, LoopFacts DEF promote
    <3>2. /\ made' = made + 1 /\ pc[t] = "idle" /\ pc'[t] = "write_next"
          /\ pc[Other(t)] = "idle" /\ mixed' = mixed
      <4>1. NumberInv
        BY DEF Base
      <4> QED
        BY <2>0, <2>1, <4>1, PromoteNumbers DEF TypeOK, promote
    <3>3. ~Behind(s, r)
      BY <3>2, OtherThread DEF Behind
    <3>4. socketid'[t] = f /\ ~(s < f)
      <4>1. f <= s
        BY <2>0, FirstIsLeast
      <4> QED
        BY <2>0, <3>1, <4>1 DEF StartSocket, TypeOK
    <3>5. Behind(s, r)'
      BY <3>2, <3>4 DEF Behind, Updated
    <3>6. content[s][r] = Updates(made)
      BY <3>2, <3>3 DEF ExactInv
    <3> QED
      BY <2>0, <3>1, <3>2, <3>5, <3>6
  <2>2. ASSUME NEW t \in Threads, Update(t)
        PROVE  content'[s][r] = Updates(IF Behind(s, r)' THEN made' - 1 ELSE made')
    <3> DEFINE s0 == socketid[t]
    <3>0. /\ pc[t] # "idle" /\ UNCHANGED <<made, mixed>>
          /\ pc'[Other(t)] = pc[Other(t)]
      <4>1. Other(t) # t /\ Other(t) \in Threads
        BY OtherThread
      <4> QED
        BY <2>0, <2>2, <4>1 DEF Update, WriteNext, change_replica, PointLcore, Activate,
           StartSleep, EndSleep, WriteOther, EndSocket, StartSocket, TypeOK
    <3>1. /\ pc[Other(t)] = "idle" /\ update[t] = made
          /\ made \in Nat /\ made - 1 \in Nat /\ (made - 1) + 1 = made
          /\ Behind(s, r) <=> ~Updated(t, s, r)
      BY <3>0, LastUpdate
    <3>2. Behind(s, r)' <=> pc'[t] # "idle" /\ ~Updated(t, s, r)'
      BY <3>0, <3>1, OtherThread DEF Behind
    <3>3. content[s][r] = Updates(IF Updated(t, s, r) THEN made ELSE made - 1)
      BY <3>0, <3>1 DEF ExactInv
    <3>4. s0 \in Sockets /\ s0 \in Nat /\ next_replica[t] \in Replicas
      BY <2>0, <3>0 DEF Base, LoopInv, TypeOK
    <3>5. ASSUME NEW r0 \in Replicas, Written(t, r0), ~Updated(t, s0, r0), pc'[t] # "idle",
                 Updated(t, s, r)' <=> Updated(t, s, r) \/ (s = s0 /\ r = r0)
          PROVE  content'[s][r] = Updates(IF Behind(s, r)' THEN made' - 1 ELSE made')
      <4>1. CASE s = s0 /\ r = r0
        <5>1. content'[s][r] = Append(content[s][r], made)
          BY <2>0, <3>1, <3>4, <3>5, <4>1 DEF Written, TypeOK
        <5>2. content[s][r] = Updates(made - 1)
          BY <3>3, <3>5, <4>1
        <5>3. content'[s][r] = Updates(made)
          BY <3>1, <5>1, <5>2, OneMoreUpdate
        <5> QED
          BY <3>0, <3>2, <3>5, <4>1, <5>3
      <4>2. CASE ~(s = s0 /\ r = r0)
        <5>1. content'[s][r] = content[s][r]
          BY <2>0, <3>4, <3>5, <4>2 DEF Written, TypeOK
        <5> QED
          BY <3>0, <3>2, <3>3, <3>5, <4>2, <5>1
      <4> QED
        BY <4>1, <4>2
    <3>6. ASSUME UNCHANGED content, Updated(t, s, r) <=> pc'[t] = "idle" \/ Updated(t, s, r)'
          PROVE  content'[s][r] = Updates(IF Behind(s, r)' THEN made' - 1 ELSE made')
      BY <3>0, <3>2, <3>3, <3>6
    <3>7. CASE WriteNext(t)
      <4>1. /\ pc[t] = "write_next" /\ pc'[t] = "switch" /\ Written(t, next_replica[t])
            /\ UNCHANGED <<socketid, next_replica>>
        BY <2>0, <3>7 DEF WriteNext, TypeOK
      <4>2. Updated(t, s, r)' <=> Updated(t, s, r) \/ (s = s0 /\ r = next_replica[t])
        BY <4>1 DEF Updated
      <4>3. ~Updated(t, s0, next_replica[t])
        BY <3>4, <4>1 DEF Updated
      <4> QED
        BY <3>4, <3>5, <4>1, <4>2, <4>3
    <3>8. CASE WriteOther(t)
      <4> DEFINE r0 == First(todo[t])
      <4>1. /\ pc[t] = "write_others" /\ pc' = pc /\ Written(t, r0)
            /\ todo'[t] = todo[t] \ {r0}
            /\ UNCHANGED <<socketid, next_replica>>
        BY <2>0, <3>8 DEF WriteOther, TypeOK
      <4>2. r0 \in todo[t] /\ r0 \in Replicas
        BY <2>0, <3>8, LoopFacts DEF WriteOther, Base, LoopInv
      <4>3. Updated(t, s, r)' <=> Updated(t, s, r) \/ (s = s0 /\ r = r0)
        BY <4>1 DEF Updated
      <4>4. ~Updated(t, s0, r0)
        BY <3>4, <4>1, <4>2 DEF Updated
      <4> QED
        BY <3>0, <3>5, <4>1, <4>2, <4>3, <4>4
    <3>9. CASE change_replica(t) \/ StartSleep(t)
      <4>1. /\ pc[t] \in {"switch", "activate"} /\ pc'[t] \in {"switch", "activate", "sleep"}
            /\ UNCHANGED <<content, socketid, next_replica>>
        BY <2>0, <3>9 DEF change_replica, PointLcore, Activate, StartSleep, TypeOK
      <4>2. Updated(t, s, r) <=> pc'[t] = "idle" \/ Updated(t, s, r)'
        BY <4>1 DEF Updated
      <4> QED
        BY <3>6, <4>1, <4>2
    <3>10. CASE EndSleep(t)
      <4>1. /\ pc[t] = "sleep" /\ pc'[t] = "write_others"
            /\ todo'[t] = Replicas \ {next_replica[t]}
            /\ UNCHANGED <<content, socketid, next_replica>>
        BY <2>0, <3>10 DEF EndSleep, TypeOK
      <4>2. Updated(t, s, r) <=> pc'[t] = "idle" \/ Updated(t, s, r)'
        BY <4>1 DEF Updated
      <4> QED
        BY <3>6, <4>1, <4>2
    <3>11. CASE EndSocket(t) /\ Later(Sockets, s0) # {}
      <4> DEFINE n == First(Later(Sockets, s0))
      <4>1. StartSocket(t, n) /\ pc[t] = "write_others" /\ todo[t] = {}
            /\ UNCHANGED <<content, todo>>
        BY <3>11 DEF EndSocket
      <4>2. pc'[t] = "write_next" /\ socketid'[t] = n
        BY <2>0, <4>1 DEF StartSocket, TypeOK
      <4>3. /\ Later(Sockets, s0) \subseteq Nat
            /\ \A x \in Later(Sockets, s0) : x \in Sockets /\ x > s0
            /\ \A x \in Sockets : x > s0 => x \in Later(Sockets, s0)
        BY <2>0 DEF Later
      <4>4. n \in Sockets /\ n > s0 /\ \A x \in Sockets : x > s0 => n <= x
        BY <3>11, <4>3, FirstIsLeast
      <4>5. n \in Nat /\ (s > s0 => n <= s)
        BY <2>0, <4>4
      <4>6. s < n <=> s < s0 \/ s = s0
        BY <2>0, <3>4, <4>4, <4>5
      <4>7. Updated(t, s, r) <=> s < s0 \/ s = s0
        BY <4>1 DEF Updated
      <4>8. Updated(t, s, r)' <=> s < n
        BY <4>2 DEF Updated
      <4> QED
        BY <3>6, <4>1, <4>2, <4>6, <4>7, <4>8
    <3>12. CASE EndSocket(t) /\ Later(Sockets, s0) = {}
      <4>1. pc[t] = "write_others" /\ todo[t] = {} /\ pc'[t] = "idle" /\ UNCHANGED content
        BY <2>0, <3>12 DEF EndSocket, TypeOK
      <4>2. s < s0 \/ s = s0
        BY <2>0, <3>4, <3>12 DEF Later
      <4>3. Updated(t, s, r)
        BY <4>1, <4>2 DEF Updated
      <4> QED
        BY <3>6, <4>1, <4>3
    <3> QED
      BY <2>2, <3>7, <3>8, <3>9, <3>10, <3>11, <3>12 DEF Update
  <2>3. CASE UNCHANGED <<content, pc, socketid, next_replica, todo, made, mixed>>
    <3>1. Behind(s, r)' = Behind(s, r)
      BY <2>3 DEF Behind, Updated
    <3> QED
      BY <2>3, <3>1 DEF ExactInv
  <2>4. HandleUpdate \/ init_table_default_actions
          => content'[s][r] = Updates(IF Behind(s, r)' THEN made' - 1 ELSE made')
    BY <2>1 DEF HandleUpdate, init_table_default_actions, Threads
  <2> QED
    BY <2>2, <2>3, <2>4 DEF Next, ctrl_initialized, launch_dpdk, do_handle_packet,
       PacketDone, vars, writers
<1> QED
  BY <1>1, <1>2, BaseInvariant, PTL DEF Spec
-----------------------------------------------------------------------------
\* The mapped variables of the abstract table.
MapTable == [l \in Lcores |-> TableOf(l)]
MapPacket == [l \in Lcores |-> PacketTable(l)]

\* A step that leaves alone what every pointer and every packet refers to is
\* not seen by the lcores.
LEMMA UnseenWrite ==
    ASSUME UNCHANGED <<tables, held>>,
           \A l \in Lcores :
              /\ content'[get_socketid(l)][tables[l]] = content[get_socketid(l)][tables[l]]
              /\ held[l] # None =>
                   content'[get_socketid(l)][held[l]] = content[get_socketid(l)][held[l]]
    PROVE  UNCHANGED <<MapTable, MapPacket>>
BY DEF MapTable, MapPacket, TableOf, PacketTable

\* While no updates have overlapped and no packet outlasts the sleep, a step of
\* the replicated table is a step of the table of snapshots, or unseen.
LEMMA StepsAreSnapshots ==
    ASSUME SocketsAgree, Slow = {}, IInv, ExactInv, mixed = {}, [Next]_vars
    PROVE  Snapshots!Next \/ UNCHANGED <<MapTable, MapPacket>>
<1>0. Apart /\ TypeOK /\ \A l \in Lcores : get_socketid(l) \in Sockets
  BY SocketFacts DEF Apart, IInv, Base
<1>1. ASSUME NEW t \in Threads, pc[t] # "idle"
      PROVE  /\ WriterInv(t) /\ PointerInv(t) /\ PacketInv(t)
             /\ socketid[t] \in Sockets /\ socketid[t] \in Nat
             /\ next_replica[t] \in Replicas
  <2>1. socketid[t] \in Sockets /\ Sockets \subseteq Nat /\ next_replica[t] \in Replicas
    BY <1>0, <1>1, SocketFacts DEF IInv, Base, LoopInv, TypeOK
  <2>2. Alone(t)
    BY <1>0, <1>1, AloneFacts DEF IInv
  <2> QED
    BY <2>1, <2>2 DEF IInv, AloneInv
<1>2. ASSUME NEW t \in Threads, NEW r \in Replicas, Written(t, r), UNCHANGED <<tables, held>>,
             pc[t] \in {"write_next", "write_others"}, r # active_replica[socketid[t]]
      PROVE  UNCHANGED <<MapTable, MapPacket>>
  <2>1. content' = [content EXCEPT ![socketid[t]][r] = Append(@, update[t])]
        /\ pc[t] # "idle"
    BY <1>2 DEF Written
  <2>2. ASSUME NEW l \in Lcores, get_socketid(l) = socketid[t]
        PROVE  tables[l] # r /\ (held[l] # None => held[l] # r)
    <3>1. PointerInv(t) /\ PacketInv(t)
      BY <1>1, <2>1
    <3>2. ~Switching(t, l)
      BY <1>2 DEF Switching
    <3>3. l \in Lcores \ Slow
      OBVIOUS
    <3>4. tables[l] = active_replica[get_socketid(l)]
      BY <1>0, <3>1, <3>2 DEF PointerInv
    <3>5. held[l] = None \/ held[l] = active_replica[get_socketid(l)]
      BY <1>0, <1>2, <3>1, <3>2, <3>3 DEF PacketInv
    <3> QED
      BY <1>2, <2>2, <3>4, <3>5
  <2>3. \A l \in Lcores, q \in Replicas :
           ~(get_socketid(l) = socketid[t] /\ q = r)
             => content'[get_socketid(l)][q] = content[get_socketid(l)][q]
    BY <1>0, <2>1 DEF TypeOK
  <2>4. \A l \in Lcores : tables[l] \in Replicas /\ (held[l] # None => held[l] \in Replicas)
    BY <1>0 DEF TypeOK
  <2> QED
    BY <1>2, <2>2, <2>3, <2>4, UnseenWrite
<1>3. ASSUME NEW t \in Threads, WriteNext(t) PROVE UNCHANGED <<MapTable, MapPacket>>
  <2>1. /\ pc[t] = "write_next" /\ Written(t, next_replica[t]) /\ UNCHANGED <<tables, held>>
    BY <1>3 DEF WriteNext
  <2>2. next_replica[t] \in Replicas /\ next_replica[t] # active_replica[socketid[t]]
    BY <1>1, <2>1 DEF WriterInv
  <2> QED
    BY <1>2, <2>1, <2>2
<1>4. ASSUME NEW t \in Threads, WriteOther(t) PROVE UNCHANGED <<MapTable, MapPacket>>
  <2>1. /\ pc[t] = "write_others" /\ Written(t, First(todo[t]))
        /\ UNCHANGED <<tables, held>>
    BY <1>4 DEF WriteOther
  <2>2. First(todo[t]) \in Replicas \ {next_replica[t]}
    BY <1>0, <1>4, LoopFacts DEF WriteOther, IInv, Base, LoopInv
  <2>3. active_replica[socketid[t]] = next_replica[t]
    BY <1>1, <2>1 DEF WriterInv
  <2> QED
    BY <1>2, <2>1, <2>2, <2>3
<1>5. ASSUME NEW t \in Threads, PointLcore(t) PROVE Snapshots!Next
  <2> DEFINE s == socketid[t]
  <2>0. PICK k \in Lcores : k = First(todo[t])
    <3>1. First(todo[t]) \in todo[t] /\ todo[t] \subseteq SwitchedOn(s)
      BY <1>0, <1>5, LoopFacts DEF PointLcore, IInv, Base, LoopInv
    <3> QED
      BY <3>1 DEF SwitchedOn
  <2>1. /\ pc[t] = "switch" /\ tables' = [tables EXCEPT ![k] = next_replica[t]]
        /\ UNCHANGED <<content, held>>
    BY <1>5, <2>0 DEF PointLcore
  <2>2. k \in todo[t] /\ k \in Lcores /\ get_socketid(k) = s
    <3>1. k \in todo[t] /\ todo[t] \subseteq SwitchedOn(s)
      BY <1>0, <1>5, <2>0, <2>1, LoopFacts DEF PointLcore, IInv, Base, LoopInv
    <3> QED
      BY <3>1, SocketsAgree DEF SocketsAgree, SwitchedOn
  <2>3. s \in Sockets /\ s \in Nat /\ next_replica[t] \in Replicas /\ PointerInv(t)
    BY <1>1, <2>1
  <2>4. tables[k] # next_replica[t] /\ tables[k] \in Replicas
    BY <1>0, <2>1, <2>2, <2>3 DEF PointerInv, Switching, Pointed, TypeOK
  <2>5. Updated(t, s, next_replica[t]) /\ ~Updated(t, s, tables[k])
    BY <2>1, <2>3, <2>4 DEF Updated
  <2>6. /\ made \in Nat /\ made - 1 \in Nat /\ (made - 1) + 1 = made
        /\ ~Behind(s, next_replica[t]) /\ Behind(s, tables[k])
    BY <2>1, <2>5, LastUpdate DEF IInv
  <2>7. TableOf(k) = Updates(made - 1) /\ TableOf(k)' = Updates(made)
    <3>1. /\ content[s][tables[k]] = Updates(made - 1)
          /\ content[s][next_replica[t]] = Updates(made)
      BY <2>3, <2>4, <2>6 DEF ExactInv
    <3>2. TableOf(k) = content[s][tables[k]]
      BY <2>2 DEF TableOf
    <3>3. TableOf(k)' = content[s][next_replica[t]]
      <4>1. tables'[k] = next_replica[t]
        BY <1>0, <2>1, <2>2 DEF TypeOK
      <4> QED
        BY <2>1, <2>2, <4>1 DEF TableOf
    <3> QED
      BY <3>1, <3>2, <3>3
  <2>8. TableOf(k)' = Append(TableOf(k), Len(TableOf(k)) + 1)
    BY <2>6, <2>7, OneMoreUpdate
  <2>9. \A l \in Lcores \ {k} : TableOf(l)' = TableOf(l)
    BY <1>0, <2>1 DEF TableOf, TypeOK
  <2>10. MapTable' = [MapTable EXCEPT ![k] = Append(@, Len(@) + 1)]
    <3>1. MapTable[k] = TableOf(k) /\ \A l \in Lcores : MapTable[l] = TableOf(l)
      BY <2>2 DEF MapTable
    <3>2. MapTable' = [l \in Lcores |-> TableOf(l)']
      BY DEF MapTable
    <3>3. \A l \in Lcores : TableOf(l)' = IF l = k
                                   THEN Append(MapTable[k], Len(MapTable[k]) + 1)
                                   ELSE MapTable[l]
      <4>1. TableOf(k)' = Append(MapTable[k], Len(MapTable[k]) + 1)
        BY <2>8, <3>1
      <4>2. \A l \in Lcores \ {k} : TableOf(l)' = MapTable[l]
        BY <2>9, <3>1
      <4> QED
        BY <4>1, <4>2
    <3>4. MapTable = [l \in Lcores |-> MapTable[l]]
      BY DEF MapTable
    <3> QED
      BY <2>2, <3>2, <3>3, <3>4, Zenon
  <2>11. MapPacket' = MapPacket
    BY <2>1 DEF MapPacket, PacketTable
  <2> QED
    BY <2>2, <2>10, <2>11 DEF Snapshots!Next, Snapshots!Install, MapTable, MapPacket
<1>6. ASSUME NEW l \in Lcores, do_handle_packet(l) PROVE Snapshots!Next
  <2>1. held[l] = None /\ held' = [held EXCEPT ![l] = tables[l]]
        /\ UNCHANGED <<tables, content>> /\ tables[l] # None
    BY <1>0, <1>6, NoneAssumption, ReplicaAssumption
       DEF do_handle_packet, TypeOK, Replicas
  <2>2. MapPacket' = [MapPacket EXCEPT ![l] = MapTable[l]]
    BY <1>0, <2>1 DEF MapPacket, MapTable, TableOf, PacketTable, TypeOK
  <2>3. MapTable' = MapTable /\ MapPacket[l] = None
    BY <2>1 DEF MapTable, MapPacket, TableOf, PacketTable
  <2> QED
    BY <2>2, <2>3 DEF Snapshots!Next, Snapshots!StartPacket, MapTable, MapPacket
<1>7. ASSUME NEW l \in Lcores, PacketDone(l) PROVE Snapshots!Next
  <2>1. held' = [held EXCEPT ![l] = None] /\ UNCHANGED <<tables, content>>
    BY <1>7 DEF PacketDone
  <2>2. MapPacket' = [MapPacket EXCEPT ![l] = None]
    BY <1>0, <2>1 DEF MapPacket, PacketTable, TypeOK
  <2>3. MapTable' = MapTable
    BY <2>1 DEF MapTable, TableOf
  <2> QED
    BY <2>2, <2>3 DEF Snapshots!Next, Snapshots!FinishPacket, MapTable, MapPacket
<1>8. UNCHANGED <<content, tables, held>> => UNCHANGED <<MapTable, MapPacket>>
  BY DEF MapTable, MapPacket, TableOf, PacketTable
<1> QED
  BY <1>3, <1>4, <1>5, <1>6, <1>7, <1>8
     DEF Next, Update, change_replica, Activate, StartSleep, EndSleep, EndSocket,
         HandleUpdate, init_table_default_actions, promote, ctrl_initialized,
         launch_dpdk, vars

LEMMA SnapshotsInit == Init => Snapshots!Init
BY SocketFacts, ReplicaAssumption DEF Init, Snapshots!Init, TableOf, PacketTable, Replicas

\* Pairs of updates that overlapped are never forgotten.
LEMMA MixedGrows == [Next]_vars /\ mixed' = {} => mixed = {}
BY DEF Next, HandleUpdate, init_table_default_actions, promote, ctrl_initialized,
       launch_dpdk, Update, WriteNext, change_replica, PointLcore, Activate, StartSleep,
       EndSleep, WriteOther, EndSocket, do_handle_packet, PacketDone, vars

\* Up to the first overlap of two updates every packet is processed against one
\* snapshot of the table, and the snapshots of an lcore contain the updates in
\* order, none skipped or doubled, if no packet outlasts the sleep of a thread.
THEOREM PacketsSeeSnapshots ==
    ASSUME SocketsAgree, Slow = {}
    PROVE  Spec => RefinesSnapshotTable
<1>1. IInv /\ ExactInv /\ [Next]_vars =>
        [Snapshots!Next \/ mixed' # {}]_<<MapTable, MapPacket>>
  BY MixedGrows, StepsAreSnapshots
<1> QED
  BY <1>1, SnapshotsInit, Inductive, ExactContents, PTL
     DEF Spec, RefinesSnapshotTable, Snapshots!vars, MapTable, MapPacket

\* With a controller that sends CTRL_INITIALIZED last, that is true for ever: the
\* replicated table implements the table of snapshots.
THEOREM SnapshotsForEver ==
    ASSUME SocketsAgree, Slow = {}, ~Meanwhile
    PROVE  Spec => Snapshots!Spec
<1>1. IInv /\ ExactInv /\ mixed = {} /\ [Next]_vars =>
        [Snapshots!Next]_<<MapTable, MapPacket>>
  BY StepsAreSnapshots
<1> QED
  BY <1>1, SnapshotsInit, Inductive, ExactContents, KeptApart, PTL
     DEF Spec, Snapshots!Spec, Snapshots!vars, MapTable, MapPacket
=============================================================================
