---------------------------- MODULE PacketPathProofs ----------------------------
(***************************************************************************)
(* Proofs about the packets of one lcore, for any number of buffers,       *)
(* ports and contexts, any programs and bursts of any size: no buffer and  *)
(* no context is ever in two places or in none, a suspended handler goes   *)
(* on with its own packet, and what it has done to the packet when it      *)
(* ends is known in every mode.                                            *)
(***************************************************************************)
EXTENDS PacketPath, TLAPS, FiniteSetTheorems, SequenceTheorems, WellFoundedInduction

-----------------------------------------------------------------------------
\* The inductive invariant.

Packets == [prog : Programs \cup {None}, from : Ports \cup {None}, received : Int, len : Int,
            ptrs : Seq(Contexts), done : Seq(Calls)]

TypeInv ==
    /\ TypeOK
    /\ queue \in Seq(Ports) /\ burst \in Seq(Mbufs) /\ meta \in [in : Ports, out : Ports]
    /\ pc = "handle" => pd \in [mbuf : Mbufs, ctx : Contexts \cup {None}, phase : Nat,
                                k : Nat, sync : BOOLEAN]
    /\ txq \in [Ports -> Seq(Mbufs)]
    /\ freeRing \in Seq(Contexts) /\ store \in [Contexts -> Descriptors \cup {None}]
    /\ asyncq \in Seq(Mbufs) /\ dev \in Seq(Mbufs) /\ finished \in Seq(Mbufs)
    /\ taken \in Nat /\ packet \in [Mbufs -> Packets]

\* Where the lcore is in its loop, and what it has then.  The packets of a burst are
\* handled before the next queue is polled; what the device finished is resumed
\* before it is asked again; a handler that is resumed was called by the async loop.
InBurst == \/ pc = "single_rx"
           \/ pc \in {"handle", "strayed", "async", "dequeue", "resume"} /\ after = "single_rx"
LoopInv ==
    /\ IF InBurst THEN queue # << >> ELSE burst = << >>
    /\ pc = "handle" /\ caller = "main" => after = "single_rx"
    /\ finished # << >> \/ taken # 0 =>
          pc = "resume" \/ (pc \in {"handle", "strayed"} /\ caller = "async")
    /\ pending = Len(dev) + taken
    /\ pc = "handle" /\ pd.ctx # None =>
          /\ mode \in {"context", "pd"}
          /\ mode = "pd" => (pd.phase = 0 <=> caller = "main")

\* The places of a buffer and those of a context.
Where == <<free, ToSet(burst), {pd.mbuf : x \in {pc} \cap {"handle", "strayed"}}, InTxq,
           ToSet(asyncq), ToSet(dev), ToSet(finished), lost>>
CtxWhere == <<pool, ToSet(freeRing), Suspended,
              {pd.ctx : x \in {pc} \cap {"handle", "strayed"}}>>

InOne(x, s) == \E i \in DOMAIN s : x \in s[i] /\ \A j \in DOMAIN s : x \in s[j] => j = i

MbufInv ==
    /\ \A m \in Mbufs : InOne(m, Where)
    /\ IsInjective(burst) /\ IsInjective(asyncq) /\ IsInjective(dev) /\ IsInjective(finished)
    /\ \A p \in Ports : IsInjective(txq[p])
    /\ \A p, q \in Ports : p # q => ToSet(txq[p]) \cap ToSet(txq[q]) = {}

CtxInv == (\A c \in Contexts : InOne(c, CtxWhere)) /\ IsInjective(freeRing)

\* The buffers in the crypto machinery and the suspended contexts belong together.
Points(t, c) == t.ptrs # << >> /\ Head(t.ptrs) = c
InCrypto == ToSet(asyncq) \cup ToSet(dev) \cup ToSet(finished)
LinkInv ==
    /\ \A c \in Suspended : /\ store[c].ctx = c /\ store[c].mbuf \in InCrypto
                            /\ Points(packet[store[c].mbuf], c)
    /\ \A m \in InCrypto : \E c \in Suspended : store[c].mbuf = m

\* A packet that was received and is not handled yet.
BurstInv == \A m \in ToSet(burst) :
              packet[m] = [NoPacket EXCEPT !.from = Head(queue), !.received = packet[m].len,
                                           !.len = packet[m].len]

\* The phases of a program whose calls are asynchronous: handlers that are started again
\* make the first call of phase 0, then that of phase 1, up to a phase without a call.
AllAsync(calls) == \A j \in DOMAIN calls : ~calls[j].sync
HasPhase(prog, n) == \E k \in DOMAIN prog.calls : prog.calls[k].phase = n
CallOfPhase(prog, n) ==
    CHOOSE k \in DOMAIN prog.calls : /\ prog.calls[k].phase = n
                                     /\ \A j \in 1 .. k - 1 : prog.calls[j].phase # n
ByPhase(prog) ==
    [i \in {j \in DOMAIN prog.calls : \A q \in 0 .. j - 1 : HasPhase(prog, q)} |->
        prog.calls[CallOfPhase(prog, i - 1)]]

\* SkipsAsync and SyncLengths in the mode m.
Skips(m, p) == \/ m = "off" /\ ~p.sync
               \/ m = "skip"
               \/ m \in {"context", "pd"} /\ p.ctx = None
LeftIn(m, call) == IF m = "pd" /\ call.sync THEN PTR ELSE 0
LengthsIn(m, calls, received) ==
    LET l[i \in 0 .. Len(calls)] ==
          IF i = 0 THEN received
          ELSE SyncLength(calls[i].type, l[i - 1], calls[i].offset) + LeftIn(m, calls[i])
    IN  l

\* A packet is as long as if the operations it has had had been done at once, with no
\* pointer in front but that of a synchronous operation.
HasLength(m, t) ==
    /\ t.len = LengthsIn(m, t.done, Opened(t.prog, t.received))[Len(t.done)]
    /\ t.ptrs # << >> => m = "pd" /\ \E i \in DOMAIN t.done : t.done[i].sync

First(q, n) == [i \in 1 .. n |-> q[i]]

\* The operations of a packet whose handler has a descriptor store: in its first run the
\* synchronous ones, then one of each phase.
FirstRun(p, t) ==
    /\ \A i \in DOMAIN t.done : t.done[i].sync
    /\ \A j \in 1 .. p.k - 1 : t.prog.calls[j].sync \/ t.prog.calls[j].phase # 0
    /\ (\A j \in 1 .. p.k - 1 : t.prog.calls[j].sync) => t.done = First(t.prog.calls, p.k - 1)
    /\ (\A j \in 1 .. p.k - 1 : ~t.prog.calls[j].sync) => t.done = << >>
LaterRun(p, t) ==
    /\ \A j \in 1 .. p.k - 1 : ~t.prog.calls[j].sync /\ t.prog.calls[j].phase # p.phase
    /\ AllAsync(t.prog.calls) => /\ t.done = First(ByPhase(t.prog), p.phase)
                                 /\ \A q \in 0 .. p.phase - 1 : HasPhase(t.prog, q)

\* What a handler with descriptor p has done to its packet t when it runs, in the mode m.
ProgressIn(m, p, t) ==
    /\ t.prog \in Programs /\ t.from \in Ports /\ HasLength(m, t)
    /\ p.k \in 1 .. Len(t.prog.calls) + 1
    /\ Skips(m, p) => t.done = AtOnce(t.prog.calls)[p.k - 1]
    /\ ~Skips(m, p) /\ m # "pd" => t.done = First(t.prog.calls, p.k - 1)
    /\ ~Skips(m, p) /\ m = "pd" => /\ p.phase = 0 => FirstRun(p, t)
                                   /\ p.phase # 0 => LaterRun(p, t)
Progress(p, t) == ProgressIn(mode, p, t)

\* What resume_packet_handling makes of a descriptor and of its packet.
ResumedIn(m, p) == IF m = "context" THEN [p EXCEPT !.k = @ + 1]
                   ELSE [p EXCEPT !.phase = @ + 1, !.k = 1]
Resumed(p) == ResumedIn(mode, p)
Unwrapped(t) == [t EXCEPT !.len = ResumedLength(@), !.ptrs = Tail(@)]

HandlerInv ==
    /\ pc = "handle" => Progress(pd, packet[pd.mbuf])
    /\ \A c \in Suspended : /\ mode \in {"context", "pd"}
                            /\ Progress(Resumed(store[c]), Unwrapped(packet[store[c].mbuf]))

\* The metadata are those of the packet in hand, except in a context.
MetaInv == pc = "handle" /\ mode # "context" =>
              LET t == packet[pd.mbuf]
              IN  meta.in = t.from /\ (t.prog.early /\ t.prog.dest = "same" => meta.out = t.from)

IInv == /\ TypeInv /\ LoopInv /\ MbufInv /\ CtxInv /\ LinkInv /\ BurstInv /\ HandlerInv
        /\ MetaInv

\* A step of an lcore that has not strayed, and does not.
Step == [Next]_vars /\ ~SyncStrays /\ pc # "strayed"

-----------------------------------------------------------------------------
\* Facts about sequences without repetition, and about what is in one place.

\* A burst is taken from the front of a queue.
LEMMA SplitSeq ==
    ASSUME NEW S, NEW q \in Seq(S), NEW n \in 0 .. Len(q)
    PROVE  /\ SubSeq(q, 1, n) \in Seq(S) /\ Len(SubSeq(q, 1, n)) = n
           /\ SubSeq(q, n + 1, Len(q)) \in Seq(S)
           /\ Len(SubSeq(q, n + 1, Len(q))) = Len(q) - n
           /\ ToSet(q) = ToSet(SubSeq(q, 1, n)) \cup ToSet(SubSeq(q, n + 1, Len(q)))
           /\ IsInjective(q) =>
                 /\ IsInjective(SubSeq(q, 1, n)) /\ IsInjective(SubSeq(q, n + 1, Len(q)))
                 /\ ToSet(SubSeq(q, 1, n)) \cap ToSet(SubSeq(q, n + 1, Len(q))) = {}
<1> DEFINE a == SubSeq(q, 1, n)
           b == SubSeq(q, n + 1, Len(q))
<1>1. /\ Len(q) \in Nat /\ n \in Nat /\ n <= Len(q) /\ DOMAIN q = 1 .. Len(q)
      /\ \A i \in 1 .. Len(q) : q[i] \in S
  OBVIOUS
<1>2. /\ a \in Seq(S) /\ Len(a) = n /\ DOMAIN a = 1 .. n
      /\ \A i \in 1 .. n : a[i] = q[i]
  BY <1>1
<1>3. /\ b \in Seq(S) /\ Len(b) = Len(q) - n /\ DOMAIN b = 1 .. Len(q) - n
      /\ \A i \in 1 .. Len(q) - n : b[i] = q[i + n]
  <2>1. n + 1 \in Int /\ Len(q) \in Int /\ \A i \in n + 1 .. Len(q) : q[i] \in S
    BY <1>1
  <2>2. /\ b \in Seq(S) /\ Len(b) = IF n + 1 <= Len(q) THEN Len(q) - (n + 1) + 1 ELSE 0
        /\ \A i \in 1 .. Len(q) - (n + 1) + 1 : b[i] = q[(n + 1) + i - 1]
    BY <2>1, SubSeqProperties
  <2> HIDE DEF b
  <2>3. Len(b) = Len(q) - n /\ DOMAIN b = 1 .. Len(q) - n
    <3>1. DOMAIN b = 1 .. Len(b)
      BY <2>2, LenProperties
    <3>2. CASE n = Len(q)
      <4>1. Len(b) = 0
        BY <1>1, <2>2, <3>2
      <4> QED
        BY <1>1, <3>1, <3>2, <4>1
    <3>3. CASE n # Len(q)
      <4>1. n + 1 <= Len(q)
        <5> DEFINE l == Len(q)
        <5>1. l \in Nat /\ n \in Nat /\ n <= l /\ n # l
          BY <1>1, <3>3
        <5> HIDE DEF l
        <5>2. n + 1 <= l
          BY <5>1
        <5> QED
          BY <5>2 DEF l
      <4> QED
        BY <1>1, <2>2, <3>1, <4>1
    <3> QED
      BY <3>2, <3>3
  <2>4. ASSUME NEW i \in 1 .. Len(q) - n PROVE b[i] = q[i + n]
    <3>1. i \in 1 .. Len(q) - (n + 1) + 1 /\ (n + 1) + i - 1 = i + n
      BY <1>1
    <3> QED
      BY <2>2, <3>1
  <2> QED
    BY <2>2, <2>3, <2>4
<1> HIDE DEF a, b
<1>4. \A i \in DOMAIN b : i \in Nat /\ i + n \in DOMAIN q /\ i + n > n /\ b[i] = q[i + n]
  <2> SUFFICES ASSUME NEW i \in DOMAIN b
               PROVE  i \in Nat /\ i + n \in DOMAIN q /\ i + n > n /\ b[i] = q[i + n]
    OBVIOUS
  <2>1. i \in 1 .. Len(q) - n /\ b[i] = q[i + n]
    BY <1>3
  <2> DEFINE l == Len(q)
  <2>2. l \in Nat /\ n \in Nat /\ n <= l /\ i \in 1 .. l - n
    BY <1>1, <2>1
  <2>3. DOMAIN q = 1 .. l
    BY <1>1
  <2> HIDE DEF l
  <2>4. i \in Nat /\ i + n \in 1 .. l /\ i + n > n
    BY <2>2
  <2> QED
    BY <2>1, <2>3, <2>4
<1>5. \A i \in DOMAIN a : i \in Nat /\ i \in DOMAIN q /\ i <= n /\ a[i] = q[i]
  BY <1>1, <1>2
<1>6. \A i \in DOMAIN q : \/ i \in DOMAIN a /\ a[i] = q[i]
                          \/ i - n \in DOMAIN b /\ b[i - n] = q[i]
  <2> SUFFICES ASSUME NEW i \in DOMAIN q, i \notin DOMAIN a
               PROVE  i - n \in DOMAIN b /\ b[i - n] = q[i]
    BY <1>5
  <2>1. i - n \in 1 .. Len(q) - n /\ (i - n) + n = i
    BY <1>1, <1>2
  <2> QED
    BY <1>3, <2>1
<1>7. ToSet(q) = ToSet(a) \cup ToSet(b)
  <2>1. ToSet(q) \subseteq ToSet(a) \cup ToSet(b)
    BY <1>6 DEF ToSet
  <2>2. ToSet(a) \subseteq ToSet(q)
    BY <1>5 DEF ToSet
  <2>3. ToSet(b) \subseteq ToSet(q)
    BY <1>4 DEF ToSet
  <2> QED
    BY <2>1, <2>2, <2>3
<1>8. ASSUME IsInjective(q)
      PROVE  IsInjective(a) /\ IsInjective(b) /\ ToSet(a) \cap ToSet(b) = {}
  <2>1. IsInjective(a)
    BY <1>5, <1>8 DEF IsInjective
  <2>2. IsInjective(b)
    <3> SUFFICES ASSUME NEW i \in DOMAIN b, NEW j \in DOMAIN b, b[i] = b[j] PROVE i = j
      BY DEF IsInjective
    <3>1. i + n = j + n
      BY <1>4, <1>8 DEF IsInjective
    <3> QED
      BY <1>1, <1>4, <3>1
  <2>3. ASSUME NEW i \in DOMAIN a, NEW j \in DOMAIN b PROVE a[i] # b[j]
    <3>1. i # j + n
      BY <1>1, <1>4, <1>5
    <3> QED
      BY <1>4, <1>5, <1>8, <3>1 DEF IsInjective
  <2> QED
    BY <2>1, <2>2, <2>3 DEF ToSet
<1> QED
  BY <1>2, <1>3, <1>7, <1>8 DEF a, b

\* A burst is put at the end of a queue.
LEMMA JoinSeq ==
    ASSUME NEW S, NEW q \in Seq(S), NEW r \in Seq(S)
    PROVE  /\ q \o r \in Seq(S) /\ Len(q \o r) = Len(q) + Len(r)
           /\ ToSet(q \o r) = ToSet(q) \cup ToSet(r)
           /\ IsInjective(q) /\ IsInjective(r) /\ ToSet(q) \cap ToSet(r) = {} =>
                 IsInjective(q \o r)
<1> DEFINE a == q \o r
<1>1. /\ a \in Seq(S) /\ Len(a) = Len(q) + Len(r) /\ Len(q) \in Nat /\ Len(r) \in Nat
      /\ DOMAIN a = 1 .. Len(q) + Len(r) /\ DOMAIN q = 1 .. Len(q) /\ DOMAIN r = 1 .. Len(r)
      /\ \A i \in 1 .. Len(q) + Len(r) : a[i] = IF i <= Len(q) THEN q[i] ELSE r[i - Len(q)]
  OBVIOUS
<1> HIDE DEF a
<1>2. \A i \in DOMAIN q : i \in DOMAIN a /\ a[i] = q[i]
  BY <1>1
<1>3. \A i \in DOMAIN r : i + Len(q) \in DOMAIN a /\ a[i + Len(q)] = r[i]
  BY <1>1
<1>4. \A i \in DOMAIN a : \/ i \in DOMAIN q /\ a[i] = q[i]
                          \/ i - Len(q) \in DOMAIN r /\ a[i] = r[i - Len(q)]
  BY <1>1
<1>5. ToSet(a) = ToSet(q) \cup ToSet(r)
  <2>1. ToSet(a) \subseteq ToSet(q) \cup ToSet(r)
    BY <1>4 DEF ToSet
  <2>2. ToSet(q) \subseteq ToSet(a)
    BY <1>2 DEF ToSet
  <2>3. ToSet(r) \subseteq ToSet(a)
    BY <1>3 DEF ToSet
  <2> QED
    BY <2>1, <2>2, <2>3
<1>6. ASSUME IsInjective(q), IsInjective(r), ToSet(q) \cap ToSet(r) = {} PROVE IsInjective(a)
  <2> SUFFICES ASSUME NEW i \in DOMAIN a, NEW j \in DOMAIN a, a[i] = a[j] PROVE i = j
    BY DEF IsInjective
  <2>1. \A k \in DOMAIN q, l \in DOMAIN r : q[k] # r[l]
    BY <1>6 DEF ToSet
  <2>2. CASE i \in DOMAIN q /\ a[i] = q[i] /\ j \in DOMAIN q /\ a[j] = q[j]
    BY <1>6, <2>2 DEF IsInjective
  <2>3. CASE /\ i - Len(q) \in DOMAIN r /\ a[i] = r[i - Len(q)]
             /\ j - Len(q) \in DOMAIN r /\ a[j] = r[j - Len(q)]
    <3>1. i - Len(q) = j - Len(q)
      BY <1>6, <2>3 DEF IsInjective
    <3> QED
      BY <1>1, <3>1
  <2> QED
    BY <1>4, <2>1, <2>2, <2>3
<1> QED
  BY <1>1, <1>5, <1>6 DEF a

\* One element is put at the end.
LEMMA AppendSeq ==
    ASSUME NEW S, NEW q \in Seq(S), NEW x \in S
    PROVE  /\ Append(q, x) \in Seq(S) /\ Len(Append(q, x)) = Len(q) + 1
           /\ ToSet(Append(q, x)) = ToSet(q) \cup {x}
           /\ IsInjective(q) /\ x \notin ToSet(q) => IsInjective(Append(q, x))
<1> DEFINE e == <<x>>
<1>1. e \in Seq(S) /\ Len(e) = 1 /\ DOMAIN e = {1} /\ e[1] = x
  OBVIOUS
<1>2. Append(q, x) = q \o e
  BY AppendIsConcat
<1> HIDE DEF e
<1>3. ToSet(e) = {x} /\ IsInjective(e)
  BY <1>1 DEF ToSet, IsInjective
<1> QED
  BY <1>1, <1>2, <1>3, JoinSeq

\* One element is taken from the front.
LEMMA TailSeq ==
    ASSUME NEW S, NEW q \in Seq(S), q # << >>
    PROVE  /\ Tail(q) \in Seq(S) /\ Head(q) \in S /\ Head(q) \in ToSet(q)
           /\ ToSet(q) = {Head(q)} \cup ToSet(Tail(q))
           /\ IsInjective(q) => IsInjective(Tail(q)) /\ Head(q) \notin ToSet(Tail(q))
<1> DEFINE h == SubSeq(q, 1, 1)
<1>1. Len(q) \in Nat /\ Len(q) # 0 /\ Head(q) = q[1] /\ q[1] \in S
  OBVIOUS
<1>2. Tail(q) = SubSeq(q, 1 + 1, Len(q))
  BY <1>1, TailIsSubSeq
<1>3. 1 \in 0 .. Len(q)
  BY <1>1
<1>4. DOMAIN h = {1} /\ h[1] = Head(q)
  BY <1>1
<1> HIDE DEF h
<1>5. ToSet(h) = {Head(q)}
  BY <1>4 DEF ToSet
<1>6. /\ Tail(q) \in Seq(S) /\ ToSet(q) = ToSet(h) \cup ToSet(Tail(q))
      /\ IsInjective(q) => IsInjective(Tail(q)) /\ ToSet(h) \cap ToSet(Tail(q)) = {}
  <2> DEFINE t == SubSeq(q, 1 + 1, Len(q))
  <2>1. /\ t \in Seq(S) /\ ToSet(q) = ToSet(h) \cup ToSet(t)
        /\ IsInjective(q) => IsInjective(t) /\ ToSet(h) \cap ToSet(t) = {}
    BY <1>3, SplitSeq, Zenon DEF h
  <2> QED
    BY <1>2, <2>1
<1> QED
  BY <1>1, <1>5, <1>6

\* An empty sequence has nothing.
LEMMA NoSeq == ToSet(<< >>) = {} /\ IsInjective(<< >>)
BY DEF ToSet, IsInjective

\* A finite set is put in some order.
LEMMA OrderedSet ==
    ASSUME NEW S, IsFiniteSet(S)
    PROVE  SetToSeq(S) \in Seq(S) /\ ToSet(SetToSeq(S)) = S /\ IsInjective(SetToSeq(S))
<1> DEFINE n == Cardinality(S)
<1>1. n \in Nat /\ ExistsBijection(1 .. n, S)
  BY FS_CardinalityType
<1>2. PICK f \in [1 .. n -> S] : IsInjective(f)
  BY <1>1 DEF ExistsBijection, Bijection, Injection
<1>3. SetToSeq(S) \in [1 .. n -> S] /\ IsInjective(SetToSeq(S))
  BY <1>2 DEF SetToSeq
<1>4. SetToSeq(S) \in Injection(1 .. n, S)
  BY <1>3 DEF Injection
<1>5. IsFiniteSet(1 .. n) /\ Cardinality(1 .. n) = n
  BY <1>1, FS_Interval
<1>6. SetToSeq(S) \in Surjection(1 .. n, S)
  BY <1>4, <1>5, FS_Injection
<1>7. \A x \in S : \E i \in 1 .. n : SetToSeq(S)[i] = x
  BY <1>6 DEF Surjection
<1>8. SetToSeq(S) \in Seq(S) /\ DOMAIN SetToSeq(S) = 1 .. n
  BY <1>1, <1>3, IsASeq
<1>9. \A i \in 1 .. n : SetToSeq(S)[i] \in S
  BY <1>3
<1>10. ToSet(SetToSeq(S)) = S
  BY <1>7, <1>8, <1>9 DEF ToSet
<1> QED
  BY <1>3, <1>8, <1>10

\* A set of natural numbers has a least one.
LEMMA LeastExists ==
    ASSUME NEW S, S \subseteq Nat, S # {}
    PROVE  \E x \in S : \A y \in S : x <= y
<1> DEFINE R == {p \in Nat \X Nat : p[1] < p[2]}
<1>1. IsWellFoundedOn(R, Nat)
  BY NatLessThanWellFounded DEF OpToRel
<1>2. PICK x \in S : \A y \in S : <<y, x>> \notin R
  BY <1>1, WFMin
<1>3. ASSUME NEW y \in S PROVE x <= y
  <2>1. x \in Nat /\ y \in Nat /\ ~(y < x)
    BY <1>2
  <2> QED
    BY <2>1
<1> QED
  BY <1>3

\* What leaves one place for another is still in one place, and nothing else moves.
LEMMA StaysInOne ==
    ASSUME NEW x, NEW s, NEW t, DOMAIN s = DOMAIN t, InOne(x, s),
           NEW i \in DOMAIN s, NEW j \in DOMAIN s, i # j,
           \A k \in DOMAIN s \ {i, j} : x \in t[k] <=> x \in s[k],
           \/ x \in s[i] /\ x \notin t[i] /\ x \in t[j]
           \/ (x \in t[i] <=> x \in s[i]) /\ (x \in t[j] <=> x \in s[j])
    PROVE  InOne(x, t)
BY DEF InOne

\* To be in one place is to have one place counted.
LEMMA OnePlace == ASSUME NEW x, NEW s, InOne(x, s) PROVE Places(x, s) = 1
<1>1. PICK i \in DOMAIN s : x \in s[i] /\ \A j \in DOMAIN s : x \in s[j] => j = i
  BY DEF InOne
<1>2. {j \in DOMAIN s : x \in s[j]} = {i}
  BY <1>1
<1> QED
  BY <1>2, FS_Singleton DEF Places

-----------------------------------------------------------------------------
\* Facts about lengths and programs.

\* The padding of dpdkx_crypto_ops.c fills whole blocks.
LEMMA PaddingFills ==
    ASSUME NEW n \in Int
    PROVE  Padding(n) \in Int /\ (n % BLOCK = 0 => Padding(n) = 0)
           /\ (n + Padding(n)) % BLOCK = 0
BY DEF Padding, BLOCK

\* A suspended operation makes a packet longer by the pointer, and otherwise by as
\* much as one that is done at once.
LEMMA SameLength ==
    ASSUME NEW type, NEW len \in Int, NEW offset \in Int
    PROVE  /\ SyncLength(type, len, offset) \in Int /\ AsyncLength(type, len, offset) \in Int
           /\ ResumedLength(AsyncLength(type, len, offset)) = SyncLength(type, len, offset)
<1> DEFINE pad == IF type = "MD5_HMAC" THEN 0 ELSE Padding(len - offset)
           room == IF type = "MD5_HMAC" THEN DIGEST ELSE 0
<1>1. pad \in Int /\ room \in Int
  BY PaddingFills DEF DIGEST
<1>2. AsyncLength(type, len, offset) = len + PTR + pad + room
  BY DEF AsyncLength, crypto_task_to_rte_crypto_op, create_crypto_task
<1>3. SyncLength(type, len, offset) = len + pad + room
  <2>1. CASE type = "MD5_HMAC"
    BY <2>1, PaddingFills DEF SyncLength, crypto_task_to_rte_crypto_op, create_crypto_task,
                              process_crypto_op_result, DIGEST
  <2>2. CASE type # "MD5_HMAC"
    BY <2>2, PaddingFills DEF SyncLength, crypto_task_to_rte_crypto_op, create_crypto_task,
                              process_crypto_op_result
  <2> QED
    BY <2>1, <2>2
<1> HIDE DEF pad, room
<1> QED
  BY <1>1, <1>2, <1>3 DEF PTR, ResumedLength

\* What holds of 0 and with every number of the next holds up to N.
LEMMA Upward ==
    ASSUME NEW N \in Nat, NEW G, 0 \in G, \A i \in 1 .. N : i - 1 \in G => i \in G
    PROVE  0 .. N \subseteq G
<1> DEFINE Odd == {i \in 0 .. N : i \notin G}
<1> SUFFICES ASSUME Odd # {} PROVE FALSE
  OBVIOUS
<1>1. PICK m \in Odd : \A n \in Odd : m <= n
  <2>1. Odd \subseteq Nat
    OBVIOUS
  <2> HIDE DEF Odd
  <2> QED
    BY <2>1, LeastExists
<1>2. m \in 0 .. N /\ m # 0
  OBVIOUS
<1>3. m \in 1 .. N /\ m - 1 \in 0 .. N /\ ~(m <= m - 1)
  BY <1>2
<1>4. m - 1 \in G
  BY <1>1, <1>3
<1> QED
  BY <1>3, <1>4

\* A function is computed from its value before.
Steps(N, T) == [(1 .. N) \X T -> T]
Computed(f, N, T, a, st) ==
    f \in [0 .. N -> T] /\ f[0] = a /\ \A i \in 1 .. N : f[i] = st[<<i, f[i - 1]>>]

LEMMA Recursion ==
    ASSUME NEW N \in Nat, NEW T, NEW a \in T, NEW st \in Steps(N, T)
    PROVE  \E f : Computed(f, N, T, a, st)
<1> USE DEF Steps
<1> DEFINE Good(f, n) == f[0] = a /\ \A i \in 1 .. n : f[i] = st[<<i, f[i - 1]>>]
           G == {n \in 0 .. N : \E f \in [0 .. n -> T] : Good(f, n)}
<1>1. 0 \in G
  <2> DEFINE f == [i \in 0 .. 0 |-> a]
  <2>1. f \in [0 .. 0 -> T] /\ Good(f, 0) /\ 0 \in 0 .. N
    OBVIOUS
  <2> HIDE DEF f, Good
  <2> QED
    BY <2>1
<1>2. ASSUME NEW m \in 1 .. N, m - 1 \in G PROVE m \in G
  <2>1. PICK f \in [0 .. m - 1 -> T] : Good(f, m - 1)
    BY <1>2
  <2> DEFINE x == st[<<m, f[m - 1]>>]
             g == [i \in 0 .. m |-> IF i = m THEN x ELSE f[i]]
  <2>2. m \in Nat /\ m - 1 \in 0 .. m - 1 /\ m \in 0 .. N /\ f[m - 1] \in T /\ x \in T
    BY <2>1
  <2> HIDE DEF x
  <2>3. g \in [0 .. m -> T]
    <3>1. \A i \in 0 .. m : i # m => i \in 0 .. m - 1
      BY <2>2
    <3> QED
      BY <2>1, <2>2, <3>1
  <2>4. Good(g, m)
    <3>1. g[0] = a
      BY <2>1, <2>2
    <3>2. ASSUME NEW i \in 1 .. m PROVE g[i] = st[<<i, g[i - 1]>>]
      <4>1. i - 1 \in 0 .. m /\ i - 1 # m /\ g[i - 1] = f[i - 1] /\ i \in 0 .. m
        BY <2>2
      <4>2. CASE i = m
        BY <2>2, <4>1, <4>2 DEF x
      <4>3. CASE i # m
        <5>1. i \in 1 .. m - 1
          BY <2>2, <4>3
        <5> QED
          BY <2>1, <4>1, <4>3, <5>1
      <4> QED
        BY <4>2, <4>3
    <3> QED
      BY <3>1, <3>2
  <2> HIDE DEF Good, g
  <2> QED
    BY <2>2, <2>3, <2>4
<1> HIDE DEF G
<1>3. N \in G
  <2>1. 0 .. N \subseteq G
    BY <1>1, <1>2, Upward
  <2> QED
    BY <2>1
<1> QED
  BY <1>3 DEF G, Computed

\* The lengths of a packet are computed one operation after the other.
LEMMA LengthsAre ==
    ASSUME NEW m, NEW calls \in Seq(Calls), NEW len \in Int
    PROVE  /\ LengthsIn(m, calls, len)[0] = len
           /\ \A i \in 1 .. Len(calls) :
                 LengthsIn(m, calls, len)[i] =
                    SyncLength(calls[i].type, LengthsIn(m, calls, len)[i - 1], calls[i].offset)
                       + LeftIn(m, calls[i])
           /\ \A i \in 0 .. Len(calls) : LengthsIn(m, calls, len)[i] \in Int
<1> DEFINE N == Len(calls)
           After(x, i) == SyncLength(calls[i].type, x, calls[i].offset) + LeftIn(m, calls[i])
           st == [y \in (1 .. N) \X Int |-> After(y[2], y[1])]
<1>1. N \in Nat
  OBVIOUS
<1>2. \A i \in 1 .. N, x \in Int : After(x, i) \in Int
  <2>1. \A i \in 1 .. N : calls[i].offset \in Int
    <3>1. \A i \in 1 .. N : calls[i] \in Calls
      OBVIOUS
    <3>2. \A c \in Calls : c.offset \in Int
      BY DEF Calls
    <3> QED
      BY <3>1, <3>2
  <2>2. \A i \in 1 .. N : LeftIn(m, calls[i]) \in Int
    BY DEF LeftIn, PTR
  <2>3. \A i \in 1 .. N, x \in Int : SyncLength(calls[i].type, x, calls[i].offset) \in Int
    BY <2>1, SameLength
  <2> QED
    BY <2>2, <2>3
<1> HIDE DEF N, After
<1>3. st \in [(1 .. N) \X Int -> Int] /\ \A i \in 1 .. N, x \in Int : st[<<i, x>>] = After(x, i)
  BY <1>2
<1> HIDE DEF st
<1>4. PICK f \in [0 .. N -> Int] : f[0] = len /\ \A i \in 1 .. N : f[i] = st[<<i, f[i - 1]>>]
  <2>1. N \in Nat /\ len \in Int /\ st \in Steps(N, Int)
    BY <1>1, <1>3 DEF Steps
  <2>2. \E f : Computed(f, N, Int, len, st)
    BY ONLY <2>1, Recursion
  <2> QED
    BY <2>2 DEF Computed
<1>5. f = [i \in 0 .. N |-> IF i = 0 THEN len ELSE After(f[i - 1], i)]
  <2>1. \A i \in 0 .. N : i # 0 => i \in 1 .. N /\ i - 1 \in 0 .. N
    BY <1>1
  <2> QED
    BY <1>3, <1>4, <2>1
<1> DEFINE l == LengthsIn(m, calls, len)
<1>6. l = [i \in 0 .. N |-> IF i = 0 THEN len ELSE After(l[i - 1], i)]
  BY <1>5 DEF LengthsIn, N, After
<1> HIDE DEF l
<1>7. l[0] = len /\ \A i \in 1 .. N : l[i] = After(l[i - 1], i)
  <2>1. 0 \in 0 .. N /\ \A i \in 1 .. N : i \in 0 .. N /\ i # 0
    BY <1>1
  <2> QED
    BY <1>6, <2>1
<1>8. \A i \in 0 .. N : l[i] \in Int
  <2> DEFINE G == {i \in 0 .. N : l[i] \in Int}
  <2>1. 0 \in G
    BY <1>1, <1>7
  <2>2. ASSUME NEW i \in 1 .. N, i - 1 \in G PROVE i \in G
    <3>1. i \in 0 .. N /\ l[i - 1] \in Int
      BY <1>1, <2>2
    <3>2. After(l[i - 1], i) \in Int
      BY <1>2, <3>1
    <3> QED
      BY <1>7, <3>1, <3>2
  <2> HIDE DEF G
  <2>3. 0 .. N \subseteq G
    BY <1>1, <2>1, <2>2, Upward
  <2> QED
    BY <2>3 DEF G
<1> QED
  BY <1>7, <1>8 DEF l, N, After

\* One operation more is one step more.
LEMMA LengthsAppend ==
    ASSUME NEW m, NEW calls \in Seq(Calls), NEW c \in Calls, NEW len \in Int
    PROVE  LengthsIn(m, Append(calls, c), len)[Len(Append(calls, c))] =
              SyncLength(c.type, LengthsIn(m, calls, len)[Len(calls)], c.offset) + LeftIn(m, c)
<1> DEFINE N == Len(calls)
           b == Append(calls, c)
           k == LengthsIn(m, calls, len)
           l == LengthsIn(m, b, len)
<1>1. /\ b \in Seq(Calls) /\ N \in Nat /\ Len(b) = N + 1 /\ b[N + 1] = c
      /\ \A i \in 1 .. N : b[i] = calls[i]
  BY AppendProperties
<1> HIDE DEF b
<1>2. /\ l[0] = len
      /\ \A i \in 1 .. N + 1 : l[i] = SyncLength(b[i].type, l[i - 1], b[i].offset) + LeftIn(m, b[i])
  <2>1. /\ l[0] = len
        /\ \A i \in 1 .. Len(b) :
              l[i] = SyncLength(b[i].type, l[i - 1], b[i].offset) + LeftIn(m, b[i])
    BY <1>1, LengthsAre, Zenon
  <2> HIDE DEF l
  <2> QED
    BY <1>1, <2>1
<1>3. /\ k[0] = len
      /\ \A i \in 1 .. N :
            k[i] = SyncLength(calls[i].type, k[i - 1], calls[i].offset) + LeftIn(m, calls[i])
  BY LengthsAre
<1> HIDE DEF N, k, l
<1>4. l[N] = k[N]
  <2> DEFINE G == {i \in 0 .. N : l[i] = k[i]}
  <2>1. 0 \in G
    BY <1>1, <1>2, <1>3
  <2>2. ASSUME NEW i \in 1 .. N, i - 1 \in G PROVE i \in G
    <3>1. i \in 1 .. N + 1 /\ i \in 0 .. N /\ l[i - 1] = k[i - 1] /\ b[i] = calls[i]
      BY <1>1, <2>2
    <3> QED
      BY <1>2, <1>3, <3>1
  <2> HIDE DEF G
  <2>3. 0 .. N \subseteq G
    BY <1>1, <2>1, <2>2, Upward
  <2> QED
    BY <1>1, <2>3 DEF G
<1>5. N + 1 \in 1 .. N + 1 /\ (N + 1) - 1 = N
  BY <1>1
<1>6. l[N + 1] = SyncLength(c.type, k[N], c.offset) + LeftIn(m, c)
  BY <1>1, <1>2, <1>4, <1>5
<1> QED
  BY <1>1, <1>6 DEF b, k, l, N

\* The synchronous calls of a program are collected one after the other.
LEMMA AtOnceIs ==
    ASSUME NEW calls \in Seq(Calls)
    PROVE  /\ AtOnce(calls)[0] = << >>
           /\ \A i \in 1 .. Len(calls) :
                 AtOnce(calls)[i] = IF calls[i].sync THEN Append(AtOnce(calls)[i - 1], calls[i])
                                    ELSE AtOnce(calls)[i - 1]
<1> DEFINE N == Len(calls)
           After(x, i) == IF calls[i].sync THEN Append(x, calls[i]) ELSE x
           st == [y \in (1 .. N) \X Seq(Calls) |-> After(y[2], y[1])]
<1>1. N \in Nat /\ << >> \in Seq(Calls)
  OBVIOUS
<1>2. \A i \in 1 .. N, x \in Seq(Calls) : After(x, i) \in Seq(Calls)
  <2>1. \A i \in 1 .. N : calls[i] \in Calls
    OBVIOUS
  <2> QED
    BY <2>1, AppendProperties
<1> HIDE DEF N, After
<1>3. /\ st \in [(1 .. N) \X Seq(Calls) -> Seq(Calls)]
      /\ \A i \in 1 .. N, x \in Seq(Calls) : st[<<i, x>>] = After(x, i)
  BY <1>2
<1> HIDE DEF st
<1>4. PICK f \in [0 .. N -> Seq(Calls)] :
         f[0] = << >> /\ \A i \in 1 .. N : f[i] = st[<<i, f[i - 1]>>]
  <2>1. N \in Nat /\ << >> \in Seq(Calls) /\ st \in Steps(N, Seq(Calls))
    BY <1>1, <1>3 DEF Steps
  <2>2. \E f : Computed(f, N, Seq(Calls), << >>, st)
    BY ONLY <2>1, Recursion
  <2> QED
    BY <2>2 DEF Computed
<1>5. f = [i \in 0 .. N |-> IF i = 0 THEN << >> ELSE After(f[i - 1], i)]
  <2>1. \A i \in 0 .. N : i # 0 => i \in 1 .. N /\ i - 1 \in 0 .. N
    BY <1>1
  <2> QED
    BY <1>3, <1>4, <2>1
<1> DEFINE l == AtOnce(calls)
<1>6. l = [i \in 0 .. N |-> IF i = 0 THEN << >> ELSE After(l[i - 1], i)]
  <2> DEFINE R(g) == [i \in 0 .. N |-> IF i = 0 THEN << >> ELSE After(g[i - 1], i)]
  <2>1. l = CHOOSE g : g = R(g)
    BY DEF AtOnce, N, After
  <2> QED
    BY <1>5, <2>1
<1> HIDE DEF l
<1>7. l[0] = << >> /\ \A i \in 1 .. N : l[i] = After(l[i - 1], i)
  <2>1. 0 \in 0 .. N /\ \A i \in 1 .. N : i \in 0 .. N /\ i # 0
    BY <1>1
  <2> QED
    BY <1>6, <2>1
<1> QED
  BY <1>7 DEF l, N, After

\* The first calls of a program, one more and all of them.
LEMMA FirstCalls ==
    ASSUME NEW q \in Seq(Calls)
    PROVE  /\ First(q, 0) = << >> /\ First(q, Len(q)) = q
           /\ \A n \in Nat : n + 1 <= Len(q) =>
                 /\ Append(First(q, n), q[n + 1]) = First(q, n + 1)
                 /\ First(q, n) \in Seq(Calls) /\ Len(First(q, n)) = n
<1>1. First(q, 0) = << >>
  BY DEF First
<1>2. First(q, Len(q)) = q
  BY DEF First
<1>3. ASSUME NEW n \in Nat, n + 1 <= Len(q)
      PROVE  /\ Append(First(q, n), q[n + 1]) = First(q, n + 1)
             /\ First(q, n) \in Seq(Calls) /\ Len(First(q, n)) = n
  <2> DEFINE a == First(q, n)
             b == First(q, n + 1)
             x == q[n + 1]
  <2>1. Len(q) \in Nat /\ \A i \in 1 .. Len(q) : q[i] \in Calls
    OBVIOUS
  <2>2. \A i \in 1 .. n + 1 : i \in 1 .. Len(q)
    BY <1>3, <2>1
  <2>3. a \in Seq(Calls) /\ Len(a) = n /\ \A i \in 1 .. n : a[i] = q[i]
    <3>1. \A i \in 1 .. n : q[i] \in Calls
      BY <2>1, <2>2
    <3> QED
      BY <3>1 DEF First
  <2>4. b \in Seq(Calls) /\ Len(b) = n + 1 /\ \A i \in 1 .. n + 1 : b[i] = q[i]
    <3>1. \A i \in 1 .. n + 1 : q[i] \in Calls
      BY <2>1, <2>2
    <3> QED
      BY <3>1 DEF First
  <2>5. x \in Calls
    BY <2>1, <2>2
  <2> HIDE DEF a, b
  <2>6. /\ Append(a, x) \in Seq(Calls) /\ Len(Append(a, x)) = n + 1
        /\ Append(a, x)[n + 1] = x /\ \A i \in 1 .. n : Append(a, x)[i] = a[i]
    <3> HIDE DEF x
    <3> QED
      BY <2>3, <2>5, AppendProperties
  <2>7. ASSUME NEW i \in 1 .. n + 1 PROVE Append(a, x)[i] = b[i]
    <3>1. i = n + 1 \/ i \in 1 .. n
      OBVIOUS
    <3> QED
      BY <2>3, <2>4, <2>6, <3>1
  <2> HIDE DEF x
  <2>8. Append(a, x) = b
    BY <2>4, <2>6, <2>7, SeqEqual
  <2> QED
    BY <2>3, <2>8 DEF a, b, x
<1> QED
  BY <1>1, <1>2, <1>3

\* The phases of a program that run are those before the first that has no call.
LEMMA PhasesAre ==
    ASSUME NEW prog \in Programs
    PROVE  /\ ByPhase(prog) \in Seq(Calls)
           /\ \A n \in Nat : (\A q \in 0 .. n - 1 : HasPhase(prog, q)) =>
                 /\ n <= Len(ByPhase(prog))
                 /\ ~HasPhase(prog, n) => Len(ByPhase(prog)) = n
           /\ \A i \in 1 .. Len(ByPhase(prog)) :
                 /\ ByPhase(prog)[i] = prog.calls[CallOfPhase(prog, i - 1)]
                 /\ ByPhase(prog)[i].phase = i - 1
           /\ \A k \in DOMAIN prog.calls :
                 (\A j \in 1 .. k - 1 : prog.calls[j].phase # prog.calls[k].phase) =>
                    CallOfPhase(prog, prog.calls[k].phase) = k
<1> DEFINE N == Len(prog.calls)
<1>1. /\ prog.calls \in Seq(Calls) /\ N \in Nat /\ DOMAIN prog.calls = 1 .. N
      /\ \A k \in 1 .. N : prog.calls[k].phase \in Nat
  <2>1. prog.calls \in Seq(Calls)
    BY ProgramsAssumption
  <2>2. N \in Nat /\ DOMAIN prog.calls = 1 .. N /\ \A k \in 1 .. N : prog.calls[k] \in Calls
    BY <2>1
  <2>3. \A c \in Calls : c.phase \in Nat
    BY DEF Calls
  <2> QED
    BY <2>1, <2>2, <2>3
<1>2. ASSUME NEW q \in Nat, HasPhase(prog, q)
      PROVE  /\ CallOfPhase(prog, q) \in 1 .. N
             /\ prog.calls[CallOfPhase(prog, q)].phase = q
             /\ \A j \in 1 .. CallOfPhase(prog, q) - 1 : prog.calls[j].phase # q
  <2> DEFINE K == {k \in 1 .. N : prog.calls[k].phase = q}
  <2>1. K \subseteq Nat /\ K # {}
    BY <1>1, <1>2 DEF HasPhase
  <2>2. PICK k \in K : \A j \in K : k <= j
    <3> HIDE DEF K
    <3> QED
      BY <2>1, LeastExists
  <2>3. ASSUME NEW j \in 1 .. k - 1 PROVE prog.calls[j].phase # q
    <3>1. j \in 1 .. N /\ ~(k <= j)
      BY <1>1
    <3> QED
      BY <2>2, <3>1
  <2>4. k \in DOMAIN prog.calls /\ prog.calls[k].phase = q
    BY <1>1
  <2> QED
    BY <1>1, <2>3, <2>4 DEF CallOfPhase
<1>3. ASSUME NEW n \in Nat, \A q \in 0 .. n - 1 : HasPhase(prog, q) PROVE n <= N
  <2> DEFINE f == [q \in 0 .. n - 1 |-> CallOfPhase(prog, q)]
  <2>1. \A q \in 0 .. n - 1 : /\ CallOfPhase(prog, q) \in 1 .. N
                              /\ prog.calls[CallOfPhase(prog, q)].phase = q
    BY <1>2, <1>3
  <2>2. f \in Injection(0 .. n - 1, 1 .. N)
    BY <2>1 DEF Injection, IsInjective
  <2>3. IsFiniteSet(1 .. N) /\ Cardinality(1 .. N) = N /\ Cardinality(0 .. n - 1) = n
    <3>1. /\ IsFiniteSet(1 .. N) /\ Cardinality(1 .. N) = IF 1 > N THEN 0 ELSE N - 1 + 1
          /\ Cardinality(0 .. n - 1) = IF 0 > n - 1 THEN 0 ELSE n - 1 - 0 + 1
      BY <1>1, FS_Interval
    <3> QED
      BY <1>1, <3>1
  <2> HIDE DEF f
  <2>4. Cardinality(0 .. n - 1) <= Cardinality(1 .. N)
    BY <2>2, <2>3, FS_Injection
  <2> QED
    BY <2>3, <2>4
<1>4. PICK n \in Nat : ~HasPhase(prog, n) /\ \A q \in 0 .. n - 1 : HasPhase(prog, q)
  <2> DEFINE M == {q \in Nat : ~HasPhase(prog, q)}
  <2>1. M # {}
    <3>1. CASE \A q \in 0 .. (N + 1) - 1 : HasPhase(prog, q)
      <4>1. N + 1 \in Nat /\ ~(N + 1 <= N)
        BY <1>1
      <4> QED
        BY <1>3, <3>1, <4>1
    <3>2. CASE \E q \in 0 .. (N + 1) - 1 : ~HasPhase(prog, q)
      BY <1>1, <3>2
    <3> QED
      BY <3>1, <3>2
  <2>2. PICK n \in M : \A q \in M : n <= q
    <3>1. M \subseteq Nat
      OBVIOUS
    <3> HIDE DEF M
    <3> QED
      BY <2>1, <3>1, LeastExists
  <2>3. ASSUME NEW q \in 0 .. n - 1 PROVE HasPhase(prog, q)
    <3>1. q \in Nat /\ ~(n <= q)
      OBVIOUS
    <3> QED
      BY <2>2, <3>1
  <2> QED
    BY <2>3
<1>5. n <= N
  BY <1>3, <1>4
<1>6. {j \in DOMAIN prog.calls : \A q \in 0 .. j - 1 : HasPhase(prog, q)} = 1 .. n
  <2>1. ASSUME NEW j \in 1 .. N, \A q \in 0 .. j - 1 : HasPhase(prog, q) PROVE j \in 1 .. n
    <3>1. n \notin 0 .. j - 1
      BY <1>4, <2>1
    <3> QED
      BY <1>1, <3>1
  <2>2. ASSUME NEW j \in 1 .. n PROVE j \in 1 .. N /\ \A q \in 0 .. j - 1 : HasPhase(prog, q)
    <3>1. \A q \in 0 .. j - 1 : q \in 0 .. n - 1
      OBVIOUS
    <3> QED
      BY <1>1, <1>4, <1>5, <3>1
  <2> QED
    BY <1>1, <2>1, <2>2
<1> DEFINE b == ByPhase(prog)
<1>7. b = [i \in 1 .. n |-> prog.calls[CallOfPhase(prog, i - 1)]]
  BY <1>6 DEF ByPhase
<1>8. \A i \in 1 .. n : /\ prog.calls[CallOfPhase(prog, i - 1)] \in Calls
                        /\ prog.calls[CallOfPhase(prog, i - 1)].phase = i - 1
  <2>1. \A i \in 1 .. n : i - 1 \in 0 .. n - 1 /\ i - 1 \in Nat
    OBVIOUS
  <2>2. \A i \in 1 .. n : /\ CallOfPhase(prog, i - 1) \in 1 .. N
                          /\ prog.calls[CallOfPhase(prog, i - 1)].phase = i - 1
    BY <1>2, <1>4, <2>1
  <2> QED
    BY <1>1, <2>2
<1>9. b \in Seq(Calls) /\ Len(b) = n /\ \A i \in 1 .. n : b[i] = prog.calls[CallOfPhase(prog, i - 1)]
  <2> HIDE DEF b
  <2>1. b \in [1 .. n -> Calls]
    BY <1>7, <1>8
  <2> QED
    BY <1>7, <2>1
<1>10. ASSUME NEW m \in Nat, \A q \in 0 .. m - 1 : HasPhase(prog, q)
       PROVE  m <= n /\ (~HasPhase(prog, m) => n = m)
  <2>1. n \notin 0 .. m - 1
    BY <1>4, <1>10
  <2>2. m <= n
    BY <2>1
  <2>3. ASSUME ~HasPhase(prog, m) PROVE n = m
    <3>1. m \notin 0 .. n - 1
      BY <1>4, <2>3
    <3> QED
      BY <2>2, <3>1
  <2> QED
    BY <2>2, <2>3
<1>11. ASSUME NEW k \in DOMAIN prog.calls,
              \A j \in 1 .. k - 1 : prog.calls[j].phase # prog.calls[k].phase
       PROVE  CallOfPhase(prog, prog.calls[k].phase) = k
  <2> DEFINE p == prog.calls[k].phase
             c == CallOfPhase(prog, p)
  <2>1. p \in Nat /\ HasPhase(prog, p)
    BY <1>1 DEF HasPhase
  <2>2. c \in 1 .. N /\ prog.calls[c].phase = p /\ \A j \in 1 .. c - 1 : prog.calls[j].phase # p
    BY <1>2, <2>1
  <2>3. c \notin 1 .. k - 1 /\ k \notin 1 .. c - 1
    BY <1>11, <2>2
  <2> HIDE DEF c
  <2> QED
    BY <1>1, <2>2, <2>3 DEF c
<1> QED
  BY <1>8, <1>9, <1>10, <1>11

-----------------------------------------------------------------------------
\* Facts about a state.

\* Every step is one of these.
LEMMA StepCases ==
    ASSUME Step
    PROVE  \/ tx_burst_queue_drain \/ drain_not_due
           \/ main_loop_rx_group \/ NextGroup \/ PostRx \/ do_single_rx
           \/ async_handle_packet_drops
           \/ do_sync_crypto_operation \/ CallForwards \/ CallOfOtherPhase \/ do_crypto_task
           \/ free_packet \/ dpdk_send_packet \/ broadcast_packet
           \/ enqueue_async_operations \/ dequeue_finished_async_operations
           \/ resume_packet_handling \/ AsyncDone
           \/ DeviceFinishes \/ main_loop_fake_crypto
           \/ UNCHANGED vars
BY DEF Step, Next, Strayed, Lcore, Device, do_rx, handle_packet, do_single_tx, main_loop_async

\* The least n of a set are of the set.
LEMMA LeastIn == ASSUME NEW S, NEW n PROVE Least(S, n) \subseteq S
BY DEF Least

\* The packet in hand and its program.
LEMMA InHand ==
    ASSUME IInv, pc = "handle"
    PROVE  /\ pd.mbuf \in Mbufs /\ Me \in Packets /\ Me.prog \in Programs /\ Me.from \in Ports
           /\ Me.prog.calls \in Seq(Calls) /\ Me.prog # None
           /\ Me.prog.dest \in {"same", "drop", "broadcast"}
           /\ pd.ctx \in Contexts \cup {None} /\ pd.phase \in Nat /\ pd.k \in Nat
           /\ pd.k \in 1 .. Len(Me.prog.calls) + 1
           /\ pd \in [mbuf : Mbufs, ctx : Contexts \cup {None}, phase : Nat,
                      k : Nat, sync : BOOLEAN]
<1>1. /\ pd \in [mbuf : Mbufs, ctx : Contexts \cup {None}, phase : Nat, k : Nat, sync : BOOLEAN]
      /\ packet \in [Mbufs -> Packets]
  BY DEF IInv, TypeInv
<1>2. Progress(pd, Me)
  BY DEF IInv, HandlerInv, Me
<1>3. Me.prog \in Programs
  BY <1>2 DEF Progress, ProgressIn
<1>4. /\ Me.prog.calls \in Seq(Calls) /\ Me.prog.dest \in {"same", "drop", "broadcast"}
      /\ Me.prog # None
  BY <1>3, ProgramsAssumption, NoneAssumption
<1> QED
  BY <1>1, <1>2, <1>3, <1>4 DEF Me, Progress, ProgressIn

\* A pointer is put in front, and taken off.
LEMMA InFront ==
    ASSUME NEW S, NEW q \in Seq(S), NEW x \in S
    PROVE  /\ <<x>> \o q \in Seq(S) /\ <<x>> \o q # << >>
           /\ Head(<<x>> \o q) = x /\ Tail(<<x>> \o q) = q
<1> DEFINE a == <<x>> \o q
<1>1. <<x>> \in Seq(S) /\ Len(<<x>>) = 1 /\ <<x>>[1] = x /\ Len(q) \in Nat
  OBVIOUS
<1>2. /\ a \in Seq(S) /\ Len(a) = Len(q) + 1 /\ a[1] = x
      /\ \A i \in 1 .. Len(q) : a[i + 1] = q[i]
  OBVIOUS
<1> HIDE DEF a
<1>3. a # << >> /\ Head(a) = x
  BY <1>1, <1>2
<1>4. Tail(a) \in Seq(S) /\ Len(Tail(a)) = Len(q) /\ \A i \in 1 .. Len(q) : Tail(a)[i] = a[i + 1]
  BY <1>1, <1>2, <1>3
<1>5. Tail(a) = q
  BY <1>2, <1>4, SeqEqual
<1> QED
  BY <1>2, <1>3, <1>5 DEF a

\* The call the handler is at.
LEMMA TheCall ==
    ASSUME IInv, AtCall
    PROVE  /\ pd.k \in 1 .. Len(Me.prog.calls) /\ pd.k \in DOMAIN Me.prog.calls
           /\ Call = Me.prog.calls[pd.k]
           /\ Call \in Calls /\ Call.offset \in Int /\ Call.phase \in Nat
<1>1. Me.prog.calls \in Seq(Calls) /\ pd.k \in Nat /\ pd.k \in 1 .. Len(Me.prog.calls) + 1
  BY InHand DEF AtCall
<1>2. pd.k \in 1 .. Len(Me.prog.calls) /\ pd.k \in DOMAIN Me.prog.calls
  BY <1>1 DEF AtCall
<1>3. Call \in Calls
  BY <1>1, <1>2 DEF Call
<1>4. \A c \in Calls : c.offset \in Nat /\ c.phase \in Nat
  BY DEF Calls
<1> QED
  BY <1>2, <1>3, <1>4 DEF Call

\* The packet at the head of the burst.
LEMMA InBurstHead ==
    ASSUME IInv, pc = "single_rx", burst # << >>
    PROVE  /\ Head(burst) \in Mbufs /\ Head(burst) \in ToSet(burst)
           /\ queue # << >> /\ Head(queue) \in Ports
           /\ packet[Head(burst)].len \in Int
           /\ packet[Head(burst)] =
                 [NoPacket EXCEPT !.from = Head(queue), !.received = packet[Head(burst)].len,
                                  !.len = packet[Head(burst)].len]
<1>1. /\ burst \in Seq(Mbufs) /\ queue \in Seq(Ports) /\ packet \in [Mbufs -> Packets]
      /\ queue # << >>
  BY DEF IInv, TypeInv, LoopInv, InBurst
<1>2. Head(burst) \in Mbufs /\ Head(burst) \in ToSet(burst)
  BY <1>1, TailSeq
<1>3. Head(queue) \in Ports
  BY <1>1, TailSeq
<1>4. packet[Head(burst)] \in Packets
  BY <1>1, <1>2
<1>5. packet[Head(burst)].len \in Int
  BY <1>4 DEF Packets
<1> QED
  BY <1>1, <1>2, <1>3, <1>5 DEF IInv, BurstInv

\* The packet whose operation is finished first, and its context.
LEMMA FinishedHead ==
    ASSUME IInv, finished # << >>
    PROVE  /\ Head(finished) \in Mbufs /\ Head(finished) \in ToSet(finished)
           /\ \E c \in Suspended :
                 /\ packet[Head(finished)].ptrs # << >> /\ Head(packet[Head(finished)].ptrs) = c
                 /\ store[c] \in Descriptors /\ store[c].mbuf = Head(finished) /\ store[c].ctx = c
<1>1. finished \in Seq(Mbufs) /\ store \in [Contexts -> Descriptors \cup {None}]
  BY DEF IInv, TypeInv
<1>2. Head(finished) \in Mbufs /\ Head(finished) \in ToSet(finished)
  BY <1>1, TailSeq
<1>3. PICK c \in Suspended : store[c].mbuf = Head(finished)
  BY <1>2 DEF IInv, LinkInv, InCrypto
<1>4. /\ store[c].ctx = c /\ packet[Head(finished)].ptrs # << >>
      /\ Head(packet[Head(finished)].ptrs) = c
  BY <1>3 DEF IInv, LinkInv, Points
<1>5. store[c] \in Descriptors
  BY <1>1, <1>3 DEF Suspended
<1> QED
  BY <1>2, <1>3, <1>4, <1>5

-----------------------------------------------------------------------------
\* The types.

\* What a packet is after a synchronous operation.
AfterSync(p, t) ==
    IF mode = "pd" THEN [t EXCEPT !.len = AsyncLength(Call.type, t.len, Call.offset),
                                  !.ptrs = <<p.ctx>> \o t.ptrs, !.done = Append(t.done, Call)]
    ELSE [t EXCEPT !.len = SyncLength(Call.type, t.len, Call.offset),
                   !.done = Append(t.done, Call)]

LEMMA SyncTypes ==
    ASSUME IInv, do_sync_crypto_operation
    PROVE  /\ packet' = [packet EXCEPT ![pd.mbuf] = AfterSync(pd, packet[pd.mbuf])]
           /\ AfterSync(pd, packet[pd.mbuf]) \in Packets
           /\ mode = "pd" => /\ pd.ctx \in Contexts
                             /\ AsyncLength(Call.type, packet[pd.mbuf].len, Call.offset) =
                                   SyncLength(Call.type, packet[pd.mbuf].len, Call.offset) + PTR
<1>0. /\ AtCall /\ pc = "handle" /\ OnItsOwnPacket
  BY DEF do_sync_crypto_operation, AtCall
<1> DEFINE u == packet[pd.mbuf]
<1>1. packet \in [Mbufs -> Packets] /\ pd.mbuf \in Mbufs /\ u \in Packets
  BY <1>0, InHand DEF IInv, TypeInv, Me
<1>2. Call \in Calls /\ Call.offset \in Int /\ u.len \in Int /\ u.done \in Seq(Calls)
  BY <1>0, <1>1, TheCall DEF Packets
<1>3. /\ SyncLength(Call.type, u.len, Call.offset) \in Int
      /\ AsyncLength(Call.type, u.len, Call.offset) \in Int
      /\ AsyncLength(Call.type, u.len, Call.offset) = SyncLength(Call.type, u.len, Call.offset) + PTR
  <2> HIDE DEF u
  <2>1. Call.type \in {"ENCRYPT", "DECRYPT", "MD5_HMAC"}
    BY <1>2 DEF Calls
  <2> QED
    BY <1>2, <2>1, SameLength DEF ResumedLength, PTR
<1>4. Append(u.done, Call) \in Seq(Calls)
  BY <1>2, AppendProperties
<1>5. CASE mode = "pd"
  <2>1. pd.ctx \in Contexts
    BY <1>0, <1>5, InHand DEF OnItsOwnPacket, MayStray
  <2>2. <<pd.ctx>> \o u.ptrs \in Seq(Contexts)
    <3>1. <<pd.ctx>> \in Seq(Contexts) /\ u.ptrs \in Seq(Contexts)
      BY <1>1, <2>1 DEF Packets
    <3> HIDE DEF u
    <3> QED
      BY <3>1
  <2>3. packet' = [packet EXCEPT ![pd.mbuf] = AfterSync(pd, packet[pd.mbuf])]
    BY <1>1, <1>5 DEF do_sync_crypto_operation, AfterSync
  <2>4. AfterSync(pd, u) \in Packets
    <3> HIDE DEF u
    <3> QED
      BY <1>1, <1>3, <1>4, <1>5, <2>2 DEF AfterSync, Packets
  <2> QED
    BY <1>3, <2>1, <2>3, <2>4
<1>6. CASE mode # "pd"
  <2>1. packet' = [packet EXCEPT ![pd.mbuf] = AfterSync(pd, packet[pd.mbuf])]
    BY <1>1, <1>6 DEF do_sync_crypto_operation, AfterSync
  <2>2. AfterSync(pd, u) \in Packets
    <3> HIDE DEF u
    <3> QED
      BY <1>1, <1>3, <1>4, <1>6 DEF AfterSync, Packets
  <2> QED
    BY <1>6, <2>1, <2>2
<1> QED
  BY <1>5, <1>6

\* One call is done at once, or only counted.
LEMMA CallTypes ==
    ASSUME IInv, do_sync_crypto_operation \/ CallForwards \/ CallOfOtherPhase
    PROVE  /\ packet' \in [Mbufs -> Packets]
           /\ pd' = [pd EXCEPT !.k = @ + 1]
           /\ pd' \in [mbuf : Mbufs, ctx : Contexts \cup {None}, phase : Nat, k : Nat, sync : BOOLEAN]
           /\ UNCHANGED <<loop, pc, queue, burst, meta, caller, after, nic, ctxs, tasks>>
<1>0. /\ AtCall /\ pc = "handle" /\ pd' = [pd EXCEPT !.k = @ + 1]
      /\ UNCHANGED <<loop, pc, queue, burst, meta, caller, after, nic, ctxs, tasks>>
  BY DEF do_sync_crypto_operation, CallForwards, CallOfOtherPhase, AtCall
<1>1. pd' \in [mbuf : Mbufs, ctx : Contexts \cup {None}, phase : Nat, k : Nat, sync : BOOLEAN]
  BY <1>0, InHand
<1>2. packet \in [Mbufs -> Packets] /\ pd.mbuf \in Mbufs /\ packet[pd.mbuf] \in Packets
  BY <1>0, InHand DEF IInv, TypeInv, Me
<1>3. CASE do_sync_crypto_operation
  <2> DEFINE t == AfterSync(pd, packet[pd.mbuf])
  <2>1. packet' = [packet EXCEPT ![pd.mbuf] = t] /\ t \in Packets
    BY <1>3, SyncTypes
  <2> HIDE DEF t
  <2>2. packet' \in [Mbufs -> Packets]
    BY <1>2, <2>1
  <2> QED
    BY <1>0, <1>1, <2>2
<1>4. CASE CallForwards
  BY <1>0, <1>1, <1>2, <1>4 DEF CallForwards
<1>5. CASE CallOfOtherPhase
  BY <1>0, <1>1, <1>2, <1>5 DEF CallOfOtherPhase
<1> QED
  BY <1>3, <1>4, <1>5

\* A handler that suspends leaves its descriptor, and a pointer in front of the packet.
LEMMA TaskTypes ==
    ASSUME IInv, do_crypto_task
    PROVE  /\ pd \in Descriptors /\ pd # None
           /\ store' = [store EXCEPT ![pd.ctx] = pd]
           /\ packet' = [packet EXCEPT ![pd.mbuf] =
                           [packet[pd.mbuf] EXCEPT
                              !.len = AsyncLength(Call.type, packet[pd.mbuf].len, Call.offset),
                              !.ptrs = <<pd.ctx>> \o packet[pd.mbuf].ptrs,
                              !.done = Append(packet[pd.mbuf].done, Call)]]
           /\ packet' \in [Mbufs -> Packets]
           /\ AsyncLength(Call.type, packet[pd.mbuf].len, Call.offset) \in Int
           /\ <<pd.ctx>> \o packet[pd.mbuf].ptrs \in Seq(Contexts)
           /\ Append(packet[pd.mbuf].done, Call) \in Seq(Calls)
<1>0. AtCall /\ pc = "handle" /\ pd.ctx # None
  BY DEF do_crypto_task, AtCall
<1>1. pd \in Descriptors
  BY <1>0, InHand DEF Descriptors
<1>2. packet \in [Mbufs -> Packets] /\ pd.mbuf \in Mbufs /\ packet[pd.mbuf] \in Packets
  BY <1>0, InHand DEF IInv, TypeInv, Me
<1> DEFINE u == packet[pd.mbuf]
           t == [u EXCEPT !.len = AsyncLength(Call.type, u.len, Call.offset),
                          !.ptrs = <<pd.ctx>> \o u.ptrs, !.done = Append(u.done, Call)]
<1>3. <<pd.ctx>> \o u.ptrs \in Seq(Contexts)
  <2>1. pd.ctx \in Contexts
    BY <1>1 DEF Descriptors
  <2>2. <<pd.ctx>> \in Seq(Contexts) /\ u.ptrs \in Seq(Contexts)
    BY <1>2, <2>1 DEF Packets
  <2> HIDE DEF u
  <2> QED
    BY <2>2
<1>4. AsyncLength(Call.type, u.len, Call.offset) \in Int
  BY <1>0, <1>2, TheCall, SameLength DEF Packets
<1>5. Append(u.done, Call) \in Seq(Calls)
  BY <1>0, <1>2, TheCall, AppendProperties DEF Packets
<1>6. packet' = [packet EXCEPT ![pd.mbuf] = t]
  BY <1>2 DEF do_crypto_task
<1>7. t \in Packets
  BY <1>2, <1>3, <1>4, <1>5 DEF Packets
<1>8. pd # None
  BY <1>1, NoneAssumption
<1>9. packet' \in [Mbufs -> Packets]
  <2> HIDE DEF t
  <2> QED
    BY <1>2, <1>6, <1>7
<1>10. store' = [store EXCEPT ![pd.ctx] = pd]
  BY DEF do_crypto_task
<1> QED
  BY <1>1, <1>3, <1>4, <1>5, <1>6, <1>8, <1>9, <1>10

\* A handler that is resumed gets its descriptor back, and its packet without the pointer.
LEMMA ResumeTypes ==
    ASSUME IInv, resume_packet_handling
    PROVE  \E c \in Suspended :
              /\ store[c] \in Descriptors /\ store[c].mbuf = Head(finished) /\ store[c].ctx = c
              /\ packet[Head(finished)].ptrs # << >> /\ Head(packet[Head(finished)].ptrs) = c
              /\ Head(finished) \in Mbufs
              /\ store' = [store EXCEPT ![c] = None]
              /\ pd' = Resumed(store[c]) /\ pd' \in Descriptors
              /\ packet' = [packet EXCEPT ![Head(finished)] = Unwrapped(packet[Head(finished)])]
              /\ Unwrapped(packet[Head(finished)]) \in Packets
              /\ IF mode = "context" THEN meta' = meta
                 ELSE meta' = HandleStarts(Head(finished), packet[Head(finished)].prog,
                                           packet[Head(finished)].from)
<1> DEFINE m == Head(finished)
<1>1. finished # << >>
  BY DEF resume_packet_handling
<1>2. PICK c \in Suspended :
         /\ packet[m].ptrs # << >> /\ Head(packet[m].ptrs) = c
         /\ store[c] \in Descriptors /\ store[c].mbuf = m /\ store[c].ctx = c
  BY <1>1, FinishedHead
<1>3. m \in Mbufs /\ packet \in [Mbufs -> Packets] /\ packet[m] \in Packets
  BY <1>1, FinishedHead DEF IInv, TypeInv
<1>4. /\ packet' = [packet EXCEPT ![m].len = ResumedLength(@), ![m].ptrs = Tail(@)]
      /\ store' = [store EXCEPT ![c] = None]
      /\ pd' = Resumed(store[c])
      /\ IF mode = "context" THEN meta' = meta
         ELSE meta' = HandleStarts(m, packet[m].prog, packet[m].from)
  <2>1. CASE mode = "context"
    BY <1>2, <2>1 DEF resume_packet_handling, Resumed, ResumedIn
  <2>2. CASE mode # "context"
    BY <1>2, <2>2 DEF resume_packet_handling, Resumed, ResumedIn
  <2> QED
    BY <2>1, <2>2
<1>5. packet' = [packet EXCEPT ![m] = Unwrapped(packet[m])]
  BY <1>3, <1>4 DEF Unwrapped
<1>6. Unwrapped(packet[m]) \in Packets
  <2>1. Tail(packet[m].ptrs) \in Seq(Contexts)
    BY <1>2, <1>3, HeadTailProperties DEF Packets
  <2>2. ResumedLength(packet[m].len) \in Int
    BY <1>3 DEF Packets, ResumedLength, PTR
  <2> QED
    BY <1>3, <2>1, <2>2 DEF Packets, Unwrapped
<1>7. Resumed(store[c]) \in Descriptors
  <2>1. store[c].k + 1 \in Nat /\ store[c].phase + 1 \in Nat /\ 1 \in Nat
    BY <1>2 DEF Descriptors
  <2>2. CASE mode = "context"
    BY <1>2, <2>1, <2>2 DEF Resumed, ResumedIn, Descriptors
  <2>3. CASE mode # "context"
    BY <1>2, <2>1, <2>3 DEF Resumed, ResumedIn, Descriptors
  <2> QED
    BY <2>2, <2>3
<1> QED
  BY <1>2, <1>3, <1>4, <1>5, <1>6, <1>7

\* Where the lcore is, and its counter of packets.
LEMMA ControlTypes ==
    ASSUME IInv, Step
    PROVE  /\ mode' = mode /\ node' = node
           /\ pc' \in {"pre_rx", "rx_group", "single_rx", "handle", "async", "dequeue", "resume"}
           /\ caller' \in {"main", "async"} /\ after' \in {"pre_rx", "single_rx"}
           /\ every' \in 0 .. EVERY_N - 1
<1>0. \/ tx_burst_queue_drain \/ drain_not_due
      \/ main_loop_rx_group \/ NextGroup \/ PostRx \/ do_single_rx
      \/ async_handle_packet_drops
      \/ do_sync_crypto_operation \/ CallForwards \/ CallOfOtherPhase \/ do_crypto_task
      \/ free_packet \/ dpdk_send_packet \/ broadcast_packet
      \/ enqueue_async_operations \/ dequeue_finished_async_operations
      \/ resume_packet_handling \/ AsyncDone
      \/ DeviceFinishes \/ main_loop_fake_crypto
      \/ UNCHANGED vars
  BY StepCases
<1>1. /\ pc \in {"pre_rx", "rx_group", "single_rx", "handle", "async", "dequeue", "resume"}
      /\ caller \in {"main", "async"} /\ after \in {"pre_rx", "single_rx"}
      /\ every \in 0 .. EVERY_N - 1
  BY DEF Step, IInv, TypeInv, TypeOK
<1>2. /\ mode' = mode /\ node' = node
      /\ pc' \in {"pre_rx", "rx_group", "single_rx", "handle", "async", "dequeue", "resume"}
      /\ caller' \in {"main", "async"} /\ after' \in {"pre_rx", "single_rx"}
  BY <1>0, <1>1 DEF tx_burst_queue_drain, drain_not_due, main_loop_rx_group, NextGroup, PostRx,
     do_single_rx, Receives, async_handle_packet_drops, do_sync_crypto_operation, CallForwards,
     CallOfOtherPhase, AtCall, do_crypto_task, free_packet, dpdk_send_packet, broadcast_packet,
     PostSingleTx, Return, enqueue_async_operations, dequeue_finished_async_operations,
     resume_packet_handling, AsyncDone, DeviceFinishes, main_loop_fake_crypto, vars, loop
<1>3. every' = every \/ every' = increase_with_rotation(every)
  BY <1>0 DEF tx_burst_queue_drain, drain_not_due, main_loop_rx_group, NextGroup, PostRx,
     do_single_rx, async_handle_packet_drops, do_sync_crypto_operation, CallForwards,
     CallOfOtherPhase, do_crypto_task, free_packet, dpdk_send_packet, broadcast_packet,
     enqueue_async_operations, dequeue_finished_async_operations,
     resume_packet_handling, AsyncDone, DeviceFinishes, main_loop_fake_crypto, vars, loop
<1>4. increase_with_rotation(every) \in 0 .. EVERY_N - 1
  <2>1. EVERY_N \in Nat \ {0}
    BY PathAssumption
  <2>2. CASE every >= EVERY_N - 1
    <3>1. every + 1 = EVERY_N /\ EVERY_N % EVERY_N = 0
      BY <1>1, <2>1, <2>2
    <3> QED
      BY <2>1, <2>2, <3>1 DEF increase_with_rotation
  <2>3. CASE ~(every >= EVERY_N - 1)
    BY <1>1, <2>1, <2>3 DEF increase_with_rotation
  <2> QED
    BY <2>2, <2>3
<1> QED
  BY <1>1, <1>2, <1>3, <1>4

\* The queues to be polled, the burst and the metadata.
LEMMA BurstTypes ==
    ASSUME IInv, Step
    PROVE  queue' \in Seq(Ports) /\ burst' \in Seq(Mbufs) /\ meta' \in [in : Ports, out : Ports]
<1>0. \/ tx_burst_queue_drain \/ drain_not_due
      \/ main_loop_rx_group \/ NextGroup \/ PostRx \/ do_single_rx
      \/ async_handle_packet_drops
      \/ do_sync_crypto_operation \/ CallForwards \/ CallOfOtherPhase \/ do_crypto_task
      \/ free_packet \/ dpdk_send_packet \/ broadcast_packet
      \/ enqueue_async_operations \/ dequeue_finished_async_operations
      \/ resume_packet_handling \/ AsyncDone
      \/ DeviceFinishes \/ main_loop_fake_crypto
      \/ UNCHANGED vars
  BY StepCases
<1>1. /\ queue \in Seq(Ports) /\ burst \in Seq(Mbufs) /\ meta \in [in : Ports, out : Ports]
      /\ free \subseteq Mbufs
  BY DEF IInv, TypeInv, TypeOK
<1>2. \/ queue' = queue \/ queue' = rx_queue_list \/ (queue # << >> /\ queue' = Tail(queue))
      \/ NextGroup
  BY <1>0 DEF tx_burst_queue_drain, drain_not_due, main_loop_rx_group, PostRx,
     do_single_rx, async_handle_packet_drops, do_sync_crypto_operation, CallForwards,
     CallOfOtherPhase, do_crypto_task, free_packet, dpdk_send_packet, broadcast_packet,
     enqueue_async_operations, dequeue_finished_async_operations,
     resume_packet_handling, AsyncDone, DeviceFinishes, main_loop_fake_crypto, vars
<1>3. queue' \in Seq(Ports)
  <2>1. CASE NextGroup
    <3>1. queue # << >> /\ queue' = Tail(queue)
      BY <2>1 DEF NextGroup, IInv, LoopInv, InBurst
    <3> QED
      BY <1>1, <3>1, TailSeq
  <2>2. queue # << >> => Tail(queue) \in Seq(Ports)
    BY <1>1, TailSeq
  <2> QED
    BY <1>1, <1>2, <2>1, <2>2, PathAssumption
<1>4. \/ burst' = burst \/ (burst # << >> /\ burst' = Tail(burst))
      \/ \E n \in 0 .. MAX_PKT_BURST : burst' = SetToSeq(Least(free, n))
  BY <1>0 DEF tx_burst_queue_drain, drain_not_due, main_loop_rx_group, NextGroup, PostRx,
     do_single_rx, async_handle_packet_drops, do_sync_crypto_operation, CallForwards,
     CallOfOtherPhase, do_crypto_task, free_packet, dpdk_send_packet, broadcast_packet,
     enqueue_async_operations, dequeue_finished_async_operations,
     resume_packet_handling, AsyncDone, DeviceFinishes, main_loop_fake_crypto, vars
<1>5. burst' \in Seq(Mbufs)
  <2>1. ASSUME NEW n \in 0 .. MAX_PKT_BURST PROVE SetToSeq(Least(free, n)) \in Seq(Mbufs)
    <3>1. Least(free, n) \subseteq Mbufs
      BY <1>1, LeastIn
    <3>2. IsFiniteSet(Least(free, n))
      BY <3>1, FS_Subset, PathAssumption
    <3>3. SetToSeq(Least(free, n)) \in Seq(Least(free, n))
      BY <3>2, OrderedSet
    <3> QED
      BY <3>1, <3>3
  <2>2. burst # << >> => Tail(burst) \in Seq(Mbufs)
    BY <1>1, TailSeq
  <2> QED
    BY <1>1, <1>4, <2>1, <2>2
<1>6. ASSUME NEW m, NEW prog, NEW from \in Ports
      PROVE  HandleStarts(m, prog, from) \in [in : Ports, out : Ports]
  BY PathAssumption DEF HandleStarts
<1>7. meta' \in [in : Ports, out : Ports]
  <2>1. CASE do_single_rx
    <3>1. \E prog : meta' = HandleStarts(Head(burst), prog, Head(queue))
      BY <2>1 DEF do_single_rx, Receives
    <3>2. Head(queue) \in Ports
      BY <2>1, InBurstHead DEF do_single_rx
    <3> QED
      BY <1>6, <3>1, <3>2
  <2>2. CASE resume_packet_handling
    <3>1. PICK c \in Suspended :
             /\ store[c].mbuf = Head(finished)
             /\ IF mode = "context" THEN meta' = meta
                ELSE meta' = HandleStarts(Head(finished), packet[Head(finished)].prog,
                                          packet[Head(finished)].from)
      BY <2>2, ResumeTypes
    <3>2. packet[Head(finished)].from \in Ports
      <4>1. Unwrapped(packet[Head(finished)]).from \in Ports
        BY <3>1 DEF IInv, HandlerInv, Progress, ProgressIn
      <4>2. packet[Head(finished)] \in Packets
        BY <2>2, FinishedHead DEF IInv, TypeInv, resume_packet_handling
      <4> QED
        BY <4>1, <4>2 DEF Unwrapped, Packets
    <3> QED
      BY <1>1, <1>6, <3>1, <3>2
  <2>3. CASE ~do_single_rx /\ ~resume_packet_handling
    <3>1. meta' = meta
      BY <1>0, <2>3 DEF tx_burst_queue_drain, drain_not_due, main_loop_rx_group, NextGroup, PostRx,
         async_handle_packet_drops, do_sync_crypto_operation, CallForwards,
         CallOfOtherPhase, do_crypto_task, free_packet, dpdk_send_packet, broadcast_packet,
         enqueue_async_operations, dequeue_finished_async_operations,
         AsyncDone, DeviceFinishes, main_loop_fake_crypto, vars
    <3> QED
      BY <1>1, <3>1
  <2> QED
    BY <2>1, <2>2, <2>3
<1> QED
  BY <1>3, <1>5, <1>7

\* The handler's descriptor.
LEMMA HandTypes ==
    ASSUME IInv, Step
    PROVE  /\ pd'.mbuf \in Mbufs \cup {None} /\ pd'.ctx \in Contexts \cup {None}
           /\ pc' = "handle" => pd' \in [mbuf : Mbufs, ctx : Contexts \cup {None}, phase : Nat,
                                         k : Nat, sync : BOOLEAN]
<1>0. \/ tx_burst_queue_drain \/ drain_not_due
      \/ main_loop_rx_group \/ NextGroup \/ PostRx \/ do_single_rx
      \/ async_handle_packet_drops
      \/ do_sync_crypto_operation \/ CallForwards \/ CallOfOtherPhase \/ do_crypto_task
      \/ free_packet \/ dpdk_send_packet \/ broadcast_packet
      \/ enqueue_async_operations \/ dequeue_finished_async_operations
      \/ resume_packet_handling \/ AsyncDone
      \/ DeviceFinishes \/ main_loop_fake_crypto
      \/ UNCHANGED vars
  BY StepCases
<1> DEFINE D == [mbuf : Mbufs, ctx : Contexts \cup {None}, phase : Nat, k : Nat, sync : BOOLEAN]
<1>1. /\ pd.mbuf \in Mbufs \cup {None} /\ pd.ctx \in Contexts \cup {None}
      /\ pc = "handle" => pd \in D
      /\ caller \in {"main", "async"} /\ after \in {"pre_rx", "single_rx"}
      /\ pool \subseteq Contexts
  BY DEF IInv, TypeInv, TypeOK
<1>2. ASSUME pd' \in D PROVE pd'.mbuf \in Mbufs /\ pd'.ctx \in Contexts \cup {None}
  BY <1>2
<1>3. NoPd.mbuf = None /\ NoPd.ctx = None
  BY DEF NoPd
<1>4. CASE do_single_rx
  <2>1. Head(burst) \in Mbufs
    BY <1>4, InBurstHead DEF do_single_rx
  <2>2. PICK ctx \in Contexts \cup {None} :
           pd' = [mbuf |-> Head(burst), ctx |-> ctx, phase |-> 0, k |-> 1, sync |-> every' = 0]
    <3>1. pool # {} => AnyContext \in Contexts
      BY <1>1 DEF AnyContext
    <3> QED
      BY <1>4, <3>1 DEF do_single_rx, Receives
  <2>3. pd' \in D
    BY <2>1, <2>2
  <2> QED
    BY <1>2, <2>3
<1>5. CASE do_sync_crypto_operation \/ CallForwards \/ CallOfOtherPhase
  BY <1>2, <1>5, CallTypes
<1>6. CASE resume_packet_handling
  <2>1. pd' \in Descriptors
    BY <1>6, ResumeTypes
  <2>2. Descriptors \subseteq D
    BY DEF Descriptors
  <2> HIDE DEF D
  <2>3. pd' \in D
    BY <2>1, <2>2
  <2> QED
    BY <1>2, <2>3 DEF D
<1>7. CASE async_handle_packet_drops \/ do_crypto_task \/ free_packet \/ dpdk_send_packet
           \/ broadcast_packet
  <2>1. pd' = NoPd /\ pc' # "handle"
    BY <1>7 DEF async_handle_packet_drops, do_crypto_task, free_packet, dpdk_send_packet,
                broadcast_packet, PostSingleTx, Return
  <2> QED
    BY <1>3, <2>1
<1>8. CASE \/ tx_burst_queue_drain \/ drain_not_due \/ main_loop_rx_group \/ NextGroup \/ PostRx
           \/ enqueue_async_operations \/ dequeue_finished_async_operations \/ AsyncDone
           \/ DeviceFinishes \/ main_loop_fake_crypto \/ UNCHANGED vars
  <2>1. pd' = pd /\ (pc' = "handle" => pc = "handle")
    BY <1>1, <1>8 DEF tx_burst_queue_drain, drain_not_due, main_loop_rx_group, NextGroup, PostRx,
       enqueue_async_operations, dequeue_finished_async_operations, AsyncDone, DeviceFinishes,
       main_loop_fake_crypto, vars
  <2> QED
    BY <1>1, <2>1
<1> QED
  BY <1>0, <1>4, <1>5, <1>6, <1>7, <1>8

\* What a full table is after it was sent.
LEMMA SendTypes ==
    ASSUME IInv, dpdk_send_packet
    PROVE  /\ get_egress_port \in Ports /\ pd.mbuf \in Mbufs
           /\ Append(txq[get_egress_port], pd.mbuf) \in Seq(Mbufs)
           /\ Len(Append(txq[get_egress_port], pd.mbuf)) = Len(txq[get_egress_port]) + 1
           /\ \/ /\ Len(Append(txq[get_egress_port], pd.mbuf)) < MAX_PKT_BURST
                 /\ txq' = [txq EXCEPT ![get_egress_port] = Append(txq[get_egress_port], pd.mbuf)]
                 /\ free' = free
              \/ /\ txq' = [txq EXCEPT ![get_egress_port] = << >>]
                 /\ free' = free \cup ToSet(Append(txq[get_egress_port], pd.mbuf))
<1> DEFINE e == get_egress_port
           q == Append(txq[e], pd.mbuf)
<1>1. pc = "handle"
  BY DEF dpdk_send_packet, Ended
<1>2. e \in Ports
  BY DEF get_egress_port, IInv, TypeInv
<1>3. txq[e] \in Seq(Mbufs) /\ pd.mbuf \in Mbufs /\ Len(txq[e]) < MAX_PKT_BURST
  BY <1>1, <1>2, InHand DEF IInv, TypeInv, TypeOK
<1>4. q \in Seq(Mbufs) /\ Len(q) = Len(txq[e]) + 1
  BY <1>3, AppendSeq
<1>5. CASE Len(q) = MAX_PKT_BURST
  <2>1. PICK taking \in 0 .. MAX_PKT_BURST : free' = free \cup send_burst(q, taking)
    BY <1>5 DEF dpdk_send_packet
  <2>2. txq' = [txq EXCEPT ![e] = << >>]
    BY <1>5 DEF dpdk_send_packet
  <2>3. taking \in 0 .. Len(q)
    BY <1>5
  <2>4. send_burst(q, taking) = ToSet(q)
    <3> HIDE DEF q
    <3> QED
      BY <1>4, <2>3, SplitSeq DEF send_burst, Sent, Freed
  <2> QED
    BY <1>2, <1>3, <1>4, <2>1, <2>2, <2>4
<1>6. CASE Len(q) # MAX_PKT_BURST
  <2>1. txq' = [txq EXCEPT ![e] = q] /\ free' = free
    BY <1>6 DEF dpdk_send_packet
  <2>2. Len(q) < MAX_PKT_BURST
    <3> DEFINE l == Len(txq[e])
    <3>1. l \in Nat /\ Len(q) = l + 1 /\ l < MAX_PKT_BURST /\ MAX_PKT_BURST \in Nat
      BY <1>3, <1>4, PathAssumption
    <3> HIDE DEF l, q
    <3> QED
      BY <1>6, <3>1
  <2> QED
    BY <1>2, <1>3, <1>4, <2>1, <2>2
<1> QED
  BY <1>5, <1>6

\* What is drained is everything.
LEMMA DrainTypes ==
    ASSUME IInv, tx_burst_queue_drain
    PROVE  free' = free \cup InTxq /\ txq' = [p \in Ports |-> << >>]
<1>1. PICK taking \in [Ports -> 0 .. MAX_PKT_BURST - 1] :
         /\ \A p \in Ports : taking[p] <= Len(txq[p])
         /\ free' = free \cup UNION {send_burst(txq[p], taking[p]) : p \in Ports}
  BY DEF tx_burst_queue_drain
<1>2. ASSUME NEW p \in Ports PROVE send_burst(txq[p], taking[p]) = ToSet(txq[p])
  <2>1. txq[p] \in Seq(Mbufs)
    BY DEF IInv, TypeInv
  <2>2. taking[p] \in 0 .. MAX_PKT_BURST - 1 /\ taking[p] <= Len(txq[p])
    BY <1>1
  <2>3. taking[p] \in 0 .. Len(txq[p])
    <3>1. Len(txq[p]) \in Nat /\ taking[p] \in Nat
      BY <2>1, <2>2, PathAssumption
    <3> QED
      BY <2>2, <3>1
  <2> QED
    BY <2>1, <2>3, SplitSeq DEF send_burst, Sent, Freed
<1>3. {send_burst(txq[p], taking[p]) : p \in Ports} = {ToSet(txq[p]) : p \in Ports}
  BY <1>2
<1> QED
  BY <1>1, <1>3 DEF InTxq, tx_burst_queue_drain

\* What is in a table, a queue or the burst is a buffer.
LEMMA SeqTypes ==
    ASSUME IInv
    PROVE  /\ ToSet(burst) \subseteq Mbufs /\ ToSet(asyncq) \subseteq Mbufs
           /\ ToSet(dev) \subseteq Mbufs /\ ToSet(finished) \subseteq Mbufs
           /\ InTxq \subseteq Mbufs /\ ToSet(freeRing) \subseteq Contexts
           /\ Suspended \subseteq Contexts
<1>1. \A S : \A q \in Seq(S) : ToSet(q) \subseteq S
  BY DEF ToSet
<1>2. /\ burst \in Seq(Mbufs) /\ asyncq \in Seq(Mbufs) /\ dev \in Seq(Mbufs)
      /\ finished \in Seq(Mbufs) /\ freeRing \in Seq(Contexts)
      /\ \A p \in Ports : txq[p] \in Seq(Mbufs)
  BY DEF IInv, TypeInv
<1>3. InTxq \subseteq Mbufs
  BY <1>1, <1>2 DEF InTxq
<1> QED
  BY <1>1, <1>2, <1>3 DEF Suspended

\* What is taken out of async_queue and out of the ring of contexts.
LEMMA EnqueueTypes ==
    ASSUME IInv, enqueue_async_operations
    PROVE  /\ \E n \in 0 .. Len(asyncq) :
                 /\ dev' = dev \o SubSeq(asyncq, 1, n)
                 /\ asyncq' = SubSeq(asyncq, n + 1, Len(asyncq))
                 /\ pending' = pending + n
           /\ \E n \in 0 .. Len(freeRing) :
                 /\ pool' = pool \cup ToSet(SubSeq(freeRing, 1, n))
                 /\ freeRing' = SubSeq(freeRing, n + 1, Len(freeRing))
<1>1. Len(asyncq) \in Nat /\ Len(freeRing) \in Nat /\ CRYPTO_BURST_SIZE \in Nat
  BY PathAssumption DEF IInv, TypeInv
<1> DEFINE n == IF Len(asyncq) >= CRYPTO_BURST_SIZE THEN CRYPTO_BURST_SIZE ELSE 0
           k == IF mode = "context" /\ Len(freeRing) > CRYPTO_BURST_SIZE
                THEN CRYPTO_BURST_SIZE ELSE 0
<1>2. n \in 0 .. Len(asyncq)
  BY <1>1
<1>3. k \in 0 .. Len(freeRing)
  BY <1>1
<1>4. /\ dev' = dev \o SubSeq(asyncq, 1, n)
      /\ asyncq' = SubSeq(asyncq, n + 1, Len(asyncq))
      /\ pending' = pending + n
  BY DEF enqueue_async_operations, MoveOps
<1>5. /\ pool' = pool \cup ToSet(SubSeq(freeRing, 1, k))
      /\ freeRing' = SubSeq(freeRing, k + 1, Len(freeRing))
  BY DEF enqueue_async_operations, FreeContexts
<1> HIDE DEF n, k
<1> QED
  BY <1>2, <1>3, <1>4, <1>5

\* What is taken out of the device.
LEMMA DequeueTypes ==
    ASSUME IInv, dequeue_finished_async_operations
    PROVE  \E n \in 0 .. Len(dev) :
              /\ finished' = SubSeq(dev, 1, n) /\ taken' = n
              /\ dev' = SubSeq(dev, n + 1, Len(dev)) /\ ready' = ready - n /\ n <= ready
<1>1. Len(dev) \in Nat /\ CRYPTO_BURST_SIZE \in Nat /\ ready \in 0 .. Len(dev)
  BY PathAssumption DEF IInv, TypeInv, TypeOK
<1> DEFINE done == IF ready < CRYPTO_BURST_SIZE THEN ready ELSE CRYPTO_BURST_SIZE
           n == IF pending >= CRYPTO_BURST_SIZE THEN done ELSE 0
<1>2. n \in 0 .. Len(dev) /\ n <= ready
  BY <1>1
<1>3. /\ finished' = SubSeq(dev, 1, n) /\ taken' = n
      /\ dev' = SubSeq(dev, n + 1, Len(dev)) /\ ready' = ready - n
  BY DEF dequeue_finished_async_operations
<1> HIDE DEF n
<1> QED
  BY <1>2, <1>3

\* The pools, what is lost and the tables of the ports.
LEMMA PoolTypes ==
    ASSUME IInv, Step
    PROVE  /\ free' \subseteq Mbufs /\ lost' \subseteq Mbufs /\ pool' \subseteq Contexts
           /\ txq' \in [Ports -> Seq(Mbufs)] /\ \A p \in Ports : Len(txq'[p]) < MAX_PKT_BURST
<1>0. \/ tx_burst_queue_drain \/ drain_not_due
      \/ main_loop_rx_group \/ NextGroup \/ PostRx \/ do_single_rx
      \/ async_handle_packet_drops
      \/ do_sync_crypto_operation \/ CallForwards \/ CallOfOtherPhase \/ do_crypto_task
      \/ free_packet \/ dpdk_send_packet \/ broadcast_packet
      \/ enqueue_async_operations \/ dequeue_finished_async_operations
      \/ resume_packet_handling \/ AsyncDone
      \/ DeviceFinishes \/ main_loop_fake_crypto
      \/ UNCHANGED vars
  BY StepCases
<1>1. /\ free \subseteq Mbufs /\ lost \subseteq Mbufs /\ pool \subseteq Contexts
      /\ txq \in [Ports -> Seq(Mbufs)] /\ \A p \in Ports : Len(txq[p]) < MAX_PKT_BURST
      /\ pd.ctx \in Contexts \cup {None}
  BY DEF IInv, TypeInv, TypeOK
<1>2. pc = "handle" => pd.mbuf \in Mbufs
  BY InHand
<1>3. pc = "single_rx" /\ burst # << >> => Head(burst) \in Mbufs
  BY InBurstHead
<1>4. free' \subseteq Mbufs
  <2>1. CASE tx_burst_queue_drain
    BY <1>1, <2>1, DrainTypes, SeqTypes
  <2>2. CASE main_loop_rx_group
    BY <1>1, <2>2 DEF main_loop_rx_group
  <2>3. CASE free_packet
    BY <1>1, <1>2, <2>3 DEF free_packet, Ended
  <2>4. CASE dpdk_send_packet
    <3>1. \A q \in Seq(Mbufs) : ToSet(q) \subseteq Mbufs
      BY DEF ToSet
    <3> QED
      BY <1>1, <2>4, <3>1, SendTypes
  <2>5. CASE broadcast_packet
    BY <1>1, <2>5 DEF broadcast_packet
  <2>6. CASE /\ ~tx_burst_queue_drain /\ ~main_loop_rx_group /\ ~free_packet
             /\ ~dpdk_send_packet /\ ~broadcast_packet
    <3>1. free' = free
      BY <1>0, <2>6 DEF drain_not_due, NextGroup, PostRx, do_single_rx,
         async_handle_packet_drops, do_sync_crypto_operation, CallForwards, CallOfOtherPhase,
         do_crypto_task, enqueue_async_operations, dequeue_finished_async_operations,
         resume_packet_handling, AsyncDone, DeviceFinishes, main_loop_fake_crypto, vars, nic
    <3> QED
      BY <1>1, <3>1
  <2> QED
    BY <2>1, <2>2, <2>3, <2>4, <2>5, <2>6
<1>5. lost' \subseteq Mbufs
  <2>1. CASE broadcast_packet
    <3>1. \A n : Least(free, n) \subseteq Mbufs
      BY <1>1, LeastIn
    <3>2. pd.mbuf \in Mbufs
      BY <1>2, <2>1 DEF broadcast_packet, Ended
    <3>3. lost' = lost \cup Least(free, Cardinality(Ports) - 1) \cup {pd.mbuf}
      BY <2>1 DEF broadcast_packet
    <3> QED
      BY <1>1, <3>1, <3>2, <3>3
  <2>2. CASE async_handle_packet_drops \/ do_crypto_task
    BY <1>1, <1>2, <1>3, <2>2 DEF async_handle_packet_drops, do_crypto_task, AtCall
  <2>3. CASE ~broadcast_packet /\ ~async_handle_packet_drops /\ ~do_crypto_task
    <3>1. lost' = lost
      BY <1>0, <2>3 DEF tx_burst_queue_drain, drain_not_due, main_loop_rx_group, NextGroup,
         PostRx, do_single_rx, Receives, do_sync_crypto_operation, CallForwards,
         CallOfOtherPhase, free_packet, dpdk_send_packet, enqueue_async_operations,
         dequeue_finished_async_operations, resume_packet_handling, AsyncDone, DeviceFinishes,
         main_loop_fake_crypto, vars, nic
    <3> QED
      BY <1>1, <3>1
  <2> QED
    BY <2>1, <2>2, <2>3
<1>6. pool' \subseteq Contexts
  <2>1. CASE enqueue_async_operations
    <3>1. PICK n \in 0 .. Len(freeRing) : pool' = pool \cup ToSet(SubSeq(freeRing, 1, n))
      BY <2>1, EnqueueTypes
    <3>2. freeRing \in Seq(Contexts)
      BY DEF IInv, TypeInv
    <3>3. ToSet(SubSeq(freeRing, 1, n)) \subseteq ToSet(freeRing)
      BY <3>2, SplitSeq
    <3> QED
      BY <1>1, <3>1, <3>3, SeqTypes
  <2>2. CASE ~enqueue_async_operations
    <3>1. pool' = pool \/ pool' \subseteq pool \/ (pool' = pool \cup {pd.ctx} /\ pd.ctx # None)
      BY <1>0, <2>2 DEF tx_burst_queue_drain, drain_not_due, main_loop_rx_group, NextGroup,
         PostRx, do_single_rx, async_handle_packet_drops, do_sync_crypto_operation,
         CallForwards, CallOfOtherPhase, do_crypto_task, free_packet, dpdk_send_packet,
         broadcast_packet, PostSingleTx, dequeue_finished_async_operations,
         resume_packet_handling, AsyncDone, DeviceFinishes, main_loop_fake_crypto, vars, ctxs
    <3> QED
      BY <1>1, <3>1
  <2> QED
    BY <2>1, <2>2
<1>7. txq' \in [Ports -> Seq(Mbufs)] /\ \A p \in Ports : Len(txq'[p]) < MAX_PKT_BURST
  <2>1. /\ << >> \in Seq(Mbufs) /\ Len(<< >>) = 0 /\ 0 < MAX_PKT_BURST
    BY PathAssumption
  <2>2. CASE tx_burst_queue_drain
    <3>1. txq' = [p \in Ports |-> << >>]
      BY <2>2, DrainTypes
    <3> QED
      BY <2>1, <3>1
  <2>3. CASE dpdk_send_packet
    <3> DEFINE e == get_egress_port
               q == Append(txq[e], pd.mbuf)
    <3>1. PICK r \in Seq(Mbufs) : Len(r) < MAX_PKT_BURST /\ txq' = [txq EXCEPT ![e] = r]
      <4>1. \/ Len(q) < MAX_PKT_BURST /\ txq' = [txq EXCEPT ![e] = q]
            \/ txq' = [txq EXCEPT ![e] = << >>]
        BY <2>3, SendTypes
      <4>2. q \in Seq(Mbufs)
        BY <2>3, SendTypes
      <4> QED
        BY <2>1, <4>1, <4>2
    <3>2. e \in Ports
      BY <2>3, SendTypes
    <3> HIDE DEF e
    <3>3. txq' \in [Ports -> Seq(Mbufs)]
      BY <1>1, <3>1, <3>2
    <3>4. \A p \in Ports : txq'[p] = IF p = e THEN r ELSE txq[p]
      BY <1>1, <3>1, <3>2
    <3> QED
      BY <1>1, <3>1, <3>3, <3>4
  <2>4. CASE ~tx_burst_queue_drain /\ ~dpdk_send_packet
    <3>1. txq' = txq
      BY <1>0, <2>4 DEF drain_not_due, main_loop_rx_group, NextGroup,
         PostRx, do_single_rx, async_handle_packet_drops, do_sync_crypto_operation,
         CallForwards, CallOfOtherPhase, do_crypto_task, free_packet,
         broadcast_packet, enqueue_async_operations, dequeue_finished_async_operations,
         resume_packet_handling, AsyncDone, DeviceFinishes, main_loop_fake_crypto, vars, nic
    <3> QED
      BY <1>1, <3>1
  <2> QED
    BY <2>2, <2>3, <2>4
<1> QED
  BY <1>4, <1>5, <1>6, <1>7

\* The queues of the crypto device and the ring of contexts.
LEMMA QueueTypes ==
    ASSUME IInv, Step
    PROVE  /\ asyncq' \in Seq(Mbufs) /\ dev' \in Seq(Mbufs) /\ finished' \in Seq(Mbufs)
           /\ taken' \in Nat /\ ready' \in 0 .. Len(dev') /\ pending' \in Nat
           /\ pending' = Len(dev') + taken'
<1>0. \/ tx_burst_queue_drain \/ drain_not_due
      \/ main_loop_rx_group \/ NextGroup \/ PostRx \/ do_single_rx
      \/ async_handle_packet_drops
      \/ do_sync_crypto_operation \/ CallForwards \/ CallOfOtherPhase \/ do_crypto_task
      \/ free_packet \/ dpdk_send_packet \/ broadcast_packet
      \/ enqueue_async_operations \/ dequeue_finished_async_operations
      \/ resume_packet_handling \/ AsyncDone
      \/ DeviceFinishes \/ main_loop_fake_crypto
      \/ UNCHANGED vars
  BY StepCases
<1>1. /\ asyncq \in Seq(Mbufs) /\ dev \in Seq(Mbufs) /\ finished \in Seq(Mbufs)
      /\ taken \in Nat /\ ready \in 0 .. Len(dev) /\ pending \in Nat
      /\ pending = Len(dev) + taken /\ Len(dev) \in Nat
  BY DEF IInv, TypeInv, TypeOK, LoopInv
<1>2. CASE do_crypto_task
  <2>1. pd.mbuf \in Mbufs
    BY <1>2, InHand DEF do_crypto_task, AtCall
  <2>2. Append(asyncq, pd.mbuf) \in Seq(Mbufs)
    BY <1>1, <2>1, AppendSeq
  <2>3. asyncq' \in Seq(Mbufs)
    BY <1>1, <1>2, <2>2 DEF do_crypto_task
  <2> QED
    BY <1>1, <1>2, <2>3 DEF do_crypto_task
<1>3. CASE enqueue_async_operations
  <2>1. PICK n \in 0 .. Len(asyncq) :
           /\ dev' = dev \o SubSeq(asyncq, 1, n)
           /\ asyncq' = SubSeq(asyncq, n + 1, Len(asyncq))
           /\ pending' = pending + n
    BY <1>3, EnqueueTypes
  <2> DEFINE a == SubSeq(asyncq, 1, n)
  <2>2. a \in Seq(Mbufs) /\ Len(a) = n /\ asyncq' \in Seq(Mbufs) /\ n \in Nat
    BY <1>1, <2>1, SplitSeq
  <2>3. dev' = dev \o a
    BY <2>1
  <2> HIDE DEF a
  <2>4. dev' \in Seq(Mbufs) /\ Len(dev') = Len(dev) + n
    BY <1>1, <2>2, <2>3, JoinSeq
  <2>5. finished' = finished /\ taken' = taken /\ ready' = ready
    BY <1>3 DEF enqueue_async_operations
  <2> DEFINE l == Len(dev)
  <2>6. /\ l \in Nat /\ n \in Nat /\ taken \in Nat /\ ready \in 0 .. l /\ pending = l + taken
        /\ Len(dev') = l + n /\ pending' = pending + n
    BY <1>1, <2>1, <2>2, <2>4
  <2> HIDE DEF l
  <2>7. ready' \in 0 .. Len(dev') /\ pending' \in Nat /\ pending' = Len(dev') + taken'
    BY <2>5, <2>6
  <2> QED
    BY <1>1, <2>2, <2>4, <2>5, <2>7
<1>4. CASE dequeue_finished_async_operations
  <2>1. PICK n \in 0 .. Len(dev) :
           /\ finished' = SubSeq(dev, 1, n) /\ taken' = n
           /\ dev' = SubSeq(dev, n + 1, Len(dev)) /\ ready' = ready - n /\ n <= ready
    BY <1>4, DequeueTypes
  <2>2. /\ finished' \in Seq(Mbufs) /\ dev' \in Seq(Mbufs) /\ Len(dev') = Len(dev) - n
    BY <1>1, <2>1, SplitSeq
  <2>3. asyncq' = asyncq /\ pending' = pending
    BY <1>4 DEF dequeue_finished_async_operations
  <2>4. taken = 0
    BY <1>4 DEF dequeue_finished_async_operations, IInv, LoopInv
  <2> DEFINE l == Len(dev)
  <2>5. /\ l \in Nat /\ n \in 0 .. l /\ ready \in 0 .. l /\ pending = l
        /\ Len(dev') = l - n /\ ready' = ready - n /\ n <= ready
    BY <1>1, <2>1, <2>2, <2>4
  <2> HIDE DEF l
  <2>6. /\ taken' \in Nat /\ ready' \in 0 .. Len(dev') /\ pending' \in Nat
        /\ pending' = Len(dev') + taken'
    BY <2>1, <2>3, <2>5
  <2> QED
    BY <1>1, <2>2, <2>3, <2>6
<1>5. CASE resume_packet_handling
  <2>1. finished # << >> /\ finished' = Tail(finished)
    BY <1>5 DEF resume_packet_handling
  <2>2. finished' \in Seq(Mbufs)
    BY <1>1, <2>1, TailSeq
  <2> QED
    BY <1>1, <1>5, <2>2 DEF resume_packet_handling
<1>6. CASE AsyncDone
  BY <1>1, <1>6 DEF AsyncDone
<1>7. CASE DeviceFinishes \/ main_loop_fake_crypto
  <2>1. ready' \in 0 .. Len(dev)
    BY <1>1, <1>7, PathAssumption DEF DeviceFinishes, main_loop_fake_crypto
  <2> QED
    BY <1>1, <1>7, <2>1 DEF DeviceFinishes, main_loop_fake_crypto
<1>8. CASE \/ tx_burst_queue_drain \/ drain_not_due \/ main_loop_rx_group \/ NextGroup \/ PostRx
           \/ do_single_rx \/ async_handle_packet_drops
           \/ do_sync_crypto_operation \/ CallForwards \/ CallOfOtherPhase
           \/ free_packet \/ dpdk_send_packet \/ broadcast_packet \/ UNCHANGED vars
  <2>1. UNCHANGED tasks
    BY <1>8 DEF tx_burst_queue_drain, drain_not_due, main_loop_rx_group, NextGroup, PostRx,
       do_single_rx, async_handle_packet_drops, do_sync_crypto_operation, CallForwards,
       CallOfOtherPhase, free_packet, dpdk_send_packet, broadcast_packet, vars
  <2> QED
    BY <1>1, <2>1 DEF tasks
<1> QED
  BY <1>0, <1>2, <1>3, <1>4, <1>5, <1>6, <1>7, <1>8

\* The ring of contexts, and what suspended handlers left.
LEMMA StoreTypes ==
    ASSUME IInv, Step
    PROVE  freeRing' \in Seq(Contexts) /\ store' \in [Contexts -> Descriptors \cup {None}]
<1>0. \/ tx_burst_queue_drain \/ drain_not_due
      \/ main_loop_rx_group \/ NextGroup \/ PostRx \/ do_single_rx
      \/ async_handle_packet_drops
      \/ do_sync_crypto_operation \/ CallForwards \/ CallOfOtherPhase \/ do_crypto_task
      \/ free_packet \/ dpdk_send_packet \/ broadcast_packet
      \/ enqueue_async_operations \/ dequeue_finished_async_operations
      \/ resume_packet_handling \/ AsyncDone
      \/ DeviceFinishes \/ main_loop_fake_crypto
      \/ UNCHANGED vars
  BY StepCases
<1>1. /\ freeRing \in Seq(Contexts) /\ store \in [Contexts -> Descriptors \cup {None}]
      /\ pd.ctx \in Contexts \cup {None}
  BY DEF IInv, TypeInv, TypeOK
<1>2. freeRing' \in Seq(Contexts)
  <2>1. CASE enqueue_async_operations
    <3>1. PICK n \in 0 .. Len(freeRing) : freeRing' = SubSeq(freeRing, n + 1, Len(freeRing))
      BY <2>1, EnqueueTypes
    <3> QED
      BY <1>1, <3>1, SplitSeq
  <2>2. CASE ~enqueue_async_operations
    <3>1. freeRing' = freeRing \/ (freeRing' = Append(freeRing, pd.ctx) /\ pd.ctx # None)
      BY <1>0, <2>2 DEF tx_burst_queue_drain, drain_not_due, main_loop_rx_group, NextGroup,
         PostRx, do_single_rx, async_handle_packet_drops, do_sync_crypto_operation,
         CallForwards, CallOfOtherPhase, do_crypto_task, free_packet, dpdk_send_packet,
         broadcast_packet, PostSingleTx, dequeue_finished_async_operations,
         resume_packet_handling, AsyncDone, DeviceFinishes, main_loop_fake_crypto, vars, ctxs
    <3>2. pd.ctx \in Contexts => Append(freeRing, pd.ctx) \in Seq(Contexts)
      BY <1>1, AppendSeq
    <3> QED
      BY <1>1, <3>1, <3>2
  <2> QED
    BY <2>1, <2>2
<1>3. store' \in [Contexts -> Descriptors \cup {None}]
  <2>1. CASE do_crypto_task
    BY <1>1, <2>1, TaskTypes
  <2>2. CASE resume_packet_handling
    <3>1. PICK c \in Suspended : store' = [store EXCEPT ![c] = None]
      BY <2>2, ResumeTypes
    <3> QED
      BY <1>1, <3>1
  <2>3. CASE ~do_crypto_task /\ ~resume_packet_handling
    <3>1. store' = store
      BY <1>0, <2>3 DEF tx_burst_queue_drain, drain_not_due, main_loop_rx_group, NextGroup,
         PostRx, do_single_rx, async_handle_packet_drops, do_sync_crypto_operation,
         CallForwards, CallOfOtherPhase, free_packet, dpdk_send_packet, broadcast_packet,
         PostSingleTx, enqueue_async_operations, dequeue_finished_async_operations,
         AsyncDone, DeviceFinishes, main_loop_fake_crypto, vars, ctxs
    <3> QED
      BY <1>1, <3>1
  <2> QED
    BY <2>1, <2>2, <2>3
<1> QED
  BY <1>2, <1>3

\* A packet that gets its program: the headers of a tunnel are opened at once.
LEMMA ReceiveTypes ==
    ASSUME IInv, do_single_rx
    PROVE  \E prog \in Programs, ctx \in pool \cup {None} :
              /\ pd' = [mbuf |-> Head(burst), ctx |-> ctx, phase |-> 0, k |-> 1,
                        sync |-> every' = 0]
              /\ pool' = pool \ {ctx}
              /\ ctx # None => mode \in {"context", "pd"}
              /\ meta' = HandleStarts(Head(burst), prog, Head(queue))
              /\ packet' = [packet EXCEPT ![Head(burst)] =
                              [NoPacket EXCEPT !.prog = prog, !.from = Head(queue),
                                               !.received = packet[Head(burst)].len,
                                               !.len = Opened(prog, packet[Head(burst)].len)]]
              /\ Opened(prog, packet[Head(burst)].len) \in Int
              /\ pc' = "handle" /\ lost' = lost /\ caller' = "main" /\ after' = "single_rx"
              /\ burst' = Tail(burst) /\ burst # << >> /\ pc = "single_rx"
<1> DEFINE m == Head(burst)
<1>1. pc = "single_rx" /\ burst # << >> /\ burst' = Tail(burst)
      /\ caller' = "main" /\ after' = "single_rx"
  BY DEF do_single_rx
<1>2. PICK prog \in Programs, ctx \in pool \cup {None} :
         /\ Receives(every' = 0, ctx, prog)
         /\ pool' = pool \ {ctx}
         /\ ctx # None => mode \in {"context", "pd"}
  <2>1. PICK prog \in Programs :
           \/ Receives(every' = 0, None, prog) /\ UNCHANGED pool
           \/ /\ mode \in {"context", "pd"} /\ pool # {}
              /\ Receives(every' = 0, AnyContext, prog) /\ pool' = pool \ {AnyContext}
    BY DEF do_single_rx
  <2>2. pool # {} => AnyContext \in pool
    BY DEF AnyContext
  <2>3. None \notin pool
    BY NoneAssumption DEF IInv, TypeInv, TypeOK
  <2>4. CASE Receives(every' = 0, None, prog) /\ UNCHANGED pool
    <3>1. pool' = pool \ {None}
      BY <2>3, <2>4
    <3> QED
      BY <2>4, <3>1
  <2>5. CASE /\ mode \in {"context", "pd"} /\ pool # {}
             /\ Receives(every' = 0, AnyContext, prog) /\ pool' = pool \ {AnyContext}
    BY <2>2, <2>5
  <2> QED
    BY <2>1, <2>4, <2>5
<1>3. /\ packet \in [Mbufs -> Packets] /\ m \in Mbufs /\ packet[m].len \in Int
      /\ packet[m] = [NoPacket EXCEPT !.from = Head(queue), !.received = packet[m].len,
                                      !.len = packet[m].len]
  BY <1>1, InBurstHead DEF IInv, TypeInv
<1>4. Opened(prog, packet[m].len) \in Int
  <2>1. \A n \in Int : ToEncrypt(n) \in Int
    BY PaddingFills DEF ToEncrypt, ETH
  <2> QED
    BY <1>3, <2>1 DEF Opened, IpsecOpened, ESPHEAD, ETH, IP
<1>5. packet' = [packet EXCEPT ![m] = [packet[m] EXCEPT !.prog = prog,
                                                        !.len = Opened(prog, packet[m].len)]]
  BY <1>2, <1>3 DEF Receives
<1>6. [packet[m] EXCEPT !.prog = prog, !.len = Opened(prog, packet[m].len)]
        = [NoPacket EXCEPT !.prog = prog, !.from = Head(queue), !.received = packet[m].len,
                           !.len = Opened(prog, packet[m].len)]
  <2> DEFINE l == packet[m].len
             o == Opened(prog, l)
             t == packet[m]
  <2>1. t = [NoPacket EXCEPT !.from = Head(queue), !.received = l, !.len = l]
    BY <1>3
  <2> HIDE DEF l, o, t
  <2>2. [t EXCEPT !.prog = prog, !.len = o]
          = [NoPacket EXCEPT !.prog = prog, !.from = Head(queue), !.received = l, !.len = o]
    BY <2>1 DEF NoPacket
  <2> QED
    BY <2>2 DEF l, o, t
<1> QED
  BY <1>1, <1>2, <1>4, <1>5, <1>6 DEF Receives

\* What is written in the buffers.
LEMMA PacketTypes ==
    ASSUME IInv, Step
    PROVE  packet' \in [Mbufs -> Packets]
<1>0. \/ tx_burst_queue_drain \/ drain_not_due
      \/ main_loop_rx_group \/ NextGroup \/ PostRx \/ do_single_rx
      \/ async_handle_packet_drops
      \/ do_sync_crypto_operation \/ CallForwards \/ CallOfOtherPhase \/ do_crypto_task
      \/ free_packet \/ dpdk_send_packet \/ broadcast_packet
      \/ enqueue_async_operations \/ dequeue_finished_async_operations
      \/ resume_packet_handling \/ AsyncDone
      \/ DeviceFinishes \/ main_loop_fake_crypto
      \/ UNCHANGED vars
  BY StepCases
<1>1. packet \in [Mbufs -> Packets] /\ queue \in Seq(Ports)
  BY DEF IInv, TypeInv
<1>2. << >> \in Seq(Contexts) /\ << >> \in Seq(Calls)
  OBVIOUS
<1>3. NoPacket \in Packets
  BY <1>2 DEF NoPacket, Packets
<1>4. CASE main_loop_rx_group
  <2>1. PICK n \in 0 .. MAX_PKT_BURST, len \in Lengths :
           packet' = [m \in Mbufs |-> IF m \in Least(free, n)
                                      THEN [NoPacket EXCEPT !.from = Head(queue), !.received = len, !.len = len]
                                      ELSE packet[m]]
    BY <1>4 DEF main_loop_rx_group
  <2>2. Head(queue) \in Ports /\ len \in Int
    BY <1>1, <1>4, TailSeq, PathAssumption DEF main_loop_rx_group
  <2>3. [NoPacket EXCEPT !.from = Head(queue), !.received = len, !.len = len] \in Packets
    BY <1>3, <2>2 DEF Packets
  <2> QED
    BY <1>1, <2>1, <2>3
<1>5. CASE do_single_rx
  <2>1. PICK prog \in Programs :
           /\ packet' = [packet EXCEPT ![Head(burst)] =
                           [NoPacket EXCEPT !.prog = prog, !.from = Head(queue),
                                            !.received = packet[Head(burst)].len,
                                            !.len = Opened(prog, packet[Head(burst)].len)]]
           /\ Opened(prog, packet[Head(burst)].len) \in Int
    BY <1>5, ReceiveTypes
  <2>2. Head(queue) \in Ports /\ Head(burst) \in Mbufs /\ packet[Head(burst)].len \in Int
    BY <1>5, InBurstHead DEF do_single_rx
  <2>3. [NoPacket EXCEPT !.prog = prog, !.from = Head(queue),
                         !.received = packet[Head(burst)].len,
                         !.len = Opened(prog, packet[Head(burst)].len)] \in Packets
    BY <1>3, <2>1, <2>2 DEF Packets
  <2> QED
    BY <1>1, <2>1, <2>2, <2>3
<1>6. CASE do_sync_crypto_operation \/ CallForwards \/ CallOfOtherPhase
  BY <1>6, CallTypes
<1>7. CASE do_crypto_task
  BY <1>7, TaskTypes
<1>8. CASE resume_packet_handling
  <2>1. /\ packet' = [packet EXCEPT ![Head(finished)] = Unwrapped(packet[Head(finished)])]
        /\ Unwrapped(packet[Head(finished)]) \in Packets
    BY <1>8, ResumeTypes
  <2> QED
    BY <1>1, <2>1
<1>9. CASE \/ async_handle_packet_drops \/ free_packet \/ dpdk_send_packet \/ broadcast_packet
  <2>1. \E m : packet' = [packet EXCEPT ![m] = NoPacket]
    BY <1>9 DEF async_handle_packet_drops, free_packet, dpdk_send_packet, broadcast_packet,
                PostSingleTx
  <2> QED
    BY <1>1, <1>3, <2>1
<1>10. CASE \/ tx_burst_queue_drain \/ drain_not_due \/ NextGroup \/ PostRx
            \/ enqueue_async_operations \/ dequeue_finished_async_operations \/ AsyncDone
            \/ DeviceFinishes \/ main_loop_fake_crypto \/ UNCHANGED vars
  <2>1. packet' = packet
    BY <1>10 DEF tx_burst_queue_drain, drain_not_due, NextGroup, PostRx,
       enqueue_async_operations, dequeue_finished_async_operations, AsyncDone, DeviceFinishes,
       main_loop_fake_crypto, vars
  <2> QED
    BY <1>1, <2>1
<1> QED
  BY <1>0, <1>4, <1>5, <1>6, <1>7, <1>8, <1>9, <1>10

\* Every step keeps the types.
LEMMA TypeStep == ASSUME IInv, Step PROVE TypeInv'
<1>1. mode \in Modes /\ node \in BOOLEAN
  BY DEF IInv, TypeInv, TypeOK
<1>2. TypeOK'
  BY <1>1, ControlTypes, HandTypes, PoolTypes, QueueTypes DEF TypeOK
<1> QED
  BY <1>2, BurstTypes, HandTypes, PoolTypes, QueueTypes, StoreTypes, PacketTypes DEF TypeInv

-----------------------------------------------------------------------------
\* Where the lcore is, the burst and the metadata.

\* No buffer is in two places.
LEMMA Apart ==
    ASSUME IInv
    PROVE  /\ pc = "handle" => pd.mbuf \notin free \cup ToSet(burst) \cup InTxq \cup InCrypto \cup lost
           /\ ToSet(burst) \cap (free \cup InTxq \cup InCrypto \cup lost) = {}
           /\ InCrypto \cap (free \cup InTxq \cup lost) = {}
           /\ free \cap (InTxq \cup lost) = {} /\ InTxq \cap lost = {}
           /\ ToSet(asyncq) \cap (ToSet(dev) \cup ToSet(finished)) = {}
           /\ ToSet(dev) \cap ToSet(finished) = {}
<1>1. ASSUME NEW m \in Mbufs, NEW i \in 1 .. 8, NEW j \in 1 .. 8, m \in Where[i], m \in Where[j]
      PROVE  i = j
  <2>1. DOMAIN Where = 1 .. 8
    BY DEF Where
  <2>2. InOne(m, Where)
    BY DEF IInv, MbufInv
  <2> QED
    BY <1>1, <2>1, <2>2 DEF InOne
<1>2. /\ Where[1] = free /\ Where[2] = ToSet(burst) /\ Where[4] = InTxq
      /\ Where[5] = ToSet(asyncq) /\ Where[6] = ToSet(dev) /\ Where[7] = ToSet(finished)
      /\ Where[8] = lost
      /\ pc = "handle" => pd.mbuf \in Where[3]
  BY DEF Where
<1>3. /\ \A m \in Mbufs : m \in free => m \notin InTxq /\ m \notin lost
      /\ \A m \in Mbufs : m \in InTxq => m \notin lost
  <2>1. 1 # 4 /\ 1 # 8 /\ 4 # 8
    OBVIOUS
  <2> QED
    BY <1>1, <1>2, <2>1
<1>4. /\ \A m \in Mbufs : m \in ToSet(asyncq) => m \notin ToSet(dev) /\ m \notin ToSet(finished)
      /\ \A m \in Mbufs : m \in ToSet(dev) => m \notin ToSet(finished)
  BY <1>1, <1>2
<1>5. \A m \in Mbufs : m \in InCrypto => m \notin free /\ m \notin InTxq /\ m \notin lost
  BY <1>1, <1>2 DEF InCrypto
<1>6. \A m \in Mbufs : m \in ToSet(burst) =>
         m \notin free /\ m \notin InTxq /\ m \notin lost /\ m \notin InCrypto
  BY <1>1, <1>2 DEF InCrypto
<1>7. ASSUME pc = "handle"
      PROVE pd.mbuf \notin free \cup ToSet(burst) \cup InTxq \cup InCrypto \cup lost
  <2>1. pd.mbuf \in Mbufs /\ pd.mbuf \in Where[3]
    BY <1>2, <1>7, InHand
  <2>2. pd.mbuf \notin free /\ pd.mbuf \notin ToSet(burst) /\ pd.mbuf \notin InTxq
        /\ pd.mbuf \notin lost
    BY <1>1, <1>2, <2>1
  <2>3. pd.mbuf \notin InCrypto
    BY <1>1, <1>2, <2>1 DEF InCrypto
  <2> QED
    BY <2>2, <2>3
<1>8. /\ free \subseteq Mbufs /\ lost \subseteq Mbufs /\ ToSet(burst) \subseteq Mbufs
      /\ ToSet(asyncq) \subseteq Mbufs /\ ToSet(dev) \subseteq Mbufs
      /\ ToSet(finished) \subseteq Mbufs /\ InTxq \subseteq Mbufs
  BY SeqTypes DEF IInv, TypeInv, TypeOK
<1>9. InCrypto \subseteq Mbufs
  BY <1>8 DEF InCrypto
<1> QED
  BY <1>3, <1>4, <1>5, <1>6, <1>7, <1>8, <1>9

\* A step writes only in a free buffer, in the head of the burst, in the packet in hand
\* and in the packet that is resumed.
LEMMA WritesOnly ==
    ASSUME IInv, Step, NEW m \in Mbufs, packet'[m] # packet[m]
    PROVE  \/ main_loop_rx_group /\ m \in free
           \/ do_single_rx \/ async_handle_packet_drops
           \/ pc = "handle" /\ m = pd.mbuf
           \/ resume_packet_handling
<1>0. \/ tx_burst_queue_drain \/ drain_not_due
      \/ main_loop_rx_group \/ NextGroup \/ PostRx \/ do_single_rx
      \/ async_handle_packet_drops
      \/ do_sync_crypto_operation \/ CallForwards \/ CallOfOtherPhase \/ do_crypto_task
      \/ free_packet \/ dpdk_send_packet \/ broadcast_packet
      \/ enqueue_async_operations \/ dequeue_finished_async_operations
      \/ resume_packet_handling \/ AsyncDone
      \/ DeviceFinishes \/ main_loop_fake_crypto
      \/ UNCHANGED vars
  BY StepCases
<1>1. packet \in [Mbufs -> Packets] /\ (pc = "handle" => pd.mbuf \in Mbufs)
  BY InHand DEF IInv, TypeInv
<1>2. CASE main_loop_rx_group
  <2>1. \E n \in 0 .. MAX_PKT_BURST : m \in Least(free, n)
    BY <1>1, <1>2 DEF main_loop_rx_group
  <2> QED
    BY <1>2, <2>1, LeastIn
<1>3. CASE do_sync_crypto_operation \/ CallForwards \/ CallOfOtherPhase
  BY <1>1, <1>3 DEF do_sync_crypto_operation, CallForwards, CallOfOtherPhase, AtCall
<1>4. CASE do_crypto_task
  BY <1>1, <1>4, TaskTypes DEF do_crypto_task, AtCall
<1>5. CASE free_packet \/ dpdk_send_packet \/ broadcast_packet
  BY <1>1, <1>5 DEF free_packet, dpdk_send_packet, broadcast_packet, PostSingleTx, Ended
<1>6. CASE \/ tx_burst_queue_drain \/ drain_not_due \/ NextGroup \/ PostRx
           \/ enqueue_async_operations \/ dequeue_finished_async_operations \/ AsyncDone
           \/ DeviceFinishes \/ main_loop_fake_crypto \/ UNCHANGED vars
  <2>1. packet' = packet
    BY <1>6 DEF tx_burst_queue_drain, drain_not_due, NextGroup, PostRx,
       enqueue_async_operations, dequeue_finished_async_operations, AsyncDone, DeviceFinishes,
       main_loop_fake_crypto, vars
  <2> QED
    BY <2>1
<1> QED
  BY <1>0, <1>2, <1>3, <1>4, <1>5, <1>6

\* Where the lcore is in its loop.
LEMMA LoopStep == ASSUME IInv, Step PROVE LoopInv'
<1>0. \/ tx_burst_queue_drain \/ drain_not_due
      \/ main_loop_rx_group \/ NextGroup \/ PostRx \/ do_single_rx
      \/ async_handle_packet_drops
      \/ do_sync_crypto_operation \/ CallForwards \/ CallOfOtherPhase \/ do_crypto_task
      \/ free_packet \/ dpdk_send_packet \/ broadcast_packet
      \/ enqueue_async_operations \/ dequeue_finished_async_operations
      \/ resume_packet_handling \/ AsyncDone
      \/ DeviceFinishes \/ main_loop_fake_crypto
      \/ UNCHANGED vars
  BY StepCases
<1>1. /\ pc \in {"pre_rx", "rx_group", "single_rx", "handle", "async", "dequeue", "resume"}
      /\ caller \in {"main", "async"} /\ after \in {"pre_rx", "single_rx"}
  BY DEF Step, IInv, TypeInv, TypeOK
<1>2. LoopInv
  BY DEF IInv
<1>3. IF InBurst' THEN queue' # << >> ELSE burst' = << >>
  <2>1. CASE do_single_rx \/ async_handle_packet_drops
    <3>1. queue' = queue /\ pc = "single_rx" /\ InBurst'
      BY <2>1 DEF do_single_rx, Receives, async_handle_packet_drops, InBurst
    <3> QED
      BY <1>2, <3>1 DEF LoopInv, InBurst
  <2>2. CASE main_loop_rx_group
    BY <2>2 DEF main_loop_rx_group, InBurst
  <2>3. CASE NextGroup
    BY <2>3 DEF NextGroup, InBurst
  <2>4. CASE tx_burst_queue_drain \/ drain_not_due \/ PostRx
    BY <1>2, <2>4 DEF tx_burst_queue_drain, drain_not_due, PostRx, LoopInv, InBurst
  <2>5. CASE free_packet \/ dpdk_send_packet \/ broadcast_packet
    <3>1. /\ pc = "handle" /\ pc' = Return /\ UNCHANGED <<queue, burst, caller, after>>
      BY <2>5 DEF free_packet, dpdk_send_packet, broadcast_packet, PostSingleTx, Ended
    <3>2. InBurst' <=> InBurst
      BY <1>1, <1>2, <3>1 DEF Return, LoopInv, InBurst
    <3> QED
      BY <1>2, <3>1, <3>2 DEF LoopInv
  <2>6. CASE do_sync_crypto_operation \/ CallForwards \/ CallOfOtherPhase \/ do_crypto_task
    <3>1. /\ pc = "handle" /\ UNCHANGED <<queue, burst, after>>
          /\ pc' \in {"handle", "resume", "async"}
      BY <2>6 DEF do_sync_crypto_operation, CallForwards, CallOfOtherPhase, do_crypto_task, AtCall
    <3>2. InBurst' <=> InBurst
      BY <3>1 DEF InBurst
    <3> QED
      BY <1>2, <3>1, <3>2 DEF LoopInv
  <2>7. CASE \/ enqueue_async_operations \/ dequeue_finished_async_operations
             \/ resume_packet_handling \/ AsyncDone \/ DeviceFinishes \/ main_loop_fake_crypto
             \/ UNCHANGED vars
    <3>1. UNCHANGED <<queue, burst>>
      BY <2>7 DEF enqueue_async_operations, dequeue_finished_async_operations,
         resume_packet_handling, AsyncDone, DeviceFinishes, main_loop_fake_crypto, vars
    <3>2. InBurst' <=> InBurst
      BY <1>1, <2>7 DEF enqueue_async_operations, dequeue_finished_async_operations,
         resume_packet_handling, AsyncDone, DeviceFinishes, main_loop_fake_crypto, vars, InBurst
    <3> QED
      BY <1>2, <3>1, <3>2 DEF LoopInv
  <2> QED
    BY <1>0, <2>1, <2>2, <2>3, <2>4, <2>5, <2>6, <2>7
<1>4. pc' = "handle" /\ caller' = "main" => after' = "single_rx"
  BY <1>0, <1>1, <1>2 DEF LoopInv, tx_burst_queue_drain, drain_not_due, main_loop_rx_group,
     NextGroup, PostRx, do_single_rx, async_handle_packet_drops, do_sync_crypto_operation,
     CallForwards, CallOfOtherPhase, AtCall, do_crypto_task, free_packet, dpdk_send_packet,
     broadcast_packet, PostSingleTx, Return, enqueue_async_operations,
     dequeue_finished_async_operations, resume_packet_handling, AsyncDone, DeviceFinishes,
     main_loop_fake_crypto, vars
<1>5. finished' # << >> \/ taken' # 0 => pc' = "resume" \/ (pc' = "handle" /\ caller' = "async")
  <2>1. CASE dequeue_finished_async_operations \/ resume_packet_handling
    BY <2>1 DEF dequeue_finished_async_operations, resume_packet_handling
  <2>2. CASE AsyncDone
    BY <2>2 DEF AsyncDone
  <2>3. CASE enqueue_async_operations
    BY <1>2, <2>3 DEF enqueue_async_operations, LoopInv
  <2>4. CASE free_packet \/ dpdk_send_packet \/ broadcast_packet
    <3>1. /\ pc = "handle" /\ pc' = Return /\ UNCHANGED <<caller, tasks>>
      BY <2>4 DEF free_packet, dpdk_send_packet, broadcast_packet, PostSingleTx, Ended
    <3> QED
      BY <1>2, <3>1 DEF Return, LoopInv, tasks
  <2>5. CASE do_crypto_task
    <3>1. pc = "handle" /\ UNCHANGED <<finished, taken>> /\ pd.ctx # None
      BY <2>5 DEF do_crypto_task, AtCall
    <3>2. caller = "async" => pc' = "resume"
      BY <1>2, <2>5, <3>1 DEF do_crypto_task, jump_to_main_loop, LoopInv
    <3> QED
      BY <1>2, <3>1, <3>2 DEF LoopInv
  <2>6. CASE \/ tx_burst_queue_drain \/ drain_not_due \/ main_loop_rx_group \/ NextGroup \/ PostRx
             \/ do_single_rx \/ async_handle_packet_drops \/ do_sync_crypto_operation
             \/ CallForwards \/ CallOfOtherPhase \/ DeviceFinishes \/ main_loop_fake_crypto
             \/ UNCHANGED vars
    <3>1. UNCHANGED <<finished, taken>>
      BY <2>6 DEF tx_burst_queue_drain, drain_not_due, main_loop_rx_group,
         NextGroup, PostRx, do_single_rx, async_handle_packet_drops, do_sync_crypto_operation,
         CallForwards, CallOfOtherPhase, DeviceFinishes, main_loop_fake_crypto, vars, tasks
    <3>2. pc \in {"resume", "handle"} => pc' = pc /\ caller' = caller
      BY <2>6 DEF tx_burst_queue_drain, drain_not_due, main_loop_rx_group,
         NextGroup, PostRx, do_single_rx, async_handle_packet_drops, do_sync_crypto_operation,
         CallForwards, CallOfOtherPhase, DeviceFinishes, main_loop_fake_crypto, vars
    <3>3. pc # "strayed"
      BY DEF Step
    <3> QED
      BY <1>2, <3>1, <3>2, <3>3 DEF LoopInv
  <2> QED
    BY <1>0, <2>1, <2>2, <2>3, <2>4, <2>5, <2>6
<1>6. pending' = Len(dev') + taken'
  BY QueueTypes
<1>7. ASSUME pc' = "handle", pd'.ctx # None
      PROVE  mode' \in {"context", "pd"} /\ (mode' = "pd" => (pd'.phase = 0 <=> caller' = "main"))
  <2>0. mode' = mode
    BY ControlTypes
  <2>1. CASE do_single_rx
    <3>1. PICK ctx \in pool \cup {None} :
             /\ pd' = [mbuf |-> Head(burst), ctx |-> ctx, phase |-> 0, k |-> 1,
                       sync |-> every' = 0]
             /\ ctx # None => mode \in {"context", "pd"}
             /\ caller' = "main"
      BY <2>1, ReceiveTypes
    <3> QED
      BY <1>7, <2>0, <3>1
  <2>2. CASE resume_packet_handling
    <3>1. PICK c \in Suspended : store[c] \in Descriptors /\ pd' = Resumed(store[c])
      BY <2>2, ResumeTypes
    <3>2. mode \in {"context", "pd"} /\ caller' = "async"
      BY <2>2, <3>1 DEF IInv, HandlerInv, resume_packet_handling
    <3>3. mode = "pd" => pd'.phase # 0
      <4>1. store[c].phase + 1 # 0
        BY <3>1 DEF Descriptors
      <4> QED
        BY <3>1, <4>1 DEF Resumed, ResumedIn, Descriptors
    <3> QED
      BY <2>0, <3>2, <3>3
  <2>3. CASE do_sync_crypto_operation \/ CallForwards \/ CallOfOtherPhase
    <3>1. /\ pc = "handle" /\ pd' = [pd EXCEPT !.k = @ + 1] /\ caller' = caller
      BY <2>3 DEF do_sync_crypto_operation, CallForwards, CallOfOtherPhase, AtCall
    <3>2. pd'.ctx = pd.ctx /\ pd'.phase = pd.phase
      BY <3>1, InHand
    <3> QED
      BY <1>2, <1>7, <2>0, <3>1, <3>2 DEF LoopInv
  <2>4. CASE ~(\/ do_single_rx \/ resume_packet_handling \/ do_sync_crypto_operation
               \/ CallForwards \/ CallOfOtherPhase)
    <3>1. pc = "handle" /\ pd' = pd /\ caller' = caller
      BY <1>0, <1>1, <1>7, <2>4 DEF tx_burst_queue_drain, drain_not_due, main_loop_rx_group,
         NextGroup, PostRx, async_handle_packet_drops, do_crypto_task, free_packet,
         dpdk_send_packet, broadcast_packet, PostSingleTx, Return, enqueue_async_operations,
         dequeue_finished_async_operations, AsyncDone, DeviceFinishes,
         main_loop_fake_crypto, vars
    <3> QED
      BY <1>2, <1>7, <2>0, <3>1 DEF LoopInv
  <2> QED
    BY <2>1, <2>2, <2>3, <2>4
<1> QED
  BY <1>3, <1>4, <1>5, <1>6, <1>7 DEF LoopInv

\* A packet of the burst is as the NIC wrote it.
LEMMA BurstStep == ASSUME IInv, Step PROVE BurstInv'
<1>0. \/ tx_burst_queue_drain \/ drain_not_due
      \/ main_loop_rx_group \/ NextGroup \/ PostRx \/ do_single_rx
      \/ async_handle_packet_drops
      \/ do_sync_crypto_operation \/ CallForwards \/ CallOfOtherPhase \/ do_crypto_task
      \/ free_packet \/ dpdk_send_packet \/ broadcast_packet
      \/ enqueue_async_operations \/ dequeue_finished_async_operations
      \/ resume_packet_handling \/ AsyncDone
      \/ DeviceFinishes \/ main_loop_fake_crypto
      \/ UNCHANGED vars
  BY StepCases
<1>1. /\ packet \in [Mbufs -> Packets] /\ burst \in Seq(Mbufs) /\ IsInjective(burst)
      /\ free \subseteq Mbufs /\ ToSet(burst) \subseteq Mbufs
  BY SeqTypes DEF IInv, TypeInv, TypeOK, MbufInv
<1>2. CASE main_loop_rx_group
  <2>1. PICK n \in 0 .. MAX_PKT_BURST, len \in Lengths :
           /\ burst' = SetToSeq(Least(free, n))
           /\ packet' = [m \in Mbufs |-> IF m \in Least(free, n)
                                         THEN [NoPacket EXCEPT !.from = Head(queue), !.received = len, !.len = len]
                                         ELSE packet[m]]
    BY <1>2 DEF main_loop_rx_group
  <2>2. Least(free, n) \subseteq Mbufs
    BY <1>1, LeastIn
  <2>3. ToSet(burst') = Least(free, n)
    <3>1. IsFiniteSet(Least(free, n))
      BY <2>2, FS_Subset, PathAssumption
    <3> QED
      BY <2>1, <3>1, OrderedSet
  <2>4. queue' = queue
    BY <1>2 DEF main_loop_rx_group
  <2>5. ASSUME NEW m \in ToSet(burst')
        PROVE  packet'[m] = [NoPacket EXCEPT !.from = Head(queue'), !.received = packet'[m].len,
                                             !.len = packet'[m].len]
    <3>1. packet'[m] = [NoPacket EXCEPT !.from = Head(queue), !.received = len, !.len = len]
      BY <2>1, <2>2, <2>3
    <3>2. packet'[m].len = len
      BY <3>1 DEF NoPacket
    <3> QED
      BY <2>4, <3>1, <3>2
  <2> QED
    BY <2>5 DEF BurstInv
<1>3. CASE do_single_rx \/ async_handle_packet_drops
  <2>1. /\ burst # << >> /\ burst' = Tail(burst) /\ queue' = queue
        /\ \E t : packet' = [packet EXCEPT ![Head(burst)] = t]
    <3>1. CASE do_single_rx
      BY <3>1, ReceiveTypes DEF do_single_rx
    <3>2. CASE async_handle_packet_drops
      BY <3>2 DEF async_handle_packet_drops
    <3> QED
      BY <1>3, <3>1, <3>2
  <2>2. /\ ToSet(burst') \subseteq ToSet(burst) /\ Head(burst) \notin ToSet(burst')
    BY <1>1, <2>1, TailSeq
  <2>3. \A m \in ToSet(burst') : packet'[m] = packet[m]
    BY <1>1, <2>1, <2>2
  <2> QED
    BY <2>1, <2>2, <2>3 DEF IInv, BurstInv
<1>4. CASE ~main_loop_rx_group /\ ~do_single_rx /\ ~async_handle_packet_drops
  <2>1. burst' = burst
    BY <1>0, <1>4 DEF tx_burst_queue_drain, drain_not_due, NextGroup, PostRx,
       do_sync_crypto_operation, CallForwards, CallOfOtherPhase, do_crypto_task, free_packet,
       dpdk_send_packet, broadcast_packet, enqueue_async_operations,
       dequeue_finished_async_operations, resume_packet_handling, AsyncDone, DeviceFinishes,
       main_loop_fake_crypto, vars
  <2>2. burst = << >> \/ queue' = queue
    <3>1. CASE tx_burst_queue_drain \/ drain_not_due \/ NextGroup
      BY <3>1 DEF tx_burst_queue_drain, drain_not_due, NextGroup, IInv, LoopInv, InBurst
    <3>2. CASE ~tx_burst_queue_drain /\ ~drain_not_due /\ ~NextGroup
      BY <1>0, <1>4, <3>2 DEF PostRx, do_sync_crypto_operation, CallForwards,
         CallOfOtherPhase, do_crypto_task, free_packet, dpdk_send_packet, broadcast_packet,
         enqueue_async_operations, dequeue_finished_async_operations, resume_packet_handling,
         AsyncDone, DeviceFinishes, main_loop_fake_crypto, vars
    <3> QED
      BY <3>1, <3>2
  <2>3. ASSUME NEW m \in ToSet(burst) PROVE packet'[m] = packet[m]
    <3>1. m \in Mbufs /\ m \notin InCrypto /\ (pc = "handle" => m # pd.mbuf)
      BY <1>1, Apart
    <3>2. CASE resume_packet_handling
      <4>1. packet' = [packet EXCEPT ![Head(finished)] = Unwrapped(packet[Head(finished)])]
        BY <3>2, ResumeTypes
      <4>2. Head(finished) \in ToSet(finished)
        BY <3>2, FinishedHead DEF resume_packet_handling
      <4>3. m # Head(finished)
        BY <3>1, <4>2 DEF InCrypto
      <4> QED
        BY <1>1, <3>1, <4>1, <4>3
    <3>3. CASE ~resume_packet_handling
      BY <1>4, <3>1, <3>3, WritesOnly
    <3> QED
      BY <3>2, <3>3
  <2>4. CASE burst = << >>
    BY <2>1, <2>4, NoSeq DEF BurstInv
  <2>5. CASE queue' = queue
    BY <2>1, <2>3, <2>5 DEF IInv, BurstInv
  <2> QED
    BY <2>2, <2>4, <2>5
<1> QED
  BY <1>2, <1>3, <1>4

\* One call of the handler changes the operations, the length and the mark, and nothing else.
LEMMA CallKeeps ==
    ASSUME IInv, do_sync_crypto_operation \/ CallForwards \/ CallOfOtherPhase
    PROVE  /\ packet'[pd.mbuf].prog = Me.prog /\ packet'[pd.mbuf].from = Me.from
           /\ packet'[pd.mbuf].received = Me.received
           /\ pd'.mbuf = pd.mbuf /\ pd'.ctx = pd.ctx /\ pd'.phase = pd.phase
           /\ pd'.sync = pd.sync /\ pd'.k = pd.k + 1 /\ pc = "handle"
           /\ ~do_sync_crypto_operation => packet' = packet
           /\ do_sync_crypto_operation => packet'[pd.mbuf] = AfterSync(pd, Me)
<1>1. pc = "handle"
  BY DEF do_sync_crypto_operation, CallForwards, CallOfOtherPhase, AtCall
<1>2. /\ packet \in [Mbufs -> Packets] /\ pd.mbuf \in Mbufs /\ packet[pd.mbuf] \in Packets
  BY <1>1, InHand DEF IInv, TypeInv, Me
<1>3. /\ pd'.mbuf = pd.mbuf /\ pd'.ctx = pd.ctx /\ pd'.phase = pd.phase
      /\ pd'.sync = pd.sync /\ pd'.k = pd.k + 1
  BY <1>1, CallTypes, InHand
<1>4. CASE do_sync_crypto_operation
  <2>1. packet'[pd.mbuf] = AfterSync(pd, Me)
    BY <1>2, <1>4, SyncTypes DEF Me
  <2>2. /\ AfterSync(pd, Me).prog = Me.prog /\ AfterSync(pd, Me).from = Me.from
        /\ AfterSync(pd, Me).received = Me.received
    BY <1>2 DEF AfterSync, Packets, Me
  <2> QED
    BY <1>1, <1>3, <1>4, <2>1, <2>2
<1>5. CASE CallForwards
  BY <1>1, <1>2, <1>3, <1>5 DEF CallForwards, do_sync_crypto_operation, IsSync, SkipsAsync, Me
<1>6. CASE CallOfOtherPhase
  BY <1>1, <1>2, <1>3, <1>6 DEF CallOfOtherPhase, do_sync_crypto_operation, IsSync, Me
<1> QED
  BY <1>4, <1>5, <1>6

\* The metadata are those of the packet in hand.
LEMMA MetaStep == ASSUME IInv, Step PROVE MetaInv'
<1>0. \/ tx_burst_queue_drain \/ drain_not_due
      \/ main_loop_rx_group \/ NextGroup \/ PostRx \/ do_single_rx
      \/ async_handle_packet_drops
      \/ do_sync_crypto_operation \/ CallForwards \/ CallOfOtherPhase \/ do_crypto_task
      \/ free_packet \/ dpdk_send_packet \/ broadcast_packet
      \/ enqueue_async_operations \/ dequeue_finished_async_operations
      \/ resume_packet_handling \/ AsyncDone
      \/ DeviceFinishes \/ main_loop_fake_crypto
      \/ UNCHANGED vars
  BY StepCases
<1> SUFFICES ASSUME pc' = "handle", mode # "context"
             PROVE  /\ meta'.in = packet'[pd'.mbuf].from
                    /\ packet'[pd'.mbuf].prog.early /\ packet'[pd'.mbuf].prog.dest = "same" =>
                          meta'.out = packet'[pd'.mbuf].from
  BY ControlTypes DEF MetaInv
<1>1. packet \in [Mbufs -> Packets] /\ after \in {"pre_rx", "single_rx"}
      /\ caller \in {"main", "async"}
  BY DEF IInv, TypeInv, TypeOK
<1>2. CASE do_single_rx
  <2>1. PICK prog \in Programs, ctx \in pool \cup {None} :
           /\ pd' = [mbuf |-> Head(burst), ctx |-> ctx, phase |-> 0, k |-> 1,
                     sync |-> every' = 0]
           /\ meta' = HandleStarts(Head(burst), prog, Head(queue))
           /\ packet' = [packet EXCEPT ![Head(burst)] =
                           [NoPacket EXCEPT !.prog = prog, !.from = Head(queue),
                                            !.received = packet[Head(burst)].len,
                                            !.len = Opened(prog, packet[Head(burst)].len)]]
    BY <1>2, ReceiveTypes
  <2>2. Head(burst) \in Mbufs
    BY <1>2, InBurstHead DEF do_single_rx
  <2>3. pd'.mbuf = Head(burst)
    BY <2>1
  <2>4. packet'[pd'.mbuf].prog = prog /\ packet'[pd'.mbuf].from = Head(queue)
    BY <1>1, <2>1, <2>2, <2>3 DEF NoPacket
  <2> QED
    BY <2>1, <2>4 DEF HandleStarts
<1>3. CASE do_sync_crypto_operation \/ CallForwards \/ CallOfOtherPhase
  <2>1. /\ packet'[pd'.mbuf].prog = packet[pd.mbuf].prog
        /\ packet'[pd'.mbuf].from = packet[pd.mbuf].from /\ pc = "handle"
    BY <1>3, CallKeeps DEF Me
  <2>2. meta' = meta
    BY <1>3 DEF do_sync_crypto_operation, CallForwards, CallOfOtherPhase
  <2> QED
    BY <2>1, <2>2 DEF IInv, MetaInv
<1>4. CASE resume_packet_handling
  <2> DEFINE m == Head(finished)
  <2>1. PICK c \in Suspended :
           /\ store[c] \in Descriptors /\ store[c].mbuf = m /\ m \in Mbufs
           /\ pd' = Resumed(store[c])
           /\ packet' = [packet EXCEPT ![m] = Unwrapped(packet[m])]
           /\ meta' = HandleStarts(m, packet[m].prog, packet[m].from)
    BY <1>4, ResumeTypes
  <2>2. pd'.mbuf = m
    BY <2>1 DEF Resumed, ResumedIn, Descriptors
  <2>3. packet'[m].prog = packet[m].prog /\ packet'[m].from = packet[m].from
    BY <1>1, <2>1 DEF Unwrapped, Packets
  <2> QED
    BY <2>1, <2>2, <2>3 DEF HandleStarts
<1>5. CASE ~(\/ do_single_rx \/ resume_packet_handling \/ do_sync_crypto_operation
             \/ CallForwards \/ CallOfOtherPhase)
  <2>1. pc = "handle" /\ pd' = pd /\ meta' = meta /\ packet' = packet
    BY <1>0, <1>1, <1>5 DEF tx_burst_queue_drain, drain_not_due, main_loop_rx_group,
       NextGroup, PostRx, async_handle_packet_drops, do_crypto_task, free_packet,
       dpdk_send_packet, broadcast_packet, PostSingleTx, Return, enqueue_async_operations,
       dequeue_finished_async_operations, AsyncDone, DeviceFinishes,
       main_loop_fake_crypto, vars
  <2> QED
    BY <2>1 DEF IInv, MetaInv
<1> QED
  BY <1>2, <1>3, <1>4, <1>5

-----------------------------------------------------------------------------
\* Every buffer is in one place.

\* What a running handler has in hand.
LEMMA HandIs ==
    ASSUME NEW at, NEW x, at # "strayed"
    PROVE  {x : z \in {at} \cap {"handle", "strayed"}} = IF at = "handle" THEN {x} ELSE {}
OBVIOUS

\* The places of the buffers, one by one.
LEMMA WhereIs ==
    ASSUME pc # "strayed"
    PROVE  /\ DOMAIN Where = 1 .. 8
           /\ Where[1] = free /\ Where[2] = ToSet(burst)
           /\ Where[3] = (IF pc = "handle" THEN {pd.mbuf} ELSE {})
           /\ Where[4] = InTxq /\ Where[5] = ToSet(asyncq) /\ Where[6] = ToSet(dev)
           /\ Where[7] = ToSet(finished) /\ Where[8] = lost
<1>1. Where[3] = {pd.mbuf : x \in {pc} \cap {"handle", "strayed"}}
  BY DEF Where
<1>2. Where[3] = IF pc = "handle" THEN {pd.mbuf} ELSE {}
  BY <1>1, HandIs
<1> QED
  BY <1>2 DEF Where

\* The same after a step.
LEMMA WhereNext ==
    ASSUME pc' # "strayed"
    PROVE  /\ DOMAIN Where' = 1 .. 8
           /\ Where'[1] = free' /\ Where'[2] = ToSet(burst')
           /\ Where'[3] = (IF pc' = "handle" THEN {pd'.mbuf} ELSE {})
           /\ Where'[4] = InTxq' /\ Where'[5] = ToSet(asyncq') /\ Where'[6] = ToSet(dev')
           /\ Where'[7] = ToSet(finished') /\ Where'[8] = lost'
<1>1. Where'[3] = {pd'.mbuf : x \in {pc'} \cap {"handle", "strayed"}}
  BY DEF Where
<1>2. Where'[3] = IF pc' = "handle" THEN {pd'.mbuf} ELSE {}
  BY <1>1, HandIs
<1> QED
  BY <1>2 DEF Where

\* A buffer that goes from the place i to the place j, or stays where it is.
LEMMA MbufMoves ==
    ASSUME IInv, NEW m \in Mbufs, NEW i \in 1 .. 8, NEW j \in 1 .. 8, i # j,
           \A k \in (1 .. 8) \ {i, j} : m \in Where'[k] <=> m \in Where[k],
           \/ m \in Where[i] /\ m \notin Where'[i] /\ m \in Where'[j]
           \/ (m \in Where'[i] <=> m \in Where[i]) /\ (m \in Where'[j] <=> m \in Where[j])
    PROVE  InOne(m, Where)'
<1>1. InOne(m, Where) /\ DOMAIN Where = 1 .. 8 /\ DOMAIN Where' = 1 .. 8
  BY DEF IInv, MbufInv, Where
<1>2. InOne(m, Where')
  BY <1>1, StaysInOne
<1> QED
  BY <1>2

\* What is in the tables after a packet was put in one of them.
LEMMA SentSet ==
    ASSUME IInv, dpdk_send_packet
    PROVE  /\ \/ free' = free /\ InTxq' = InTxq \cup {pd.mbuf}
              \/ \E S \in SUBSET InTxq :
                    free' = free \cup S \cup {pd.mbuf} /\ InTxq' = InTxq \ S
           /\ \A p \in Ports : IsInjective(txq'[p])
           /\ \A p, q \in Ports : p # q => ToSet(txq'[p]) \cap ToSet(txq'[q]) = {}
<1> DEFINE e == get_egress_port
           b == pd.mbuf
           a == Append(txq[e], b)
<1>1. e \in Ports /\ b \in Mbufs
  BY SendTypes
<1>2. /\ txq \in [Ports -> Seq(Mbufs)] /\ txq[e] \in Seq(Mbufs)
      /\ \A p \in Ports : IsInjective(txq[p])
      /\ \A p, q \in Ports : p # q => ToSet(txq[p]) \cap ToSet(txq[q]) = {}
  BY <1>1 DEF IInv, TypeInv, MbufInv
<1>3. b \notin InTxq
  BY Apart DEF dpdk_send_packet, Ended
<1>4. \A p \in Ports : b \notin ToSet(txq[p])
  BY <1>3 DEF InTxq
<1>5. ToSet(a) = ToSet(txq[e]) \cup {b} /\ IsInjective(a)
  BY <1>1, <1>2, <1>4, AppendSeq
<1>6. \/ txq' = [txq EXCEPT ![e] = a] /\ free' = free
      \/ txq' = [txq EXCEPT ![e] = << >>] /\ free' = free \cup ToSet(a)
  BY SendTypes
<1> HIDE DEF e, a, b
<1>7. CASE txq' = [txq EXCEPT ![e] = a] /\ free' = free
  <2>1. \A p \in Ports : txq'[p] = IF p = e THEN a ELSE txq[p]
    BY <1>1, <1>2, <1>7
  <2>2. InTxq' = InTxq \cup {b}
    <3>1. ASSUME NEW m \in InTxq' PROVE m \in InTxq \cup {b}
      <4>1. PICK p \in Ports : m \in ToSet(txq'[p])
        BY DEF InTxq
      <4> QED
        BY <1>1, <1>5, <2>1, <4>1 DEF InTxq
    <3>2. ASSUME NEW m \in InTxq \cup {b} PROVE m \in InTxq'
      <4>1. CASE m = b
        BY <1>1, <1>5, <2>1, <4>1 DEF InTxq
      <4>2. CASE m \in InTxq
        <5>1. PICK p \in Ports : m \in ToSet(txq[p])
          BY <4>2 DEF InTxq
        <5>2. m \in ToSet(txq'[p])
          BY <1>5, <2>1, <5>1
        <5> QED
          BY <5>2 DEF InTxq
      <4> QED
        BY <4>1, <4>2
    <3> QED
      BY <3>1, <3>2
  <2>3. \A p \in Ports : IsInjective(txq'[p])
    BY <1>2, <1>5, <2>1
  <2>4. ASSUME NEW p \in Ports, NEW q \in Ports, p # q
        PROVE  ToSet(txq'[p]) \cap ToSet(txq'[q]) = {}
    BY <1>2, <1>4, <1>5, <2>1, <2>4
  <2> QED
    BY <1>7, <2>2, <2>3, <2>4 DEF b
<1>8. CASE txq' = [txq EXCEPT ![e] = << >>] /\ free' = free \cup ToSet(a)
  <2>1. \A p \in Ports : txq'[p] = IF p = e THEN << >> ELSE txq[p]
    BY <1>1, <1>2, <1>8
  <2>2. InTxq' = InTxq \ ToSet(txq[e])
    <3>1. ASSUME NEW m \in InTxq' PROVE m \in InTxq /\ m \notin ToSet(txq[e])
      <4>1. PICK p \in Ports : m \in ToSet(txq'[p])
        BY DEF InTxq
      <4>2. p # e /\ m \in ToSet(txq[p])
        BY <2>1, <4>1, NoSeq
      <4> QED
        BY <1>1, <1>2, <4>2 DEF InTxq
    <3>2. ASSUME NEW m \in InTxq, m \notin ToSet(txq[e]) PROVE m \in InTxq'
      <4>1. PICK p \in Ports : m \in ToSet(txq[p])
        BY DEF InTxq
      <4>2. m \in ToSet(txq'[p])
        BY <2>1, <3>2, <4>1
      <4> QED
        BY <4>2 DEF InTxq
    <3> QED
      BY <3>1, <3>2
  <2>3. ToSet(txq[e]) \in SUBSET InTxq
    BY <1>1 DEF InTxq
  <2>4. \A p \in Ports : IsInjective(txq'[p])
    BY <1>2, <2>1, NoSeq
  <2>5. ASSUME NEW p \in Ports, NEW q \in Ports, p # q
        PROVE  ToSet(txq'[p]) \cap ToSet(txq'[q]) = {}
    BY <1>2, <2>1, <2>5, NoSeq
  <2>6. free' = free \cup ToSet(txq[e]) \cup {b}
    BY <1>5, <1>8
  <2> QED
    BY <2>2, <2>3, <2>4, <2>5, <2>6 DEF b
<1> QED
  BY <1>6, <1>7, <1>8

\* A suspended handler finds room in async_queue: each of its tasks belongs to another
\* context than the one that is suspended now.
LEMMA Room ==
    ASSUME IInv, do_crypto_task
    PROVE  Len(asyncq) < ASYNC_QUEUE_SIZE
<1>1. pc = "handle" /\ pd.ctx \in Contexts
  BY InHand DEF do_crypto_task, AtCall
<1>2. pd.ctx \notin Suspended
  <2>1. InOne(pd.ctx, CtxWhere)
    BY <1>1 DEF IInv, CtxInv
  <2>2. DOMAIN CtxWhere = 1 .. 4 /\ CtxWhere[3] = Suspended /\ pd.ctx \in CtxWhere[4]
    BY <1>1 DEF CtxWhere
  <2> QED
    BY <2>1, <2>2 DEF InOne
<1> DEFINE n == Len(asyncq)
           Rest == Contexts \ {pd.ctx}
           Of(m) == CHOOSE c \in Suspended : store[c].mbuf = m
           f == [i \in 1 .. n |-> Of(asyncq[i])]
<1>3. asyncq \in Seq(Mbufs) /\ n \in Nat /\ DOMAIN asyncq = 1 .. n
  BY DEF IInv, TypeInv
<1>4. \A i \in 1 .. n : Of(asyncq[i]) \in Suspended /\ store[Of(asyncq[i])].mbuf = asyncq[i]
  <2>1. \A i \in 1 .. n : asyncq[i] \in InCrypto
    BY <1>3 DEF InCrypto, ToSet
  <2>2. \A m \in InCrypto : \E c \in Suspended : store[c].mbuf = m
    BY DEF IInv, LinkInv
  <2> QED
    BY <2>1, <2>2
<1>5. f \in Injection(1 .. n, Rest)
  <2>1. \A i \in 1 .. n : f[i] \in Rest
    BY <1>2, <1>4 DEF Suspended
  <2>2. ASSUME NEW i \in 1 .. n, NEW j \in 1 .. n, f[i] = f[j] PROVE i = j
    <3>1. asyncq[i] = asyncq[j]
      BY <1>4, <2>2
    <3>2. IsInjective(asyncq)
      BY DEF IInv, MbufInv
    <3> QED
      BY <1>3, <3>1, <3>2 DEF IsInjective
  <2> HIDE DEF Of
  <2>3. f \in [1 .. n -> Rest]
    BY <2>1
  <2> QED
    BY <2>2, <2>3 DEF Injection, IsInjective
<1>6. IsFiniteSet(Rest) /\ Cardinality(Rest) = Cardinality(Contexts) - 1
      /\ Cardinality(Contexts) \in Nat
  BY <1>1, FS_RemoveElement, FS_CardinalityType, PathAssumption
<1>7. Cardinality(1 .. n) <= Cardinality(Rest)
  <2> HIDE DEF f, Rest
  <2> QED
    BY <1>5, <1>6, FS_Injection
<1>8. Cardinality(1 .. n) = n
  <2>1. Cardinality(1 .. n) = IF 1 > n THEN 0 ELSE n - 1 + 1
    BY <1>3, FS_Interval
  <2> QED
    BY <1>3, <2>1
<1> HIDE DEF n, Rest
<1>9. n < ASYNC_QUEUE_SIZE
  BY <1>3, <1>6, <1>7, <1>8, PathAssumption
<1> QED
  BY <1>9 DEF n

\* Steps that move no buffer.
LEMMA NothingMoves ==
    ASSUME IInv, Step, NEW m \in Mbufs, UNCHANGED <<nic, asyncq, dev, finished, burst>>,
           (pc' = "handle" /\ m = pd'.mbuf) <=> (pc = "handle" /\ m = pd.mbuf)
    PROVE  InOne(m, Where)'
<1> pc # "strayed" /\ pc' # "strayed"
  BY ControlTypes DEF Step
<1>1. InTxq' = InTxq /\ free' = free /\ lost' = lost
  BY DEF nic, InTxq
<1>2. \A k \in 1 .. 8 : m \in Where'[k] <=> m \in Where[k]
  BY <1>1, WhereIs, WhereNext
<1> QED
  BY <1>2, MbufMoves

\* A buffer that a step moves is taken out of the place it was in.
LEMMA EachMbuf ==
    ASSUME IInv, Step, NEW m \in Mbufs
    PROVE  InOne(m, Where)'
<1> pc # "strayed" /\ pc' # "strayed"
  BY ControlTypes DEF Step
<1>0. \/ tx_burst_queue_drain \/ drain_not_due
      \/ main_loop_rx_group \/ NextGroup \/ PostRx \/ do_single_rx
      \/ async_handle_packet_drops
      \/ do_sync_crypto_operation \/ CallForwards \/ CallOfOtherPhase \/ do_crypto_task
      \/ free_packet \/ dpdk_send_packet \/ broadcast_packet
      \/ enqueue_async_operations \/ dequeue_finished_async_operations
      \/ resume_packet_handling \/ AsyncDone
      \/ DeviceFinishes \/ main_loop_fake_crypto
      \/ UNCHANGED vars
  BY StepCases
<1>1. /\ burst \in Seq(Mbufs) /\ asyncq \in Seq(Mbufs) /\ dev \in Seq(Mbufs)
      /\ finished \in Seq(Mbufs)
      /\ IsInjective(burst) /\ IsInjective(asyncq) /\ IsInjective(dev) /\ IsInjective(finished)
      /\ caller \in {"main", "async"} /\ after \in {"pre_rx", "single_rx"}
  BY DEF IInv, TypeInv, TypeOK, MbufInv
<1>2. CASE tx_burst_queue_drain
  <2>1. /\ free' = free \cup InTxq /\ txq' = [p \in Ports |-> << >>]
        /\ pc # "handle" /\ pc' # "handle" /\ UNCHANGED <<burst, tasks, lost>>
    BY <1>2, DrainTypes DEF tx_burst_queue_drain
  <2>2. InTxq' = {}
    BY <2>1, NoSeq DEF InTxq
  <2>3. \A k \in (1 .. 8) \ {4, 1} : m \in Where'[k] <=> m \in Where[k]
    BY <2>1, WhereIs, WhereNext DEF tasks
  <2>4. \/ m \in Where[4] /\ m \notin Where'[4] /\ m \in Where'[1]
        \/ (m \in Where'[4] <=> m \in Where[4]) /\ (m \in Where'[1] <=> m \in Where[1])
    BY <2>1, <2>2, WhereIs, WhereNext
  <2> QED
    BY <2>3, <2>4, MbufMoves
<1>3. CASE main_loop_rx_group
  <2>1. PICK n \in 0 .. MAX_PKT_BURST :
           burst' = SetToSeq(Least(free, n)) /\ free' = free \ Least(free, n)
    BY <1>3 DEF main_loop_rx_group
  <2>2. /\ pc # "handle" /\ pc' # "handle" /\ UNCHANGED <<tasks, lost, txq>>
        /\ burst = << >>
    BY <1>3 DEF main_loop_rx_group, IInv, LoopInv, InBurst
  <2>3. ToSet(burst') = Least(free, n) /\ Least(free, n) \subseteq free /\ ToSet(burst) = {}
    <3>1. IsFiniteSet(Least(free, n))
      BY LeastIn, FS_Subset, PathAssumption DEF IInv, TypeInv, TypeOK
    <3> QED
      BY <2>1, <2>2, <3>1, LeastIn, OrderedSet, NoSeq
  <2>4. InTxq' = InTxq
    BY <2>2 DEF InTxq
  <2>5. \A k \in (1 .. 8) \ {1, 2} : m \in Where'[k] <=> m \in Where[k]
    BY <2>2, <2>4, WhereIs, WhereNext DEF tasks
  <2>6. \/ m \in Where[1] /\ m \notin Where'[1] /\ m \in Where'[2]
        \/ (m \in Where'[1] <=> m \in Where[1]) /\ (m \in Where'[2] <=> m \in Where[2])
    BY <2>1, <2>3, WhereIs, WhereNext
  <2> QED
    BY <2>5, <2>6, MbufMoves
<1>4. CASE do_single_rx
  <2>1. /\ burst # << >> /\ burst' = Tail(burst) /\ pc # "handle" /\ pc' = "handle"
        /\ pd'.mbuf = Head(burst) /\ UNCHANGED <<tasks, lost, txq, free>>
    <3>1. PICK ctx \in pool \cup {None} :
             pd' = [mbuf |-> Head(burst), ctx |-> ctx, phase |-> 0, k |-> 1, sync |-> every' = 0]
      BY <1>4, ReceiveTypes
    <3>2. pd'.mbuf = Head(burst)
      BY <3>1
    <3> QED
      BY <1>4, <3>2, ReceiveTypes DEF do_single_rx
  <2>2. ToSet(burst) = {Head(burst)} \cup ToSet(burst') /\ Head(burst) \notin ToSet(burst')
    BY <1>1, <2>1, TailSeq
  <2>3. InTxq' = InTxq
    BY <2>1 DEF InTxq
  <2>4. \A k \in (1 .. 8) \ {2, 3} : m \in Where'[k] <=> m \in Where[k]
    BY <2>1, <2>3, WhereIs, WhereNext DEF tasks
  <2>5. \/ m \in Where[2] /\ m \notin Where'[2] /\ m \in Where'[3]
        \/ (m \in Where'[2] <=> m \in Where[2]) /\ (m \in Where'[3] <=> m \in Where[3])
    BY <2>1, <2>2, WhereIs, WhereNext
  <2> QED
    BY <2>4, <2>5, MbufMoves
<1>5. CASE async_handle_packet_drops
  <2>1. /\ burst # << >> /\ burst' = Tail(burst) /\ pc # "handle" /\ pc' # "handle"
        /\ lost' = lost \cup {Head(burst)} /\ UNCHANGED <<tasks, txq, free>>
    BY <1>5 DEF async_handle_packet_drops
  <2>2. ToSet(burst) = {Head(burst)} \cup ToSet(burst') /\ Head(burst) \notin ToSet(burst')
    BY <1>1, <2>1, TailSeq
  <2>3. InTxq' = InTxq
    BY <2>1 DEF InTxq
  <2>4. \A k \in (1 .. 8) \ {2, 8} : m \in Where'[k] <=> m \in Where[k]
    BY <2>1, <2>3, WhereIs, WhereNext DEF tasks
  <2>5. \/ m \in Where[2] /\ m \notin Where'[2] /\ m \in Where'[8]
        \/ (m \in Where'[2] <=> m \in Where[2]) /\ (m \in Where'[8] <=> m \in Where[8])
    BY <2>1, <2>2, WhereIs, WhereNext
  <2> QED
    BY <2>4, <2>5, MbufMoves
<1>6. CASE do_crypto_task
  <2>1. /\ asyncq' = Append(asyncq, pd.mbuf) /\ pc = "handle" /\ pc' # "handle"
        /\ UNCHANGED <<lost, txq, free, burst, dev, finished>>
    BY <1>6, Room DEF do_crypto_task, AtCall
  <2>2. ToSet(asyncq') = ToSet(asyncq) \cup {pd.mbuf}
    BY <1>1, <2>1, InHand, AppendSeq
  <2>3. InTxq' = InTxq
    BY <2>1 DEF InTxq
  <2>4. \A k \in (1 .. 8) \ {3, 5} : m \in Where'[k] <=> m \in Where[k]
    BY <2>1, <2>3, WhereIs, WhereNext
  <2>5. \/ m \in Where[3] /\ m \notin Where'[3] /\ m \in Where'[5]
        \/ (m \in Where'[3] <=> m \in Where[3]) /\ (m \in Where'[5] <=> m \in Where[5])
    BY <2>1, <2>2, WhereIs, WhereNext
  <2> QED
    BY <2>4, <2>5, MbufMoves
<1>7. CASE free_packet
  <2>1. /\ free' = free \cup {pd.mbuf} /\ pc = "handle" /\ pc' # "handle"
        /\ UNCHANGED <<lost, txq, burst, tasks>>
    BY <1>7 DEF free_packet, PostSingleTx, Return, Ended
  <2>2. InTxq' = InTxq
    BY <2>1 DEF InTxq
  <2>3. \A k \in (1 .. 8) \ {3, 1} : m \in Where'[k] <=> m \in Where[k]
    BY <2>1, <2>2, WhereIs, WhereNext DEF tasks
  <2>4. \/ m \in Where[3] /\ m \notin Where'[3] /\ m \in Where'[1]
        \/ (m \in Where'[3] <=> m \in Where[3]) /\ (m \in Where'[1] <=> m \in Where[1])
    BY <2>1, WhereIs, WhereNext
  <2> QED
    BY <2>3, <2>4, MbufMoves
<1>8. CASE dpdk_send_packet
  <2>1. /\ pc = "handle" /\ pc' # "handle" /\ UNCHANGED <<lost, burst, tasks>>
    BY <1>8 DEF dpdk_send_packet, PostSingleTx, Return, Ended
  <2>2. pd.mbuf \notin InTxq /\ pd.mbuf \notin free
    BY <2>1, Apart
  <2>3. CASE free' = free /\ InTxq' = InTxq \cup {pd.mbuf}
    <3>1. \A k \in (1 .. 8) \ {3, 4} : m \in Where'[k] <=> m \in Where[k]
      BY <2>1, <2>3, WhereIs, WhereNext DEF tasks
    <3>2. \/ m \in Where[3] /\ m \notin Where'[3] /\ m \in Where'[4]
          \/ (m \in Where'[3] <=> m \in Where[3]) /\ (m \in Where'[4] <=> m \in Where[4])
      BY <2>1, <2>3, WhereIs, WhereNext
    <3> QED
      BY <3>1, <3>2, MbufMoves
  <2>4. CASE \E S \in SUBSET InTxq : free' = free \cup S \cup {pd.mbuf} /\ InTxq' = InTxq \ S
    <3>1. PICK S \in SUBSET InTxq : free' = free \cup S \cup {pd.mbuf} /\ InTxq' = InTxq \ S
      BY <2>4
    <3>2. CASE m = pd.mbuf
      <4>1. \A k \in (1 .. 8) \ {3, 1} : m \in Where'[k] <=> m \in Where[k]
        BY <2>1, <2>2, <3>1, <3>2, WhereIs, WhereNext DEF tasks
      <4>2. m \in Where[3] /\ m \notin Where'[3] /\ m \in Where'[1]
        BY <2>1, <3>1, <3>2, WhereIs, WhereNext
      <4> QED
        BY <4>1, <4>2, MbufMoves
    <3>3. CASE m # pd.mbuf
      <4>1. \A k \in (1 .. 8) \ {4, 1} : m \in Where'[k] <=> m \in Where[k]
        BY <2>1, <3>1, <3>3, WhereIs, WhereNext DEF tasks
      <4>2. \/ m \in Where[4] /\ m \notin Where'[4] /\ m \in Where'[1]
            \/ (m \in Where'[4] <=> m \in Where[4]) /\ (m \in Where'[1] <=> m \in Where[1])
        BY <3>1, <3>3, WhereIs, WhereNext
      <4> QED
        BY <4>1, <4>2, MbufMoves
    <3> QED
      BY <3>2, <3>3
  <2> QED
    BY <1>8, <2>3, <2>4, SentSet
<1>9. CASE broadcast_packet
  <2> DEFINE clones == Least(free, Cardinality(Ports) - 1)
  <2>1. /\ pc = "handle" /\ pc' # "handle" /\ UNCHANGED <<txq, burst, tasks>>
        /\ free' = free \ clones /\ lost' = lost \cup clones \cup {pd.mbuf}
    BY <1>9 DEF broadcast_packet, PostSingleTx, Return, Ended
  <2>2. clones \subseteq free /\ pd.mbuf \notin free
    BY <2>1, LeastIn, Apart
  <2>3. InTxq' = InTxq
    BY <2>1 DEF InTxq
  <2> HIDE DEF clones
  <2>4. CASE m = pd.mbuf
    <3>1. \A k \in (1 .. 8) \ {3, 8} : m \in Where'[k] <=> m \in Where[k]
      BY <2>1, <2>2, <2>3, <2>4, WhereIs, WhereNext DEF tasks
    <3>2. m \in Where[3] /\ m \notin Where'[3] /\ m \in Where'[8]
      BY <2>1, <2>4, WhereIs, WhereNext
    <3> QED
      BY <3>1, <3>2, MbufMoves
  <2>5. CASE m # pd.mbuf
    <3>1. \A k \in (1 .. 8) \ {1, 8} : m \in Where'[k] <=> m \in Where[k]
      BY <2>1, <2>3, <2>5, WhereIs, WhereNext DEF tasks
    <3>2. \/ m \in Where[1] /\ m \notin Where'[1] /\ m \in Where'[8]
          \/ (m \in Where'[1] <=> m \in Where[1]) /\ (m \in Where'[8] <=> m \in Where[8])
      BY <2>1, <2>2, <2>5, WhereIs, WhereNext
    <3> QED
      BY <3>1, <3>2, MbufMoves
  <2> QED
    BY <2>4, <2>5
<1>10. CASE enqueue_async_operations
  <2>1. PICK n \in 0 .. Len(asyncq) :
           /\ dev' = dev \o SubSeq(asyncq, 1, n)
           /\ asyncq' = SubSeq(asyncq, n + 1, Len(asyncq))
    BY <1>10, EnqueueTypes
  <2> DEFINE a == SubSeq(asyncq, 1, n)
  <2>2. /\ a \in Seq(Mbufs) /\ ToSet(asyncq) = ToSet(a) \cup ToSet(asyncq')
        /\ ToSet(a) \cap ToSet(asyncq') = {}
    BY <1>1, <2>1, SplitSeq
  <2>3. ToSet(dev') = ToSet(dev) \cup ToSet(a)
    <3>1. dev' = dev \o a
      BY <2>1
    <3> HIDE DEF a
    <3> QED
      BY <1>1, <2>2, <3>1, JoinSeq
  <2>4. /\ pc # "handle" /\ pc' # "handle" /\ UNCHANGED <<nic, burst, finished>>
    BY <1>10 DEF enqueue_async_operations
  <2>5. InTxq' = InTxq
    BY <2>4 DEF InTxq, nic
  <2> HIDE DEF a
  <2>6. \A k \in (1 .. 8) \ {5, 6} : m \in Where'[k] <=> m \in Where[k]
    BY <2>4, <2>5, WhereIs, WhereNext DEF nic
  <2>7. \/ m \in Where[5] /\ m \notin Where'[5] /\ m \in Where'[6]
        \/ (m \in Where'[5] <=> m \in Where[5]) /\ (m \in Where'[6] <=> m \in Where[6])
    BY <2>2, <2>3, WhereIs, WhereNext
  <2> QED
    BY <2>6, <2>7, MbufMoves
<1>11. CASE dequeue_finished_async_operations
  <2>1. PICK n \in 0 .. Len(dev) :
           finished' = SubSeq(dev, 1, n) /\ dev' = SubSeq(dev, n + 1, Len(dev))
    BY <1>11, DequeueTypes
  <2>2. /\ ToSet(dev) = ToSet(finished') \cup ToSet(dev')
        /\ ToSet(finished') \cap ToSet(dev') = {}
    BY <1>1, <2>1, SplitSeq
  <2>3. /\ pc # "handle" /\ pc' # "handle" /\ UNCHANGED <<nic, burst, asyncq>>
        /\ finished = << >>
    BY <1>11 DEF dequeue_finished_async_operations, IInv, LoopInv
  <2>4. InTxq' = InTxq /\ ToSet(finished) = {}
    BY <2>3, NoSeq DEF InTxq, nic
  <2>5. \A k \in (1 .. 8) \ {6, 7} : m \in Where'[k] <=> m \in Where[k]
    BY <2>3, <2>4, WhereIs, WhereNext DEF nic
  <2>6. \/ m \in Where[6] /\ m \notin Where'[6] /\ m \in Where'[7]
        \/ (m \in Where'[6] <=> m \in Where[6]) /\ (m \in Where'[7] <=> m \in Where[7])
    BY <2>2, <2>4, WhereIs, WhereNext
  <2> QED
    BY <2>5, <2>6, MbufMoves
<1>12. CASE resume_packet_handling
  <2>1. PICK c \in Suspended :
           store[c] \in Descriptors /\ store[c].mbuf = Head(finished) /\ pd' = Resumed(store[c])
    BY <1>12, ResumeTypes
  <2>2. pd'.mbuf = Head(finished)
    BY <2>1 DEF Resumed, ResumedIn, Descriptors
  <2>3. /\ pc # "handle" /\ pc' = "handle" /\ UNCHANGED <<nic, burst, asyncq, dev>>
        /\ finished # << >> /\ finished' = Tail(finished)
    BY <1>12 DEF resume_packet_handling
  <2>4. /\ ToSet(finished) = {Head(finished)} \cup ToSet(finished')
        /\ Head(finished) \notin ToSet(finished')
    BY <1>1, <2>3, TailSeq
  <2>5. InTxq' = InTxq
    BY <2>3 DEF InTxq, nic
  <2>6. \A k \in (1 .. 8) \ {7, 3} : m \in Where'[k] <=> m \in Where[k]
    BY <2>3, <2>5, WhereIs, WhereNext DEF nic
  <2>7. \/ m \in Where[7] /\ m \notin Where'[7] /\ m \in Where'[3]
        \/ (m \in Where'[7] <=> m \in Where[7]) /\ (m \in Where'[3] <=> m \in Where[3])
    BY <2>2, <2>3, <2>4, WhereIs, WhereNext
  <2> QED
    BY <2>6, <2>7, MbufMoves
<1>13. CASE do_sync_crypto_operation \/ CallForwards \/ CallOfOtherPhase
  <2>1. UNCHANGED <<nic, asyncq, dev, finished, burst, pc>>
    BY <1>13, CallTypes DEF tasks
  <2>2. pd'.mbuf = pd.mbuf
    BY <1>13, CallKeeps
  <2> QED
    BY <2>1, <2>2, NothingMoves
<1>14. CASE \/ drain_not_due \/ NextGroup \/ PostRx \/ AsyncDone \/ DeviceFinishes
            \/ main_loop_fake_crypto \/ UNCHANGED vars
  <2>1. /\ UNCHANGED <<nic, asyncq, dev, finished, burst, pd>> /\ (pc' = "handle" <=> pc = "handle")
    BY <1>1, <1>14 DEF drain_not_due, NextGroup, PostRx, AsyncDone, DeviceFinishes,
       main_loop_fake_crypto, vars, tasks
  <2> QED
    BY <2>1, NothingMoves
<1> QED
  BY <1>0, <1>2, <1>3, <1>4, <1>5, <1>6, <1>7, <1>8, <1>9, <1>10, <1>11, <1>12, <1>13, <1>14

\* Every step keeps every buffer in one place, and once in its queue.
LEMMA MbufStep == ASSUME IInv, Step PROVE MbufInv'
<1>0. \/ tx_burst_queue_drain \/ drain_not_due
      \/ main_loop_rx_group \/ NextGroup \/ PostRx \/ do_single_rx
      \/ async_handle_packet_drops
      \/ do_sync_crypto_operation \/ CallForwards \/ CallOfOtherPhase \/ do_crypto_task
      \/ free_packet \/ dpdk_send_packet \/ broadcast_packet
      \/ enqueue_async_operations \/ dequeue_finished_async_operations
      \/ resume_packet_handling \/ AsyncDone
      \/ DeviceFinishes \/ main_loop_fake_crypto
      \/ UNCHANGED vars
  BY StepCases
<1>1. /\ burst \in Seq(Mbufs) /\ asyncq \in Seq(Mbufs) /\ dev \in Seq(Mbufs)
      /\ finished \in Seq(Mbufs)
      /\ IsInjective(burst) /\ IsInjective(asyncq) /\ IsInjective(dev) /\ IsInjective(finished)
      /\ \A p \in Ports : IsInjective(txq[p])
      /\ \A p, q \in Ports : p # q => ToSet(txq[p]) \cap ToSet(txq[q]) = {}
  BY DEF IInv, TypeInv, MbufInv
<1>2. IsInjective(burst')
  <2>1. CASE main_loop_rx_group
    <3>1. PICK n \in 0 .. MAX_PKT_BURST : burst' = SetToSeq(Least(free, n))
      BY <2>1 DEF main_loop_rx_group
    <3>2. IsFiniteSet(Least(free, n))
      BY LeastIn, FS_Subset, PathAssumption DEF IInv, TypeInv, TypeOK
    <3> QED
      BY <3>1, <3>2, OrderedSet
  <2>2. CASE do_single_rx \/ async_handle_packet_drops
    <3>1. burst # << >> /\ burst' = Tail(burst)
      BY <2>2 DEF do_single_rx, async_handle_packet_drops
    <3> QED
      BY <1>1, <3>1, TailSeq
  <2>3. CASE ~main_loop_rx_group /\ ~do_single_rx /\ ~async_handle_packet_drops
    <3>1. burst' = burst
      BY <1>0, <2>3 DEF tx_burst_queue_drain, drain_not_due, NextGroup, PostRx,
         do_sync_crypto_operation, CallForwards, CallOfOtherPhase, do_crypto_task, free_packet,
         dpdk_send_packet, broadcast_packet, enqueue_async_operations,
         dequeue_finished_async_operations, resume_packet_handling, AsyncDone, DeviceFinishes,
         main_loop_fake_crypto, vars
    <3> QED
      BY <1>1, <3>1
  <2> QED
    BY <2>1, <2>2, <2>3
<1>3. IsInjective(asyncq') /\ IsInjective(dev') /\ IsInjective(finished')
  <2>1. CASE do_crypto_task
    <3>1. asyncq' = Append(asyncq, pd.mbuf) /\ UNCHANGED <<dev, finished>> /\ pc = "handle"
      BY <2>1, Room DEF do_crypto_task, AtCall
    <3>2. pd.mbuf \in Mbufs /\ pd.mbuf \notin ToSet(asyncq)
      BY <3>1, InHand, Apart DEF InCrypto
    <3> QED
      BY <1>1, <3>1, <3>2, AppendSeq
  <2>2. CASE enqueue_async_operations
    <3>1. PICK n \in 0 .. Len(asyncq) :
             /\ dev' = dev \o SubSeq(asyncq, 1, n)
             /\ asyncq' = SubSeq(asyncq, n + 1, Len(asyncq))
      BY <2>2, EnqueueTypes
    <3> DEFINE a == SubSeq(asyncq, 1, n)
    <3>2. /\ a \in Seq(Mbufs) /\ IsInjective(a) /\ IsInjective(asyncq')
          /\ ToSet(a) \subseteq ToSet(asyncq)
      BY <1>1, <3>1, SplitSeq
    <3>3. ToSet(dev) \cap ToSet(a) = {}
      BY <3>2, Apart
    <3>4. IsInjective(dev')
      BY <1>1, <3>1, <3>2, <3>3, JoinSeq
    <3> QED
      BY <1>1, <2>2, <3>2, <3>4 DEF enqueue_async_operations
  <2>3. CASE dequeue_finished_async_operations
    <3>1. PICK n \in 0 .. Len(dev) :
             finished' = SubSeq(dev, 1, n) /\ dev' = SubSeq(dev, n + 1, Len(dev))
      BY <2>3, DequeueTypes
    <3>2. asyncq' = asyncq
      BY <2>3 DEF dequeue_finished_async_operations
    <3> QED
      BY <1>1, <3>1, <3>2, SplitSeq
  <2>4. CASE resume_packet_handling
    <3>1. finished # << >> /\ finished' = Tail(finished) /\ UNCHANGED <<asyncq, dev>>
      BY <2>4 DEF resume_packet_handling
    <3> QED
      BY <1>1, <3>1, TailSeq
  <2>5. CASE ~do_crypto_task /\ ~enqueue_async_operations
             /\ ~dequeue_finished_async_operations /\ ~resume_packet_handling
    <3>1. UNCHANGED <<asyncq, dev, finished>>
      BY <1>0, <2>5 DEF tx_burst_queue_drain, drain_not_due, main_loop_rx_group, NextGroup,
         PostRx, do_single_rx, async_handle_packet_drops,
         do_sync_crypto_operation, CallForwards, CallOfOtherPhase, free_packet,
         dpdk_send_packet, broadcast_packet, AsyncDone, DeviceFinishes,
         main_loop_fake_crypto, vars, tasks
    <3> QED
      BY <1>1, <3>1
  <2> QED
    BY <2>1, <2>2, <2>3, <2>4, <2>5
<1>4. /\ \A p \in Ports : IsInjective(txq'[p])
      /\ \A p, q \in Ports : p # q => ToSet(txq'[p]) \cap ToSet(txq'[q]) = {}
  <2>1. CASE tx_burst_queue_drain
    <3>1. \A p \in Ports : txq'[p] = << >>
      BY <2>1, DrainTypes
    <3> QED
      BY <3>1, NoSeq
  <2>2. CASE dpdk_send_packet
    BY <2>2, SentSet
  <2>3. CASE ~tx_burst_queue_drain /\ ~dpdk_send_packet
    <3>1. txq' = txq
      BY <1>0, <2>3 DEF drain_not_due, main_loop_rx_group, NextGroup,
         PostRx, do_single_rx, async_handle_packet_drops, do_sync_crypto_operation,
         CallForwards, CallOfOtherPhase, do_crypto_task, free_packet,
         broadcast_packet, enqueue_async_operations, dequeue_finished_async_operations,
         resume_packet_handling, AsyncDone, DeviceFinishes, main_loop_fake_crypto, vars, nic
    <3> QED
      BY <1>1, <3>1
  <2> QED
    BY <2>1, <2>2, <2>3
<1> QED
  BY <1>2, <1>3, <1>4, EachMbuf DEF MbufInv

-----------------------------------------------------------------------------
\* Every context is in one place, and belongs to one packet.

\* The places of the contexts, one by one.
LEMMA CtxWhereIs ==
    ASSUME pc # "strayed"
    PROVE  /\ DOMAIN CtxWhere = 1 .. 4
           /\ CtxWhere[1] = pool /\ CtxWhere[2] = ToSet(freeRing) /\ CtxWhere[3] = Suspended
           /\ CtxWhere[4] = (IF pc = "handle" THEN {pd.ctx} ELSE {})
<1>1. CtxWhere[4] = {pd.ctx : x \in {pc} \cap {"handle", "strayed"}}
  BY DEF CtxWhere
<1>2. CtxWhere[4] = IF pc = "handle" THEN {pd.ctx} ELSE {}
  BY <1>1, HandIs
<1> QED
  BY <1>2 DEF CtxWhere

\* The same after a step.
LEMMA CtxWhereNext ==
    ASSUME pc' # "strayed"
    PROVE  /\ DOMAIN CtxWhere' = 1 .. 4
           /\ CtxWhere'[1] = pool' /\ CtxWhere'[2] = ToSet(freeRing') /\ CtxWhere'[3] = Suspended'
           /\ CtxWhere'[4] = (IF pc' = "handle" THEN {pd'.ctx} ELSE {})
<1>1. CtxWhere'[4] = {pd'.ctx : x \in {pc'} \cap {"handle", "strayed"}}
  BY DEF CtxWhere
<1>2. CtxWhere'[4] = IF pc' = "handle" THEN {pd'.ctx} ELSE {}
  BY <1>1, HandIs
<1> QED
  BY <1>2 DEF CtxWhere

\* A context that goes from the place i to the place j, or stays where it is.
LEMMA CtxMoves ==
    ASSUME IInv, NEW c \in Contexts, NEW i \in 1 .. 4, NEW j \in 1 .. 4, i # j,
           \A k \in (1 .. 4) \ {i, j} : c \in CtxWhere'[k] <=> c \in CtxWhere[k],
           \/ c \in CtxWhere[i] /\ c \notin CtxWhere'[i] /\ c \in CtxWhere'[j]
           \/ (c \in CtxWhere'[i] <=> c \in CtxWhere[i]) /\ (c \in CtxWhere'[j] <=> c \in CtxWhere[j])
    PROVE  InOne(c, CtxWhere)'
<1>1. InOne(c, CtxWhere) /\ DOMAIN CtxWhere = 1 .. 4 /\ DOMAIN CtxWhere' = 1 .. 4
  BY DEF IInv, CtxInv, CtxWhere
<1>2. InOne(c, CtxWhere')
  BY <1>1, StaysInOne
<1> QED
  BY <1>2

\* No context is in two places.
LEMMA CtxApart ==
    ASSUME IInv
    PROVE  /\ pc = "handle" /\ pd.ctx \in Contexts =>
                 pd.ctx \notin pool \cup ToSet(freeRing) \cup Suspended
           /\ pool \cap (ToSet(freeRing) \cup Suspended) = {}
<1>1. ASSUME NEW c \in Contexts, NEW i \in 1 .. 4, NEW j \in 1 .. 4,
             c \in CtxWhere[i], c \in CtxWhere[j]
      PROVE  i = j
  <2>1. InOne(c, CtxWhere) /\ DOMAIN CtxWhere = 1 .. 4
    BY DEF IInv, CtxInv, CtxWhere
  <2> QED
    BY <1>1, <2>1 DEF InOne
<1>2. \A c \in Contexts : c \in pool => c \notin ToSet(freeRing) /\ c \notin Suspended
  BY <1>1 DEF CtxWhere
<1>3. ASSUME pc = "handle", pd.ctx \in Contexts
      PROVE  pd.ctx \notin pool /\ pd.ctx \notin ToSet(freeRing) /\ pd.ctx \notin Suspended
  BY <1>1, <1>3, CtxWhereIs
<1>4. pool \subseteq Contexts
  BY DEF IInv, TypeInv, TypeOK
<1> QED
  BY <1>2, <1>3, <1>4

\* What PostSingleTx does with the context of the packet that was sent.
LEMMA PostCtx ==
    ASSUME IInv, free_packet \/ dpdk_send_packet \/ broadcast_packet
    PROVE  /\ pc = "handle" /\ pc' # "handle" /\ store' = store
           /\ \/ pd.ctx = None /\ pool' = pool /\ freeRing' = freeRing
              \/ pd.ctx # None /\ pool' = pool \cup {pd.ctx} /\ freeRing' = freeRing
              \/ pd.ctx # None /\ pool' = pool /\ freeRing' = Append(freeRing, pd.ctx)
           /\ UNCHANGED tasks /\ packet' = [packet EXCEPT ![pd.mbuf] = NoPacket]
<1>1. pc = "handle" /\ PostSingleTx /\ UNCHANGED tasks
  BY DEF free_packet, dpdk_send_packet, broadcast_packet, Ended
<1>2. pc' # "handle" /\ packet' = [packet EXCEPT ![pd.mbuf] = NoPacket] /\ store' = store
  BY <1>1 DEF PostSingleTx, Return
<1>3. pd.ctx # None => mode \in {"context", "pd"}
  BY <1>1 DEF IInv, LoopInv
<1>4. \/ pd.ctx = None /\ pool' = pool /\ freeRing' = freeRing
      \/ pd.ctx # None /\ pool' = pool \cup {pd.ctx} /\ freeRing' = freeRing
      \/ pd.ctx # None /\ pool' = pool /\ freeRing' = Append(freeRing, pd.ctx)
  BY <1>1, <1>3 DEF PostSingleTx
<1> QED
  BY <1>1, <1>2, <1>4

\* The descriptors of suspended handlers: one is added, or one is taken.
LEMMA SuspendedNext ==
    ASSUME IInv, Step
    PROVE  /\ do_crypto_task => Suspended' = Suspended \cup {pd.ctx} /\ pd.ctx \in Contexts
           /\ resume_packet_handling => Suspended' = Suspended \ {Head(packet[Head(finished)].ptrs)}
           /\ ~do_crypto_task /\ ~resume_packet_handling => store' = store /\ Suspended' = Suspended
<1>0. \/ tx_burst_queue_drain \/ drain_not_due
      \/ main_loop_rx_group \/ NextGroup \/ PostRx \/ do_single_rx
      \/ async_handle_packet_drops
      \/ do_sync_crypto_operation \/ CallForwards \/ CallOfOtherPhase \/ do_crypto_task
      \/ free_packet \/ dpdk_send_packet \/ broadcast_packet
      \/ enqueue_async_operations \/ dequeue_finished_async_operations
      \/ resume_packet_handling \/ AsyncDone
      \/ DeviceFinishes \/ main_loop_fake_crypto
      \/ UNCHANGED vars
  BY StepCases
<1>1. store \in [Contexts -> Descriptors \cup {None}]
  BY DEF IInv, TypeInv
<1>2. ASSUME do_crypto_task PROVE Suspended' = Suspended \cup {pd.ctx} /\ pd.ctx \in Contexts
  <2>1. pd.ctx \in Contexts
    BY <1>2, InHand DEF do_crypto_task, AtCall
  <2>2. store' = [store EXCEPT ![pd.ctx] = pd] /\ pd # None
    BY <1>2, TaskTypes
  <2> QED
    BY <1>1, <2>1, <2>2 DEF Suspended
<1>3. ASSUME resume_packet_handling
      PROVE  Suspended' = Suspended \ {Head(packet[Head(finished)].ptrs)}
  <2>1. PICK c \in Suspended : /\ Head(packet[Head(finished)].ptrs) = c
                               /\ store' = [store EXCEPT ![c] = None]
    BY <1>3, ResumeTypes
  <2>2. Head(packet[Head(finished)].ptrs) = c
    BY <2>1
  <2>3. Suspended' = Suspended \ {c}
    BY <1>1, <2>1 DEF Suspended
  <2> QED
    BY <2>2, <2>3
<1>4. ASSUME ~do_crypto_task /\ ~resume_packet_handling
      PROVE  store' = store /\ Suspended' = Suspended
  <2>1. store' = store
    BY <1>0, <1>4 DEF tx_burst_queue_drain, drain_not_due, main_loop_rx_group, NextGroup,
       PostRx, do_single_rx, async_handle_packet_drops, do_sync_crypto_operation,
       CallForwards, CallOfOtherPhase, free_packet, dpdk_send_packet, broadcast_packet,
       PostSingleTx, enqueue_async_operations, dequeue_finished_async_operations,
       AsyncDone, DeviceFinishes, main_loop_fake_crypto, vars, ctxs
  <2> QED
    BY <2>1 DEF Suspended
<1> QED
  BY <1>2, <1>3, <1>4

\* A context that a step moves is taken out of the place it was in.
LEMMA EachContext ==
    ASSUME IInv, Step, NEW c \in Contexts
    PROVE  InOne(c, CtxWhere)'
<1> pc # "strayed" /\ pc' # "strayed"
  BY ControlTypes DEF Step
<1>0. \/ tx_burst_queue_drain \/ drain_not_due
      \/ main_loop_rx_group \/ NextGroup \/ PostRx \/ do_single_rx
      \/ async_handle_packet_drops
      \/ do_sync_crypto_operation \/ CallForwards \/ CallOfOtherPhase \/ do_crypto_task
      \/ free_packet \/ dpdk_send_packet \/ broadcast_packet
      \/ enqueue_async_operations \/ dequeue_finished_async_operations
      \/ resume_packet_handling \/ AsyncDone
      \/ DeviceFinishes \/ main_loop_fake_crypto
      \/ UNCHANGED vars
  BY StepCases
<1>1. /\ freeRing \in Seq(Contexts) /\ IsInjective(freeRing) /\ pool \subseteq Contexts
      /\ pd.ctx \in Contexts \cup {None} /\ None \notin Contexts
      /\ caller \in {"main", "async"} /\ after \in {"pre_rx", "single_rx"}
  BY NoneAssumption DEF IInv, TypeInv, TypeOK, CtxInv
<1>2. CASE do_single_rx
  <2>1. PICK ctx \in pool \cup {None} :
           /\ pd' = [mbuf |-> Head(burst), ctx |-> ctx, phase |-> 0, k |-> 1, sync |-> every' = 0]
           /\ pool' = pool \ {ctx} /\ pc = "single_rx" /\ pc' = "handle"
    BY <1>2, ReceiveTypes
  <2>2. pd'.ctx = ctx
    BY <2>1
  <2>3. freeRing' = freeRing /\ Suspended' = Suspended
    BY <1>2 DEF do_single_rx, Suspended
  <2>4. \A k \in (1 .. 4) \ {1, 4} : c \in CtxWhere'[k] <=> c \in CtxWhere[k]
    BY <2>3, CtxWhereIs, CtxWhereNext
  <2>5. \/ c \in CtxWhere[1] /\ c \notin CtxWhere'[1] /\ c \in CtxWhere'[4]
        \/ (c \in CtxWhere'[1] <=> c \in CtxWhere[1]) /\ (c \in CtxWhere'[4] <=> c \in CtxWhere[4])
    BY <1>1, <2>1, <2>2, CtxWhereIs, CtxWhereNext
  <2> QED
    BY <2>4, <2>5, CtxMoves
<1>3. CASE do_crypto_task
  <2>1. /\ pc = "handle" /\ pc' # "handle" /\ UNCHANGED <<pool, freeRing>>
        /\ Suspended' = Suspended \cup {pd.ctx}
    BY <1>3, SuspendedNext DEF do_crypto_task, AtCall
  <2>2. \A k \in (1 .. 4) \ {4, 3} : c \in CtxWhere'[k] <=> c \in CtxWhere[k]
    BY <2>1, CtxWhereIs, CtxWhereNext
  <2>3. \/ c \in CtxWhere[4] /\ c \notin CtxWhere'[4] /\ c \in CtxWhere'[3]
        \/ (c \in CtxWhere'[4] <=> c \in CtxWhere[4]) /\ (c \in CtxWhere'[3] <=> c \in CtxWhere[3])
    BY <2>1, CtxWhereIs, CtxWhereNext
  <2> QED
    BY <2>2, <2>3, CtxMoves
<1>4. CASE resume_packet_handling
  <2>1. PICK d \in Suspended : /\ store[d] \in Descriptors /\ store[d].ctx = d
                               /\ Head(packet[Head(finished)].ptrs) = d
                               /\ pd' = Resumed(store[d])
    BY <1>4, ResumeTypes
  <2>2. pd'.ctx = d
    BY <2>1 DEF Resumed, ResumedIn, Descriptors
  <2>3. /\ pc # "handle" /\ pc' = "handle" /\ UNCHANGED <<pool, freeRing>>
        /\ Suspended' = Suspended \ {d}
    BY <1>4, <2>1, SuspendedNext DEF resume_packet_handling
  <2>4. \A k \in (1 .. 4) \ {3, 4} : c \in CtxWhere'[k] <=> c \in CtxWhere[k]
    BY <2>3, CtxWhereIs, CtxWhereNext
  <2>5. \/ c \in CtxWhere[3] /\ c \notin CtxWhere'[3] /\ c \in CtxWhere'[4]
        \/ (c \in CtxWhere'[3] <=> c \in CtxWhere[3]) /\ (c \in CtxWhere'[4] <=> c \in CtxWhere[4])
    BY <2>1, <2>2, <2>3, CtxWhereIs, CtxWhereNext
  <2> QED
    BY <2>4, <2>5, CtxMoves
<1>5. CASE free_packet \/ dpdk_send_packet \/ broadcast_packet
  <2>1. pc = "handle" /\ pc' # "handle" /\ Suspended' = Suspended
    BY <1>5, PostCtx DEF Suspended
  <2>2. CASE pd.ctx = None /\ pool' = pool /\ freeRing' = freeRing
    <3>1. \A k \in 1 .. 4 : c \in CtxWhere'[k] <=> c \in CtxWhere[k]
      BY <1>1, <2>1, <2>2, CtxWhereIs, CtxWhereNext
    <3> QED
      BY <3>1, CtxMoves
  <2>3. CASE pd.ctx # None /\ pool' = pool \cup {pd.ctx} /\ freeRing' = freeRing
    <3>1. \A k \in (1 .. 4) \ {4, 1} : c \in CtxWhere'[k] <=> c \in CtxWhere[k]
      BY <2>1, <2>3, CtxWhereIs, CtxWhereNext
    <3>2. \/ c \in CtxWhere[4] /\ c \notin CtxWhere'[4] /\ c \in CtxWhere'[1]
          \/ (c \in CtxWhere'[4] <=> c \in CtxWhere[4]) /\ (c \in CtxWhere'[1] <=> c \in CtxWhere[1])
      BY <2>1, <2>3, CtxWhereIs, CtxWhereNext
    <3> QED
      BY <3>1, <3>2, CtxMoves
  <2>4. CASE pd.ctx # None /\ pool' = pool /\ freeRing' = Append(freeRing, pd.ctx)
    <3>0. ToSet(freeRing') = ToSet(freeRing) \cup {pd.ctx}
      BY <1>1, <2>4, AppendSeq
    <3>1. \A k \in (1 .. 4) \ {4, 2} : c \in CtxWhere'[k] <=> c \in CtxWhere[k]
      BY <2>1, <2>4, CtxWhereIs, CtxWhereNext
    <3>2. \/ c \in CtxWhere[4] /\ c \notin CtxWhere'[4] /\ c \in CtxWhere'[2]
          \/ (c \in CtxWhere'[4] <=> c \in CtxWhere[4]) /\ (c \in CtxWhere'[2] <=> c \in CtxWhere[2])
      BY <2>1, <3>0, CtxWhereIs, CtxWhereNext
    <3> QED
      BY <3>1, <3>2, CtxMoves
  <2> QED
    BY <1>5, <2>2, <2>3, <2>4, PostCtx
<1>6. CASE enqueue_async_operations
  <2>1. PICK n \in 0 .. Len(freeRing) :
           /\ pool' = pool \cup ToSet(SubSeq(freeRing, 1, n))
           /\ freeRing' = SubSeq(freeRing, n + 1, Len(freeRing))
    BY <1>6, EnqueueTypes
  <2> DEFINE S == ToSet(SubSeq(freeRing, 1, n))
  <2>2. ToSet(freeRing) = S \cup ToSet(freeRing') /\ S \cap ToSet(freeRing') = {}
    BY <1>1, <2>1, SplitSeq
  <2>3. pool' = pool \cup S
    BY <2>1
  <2>4. pc # "handle" /\ pc' # "handle" /\ Suspended' = Suspended
    BY <1>6 DEF enqueue_async_operations, Suspended
  <2> HIDE DEF S
  <2>5. \A k \in (1 .. 4) \ {2, 1} : c \in CtxWhere'[k] <=> c \in CtxWhere[k]
    BY <2>4, CtxWhereIs, CtxWhereNext
  <2>6. \/ c \in CtxWhere[2] /\ c \notin CtxWhere'[2] /\ c \in CtxWhere'[1]
        \/ (c \in CtxWhere'[2] <=> c \in CtxWhere[2]) /\ (c \in CtxWhere'[1] <=> c \in CtxWhere[1])
    BY <2>2, <2>3, CtxWhereIs, CtxWhereNext
  <2> QED
    BY <2>5, <2>6, CtxMoves
<1>7. CASE do_sync_crypto_operation \/ CallForwards \/ CallOfOtherPhase
  <2>1. pd'.ctx = pd.ctx /\ UNCHANGED <<pc, pool, freeRing>> /\ Suspended' = Suspended
    BY <1>7, CallTypes, CallKeeps DEF ctxs, Suspended
  <2>2. \A k \in 1 .. 4 : c \in CtxWhere'[k] <=> c \in CtxWhere[k]
    BY <2>1, CtxWhereIs, CtxWhereNext
  <2> QED
    BY <2>2, CtxMoves
<1>8. CASE \/ tx_burst_queue_drain \/ drain_not_due \/ main_loop_rx_group \/ NextGroup
           \/ PostRx \/ async_handle_packet_drops \/ dequeue_finished_async_operations
           \/ AsyncDone \/ DeviceFinishes \/ main_loop_fake_crypto \/ UNCHANGED vars
  <2>1. UNCHANGED <<pool, freeRing, store>> /\ (pc' = "handle" <=> pc = "handle")
        /\ (pc = "handle" => pd' = pd)
    BY <1>1, <1>8 DEF tx_burst_queue_drain, drain_not_due, main_loop_rx_group, NextGroup,
       PostRx, async_handle_packet_drops, dequeue_finished_async_operations, AsyncDone,
       DeviceFinishes, main_loop_fake_crypto, vars, ctxs
  <2>2. Suspended' = Suspended
    BY <2>1 DEF Suspended
  <2>3. \A k \in 1 .. 4 : c \in CtxWhere'[k] <=> c \in CtxWhere[k]
    BY <2>1, <2>2, CtxWhereIs, CtxWhereNext
  <2> QED
    BY <2>3, CtxMoves
<1> QED
  BY <1>0, <1>2, <1>3, <1>4, <1>5, <1>6, <1>7, <1>8

\* Every step keeps every context in one place, and once in the ring.
LEMMA CtxStep == ASSUME IInv, Step PROVE CtxInv'
<1>0. \/ tx_burst_queue_drain \/ drain_not_due
      \/ main_loop_rx_group \/ NextGroup \/ PostRx \/ do_single_rx
      \/ async_handle_packet_drops
      \/ do_sync_crypto_operation \/ CallForwards \/ CallOfOtherPhase \/ do_crypto_task
      \/ free_packet \/ dpdk_send_packet \/ broadcast_packet
      \/ enqueue_async_operations \/ dequeue_finished_async_operations
      \/ resume_packet_handling \/ AsyncDone
      \/ DeviceFinishes \/ main_loop_fake_crypto
      \/ UNCHANGED vars
  BY StepCases
<1>1. freeRing \in Seq(Contexts) /\ IsInjective(freeRing) /\ pd.ctx \in Contexts \cup {None}
  BY DEF IInv, TypeInv, TypeOK, CtxInv
<1>2. CASE free_packet \/ dpdk_send_packet \/ broadcast_packet
  <2>1. freeRing' = freeRing \/ (pd.ctx # None /\ freeRing' = Append(freeRing, pd.ctx))
    BY <1>2, PostCtx
  <2>2. pd.ctx # None => pd.ctx \in Contexts /\ pd.ctx \notin ToSet(freeRing)
    BY <1>1, <1>2, PostCtx, CtxApart
  <2>3. IsInjective(freeRing')
    <3>1. CASE pd.ctx # None /\ freeRing' = Append(freeRing, pd.ctx)
      <4>1. pd.ctx \in Contexts /\ pd.ctx \notin ToSet(freeRing)
        BY <2>2, <3>1
      <4>2. IsInjective(Append(freeRing, pd.ctx))
        BY <1>1, <4>1, AppendSeq
      <4> QED
        BY <3>1, <4>2
    <3> QED
      BY <1>1, <2>1, <3>1
  <2> QED
    BY <2>3, EachContext DEF CtxInv
<1>3. CASE enqueue_async_operations
  <2>1. PICK n \in 0 .. Len(freeRing) : freeRing' = SubSeq(freeRing, n + 1, Len(freeRing))
    BY <1>3, EnqueueTypes
  <2>2. IsInjective(freeRing')
    BY <1>1, <2>1, SplitSeq
  <2> QED
    BY <2>2, EachContext DEF CtxInv
<1>4. CASE ~(\/ free_packet \/ dpdk_send_packet \/ broadcast_packet \/ enqueue_async_operations)
  <2>1. freeRing' = freeRing
    BY <1>0, <1>4 DEF tx_burst_queue_drain, drain_not_due, main_loop_rx_group, NextGroup,
       PostRx, do_single_rx, async_handle_packet_drops, do_sync_crypto_operation,
       CallForwards, CallOfOtherPhase, do_crypto_task, dequeue_finished_async_operations,
       resume_packet_handling, AsyncDone, DeviceFinishes, main_loop_fake_crypto, vars, ctxs
  <2> QED
    BY <1>1, <2>1, EachContext DEF CtxInv
<1> QED
  BY <1>2, <1>3, <1>4

\* The buffers in the crypto machinery: one is added, or one is taken.
LEMMA InCryptoNext ==
    ASSUME IInv, Step
    PROVE  /\ do_crypto_task => InCrypto' = InCrypto \cup {pd.mbuf}
           /\ resume_packet_handling => InCrypto' = InCrypto \ {Head(finished)}
           /\ ~do_crypto_task /\ ~resume_packet_handling => InCrypto' = InCrypto
<1>0. \/ tx_burst_queue_drain \/ drain_not_due
      \/ main_loop_rx_group \/ NextGroup \/ PostRx \/ do_single_rx
      \/ async_handle_packet_drops
      \/ do_sync_crypto_operation \/ CallForwards \/ CallOfOtherPhase \/ do_crypto_task
      \/ free_packet \/ dpdk_send_packet \/ broadcast_packet
      \/ enqueue_async_operations \/ dequeue_finished_async_operations
      \/ resume_packet_handling \/ AsyncDone
      \/ DeviceFinishes \/ main_loop_fake_crypto
      \/ UNCHANGED vars
  BY StepCases
<1>1. /\ asyncq \in Seq(Mbufs) /\ dev \in Seq(Mbufs) /\ finished \in Seq(Mbufs)
      /\ IsInjective(finished)
  BY DEF IInv, TypeInv, MbufInv
<1>2. ASSUME do_crypto_task PROVE InCrypto' = InCrypto \cup {pd.mbuf}
  <2>1. asyncq' = Append(asyncq, pd.mbuf) /\ UNCHANGED <<dev, finished>> /\ pc = "handle"
    BY <1>2, Room DEF do_crypto_task, AtCall
  <2>2. ToSet(asyncq') = ToSet(asyncq) \cup {pd.mbuf}
    BY <1>1, <2>1, InHand, AppendSeq
  <2> QED
    BY <2>1, <2>2 DEF InCrypto
<1>3. ASSUME resume_packet_handling PROVE InCrypto' = InCrypto \ {Head(finished)}
  <2>1. finished # << >> /\ finished' = Tail(finished) /\ UNCHANGED <<asyncq, dev>>
    BY <1>3 DEF resume_packet_handling
  <2>2. /\ ToSet(finished) = {Head(finished)} \cup ToSet(finished')
        /\ Head(finished) \notin ToSet(finished')
    BY <1>1, <2>1, TailSeq
  <2>3. Head(finished) \notin ToSet(asyncq) /\ Head(finished) \notin ToSet(dev)
    BY <2>2, Apart
  <2> QED
    BY <2>1, <2>2, <2>3 DEF InCrypto
<1>4. CASE enqueue_async_operations
  <2>1. PICK n \in 0 .. Len(asyncq) :
           /\ dev' = dev \o SubSeq(asyncq, 1, n)
           /\ asyncq' = SubSeq(asyncq, n + 1, Len(asyncq))
    BY <1>4, EnqueueTypes
  <2> DEFINE a == SubSeq(asyncq, 1, n)
  <2>2. a \in Seq(Mbufs) /\ ToSet(asyncq) = ToSet(a) \cup ToSet(asyncq') /\ dev' = dev \o a
    BY <1>1, <2>1, SplitSeq
  <2> HIDE DEF a
  <2>3. ToSet(dev') = ToSet(dev) \cup ToSet(a)
    BY <1>1, <2>2, JoinSeq
  <2>4. finished' = finished
    BY <1>4 DEF enqueue_async_operations
  <2>5. InCrypto' = InCrypto
    BY <2>2, <2>3, <2>4 DEF InCrypto
  <2>6. ~do_crypto_task /\ ~resume_packet_handling
    BY <1>4 DEF enqueue_async_operations, do_crypto_task, AtCall, resume_packet_handling
  <2> QED
    BY <2>5, <2>6
<1>5. CASE dequeue_finished_async_operations
  <2>1. PICK n \in 0 .. Len(dev) :
           finished' = SubSeq(dev, 1, n) /\ dev' = SubSeq(dev, n + 1, Len(dev))
    BY <1>5, DequeueTypes
  <2>2. ToSet(dev) = ToSet(finished') \cup ToSet(dev')
    BY <1>1, <2>1, SplitSeq
  <2>3. asyncq' = asyncq /\ finished = << >>
    BY <1>5 DEF dequeue_finished_async_operations, IInv, LoopInv
  <2>4. InCrypto' = InCrypto
    BY <2>2, <2>3, NoSeq DEF InCrypto
  <2>5. ~do_crypto_task /\ ~resume_packet_handling
    BY <1>5 DEF dequeue_finished_async_operations, do_crypto_task, AtCall, resume_packet_handling
  <2> QED
    BY <2>4, <2>5
<1>6. CASE ~(\/ do_crypto_task \/ resume_packet_handling \/ enqueue_async_operations
             \/ dequeue_finished_async_operations)
  <2>1. UNCHANGED <<asyncq, dev, finished>>
    BY <1>0, <1>6 DEF tx_burst_queue_drain, drain_not_due, main_loop_rx_group, NextGroup,
       PostRx, do_single_rx, async_handle_packet_drops, do_sync_crypto_operation,
       CallForwards, CallOfOtherPhase, free_packet, dpdk_send_packet, broadcast_packet,
       AsyncDone, DeviceFinishes, main_loop_fake_crypto, vars, tasks
  <2> QED
    BY <1>6, <2>1 DEF InCrypto
<1> QED
  BY <1>2, <1>3, <1>4, <1>5, <1>6

\* Nobody writes in a buffer of the crypto machinery but the handler that is resumed.
LEMMA CryptoKeeps ==
    ASSUME IInv, Step, NEW m \in InCrypto,
           resume_packet_handling => m # Head(finished)
    PROVE  packet'[m] = packet[m] /\ (pc = "handle" => m # pd.mbuf)
<1>1. /\ m \in Mbufs /\ m \notin free /\ m \notin ToSet(burst)
      /\ (pc = "handle" => m # pd.mbuf) /\ packet \in [Mbufs -> Packets]
  BY Apart, SeqTypes DEF InCrypto, IInv, TypeInv
<1>2. CASE resume_packet_handling
  <2>1. packet' = [packet EXCEPT ![Head(finished)] = Unwrapped(packet[Head(finished)])]
    BY <1>2, ResumeTypes
  <2> QED
    BY <1>1, <1>2, <2>1
<1>3. CASE do_single_rx \/ async_handle_packet_drops
  <2>1. /\ burst # << >> /\ pc = "single_rx"
        /\ \E t : packet' = [packet EXCEPT ![Head(burst)] = t]
    <3>1. CASE do_single_rx
      BY <3>1, ReceiveTypes
    <3>2. CASE async_handle_packet_drops
      BY <3>2 DEF async_handle_packet_drops
    <3> QED
      BY <1>3, <3>1, <3>2
  <2>2. Head(burst) \in ToSet(burst)
    BY <2>1, InBurstHead
  <2> QED
    BY <1>1, <2>1, <2>2
<1>4. CASE ~resume_packet_handling /\ ~do_single_rx /\ ~async_handle_packet_drops
  BY <1>1, <1>4, WritesOnly
<1> QED
  BY <1>2, <1>3, <1>4

\* A suspended context and the buffer that carries its pointer stay together.
LEMMA LinkStep == ASSUME IInv, Step PROVE LinkInv'
<1>1. store \in [Contexts -> Descriptors \cup {None}] /\ packet \in [Mbufs -> Packets]
  BY DEF IInv, TypeInv
<1>2. /\ \A c \in Suspended : /\ store[c].ctx = c /\ store[c].mbuf \in InCrypto
                              /\ Points(packet[store[c].mbuf], c)
      /\ \A m \in InCrypto : \E c \in Suspended : store[c].mbuf = m
  BY DEF IInv, LinkInv
<1>3. CASE do_crypto_task
  <2>1. /\ Suspended' = Suspended \cup {pd.ctx} /\ InCrypto' = InCrypto \cup {pd.mbuf}
        /\ pd.ctx \in Contexts /\ pd.mbuf \in Mbufs /\ pd.ctx \notin Suspended /\ pc = "handle"
    BY <1>3, SuspendedNext, InCryptoNext, InHand, CtxApart DEF do_crypto_task, AtCall
  <2>2. store' = [store EXCEPT ![pd.ctx] = pd]
    BY <1>3, TaskTypes
  <2>3. \A c \in Suspended : store'[c] = store[c]
    BY <1>1, <2>1, <2>2 DEF Suspended
  <2>4. store'[pd.ctx] = pd
    BY <1>1, <2>1, <2>2
  <2>5. Points(packet'[pd.mbuf], pd.ctx)
    <3>1. packet' = [packet EXCEPT ![pd.mbuf] =
                       [packet[pd.mbuf] EXCEPT
                          !.len = AsyncLength(Call.type, packet[pd.mbuf].len, Call.offset),
                          !.ptrs = <<pd.ctx>> \o packet[pd.mbuf].ptrs,
                          !.done = Append(packet[pd.mbuf].done, Call)]]
      BY <1>3, TaskTypes
    <3>2. packet'[pd.mbuf].ptrs = <<pd.ctx>> \o packet[pd.mbuf].ptrs
      BY <1>1, <2>1, <3>1 DEF Packets
    <3>3. packet[pd.mbuf].ptrs \in Seq(Contexts)
      BY <1>1, <2>1 DEF Packets
    <3>4. /\ <<pd.ctx>> \o packet[pd.mbuf].ptrs # << >>
          /\ Head(<<pd.ctx>> \o packet[pd.mbuf].ptrs) = pd.ctx
      BY <2>1, <3>3, InFront
    <3> QED
      BY <3>2, <3>4 DEF Points
  <2>6. ~resume_packet_handling
    BY <2>1 DEF resume_packet_handling
  <2>7. \A m \in InCrypto : packet'[m] = packet[m]
    BY <2>6, CryptoKeeps
  <2>8. ASSUME NEW c \in Suspended'
        PROVE  /\ store'[c].ctx = c /\ store'[c].mbuf \in InCrypto'
               /\ Points(packet'[store'[c].mbuf], c)
    <3>1. CASE c = pd.ctx
      BY <2>1, <2>4, <2>5, <3>1
    <3>2. CASE c \in Suspended
      BY <1>2, <2>1, <2>3, <2>7, <3>2
    <3> QED
      BY <2>1, <3>1, <3>2
  <2>9. ASSUME NEW m \in InCrypto' PROVE \E c \in Suspended' : store'[c].mbuf = m
    <3>1. CASE m = pd.mbuf
      BY <2>1, <2>4, <3>1
    <3>2. CASE m \in InCrypto
      BY <1>2, <2>1, <2>3, <3>2
    <3> QED
      BY <2>1, <2>9, <3>1, <3>2
  <2> QED
    BY <2>8, <2>9 DEF LinkInv
<1>4. CASE resume_packet_handling
  <2> DEFINE h == Head(finished)
  <2>1. PICK d \in Suspended :
           /\ store[d].mbuf = h /\ Head(packet[h].ptrs) = d
           /\ store' = [store EXCEPT ![d] = None]
    BY <1>4, ResumeTypes
  <2>2. Head(packet[h].ptrs) = d
    BY <2>1
  <2>3. Suspended' = Suspended \ {d} /\ InCrypto' = InCrypto \ {h}
    BY <1>4, <2>2, SuspendedNext, InCryptoNext
  <2>4. \A c \in Suspended : c # d => store[c].mbuf # h
    BY <1>2, <2>1 DEF Points
  <2>5. \A c \in Suspended : c # d => store'[c] = store[c]
    BY <1>1, <2>1 DEF Suspended
  <2>6. \A m \in InCrypto : m # h => packet'[m] = packet[m]
    BY CryptoKeeps
  <2>7. ASSUME NEW c \in Suspended'
        PROVE  /\ store'[c].ctx = c /\ store'[c].mbuf \in InCrypto'
               /\ Points(packet'[store'[c].mbuf], c)
    <3>1. c \in Suspended /\ c # d
      BY <2>3
    <3>2. store'[c] = store[c] /\ store[c].mbuf # h /\ store[c].mbuf \in InCrypto
      BY <1>2, <2>4, <2>5, <3>1
    <3> QED
      BY <1>2, <2>3, <2>6, <3>1, <3>2
  <2>8. ASSUME NEW m \in InCrypto' PROVE \E c \in Suspended' : store'[c].mbuf = m
    <3>1. m \in InCrypto /\ m # h
      BY <2>3
    <3>2. PICK c \in Suspended : store[c].mbuf = m
      BY <1>2, <3>1
    <3> QED
      BY <2>1, <2>3, <2>5, <3>1, <3>2
  <2> QED
    BY <2>7, <2>8 DEF LinkInv
<1>5. CASE ~do_crypto_task /\ ~resume_packet_handling
  <2>1. store' = store /\ Suspended' = Suspended /\ InCrypto' = InCrypto
    BY <1>5, SuspendedNext, InCryptoNext
  <2>2. \A m \in InCrypto : packet'[m] = packet[m]
    BY <1>5, CryptoKeeps
  <2> QED
    BY <1>2, <2>1, <2>2 DEF LinkInv
<1> QED
  BY <1>3, <1>4, <1>5

-----------------------------------------------------------------------------
\* What a handler has done to its packet.

\* The lengths a packet is opened to are integers.
LEMMA OpenedIs == ASSUME NEW prog, NEW len \in Int PROVE Opened(prog, len) \in Int
<1>1. \A n \in Int : ToEncrypt(n) \in Int
  BY PaddingFills DEF ToEncrypt, ETH
<1> QED
  BY <1>1 DEF Opened, IpsecOpened, ESPHEAD, ETH, IP

\* One operation more.
LEMMA LengthNext ==
    ASSUME NEW m, NEW t \in Packets, NEW u \in Packets, NEW c \in Calls, HasLength(m, t),
           u.prog = t.prog, u.received = t.received, u.done = Append(t.done, c),
           u.len = SyncLength(c.type, t.len, c.offset) + LeftIn(m, c),
           u.ptrs = t.ptrs \/ (m = "pd" /\ c.sync)
    PROVE  HasLength(m, u)
<1> DEFINE o == Opened(t.prog, t.received)
           d == t.done
<1>1. d \in Seq(Calls) /\ o \in Int
  BY OpenedIs DEF Packets
<1>2. t.len = LengthsIn(m, d, o)[Len(d)]
  BY DEF HasLength
<1> HIDE DEF o
<1>3. LengthsIn(m, Append(d, c), o)[Len(Append(d, c))] =
         SyncLength(c.type, LengthsIn(m, d, o)[Len(d)], c.offset) + LeftIn(m, c)
  <2> HIDE DEF d
  <2> QED
    BY <1>1, LengthsAppend
<1>4. u.len = LengthsIn(m, u.done, Opened(u.prog, u.received))[Len(u.done)]
  BY <1>2, <1>3 DEF o
<1>5. ASSUME u.ptrs # << >> PROVE m = "pd" /\ \E i \in DOMAIN u.done : u.done[i].sync
  <2>1. Len(Append(d, c)) \in DOMAIN Append(d, c) /\ Append(d, c)[Len(Append(d, c))] = c
        /\ \A i \in DOMAIN d : i \in DOMAIN Append(d, c) /\ Append(d, c)[i] = d[i]
    <3>1. /\ Len(d) \in Nat /\ DOMAIN d = 1 .. Len(d)
          /\ DOMAIN Append(d, c) = 1 .. Len(d) + 1 /\ Len(Append(d, c)) = Len(d) + 1
          /\ Append(d, c)[Len(d) + 1] = c /\ \A i \in 1 .. Len(d) : Append(d, c)[i] = d[i]
      <4> HIDE DEF d
      <4> QED
        BY <1>1, AppendProperties
    <3> HIDE DEF d
    <3> QED
      BY <3>1
  <2>2. CASE u.ptrs = t.ptrs
    BY <1>5, <2>1, <2>2 DEF HasLength
  <2>3. CASE m = "pd" /\ c.sync
    BY <2>1, <2>3
  <2> QED
    BY <2>2, <2>3
<1> QED
  BY <1>4, <1>5 DEF HasLength

\* A suspended packet will go on, when its pointer is off again, with its operation done.
LEMMA TaskProgress ==
    ASSUME IInv, do_crypto_task
    PROVE  Progress(Resumed(pd), Unwrapped(packet'[pd.mbuf]))
<1> DEFINE u == packet'[pd.mbuf]
           v == Unwrapped(u)
           q == Resumed(pd)
           C == Me.prog.calls
<1>1. /\ AtCall /\ pc = "handle" /\ pd.ctx # None /\ ~Call.sync
      /\ mode = "context" \/ (mode = "pd" /\ pd.phase = Call.phase)
  BY DEF do_crypto_task, AtCall
<1>2. /\ Me.prog \in Programs /\ Me \in Packets /\ Me.from \in Ports
      /\ pd \in [mbuf : Mbufs, ctx : Contexts \cup {None}, phase : Nat, k : Nat, sync : BOOLEAN]
      /\ packet \in [Mbufs -> Packets] /\ C \in Seq(Calls) /\ pd.mbuf \in Mbufs
      /\ pd.ctx \in Contexts
  BY <1>1, InHand DEF IInv, TypeInv
<1>3. /\ pd.k \in 1 .. Len(C) /\ Call.offset \in Int /\ Call \in Calls /\ Call = C[pd.k]
      /\ pd.k \in DOMAIN C
  BY <1>1, TheCall
<1>4. u = [Me EXCEPT !.len = AsyncLength(Call.type, Me.len, Call.offset),
                     !.ptrs = <<pd.ctx>> \o Me.ptrs, !.done = Append(Me.done, Call)]
  BY <1>2, TaskTypes DEF Me
<1> HIDE DEF u
<1>5. /\ u \in Packets
      /\ u.prog = Me.prog /\ u.from = Me.from /\ u.received = Me.received
      /\ u.done = Append(Me.done, Call) /\ u.ptrs = <<pd.ctx>> \o Me.ptrs
      /\ u.len = AsyncLength(Call.type, Me.len, Call.offset)
  <2>1. /\ u.prog = Me.prog /\ u.from = Me.from /\ u.received = Me.received
        /\ u.done = Append(Me.done, Call) /\ u.ptrs = <<pd.ctx>> \o Me.ptrs
        /\ u.len = AsyncLength(Call.type, Me.len, Call.offset)
    BY <1>2, <1>4 DEF Packets
  <2>2. u \in Packets
    BY <1>2, TaskTypes DEF u
  <2> QED
    BY <2>1, <2>2
<1>6. Me.len \in Int /\ Me.received \in Int /\ Me.ptrs \in Seq(Contexts) /\ Me.done \in Seq(Calls)
  BY <1>2 DEF Packets
<1>7. /\ v.prog = Me.prog /\ v.from = Me.from /\ v.received = Me.received
      /\ v.done = Append(Me.done, Call) /\ v.ptrs = Me.ptrs
      /\ v.len = SyncLength(Call.type, Me.len, Call.offset) /\ v \in Packets
  <2>1. Tail(<<pd.ctx>> \o Me.ptrs) = Me.ptrs
    BY <1>2, <1>6, InFront
  <2>2. ResumedLength(u.len) = SyncLength(Call.type, Me.len, Call.offset) /\ ResumedLength(u.len) \in Int
    BY <1>3, <1>5, <1>6, SameLength
  <2>3. /\ v.prog = Me.prog /\ v.from = Me.from /\ v.received = Me.received
        /\ v.done = Append(Me.done, Call) /\ v.ptrs = Me.ptrs
        /\ v.len = SyncLength(Call.type, Me.len, Call.offset)
    BY <1>5, <2>1, <2>2 DEF Unwrapped, Packets
  <2>4. v \in Packets
    BY <1>5, <1>6, <2>1, <2>2 DEF Unwrapped, Packets
  <2> QED
    BY <2>3, <2>4
<1> HIDE DEF v
<1>8. ProgressIn(mode, pd, Me)
  BY <1>1 DEF IInv, HandlerInv, Me, Progress
<1>9. HasLength(mode, v)
  <2>1. SyncLength(Call.type, Me.len, Call.offset) + LeftIn(mode, Call)
           = SyncLength(Call.type, Me.len, Call.offset)
    BY <1>1, <1>3, <1>6, SameLength DEF LeftIn
  <2>2. HasLength(mode, Me)
    BY <1>8 DEF ProgressIn
  <2> QED
    BY <1>2, <1>3, <1>7, <2>1, <2>2, LengthNext
<1>10. v.prog.calls = C /\ Len(C) \in Nat /\ DOMAIN C = 1 .. Len(C) /\ pd.k \in Nat
  BY <1>2, <1>7
<1> HIDE DEF C
<1>11. CASE mode = "context"
  <2>1. q.k = pd.k + 1 /\ q.ctx = pd.ctx /\ q.k - 1 = pd.k
    BY <1>2, <1>11 DEF Resumed, ResumedIn
  <2>2. ~Skips(mode, pd) /\ ~Skips(mode, q)
    BY <1>1, <1>2, <1>11, <2>1 DEF Skips
  <2>3. q.k \in 1 .. Len(v.prog.calls) + 1
    BY <1>3, <1>10, <2>1
  <2>4. v.done = First(C, q.k - 1)
    <3>1. Me.done = First(C, pd.k - 1)
      BY <1>8, <1>11, <2>2 DEF ProgressIn, C
    <3> DEFINE n == pd.k - 1
    <3>2. n \in Nat /\ n + 1 = pd.k /\ n + 1 <= Len(C)
      BY <1>3, <1>10
    <3>3. Append(First(C, n), C[n + 1]) = First(C, n + 1)
      <4> HIDE DEF n
      <4> QED
        BY <1>2, <3>2, FirstCalls DEF C
    <3> QED
      BY <1>3, <1>7, <2>1, <3>1, <3>2, <3>3
  <2> HIDE DEF q
  <2>5. ProgressIn(mode, q, v)
    BY <1>2, <1>7, <1>9, <1>10, <1>11, <2>2, <2>3, <2>4 DEF ProgressIn
  <2> QED
    BY <2>5 DEF q, v, u, Progress
<1>12. CASE mode = "pd"
  <2>1. q.k = 1 /\ q.phase = pd.phase + 1 /\ q.ctx = pd.ctx /\ pd.phase \in Nat
    BY <1>2, <1>12 DEF Resumed, ResumedIn
  <2>2. ~Skips(mode, pd) /\ ~Skips(mode, q)
    BY <1>1, <1>2, <1>12, <2>1 DEF Skips
  <2>3. q.k \in 1 .. Len(v.prog.calls) + 1
    BY <1>10, <2>1
  <2>4. \A j \in 1 .. q.k - 1 : ~v.prog.calls[j].sync /\ v.prog.calls[j].phase # q.phase
    <3>1. 1 .. q.k - 1 = {}
      BY <2>1
    <3> QED
      BY <3>1
  <2>5. ASSUME AllAsync(C)
        PROVE  /\ v.done = First(ByPhase(v.prog), q.phase)
               /\ \A r \in 0 .. q.phase - 1 : HasPhase(v.prog, r)
    <3>1. /\ Me.done = First(ByPhase(Me.prog), pd.phase)
          /\ \A r \in 0 .. pd.phase - 1 : HasPhase(Me.prog, r)
          /\ \A j \in 1 .. pd.k - 1 : C[j].phase # pd.phase
      <4>1. CASE pd.phase = 0
        <5>1. FirstRun(pd, Me)
          BY <1>8, <1>12, <2>2, <4>1 DEF ProgressIn
        <5>2. \A j \in 1 .. pd.k - 1 : j \in DOMAIN C
          BY <1>3, <1>10
        <5>3. \A j \in 1 .. pd.k - 1 : ~C[j].sync /\ C[j].phase # 0
          BY <2>5, <5>1, <5>2 DEF FirstRun, AllAsync, C
        <5>4. Me.done = << >>
          BY <5>1, <5>3 DEF FirstRun, C
        <5>5. First(ByPhase(Me.prog), 0) = << >>
          BY DEF First
        <5> QED
          BY <4>1, <5>3, <5>4, <5>5
      <4>2. CASE pd.phase # 0
        <5>1. LaterRun(pd, Me)
          BY <1>8, <1>12, <2>2, <4>2 DEF ProgressIn
        <5> QED
          BY <2>5, <5>1 DEF LaterRun, C
      <4> QED
        BY <4>1, <4>2
    <3>2. HasPhase(Me.prog, pd.phase) /\ pd.phase = C[pd.k].phase
      BY <1>1, <1>3, <1>12 DEF HasPhase, C
    <3>3. \A r \in 0 .. pd.phase : HasPhase(Me.prog, r)
      <4>1. \A r \in 0 .. pd.phase : r = pd.phase \/ r \in 0 .. pd.phase - 1
        BY <2>1
      <4> QED
        BY <3>1, <3>2, <4>1
    <3>4. pd.phase + 1 \in Nat /\ (pd.phase + 1) - 1 = pd.phase
      BY <2>1
    <3>5. pd.phase + 1 <= Len(ByPhase(Me.prog)) /\ ByPhase(Me.prog) \in Seq(Calls)
      BY <1>2, <3>3, <3>4, PhasesAre
    <3>6. pd.phase + 1 \in 1 .. Len(ByPhase(Me.prog))
      BY <2>1, <3>5
    <3>7. ByPhase(Me.prog)[pd.phase + 1] = Me.prog.calls[CallOfPhase(Me.prog, pd.phase)]
      BY <1>2, <3>4, <3>6, PhasesAre
    <3>8. CallOfPhase(Me.prog, pd.phase) = pd.k
      <4>1. /\ pd.k \in DOMAIN Me.prog.calls /\ Me.prog.calls[pd.k].phase = pd.phase
            /\ \A j \in 1 .. pd.k - 1 : Me.prog.calls[j].phase # pd.phase
        BY <1>3, <3>1, <3>2 DEF C
      <4>2. \A k \in DOMAIN Me.prog.calls :
               (\A j \in 1 .. k - 1 : Me.prog.calls[j].phase # Me.prog.calls[k].phase) =>
                  CallOfPhase(Me.prog, Me.prog.calls[k].phase) = k
        BY <1>2, PhasesAre
      <4> QED
        BY <4>1, <4>2
    <3>9. ByPhase(Me.prog)[pd.phase + 1] = Call
      BY <1>3, <3>7, <3>8 DEF C
    <3> DEFINE b == ByPhase(Me.prog)
               n == pd.phase
    <3>10. n \in Nat /\ b \in Seq(Calls) /\ n + 1 <= Len(b) /\ b[n + 1] = Call
      BY <2>1, <3>5, <3>9
    <3>11. Append(First(b, n), b[n + 1]) = First(b, n + 1)
      <4> HIDE DEF b, n
      <4> QED
        BY <3>10, FirstCalls
    <3>12. v.done = First(ByPhase(v.prog), q.phase)
      BY <1>7, <2>1, <3>1, <3>10, <3>11
    <3>13. \A r \in 0 .. q.phase - 1 : HasPhase(v.prog, r)
      BY <1>7, <2>1, <3>3, <3>4
    <3> QED
      BY <3>12, <3>13
  <2>6. q.phase # 0
    BY <2>1
  <2> HIDE DEF q
  <2>7. LaterRun(q, v)
    BY <1>10, <2>4, <2>5 DEF LaterRun
  <2>8. ProgressIn(mode, q, v)
    BY <1>2, <1>7, <1>9, <1>12, <2>2, <2>3, <2>6, <2>7 DEF ProgressIn
  <2> QED
    BY <2>8 DEF q, v, u, Progress
<1> QED
  BY <1>1, <1>11, <1>12

\* A call that is done at once, that is only counted, or that is passed over.
LEMMA CallProgress ==
    ASSUME IInv, do_sync_crypto_operation \/ CallForwards \/ CallOfOtherPhase
    PROVE  Progress(pd', packet'[pd'.mbuf])
<1> DEFINE u == packet'[pd.mbuf]
           C == Me.prog.calls
<1>1. /\ u.prog = Me.prog /\ u.from = Me.from /\ u.received = Me.received
      /\ pd'.mbuf = pd.mbuf /\ pd'.ctx = pd.ctx /\ pd'.phase = pd.phase
      /\ pd'.sync = pd.sync /\ pd'.k = pd.k + 1 /\ pc = "handle"
      /\ ~do_sync_crypto_operation => packet' = packet
      /\ do_sync_crypto_operation => u = AfterSync(pd, Me)
  BY CallKeeps
<1>2. AtCall
  BY DEF do_sync_crypto_operation, CallForwards, CallOfOtherPhase
<1>3. /\ Me.prog \in Programs /\ Me.from \in Ports /\ Me \in Packets
      /\ pd.mbuf \in Mbufs /\ C \in Seq(Calls) /\ pd.k \in Nat
  BY <1>1, InHand
<1>4. pd.k \in 1 .. Len(C) /\ pd.k \in DOMAIN C /\ Call = C[pd.k] /\ Call \in Calls
  BY <1>2, TheCall
<1>5. /\ pd'.k \in 1 .. Len(u.prog.calls) + 1 /\ pd'.k - 1 = pd.k /\ pd.k - 1 \in Nat
      /\ (pd.k - 1) + 1 = pd.k /\ pd.k <= Len(C) /\ u.prog.calls = C
      /\ Len(C) \in Nat /\ DOMAIN C = 1 .. Len(C)
  BY <1>1, <1>3, <1>4
<1>6. ProgressIn(mode, pd, Me)
  BY <1>1 DEF IInv, HandlerInv, Me, Progress
<1>7. pd.ctx # None => mode \in {"context", "pd"}
  BY <1>1 DEF IInv, LoopInv
<1>8. Skips(mode, pd') <=> Skips(mode, pd)
  BY <1>1 DEF Skips
<1> HIDE DEF C
<1>9. ~do_sync_crypto_operation => u = Me
  BY <1>1 DEF Me
<1>10. \A j \in 1 .. pd.k : j = pd.k \/ j \in 1 .. pd.k - 1
  BY <1>3
<1>11. CASE do_sync_crypto_operation
  <2>1. IsSync /\ OnItsOwnPacket
    BY <1>11 DEF do_sync_crypto_operation
  <2>2. /\ packet' = [packet EXCEPT ![pd.mbuf] = AfterSync(pd, Me)] /\ AfterSync(pd, Me) \in Packets
        /\ mode = "pd" => AsyncLength(Call.type, Me.len, Call.offset) =
                             SyncLength(Call.type, Me.len, Call.offset) + PTR
    BY <1>11, SyncTypes DEF Me
  <2>3. u = AfterSync(pd, Me) /\ u \in Packets
    BY <1>1, <1>11, <2>2
  <2> HIDE DEF u
  <2>4. /\ u.done = Append(Me.done, Call)
        /\ u.ptrs = IF mode = "pd" THEN <<pd.ctx>> \o Me.ptrs ELSE Me.ptrs
        /\ u.len = IF mode = "pd" THEN AsyncLength(Call.type, Me.len, Call.offset)
                   ELSE SyncLength(Call.type, Me.len, Call.offset)
    BY <1>3, <2>3 DEF AfterSync, Packets
  <2>5. mode = "pd" => Call.sync
    BY <2>1 DEF IsSync
  <2>6. HasLength(mode, u)
    <3>1. SyncLength(Call.type, Me.len, Call.offset) \in Int
      <4>1. Me.len \in Int /\ Call.offset \in Int
        BY <1>2, <1>3, TheCall DEF Packets
      <4> QED
        BY <4>1, SameLength
    <3>2. u.len = SyncLength(Call.type, Me.len, Call.offset) + LeftIn(mode, Call)
      <4>1. CASE mode = "pd"
        BY <2>2, <2>4, <2>5, <4>1 DEF LeftIn
      <4>2. CASE mode # "pd"
        BY <2>4, <3>1, <4>2 DEF LeftIn
      <4> QED
        BY <4>1, <4>2
    <3>3. u.ptrs = Me.ptrs \/ (mode = "pd" /\ Call.sync)
      BY <2>4, <2>5
    <3>4. HasLength(mode, Me)
      BY <1>6 DEF ProgressIn
    <3>5. u.prog = Me.prog /\ u.received = Me.received /\ u.done = Append(Me.done, Call)
      BY <1>1, <2>4 DEF u
    <3> QED
      BY <1>3, <1>4, <2>3, <3>2, <3>3, <3>4, <3>5, LengthNext
  <2>7. ASSUME Skips(mode, pd') PROVE u.done = AtOnce(C)[pd'.k - 1]
    <3>1. Call.sync
      BY <1>8, <2>1, <2>5, <2>7 DEF IsSync, Skips
    <3>2. Me.done = AtOnce(C)[pd.k - 1]
      BY <1>6, <1>8, <2>7 DEF ProgressIn, C
    <3>3. AtOnce(C)[pd.k] = Append(AtOnce(C)[pd.k - 1], Call)
      <4>1. AtOnce(C)[pd.k] = IF C[pd.k].sync THEN Append(AtOnce(C)[pd.k - 1], C[pd.k])
                              ELSE AtOnce(C)[pd.k - 1]
        BY <1>3, <1>4, AtOnceIs DEF C
      <4> QED
        BY <1>4, <3>1, <4>1
    <3> QED
      BY <1>5, <2>4, <3>2, <3>3
  <2>8. First(C, pd.k) = Append(First(C, pd.k - 1), Call)
    <3> DEFINE n == pd.k - 1
    <3>1. n \in Nat /\ n + 1 = pd.k /\ n + 1 <= Len(C)
      BY <1>5
    <3>2. Append(First(C, n), C[n + 1]) = First(C, n + 1)
      <4> HIDE DEF n
      <4> QED
        BY <1>3, <3>1, FirstCalls DEF C
    <3> QED
      BY <1>4, <3>1, <3>2
  <2>9. ASSUME ~Skips(mode, pd'), mode # "pd" PROVE u.done = First(C, pd'.k - 1)
    <3>1. Me.done = First(C, pd.k - 1)
      BY <1>6, <1>8, <2>9 DEF ProgressIn, C
    <3> QED
      BY <1>5, <2>4, <2>8, <3>1
  <2>10. ASSUME ~Skips(mode, pd'), mode = "pd", pd'.phase # 0 PROVE FALSE
    <3>1. caller = "main" /\ pd.ctx # None
      BY <2>1, <2>10 DEF OnItsOwnPacket, MayStray
    <3> QED
      BY <1>1, <2>10, <3>1 DEF IInv, LoopInv
  <2>11. ASSUME ~Skips(mode, pd'), mode = "pd", pd'.phase = 0 PROVE FirstRun(pd', u)
    <3>1. FirstRun(pd, Me)
      BY <1>1, <1>6, <1>8, <2>11 DEF ProgressIn
    <3>2. Call.sync
      BY <2>5, <2>11
    <3>3. \A i \in DOMAIN u.done : u.done[i].sync
      <4> DEFINE d == Me.done
      <4>1. d \in Seq(Calls) /\ u.done = Append(d, Call) /\ \A i \in DOMAIN d : d[i].sync
        BY <1>3, <2>4, <3>1 DEF FirstRun, Packets
      <4> HIDE DEF d
      <4>2. /\ Len(d) \in Nat /\ DOMAIN d = 1 .. Len(d)
            /\ DOMAIN Append(d, Call) = 1 .. Len(d) + 1
            /\ Append(d, Call)[Len(d) + 1] = Call /\ \A i \in 1 .. Len(d) : Append(d, Call)[i] = d[i]
        BY <1>4, <4>1, AppendProperties
      <4>3. \A i \in 1 .. Len(d) + 1 : i = Len(d) + 1 \/ i \in 1 .. Len(d)
        BY <4>2
      <4> QED
        BY <3>2, <4>1, <4>2, <4>3
    <3>4. \A j \in 1 .. pd.k : C[j].sync \/ C[j].phase # 0
      BY <1>4, <1>10, <3>1, <3>2 DEF FirstRun, C
    <3>5. ASSUME \A j \in 1 .. pd.k : C[j].sync PROVE u.done = First(C, pd.k)
      <4>1. \A j \in 1 .. pd.k - 1 : j \in 1 .. pd.k
        BY <1>3
      <4>2. Me.done = First(C, pd.k - 1)
        BY <3>1, <3>5, <4>1 DEF FirstRun, C
      <4> QED
        BY <2>4, <2>8, <4>2
    <3>6. ~\A j \in 1 .. pd.k : ~C[j].sync
      <4>1. pd.k \in 1 .. pd.k
        BY <1>4
      <4> QED
        BY <1>4, <3>2, <4>1
    <3> QED
      BY <1>5, <3>3, <3>4, <3>5, <3>6 DEF FirstRun
  <2>12. ProgressIn(mode, pd', u)
    <3>1. u.prog \in Programs /\ u.from \in Ports
      BY <1>1, <1>3 DEF u
    <3>2. pd'.k \in 1 .. Len(u.prog.calls) + 1 /\ u.prog.calls = C
      BY <1>5 DEF u
    <3> QED
      BY <2>6, <2>7, <2>9, <2>10, <2>11, <3>1, <3>2 DEF ProgressIn
  <2> QED
    BY <1>1, <2>12 DEF u, Progress
<1>12. CASE CallForwards
  <2>1. Skips(mode, pd) /\ ~Call.sync /\ ~do_sync_crypto_operation
    BY <1>12 DEF CallForwards, SkipsAsync, Skips, do_sync_crypto_operation, IsSync
  <2>2. u = Me
    BY <1>9, <2>1
  <2>3. Me.done = AtOnce(C)[pd'.k - 1]
    <3>1. Me.done = AtOnce(C)[pd.k - 1]
      BY <1>6, <2>1 DEF ProgressIn, C
    <3>2. AtOnce(C)[pd.k] = IF C[pd.k].sync THEN Append(AtOnce(C)[pd.k - 1], C[pd.k])
                            ELSE AtOnce(C)[pd.k - 1]
      BY <1>3, <1>4, AtOnceIs DEF C
    <3> QED
      BY <1>4, <1>5, <2>1, <3>1, <3>2
  <2> HIDE DEF u
  <2>4. ProgressIn(mode, pd', u)
    BY <1>3, <1>5, <1>6, <1>8, <2>1, <2>2, <2>3 DEF ProgressIn, C
  <2> QED
    BY <1>1, <2>4 DEF u, Progress
<1>13. CASE CallOfOtherPhase
  <2>1. /\ mode = "pd" /\ pd.ctx # None /\ pd.phase # Call.phase /\ ~Call.sync
        /\ ~do_sync_crypto_operation
    BY <1>13 DEF CallOfOtherPhase, do_sync_crypto_operation, IsSync
  <2>2. u = Me
    BY <1>9, <2>1
  <2> HIDE DEF u
  <2>3. ~Skips(mode, pd)
    BY <2>1 DEF Skips
  <2>4. ASSUME pd'.phase = 0 PROVE FirstRun(pd', u)
    <3>1. FirstRun(pd, Me)
      BY <1>1, <1>6, <2>1, <2>3, <2>4 DEF ProgressIn
    <3>2. \A j \in 1 .. pd.k : C[j].sync \/ C[j].phase # 0
      BY <1>1, <1>4, <1>10, <2>1, <2>4, <3>1 DEF FirstRun, C
    <3>3. ~\A j \in 1 .. pd.k : C[j].sync
      <4>1. pd.k \in 1 .. pd.k
        BY <1>4
      <4> QED
        BY <1>4, <2>1, <4>1
    <3>4. ASSUME \A j \in 1 .. pd.k : ~C[j].sync PROVE u.done = << >>
      <4>1. \A j \in 1 .. pd.k - 1 : j \in 1 .. pd.k
        BY <1>3
      <4> QED
        BY <2>2, <3>1, <3>4, <4>1 DEF FirstRun, C
    <3>5. \A i \in DOMAIN u.done : u.done[i].sync
      BY <2>2, <3>1 DEF FirstRun
    <3>6. u.prog.calls = C /\ pd'.k - 1 = pd.k
      BY <1>5, <2>2 DEF C
    <3> QED
      BY <3>2, <3>3, <3>4, <3>5, <3>6 DEF FirstRun
  <2>5. ASSUME pd'.phase # 0 PROVE LaterRun(pd', u)
    <3>1. LaterRun(pd, Me)
      BY <1>1, <1>6, <2>1, <2>3, <2>5 DEF ProgressIn
    <3>2. \A j \in 1 .. pd.k : ~C[j].sync /\ C[j].phase # pd.phase
      BY <1>4, <1>10, <2>1, <3>1 DEF LaterRun, C
    <3>3. u.prog.calls = C /\ pd'.k - 1 = pd.k
      BY <1>5, <2>2 DEF C
    <3> QED
      BY <1>1, <2>2, <3>1, <3>2, <3>3 DEF LaterRun
  <2>6. ProgressIn(mode, pd', u)
    <3>1. u.prog \in Programs /\ u.from \in Ports /\ HasLength(mode, u)
      BY <1>3, <1>6, <2>2 DEF ProgressIn
    <3>2. pd'.k \in 1 .. Len(u.prog.calls) + 1
      BY <1>5 DEF u
    <3> QED
      BY <1>8, <2>1, <2>3, <2>4, <2>5, <3>1, <3>2 DEF ProgressIn
  <2> QED
    BY <1>1, <2>6 DEF u, Progress
<1> QED
  BY <1>11, <1>12, <1>13

\* A handler starts at its first call, with nothing done.
LEMMA StartProgress == ASSUME IInv, do_single_rx PROVE Progress(pd', packet'[pd'.mbuf])
<1> DEFINE m == Head(burst)
           l == packet[m].len
<1>1. PICK prog \in Programs, ctx \in pool \cup {None} :
         /\ pd' = [mbuf |-> m, ctx |-> ctx, phase |-> 0, k |-> 1, sync |-> every' = 0]
         /\ packet' = [packet EXCEPT ![m] =
                         [NoPacket EXCEPT !.prog = prog, !.from = Head(queue),
                                          !.received = l, !.len = Opened(prog, l)]]
  BY ReceiveTypes
<1>2. m \in Mbufs /\ l \in Int /\ Head(queue) \in Ports /\ packet \in [Mbufs -> Packets]
  BY InBurstHead DEF do_single_rx, IInv, TypeInv
<1> HIDE DEF l
<1> DEFINE u == packet'[m]
           o == Opened(prog, l)
<1>3. o \in Int
  BY <1>2, OpenedIs
<1>4. u = [NoPacket EXCEPT !.prog = prog, !.from = Head(queue), !.received = l, !.len = o]
  BY <1>1, <1>2
<1> HIDE DEF u
<1>5. /\ u.prog = prog /\ u.from = Head(queue) /\ u.received = l /\ u.len = o
      /\ u.done = << >> /\ u.ptrs = << >>
  BY <1>4 DEF NoPacket
<1>6. << >> \in Seq(Calls) /\ Len(<< >>) = 0 /\ DOMAIN << >> = {}
  OBVIOUS
<1>7. HasLength(mode, u)
  <2>1. LengthsIn(mode, << >>, o)[0] = o
    <3> HIDE DEF o
    <3> QED
      BY <1>3, <1>6, LengthsAre
  <2> QED
    BY <1>5, <1>6, <2>1 DEF HasLength
<1>8. pd'.mbuf = m /\ pd'.k = 1 /\ pd'.phase = 0 /\ pd'.k - 1 = 0
  BY <1>1
<1>9. prog.calls \in Seq(Calls)
  BY ProgramsAssumption
<1>10. pd'.k \in 1 .. Len(u.prog.calls) + 1
  BY <1>5, <1>8, <1>9
<1>11. AtOnce(u.prog.calls)[0] = << >> /\ First(u.prog.calls, 0) = << >>
  BY <1>5, <1>9, AtOnceIs, FirstCalls
<1>12. FirstRun(pd', u)
  <2>1. 1 .. pd'.k - 1 = {}
    BY <1>8
  <2> QED
    BY <1>5, <1>6, <1>8, <1>11, <2>1 DEF FirstRun
<1>13. ProgressIn(mode, pd', u)
  BY <1>2, <1>5, <1>7, <1>8, <1>10, <1>11, <1>12 DEF ProgressIn
<1> QED
  BY <1>8, <1>13 DEF u, Progress

\* What is in hand and what is suspended has had its operations.
LEMMA HandlerStep == ASSUME IInv, Step PROVE HandlerInv'
<1>0. \/ tx_burst_queue_drain \/ drain_not_due
      \/ main_loop_rx_group \/ NextGroup \/ PostRx \/ do_single_rx
      \/ async_handle_packet_drops
      \/ do_sync_crypto_operation \/ CallForwards \/ CallOfOtherPhase \/ do_crypto_task
      \/ free_packet \/ dpdk_send_packet \/ broadcast_packet
      \/ enqueue_async_operations \/ dequeue_finished_async_operations
      \/ resume_packet_handling \/ AsyncDone
      \/ DeviceFinishes \/ main_loop_fake_crypto
      \/ UNCHANGED vars
  BY StepCases
<1>1. /\ store \in [Contexts -> Descriptors \cup {None}] /\ packet \in [Mbufs -> Packets]
      /\ caller \in {"main", "async"} /\ after \in {"pre_rx", "single_rx"} /\ mode' = mode
  BY ControlTypes DEF IInv, TypeInv, TypeOK
<1>2. ASSUME pc' = "handle" PROVE Progress(pd', packet'[pd'.mbuf])
  <2>1. CASE do_single_rx
    BY <2>1, StartProgress
  <2>2. CASE do_sync_crypto_operation \/ CallForwards \/ CallOfOtherPhase
    BY <2>2, CallProgress
  <2>3. CASE resume_packet_handling
    <3>1. PICK c \in Suspended :
             /\ store[c] \in Descriptors /\ store[c].mbuf = Head(finished)
             /\ Head(finished) \in Mbufs /\ pd' = Resumed(store[c])
             /\ packet' = [packet EXCEPT ![Head(finished)] = Unwrapped(packet[Head(finished)])]
      BY <2>3, ResumeTypes
    <3>2. pd'.mbuf = Head(finished)
      BY <3>1 DEF Resumed, ResumedIn, Descriptors
    <3>3. packet'[Head(finished)] = Unwrapped(packet[Head(finished)])
      BY <1>1, <3>1
    <3> QED
      BY <3>1, <3>2, <3>3 DEF IInv, HandlerInv
  <2>4. CASE ~(\/ do_single_rx \/ resume_packet_handling \/ do_sync_crypto_operation
               \/ CallForwards \/ CallOfOtherPhase)
    <3>1. pc = "handle" /\ pd' = pd /\ packet' = packet
      BY <1>0, <1>1, <1>2, <2>4 DEF tx_burst_queue_drain, drain_not_due, main_loop_rx_group,
         NextGroup, PostRx, async_handle_packet_drops, do_crypto_task, free_packet,
         dpdk_send_packet, broadcast_packet, PostSingleTx, Return, enqueue_async_operations,
         dequeue_finished_async_operations, AsyncDone, DeviceFinishes,
         main_loop_fake_crypto, vars
    <3> QED
      BY <3>1 DEF IInv, HandlerInv
  <2> QED
    BY <2>1, <2>2, <2>3, <2>4
<1>3. ASSUME NEW c \in Suspended'
      PROVE  /\ mode \in {"context", "pd"}
             /\ Progress(Resumed(store'[c]), Unwrapped(packet'[store'[c].mbuf]))
  <2>1. \A d \in Suspended : /\ mode \in {"context", "pd"} /\ store[d].mbuf \in InCrypto
                             /\ Progress(Resumed(store[d]), Unwrapped(packet[store[d].mbuf]))
    BY DEF IInv, HandlerInv, LinkInv
  <2>2. ASSUME c \in Suspended, store'[c] = store[c], packet'[store[c].mbuf] = packet[store[c].mbuf]
        PROVE  /\ mode \in {"context", "pd"}
               /\ Progress(Resumed(store'[c]), Unwrapped(packet'[store'[c].mbuf]))
    BY <2>1, <2>2
  <2>3. CASE do_crypto_task
    <3>1. /\ Suspended' = Suspended \cup {pd.ctx} /\ pd.ctx \in Contexts
          /\ store' = [store EXCEPT ![pd.ctx] = pd] /\ pd.ctx \notin Suspended
          /\ pc = "handle" /\ mode \in {"context", "pd"}
      BY <2>3, SuspendedNext, TaskTypes, CtxApart DEF do_crypto_task, AtCall
    <3>2. CASE c = pd.ctx
      <4>1. store'[c] = pd
        BY <1>1, <3>1, <3>2
      <4> QED
        BY <2>3, <3>1, <4>1, TaskProgress
    <3>3. CASE c \in Suspended
      <4>1. store'[c] = store[c]
        BY <1>1, <3>1, <3>3
      <4>2. ~resume_packet_handling
        BY <3>1 DEF resume_packet_handling
      <4>3. packet'[store[c].mbuf] = packet[store[c].mbuf]
        BY <2>1, <3>3, <4>2, CryptoKeeps
      <4> QED
        BY <2>2, <3>3, <4>1, <4>3
    <3> QED
      BY <3>1, <3>2, <3>3
  <2>4. CASE resume_packet_handling
    <3> DEFINE h == Head(finished)
    <3>1. PICK d \in Suspended :
             /\ Head(packet[h].ptrs) = d /\ store' = [store EXCEPT ![d] = None]
      BY <2>4, ResumeTypes
    <3>2. Head(packet[h].ptrs) = d
      BY <3>1
    <3>3. Suspended' = Suspended \ {d}
      BY <2>4, <3>2, SuspendedNext
    <3>4. c \in Suspended /\ c # d
      BY <3>3
    <3>5. store'[c] = store[c]
      BY <1>1, <3>1, <3>4 DEF Suspended
    <3>6. Head(packet[store[c].mbuf].ptrs) = c
      BY <3>4 DEF IInv, LinkInv, Points
    <3>7. store[c].mbuf # h
      BY <3>1, <3>4, <3>6
    <3>8. packet'[store[c].mbuf] = packet[store[c].mbuf]
      BY <2>1, <3>4, <3>7, CryptoKeeps
    <3> QED
      BY <2>2, <3>4, <3>5, <3>8
  <2>5. CASE ~do_crypto_task /\ ~resume_packet_handling
    <3>1. store' = store /\ c \in Suspended
      BY <2>5, SuspendedNext
    <3>2. packet'[store[c].mbuf] = packet[store[c].mbuf]
      BY <2>1, <2>5, <3>1, CryptoKeeps
    <3> QED
      BY <2>2, <3>1, <3>2
  <2> QED
    BY <2>3, <2>4, <2>5
<1>4. (pc = "handle" => Progress(pd, packet[pd.mbuf]))'
  BY <1>1, <1>2, Zenon DEF Progress
<1>5. ASSUME NEW c \in Suspended'
      PROVE  (/\ mode \in {"context", "pd"}
              /\ Progress(Resumed(store[c]), Unwrapped(packet[store[c].mbuf])))'
  BY <1>1, <1>3, Zenon DEF Progress, Resumed
<1> QED
  BY <1>4, <1>5 DEF HandlerInv

-----------------------------------------------------------------------------
\* The invariant holds from the start, and for ever.

\* It holds when the lcore starts: every buffer and every context is in its pool.
LEMMA PathInit == Init => IInv
<1> SUFFICES ASSUME Init PROVE IInv
  OBVIOUS
<1>1. /\ pc = "pre_rx" /\ queue = << >> /\ caller = "main" /\ after = "pre_rx" /\ pd = NoPd
      /\ mode \in Modes /\ node \in BOOLEAN
      /\ meta = [in |-> 0, out |-> 0] /\ packet = [m \in Mbufs |-> NoPacket]
      /\ burst = << >> /\ txq = [p \in Ports |-> << >>] /\ free = Mbufs /\ lost = {}
      /\ asyncq = << >> /\ dev = << >> /\ ready = 0 /\ pending = 0
      /\ finished = << >> /\ taken = 0
      /\ pool = Contexts /\ freeRing = << >> /\ store = [c \in Contexts |-> None]
  BY DEF Init, init_lcore_data, init_async_data, async_init_storage
<1>2. every \in 0 .. EVERY_N - 1
  BY PathAssumption DEF Init, init_async_data
<1>3. InTxq = {} /\ Suspended = {} /\ InCrypto = {}
  BY <1>1, NoSeq DEF InTxq, Suspended, InCrypto
<1>4. \A p \in Ports : Len(txq[p]) < MAX_PKT_BURST
  <2>1. \A p \in Ports : Len(txq[p]) = 0
    BY <1>1
  <2> QED
    BY <2>1, PathAssumption
<1>5. TypeOK
  <2>1. ready \in 0 .. Len(dev) /\ pending \in Nat
    BY <1>1
  <2>2. pd.mbuf = None /\ pd.ctx = None
    BY <1>1 DEF NoPd
  <2> QED
    BY <1>1, <1>2, <1>4, <2>1, <2>2 DEF TypeOK
<1>6. TypeInv
  <2>1. << >> \in Seq(Contexts) /\ << >> \in Seq(Calls) /\ << >> \in Seq(Mbufs)
        /\ << >> \in Seq(Ports)
    OBVIOUS
  <2>2. NoPacket \in Packets
    BY <2>1 DEF NoPacket, Packets
  <2>3. meta \in [in : Ports, out : Ports]
    BY <1>1, PathAssumption
  <2>4. packet \in [Mbufs -> Packets] /\ txq \in [Ports -> Seq(Mbufs)]
    BY <1>1, <2>1, <2>2
  <2>5. store \in [Contexts -> Descriptors \cup {None}]
    BY <1>1
  <2> QED
    BY <1>1, <1>5, <2>1, <2>3, <2>4, <2>5 DEF TypeInv
<1>7. LoopInv
  <2>1. pending = Len(dev) + taken
    BY <1>1
  <2> QED
    BY <1>1, <2>1 DEF LoopInv, InBurst
<1>8. MbufInv
  <2>1. ASSUME NEW m \in Mbufs PROVE InOne(m, Where)
    <3>1. /\ m \in Where[1] /\ m \notin Where[2] /\ m \notin Where[3] /\ m \notin Where[4]
          /\ m \notin Where[5] /\ m \notin Where[6] /\ m \notin Where[7] /\ m \notin Where[8]
      BY <1>1, <1>3, NoSeq, WhereIs
    <3>2. \A j \in DOMAIN Where : m \in Where[j] => j = 1
      BY <1>1, <3>1, WhereIs
    <3> QED
      BY <1>1, <3>1, <3>2, WhereIs DEF InOne
  <2>2. \A p \in Ports : txq[p] = << >>
    BY <1>1
  <2> QED
    BY <1>1, <2>1, <2>2, NoSeq DEF MbufInv
<1>9. CtxInv
  <2>1. ASSUME NEW c \in Contexts PROVE InOne(c, CtxWhere)
    <3>1. c \in CtxWhere[1] /\ c \notin CtxWhere[2] /\ c \notin CtxWhere[3] /\ c \notin CtxWhere[4]
      BY <1>1, <1>3, NoSeq, CtxWhereIs
    <3>2. \A j \in DOMAIN CtxWhere : c \in CtxWhere[j] => j = 1
      BY <1>1, <3>1, CtxWhereIs
    <3> QED
      BY <1>1, <3>1, <3>2, CtxWhereIs DEF InOne
  <2> QED
    BY <1>1, <2>1, NoSeq DEF CtxInv
<1>10. LinkInv /\ BurstInv /\ HandlerInv /\ MetaInv
  BY <1>1, <1>3, NoSeq DEF LinkInv, BurstInv, HandlerInv, MetaInv
<1> QED
  BY <1>6, <1>7, <1>8, <1>9, <1>10 DEF IInv

\* A step that strays changes where the lcore is, and a strayed lcore stays where it is;
\* the device goes on.
LEMMA StrayStep == ASSUME IInv, [Next]_vars, ~Step PROVE IInv'
<1>1. SyncStrays \/ pc = "strayed"
  BY DEF Step
<1>2. /\ pc \in {"handle", "strayed"} /\ pc' = "strayed"
      /\ UNCHANGED <<loop, queue, burst, pd, meta, caller, after, nic, ctxs, asyncq, dev,
                     pending, finished, taken, packet>>
      /\ ready' \in 0 .. Len(dev)
  <2>0. ready \in 0 .. Len(dev) /\ dev \in Seq(Mbufs)
    BY DEF IInv, TypeInv, TypeOK
  <2>1. CASE SyncStrays
    BY <2>0, <2>1 DEF SyncStrays, AtCall, tasks
  <2>2. CASE pc = "strayed"
    <3>1. DeviceFinishes \/ main_loop_fake_crypto \/ UNCHANGED vars
      BY <2>2 DEF Next, Strayed, Lcore, Device, do_rx, handle_packet, do_single_tx,
         main_loop_async, tx_burst_queue_drain, drain_not_due, main_loop_rx_group, NextGroup,
         PostRx, do_single_rx, async_handle_packet_drops, do_sync_crypto_operation, SyncStrays,
         CallForwards, CallOfOtherPhase, AtCall, do_crypto_task, free_packet, dpdk_send_packet,
         broadcast_packet, Ended, enqueue_async_operations, dequeue_finished_async_operations,
         resume_packet_handling, AsyncDone
    <3>2. CASE DeviceFinishes
      BY <2>0, <2>2, <3>2 DEF DeviceFinishes
    <3>3. CASE main_loop_fake_crypto
      <4>1. CRYPTO_BURST_SIZE \in Nat
        BY PathAssumption
      <4> QED
        BY <2>0, <2>2, <3>3, <4>1 DEF main_loop_fake_crypto
    <3>4. CASE UNCHANGED vars
      BY <2>0, <2>2, <3>4 DEF vars, tasks
    <3> QED
      BY <3>1, <3>2, <3>3, <3>4
  <2> QED
    BY <1>1, <2>1, <2>2
<1>3. TypeInv'
  BY <1>2 DEF IInv, TypeInv, TypeOK, loop, nic, ctxs
<1>4. LoopInv'
  BY <1>2 DEF IInv, LoopInv, InBurst, loop
<1>5. Where' = Where /\ CtxWhere' = CtxWhere /\ Suspended' = Suspended /\ InCrypto' = InCrypto
  BY <1>2 DEF Where, CtxWhere, Suspended, InCrypto, InTxq, nic, ctxs
<1>6. MbufInv' /\ CtxInv'
  BY <1>2, <1>5 DEF IInv, MbufInv, CtxInv, nic, ctxs
<1>7. LinkInv' /\ BurstInv'
  BY <1>2, <1>5 DEF IInv, LinkInv, BurstInv, ctxs
<1>8. HandlerInv' /\ MetaInv'
  BY <1>2, <1>5, Zenon DEF IInv, HandlerInv, MetaInv, Progress, Resumed, loop, ctxs
<1> QED
  BY <1>3, <1>4, <1>6, <1>7, <1>8 DEF IInv

\* The inductive invariant of the lcore and of the packets that are suspended: types,
\* places, descriptors, metadata and the progress of every handler (main.c,
\* main_async.c, dpdkx_crypto_ops.c).
THEOREM PathInductive == Spec => []IInv
<1>1. IInv /\ [Next]_vars => IInv'
  <2> SUFFICES ASSUME IInv, [Next]_vars PROVE IInv'
    OBVIOUS
  <2>1. CASE Step
    BY <2>1, TypeStep, LoopStep, MbufStep, CtxStep, LinkStep, BurstStep, HandlerStep, MetaStep
       DEF IInv
  <2>2. CASE ~Step
    BY <2>2, StrayStep
  <2> QED
    BY <2>1, <2>2
<1> QED
  BY PathInit, <1>1, PTL DEF Spec

-----------------------------------------------------------------------------
\* What follows for the properties of the runs.

\* Every packet buffer is in exactly one place (send_burst, free_packet,
\* enqueue_packet_for_async): nothing is freed twice, and nothing is sent while the
\* device works on it.
THEOREM MbufsAreNeverShared == Spec => []MbufsAccounted
<1>1. ASSUME IInv PROVE MbufsAccounted
  <2>1. \A m \in Mbufs : Places(m, Where) = 1
    BY <1>1, OnePlace DEF IInv, MbufInv
  <2> QED
    BY <1>1, <2>1 DEF MbufsAccounted, Where, IInv, TypeInv
<1> QED
  BY <1>1, PathInductive, PTL

\* Every context is free, in the ring, suspended or running (async_handle_packet_inner,
\* main_loop_post_single_tx_async, free_finished_contexts): no two packets share a stack.
THEOREM ContextsAreNeverShared == Spec => []ContextsAccounted
<1>1. ASSUME IInv PROVE ContextsAccounted
  <2>1. \A c \in Contexts : Places(c, CtxWhere) = 1
    BY <1>1, OnePlace DEF IInv, CtxInv
  <2> QED
    BY <2>1 DEF ContextsAccounted, CtxWhere
<1> QED
  BY <1>1, PathInductive, PTL

\* A suspended handler goes on with its own packet, and left for the loop that called it
\* (create_crypto_task, jump_to_main_loop, resume_packet_handling).
THEOREM HandlersResumeThemselves == Spec => []ResumesItself
<1>1. ASSUME IInv PROVE ResumesItself
  <2>1. /\ \A c \in Suspended : /\ store[c].mbuf \in InCrypto
                                /\ Points(packet[store[c].mbuf], c)
        /\ \A m \in InCrypto : \E c \in Suspended : store[c].mbuf = m
    BY <1>1 DEF IInv, LinkInv
  <2>2. ASSUME NEW m \in InCrypto
        PROVE  /\ packet[m].ptrs # << >> /\ store[Head(packet[m].ptrs)] # None
               /\ store[Head(packet[m].ptrs)].mbuf = m
    <3>1. PICK c \in Suspended : store[c].mbuf = m
      BY <2>1
    <3>2. packet[m].ptrs # << >> /\ Head(packet[m].ptrs) = c
      BY <2>1, <3>1 DEF Points
    <3> QED
      BY <3>1, <3>2 DEF Suspended
  <2>3. Cardinality(Suspended) = Cardinality(InCrypto)
    <3> DEFINE f == [c \in Suspended |-> store[c].mbuf]
    <3>1. f \in [Suspended -> InCrypto]
      BY <2>1
    <3>2. ASSUME NEW c \in Suspended, NEW d \in Suspended, f[c] = f[d] PROVE c = d
      <4>1. Points(packet[store[c].mbuf], c) /\ Points(packet[store[c].mbuf], d)
        BY <2>1, <3>2
      <4> QED
        BY <4>1 DEF Points
    <3>3. \A m \in InCrypto : \E c \in Suspended : f[c] = m
      BY <2>1
    <3>4. f \in Bijection(Suspended, InCrypto)
      <4> HIDE DEF f
      <4> QED
        BY <3>1, <3>2, <3>3 DEF Bijection, Injection, Surjection, IsInjective
    <3>5. IsFiniteSet(Suspended)
      BY SeqTypes, FS_Subset, PathAssumption, <1>1
    <3> HIDE DEF f
    <3> QED
      BY <3>4, <3>5, FS_Bijection DEF ExistsBijection
  <2>4. JumpsToItsCaller
    <3>1. caller \in {"main", "async"}
      BY <1>1 DEF IInv, TypeInv, TypeOK
    <3> QED
      BY <1>1, <3>1 DEF JumpsToItsCaller, AtCall, jump_to_main_loop, IInv, LoopInv
  <2> QED
    BY <2>2, <2>3, <2>4 DEF ResumesItself, InCrypto
<1> QED
  BY <1>1, PathInductive, PTL

\* What a handler with a descriptor store has done when it ends: everything, if its
\* program follows the phases, and only then.
LEMMA PhasesDone ==
    ASSUME IInv, Ended, mode = "pd", ~Skips(mode, pd)
    PROVE  Me.done = Me.prog.calls <=> InPhases(Me.prog.calls)
<1> DEFINE C == Me.prog.calls
           n == Len(C)
           b == ByPhase(Me.prog)
<1>1. pc = "handle" /\ pd.k > n
  BY DEF Ended
<1>2. /\ Me.prog \in Programs /\ Me \in Packets /\ pd.phase \in Nat
      /\ C \in Seq(Calls) /\ pd.k \in 1 .. n + 1
  BY <1>1, InHand
<1>3. n \in Nat /\ DOMAIN C = 1 .. n /\ pd.k - 1 = n /\ \A j \in 1 .. n : C[j].phase \in Nat
  <2>1. n \in Nat /\ DOMAIN C = 1 .. n
    BY <1>2
  <2>2. \A j \in 1 .. n : C[j] \in Calls
    BY <1>2
  <2>3. \A c \in Calls : c.phase \in Nat
    BY DEF Calls
  <2> HIDE DEF n, C
  <2> QED
    BY <1>1, <1>2, <2>1, <2>2, <2>3
<1>4. ProgressIn(mode, pd, Me)
  BY <1>1 DEF IInv, HandlerInv, Me, Progress
<1>5. InPhases(C) <=> \/ \A j \in 1 .. n : ~C[j].sync /\ C[j].phase = j - 1
                      \/ \A j \in 1 .. n : C[j].sync
  BY <1>3 DEF InPhases
<1>6. CASE pd.phase = 0
  <2>1. FirstRun(pd, Me)
    BY <1>4, <1>6 DEF ProgressIn
  <2>2. ASSUME Me.done = C PROVE \A j \in 1 .. n : C[j].sync
    BY <1>3, <2>1, <2>2 DEF FirstRun
  <2>3. ASSUME \A j \in 1 .. n : C[j].sync PROVE Me.done = C
    <3>1. Me.done = First(C, n)
      BY <1>3, <2>1, <2>3 DEF FirstRun
    <3> QED
      BY <1>2, <3>1, FirstCalls
  <2>4. ASSUME \A j \in 1 .. n : ~C[j].sync /\ C[j].phase = j - 1 PROVE n = 0
    <3> SUFFICES ASSUME n # 0 PROVE FALSE
      OBVIOUS
    <3>1. 1 \in 1 .. n /\ 1 - 1 = 0
      BY <1>3
    <3>2. \A j \in 1 .. n : C[j].sync \/ C[j].phase # 0
      BY <1>3, <2>1 DEF FirstRun
    <3> HIDE DEF C, n
    <3> QED
      BY <2>4, <3>1, <3>2
  <2>5. n = 0 => \A j \in 1 .. n : C[j].sync
    <3> HIDE DEF C, n
    <3> QED
      BY <1>3
  <2> QED
    BY <1>5, <2>2, <2>3, <2>4, <2>5
<1>7. CASE pd.phase # 0
  <2>1. LaterRun(pd, Me)
    BY <1>4, <1>7 DEF ProgressIn
  <2>2. AllAsync(C) /\ \A j \in 1 .. n : ~C[j].sync /\ C[j].phase # pd.phase
    BY <1>3, <2>1 DEF LaterRun, AllAsync
  <2>3. Me.done = First(b, pd.phase) /\ \A q \in 0 .. pd.phase - 1 : HasPhase(Me.prog, q)
    BY <2>1, <2>2 DEF LaterRun
  <2>4. ~HasPhase(Me.prog, pd.phase)
    BY <1>3, <2>2 DEF HasPhase
  <2>5. Len(b) = pd.phase /\ b \in Seq(Calls)
    BY <1>2, <2>3, <2>4, PhasesAre
  <2>6. Me.done = b
    <3> HIDE DEF b
    <3> QED
      BY <2>3, <2>5, FirstCalls
  <2>7. n # 0
    <3>1. 0 \in 0 .. pd.phase - 1
      BY <1>2, <1>7
    <3>2. PICK k \in DOMAIN C : C[k].phase = 0
      BY <2>3, <3>1 DEF HasPhase
    <3> HIDE DEF C, n
    <3> QED
      BY <1>3, <3>2
  <2>8. ASSUME b = C PROVE \A j \in 1 .. n : ~C[j].sync /\ C[j].phase = j - 1
    <3>1. \A i \in 1 .. Len(b) : b[i].phase = i - 1
      BY <1>2, PhasesAre
    <3> HIDE DEF b, C
    <3> QED
      BY <2>2, <2>8, <3>1
  <2>9. ASSUME \A j \in 1 .. n : C[j].phase = j - 1 PROVE b = C
    <3>1. \A q \in 0 .. n - 1 : HasPhase(Me.prog, q)
      <4> SUFFICES ASSUME NEW q \in 0 .. n - 1 PROVE HasPhase(Me.prog, q)
        OBVIOUS
      <4>1. q + 1 \in 1 .. n /\ (q + 1) - 1 = q
        BY <1>3
      <4> HIDE DEF n
      <4>2. q + 1 \in DOMAIN C /\ C[q + 1].phase = q
        BY <1>3, <2>9, <4>1
      <4> QED
        BY <4>2 DEF HasPhase
    <3>2. ~HasPhase(Me.prog, n)
      <4>1. \A j \in 1 .. n : C[j].phase # n
        <5> HIDE DEF C, n
        <5>1. \A j \in 1 .. n : j - 1 # n
          BY <1>3
        <5> QED
          BY <2>9, <5>1
      <4> QED
        BY <1>3, <4>1 DEF HasPhase
    <3>3. Len(b) = n
      BY <1>2, <1>3, <3>1, <3>2, PhasesAre
    <3>4. ASSUME NEW i \in 1 .. n PROVE b[i] = C[i]
      <4>1. C[i].phase = i - 1 /\ \A j \in 1 .. i - 1 : C[j].phase # C[i].phase
        <5>1. \A j \in 1 .. i - 1 : j \in 1 .. n /\ j - 1 # i - 1
          BY <1>3
        <5> HIDE DEF C, n
        <5> QED
          BY <2>9, <5>1
      <4>2. i \in DOMAIN Me.prog.calls
        BY <1>3
      <4>3. CallOfPhase(Me.prog, C[i].phase) = i
        BY <1>2, <4>1, <4>2, PhasesAre
      <4>4. b[i] = Me.prog.calls[CallOfPhase(Me.prog, i - 1)]
        BY <1>2, <3>3, PhasesAre
      <4> QED
        BY <4>1, <4>3, <4>4
    <3> HIDE DEF b, C
    <3> QED
      BY <1>2, <2>5, <3>3, <3>4, SeqEqual DEF n
  <2>10. ~\A j \in 1 .. n : C[j].sync
    <3>1. 1 \in 1 .. n
      BY <1>3, <2>7
    <3> QED
      BY <2>2, <3>1
  <2> HIDE DEF b, C, n
  <2>11. b = C <=> \/ \A j \in 1 .. n : ~C[j].sync /\ C[j].phase = j - 1
                   \/ \A j \in 1 .. n : C[j].sync
    BY <2>2, <2>8, <2>9, <2>10
  <2> QED
    BY <1>5, <2>6, <2>11 DEF C
<1> QED
  BY <1>6, <1>7

\* What a packet has had when its handler ends: every crypto operation once and in order,
\* where the asynchronous ones are only counted every synchronous one; with descriptor
\* stores this is so of the programs that follow the phases, and of no others
\* (do_async_crypto_operation, do_crypto_task, resume_packet_handling).
THEOREM OperationsAreDoneOnce == Spec => []CryptoOnceInOrder
<1>1. ASSUME IInv PROVE CryptoOnceInOrder
  <2> SUFFICES ASSUME Ended
               PROVE  IF SkipsAsync(pd) THEN Me.done = AtOnce(Me.prog.calls)[Len(Me.prog.calls)]
                      ELSE IF mode = "pd" THEN Me.done = Me.prog.calls <=> InPhases(Me.prog.calls)
                      ELSE Me.done = Me.prog.calls
    BY DEF CryptoOnceInOrder
  <2> DEFINE C == Me.prog.calls
             n == Len(C)
  <2>1. pc = "handle" /\ pd.k > n
    BY DEF Ended
  <2>2. C \in Seq(Calls) /\ pd.k \in 1 .. n + 1
    BY <1>1, <2>1, InHand
  <2>3. pd.k - 1 = n
    <3>1. n \in Nat
      BY <2>2
    <3> HIDE DEF n
    <3> QED
      BY <2>1, <2>2, <3>1
  <2>4. ProgressIn(mode, pd, Me)
    BY <1>1, <2>1 DEF IInv, HandlerInv, Me, Progress
  <2>5. SkipsAsync(pd) <=> Skips(mode, pd)
    BY DEF SkipsAsync, Skips
  <2>6. CASE Skips(mode, pd)
    <3>1. Me.done = AtOnce(C)[n]
      BY <2>3, <2>4, <2>6 DEF ProgressIn
    <3> QED
      BY <2>5, <2>6, <3>1
  <2>7. CASE ~Skips(mode, pd) /\ mode # "pd"
    <3>1. Me.done = First(C, n)
      BY <2>3, <2>4, <2>7 DEF ProgressIn
    <3>2. Me.done = C
      BY <2>2, <3>1, FirstCalls
    <3> QED
      BY <2>5, <2>7, <3>2
  <2>8. CASE ~Skips(mode, pd) /\ mode = "pd"
    BY <1>1, <2>5, <2>8, PhasesDone
  <2> QED
    BY <2>6, <2>7, <2>8
<1> QED
  BY <1>1, PathInductive, PTL

\* What a tunnel makes of a packet: what is encrypted needs no padding any more.
LEMMA TunnelLength ==
    ASSUME NEW m, NEW prog \in Programs, prog.ipsec, NEW len \in Int
    PROVE  IpsecClosed(LengthsIn(m, IpsecCalls, Opened(prog, len))[2])
              = ETH + IP + ESPHEAD + ToEncrypt(len) + KEPT
<1> DEFINE o == Opened(prog, len)
           l == LengthsIn(m, IpsecCalls, o)
           t == ToEncrypt(len)
<1>1. o \in Int
  BY OpenedIs
<1>2. IpsecCalls \in Seq(Calls) /\ Len(IpsecCalls) = 2
  BY DEF IpsecCalls, Calls, ETH, IP, ESPHEAD
<1>3. l[0] = o /\ l[1] \in Int
      /\ l[1] = SyncLength(IpsecCalls[1].type, l[0], IpsecCalls[1].offset)
      /\ l[2] = SyncLength(IpsecCalls[2].type, l[1], IpsecCalls[2].offset)
  <2> HIDE DEF o, l
  <2> DEFINE n == Len(IpsecCalls)
  <2>0. /\ LengthsIn(m, IpsecCalls, o)[0] = o
        /\ \A i \in 1 .. n : LengthsIn(m, IpsecCalls, o)[i] =
                                SyncLength(IpsecCalls[i].type, LengthsIn(m, IpsecCalls, o)[i - 1],
                                           IpsecCalls[i].offset) + LeftIn(m, IpsecCalls[i])
        /\ \A i \in 0 .. n : LengthsIn(m, IpsecCalls, o)[i] \in Int
    BY <1>1, <1>2, LengthsAre
  <2>3. /\ LengthsIn(m, IpsecCalls, o)[0] = o
        /\ \A i \in 1 .. n : LengthsIn(m, IpsecCalls, o)[i] =
                                SyncLength(IpsecCalls[i].type, LengthsIn(m, IpsecCalls, o)[i - 1],
                                           IpsecCalls[i].offset)
        /\ \A i \in 0 .. n : LengthsIn(m, IpsecCalls, o)[i] \in Int
    <3>1. \A i \in 1 .. n : LeftIn(m, IpsecCalls[i]) = 0 /\ IpsecCalls[i].offset \in Int
                           /\ i - 1 \in 0 .. n
      BY <1>2 DEF IpsecCalls, LeftIn, ETH, IP, ESPHEAD
    <3>2. \A i \in 1 .. n :
             SyncLength(IpsecCalls[i].type, LengthsIn(m, IpsecCalls, o)[i - 1],
                        IpsecCalls[i].offset) \in Int
      BY <2>0, <3>1, SameLength
    <3> HIDE DEF n
    <3> QED
      BY <2>0, <3>1, <3>2
  <2>1. /\ l[0] = o
        /\ \A i \in 1 .. 2 : l[i] = SyncLength(IpsecCalls[i].type, l[i - 1], IpsecCalls[i].offset)
        /\ \A i \in 0 .. 2 : l[i] \in Int
    BY <1>2, <2>3 DEF l
  <2>2. 1 \in 1 .. 2 /\ 2 \in 1 .. 2 /\ 1 \in 0 .. 2 /\ 1 - 1 = 0 /\ 2 - 1 = 1
    OBVIOUS
  <2> QED
    BY <2>1, <2>2
<1>4. t \in Int /\ t % BLOCK = 0
  <2> DEFINE x == (len - ETH) + 2
  <2>1. x \in Int /\ t = x + Padding(x)
    BY PaddingFills DEF ToEncrypt, ETH
  <2> QED
    BY <2>1, PaddingFills
<1>5. o = t + 58
  BY <1>4 DEF Opened, IpsecOpened, ESPHEAD, ETH, IP
<1> HIDE DEF l, o, t
<1>6. l[1] = o
  <2>1. IpsecCalls[1].type = "ENCRYPT" /\ IpsecCalls[1].offset = 58
    BY DEF IpsecCalls, ETH, IP, ESPHEAD
  <2>2. o - 58 = t /\ Padding(t) = 0
    BY <1>4, <1>5, PaddingFills
  <2>3. SyncLength("ENCRYPT", o, 58) = o
    BY <1>1, <2>2 DEF SyncLength, create_crypto_task, crypto_task_to_rte_crypto_op,
                      process_crypto_op_result
  <2> QED
    BY <1>3, <2>1, <2>3
<1>7. l[2] = o + 16
  <2>1. IpsecCalls[2].type = "MD5_HMAC"
    BY DEF IpsecCalls
  <2>2. SyncLength("MD5_HMAC", o, IpsecCalls[2].offset) = o + 16
    BY <1>1 DEF SyncLength, create_crypto_task, crypto_task_to_rte_crypto_op,
                process_crypto_op_result, DIGEST
  <2> QED
    BY <1>3, <1>6, <2>1, <2>2
<1> QED
  BY <1>1, <1>4, <1>5, <1>7 DEF IpsecClosed, DIGEST, KEPT, ETH, IP, ESPHEAD, l, o, t

\* However often its handler was suspended, a packet ends as long as if the operations it
\* had had had been done at once, without a pointer in front but for one that a
\* synchronous operation with a store left there (create_crypto_task,
\* resume_packet_handling, ipsec_encapsulate).
THEOREM LengthsAreTheSame == Spec => []LengthAsIfSync
<1>1. ASSUME IInv PROVE LengthAsIfSync
  <2> SUFFICES ASSUME Ended
               PROVE  /\ Me.len = SyncLengths(Me.done, Opened(Me.prog, Me.received))[Len(Me.done)]
                      /\ Me.ptrs # << >> => mode = "pd" /\ \E i \in DOMAIN Me.done : Me.done[i].sync
                      /\ Me.prog.ipsec /\ Me.done = IpsecCalls =>
                            IpsecClosed(Me.len) = ETH + IP + ESPHEAD + ToEncrypt(Me.received) + KEPT
    BY DEF LengthAsIfSync
  <2>1. pc = "handle"
    BY DEF Ended
  <2>2. Me.prog \in Programs /\ Me \in Packets
    BY <1>1, <2>1, InHand
  <2>3. HasLength(mode, Me)
    BY <1>1, <2>1 DEF IInv, HandlerInv, Me, Progress, ProgressIn
  <2>4. \A calls, r : SyncLengths(calls, r) = LengthsIn(mode, calls, r)
    BY DEF SyncLengths, LengthsIn, Left, LeftIn
  <2>5. Me.len = LengthsIn(mode, Me.done, Opened(Me.prog, Me.received))[Len(Me.done)]
    BY <2>3 DEF HasLength
  <2>6. ASSUME Me.prog.ipsec, Me.done = IpsecCalls
        PROVE  IpsecClosed(Me.len) = ETH + IP + ESPHEAD + ToEncrypt(Me.received) + KEPT
    <3>1. Me.received \in Int /\ Len(IpsecCalls) = 2
      BY <2>2 DEF Packets, IpsecCalls
    <3>2. Me.len = LengthsIn(mode, IpsecCalls, Opened(Me.prog, Me.received))[2]
      BY <2>5, <2>6, <3>1
    <3> QED
      BY <2>2, <2>6, <3>1, <3>2, TunnelLength
  <2> QED
    BY <2>3, <2>4, <2>5, <2>6 DEF HasLength
<1> QED
  BY <1>1, PathInductive, PTL

\* A packet that goes back is sent where it came from, unless its handler runs in a
\* context (get_egress_port, init_metadata_header, copy_packet_descriptor).
THEOREM PacketsGoBack == Spec => []SentWhereItCameFrom
<1>1. ASSUME IInv PROVE SentWhereItCameFrom
  BY <1>1 DEF SentWhereItCameFrom, Ended, get_egress_port, IInv, MetaInv, Me
<1> QED
  BY <1>1, PathInductive, PTL

=============================================================================
