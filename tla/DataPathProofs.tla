---------------------------- MODULE DataPathProofs ----------------------------
(***************************************************************************)
(* Proofs about the tables of the switch, for any controllers and          *)
(* configurations, any programs of exact and LPM tables, and any numbers   *)
(* of test cases and digests.                                              *)
(*                                                                         *)
(* First, that the tables have what was added to them (IInv, to theorem    *)
(* LookupsAreRight).  Then, that what was added is what the controller was *)
(* configured with: what each message orders, what each controller sends,  *)
(* the invariant FoundInv and its steps, and the lookups that follow.      *)
(***************************************************************************)
EXTENDS DataPath, TLAPS, FiniteSetTheorems, SequenceTheorems, WellFoundedInduction

\* The notes A of the entries added to a table, and their keys with depths.
Of(name, A) == {i \in DOMAIN A : A[i].table = name}
Pairs(name, A) == {<<A[i].key, A[i].depth>> : i \in Of(name, A)}
FitsIn(t, name, A) == Cardinality(Pairs(name, A)) <= Min({t.max_size, HASH_ENTRIES})

\* The notes of a key, and those a rule of rte_lpm stands for.
SameKey(key, name, A) == {i \in Of(name, A) : A[i].key = key}
SameRule(r, t, name, A, big) ==
  {i \in Of(name, A) : /\ A[i].depth = r.depth
                       /\ SamePrefix(LpmKey(t, A[i].key, big), r.key, r.depth)}
Newest(i, S) == i \in S /\ \A j \in S : j <= i

\* The hash has every key that was added once, and the content of its position
\* is what was added last for it.
ExactHolds(t, name, A) ==
  /\ IsSeq(t.hash) /\ Len(t.hash) <= Cardinality(Pairs(name, A))
  /\ \A p, q \in DOMAIN t.hash : t.hash[p] = t.hash[q] => p = q
  /\ \A p \in DOMAIN t.hash : p - 1 \in DOMAIN t.content /\ SameKey(t.hash[p], name, A) # {}
  /\ \A i \in Of(name, A) : \E p \in DOMAIN t.hash : t.hash[p] = A[i].key
  /\ \A p \in DOMAIN t.hash : \A i \in DOMAIN A :
        Newest(i, SameKey(t.hash[p], name, A)) => t.content[p - 1] = A[i].entry

\* There is one rule for every prefix that was added, and the content it leads
\* to is what was added last for it.
LpmHolds(t, name, A, big) ==
  /\ IsFiniteSet(t.rules) /\ Cardinality(t.rules) <= Cardinality(Pairs(name, A))
  /\ \A r \in t.rules : /\ r.depth \in 1 .. LpmBits(t)
                        /\ r.value \in 0 .. t.size - 1 /\ r.value \in DOMAIN t.content
                        /\ SameRule(r, t, name, A, big) # {}
  /\ \A r, q \in t.rules : r.depth = q.depth /\ SamePrefix(r.key, q.key, r.depth) => r = q
  /\ \A i \in Of(name, A) : A[i].depth \in 1 .. LpmBits(t) =>
        \E r \in t.rules : i \in SameRule(r, t, name, A, big)
  /\ \A r \in t.rules : \A i \in DOMAIN A :
        Newest(i, SameRule(r, t, name, A, big)) => t.content[r.value] = A[i].entry

IsTable(t) ==
  /\ DOMAIN t = {"type", "key_size", "max_size", "default_val", "hash", "rules", "content", "size"}
  /\ t.type \in {"exact", "lpm"} /\ t.key_size \in Nat /\ t.max_size \in Nat \ {0}
  /\ t.size \in Nat

\* A table that has the keys added to it, unless they are too many for it.
TableInv(t, name, A, big) ==
  /\ IsTable(t)
  /\ ~IsFake(t) /\ FitsIn(t, name, A) =>
       IF t.type = "exact" THEN ExactHolds(t, name, A) ELSE LpmHolds(t, name, A, big)

Names(s) == {t.name : t \in Range(s.program)}

IInv ==
  /\ setup \in Setups /\ IsSeq(added)
  /\ \/ tables = << >> /\ added = << >>
     \/ /\ Names(setup) # {} /\ tables = [name \in Names(setup) |-> tables[name]]
        /\ \A name \in Names(setup) : TableInv(tables[name], name, added, setup.big)

\* B is the notes A with the note n at the end; A has k notes.
Grown(A, B, k, n) ==
  /\ k \in Nat /\ DOMAIN A = 1 .. k /\ DOMAIN B = 1 .. k + 1
  /\ \A i \in 1 .. k : B[i] = A[i]
  /\ B[k + 1] = n
-----------------------------------------------------------------------------
\* A set of natural numbers with an element has a least one.
LEMMA LeastExists ==
    ASSUME NEW T \in SUBSET Nat, NEW e \in T
    PROVE  \E x \in T : \A y \in T : x <= y
<1> DEFINE R == OpToRel(<, Nat)
<1>1. IsWellFoundedOn(R, Nat)
  BY NatLessThanWellFounded DEF OpToRel
<1>2. PICK x \in T : \A y \in T : ~ (<<y, x>> \in R)
  BY <1>1, WFMin
<1>3. \A y \in T : ~ (y < x)
  BY <1>2 DEF OpToRel
<1> QED
  BY <1>3

\* One with a bound has a greatest.
LEMMA GreatestExists ==
    ASSUME NEW n \in Nat, NEW T \in SUBSET (0 .. n), NEW e \in T
    PROVE  \E x \in T : \A y \in T : y <= x
<1> DEFINE U == {n - x : x \in T}
<1>1. U \in SUBSET Nat /\ n - e \in U
  OBVIOUS
<1>2. PICK u \in U : \A v \in U : u <= v
  <2> HIDE DEF U
  <2> QED
    BY <1>1, LeastExists
<1>3. PICK x \in T : u = n - x
  BY <1>2
<1>4. \A y \in T : n - x <= n - y
  BY <1>2, <1>3
<1> QED
  BY <1>4

\* The smaller of two numbers.
LEMMA MinOfTwo ==
    ASSUME NEW a \in Nat, NEW b \in Nat
    PROVE  Min({a, b}) \in {a, b} /\ Min({a, b}) <= a /\ Min({a, b}) <= b
<1>1. \E x \in {a, b} : \A y \in {a, b} : x <= y
  OBVIOUS
<1> QED
  BY <1>1 DEF Min

\* Sharing the first bits is an equivalence.
LEMMA SamePrefixIs ==
    /\ \A a, d : SamePrefix(a, a, d)
    /\ \A a, b, d : SamePrefix(a, b, d) => SamePrefix(b, a, d)
    /\ \A a, b, c, d : SamePrefix(a, b, d) /\ SamePrefix(b, c, d) => SamePrefix(a, c, d)
<1>1. \A a, d : SamePrefix(a, a, d)
  BY Zenon DEF SamePrefix
<1>2. ASSUME NEW a, NEW b, NEW d, SamePrefix(a, b, d) PROVE SamePrefix(b, a, d)
  BY <1>2, Zenon DEF SamePrefix
<1>3. ASSUME NEW a, NEW b, NEW c, NEW d, SamePrefix(a, b, d), SamePrefix(b, c, d)
      PROVE  SamePrefix(a, c, d)
  BY <1>3, Zenon DEF SamePrefix
<1> QED
  BY <1>1, <1>2, <1>3
-----------------------------------------------------------------------------
\* Appending a note makes the notes one longer.
LEMMA AppendGrows ==
    ASSUME NEW A, IsSeq(A), NEW n
    PROVE  IsSeq(Append(A, n)) /\ Grown(A, Append(A, n), Len(A), n)
<1> DEFINE S == Range(A) \cup {n}
           B == Append(A, n)
<1>1. A \in Seq(S) /\ n \in S
  BY SeqMonotonic DEF IsSeq
<1>2. /\ B \in Seq(S) /\ Len(B) = Len(A) + 1
      /\ \A i \in 1 .. Len(A) : B[i] = A[i]
      /\ B[Len(A) + 1] = n
  <2> HIDE DEF S
  <2> QED
    BY <1>1, AppendProperties
<1>3. Len(A) \in Nat /\ DOMAIN A = 1 .. Len(A) /\ DOMAIN B = 1 .. Len(A) + 1
  BY <1>1, <1>2, LenProperties
<1>4. B \in Seq(Range(B))
  <2>1. \A i \in 1 .. Len(B) : B[i] \in Range(B)
    BY <1>2, <1>3 DEF Range
  <2> HIDE DEF B
  <2> QED
    BY <1>2, <2>1, LenProperties
<1> QED
  BY <1>2, <1>3, <1>4 DEF IsSeq, Grown

\* The notes of a table are finitely many.
LEMMA PairsFinite ==
    ASSUME NEW A, NEW k \in Nat, DOMAIN A = 1 .. k, NEW name
    PROVE  IsFiniteSet(Pairs(name, A)) /\ Cardinality(Pairs(name, A)) \in Nat
<1> DEFINE f == [i \in Of(name, A) |-> <<A[i].key, A[i].depth>>]
<1>1. IsFiniteSet(Of(name, A))
  <2>1. Of(name, A) \subseteq 1 .. k
    BY DEF Of
  <2>2. IsFiniteSet(1 .. k)
    BY FS_Interval
  <2> QED
    BY <2>1, <2>2, FS_Subset
<1>2. f \in Surjection(Of(name, A), Pairs(name, A))
  BY DEF Surjection, Pairs
<1>3. IsFiniteSet(Pairs(name, A))
  <2> HIDE DEF f
  <2> QED
    BY <1>1, <1>2, FS_Surjection
<1> QED
  BY <1>3, FS_CardinalityType

\* A note of the table is its newest.
LEMMA OwnNote ==
    ASSUME NEW A, NEW B, NEW k, NEW n, Grown(A, B, k, n), NEW name, n.table = name
    PROVE  /\ Of(name, B) = Of(name, A) \cup {k + 1} /\ k \in Nat /\ B[k + 1] = n
           /\ \A i \in Of(name, A) : i \in Nat /\ i <= k /\ B[i] = A[i] /\ i \in DOMAIN A
BY DEF Grown, Of

\* Its key and depth may be new.
LEMMA OwnPair ==
    ASSUME NEW A, NEW B, NEW k, NEW n, Grown(A, B, k, n), NEW name, n.table = name
    PROVE  /\ Cardinality(Pairs(name, A)) \in Nat /\ Cardinality(Pairs(name, B)) \in Nat
           /\ Cardinality(Pairs(name, A)) <= Cardinality(Pairs(name, B))
           /\ <<n.key, n.depth>> \notin Pairs(name, A) =>
                Cardinality(Pairs(name, B)) = Cardinality(Pairs(name, A)) + 1
<1>1. k \in Nat /\ k + 1 \in Nat /\ DOMAIN A = 1 .. k /\ DOMAIN B = 1 .. k + 1
  BY DEF Grown
<1>2. /\ Of(name, B) = Of(name, A) \cup {k + 1} /\ B[k + 1] = n
      /\ \A i \in Of(name, A) : B[i] = A[i]
  BY DEF Grown, Of
<1>3. Pairs(name, B) = Pairs(name, A) \cup {<<n.key, n.depth>>}
  BY <1>2 DEF Pairs
<1>4. /\ IsFiniteSet(Pairs(name, A))
      /\ Cardinality(Pairs(name, A)) \in Nat /\ Cardinality(Pairs(name, B)) \in Nat
  BY <1>1, PairsFinite
<1>5. Cardinality(Pairs(name, B)) = IF <<n.key, n.depth>> \in Pairs(name, A)
                                    THEN Cardinality(Pairs(name, A))
                                    ELSE Cardinality(Pairs(name, A)) + 1
  <2> DEFINE P == Pairs(name, A)
             x == <<n.key, n.depth>>
  <2>1. IsFiniteSet(P) /\ Pairs(name, B) = P \cup {x}
    BY <1>3, <1>4
  <2> HIDE DEF P, x
  <2>2. Cardinality(P \cup {x}) = IF x \in P THEN Cardinality(P) ELSE Cardinality(P) + 1
    BY <2>1, FS_AddElement
  <2> QED
    BY <2>1, <2>2 DEF P, x
<1> QED
  BY <1>4, <1>5

\* A note of another table changes nothing.
LEMMA OtherNote ==
    ASSUME NEW A, NEW B, NEW k, NEW n, Grown(A, B, k, n), NEW name, n.table # name
    PROVE  /\ Of(name, B) = Of(name, A) /\ Pairs(name, B) = Pairs(name, A)
           /\ \A i \in Of(name, A) : B[i] = A[i]
<1>1. Of(name, B) = Of(name, A) /\ \A i \in Of(name, A) : B[i] = A[i]
  BY DEF Grown, Of
<1> QED
  BY <1>1 DEF Pairs
-----------------------------------------------------------------------------
\* A key is at the one position it was put.
LEMMA FoundAt ==
    ASSUME NEW h, IsSeq(h), NEW p \in DOMAIN h, \A q \in DOMAIN h : h[q] = h[p] => q = p
    PROVE  rte_hash_lookup(h, h[p]) = p - 1 /\ p \in Nat \ {0} /\ p <= Len(h)
<1>1. Len(h) \in Nat /\ DOMAIN h = 1 .. Len(h)
  BY LenProperties DEF IsSeq
<1>2. (CHOOSE i \in 1 .. Len(h) : h[i] = h[p]) = p
  BY <1>1
<1> QED
  BY <1>1, <1>2 DEF rte_hash_lookup

\* A key that is nowhere is not found.
LEMMA NotFound ==
    ASSUME NEW h, IsSeq(h), NEW key, \A q \in DOMAIN h : h[q] # key
    PROVE  rte_hash_lookup(h, key) = -1
<1>1. DOMAIN h = 1 .. Len(h)
  BY LenProperties DEF IsSeq
<1> QED
  BY <1>1 DEF rte_hash_lookup

\* h has the keys of g, and key at position p.
KeyAt(g, h, key, p) ==
  /\ IsSeq(h) /\ p \in Nat \ {0} /\ p <= Len(h)
  /\ DOMAIN h = DOMAIN g \cup {p}
  /\ \A q \in DOMAIN g : h[q] = g[q]
  /\ h[p] = key
  /\ \A q \in DOMAIN h : h[q] = key => q = p

\* rte_hash_add_key finds the key or, with room left, puts it at the end.
LEMMA HashAdds ==
    ASSUME NEW g, IsSeq(g), \A p, q \in DOMAIN g : g[p] = g[q] => p = q,
           NEW key, (\A p \in DOMAIN g : g[p] # key) => Len(g) < HASH_ENTRIES
    PROVE  LET got == rte_hash_add_key(g, key)
           IN  /\ KeyAt(g, got.hash, key, got.index + 1)
               /\ got.index \in Nat
               /\ Len(got.hash) = IF \A p \in DOMAIN g : g[p] # key THEN Len(g) + 1 ELSE Len(g)
<1> DEFINE got == rte_hash_add_key(g, key)
<1>1. Len(g) \in Nat /\ DOMAIN g = 1 .. Len(g)
  BY LenProperties DEF IsSeq
<1>2. CASE \E p \in DOMAIN g : g[p] = key
  <2>1. PICK p \in DOMAIN g : g[p] = key
    BY <1>2
  <2>2. rte_hash_lookup(g, key) = p - 1 /\ p \in Nat \ {0} /\ p <= Len(g)
    BY <2>1, FoundAt
  <2>3. got.hash = g /\ got.index = p - 1
    BY <2>2 DEF rte_hash_add_key
  <2>4. KeyAt(g, g, key, p)
    BY <2>1, <2>2 DEF KeyAt
  <2>5. got.index + 1 = p
    BY <2>2, <2>3
  <2>6. Len(g) = IF \A q \in DOMAIN g : g[q] # key THEN Len(g) + 1 ELSE Len(g)
    BY <1>2
  <2> QED
    BY <2>2, <2>3, <2>4, <2>5, <2>6
<1>3. CASE \A p \in DOMAIN g : g[p] # key
  <2>1. rte_hash_lookup(g, key) = -1
    BY <1>3, NotFound
  <2>2. got.hash = Append(g, key) /\ got.index = Len(g)
    <3>1. ~ (rte_hash_lookup(g, key) >= 0) /\ ~ (Len(g) >= HASH_ENTRIES)
      BY <1>1, <1>3, <2>1, HashEntriesAssumption
    <3> QED
      BY <3>1 DEF rte_hash_add_key
  <2>3. IsSeq(Append(g, key)) /\ Grown(g, Append(g, key), Len(g), key)
    BY AppendGrows
  <2>4. Len(Append(g, key)) = Len(g) + 1
    BY <1>1, <2>3, LenProperties DEF IsSeq, Grown
  <2> DEFINE h == Append(g, key)
             p == Len(g) + 1
  <2>5. p \in Nat \ {0} /\ DOMAIN h = 1 .. p /\ 1 .. p = DOMAIN g \cup {p}
    BY <1>1, <2>3 DEF Grown
  <2>6. h[p] = key /\ \A q \in DOMAIN g : h[q] = g[q]
    BY <1>1, <2>3 DEF Grown
  <2> HIDE DEF h
  <2>7. KeyAt(g, h, key, p)
    BY <1>3, <2>3, <2>4, <2>5, <2>6 DEF KeyAt, h
  <2> QED
    BY <1>1, <1>3, <2>2, <2>4, <2>7 DEF h
<1> QED
  BY <1>2, <1>3

\* The slot of an index below the size is that index.
LEMMA SlotIs ==
    ASSUME NEW i \in Nat, NEW m \in Nat \ {0}, i < m
    PROVE  Slot(i, m) = i
BY DEF Slot

\* What was added last under one of the keys, after one more note.
LEMMA ExactAdds ==
    ASSUME NEW t, IsTable(t), ~IsFake(t), NEW name, NEW A, NEW B, NEW k, NEW n,
           Grown(A, B, k, n), n.table = name, FitsIn(t, name, B), ExactHolds(t, name, A)
    PROVE  ExactHolds(exact_add(t, n.key, n.entry), name, B)
<1> DEFINE g   == t.hash
           got == rte_hash_add_key(g, n.key)
           h   == got.hash
           p   == got.index + 1
           u   == exact_add(t, n.key, n.entry)
           new == \A q \in DOMAIN g : g[q] # n.key
           a   == Cardinality(Pairs(name, A))
           b   == Cardinality(Pairs(name, B))
<1>0. /\ Of(name, B) = Of(name, A) \cup {k + 1} /\ k \in Nat /\ B[k + 1] = n
      /\ \A i \in Of(name, A) : i \in Nat /\ i <= k /\ B[i] = A[i]
      /\ \A i \in Of(name, A) : i \in DOMAIN A
  BY OwnNote
<1>1. /\ IsSeq(g) /\ Len(g) \in Nat /\ Len(g) <= a
      /\ \A q, r \in DOMAIN g : g[q] = g[r] => q = r
  <2>1. IsSeq(g) => Len(g) \in Nat
    BY LenProperties DEF IsSeq
  <2> QED
    BY <2>1 DEF ExactHolds
<1>2. a \in Nat /\ b \in Nat /\ a <= b /\ t.max_size \in Nat \ {0}
  BY OwnPair DEF IsTable
<1>3. b <= HASH_ENTRIES /\ b <= t.max_size
  <2>1. b <= Min({t.max_size, HASH_ENTRIES})
    BY DEF FitsIn
  <2>2. LET m == Min({t.max_size, HASH_ENTRIES})
        IN  m \in Nat /\ m <= t.max_size /\ m <= HASH_ENTRIES
    BY <1>2, HashEntriesAssumption, MinOfTwo
  <2> HIDE DEF b
  <2> QED
    BY <1>2, <2>1, <2>2, HashEntriesAssumption
<1>4. new => b = a + 1
  <2>1. new => <<n.key, n.depth>> \notin Pairs(name, A)
    BY DEF ExactHolds, Pairs
  <2> QED
    BY <2>1, OwnPair
<1>5. new => Len(g) < HASH_ENTRIES
  <2> HIDE DEF a, b, new
  <2> QED
    BY <1>1, <1>2, <1>3, <1>4, HashEntriesAssumption
<1>6. /\ KeyAt(g, h, n.key, p) /\ got.index \in Nat
      /\ Len(h) = IF new THEN Len(g) + 1 ELSE Len(g)
  BY <1>1, <1>5, HashAdds
<1>7. Len(h) <= b /\ got.index < t.max_size
  <2>1. p <= Len(h) /\ p = got.index + 1
    BY <1>6 DEF KeyAt
  <2> HIDE DEF h, p, a, b, new, got, g
  <2> QED
    BY <1>1, <1>2, <1>3, <1>4, <1>6, <2>1
<1>8. /\ u.hash = h
      /\ u.content = make_table_entry(t.content, got.index, n.entry)
  <2>1. Slot(got.index, t.max_size) = got.index
    BY <1>2, <1>6, <1>7, SlotIs
  <2> QED
    BY <2>1 DEF exact_add, IsTable
<1> HIDE DEF h, p, u, got
<1>9. p - 1 = got.index /\ p \in Nat \ {0}
  BY <1>6 DEF p
<1>10. /\ DOMAIN u.content = DOMAIN t.content \cup {p - 1}
       /\ u.content[p - 1] = n.entry
       /\ \A i \in DOMAIN t.content : i # p - 1 => u.content[i] = t.content[i]
  BY <1>8, <1>9 DEF make_table_entry
<1>11. ASSUME NEW q \in DOMAIN g, q # p
       PROVE  /\ SameKey(h[q], name, B) = SameKey(g[q], name, A) /\ h[q] = g[q]
              /\ \A i \in SameKey(g[q], name, A) : B[i] = A[i] /\ i \in DOMAIN A
  <2>1. h[q] = g[q] /\ h[q] # n.key
    BY <1>6, <1>11 DEF KeyAt
  <2> QED
    BY <1>0, <2>1 DEF SameKey
<1>12. /\ k + 1 \in SameKey(h[p], name, B)
       /\ \A i \in SameKey(h[p], name, B) : i <= k + 1
  <2>1. h[p] = n.key
    BY <1>6 DEF KeyAt
  <2> QED
    BY <1>0, <2>1 DEF SameKey
<1>13. DOMAIN h = DOMAIN g \cup {p}
  BY <1>6 DEF KeyAt
<1>14. \A q \in DOMAIN g : q \in Nat /\ g[q] = h[q]
  <2>1. DOMAIN g = 1 .. Len(g)
    BY <1>1, LenProperties DEF IsSeq
  <2> QED
    BY <1>1, <1>6, <2>1 DEF KeyAt
<1>20. IsSeq(u.hash) /\ Len(u.hash) <= Cardinality(Pairs(name, B))
  BY <1>6, <1>7, <1>8 DEF KeyAt
<1>21. \A q, r \in DOMAIN u.hash : u.hash[q] = u.hash[r] => q = r
  <2> SUFFICES \A q, r \in DOMAIN h : h[q] = h[r] => q = r
    BY <1>8
  <2>1. \A q \in DOMAIN h : h[q] = h[p] => q = p
    BY <1>6 DEF KeyAt
  <2> HIDE DEF g
  <2> QED
    BY <1>1, <1>13, <1>14, <2>1
<1>22. \A q \in DOMAIN u.hash : q - 1 \in DOMAIN u.content /\ SameKey(u.hash[q], name, B) # {}
  <2> SUFFICES ASSUME NEW q \in DOMAIN h
               PROVE  q - 1 \in DOMAIN u.content /\ SameKey(h[q], name, B) # {}
    BY <1>8
  <2>1. CASE q = p
    BY <2>1, <1>10, <1>12
  <2>2. CASE q # p
    <3>1. q \in DOMAIN g
      BY <1>13, <2>2
    <3>2. q - 1 \in DOMAIN t.content /\ SameKey(g[q], name, A) # {}
      BY <3>1 DEF ExactHolds
    <3> QED
      BY <1>10, <1>11, <2>2, <3>1, <3>2
  <2> QED
    BY <2>1, <2>2
<1>23. \A i \in Of(name, B) : \E q \in DOMAIN u.hash : u.hash[q] = B[i].key
  <2> SUFFICES ASSUME NEW i \in Of(name, B)
               PROVE  \E q \in DOMAIN h : h[q] = B[i].key
    BY <1>8
  <2>1. CASE i = k + 1
    <3>1. B[i] = n /\ p \in DOMAIN h /\ h[p] = n.key
      BY <1>0, <1>6, <1>13, <2>1 DEF KeyAt
    <3> QED
      BY <3>1
  <2>2. CASE i \in Of(name, A)
    <3>1. \E q \in DOMAIN g : g[q] = A[i].key
      BY <2>2 DEF ExactHolds
    <3>2. B[i] = A[i]
      BY <1>0, <2>2
    <3> QED
      BY <1>13, <1>14, <3>1, <3>2
  <2> QED
    BY <1>0, <2>1, <2>2
<1>24. \A q \in DOMAIN u.hash : \A i \in DOMAIN B :
          Newest(i, SameKey(u.hash[q], name, B)) => u.content[q - 1] = B[i].entry
  <2> SUFFICES ASSUME NEW q \in DOMAIN h, NEW i \in DOMAIN B,
                      Newest(i, SameKey(h[q], name, B))
               PROVE  u.content[q - 1] = B[i].entry
    BY <1>8
  <2>1. CASE q = p
    <3>1. i <= k + 1 /\ k + 1 <= i /\ i \in Of(name, B)
      BY <1>12, <2>1 DEF Newest, SameKey
    <3>2. i \in Nat /\ k + 1 \in Nat
      BY <1>0, <3>1
    <3>3. i = k + 1
      BY <3>1, <3>2
    <3>4. B[i] = n
      BY <1>0, <3>3
    <3> QED
      BY <1>10, <2>1, <3>4
  <2>2. CASE q # p
    <3>1. q \in DOMAIN g
      BY <1>13, <2>2
    <3>2. Newest(i, SameKey(g[q], name, A)) /\ i \in DOMAIN A /\ B[i] = A[i]
      BY <1>11, <2>2, <3>1 DEF Newest
    <3>3. t.content[q - 1] = A[i].entry /\ q - 1 \in DOMAIN t.content
      BY <3>1, <3>2 DEF ExactHolds
    <3>4. q - 1 # p - 1
      BY <1>9, <1>14, <2>2, <3>1
    <3> QED
      BY <1>10, <3>2, <3>3, <3>4
  <2> QED
    BY <2>1, <2>2
<1> HIDE DEF g, new, a, b
<1> QED
  BY <1>20, <1>21, <1>22, <1>23, <1>24 DEF ExactHolds, u
-----------------------------------------------------------------------------
\* Replacing what is there by one rule does not make the rules more, and adding
\* one makes them one more.
LEMMA RulesGrow ==
    ASSUME NEW R, IsFiniteSet(R), NEW S \in SUBSET R, NEW x
    PROVE  /\ IsFiniteSet((R \ S) \cup {x}) /\ Cardinality(R) \in Nat
           /\ Cardinality((R \ S) \cup {x}) \in Nat
           /\ Cardinality((R \ S) \cup {x}) <= Cardinality(R) + 1
           /\ S # {} => Cardinality((R \ S) \cup {x}) <= Cardinality(R)
<1>1. /\ IsFiniteSet(R \ S) /\ Cardinality(R \ S) <= Cardinality(R)
      /\ (Cardinality(R) = Cardinality(R \ S) => R \ S = R)
  BY FS_Subset
<1>2. Cardinality(R) \in Nat /\ Cardinality(R \ S) \in Nat
  BY <1>1, FS_CardinalityType
<1>3. /\ IsFiniteSet((R \ S) \cup {x})
      /\ Cardinality((R \ S) \cup {x}) <= Cardinality(R \ S) + 1
      /\ Cardinality((R \ S) \cup {x}) \in Nat
  <2>1. /\ IsFiniteSet((R \ S) \cup {x})
        /\ Cardinality((R \ S) \cup {x}) = IF x \in R \ S THEN Cardinality(R \ S)
                                           ELSE Cardinality(R \ S) + 1
    BY <1>1, FS_AddElement
  <2> QED
    BY <1>2, <2>1
<1>4. S # {} => R \ S # R
  OBVIOUS
<1> QED
  BY <1>1, <1>2, <1>3, <1>4

\* The rules of rte_lpm after a prefix that it takes.
Replaced(rules, key, depth, value) ==
  (rules \ {r \in rules : r.depth = depth /\ SamePrefix(r.key, key, depth)})
    \cup {[key |-> key, depth |-> depth, value |-> value]}

\* What was added last under one of the prefixes, after one more note.
LEMMA LpmAdds ==
    ASSUME NEW t, IsTable(t), ~IsFake(t), NEW name, NEW A, NEW B, NEW k, NEW n, NEW big,
           Grown(A, B, k, n), n.table = name, FitsIn(t, name, B), LpmHolds(t, name, A, big)
    PROVE  LpmHolds(lpm_add(t, n.key, n.depth, n.entry, big), name, B, big)
<1> DEFINE u    == lpm_add(t, n.key, n.depth, n.entry, big)
           key  == LpmKey(t, n.key, big)
           d    == n.depth
           bits == LpmBits(t)
           R    == t.rules
           same == {r \in R : r.depth = d /\ SamePrefix(r.key, key, d)}
           new  == [key |-> key, depth |-> d, value |-> t.size]
           a    == Cardinality(Pairs(name, A))
           b    == Cardinality(Pairs(name, B))
<1>1. /\ Of(name, B) = Of(name, A) \cup {k + 1} /\ k \in Nat /\ B[k + 1] = n
      /\ \A i \in Of(name, A) : i \in Nat /\ i <= k /\ B[i] = A[i]
      /\ \A i \in Of(name, A) : i \in DOMAIN A
  BY OwnNote
<1>2. a \in Nat /\ b \in Nat /\ a <= b
  BY OwnPair
<1>3. t.size \in Nat /\ t.max_size \in Nat /\ b <= t.max_size
  <2>1. t.size \in Nat /\ t.max_size \in Nat
    BY DEF IsTable
  <2>2. b <= Min({t.max_size, HASH_ENTRIES})
    BY DEF FitsIn
  <2>3. LET m == Min({t.max_size, HASH_ENTRIES})
        IN  m \in Nat /\ m <= t.max_size
    BY <2>1, HashEntriesAssumption, MinOfTwo
  <2> HIDE DEF b
  <2> QED
    BY <1>2, <2>1, <2>2, <2>3
<1>4. IsFiniteSet(R) /\ Cardinality(R) \in Nat /\ Cardinality(R) <= a
  BY FS_CardinalityType DEF LpmHolds
<1>5. /\ u.rules = rte_lpm_add(R, t.max_size, bits, key, d, t.size)
      /\ u.size = t.size + 1 /\ u.key_size = t.key_size
      /\ u.content = make_table_entry(t.content, t.size, n.entry)
  BY DEF lpm_add, IsTable
<1>6. LpmBits(u) = bits /\ \A x : LpmKey(u, x, big) = LpmKey(t, x, big)
  BY <1>5 DEF LpmBits, LpmKey
<1>7. \A r : SameRule(r, u, name, B, big) = SameRule(r, t, name, B, big)
  BY <1>6 DEF SameRule
<1>8. /\ DOMAIN u.content = DOMAIN t.content \cup {t.size}
      /\ u.content[t.size] = n.entry
      /\ \A i \in DOMAIN t.content : i # t.size => u.content[i] = t.content[i]
  BY <1>5 DEF make_table_entry
<1>9. \A r \in R : /\ r.depth \in 1 .. bits /\ r.value \in 0 .. t.size - 1
                   /\ r.value \in DOMAIN t.content
                   /\ SameRule(r, t, name, A, big) # {}
  BY DEF LpmHolds
<1>10. \A i \in Of(name, A) : A[i].depth \in 1 .. bits =>
          \E r \in R : i \in SameRule(r, t, name, A, big)
  BY DEF LpmHolds
<1>11. \A r \in R : \A i \in DOMAIN A :
          Newest(i, SameRule(r, t, name, A, big)) => t.content[r.value] = A[i].entry
  BY DEF LpmHolds
<1>12. \A r, q \in R : r.depth = q.depth /\ SamePrefix(r.key, q.key, r.depth) => r = q
  BY DEF LpmHolds

\* A rule that the note does not touch.
<1>13. ASSUME NEW r \in R, ~ (r.depth = d /\ SamePrefix(key, r.key, d))
       PROVE  /\ r.depth \in 1 .. bits /\ r.value \in 0 .. u.size - 1
              /\ r.value \in DOMAIN u.content
              /\ SameRule(r, t, name, B, big) = SameRule(r, t, name, A, big)
              /\ SameRule(r, t, name, B, big) # {}
              /\ \A i \in DOMAIN B : Newest(i, SameRule(r, t, name, B, big)) =>
                    u.content[r.value] = B[i].entry
  <2>1. SameRule(r, t, name, B, big) = SameRule(r, t, name, A, big)
    BY <1>1, <1>13 DEF SameRule
  <2>2. r.value # t.size /\ r.value \in 0 .. u.size - 1
    <3>1. r.value \in 0 .. t.size - 1
      BY <1>9
    <3> HIDE DEF u
    <3> QED
      BY <1>3, <1>5, <3>1
  <2>3. u.content[r.value] = t.content[r.value]
    BY <1>8, <1>9, <2>2
  <2>4. ASSUME NEW i \in DOMAIN B, Newest(i, SameRule(r, t, name, B, big))
        PROVE  u.content[r.value] = B[i].entry
    <3>1. Newest(i, SameRule(r, t, name, A, big))
      BY <2>1, <2>4
    <3>2. i \in Of(name, A)
      BY <3>1 DEF Newest, SameRule
    <3>3. i \in DOMAIN A /\ B[i] = A[i]
      BY <1>1, <3>2
    <3> QED
      BY <1>11, <2>3, <3>1, <3>3
  <2> HIDE DEF u
  <2> QED
    BY <1>8, <1>9, <2>1, <2>2, <2>4
<1> HIDE DEF u, key, bits, a, b
<1>14. CASE d \notin 1 .. bits
  <2>1. u.rules = R
    BY <1>5, <1>14 DEF rte_lpm_add
  <2>2. \A r \in R : ~ (r.depth = d /\ SamePrefix(key, r.key, d))
    BY <1>9, <1>14
  <2>3. Cardinality(R) <= b
    BY <1>2, <1>4
  <2>4. ASSUME NEW i \in Of(name, B), B[i].depth \in 1 .. bits
        PROVE  \E r \in R : i \in SameRule(r, t, name, B, big)
    <3>1. i \in Of(name, A) /\ B[i] = A[i]
      BY <1>1, <1>14, <2>4
    <3>2. PICK r \in R : i \in SameRule(r, t, name, A, big)
      BY <1>10, <2>4, <3>1
    <3> QED
      BY <1>13, <2>2, <3>2
  <2>5. ASSUME NEW r \in R
        PROVE  /\ r.depth \in 1 .. bits /\ r.value \in 0 .. u.size - 1
               /\ r.value \in DOMAIN u.content
               /\ SameRule(r, t, name, B, big) # {}
               /\ \A i \in DOMAIN B : Newest(i, SameRule(r, t, name, B, big)) =>
                     u.content[r.value] = B[i].entry
    BY <1>13, <2>2
  <2> HIDE DEF R
  <2>6. /\ IsFiniteSet(u.rules) /\ Cardinality(u.rules) <= Cardinality(Pairs(name, B))
        /\ \A r, q \in u.rules : r.depth = q.depth /\ SamePrefix(r.key, q.key, r.depth) => r = q
    BY <1>4, <1>12, <2>1, <2>3 DEF b
  <2>7. \A r \in u.rules : /\ r.depth \in 1 .. LpmBits(u) /\ r.value \in 0 .. u.size - 1
                            /\ r.value \in DOMAIN u.content
                            /\ SameRule(r, u, name, B, big) # {}
    BY <1>6, <1>7, <2>1, <2>5
  <2>8. \A r \in u.rules : \A i \in DOMAIN B : Newest(i, SameRule(r, u, name, B, big)) =>
           u.content[r.value] = B[i].entry
    BY <1>7, <2>1, <2>5
  <2>9. \A i \in Of(name, B) : B[i].depth \in 1 .. LpmBits(u) =>
           \E r \in u.rules : i \in SameRule(r, u, name, B, big)
    BY <1>6, <1>7, <2>1, <2>4
  <2> QED
    BY <2>6, <2>7, <2>8, <2>9 DEF LpmHolds, u
<1>15. CASE d \in 1 .. bits
  <2>1. same = {} => b = a + 1
    <3>1. SUFFICES ASSUME <<n.key, n.depth>> \in Pairs(name, A) PROVE same # {}
      BY OwnPair DEF a, b
    <3>2. PICK i \in Of(name, A) : A[i].key = n.key /\ A[i].depth = d
      BY <3>1 DEF Pairs
    <3>3. PICK r \in R : i \in SameRule(r, t, name, A, big)
      BY <1>10, <1>15, <3>2
    <3>4. r.depth = d /\ SamePrefix(key, r.key, d)
      BY <3>2, <3>3 DEF SameRule, key
    <3> QED
      BY <3>4, SamePrefixIs
  <2>2. ~ (same = {} /\ Cardinality(R) >= t.max_size)
    BY <1>2, <1>3, <1>4, <2>1
  <2>3. u.rules = (R \ same) \cup {new}
    BY <1>5, <1>15, <2>2 DEF rte_lpm_add
  <2>4. IsFiniteSet(u.rules) /\ Cardinality(u.rules) <= b
    <3>1. same \in SUBSET R
      OBVIOUS
    <3> HIDE DEF same, R, new
    <3> DEFINE Q == (R \ same) \cup {new}
    <3>2. /\ IsFiniteSet(Q) /\ Cardinality(Q) \in Nat
          /\ Cardinality(Q) <= Cardinality(R) + 1
          /\ same # {} => Cardinality(Q) <= Cardinality(R)
      BY <1>4, <3>1, RulesGrow
    <3>3. u.rules = Q
      BY <2>3
    <3> HIDE DEF Q
    <3> QED
      BY <1>2, <1>4, <2>1, <3>2, <3>3
  <2>5. \A r \in R \ same : ~ (r.depth = d /\ SamePrefix(key, r.key, d))
    BY SamePrefixIs
  <2>6. new.key = key /\ new.depth = d /\ new.value = t.size
    OBVIOUS
  <2>7. k + 1 \in SameRule(new, t, name, B, big)
    BY <1>1, <2>6, SamePrefixIs DEF SameRule, key
  <2>8. /\ new.depth \in 1 .. bits /\ new.value \in 0 .. u.size - 1
        /\ new.value \in DOMAIN u.content
    BY <1>3, <1>5, <1>8, <1>15, <2>6
  <2>9. ASSUME NEW i \in DOMAIN B, Newest(i, SameRule(new, t, name, B, big))
        PROVE  u.content[new.value] = B[i].entry
    <3>1. i \in Of(name, B) /\ k + 1 <= i
      BY <2>7, <2>9 DEF Newest, SameRule
    <3>2. i = k + 1
      BY <1>1, <3>1
    <3> QED
      BY <1>1, <1>8, <2>6, <3>2
  <2>10. ASSUME NEW r \in u.rules, NEW q \in u.rules, r.depth = q.depth,
                SamePrefix(r.key, q.key, r.depth)
         PROVE  r = q
    <3>1. \A x \in R \ same : ~ (x.depth = d /\ SamePrefix(x.key, key, d))
      OBVIOUS
    <3>2. CASE r \in R \ same /\ q \in R \ same
      BY <1>12, <2>10, <3>2
    <3>3. CASE r = new /\ q \in R \ same
      BY <2>5, <2>6, <2>10, <3>3
    <3>4. CASE r \in R \ same /\ q = new
      BY <2>6, <2>10, <3>1, <3>4
    <3> HIDE DEF same, R, new
    <3> QED
      BY <2>3, <3>2, <3>3, <3>4
  <2>11. ASSUME NEW i \in Of(name, B), B[i].depth \in 1 .. bits
         PROVE  \E r \in u.rules : i \in SameRule(r, t, name, B, big)
    <3>1. CASE i = k + 1
      BY <2>3, <2>7, <3>1
    <3>2. CASE i \in Of(name, A)
      <4>1. B[i] = A[i]
        BY <1>1, <3>2
      <4>2. PICK r \in R : i \in SameRule(r, t, name, A, big)
        BY <1>10, <2>11, <3>2, <4>1
      <4>3. CASE r \in same
        <5>1. A[i].depth = d /\ SamePrefix(LpmKey(t, A[i].key, big), r.key, d)
              /\ SamePrefix(r.key, key, d)
          BY <4>2, <4>3 DEF SameRule
        <5>2. SamePrefix(LpmKey(t, A[i].key, big), key, d)
          BY <5>1, SamePrefixIs
        <5>3. i \in SameRule(new, t, name, B, big)
          BY <2>6, <4>1, <5>1, <5>2 DEF SameRule
        <5> QED
          BY <2>3, <5>3
      <4>4. CASE r \notin same
        <5>1. i \in SameRule(r, t, name, B, big)
          BY <1>13, <2>5, <4>2, <4>4
        <5> QED
          BY <2>3, <4>4, <5>1
      <4> QED
        BY <4>3, <4>4
    <3> QED
      BY <1>1, <3>1, <3>2
  <2>12. ASSUME NEW r \in u.rules
         PROVE  /\ r.depth \in 1 .. bits /\ r.value \in 0 .. u.size - 1
                /\ r.value \in DOMAIN u.content
                /\ SameRule(r, t, name, B, big) # {}
                /\ \A i \in DOMAIN B : Newest(i, SameRule(r, t, name, B, big)) =>
                      u.content[r.value] = B[i].entry
    <3>1. CASE r = new
      <4> HIDE DEF new
      <4> QED
        BY <2>7, <2>8, <2>9, <3>1
    <3>2. CASE r \in R \ same
      BY <1>13, <2>5, <3>2
    <3> QED
      BY <2>3, <3>1, <3>2
  <2> HIDE DEF same, R, new
  <2>13. /\ IsFiniteSet(u.rules) /\ Cardinality(u.rules) <= Cardinality(Pairs(name, B))
         /\ \A r, q \in u.rules : r.depth = q.depth /\ SamePrefix(r.key, q.key, r.depth) => r = q
    BY <2>4, <2>10 DEF b
  <2>14. \A r \in u.rules : /\ r.depth \in 1 .. LpmBits(u) /\ r.value \in 0 .. u.size - 1
                             /\ r.value \in DOMAIN u.content
                             /\ SameRule(r, u, name, B, big) # {}
    BY <1>6, <1>7, <2>12
  <2>15. \A r \in u.rules : \A i \in DOMAIN B : Newest(i, SameRule(r, u, name, B, big)) =>
            u.content[r.value] = B[i].entry
    BY <1>7, <2>12
  <2>16. \A i \in Of(name, B) : B[i].depth \in 1 .. LpmBits(u) =>
            \E r \in u.rules : i \in SameRule(r, u, name, B, big)
    BY <1>6, <1>7, <2>11
  <2> QED
    BY <2>13, <2>14, <2>15, <2>16 DEF LpmHolds, u
<1> QED
  BY <1>14, <1>15 DEF u
-----------------------------------------------------------------------------
\* Notes of other tables do not matter.
LEMMA SameNotes ==
    ASSUME NEW t, NEW name, NEW A, NEW B, NEW big, TableInv(t, name, A, big),
           Of(name, B) = Of(name, A), Pairs(name, B) = Pairs(name, A),
           \A i \in Of(name, A) : B[i] = A[i]
    PROVE  TableInv(t, name, B, big)
<1>1. \A key : SameKey(key, name, B) = SameKey(key, name, A)
  BY DEF SameKey
<1>2. \A r : SameRule(r, t, name, B, big) = SameRule(r, t, name, A, big)
  BY DEF SameRule
<1>3. \A i, key : Newest(i, SameKey(key, name, A)) => B[i] = A[i] /\ i \in DOMAIN A
  BY DEF Newest, SameKey, Of
<1>4. \A i, r : Newest(i, SameRule(r, t, name, A, big)) => B[i] = A[i] /\ i \in DOMAIN A
  BY DEF Newest, SameRule, Of
<1>5. FitsIn(t, name, B) = FitsIn(t, name, A)
  BY DEF FitsIn
<1>6. ExactHolds(t, name, A) => ExactHolds(t, name, B)
  <2> SUFFICES ASSUME ExactHolds(t, name, A) PROVE ExactHolds(t, name, B)
    OBVIOUS
  <2>1. \A i \in Of(name, B) : \E p \in DOMAIN t.hash : t.hash[p] = B[i].key
    BY DEF ExactHolds
  <2>2. \A p \in DOMAIN t.hash : \A i \in DOMAIN B :
          Newest(i, SameKey(t.hash[p], name, B)) => t.content[p - 1] = B[i].entry
    BY <1>1, <1>3 DEF ExactHolds
  <2> QED
    BY <1>1, <2>1, <2>2 DEF ExactHolds
<1>7. LpmHolds(t, name, A, big) => LpmHolds(t, name, B, big)
  <2> SUFFICES ASSUME LpmHolds(t, name, A, big) PROVE LpmHolds(t, name, B, big)
    OBVIOUS
  <2>1. \A i \in Of(name, B) : B[i].depth \in 1 .. LpmBits(t) =>
          \E r \in t.rules : i \in SameRule(r, t, name, B, big)
    BY <1>2 DEF LpmHolds
  <2>2. \A r \in t.rules : \A i \in DOMAIN B :
          Newest(i, SameRule(r, t, name, B, big)) => t.content[r.value] = B[i].entry
    BY <1>2, <1>4 DEF LpmHolds
  <2> QED
    BY <1>2, <2>1, <2>2 DEF LpmHolds
<1> QED
  BY <1>5, <1>6, <1>7 DEF TableInv

\* Adding an entry to a table, or a note about another, keeps the invariant.
LEMMA AddKeeps ==
    ASSUME NEW t, NEW name, NEW A, NEW B, NEW k, NEW n, Grown(A, B, k, n),
           TableInv(t, name, A, setup.big)
    PROVE  TableInv(IF n.table = name THEN TableAdd(t, n.key, n.depth, n.entry) ELSE t,
                    name, B, setup.big)
<1>1. CASE n.table # name
  <2>1. TableInv(t, name, B, setup.big)
    BY <1>1, OtherNote, SameNotes
  <2> QED
    BY <1>1, <2>1
<1>2. CASE n.table = name
  <2> DEFINE u == TableAdd(t, n.key, n.depth, n.entry)
  <2>1. IsTable(t)
    BY DEF TableInv
  <2>2. /\ IsTable(u) /\ u.type = t.type /\ u.max_size = t.max_size
        /\ u.key_size = t.key_size
    BY <2>1 DEF TableAdd, exact_add, lpm_add, IsTable
  <2>3. IsFake(u) = IsFake(t) /\ FitsIn(u, name, B) = FitsIn(t, name, B)
    BY <2>2 DEF IsFake, FitsIn
  <2>4. FitsIn(t, name, B) => FitsIn(t, name, A)
    <3>1. Min({t.max_size, HASH_ENTRIES}) \in Nat
      BY <2>1, HashEntriesAssumption, MinOfTwo DEF IsTable
    <3>2. /\ Cardinality(Pairs(name, A)) \in Nat /\ Cardinality(Pairs(name, B)) \in Nat
          /\ Cardinality(Pairs(name, A)) <= Cardinality(Pairs(name, B))
      BY <1>2, OwnPair
    <3> QED
      BY <3>1, <3>2 DEF FitsIn
  <2>5. ASSUME ~IsFake(u), FitsIn(u, name, B)
        PROVE  IF u.type = "exact" THEN ExactHolds(u, name, B)
               ELSE LpmHolds(u, name, B, setup.big)
    <3>1. ~IsFake(t) /\ FitsIn(t, name, B) /\ FitsIn(t, name, A)
      BY <2>3, <2>4, <2>5
    <3>2. CASE t.type = "exact"
      <4>1. ExactHolds(t, name, A)
        BY <3>1, <3>2 DEF TableInv
      <4>2. ExactHolds(exact_add(t, n.key, n.entry), name, B)
        BY <1>2, <2>1, <3>1, <4>1, ExactAdds
      <4> QED
        BY <2>2, <3>2, <4>2 DEF TableAdd
    <3>3. CASE t.type # "exact"
      <4>1. LpmHolds(t, name, A, setup.big)
        BY <3>1, <3>3 DEF TableInv
      <4>2. LpmHolds(lpm_add(t, n.key, n.depth, n.entry, setup.big), name, B, setup.big)
        BY <1>2, <2>1, <3>1, <4>1, LpmAdds
      <4> QED
        BY <2>2, <3>3, <4>2 DEF TableAdd
    <3> QED
      BY <3>2, <3>3
  <2> QED
    BY <1>2, <2>2, <2>5 DEF TableInv
<1> QED
  BY <1>1, <1>2

\* A table that was made or flushed has nothing, and has everything of nothing.
LEMMA EmptyHolds ==
    ASSUME NEW t, NEW name, NEW big, IsTable(t),
           t.type = "exact" => t.hash = << >>, t.type = "lpm" => t.rules = {}
    PROVE  TableInv(t, name, << >>, big)
<1>1. Of(name, << >>) = {} /\ Pairs(name, << >>) = {}
  BY DEF Of, Pairs
<1>2. Cardinality({}) = 0 /\ IsFiniteSet({})
  BY FS_EmptySet
<1>3. ASSUME t.type = "exact" PROVE ExactHolds(t, name, << >>)
  <2>1. IsSeq(<< >>) /\ Len(<< >>) = 0 /\ DOMAIN << >> = {}
    BY DEF IsSeq
  <2>2. IsSeq(t.hash) /\ DOMAIN t.hash = {} /\ Len(t.hash) <= Cardinality(Pairs(name, << >>))
    <3>1. t.hash = << >> /\ Cardinality(Pairs(name, << >>)) = 0
      BY <1>1, <1>2, <1>3
    <3> QED
      BY <2>1, <3>1
  <2> QED
    BY <1>1, <2>2 DEF ExactHolds
<1>4. ASSUME t.type = "lpm" PROVE LpmHolds(t, name, << >>, big)
  <2>1. /\ t.rules = {} /\ IsFiniteSet(t.rules)
        /\ Cardinality(t.rules) <= Cardinality(Pairs(name, << >>))
    BY <1>1, <1>2, <1>4
  <2> QED
    BY <1>1, <2>1 DEF LpmHolds
<1> QED
  BY <1>3, <1>4 DEF TableInv, IsTable
-----------------------------------------------------------------------------
\* A sequence behind another.
LEMMA ConcatIsSeq ==
    ASSUME NEW p, NEW q, IsSeq(p), IsSeq(q)
    PROVE  /\ IsSeq(p \o q) /\ Len(p) \in Nat /\ Len(q) \in Nat
           /\ DOMAIN p = 1 .. Len(p) /\ DOMAIN q = 1 .. Len(q)
           /\ Len(p \o q) = Len(p) + Len(q) /\ DOMAIN (p \o q) = 1 .. Len(p) + Len(q)
           /\ \A i \in 1 .. Len(p) : (p \o q)[i] = p[i]
           /\ \A i \in 1 .. Len(q) : (p \o q)[Len(p) + i] = q[i]
<1> DEFINE S == Range(p) \cup Range(q)
           r == p \o q
<1>1. p \in Seq(S) /\ q \in Seq(S)
  BY SeqMonotonic DEF IsSeq
<1> HIDE DEF S
<1>2. /\ Len(p) \in Nat /\ Len(q) \in Nat
      /\ DOMAIN p = 1 .. Len(p) /\ DOMAIN q = 1 .. Len(q)
  BY <1>1, LenProperties
<1>3. /\ r \in Seq(S) /\ Len(r) = Len(p) + Len(q)
      /\ \A i \in 1 .. Len(p) + Len(q) : r[i] = IF i <= Len(p) THEN p[i] ELSE q[i - Len(p)]
  BY <1>1, ConcatProperties
<1>4. DOMAIN r = 1 .. Len(p) + Len(q)
  BY <1>3, LenProperties
<1>5. r \in Seq(Range(r))
  <2>1. \A i \in 1 .. Len(r) : r[i] \in Range(r)
    BY <1>3, <1>4 DEF Range
  <2> HIDE DEF r
  <2> QED
    BY <1>3, <2>1, LenProperties
<1>6. \A i \in 1 .. Len(p) : r[i] = p[i]
  BY <1>2, <1>3
<1>7. \A i \in 1 .. Len(q) : r[Len(p) + i] = q[i]
  <2> TAKE i \in 1 .. Len(q)
  <2>1. Len(p) + i \in 1 .. Len(p) + Len(q) /\ ~(Len(p) + i <= Len(p)) /\ Len(p) + i - Len(p) = i
    BY <1>2
  <2> QED
    BY <1>3, <2>1
<1> QED
  BY <1>2, <1>3, <1>4, <1>5, <1>6, <1>7 DEF IsSeq

\* A sequence behind two others.
LEMMA ConcatTwice ==
    ASSUME NEW p, NEW q, NEW r, IsSeq(p), IsSeq(q), IsSeq(r)
    PROVE  (p \o q) \o r = p \o (q \o r)
<1> DEFINE S == Range(p) \cup Range(q) \cup Range(r)
<1>1. p \in Seq(S) /\ q \in Seq(S) /\ r \in Seq(S)
  BY SeqMonotonic DEF IsSeq
<1> HIDE DEF S
<1> QED
  BY <1>1, ConcatAssociative

\* The first j of some notes behind others: none, one more, all.
LEMMA FirstNotes ==
    ASSUME NEW A, NEW q, IsSeq(A), IsSeq(q)
    PROVE  /\ A \o SubSeq(q, 1, 0) = A /\ A \o SubSeq(q, 1, Len(q)) = A \o q
           /\ \A j \in 0 .. Len(q) : IsSeq(A \o SubSeq(q, 1, j))
           /\ \A j \in 1 .. Len(q) :
                Grown(A \o SubSeq(q, 1, j - 1), A \o SubSeq(q, 1, j), Len(A) + j - 1, q[j])
<1>1. Len(q) \in Nat /\ Len(A) \in Nat /\ DOMAIN q = 1 .. Len(q)
  BY LenProperties DEF IsSeq
<1>2. SubSeq(q, 1, 0) = << >> /\ SubSeq(q, 1, Len(q)) = q /\ A \o << >> = A
  <2>1. q \in Seq(Range(q)) /\ A \in Seq(Range(A))
    BY DEF IsSeq
  <2> QED
    BY <2>1, SubSeqEmpty, SubSeqFull, ConcatEmptySeq
<1>3. ASSUME NEW j \in 0 .. Len(q)
      PROVE  /\ IsSeq(SubSeq(q, 1, j)) /\ Len(SubSeq(q, 1, j)) = j
             /\ \A i \in 1 .. j : SubSeq(q, 1, j)[i] = q[i]
  <2> DEFINE r == SubSeq(q, 1, j)
             S == Range(q)
  <2>1. \A i \in 1 .. j : q[i] \in S
    BY <1>1 DEF Range
  <2> HIDE DEF S
  <2>2. /\ r \in Seq(S) /\ Len(r) = j
        /\ \A i \in 1 .. j : r[i] = q[i]
    BY <1>1, <2>1, SubSeqProperties
  <2>3. \A i \in 1 .. Len(r) : r[i] \in Range(r)
    BY <2>2, LenProperties DEF Range
  <2> HIDE DEF r
  <2>4. r \in Seq(Range(r))
    BY <2>2, <2>3, LenProperties
  <2> QED
    BY <2>2, <2>4 DEF IsSeq, r
<1>4. ASSUME NEW j \in 0 .. Len(q)
      PROVE  /\ IsSeq(A \o SubSeq(q, 1, j)) /\ DOMAIN (A \o SubSeq(q, 1, j)) = 1 .. Len(A) + j
             /\ \A i \in 1 .. Len(A) : (A \o SubSeq(q, 1, j))[i] = A[i]
             /\ \A i \in 1 .. j : (A \o SubSeq(q, 1, j))[Len(A) + i] = q[i]
  <2> DEFINE r == SubSeq(q, 1, j)
  <2>1. IsSeq(r) /\ Len(r) = j /\ \A i \in 1 .. j : r[i] = q[i]
    BY <1>3
  <2> HIDE DEF r
  <2>2. /\ IsSeq(A \o r) /\ DOMAIN (A \o r) = 1 .. Len(A) + Len(r)
        /\ \A i \in 1 .. Len(A) : (A \o r)[i] = A[i]
        /\ \A i \in 1 .. Len(r) : (A \o r)[Len(A) + i] = r[i]
    BY <2>1, ConcatIsSeq
  <2> QED
    BY <2>1, <2>2 DEF r
<1>5. ASSUME NEW j \in 1 .. Len(q)
      PROVE  Grown(A \o SubSeq(q, 1, j - 1), A \o SubSeq(q, 1, j), Len(A) + j - 1, q[j])
  <2> DEFINE B == A \o SubSeq(q, 1, j - 1)
             C == A \o SubSeq(q, 1, j)
             l == Len(A)
  <2>1. j - 1 \in 0 .. Len(q) /\ j \in 0 .. Len(q) /\ j \in Nat /\ l \in Nat
    BY <1>1
  <2>2. /\ DOMAIN B = 1 .. l + (j - 1) /\ DOMAIN C = 1 .. l + j
        /\ \A i \in 1 .. l : B[i] = A[i] /\ C[i] = A[i]
        /\ \A i \in 1 .. j - 1 : B[l + i] = q[i]
        /\ \A i \in 1 .. j : C[l + i] = q[i]
    BY <1>4, <2>1
  <2> HIDE DEF B, C, l
  <2>3. \A i \in 1 .. l + j - 1 : C[i] = B[i]
    <3> TAKE i \in 1 .. l + j - 1
    <3>1. CASE i <= l
      BY <2>1, <2>2, <3>1
    <3>2. CASE ~(i <= l)
      <4>1. i - l \in 1 .. j - 1 /\ i - l \in 1 .. j /\ l + (i - l) = i
        BY <2>1, <3>2
      <4> QED
        BY <2>2, <4>1
    <3> QED
      BY <3>1, <3>2
  <2>4. C[l + j - 1 + 1] = q[j]
    <3>1. l + j - 1 + 1 = l + j /\ j \in 1 .. j
      BY <2>1
    <3> QED
      BY <2>2, <3>1
  <2>5. l + j - 1 \in Nat /\ l + (j - 1) = l + j - 1 /\ l + j = l + j - 1 + 1
    BY <2>1
  <2> QED
    BY <2>2, <2>3, <2>4, <2>5 DEF Grown, B, C, l
<1>6. \A j \in 0 .. Len(q) : IsSeq(A \o SubSeq(q, 1, j))
  BY <1>4
<1>7. \A j \in 1 .. Len(q) :
         Grown(A \o SubSeq(q, 1, j - 1), A \o SubSeq(q, 1, j), Len(A) + j - 1, q[j])
  BY <1>5
<1>8. A \o SubSeq(q, 1, 0) = A /\ A \o SubSeq(q, 1, Len(q)) = A \o q
  BY <1>2
<1> QED
  BY <1>6, <1>7, <1>8
-----------------------------------------------------------------------------
\* The loop of init_table_const_entries adds one const entry after the other.
LEMMA FilledInOrder ==
    ASSUME NEW t, NEW config, Len(ConstNotes(config)) \in Nat
    PROVE  LET q == ConstNotes(config)
           IN  \E f : /\ f[0] = t /\ init_table_const_entries(t, config) = f[Len(q)]
                      /\ \A i \in 1 .. Len(q) :
                           f[i] = TableAdd(f[i - 1], q[i].key, q[i].depth, q[i].entry)
<1> DEFINE q == ConstNotes(config)
           N == Len(q)
           After(x, i) == TableAdd(x, q[i].key, q[i].depth, q[i].entry)
           Good(f, n) == f[0] = t /\ \A i \in 1 .. n : f[i] = After(f[i - 1], i)
           Bad == {n \in 0 .. N : ~\E f : Good(f, n)}
           l == CHOOSE f : f = [i \in 0 .. N |-> IF i = 0 THEN t ELSE After(f[i - 1], i)]
<1>1. init_table_const_entries(t, config) = l[N]
  BY DEF init_table_const_entries
<1>2. N \in Nat
  OBVIOUS
<1> HIDE DEF q, N, After
<1>3. Bad = {}
  <2> SUFFICES ASSUME Bad # {} PROVE FALSE
    OBVIOUS
  <2>1. PICK m \in Bad : \A n \in Bad : m <= n
    <3>1. Bad \subseteq Nat
      BY <1>2
    <3> HIDE DEF Bad
    <3> QED
      BY <3>1, LeastExists
  <2>2. m # 0
    <3> DEFINE f == [i \in 0 .. 0 |-> t]
    <3>1. Good(f, 0)
      OBVIOUS
    <3> QED
      BY <3>1
  <2>3. m - 1 \in 0 .. N /\ m - 1 \notin Bad /\ m \in Nat
    <3>1. m \in Nat /\ m <= N
      BY <1>2
    <3>2. m - 1 \in 0 .. N /\ ~(m <= m - 1)
      BY <1>2, <2>2, <3>1
    <3> HIDE DEF Bad
    <3> QED
      BY <2>1, <3>1, <3>2
  <2>4. PICK f : Good(f, m - 1)
    BY <2>3
  <2> DEFINE g == [i \in 0 .. m |-> IF i = m THEN After(f[m - 1], m) ELSE f[i]]
  <2>5. Good(g, m)
    <3>1. g[0] = t
      BY <2>2, <2>3, <2>4
    <3>2. ASSUME NEW i \in 1 .. m PROVE g[i] = After(g[i - 1], i)
      <4>1. i \in 0 .. m /\ i - 1 \in 0 .. m /\ i - 1 # m
        BY <2>3
      <4>2. g[i - 1] = f[i - 1]
        BY <4>1
      <4>3. CASE i = m
        BY <2>3, <4>1, <4>2, <4>3
      <4>4. CASE i # m
        <5>1. i \in 1 .. m - 1
          BY <2>3, <4>4
        <5> QED
          BY <2>4, <4>1, <4>2, <4>4, <5>1
      <4> QED
        BY <4>3, <4>4
    <3> QED
      BY <3>1, <3>2
  <2> HIDE DEF Good, g
  <2> QED
    BY <2>1, <2>5
<1>4. PICK f : Good(f, N)
  <2>1. N \in 0 .. N
    BY <1>2
  <2>2. N \notin Bad
    BY <1>3
  <2> HIDE DEF Good
  <2> QED
    BY <2>1, <2>2
<1> DEFINE e == [i \in 0 .. N |-> f[i]]
<1>5. e = [i \in 0 .. N |-> IF i = 0 THEN t ELSE After(e[i - 1], i)]
  <2>1. \A i \in 0 .. N : i # 0 => i \in 1 .. N /\ i - 1 \in 0 .. N
    BY <1>2
  <2> QED
    BY <1>4, <2>1
<1>6. l = [i \in 0 .. N |-> IF i = 0 THEN t ELSE After(l[i - 1], i)]
  <2> HIDE DEF e
  <2> QED
    BY <1>5
<1> HIDE DEF l
<1>7. l[0] = t /\ \A i \in 1 .. N : l[i] = After(l[i - 1], i)
  <2>1. 0 \in 0 .. N /\ \A i \in 1 .. N : i \in 0 .. N /\ i # 0
    BY <1>2
  <2> QED
    BY <1>6, <2>1
<1> QED
  BY <1>1, <1>7 DEF q, N, After

\* The notes of the const entries of a table are of that table.
LEMMA ConstNotesAre ==
    ASSUME NEW config, IsSeq(config.const)
    PROVE  /\ IsSeq(ConstNotes(config)) /\ Len(ConstNotes(config)) \in Nat
           /\ \A i \in 1 .. Len(ConstNotes(config)) : ConstNotes(config)[i].table = config.name
<1> DEFINE q == ConstNotes(config)
           c == config.const
           N == Len(c)
<1>1. N \in Nat /\ DOMAIN c = 1 .. N
  BY LenProperties DEF IsSeq
<1>2. DOMAIN q = 1 .. N /\ q = [i \in 1 .. N |-> q[i]]
  BY <1>1 DEF ConstNotes
<1>3. q \in Seq(Range(q)) /\ Len(q) = N
  <2>1. \A i \in 1 .. N : q[i] \in Range(q)
    BY <1>2 DEF Range
  <2> HIDE DEF q, N
  <2> DEFINE S == Range(q)
  <2> HIDE DEF S
  <2>2. q \in [1 .. N -> S]
    BY <1>2, <2>1 DEF S
  <2>3. q \in Seq(S) /\ Len(q) = N
    BY <1>1, <2>2
  <2> QED
    BY <2>3 DEF S
<1>4. \A i \in 1 .. N : q[i].table = config.name
  BY <1>1 DEF ConstNotes, Noted
<1> HIDE DEF q, N
<1> QED
  BY <1>1, <1>3, <1>4 DEF IsSeq, q

\* Adding the const entries of a table to it, with their notes.
LEMMA FillKeeps ==
    ASSUME NEW config, IsSeq(config.const), NEW t, NEW name, NEW A, IsSeq(A),
           TableInv(t, name, A, setup.big)
    PROVE  /\ IsSeq(A \o ConstNotes(config))
           /\ TableInv(IF config.name = name THEN init_table_const_entries(t, config) ELSE t,
                       name, A \o ConstNotes(config), setup.big)
<1> DEFINE q == ConstNotes(config)
           N == Len(q)
           Own(f, j) == IF config.name = name THEN f[j] ELSE t
<1>1. /\ IsSeq(q) /\ N \in Nat
      /\ \A i \in 1 .. N : q[i].table = config.name
  BY ConstNotesAre
<1>2. PICK f : /\ f[0] = t /\ init_table_const_entries(t, config) = f[N]
               /\ \A i \in 1 .. N : f[i] = TableAdd(f[i - 1], q[i].key, q[i].depth, q[i].entry)
  BY <1>1, FilledInOrder
<1> HIDE DEF q
<1> DEFINE Behind(j) == A \o SubSeq(q, 1, j)
           Bad == {j \in 0 .. N : ~TableInv(Own(f, j), name, Behind(j), setup.big)}
<1>3. /\ Behind(0) = A /\ Behind(N) = A \o q /\ \A j \in 0 .. N : IsSeq(Behind(j))
      /\ \A j \in 1 .. N : Grown(Behind(j - 1), Behind(j), Len(A) + j - 1, q[j])
  BY <1>1, FirstNotes
<1> HIDE DEF Behind, N
<1>4. ASSUME NEW j \in 1 .. N, TableInv(Own(f, j - 1), name, Behind(j - 1), setup.big)
      PROVE  TableInv(Own(f, j), name, Behind(j), setup.big)
  <2> DEFINE u == Own(f, j - 1)
             n == q[j]
  <2>1. TableInv(IF n.table = name THEN TableAdd(u, n.key, n.depth, n.entry) ELSE u,
                 name, Behind(j), setup.big)
    <3>1. Grown(Behind(j - 1), Behind(j), Len(A) + j - 1, n)
      BY <1>3
    <3> HIDE DEF u, n
    <3> QED
      BY <1>4, <3>1, AddKeeps DEF u
  <2>2. n.table = config.name
    BY <1>1
  <2> QED
    BY <1>2, <2>1, <2>2
<1>5. Bad = {}
  <2> SUFFICES ASSUME Bad # {} PROVE FALSE
    OBVIOUS
  <2>1. PICK m \in Bad : \A n \in Bad : m <= n
    <3>1. Bad \subseteq Nat
      BY <1>1
    <3> HIDE DEF Bad
    <3> QED
      BY <3>1, LeastExists
  <2>2. m # 0
    <3>1. Own(f, 0) = t
      BY <1>2
    <3> QED
      BY <1>3, <3>1
  <2>3. m \in 1 .. N /\ m - 1 \in 0 .. N /\ m - 1 \notin Bad
    <3>1. m \in Nat /\ m <= N
      BY <1>1
    <3>2. m \in 1 .. N /\ m - 1 \in 0 .. N /\ ~(m <= m - 1)
      BY <1>1, <2>2, <3>1
    <3> HIDE DEF Bad
    <3> QED
      BY <2>1, <3>2
  <2>4. TableInv(Own(f, m - 1), name, Behind(m - 1), setup.big)
    BY <2>3
  <2> HIDE DEF Own
  <2> QED
    BY <1>4, <2>3, <2>4
<1>6. TableInv(Own(f, N), name, Behind(N), setup.big)
  BY <1>1, <1>5
<1>7. N \in 0 .. N
  BY <1>1
<1> QED
  BY <1>2, <1>3, <1>6, <1>7 DEF q

\* FlattenSeq puts one sequence behind the other.
LEMMA FlattenedInOrder ==
    ASSUME NEW Q, Len(Q) \in Nat \ {0}
    PROVE  \E f : /\ f[1] = Q[1] /\ FlattenSeq(Q) = f[Len(Q)]
                  /\ \A i \in 2 .. Len(Q) : f[i] = f[i - 1] \o Q[i]
<1> DEFINE N == Len(Q)
           Good(f, n) == f[1] = Q[1] /\ \A i \in 2 .. n : f[i] = f[i - 1] \o Q[i]
           Bad == {n \in 1 .. N : ~\E f : Good(f, n)}
           l == CHOOSE f : f = [i \in 1 .. N |-> IF i = 1 THEN Q[i] ELSE f[i - 1] \o Q[i]]
<1>1. FlattenSeq(Q) = l[N]
  BY DEF FlattenSeq
<1>2. N \in Nat \ {0}
  OBVIOUS
<1> HIDE DEF N
<1>3. Bad = {}
  <2> SUFFICES ASSUME Bad # {} PROVE FALSE
    OBVIOUS
  <2>1. PICK m \in Bad : \A n \in Bad : m <= n
    <3>1. Bad \subseteq Nat
      <4>1. \A n \in 1 .. N : n \in Nat
        BY <1>2
      <4> QED
        BY <4>1
    <3> HIDE DEF Bad
    <3> QED
      BY <3>1, LeastExists
  <2>2. m # 1
    <3> DEFINE f == [i \in 1 .. 1 |-> Q[1]]
    <3>1. Good(f, 1)
      OBVIOUS
    <3> QED
      BY <3>1
  <2>3. m - 1 \in 1 .. N /\ m - 1 \notin Bad /\ m \in Nat
    <3>1. m \in Nat /\ m <= N /\ 1 <= m
      BY <1>2
    <3>2. m - 1 \in 1 .. N /\ ~(m <= m - 1)
      BY <1>2, <2>2, <3>1
    <3> HIDE DEF Bad
    <3> QED
      BY <2>1, <3>1, <3>2
  <2>4. PICK f : Good(f, m - 1)
    BY <2>3
  <2> DEFINE g == [i \in 1 .. m |-> IF i = m THEN f[m - 1] \o Q[m] ELSE f[i]]
  <2>5. Good(g, m)
    <3>1. g[1] = Q[1]
      BY <2>2, <2>3, <2>4
    <3>2. ASSUME NEW i \in 2 .. m PROVE g[i] = g[i - 1] \o Q[i]
      <4>1. i \in 1 .. m /\ i - 1 \in 1 .. m /\ i - 1 # m
        BY <2>3
      <4>2. g[i - 1] = f[i - 1]
        BY <4>1
      <4>3. CASE i = m
        BY <2>3, <4>1, <4>2, <4>3
      <4>4. CASE i # m
        <5>1. i \in 2 .. m - 1
          BY <2>3, <4>4
        <5> QED
          BY <2>4, <4>1, <4>2, <4>4, <5>1
      <4> QED
        BY <4>3, <4>4
    <3> QED
      BY <3>1, <3>2
  <2> HIDE DEF Good, g
  <2> QED
    BY <2>1, <2>5
<1>4. PICK f : Good(f, N)
  <2>1. N \in 1 .. N
    <3>1. N \in Nat /\ 1 <= N
      BY <1>2
    <3> QED
      BY <3>1
  <2>2. N \notin Bad
    BY <1>3
  <2> HIDE DEF Good
  <2> QED
    BY <2>1, <2>2
<1> DEFINE e == [i \in 1 .. N |-> f[i]]
<1>5. e = [i \in 1 .. N |-> IF i = 1 THEN Q[i] ELSE e[i - 1] \o Q[i]]
  <2>1. \A i \in 1 .. N : i # 1 => i \in 2 .. N /\ i - 1 \in 1 .. N
    BY <1>2
  <2> QED
    BY <1>4, <2>1
<1>6. l = [i \in 1 .. N |-> IF i = 1 THEN Q[i] ELSE l[i - 1] \o Q[i]]
  <2> HIDE DEF e
  <2> QED
    BY <1>5
<1> HIDE DEF l
<1>7. l[1] = Q[1] /\ \A i \in 2 .. N : l[i] = l[i - 1] \o Q[i]
  <2>1. 1 \in 1 .. N /\ \A i \in 2 .. N : i \in 1 .. N /\ i # 1
    BY <1>2
  <2> QED
    BY <1>6, <2>1
<1> QED
  BY <1>1, <1>7 DEF N

\* The tables of a program, as ProgramAssumption has them.
IsProgram(P) ==
  /\ IsSeq(P)
  /\ \A i, j \in DOMAIN P : P[i].name = P[j].name => i = j
  /\ \A i \in DOMAIN P : IsSeq(P[i].const)

\* Adding the const entries of all tables, each to its own, with all the notes.
LEMMA FillAllKeeps ==
    ASSUME NEW P, IsProgram(P), NEW m \in DOMAIN P, NEW t, NEW A, IsSeq(A),
           TableInv(t, P[m].name, A, setup.big)
    PROVE  LET F == FlattenSeq([i \in DOMAIN P |-> ConstNotes(P[i])])
           IN  /\ IsSeq(A \o F)
               /\ TableInv(init_table_const_entries(t, P[m]), P[m].name, A \o F, setup.big)
<1> DEFINE Q == [i \in DOMAIN P |-> ConstNotes(P[i])]
           F == FlattenSeq(Q)
           N == Len(P)
           name == P[m].name
           u == init_table_const_entries(t, P[m])
           Now(j) == IF m <= j THEN u ELSE t
<1>1. N \in Nat /\ DOMAIN P = 1 .. N /\ m \in Nat /\ 1 <= m /\ m <= N
  BY LenProperties DEF IsProgram, IsSeq
<1>2. Len(Q) = N /\ N \in Nat \ {0} /\ \A i \in 1 .. N : Q[i] = ConstNotes(P[i])
  <2>1. Q = [i \in 1 .. N |-> ConstNotes(P[i])]
    BY <1>1
  <2> HIDE DEF Q, N
  <2>2. DOMAIN Q = 1 .. N /\ \A i \in 1 .. N : Q[i] = ConstNotes(P[i])
    BY <2>1
  <2>3. Len(Q) = N
    BY <1>1, <2>1
  <2> QED
    BY <1>1, <2>2, <2>3
<1> HIDE DEF Q
<1>3. PICK f : /\ f[1] = Q[1] /\ F = f[N]
               /\ \A i \in 2 .. N : f[i] = f[i - 1] \o Q[i]
  <2>1. \E f : /\ f[1] = Q[1] /\ FlattenSeq(Q) = f[Len(Q)]
               /\ \A i \in 2 .. Len(Q) : f[i] = f[i - 1] \o Q[i]
    BY <1>2, FlattenedInOrder
  <2>2. Len(Q) = N
    BY <1>2
  <2> QED
    BY <2>1, <2>2
<1> DEFINE Good(j) == IsSeq(f[j]) /\ IsSeq(A \o f[j]) /\ TableInv(Now(j), name, A \o f[j], setup.big)
           Bad == {j \in 1 .. N : ~Good(j)}
<1>4. \A i \in 1 .. N : /\ IsSeq(P[i].const) /\ IsSeq(Q[i]) /\ Q[i] = ConstNotes(P[i])
                        /\ (P[i].name = name <=> i = m)
  <2>1. \A i \in 1 .. N : IsSeq(P[i].const) /\ (P[i].name = name <=> i = m)
    BY <1>1 DEF IsProgram
  <2> HIDE DEF N
  <2> QED
    BY <1>2, <2>1, ConstNotesAre
<1> HIDE DEF N, F, u
<1>5. Good(1)
  <2>1. 1 \in 1 .. N
    BY <1>1
  <2>2. /\ IsSeq(A \o Q[1])
        /\ TableInv(IF P[1].name = name THEN init_table_const_entries(t, P[1]) ELSE t,
                    name, A \o Q[1], setup.big)
    BY <1>4, <2>1, FillKeeps
  <2>3. Now(1) = IF P[1].name = name THEN init_table_const_entries(t, P[1]) ELSE t
    BY <1>1, <1>4, <2>1 DEF u
  <2> HIDE DEF Now, name
  <2> QED
    BY <1>3, <1>4, <2>1, <2>2, <2>3
<1>6. ASSUME NEW j \in 2 .. N, Good(j - 1) PROVE Good(j)
  <2>1. j \in 1 .. N /\ j - 1 \in 1 .. N
    BY <1>1
  <2>2. f[j] = f[j - 1] \o Q[j] /\ IsSeq(Q[j]) /\ Q[j] = ConstNotes(P[j])
    BY <1>3, <1>4, <2>1
  <2> DEFINE s == A \o f[j - 1]
             v == Now(j - 1)
  <2>3. A \o f[j] = s \o ConstNotes(P[j]) /\ IsSeq(f[j])
    <3>1. (A \o f[j - 1]) \o Q[j] = A \o (f[j - 1] \o Q[j])
      <4>1. IsSeq(f[j - 1]) /\ IsSeq(Q[j])
        BY <1>6, <2>2
      <4> DEFINE x == f[j - 1]
                 y == Q[j]
      <4>2. IsSeq(x) /\ IsSeq(y)
        BY <4>1
      <4> HIDE DEF x, y
      <4>3. (A \o x) \o y = A \o (x \o y)
        BY <4>2, ConcatTwice
      <4> QED
        BY <4>3 DEF x, y
    <3>2. IsSeq(f[j - 1] \o Q[j])
      BY <1>6, <2>2, ConcatIsSeq
    <3> QED
      BY <2>2, <3>1, <3>2
  <2>4. IsSeq(s) /\ TableInv(v, name, s, setup.big)
    BY <1>6
  <2> HIDE DEF s, v
  <2>5. /\ IsSeq(s \o ConstNotes(P[j]))
        /\ TableInv(IF P[j].name = name THEN init_table_const_entries(v, P[j]) ELSE v,
                    name, s \o ConstNotes(P[j]), setup.big)
    BY <1>4, <2>1, <2>4, FillKeeps
  <2>6. Now(j) = IF P[j].name = name THEN init_table_const_entries(v, P[j]) ELSE v
    <3>1. CASE j = m
      <4>1. ~(m <= j - 1) /\ m <= j
        BY <1>1, <3>1
      <4> QED
        BY <1>4, <2>1, <3>1, <4>1 DEF u, v
    <3>2. CASE j # m
      <4>1. m <= j - 1 <=> m <= j
        BY <1>1, <3>2
      <4> QED
        BY <1>4, <2>1, <3>2, <4>1 DEF v
    <3> QED
      BY <3>1, <3>2
  <2> HIDE DEF Now, name
  <2> QED
    BY <2>3, <2>5, <2>6
<1> HIDE DEF Good
<1>7. Bad = {}
  <2> SUFFICES ASSUME Bad # {} PROVE FALSE
    OBVIOUS
  <2>1. PICK x \in Bad : \A n \in Bad : x <= n
    <3>1. Bad \subseteq Nat
      BY <1>1
    <3> HIDE DEF Bad
    <3> QED
      BY <3>1, LeastExists
  <2>2. x # 1
    BY <1>5
  <2>3. x \in 2 .. N /\ x - 1 \in 1 .. N /\ x - 1 \notin Bad
    <3>1. x \in Nat /\ x <= N /\ 1 <= x
      BY <1>1
    <3>2. x \in 2 .. N /\ x - 1 \in 1 .. N /\ ~(x <= x - 1)
      BY <1>1, <2>2, <3>1
    <3> HIDE DEF Bad
    <3> QED
      BY <2>1, <3>2
  <2>4. Good(x - 1)
    BY <2>3
  <2> QED
    BY <1>6, <2>3, <2>4
<1>8. Good(N)
  <2>1. N \in 1 .. N
    BY <1>1
  <2> QED
    BY <1>7, <2>1
<1>9. m <= N
  BY <1>1
<1> QED
  BY <1>3, <1>8, <1>9 DEF Good, F, Q, u
-----------------------------------------------------------------------------
\* The main thread finds the line of a table by its name.
LEMMA ConfigIs ==
    ASSUME setup \in Setups
    PROVE  /\ IsProgram(Program) /\ Names(setup) = {Program[i].name : i \in DOMAIN Program}
           /\ \A i \in DOMAIN Program : /\ Config(Program[i].name) = Program[i]
                                        /\ Program[i].type \in {"exact", "lpm"}
                                        /\ Program[i].key_size \in Nat
                                        /\ Program[i].max_size \in Nat \ {0}
<1> DEFINE P == setup.program
<1>1. /\ IsSeq(P)
      /\ \A i, j \in DOMAIN P : P[i].name = P[j].name => i = j
      /\ \A i \in DOMAIN P : /\ P[i].type \in {"exact", "lpm"} /\ P[i].key_size \in Nat
                             /\ P[i].max_size \in Nat \ {0} /\ IsSeq(P[i].const)
  BY ProgramAssumption
<1> HIDE DEF P
<1>2. IsProgram(P)
  BY <1>1 DEF IsProgram
<1>3. Range(P) = {P[i] : i \in DOMAIN P}
  BY DEF Range
<1>4. ASSUME NEW i \in DOMAIN P
      PROVE  (CHOOSE t \in Range(P) : t.name = P[i].name) = P[i]
  <2>1. P[i] \in Range(P) /\ \A t \in Range(P) : t.name = P[i].name => t = P[i]
    BY <1>1, <1>3
  <2> QED
    BY <2>1
<1>5. {t.name : t \in Range(P)} = {P[i].name : i \in DOMAIN P}
  BY <1>3
<1> QED
  BY <1>1, <1>2, <1>4, <1>5 DEF P, Names, Config, Program

\* No notes are a sequence.
LEMMA NoNotes == IsSeq(<< >>) /\ DOMAIN << >> = {}
BY DEF IsSeq

\* create_tables_on_lcore and init_table_const_entries, for all tables.
LEMMA InitTablesKeeps ==
    ASSUME IInv, init_tables
    PROVE  IInv'
<1> DEFINE fresh == create_tables_on_lcore
           F == FlattenSeq([i \in DOMAIN Program |-> ConstNotes(Program[i])])
           N == Names(setup)
<1>1. setup \in Setups /\ IsSeq(added)
  BY DEF IInv
<1>2. N = {t.name : t \in Range(Program)}
  BY DEF Names, Program
<1>3. DOMAIN fresh = N /\ \A name \in N : TableInv(fresh[name], name, added, setup.big)
  <2>1. CASE tables = << >>
    <3>1. added = << >>
      <4>1. CASE N = {}
        BY <4>1 DEF IInv
      <4>2. CASE N # {}
        <5>1. DOMAIN tables # N
          BY <2>1, <4>2, NoNotes
        <5>2. DOMAIN [name \in N |-> tables[name]] = N
          OBVIOUS
        <5> QED
          BY <5>1, <5>2 DEF IInv
      <4> QED
        BY <4>1, <4>2
    <3>2. fresh = [name \in N |-> create_table(Config(name))]
      BY <1>2, <2>1 DEF create_tables_on_lcore
    <3>3. ASSUME NEW name \in N
          PROVE  TableInv(create_table(Config(name)), name, << >>, setup.big)
      <4> DEFINE c == Config(name)
                 t == create_table(c)
      <4>1. c.type \in {"exact", "lpm"} /\ c.key_size \in Nat /\ c.max_size \in Nat \ {0}
        BY <1>1, <3>3, ConfigIs
      <4> HIDE DEF c
      <4>2. IsTable(t) /\ t.hash = << >> /\ t.rules = {}
        BY <4>1 DEF create_table, IsTable
      <4> HIDE DEF t
      <4> QED
        BY <4>2, EmptyHolds DEF t, c
    <3> QED
      BY <3>1, <3>2, <3>3
  <2>2. CASE tables # << >>
    <3>1. fresh = tables
      BY <2>2 DEF create_tables_on_lcore
    <3>2. /\ tables = [name \in N |-> tables[name]]
          /\ \A name \in N : TableInv(tables[name], name, added, setup.big)
      BY <2>2 DEF IInv
    <3> QED
      BY <3>1, <3>2
  <2> QED
    BY <2>1, <2>2
<1>4. /\ tables' = [name \in DOMAIN fresh |-> init_table_const_entries(fresh[name], Config(name))]
      /\ added' = added \o F /\ setup' = setup
  BY DEF init_tables
<1>5. ASSUME NEW name \in N
      PROVE  /\ TableInv(init_table_const_entries(fresh[name], Config(name)), name,
                         added \o F, setup.big)
             /\ IsSeq(added \o F)
  <2>1. PICK m \in DOMAIN Program : name = Program[m].name
    BY <1>1, <1>5, ConfigIs
  <2>2. Config(name) = Program[m] /\ IsProgram(Program)
    BY <1>1, <2>1, ConfigIs
  <2>3. TableInv(fresh[name], Program[m].name, added, setup.big)
    BY <1>3, <2>1
  <2> HIDE DEF fresh, F
  <2> QED
    BY <1>1, <2>1, <2>2, <2>3, FillAllKeeps DEF F
<1>6. CASE N = {}
  <2>1. added = << >>
    BY <1>6 DEF IInv
  <2>2. IsSeq(Program) /\ DOMAIN Program = {}
    <3>1. IsProgram(Program) /\ Names(setup) = {Program[i].name : i \in DOMAIN Program}
      BY <1>1, ConfigIs
    <3> QED
      BY <1>6, <3>1 DEF IsProgram
  <2>3. [i \in DOMAIN Program |-> ConstNotes(Program[i])] = << >>
    BY <2>2
  <2>4. F = << >>
    BY <2>3 DEF FlattenSeq
  <2> HIDE DEF F, fresh
  <2>5. added' = << >>
    BY <1>4, <2>1, <2>4
  <2>6. tables' = << >>
    BY <1>3, <1>4, <1>6
  <2> QED
    BY <1>1, <1>4, <2>5, <2>6, NoNotes DEF IInv
<1>7. CASE N # {}
  <2> HIDE DEF fresh, F
  <2>1. tables' = [name \in N |-> tables'[name]] /\ Names(setup)' = N
    BY <1>3, <1>4 DEF Names
  <2>2. \A name \in N : TableInv(tables'[name], name, added', setup'.big)
    BY <1>3, <1>4, <1>5
  <2>3. IsSeq(added')
    BY <1>4, <1>5, <1>7
  <2> QED
    BY <1>1, <1>4, <1>7, <2>1, <2>2, <2>3 DEF IInv
<1> QED
  BY <1>6, <1>7

\* An entry of the controller is put into its table.
LEMMA AddEntryKeeps ==
    ASSUME IInv, NEW m, ctrl_add_table_entry(m), setup' = setup
    PROVE  IInv'
<1>1. CASE UNCHANGED <<tables, added>>
  BY <1>1 DEF IInv, Names
<1>2. CASE m.table \in DOMAIN tables /\ setup_entry(m)
  <2>1. PICK key, depth, entry :
          /\ tables' = [tables EXCEPT ![m.table] = TableAdd(@, key, depth, entry)]
          /\ added' = Append(added, Noted(m.table, key, depth, entry))
    BY <1>2 DEF ctrl_add_table_entry
  <2> DEFINE n == Noted(m.table, key, depth, entry)
  <2>2. n.table = m.table /\ n.key = key /\ n.depth = depth /\ n.entry = entry
    BY DEF Noted
  <2> HIDE DEF n
  <2>3. IsSeq(added) /\ IsSeq(added') /\ Grown(added, added', Len(added), n)
    BY <2>1, AppendGrows DEF IInv, n
  <2>4. /\ Names(setup) # {} /\ tables = [name \in Names(setup) |-> tables[name]]
        /\ \A name \in Names(setup) : TableInv(tables[name], name, added, setup.big)
    BY <1>2, NoNotes DEF IInv
  <2>5. ASSUME NEW name \in Names(setup)
        PROVE  TableInv(tables'[name], name, added', setup.big)
    <3>1. TableInv(IF n.table = name THEN TableAdd(tables[name], n.key, n.depth, n.entry)
                   ELSE tables[name], name, added', setup.big)
      BY <2>3, <2>4, AddKeeps
    <3>2. tables'[name] = IF n.table = name
                          THEN TableAdd(tables[name], n.key, n.depth, n.entry)
                          ELSE tables[name]
      BY <2>1, <2>2, <2>4
    <3> QED
      BY <3>1, <3>2
  <2>6. tables' = [name \in Names(setup) |-> tables'[name]]
    BY <2>1, <2>4
  <2> QED
    BY <2>3, <2>4, <2>5, <2>6 DEF IInv, Names
<1> QED
  BY <1>1, <1>2 DEF ctrl_add_table_entry

\* The default action of a table is none of its entries.
LEMMA DefaultKeeps ==
    ASSUME NEW t, NEW name, NEW A, NEW big, TableInv(t, name, A, big), NEW e
    PROVE  TableInv(table_set_default_action(t, e), name, A, big)
<1> DEFINE u == table_set_default_action(t, e)
<1>1. IsTable(t)
  BY DEF TableInv
<1>2. /\ IsTable(u) /\ u.type = t.type /\ u.key_size = t.key_size /\ u.max_size = t.max_size
      /\ u.hash = t.hash /\ u.rules = t.rules /\ u.content = t.content /\ u.size = t.size
  BY <1>1 DEF table_set_default_action, IsTable
<1> HIDE DEF u
<1>3. LpmBits(u) = LpmBits(t) /\ \A key : LpmKey(u, key, big) = LpmKey(t, key, big)
  BY <1>2 DEF LpmBits, LpmKey
<1>4. \A r : SameRule(r, u, name, A, big) = SameRule(r, t, name, A, big)
  BY <1>3 DEF SameRule
<1>5. ExactHolds(t, name, A) => ExactHolds(u, name, A)
  BY <1>2 DEF ExactHolds
<1>6. LpmHolds(t, name, A, big) => LpmHolds(u, name, A, big)
  BY <1>2, <1>3, <1>4 DEF LpmHolds
<1>7. IsFake(u) = IsFake(t) /\ FitsIn(u, name, A) = FitsIn(t, name, A)
  BY <1>2 DEF IsFake, FitsIn
<1> QED
  BY <1>2, <1>5, <1>6, <1>7 DEF TableInv, u

\* Tables with a default action set, whichever.
LEMMA SetDefaultKeeps ==
    ASSUME IInv, NEW x, NEW e, setup' = setup, added' = added,
           tables' = [tables EXCEPT ![x] = table_set_default_action(@, e)]
    PROVE  IInv'
<1>1. CASE tables = << >> /\ added = << >>
  <2>1. tables' = << >>
    BY <1>1, NoNotes
  <2> QED
    BY <1>1, <2>1 DEF IInv
<1>2. CASE /\ Names(setup) # {} /\ tables = [name \in Names(setup) |-> tables[name]]
           /\ \A name \in Names(setup) : TableInv(tables[name], name, added, setup.big)
  <2>1. ASSUME NEW name \in Names(setup) PROVE TableInv(tables'[name], name, added, setup.big)
    <3>1. CASE name = x
      <4>1. tables'[name] = table_set_default_action(tables[name], e)
        BY <1>2, <3>1
      <4> QED
        BY <1>2, <4>1, DefaultKeeps
    <3>2. CASE name # x
      <4>1. tables'[name] = tables[name]
        BY <1>2, <3>2
      <4> QED
        BY <1>2, <4>1
    <3> QED
      BY <3>1, <3>2
  <2>2. tables' = [name \in Names(setup) |-> tables'[name]]
    BY <1>2
  <2> QED
    BY <1>2, <2>1, <2>2 DEF IInv, Names
<1> QED
  BY <1>1, <1>2 DEF IInv

\* flush_tables empties every table.
LEMMA FlushKeeps ==
    ASSUME IInv, flush_tables
    PROVE  IInv'
<1>1. /\ tables' = [name \in DOMAIN tables |-> flush_table(tables[name])]
      /\ added' = << >> /\ setup' = setup
  BY DEF flush_tables
<1>2. CASE tables = << >> /\ added = << >>
  <2>1. tables' = << >>
    BY <1>1, <1>2, NoNotes
  <2> QED
    BY <1>1, <2>1, NoNotes DEF IInv
<1>3. CASE /\ Names(setup) # {} /\ tables = [name \in Names(setup) |-> tables[name]]
           /\ \A name \in Names(setup) : TableInv(tables[name], name, added, setup.big)
  <2>1. ASSUME NEW name \in Names(setup)
        PROVE  TableInv(flush_table(tables[name]), name, << >>, setup.big)
    <3> DEFINE t == tables[name]
               u == flush_table(t)
    <3>1. IsTable(t)
      BY <1>3 DEF TableInv
    <3> HIDE DEF t
    <3>2. /\ IsTable(u) /\ IsFake(u) = IsFake(t) /\ u.type = t.type
          /\ ~IsFake(t) => /\ t.type = "exact" => u.hash = << >>
                           /\ t.type = "lpm" => u.rules = {}
      BY <3>1 DEF flush_table, exact_flush, lpm_flush, IsTable, IsFake
    <3> HIDE DEF u
    <3>3. CASE IsFake(t)
      BY <3>2, <3>3 DEF TableInv, t, u
    <3>4. CASE ~IsFake(t)
      BY <3>2, <3>4, EmptyHolds DEF t, u
    <3> QED
      BY <3>3, <3>4
  <2>2. tables' = [name \in Names(setup) |-> tables'[name]]
    BY <1>1, <1>3
  <2>3. ASSUME NEW name \in Names(setup) PROVE TableInv(tables'[name], name, added', setup.big)
    <3>1. tables'[name] = flush_table(tables[name])
      BY <1>1, <1>3
    <3> QED
      BY <1>1, <2>1, <3>1
  <2> QED
    BY <1>1, <1>3, <2>2, <2>3, NoNotes DEF IInv, Names
<1> QED
  BY <1>2, <1>3 DEF IInv

\* Every step of the switch, the controller and the thread between them.
LEMMA StepTables == IInv /\ [Next]_vars => IInv'
<1> SUFFICES ASSUME IInv, [Next]_vars PROVE IInv'
  OBVIOUS
<1>1. CASE UNCHANGED <<setup, tables, added>>
  BY <1>1 DEF IInv, Names
<1>2. CASE init_tables
  BY <1>2, InitTablesKeeps
<1>3. CASE launch_backend \/ LaunchReturns \/ CheckDefault \/ Digest \/ UNCHANGED vars
  <2>1. UNCHANGED <<setup, tables, added>>
    BY <1>3 DEF launch_backend, LaunchReturns, CheckDefault, Digest, vars, history
  <2> QED
    BY <1>1, <2>1
<1>4. CASE setdefault
  BY <1>4, SetDefaultKeeps DEF setdefault, history
<1>5. CASE flush_tables
  BY <1>5, FlushKeeps
<1>6. CASE recv_from_controller
  <2> DEFINE m == handle_p4_msg(Head(chan), setup.big)
  <2>1. setup' = setup /\ \/ ctrl_add_table_entry(m) \/ ctrl_setdefault(m)
                          \/ UNCHANGED <<tables, added>>
    BY <1>6 DEF recv_from_controller
  <2> HIDE DEF m
  <2>2. CASE ctrl_add_table_entry(m)
    BY <2>1, <2>2, AddEntryKeeps
  <2>3. CASE ctrl_setdefault(m)
    <3>1. CASE UNCHANGED <<tables, added>>
      BY <1>1, <2>1, <3>1
    <3>2. CASE /\ added' = added
               /\ tables' = [tables EXCEPT ![m.table] =
                               table_set_default_action(@, make_set_default_table_entry(m))]
      BY <2>1, <3>2, SetDefaultKeeps
    <3> QED
      BY <2>3, <3>1, <3>2 DEF ctrl_setdefault
  <2>4. CASE UNCHANGED <<tables, added>>
    BY <1>1, <2>1, <2>4
  <2> QED
    BY <2>1, <2>2, <2>3, <2>4
<1> QED
  BY <1>2, <1>3, <1>4, <1>5, <1>6 DEF Next

\* The tables have what was added to them, in every state.
THEOREM TablesHold == Spec => []IInv
<1>1. Init => IInv
  BY NoNotes DEF Init, IInv
<1> QED
  BY <1>1, StepTables, PTL DEF Spec
-----------------------------------------------------------------------------
\* The newest of some notes is the one with the largest number.
LEMMA MaxIsNewest ==
    ASSUME NEW k \in Nat, NEW T \in SUBSET (1 .. k), T # {}
    PROVE  Newest(Max(T), T)
<1>1. PICK e \in T : TRUE
  OBVIOUS
<1>2. T \in SUBSET (0 .. k)
  OBVIOUS
<1>3. \E x \in T : \A y \in T : y <= x
  BY <1>1, <1>2, GreatestExists
<1>4. \A x, y \in T : (y <= x) <=> (x >= y)
  BY <1>2
<1>5. \E x \in T : \A y \in T : x >= y
  BY <1>3, <1>4
<1>6. Max(T) \in T /\ \A y \in T : Max(T) >= y
  BY <1>5 DEF Max
<1> QED
  BY <1>4, <1>6 DEF Newest

\* A lookup in an exact table.
LEMMA ExactFinds ==
    ASSUME NEW t, IsTable(t), ~IsFake(t), NEW name, NEW A, IsSeq(A), NEW key,
           ExactHolds(t, name, A), FitsIn(t, name, A)
    PROVE  LET covers == SameKey(key, name, A)
           IN  exact_lookup(t, key) = IF covers = {} THEN t.default_val ELSE A[Max(covers)].entry
<1> DEFINE h == t.hash
           covers == SameKey(key, name, A)
<1>1. /\ IsSeq(h) /\ Len(h) <= Cardinality(Pairs(name, A))
      /\ \A p, q \in DOMAIN h : h[p] = h[q] => p = q
      /\ \A p \in DOMAIN h : SameKey(h[p], name, A) # {}
      /\ \A i \in Of(name, A) : \E p \in DOMAIN h : h[p] = A[i].key
      /\ \A p \in DOMAIN h : \A i \in DOMAIN A :
            Newest(i, SameKey(h[p], name, A)) => t.content[p - 1] = A[i].entry
  BY DEF ExactHolds
<1>2. Len(A) \in Nat /\ DOMAIN A = 1 .. Len(A) /\ Len(h) \in Nat
  BY <1>1, LenProperties DEF IsSeq
<1>3. covers \subseteq DOMAIN A /\ covers \subseteq Of(name, A)
  BY DEF SameKey, Of
<1>4. CASE covers = {}
  <2>1. \A p \in DOMAIN h : h[p] # key
    BY <1>1, <1>4
  <2>2. rte_hash_lookup(h, key) = -1
    BY <1>1, <2>1, NotFound
  <2> QED
    BY <1>4, <2>2 DEF exact_lookup
<1>5. CASE covers # {}
  <2>1. PICK i \in covers : TRUE
    BY <1>5
  <2>2. PICK p \in DOMAIN h : h[p] = key
    <3>1. A[i].key = key /\ i \in Of(name, A)
      BY <2>1 DEF SameKey
    <3> QED
      BY <1>1, <3>1
  <2>3. rte_hash_lookup(h, key) = p - 1 /\ p \in Nat \ {0} /\ p <= Len(h)
    BY <1>1, <2>2, FoundAt
  <2>4. Len(h) <= t.max_size /\ t.max_size \in Nat \ {0}
    <3>1. t.max_size \in Nat \ {0}
      BY DEF IsTable
    <3>2. LET m == Min({t.max_size, HASH_ENTRIES}) IN m \in Nat /\ m <= t.max_size
      BY <3>1, HashEntriesAssumption, MinOfTwo
    <3>3. Cardinality(Pairs(name, A)) \in Nat
      BY <1>2, PairsFinite
    <3>4. Cardinality(Pairs(name, A)) <= Min({t.max_size, HASH_ENTRIES})
      BY DEF FitsIn
    <3> DEFINE c == Cardinality(Pairs(name, A))
               m == Min({t.max_size, HASH_ENTRIES})
    <3>5. c \in Nat /\ c <= m /\ m \in Nat /\ m <= t.max_size /\ Len(h) <= c
      BY <1>1, <3>2, <3>3, <3>4
    <3> HIDE DEF c, m, h
    <3> QED
      BY <1>2, <3>1, <3>5
  <2>5. (p - 1) % t.max_size = p - 1 /\ ~(p - 1 < 0)
    <3> HIDE DEF h
    <3> QED
      BY <1>2, <2>3, <2>4
  <2>6. Newest(Max(covers), covers)
    <3> HIDE DEF covers
    <3> QED
      BY <1>2, <1>3, <1>5, MaxIsNewest
  <2>7. t.content[p - 1] = A[Max(covers)].entry
    <3>1. Max(covers) \in DOMAIN A
      BY <1>3, <2>6 DEF Newest
    <3> QED
      BY <1>1, <2>2, <2>6, <3>1
  <2>8. exact_lookup(t, key) = t.content[p - 1]
    BY <2>3, <2>5 DEF exact_lookup
  <2> QED
    BY <1>5, <2>7, <2>8
<1> QED
  BY <1>4, <1>5

\* The notes of the prefixes of a key, and of some notes those of the longest.
Covers(key, t, name, A, big) ==
  {i \in Of(name, A) : /\ A[i].depth \in 1 .. LpmBits(t)
                       /\ SamePrefix(LpmKey(t, A[i].key, big), LpmKey(t, key, big), A[i].depth)}
Longest(S, A) == {i \in S : \A j \in S : A[j].depth <= A[i].depth}

\* A lookup in an LPM table: the longest prefix that was added, and of its notes
\* the newest.
LEMMA LpmFinds ==
    ASSUME NEW t, IsTable(t), ~IsFake(t), NEW name, NEW A, IsSeq(A), NEW key, NEW big,
           LpmHolds(t, name, A, big)
    PROVE  LET covers == Covers(key, t, name, A, big)
           IN  lpm_lookup(t, key, big) =
                 IF covers = {} THEN t.default_val ELSE A[Max(Longest(covers, A))].entry
<1> DEFINE K(x) == LpmKey(t, x, big)
           bits == LpmBits(t)
           R == t.rules
           covers == {i \in Of(name, A) : /\ A[i].depth \in 1 .. bits
                                          /\ SamePrefix(K(A[i].key), K(key), A[i].depth)}
           best == {i \in covers : \A j \in covers : A[j].depth <= A[i].depth}
           hits == {r \in R : SamePrefix(r.key, K(key), r.depth)}
           Same(r) == SameRule(r, t, name, A, big)
<1>1. /\ \A r \in R : /\ r.depth \in 1 .. bits /\ r.value \in 0 .. t.size - 1
                      /\ Same(r) # {}
      /\ \A i \in Of(name, A) : A[i].depth \in 1 .. bits => \E r \in R : i \in Same(r)
      /\ \A r \in R : \A i \in DOMAIN A : Newest(i, Same(r)) => t.content[r.value] = A[i].entry
  BY DEF LpmHolds
<1>2. \A r, i : i \in Same(r) <=> /\ i \in Of(name, A) /\ A[i].depth = r.depth
                                  /\ SamePrefix(K(A[i].key), r.key, r.depth)
  BY DEF SameRule
<1>3. Len(A) \in Nat /\ DOMAIN A = 1 .. Len(A)
  BY LenProperties DEF IsSeq
<1>4. bits \in Nat
  BY DEF LpmBits
<1>5. lpm_lookup(t, key, big) =
        LET value == rte_lpm_lookup(R, K(key))
        IN  IF value < 0 THEN t.default_val ELSE t.content[value]
  BY DEF lpm_lookup
<1>6. \A i \in covers : i \in Of(name, A) /\ i \in DOMAIN A
  BY DEF Of
<1> HIDE DEF K, bits, Same

\* What covers the key is what its rule stands for.
<1>7. ASSUME NEW r \in hits, NEW i \in Same(r) PROVE i \in covers /\ A[i].depth = r.depth
  <2>1. /\ i \in Of(name, A) /\ A[i].depth = r.depth /\ SamePrefix(K(A[i].key), r.key, r.depth)
        /\ SamePrefix(r.key, K(key), r.depth) /\ r.depth \in 1 .. bits
    BY <1>1, <1>2, <1>7
  <2>2. SamePrefix(K(A[i].key), K(key), r.depth)
    BY <2>1, SamePrefixIs
  <2> QED
    BY <2>1, <2>2
<1>8. ASSUME NEW i \in covers PROVE \E r \in hits : i \in Same(r) /\ A[i].depth = r.depth
  <2>1. /\ i \in Of(name, A) /\ A[i].depth \in 1 .. bits
        /\ SamePrefix(K(A[i].key), K(key), A[i].depth)
    OBVIOUS
  <2>2. PICK r \in R : i \in Same(r)
    BY <1>1, <2>1
  <2>3. A[i].depth = r.depth /\ SamePrefix(K(A[i].key), r.key, r.depth)
    BY <1>2, <2>2
  <2>4. SamePrefix(r.key, K(key), r.depth)
    BY <2>1, <2>3, SamePrefixIs
  <2> QED
    BY <2>2, <2>3, <2>4
<1>9. CASE covers = {}
  <2>1. \A r \in hits : FALSE
    <3> HIDE DEF covers
    <3> QED
      BY <1>1, <1>7, <1>9
  <2>2. rte_lpm_lookup(R, K(key)) = -1
    BY <2>1 DEF rte_lpm_lookup
  <2> QED
    BY <1>5, <1>9, <2>2 DEF K, bits, Covers
<1>10. CASE covers # {}
  <2>1. hits # {} /\ \A r \in hits : r.depth \in 0 .. bits /\ r.depth \in Nat
    <3>1. hits # {}
      BY <1>8, <1>10
    <3>2. \A d \in 1 .. bits : d \in 0 .. bits /\ d \in Nat
      BY <1>4
    <3> QED
      BY <1>1, <3>1, <3>2
  <2>2. \E r \in hits : \A q \in hits : q.depth <= r.depth
    <3> DEFINE D == {r.depth : r \in hits}
    <3>1. PICK x \in hits : TRUE
      BY <2>1
    <3>2. D \in SUBSET (0 .. bits) /\ x.depth \in D
      BY <2>1
    <3> HIDE DEF D
    <3>3. \E d \in D : \A e \in D : e <= d
      BY <1>4, <3>2, GreatestExists
    <3> QED
      BY <3>3 DEF D
  <2> DEFINE r == CHOOSE x \in hits : \A q \in hits : q.depth <= x.depth
  <2>3. r \in hits /\ \A q \in hits : q.depth <= r.depth
    BY <2>2
  <2>4. rte_lpm_lookup(R, K(key)) = r.value
    BY <2>1 DEF rte_lpm_lookup
  <2> HIDE DEF r
  <2>5. r \in R /\ r.depth \in Nat /\ ~(r.value < 0) /\ Same(r) # {}
    <3>1. r \in R
      BY <2>3
    <3>2. r.value \in 0 .. t.size - 1 /\ r.depth \in Nat
      BY <1>1, <2>1, <2>3, <3>1
    <3>3. t.size \in Nat
      BY DEF IsTable
    <3> QED
      BY <1>1, <3>1, <3>2, <3>3
  <2>6. \A i \in covers : A[i].depth \in Nat /\ A[i].depth <= r.depth
    BY <1>8, <2>1, <2>3
  <2>7. best = Same(r)
    <3>1. ASSUME NEW i \in Same(r) PROVE i \in best
      <4>1. i \in covers /\ A[i].depth = r.depth
        BY <1>7, <2>3
      <4> QED
        BY <2>6, <4>1
    <3>2. ASSUME NEW i \in best PROVE i \in Same(r)
      <4>1. i \in covers
        OBVIOUS
      <4>2. PICK j \in Same(r) : TRUE
        BY <2>5
      <4>3. j \in covers /\ A[j].depth = r.depth
        BY <1>7, <2>3
      <4>4. r.depth <= A[i].depth /\ A[i].depth <= r.depth /\ A[i].depth \in Nat
        BY <2>6, <3>2, <4>1, <4>3
      <4>5. A[i].depth = r.depth
        BY <2>5, <4>4
      <4>6. /\ i \in Of(name, A) /\ SamePrefix(K(A[i].key), K(key), r.depth)
            /\ SamePrefix(r.key, K(key), r.depth)
        BY <2>3, <4>1, <4>5
      <4>7. SamePrefix(K(A[i].key), r.key, r.depth)
        BY <4>6, SamePrefixIs
      <4> QED
        BY <1>2, <4>5, <4>6, <4>7
    <3> HIDE DEF best
    <3> QED
      BY <3>1, <3>2
  <2>8. best \in SUBSET (1 .. Len(A)) /\ best # {}
    <3>1. best \in SUBSET (1 .. Len(A))
      BY <1>3, <1>6
    <3> HIDE DEF best
    <3> QED
      BY <2>5, <2>7, <3>1
  <2> HIDE DEF best
  <2>9. Newest(Max(best), best) /\ Max(best) \in DOMAIN A
    <3>1. Newest(Max(best), best)
      BY <1>3, <2>8, MaxIsNewest
    <3> QED
      BY <1>3, <2>8, <3>1 DEF Newest
  <2>10. t.content[r.value] = A[Max(best)].entry
    BY <1>1, <2>5, <2>7, <2>9
  <2>11. lpm_lookup(t, key, big) = t.content[r.value]
    BY <1>5, <2>4, <2>5
  <2>12. lpm_lookup(t, key, big) = IF covers = {} THEN t.default_val ELSE A[Max(best)].entry
    BY <1>10, <2>10, <2>11
  <2> QED
    BY <2>12 DEF best, K, bits, Covers, Longest
<1> QED
  BY <1>9, <1>10 DEF K, bits, Covers, Longest

\* Any key, looked up in a table that is not too full.
LEMMA TableAgrees ==
    ASSUME IInv, NEW name \in DOMAIN tables, Fits(name), NEW key
    PROVE  lookup(name, key) = Promised(name, key)
<1> DEFINE t == tables[name]
<1>1. IsSeq(added) /\ TableInv(t, name, added, setup.big) /\ name \in Names(setup)
  <2>1. /\ tables = [n \in Names(setup) |-> tables[n]]
        /\ \A n \in Names(setup) : TableInv(tables[n], n, added, setup.big)
    BY NoNotes DEF IInv
  <2>2. name \in Names(setup)
    BY <2>1
  <2> QED
    BY <2>1, <2>2 DEF IInv
<1>2. IsTable(t)
  BY <1>1 DEF TableInv
<1>3. FitsIn(t, name, added)
  <2>1. {<<a.key, a.depth>> : a \in {b \in Range(added) : b.table = name}} = Pairs(name, added)
    BY DEF Pairs, Of, Range
  <2> QED
    BY <2>1 DEF Fits, FitsIn
<1>4. CASE IsFake(t)
  BY <1>4 DEF lookup, exact_lookup, lpm_lookup, Promised
<1>5. CASE ~IsFake(t) /\ t.type = "exact"
  <2>1. {i \in DOMAIN added : added[i].table = name /\ added[i].key = key} = SameKey(key, name, added)
    BY DEF SameKey, Of
  <2>2. ExactHolds(t, name, added)
    BY <1>1, <1>3, <1>5 DEF TableInv
  <2>3. exact_lookup(t, key) = IF SameKey(key, name, added) = {} THEN t.default_val
                               ELSE added[Max(SameKey(key, name, added))].entry
    BY <1>1, <1>2, <1>3, <1>5, <2>2, ExactFinds
  <2>4. Promised(name, key) = IF SameKey(key, name, added) = {} THEN t.default_val
                              ELSE added[Max(SameKey(key, name, added))].entry
    BY <1>5, <2>1 DEF Promised
  <2> QED
    BY <1>5, <2>3, <2>4 DEF lookup
<1>6. CASE ~IsFake(t) /\ t.type # "exact"
  <2> DEFINE covers == Covers(key, t, name, added, setup.big)
             best   == Longest(covers, added)
  <2>1. /\ {i \in DOMAIN added :
              /\ added[i].table = name
              /\ added[i].depth \in 1 .. LpmBits(t)
              /\ SamePrefix(LpmKey(t, added[i].key, setup.big), LpmKey(t, key, setup.big),
                            added[i].depth)} = covers
        /\ {i \in covers : \A j \in covers : added[j].depth <= added[i].depth} = best
    BY DEF Of, Covers, Longest
  <2>2. LpmHolds(t, name, added, setup.big)
    BY <1>1, <1>3, <1>6 DEF TableInv
  <2>3. lpm_lookup(t, key, setup.big) = IF covers = {} THEN t.default_val
                                        ELSE added[Max(best)].entry
    BY <1>1, <1>2, <1>6, <2>2, LpmFinds
  <2>4. Promised(name, key) = IF covers = {} THEN t.default_val ELSE added[Max(best)].entry
    BY <1>6, <2>1 DEF Promised
  <2> QED
    BY <1>6, <2>3, <2>4 DEF lookup
<1> QED
  BY <1>4, <1>5, <1>6

\* Whatever a table was looked up for, it gives what was added last for the key
\* or for the longest of its prefixes, and the default if nothing was.
THEOREM LookupsAreRight == Spec => []LookupsAgree
<1>1. IInv => LookupsAgree
  BY TableAgrees DEF LookupsAgree
<1> QED
  BY <1>1, TablesHold, PTL
-----------------------------------------------------------------------------
\* The messages the controllers build: of a known length, with one match if they add
\* an entry and none otherwise.
Lengths == {8, 266, 654, 914, 1174, 1434}

\* A number of 16 bits.
Short(n) == n \in Nat /\ n <= 65535
IsMatch(x) ==
  /\ x = [type |-> x.type, prefix_length |-> x.prefix_length, bitmap |-> x.bitmap]
  /\ x.prefix_length \in Nat /\ x.prefix_length <= 65535
Fields == {"type", "length", "table", "matches", "action", "params"}
Built(m) ==
  /\ DOMAIN m = Fields /\ m.length \in Lengths /\ IsSeq(m.params) /\ Len(m.params) <= 3
  /\ \/ m.type \in {P4T_CTRL_INITIALIZED, P4T_SET_DEFAULT_ACTION} /\ m.matches = << >>
     \/ m.type = P4T_ADD_TABLE_ENTRY /\ \E x : IsMatch(x) /\ m.matches = <<x>>

\* Messages that say the same, whatever their lengths are.
SameAs(h, m) ==
  /\ DOMAIN h = Fields /\ h.type = m.type /\ h.table = m.table
  /\ h.matches = m.matches /\ h.action = m.action /\ h.params = m.params

\* Numbers of 16 bits converted twice, and matches converted.
LEMMA TwiceConverted ==
    ASSUME NEW n \in Nat, n <= 65535, NEW big \in BOOLEAN
    PROVE  htons(htons(n, big), big) = n /\ htons(n, big) \in Nat /\ htons(n, big) <= 65535
<1>1. PICK a \in Int : a = n % 256
  BY SMT
<1>2. PICK b \in Int : b = n \div 256
  BY SMT
<1>3. a >= 0 /\ a <= 255 /\ b >= 0
  BY <1>1, <1>2, Z3
<1>3a. b <= 255
  BY <1>2, Z3
<1>4. n = 256 * b + a
  BY <1>1, <1>2, Z3
<1>5. PICK h \in Int : h = a * 256 + b
  OBVIOUS
<1>6. h % 256 = b
  BY <1>3, <1>3a, <1>5, Z3
<1>6a. h \div 256 = a
  BY <1>3, <1>3a, <1>5, Z3
<1>7. ~big => htons(n, big) = h
  BY <1>1, <1>2, <1>5 DEF htons
<1>8. ~big => htons(h, big) = b * 256 + a
  BY <1>6, <1>6a DEF htons
<1>9. b * 256 + a = n /\ h \in Nat /\ h <= 65535
  BY <1>3, <1>3a, <1>4, <1>5
<1>10. CASE big
  BY <1>10 DEF htons
<1>11. CASE ~big
  BY <1>11, <1>7, <1>8, <1>9
<1> QED
  BY <1>10, <1>11

\* No match is converted, or the one there is.
LEMMA NoneConverted ==
    ASSUME NEW big
    PROVE  [i \in DOMAIN << >> |-> netconv_p4_field_match_complex(<< >>[i], big)] = << >>
OBVIOUS

LEMMA OneConverted ==
    ASSUME NEW x, NEW big
    PROVE  [i \in DOMAIN <<x>> |-> netconv_p4_field_match_complex(<<x>>[i], big)]
             = <<netconv_p4_field_match_complex(x, big)>>
OBVIOUS

\* A match that is converted twice is as it was.
LEMMA MatchTwice ==
    ASSUME NEW x, NEW big \in BOOLEAN, IsMatch(x)
    PROVE  netconv_p4_field_match_complex(netconv_p4_field_match_complex(x, big), big) = x
<1>1. CASE x.type = "lpm"
  <2> DEFINE n == x.prefix_length
             y == [type |-> x.type, prefix_length |-> htons(n, big), bitmap |-> x.bitmap]
  <2>1. htons(htons(n, big), big) = n
    BY TwiceConverted DEF IsMatch
  <2>2. netconv_p4_field_match_complex(x, big) = y
    BY <1>1 DEF IsMatch, netconv_p4_field_match_complex
  <2>3. netconv_p4_field_match_complex(y, big)
          = [type |-> x.type, prefix_length |-> htons(htons(n, big), big), bitmap |-> x.bitmap]
    BY <1>1 DEF netconv_p4_field_match_complex
  <2> QED
    BY <2>1, <2>2, <2>3 DEF IsMatch
<1>2. CASE x.type # "lpm"
  BY <1>2 DEF netconv_p4_field_match_complex
<1> QED
  BY <1>1, <1>2

\* A message with its matches replaced.
LEMMA NewMatches ==
    ASSUME NEW m, DOMAIN m = Fields, NEW M
    PROVE  LET h == [m EXCEPT !.matches = M]
           IN  /\ DOMAIN h = Fields /\ h.type = m.type /\ h.table = m.table /\ h.matches = M
               /\ h.action = m.action /\ h.params = m.params /\ h.length = m.length
BY DEF Fields

\* A message with its length converted.
LEMMA NewLength ==
    ASSUME NEW m, DOMAIN m = Fields, NEW big
    PROVE  LET h == netconv_p4_header(m, big)
           IN  SameAs(h, m) /\ h.length = htons(m.length, big)
BY DEF Fields, SameAs, netconv_p4_header

\* A message arrives as it was built, on machines of either byte order.
LEMMA Arrives ==
    ASSUME NEW m, Built(m), NEW big \in BOOLEAN
    PROVE  /\ Writable(Converted(m, big), big)
           /\ SameAs(handle_p4_msg(Converted(m, big), big), m)
<1> DEFINE g == netconv_p4_header(m, big)
           c == Converted(m, big)
           M == [i \in DOMAIN m.matches |-> netconv_p4_field_match_complex(m.matches[i], big)]
           h == netconv_p4_header(c, big)
<1>1. m.length \in Lengths /\ DOMAIN m = Fields
  BY DEF Built
<1>2. m.length \in Nat /\ m.length <= 65535 /\ m.length <= MaxLength
  BY <1>1 DEF Lengths, MaxLength
<1>3. htons(htons(m.length, big), big) = m.length
  BY <1>2, TwiceConverted
<1>4. Len(m.params) <= 3 /\ Len(m.params) \in Nat
  BY DEF Built, IsSeq
<1>5. SameAs(g, m) /\ g.length = htons(m.length, big) /\ DOMAIN g = Fields
  BY <1>1, NewLength DEF SameAs
<1>6. /\ DOMAIN c = Fields /\ c.type = m.type /\ c.table = m.table /\ c.matches = M
      /\ c.action = m.action /\ c.params = m.params /\ c.length = htons(m.length, big)
  <2> HIDE DEF g
  <2>1. g.matches = m.matches
    BY <1>5 DEF SameAs
  <2>2. c = [g EXCEPT !.matches = M]
    BY <2>1 DEF Converted, g
  <2> QED
    BY <1>5, <2>2, NewMatches DEF SameAs
<1>7. Writable(c, big)
  BY <1>2, <1>3, <1>6 DEF Writable
<1> HIDE DEF g, c
<1>8. /\ DOMAIN h = Fields /\ h.type = m.type /\ h.table = m.table /\ h.matches = M
      /\ h.action = m.action /\ h.params = m.params /\ h.length = m.length
  BY <1>3, <1>6, NewLength DEF SameAs
<1> HIDE DEF h
<1>9. CASE m.type \in {P4T_CTRL_INITIALIZED, P4T_SET_DEFAULT_ACTION} /\ m.matches = << >>
  <2>1. SameAs(h, m)
    BY <1>8, <1>9, NoneConverted DEF SameAs
  <2>2. ~(Len(m.params) > P4_MAX_NUMBER_OF_ACTION_PARAMETERS) /\ ~(m.length > MaxLength)
    BY <1>2, <1>4 DEF P4_MAX_NUMBER_OF_ACTION_PARAMETERS, MaxLength
  <2>3. m.type # P4T_ADD_TABLE_ENTRY
    BY <1>9 DEF P4T_CTRL_INITIALIZED, P4T_SET_DEFAULT_ACTION, P4T_ADD_TABLE_ENTRY
  <2>4. handle_p4_msg(c, big) = h
    BY <1>8, <2>2, <2>3 DEF handle_p4_msg, handle_p4_set_default_action, h
  <2> QED
    BY <1>7, <2>1, <2>4 DEF c
<1>10. CASE m.type = P4T_ADD_TABLE_ENTRY /\ \E x : IsMatch(x) /\ m.matches = <<x>>
  <2>1. PICK x : IsMatch(x) /\ m.matches = <<x>>
    BY <1>10
  <2> DEFINE y == netconv_p4_field_match_complex(x, big)
             N == [i \in DOMAIN h.matches |-> netconv_p4_field_match_complex(h.matches[i], big)]
  <2>2. h.matches = <<y>>
    BY <1>8, <2>1, OneConverted
  <2>3. N = m.matches
    <3>1. N = <<netconv_p4_field_match_complex(y, big)>>
      BY <2>2, OneConverted
    <3> QED
      BY <2>1, <3>1, MatchTwice
  <2>4. Len(h.matches) = 1 /\ Len(h.params) <= 3 /\ Len(h.params) \in Nat
    BY <1>4, <1>8, <2>2
  <2>5. SameAs([h EXCEPT !.matches = N], m)
    <3> HIDE DEF N
    <3> QED
      BY <1>8, <2>3, NewMatches DEF SameAs
  <2>6. h.type = P4T_ADD_TABLE_ENTRY /\ ~(h.length > MaxLength)
    BY <1>2, <1>8, <1>10 DEF MaxLength
  <2>7. SameAs(handle_p4_add_table_entry(h, big), m)
    <3>1. /\ ~(Len(h.matches) > P4_MAX_NUMBER_OF_FIELD_MATCHES)
          /\ ~(Len(h.params) > P4_MAX_NUMBER_OF_ACTION_PARAMETERS)
      BY <2>4 DEF P4_MAX_NUMBER_OF_FIELD_MATCHES, P4_MAX_NUMBER_OF_ACTION_PARAMETERS
    <3>2. handle_p4_add_table_entry(h, big) = [h EXCEPT !.matches = N]
      BY <3>1 DEF handle_p4_add_table_entry
    <3> QED
      BY <2>5, <3>2
  <2>8. h.type # P4T_SET_DEFAULT_ACTION
    BY <2>6 DEF P4T_SET_DEFAULT_ACTION, P4T_ADD_TABLE_ENTRY
  <2>9. handle_p4_msg(c, big) = handle_p4_add_table_entry(h, big)
    BY <2>6, <2>8 DEF handle_p4_msg, h
  <2> QED
    BY <1>7, <2>7, <2>9 DEF c
<1> QED
  BY <1>9, <1>10 DEF Built

\* The messages of the senders.
Adds(m, table, match, action, params) ==
  /\ Built(m) /\ m.type = P4T_ADD_TABLE_ENTRY /\ m.table = table /\ m.matches = <<match>>
  /\ m.action = action /\ m.params = params

\* The sizes of the parts of the messages.
LEMMA Sizes ==
    /\ AddTableEntrySize = 137 /\ SetDefaultActionSize = 266 /\ 137 + FieldMatchSize = 524
    /\ 524 + ActionSize = 654 /\ ActionParameterSize = 260
BY DEF AddTableEntrySize, SetDefaultActionSize, FieldMatchSize, ActionSize,
   ActionParameterSize, HeaderSize

\* No parameters are a sequence of them.
LEMMA NoParams == IsSeq(<< >>) /\ Len(<< >>) = 0
BY NoNotes

\* A message that adds an entry, before its match, and before its action.
Added(m, table, length, M, action, params) ==
  /\ DOMAIN m = Fields /\ m.type = P4T_ADD_TABLE_ENTRY /\ m.table = table /\ m.length = length
  /\ m.matches = M /\ m.action = action /\ m.params = params

\* create_p4_add_table_entry.
LEMMA EntryIs ==
    ASSUME NEW table
    PROVE  Added(create_p4_add_table_entry(table), table, 137, << >>, Unset, << >>)
<1>1. DOMAIN create_p4_header = Fields /\ create_p4_header.action = Unset
      /\ create_p4_header.matches = << >> /\ create_p4_header.params = << >>
  BY DEF create_p4_header, Fields
<1> QED
  BY <1>1, Sizes DEF create_p4_add_table_entry, Added, Fields

\* add_p4_field_match_exact and add_p4_field_match_lpm.
LEMMA MatchAdded ==
    ASSUME NEW table, NEW m, Added(m, table, 137, << >>, Unset, << >>), NEW x
    PROVE  Added([m EXCEPT !.length = @ + FieldMatchSize, !.matches = Append(@, x)],
                 table, 524, <<x>>, Unset, << >>)
<1>1. Append(<< >>, x) = <<x>>
  OBVIOUS
<1> QED
  BY <1>1, Sizes DEF Added, Fields

\* add_p4_action, with the parameters.
LEMMA ActionAdded ==
    ASSUME NEW table, NEW match, NEW action, NEW params, IsMatch(match),
           IsSeq(params), Len(params) <= 3,
           NEW m, Added(m, table, 524, <<match>>, Unset, << >>)
    PROVE  Adds(WithAction(m, action, params), table, match, action, params)
<1> DEFINE n == Len(params)
           a == add_p4_action(m, action)
           r == WithAction(m, action, params)
<1>1. n \in {0, 1, 2, 3}
  <2>1. n \in Nat
    BY DEF IsSeq
  <2> HIDE DEF n
  <2>2. n <= 3
    BY DEF n
  <2> QED
    BY <2>1, <2>2
<1>2. << >> \o params = params
  <2>1. params \in Seq(Range(params))
    BY DEF IsSeq
  <2> QED
    BY <2>1
<1>3. Added(a, table, 654, <<match>>, action, << >>)
  BY Sizes DEF add_p4_action, Added, Fields
<1> HIDE DEF a
<1>4. Added(r, table, 654 + n * 260, <<match>>, action, params)
  BY <1>2, <1>3, Sizes DEF WithAction, add_p4_action_parameter, Added, Fields, a
<1> HIDE DEF r
<1>5. r.length \in Lengths
  BY <1>1, <1>4 DEF Lengths, Added
<1>6. r.params = params /\ r.matches = <<match>> /\ r.type = P4T_ADD_TABLE_ENTRY /\ DOMAIN r = Fields
  BY <1>4 DEF Added
<1>7. Built(r)
  BY <1>5, <1>6 DEF Built
<1> QED
  BY <1>4, <1>6, <1>7 DEF Adds, Added, r

\* The one message of an exact entry.
LEMMA ExactIs ==
    ASSUME NEW table, NEW bitmap, NEW action, NEW params, IsSeq(params), Len(params) <= 3
    PROVE  \E m : /\ Exact(table, bitmap, action, params) = <<m>>
                  /\ Adds(m, table, [type |-> "exact", prefix_length |-> 0, bitmap |-> bitmap],
                          action, params)
<1> DEFINE match == [type |-> "exact", prefix_length |-> 0, bitmap |-> bitmap]
           m == add_p4_field_match_exact(create_p4_add_table_entry(table), bitmap)
<1>1. IsMatch(match)
  BY DEF IsMatch
<1>2. Added(m, table, 524, <<match>>, Unset, << >>)
  <2> DEFINE e == create_p4_add_table_entry(table)
  <2>1. Added(e, table, 137, << >>, Unset, << >>)
    BY EntryIs
  <2>2. m = [e EXCEPT !.length = @ + FieldMatchSize, !.matches = Append(@, match)]
    BY DEF add_p4_field_match_exact
  <2> HIDE DEF e, m, match
  <2>3. Added([e EXCEPT !.length = @ + FieldMatchSize, !.matches = Append(@, match)],
              table, 524, <<match>>, Unset, << >>)
    BY ONLY <2>1, MatchAdded
  <2> QED
    BY <2>2, <2>3
<1>3. Exact(table, bitmap, action, params) = <<WithAction(m, action, params)>>
  BY DEF Exact
<1> HIDE DEF m, match
<1>4. Adds(WithAction(m, action, params), table, match, action, params)
  BY <1>1, <1>2, ActionAdded
<1> QED
  BY <1>3, <1>4 DEF match

\* The one message of an LPM entry.
LEMMA LpmIs ==
    ASSUME NEW table, NEW bitmap, NEW prefix, Short(prefix), NEW action, NEW params,
           IsSeq(params), Len(params) <= 3
    PROVE  \E m : /\ Lpm(table, bitmap, prefix, action, params) = <<m>>
                  /\ Adds(m, table, [type |-> "lpm", prefix_length |-> prefix, bitmap |-> bitmap],
                          action, params)
<1> DEFINE match == [type |-> "lpm", prefix_length |-> prefix, bitmap |-> bitmap]
           m == add_p4_field_match_lpm(create_p4_add_table_entry(table), bitmap, prefix)
<1>1. IsMatch(match)
  BY DEF IsMatch, Short
<1>2. Added(m, table, 524, <<match>>, Unset, << >>)
  <2> DEFINE e == create_p4_add_table_entry(table)
  <2>1. Added(e, table, 137, << >>, Unset, << >>)
    BY EntryIs
  <2>2. m = [e EXCEPT !.length = @ + FieldMatchSize, !.matches = Append(@, match)]
    BY DEF add_p4_field_match_lpm
  <2> HIDE DEF e, m, match
  <2>3. Added([e EXCEPT !.length = @ + FieldMatchSize, !.matches = Append(@, match)],
              table, 524, <<match>>, Unset, << >>)
    BY ONLY <2>1, MatchAdded
  <2> QED
    BY <2>2, <2>3
<1>3. Lpm(table, bitmap, prefix, action, params) = <<WithAction(m, action, params)>>
  BY DEF Lpm
<1> HIDE DEF m, match
<1>4. Adds(WithAction(m, action, params), table, match, action, params)
  BY <1>1, <1>2, ActionAdded
<1> QED
  BY <1>3, <1>4 DEF match

\* create_p4_set_default_action.
LEMMA DefaultIs ==
    ASSUME NEW table, NEW action
    PROVE  LET m == create_p4_set_default_action(table, action)
           IN  /\ Built(m) /\ m.type = P4T_SET_DEFAULT_ACTION
               /\ m.table = table /\ m.action = action
<1> DEFINE m == create_p4_set_default_action(table, action)
<1>1. DOMAIN create_p4_header = Fields
      /\ create_p4_header.matches = << >> /\ create_p4_header.params = << >>
  BY DEF create_p4_header, Fields
<1>2. /\ DOMAIN m = Fields /\ m.type = P4T_SET_DEFAULT_ACTION /\ m.table = table
      /\ m.action = action /\ m.length = 266 /\ m.matches = << >> /\ m.params = << >>
  BY <1>1, Sizes DEF create_p4_set_default_action, Fields
<1> HIDE DEF m
<1>3. m.length \in Lengths
  BY <1>2 DEF Lengths
<1> QED
  BY <1>2, <1>3, NoParams DEF Built, m

\* The one message of notify_controller_initialized.
LEMMA InitializedIs ==
    \E m : /\ notify_controller_initialized = <<m>>
          /\ Built(m) /\ m.type = P4T_CTRL_INITIALIZED
<1> DEFINE m == [create_p4_header EXCEPT !.type = P4T_CTRL_INITIALIZED]
<1>1. DOMAIN create_p4_header = Fields /\ create_p4_header.length = 8
      /\ create_p4_header.matches = << >> /\ create_p4_header.params = << >>
  BY DEF create_p4_header, Fields, HeaderSize
<1>2. /\ DOMAIN m = Fields /\ m.type = P4T_CTRL_INITIALIZED /\ m.length = 8
      /\ m.matches = << >> /\ m.params = << >>
  BY <1>1 DEF Fields
<1>3. notify_controller_initialized = <<m>>
  BY DEF notify_controller_initialized
<1> HIDE DEF m
<1>4. m.length \in Lengths
  BY <1>2 DEF Lengths
<1>5. Built(m)
  BY <1>2, <1>4, NoParams DEF Built
<1> QED
  BY <1>2, <1>3, <1>5
-----------------------------------------------------------------------------
\* The key that the data plane makes of a field.
KeyOf(s, t, field) == IF t.key_size <= 4 THEN HostOrder(field, s.big) ELSE field

\* What has the key and the depth of a want v for its table, if the program has it.
Deep(t, depth) == depth \in 1 .. 32 /\ \A c \in Range(t.const) : c.depth <= depth

\* The message m, and the note a, do what v asks for.
Orders(s, m, v) ==
  /\ m.type = P4T_ADD_TABLE_ENTRY /\ m.table = v.table
  /\ m.action \in v.actions /\ (v.param = None \/ m.params[1] = v.param)
  /\ \A t \in Range(s.program) : t.name = v.table =>
       /\ setup_key(t, m.matches[1].bitmap) = KeyOf(s, t, v.key)
       /\ t.type = "exact" \/ (t.type = "lpm" /\ Deep(t, PrefixLength(t, m.matches[1])))
Serves(s, a, v) ==
  /\ a.table = v.table
  /\ a.entry.id \in v.actions /\ (v.param = None \/ a.entry.params[1] = v.param)
  /\ \A t \in Range(s.program) : t.name = v.table =>
       /\ a.key = KeyOf(s, t, v.key)
       /\ t.type = "exact" \/ (t.type = "lpm" /\ Deep(t, a.depth))

KeyNames(s) == {k[1] : k \in KeyTables(s)}
IsLpmTable(s, name) == s.app \in L3Apps \cup {"smgw"} /\ name = ".ipv4_lpm"
LpmAction(s) == IF s.app = "smgw" THEN "set_nhgrp" ELSE ".set_nhop"

\* The messages M, none of which says that the controller is initialized, ask
\* for what W wants, and the exact tables that are wanted get nothing else; D
\* are the default actions they set.
DefaultsOf(M) == {<<m.table, m.action>> : m \in {n \in M : n.type = P4T_SET_DEFAULT_ACTION}}
Covered(s, M, W, D) ==
  /\ \A m \in M : Built(m) /\ m.type # P4T_CTRL_INITIALIZED
  /\ \A w \in W : \E m \in M : Orders(s, m, w)
  /\ \A m \in M : m.type = P4T_ADD_TABLE_ENTRY /\ m.table \in KeyNames(s) =>
        \E v \in W : Orders(s, m, v)
  /\ \A m \in M : m.type = P4T_ADD_TABLE_ENTRY /\ IsLpmTable(s, m.table) =>
        m.action = LpmAction(s)
  /\ DefaultsOf(M) = D
Fulfils(s, q, W, D) == IsSeq(q) /\ Covered(s, Range(q), W, D)

\* The elements of short sequences.
LEMMA RangeOf ==
    /\ Range(<< >>) = {}
    /\ \A x : Range(<<x>>) = {x} /\ IsSeq(<<x>>)
    /\ \A x, y : Range(<<x>> \o <<y>>) = {x, y} /\ IsSeq(<<x>> \o <<y>>)
BY DEF Range, IsSeq

\* The elements of one sequence behind another.
LEMMA RangeConcat ==
    ASSUME NEW p, NEW q, IsSeq(p), IsSeq(q)
    PROVE  IsSeq(p \o q) /\ Range(p \o q) = Range(p) \cup Range(q)
<1> DEFINE r == p \o q
<1>1. /\ IsSeq(r) /\ Len(p) \in Nat /\ Len(q) \in Nat
      /\ DOMAIN p = 1 .. Len(p) /\ DOMAIN q = 1 .. Len(q)
      /\ DOMAIN r = 1 .. Len(p) + Len(q)
      /\ \A i \in 1 .. Len(p) : r[i] = p[i]
      /\ \A i \in 1 .. Len(q) : r[Len(p) + i] = q[i]
  BY ConcatIsSeq
<1> HIDE DEF r
<1>2. Range(r) \subseteq Range(p) \cup Range(q)
  <2> SUFFICES ASSUME NEW i \in DOMAIN r PROVE r[i] \in Range(p) \cup Range(q)
    BY DEF Range
  <2>1. CASE i \in 1 .. Len(p)
    BY <1>1, <2>1 DEF Range
  <2>2. CASE i \notin 1 .. Len(p)
    <3> DEFINE j == i - Len(p)
    <3>1. j \in 1 .. Len(q) /\ i = Len(p) + j
      BY <1>1, <2>2
    <3> HIDE DEF j
    <3> QED
      BY <1>1, <3>1 DEF Range
  <2> QED
    BY <2>1, <2>2
<1>3. Range(p) \subseteq Range(r)
  <2> SUFFICES ASSUME NEW i \in DOMAIN p PROVE p[i] \in Range(r)
    BY DEF Range
  <2>1. i \in DOMAIN r /\ r[i] = p[i]
    BY <1>1
  <2> QED
    BY <2>1 DEF Range
<1>4. Range(q) \subseteq Range(r)
  <2> SUFFICES ASSUME NEW i \in DOMAIN q PROVE q[i] \in Range(r)
    BY DEF Range
  <2>1. Len(p) + i \in DOMAIN r /\ r[Len(p) + i] = q[i]
    BY <1>1
  <2> QED
    BY <2>1 DEF Range
<1> QED
  BY <1>1, <1>2, <1>3, <1>4 DEF r

\* FlattenSeq keeps what is in the sequences.
LEMMA RangeFlattened ==
    ASSUME NEW Q, Len(Q) \in Nat, DOMAIN Q = 1 .. Len(Q), \A i \in DOMAIN Q : IsSeq(Q[i])
    PROVE  /\ IsSeq(FlattenSeq(Q))
           /\ Range(FlattenSeq(Q)) = UNION {Range(Q[i]) : i \in DOMAIN Q}
<1>1. CASE Len(Q) = 0
  <2>1. FlattenSeq(Q) = << >>
    BY <1>1 DEF FlattenSeq
  <2>2. {Range(Q[i]) : i \in DOMAIN Q} = {}
    BY <1>1
  <2> QED
    BY <2>1, <2>2, RangeOf, NoNotes
<1>2. CASE Len(Q) \in Nat \ {0}
  <2> DEFINE N == Len(Q)
             Good(n, g) == IsSeq(g) /\ Range(g) = UNION {Range(Q[i]) : i \in 1 .. n}
  <2>1. PICK f : /\ f[1] = Q[1] /\ FlattenSeq(Q) = f[N]
                 /\ \A i \in 2 .. N : f[i] = f[i - 1] \o Q[i]
    BY <1>2, FlattenedInOrder
  <2> DEFINE T == {n \in 1 .. N : ~Good(n, f[n])}
  <2> HIDE DEF N
  <2>2. N \in Nat \ {0} /\ DOMAIN Q = 1 .. N
    BY <1>2 DEF N
  <2>3. Good(1, f[1])
    <3>1. 1 .. 1 = {1} /\ 1 \in 1 .. N
      BY <2>2
    <3>2. {Range(Q[i]) : i \in 1 .. 1} = {Range(Q[1])}
      BY <3>1
    <3>3. IsSeq(f[1])
      BY <2>1, <2>2, <3>1
    <3>4. Range(f[1]) = UNION {Range(Q[i]) : i \in 1 .. 1}
      BY <2>1, <3>2
    <3> QED
      BY <3>3, <3>4
  <2>4. ASSUME NEW n \in 2 .. N, Good(n - 1, f[n - 1]) PROVE Good(n, f[n])
    <3>0. n \in 1 .. N /\ n - 1 \in Nat
      BY <2>2
    <3>1. f[n] = f[n - 1] \o Q[n] /\ IsSeq(Q[n])
      BY <2>1, <2>2, <3>0
    <3>2. IsSeq(f[n]) /\ Range(f[n]) = Range(f[n - 1]) \cup Range(Q[n])
      BY <2>4, <3>1, RangeConcat
    <3>3. 1 .. n = (1 .. n - 1) \cup {n}
      BY <2>2
    <3> QED
      BY <2>4, <3>2, <3>3
  <2> HIDE DEF Good
  <2>5. T = {}
    <3> SUFFICES ASSUME T # {} PROVE FALSE
      OBVIOUS
    <3>1. PICK n \in T : \A y \in T : n <= y
      <4>1. T \in SUBSET Nat
        BY <2>2
      <4>2. PICK e \in T : TRUE
        OBVIOUS
      <4> HIDE DEF T
      <4> QED
        BY <4>1, <4>2, LeastExists
    <3>2. n \in 1 .. N /\ ~Good(n, f[n]) /\ n # 1
      BY <2>3, <3>1
    <3>3. n \in 2 .. N /\ n - 1 \in 1 .. N
      BY <2>2, <3>2
    <3>4. n - 1 \notin T
      BY <2>2, <3>1, <3>2
    <3> QED
      BY <2>4, <3>2, <3>3, <3>4
  <2>6. Good(N, f[N])
    BY <2>2, <2>5
  <2> QED
    BY <2>1, <2>2, <2>6 DEF Good
<1> QED
  BY <1>1, <1>2

-----------------------------------------------------------------------------
\* What sequences fulfil together.
LEMMA CoveredTogether ==
    ASSUME NEW s, NEW M, NEW N, NEW V, NEW W, NEW D, NEW E,
           Covered(s, M, V, D), Covered(s, N, W, E)
    PROVE  Covered(s, M \cup N, V \cup W, D \cup E)
<1>1. DefaultsOf(M \cup N) = DefaultsOf(M) \cup DefaultsOf(N)
  BY DEF DefaultsOf
<1>2. \A m \in M \cup N : Built(m) /\ m.type # P4T_CTRL_INITIALIZED
  BY DEF Covered
<1>3. \A w \in V \cup W : \E m \in M \cup N : Orders(s, m, w)
  BY DEF Covered
<1>4. \A m \in M \cup N : m.type = P4T_ADD_TABLE_ENTRY /\ m.table \in KeyNames(s) =>
        \E v \in V \cup W : Orders(s, m, v)
  BY DEF Covered
<1>5. \A m \in M \cup N : m.type = P4T_ADD_TABLE_ENTRY /\ IsLpmTable(s, m.table) =>
        m.action = LpmAction(s)
  BY DEF Covered
<1> QED
  BY <1>1, <1>2, <1>3, <1>4, <1>5 DEF Covered

\* One sequence behind another.
LEMMA FulfilTogether ==
    ASSUME NEW s, NEW p, NEW q, NEW V, NEW W, NEW D, NEW E,
           Fulfils(s, p, V, D), Fulfils(s, q, W, E)
    PROVE  Fulfils(s, p \o q, V \cup W, D \cup E)
<1>1. IsSeq(p) /\ IsSeq(q) /\ Covered(s, Range(p), V, D) /\ Covered(s, Range(q), W, E)
  BY DEF Fulfils
<1>2. IsSeq(p \o q) /\ Range(p \o q) = Range(p) \cup Range(q)
  BY <1>1, RangeConcat
<1> QED
  BY <1>1, <1>2, CoveredTogether DEF Fulfils

\* No messages, for nothing that is wanted.
LEMMA NothingFulfils == ASSUME NEW s PROVE Fulfils(s, << >>, {}, {})
BY RangeOf, NoNotes DEF Fulfils, Covered, DefaultsOf

\* A sequence of sequences.
LEMMA AllFulfil ==
    ASSUME NEW s, NEW Q, Len(Q) \in Nat, DOMAIN Q = 1 .. Len(Q),
           NEW W, \A i \in DOMAIN Q : Fulfils(s, Q[i], W[i], {})
    PROVE  Fulfils(s, FlattenSeq(Q), UNION {W[i] : i \in DOMAIN Q}, {})
<1> DEFINE R == FlattenSeq(Q)
           U == UNION {W[i] : i \in DOMAIN Q}
<1>1. IsSeq(R) /\ Range(R) = UNION {Range(Q[i]) : i \in DOMAIN Q}
  BY RangeFlattened DEF Fulfils
<1>2. \A i \in DOMAIN Q : Covered(s, Range(Q[i]), W[i], {})
  BY DEF Fulfils
<1> HIDE DEF R
<1>3. \A m \in Range(R) : \E i \in DOMAIN Q : m \in Range(Q[i])
  BY <1>1
<1>4. \A i \in DOMAIN Q : Range(Q[i]) \subseteq Range(R) /\ W[i] \subseteq U
  BY <1>1
<1>5. \A w \in U : \E i \in DOMAIN Q : w \in W[i]
  OBVIOUS
<1> HIDE DEF U
<1>6. \A m \in Range(R) : Built(m) /\ m.type # P4T_CTRL_INITIALIZED
  BY <1>2, <1>3 DEF Covered
<1>7. \A w \in U : \E m \in Range(R) : Orders(s, m, w)
  BY <1>2, <1>4, <1>5 DEF Covered
<1>8. \A m \in Range(R) : m.type = P4T_ADD_TABLE_ENTRY /\ m.table \in KeyNames(s) =>
        \E v \in U : Orders(s, m, v)
  BY <1>2, <1>3, <1>4 DEF Covered
<1>9. \A m \in Range(R) : m.type = P4T_ADD_TABLE_ENTRY /\ IsLpmTable(s, m.table) =>
        m.action = LpmAction(s)
  BY <1>2, <1>3 DEF Covered
<1>10. DefaultsOf(Range(R)) = {}
  BY <1>2, <1>3 DEF Covered, DefaultsOf
<1> QED
  BY <1>1, <1>6, <1>7, <1>8, <1>9, <1>10 DEF Fulfils, Covered, R, U

\* The senders.  An exact entry of a table with keys of the size.
ExactKeys(s, table, bitmap, key) ==
  \A t \in Range(s.program) : t.name = table =>
     t.type = "exact" /\ setup_key(t, bitmap) = KeyOf(s, t, key)

\* The types of the messages differ.
LEMMA Types ==
    /\ P4T_ADD_TABLE_ENTRY # P4T_CTRL_INITIALIZED /\ P4T_ADD_TABLE_ENTRY # P4T_SET_DEFAULT_ACTION
    /\ P4T_SET_DEFAULT_ACTION # P4T_CTRL_INITIALIZED
BY DEF P4T_ADD_TABLE_ENTRY, P4T_CTRL_INITIALIZED, P4T_SET_DEFAULT_ACTION

\* The parts of a want.
LEMMA WantIs ==
    ASSUME NEW table, NEW key, NEW actions, NEW param
    PROVE  LET v == Want(table, key, actions, param)
           IN  v.table = table /\ v.key = key /\ v.actions = actions /\ v.param = param
BY DEF Want

\* An entry of an exact table that is wanted.
LEMMA ExactFulfils ==
    ASSUME NEW s, NEW table, NEW bitmap, NEW action, NEW params, IsSeq(params), Len(params) <= 3,
           ~IsLpmTable(s, table),
           NEW key, NEW actions, action \in actions, NEW param,
           param = None \/ params[1] = param, ExactKeys(s, table, bitmap, key)
    PROVE  Fulfils(s, Exact(table, bitmap, action, params), {Want(table, key, actions, param)}, {})
<1> DEFINE x == [type |-> "exact", prefix_length |-> 0, bitmap |-> bitmap]
           v == Want(table, key, actions, param)
<1>1. PICK m : Exact(table, bitmap, action, params) = <<m>> /\ Adds(m, table, x, action, params)
  BY ExactIs
<1>2. /\ Built(m) /\ m.type = P4T_ADD_TABLE_ENTRY /\ m.table = table
      /\ m.matches[1].bitmap = bitmap /\ m.action = action /\ m.params = params
  BY <1>1 DEF Adds
<1>3. v.table = table /\ v.key = key /\ v.actions = actions /\ v.param = param
  BY WantIs
<1> HIDE DEF v, x
<1>4. Orders(s, m, v)
  BY <1>2, <1>3 DEF Orders, ExactKeys
<1>5. DefaultsOf({m}) = {}
  BY <1>2, Types DEF DefaultsOf
<1>6. Covered(s, {m}, {v}, {})
  BY <1>2, <1>4, <1>5, Types DEF Covered
<1> QED
  BY <1>1, <1>6, RangeOf DEF Fulfils, v

\* An entry of an exact table of which nothing is wanted.
LEMMA ExactElsewhere ==
    ASSUME NEW s, NEW table, NEW bitmap, NEW action, NEW params, IsSeq(params), Len(params) <= 3,
           ~IsLpmTable(s, table), table \notin KeyNames(s)
    PROVE  Fulfils(s, Exact(table, bitmap, action, params), {}, {})
<1> DEFINE x == [type |-> "exact", prefix_length |-> 0, bitmap |-> bitmap]
<1>1. PICK m : Exact(table, bitmap, action, params) = <<m>> /\ Adds(m, table, x, action, params)
  BY ExactIs
<1>2. Built(m) /\ m.type = P4T_ADD_TABLE_ENTRY /\ m.table = table
  BY <1>1 DEF Adds
<1>3. DefaultsOf({m}) = {}
  BY <1>2, Types DEF DefaultsOf
<1>4. Covered(s, {m}, {}, {})
  BY <1>2, <1>3, Types DEF Covered
<1> QED
  BY <1>1, <1>4, RangeOf DEF Fulfils

\* One of the LPM tables.
LEMMA LpmElsewhere ==
    ASSUME NEW s, NEW table, NEW bitmap, NEW prefix, Short(prefix), NEW action, NEW params,
           IsSeq(params), Len(params) <= 3, table \notin KeyNames(s),
           IsLpmTable(s, table) => action = LpmAction(s)
    PROVE  Fulfils(s, Lpm(table, bitmap, prefix, action, params), {}, {})
<1> DEFINE x == [type |-> "lpm", prefix_length |-> prefix, bitmap |-> bitmap]
<1>1. PICK m : /\ Lpm(table, bitmap, prefix, action, params) = <<m>>
               /\ Adds(m, table, x, action, params)
  BY LpmIs
<1>2. Built(m) /\ m.type = P4T_ADD_TABLE_ENTRY /\ m.table = table /\ m.action = action
  BY <1>1 DEF Adds
<1>3. DefaultsOf({m}) = {}
  BY <1>2, Types DEF DefaultsOf
<1>3a. /\ m.table \notin KeyNames(s)
       /\ IsLpmTable(s, m.table) => m.action = LpmAction(s)
  BY <1>2
<1>4. Covered(s, {m}, {}, {})
  BY ONLY <1>2, <1>3, <1>3a, Types DEF Covered
<1> QED
  BY <1>1, <1>4, RangeOf DEF Fulfils

LpmKeys(s, table, bitmap, prefix, key) ==
  \A t \in Range(s.program) : t.name = table =>
     /\ t.type = "lpm" /\ setup_key(t, bitmap) = KeyOf(s, t, key)
     /\ Deep(t, (prefix + t.key_size) % 256)

\* The entry that is wanted of the LPM table.
LEMMA LpmFulfils ==
    ASSUME NEW s, NEW table, NEW bitmap, NEW prefix, Short(prefix), NEW action, NEW params,
           IsSeq(params), Len(params) <= 3, table \notin KeyNames(s),
           IsLpmTable(s, table), action = LpmAction(s),
           NEW key, LpmKeys(s, table, bitmap, prefix, key)
    PROVE  Fulfils(s, Lpm(table, bitmap, prefix, action, params),
                   {Want(table, key, {action}, None)}, {})
<1> DEFINE x == [type |-> "lpm", prefix_length |-> prefix, bitmap |-> bitmap]
           v == Want(table, key, {action}, None)
<1>1. PICK m : /\ Lpm(table, bitmap, prefix, action, params) = <<m>>
               /\ Adds(m, table, x, action, params)
  BY LpmIs
<1>2. /\ Built(m) /\ m.type = P4T_ADD_TABLE_ENTRY /\ m.table = table /\ m.action = action
      /\ m.matches[1].bitmap = bitmap /\ m.matches[1].prefix_length = prefix
  BY <1>1 DEF Adds
<1>3. DefaultsOf({m}) = {}
  BY <1>2, Types DEF DefaultsOf
<1>4. v.table = table /\ v.key = key /\ v.actions = {action} /\ v.param = None
  BY WantIs
<1> HIDE DEF v, x
<1>5. Orders(s, m, v)
  BY <1>2, <1>4 DEF Orders, PrefixLength, LpmKeys
<1>5a. m.action = LpmAction(s)
  BY <1>2
<1>6. Covered(s, {m}, {v}, {})
  BY ONLY <1>2, <1>3, <1>5, <1>5a, Types DEF Covered
<1> QED
  <2>1. IsSeq(<<m>>) /\ Range(<<m>>) = {m}
    BY RangeOf
  <2> QED
    BY ONLY <1>1, <1>6, <2>1 DEF Fulfils, v

\* A default action.
LEMMA DefaultFulfils ==
    ASSUME NEW s, NEW table, NEW action
    PROVE  Fulfils(s, <<create_p4_set_default_action(table, action)>>, {}, {<<table, action>>})
<1> DEFINE m == create_p4_set_default_action(table, action)
<1>1. Built(m) /\ m.type = P4T_SET_DEFAULT_ACTION /\ m.table = table /\ m.action = action
  BY DefaultIs
<1> HIDE DEF m
<1>2. DefaultsOf({m}) = {<<table, action>>}
  BY <1>1 DEF DefaultsOf
<1>3. Covered(s, {m}, {}, {<<table, action>>})
  BY <1>1, <1>2, Types DEF Covered
<1> QED
  BY <1>3, RangeOf DEF Fulfils, m

-----------------------------------------------------------------------------
\* Keys of n bytes.
IsKey(n, b) == b = [i \in 1 .. n |-> b[i]]

\* A key of the size of its table is taken as a whole, its bytes reversed or not.
LEMMA KeyTaken ==
    ASSUME NEW n \in {1, 4, 6}, NEW b, IsKey(n, b)
    PROVE  /\ SubSeq(b, 1, n) = b /\ SubSeq(Reverse(b), 1, n) = Reverse(b)
           /\ n = 1 => Reverse(b) = b
<1>1. b \in Seq(Range(b)) /\ Len(b) = n
  <2>1. DOMAIN b = 1 .. n /\ \A i \in 1 .. n : b[i] \in Range(b)
    BY DEF IsKey, Range
  <2>2. b \in [1 .. n -> Range(b)]
    BY <2>1 DEF IsKey
  <2>3. n \in Nat
    OBVIOUS
  <2> QED
    BY <2>2, <2>3, IsASeq, LenProperties
<1>2. Reverse(b) = [i \in 1 .. n |-> b[n - i + 1]]
  BY <1>1 DEF Reverse
<1>3. Len(Reverse(b)) = n
  BY <1>2
<1>4. SubSeq(b, 1, n) = b
  BY <1>1 DEF IsKey
<1>5. SubSeq(Reverse(b), 1, n) = Reverse(b)
  BY <1>2, <1>3
<1>6. n = 1 => Reverse(b) = b
  BY <1>1, <1>2 DEF IsKey
<1> QED
  BY <1>4, <1>5, <1>6

\* Reversed keys differ if the keys do.
LEMMA ReverseIsInjective ==
    ASSUME NEW n \in Nat, NEW a, NEW b, IsKey(n, a), IsKey(n, b), Reverse(a) = Reverse(b)
    PROVE  a = b
<1>1. ASSUME NEW c, IsKey(n, c) PROVE Reverse(c) = [i \in 1 .. n |-> c[n - i + 1]]
  <2>1. Len(c) = n
    BY <1>1 DEF IsKey
  <2> QED
    BY <2>1 DEF Reverse
<1>2. \A i \in 1 .. n : a[n - i + 1] = b[n - i + 1]
  BY <1>1
<1>3. ASSUME NEW j \in 1 .. n PROVE a[j] = b[j]
  <2>1. n - j + 1 \in 1 .. n /\ n - (n - j + 1) + 1 = j
    OBVIOUS
  <2> QED
    BY <1>2, <2>1
<1> QED
  BY <1>3 DEF IsKey

\* Strings of n bytes are keys of n bytes.
LEMMA BytesAreKeys == \A n : \A b \in Bytes(n) : IsKey(n, b)
BY DEF Bytes, IsKey

\* The data plane makes different keys of different fields.
LEMMA KeyInjective ==
    ASSUME NEW s, NEW t, NEW n \in Nat, NEW a, NEW b, IsKey(n, a), IsKey(n, b),
           KeyOf(s, t, a) = KeyOf(s, t, b)
    PROVE  a = b
<1>1. CASE t.key_size <= 4 /\ ~s.big
  BY <1>1, ReverseIsInjective DEF KeyOf, HostOrder
<1>2. CASE ~(t.key_size <= 4 /\ ~s.big)
  BY <1>2 DEF KeyOf, HostOrder
<1> QED
  BY <1>1, <1>2

\* The keys that are sent for the exact tables are those the data plane makes.
LEMMA ExactKeysAre ==
    ASSUME NEW s, WellMatched(s), NEW table, NEW n \in {1, 4, 6}, <<table, n>> \in KeyTables(s),
           NEW key, IsKey(n, key), NEW bitmap,
           bitmap = IF n = 4 THEN Host(key, s.big) ELSE key
    PROVE  ExactKeys(s, table, bitmap, key) /\ table \in KeyNames(s)
<1>1. ASSUME NEW t \in Range(s.program), t.name = table
      PROVE  t.type = "exact" /\ t.key_size = n
  <2>1. TableFits(s, t)
    BY DEF WellMatched
  <2>2. <<table, n>>[1] = table /\ <<table, n>>[2] = n
    OBVIOUS
  <2> QED
    BY <1>1, <2>1, <2>2 DEF TableFits
<1>2. ASSUME NEW t, t.key_size = n PROVE setup_key(t, bitmap) = KeyOf(s, t, key)
  <2>1. CASE n = 4 /\ ~s.big
    BY <1>2, <2>1, KeyTaken DEF setup_key, KeyOf, Host, HostOrder
  <2>2. CASE n = 4 /\ s.big
    BY <1>2, <2>2, KeyTaken DEF setup_key, KeyOf, Host, HostOrder
  <2>3. CASE n = 1
    BY <1>2, <2>3, KeyTaken DEF setup_key, KeyOf, HostOrder
  <2>4. CASE n = 6
    BY <1>2, <2>4, KeyTaken DEF setup_key, KeyOf
  <2> QED
    BY <2>1, <2>2, <2>3, <2>4
<1>3. table \in KeyNames(s)
  BY DEF KeyNames
<1> QED
  BY <1>1, <1>2, <1>3 DEF ExactKeys

\* Up to three parameters.
LEMMA Params ==
    /\ \A a : IsSeq(<<a>>) /\ Len(<<a>>) <= 3 /\ <<a>>[1] = a
    /\ \A a, b : IsSeq(<<a, b>>) /\ Len(<<a, b>>) <= 3 /\ <<a, b>>[1] = a
    /\ \A a, b, c : IsSeq(<<a, b, c>>) /\ Len(<<a, b, c>>) <= 3 /\ <<a, b, c>>[1] = a
    /\ IsSeq(<< >>) /\ Len(<< >>) <= 3
BY DEF IsSeq, Range

-----------------------------------------------------------------------------
\* The lines and digests of the controllers.
LEMMA WantedIs ==
    ASSUME NEW s, NEW d, NEW x
    PROVE  /\ s.app = "l2fwd" => Wanted(s, d, x) = WantedOfL2(s, d, x) /\ KeyTables(s) = L2KeyTables(s)
           /\ s.app = "psa_l2fwd" => /\ Wanted(s, d, x) = WantedOfPsa(x)
                                     /\ KeyTables(s) = {<<"dmac_0", 6>>, <<"smac_0", 6>>}
           /\ s.app \in L3Apps => /\ Wanted(s, d, x) = WantedOfL3(s, x)
                                  /\ KeyTables(s) = {<<".macfwd", 6>>, <<".nexthops", 4>>}
           /\ s.app = "smgw" =>
                /\ Wanted(s, d, x) = WantedOfSmgw(s, x)
                /\ KeyTables(s) = {<<"dmac_0", 6>>, <<"m_filter_0", 1>>, <<"ipv4_forward_0", 1>>}
           /\ s.app = "test-digest" => /\ Wanted(s, d, x) = WantedOfTest(x)
                                       /\ KeyTables(s) = {<<"ingress.t", 1>>}
           /\ s.app \in {"portfwd", "dummy"} => Wanted(s, d, x) = {} /\ KeyTables(s) = {}
<1>1. CASE s.app = "l2fwd"
  BY <1>1 DEF Wanted, KeyTables, L3Apps
<1>2. CASE s.app = "psa_l2fwd"
  BY <1>2 DEF Wanted, KeyTables, L3Apps
<1>3. CASE s.app \in L3Apps
  BY <1>3 DEF Wanted, KeyTables, L3Apps
<1>4. CASE s.app = "smgw"
  BY <1>4 DEF Wanted, KeyTables, L3Apps
<1>5. CASE s.app = "test-digest"
  BY <1>5 DEF Wanted, KeyTables, L3Apps
<1>6. CASE s.app \in {"portfwd", "dummy"}
  BY <1>6 DEF Wanted, KeyTables, L3Apps
<1> QED
  BY <1>1, <1>2, <1>3, <1>4, <1>5, <1>6 DEF L3Apps

\* A line of psa_l2fwd.
LEMMA PsaFulfils ==
    ASSUME NEW s, WellMatched(s), s.app = "psa_l2fwd", NEW d, NEW x, x.key \in Bytes(6)
    PROVE  Fulfils(s, psa_entry(x), Wanted(s, d, x), {})
<1>1. KeyTables(s) = {<<"dmac_0", 6>>, <<"smac_0", 6>>}
  BY WantedIs
<1>2. ~IsLpmTable(s, "dmac_0") /\ ~IsLpmTable(s, "smac_0")
  BY DEF IsLpmTable
<1>3. IsKey(6, x.key)
  BY BytesAreKeys
<1>4. ASSUME NEW name \in {"dmac_0", "smac_0"} PROVE ExactKeys(s, name, x.key, x.key)
  <2>1. <<name, 6>> \in KeyTables(s)
    BY <1>1
  <2>2. x.key = IF 6 = 4 THEN Host(x.key, s.big) ELSE x.key
    OBVIOUS
  <2> QED
    BY <1>3, <2>1, <2>2, ExactKeysAre
<1>5. Fulfils(s, psa_fill_dmac_table(x.port, x.key), {Want("dmac_0", x.key, {"forward"}, x.port)}, {})
  BY <1>2, <1>4, ExactFulfils, Params DEF psa_fill_dmac_table
<1>6. Fulfils(s, psa_fill_smac_table(x.key), {Want("smac_0", x.key, {"._nop"}, None)}, {})
  BY <1>2, <1>4, ExactFulfils, Params DEF psa_fill_smac_table
<1>7. Wanted(s, d, x) = {Want("dmac_0", x.key, {"forward"}, x.port)}
                          \cup {Want("smac_0", x.key, {"._nop"}, None)}
  BY WantedIs DEF WantedOfPsa
<1>8. Fulfils(s, psa_entry(x), {Want("dmac_0", x.key, {"forward"}, x.port)}
                          \cup {Want("smac_0", x.key, {"._nop"}, None)}, {} \cup {})
  BY <1>5, <1>6, FulfilTogether DEF psa_entry
<1> QED
  BY <1>7, <1>8

\* An LPM entry of l3fwd or smgw.
LEMMA Ipv4LpmFulfils ==
    ASSUME NEW s, WellMatched(s), s.app \in L3Apps \cup {"smgw"},
           NEW x \in Range(Lines(s)), x.ok, x.code \in {"E", "NEXTHOP"},
           x.key \in Bytes(4), x.prefix \in Nat, NEW action, action = LpmAction(s)
    PROVE  Fulfils(s, Lpm(".ipv4_lpm", x.key, Byte(x.prefix), action, <<x.group>>),
                   WantedOfLpm(s, x, action), {})
<1> DEFINE b == Byte(x.prefix)
<1>1. Short(b) /\ (x.prefix <= 28 => b = x.prefix)
  BY DEF Byte, Short
<1>2. IsLpmTable(s, ".ipv4_lpm") /\ ".ipv4_lpm" \notin KeyNames(s)
  BY DEF IsLpmTable, KeyNames, KeyTables, L3Apps
<1>3. CASE s.big /\ x.prefix <= 28
  <2>1. IsKey(4, x.key)
    BY BytesAreKeys
  <2>2. ASSUME NEW t \in Range(s.program), t.name = ".ipv4_lpm"
        PROVE  /\ t.type = "lpm" /\ setup_key(t, x.key) = KeyOf(s, t, x.key)
               /\ Deep(t, (b + t.key_size) % 256)
    <3>1. TableFits(s, t)
      BY DEF WellMatched
    <3>2. /\ t.type = "lpm" /\ t.key_size = 4
          /\ \A c \in Range(t.const) : c.depth <= x.prefix + 4
      BY <2>2, <3>1 DEF TableFits
    <3>3. setup_key(t, x.key) = KeyOf(s, t, x.key)
      BY <1>3, <2>1, <3>2, KeyTaken DEF setup_key, KeyOf, HostOrder
    <3>4. (b + t.key_size) % 256 = x.prefix + 4 /\ x.prefix + 4 \in 1 .. 32
      <4> HIDE DEF b
      <4>1. b = x.prefix
        BY <1>1, <1>3
      <4>2. PICK p \in Nat : p = x.prefix /\ p <= 28
        BY <1>3
      <4>3. (p + 4) % 256 = p + 4
        BY <4>2
      <4> QED
        BY <3>2, <4>1, <4>2, <4>3
    <3> QED
      BY <3>2, <3>3, <3>4 DEF Deep
  <2>2a. LpmKeys(s, ".ipv4_lpm", x.key, b, x.key)
    BY <2>2 DEF LpmKeys
  <2> HIDE DEF b
  <2>3. Fulfils(s, Lpm(".ipv4_lpm", x.key, b, action, <<x.group>>),
                {Want(".ipv4_lpm", x.key, {action}, None)}, {})
    <3>1. IsSeq(<<x.group>>) /\ Len(<<x.group>>) <= 3
      BY Params
    <3> QED
      BY <1>1, <1>2, <2>2a, <3>1, LpmFulfils, action = LpmAction(s)
  <2> QED
    BY <1>3, <2>3 DEF b, WantedOfLpm
<1>4. CASE ~(s.big /\ x.prefix <= 28)
  <2> HIDE DEF b
  <2>1. Fulfils(s, Lpm(".ipv4_lpm", x.key, b, action, <<x.group>>), {}, {})
    <3>1. IsSeq(<<x.group>>) /\ Len(<<x.group>>) <= 3
      BY Params
    <3> QED
      BY <1>1, <1>2, <3>1, LpmElsewhere, action = LpmAction(s)
  <2> QED
    BY <1>4, <2>1 DEF b, WantedOfLpm
<1> QED
  BY <1>3, <1>4

\* An exact entry of one of the exact tables.
LEMMA EntryFulfils ==
    ASSUME NEW s, WellMatched(s), NEW table, NEW n \in {1, 4, 6}, <<table, n>> \in KeyTables(s),
           ~IsLpmTable(s, table), NEW key, IsKey(n, key), NEW bitmap,
           bitmap = IF n = 4 THEN Host(key, s.big) ELSE key,
           NEW params, IsSeq(params), Len(params) <= 3,
           NEW action, NEW actions, action \in actions,
           NEW param, param = None \/ params[1] = param
    PROVE  Fulfils(s, Exact(table, bitmap, action, params), {Want(table, key, actions, param)}, {})
<1>1. ExactKeys(s, table, bitmap, key)
  BY ExactKeysAre
<1> QED
  BY <1>1, ExactFulfils

\* A line of l3fwd.
LEMMA L3Fulfils ==
    ASSUME NEW s, WellMatched(s), s.app \in L3Apps, NEW d, NEW x \in Range(Lines(s)), x.ok
    PROVE  Fulfils(s, l3fwd_entry(x, s.big), Wanted(s, d, x), {}) /\ x.code \in {"M", "N", "E"}
<1>1. KeyTables(s) = {<<".macfwd", 6>>, <<".nexthops", 4>>} /\ Wanted(s, d, x) = WantedOfL3(s, x)
  BY WantedIs
<1>2. /\ x.code = "M" => x.key \in Bytes(6)
      /\ x.code = "N" => x.key \in Bytes(4)
      /\ x.code = "E" => x.key \in Bytes(4) /\ x.prefix \in Nat
      /\ x.code \in {"M", "N", "E"}
  <2>1. LineFits(s, x)
    BY DEF WellMatched
  <2> QED
    BY <2>1 DEF LineFits, L3Apps
<1>3. ~IsLpmTable(s, ".macfwd") /\ ~IsLpmTable(s, ".nexthops")
  BY DEF IsLpmTable
<1>4. CASE x.code = "M"
  <2>1. /\ <<".macfwd", 6>> \in KeyTables(s) /\ IsKey(6, x.key)
        /\ x.key = IF 6 = 4 THEN Host(x.key, s.big) ELSE x.key
    BY <1>1, <1>2, <1>4, BytesAreKeys
  <2>2. Fulfils(s, Exact(".macfwd", x.key, "._nop", << >>), {Want(".macfwd", x.key, {"._nop"}, None)}, {})
    BY <1>3, <2>1, EntryFulfils, Params
  <2>3. l3fwd_entry(x, s.big) = Exact(".macfwd", x.key, "._nop", << >>)
    BY <1>4 DEF l3fwd_entry, fill_macfwd_table
  <2>4. Wanted(s, d, x) = {Want(".macfwd", x.key, {"._nop"}, None)}
    BY <1>1, <1>4 DEF WantedOfL3
  <2> QED
    BY <1>2, <2>2, <2>3, <2>4
<1>5. CASE x.code = "N"
  <2> DEFINE p == <<x.dmac, x.smac, Byte(x.port)>>
             h == Host(x.key, s.big)
  <2>1. /\ <<".nexthops", 4>> \in KeyTables(s) /\ IsKey(4, x.key)
        /\ h = IF 4 = 4 THEN Host(x.key, s.big) ELSE x.key
    BY <1>1, <1>2, <1>5, BytesAreKeys
  <2>1a. IsSeq(p) /\ Len(p) <= 3 /\ p[1] = x.dmac
    BY Params
  <2>3. l3fwd_entry(x, s.big) = Exact(".nexthops", h, ".forward", p)
    BY <1>5 DEF l3fwd_entry, fill_nexthops_table
  <2> HIDE DEF p, h
  <2>2. Fulfils(s, Exact(".nexthops", h, ".forward", p),
                {Want(".nexthops", x.key, {".forward"}, x.dmac)}, {})
    BY <1>3, <2>1, <2>1a, EntryFulfils
  <2>4. Wanted(s, d, x) = {Want(".nexthops", x.key, {".forward"}, x.dmac)}
    BY <1>1, <1>5 DEF WantedOfL3
  <2> QED
    BY <1>2, <2>2, <2>3, <2>4
<1>6. CASE x.code = "E"
  <2>1. LpmAction(s) = ".set_nhop"
    BY DEF LpmAction, L3Apps
  <2>2. Fulfils(s, Lpm(".ipv4_lpm", x.key, Byte(x.prefix), ".set_nhop", <<x.group>>),
                WantedOfLpm(s, x, ".set_nhop"), {})
    BY <1>2, <1>6, <2>1, Ipv4LpmFulfils
  <2>3. l3fwd_entry(x, s.big) = Lpm(".ipv4_lpm", x.key, Byte(x.prefix), ".set_nhop", <<x.group>>)
    BY <1>6 DEF l3fwd_entry, fill_ipv4_lpm_table
  <2>4. Wanted(s, d, x) = WantedOfLpm(s, x, ".set_nhop")
    BY <1>1, <1>6 DEF WantedOfL3
  <2> QED
    BY <1>2, <2>2, <2>3, <2>4
<1> QED
  BY <1>2, <1>4, <1>5, <1>6

\* A line of smgw.
LEMMA SmgwFulfils ==
    ASSUME NEW s, WellMatched(s), s.app = "smgw", NEW d, NEW x \in Range(Lines(s)), x.ok,
           x.code # "TEID-RATE-LIMITER"
    PROVE  Fulfils(s, smgw_entry(x), Wanted(s, d, x), {}) /\ x.code \in SmgwCodes
<1>1. /\ KeyTables(s) = {<<"dmac_0", 6>>, <<"m_filter_0", 1>>, <<"ipv4_forward_0", 1>>}
      /\ Wanted(s, d, x) = WantedOfSmgw(s, x)
  BY WantedIs
<1>2. /\ x.code = "DMAC" => x.key \in Bytes(6) /\ x.port \in 0 .. 255
      /\ x.code \in {"M-FILTER", "SMAC-DMAC"} => x.key \in Bytes(1)
      /\ x.code = "NEXTHOP" => x.key \in Bytes(4) /\ x.prefix \in Nat
      /\ x.code \in SmgwCodes
  <2>1. LineFits(s, x)
    BY DEF WellMatched
  <2>2. s.app \notin L3Apps /\ s.app # "l2fwd" /\ s.app # "psa_l2fwd"
    BY DEF L3Apps
  <2> QED
    BY <2>1, <2>2 DEF LineFits, SmgwCodes
<1>3. ~IsLpmTable(s, "dmac_0") /\ ~IsLpmTable(s, "m_filter_0") /\ ~IsLpmTable(s, "ipv4_forward_0")
  BY DEF IsLpmTable
<1>4. CASE x.code = "DMAC"
  <2>1. /\ <<"dmac_0", 6>> \in KeyTables(s) /\ IsKey(6, x.key)
        /\ x.key = IF 6 = 4 THEN Host(x.key, s.big) ELSE x.key
    BY <1>1, <1>2, <1>4, BytesAreKeys
  <2>2. Byte(x.port) = x.port
    BY <1>2, <1>4 DEF Byte
  <2>3. Fulfils(s, Exact("dmac_0", x.key, "forward", <<Byte(x.port)>>),
                {Want("dmac_0", x.key, {"forward"}, x.port)}, {})
    BY <1>3, <2>1, <2>2, EntryFulfils, Params
  <2>4. smgw_entry(x) = Exact("dmac_0", x.key, "forward", <<Byte(x.port)>>)
    BY <1>4 DEF smgw_entry, smgw_fill_dmac_table
  <2>5. Wanted(s, d, x) = {Want("dmac_0", x.key, {"forward"}, x.port)}
    BY <1>1, <1>4 DEF WantedOfSmgw
  <2> QED
    BY <1>2, <2>3, <2>4, <2>5
<1>5. CASE x.code = "M-FILTER"
  <2> DEFINE a == IF x.mode = 2 THEN ".NoAction" ELSE ".drop"
  <2>1. /\ <<"m_filter_0", 1>> \in KeyTables(s) /\ IsKey(1, x.key)
        /\ x.key = IF 1 = 4 THEN Host(x.key, s.big) ELSE x.key
    BY <1>1, <1>2, <1>5, BytesAreKeys
  <2>2. a \in {".NoAction", ".drop"}
    OBVIOUS
  <2>4. smgw_entry(x) = Exact("m_filter_0", x.key, a, << >>)
    BY <1>5 DEF smgw_entry, smgw_fill_m_filter_table
  <2> HIDE DEF a
  <2>3. Fulfils(s, Exact("m_filter_0", x.key, a, << >>),
                {Want("m_filter_0", x.key, {".NoAction", ".drop"}, None)}, {})
    BY <1>3, <2>1, <2>2, EntryFulfils, Params
  <2>5. Wanted(s, d, x) = {Want("m_filter_0", x.key, {".NoAction", ".drop"}, None)}
    BY <1>1, <1>5 DEF WantedOfSmgw
  <2> QED
    BY <1>2, <2>3, <2>4, <2>5
<1>6. CASE x.code = "SMAC-DMAC"
  <2> DEFINE p == <<x.dmac, Byte(x.port)>>
  <2>1. /\ <<"ipv4_forward_0", 1>> \in KeyTables(s) /\ IsKey(1, x.key)
        /\ x.key = IF 1 = 4 THEN Host(x.key, s.big) ELSE x.key
    BY <1>1, <1>2, <1>6, BytesAreKeys
  <2>2. IsSeq(p) /\ Len(p) <= 3 /\ p[1] = x.dmac
    BY Params
  <2>4. smgw_entry(x) = Exact("ipv4_forward_0", x.key, "pkt_send", p)
    BY <1>6 DEF smgw_entry, smgw_fill_ipv4_forward_table
  <2> HIDE DEF p
  <2>3. Fulfils(s, Exact("ipv4_forward_0", x.key, "pkt_send", p),
                {Want("ipv4_forward_0", x.key, {"pkt_send"}, x.dmac)}, {})
    BY <1>3, <2>1, <2>2, EntryFulfils
  <2>5. Wanted(s, d, x) = {Want("ipv4_forward_0", x.key, {"pkt_send"}, x.dmac)}
    BY <1>1, <1>6 DEF WantedOfSmgw
  <2> QED
    BY <1>2, <2>3, <2>4, <2>5
<1>7. CASE x.code = "NEXTHOP"
  <2>1. LpmAction(s) = "set_nhgrp"
    BY DEF LpmAction
  <2>2. Fulfils(s, Lpm(".ipv4_lpm", x.key, Byte(x.prefix), "set_nhgrp", <<x.group>>),
                WantedOfLpm(s, x, "set_nhgrp"), {})
    BY <1>2, <1>7, <2>1, Ipv4LpmFulfils
  <2>3. smgw_entry(x) = Lpm(".ipv4_lpm", x.key, Byte(x.prefix), "set_nhgrp", <<x.group>>)
    BY <1>7 DEF smgw_entry, smgw_fill_ipv4_lpm_table
  <2>4. Wanted(s, d, x) = WantedOfLpm(s, x, "set_nhgrp")
    BY <1>1, <1>7 DEF WantedOfSmgw
  <2> QED
    BY <1>2, <2>2, <2>3, <2>4
<1>8. CASE x.code \in {"SMAC", "UE-SELECTOR"}
  <2>1. smgw_entry(x) = << >>
    BY <1>8 DEF smgw_entry
  <2>2. Wanted(s, d, x) = {}
    BY <1>1, <1>8 DEF WantedOfSmgw
  <2> QED
    BY <1>2, <2>1, <2>2, NothingFulfils
<1> QED
  BY <1>2, <1>4, <1>5, <1>6, <1>7, <1>8 DEF SmgwCodes

\* A digest of test-digest.
LEMMA TestDigestFulfils ==
    ASSUME NEW s, WellMatched(s), s.app = "test-digest", NEW d, NEW x, NEW addr
    PROVE  Fulfils(s, test_digest_fill_table(addr, x.port), Wanted(s, d, x), {})
<1> DEFINE key == <<x.port>>
<1>1. /\ KeyTables(s) = {<<"ingress.t", 1>>} /\ Wanted(s, d, x) = WantedOfTest(x)
      /\ ~IsLpmTable(s, "ingress.t")
  BY WantedIs DEF IsLpmTable
<1>2. IsKey(1, key)
  BY DEF IsKey
<1>3. test_digest_fill_table(addr, x.port) = Exact("ingress.t", key, "ingress.found", <<x.port>>)
  BY DEF test_digest_fill_table
<1>4. Wanted(s, d, x) = {Want("ingress.t", key, {"ingress.found"}, x.port)}
  BY <1>1 DEF WantedOfTest
<1>5. <<"ingress.t", 1>> \in KeyTables(s) /\ key = IF 1 = 4 THEN Host(key, s.big) ELSE key
  BY <1>1
<1> HIDE DEF key
<1>6. Fulfils(s, Exact("ingress.t", key, "ingress.found", <<x.port>>),
              {Want("ingress.t", key, {"ingress.found"}, x.port)}, {})
  BY <1>1, <1>2, <1>5, EntryFulfils, Params
<1> QED
  BY <1>3, <1>4, <1>6

-----------------------------------------------------------------------------
\* The lines of l2fwd, which translate names.
LEMMA L2EntryFulfils ==
    ASSUME NEW s, WellMatched(s), s.app = "l2fwd", NEW table, NEW action,
           LET d == FinalDict(s) IN <<translate(d, table), 6>> \in KeyTables(s),
           NEW key, IsKey(6, key), NEW port, NEW pars \in 0 .. 2,
           NEW param, param = None \/ (pars # 0 /\ param = Byte(port))
    PROVE  LET d == FinalDict(s)
           IN  Fulfils(s, send_exact_entry(d, port, key, table, action, pars),
                       {Want(translate(d, table), key, {translate(d, action)}, param)}, {})
<1> DEFINE d == FinalDict(s)
           p == [i \in 1 .. pars |-> Byte(port)]
           t == translate(d, table)
           a == translate(d, action)
<1>1. IsSeq(p) /\ Len(p) = pars /\ (pars # 0 => p[1] = Byte(port))
  <2>1. p \in [1 .. pars -> Range(p)] /\ pars \in Nat
    BY DEF Range
  <2>2. p \in Seq(Range(p)) /\ Len(p) = pars
    BY <2>1, IsASeq, LenProperties
  <2>3. pars # 0 => 1 \in 1 .. pars
    OBVIOUS
  <2> QED
    BY <2>2, <2>3 DEF IsSeq
<1>2. ~IsLpmTable(s, t)
  BY DEF IsLpmTable, L3Apps
<1>3. send_exact_entry(d, port, key, table, action, pars) = Exact(t, key, a, p)
  BY DEF send_exact_entry
<1>4. Len(p) <= 3 /\ (param = None \/ p[1] = param) /\ <<t, 6>> \in KeyTables(s)
  BY <1>1
<1>5. key = IF 6 = 4 THEN Host(key, s.big) ELSE key
  OBVIOUS
<1> HIDE DEF p, t, a, d
<1>6. Fulfils(s, Exact(t, key, a, p), {Want(t, key, {a}, param)}, {})
  BY <1>1, <1>2, <1>4, <1>5, EntryFulfils
<1> QED
  BY <1>3, <1>6 DEF d, t, a

\* Two entries for a line or a digest.
LEMMA L2PairFulfils ==
    ASSUME NEW s, WellMatched(s), s.app = "l2fwd", NEW key \in Bytes(6), NEW port, NEW param,
           param = None \/ param = Byte(port)
    PROVE  LET d == FinalDict(s)
           IN  Fulfils(s, send_exact_entry(d, port, key, "dmac", "forward", 1)
                            \o send_exact_entry(d, port, key, "smac", "_nop", 0),
                       {Want(translate(d, "dmac"), key, {translate(d, "forward")}, param),
                        Want(translate(d, "smac"), key, {translate(d, "_nop")}, None)}, {})
<1> DEFINE d == FinalDict(s)
           V == {Want(translate(d, "dmac"), key, {translate(d, "forward")}, param)}
           W == {Want(translate(d, "smac"), key, {translate(d, "_nop")}, None)}
           p == send_exact_entry(d, port, key, "dmac", "forward", 1)
           q == send_exact_entry(d, port, key, "smac", "_nop", 0)
<1>1. /\ <<translate(d, "dmac"), 6>> \in KeyTables(s)
      /\ <<translate(d, "smac"), 6>> \in KeyTables(s)
  BY WantedIs DEF L2KeyTables
<1>2. IsKey(6, key)
  BY BytesAreKeys
<1>3. Fulfils(s, p, V, {})
  <2>1. 1 \in 0 .. 2 /\ 1 # 0
    OBVIOUS
  <2> QED
    BY <1>1, <1>2, <2>1, L2EntryFulfils, Zenon
<1>4. Fulfils(s, q, W, {})
  <2>1. 0 \in 0 .. 2
    OBVIOUS
  <2> QED
    BY <1>1, <1>2, <2>1, L2EntryFulfils, Zenon
<1> HIDE DEF p, q, V, W
<1>5. Fulfils(s, p \o q, V \cup W, {} \cup {})
  BY <1>3, <1>4, FulfilTogether
<1>6. V \cup W = {Want(translate(d, "dmac"), key, {translate(d, "forward")}, param),
                  Want(translate(d, "smac"), key, {translate(d, "_nop")}, None)}
  BY DEF V, W
<1> QED
  BY <1>5, <1>6 DEF p, q

\* What a line wants and sets.
LineWants(s, x) == IF x.ok THEN Wanted(s, FinalDict(s), x) ELSE {}
LineDefaults(s, x) ==
  IF x.ok /\ x.code = "SET-DEFAULT"
  THEN {<<translate(FinalDict(s), x.table), translate(FinalDict(s), x.action)>>} ELSE {}
Sends(x) == x.ok /\ x.code \in {"SET-DEFAULT", "MAC-FWD", "EXACT"}

\* A line of l2fwd; those that send do it with the dictionary of the whole file.
LEMMA L2LineFulfils ==
    ASSUME NEW s, WellMatched(s), s.app = "l2fwd", NEW x \in Range(s.file),
           NEW a, DOMAIN a = {"dict", "out"}, NEW W, NEW D, Fulfils(s, a.out, W, D),
           Sends(x) => a.dict = FinalDict(s)
    PROVE  LET b == process_line(a, x, s.big)
           IN  /\ DOMAIN b = {"dict", "out"}
               /\ ~(x.ok /\ x.code = "TRANSLATION") => b.dict = a.dict
               /\ Fulfils(s, b.out, W \cup LineWants(s, x), D \cup LineDefaults(s, x))
<1> DEFINE b == process_line(a, x, s.big)
           d == FinalDict(s)
<1>1. x.ok => LineFits(s, x)
  <2>1. Lines(s) = s.file
    BY DEF Lines, WellMatched, L3Apps
  <2> QED
    BY <2>1 DEF WellMatched
<1>2. Wanted(s, d, x) = WantedOfL2(s, d, x)
  BY WantedIs
<1>3. CASE ~x.ok
  BY <1>3 DEF process_line, LineWants, LineDefaults
<1>4. CASE x.ok /\ x.code = "TRANSLATION"
  <2>1. b = process_translation(a, x)
    BY <1>4 DEF process_line
  <2>2. DOMAIN b = {"dict", "out"} /\ b.out = a.out
    BY <2>1 DEF process_translation
  <2>3. LineWants(s, x) = {} /\ LineDefaults(s, x) = {}
    BY <1>2, <1>4 DEF LineWants, LineDefaults, WantedOfL2
  <2> QED
    BY <1>4, <2>2, <2>3
<1>5. CASE x.ok /\ x.code = "SET-DEFAULT"
  <2> DEFINE e == <<translate(d, x.table), translate(d, x.action)>>
             q == set_table_default_action(d, x.table, x.action)
  <2>1. b = [a EXCEPT !.out = @ \o q]
    BY <1>5 DEF process_line, process_set_default, Sends
  <2> HIDE DEF q
  <2>2. DOMAIN b = {"dict", "out"} /\ b.out = a.out \o q /\ b.dict = a.dict
    BY <2>1
  <2>3. Fulfils(s, q, {}, {e})
    BY DefaultFulfils DEF set_table_default_action, q
  <2>4. LineWants(s, x) = {} /\ LineDefaults(s, x) = {e}
    BY <1>2, <1>5 DEF LineWants, LineDefaults, WantedOfL2
  <2> HIDE DEF e, b
  <2>5. Fulfils(s, b.out, W \cup {}, D \cup {e})
    BY <2>2, <2>3, FulfilTogether
  <2> QED
    BY <2>2, <2>4, <2>5 DEF b
<1>6. CASE x.ok /\ x.code = "MAC-FWD"
  <2> DEFINE p == send_exact_entry(d, x.port, x.key, "dmac", "forward", 1)
             q == send_exact_entry(d, x.port, x.key, "smac", "_nop", 0)
             V == {Want(translate(d, "dmac"), x.key, {translate(d, "forward")}, SentPort(s, x)),
                   Want(translate(d, "smac"), x.key, {translate(d, "_nop")}, None)}
  <2>1. b = [a EXCEPT !.out = @ \o p \o q]
    BY <1>6 DEF process_line, process_mac_fwd, Sends
  <2>2. x.key \in Bytes(6) /\ x.port \in Nat
    BY <1>1, <1>6 DEF LineFits
  <2>3. SentPort(s, x) = None \/ SentPort(s, x) = Byte(x.port)
    BY <1>6, <2>2 DEF SentPort, Byte
  <2>4. Fulfils(s, p \o q, V, {})
    BY <2>2, <2>3, L2PairFulfils
  <2>5. LineWants(s, x) = V /\ LineDefaults(s, x) = {}
    BY <1>2, <1>6 DEF LineWants, LineDefaults, WantedOfL2
  <2> HIDE DEF V, p, q
  <2>6. DOMAIN b = {"dict", "out"} /\ b.out = (a.out \o p) \o q /\ b.dict = a.dict
    BY <2>1
  <2>7. (a.out \o p) \o q = a.out \o (p \o q)
    <3>1. IsSeq(a.out)
      BY DEF Fulfils
    <3>2. IsSeq(p) /\ IsSeq(q)
      <4>1. ASSUME NEW t, NEW c, NEW n \in 0 .. 2
            PROVE  IsSeq(send_exact_entry(d, x.port, x.key, t, c, n))
        BY RangeOf DEF send_exact_entry, Exact
      <4> QED
        BY <4>1 DEF p, q
    <3> QED
      BY <3>1, <3>2, ConcatTwice
  <2> HIDE DEF b
  <2>8. Fulfils(s, a.out \o (p \o q), W \cup V, D \cup {})
    BY <2>4, FulfilTogether
  <2> QED
    BY <2>5, <2>6, <2>7, <2>8 DEF b
<1>7. CASE x.ok /\ x.code = "EXACT"
  <2> DEFINE n == IF x.matches < 6 + 3 + 1 THEN 0 ELSE 2
             r == IF x.matches < 6 + 3 + 1 THEN None ELSE SentPort(s, x)
             q == send_exact_entry(d, x.port, x.key, x.table, x.action, n)
             v == Want(translate(d, x.table), x.key, {translate(d, x.action)}, r)
  <2>1. b = [a EXCEPT !.out = @ \o q]
    BY <1>7 DEF process_line, process_exact, Sends
  <2>2. x.key \in Bytes(6) /\ x.port \in Nat
    BY <1>1, <1>7 DEF LineFits
  <2>3. r = None \/ (n # 0 /\ r = Byte(x.port))
    BY <1>7, <2>2 DEF SentPort, Byte
  <2>3a. n \in 0 .. 2 /\ IsKey(6, x.key)
    BY <2>2, BytesAreKeys
  <2>4. <<translate(d, x.table), 6>> \in KeyTables(s)
    <3>1. x.table \in {l.table : l \in {m \in Range(s.file) : m.ok /\ m.code = "EXACT"}}
      BY <1>7
    <3>2. KeyTables(s) = L2KeyTables(s)
      BY WantedIs
    <3> QED
      BY <3>1, <3>2 DEF L2KeyTables
  <2>5. LineWants(s, x) = {v} /\ LineDefaults(s, x) = {}
    BY <1>2, <1>7 DEF LineWants, LineDefaults, WantedOfL2
  <2> HIDE DEF n, r
  <2>6. Fulfils(s, q, {v}, {})
    BY <2>3, <2>3a, <2>4, L2EntryFulfils
  <2> HIDE DEF q, v
  <2>7. DOMAIN b = {"dict", "out"} /\ b.out = a.out \o q /\ b.dict = a.dict
    BY <2>1
  <2> HIDE DEF b
  <2>8. Fulfils(s, b.out, W \cup {v}, D \cup {})
    BY <2>6, <2>7, FulfilTogether
  <2> QED
    BY <2>5, <2>7, <2>8 DEF b
<1>8. CASE x.ok /\ x.code = "TEID-RATE-LIMITER"
  <2> DEFINE q == fill_teid_rate_limiter_table(x.key, x.table, x.mode, s.big)
  <2>1. b = [a EXCEPT !.out = @ \o q]
    BY <1>8 DEF process_line, process_teid_rate_limiter
  <2>2. x.table \notin KeyNames(s)
    BY <1>1, <1>8 DEF LineFits, KeyNames
  <2>3. ~IsLpmTable(s, x.table)
    BY DEF IsLpmTable, L3Apps
  <2>4. Fulfils(s, q, {}, {})
    <3>1. CASE x.mode \notin {"APPLY_METER", "_NOP", "_DROP"}
      BY <3>1, NothingFulfils DEF fill_teid_rate_limiter_table
    <3>2. CASE x.mode \in {"APPLY_METER", "_NOP", "_DROP"}
      BY <2>2, <2>3, <3>2, ExactElsewhere, Params DEF fill_teid_rate_limiter_table
    <3> QED
      BY <3>1, <3>2
  <2>5. LineWants(s, x) = {} /\ LineDefaults(s, x) = {}
    BY <1>2, <1>8 DEF LineWants, LineDefaults, WantedOfL2
  <2> HIDE DEF q
  <2>6. DOMAIN b = {"dict", "out"} /\ b.out = a.out \o q /\ b.dict = a.dict
    BY <2>1
  <2> HIDE DEF b
  <2>7. Fulfils(s, b.out, W \cup {}, D \cup {})
    BY <2>4, <2>6, FulfilTogether
  <2> QED
    BY <2>5, <2>6, <2>7 DEF b
<1>9. CASE x.ok /\ x.code \notin {"TRANSLATION", "SET-DEFAULT", "MAC-FWD", "EXACT", "TEID-RATE-LIMITER"}
  <2>1. b = a
    BY <1>9 DEF process_line
  <2>2. LineWants(s, x) = {} /\ LineDefaults(s, x) = {}
    <3>1. x.code # "DIGEST"
      BY <1>1, <1>9 DEF LineFits
    <3> QED
      BY <1>2, <1>9, <3>1 DEF LineWants, LineDefaults, WantedOfL2
  <2> QED
    BY <2>1, <2>2
<1> QED
  BY <1>3, <1>4, <1>5, <1>6, <1>7, <1>8, <1>9

\* The lines of a file are processed one after the other.
ReadAs(f, t, file, big) ==
  /\ f[0] = t /\ process_config_file(t, file, big) = f[Len(file)]
  /\ \A i \in 1 .. Len(file) : f[i] = process_line(f[i - 1], file[i], big)

\* process_config_file of l2fwd goes through one line after the other.
LEMMA ReadInOrder ==
    ASSUME NEW t, NEW file, Len(file) \in Nat, NEW big
    PROVE  \E f : ReadAs(f, t, file, big)
<1> DEFINE N == Len(file)
           After(x, i) == process_line(x, file[i], big)
           Good(f, n) == f[0] = t /\ \A i \in 1 .. n : f[i] = After(f[i - 1], i)
           Bad == {n \in 0 .. N : ~\E f : Good(f, n)}
           l == CHOOSE f : f = [i \in 0 .. N |-> IF i = 0 THEN t ELSE After(f[i - 1], i)]
<1>1. process_config_file(t, file, big) = l[N]
  BY DEF process_config_file
<1>2. N \in Nat
  OBVIOUS
<1> HIDE DEF N, After
<1>3. Bad = {}
  <2> SUFFICES ASSUME Bad # {} PROVE FALSE
    OBVIOUS
  <2>1. PICK m \in Bad : \A n \in Bad : m <= n
    <3>1. Bad \subseteq Nat
      BY <1>2
    <3> HIDE DEF Bad
    <3> QED
      BY <3>1, LeastExists
  <2>2. m # 0
    <3> DEFINE f == [i \in 0 .. 0 |-> t]
    <3>1. Good(f, 0)
      OBVIOUS
    <3> QED
      BY <3>1
  <2>3. m - 1 \in 0 .. N /\ m - 1 \notin Bad /\ m \in Nat
    <3>1. m \in Nat /\ m <= N
      BY <1>2
    <3>2. m - 1 \in 0 .. N /\ ~(m <= m - 1)
      BY <1>2, <2>2, <3>1
    <3> HIDE DEF Bad
    <3> QED
      BY <2>1, <3>1, <3>2
  <2>4. PICK f : Good(f, m - 1)
    BY <2>3
  <2> DEFINE g == [i \in 0 .. m |-> IF i = m THEN After(f[m - 1], m) ELSE f[i]]
  <2>5. Good(g, m)
    <3>1. g[0] = t
      BY <2>2, <2>3, <2>4
    <3>2. ASSUME NEW i \in 1 .. m PROVE g[i] = After(g[i - 1], i)
      <4>1. i \in 0 .. m /\ i - 1 \in 0 .. m /\ i - 1 # m
        BY <2>3
      <4>2. g[i - 1] = f[i - 1]
        BY <4>1
      <4>3. CASE i = m
        BY <2>3, <4>1, <4>2, <4>3
      <4>4. CASE i # m
        <5>1. i \in 1 .. m - 1
          BY <2>3, <4>4
        <5> QED
          BY <2>4, <4>1, <4>2, <4>4, <5>1
      <4> QED
        BY <4>3, <4>4
    <3> QED
      BY <3>1, <3>2
  <2> HIDE DEF Good, g
  <2> QED
    BY <2>1, <2>5
<1>4. PICK f : Good(f, N)
  <2>1. N \in 0 .. N
    BY <1>2
  <2>2. N \notin Bad
    BY <1>3
  <2> HIDE DEF Good
  <2> QED
    BY <2>1, <2>2
<1> DEFINE e == [i \in 0 .. N |-> f[i]]
<1>5. e = [i \in 0 .. N |-> IF i = 0 THEN t ELSE After(e[i - 1], i)]
  <2>1. \A i \in 0 .. N : i # 0 => i \in 1 .. N /\ i - 1 \in 0 .. N
    BY <1>2
  <2> QED
    BY <1>4, <2>1
<1>6. l = [i \in 0 .. N |-> IF i = 0 THEN t ELSE After(l[i - 1], i)]
  <2> HIDE DEF e
  <2> QED
    BY <1>5
<1> HIDE DEF l
<1>7. l[0] = t /\ \A i \in 1 .. N : l[i] = After(l[i - 1], i)
  <2>1. 0 \in 0 .. N /\ \A i \in 1 .. N : i \in 0 .. N /\ i # 0
    BY <1>2
  <2> QED
    BY <1>6, <2>1
<1> QED
  BY <1>1, <1>7 DEF N, After, ReadAs

\* Only a translation changes the dictionary.
LEMMA LineKeeps ==
    ASSUME NEW a, DOMAIN a = {"dict", "out"}, NEW x, NEW big
    PROVE  LET b == process_line(a, x, big)
           IN  /\ DOMAIN b = {"dict", "out"}
               /\ ~(x.ok /\ x.code = "TRANSLATION") => b.dict = a.dict
BY DEF process_line, process_translation, process_set_default, process_mac_fwd, process_exact,
   process_teid_rate_limiter

\* The whole file of l2fwd.
LEMMA L2FileFulfils ==
    ASSUME NEW s, WellMatched(s), s.app = "l2fwd"
    PROVE  Fulfils(s, process_config_file(l2fwd_start, s.file, s.big).out,
                   UNION {Wanted(s, FinalDict(s), x) : x \in GoneThrough(s, Lines(s))},
                   WantedDefaults(s, FinalDict(s), Lines(s)))
<1> DEFINE N == Len(s.file)
           d == FinalDict(s)
           Wants(n) == UNION {LineWants(s, s.file[j]) : j \in 1 .. n}
           Sets(n) == UNION {LineDefaults(s, s.file[j]) : j \in 1 .. n}
<1>1. s.file \in Seq(Range(s.file)) /\ N \in Nat /\ DOMAIN s.file = 1 .. N /\ Lines(s) = s.file
  <2>1. IsSeq(s.file)
    BY DEF WellMatched
  <2>2. Lines(s) = s.file
    BY DEF Lines, WellMatched, L3Apps
  <2> QED
    BY <2>1, <2>2, LenProperties DEF IsSeq
<1>2. PICK f : /\ f[0] = l2fwd_start /\ process_config_file(l2fwd_start, s.file, s.big) = f[N]
               /\ \A i \in 1 .. N : f[i] = process_line(f[i - 1], s.file[i], s.big)
  <2>1. \E f : ReadAs(f, l2fwd_start, s.file, s.big)
    BY <1>1, ReadInOrder
  <2> QED
    BY <2>1 DEF ReadAs
<1>3. d = f[N].dict
  BY <1>2 DEF FinalDict
<1> HIDE DEF N, d
<1>4. \A i \in 0 .. N : DOMAIN f[i] = {"dict", "out"}
  <2> DEFINE T == {i \in 0 .. N : DOMAIN f[i] # {"dict", "out"}}
  <2> SUFFICES ASSUME T # {} PROVE FALSE
    OBVIOUS
  <2>1. PICK n \in T : \A y \in T : n <= y
    <3>1. T \in SUBSET Nat
      BY <1>1
    <3>2. PICK e \in T : TRUE
      OBVIOUS
    <3> HIDE DEF T
    <3> QED
      BY <3>1, <3>2, LeastExists
  <2>2. n \in 0 .. N /\ DOMAIN f[n] # {"dict", "out"}
    BY <2>1
  <2>3. n # 0
    BY <1>2, <2>2 DEF l2fwd_start
  <2>4. n \in 1 .. N /\ n - 1 \in 0 .. N /\ ~(n <= n - 1)
    BY <1>1, <2>2, <2>3
  <2>5. DOMAIN f[n - 1] = {"dict", "out"}
    BY <2>1, <2>4
  <2>6. DOMAIN process_line(f[n - 1], s.file[n], s.big) = {"dict", "out"}
    <3> DEFINE a == f[n - 1]
               b == process_line(a, s.file[n], s.big)
    <3>1. DOMAIN a = {"dict", "out"}
      BY <2>5
    <3> HIDE DEF a, b
    <3>2. DOMAIN b = {"dict", "out"}
      BY ONLY <3>1, LineKeeps DEF b
    <3> QED
      BY <3>2 DEF a, b
  <2> QED
    BY <1>2, <2>2, <2>4, <2>6
<1>5. ASSUME NEW i \in 1 .. N, Sends(s.file[i]) PROVE f[i - 1].dict = d
  <2> DEFINE T == {j \in i .. N : f[j].dict # f[i - 1].dict}
  <2>1. T = {}
    <3> SUFFICES ASSUME T # {} PROVE FALSE
      OBVIOUS
    <3>1. PICK n \in T : \A y \in T : n <= y
      <4>1. T \in SUBSET Nat
        BY <1>1
      <4>2. PICK e \in T : TRUE
        OBVIOUS
      <4> HIDE DEF T
      <4> QED
        BY <4>1, <4>2, LeastExists
    <3>2. n \in i .. N /\ f[n].dict # f[i - 1].dict
      BY <3>1
    <3>3. n \in 1 .. N /\ n - 1 \in 0 .. N /\ ~(n <= n - 1)
      BY <1>1, <3>2
    <3>4. f[n - 1].dict = f[i - 1].dict
      <4>1. CASE n = i
        BY <4>1
      <4>2. CASE n # i
        <5>1. n - 1 \in i .. N /\ n - 1 \notin T
          BY <1>1, <3>1, <3>2, <3>3, <4>2
        <5> QED
          BY <5>1
      <4> QED
        BY <4>1, <4>2
    <3>5. ~(s.file[n].ok /\ s.file[n].code = "TRANSLATION")
      <4>1. CASE n = i
        BY <1>5, <4>1 DEF Sends
      <4>2. CASE n # i
        <5>1. i < n /\ i \in DOMAIN s.file /\ n \in DOMAIN s.file
          BY <1>1, <3>2, <3>3, <4>2
        <5> QED
          BY <1>5, <5>1 DEF WellMatched, Sends
      <4> QED
        BY <4>1, <4>2
    <3>6. f[n].dict = f[n - 1].dict
      <4>1. f[n] = process_line(f[n - 1], s.file[n], s.big) /\ DOMAIN f[n - 1] = {"dict", "out"}
        BY <1>2, <1>4, <3>3
      <4>2. process_line(f[n - 1], s.file[n], s.big).dict = f[n - 1].dict
        <5> DEFINE a == f[n - 1]
                   x == s.file[n]
        <5>1. DOMAIN a = {"dict", "out"} /\ ~(x.ok /\ x.code = "TRANSLATION")
          BY <3>5, <4>1
        <5> HIDE DEF a, x
        <5>2. process_line(a, x, s.big).dict = a.dict
          BY <5>1, LineKeeps
        <5> QED
          BY <5>2 DEF a, x
      <4> QED
        BY <4>1, <4>2
    <3> QED
      BY <3>2, <3>4, <3>6
  <2>2. N \in i .. N /\ N \notin T
    BY <1>1, <2>1
  <2> QED
    BY <1>3, <2>2
<1>6. \A i \in 0 .. N : Fulfils(s, f[i].out, Wants(i), Sets(i))
  <2> DEFINE Good(n) == Fulfils(s, f[n].out, Wants(n), Sets(n))
             T == {n \in 0 .. N : ~Good(n)}
  <2>1. Good(0)
    <3>1. 1 .. 0 = {}
      OBVIOUS
    <3>2. Wants(0) = {} /\ Sets(0) = {}
      BY <3>1
    <3>3. f[0].out = << >>
      BY <1>2 DEF l2fwd_start
    <3> HIDE DEF Wants, Sets
    <3> QED
      BY <3>2, <3>3, NothingFulfils
  <2>2. ASSUME NEW n \in 1 .. N, Good(n - 1) PROVE Good(n)
    <3>1. n - 1 \in 0 .. N /\ n \in DOMAIN s.file /\ 1 .. n = (1 .. n - 1) \cup {n}
      BY <1>1
    <3>2. s.file[n] \in Range(s.file) /\ DOMAIN f[n - 1] = {"dict", "out"}
      BY <1>4, <3>1 DEF Range
    <3>3. Sends(s.file[n]) => f[n - 1].dict = FinalDict(s)
      BY <1>5 DEF d
    <3>4. /\ Wants(n) = Wants(n - 1) \cup LineWants(s, s.file[n])
          /\ Sets(n) = Sets(n - 1) \cup LineDefaults(s, s.file[n])
      BY <3>1
    <3> HIDE DEF Wants, Sets
    <3>5. Fulfils(s, process_line(f[n - 1], s.file[n], s.big).out,
                  Wants(n - 1) \cup LineWants(s, s.file[n]), Sets(n - 1) \cup LineDefaults(s, s.file[n]))
      BY <2>2, <3>2, <3>3, L2LineFulfils
    <3> QED
      BY <1>2, <3>4, <3>5
  <2> HIDE DEF Good
  <2>3. T = {}
    <3> SUFFICES ASSUME T # {} PROVE FALSE
      OBVIOUS
    <3>1. PICK n \in T : \A y \in T : n <= y
      <4>1. T \in SUBSET Nat
        BY <1>1
      <4>2. PICK e \in T : TRUE
        OBVIOUS
      <4> HIDE DEF T
      <4> QED
        BY <4>1, <4>2, LeastExists
    <3>2. n \in 0 .. N /\ ~Good(n) /\ n # 0
      BY <2>1, <3>1
    <3>3. n \in 1 .. N /\ n - 1 \in 0 .. N /\ ~(n <= n - 1)
      BY <1>1, <3>2
    <3>4. n - 1 \notin T
      BY <3>1, <3>3
    <3> QED
      BY <2>2, <3>2, <3>3, <3>4
  <2> QED
    BY <2>3 DEF Good
<1>7. Fulfils(s, f[N].out, Wants(N), Sets(N))
  <2>1. N \in 0 .. N
    BY <1>1
  <2> HIDE DEF Wants, Sets
  <2> QED
    BY <1>6, <2>1
<1>8. GoneThrough(s, Lines(s)) = {s.file[i] : i \in {j \in 1 .. N : s.file[j].ok}}
  BY <1>1 DEF GoneThrough
<1>9. Wants(N) = UNION {Wanted(s, d, x) : x \in GoneThrough(s, Lines(s))}
  BY <1>8 DEF LineWants, d
<1>10. Sets(N) = WantedDefaults(s, d, Lines(s))
  <2>1. WantedDefaults(s, d, Lines(s))
          = {<<translate(d, l.table), translate(d, l.action)>> :
               l \in {m \in GoneThrough(s, Lines(s)) : m.code = "SET-DEFAULT"}}
    BY DEF WantedDefaults
  <2> QED
    BY <1>8, <2>1 DEF LineDefaults, d
<1> HIDE DEF Wants, Sets
<1> QED
  BY <1>2, <1>7, <1>9, <1>10 DEF d

-----------------------------------------------------------------------------
\* The lines of a file up to the first wrong one.
WantsOf(s, d, X) == UNION {Wanted(s, d, x) : x \in X}

\* A sequence by its domain and its length.
LEMMA SequenceIs ==
    ASSUME NEW q, IsSeq(q)
    PROVE  Len(q) \in Nat /\ DOMAIN q = 1 .. Len(q)
BY LenProperties DEF IsSeq

\* The lines before the first wrong one.
LEMMA AcceptedLines ==
    ASSUME NEW s, s.app # "l2fwd", NEW file, IsSeq(file), NEW codes,
           \A x \in GoneThrough(s, file) : x.code \in codes
    PROVE  LET q == Accepted(file, codes)
           IN  Len(q) \in Nat /\ DOMAIN q = 1 .. Len(q) /\ Range(q) = GoneThrough(s, file)
<1> DEFINE N == Len(file)
           right == {i \in DOMAIN file : file[i].ok}
           wrong == {i \in DOMAIN file : ~file[i].ok \/ file[i].code \notin codes}
           J == {j \in right : 1 .. j \subseteq right}
           q == Accepted(file, codes)
<1>1. N \in Nat /\ DOMAIN file = 1 .. N /\ file \in Seq(Range(file))
  BY SequenceIs DEF IsSeq
<1>2. GoneThrough(s, file) = {file[j] : j \in J}
  BY DEF GoneThrough
<1>3. \A j \in J : file[j].code \in codes
  BY <1>2
<1>4. CASE wrong = {}
  <2>1. q = file
    BY <1>4 DEF Accepted
  <2>2. right = DOMAIN file
    BY <1>4
  <2>3. J = DOMAIN file
    BY <1>1, <2>2
  <2> QED
    BY <1>1, <1>2, <2>1, <2>3 DEF Range
<1>5. CASE wrong # {}
  <2>1. PICK w \in wrong : \A y \in wrong : w <= y
    <3>1. wrong \in SUBSET Nat
      BY <1>1
    <3>2. PICK e \in wrong : TRUE
      BY <1>5
    <3> HIDE DEF wrong
    <3> QED
      BY <3>1, <3>2, LeastExists
  <2>2. Min(wrong) = w
    <3>1. wrong \in SUBSET Nat
      BY <1>1
    <3> HIDE DEF wrong
    <3>2. PICK m : m = Min(wrong)
      OBVIOUS
    <3>3. m \in wrong /\ \A y \in wrong : m <= y
      BY <2>1, <3>2 DEF Min
    <3>4. m \in Nat /\ w \in Nat /\ m <= w /\ w <= m
      BY <2>1, <3>1, <3>3
    <3> QED
      BY <3>2, <3>4
  <2>3. q = SubSeq(file, 1, w - 1)
    BY <1>5, <2>2 DEF Accepted
  <2>4. w \in 1 .. N
    BY <1>1, <2>1
  <2>5. Len(q) = w - 1 /\ DOMAIN q = 1 .. w - 1 /\ \A i \in 1 .. w - 1 : q[i] = file[i]
    BY <1>1, <2>3, <2>4
  <2>6. \A i \in 1 .. w - 1 : i \in right
    <3> TAKE i \in 1 .. w - 1
    <3>1. i \in DOMAIN file /\ ~(w <= i)
      BY <1>1, <2>4
    <3> QED
      BY <2>1, <3>1
  <2>7. J = 1 .. w - 1
    <3>1. ASSUME NEW i \in 1 .. w - 1 PROVE i \in J
      <4>1. \A j \in 1 .. i : j \in 1 .. w - 1
        BY <2>4
      <4> QED
        BY <2>6, <4>1
    <3>2. ASSUME NEW j \in J PROVE j \in 1 .. w - 1
      <4>1. j \in 1 .. N
        BY <1>1
      <4>2. CASE w <= j
        <5>1. w \in 1 .. j /\ 1 .. w \subseteq 1 .. j
          BY <2>4, <4>1, <4>2
        <5>2. w \in J
          BY <5>1
        <5> QED
          BY <1>3, <2>1, <5>2
      <4> QED
        BY <2>4, <4>1, <4>2
    <3> QED
      BY <3>1, <3>2
  <2> HIDE DEF q, J
  <2> QED
    BY <1>2, <2>4, <2>5, <2>7 DEF Range, q
<1> QED
  BY <1>4, <1>5

\* The lines that are gone through are lines and right.
LEMMA GoneThroughIs ==
    ASSUME NEW s, NEW file, NEW x \in GoneThrough(s, file)
    PROVE  x \in Range(file) /\ x.ok
BY DEF GoneThrough, Range

\* The lines of l3fwd.
LEMMA L3LinesFulfil ==
    ASSUME NEW s, WellMatched(s), s.app \in L3Apps, IsSeq(Lines(s)), NEW d
    PROVE  Fulfils(s, l3fwd_read_config_from_file(Lines(s), s.big),
                   WantsOf(s, d, GoneThrough(s, Lines(s))), {})
<1> DEFINE q == Accepted(Lines(s), {"M", "E", "N"})
           Q == [i \in DOMAIN q |-> l3fwd_entry(q[i], s.big)]
           W == [i \in DOMAIN q |-> Wanted(s, d, q[i])]
           X == GoneThrough(s, Lines(s))
<1>1. \A x \in X : Fulfils(s, l3fwd_entry(x, s.big), Wanted(s, d, x), {}) /\ x.code \in {"M", "N", "E"}
  BY GoneThroughIs, L3Fulfils
<1>2. Len(q) \in Nat /\ DOMAIN q = 1 .. Len(q) /\ Range(q) = X
  <2>1. s.app # "l2fwd"
    BY DEF L3Apps
  <2> QED
    BY <1>1, <2>1, AcceptedLines
<1> HIDE DEF q, X
<1>3. \A i \in DOMAIN q : q[i] \in X
  BY <1>2 DEF Range
<1>4. \A i \in DOMAIN Q : Fulfils(s, Q[i], W[i], {})
  BY <1>1, <1>3
<1>5. DOMAIN Q = 1 .. Len(Q) /\ Len(Q) \in Nat /\ DOMAIN Q = DOMAIN q
  BY <1>2
<1>6. UNION {W[i] : i \in DOMAIN Q} = WantsOf(s, d, X)
  BY <1>2 DEF WantsOf, Range
<1>7. l3fwd_read_config_from_file(Lines(s), s.big) = FlattenSeq(Q)
  BY DEF l3fwd_read_config_from_file, Concat, q
<1> HIDE DEF Q, W
<1>8. Fulfils(s, FlattenSeq(Q), UNION {W[i] : i \in DOMAIN Q}, {})
  BY ONLY <1>4, <1>5, AllFulfil
<1> QED
  BY <1>6, <1>7, <1>8 DEF X

\* The file of smgw.
LEMMA SmgwLinesFulfil ==
    ASSUME NEW s, WellMatched(s), s.app = "smgw", s.hasFile, ~smgw_dies(s.file), NEW d
    PROVE  Fulfils(s, smgw_read_config_from_file(s.file),
                   WantsOf(s, d, GoneThrough(s, s.file)), {})
<1> DEFINE q == Accepted(s.file, SmgwCodes)
           Q == [i \in DOMAIN q |-> smgw_entry(q[i])]
           W == [i \in DOMAIN q |-> Wanted(s, d, q[i])]
           X == GoneThrough(s, s.file)
<1>1. Lines(s) = s.file /\ IsSeq(s.file)
  BY DEF Lines, WellMatched
<1>2. ASSUME NEW x \in X PROVE x.code # "TEID-RATE-LIMITER"
  <2> SUFFICES ASSUME x.code = "TEID-RATE-LIMITER" PROVE FALSE
    OBVIOUS
  <2> DEFINE N == Len(s.file)
             right == {i \in DOMAIN s.file : s.file[i].ok}
             T == {i \in right : 1 .. i \subseteq right /\ s.file[i].code = "TEID-RATE-LIMITER"}
  <2>1. N \in Nat /\ DOMAIN s.file = 1 .. N /\ s.file \in Seq(Range(s.file))
    BY <1>1, SequenceIs DEF IsSeq
  <2>2. T # {}
    BY DEF GoneThrough
  <2>3. PICK n \in T : \A y \in T : n <= y
    <3>1. T \in SUBSET Nat
      BY <2>1
    <3>2. PICK e \in T : TRUE
      BY <2>2
    <3> HIDE DEF T
    <3> QED
      BY <3>1, <3>2, LeastExists
  <2>4. n \in 1 .. N /\ s.file[n].ok /\ s.file[n].code = "TEID-RATE-LIMITER" /\ 1 .. n \subseteq right
    BY <2>1, <2>3
  <2> DEFINE p == SubSeq(s.file, 1, n - 1)
             wrong == {i \in DOMAIN p : ~p[i].ok \/ p[i].code \notin SmgwCodes}
  <2>5. Len(p) = n - 1 /\ DOMAIN p = 1 .. n - 1 /\ \A i \in 1 .. n - 1 : p[i] = s.file[i]
    BY <2>1, <2>4
  <2>6. ASSUME NEW i \in 1 .. n - 1 PROVE s.file[i].ok /\ s.file[i].code \in SmgwCodes
    <3>1. i \in DOMAIN s.file /\ i \in 1 .. n /\ 1 .. i \subseteq 1 .. n /\ ~(n <= i)
      BY <2>1, <2>4
    <3>2. i \in right /\ 1 .. i \subseteq right
      BY <2>4, <3>1
    <3>3. s.file[i].code # "TEID-RATE-LIMITER"
      BY <2>3, <3>1, <3>2
    <3>4. s.file[i] \in Range(Lines(s))
      BY <1>1, <3>1 DEF Range
    <3> QED
      BY <3>2, <3>3, <3>4, SmgwFulfils
  <2> HIDE DEF p
  <2>7. wrong = {}
    BY <2>5, <2>6
  <2>8. Accepted(p, SmgwCodes) = p
    BY <2>7 DEF Accepted
  <2>9. smgw_dies(s.file)
    BY <2>1, <2>4, <2>8 DEF smgw_dies, p
  <2> QED
    BY <2>9
<1>3. \A x \in X : Fulfils(s, smgw_entry(x), Wanted(s, d, x), {}) /\ x.code \in SmgwCodes
  BY <1>1, <1>2, GoneThroughIs, SmgwFulfils
<1>4. Len(q) \in Nat /\ DOMAIN q = 1 .. Len(q) /\ Range(q) = X
  BY <1>1, <1>3, AcceptedLines
<1> HIDE DEF q, X
<1>5. \A i \in DOMAIN q : q[i] \in X
  BY <1>4 DEF Range
<1>6. \A i \in DOMAIN Q : Fulfils(s, Q[i], W[i], {})
  BY <1>3, <1>5
<1>7. DOMAIN Q = 1 .. Len(Q) /\ Len(Q) \in Nat /\ DOMAIN Q = DOMAIN q
  BY <1>4
<1>8. UNION {W[i] : i \in DOMAIN Q} = WantsOf(s, d, X)
  BY <1>4 DEF WantsOf, Range
<1>9. smgw_read_config_from_file(s.file) = FlattenSeq(Q)
  BY DEF smgw_read_config_from_file, Concat, q
<1> HIDE DEF Q, W
<1>10. Fulfils(s, FlattenSeq(Q), UNION {W[i] : i \in DOMAIN Q}, {})
  BY ONLY <1>6, <1>7, AllFulfil
<1> QED
  BY <1>8, <1>9, <1>10 DEF X

\* The file of psa_l2fwd.
LEMMA PsaLinesFulfil ==
    ASSUME NEW s, WellMatched(s), s.app = "psa_l2fwd", Listens(s), NEW d
    PROVE  Fulfils(s, Concat([i \in DOMAIN s.file |-> psa_entry(s.file[i])]),
                   WantsOf(s, d, GoneThrough(s, s.file)), {})
<1> DEFINE q == s.file
           Q == [i \in DOMAIN q |-> psa_entry(q[i])]
           W == [i \in DOMAIN q |-> Wanted(s, d, q[i])]
           X == GoneThrough(s, q)
<1>1. Lines(s) = q /\ IsSeq(q)
  BY DEF Lines, WellMatched, L3Apps
<1>2. Len(q) \in Nat /\ DOMAIN q = 1 .. Len(q)
  BY <1>1, SequenceIs
<1>3. \A i \in DOMAIN q : q[i].ok
  BY DEF Listens, read_macs_and_ports_from_file
<1>4. \A i \in DOMAIN q : q[i].key \in Bytes(6)
  <2> TAKE i \in DOMAIN q
  <2>1. q[i] \in Range(Lines(s))
    BY <1>1 DEF Range
  <2>2. LineFits(s, q[i])
    BY <1>3, <2>1 DEF WellMatched
  <2> QED
    BY <2>2 DEF LineFits, L3Apps
<1>5. X = Range(q)
  <2>1. {i \in DOMAIN q : q[i].ok} = DOMAIN q
    BY <1>3
  <2>2. {j \in DOMAIN q : 1 .. j \subseteq DOMAIN q} = DOMAIN q
    BY <1>2
  <2> QED
    BY <2>1, <2>2 DEF GoneThrough, Range
<1> HIDE DEF q, X
<1>6. \A i \in DOMAIN Q : Fulfils(s, Q[i], W[i], {})
  BY <1>4, PsaFulfils
<1>7. DOMAIN Q = 1 .. Len(Q) /\ Len(Q) \in Nat /\ DOMAIN Q = DOMAIN q
  BY <1>2
<1>8. UNION {W[i] : i \in DOMAIN Q} = WantsOf(s, d, X)
  BY <1>5 DEF WantsOf, Range
<1> HIDE DEF Q, W
<1>9. Fulfils(s, FlattenSeq(Q), UNION {W[i] : i \in DOMAIN Q}, {})
  BY ONLY <1>6, <1>7, AllFulfil
<1> QED
  BY <1>8, <1>9 DEF X, Q, q, Concat

-----------------------------------------------------------------------------
\* The messages for a connection: p and r are nothing or the one that says that
\* the controller is initialized; p comes first where no default is expected.
AllDefaults(s) == WantedDefaults(s, FinalDict(s), Lines(s))
Notices == {<< >>, notify_controller_initialized}
Composed(s, script, p, q, r, X, D) ==
  /\ p \in Notices /\ r \in Notices /\ script = (p \o q) \o r
  /\ Fulfils(s, q, WantsOf(s, FinalDict(s), X), D)
  /\ AllDefaults(s) # {} => p = << >>

\* No messages in front or behind.
LEMMA NothingBefore ==
    ASSUME NEW q, IsSeq(q) PROVE << >> \o q = q /\ q \o << >> = q
BY DEF IsSeq

\* notify_controller_initialized sends a sequence.
LEMMA NoticeIs ==
    IsSeq(notify_controller_initialized) /\ \A p \in Notices : IsSeq(p)
<1>1. IsSeq(notify_controller_initialized)
  BY InitializedIs, RangeOf
<1> QED
  BY <1>1, NoNotes DEF Notices

\* An empty dictionary translates nothing.
LEMMA AsNamed == \A key : translate(<< >>, key) = key
BY DEF translate

\* set_table_default_action without a dictionary.
LEMMA DefaultSet ==
    ASSUME NEW s, NEW table, NEW action
    PROVE  Fulfils(s, set_table_default_action(<< >>, table, action), {}, {<<table, action>>})
BY DefaultFulfils, AsNamed DEF set_table_default_action

\* Applications that expect no defaults.
LEMMA NoDefaults ==
    ASSUME NEW s, s.app \in L3Apps \cup {"smgw", "dummy"}
    PROVE  AllDefaults(s) = {}
BY DEF AllDefaults, WantedDefaults, L3Apps

\* A notice in front, or not.
LEMMA NoticeFirst ==
    ASSUME NEW s, NEW p \in Notices, AllDefaults(s) = {}, NEW q, NEW X, NEW D,
           Fulfils(s, q, WantsOf(s, FinalDict(s), X), D)
    PROVE  Composed(s, p \o q, p, q, << >>, X, D)
<1>1. IsSeq(p) /\ IsSeq(q)
  BY NoticeIs DEF Fulfils
<1>2. IsSeq(p \o q)
  BY <1>1, RangeConcat
<1>3. << >> \in Notices
  BY DEF Notices
<1> QED
  BY <1>2, <1>3, NothingBefore DEF Composed

\* One behind.
LEMMA NoticeLast ==
    ASSUME NEW s, NEW q, NEW X, NEW D, Fulfils(s, q, WantsOf(s, FinalDict(s), X), D)
    PROVE  Composed(s, << >> \o (q \o notify_controller_initialized), << >>, q,
                    notify_controller_initialized, X, D)
<1> DEFINE r == notify_controller_initialized
<1>1. IsSeq(q) /\ IsSeq(r)
  BY NoticeIs DEF Fulfils
<1>2. IsSeq(q \o r)
  BY <1>1, RangeConcat
<1>3. << >> \o (q \o r) = (<< >> \o q) \o r
  BY <1>1, <1>2, NothingBefore
<1>4. << >> \in Notices /\ r \in Notices
  BY DEF Notices
<1> QED
  BY <1>3, <1>4 DEF Composed

\* Nothing is wanted of no lines.
LEMMA NoLines == \A s, d : GoneThrough(s, << >>) = {} /\ WantsOf(s, d, {}) = {}
BY NoNotes DEF GoneThrough, WantsOf

\* The lines gone through for the next connection.
NextHeard == IF setup.app = "l2fwd" /\ conns > 0 THEN << >> ELSE Lines(setup)

\* What each controller sends for a connection.  l2fwd.
LEMMA ScriptOfL2 ==
    ASSUME WellMatched(setup), setup.app = "l2fwd", conns \in Nat
    PROVE  \E p, q, r, D : /\ Composed(setup, Script, p, q, r, GoneThrough(setup, NextHeard), D)
                           /\ D = IF conns = 0 THEN AllDefaults(setup) ELSE {}
<1> DEFINE r == notify_controller_initialized
<1>1. setup.app \notin NotifiesFirst
  BY DEF NotifiesFirst
<1>2. CASE conns = 0
  <2> DEFINE q == l2fwd_app.out
             X == GoneThrough(setup, Lines(setup))
  <2>1. Fulfils(setup, q, WantsOf(setup, FinalDict(setup), X), AllDefaults(setup))
    BY L2FileFulfils DEF l2fwd_app, WantsOf, AllDefaults
  <2>2. Script = << >> \o (q \o r)
    BY <1>1, <1>2 DEF Script, InitScript
  <2>3. NextHeard = Lines(setup)
    BY <1>2 DEF NextHeard
  <2> HIDE DEF q, X
  <2>4. Composed(setup, Script, << >>, q, r, X, AllDefaults(setup))
    BY <2>1, <2>2, NoticeLast
  <2> QED
    BY <1>2, <2>3, <2>4 DEF X
<1>3. CASE conns # 0
  <2>1. Script = << >> \o (<< >> \o r)
    BY <1>1, <1>3 DEF Script, InitScript
  <2>2. NextHeard = << >>
    BY <1>3 DEF NextHeard
  <2>3. Fulfils(setup, << >>, WantsOf(setup, FinalDict(setup), GoneThrough(setup, NextHeard)), {})
    BY <2>2, NoLines, NothingFulfils
  <2>4. Composed(setup, Script, << >>, << >>, r, GoneThrough(setup, NextHeard), {})
    BY <2>1, <2>3, NoticeLast
  <2> QED
    BY <1>3, <2>4
<1> QED
  BY <1>2, <1>3

\* psa_l2fwd.
LEMMA ScriptOfPsa ==
    ASSUME WellMatched(setup), setup.app = "psa_l2fwd", Listens(setup)
    PROVE  \E p, q, r : Composed(setup, Script, p, q, r, GoneThrough(setup, NextHeard), AllDefaults(setup))
<1> DEFINE r == notify_controller_initialized
           C == Concat([i \in DOMAIN setup.file |-> psa_entry(setup.file[i])])
           a == set_default_action_smac
           b == set_default_action_dmac
           X == GoneThrough(setup, NextHeard)
           W == WantsOf(setup, FinalDict(setup), X)
           A == {<<"smac_0", "mac_learn">>}
           B == {<<"dmac_0", "bcast">>}
<1>1. setup.app \notin NotifiesFirst
  BY DEF NotifiesFirst
<1>2. NextHeard = setup.file
  BY DEF NextHeard, Lines, WellMatched, L3Apps
<1>3. Fulfils(setup, C, W, {})
  BY <1>2, PsaLinesFulfil
<1>4. Fulfils(setup, a, {}, A)
  BY DefaultFulfils DEF set_default_action_smac
<1>5. Fulfils(setup, b, {}, B)
  BY DefaultFulfils DEF set_default_action_dmac
<1>6. AllDefaults(setup) = A \cup B
  BY DEF AllDefaults, WantedDefaults
<1>7. Script = << >> \o (((a \o b) \o C) \o r)
  BY <1>1 DEF Script, InitScript, psa_init
<1> HIDE DEF C, a, b, A, B, W
<1>8. Fulfils(setup, a \o b, {} \cup {}, A \cup B)
  BY <1>4, <1>5, FulfilTogether
<1>9. Fulfils(setup, (a \o b) \o C, {} \cup {} \cup W, A \cup B \cup {})
  BY <1>3, <1>8, FulfilTogether
<1>10. Fulfils(setup, (a \o b) \o C, WantsOf(setup, FinalDict(setup), X), AllDefaults(setup))
  BY <1>6, <1>9 DEF W
<1> HIDE DEF X
<1>11. Composed(setup, Script, << >>, (a \o b) \o C, r, X, AllDefaults(setup))
  BY <1>7, <1>10, NoticeLast
<1> QED
  BY <1>11 DEF X

\* l3fwd and l3-routing-full.
LEMMA ScriptOfL3 ==
    ASSUME WellMatched(setup), setup.app \in L3Apps
    PROVE  \E p, q, r, D : Composed(setup, Script, p, q, r, GoneThrough(setup, NextHeard), D)
<1> DEFINE p == IF conns = 0 /\ setup.app \in NotifiesFirst THEN notify_controller_initialized ELSE << >>
           L == l3fwd_read_config_from_file(Lines(setup), setup.big)
           X == GoneThrough(setup, NextHeard)
           W == WantsOf(setup, FinalDict(setup), X)
           a == set_default_action_macfwd
           b == set_default_action_nexthops
           c == set_default_action_ipv4_lpm
           A == {<<".macfwd", "._drop">>}
           B == {<<".nexthops", "._drop">>}
           C == {<<".ipv4_lpm", "._drop">>}
<1>1. NextHeard = Lines(setup) /\ AllDefaults(setup) = {} /\ p \in Notices
  BY NoDefaults DEF NextHeard, L3Apps, Notices
<1>2. IsSeq(Lines(setup))
  <2>1. CASE setup.hasFile
    <3>1. Lines(setup) = setup.file
      BY <2>1 DEF Lines
    <3>2. IsSeq(setup.file)
      BY DEF WellMatched
    <3> QED
      BY <3>1, <3>2
  <2>2. CASE ~setup.hasFile
    <3>1. \A g : IsSeq(BuiltIn(g))
      BY Params DEF BuiltIn
    <3> QED
      BY <2>2, <3>1 DEF Lines, L3Apps
  <2> QED
    BY <2>1, <2>2
<1>3. Fulfils(setup, L, W, {})
  BY <1>1, <1>2, L3LinesFulfil
<1>4. Fulfils(setup, a, {}, A)
  BY DefaultFulfils DEF set_default_action_macfwd
<1>5. Fulfils(setup, b, {}, B)
  BY DefaultFulfils DEF set_default_action_nexthops
<1>6. Fulfils(setup, c, {}, C)
  BY DefaultFulfils DEF set_default_action_ipv4_lpm
<1>7. \/ Script = p \o (((a \o b) \o c) \o L)
      \/ Script = p \o L
      \/ Script = p \o ((b \o c) \o L)
  <2>1. CASE setup.app = "l3fwd" /\ setup.hasFile
    <3>1. Lines(setup) = setup.file
      BY <2>1 DEF Lines
    <3>2. InitScript = l3fwd_init_complex(setup.file, setup.big)
      BY <2>1 DEF InitScript
    <3> QED
      BY <3>1, <3>2 DEF Script, l3fwd_init_complex
  <2>2. CASE setup.app = "l3fwd" /\ ~setup.hasFile
    BY <2>2 DEF Script, InitScript, l3fwd_init_simple, Lines
  <2>3. CASE setup.app = "l3-routing-full"
    <3>1. ~setup.hasFile
      BY <2>3 DEF WellMatched
    <3>2. InitScript = l3_routing_full_init_simple(setup.big)
      BY <2>3 DEF InitScript
    <3>3. Lines(setup) = BuiltIn(GroupOne)
      BY <2>3, <3>1 DEF Lines
    <3> QED
      BY <3>2, <3>3 DEF Script, l3_routing_full_init_simple
  <2> QED
    BY <2>1, <2>2, <2>3 DEF L3Apps
<1> HIDE DEF p, L, W, a, b, c, A, B, C
<1>8. Fulfils(setup, (b \o c) \o L, {} \cup {} \cup W, B \cup C \cup {})
  BY <1>3, <1>5, <1>6, FulfilTogether
<1>9. Fulfils(setup, (a \o b) \o c, {} \cup {} \cup {}, A \cup B \cup C)
  BY <1>4, <1>5, <1>6, FulfilTogether
<1>10. Fulfils(setup, ((a \o b) \o c) \o L, {} \cup {} \cup {} \cup W, A \cup B \cup C \cup {})
  BY <1>3, <1>9, FulfilTogether
<1>11. {} \cup {} \cup W = W /\ {} \cup {} \cup {} \cup W = W
  OBVIOUS
<1>12. ASSUME NEW q, NEW D, Fulfils(setup, q, W, D), Script = p \o q
       PROVE  \E pp, qq, r, DD : Composed(setup, Script, pp, qq, r, X, DD)
  <2>1. Fulfils(setup, q, WantsOf(setup, FinalDict(setup), X), D)
    BY <1>12 DEF W
  <2> HIDE DEF X
  <2>2. Composed(setup, Script, p, q, << >>, X, D)
    BY <1>1, <1>12, <2>1, NoticeFirst
  <2> QED
    BY <2>2
<1> HIDE DEF X
<1>13. \E pp, qq, r, DD : Composed(setup, Script, pp, qq, r, X, DD)
  BY <1>3, <1>7, <1>8, <1>10, <1>11, <1>12
<1> QED
  BY <1>13 DEF X

\* smgw.
LEMMA ScriptOfSmgw ==
    ASSUME WellMatched(setup), setup.app = "smgw", ~MustDie
    PROVE  \E p, q, r, D : Composed(setup, Script, p, q, r, GoneThrough(setup, NextHeard), D)
<1> DEFINE p == IF conns = 0 /\ setup.app \in NotifiesFirst THEN notify_controller_initialized ELSE << >>
           X == GoneThrough(setup, NextHeard)
           W == WantsOf(setup, FinalDict(setup), X)
<1>1. AllDefaults(setup) = {} /\ p \in Notices /\ NextHeard = Lines(setup)
  BY NoDefaults DEF NextHeard, Notices
<1>2. \E q, D : Fulfils(setup, q, W, D) /\ Script = p \o q
  <2>1. CASE setup.hasFile
    <3> DEFINE L == smgw_read_config_from_file(setup.file)
               a == set_table_default_action(<< >>, ".ue_selector", ".drop")
               b == set_table_default_action(<< >>, ".ipv4_forward", ".drop")
               c == set_table_default_action(<< >>, ".ipv4_lpm", ".drop")
               A == {<<".ue_selector", ".drop">>}
               B == {<<".ipv4_forward", ".drop">>}
               C == {<<".ipv4_lpm", ".drop">>}
    <3>1. ~smgw_dies(setup.file)
      BY <2>1 DEF MustDie, MayDie
    <3>2. NextHeard = setup.file
      BY <1>1, <2>1 DEF Lines
    <3>3. Fulfils(setup, L, W, {})
      BY <2>1, <3>1, <3>2, SmgwLinesFulfil
    <3>4. Fulfils(setup, a, {}, A)
      BY DefaultSet
    <3>5. Fulfils(setup, b, {}, B)
      BY DefaultSet
    <3>6. Fulfils(setup, c, {}, C)
      BY DefaultSet
    <3>7. Script = p \o (((a \o b) \o c) \o L)
      BY <2>1 DEF Script, InitScript, smgw_init_complex
    <3> HIDE DEF L, a, b, c, A, B, C, W, p
    <3>8. Fulfils(setup, (a \o b) \o c, {} \cup {} \cup {}, A \cup B \cup C)
      BY <3>4, <3>5, <3>6, FulfilTogether
    <3>9. Fulfils(setup, ((a \o b) \o c) \o L, {} \cup {} \cup {} \cup W, A \cup B \cup C \cup {})
      BY <3>3, <3>8, FulfilTogether
    <3>10. {} \cup {} \cup {} \cup W = W
      OBVIOUS
    <3> QED
      BY <3>7, <3>9, <3>10
  <2>2. CASE ~setup.hasFile
    <3>1. Lines(setup) = << >>
      BY <2>2 DEF Lines
    <3>2. W = {}
      BY <1>1, <3>1, NoLines
    <3>3. Script = p \o smgw_init_simple
      BY <2>2 DEF Script, InitScript
    <3>4. ".ipv4_lpm" \notin KeyNames(setup)
      BY WantedIs DEF KeyNames
    <3>5. LpmAction(setup) = "set_nhgrp" /\ Short(Byte(16))
      BY DEF LpmAction, Short, Byte
    <3>6. \A ip, g : Fulfils(setup, Lpm(".ipv4_lpm", ip, Byte(16), "set_nhgrp", <<g>>), {}, {})
      BY <3>4, <3>5, LpmElsewhere, Params
    <3>7. Fulfils(setup, smgw_init_simple, {}, {})
      BY <3>6 DEF smgw_init_simple, smgw_fill_ipv4_lpm_table
    <3> QED
      BY <3>2, <3>3, <3>7
  <2> QED
    BY <2>1, <2>2
<1>3. PICK q, D : Fulfils(setup, q, W, D) /\ Script = p \o q
  BY <1>2
<1>4. Fulfils(setup, q, WantsOf(setup, FinalDict(setup), X), D)
  BY <1>3
<1> HIDE DEF X, p
<1>5. Composed(setup, Script, p, q, << >>, X, D)
  BY <1>1, <1>3, <1>4, NoticeFirst
<1> QED
  BY <1>5 DEF X

\* portfwd.
LEMMA ScriptOfPortfwd ==
    ASSUME WellMatched(setup), setup.app = "portfwd", Listens(setup)
    PROVE  \E p, q, r : Composed(setup, Script, p, q, r, GoneThrough(setup, NextHeard), AllDefaults(setup))
<1> DEFINE r == notify_controller_initialized
           e == set_table_default_action(<< >>, ".t_fwd", "._drop")
           E == {<<".t_fwd", "._drop">>}
           X == GoneThrough(setup, NextHeard)
<1>1. NextHeard = << >>
  BY DEF NextHeard, Lines, Listens
<1>2. AllDefaults(setup) = E
  BY DEF AllDefaults, WantedDefaults
<1>3. Fulfils(setup, e, {}, E)
  BY DefaultSet
<1>4. ASSUME NEW i, NEW o, NEW m PROVE Fulfils(setup, fill_t_fwd_table(i, o, m, FALSE, setup.big), {}, {})
  <2>1. ~IsLpmTable(setup, ".t_fwd") /\ ".t_fwd" \notin KeyNames(setup)
    BY WantedIs DEF IsLpmTable, KeyNames
  <2>2. Fulfils(setup, Exact(".t_fwd", Host(i, setup.big), ".forward", <<o>>), {}, {})
    BY <2>1, ExactElsewhere, Params
  <2> QED
    BY <2>2 DEF fill_t_fwd_table
<1>5. PICK z : Script = << >> \o (((e \o fill_t_fwd_table(z, 0, << >>, FALSE, setup.big))
                                     \o fill_t_fwd_table(z, 0, << >>, FALSE, setup.big)) \o r)
  <2>1. InitScript = portfwd_init(setup.big) /\ setup.app \notin NotifiesFirst
    BY DEF InitScript, NotifiesFirst
  <2> QED
    BY <2>1 DEF Script, portfwd_init
<1> DEFINE f == fill_t_fwd_table(z, 0, << >>, FALSE, setup.big)
<1>6. Fulfils(setup, f, {}, {})
  BY <1>4
<1> HIDE DEF e, E, f
<1>7. Fulfils(setup, (e \o f) \o f, {} \cup {} \cup {}, E \cup {} \cup {})
  BY <1>3, <1>6, FulfilTogether
<1>8. Fulfils(setup, (e \o f) \o f, WantsOf(setup, FinalDict(setup), X), AllDefaults(setup))
  BY <1>1, <1>2, <1>7, NoLines
<1> HIDE DEF X
<1>9. Composed(setup, Script, << >>, (e \o f) \o f, r, X, AllDefaults(setup))
  BY <1>5, <1>8, NoticeLast DEF f
<1> QED
  BY <1>9 DEF X

\* test-digest.
LEMMA ScriptOfTest ==
    ASSUME WellMatched(setup), setup.app = "test-digest"
    PROVE  \E p, q, r : Composed(setup, Script, p, q, r, GoneThrough(setup, NextHeard), AllDefaults(setup))
<1> DEFINE r == notify_controller_initialized
           e == set_table_default_action(<< >>, "ingress.t", "ingress.learn")
           X == GoneThrough(setup, NextHeard)
<1>1. NextHeard = << >>
  BY DEF NextHeard, Lines, WellMatched
<1>2. AllDefaults(setup) = {<<"ingress.t", "ingress.learn">>}
  BY DEF AllDefaults, WantedDefaults
<1>3. Fulfils(setup, e, {}, AllDefaults(setup))
  BY <1>2, DefaultSet
<1>4. Script = << >> \o (e \o r)
  BY DEF Script, InitScript, NotifiesFirst, test_digest_init
<1> HIDE DEF e
<1>5. Fulfils(setup, e, WantsOf(setup, FinalDict(setup), X), AllDefaults(setup))
  BY <1>1, <1>3, NoLines
<1> HIDE DEF X
<1>6. Composed(setup, Script, << >>, e, r, X, AllDefaults(setup))
  BY <1>4, <1>5, NoticeLast
<1> QED
  BY <1>6 DEF X

\* dummy.
LEMMA ScriptOfDummy ==
    ASSUME WellMatched(setup), setup.app = "dummy"
    PROVE  \E p, q, r, D : Composed(setup, Script, p, q, r, GoneThrough(setup, NextHeard), D)
<1> DEFINE r == notify_controller_initialized
           X == GoneThrough(setup, NextHeard)
<1>1. NextHeard = << >> /\ AllDefaults(setup) = {} /\ r \in Notices
  BY NoDefaults DEF NextHeard, Lines, WellMatched, Notices
<1>2. Fulfils(setup, << >>, WantsOf(setup, FinalDict(setup), X), {})
  BY <1>1, NoLines, NothingFulfils
<1>3. Script = r \o << >>
  <2>1. Script = << >> \o r
    BY DEF Script, InitScript, NotifiesFirst, dummy_init
  <2> QED
    BY <2>1, NoticeIs, NothingBefore
<1> HIDE DEF X
<1>4. Composed(setup, Script, r, << >>, << >>, X, {})
  BY <1>1, <1>2, <1>3, NoticeFirst
<1> QED
  BY <1>4 DEF X

\* What is sent for a connection.
LEMMA ScriptIs ==
    ASSUME WellMatched(setup), Listens(setup), ~MustDie, conns \in Nat
    PROVE  \E p, q, r, D :
             /\ Composed(setup, Script, p, q, r, GoneThrough(setup, NextHeard), D)
             /\ AllDefaults(setup) # {} =>
                  D = IF setup.app = "l2fwd" /\ conns # 0 THEN {} ELSE AllDefaults(setup)
<1>1. CASE setup.app = "l2fwd"
  BY <1>1, ScriptOfL2
<1>2. CASE setup.app = "psa_l2fwd"
  BY <1>2, ScriptOfPsa
<1>3. CASE setup.app \in L3Apps
  BY <1>3, ScriptOfL3, NoDefaults
<1>4. CASE setup.app = "smgw"
  BY <1>4, ScriptOfSmgw, NoDefaults
<1>5. CASE setup.app = "portfwd"
  BY <1>5, ScriptOfPortfwd
<1>6. CASE setup.app = "test-digest"
  BY <1>6, ScriptOfTest
<1>7. CASE setup.app = "dummy"
  BY <1>7, ScriptOfDummy, NoDefaults
<1>8. setup.app \in L3Apps \cup {"l2fwd", "psa_l2fwd", "smgw", "portfwd", "test-digest", "dummy"}
  BY DEF WellMatched, L3Apps
<1> QED
  BY <1>1, <1>2, <1>3, <1>4, <1>5, <1>6, <1>7, <1>8

\* What is sent for a digest.
LEMMA DigestFulfils ==
    ASSUME WellMatched(setup), NEW g \in setup.digests,
           setup.app = "l2fwd" => dict = FinalDict(setup)
    PROVE  Fulfils(setup, dhf(g), WantsOf(setup, FinalDict(setup), Learned({g})), {})
<1> DEFINE x == [code |-> "DIGEST", key |-> g.key, port |-> g.port]
           d == FinalDict(setup)
<1>1. /\ g.name # "test_learn_ip" => WantsOf(setup, d, Learned({g})) = Wanted(setup, d, x)
      /\ g.name = "test_learn_ip" => WantsOf(setup, d, Learned({g})) = {}
  <2>1. CASE g.name # "test_learn_ip"
    <3>1. {e \in {g} : e.name # "test_learn_ip"} = {g}
      BY <2>1
    <3>2. Learned({g}) = {x}
      BY <3>1 DEF Learned
    <3> HIDE DEF x
    <3> QED
      BY <2>1, <3>2 DEF WantsOf
  <2>2. CASE g.name = "test_learn_ip"
    <3>1. {e \in {g} : e.name # "test_learn_ip"} = {}
      BY <2>2
    <3>2. Learned({g}) = {}
      BY <3>1 DEF Learned
    <3> QED
      BY <2>2, <3>2 DEF WantsOf
  <2> QED
    BY <2>1, <2>2
<1>2. DigestFits(setup, g)
  BY DEF WellMatched
<1>3. x.key = g.key /\ x.port = g.port /\ x.code = "DIGEST"
  OBVIOUS
<1> HIDE DEF x, d
<1>4. CASE setup.app \in {"l2fwd", "psa_l2fwd"} /\ g.name = "test_learn_ip"
  <2>1. g.prefix \in 0 .. 255 /\ IsSeq(g.i) /\ Len(g.i) = 3
    BY <1>2, <1>4 DEF DigestFits
  <2>2. Short(g.prefix)
    BY <2>1 DEF Short
  <2>3. CASE setup.app = "psa_l2fwd"
    <3>1. ~IsLpmTable(setup, "table1") /\ "table1" \notin KeyNames(setup)
      BY <2>3, WantedIs DEF IsLpmTable, KeyNames, L3Apps
    <3>2. Len(g.i) <= 3
      BY <2>1
    <3>3. Fulfils(setup, Lpm("table1", g.key, g.prefix, "korte", g.i), {}, {})
      BY <2>1, <2>2, <3>1, <3>2, LpmElsewhere
    <3>4. dhf(g) = psa_test_learn_ip(g)
      BY <1>4, <2>3 DEF dhf, psa_dhf
    <3> QED
      BY <1>1, <1>4, <3>3, <3>4 DEF psa_test_learn_ip, d
  <2>4. CASE setup.app = "l2fwd"
    <3> DEFINE t == "table1"
               a == translate(dict, "korte")
               p == <<g.i[1], g.i[2], g.i[3]>>
    <3>1. ~IsLpmTable(setup, t)
      BY <2>4 DEF IsLpmTable, L3Apps
    <3>2. t \notin KeyNames(setup)
      BY <2>4 DEF WellMatched, KeyNames
    <3>3. IsSeq(p) /\ Len(p) <= 3
      BY Params
    <3> HIDE DEF t, a, p
    <3>4. Fulfils(setup, Lpm(t, g.key, g.prefix, a, p), {}, {})
      BY <2>2, <3>1, <3>2, <3>3, LpmElsewhere
    <3>5. dhf(g) = Lpm(t, g.key, g.prefix, a, p)
      BY <1>4, <2>4 DEF dhf, l2fwd_dhf, send_lpm_entry, t, a, p
    <3> QED
      BY <1>1, <1>4, <3>4, <3>5 DEF d
  <2> QED
    BY <1>4, <2>3, <2>4
<1>5. CASE setup.app = "l2fwd" /\ g.name # "test_learn_ip"
  <2>1. g.name = "mac_learn_digest" /\ g.key \in Bytes(6) /\ g.port \in Nat
    BY <1>2, <1>5 DEF DigestFits
  <2> DEFINE o == undigest_port(g, setup.big)
             r == SentPort(setup, x)
  <2>2. r = None \/ r = Byte(o)
    <3>1. CASE setup.big \/ g.port > 255
      BY <1>3, <3>1 DEF SentPort
    <3>2. CASE ~setup.big /\ ~(g.port > 255)
      BY <1>3, <2>1, <3>2 DEF SentPort, undigest_port, Byte
    <3> QED
      BY <3>1, <3>2
  <2>3. dhf(g) = send_exact_entry(d, o, g.key, "dmac", "forward", 1)
                   \o send_exact_entry(d, o, g.key, "smac", "_nop", 0)
    BY <1>5, <2>1 DEF dhf, l2fwd_dhf, d
  <2>4. Wanted(setup, d, x) =
          {Want(translate(d, "dmac"), g.key, {translate(d, "forward")}, r),
           Want(translate(d, "smac"), g.key, {translate(d, "_nop")}, None)}
    <3>1. Wanted(setup, d, x) = WantedOfL2(setup, d, x)
      BY <1>5, WantedIs
    <3> QED
      BY <1>3, <3>1 DEF WantedOfL2
  <2> HIDE DEF o, r
  <2>5. Fulfils(setup, dhf(g), Wanted(setup, d, x), {})
    BY <1>5, <2>1, <2>2, <2>3, <2>4, L2PairFulfils DEF d
  <2> QED
    BY <1>1, <1>5, <2>5 DEF d
<1>6. CASE setup.app = "psa_l2fwd" /\ g.name # "test_learn_ip"
  <2>1. g.name = "mac_learn_digest" /\ g.key \in Bytes(6)
    BY <1>2, <1>6 DEF DigestFits
  <2>2. dhf(g) = psa_entry(g)
    BY <1>6, <2>1 DEF dhf, psa_dhf
  <2>3. Wanted(setup, d, x) = Wanted(setup, d, g)
    BY <1>3, <1>6, WantedIs DEF WantedOfPsa
  <2> QED
    BY <1>1, <1>6, <2>1, <2>2, <2>3, PsaFulfils DEF d
<1>7. CASE setup.app = "test-digest"
  <2>1. g.name = "learn_digest"
    BY <1>2, <1>7 DEF DigestFits
  <2>2. dhf(g) = test_digest_fill_table(g.key, x.port)
    BY <1>3, <1>7, <2>1 DEF dhf, test_digest_dhf
  <2> QED
    BY <1>1, <1>7, <2>1, <2>2, TestDigestFulfils DEF d
<1>8. CASE setup.app \in L3Apps \cup {"smgw", "portfwd", "dummy"}
  <2>1. dhf(g) = << >>
    BY <1>8 DEF dhf, L3Apps
  <2>2. Wanted(setup, d, x) = {}
    <3>1. CASE setup.app \in L3Apps
      BY <1>3, <3>1, WantedIs DEF WantedOfL3
    <3>2. CASE setup.app = "smgw"
      BY <1>3, <3>2, WantedIs DEF WantedOfSmgw
    <3>3. CASE setup.app \in {"portfwd", "dummy"}
      BY <3>3, WantedIs
    <3> QED
      BY <1>8, <3>1, <3>2, <3>3
  <2> QED
    BY <1>1, <2>1, <2>2, NothingFulfils DEF d
<1>9. setup.app \in L3Apps \cup {"l2fwd", "psa_l2fwd", "smgw", "portfwd", "test-digest", "dummy"}
  BY DEF WellMatched, L3Apps
<1> QED
  BY <1>4, <1>5, <1>6, <1>7, <1>8, <1>9
-----------------------------------------------------------------------------
\* The messages under way, as the switch will take them.
Handled(C, big) == [i \in 1 .. Len(C) |-> handle_p4_msg(C[i], big)]
Pending == Handled(chan, setup.big)

\* A want for a table and an action of the program.
Asked(s, w) ==
  \E t \in Range(s.program) : t.name = w.table /\ w.actions \cap t.actions # {}
WantedSoFar == WantsOf(setup, FinalDict(setup), GoneThrough(setup, heard) \cup Learned(learned))

\* A note of a const entry.
IsConst(s, a) ==
  \E t \in Range(s.program) : t.name = a.table /\ \E c \in Range(t.const) : a.depth = c.depth

\* Since the last connection there were the notes A after the k-th, and there
\* are the messages P after the j-th.  What is wanted is noted or under way, and nothing
\* else is, for the tables it is in.
Answered(s, A, P, W, k, j) ==
  /\ k \in 0 .. Len(A) /\ j \in 0 .. Len(P) /\ (j > 0 => k = Len(A))
  /\ \A w \in W : Asked(s, w) => \/ \E i \in k + 1 .. Len(A) : Serves(s, A[i], w)
                                 \/ \E i \in j + 1 .. Len(P) : Orders(s, P[i], w)
  /\ \A i \in k + 1 .. Len(A) : A[i].table \in KeyNames(s) => \E v \in W : Serves(s, A[i], v)
  /\ \A i \in j + 1 .. Len(P) : P[i].type = P4T_ADD_TABLE_ENTRY /\ P[i].table \in KeyNames(s) =>
        \E v \in W : Orders(s, P[i], v)
  /\ \A i \in 1 .. Len(P) : P[i].type = P4T_ADD_TABLE_ENTRY /\ IsLpmTable(s, P[i].table) =>
        P[i].action = LpmAction(s)
  /\ \A i \in 1 .. Len(A) : IsLpmTable(s, A[i].table) =>
        A[i].entry.id = LpmAction(s) \/ (i <= k /\ IsConst(s, A[i]))

\* The defaults that are expected of the tables the program has, and those that are set.
Expected(s) ==
  {d \in AllDefaults(s) : \E t \in Range(s.program) : t.name = d[1] /\ d[2] \in t.actions}
IsDone(T, d) == T[d[1]].default_val # None /\ T[d[1]].default_val.id = d[2]
IsFor(m, d) == m.type = P4T_SET_DEFAULT_ACTION /\ m.table = d[1]

\* They are set, or will be before the switch is told that the controller is
\* initialized; no message sets others.
Settled(s, T, P, any, all) ==
  /\ \A i \in 1 .. Len(P) : \A d \in AllDefaults(s) : IsFor(P[i], d) => P[i].action = d[2]
  /\ \A i \in 1 .. Len(P) : P[i].type = P4T_CTRL_INITIALIZED =>
        \A d \in Expected(s) : IsDone(T, d) \/ \E j \in 1 .. i - 1 : IsFor(P[j], d)
  /\ any => \A d \in Expected(s) : IsDone(T, d) \/ \E j \in 1 .. Len(P) : IsFor(P[j], d)
  /\ all => \A d \in Expected(s) : IsDone(T, d)
-----------------------------------------------------------------------------
\* FlattenSeq of sequences of one element each.
LEMMA FlattenSingles ==
    ASSUME NEW Q, NEW n \in Nat, Len(Q) = n, NEW x, \A i \in 1 .. n : Q[i] = <<x[i]>>
    PROVE  FlattenSeq(Q) = [i \in 1 .. n |-> x[i]]
<1> DEFINE g(m) == [i \in 1 .. m |-> x[i]]
<1>1. CASE n = 0
  <2>1. FlattenSeq(Q) = << >>
    BY <1>1 DEF FlattenSeq
  <2>2. 1 .. 0 = {}
    OBVIOUS
  <2>3. [i \in 1 .. 0 |-> x[i]] = << >>
    BY <2>2
  <2> QED
    BY <1>1, <2>1, <2>3
<1>2. CASE n # 0
  <2>1. PICK f : /\ f[1] = Q[1] /\ FlattenSeq(Q) = f[n]
                 /\ \A i \in 2 .. n : f[i] = f[i - 1] \o Q[i]
    BY <1>2, FlattenedInOrder
  <2> DEFINE Bad == {m \in 1 .. n : f[m] # g(m)}
  <2>2. \A m \in Nat : IsSeq(g(m)) /\ Len(g(m)) = m /\ DOMAIN g(m) = 1 .. m
    <3> TAKE m \in Nat
    <3> DEFINE S == Range(g(m))
    <3>1. \A i \in 1 .. m : x[i] \in S
      BY DEF Range
    <3> HIDE DEF S
    <3>2. g(m) \in Seq(S) /\ Len(g(m)) = m
      BY <3>1
    <3> QED
      BY <3>2 DEF IsSeq, S
  <2>3. ASSUME NEW m \in 2 .. n PROVE g(m - 1) \o <<x[m]>> = g(m)
    <3> DEFINE p == g(m - 1)
               q == <<x[m]>>
               r == p \o q
    <3>1. IsSeq(p) /\ IsSeq(q) /\ Len(p) = m - 1 /\ Len(q) = 1 /\ q[1] = x[m]
      BY <2>2, RangeOf
    <3>2. \A i \in 1 .. m - 1 : p[i] = x[i]
      OBVIOUS
    <3> HIDE DEF p, q
    <3>3. /\ DOMAIN r = 1 .. (m - 1) + 1 /\ IsSeq(r)
          /\ \A i \in 1 .. m - 1 : r[i] = p[i]
          /\ \A i \in 1 .. 1 : r[(m - 1) + i] = q[i]
      <4>1. /\ IsSeq(r) /\ DOMAIN r = 1 .. Len(p) + Len(q)
            /\ \A i \in 1 .. Len(p) : r[i] = p[i]
            /\ \A i \in 1 .. Len(q) : r[Len(p) + i] = q[i]
        <5>1. IsSeq(p) /\ IsSeq(q)
          BY <3>1
        <5> QED
          BY ONLY <5>1, ConcatIsSeq
      <4> HIDE DEF r
      <4> QED
        BY <3>1, <4>1
    <3> HIDE DEF r
    <3>4. (m - 1) + 1 = m /\ 1 \in 1 .. 1
      OBVIOUS
    <3>5. DOMAIN r = 1 .. m /\ r[m] = x[m]
      BY <3>1, <3>3, <3>4
    <3>6. \A i \in 1 .. m : r[i] = x[i]
      <4> TAKE i \in 1 .. m
      <4>1. i = m \/ i \in 1 .. m - 1
        OBVIOUS
      <4> QED
        BY <3>2, <3>3, <3>5, <4>1
    <3>7. r = [i \in DOMAIN r |-> r[i]]
      <4>1. r \in Seq(Range(r))
        BY <3>3 DEF IsSeq
      <4> QED
        BY <4>1
    <3>8. r = g(m)
      BY <3>5, <3>6, <3>7
    <3> QED
      BY <3>8 DEF r, p, q
  <2>4. Bad = {}
    <3> SUFFICES ASSUME Bad # {} PROVE FALSE
      OBVIOUS
    <3>1. Bad \subseteq Nat
      OBVIOUS
    <3> HIDE DEF Bad
    <3>2. PICK m \in Bad : \A e \in Bad : m <= e
      BY <3>1, LeastExists
    <3> USE DEF Bad
    <3>3. m # 1
      <4>1. f[1] = <<x[1]>>
        BY <1>2, <2>1
      <4>2. g(1) = <<x[1]>>
        OBVIOUS
      <4> QED
        BY <4>1, <4>2
    <3>4. m \in 2 .. n /\ m - 1 \in 1 .. n /\ ~(m <= m - 1)
      BY <3>3
    <3>5. f[m - 1] = g(m - 1)
      BY <3>2, <3>4
    <3>6. f[m] = g(m - 1) \o <<x[m]>>
      BY <2>1, <3>4, <3>5
    <3>7. f[m] = g(m)
      BY <2>3, <3>4, <3>6
    <3> QED
      BY <3>7
  <2>5. n \in 1 .. n
    BY <1>2
  <2> QED
    BY <2>1, <2>4, <2>5
<1> QED
  BY <1>1, <1>2

\* A sequence by its elements.
LEMMA ListIs ==
    ASSUME NEW n \in Nat, NEW x
    PROVE  LET g == [i \in 1 .. n |-> x[i]] IN IsSeq(g) /\ Len(g) = n /\ DOMAIN g = 1 .. n
<1> DEFINE g == [i \in 1 .. n |-> x[i]]
           S == Range(g)
<1>1. \A i \in 1 .. n : x[i] \in S
  BY DEF Range
<1> HIDE DEF S
<1>2. g \in Seq(S) /\ Len(g) = n
  BY <1>1
<1> QED
  BY <1>2 DEF IsSeq, S

\* R is P with the messages q behind it, as they are taken.
Extended(P, R, q) ==
  /\ Len(P) \in Nat /\ Len(q) \in Nat /\ Len(R) = Len(P) + Len(q)
  /\ \A i \in 1 .. Len(P) : R[i] = P[i]
  /\ \A i \in 1 .. Len(q) : SameAs(R[Len(P) + i], q[i])

\* All messages that are sent arrive.
LEMMA SendExtends ==
    ASSUME IsSeq(chan), setup.big \in BOOLEAN, setup' = setup, NEW q, IsSeq(q),
           \A i \in 1 .. Len(q) : Built(q[i]), send_p4_msg(q)
    PROVE  IsSeq(chan') /\ Extended(Pending, Pending', q)
<1> DEFINE big == setup.big
           c == [i \in 1 .. Len(q) |-> Converted(q[i], big)]
           Q == [i \in DOMAIN q |-> write_p4_msg(Converted(q[i], big))]
           n == Len(chan)
           k == Len(q)
<1>1. n \in Nat /\ k \in Nat /\ DOMAIN q = 1 .. k
  BY LenProperties DEF IsSeq
<1>2. \A i \in 1 .. k : /\ Writable(Converted(q[i], big), big)
                        /\ SameAs(handle_p4_msg(Converted(q[i], big), big), q[i])
  BY Arrives
<1>3. \A i \in 1 .. k : Q[i] = <<c[i]>>
  BY <1>1, <1>2 DEF write_p4_msg
<1>4. Len(Q) = k
  <2>1. Len([i \in 1 .. k |-> write_p4_msg(Converted(q[i], big))]) = k
    BY <1>1, ListIs
  <2> QED
    BY <1>1, <2>1
<1>5. IsSeq(c) /\ Len(c) = k /\ c = [i \in 1 .. k |-> c[i]]
  BY <1>1, ListIs
<1>6. chan' = chan \o FlattenSeq(Q)
  BY DEF send_p4_msg, Concat
<1> HIDE DEF Q
<1>7. FlattenSeq(Q) = [i \in 1 .. k |-> c[i]]
  <2> HIDE DEF c, k
  <2> QED
    BY <1>1, <1>3, <1>4, FlattenSingles
<1>8. chan' = chan \o c
  BY <1>5, <1>6, <1>7
<1>9. \A i \in 1 .. k : SameAs(handle_p4_msg(c[i], big), q[i])
  BY <1>2
<1> HIDE DEF c
<1>10. /\ IsSeq(chan') /\ Len(chan') = n + k
       /\ \A i \in 1 .. n : chan'[i] = chan[i]
       /\ \A i \in 1 .. k : chan'[n + i] = c[i]
  BY <1>5, <1>8, ConcatIsSeq
<1>11. /\ Len(Pending) = n /\ Len(Pending') = n + k
       /\ \A i \in 1 .. n : Pending[i] = handle_p4_msg(chan[i], big)
       /\ \A i \in 1 .. n + k : Pending'[i] = handle_p4_msg(chan'[i], big)
  <2>1. n + k \in Nat
    BY <1>1
  <2>2. Len([i \in 1 .. n |-> handle_p4_msg(chan[i], big)]) = n
    BY <1>1, ListIs
  <2>3. Len([i \in 1 .. n + k |-> handle_p4_msg(chan'[i], big)]) = n + k
    BY <2>1, ListIs
  <2> QED
    BY <1>10, <2>2, <2>3 DEF Pending, Handled
<1> HIDE DEF big, n, k
<1>12. \A i \in 1 .. n : Pending'[i] = Pending[i]
  <2>1. \A i \in 1 .. n : i \in 1 .. n + k
    BY <1>1
  <2> QED
    BY <1>10, <1>11, <2>1
<1>13. \A i \in 1 .. k : SameAs(Pending'[n + i], q[i])
  <2> TAKE i \in 1 .. k
  <2>1. n + i \in 1 .. n + k
    BY <1>1
  <2> QED
    BY <1>9, <1>10, <1>11, <2>1
<1> QED
  BY <1>1, <1>10, <1>11, <1>12, <1>13 DEF Extended, k

\* What a message says, it says when it is taken.
LEMMA SaysTheSame ==
    ASSUME NEW h, NEW m, SameAs(h, m)
    PROVE  /\ h.type = m.type /\ h.table = m.table /\ h.action = m.action
           /\ \A s, v : Orders(s, h, v) <=> Orders(s, m, v)
           /\ \A d : IsFor(h, d) <=> IsFor(m, d)
BY Zenon DEF SameAs, Orders, IsFor
-----------------------------------------------------------------------------
\* The messages M ask for what is wanted, and for nothing else.
Meets(s, M, W) ==
  /\ \A w \in W : \E m \in M : Orders(s, m, w)
  /\ \A m \in M : m.type = P4T_ADD_TABLE_ENTRY /\ m.table \in KeyNames(s) =>
        \E v \in W : Orders(s, m, v)
  /\ \A m \in M : m.type = P4T_ADD_TABLE_ENTRY /\ IsLpmTable(s, m.table) =>
        m.action = LpmAction(s)

\* Where the elements of a sequence are that was extended.
LEMMA ExtendedIs ==
    ASSUME NEW P, NEW R, NEW q, IsSeq(q), Extended(P, R, q)
    PROVE  /\ Len(P) \in Nat /\ Len(R) \in Nat /\ Len(P) <= Len(R)
           /\ \A i \in 1 .. Len(P) : i \in 1 .. Len(R) /\ R[i] = P[i]
           /\ \A i \in Len(P) + 1 .. Len(R) : \E m \in Range(q) : SameAs(R[i], m)
           /\ \A m \in Range(q) : \E i \in Len(P) + 1 .. Len(R) : SameAs(R[i], m)
<1> DEFINE n == Len(P)
           k == Len(q)
<1>1. n \in Nat /\ k \in Nat /\ Len(R) = n + k /\ DOMAIN q = 1 .. k
  BY DEF Extended, IsSeq
<1>2. /\ \A i \in 1 .. n : R[i] = P[i]
      /\ \A i \in 1 .. k : SameAs(R[n + i], q[i])
  BY DEF Extended
<1> HIDE DEF n, k
<1>3. ASSUME NEW i \in n + 1 .. n + k PROVE \E m \in Range(q) : SameAs(R[i], m)
  <2>1. i - n \in 1 .. k /\ n + (i - n) = i
    BY <1>1
  <2>2. q[i - n] \in Range(q)
    BY <1>1, <2>1 DEF Range
  <2> QED
    BY <1>2, <2>1, <2>2
<1>4. ASSUME NEW m \in Range(q) PROVE \E i \in n + 1 .. n + k : SameAs(R[i], m)
  <2>1. PICK i \in 1 .. k : q[i] = m
    BY <1>1 DEF Range
  <2>2. n + i \in n + 1 .. n + k
    BY <1>1
  <2> QED
    BY <1>2, <2>1, <2>2
<1>5. n <= n + k /\ n + k \in Nat /\ \A i \in 1 .. n : i \in 1 .. n + k
  BY <1>1
<1> QED
  BY <1>1, <1>2, <1>3, <1>4, <1>5 DEF n, k

\* The parts of Answered.
LEMMA AnsweredIs ==
    ASSUME NEW s, NEW A, NEW P, NEW W, NEW k, NEW j, Answered(s, A, P, W, k, j)
    PROVE  /\ k \in 0 .. Len(A) /\ j \in 0 .. Len(P) /\ (j > 0 => k = Len(A))
           /\ \A w \in W : Asked(s, w) => \/ \E i \in k + 1 .. Len(A) : Serves(s, A[i], w)
                                          \/ \E i \in j + 1 .. Len(P) : Orders(s, P[i], w)
           /\ \A i \in 1 .. Len(P) : P[i].type = P4T_ADD_TABLE_ENTRY /\ IsLpmTable(s, P[i].table) =>
                 P[i].action = LpmAction(s)
BY DEF Answered

\* More is asked for, by more messages.
LEMMA AnsweredMore ==
    ASSUME NEW s, NEW A, NEW P, NEW V, NEW k, NEW j, Answered(s, A, P, V, k, j),
           NEW R, NEW q, IsSeq(q), Extended(P, R, q), NEW W, Meets(s, Range(q), W)
    PROVE  Answered(s, A, R, V \cup W, k, j)
<1> DEFINE n == Len(P)
           l == Len(R)
<1>1. /\ n \in Nat /\ l \in Nat /\ n <= l
      /\ \A i \in 1 .. n : i \in 1 .. l /\ R[i] = P[i]
      /\ \A i \in n + 1 .. l : \E m \in Range(q) : SameAs(R[i], m)
      /\ \A m \in Range(q) : \E i \in n + 1 .. l : SameAs(R[i], m)
  BY ExtendedIs
<1> HIDE DEF n, l
<1>2. /\ j \in Nat /\ j <= n /\ j \in 0 .. l
      /\ \A i \in n + 1 .. l : i \in j + 1 .. l
      /\ \A i \in j + 1 .. n : i \in j + 1 .. l /\ i \in 1 .. n
      /\ \A i \in j + 1 .. l : i \in j + 1 .. n \/ i \in n + 1 .. l
      /\ \A i \in 1 .. l : i \in 1 .. n \/ i \in n + 1 .. l
  <2>1. j \in 0 .. n
    BY DEF Answered, n
  <2> QED
    BY <1>1, <2>1
<1>3. ASSUME NEW w \in V \cup W, Asked(s, w)
      PROVE  \/ \E i \in k + 1 .. Len(A) : Serves(s, A[i], w)
             \/ \E i \in j + 1 .. l : Orders(s, R[i], w)
  <2>1. CASE w \in W
    <3>1. PICK m \in Range(q) : Orders(s, m, w)
      BY <2>1 DEF Meets
    <3>2. PICK i \in n + 1 .. l : SameAs(R[i], m)
      BY <1>1
    <3>3. Orders(s, R[i], w)
      BY <3>1, <3>2, SaysTheSame
    <3> QED
      BY <1>2, <3>3
  <2>2. CASE w \in V /\ \E i \in k + 1 .. Len(A) : Serves(s, A[i], w)
    BY <2>2
  <2>3. CASE w \in V /\ \E i \in j + 1 .. n : Orders(s, P[i], w)
    <3>1. PICK i \in j + 1 .. n : Orders(s, P[i], w)
      BY <2>3
    <3>2. i \in j + 1 .. l /\ R[i] = P[i]
      BY <1>1, <1>2
    <3> QED
      BY <3>1, <3>2
  <2>4. w \in V => \/ \E i \in k + 1 .. Len(A) : Serves(s, A[i], w)
                   \/ \E i \in j + 1 .. n : Orders(s, P[i], w)
    BY <1>3 DEF Answered, n
  <2> QED
    BY <2>1, <2>2, <2>3, <2>4
<1>4. \A i \in k + 1 .. Len(A) : A[i].table \in KeyNames(s) => \E v \in V \cup W : Serves(s, A[i], v)
  BY DEF Answered
<1>5. ASSUME NEW i \in j + 1 .. l, R[i].type = P4T_ADD_TABLE_ENTRY, R[i].table \in KeyNames(s)
      PROVE  \E v \in V \cup W : Orders(s, R[i], v)
  <2>1. CASE i \in j + 1 .. n
    <3>1. R[i] = P[i]
      BY <1>1, <1>2, <2>1
    <3>2. \E v \in V : Orders(s, P[i], v)
      BY <1>5, <2>1, <3>1 DEF Answered, n
    <3> QED
      BY <3>1, <3>2
  <2>2. CASE i \in n + 1 .. l
    <3>1. PICK m \in Range(q) : SameAs(R[i], m)
      BY <1>1, <2>2
    <3>2. m.type = P4T_ADD_TABLE_ENTRY /\ m.table \in KeyNames(s)
      BY <1>5, <3>1, SaysTheSame
    <3>3. PICK v \in W : Orders(s, m, v)
      BY <3>2 DEF Meets
    <3> QED
      BY <3>1, <3>3, SaysTheSame
  <2> QED
    BY <1>2, <2>1, <2>2
<1>6. ASSUME NEW i \in 1 .. l, R[i].type = P4T_ADD_TABLE_ENTRY, IsLpmTable(s, R[i].table)
      PROVE  R[i].action = LpmAction(s)
  <2>1. CASE i \in 1 .. n
    <3>1. R[i] = P[i]
      BY <1>1, <2>1
    <3> QED
      BY <1>6, <2>1, <3>1, AnsweredIs DEF n
  <2>2. CASE i \in n + 1 .. l
    <3>1. PICK m \in Range(q) : SameAs(R[i], m)
      BY <1>1, <2>2
    <3>2. m.type = P4T_ADD_TABLE_ENTRY /\ IsLpmTable(s, m.table) /\ m.action = R[i].action
      BY <1>6, <3>1, SaysTheSame
    <3> QED
      BY <3>2 DEF Meets
  <2> QED
    BY <1>2, <2>1, <2>2
<1>7. /\ k \in 0 .. Len(A) /\ (j > 0 => k = Len(A))
      /\ \A i \in 1 .. Len(A) : IsLpmTable(s, A[i].table) =>
           A[i].entry.id = LpmAction(s) \/ (i <= k /\ IsConst(s, A[i]))
  BY DEF Answered
<1> QED
  BY <1>2, <1>3, <1>4, <1>5, <1>6, <1>7 DEF Answered, l

\* Nothing is wanted of the notes B, which are new ones or const entries.
LEMMA AnsweredNone ==
    ASSUME NEW s, NEW A, NEW P, Len(A) \in Nat, Len(P) \in Nat, NEW V, NEW k, NEW j,
           Answered(s, A, P, V, k, j),
           NEW B, Len(B) \in Nat,
           \A i \in 1 .. Len(B) : IsConst(s, B[i]) \/ (i \in 1 .. Len(A) /\ B[i] = A[i])
    PROVE  Answered(s, B, P, {}, Len(B), Len(P))
<1> DEFINE l == Len(B)
           n == Len(P)
<1>1. l \in 0 .. l /\ n \in 0 .. n
  OBVIOUS
<1>2. (\A i \in l + 1 .. l : FALSE) /\ (\A i \in n + 1 .. n : FALSE) /\ \A i \in 1 .. l : i <= l
  OBVIOUS
<1>3. ASSUME NEW i \in 1 .. l, IsLpmTable(s, B[i].table)
      PROVE  B[i].entry.id = LpmAction(s) \/ (i <= l /\ IsConst(s, B[i]))
  <2>1. CASE IsConst(s, B[i])
    BY <1>2, <2>1
  <2>2. CASE i \in 1 .. Len(A) /\ B[i] = A[i]
    BY <1>2, <1>3, <2>2 DEF Answered
  <2> QED
    BY <2>1, <2>2
<1>4. \A i \in 1 .. n : P[i].type = P4T_ADD_TABLE_ENTRY /\ IsLpmTable(s, P[i].table) =>
         P[i].action = LpmAction(s)
  BY AnsweredIs
<1> HIDE DEF l, n
<1> QED
  BY <1>1, <1>2, <1>3, <1>4 DEF Answered, l, n

\* Other wants, with the messages that ask for them.
LEMMA AnsweredAnew ==
    ASSUME NEW s, NEW A, NEW P, Len(A) \in Nat, Len(P) \in Nat, NEW V, NEW k, NEW j,
           Answered(s, A, P, V, k, j),
           NEW R, NEW q, IsSeq(q), Extended(P, R, q), NEW W, Meets(s, Range(q), W)
    PROVE  Answered(s, A, R, W, Len(A), Len(P))
<1>1. Answered(s, A, P, {}, Len(A), Len(P))
  BY AnsweredNone
<1>2. Answered(s, A, R, {} \cup W, Len(A), Len(P))
  BY <1>1, AnsweredMore
<1> QED
  BY <1>2
-----------------------------------------------------------------------------
\* The first message is taken.
Shortened(P, R) ==
  /\ Len(P) \in Nat \ {0} /\ Len(R) = Len(P) - 1
  /\ \A i \in 1 .. Len(R) : R[i] = P[i + 1]

\* It adds no entry, and orders nothing that is wanted.
LEMMA AnsweredWithout ==
    ASSUME NEW s, NEW A, NEW P, Len(A) \in Nat, NEW W, NEW k, NEW j, Answered(s, A, P, W, k, j),
           NEW R, Shortened(P, R), \A w \in W : Asked(s, w) => ~Orders(s, P[1], w)
    PROVE  Answered(s, A, R, W, k, IF j = 0 THEN 0 ELSE j - 1)
<1> DEFINE n == Len(P)
           h == IF j = 0 THEN 0 ELSE j - 1
<1>1. /\ n \in Nat \ {0} /\ Len(R) = n - 1 /\ \A i \in 1 .. n - 1 : R[i] = P[i + 1]
  BY DEF Shortened
<1>2. j \in 0 .. n /\ (j > 0 => k = Len(A)) /\ k \in 0 .. Len(A)
  BY AnsweredIs DEF n
<1> HIDE DEF n
<1>3. /\ h \in 0 .. n - 1 /\ (h > 0 => k = Len(A))
      /\ \A i \in j + 1 .. n : i # 1 => i - 1 \in h + 1 .. n - 1 /\ i - 1 + 1 = i /\ i - 1 \in 1 .. n - 1
      /\ \A i \in h + 1 .. n - 1 : i + 1 \in j + 1 .. n /\ i \in 1 .. n - 1
      /\ \A i \in 1 .. n - 1 : i + 1 \in 1 .. n
  BY <1>1, <1>2
<1> HIDE DEF h
<1>4. ASSUME NEW w \in W, Asked(s, w)
      PROVE  \/ \E i \in k + 1 .. Len(A) : Serves(s, A[i], w)
             \/ \E i \in h + 1 .. n - 1 : Orders(s, R[i], w)
  <2>1. CASE \E i \in j + 1 .. n : Orders(s, P[i], w)
    <3>1. PICK i \in j + 1 .. n : Orders(s, P[i], w)
      BY <2>1
    <3>2. i # 1
      BY <1>4, <3>1
    <3>3. R[i - 1] = P[i] /\ i - 1 \in h + 1 .. n - 1
      BY <1>1, <1>3, <3>2
    <3> QED
      BY <3>1, <3>3
  <2> QED
    BY <1>4, <2>1, AnsweredIs DEF n
<1>5. \A i \in k + 1 .. Len(A) : A[i].table \in KeyNames(s) => \E v \in W : Serves(s, A[i], v)
  BY DEF Answered
<1>6. ASSUME NEW i \in h + 1 .. n - 1, R[i].type = P4T_ADD_TABLE_ENTRY, R[i].table \in KeyNames(s)
      PROVE  \E v \in W : Orders(s, R[i], v)
  <2>1. R[i] = P[i + 1] /\ i + 1 \in j + 1 .. n
    BY <1>1, <1>3
  <2> QED
    BY <1>6, <2>1 DEF Answered, n
<1>7. ASSUME NEW i \in 1 .. n - 1, R[i].type = P4T_ADD_TABLE_ENTRY, IsLpmTable(s, R[i].table)
      PROVE  R[i].action = LpmAction(s)
  <2>1. R[i] = P[i + 1] /\ i + 1 \in 1 .. n
    BY <1>1, <1>3
  <2> QED
    BY <1>7, <2>1, AnsweredIs DEF n
<1>8. \A i \in 1 .. Len(A) : IsLpmTable(s, A[i].table) =>
         A[i].entry.id = LpmAction(s) \/ (i <= k /\ IsConst(s, A[i]))
  BY DEF Answered
<1> QED
  BY <1>1, <1>2, <1>3, <1>4, <1>5, <1>6, <1>7, <1>8 DEF Answered, h

\* It adds an entry.  If it was sent before the last connection, what is wanted is
\* still under way.
LEMMA AnsweredOld ==
    ASSUME NEW s, NEW A, NEW P, Len(A) \in Nat, NEW W, NEW k, NEW j, Answered(s, A, P, W, k, j),
           NEW R, Shortened(P, R), j # 0, P[1].type = P4T_ADD_TABLE_ENTRY,
           NEW B, NEW a, Len(B) = Len(A) + 1, Grown(A, B, Len(A), a), a.table = P[1].table, a.entry.id = P[1].action
    PROVE  Answered(s, B, R, W, Len(B), j - 1)
<1> DEFINE n == Len(P)
           l == Len(A)
<1>1. /\ n \in Nat \ {0} /\ Len(R) = n - 1 /\ \A i \in 1 .. n - 1 : R[i] = P[i + 1]
  BY DEF Shortened
<1>2. j \in 0 .. n /\ k = l /\ l \in Nat
  <2>1. j \in 0 .. n /\ (j > 0 => k = l)
    BY AnsweredIs DEF n, l
  <2> QED
    BY <1>1, <2>1
<1>3. Len(B) = l + 1 /\ B[l + 1] = a /\ \A i \in 1 .. l : B[i] = A[i]
  BY DEF Grown
<1> HIDE DEF n, l
<1>4. /\ j - 1 \in 0 .. n - 1 /\ l + 1 \in 0 .. l + 1
      /\ \A i \in j + 1 .. n : i - 1 \in (j - 1) + 1 .. n - 1 /\ i - 1 + 1 = i /\ i - 1 \in 1 .. n - 1
      /\ \A i \in (j - 1) + 1 .. n - 1 : i + 1 \in j + 1 .. n /\ i \in 1 .. n - 1
      /\ \A i \in 1 .. n - 1 : i + 1 \in 1 .. n
      /\ \A i \in (l + 1) + 1 .. l + 1 : FALSE
      /\ \A i \in k + 1 .. l : FALSE
      /\ \A i \in 1 .. l + 1 : (i \in 1 .. l \/ i = l + 1) /\ i <= l + 1
      /\ 1 \in 1 .. n
  BY <1>1, <1>2
<1>5. ASSUME NEW w \in W, Asked(s, w)
      PROVE  \E i \in (j - 1) + 1 .. n - 1 : Orders(s, R[i], w)
  <2>1. PICK i \in j + 1 .. n : Orders(s, P[i], w)
    <3>1. \/ \E i \in k + 1 .. l : Serves(s, A[i], w)
          \/ \E i \in j + 1 .. n : Orders(s, P[i], w)
      BY <1>5, AnsweredIs DEF n, l
    <3> QED
      BY <1>4, <3>1
  <2>2. R[i - 1] = P[i] /\ i - 1 \in (j - 1) + 1 .. n - 1
    BY <1>1, <1>4
  <2> QED
    BY <2>1, <2>2
<1>6. ASSUME NEW i \in (j - 1) + 1 .. n - 1, R[i].type = P4T_ADD_TABLE_ENTRY, R[i].table \in KeyNames(s)
      PROVE  \E v \in W : Orders(s, R[i], v)
  <2>1. R[i] = P[i + 1] /\ i + 1 \in j + 1 .. n
    BY <1>1, <1>4
  <2> QED
    BY <1>6, <2>1 DEF Answered, n
<1>7. ASSUME NEW i \in 1 .. n - 1, R[i].type = P4T_ADD_TABLE_ENTRY, IsLpmTable(s, R[i].table)
      PROVE  R[i].action = LpmAction(s)
  <2>1. R[i] = P[i + 1] /\ i + 1 \in 1 .. n
    BY <1>1, <1>4
  <2> QED
    BY <1>7, <2>1, AnsweredIs DEF n
<1>8. ASSUME NEW i \in 1 .. l + 1, IsLpmTable(s, B[i].table)
      PROVE  B[i].entry.id = LpmAction(s) \/ (i <= l + 1 /\ IsConst(s, B[i]))
  <2>1. CASE i \in 1 .. l
    <3>1. B[i] = A[i]
      BY <1>3, <2>1
    <3>2. IsLpmTable(s, A[i].table) => A[i].entry.id = LpmAction(s) \/ IsConst(s, A[i])
      BY <2>1 DEF Answered, l
    <3> QED
      BY <1>4, <1>8, <3>1, <3>2
  <2>2. CASE i = l + 1
    <3>1. IsLpmTable(s, P[1].table)
      BY <1>3, <1>8, <2>2
    <3>2. P[1].action = LpmAction(s)
      BY <1>4, <3>1, AnsweredIs DEF n
    <3> QED
      BY <1>3, <2>2, <3>2
  <2> QED
    BY <1>4, <2>1, <2>2
<1> QED
  BY <1>1, <1>3, <1>4, <1>5, <1>6, <1>7, <1>8 DEF Answered

\* If it was sent since then, it is noted.
LEMMA AnsweredNew ==
    ASSUME NEW s, NEW A, NEW P, Len(A) \in Nat, NEW W, NEW k, NEW j, Answered(s, A, P, W, k, j),
           NEW R, Shortened(P, R), j = 0, P[1].type = P4T_ADD_TABLE_ENTRY,
           NEW B, NEW a, Len(B) = Len(A) + 1, Grown(A, B, Len(A), a), a.table = P[1].table,
           a.entry.id = P[1].action, \A v : Orders(s, P[1], v) => Serves(s, a, v)
    PROVE  Answered(s, B, R, W, k, 0)
<1> DEFINE n == Len(P)
           l == Len(A)
<1>1. /\ n \in Nat \ {0} /\ Len(R) = n - 1 /\ \A i \in 1 .. n - 1 : R[i] = P[i + 1]
  BY DEF Shortened
<1>2. k \in 0 .. l /\ l \in Nat
  BY AnsweredIs DEF l
<1>3. Len(B) = l + 1 /\ B[l + 1] = a /\ \A i \in 1 .. l : B[i] = A[i]
  BY DEF Grown
<1> HIDE DEF n, l
<1>4. /\ 0 \in 0 .. n - 1 /\ k \in 0 .. l + 1 /\ ~(0 > 0)
      /\ \A i \in j + 1 .. n : i # 1 => i - 1 \in 0 + 1 .. n - 1 /\ i - 1 + 1 = i /\ i - 1 \in 1 .. n - 1
      /\ \A i \in 0 + 1 .. n - 1 : i + 1 \in j + 1 .. n /\ i \in 1 .. n - 1
      /\ \A i \in 1 .. n - 1 : i + 1 \in 1 .. n
      /\ \A i \in k + 1 .. l : i \in k + 1 .. l + 1 /\ i \in 1 .. l
      /\ \A i \in k + 1 .. l + 1 : i \in k + 1 .. l \/ i = l + 1
      /\ \A i \in 1 .. l + 1 : i \in 1 .. l \/ i = l + 1
      /\ l + 1 \in k + 1 .. l + 1 /\ 1 \in j + 1 .. n /\ 1 \in 1 .. n
  BY <1>1, <1>2
<1>5. ASSUME NEW w \in W, Asked(s, w)
      PROVE  \/ \E i \in k + 1 .. l + 1 : Serves(s, B[i], w)
             \/ \E i \in 0 + 1 .. n - 1 : Orders(s, R[i], w)
  <2>1. CASE \E i \in k + 1 .. l : Serves(s, A[i], w)
    <3>1. PICK i \in k + 1 .. l : Serves(s, A[i], w)
      BY <2>1
    <3>2. B[i] = A[i] /\ i \in k + 1 .. l + 1
      BY <1>3, <1>4
    <3> QED
      BY <3>1, <3>2
  <2>2. CASE \E i \in j + 1 .. n : Orders(s, P[i], w)
    <3>1. PICK i \in j + 1 .. n : Orders(s, P[i], w)
      BY <2>2
    <3>2. CASE i = 1
      <4>1. Serves(s, B[l + 1], w)
        BY <1>3, <3>1, <3>2
      <4> QED
        BY <1>4, <4>1
    <3>3. CASE i # 1
      <4>1. R[i - 1] = P[i] /\ i - 1 \in 0 + 1 .. n - 1
        BY <1>1, <1>4, <3>3
      <4> QED
        BY <3>1, <4>1
    <3> QED
      BY <3>2, <3>3
  <2> QED
    BY <1>5, <2>1, <2>2, AnsweredIs DEF n, l
<1>6. ASSUME NEW i \in k + 1 .. l + 1, B[i].table \in KeyNames(s)
      PROVE  \E v \in W : Serves(s, B[i], v)
  <2>1. CASE i \in k + 1 .. l
    <3>1. B[i] = A[i]
      BY <1>3, <1>4, <2>1
    <3> QED
      BY <1>6, <2>1, <3>1 DEF Answered, l
  <2>2. CASE i = l + 1
    <3>1. P[1].table \in KeyNames(s)
      BY <1>3, <1>6, <2>2
    <3>2. PICK v \in W : Orders(s, P[1], v)
      BY <1>4, <3>1 DEF Answered, n
    <3> QED
      BY <1>3, <2>2, <3>2
  <2> QED
    BY <1>4, <2>1, <2>2
<1>7. ASSUME NEW i \in 0 + 1 .. n - 1, R[i].type = P4T_ADD_TABLE_ENTRY, R[i].table \in KeyNames(s)
      PROVE  \E v \in W : Orders(s, R[i], v)
  <2>1. R[i] = P[i + 1] /\ i + 1 \in j + 1 .. n
    BY <1>1, <1>4
  <2> QED
    BY <1>7, <2>1 DEF Answered, n
<1>8. ASSUME NEW i \in 1 .. n - 1, R[i].type = P4T_ADD_TABLE_ENTRY, IsLpmTable(s, R[i].table)
      PROVE  R[i].action = LpmAction(s)
  <2>1. R[i] = P[i + 1] /\ i + 1 \in 1 .. n
    BY <1>1, <1>4
  <2> QED
    BY <1>8, <2>1, AnsweredIs DEF n
<1>9. ASSUME NEW i \in 1 .. l + 1, IsLpmTable(s, B[i].table)
      PROVE  B[i].entry.id = LpmAction(s) \/ (i <= k /\ IsConst(s, B[i]))
  <2>1. CASE i \in 1 .. l
    <3>1. B[i] = A[i]
      BY <1>3, <2>1
    <3>2. IsLpmTable(s, A[i].table) => A[i].entry.id = LpmAction(s) \/ (i <= k /\ IsConst(s, A[i]))
      BY <2>1 DEF Answered, l
    <3> QED
      BY <1>9, <3>1, <3>2
  <2>2. CASE i = l + 1
    <3>1. IsLpmTable(s, P[1].table)
      BY <1>3, <1>9, <2>2
    <3>2. P[1].action = LpmAction(s)
      BY <1>4, <3>1, AnsweredIs DEF n
    <3> QED
      BY <1>3, <2>2, <3>2
  <2> QED
    BY <1>4, <2>1, <2>2
<1> QED
  BY <1>1, <1>3, <1>4, <1>5, <1>6, <1>7, <1>8, <1>9 DEF Answered
-----------------------------------------------------------------------------
\* What is settled stays settled when messages come that set no default and do not
\* say that the controller is initialized.
LEMMA SettledMore ==
    ASSUME NEW s, NEW T, NEW P, NEW any, NEW all, Settled(s, T, P, any, all),
           NEW R, NEW q, IsSeq(q), Extended(P, R, q),
           \A m \in Range(q) : m.type # P4T_CTRL_INITIALIZED /\ m.type # P4T_SET_DEFAULT_ACTION
    PROVE  Settled(s, T, R, any, all)
<1> DEFINE n == Len(P)
           l == Len(R)
<1>1. /\ n \in Nat /\ l \in Nat /\ n <= l
      /\ \A i \in 1 .. n : i \in 1 .. l /\ R[i] = P[i]
      /\ \A i \in n + 1 .. l : \E m \in Range(q) : SameAs(R[i], m)
  BY ExtendedIs
<1>2. /\ \A i \in 1 .. n : \A d \in AllDefaults(s) : IsFor(P[i], d) => P[i].action = d[2]
      /\ \A i \in 1 .. n : P[i].type = P4T_CTRL_INITIALIZED =>
           \A d \in Expected(s) : IsDone(T, d) \/ \E j \in 1 .. i - 1 : IsFor(P[j], d)
      /\ any => \A d \in Expected(s) : IsDone(T, d) \/ \E j \in 1 .. n : IsFor(P[j], d)
      /\ all => \A d \in Expected(s) : IsDone(T, d)
  BY DEF Settled
<1> HIDE DEF n, l
<1>3. /\ \A i \in 1 .. l : i \in 1 .. n \/ i \in n + 1 .. l
      /\ \A i \in 1 .. n : \A j \in 1 .. i - 1 : j \in 1 .. n
  BY <1>1
<1>4. ASSUME NEW i \in 1 .. l, R[i].type \in {P4T_CTRL_INITIALIZED, P4T_SET_DEFAULT_ACTION}
      PROVE  i \in 1 .. n /\ R[i] = P[i]
  <2>1. i \notin n + 1 .. l
    <3> SUFFICES ASSUME i \in n + 1 .. l PROVE FALSE
      OBVIOUS
    <3>1. PICK m \in Range(q) : SameAs(R[i], m)
      BY <1>1
    <3>2. m.type = R[i].type
      BY <3>1, SaysTheSame
    <3> QED
      BY <1>4, <3>2
  <2> QED
    BY <1>1, <1>3, <2>1
<1>5. \A i \in 1 .. l : \A d \in AllDefaults(s) : IsFor(R[i], d) => R[i].action = d[2]
  BY <1>2, <1>4 DEF IsFor
<1>6. ASSUME NEW i \in 1 .. l, R[i].type = P4T_CTRL_INITIALIZED, NEW d \in Expected(s)
      PROVE  IsDone(T, d) \/ \E j \in 1 .. i - 1 : IsFor(R[j], d)
  <2>1. i \in 1 .. n /\ R[i] = P[i]
    BY <1>4, <1>6
  <2>2. CASE \E j \in 1 .. i - 1 : IsFor(P[j], d)
    <3>1. PICK j \in 1 .. i - 1 : IsFor(P[j], d)
      BY <2>2
    <3>2. R[j] = P[j]
      BY <1>1, <1>3, <2>1
    <3> QED
      BY <3>1, <3>2
  <2> QED
    BY <1>2, <1>6, <2>1, <2>2
<1>7. ASSUME any, NEW d \in Expected(s)
      PROVE  IsDone(T, d) \/ \E j \in 1 .. l : IsFor(R[j], d)
  <2>1. CASE \E j \in 1 .. n : IsFor(P[j], d)
    <3>1. PICK j \in 1 .. n : IsFor(P[j], d)
      BY <2>1
    <3>2. R[j] = P[j] /\ j \in 1 .. l
      BY <1>1
    <3> QED
      BY <3>1, <3>2
  <2> QED
    BY <1>2, <1>7, <2>1
<1> QED
  BY <1>2, <1>5, <1>6, <1>7 DEF Settled, l

\* The defaults are set before the controller says that it is initialized.
LEMMA SettledAnew ==
    ASSUME NEW s, NEW T, NEW P, NEW any, NEW all, Settled(s, T, P, any, all),
           \A d, e \in AllDefaults(s) : d[1] = e[1] => d = e,
           NEW q, NEW r \in Notices, IsSeq(q), IsSeq(r), NEW R, Extended(P, R, q \o r),
           \A m \in Range(q) : m.type # P4T_CTRL_INITIALIZED,
           DefaultsOf(Range(q)) \subseteq AllDefaults(s),
           all \/ (Len(P) = 0 /\ DefaultsOf(Range(q)) = AllDefaults(s))
    PROVE  Settled(s, T, R, TRUE, FALSE)
<1> DEFINE n == Len(P)
           l == Len(R)
           k == Len(q)
           D == DefaultsOf(Range(q))
           g == q \o r
<1>1. /\ n \in Nat /\ l \in Nat /\ n <= l
      /\ \A i \in 1 .. n : i \in 1 .. l /\ R[i] = P[i]
      /\ \A i \in n + 1 .. l : \E m \in Range(g) : SameAs(R[i], m)
      /\ IsSeq(g) /\ Range(g) = Range(q) \cup Range(r)
  BY RangeConcat, ExtendedIs
<1>2. /\ \A i \in 1 .. n : \A d \in AllDefaults(s) : IsFor(P[i], d) => P[i].action = d[2]
      /\ \A i \in 1 .. n : P[i].type = P4T_CTRL_INITIALIZED =>
           \A d \in Expected(s) : IsDone(T, d) \/ \E j \in 1 .. i - 1 : IsFor(P[j], d)
      /\ all => \A d \in Expected(s) : IsDone(T, d)
  BY DEF Settled
<1>3. /\ k \in Nat /\ DOMAIN q = 1 .. k
      /\ \A i \in 1 .. k : SameAs(R[n + i], q[i])
      /\ k <= Len(g) /\ l = n + Len(g)
  <2>1. k \in Nat /\ DOMAIN q = 1 .. k
    BY DEF IsSeq
  <2>2. /\ Len(g) = k + Len(r) /\ Len(r) \in Nat
        /\ \A i \in 1 .. k : g[i] = q[i]
    BY ConcatIsSeq
  <2>3. l = n + Len(g) /\ \A i \in 1 .. Len(g) : SameAs(R[n + i], g[i])
    BY DEF Extended
  <2> HIDE DEF g, k, n, l
  <2>4. \A i \in 1 .. k : i \in 1 .. Len(g)
    BY <2>1, <2>2
  <2>5. \A i \in 1 .. k : SameAs(R[n + i], q[i])
    BY <2>2, <2>3, <2>4
  <2> QED
    BY <2>1, <2>2, <2>3, <2>5
<1>4. \A m \in Range(r) : m.type = P4T_CTRL_INITIALIZED
  BY InitializedIs, RangeOf DEF Notices
<1>5. P4T_CTRL_INITIALIZED # P4T_SET_DEFAULT_ACTION
  BY DEF P4T_CTRL_INITIALIZED, P4T_SET_DEFAULT_ACTION
<1> HIDE DEF n, l, k, g
<1>6. ASSUME NEW i \in 1 .. l, NEW d \in AllDefaults(s), IsFor(R[i], d)
      PROVE  R[i].action = d[2]
  <2>1. CASE i \in 1 .. n
    BY <1>1, <1>2, <1>6, <2>1
  <2>2. CASE i \in n + 1 .. l
    <3>1. PICK m \in Range(g) : SameAs(R[i], m)
      BY <1>1, <2>2
    <3>2. m.type = P4T_SET_DEFAULT_ACTION /\ m.table = d[1] /\ m.action = R[i].action
      BY <1>6, <3>1, SaysTheSame DEF IsFor
    <3>3. m \in Range(q)
      BY <1>1, <1>4, <1>5, <3>2
    <3>4. <<m.table, m.action>> \in D
      BY <3>2, <3>3 DEF DefaultsOf
    <3>5. <<m.table, m.action>> \in AllDefaults(s)
      BY <3>4
    <3>6. <<m.table, m.action>> = d
      <4> DEFINE e == <<m.table, m.action>>
      <4>1. e \in AllDefaults(s) /\ e[1] = d[1]
        BY <3>2, <3>5
      <4> HIDE DEF e
      <4>2. e = d
        BY <4>1
      <4> QED
        BY <4>2 DEF e
    <3> QED
      BY <3>2, <3>6
  <2>3. i \in 1 .. n \/ i \in n + 1 .. l
    BY <1>1
  <2> QED
    BY <2>1, <2>2, <2>3

\* Either they were set before, or all messages are new and q sets them.
<1>7. CASE all
  <2>1. \A d \in Expected(s) : IsDone(T, d)
    BY <1>2, <1>7
  <2> QED
    BY <1>6, <2>1 DEF Settled, l
<1>8. CASE n = 0 /\ D = AllDefaults(s)
  <2>1. ASSUME NEW d \in Expected(s) PROVE \E j \in 1 .. k : IsFor(R[j], d)
    <3>1. d \in D
      BY <1>8 DEF Expected
    <3>2. PICK m \in Range(q) : m.type = P4T_SET_DEFAULT_ACTION /\ d = <<m.table, m.action>>
      BY <3>1 DEF DefaultsOf
    <3>3. PICK j \in 1 .. k : q[j] = m
      BY <1>3 DEF Range
    <3>4. n + j = j
      BY <1>3, <1>8
    <3>5. SameAs(R[j], m)
      BY <1>3, <3>3, <3>4
    <3>6. d[1] = m.table
      BY <3>2
    <3> QED
      BY <3>2, <3>3, <3>5, <3>6, SaysTheSame DEF IsFor
  <2>2. ASSUME NEW i \in 1 .. l, R[i].type = P4T_CTRL_INITIALIZED
        PROVE  \A j \in 1 .. k : j \in 1 .. i - 1
    <3>1. i \notin 1 .. k
      <4> SUFFICES ASSUME i \in 1 .. k PROVE FALSE
        OBVIOUS
      <4>1. n + i = i /\ q[i] \in Range(q)
        BY <1>3, <1>8 DEF Range
      <4>2. SameAs(R[i], q[i])
        BY <1>3, <4>1
      <4>3. q[i].type # P4T_CTRL_INITIALIZED /\ q[i].type = R[i].type
        BY <4>1, <4>2, SaysTheSame
      <4> QED
        BY <2>2, <4>3
    <3> QED
      BY <1>1, <1>3, <3>1
  <2>3. \A j \in 1 .. k : j \in 1 .. l
    <3>1. Len(g) \in Nat
      BY <1>1 DEF IsSeq
    <3> QED
      BY <1>1, <1>3, <1>8, <3>1
  <2>4. \A i \in 1 .. l : R[i].type = P4T_CTRL_INITIALIZED =>
           \A d \in Expected(s) : \E j \in 1 .. i - 1 : IsFor(R[j], d)
    BY <2>1, <2>2
  <2>5. \A d \in Expected(s) : \E j \in 1 .. l : IsFor(R[j], d)
    BY <2>1, <2>3
  <2> QED
    BY <1>6, <2>4, <2>5 DEF Settled, l
<1> QED
  BY <1>7, <1>8 DEF n

\* Where no default is expected.
LEMMA SettledAnyway ==
    ASSUME NEW s, AllDefaults(s) = {}, NEW T, NEW P, NEW any, NEW all
    PROVE  Settled(s, T, P, any, all)
<1>1. Expected(s) = {}
  BY DEF Expected
<1> QED
  BY <1>1 DEF Settled

\* The first message is taken; the tables are U then.
LEMMA SettledTaken ==
    ASSUME NEW s, NEW T, NEW P, NEW any, NEW all, Settled(s, T, P, any, all),
           NEW R, Shortened(P, R), NEW U, \A d \in Expected(s) : IsDone(T, d) => IsDone(U, d),
           \A d \in Expected(s) : IsFor(P[1], d) => IsDone(U, d),
           NEW now, now => all \/ P[1].type = P4T_CTRL_INITIALIZED
    PROVE  Settled(s, U, R, any, now)
<1> DEFINE n == Len(P)
<1>1. /\ n \in Nat \ {0} /\ Len(R) = n - 1 /\ \A i \in 1 .. n - 1 : R[i] = P[i + 1]
  BY DEF Shortened
<1>2. /\ \A i \in 1 .. n : \A d \in AllDefaults(s) : IsFor(P[i], d) => P[i].action = d[2]
      /\ \A i \in 1 .. n : P[i].type = P4T_CTRL_INITIALIZED =>
           \A d \in Expected(s) : IsDone(T, d) \/ \E j \in 1 .. i - 1 : IsFor(P[j], d)
      /\ any => \A d \in Expected(s) : IsDone(T, d) \/ \E j \in 1 .. n : IsFor(P[j], d)
      /\ all => \A d \in Expected(s) : IsDone(T, d)
  BY DEF Settled
<1> HIDE DEF n
<1>3. /\ \A i \in 1 .. n - 1 : i + 1 \in 1 .. n
      /\ \A i \in 1 .. n - 1 : \A j \in 1 .. (i + 1) - 1 :
           j # 1 => j - 1 \in 1 .. i - 1 /\ j - 1 \in 1 .. n - 1 /\ j - 1 + 1 = j
      /\ \A j \in 1 .. n : j # 1 => j - 1 \in 1 .. n - 1 /\ j - 1 + 1 = j
      /\ 1 \in 1 .. n /\ \A j \in 1 .. 1 - 1 : FALSE
  BY <1>1
<1>4. ASSUME NEW i \in 1 .. n - 1, NEW d \in AllDefaults(s), IsFor(R[i], d)
      PROVE  R[i].action = d[2]
  BY <1>1, <1>2, <1>3, <1>4
<1>5. ASSUME NEW i \in 1 .. n - 1, R[i].type = P4T_CTRL_INITIALIZED, NEW d \in Expected(s)
      PROVE  IsDone(U, d) \/ \E j \in 1 .. i - 1 : IsFor(R[j], d)
  <2>1. IsDone(T, d) \/ \E j \in 1 .. (i + 1) - 1 : IsFor(P[j], d)
    BY <1>1, <1>2, <1>3, <1>5
  <2>2. CASE \E j \in 1 .. (i + 1) - 1 : IsFor(P[j], d)
    <3>1. PICK j \in 1 .. (i + 1) - 1 : IsFor(P[j], d)
      BY <2>2
    <3>2. CASE j = 1
      BY <3>1, <3>2
    <3>3. CASE j # 1
      <4>1. j - 1 \in 1 .. i - 1 /\ j - 1 \in 1 .. n - 1 /\ j - 1 + 1 = j
        BY <1>3, <3>3
      <4>2. R[j - 1] = P[j]
        BY <1>1, <4>1
      <4> QED
        BY <3>1, <4>1, <4>2
    <3> QED
      BY <3>2, <3>3
  <2> QED
    BY <2>1, <2>2
<1>6. ASSUME any, NEW d \in Expected(s)
      PROVE  IsDone(U, d) \/ \E j \in 1 .. n - 1 : IsFor(R[j], d)
  <2>1. CASE \E j \in 1 .. n : IsFor(P[j], d)
    <3>1. PICK j \in 1 .. n : IsFor(P[j], d)
      BY <2>1
    <3>2. CASE j = 1
      BY <3>1, <3>2
    <3>3. CASE j # 1
      <4>1. j - 1 \in 1 .. n - 1 /\ j - 1 + 1 = j
        BY <1>3, <3>3
      <4>2. R[j - 1] = P[j]
        BY <1>1, <4>1
      <4> QED
        BY <3>1, <4>1, <4>2
    <3> QED
      BY <3>2, <3>3
  <2> QED
    BY <1>2, <1>6, <2>1
<1>7. ASSUME now, NEW d \in Expected(s) PROVE IsDone(U, d)
  <2>1. IsDone(T, d)
    BY <1>2, <1>3, <1>7
  <2> QED
    BY <2>1
<1> QED
  BY <1>1, <1>4, <1>5, <1>6, <1>7 DEF Settled

\* The tables change, and no default that was set.
LEMMA SettledKept ==
    ASSUME NEW s, NEW T, NEW P, NEW any, NEW all, Settled(s, T, P, any, all),
           NEW U, \A d \in Expected(s) : IsDone(T, d) => IsDone(U, d)
    PROVE  Settled(s, U, P, any, all)
BY DEF Settled
-----------------------------------------------------------------------------
\* Tables that are the program's, with its kinds and sizes of keys.
Shaped(s, T) ==
  /\ T = [name \in Names(s) |-> T[name]]
  /\ \A t \in Range(s.program) : T[t.name].type = t.type /\ T[t.name].key_size = t.key_size

\* The table t, with entries added or flushed.
Kept(t, u) == /\ u.type = t.type /\ u.key_size = t.key_size /\ u.default_val = t.default_val

\* A table with an entry added is kept.
LEMMA TableAddKept ==
    ASSUME NEW t, IsTable(t), NEW key, NEW depth, NEW entry
    PROVE  LET u == TableAdd(t, key, depth, entry) IN IsTable(u) /\ Kept(t, u)
<1> DEFINE u == TableAdd(t, key, depth, entry)
<1>1. CASE IsFake(t)
  <2>1. u = t
    BY <1>1 DEF TableAdd, exact_add, lpm_add
  <2> QED
    BY <2>1 DEF Kept
<1>2. CASE ~IsFake(t) /\ t.type = "exact"
  <2>1. u = exact_add(t, key, entry)
    BY <1>2 DEF TableAdd
  <2>2. PICK h, c : exact_add(t, key, entry) = [t EXCEPT !.hash = h, !.content = c]
    BY <1>2 DEF exact_add
  <2> HIDE DEF u
  <2>3. /\ DOMAIN u = DOMAIN t /\ u.type = t.type /\ u.key_size = t.key_size
        /\ u.max_size = t.max_size /\ u.default_val = t.default_val /\ u.size = t.size
    BY <2>1, <2>2 DEF IsTable
  <2> QED
    BY <2>3 DEF IsTable, Kept, u
<1>3. CASE ~IsFake(t) /\ t.type # "exact"
  <2>1. u = lpm_add(t, key, depth, entry, setup.big)
    BY <1>3 DEF TableAdd
  <2>2. PICK c, r : lpm_add(t, key, depth, entry, setup.big)
                      = [t EXCEPT !.content = c, !.size = @ + 1, !.rules = r]
    BY <1>3 DEF lpm_add
  <2> HIDE DEF u
  <2>3. /\ DOMAIN u = DOMAIN t /\ u.type = t.type /\ u.key_size = t.key_size
        /\ u.max_size = t.max_size /\ u.default_val = t.default_val /\ u.size = t.size + 1
    BY <2>1, <2>2 DEF IsTable
  <2> QED
    BY <2>3 DEF IsTable, Kept, u
<1> QED
  BY <1>1, <1>2, <1>3

\* So is one with its const entries added.
LEMMA FillKept ==
    ASSUME NEW config, IsSeq(config.const), NEW t, IsTable(t)
    PROVE  Kept(t, init_table_const_entries(t, config))
<1> DEFINE q == ConstNotes(config)
           N == Len(q)
<1>1. IsSeq(q) /\ N \in Nat
  BY ConstNotesAre
<1>2. PICK f : /\ f[0] = t /\ init_table_const_entries(t, config) = f[N]
               /\ \A i \in 1 .. N : f[i] = TableAdd(f[i - 1], q[i].key, q[i].depth, q[i].entry)
  BY <1>1, FilledInOrder
<1> HIDE DEF q
<1> DEFINE Good(u) == IsTable(u) /\ Kept(t, u)
           Bad == {j \in 0 .. N : ~Good(f[j])}
<1>3. ASSUME NEW j \in 1 .. N, Good(f[j - 1]) PROVE Good(f[j])
  <2>1. IsTable(f[j]) /\ Kept(f[j - 1], f[j])
    BY <1>2, <1>3, TableAddKept
  <2> QED
    BY <1>3, <2>1 DEF Kept
<1>4. Good(f[0])
  BY <1>2 DEF Kept
<1> HIDE DEF N, Good
<1>5. Bad = {}
  <2> SUFFICES ASSUME Bad # {} PROVE FALSE
    OBVIOUS
  <2>1. Bad \subseteq Nat
    BY <1>1
  <2> HIDE DEF Bad
  <2>2. PICK m \in Bad : \A e \in Bad : m <= e
    BY <2>1, LeastExists
  <2> USE DEF Bad
  <2>3. m # 0
    BY <1>4
  <2>4. m \in 1 .. N /\ m - 1 \in 0 .. N /\ ~(m <= m - 1)
    BY <1>1, <2>3
  <2>5. Good(f[m - 1])
    BY <2>2, <2>4
  <2> QED
    BY <1>3, <2>4, <2>5
<1>6. N \in 0 .. N
  BY <1>1
<1> QED
  BY <1>2, <1>5, <1>6 DEF Good

\* So is one that is flushed.
LEMMA FlushKept ==
    ASSUME NEW t, IsTable(t) PROVE Kept(t, flush_table(t))
<1>1. CASE IsFake(t)
  <2>1. flush_table(t) = t
    BY <1>1 DEF flush_table
  <2> QED
    BY <2>1 DEF Kept
<1>2. CASE ~IsFake(t) /\ t.type = "exact"
  <2>1. flush_table(t) = exact_flush(t)
    BY <1>2 DEF flush_table
  <2> QED
    BY <2>1 DEF exact_flush, IsTable, Kept
<1>3. CASE ~IsFake(t) /\ t.type = "lpm"
  <2>1. flush_table(t) = lpm_flush(t)
    BY <1>3 DEF flush_table
  <2> QED
    BY <2>1 DEF lpm_flush, IsTable, Kept
<1> QED
  BY <1>1, <1>2, <1>3 DEF IsTable

\* Tables all of which are kept.
LEMMA ShapedKept ==
    ASSUME NEW s, NEW T, Shaped(s, T), NEW U, U = [name \in Names(s) |-> U[name]],
           \A name \in Names(s) : Kept(T[name], U[name])
    PROVE  Shaped(s, U) /\ \A d \in Expected(s) : IsDone(T, d) => IsDone(U, d)
<1>1. \A t \in Range(s.program) : t.name \in Names(s)
  BY DEF Names
<1>2. \A d \in Expected(s) : d[1] \in Names(s)
  BY <1>1 DEF Expected
<1> QED
  BY <1>1, <1>2 DEF Shaped, Kept, IsDone

\* U is the tables T with another default of one of them.
DefaultIn(T, U, x, e) == U = [T EXCEPT ![x] = table_set_default_action(@, e)]

\* One of the tables gets another default.
LEMMA ShapedSet ==
    ASSUME NEW s, NEW T, Shaped(s, T), NEW U, NEW x, NEW e, \A name \in Names(s) : IsTable(T[name]),
           DefaultIn(T, U, x, e)
    PROVE  /\ Shaped(s, U)
           /\ \A name \in Names(s) : name # x => U[name] = T[name]
           /\ x \in Names(s) => U[x].default_val = e
<1>1. DOMAIN T = Names(s) /\ U = [name \in Names(s) |-> U[name]]
  BY DEF Shaped, DefaultIn
<1>2. \A name \in Names(s) : name # x => U[name] = T[name]
  BY <1>1 DEF DefaultIn
<1>3. ASSUME x \in Names(s)
      PROVE  U[x].default_val = e /\ U[x].type = T[x].type /\ U[x].key_size = T[x].key_size
  <2>1. U[x] = table_set_default_action(T[x], e)
    BY <1>1, <1>3 DEF DefaultIn
  <2>2. IsTable(T[x])
    BY <1>3
  <2> QED
    BY <2>1, <2>2 DEF table_set_default_action, IsTable
<1>4. ASSUME NEW t \in Range(s.program)
      PROVE  U[t.name].type = t.type /\ U[t.name].key_size = t.key_size
  <2>1. t.name \in Names(s)
    BY DEF Names
  <2>2. T[t.name].type = t.type /\ T[t.name].key_size = t.key_size
    BY DEF Shaped
  <2> QED
    BY <1>2, <1>3, <2>1, <2>2
<1> QED
  BY <1>1, <1>2, <1>3, <1>4 DEF Shaped
-----------------------------------------------------------------------------
\* What is wanted: of an exact table, with a key of its size, or of the LPM table.
\* If the table has one of the actions, it has all.
IsWant(s, w) ==
  /\ \/ \E n : <<w.table, n>> \in KeyTables(s) /\ IsKey(n, w.key)
     \/ IsLpmTable(s, w.table) /\ w.actions = {LpmAction(s)} /\ w.param = None
  /\ \/ \E a : w.actions = {a}
     \/ s.app = "smgw" /\ w.table = "m_filter_0" /\ w.actions = {".NoAction", ".drop"}

\* A want of one action for an exact table.
LEMMA WantFits ==
    ASSUME NEW s, NEW table, NEW key, NEW action, NEW param, NEW n,
           <<table, n>> \in KeyTables(s), IsKey(n, key)
    PROVE  IsWant(s, Want(table, key, {action}, param))
BY DEF IsWant, Want

\* A want for the LPM table.
LEMMA LpmWantFits ==
    ASSUME NEW s, s.app \in L3Apps \cup {"smgw"}, NEW x, NEW w \in WantedOfLpm(s, x, LpmAction(s))
    PROVE  IsWant(s, w)
<1>1. w = Want(".ipv4_lpm", x.key, {LpmAction(s)}, None)
  BY DEF WantedOfLpm
<1>2. w.table = ".ipv4_lpm" /\ w.actions = {LpmAction(s)} /\ w.param = None
  BY <1>1 DEF Want
<1> QED
  BY <1>2 DEF IsWant, IsLpmTable

\* Lines and digests want nothing else.
LEMMA LinesWant ==
    ASSUME NEW s, WellMatched(s), NEW x, NEW w \in Wanted(s, FinalDict(s), x),
           \/ x \in Range(Lines(s)) /\ x.ok
           \/ \E g \in s.digests : /\ g.name # "test_learn_ip" /\ x.code = "DIGEST"
                                   /\ x.key = g.key /\ x.port = g.port
    PROVE  IsWant(s, w)
<1> DEFINE d == FinalDict(s)
<1>1. x \in Range(Lines(s)) /\ x.ok => LineFits(s, x)
  BY DEF WellMatched
<1>2. \A g \in s.digests : DigestFits(s, g)
  BY DEF WellMatched
<1>3. \A n : \A b \in Bytes(n) : IsKey(n, b)
  BY BytesAreKeys
<1>4. CASE s.app = "l2fwd"
  <2>1. KeyTables(s) = L2KeyTables(s) /\ Wanted(s, d, x) = WantedOfL2(s, d, x)
    BY <1>4, WantedIs
  <2>2. ASSUME x.code \in {"MAC-FWD", "EXACT", "DIGEST"} PROVE IsKey(6, x.key)
    <3>1. CASE x \in Range(Lines(s)) /\ x.ok
      <4>1. x.code # "DIGEST"
        BY <1>1, <1>4, <3>1 DEF LineFits
      <4>2. x.key \in Bytes(6)
        BY <1>1, <1>4, <2>2, <3>1, <4>1 DEF LineFits
      <4> QED
        BY <1>3, <4>2
    <3>2. CASE \E g \in s.digests : g.name # "test_learn_ip" /\ x.key = g.key
      <4>1. PICK g \in s.digests : g.name # "test_learn_ip" /\ x.key = g.key
        BY <3>2
      <4>2. g.key \in Bytes(6)
        BY <1>2, <1>4, <4>1 DEF DigestFits
      <4> QED
        BY <1>3, <4>1, <4>2
    <3> QED
      BY <3>1, <3>2
  <2>3. CASE x.code = "EXACT"
    <3>1. x \in Range(s.file) /\ x.ok
      <4>1. x \in Range(Lines(s)) /\ x.ok
        BY <2>3
      <4>2. Lines(s) = IF s.hasFile THEN s.file ELSE << >>
        BY <1>4 DEF Lines
      <4>3. Range(<< >>) = {}
        BY RangeOf
      <4> QED
        BY <4>1, <4>2, <4>3
    <3>2. <<translate(d, x.table), 6>> \in L2KeyTables(s)
      BY <2>3, <3>1 DEF L2KeyTables
    <3>3. w = Want(translate(d, x.table), x.key, {translate(d, x.action)},
                   IF x.matches < 6 + 3 + 1 THEN None ELSE SentPort(s, x))
      BY <2>1, <2>3 DEF WantedOfL2
    <3> HIDE DEF d
    <3> QED
      BY <2>1, <2>2, <2>3, <3>2, <3>3, WantFits
  <2>4. CASE x.code \in {"MAC-FWD", "DIGEST"}
    <3>1. <<translate(d, "dmac"), 6>> \in L2KeyTables(s) /\ <<translate(d, "smac"), 6>> \in L2KeyTables(s)
      BY DEF L2KeyTables
    <3>2. w \in {Want(translate(d, "dmac"), x.key, {translate(d, "forward")}, SentPort(s, x)),
                 Want(translate(d, "smac"), x.key, {translate(d, "_nop")}, None)}
      BY <2>1, <2>4 DEF WantedOfL2
    <3> HIDE DEF d
    <3>3. CASE w = Want(translate(d, "dmac"), x.key, {translate(d, "forward")}, SentPort(s, x))
      BY <2>1, <2>2, <2>4, <3>1, <3>3, WantFits
    <3>4. CASE w = Want(translate(d, "smac"), x.key, {translate(d, "_nop")}, None)
      BY <2>1, <2>2, <2>4, <3>1, <3>4, WantFits
    <3> QED
      BY <3>2, <3>3, <3>4
  <2>5. x.code \in {"EXACT", "MAC-FWD", "DIGEST"}
    BY <2>1 DEF WantedOfL2
  <2> QED
    BY <2>3, <2>4, <2>5
<1>5. CASE s.app = "psa_l2fwd"
  <2>1. KeyTables(s) = {<<"dmac_0", 6>>, <<"smac_0", 6>>} /\ Wanted(s, d, x) = WantedOfPsa(x)
    BY <1>5, WantedIs
  <2>2. IsKey(6, x.key)
    <3>1. CASE x \in Range(Lines(s)) /\ x.ok
      <4>1. x.key \in Bytes(6)
        BY <1>1, <1>5, <3>1 DEF LineFits, L3Apps
      <4> QED
        BY <1>3, <4>1
    <3>2. CASE \E g \in s.digests : g.name # "test_learn_ip" /\ x.key = g.key
      <4>1. PICK g \in s.digests : g.name # "test_learn_ip" /\ x.key = g.key
        BY <3>2
      <4>2. g.key \in Bytes(6)
        BY <1>2, <1>5, <4>1 DEF DigestFits
      <4> QED
        BY <1>3, <4>1, <4>2
    <3> QED
      BY <3>1, <3>2
  <2>3. w \in {Want("dmac_0", x.key, {"forward"}, x.port), Want("smac_0", x.key, {"._nop"}, None)}
    BY <2>1 DEF WantedOfPsa
  <2>4. <<"dmac_0", 6>> \in KeyTables(s) /\ <<"smac_0", 6>> \in KeyTables(s)
    BY <2>1
  <2>5. CASE w = Want("dmac_0", x.key, {"forward"}, x.port)
    BY <2>2, <2>4, <2>5, WantFits
  <2>6. CASE w = Want("smac_0", x.key, {"._nop"}, None)
    BY <2>2, <2>4, <2>6, WantFits
  <2> QED
    BY <2>3, <2>5, <2>6
<1>6. CASE s.app \in L3Apps
  <2>1. /\ KeyTables(s) = {<<".macfwd", 6>>, <<".nexthops", 4>>} /\ Wanted(s, d, x) = WantedOfL3(s, x)
        /\ LpmAction(s) = ".set_nhop" /\ s.app \notin {"l2fwd", "psa_l2fwd", "smgw"}
    BY <1>6, WantedIs DEF LpmAction, L3Apps
  <2>2. x.code \in {"M", "N", "E"} => LineFits(s, x)
    BY <1>1
  <2>3. CASE x.code = "M"
    <3>1. w = Want(".macfwd", x.key, {"._nop"}, None)
      BY <2>1, <2>3 DEF WantedOfL3
    <3>2. x.key \in Bytes(6)
      BY <1>6, <2>1, <2>2, <2>3 DEF LineFits
    <3>3. <<".macfwd", 6>> \in KeyTables(s) /\ IsKey(6, x.key)
      BY <1>3, <2>1, <3>2
    <3> QED
      BY <3>1, <3>3, WantFits
  <2>4. CASE x.code = "N"
    <3>1. w = Want(".nexthops", x.key, {".forward"}, x.dmac)
      BY <2>1, <2>4 DEF WantedOfL3
    <3>2. x.key \in Bytes(4)
      BY <1>6, <2>1, <2>2, <2>4 DEF LineFits
    <3>3. <<".nexthops", 4>> \in KeyTables(s) /\ IsKey(4, x.key)
      BY <1>3, <2>1, <3>2
    <3> QED
      BY <3>1, <3>3, WantFits
  <2>5. CASE x.code = "E"
    <3>1. w \in WantedOfLpm(s, x, LpmAction(s))
      BY <2>1, <2>5 DEF WantedOfL3
    <3> QED
      BY <1>6, <3>1, LpmWantFits
  <2>6. x.code \in {"M", "N", "E"}
    BY <2>1 DEF WantedOfL3
  <2> QED
    BY <2>3, <2>4, <2>5, <2>6
<1>7. CASE s.app = "smgw"
  <2>1. /\ KeyTables(s) = {<<"dmac_0", 6>>, <<"m_filter_0", 1>>, <<"ipv4_forward_0", 1>>}
        /\ Wanted(s, d, x) = WantedOfSmgw(s, x)
        /\ LpmAction(s) = "set_nhgrp" /\ s.app \notin L3Apps
    BY <1>7, WantedIs DEF LpmAction, L3Apps
  <2>2. x.code # "DIGEST" => LineFits(s, x)
    BY <1>1
  <2>3. CASE x.code = "DMAC"
    <3>1. w = Want("dmac_0", x.key, {"forward"}, x.port)
      BY <2>1, <2>3 DEF WantedOfSmgw
    <3>2. x.key \in Bytes(6)
      BY <1>7, <2>1, <2>2, <2>3 DEF LineFits
    <3>3. <<"dmac_0", 6>> \in KeyTables(s) /\ IsKey(6, x.key)
      BY <1>3, <2>1, <3>2
    <3> QED
      BY <3>1, <3>3, WantFits
  <2>4. CASE x.code = "M-FILTER"
    <3>1. w = Want("m_filter_0", x.key, {".NoAction", ".drop"}, None)
      BY <2>1, <2>4 DEF WantedOfSmgw
    <3>2. x.key \in Bytes(1)
      BY <1>7, <2>1, <2>2, <2>4 DEF LineFits
    <3>3. <<"m_filter_0", 1>> \in KeyTables(s) /\ IsKey(1, x.key)
      BY <1>3, <2>1, <3>2
    <3>4. w.table = "m_filter_0" /\ w.key = x.key /\ w.actions = {".NoAction", ".drop"}
      BY <3>1 DEF Want
    <3> QED
      BY <1>7, <3>3, <3>4 DEF IsWant
  <2>5. CASE x.code = "SMAC-DMAC"
    <3>1. w = Want("ipv4_forward_0", x.key, {"pkt_send"}, x.dmac)
      BY <2>1, <2>5 DEF WantedOfSmgw
    <3>2. x.key \in Bytes(1)
      BY <1>7, <2>1, <2>2, <2>5 DEF LineFits
    <3>3. <<"ipv4_forward_0", 1>> \in KeyTables(s) /\ IsKey(1, x.key)
      BY <1>3, <2>1, <3>2
    <3> QED
      BY <3>1, <3>3, WantFits
  <2>6. CASE x.code = "NEXTHOP"
    <3>1. w \in WantedOfLpm(s, x, LpmAction(s))
      BY <2>1, <2>6 DEF WantedOfSmgw
    <3> QED
      BY <1>7, <3>1, LpmWantFits
  <2>7. x.code \in {"DMAC", "M-FILTER", "SMAC-DMAC", "NEXTHOP"}
    BY <2>1 DEF WantedOfSmgw
  <2> QED
    BY <2>3, <2>4, <2>5, <2>6, <2>7
<1>8. CASE s.app = "test-digest"
  <2>1. KeyTables(s) = {<<"ingress.t", 1>>} /\ Wanted(s, d, x) = WantedOfTest(x)
    BY <1>8, WantedIs
  <2>2. w = Want("ingress.t", <<x.port>>, {"ingress.found"}, x.port)
    BY <2>1 DEF WantedOfTest
  <2>3. IsKey(1, <<x.port>>)
    BY DEF IsKey
  <2>4. <<"ingress.t", 1>> \in KeyTables(s)
    BY <2>1
  <2> QED
    BY <2>2, <2>3, <2>4, WantFits
<1>9. CASE s.app \in {"portfwd", "dummy"}
  <2>1. Wanted(s, d, x) = {}
    BY <1>9, WantedIs
  <2> QED
    BY <2>1
<1>10. s.app \in L3Apps \cup {"l2fwd", "psa_l2fwd", "smgw", "portfwd", "test-digest", "dummy"}
  BY DEF WellMatched, L3Apps
<1> QED
  BY <1>4, <1>5, <1>6, <1>7, <1>8, <1>9, <1>10
-----------------------------------------------------------------------------
IsConnected == conns > 0 /\ (mpc # "wait" \/ ctrl_is_initialized)

\* Where the main thread and the controller are.
Context ==
  /\ Listens(setup) /\ conns \in Nat /\ IsSeq(chan)
  /\ conns = 0 => chan = << >> /\ mpc \in {"init_tables", "connect"}
  /\ mpc \in {"init_tables", "connect"} => heard = << >> /\ learned = {}
  /\ IF mpc = "init_tables" /\ conns = 0 THEN tables = << >> ELSE Shaped(setup, tables)
  /\ heard \in {<< >>, Lines(setup)} /\ learned \subseteq setup.digests
  /\ setup.app = "l2fwd" /\ conns > 0 => dict = FinalDict(setup)
  /\ mpc = "setdefault" => \A d \in Expected(setup) : d[1] # Program[idx].name

Held ==
  /\ Context
  /\ \E k, j \in Nat : Answered(setup, added, Pending, WantedSoFar, k, j)
  /\ Settled(setup, tables, Pending, conns > 0, IsConnected)

FoundInv == WellMatched(setup) /\ listening => Held
-----------------------------------------------------------------------------

\* Without lines and digests nothing is wanted.
LEMMA NothingWanted == \A s, d : WantsOf(s, d, GoneThrough(s, << >>) \cup Learned({})) = {}
<1> TAKE s, d
<1>1. Learned({}) = {}
  BY DEF Learned
<1> QED
  BY <1>1, NoLines

\* The tables of the program are tables.
LEMMA TablesAre ==
    ASSUME IInv, Shaped(setup, tables)
    PROVE  \A name \in Names(setup) : IsTable(tables[name])
<1>1. CASE tables = << >>
  <2>1. Names(setup) = {}
    BY <1>1, NoNotes DEF Shaped
  <2> QED
    BY <2>1
<1>2. CASE tables # << >>
  BY <1>2 DEF IInv, TableInv
<1> QED
  BY <1>1, <1>2

\* The messages under way are as many as were written.
LEMMA PendingIs ==
    ASSUME IsSeq(chan)
    PROVE  /\ Len(Pending) = Len(chan) /\ Len(chan) \in Nat
           /\ \A i \in 1 .. Len(chan) : Pending[i] = handle_p4_msg(chan[i], setup.big)
<1>1. Len(chan) \in Nat
  BY DEF IsSeq
<1> QED
  BY <1>1, ListIs DEF Pending, Handled

\* The notes are a sequence.
LEMMA NotesAre == IInv => IsSeq(added) /\ Len(added) \in Nat /\ setup \in Setups
BY DEF IInv, IsSeq

\* Before the first connection.
LEMMA SettledFirst ==
    ASSUME NEW s, NEW T, NEW P, Len(P) = 0
    PROVE  Settled(s, T, P, FALSE, FALSE)
BY DEF Settled

\* The notes of the const entries.
LEMMA AllConst ==
    ASSUME setup \in Setups, IsSeq(added)
    PROVE  LET B == added \o FlattenSeq([i \in DOMAIN Program |-> ConstNotes(Program[i])])
           IN  /\ Len(B) \in Nat
               /\ \A i \in 1 .. Len(B) : IsConst(setup, B[i]) \/ (i \in 1 .. Len(added) /\ B[i] = added[i])
<1> DEFINE Q == [i \in DOMAIN Program |-> ConstNotes(Program[i])]
           F == FlattenSeq(Q)
           B == added \o F
           N == Len(Program)
<1>1. IsProgram(Program)
  BY ConfigIs
<1>2. N \in Nat /\ DOMAIN Program = 1 .. N
  BY <1>1 DEF IsProgram, IsSeq
<1>3. \A i \in 1 .. N : IsSeq(Program[i].const) /\ Q[i] = ConstNotes(Program[i])
  BY <1>1, <1>2 DEF IsProgram
<1>4. \A i \in 1 .. N : IsSeq(Q[i])
  BY <1>3, ConstNotesAre
<1>5. Len(Q) = N /\ DOMAIN Q = 1 .. N
  BY <1>2
<1>6. ASSUME NEW i \in 1 .. N, NEW a \in Range(Q[i]) PROVE IsConst(setup, a)
  <2> DEFINE t == Program[i]
  <2>1. PICK p \in DOMAIN t.const : a = ConstNotes(t)[p]
    <3>1. Q[i] = ConstNotes(t) /\ DOMAIN ConstNotes(t) = DOMAIN t.const
      BY <1>3 DEF ConstNotes
    <3> QED
      BY <1>6, <3>1 DEF Range
  <2>2. a.table = t.name /\ a.depth = t.const[p].depth
    BY <2>1 DEF ConstNotes, Noted
  <2>3. t \in Range(setup.program) /\ t.const[p] \in Range(t.const)
    BY <1>2 DEF Range, Program
  <2> HIDE DEF t
  <2> QED
    BY <2>2, <2>3 DEF IsConst
<1> HIDE DEF Q
<1>7. IsSeq(F) /\ Range(F) = UNION {Range(Q[i]) : i \in 1 .. N}
  BY <1>2, <1>4, <1>5, RangeFlattened
<1>8. \A a \in Range(F) : IsConst(setup, a)
  BY <1>6, <1>7
<1> HIDE DEF F
<1>9. /\ Len(added) \in Nat /\ Len(F) \in Nat /\ DOMAIN F = 1 .. Len(F)
      /\ Len(B) = Len(added) + Len(F)
      /\ \A i \in 1 .. Len(added) : B[i] = added[i]
      /\ \A i \in 1 .. Len(F) : B[Len(added) + i] = F[i]
  BY <1>7, ConcatIsSeq
<1> HIDE DEF B
<1>10. ASSUME NEW i \in 1 .. Len(B)
       PROVE  IsConst(setup, B[i]) \/ (i \in 1 .. Len(added) /\ B[i] = added[i])
  <2> DEFINE l == Len(added)
             f == Len(F)
  <2>1. l \in Nat /\ f \in Nat /\ i \in 1 .. l + f
    BY <1>9
  <2> HIDE DEF l, f
  <2>2. i \in 1 .. l \/ (i - l \in 1 .. f /\ l + (i - l) = i)
    BY <2>1
  <2>3. CASE i \in 1 .. l
    BY <1>9, <2>3 DEF l
  <2>4. CASE i - l \in 1 .. f /\ l + (i - l) = i
    <3>1. B[i] = F[i - l] /\ F[i - l] \in Range(F)
      BY <1>9, <2>4 DEF l, f, Range
    <3> QED
      BY <1>8, <3>1
  <2> QED
    BY <2>2, <2>3, <2>4
<1>11. Len(B) \in Nat
  BY <1>9
<1> QED
  BY <1>10, <1>11 DEF B, F, Q

\* The tables are made, or there already.
LEMMA FreshTables ==
    ASSUME IInv, Context, mpc = "init_tables"
    PROVE  LET fresh == create_tables_on_lcore
           IN  /\ DOMAIN fresh = Names(setup)
               /\ \A name \in Names(setup) :
                    /\ IsTable(fresh[name])
                    /\ fresh[name].type = Config(name).type
                    /\ fresh[name].key_size = Config(name).key_size
               /\ conns > 0 => \A name \in Names(setup) : fresh[name] = tables[name]
<1> DEFINE fresh == create_tables_on_lcore
<1>1. \A name \in Names(setup) :
        /\ Config(name).type \in {"exact", "lpm"} /\ Config(name).key_size \in Nat
        /\ Config(name).max_size \in Nat \ {0}
        /\ Config(name) \in Range(setup.program) /\ Config(name).name = name
  <2> TAKE name \in Names(setup)
  <2>1. setup \in Setups
    BY DEF IInv
  <2>2. PICK i \in DOMAIN Program : name = Program[i].name
    BY <2>1, ConfigIs
  <2>3. Config(name) = Program[i]
    BY <2>1, <2>2, ConfigIs
  <2> QED
    BY <2>1, <2>2, <2>3, ConfigIs DEF Range, Program
<1>2. CASE tables = << >>
  <2>1. fresh = [name \in Names(setup) |-> create_table(Config(name))]
    BY <1>2 DEF create_tables_on_lcore, Names, Program
  <2>2. \A name \in Names(setup) :
          LET t == create_table(Config(name))
          IN  IsTable(t) /\ t.type = Config(name).type /\ t.key_size = Config(name).key_size
    <3> TAKE name \in Names(setup)
    <3> DEFINE c == Config(name)
               t == create_table(c)
    <3>1. c.type \in {"exact", "lpm"} /\ c.key_size \in Nat /\ c.max_size \in Nat \ {0}
      BY <1>1
    <3> HIDE DEF c
    <3>2. IsTable(t) /\ t.type = c.type /\ t.key_size = c.key_size
      BY <3>1 DEF create_table, IsTable
    <3> QED
      BY <3>2 DEF c
  <2>3. conns > 0 => Names(setup) = {}
    BY <1>2, NoNotes DEF Context, Shaped
  <2> QED
    BY <2>1, <2>2, <2>3
<1>3. CASE tables # << >>
  <2>1. fresh = tables
    BY <1>3 DEF create_tables_on_lcore
  <2>2. Shaped(setup, tables)
    BY <1>3 DEF Context
  <2>3. \A name \in Names(setup) : IsTable(tables[name])
    BY <2>2, TablesAre
  <2>4. DOMAIN tables = Names(setup)
    BY <2>2 DEF Shaped
  <2>5. \A name \in Names(setup) : /\ tables[name].type = Config(name).type
                                   /\ tables[name].key_size = Config(name).key_size
    BY <1>1, <2>2 DEF Shaped
  <2> QED
    BY <2>1, <2>3, <2>4, <2>5
<1> QED
  BY <1>2, <1>3

\* init_tables puts the const entries back; nothing is wanted yet.
LEMMA InitTablesFound ==
    ASSUME IInv, WellMatched(setup), Held, init_tables
    PROVE  Held'
<1> DEFINE fresh == create_tables_on_lcore
           F == FlattenSeq([i \in DOMAIN Program |-> ConstNotes(Program[i])])
           P == Pending
<1>1. /\ mpc = "init_tables" /\ mpc' = "connect" /\ Context
      /\ UNCHANGED <<setup, controller, chan, ctrl_is_initialized, idx, case, heard, learned>>
      /\ added' = added \o F
      /\ tables' = [name \in DOMAIN fresh |-> init_table_const_entries(fresh[name], Config(name))]
      /\ UNCHANGED <<listening, conns, dict, made>>
  BY DEF init_tables, Held, controller
<1>2. heard = << >> /\ learned = {} /\ IsSeq(chan) /\ setup \in Setups /\ IsSeq(added)
  BY <1>1, NotesAre DEF Context
<1>3. /\ DOMAIN fresh = Names(setup)
      /\ \A name \in Names(setup) :
           /\ IsTable(fresh[name]) /\ fresh[name].type = Config(name).type
           /\ fresh[name].key_size = Config(name).key_size
      /\ conns > 0 => \A name \in Names(setup) : fresh[name] = tables[name]
  BY <1>1, FreshTables
<1> HIDE DEF fresh
<1>4. \A name \in Names(setup) : Kept(fresh[name], tables'[name])
  <2> TAKE name \in Names(setup)
  <2>1. PICK i \in DOMAIN Program : name = Program[i].name
    BY <1>2, ConfigIs
  <2>2. Config(name) = Program[i] /\ IsProgram(Program)
    BY <1>2, <2>1, ConfigIs
  <2>3. IsSeq(Config(name).const)
    BY <2>2 DEF IsProgram
  <2>4. tables'[name] = init_table_const_entries(fresh[name], Config(name))
    BY <1>1, <1>3
  <2> QED
    BY <1>3, <2>3, <2>4, FillKept
<1>5. tables' = [name \in Names(setup) |-> tables'[name]]
  BY <1>1, <1>3
<1>6. Shaped(setup, tables')
  <2> SUFFICES ASSUME NEW t \in Range(setup.program)
               PROVE  tables'[t.name].type = t.type /\ tables'[t.name].key_size = t.key_size
    BY <1>5 DEF Shaped
  <2>1. t.name \in Names(setup) /\ Config(t.name) = t
    <3>1. PICK i \in DOMAIN Program : t = Program[i]
      BY DEF Range, Program
    <3> QED
      BY <1>2, <3>1, ConfigIs DEF Names, Program
  <2> QED
    BY <1>3, <1>4, <2>1 DEF Kept
<1>7. Context'
  BY <1>1, <1>2, <1>6 DEF Context, Program
<1>8. Pending' = P /\ Len(P) \in Nat
  BY <1>1, <1>2, PendingIs DEF Pending
<1>9. WantedSoFar' = {}
  BY <1>1, <1>2, NothingWanted DEF WantedSoFar
<1>10. Answered(setup, added', P, {}, Len(added'), Len(P)) /\ Len(added') \in Nat
  <2>1. PICK k, j : Answered(setup, added, P, WantedSoFar, k, j)
    BY DEF Held
  <2>2. /\ Len(added') \in Nat
        /\ \A i \in 1 .. Len(added') :
             IsConst(setup, added'[i]) \/ (i \in 1 .. Len(added) /\ added'[i] = added[i])
    BY <1>1, <1>2, AllConst
  <2>3. Len(added) \in Nat
    BY <1>2 DEF IsSeq
  <2> HIDE DEF P
  <2> QED
    BY <1>8, <2>1, <2>2, <2>3, AnsweredNone
<1>11. Settled(setup, tables', P, conns > 0, IsConnected')
  <2>1. CASE conns = 0
    <3>1. (conns > 0) = FALSE /\ IsConnected' = FALSE
      BY <1>1, <2>1 DEF IsConnected
    <3>2. Len(P) = 0
      <4>1. chan = << >>
        BY <1>1, <2>1 DEF Context
      <4> QED
        BY <1>2, <4>1, PendingIs
    <3> QED
      BY <3>1, <3>2, SettledFirst
  <2>2. CASE conns # 0
    <3>1. conns > 0 /\ conns' = conns
      BY <1>1, <2>2 DEF Context
    <3>2. Settled(setup, tables, P, conns > 0, IsConnected)
      BY DEF Held
    <3>3. IsConnected' = IsConnected
      BY <1>1, <3>1 DEF IsConnected
    <3>4. Shaped(setup, tables) /\ \A name \in Names(setup) : Kept(tables[name], tables'[name])
      BY <1>1, <1>3, <1>4, <3>1 DEF Context
    <3>5. \A d \in Expected(setup) : IsDone(tables, d) => IsDone(tables', d)
      BY <1>5, <3>4, ShapedKept
    <3> HIDE DEF P
    <3> QED
      BY <3>2, <3>3, <3>5, SettledKept
  <2> QED
    BY <2>1, <2>2
<1>12. Len(P) \in Nat /\ setup' = setup /\ conns' = conns
  BY <1>1, <1>8
<1>13. \E k, j \in Nat : Answered(setup', added', Pending', WantedSoFar', k, j)
  BY <1>8, <1>9, <1>10, <1>12
<1>14. Settled(setup', tables', Pending', conns' > 0, IsConnected')
  BY <1>8, <1>11, <1>12
<1> QED
  BY <1>7, <1>13, <1>14 DEF Held
-----------------------------------------------------------------------------
\* One default is expected of a table.
LEMMA DefaultsDiffer ==
    ASSUME NEW s, WellMatched(s)
    PROVE  \A d, e \in AllDefaults(s) : d[1] = e[1] => d = e
<1>1. CASE s.app = "l2fwd"
  <2>1. Lines(s) = s.file
    <3>1. Lines(s) = IF s.hasFile THEN s.file ELSE << >>
      BY <1>1 DEF Lines
    <3>2. ~s.hasFile => s.file = << >>
      BY DEF WellMatched
    <3> QED
      BY <3>1, <3>2
  <2> QED
    BY <1>1, <2>1 DEF WellMatched, AllDefaults
<1>2. CASE s.app = "psa_l2fwd"
  <2>1. AllDefaults(s) = {<<"smac_0", "mac_learn">>, <<"dmac_0", "bcast">>}
    BY <1>2 DEF AllDefaults, WantedDefaults
  <2> QED
    BY <2>1
<1>3. CASE s.app = "portfwd"
  <2>1. AllDefaults(s) = {<<".t_fwd", "._drop">>}
    BY <1>3 DEF AllDefaults, WantedDefaults
  <2> QED
    BY <2>1
<1>4. CASE s.app = "test-digest"
  <2>1. AllDefaults(s) = {<<"ingress.t", "ingress.learn">>}
    BY <1>4 DEF AllDefaults, WantedDefaults
  <2> QED
    BY <2>1
<1>5. CASE s.app \notin {"l2fwd", "psa_l2fwd", "portfwd", "test-digest"}
  <2>1. AllDefaults(s) = {}
    BY <1>5 DEF AllDefaults, WantedDefaults
  <2> QED
    BY <2>1
<1> QED
  BY <1>1, <1>2, <1>3, <1>4, <1>5

\* The parts of Fulfils.
LEMMA FulfilsIs ==
    ASSUME NEW s, NEW q, NEW W, NEW D, Fulfils(s, q, W, D)
    PROVE  /\ IsSeq(q) /\ Meets(s, Range(q), W) /\ DefaultsOf(Range(q)) = D
           /\ \A m \in Range(q) : Built(m) /\ m.type # P4T_CTRL_INITIALIZED
BY DEF Fulfils, Covered, Meets

\* Notices order nothing.
LEMMA ComposedMeets ==
    ASSUME NEW s, NEW script, NEW p, NEW q, NEW r, NEW X, NEW D, Composed(s, script, p, q, r, X, D)
    PROVE  /\ IsSeq(script) /\ \A m \in Range(script) : Built(m)
           /\ Meets(s, Range(script), WantsOf(s, FinalDict(s), X))
<1> DEFINE W == WantsOf(s, FinalDict(s), X)
<1>1. /\ p \in Notices /\ r \in Notices /\ script = (p \o q) \o r
      /\ Fulfils(s, q, W, D)
  BY DEF Composed
<1> HIDE DEF W
<1>2. IsSeq(p) /\ IsSeq(q) /\ IsSeq(r)
  BY <1>1, NoticeIs, FulfilsIs
<1>3. IsSeq(p \o q) /\ Range(p \o q) = Range(p) \cup Range(q)
  BY <1>2, RangeConcat
<1>4. IsSeq(script) /\ Range(script) = Range(p) \cup Range(q) \cup Range(r)
  <2>1. IsSeq((p \o q) \o r) /\ Range((p \o q) \o r) = Range(p \o q) \cup Range(r)
    BY <1>2, <1>3, RangeConcat
  <2> QED
    BY <1>1, <1>3, <2>1
<1>5. \A n \in Notices : \A m \in Range(n) : Built(m) /\ m.type = P4T_CTRL_INITIALIZED
  BY InitializedIs, RangeOf DEF Notices
<1>6. \A m \in Range(script) : m \in Range(q) \/ (Built(m) /\ m.type = P4T_CTRL_INITIALIZED)
  BY <1>1, <1>4, <1>5
<1>7. \A m \in Range(q) : m \in Range(script) /\ Built(m)
  BY <1>1, <1>4, FulfilsIs
<1>8. P4T_CTRL_INITIALIZED # P4T_ADD_TABLE_ENTRY
  BY DEF P4T_CTRL_INITIALIZED, P4T_ADD_TABLE_ENTRY
<1>9. Meets(s, Range(q), W)
  BY <1>1, FulfilsIs
<1>10. Meets(s, Range(script), W)
  BY <1>6, <1>7, <1>8, <1>9 DEF Meets
<1> QED
  BY <1>4, <1>6, <1>7, <1>10 DEF W

\* launch_backend: the controller goes through its configuration.
LEMMA LaunchFound ==
    ASSUME IInv, WellMatched(setup), Held, launch_backend, listening, listening'
    PROVE  Held'
<1> DEFINE P == Pending
           W == WantsOf(setup, FinalDict(setup), GoneThrough(setup, heard'))
<1>1. /\ mpc = "connect" /\ ctrl_is_initialized' = FALSE /\ Context
      /\ UNCHANGED <<setup, idx, case, tables, learned, added>>
      /\ ~MustDie /\ send_p4_msg(Script)
      /\ dict' = IF setup.app = "l2fwd" THEN l2fwd_app.dict ELSE dict
      /\ heard' = IF setup.app = "l2fwd" /\ conns > 0 THEN << >> ELSE Lines(setup)
      /\ conns' = conns + 1 /\ mpc' = "wait"
  BY DEF launch_backend, Held
<1>2. /\ IsSeq(chan) /\ conns \in Nat /\ learned = {} /\ Listens(setup) /\ setup.big \in BOOLEAN
      /\ IsSeq(added) /\ Len(added) \in Nat
  BY <1>1, NotesAre DEF Context, WellMatched
<1>3. PICK p, q, r, D :
         /\ Composed(setup, Script, p, q, r, GoneThrough(setup, heard'), D)
         /\ AllDefaults(setup) # {} =>
              D = IF setup.app = "l2fwd" /\ conns # 0 THEN {} ELSE AllDefaults(setup)
  <2>1. heard' = NextHeard
    BY <1>1 DEF NextHeard
  <2> QED
    BY <1>1, <1>2, <2>1, ScriptIs
<1>4. /\ IsSeq(Script) /\ Meets(setup, Range(Script), W)
      /\ \A m \in Range(Script) : Built(m)
  BY <1>3, ComposedMeets
<1>5. IsSeq(chan') /\ Extended(P, Pending', Script)
  <2>1. \A i \in 1 .. Len(Script) : Built(Script[i])
    <3>1. DOMAIN Script = 1 .. Len(Script)
      BY <1>4 DEF IsSeq
    <3> QED
      BY <1>4, <3>1 DEF Range
  <2>2. setup' = setup
    BY <1>1
  <2> QED
    BY <1>1, <1>2, <1>4, <2>1, <2>2, SendExtends
<1>6. Len(P) = Len(chan) /\ Len(P) \in Nat
  BY <1>2, PendingIs
<1>7. Context'
  <2>1. setup.app = "l2fwd" => dict' = FinalDict(setup)
    BY <1>1 DEF FinalDict, l2fwd_app
  <2>2. heard' \in {<< >>, Lines(setup)}
    BY <1>1
  <2>3. Shaped(setup, tables)
    BY <1>1 DEF Context
  <2>4. /\ Listens(setup)' /\ conns' \in Nat /\ conns' # 0
        /\ learned' \subseteq setup'.digests /\ Shaped(setup', tables')
    BY <1>1, <1>2, <2>3
  <2> QED
    BY <1>1, <1>5, <2>1, <2>2, <2>4 DEF Context
<1>8. Answered(setup, added, Pending', W, Len(added), Len(P))
  <2>1. PICK k, j : Answered(setup, added, P, WantedSoFar, k, j)
    BY DEF Held
  <2> HIDE DEF P, W
  <2> QED
    BY <1>2, <1>4, <1>5, <1>6, <2>1, AnsweredAnew
<1>9. WantedSoFar' = W
  <2>1. Learned({}) = {}
    BY DEF Learned
  <2> QED
    BY <1>1, <1>2, <2>1 DEF WantedSoFar
<1>10. Settled(setup, tables, Pending', TRUE, FALSE)
  <2>1. CASE AllDefaults(setup) = {}
    BY <2>1, SettledAnyway
  <2>2. CASE AllDefaults(setup) # {}
    <3>1. /\ p = << >> /\ r \in Notices /\ Script = (p \o q) \o r
          /\ Fulfils(setup, q, WantsOf(setup, FinalDict(setup), GoneThrough(setup, heard')), D)
      BY <1>3, <2>2 DEF Composed
    <3>2. /\ IsSeq(q) /\ IsSeq(r) /\ DefaultsOf(Range(q)) = D
          /\ \A m \in Range(q) : m.type # P4T_CTRL_INITIALIZED
      BY <3>1, FulfilsIs, NoticeIs
    <3>3. Script = q \o r
      BY <3>1, <3>2, NothingBefore
    <3>4. D \subseteq AllDefaults(setup)
      BY <1>3, <2>2
    <3>5. Settled(setup, tables, P, conns > 0, IsConnected)
      BY DEF Held
    <3>6. IsConnected \/ (Len(P) = 0 /\ D = AllDefaults(setup))
      <4>1. CASE conns = 0
        <5>1. chan = << >>
          BY <1>1, <4>1 DEF Context
        <5> QED
          BY <1>3, <1>6, <2>2, <4>1, <5>1
      <4>2. CASE conns # 0
        BY <1>1, <1>2, <4>2 DEF IsConnected
      <4> QED
        BY <4>1, <4>2
    <3>7. Extended(P, Pending', q \o r)
      BY <1>5, <3>3
    <3>8. \A d, e \in AllDefaults(setup) : d[1] = e[1] => d = e
      BY DefaultsDiffer
    <3> HIDE DEF P
    <3> QED
      BY <3>1, <3>2, <3>4, <3>5, <3>6, <3>7, <3>8, SettledAnew
  <2> QED
    BY <2>1, <2>2
<1>11. (conns' > 0) = TRUE /\ IsConnected' = FALSE
  BY <1>1, <1>2 DEF IsConnected
<1>12. Settled(setup', tables', Pending', conns' > 0, IsConnected')
  BY <1>1, <1>10, <1>11
<1>13. \E k, j \in Nat : Answered(setup', added', Pending', WantedSoFar', k, j)
  BY <1>1, <1>2, <1>6, <1>8, <1>9
<1> QED
  BY <1>7, <1>12, <1>13 DEF Held

\* The controller answers a digest.
LEMMA DigestFound ==
    ASSUME IInv, WellMatched(setup), Held, Digest
    PROVE  Held'
<1> DEFINE P == Pending
<1>1. PICK g \in setup.digests : send_p4_msg(dhf(g)) /\ learned' = learned \cup {g}
  BY DEF Digest
<1>2. /\ UNCHANGED <<setup, listening, conns, dict, main, tables, heard, added>>
      /\ UNCHANGED <<ctrl_is_initialized, mpc, idx, case>>
      /\ mpc = "run" /\ conns > 0 /\ Context
  BY DEF Digest, Held, main
<1>3. /\ IsSeq(chan) /\ conns \in Nat /\ setup.big \in BOOLEAN /\ conns # 0
      /\ setup.app = "l2fwd" => dict = FinalDict(setup)
  BY <1>2 DEF Context, WellMatched
<1> DEFINE q == dhf(g)
           W == WantsOf(setup, FinalDict(setup), Learned({g}))
<1>4. Fulfils(setup, q, W, {})
  BY <1>3, DigestFulfils
<1>5. /\ IsSeq(q) /\ Meets(setup, Range(q), W) /\ DefaultsOf(Range(q)) = {}
      /\ \A m \in Range(q) : Built(m) /\ m.type # P4T_CTRL_INITIALIZED
  BY <1>4, FulfilsIs
<1>6. \A m \in Range(q) : m.type # P4T_CTRL_INITIALIZED /\ m.type # P4T_SET_DEFAULT_ACTION
  BY <1>5 DEF DefaultsOf
<1>7. IsSeq(chan') /\ Extended(P, Pending', q)
  <2>1. \A i \in 1 .. Len(q) : Built(q[i])
    <3>1. DOMAIN q = 1 .. Len(q)
      BY <1>5 DEF IsSeq
    <3> QED
      BY <1>5, <3>1 DEF Range
  <2>2. setup' = setup
    BY <1>2
  <2> HIDE DEF q, P
  <2> QED
    BY <1>1, <1>3, <1>5, <2>1, <2>2, SendExtends DEF q, P
<1>8. WantedSoFar' = WantedSoFar \cup W
  <2>1. Learned(learned \cup {g}) = Learned(learned) \cup Learned({g})
    BY DEF Learned
  <2> DEFINE X == GoneThrough(setup, heard) \cup Learned(learned)
             Y == Learned({g})
             d == FinalDict(setup)
  <2>2. WantsOf(setup, d, X \cup Y) = WantsOf(setup, d, X) \cup WantsOf(setup, d, Y)
    <3> HIDE DEF X, Y
    <3> QED
      BY DEF WantsOf
  <2>3. GoneThrough(setup, heard) \cup Learned(learned \cup {g}) = X \cup Y
    BY <2>1
  <2>4. WantedSoFar' = WantsOf(setup, d, GoneThrough(setup, heard) \cup Learned(learned \cup {g}))
    BY <1>1, <1>2 DEF WantedSoFar
  <2> QED
    BY <2>2, <2>3, <2>4 DEF WantedSoFar
<1>9. PICK k, j \in Nat : Answered(setup, added, P, WantedSoFar, k, j)
  BY DEF Held
<1>10. Answered(setup, added, Pending', WantedSoFar \cup W, k, j)
  <2> HIDE DEF P, W, q
  <2> QED
    BY <1>5, <1>7, <1>9, AnsweredMore
<1>11. Settled(setup, tables, Pending', conns > 0, IsConnected)
  <2>1. Settled(setup, tables, P, conns > 0, IsConnected)
    BY DEF Held
  <2> HIDE DEF P, q
  <2> QED
    BY <1>5, <1>6, <1>7, <2>1, SettledMore
<1>12. IsConnected' = IsConnected
  BY <1>2 DEF IsConnected
<1>13. Context'
  <2>1. learned' \subseteq setup.digests
    BY <1>1, <1>2 DEF Context
  <2>2. Shaped(setup, tables)
    BY <1>2 DEF Context
  <2>3. Listens(setup)' /\ Shaped(setup', tables') /\ heard' \in {<< >>, Lines(setup)'}
    BY <1>2, <2>2 DEF Context
  <2> QED
    BY <1>2, <1>3, <1>7, <2>1, <2>3 DEF Context
<1>14. \E k_1, j_1 \in Nat : Answered(setup', added', Pending', WantedSoFar', k_1, j_1)
  BY <1>2, <1>8, <1>9, <1>10
<1>15. Settled(setup', tables', Pending', conns' > 0, IsConnected')
  BY <1>2, <1>11, <1>12
<1> QED
  BY <1>13, <1>14, <1>15 DEF Held

\* flush_tables: nothing is wanted any more.
LEMMA FlushFound ==
    ASSUME IInv, WellMatched(setup), Held, flush_tables
    PROVE  Held'
<1> DEFINE P == Pending
<1>1. /\ mpc = "run" /\ Context /\ mpc' \in {"init_tables", "end"}
      /\ tables' = [name \in DOMAIN tables |-> flush_table(tables[name])]
      /\ heard' = << >> /\ learned' = {} /\ added' = << >>
      /\ UNCHANGED <<setup, controller, chan, ctrl_is_initialized, idx>>
      /\ UNCHANGED <<listening, conns, dict, made>>
  BY DEF flush_tables, Held, controller
<1>2. /\ IsSeq(chan) /\ conns \in Nat /\ conns > 0 /\ conns # 0 /\ Shaped(setup, tables)
      /\ IsSeq(added) /\ Len(added) \in Nat
  BY <1>1, NotesAre DEF Context
<1>3. DOMAIN tables = Names(setup) /\ \A name \in Names(setup) : IsTable(tables[name])
  BY <1>2, TablesAre DEF Shaped
<1>4. /\ tables' = [name \in Names(setup) |-> tables'[name]]
      /\ \A name \in Names(setup) : Kept(tables[name], tables'[name])
  BY <1>1, <1>3, FlushKept
<1>5. Shaped(setup, tables') /\ \A d \in Expected(setup) : IsDone(tables, d) => IsDone(tables', d)
  BY <1>2, <1>4, ShapedKept
<1>6. Pending' = P /\ Len(P) \in Nat
  BY <1>1, <1>2, PendingIs DEF Pending
<1>7. WantedSoFar' = {}
  BY <1>1, NothingWanted DEF WantedSoFar
<1>8. Answered(setup, << >>, P, {}, 0, Len(P))
  <2>1. PICK k, j : Answered(setup, added, P, WantedSoFar, k, j)
    BY DEF Held
  <2>2. Len(<< >>) = 0 /\ Len(<< >>) \in Nat /\ \A i \in 1 .. Len(<< >>) : FALSE
    OBVIOUS
  <2> HIDE DEF P
  <2>3. Answered(setup, << >>, P, {}, Len(<< >>), Len(P))
    BY <1>2, <1>6, <2>1, <2>2, AnsweredNone
  <2> QED
    BY <2>2, <2>3
<1>9. Settled(setup, tables', P, conns > 0, IsConnected)
  <2>1. Settled(setup, tables, P, conns > 0, IsConnected)
    BY DEF Held
  <2> HIDE DEF P
  <2> QED
    BY <1>5, <2>1, SettledKept
<1>10. IsConnected' = IsConnected
  BY <1>1 DEF IsConnected
<1>11. Context'
  <2>1. Listens(setup)' /\ Shaped(setup', tables')
    BY <1>1, <1>5 DEF Context
  <2> QED
    BY <1>1, <1>2, <2>1 DEF Context
<1>12. Settled(setup', tables', Pending', conns' > 0, IsConnected')
  BY <1>1, <1>6, <1>9, <1>10
<1>13. \E k, j \in Nat : Answered(setup', added', Pending', WantedSoFar', k, j)
  BY <1>1, <1>6, <1>7, <1>8
<1> QED
  BY <1>11, <1>12, <1>13 DEF Held
-----------------------------------------------------------------------------
\* Steps of the main thread that send and take no message and note no entry.
LEMMA StillHeld ==
    ASSUME IInv, Held, UNCHANGED <<setup, conns, chan, heard, learned, added>>, Context',
           IsConnected' = IsConnected,
           \A d \in Expected(setup) : IsDone(tables, d) => IsDone(tables', d)
    PROVE  Held'
<1> DEFINE P == Pending
<1>1. IsSeq(chan) /\ Context
  BY DEF Held, Context
<1>2. Pending' = P
  BY DEF Pending
<1>3. WantedSoFar' = WantedSoFar
  BY DEF WantedSoFar
<1>4. Settled(setup, tables', P, conns > 0, IsConnected)
  <2>1. Settled(setup, tables, P, conns > 0, IsConnected)
    BY DEF Held
  <2> HIDE DEF P
  <2> QED
    BY <2>1, SettledKept
<1>5. Settled(setup', tables', Pending', conns' > 0, IsConnected')
  BY <1>2, <1>4
<1>6. \E k, j \in Nat : Answered(setup', added', Pending', WantedSoFar', k, j)
  BY <1>2, <1>3 DEF Held
<1> QED
  BY <1>5, <1>6 DEF Held

\* launch_backend returns.
LEMMA LaunchReturnsFound ==
    ASSUME IInv, Held, LaunchReturns
    PROVE  Held'
<1>1. /\ mpc = "wait" /\ ctrl_is_initialized /\ mpc' = "defaults" /\ Context
      /\ UNCHANGED <<setup, chan, ctrl_is_initialized, idx, case, tables, heard, learned, added>>
      /\ UNCHANGED <<listening, conns, dict, made>>
  BY DEF LaunchReturns, Held, controller, history
<1>2. IsConnected' = IsConnected
  BY <1>1 DEF IsConnected
<1>3. Shaped(setup, tables)' /\ Listens(setup)'
  BY <1>1 DEF Context
<1>4. Context'
  BY <1>1, <1>3 DEF Context
<1> QED
  BY <1>1, <1>2, <1>4, StillHeld

\* A running switch is connected, and the defaults that are expected are set.
LEMMA AllDone ==
    ASSUME Held, mpc \notin {"init_tables", "connect", "wait"}
    PROVE  /\ conns # 0 /\ conns > 0 /\ IsConnected = TRUE
           /\ \A d \in Expected(setup) : IsDone(tables, d)
<1>1. conns # 0 /\ conns > 0
  BY DEF Held, Context
<1>2. IsConnected = TRUE
  BY <1>1 DEF IsConnected
<1> QED
  BY <1>1, <1>2 DEF Held, Settled

\* A default is missing only where none is expected.
LEMMA CheckDefaultFound ==
    ASSUME IInv, Held, CheckDefault
    PROVE  Held'
<1>1. /\ mpc = "defaults" /\ Context
      /\ IF HasNoDefault(tables[Program[idx].name]) THEN mpc' = "setdefault" /\ UNCHANGED idx
         ELSE NextTable(idx)
      /\ UNCHANGED <<setup, chan, ctrl_is_initialized, case, tables, heard, learned, added>>
      /\ UNCHANGED <<listening, conns, dict, made>>
  BY DEF CheckDefault, Held, controller, history
<1>2. conns # 0 /\ \A d \in Expected(setup) : IsDone(tables, d)
  BY <1>1, AllDone
<1>3. mpc' \in {"defaults", "run", "setdefault"}
  BY <1>1 DEF NextTable
<1>4. IsConnected' = IsConnected
  BY <1>1, <1>3 DEF IsConnected
<1>5. mpc' = "setdefault" => \A d \in Expected(setup') : d[1] # Program'[idx'].name
  <2> SUFFICES ASSUME mpc' = "setdefault", NEW d \in Expected(setup)
               PROVE  d[1] # Program[idx].name /\ idx' = idx
    BY <1>1 DEF Program
  <2>1. ~NextTable(idx)
    BY DEF NextTable
  <2>2. tables[Program[idx].name].default_val = None /\ idx' = idx
    BY <1>1, <2>1 DEF HasNoDefault
  <2> QED
    BY <1>2, <2>2 DEF IsDone
<1>6. Shaped(setup, tables)' /\ Listens(setup)'
  BY <1>1 DEF Context
<1>7. Context'
  BY <1>1, <1>2, <1>3, <1>5, <1>6 DEF Context
<1> QED
  BY <1>1, <1>4, <1>7, StillHeld

\* The program's own default is set there.
LEMMA SetdefaultFound ==
    ASSUME IInv, Held, setdefault
    PROVE  Held'
<1> DEFINE x == Program[idx].name
           e == Entry(Program[idx].default, << >>)
<1>1. /\ mpc = "setdefault" /\ Context
      /\ tables' = [tables EXCEPT ![x] = table_set_default_action(@, e)]
      /\ NextTable(idx)
      /\ UNCHANGED <<setup, chan, ctrl_is_initialized, case, heard, learned, added>>
      /\ UNCHANGED <<listening, conns, dict, made>>
  BY DEF setdefault, Held, controller, history
<1>2. mpc' \in {"defaults", "run"}
  BY <1>1 DEF NextTable
<1>3. IsConnected' = IsConnected
  BY <1>1, <1>2 DEF IsConnected
<1>4. Shaped(setup, tables) /\ \A d \in Expected(setup) : d[1] # x
  BY <1>1 DEF Context
<1>5. \A name \in Names(setup) : IsTable(tables[name])
  BY <1>4, TablesAre
<1> HIDE DEF x, e
<1>6. Shaped(setup, tables') /\ \A name \in Names(setup) : name # x => tables'[name] = tables[name]
  <2>1. DefaultIn(tables, tables', x, e)
    BY <1>1 DEF DefaultIn
  <2>2. Shaped(setup, tables)
    BY <1>4
  <2> QED
    BY ONLY <1>5, <2>1, <2>2, ShapedSet
<1>7. \A d \in Expected(setup) : IsDone(tables, d) => IsDone(tables', d)
  <2> TAKE d \in Expected(setup)
  <2>1. d[1] \in Names(setup) /\ d[1] # x
    BY <1>4 DEF Expected, Names
  <2> QED
    BY <1>6, <2>1 DEF IsDone
<1>8. Shaped(setup', tables') /\ Listens(setup)'
  BY <1>1, <1>6 DEF Context
<1>9. conns # 0
  BY <1>1 DEF Context
<1>10. Context'
  BY <1>1, <1>2, <1>8, <1>9 DEF Context
<1> QED
  BY <1>1, <1>3, <1>7, <1>10, StillHeld
-----------------------------------------------------------------------------
\* An entry is a record, not the absence of one.
NoneIsNoEntry == \A action, params : Entry(action, params) # None

\* Taking the first message.
LEMMA TakenIs ==
    ASSUME IsSeq(chan), chan # << >>, chan' = Tail(chan), setup' = setup
    PROVE  /\ IsSeq(chan') /\ Shortened(Pending, Pending')
           /\ Pending[1] = handle_p4_msg(Head(chan), setup.big)
<1> DEFINE n == Len(chan)
<1>1. n \in Nat \ {0} /\ IsSeq(chan') /\ Len(chan') = n - 1 /\ Head(chan) = chan[1]
      /\ \A i \in 1 .. n - 1 : chan'[i] = chan[i + 1]
  <2>1. PICK S : chan \in Seq(S)
    BY DEF IsSeq
  <2>2. chan' \in Seq(S)
    BY <2>1
  <2>3. IsSeq(chan')
    <3>1. Len(chan') \in Nat /\ chan' = [i \in 1 .. Len(chan') |-> chan'[i]]
      <4>1. Len(chan') \in Nat /\ chan' \in [1 .. Len(chan') -> S]
        BY <2>2, LenProperties
      <4> QED
        BY <4>1
    <3> DEFINE l == Len(chan')
    <3>2. IsSeq([i \in 1 .. l |-> chan'[i]])
      BY <3>1, ListIs
    <3> QED
      BY <3>1, <3>2
  <2> QED
    BY <2>1, <2>3
<1>2. /\ Len(Pending) = n
      /\ \A i \in 1 .. n : Pending[i] = handle_p4_msg(chan[i], setup.big)
  BY PendingIs
<1>3. /\ Len(Pending') = n - 1
      /\ \A i \in 1 .. n - 1 : Pending'[i] = handle_p4_msg(chan'[i], setup.big)
  <2>1. Len(chan') \in Nat
    BY <1>1
  <2>2. Pending' = [i \in 1 .. n - 1 |-> handle_p4_msg(chan'[i], setup.big)]
    BY <1>1 DEF Pending, Handled
  <2> QED
    BY <1>1, <2>1, <2>2, ListIs
<1> HIDE DEF n
<1>4. \A i \in 1 .. n - 1 : Pending'[i] = Pending[i + 1]
  <2> TAKE i \in 1 .. n - 1
  <2>1. i + 1 \in 1 .. n
    BY <1>1
  <2> QED
    BY <1>1, <1>2, <1>3, <2>1
<1>5. Pending[1] = handle_p4_msg(Head(chan), setup.big)
  BY <1>1, <1>2
<1>6. Shortened(Pending, Pending')
  BY <1>1, <1>2, <1>3, <1>4 DEF Shortened
<1> QED
  BY <1>1, <1>5, <1>6

\* What is wanted so far is what lines and digests can want.
LEMMA WantedAreWants ==
    ASSUME WellMatched(setup), Context
    PROVE  \A w \in WantedSoFar : IsWant(setup, w)
<1> SUFFICES ASSUME NEW w \in WantedSoFar PROVE IsWant(setup, w)
  OBVIOUS
<1>1. PICK x \in GoneThrough(setup, heard) \cup Learned(learned) : w \in Wanted(setup, FinalDict(setup), x)
  BY DEF WantedSoFar, WantsOf
<1>2. CASE x \in GoneThrough(setup, heard)
  <2>1. heard = Lines(setup)
    BY <1>2, NoLines DEF Context
  <2>2. x \in Range(Lines(setup)) /\ x.ok
    BY <1>2, <2>1 DEF GoneThrough, Range
  <2> QED
    BY <1>1, <2>2, LinesWant
<1>3. CASE x \in Learned(learned)
  <2>1. \E g \in setup.digests : /\ g.name # "test_learn_ip" /\ x.code = "DIGEST"
                                 /\ x.key = g.key /\ x.port = g.port
    BY <1>3 DEF Learned, Context
  <2> QED
    BY <1>1, <2>1, LinesWant
<1> QED
  BY <1>1, <1>2, <1>3

\* A table of the program by its name.
LEMMA ConfigOf ==
    ASSUME setup \in Setups
    PROVE  /\ \A t \in Range(setup.program) : Config(t.name) = t /\ t.name \in Names(setup)
           /\ \A name \in Names(setup) : /\ Config(name) \in Range(setup.program)
                                         /\ Config(name).name = name
<1>1. \A t \in Range(setup.program) : Config(t.name) = t /\ t.name \in Names(setup)
  BY ConfigIs DEF Range, Program
<1>2. \A name \in Names(setup) : \E t \in Range(setup.program) : t.name = name
  BY DEF Names
<1> QED
  BY <1>1, <1>2

\* A want with one action of its table has all its actions there.
LEMMA WantKnown ==
    ASSUME setup \in Setups, WellMatched(setup), NEW w, IsWant(setup, w), Asked(setup, w)
    PROVE  w.table \in Names(setup) /\ w.actions \subseteq Config(w.table).actions
<1>1. PICK t \in Range(setup.program) : t.name = w.table /\ w.actions \cap t.actions # {}
  BY DEF Asked
<1>2. Config(w.table) = t /\ w.table \in Names(setup)
  BY <1>1, ConfigOf
<1>3. CASE \E a : w.actions = {a}
  BY <1>1, <1>2, <1>3
<1>4. CASE setup.app = "smgw" /\ w.table = "m_filter_0" /\ w.actions = {".NoAction", ".drop"}
  <2>1. TableFits(setup, t)
    BY DEF WellMatched
  <2>2. {".NoAction", ".drop"} \subseteq t.actions
    BY <1>1, <1>4, <2>1 DEF TableFits
  <2> QED
    BY <1>2, <1>4, <2>2
<1> QED
  BY <1>3, <1>4 DEF IsWant

\* The note of an entry serves what its message orders.
LEMMA NoteServes ==
    ASSUME setup \in Setups, NEW m, m.table \in Names(setup), NEW v, Orders(setup, m, v)
    PROVE  LET config == Config(m.table)
           IN  Serves(setup, Noted(m.table, setup_key(config, m.matches[1].bitmap),
                                   PrefixLength(config, m.matches[1]), Entry(m.action, m.params)), v)
<1> DEFINE config == Config(m.table)
           key == setup_key(config, m.matches[1].bitmap)
           depth == PrefixLength(config, m.matches[1])
           a == Noted(m.table, key, depth, Entry(m.action, m.params))
<1>1. \A t \in Range(setup.program) : t.name = v.table => t = config
  BY ConfigOf DEF Orders
<1>2. \A t \in Range(setup.program) : t.name = v.table =>
        /\ key = KeyOf(setup, t, v.key)
        /\ t.type = "exact" \/ (t.type = "lpm" /\ Deep(t, depth))
  <2> SUFFICES ASSUME NEW t \in Range(setup.program), t.name = v.table
               PROVE  /\ key = KeyOf(setup, t, v.key)
                      /\ t.type = "exact" \/ (t.type = "lpm" /\ Deep(t, depth))
    OBVIOUS
  <2>1. /\ setup_key(t, m.matches[1].bitmap) = KeyOf(setup, t, v.key)
        /\ t.type = "exact" \/ (t.type = "lpm" /\ Deep(t, PrefixLength(t, m.matches[1])))
    BY DEF Orders
  <2>2. t = config
    BY <1>1
  <2> QED
    BY <2>1, <2>2
<1> HIDE DEF config, key, depth
<1>3. /\ a.table = m.table /\ a.key = key /\ a.depth = depth
      /\ a.entry.id = m.action /\ a.entry.params = m.params
  BY DEF Noted, Entry
<1> HIDE DEF a
<1>4. m.table = v.table /\ m.action \in v.actions /\ (v.param = None \/ m.params[1] = v.param)
  BY DEF Orders
<1>5. Serves(setup, a, v)
  BY <1>2, <1>3, <1>4 DEF Serves
<1> QED
  BY <1>5 DEF a, key, depth, config

\* A message is taken.
LEMMA TakenHeld ==
    ASSUME IInv, Held, chan # << >>, chan' = Tail(chan),
           UNCHANGED <<setup, conns, dict, mpc, idx, heard, learned>>,
           ctrl_is_initialized' => ctrl_is_initialized \/ Pending[1].type = P4T_CTRL_INITIALIZED,
           Shaped(setup, tables'),
           \A d \in Expected(setup) : IsDone(tables, d) => IsDone(tables', d),
           \A d \in Expected(setup) : IsFor(Pending[1], d) => IsDone(tables', d),
           NEW k \in Nat, NEW j \in Nat, Answered(setup, added', Pending', WantedSoFar, k, j)
    PROVE  Held'
<1> DEFINE P == Pending
<1>1. IsSeq(chan) /\ Context
  BY DEF Held, Context
<1>2. IsSeq(chan') /\ Shortened(P, Pending')
  BY <1>1, TakenIs
<1>3. conns # 0 /\ conns > 0
  BY <1>1 DEF Context
<1>4. IsConnected' => IsConnected \/ P[1].type = P4T_CTRL_INITIALIZED
  BY DEF IsConnected
<1>5. Settled(setup, tables', Pending', conns > 0, IsConnected')
  <2>1. Settled(setup, tables, P, conns > 0, IsConnected)
    BY DEF Held
  <2>2. \A d \in Expected(setup) : IsFor(P[1], d) => IsDone(tables', d)
    OBVIOUS
  <2> HIDE DEF P
  <2> QED
    BY <1>2, <1>4, <2>1, <2>2, SettledTaken
<1>6. Settled(setup', tables', Pending', conns' > 0, IsConnected')
  BY <1>5
<1>7. WantedSoFar' = WantedSoFar
  BY DEF WantedSoFar
<1>8. Shaped(setup', tables') /\ Listens(setup)'
  BY <1>1 DEF Context
<1>9. mpc' = "setdefault" => \A d \in Expected(setup') : d[1] # Program'[idx'].name
  BY <1>1 DEF Context, Program
<1>10. Context'
  BY <1>1, <1>2, <1>3, <1>8, <1>9 DEF Context
<1>11. \E k_1, j_1 \in Nat : Answered(setup', added', Pending', WantedSoFar', k_1, j_1)
  BY <1>7
<1> QED
  BY <1>6, <1>10, <1>11 DEF Held
-----------------------------------------------------------------------------
\* A message that adds no entry and sets no default, or is skipped, or sets one.
LEMMA WithoutEntry ==
    ASSUME IInv, Held, chan # << >>, chan' = Tail(chan),
           UNCHANGED <<setup, conns, dict, mpc, idx, heard, learned, added>>,
           ctrl_is_initialized' => ctrl_is_initialized \/ Pending[1].type = P4T_CTRL_INITIALIZED,
           Shaped(setup, tables'),
           \A d \in Expected(setup) : IsDone(tables, d) => IsDone(tables', d),
           \A d \in Expected(setup) : IsFor(Pending[1], d) => IsDone(tables', d),
           \A w \in WantedSoFar : Asked(setup, w) => ~Orders(setup, Pending[1], w)
    PROVE  Held'
<1> DEFINE P == Pending
<1>1. PICK k, j \in Nat : Answered(setup, added, P, WantedSoFar, k, j)
  BY DEF Held
<1>2. Shortened(P, Pending') /\ Len(added) \in Nat
  BY TakenIs, NotesAre DEF Held, Context
<1>3. \A w \in WantedSoFar : Asked(setup, w) => ~Orders(setup, P[1], w)
  OBVIOUS
<1> HIDE DEF P
<1>4. Answered(setup, added, Pending', WantedSoFar, k, IF j = 0 THEN 0 ELSE j - 1)
  BY <1>1, <1>2, <1>3, AnsweredWithout
<1> DEFINE l == IF j = 0 THEN 0 ELSE j - 1
<1>5. l \in Nat
  OBVIOUS
<1>6. Answered(setup, added', Pending', WantedSoFar, k, l)
  BY <1>4
<1> HIDE DEF l
<1> QED
  BY <1>5, <1>6, TakenHeld

\* ctrl_add_table_entry.
LEMMA AddEntryFound ==
    ASSUME IInv, WellMatched(setup), Held, chan # << >>, chan' = Tail(chan),
           UNCHANGED <<setup, conns, dict, mpc, idx, heard, learned>>,
           ctrl_is_initialized' => ctrl_is_initialized \/ Pending[1].type = P4T_CTRL_INITIALIZED,
           Pending[1].type = P4T_ADD_TABLE_ENTRY, ctrl_add_table_entry(Pending[1])
    PROVE  Held'
<1> DEFINE P == Pending
           m == P[1]
<1>1. Context /\ setup \in Setups /\ IsSeq(added) /\ Len(added) \in Nat
  BY NotesAre DEF Held
<1>2. chan # << >> /\ IsSeq(chan) /\ conns # 0 /\ Shaped(setup, tables)
  BY <1>1 DEF Context
<1>3. DOMAIN tables = Names(setup) /\ \A name \in Names(setup) : IsTable(tables[name])
  BY <1>2, TablesAre DEF Shaped
<1>4. \A d : ~IsFor(m, d)
  BY Types DEF IsFor
<1>5. Shortened(P, Pending')
  BY <1>2, TakenIs
<1>6. CASE m.table \notin DOMAIN tables \/ ~setup_entry(m)
  <2>1. UNCHANGED <<tables, added>>
    BY <1>6 DEF ctrl_add_table_entry
  <2>2. \A w \in WantedSoFar : Asked(setup, w) => ~Orders(setup, m, w)
    <3> SUFFICES ASSUME NEW w \in WantedSoFar, Asked(setup, w), Orders(setup, m, w) PROVE FALSE
      OBVIOUS
    <3>1. IsWant(setup, w)
      BY <1>1, WantedAreWants
    <3>2. w.table \in Names(setup) /\ w.actions \subseteq Config(w.table).actions
      BY <1>1, <3>1, WantKnown
    <3>3. m.table = w.table /\ m.action \in w.actions
      BY DEF Orders
    <3> QED
      BY <1>3, <1>6, <3>2, <3>3 DEF setup_entry
  <2> QED
    BY <1>2, <1>4, <2>1, <2>2, WithoutEntry
<1>7. CASE ~(m.table \notin DOMAIN tables \/ ~setup_entry(m))
  <2> DEFINE config == Config(m.table)
             key == setup_key(config, m.matches[1].bitmap)
             depth == PrefixLength(config, m.matches[1])
             entry == Entry(m.action, m.params)
             a == Noted(m.table, key, depth, entry)
  <2>1. m.table \in Names(setup)
    BY <1>3, <1>7
  <2>2. /\ tables' = [tables EXCEPT ![m.table] = TableAdd(@, key, depth, entry)]
        /\ added' = Append(added, a)
    BY <1>7 DEF ctrl_add_table_entry
  <2>3. a.table = m.table /\ a.entry.id = m.action
    BY DEF Noted, Entry
  <2>4. \A v : Orders(setup, m, v) => Serves(setup, a, v)
    BY <1>1, <2>1, NoteServes
  <2>5. /\ tables' = [name \in Names(setup) |-> tables'[name]]
        /\ \A name \in Names(setup) :
             tables'[name] = IF name = m.table THEN TableAdd(tables[name], key, depth, entry)
                             ELSE tables[name]
    BY <1>3, <2>2
  <2> HIDE DEF key, depth, entry, a, config
  <2>6. \A name \in Names(setup) : Kept(tables[name], tables'[name])
    <3> TAKE name \in Names(setup)
    <3>1. CASE name = m.table
      BY <1>3, <2>5, <3>1, TableAddKept
    <3>2. CASE name # m.table
      BY <2>5, <3>2 DEF Kept
    <3> QED
      BY <3>1, <3>2
  <2>7. /\ Shaped(setup, tables')
        /\ \A d \in Expected(setup) : IsDone(tables, d) => IsDone(tables', d)
    BY <1>2, <2>5, <2>6, ShapedKept
  <2>8. Grown(added, added', Len(added), a) /\ Len(added') = Len(added) + 1 /\ Len(added') \in Nat
    <3>1. IsSeq(added') /\ Grown(added, added', Len(added), a)
      BY <1>1, <2>2, AppendGrows
    <3>2. DOMAIN added' = 1 .. Len(added')
      BY <3>1 DEF IsSeq
    <3>3. Len(added') \in Nat
      BY <3>1 DEF IsSeq
    <3>4. DOMAIN added' = 1 .. Len(added) + 1
      BY <3>1 DEF Grown
    <3> DEFINE l == Len(added)
               n == Len(added')
    <3> HIDE DEF l, n
    <3>5. l \in Nat /\ n \in Nat /\ 1 .. n = 1 .. l + 1
      BY <1>1, <3>2, <3>3, <3>4 DEF l, n
    <3>6. n = l + 1
      <4>1. l + 1 \in 1 .. n
        BY <3>5
      <4>2. n = 0 \/ n \in 1 .. l + 1
        BY <3>5
      <4> QED
        BY <3>5, <4>1, <4>2
    <3> QED
      BY <3>1, <3>5, <3>6 DEF l, n
  <2>9. PICK k, j \in Nat : Answered(setup, added, P, WantedSoFar, k, j)
    BY DEF Held
  <2>10. m.type = P4T_ADD_TABLE_ENTRY
    OBVIOUS
  <2> HIDE DEF P
  <2>11. \E k_1, j_1 \in Nat : Answered(setup, added', Pending', WantedSoFar, k_1, j_1)
    <3>1. CASE j # 0
      <4>1. Answered(setup, added', Pending', WantedSoFar, Len(added'), j - 1)
        BY <1>1, <1>5, <2>3, <2>8, <2>9, <2>10, <3>1, AnsweredOld
      <4> QED
        BY <2>8, <2>9, <3>1, <4>1
    <3>2. CASE j = 0
      <4>1. Answered(setup, added', Pending', WantedSoFar, k, 0)
        BY <1>1, <1>5, <2>3, <2>4, <2>8, <2>9, <2>10, <3>2, AnsweredNew
      <4> QED
        BY <2>9, <4>1
    <3> QED
      BY <3>1, <3>2
  <2>12. PICK k_1, j_1 \in Nat : Answered(setup, added', Pending', WantedSoFar, k_1, j_1)
    BY <2>11
  <2> QED
    BY <1>2, <1>4, <2>7, <2>12, TakenHeld DEF P
<1> QED
  BY <1>6, <1>7

\* ctrl_setdefault.
LEMMA SetDefaultFound ==
    ASSUME NoneIsNoEntry, IInv, WellMatched(setup), Held, chan # << >>, chan' = Tail(chan),
           UNCHANGED <<setup, conns, dict, mpc, idx, heard, learned>>,
           ctrl_is_initialized' => ctrl_is_initialized \/ Pending[1].type = P4T_CTRL_INITIALIZED,
           Pending[1].type = P4T_SET_DEFAULT_ACTION, ctrl_setdefault(Pending[1])
    PROVE  Held'
<1> DEFINE P == Pending
           m == P[1]
           x == m.table
           e == make_set_default_table_entry(m)
<1>1. Context /\ setup \in Setups /\ IsSeq(chan) /\ Shaped(setup, tables)
  <2>1. Context /\ setup \in Setups
    BY NotesAre DEF Held
  <2>2. conns # 0
    BY <2>1 DEF Context
  <2> QED
    BY <2>1, <2>2 DEF Context
<1>2. DOMAIN tables = Names(setup) /\ \A name \in Names(setup) : IsTable(tables[name])
  BY <1>1, TablesAre DEF Shaped
<1>3. /\ added' = added
      /\ tables' = IF x \notin Names(setup) THEN tables
                   ELSE [tables EXCEPT ![x] = table_set_default_action(@, e)]
  BY <1>2 DEF ctrl_setdefault
<1>4. \A w : ~Orders(setup, m, w)
  BY Types DEF Orders
<1>5. \A d \in Expected(setup) : IsFor(m, d) =>
        x = d[1] /\ x \in Names(setup) /\ e # None /\ e.id = d[2]
  <2> SUFFICES ASSUME NEW d \in Expected(setup), IsFor(m, d)
               PROVE  x = d[1] /\ x \in Names(setup) /\ e # None /\ e.id = d[2]
    OBVIOUS
  <2>1. d \in AllDefaults(setup) /\ x = d[1]
    BY DEF Expected, IsFor
  <2>2. PICK t \in Range(setup.program) : t.name = d[1] /\ d[2] \in t.actions
    BY DEF Expected
  <2>3. Config(x) = t /\ x \in Names(setup)
    BY <1>1, <2>1, <2>2, ConfigOf
  <2>4. m.action = d[2]
    <3>1. Settled(setup, tables, P, conns > 0, IsConnected)
      BY DEF Held
    <3>2. Len(P) \in Nat \ {0}
      BY <1>1, TakenIs DEF Shortened
    <3>3. 1 \in 1 .. Len(P)
      BY <3>2
    <3> HIDE DEF P
    <3>4. \A i \in 1 .. Len(P) : \A c \in AllDefaults(setup) : IsFor(P[i], c) => P[i].action = c[2]
      BY <3>1 DEF Settled
    <3> QED
      BY <2>1, <3>3, <3>4
  <2>5. e = Entry(m.action, m.params)
    BY <2>2, <2>3, <2>4 DEF make_set_default_table_entry, setup_entry
  <2>6. e # None /\ e.id = m.action
    <3>1. e # None
      BY <2>5 DEF NoneIsNoEntry
    <3>2. e.id = m.action
      BY <2>5 DEF Entry
    <3> QED
      BY <3>1, <3>2
  <2> QED
    BY <2>1, <2>3, <2>4, <2>6
<1> HIDE DEF P, m, x, e
<1>6. /\ Shaped(setup, tables')
      /\ \A name \in Names(setup) : name # x => tables'[name] = tables[name]
      /\ x \in Names(setup) => tables'[x].default_val = e
  <2>1. CASE x \notin Names(setup)
    BY <1>1, <1>3, <2>1
  <2>2. CASE x \in Names(setup)
    <3>1. DefaultIn(tables, tables', x, e) /\ Shaped(setup, tables)
      BY <1>1, <1>3, <2>2 DEF DefaultIn
    <3> QED
      BY ONLY <1>2, <3>1, ShapedSet
  <2> QED
    BY <2>1, <2>2
<1>7. \A d \in Expected(setup) : IsFor(m, d) => IsDone(tables', d)
  BY <1>5, <1>6 DEF IsDone
<1>8. \A d \in Expected(setup) : IsDone(tables, d) => IsDone(tables', d)
  <2> SUFFICES ASSUME NEW d \in Expected(setup), IsDone(tables, d) PROVE IsDone(tables', d)
    OBVIOUS
  <2>1. CASE d[1] = x
    <3>1. IsFor(m, d)
      BY <2>1 DEF IsFor, m, x, P
    <3> QED
      BY <1>7, <3>1
  <2>2. CASE d[1] # x
    <3>1. d[1] \in Names(setup)
      BY DEF Expected, Names
    <3> QED
      BY <1>6, <2>2, <3>1 DEF IsDone
  <2> QED
    BY <2>1, <2>2
<1>9. /\ \A d \in Expected(setup) : IsFor(Pending[1], d) => IsDone(tables', d)
      /\ \A w \in WantedSoFar : Asked(setup, w) => ~Orders(setup, Pending[1], w)
  BY <1>4, <1>7 DEF m, P
<1> QED
  BY <1>3, <1>6, <1>8, <1>9, WithoutEntry

\* The thread of the backend handles a message.
LEMMA ReceiveFound ==
    ASSUME NoneIsNoEntry, IInv, WellMatched(setup), Held, recv_from_controller
    PROVE  Held'
<1> DEFINE m == Pending[1]
<1>1. Context /\ IsSeq(chan)
  BY DEF Held, Context
<1>2. /\ chan # << >> /\ chan' = Tail(chan)
      /\ UNCHANGED <<setup, conns, dict, mpc, idx, heard, learned>>
  BY DEF recv_from_controller, controller
<1>3. m = handle_p4_msg(Head(chan), setup.big)
  BY <1>1, <1>2, TakenIs
<1>4. /\ CASE m.type = P4T_ADD_TABLE_ENTRY    -> ctrl_add_table_entry(m)
           [] m.type = P4T_SET_DEFAULT_ACTION -> ctrl_setdefault(m)
           [] OTHER                           -> UNCHANGED <<tables, added>>
      /\ ctrl_is_initialized' = (ctrl_is_initialized \/ m.type = P4T_CTRL_INITIALIZED)
  BY <1>3 DEF recv_from_controller
<1>5. ctrl_is_initialized' => ctrl_is_initialized \/ Pending[1].type = P4T_CTRL_INITIALIZED
  BY <1>4
<1>6. CASE m.type = P4T_ADD_TABLE_ENTRY
  <2>1. ctrl_add_table_entry(m)
    BY <1>4, <1>6, Types
  <2> QED
    BY <1>2, <1>5, <1>6, <2>1, AddEntryFound
<1>7. CASE m.type = P4T_SET_DEFAULT_ACTION
  <2>1. ctrl_setdefault(m)
    BY <1>4, <1>7, Types
  <2> QED
    BY <1>2, <1>5, <1>7, <2>1, SetDefaultFound
<1>8. CASE m.type \notin {P4T_ADD_TABLE_ENTRY, P4T_SET_DEFAULT_ACTION}
  <2>1. UNCHANGED <<tables, added>>
    BY <1>4, <1>8
  <2>2. conns # 0
    BY <1>1, <1>2 DEF Context
  <2>3. Shaped(setup, tables')
    BY <1>1, <2>1, <2>2 DEF Context
  <2>4. \A d \in Expected(setup) : IsDone(tables, d) => IsDone(tables', d)
    BY <2>1
  <2>5. /\ \A d \in Expected(setup) : IsFor(Pending[1], d) => IsDone(tables', d)
        /\ \A w \in WantedSoFar : Asked(setup, w) => ~Orders(setup, Pending[1], w)
    BY <1>8 DEF IsFor, Orders
  <2> QED
    BY <1>2, <1>5, <2>1, <2>3, <2>4, <2>5, WithoutEntry
<1> QED
  BY <1>6, <1>7, <1>8
-----------------------------------------------------------------------------

\* The invariant holds at first.
LEMMA FoundFirst == Init => FoundInv
<1> SUFFICES ASSUME Init, listening PROVE Held
  BY DEF FoundInv
<1>1. /\ setup \in Setups /\ Listens(setup) /\ conns = 0 /\ chan = << >> /\ mpc = "init_tables"
      /\ tables = << >> /\ heard = << >> /\ learned = {} /\ added = << >>
  BY DEF Init
<1>2. IsSeq(chan) /\ Len(Pending) = 0 /\ Len(added) = 0
  <2>1. IsSeq(chan)
    BY <1>1, NoNotes
  <2> QED
    BY <1>1, <2>1, PendingIs
<1>3. Context
  BY <1>1, <1>2 DEF Context
<1>4. WantedSoFar = {}
  BY <1>1, NothingWanted DEF WantedSoFar
<1>5. Answered(setup, added, Pending, {}, 0, 0)
  BY <1>2 DEF Answered
<1>6. (conns > 0) = FALSE /\ IsConnected = FALSE
  BY <1>1 DEF IsConnected
<1>7. Settled(setup, tables, Pending, conns > 0, IsConnected)
  BY <1>2, <1>6, SettledFirst
<1> QED
  BY <1>3, <1>4, <1>5, <1>7 DEF Held

\* Every step keeps it.
LEMMA StepFound == NoneIsNoEntry /\ IInv /\ FoundInv /\ [Next]_vars => FoundInv'
<1> SUFFICES ASSUME NoneIsNoEntry, IInv, FoundInv, [Next]_vars, WellMatched(setup'), listening'
             PROVE  Held'
  BY DEF FoundInv
<1>1. CASE UNCHANGED vars
  <2>1. /\ UNCHANGED <<setup, chan, tables, heard, learned, added>>
        /\ UNCHANGED <<listening, conns, dict, ctrl_is_initialized, mpc, idx>>
    BY <1>1 DEF vars, controller, main, history
  <2>2. Held
    BY <2>1 DEF FoundInv
  <2>3. IsConnected' = IsConnected
    BY <2>1 DEF IsConnected
  <2>4. Context'
    BY <2>1, <2>2 DEF Held, Context, Listens, Program
  <2> QED
    BY <2>1, <2>2, <2>3, <2>4, StillHeld
<1>2. CASE Next
  <2>1. setup' = setup /\ (listening' => listening)
    <3>1. CASE launch_backend
      BY <3>1 DEF launch_backend, controller
    <3>2. CASE init_tables \/ LaunchReturns \/ CheckDefault \/ setdefault \/ flush_tables
      BY <3>2 DEF init_tables, LaunchReturns, CheckDefault, setdefault, flush_tables, controller
    <3>3. CASE recv_from_controller \/ Digest
      BY <3>3 DEF recv_from_controller, Digest, controller
    <3> QED
      BY <1>2, <3>1, <3>2, <3>3 DEF Next
  <2>2. WellMatched(setup) /\ listening /\ Held
    BY <2>1 DEF FoundInv
  <2> QED
    BY <1>2, <2>2, InitTablesFound, LaunchFound, LaunchReturnsFound, CheckDefaultFound,
       SetdefaultFound, FlushFound, ReceiveFound, DigestFound DEF Next
<1> QED
  BY <1>1, <1>2
-----------------------------------------------------------------------------
\* Nothing is under way: the notes after the k-th, and those of the LPM table.
Noticed(s, A, W, k) ==
  /\ k \in 0 .. Len(A)
  /\ \A w \in W : Asked(s, w) => \E i \in k + 1 .. Len(A) : Serves(s, A[i], w)
  /\ \A i \in k + 1 .. Len(A) : A[i].table \in KeyNames(s) => \E v \in W : Serves(s, A[i], v)
  /\ \A i \in 1 .. Len(A) : IsLpmTable(s, A[i].table) =>
        A[i].entry.id = LpmAction(s) \/ (i <= k /\ IsConst(s, A[i]))

\* With no message under way, what is wanted is noted.
LEMMA AllNoticed ==
    ASSUME Held, chan = << >>
    PROVE  \E k \in Nat : Noticed(setup, added, WantedSoFar, k)
<1> DEFINE P == Pending
<1>1. PICK k, j \in Nat : Answered(setup, added, P, WantedSoFar, k, j)
  BY DEF Held
<1>2. Len(P) = 0
  BY NoNotes, PendingIs
<1> HIDE DEF P
<1>3. j = 0
  BY <1>1, <1>2 DEF Answered
<1>4. \A i \in j + 1 .. Len(P) : FALSE
  BY <1>2, <1>3
<1>5. Noticed(setup, added, WantedSoFar, k)
  BY <1>1, <1>4 DEF Answered, Noticed
<1> QED
  BY <1>5

\* The exact tables that are wanted have keys of the right size.
LEMMA KeyTableFits ==
    ASSUME NEW s, WellMatched(s), NEW t \in Range(s.program), NEW n, <<t.name, n>> \in KeyTables(s)
    PROVE  t.type = "exact" /\ t.key_size = n /\ n \in {1, 4, 6}
<1>1. TableFits(s, t)
  BY DEF WellMatched
<1>2. t.type = "exact" /\ t.key_size = n
  <2> DEFINE k == <<t.name, n>>
  <2>1. k \in KeyTables(s) /\ k[1] = t.name /\ k[2] = n
    OBVIOUS
  <2> HIDE DEF k
  <2> QED
    BY <1>1, <2>1 DEF TableFits
<1>3. n \in {1, 4, 6}
  <2>1. CASE s.app = "l2fwd"
    <3>1. <<t.name, n>> \in L2KeyTables(s)
      BY <2>1, WantedIs
    <3> QED
      BY <3>1 DEF L2KeyTables
  <2>2. CASE s.app \in {"psa_l2fwd", "smgw", "test-digest"} \cup L3Apps
    BY <2>2, WantedIs
  <2>3. CASE s.app \in {"portfwd", "dummy"}
    BY <2>3, WantedIs
  <2> QED
    BY <2>1, <2>2, <2>3 DEF WellMatched, L3Apps
<1> QED
  BY <1>2, <1>3

\* The LPM table that is wanted.
LEMMA LpmTableFits ==
    ASSUME NEW s, WellMatched(s), NEW t \in Range(s.program), IsLpmTable(s, t.name)
    PROVE  t.type = "lpm" /\ t.key_size = 4
BY DEF WellMatched, TableFits, IsLpmTable

\* The tables in a state of a running switch.
LEMMA TableIs ==
    ASSUME IInv, Shaped(setup, tables), NEW name \in DOMAIN tables
    PROVE  /\ name \in Names(setup) /\ setup \in Setups
           /\ Config(name) \in Range(setup.program) /\ Config(name).name = name
           /\ tables[name].type = Config(name).type /\ tables[name].key_size = Config(name).key_size
           /\ \A t \in Range(setup.program) : t.name = name => t = Config(name)
<1>1. name \in Names(setup) /\ setup \in Setups
  BY DEF Shaped, IInv
<1>2. /\ Config(name) \in Range(setup.program) /\ Config(name).name = name
      /\ \A t \in Range(setup.program) : t.name = name => t = Config(name)
  BY <1>1, ConfigOf
<1> QED
  BY <1>1, <1>2 DEF Shaped

\* A lookup of what is wanted of an exact table.
LEMMA ExactFound ==
    ASSUME IInv, WellMatched(setup), Shaped(setup, tables), NEW k \in Nat, NEW W,
           Noticed(setup, added, W, k), \A v \in W : IsWant(setup, v),
           NEW w \in W, Known(w), Fits(w.table), NEW n, <<w.table, n>> \in KeyTables(setup),
           IsKey(n, w.key)
    PROVE  LET found == lookup(w.table, table_key(Config(w.table), w.key))
           IN  \E v \in W : /\ v.table = w.table /\ v.key = w.key
                            /\ found.id \in v.actions
                            /\ v.param = None \/ found.params[1] = v.param
<1> DEFINE name == w.table
           c == Config(name)
           key == KeyOf(setup, c, w.key)
           covers == {i \in DOMAIN added : added[i].table = name /\ added[i].key = key}
           top == Max(covers)
<1>1. name \in DOMAIN tables /\ w.actions \cap c.actions # {}
  BY DEF Known
<1>2. /\ c \in Range(setup.program) /\ c.name = name /\ setup \in Setups
      /\ tables[name].type = c.type /\ tables[name].key_size = c.key_size
      /\ \A t \in Range(setup.program) : t.name = name => t = c
  BY <1>1, TableIs
<1>3. c.type = "exact" /\ c.key_size = n /\ n \in {1, 4, 6}
  <2>1. <<c.name, n>> \in KeyTables(setup)
    BY <1>2
  <2> HIDE DEF c
  <2> QED
    BY <1>2, <2>1, KeyTableFits
<1>4. table_key(c, w.key) = key
  BY DEF table_key, KeyOf
<1>5. Asked(setup, w)
  BY <1>1, <1>2 DEF Asked
<1>6. PICK i \in k + 1 .. Len(added) : Serves(setup, added[i], w)
  BY <1>5 DEF Noticed
<1> HIDE DEF c, key
<1>7. added[i].table = name /\ added[i].key = key
  BY <1>2, <1>6 DEF Serves, key
<1>8. DOMAIN added = 1 .. Len(added) /\ Len(added) \in Nat
  BY NotesAre DEF IsSeq
<1>9. i \in covers /\ covers \in SUBSET (1 .. Len(added))
  <2> DEFINE l == Len(added)
  <2>1. l \in Nat /\ i \in k + 1 .. l
    BY <1>6, <1>8
  <2> HIDE DEF l
  <2>2. i \in 1 .. l
    BY <2>1
  <2> QED
    BY <1>7, <1>8, <2>2 DEF l
<1>10. Newest(top, covers)
  <2> HIDE DEF covers
  <2> QED
    BY <1>8, <1>9, MaxIsNewest
<1>11. top \in k + 1 .. Len(added) /\ added[top].table = name /\ added[top].key = key
  <2> DEFINE l == Len(added)
             x == top
  <2>1. l \in Nat /\ i \in k + 1 .. l /\ x \in 1 .. l /\ i <= x
    BY <1>6, <1>8, <1>9, <1>10 DEF Newest
  <2>2. x \in covers
    BY <1>10 DEF Newest
  <2>3. added[x].table = name /\ added[x].key = key
    BY <2>2
  <2> HIDE DEF l, x, covers
  <2>4. x \in k + 1 .. l
    BY <2>1
  <2> QED
    BY <2>3, <2>4 DEF l, x
<1>12. Promised(name, key) = added[top].entry
  <2>1. tables[name].type = "exact" /\ ~IsFake(tables[name])
    BY <1>2, <1>3 DEF IsFake
  <2>2. {j \in DOMAIN added :
           /\ added[j].table = name
           /\ IF tables[name].type = "exact" THEN added[j].key = key
              ELSE /\ added[j].depth \in 1 .. LpmBits(tables[name])
                   /\ SamePrefix(LpmKey(tables[name], added[j].key, setup.big),
                                 LpmKey(tables[name], key, setup.big), added[j].depth)} = covers
    BY <2>1
  <2>3. covers # {}
    BY <1>9
  <2> HIDE DEF covers
  <2> QED
    BY <2>1, <2>2, <2>3 DEF Promised
<1>13. lookup(name, key) = added[top].entry
  BY <1>1, <1>12, TableAgrees
<1> HIDE DEF top
<1>14. PICK v \in W : Serves(setup, added[top], v)
  <2>1. added[top].table \in KeyNames(setup)
    <3> DEFINE p == <<w.table, n>>
    <3>1. p \in KeyTables(setup) /\ p[1] = w.table
      OBVIOUS
    <3> HIDE DEF p
    <3>2. w.table \in KeyNames(setup)
      BY <3>1 DEF KeyNames
    <3> QED
      BY <1>11, <3>2
  <2> QED
    BY <1>11, <2>1 DEF Noticed
<1>15. v.table = name /\ KeyOf(setup, c, v.key) = KeyOf(setup, c, w.key)
  BY <1>2, <1>11, <1>14 DEF Serves, key
<1>16. IsKey(n, v.key)
  <2>1. ~IsLpmTable(setup, v.table)
    BY <1>2, <1>3, <1>15, LpmTableFits
  <2>2. PICK l : <<v.table, l>> \in KeyTables(setup) /\ IsKey(l, v.key)
    BY <2>1 DEF IsWant
  <2>3. c.key_size = l
    <3>1. <<c.name, l>> \in KeyTables(setup)
      BY <1>2, <1>15, <2>2
    <3> QED
      BY <1>2, <3>1, KeyTableFits
  <2> QED
    BY <1>3, <2>2, <2>3
<1>17. v.key = w.key
  <2>1. n \in Nat
    BY <1>3
  <2> QED
    BY <1>15, <1>16, <2>1, KeyInjective
<1>18. /\ added[top].entry.id \in v.actions
       /\ v.param = None \/ added[top].entry.params[1] = v.param
  BY <1>14 DEF Serves
<1> QED
  BY <1>4, <1>13, <1>15, <1>17, <1>18 DEF c
-----------------------------------------------------------------------------
\* Of some notes, those of the longest prefixes.
LEMMA LongestExists ==
    ASSUME NEW A, NEW n \in Nat, NEW S \in SUBSET (1 .. n), NEW i \in S,
           \A j \in S : A[j].depth \in 1 .. 32
    PROVE  Longest(S, A) # {} /\ Longest(S, A) \in SUBSET (1 .. n)
<1> DEFINE T == {A[j].depth : j \in S}
<1>1. T \in SUBSET (0 .. 32) /\ A[i].depth \in T
  OBVIOUS
<1> HIDE DEF T
<1>2. PICK x \in T : \A y \in T : y <= x
  BY <1>1, GreatestExists
<1>3. PICK j \in S : x = A[j].depth
  BY <1>2 DEF T
<1>4. \A l \in S : A[l].depth <= A[j].depth
  BY <1>2, <1>3 DEF T
<1>5. j \in Longest(S, A)
  BY <1>3, <1>4 DEF Longest
<1> QED
  BY <1>5 DEF Longest

\* A lookup of what is wanted of the LPM table.
LEMMA LpmFound ==
    ASSUME IInv, WellMatched(setup), Shaped(setup, tables), NEW k \in Nat, NEW W,
           Noticed(setup, added, W, k),
           NEW w \in W, Known(w), Fits(w.table), IsLpmTable(setup, w.table),
           w.actions = {LpmAction(setup)}, w.param = None
    PROVE  lookup(w.table, table_key(Config(w.table), w.key)).id \in w.actions
<1> DEFINE name == w.table
           c == Config(name)
           key == KeyOf(setup, c, w.key)
           t == tables[name]
           covers == Covers(key, t, name, added, setup.big)
           top == Max(Longest(covers, added))
<1>1. name \in DOMAIN tables /\ w.actions \cap c.actions # {}
  BY DEF Known
<1>2. /\ c \in Range(setup.program) /\ c.name = name /\ setup \in Setups
      /\ tables[name].type = c.type /\ tables[name].key_size = c.key_size
      /\ \A u \in Range(setup.program) : u.name = name => u = c
  BY <1>1, TableIs
<1>3. c.type = "lpm" /\ c.key_size = 4
  <2>1. IsLpmTable(setup, c.name)
    BY <1>2
  <2> HIDE DEF c
  <2> QED
    BY <1>2, <2>1, LpmTableFits
<1>4. t.type = "lpm" /\ LpmBits(t) = 32 /\ ~IsFake(t)
  BY <1>2, <1>3 DEF LpmBits, IsFake
<1>5. table_key(c, w.key) = key
  BY DEF table_key, KeyOf
<1>6. Asked(setup, w)
  BY <1>1, <1>2 DEF Asked
<1>7. PICK i \in k + 1 .. Len(added) : Serves(setup, added[i], w)
  BY <1>6 DEF Noticed
<1> HIDE DEF c, key
<1>8. added[i].table = name /\ added[i].key = key /\ Deep(c, added[i].depth)
  <2>1. /\ added[i].key = KeyOf(setup, c, w.key)
        /\ c.type = "exact" \/ (c.type = "lpm" /\ Deep(c, added[i].depth))
    BY <1>2, <1>7 DEF Serves
  <2> QED
    BY <1>3, <1>7, <2>1 DEF Serves, key
<1>9. DOMAIN added = 1 .. Len(added) /\ Len(added) \in Nat
  BY NotesAre DEF IsSeq
<1>10. i \in 1 .. Len(added)
  <2> DEFINE l == Len(added)
  <2>1. l \in Nat /\ i \in k + 1 .. l
    BY <1>7, <1>9
  <2> HIDE DEF l
  <2> QED
    BY <2>1 DEF l
<1> HIDE DEF t
<1>11. /\ i \in covers /\ covers \in SUBSET (1 .. Len(added))
       /\ \A j \in covers : added[j].depth \in 1 .. 32 /\ added[j].table = name
  <2>1. SamePrefix(LpmKey(t, added[i].key, setup.big), LpmKey(t, key, setup.big), added[i].depth)
    BY <1>8, SamePrefixIs
  <2>2. added[i].depth \in 1 .. LpmBits(t)
    BY <1>4, <1>8 DEF Deep
  <2> QED
    BY <1>4, <1>8, <1>9, <1>10, <2>1, <2>2 DEF Covers, Of
<1> HIDE DEF covers
<1>12. Longest(covers, added) # {} /\ Longest(covers, added) \in SUBSET (1 .. Len(added))
  BY <1>9, <1>11, LongestExists
<1>13. Newest(top, Longest(covers, added))
  BY <1>9, <1>12, MaxIsNewest
<1>14. top \in covers /\ \A j \in covers : added[j].depth <= added[top].depth
  BY <1>13 DEF Newest, Longest
<1>15. Promised(name, key) = added[top].entry
  <2>1. {j \in DOMAIN added :
           /\ added[j].table = name
           /\ IF t.type = "exact" THEN added[j].key = key
              ELSE /\ added[j].depth \in 1 .. LpmBits(t)
                   /\ SamePrefix(LpmKey(t, added[j].key, setup.big),
                                 LpmKey(t, key, setup.big), added[j].depth)} = covers
    BY <1>4 DEF covers, Covers, Of
  <2>2. {j \in covers : \A l \in covers : added[l].depth <= added[j].depth} = Longest(covers, added)
    BY DEF Longest
  <2>3. covers # {}
    BY <1>11
  <2> QED
    BY <1>4, <2>1, <2>2, <2>3 DEF Promised, t
<1>16. lookup(name, key) = added[top].entry
  BY <1>1, <1>15, TableAgrees
<1> HIDE DEF top
<1>17. added[top].entry.id = LpmAction(setup)
  <2> SUFFICES ASSUME added[top].entry.id # LpmAction(setup) PROVE FALSE
    OBVIOUS
  <2>1. top <= k /\ IsConst(setup, added[top])
    BY <1>11, <1>14 DEF Noticed
  <2>2. PICK b \in Range(c.const) : added[top].depth = b.depth
    <3>1. added[top].table = name
      BY <1>11, <1>14
    <3>2. PICK u \in Range(setup.program) :
             u.name = added[top].table /\ \E b \in Range(u.const) : added[top].depth = b.depth
      BY <2>1 DEF IsConst
    <3>3. u = c
      BY <1>2, <3>1, <3>2
    <3> QED
      BY <3>2, <3>3
  <2>3. added[top].depth <= added[i].depth
    BY <1>8, <2>2 DEF Deep
  <2>4. \A j \in covers : added[j].depth <= added[i].depth
    <3> TAKE j \in covers
    <3> DEFINE x == added[top].depth
               y == added[i].depth
               z == added[j].depth
    <3>1. x \in Nat /\ y \in Nat /\ z \in Nat /\ z <= x /\ x <= y
      <4>1. x \in 1 .. 32 /\ y \in 1 .. 32 /\ z \in 1 .. 32
        BY <1>11, <1>14
      <4>2. z <= x /\ x <= y
        BY <1>14, <2>3
      <4> HIDE DEF x, y, z
      <4> QED
        BY <4>1, <4>2
    <3> HIDE DEF x, y, z
    <3>2. z <= y
      BY <3>1
    <3> QED
      BY <3>2 DEF y, z
  <2>5. i \in Longest(covers, added)
    BY <1>11, <2>4 DEF Longest
  <2>6. i <= top
    BY <1>13, <2>5 DEF Newest, top
  <2>7. i \in Nat /\ top \in Nat /\ k + 1 <= i
    <3> DEFINE l == Len(added)
    <3>1. l \in Nat /\ i \in k + 1 .. l /\ top \in 1 .. l
      BY <1>7, <1>9, <1>11, <1>14
    <3> HIDE DEF l
    <3> QED
      BY <3>1
  <2> QED
    BY <2>1, <2>6, <2>7
<1> QED
  BY <1>5, <1>16, <1>17 DEF c

\* The lines and digests are taken with the translations of the whole file.
LEMMA WantedNow ==
    ASSUME WellMatched(setup), Context, conns # 0
    PROVE  UNION {Wanted(setup, dict, x) : x \in GoneThrough(setup, heard) \cup Learned(learned)}
             = WantedSoFar
<1>1. \A x : Wanted(setup, dict, x) = Wanted(setup, FinalDict(setup), x)
  <2> TAKE x
  <2>1. CASE setup.app = "l2fwd"
    BY <2>1 DEF Context
  <2>2. CASE setup.app \in {"psa_l2fwd", "smgw", "test-digest", "portfwd", "dummy"}
    BY <2>2, WantedIs
  <2>3. CASE setup.app \in L3Apps
    BY <2>3, WantedIs
  <2> QED
    BY <2>1, <2>2, <2>3 DEF WellMatched, L3Apps
<1> QED
  BY <1>1 DEF WantedSoFar, WantsOf

\* The defaults that are set are expected.
LEMMA DefaultsNow ==
    ASSUME WellMatched(setup), Context, conns # 0
    PROVE  WantedDefaults(setup, dict, heard) \subseteq AllDefaults(setup)
<1>1. CASE setup.app = "l2fwd"
  <2>1. dict = FinalDict(setup)
    BY <1>1 DEF Context
  <2>2. CASE heard = << >>
    <3>1. WantedDefaults(setup, dict, heard) = {}
      BY <1>1, <2>2, NoLines DEF WantedDefaults
    <3> QED
      BY <3>1
  <2>3. CASE heard = Lines(setup)
    BY <2>1, <2>3 DEF AllDefaults
  <2> QED
    BY <2>2, <2>3 DEF Context
<1>2. CASE setup.app = "psa_l2fwd"
  BY <1>2 DEF AllDefaults, WantedDefaults
<1>3. CASE setup.app = "portfwd"
  BY <1>3 DEF AllDefaults, WantedDefaults
<1>4. CASE setup.app = "test-digest"
  BY <1>4 DEF AllDefaults, WantedDefaults
<1>5. CASE setup.app \notin {"l2fwd", "psa_l2fwd", "portfwd", "test-digest"}
  BY <1>5 DEF WantedDefaults
<1> QED
  BY <1>1, <1>2, <1>3, <1>4, <1>5

\* What is wanted is found in a state of a running switch.
LEMMA HeldFound == IInv /\ FoundInv /\ WellMatched(setup) => ConfiguredIsFound
<1> SUFFICES ASSUME IInv, FoundInv, WellMatched(setup), mpc = "run", chan = << >>, listening, conns > 0
             PROVE  LET wanted == UNION {Wanted(setup, dict, x) :
                                           x \in GoneThrough(setup, heard) \cup Learned(learned)}
                    IN  /\ \A w \in wanted :
                             Known(w) /\ Fits(w.table) =>
                               LET found == lookup(w.table, table_key(Config(w.table), w.key))
                               IN  \E v \in wanted : /\ v.table = w.table /\ v.key = w.key
                                                     /\ found.id \in v.actions
                                                     /\ v.param = None \/ found.params[1] = v.param
                        /\ \A d \in WantedDefaults(setup, dict, heard) :
                             d[1] \in DOMAIN tables /\ d[2] \in Config(d[1]).actions =>
                               tables[d[1]].default_val.id = d[2]
  BY DEF ConfiguredIsFound
<1> DEFINE W == WantedSoFar
<1>1. Held /\ Context /\ setup \in Setups
  BY NotesAre DEF FoundInv, Held
<1>2. conns # 0 /\ \A d \in Expected(setup) : IsDone(tables, d)
  BY <1>1, AllDone
<1>3. Shaped(setup, tables)
  BY <1>1 DEF Context
<1>4. UNION {Wanted(setup, dict, x) : x \in GoneThrough(setup, heard) \cup Learned(learned)} = W
  BY <1>1, <1>2, WantedNow
<1>5. PICK k \in Nat : Noticed(setup, added, W, k)
  BY <1>1, AllNoticed
<1>6. \A v \in W : IsWant(setup, v)
  BY <1>1, WantedAreWants
<1> HIDE DEF W
<1>7. ASSUME NEW w \in W, Known(w), Fits(w.table)
      PROVE  LET found == lookup(w.table, table_key(Config(w.table), w.key))
             IN  \E v \in W : /\ v.table = w.table /\ v.key = w.key
                              /\ found.id \in v.actions
                              /\ v.param = None \/ found.params[1] = v.param
  <2>1. CASE IsLpmTable(setup, w.table) /\ w.actions = {LpmAction(setup)} /\ w.param = None
    <3>1. lookup(w.table, table_key(Config(w.table), w.key)).id \in w.actions
      BY <1>3, <1>5, <1>7, <2>1, LpmFound
    <3> QED
      BY <1>7, <2>1, <3>1
  <2>2. CASE \E n : <<w.table, n>> \in KeyTables(setup) /\ IsKey(n, w.key)
    BY <1>3, <1>5, <1>6, <1>7, <2>2, ExactFound
  <2> QED
    BY <1>6, <1>7, <2>1, <2>2 DEF IsWant
<1>8. ASSUME NEW d \in WantedDefaults(setup, dict, heard), d[1] \in DOMAIN tables,
             d[2] \in Config(d[1]).actions
      PROVE  tables[d[1]].default_val.id = d[2]
  <2>1. d \in AllDefaults(setup)
    BY <1>1, <1>2, <1>8, DefaultsNow
  <2>2. Config(d[1]) \in Range(setup.program) /\ Config(d[1]).name = d[1]
    BY <1>3, <1>8, TableIs
  <2>3. d \in Expected(setup)
    BY <1>8, <2>1, <2>2 DEF Expected
  <2> QED
    BY <1>2, <2>3 DEF IsDone
<1> QED
  BY <1>4, <1>7, <1>8

\* A running switch finds what its controller was configured with.
THEOREM ConfiguredLinesAreFound ==
    ASSUME NoneIsNoEntry
    PROVE  Spec => [](WellMatched(setup) => ConfiguredIsFound)
<1>1. IInv /\ FoundInv /\ [Next]_vars => FoundInv'
  BY StepFound
<1>2. Init => FoundInv
  BY FoundFirst
<1>3. Spec => []IInv
  BY TablesHold
<1>4. IInv /\ FoundInv => (WellMatched(setup) => ConfiguredIsFound)
  BY HeldFound
<1> QED
  BY <1>1, <1>2, <1>3, <1>4, PTL DEF Spec
===============================================================================
