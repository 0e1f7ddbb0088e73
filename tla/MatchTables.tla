------------------------------ MODULE MatchTables ------------------------------
(***************************************************************************)
(* The lookup structures behind a table: dpdk_tables.c with its exact and  *)
(* LPM parts, over what DPDK's rte_hash and rte_lpm promise.  A table is a *)
(* record: its line of table_config (type, key_size, max_size), the        *)
(* default_val, the DPDK structure (hash: the keys by position; rules: the *)
(* prefixes) and extended_table_t (content, size).  A key is the sequence  *)
(* of its bytes as they lie in memory, an entry is [id, params].           *)
(*                                                                         *)
(* The replicas of a table and its copies on the sockets get the same      *)
(* calls (TableReplica.tla); a table is one value here.  Memory does not   *)
(* run out, and no LPM table takes more than max_size entries: the slot    *)
(* lpm_add writes then lies outside of content.                            *)
(***************************************************************************)
EXTENDS Integers, Sequences, FiniteSets, SequencesExt, FiniteSetsExt

CONSTANTS HASH_ENTRIES,  \* what an rte_hash holds
          None           \* NULL

ASSUME HashEntriesAssumption == HASH_ENTRIES \in Nat \ {0}

ENOSPC == 28

\* The bytes of a number whose most significant byte comes first, as the
\* machine keeps them in memory, and back.
HostOrder(bytes, big) == IF big THEN bytes ELSE Reverse(bytes)

\* Do two addresses share their first d bits?
SamePrefix(a, b, d) ==
  LET whole == d \div 8
      rest  == 2 ^ (8 - (d % 8))
  IN  /\ \A i \in 1 .. whole : a[i] = b[i]
      /\ (d % 8) # 0 => a[whole + 1] \div rest = b[whole + 1] \div rest
-----------------------------------------------------------------------------
\* rte_hash: the position of a key is the number of keys that came before it;
\* a full hash answers -ENOSPC.
rte_hash_lookup(hash, key) ==
  IF \E i \in 1 .. Len(hash) : hash[i] = key
  THEN (CHOOSE i \in 1 .. Len(hash) : hash[i] = key) - 1 ELSE -1

rte_hash_add_key(hash, key) ==
  IF rte_hash_lookup(hash, key) >= 0
  THEN [hash |-> hash, index |-> rte_hash_lookup(hash, key)]
  ELSE IF Len(hash) >= HASH_ENTRIES THEN [hash |-> hash, index |-> -ENOSPC]
  ELSE [hash |-> Append(hash, key), index |-> Len(hash)]

\* rte_lpm: a rule for the same prefix is replaced.  A depth it does not know
\* and a table without room are refused, and rte_errno is left alone.
rte_lpm_add(rules, limit, bits, key, depth, value) ==
  LET same == {r \in rules : r.depth = depth /\ SamePrefix(r.key, key, depth)}
  IN  IF depth \notin 1 .. bits \/ (same = {} /\ Cardinality(rules) >= limit)
      THEN rules
      ELSE (rules \ same) \cup {[key |-> key, depth |-> depth, value |-> value]}

rte_lpm_lookup(rules, key) ==
  LET hits == {r \in rules : SamePrefix(r.key, key, r.depth)}
  IN  IF hits = {} THEN -1
      ELSE (CHOOSE r \in hits : \A q \in hits : q.depth <= r.depth).value
-----------------------------------------------------------------------------
\* dpdk_tables.c and dpdk_tables_exact.c.  A table without a key gets no
\* structure, and its lookups give the default.
IsFake(t) == t.key_size = 0

\* content, with the slot at an index set to an entry.
make_table_entry(content, index, entry) ==
  [i \in DOMAIN content \cup {index} |-> IF i = index THEN entry ELSE content[i]]

create_table(config) ==
  [type |-> config.type, key_size |-> config.key_size, max_size |-> config.max_size,
   default_val |-> None, hash |-> << >>, rules |-> {}, content |-> << >>, size |-> 0]

table_set_default_action(t, entry) == [t EXCEPT !.default_val = entry]

\* The slot of an index, which is unsigned, 32 bits wide: no error of
\* rte_hash_add_key is ever seen.
Slot(index, m) == IF index >= 0 THEN index % m
                  ELSE ((65536 % m) * (65536 % m) + (index % m)) % m

exact_add(t, key, entry) ==
  IF IsFake(t) THEN t
  ELSE LET added == rte_hash_add_key(t.hash, key)
       IN  [t EXCEPT !.hash = added.hash,
                     !.content = make_table_entry(@, Slot(added.index, t.max_size), entry)]

exact_lookup(t, key) ==
  IF IsFake(t) \/ rte_hash_lookup(t.hash, key) < 0 THEN t.default_val
  ELSE t.content[rte_hash_lookup(t.hash, key) % t.max_size]

\* The hash is reset before it is iterated over: no entry is freed, none needs
\* to be for the lookups.  Mutant: it is not reset.
KeepsKeys(t) == t
exact_flush(t) == [t EXCEPT !.hash = << >>]
-----------------------------------------------------------------------------
\* dpdk_tables_lpm.c.  Up to four bytes of key are one number, of the machine's
\* byte order, for rte_lpm; longer keys go to rte_lpm6 as they are.
LpmBits(t) == IF t.key_size <= 4 THEN 32 ELSE 128
LpmKey(t, key, big) ==
  IF t.key_size > 4 THEN key
  ELSE LET padded == key \o [i \in 1 .. 4 - t.key_size |-> 0]
       IN  HostOrder(padded, big)

\* The slot is used up whether or not the rule is taken.
lpm_add(t, key, depth, entry, big) ==
  IF IsFake(t) THEN t
  ELSE [t EXCEPT !.content = make_table_entry(@, t.size, entry),
                 !.size = @ + 1,
                 !.rules = rte_lpm_add(@, t.max_size, LpmBits(t), LpmKey(t, key, big), depth, t.size)]

lpm_lookup(t, key, big) ==
  IF IsFake(t) THEN t.default_val
  ELSE LET value == rte_lpm_lookup(t.rules, LpmKey(t, key, big))
       IN  IF value < 0 THEN t.default_val ELSE t.content[value]

\* The rules go, size stays.  What is freed is the slot after the last entry.
lpm_flush(t) == [t EXCEPT !.rules = {}]

flush_table(t) ==
  IF IsFake(t) THEN t
  ELSE CASE t.type = "exact" -> exact_flush(t)
         [] t.type = "lpm"   -> lpm_flush(t)
===============================================================================
