-------------------------------- MODULE CellList --------------------------------
(***************************************************************************)
(* The pool of memory cells of ctrl_plane_backend.c: two lists, of unused  *)
(* and of used cells, linked through the cells themselves.  touch_mem_cell *)
(* moves the first unused cell to the front of the used list,              *)
(* detouch_mem_cell unlinks a cell from wherever it is in the used list    *)
(* and puts it in front of the unused one.  Each is one critical section   *)
(* of memlock.                                                             *)
(*                                                                         *)
(* The lists link forward everywhere, but backward only where the code     *)
(* reads prev: an unused cell behind the first may have a stale one.       *)
(***************************************************************************)
EXTENDS Integers, Sequences, FiniteSets

CONSTANTS NCells,   \* how many cells the pool has
          NULL      \* the null pointer

ASSUME NCellsAssumption == NCells \in Nat \ {0}
ASSUME NullAssumption == NULL \notin Nat

VARIABLES unused_head, used_head,
          next, prev,     \* the links of every cell
          lent            \* the cells touch_mem_cell gave and did not get back

cellVars == <<unused_head, used_head, next, prev, lent>>

Cells == 1 .. NCells
Link == Cells \cup {NULL}

\* create_backend puts each new cell in front; nothing is linked backward.
CellsInit ==
    /\ unused_head = NCells
    /\ used_head = NULL
    /\ next = [c \in Cells |-> IF c = 1 THEN NULL ELSE c - 1]
    /\ prev = [c \in Cells |-> NULL]
    /\ lent = {}

\* Link f of cell c set to v, if there is such a cell.
Set(f, c, v) == [x \in Cells |-> IF x = c THEN v ELSE f[x]]

touch_mem_cell ==
    /\ unused_head # NULL
    /\ LET result == unused_head
           rest == next[result]
       IN  /\ unused_head' = rest
           /\ prev' = Set(Set(prev, rest, NULL), used_head, result)
           /\ next' = Set(next, result, used_head)
           /\ used_head' = result
           /\ lent' = lent \cup {result}

\* Nothing left: a null pointer is returned.
touch_mem_cell_empty == unused_head = NULL /\ UNCHANGED cellVars

\* Mutant: the cell before is not linked to the cell behind.
DetouchKeepsNext(c) ==
    /\ c \in lent
    /\ used_head' = IF used_head # c THEN used_head ELSE next[c]
    /\ next' = Set(next, c, unused_head)
    /\ prev' = Set(Set(Set(prev, next[c], prev[c]), unused_head, c), c, NULL)
    /\ unused_head' = c
    /\ lent' = lent \ {c}

\* Mutant: the cell is put in front without the cells behind it.
DetouchDropsRest(c) ==
    /\ c \in lent
    /\ used_head' = IF used_head # c THEN used_head ELSE next[c]
    /\ next' = IF used_head # c THEN Set(next, prev[c], next[c]) ELSE next
    /\ prev' = Set(Set(Set(prev, next[c], prev[c]), unused_head, c), c, NULL)
    /\ unused_head' = c
    /\ lent' = lent \ {c}

\* The caller gives back a cell it was lent.
detouch_mem_cell(c) ==
    /\ c \in lent
    /\ LET unlinked == IF used_head # c THEN Set(next, prev[c], next[c]) ELSE next
       IN  /\ used_head' = IF used_head # c THEN used_head ELSE next[c]
           /\ next' = Set(unlinked, c, unused_head)
           /\ prev' = Set(Set(Set(prev, next[c], prev[c]), unused_head, c), c, NULL)
           /\ unused_head' = c
           /\ lent' = lent \ {c}

CellsNext == touch_mem_cell \/ touch_mem_cell_empty \/ \E c \in Cells : detouch_mem_cell(c)

CellsSpec == CellsInit /\ [][CellsNext]_cellVars
-----------------------------------------------------------------------------
CellsTypeOK == /\ unused_head \in Link /\ used_head \in Link
               /\ next \in [Cells -> Link] /\ prev \in [Cells -> Link]
               /\ lent \subseteq Cells

\* The cells reached from h along the links f: what is in every set that has h
\* and the cell behind each of its cells.
Reached(f, h) == {c \in Link : \A S \in SUBSET Link :
                        (h \in S /\ \A x \in S \ {NULL} : f[x] \in S) => c \in S}

\* The lists are what they stand for: the used list has the cells that were
\* lent, linked both ways, the unused list all others, and both end.  A cell that
\* fell out of them would never be lent again, one in both would be lent twice.
\* The type invariant is part of it.
ListsAreThePool == /\ CellsTypeOK
                   /\ Reached(next, used_head) = lent \cup {NULL}
                   /\ Reached(next, unused_head) = (Cells \ lent) \cup {NULL}
                   /\ \A c \in lent : next[c] # NULL => prev[next[c]] = c

Pool == INSTANCE CellPool WITH free <- Reached(next, unused_head) \ {NULL}

\* Relinking the lists is taking one cell out of a set and putting it back:
\* touch_mem_cell frees no cell and detouch_mem_cell exactly the one given back.
RefinesCellPool == Pool!Spec
=============================================================================
