-------------------------------- MODULE CellPool --------------------------------
(***************************************************************************)
(* What the pool of memory cells promises: a cell is handed out only while *)
(* it is free, and to one user at a time.                                  *)
(***************************************************************************)
CONSTANT Cells
VARIABLES free, lent

Init == free = Cells /\ lent = {}

Touch == \E c \in free : /\ free' = free \ {c}
                         /\ lent' = lent \cup {c}

Detouch == \E c \in lent : /\ free' = free \cup {c}
                           /\ lent' = lent \ {c}

Spec == Init /\ [][Touch \/ Detouch]_<<free, lent>>
=============================================================================
