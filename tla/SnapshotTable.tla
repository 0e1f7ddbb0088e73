----------------------------- MODULE SnapshotTable -----------------------------
(***************************************************************************)
(* What a match-action table promises the cores that process packets while *)
(* the control plane changes it: every packet is processed against one     *)
(* snapshot of the table, the one its core had when the packet started,    *)
(* and the snapshots of a core contain the updates in the order they were  *)
(* made, each once and none skipped.  TableReplica.tla is how the switch   *)
(* keeps the promise.                                                      *)
(***************************************************************************)
EXTENDS Naturals, Sequences

CONSTANTS Lcores, NoPacket

VARIABLES table,    \* per core, the updates a packet that starts now will see
          packet    \* per core, the updates the packet in progress sees

Init == /\ table = [l \in Lcores |-> <<>>]
        /\ packet = [l \in Lcores |-> NoPacket]

\* The next update, in the order they were made, reaches a core.
Install(l) == /\ table' = [table EXCEPT ![l] = Append(@, Len(@) + 1)]
              /\ UNCHANGED packet

StartPacket(l) == /\ packet[l] = NoPacket
                  /\ packet' = [packet EXCEPT ![l] = table[l]]
                  /\ UNCHANGED table

FinishPacket(l) == /\ packet' = [packet EXCEPT ![l] = NoPacket]
                   /\ UNCHANGED table

Next == \E l \in Lcores : Install(l) \/ StartPacket(l) \/ FinishPacket(l)

vars == <<table, packet>>

Spec == Init /\ [][Next]_vars
=============================================================================
