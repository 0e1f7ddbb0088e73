----------------------------- MODULE MCTableReplica -----------------------------
(***************************************************************************)
(* Instances of TableReplica for TLC: lcores on two sockets.               *)
(***************************************************************************)
EXTENDS TableReplica, TLC

TwoSockets == 0 :> 0 @@ 1 :> 0 @@ 2 :> 1
SecondSocket == 0 :> 0 @@ 1 :> 1
=============================================================================
