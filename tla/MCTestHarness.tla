---------------------------- MODULE MCTestHarness ----------------------------
(* Command lines and test suites for the instance of TestHarness.            *)
EXTENDS TestHarness

LOCAL Line(cores, masks, config, binary, node, numa) ==
  [cores |-> cores, masks |-> masks, config |-> config, numa |-> numa,
   ports |-> IF binary = "std" THEN 2 ELSE 0, binary |-> binary, node |-> node]

(* --config of opts_dpdk.cfg (ports=1x1, 1x2, 2x1, 2x2, 3x1, piports), and   *)
(* ones that are refused: four queues for one lcore, a queue or a field out  *)
(* of range, a field missing.                                                *)
LOCAL Configs ==
  {<< >>, <<(<<0, 0, 0>>)>>, <<(<<0, 0, 0>>), (<<1, 0, 0>>)>>,
   <<(<<0, 0, 0>>), (<<0, 1, 1>>)>>,
   <<(<<0, 0, 0>>), (<<0, 1, 1>>), (<<1, 0, 0>>), (<<1, 1, 1>>)>>,
   <<(<<0, 0, 0>>), (<<0, 1, 1>>), (<<0, 2, 2>>)>>,
   <<(<<0, 0, 2>>), (<<1, 0, 3>>)>>,
   <<(<<0, 0, 0>>), (<<0, 1, 0>>), (<<0, 2, 0>>), (<<1, 0, 0>>)>>,
   <<(<<0, 3, 0>>)>>, <<(<<0, 256, 0>>)>>, <<(<<0, 0>>)>>}

LOCAL Switch ==
  {Line(cores, masks, config, "std", node, numa) :
     cores \in SUBSET (0 .. 3) \ {{}}, masks \in {{}, {{}}, {{0}}, {{0, 1}}},
     config \in Configs, node \in BOOLEAN, numa \in BOOLEAN}

TestLine == Line({0, 1}, {}, << >>, "test", FALSE, TRUE)

Lines == Switch \cup {TestLine}
Sockets == (0 :> 0) @@ (1 :> 0) @@ (2 :> 1) @@ (3 :> 2)

LOCAL A == <<Plain(<<0>>)>>
LOCAL B == <<Plain(<<1>>)>>
LOCAL AB == <<Plain(<<0>>), INOUT(<< >>, <<1>>)>>    \* a header is added
LOCAL Bad == FAST(1, 1, <<Plain(<<-1>>)>>)
LOCAL Case(zero, one) == (0 :> LCORE(zero)) @@ (1 :> LCORE(one))
LOCAL Single(s) == (0 :> LCORE(s)) @@ (1 :> <<FEND>>)

Tests == {
  <<Single(<<FSLEEP, FAST(1, 2, A), FAST(ANY, SAME, AB), FAST(1, DROP, A)>>)>>,
  <<Single(<<FAST(1, DROP, A), FAST(1, 2, A)>>), Single(<<SLOW(1, T4P4S_BROADCAST_PORT, A)>>)>>,
  <<Single(<<SLOW(1, DROP, A)>>)>>,
  <<Single(<<FAST(1, 2, A)>>), Case(<<FAST(1, 1, A)>>, <<FAST(2, DROP, B)>>)>>,
  <<Case(<<SLOW(RND1, RND1, A)>>, <<FSLEEP, FAST(1, RND1, A)>>)>>,
  <<Single(<<Bad, FAST(1, 1, A)>>)>>,
  <<Single(<<FSLEEP, FSLEEP, FSLEEP, FSLEEP, FAST(1, 1, A)>>)>>}

Behaviours == [port : {1, 2, T4P4S_BROADCAST_PORT, EGRESS_DROP_VALUE}, bytes : {<<0>>, <<1>>, <<0, 1>>}, set : BOOLEAN]
===============================================================================
