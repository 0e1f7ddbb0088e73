------------------------------- MODULE MCDataPath -------------------------------
(* Controllers, configurations and programs for the instance of DataPath.    *)
EXTENDS DataPath

LOCAL Mac(n) == <<0, 0, n, 0, 0, 0>>
LOCAL Ip(a, b, c, d) == <<a, b, c, d>>

LOCAL Table(name, type, key_size, max_size, actions, default) ==
  [name |-> name, type |-> type, key_size |-> key_size, max_size |-> max_size,
   actions |-> actions, default |-> default, is_metadata |-> FALSE, const |-> << >>]
LOCAL WithConst(table, entries) == [table EXCEPT !.const = entries]
LOCAL Metadata(table) == [table EXCEPT !.is_metadata = TRUE]
LOCAL Const(key, depth, action) == [key |-> key, depth |-> depth, entry |-> Entry(action, << >>)]

LOCAL Setup(app, hasFile, file, program, digests) ==
  {[app |-> app, hasFile |-> hasFile, file |-> file, program |-> program,
    digests |-> digests, big |-> b] : b \in BOOLEAN}

LOCAL Line(code, fields) == [code |-> code, ok |-> TRUE] @@ fields
LOCAL Wrong == [code |-> "E", ok |-> FALSE]
LOCAL MacLearn(n, port) == [name |-> "mac_learn_digest", key |-> Mac(n), port |-> port]
LOCAL LearnIp == [name |-> "test_learn_ip", key |-> Ip(10, 0, 0, 1), prefix |-> 24, i |-> <<1, 2, 3>>]

\* l2fwd, with the translations of examples/tables, ports 11 and 300, a table the
\* program does not have, and a table that is full.
LOCAL Fwd(n, port) == Line("MAC-FWD", [key |-> Mac(n), port |-> port])
LOCAL L2File ==
  <<Line("TRANSLATION", [from |-> "dmac", to |-> "ingress.dmac"]),
    Line("TRANSLATION", [from |-> "forward", to |-> "ingress.forward"]),
    Line("SET-DEFAULT", [table |-> "dmac", action |-> "bcast"]),
    [code |-> "MAC-FWD", ok |-> FALSE],
    Fwd(1, 11), Fwd(2, 300),
    Line("EXACT", [key |-> Mac(3), port |-> 12, table |-> "dmac", action |-> "forward", matches |-> 10]),
    Line("EXACT", [key |-> Mac(3), port |-> 12, table |-> "nowhere", action |-> "forward", matches |-> 9]),
    Line("TEID-RATE-LIMITER", [key |-> <<0, 0, 0, 7>>, table |-> "teid", mode |-> "_DROP"])>>
LOCAL L2Program ==
  <<Table("ingress.dmac", "exact", 6, 4, {"ingress.forward", "bcast"}, "NoAction"),
    Table("keyless", "exact", 0, 4, {"NoAction"}, "NoAction"),
    Table("smac", "exact", 6, 2, {"_nop", "mac_learn"}, "mac_learn"),
    Table("teid", "exact", 1, 4, {"apply_meter"}, "NoAction")>>

LOCAL PsaFile == <<[ok |-> TRUE, code |-> "", key |-> Mac(1), port |-> 300],
                   [ok |-> TRUE, code |-> "", key |-> Mac(1), port |-> 11]>>
LOCAL PsaProgram ==
  <<Table("dmac_0", "exact", 6, 4, {"forward", "bcast"}, "bcast"),
    Table("smac_0", "exact", 6, 4, {"._nop"}, "._nop"),
    Table("table1", "lpm", 4, 8, {"korte"}, "korte")>>

LOCAL L3File ==
  <<Line("N", [key |-> <<0, 0, 1, 2>>, port |-> 1, smac |-> Mac(5), dmac |-> Mac(6)]),
    Line("E", [key |-> Ip(50, 0, 1, 2), prefix |-> 24, group |-> <<0, 0, 1, 2>>]),
    Line("E", [key |-> Ip(50, 0, 1, 2), prefix |-> 16, group |-> <<0, 0, 0, 1>>]),
    Line("E", [key |-> Ip(50, 0, 1, 9), prefix |-> 32, group |-> <<0, 0, 0, 2>>]),
    Line("M", [key |-> Mac(4)]), Wrong, Line("M", [key |-> Mac(7)])>>
LOCAL L3Program ==
  <<WithConst(Table(".ipv4_lpm", "lpm", 4, 12, {".set_nhop", "._drop"}, "._drop"),
              <<Const(Ip(50, 0, 0, 0), 8, "._drop")>>),
    Table(".macfwd", "exact", 6, 4, {"._nop", "._drop"}, "._drop"),
    Metadata(Table(".nexthops", "exact", 4, 4, {".forward", "._drop"}, "._drop"))>>

LOCAL SmgwFile ==
  <<Line("SMAC", [key |-> Mac(1)]), Line("DMAC", [key |-> Mac(2), port |-> 2]),
    Line("UE-SELECTOR", [key |-> Ip(1, 1, 1, 1)]),
    Line("M-FILTER", [key |-> <<1>>, mode |-> 1]), Line("M-FILTER", [key |-> <<2>>, mode |-> 2]),
    Line("NEXTHOP", [key |-> Ip(10, 0, 0, 1), prefix |-> 20, group |-> <<3>>]),
    Line("SMAC-DMAC", [key |-> <<3>>, port |-> 1, smac |-> Mac(5), dmac |-> Mac(6)])>>
LOCAL SmgwProgram ==
  <<Table("dmac_0", "exact", 6, 4, {"forward"}, ".NoAction"),
    Table("ipv4_forward_0", "exact", 1, 4, {"pkt_send"}, ".drop"),
    Table(".ipv4_lpm", "lpm", 4, 8, {"set_nhgrp", ".drop"}, ".drop"),
    Table("m_filter_0", "exact", 1, 4, {".drop", ".NoAction"}, "alert")>>

LOCAL FwdProgram == <<Metadata(Table(".t_fwd", "exact", 2, 4, {".forward", ".forward_rewrite", "._drop"}, "._drop"))>>
LOCAL DigestProgram ==
  <<WithConst(Table("ingress.t", "exact", 1, 2, {"ingress.found", "ingress.learn"}, "ingress.learn"),
              <<Const(<<9>>, 0, "ingress.found")>>)>>

Controllers ==
  Setup("l2fwd", TRUE, L2File, L2Program, {MacLearn(1, 13), MacLearn(4, 14)})
  \cup Setup("psa_l2fwd", TRUE, PsaFile, PsaProgram, {MacLearn(2, 5), LearnIp})
  \cup Setup("psa_l2fwd", TRUE, <<Wrong>>, PsaProgram, {})
  \cup Setup("l3fwd", TRUE, L3File, L3Program, {})
  \cup Setup("l3fwd", FALSE, << >>, L3Program, {})
  \cup Setup("l3-routing-full", FALSE, << >>, L3Program, {})
  \cup Setup("smgw", TRUE, SmgwFile, SmgwProgram, {})
  \cup Setup("smgw", TRUE, SmgwFile \o <<Line("TEID-RATE-LIMITER", [key |-> <<1>>])>>, SmgwProgram, {})
  \cup Setup("smgw", FALSE, << >>, SmgwProgram, {})
  \cup Setup("portfwd", TRUE, << >>, FwdProgram, {})
  \cup Setup("portfwd", FALSE, << >>, FwdProgram, {})
  \cup Setup("test-digest", FALSE, << >>, DigestProgram,
             {[name |-> "learn_digest", key |-> <<1>>, port |-> d] : d \in {2, 9}})
  \cup Setup("dummy", FALSE, << >>, DigestProgram, {})

\* In all of them, controller and program go together.
ASSUME ControllersAssumption == \A s \in Controllers : WellMatched(s)
===============================================================================
