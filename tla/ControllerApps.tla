----------------------------- MODULE ControllerApps -----------------------------
(***************************************************************************)
(* The controller applications, as the messages they build: dpdk_l2fwd,    *)
(* dpdk_psa_l2fwd, dpdk_l3fwd, dpdk_l3-routing-full, dpdk_smgw,            *)
(* dpdk_portfwd, dpdk_test-digest and dpdk_dummy, over dpdk_ctrl_common    *)
(* and the dictionary.  A configuration file is a sequence of lines, a     *)
(* line a record: its format code, ok (sscanf found what it looks for) and *)
(* what was found, addresses as sequences of bytes.  Format codes with two *)
(* spellings have one here, and a number a controller stores in fewer bits *)
(* than it read is cut to them.  What a controller does when a switch      *)
(* connects is here, who sends it and when is in DataPath.                 *)
(***************************************************************************)
EXTENDS Messages, SequencesExt, FiniteSetsExt, TLC

Byte(n) == n % 256
Host(bytes, big) == IF big THEN bytes ELSE Reverse(bytes)
Concat(parts) == FlattenSeq(parts)

\* The bodies all the senders share.
Exact(table, bitmap, action, params) ==
  <<WithAction(add_p4_field_match_exact(create_p4_add_table_entry(table), bitmap), action, params)>>
Lpm(table, bitmap, prefix, action, params) ==
  <<WithAction(add_p4_field_match_lpm(create_p4_add_table_entry(table), bitmap, prefix), action, params)>>

notify_controller_initialized == <<[create_p4_header EXCEPT !.type = P4T_CTRL_INITIALIZED]>>
-----------------------------------------------------------------------------
\* dpdk_controller_dictionary.c: the newest translation of a name holds.
add_translation(dict, key, value) == (key :> value) @@ dict
translate(dict, key) == IF key \in DOMAIN dict THEN dict[key] ELSE key

\* dpdk_ctrl_common.c.  One byte of the port is sent, once per parameter.
send_exact_entry(dict, port, mac, table, action, pars) ==
  Exact(translate(dict, table), mac, translate(dict, action), [i \in 1 .. pars |-> Byte(port)])

send_lpm_entry(dict, ip, prefix_length, table, action, i1, i2, i3) ==
  Lpm(table, ip, prefix_length, translate(dict, action), <<i1, i2, i3>>)

\* Whatever the mode is, the action is apply_meter; the key is the first byte
\* of the number.
fill_teid_rate_limiter_table(teid, table, mode, big) ==
  IF mode \notin {"APPLY_METER", "_NOP", "_DROP"} THEN << >>
  ELSE Exact(table, SubSeq(Host(teid, big), 1, 1), "apply_meter", << >>)

fill_t_fwd_table(inport, port, mac, wmac, big) ==
  IF wmac THEN Exact(".t_fwd", Host(inport, big), ".forward_rewrite", <<port, mac>>)
  ELSE Exact(".t_fwd", Host(inport, big), ".forward", <<port>>)

set_table_default_action(dict, table, action) ==
  <<create_p4_set_default_action(translate(dict, table), translate(dict, action))>>
-----------------------------------------------------------------------------
\* dpdk_l2fwd_controller.c.  app is [dict, out]: the dictionary so far and the
\* messages so far.
l2fwd_start == [dict |-> << >>, out |-> << >>]

process_translation(app, line) ==
  [app EXCEPT !.dict = add_translation(@, line.from, line.to)]

process_set_default(app, line) ==
  [app EXCEPT !.out = @ \o set_table_default_action(app.dict, line.table, line.action)]

process_mac_fwd(app, line) ==
  [app EXCEPT !.out = @ \o send_exact_entry(app.dict, line.port, line.key, "dmac", "forward", 1)
                        \o send_exact_entry(app.dict, line.port, line.key, "smac", "_nop", 0)]

\* matches is what sscanf counts: nine with the header, ten with the action, and the
\* names of parameters follow.  From the action on two parameters are sent, named or
\* not; with nine matches line.action is what the array of the action happens to hold.
process_exact(app, line) ==
  [app EXCEPT !.out = @ \o send_exact_entry(app.dict, line.port, line.key, line.table,
                                            line.action, IF line.matches < 6 + 3 + 1 THEN 0 ELSE 2)]

process_teid_rate_limiter(app, line, big) ==
  [app EXCEPT !.out = @ \o fill_teid_rate_limiter_table(line.key, line.table, line.mode, big)]

\* Lines with other codes, UE-SELECTOR to DOWNLINK among them, and lines that do
\* not have what their code calls for change nothing.
process_line(app, line, big) ==
  IF ~line.ok THEN app
  ELSE CASE line.code = "TRANSLATION"       -> process_translation(app, line)
         [] line.code = "SET-DEFAULT"       -> process_set_default(app, line)
         [] line.code = "MAC-FWD"           -> process_mac_fwd(app, line)
         [] line.code = "EXACT"             -> process_exact(app, line)
         [] line.code = "TEID-RATE-LIMITER" -> process_teid_rate_limiter(app, line, big)
         [] OTHER                           -> app

process_config_file(app, file, big) ==
  LET after[i \in 0 .. Len(file)] ==
        IF i = 0 THEN app ELSE process_line(after[i - 1], file[i], big)
  IN  after[Len(file)]

\* undigest_macport takes the first of the two bytes of the port.
undigest_port(digest, big) == IF big THEN digest.port \div 256 ELSE Byte(digest.port)

\* mac_learn_digest and test_learn_ip, by the name of the digest.
l2fwd_dhf(dict, digest, big) ==
  IF digest.name = "mac_learn_digest"
  THEN send_exact_entry(dict, undigest_port(digest, big), digest.key, "dmac", "forward", 1)
         \o send_exact_entry(dict, undigest_port(digest, big), digest.key, "smac", "_nop", 0)
  ELSE IF digest.name = "test_learn_ip"
  THEN send_lpm_entry(dict, digest.key, digest.prefix, "table1", "korte",
                      digest.i[1], digest.i[2], digest.i[3])
  ELSE << >>
-----------------------------------------------------------------------------
\* The other readers of files stop at the first line that is not as expected,
\* after they have acted on the ones before.
Accepted(file, codes) ==
  LET wrong == {i \in DOMAIN file : ~file[i].ok \/ file[i].code \notin codes}
  IN  IF wrong = {} THEN file ELSE SubSeq(file, 1, Min(wrong) - 1)

\* dpdk_psa_l2fwd_controller.c
psa_fill_smac_table(mac) == Exact("smac_0", mac, "._nop", << >>)
psa_fill_dmac_table(port, mac) == Exact("dmac_0", mac, "forward", <<port>>)
set_default_action_smac == <<create_p4_set_default_action("smac_0", "mac_learn")>>
set_default_action_dmac == <<create_p4_set_default_action("dmac_0", "bcast")>>

\* A wrong line makes main return: there is no controller then.
read_macs_and_ports_from_file(file) == \A i \in DOMAIN file : file[i].ok

psa_entry(line) == psa_fill_dmac_table(line.port, line.key) \o psa_fill_smac_table(line.key)

psa_init(file) ==
  set_default_action_smac \o set_default_action_dmac \o Concat([i \in DOMAIN file |-> psa_entry(file[i])])
    \o notify_controller_initialized

psa_test_learn_ip(digest) ==
  Lpm("table1", digest.key, digest.prefix, "korte", digest.i)

psa_dhf(digest) ==
  IF digest.name = "mac_learn_digest" THEN psa_entry(digest)
  ELSE IF digest.name = "test_learn_ip" THEN psa_test_learn_ip(digest) ELSE << >>
-----------------------------------------------------------------------------
\* dpdk_l3fwd_controller.c and dpdk_l3-routing-full_controller.c
fill_macfwd_table(mac) == Exact(".macfwd", mac, "._nop", << >>)
fill_ipv4_lpm_table(ip, prefix, group) == Lpm(".ipv4_lpm", ip, Byte(prefix), ".set_nhop", <<group>>)
fill_nexthops_table(group, port, smac, dmac, big) ==
  Exact(".nexthops", Host(group, big), ".forward", <<dmac, smac, Byte(port)>>)

set_default_action_macfwd == <<create_p4_set_default_action(".macfwd", "._drop")>>
set_default_action_nexthops == <<create_p4_set_default_action(".nexthops", "._drop")>>
set_default_action_ipv4_lpm == <<create_p4_set_default_action(".ipv4_lpm", "._drop")>>

l3fwd_entry(line, big) ==
  CASE line.code = "M" -> fill_macfwd_table(line.key)
    [] line.code = "E" -> fill_ipv4_lpm_table(line.key, line.prefix, line.group)
    [] line.code = "N" -> fill_nexthops_table(line.key, line.port, line.smac, line.dmac, big)

l3fwd_read_config_from_file(file, big) ==
  LET lines == Accepted(file, {"M", "E", "N"})
  IN  Concat([i \in DOMAIN lines |-> l3fwd_entry(lines[i], big)])

l3fwd_init_complex(file, big) ==
  set_default_action_macfwd \o set_default_action_nexthops \o set_default_action_ipv4_lpm
    \o l3fwd_read_config_from_file(file, big)

\* The two lines a controller without a file goes by; the group is given.
LOCAL Mac == <<210, 105, 15, 168, 57, 156>>
LOCAL SMac == <<210, 105, 15, 0, 0, 156>>
BuiltIn(group) == <<[code |-> "E", ok |-> TRUE, key |-> <<10, 0, 99, 99>>, prefix |-> 16, group |-> group],
                    [code |-> "N", ok |-> TRUE, key |-> group, port |-> 15, smac |-> SMac, dmac |-> Mac]>>
NoGroup == <<0, 0, 0, 0>>
GroupOne == <<0, 0, 0, 1>>

l3fwd_init_simple(big) == l3fwd_read_config_from_file(BuiltIn(NoGroup), big)

l3_routing_full_init_simple(big) ==
  set_default_action_nexthops \o set_default_action_ipv4_lpm
    \o l3fwd_read_config_from_file(BuiltIn(GroupOne), big)
-----------------------------------------------------------------------------
\* dpdk_smgw_controller.c.  SMAC lines are read and UE-SELECTOR lines checked,
\* and nothing is sent for them.
smgw_fill_dmac_table(port, mac) == Exact("dmac_0", mac, "forward", <<Byte(port)>>)

\* Mode 2 is DROP, 1 is NOP.
smgw_fill_m_filter_table(color, mode) ==
  Exact("m_filter_0", color, IF mode = 2 THEN ".NoAction" ELSE ".drop", << >>)

smgw_fill_ipv4_lpm_table(ip, prefix, group) == Lpm(".ipv4_lpm", ip, Byte(prefix), "set_nhgrp", <<group>>)
smgw_fill_ipv4_forward_table(group, port, dmac) ==
  Exact("ipv4_forward_0", group, "pkt_send", <<dmac, Byte(port)>>)

SmgwCodes == {"SMAC", "UE-SELECTOR", "DMAC", "M-FILTER", "NEXTHOP", "SMAC-DMAC"}

smgw_entry(line) ==
  CASE line.code \in {"SMAC", "UE-SELECTOR"} -> << >>
    [] line.code = "DMAC"      -> smgw_fill_dmac_table(line.port, line.key)
    [] line.code = "M-FILTER"  -> smgw_fill_m_filter_table(line.key, line.mode)
    [] line.code = "NEXTHOP"   -> smgw_fill_ipv4_lpm_table(line.key, line.prefix, line.group)
    [] line.code = "SMAC-DMAC" -> smgw_fill_ipv4_forward_table(line.key, line.port, line.dmac)

\* A TEID-RATE-LIMITER line calls a function of four parameters with two, the
\* second of them a small number where the name of a table is expected: the
\* process ends there.
smgw_dies(file) ==
  \E i \in DOMAIN file :
    /\ file[i].ok /\ file[i].code = "TEID-RATE-LIMITER"
    /\ Accepted(SubSeq(file, 1, i - 1), SmgwCodes) = SubSeq(file, 1, i - 1)

smgw_read_config_from_file(file) ==
  LET lines == Accepted(file, SmgwCodes) IN Concat([i \in DOMAIN lines |-> smgw_entry(lines[i])])

smgw_init_complex(file) ==
  set_table_default_action(<< >>, ".ue_selector", ".drop")
    \o set_table_default_action(<< >>, ".ipv4_forward", ".drop")
    \o set_table_default_action(<< >>, ".ipv4_lpm", ".drop")
    \o smgw_read_config_from_file(file)

smgw_init_simple == smgw_fill_ipv4_lpm_table(<<10, 0, 99, 99>>, 16, <<0>>)
-----------------------------------------------------------------------------
\* dpdk_portfwd_controller.c.  With a configuration file main tries to read the
\* one named like the port, argv[1], and returns: the globals are always zero.
LOCAL Zero == <<0, 0>>
portfwd_init(big) ==
  set_table_default_action(<< >>, ".t_fwd", "._drop")
    \o fill_t_fwd_table(Zero, 0, << >>, FALSE, big) \o fill_t_fwd_table(Zero, 0, << >>, FALSE, big)
    \o notify_controller_initialized

\* dpdk_test-digest_controller.c.  The key is the data, not the address.
test_digest_fill_table(addr, dd) == Exact("ingress.t", <<dd>>, "ingress.found", <<dd>>)
test_digest_dhf(digest) ==
  IF digest.name = "learn_digest" THEN test_digest_fill_table(digest.key, digest.port) ELSE << >>
test_digest_init ==
  set_table_default_action(<< >>, "ingress.t", "ingress.learn") \o notify_controller_initialized

\* dpdk_dummy_controller.c
dummy_init == notify_controller_initialized
===============================================================================
