-------------------------------- MODULE Messages --------------------------------
(***************************************************************************)
(* The messages between a controller and the switch: how messages.c builds *)
(* one in a buffer and converts its numbers, what write_p4_msg and         *)
(* read_p4_msg make of its length, and how handlers.c takes it apart.  A   *)
(* message is [type, length, table, matches, action, params]; read_size    *)
(* and param_size are the lengths of the last but two and the last.  Names *)
(* are kept whole, and so is the value of a parameter; the bitmap of a     *)
(* match is a sequence of bytes.                                           *)
(*                                                                         *)
(* Every message here fits its buffer of 2048 bytes: one match and three   *)
(* parameters are the most that any controller sends.  No controller sends *)
(* a type other than the three below.                                      *)
(***************************************************************************)
EXTENDS Integers, Sequences

P4T_CTRL_INITIALIZED == 5
P4T_SET_DEFAULT_ACTION == 103
P4T_ADD_TABLE_ENTRY == 104

P4_MAX_NUMBER_OF_FIELD_MATCHES == 10
P4_MAX_NUMBER_OF_ACTION_PARAMETERS == 10
MaxLength == 2048

\* sizeof the packed structs.
HeaderSize == 8
AddTableEntrySize == HeaderSize + 129
FieldMatchSize == 129 + 2 + 256
ActionSize == 129 + 1
ActionParameterSize == 128 + 4 + 128
SetDefaultActionSize == HeaderSize + 128 + ActionSize
-----------------------------------------------------------------------------
\* A name that was not written yet.
Unset == "unset"

create_p4_header == [type |-> 0, length |-> HeaderSize, table |-> Unset,
                     matches |-> << >>, action |-> Unset, params |-> << >>]

create_p4_add_table_entry(table) ==
  [create_p4_header EXCEPT !.type = P4T_ADD_TABLE_ENTRY, !.length = AddTableEntrySize,
                           !.table = table]

create_p4_set_default_action(table, action) ==
  [create_p4_header EXCEPT !.type = P4T_SET_DEFAULT_ACTION, !.length = SetDefaultActionSize,
                           !.table = table, !.action = action]

add_p4_field_match_exact(m, bitmap) ==
  [m EXCEPT !.length = @ + FieldMatchSize,
            !.matches = Append(@, [type |-> "exact", prefix_length |-> 0, bitmap |-> bitmap])]

add_p4_field_match_lpm(m, bitmap, prefix_length) ==
  [m EXCEPT !.length = @ + FieldMatchSize,
            !.matches = Append(@, [type |-> "lpm", prefix_length |-> prefix_length, bitmap |-> bitmap])]

add_p4_action(m, name) == [m EXCEPT !.length = @ + ActionSize, !.action = name]

\* Called once for each of the values.
add_p4_action_parameter(m, values) ==
  [m EXCEPT !.length = @ + Len(values) * ActionParameterSize, !.params = @ \o values]

\* An action with its parameters, one after the other.
WithAction(m, name, params) == add_p4_action_parameter(add_p4_action(m, name), params)
-----------------------------------------------------------------------------
\* htons and ntohs, on a machine of either byte order.
htons(n, big) == IF big THEN n ELSE (n % 256) * 256 + n \div 256

netconv_p4_header(m, big) == [m EXCEPT !.length = htons(@, big)]

netconv_p4_field_match_complex(match, big) ==
  IF match.type = "lpm" THEN [match EXCEPT !.prefix_length = htons(@, big)] ELSE match

\* What a sender does to a message it has built, before send_p4_msg.
Converted(m, big) ==
  [netconv_p4_header(m, big)
     EXCEPT !.matches = [i \in DOMAIN @ |-> netconv_p4_field_match_complex(@[i], big)]]

\* write_p4_msg and read_p4_msg: a message claiming more than the buffer holds
\* is not written.
Writable(m, big) == htons(m.length, big) <= MaxLength
-----------------------------------------------------------------------------
\* handlers.c: the p4_ctrl_msg the callback gets, or Refused.
Refused == [create_p4_header EXCEPT !.type = -1]

handle_p4_set_default_action(m) ==
  IF Len(m.params) > P4_MAX_NUMBER_OF_ACTION_PARAMETERS THEN Refused ELSE m

handle_p4_add_table_entry(m, big) ==
  IF \/ Len(m.matches) > P4_MAX_NUMBER_OF_FIELD_MATCHES
     \/ Len(m.params) > P4_MAX_NUMBER_OF_ACTION_PARAMETERS
  THEN Refused
  ELSE [m EXCEPT !.matches = [i \in DOMAIN @ |-> netconv_p4_field_match_complex(@[i], big)]]

handle_p4_msg(buffer, big) ==
  LET m == netconv_p4_header(buffer, big)
  IN  IF m.length > MaxLength THEN Refused
      ELSE IF m.type = P4T_SET_DEFAULT_ACTION THEN handle_p4_set_default_action(m)
      ELSE IF m.type = P4T_ADD_TABLE_ENTRY THEN handle_p4_add_table_entry(m, big)
      ELSE m
===============================================================================
