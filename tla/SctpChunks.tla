------------------------------ MODULE SctpChunks ------------------------------
(***************************************************************************)
(* SCTP packets of a script: how the constructors of sctp_packet.c store   *)
(* each chunk, parameter and error cause the parser has read, with a       *)
(* NOCHECK flag for what the script left open ("..."), which open fields   *)
(* new_sctp_packet refuses, and how verify_sctp in run_packet.c compares   *)
(* a sniffed packet with the stored one, flag by flag.                     *)
(*                                                                         *)
(* A field holds 1, or 0 when the kernel sends something else; an open     *)
(* field is stored as 0.  Lengths count units (list entries, value bytes)  *)
(* above the fixed part of the struct.  What the kernel sends has already  *)
(* been mapped to the script's numbers (SctpAssociation).                  *)
(***************************************************************************)
EXTENDS Integers, SequencesExt

CONSTANTS
  Open,         \* "..." in the script
  Short,       \* val=[...] with fewer bytes than len says
  MaxU32,      \* the number 2^32 - 1
  Kinds,       \* the chunks written on their own
  Bundled,     \* the chunks that are also written in bundles
  MaxChunks,   \* bound on the chunks of a bundle
  MaxOpen,     \* bound on the fields left open in one chunk
  MaxOff       \* bound on the fields of a live chunk that are not 1

ASSUME BoundsAssumption ==
  /\ MaxChunks \in Nat /\ MaxOpen \in Nat /\ MaxOff \in Nat /\ Bundled \subseteq Kinds
  /\ Kinds \subseteq
       {"CHUNK", "DATA", "I_DATA", "INIT", "INIT_ACK", "RECONFIG", "SACK", "NR_SACK", "HEARTBEAT",
        "HEARTBEAT_ACK", "ABORT", "ERROR", "COOKIE_ECHO", "COOKIE_ACK", "PAD", "SHUTDOWN", "SHUTDOWN_ACK",
        "SHUTDOWN_COMPLETE", "ECNE", "CWR", "FORWARD_TSN", "I_FORWARD_TSN"}

VARIABLES
  written,     \* the chunks as the script writes them
  items,       \* the chunk list the constructors have made of them
  direction,   \* of the packet, "none" before new_sctp_packet
  live,        \* the chunks of the sniffed packet
  verdict      \* {}, {"refused"} or {"made"}; after verify_sctp what it may return

chunkVars == <<written, items, direction, live, verdict>>

NumberBytes == 10   \* stands for the numbers in front of the variable part

(* The fields of f, and those of g that f does not have. *)
Joined(f, g) == [x \in (DOMAIN f) \cup (DOMAIN g) |-> IF x \in DOMAIN f THEN f[x] ELSE g[x]]

Flags(c, names) == IF c THEN names ELSE {}
Value(x) == IF x = Open THEN 0 ELSE x
List(x) == IF x = Open THEN <<>> ELSE x
Total(s) == FoldLeft(LAMBDA a, b : a + b, 0, s)
Cat(s) == FoldLeft(LAMBDA a, b : a \o b, <<>>, s)

------------------------------------------------------------------------------
(* Parameters, as written: [kind, type, length, val], where val maps field *)
(* names to what is written, and "sub" of a nesting parameter or cause to  *)
(* the list of parameters (or the chunk) within.                           *)
Stored(p) == IF p.length = Open THEN 0 ELSE p.length

sctp_generic_parameter_new(p) ==
  LET v == p.val.value IN
  [type |-> IF p.type = Open THEN "0" ELSE p.type,
   length |-> Stored(p),
   bytes |-> IF v = Short THEN 0 ELSE Stored(p),
   val |-> [value |-> IF v \in {Open, Short} THEN <<>> ELSE v],
   nocheck |-> Flags(p.type = Open, {"type"}) \cup Flags(p.length = Open, {"length"})
                 \cup Flags(v = Open, {"value"}) \cup Flags(v = Short, {"partial"})]

sctp_heartbeat_information_parameter_new(p) == sctp_generic_parameter_new(p)

Tlv(p, value, length, nocheck) ==
  [type |-> p.type, length |-> length, bytes |-> length, val |-> [value |-> value],
   nocheck |-> nocheck]

(* addr=..., incr=... and the like: the size is known all the same. *)
FixedSize(p) ==
  Tlv(p, IF p.val.value = Open THEN <<0>> ELSE p.val.value, 1, Flags(p.val.value = Open, {"value"}))

sctp_ipv4_address_parameter_new(p) == FixedSize(p)
sctp_ipv6_address_parameter_new(p) == FixedSize(p)
sctp_cookie_preservative_parameter_new(p) == FixedSize(p)
sctp_adaptation_indication_parameter_new(p) == FixedSize(p)

(* types=..., addr=..., info=...: neither value nor size is known. *)
OpenSize(p) ==
  LET v == List(p.val.value) IN
  Tlv(p, v, Len(v), Flags(p.val.value = Open, {"length", "value"}))

sctp_hostname_address_parameter_new(p) == OpenSize(p)
sctp_supported_address_types_parameter_new(p) == OpenSize(p)
sctp_supported_extensions_parameter_new(p) == OpenSize(p)

(* Never with a value: the cookie is filled with 'A', the padding with 'P'. *)
sctp_state_cookie_parameter_new(p) ==
  Tlv(p, [i \in 1..Stored(p) |-> 1], Stored(p), Flags(p.length = Open, {"length"}) \cup {"value"})

sctp_pad_parameter_new(p) ==
  Tlv(p, [i \in 1..Stored(p) |-> 1], Stored(p), Flags(p.length = Open, {"length"}))

sctp_ecn_capable_parameter_new(p) == Tlv(p, <<>>, 0, {})
sctp_forward_tsn_supported_parameter_new(p) == Tlv(p, <<>>, 0, {})

(* Parameters within a parameter or a cause: their bytes become its value. *)
SubItem(q) ==
  IF q.kind = "PAD" THEN sctp_pad_parameter_new(q) ELSE sctp_generic_parameter_new(q)
SubItems(p) == [i \in DOMAIN List(p.val.sub) |-> SubItem(p.val.sub[i])]
Filled(q) == [i \in 1..q.bytes |-> IF i \in DOMAIN q.val.value THEN q.val.value[i] ELSE 0]
Image(q) == <<IF "type" \in q.nocheck THEN 0 ELSE 1>> \o Filled(q)
ListLength(qs) == Total([i \in DOMAIN qs |-> 1 + qs[i].bytes])
SomeFlag(qs, flag) == \E i \in DOMAIN qs : flag \in qs[i].nocheck

Nesting(p) ==
  LET qs == SubItems(p) IN
  Tlv(p, Cat([i \in DOMAIN qs |-> Image(qs[i])]), ListLength(qs),
      Flags(p.val.sub = Open, {"length", "value"}) \cup Flags(SomeFlag(qs, "length"), {"length"})
        \cup Flags(SomeFlag(qs, "value"), {"value"}))

sctp_unrecognized_parameters_parameter_new(p) == Nesting(p)

(* Parameters of RECONFIG: a flag of its own for each number. *)
Reconfig(p, numbers, length) ==
  [type |-> p.type, length |-> NumberBytes + length, bytes |-> NumberBytes + length,
   val |-> [f \in DOMAIN p.val |-> Value(p.val[f])],
   nocheck |-> {f \in numbers : p.val[f] = Open}]

sctp_outgoing_ssn_reset_request_parameter_new(p) ==
  Reconfig(p, {"reqsn", "respsn", "last_tsn"}, Len(p.val.sids))
sctp_incoming_ssn_reset_request_parameter_new(p) == Reconfig(p, {"reqsn"}, Len(p.val.sids))
sctp_ssn_tsn_reset_request_parameter_new(p) == Reconfig(p, {"reqsn"}, 0)
sctp_add_outgoing_streams_request_parameter_new(p) ==
  Reconfig(p, {"reqsn", "number_of_new_streams"}, 0)
sctp_add_incoming_streams_request_parameter_new(p) ==
  Reconfig(p, {"reqsn", "number_of_new_streams"}, 0)

NextTsns == {"sender_next_tsn", "receiver_next_tsn"}
sctp_reconfig_response_parameter_new(p) ==
  Reconfig(p, DOMAIN p.val, IF NextTsns \subseteq DOMAIN p.val THEN 1 ELSE 0)

(* Open type and length are stored as 0 and leave no flag; -1 is a length  *)
(* field that no parameter has.                                            *)
sctp_generic_reconfig_request_parameter_new(p) ==
  [type |-> IF p.type = Open THEN "0" ELSE p.type,
   length |-> IF p.length = Open THEN -1 ELSE p.length, bytes |-> NumberBytes,
   val |-> [reqsn |-> Value(p.val.reqsn)], nocheck |-> Flags(p.val.reqsn = Open, {"reqsn"})]

Parameter(p) ==
  CASE p.kind = "PARAMETER"               -> sctp_generic_parameter_new(p)
    [] p.kind = "HEARTBEAT_INFORMATION"   -> sctp_heartbeat_information_parameter_new(p)
    [] p.kind = "IPV4_ADDRESS"            -> sctp_ipv4_address_parameter_new(p)
    [] p.kind = "IPV6_ADDRESS"            -> sctp_ipv6_address_parameter_new(p)
    [] p.kind = "STATE_COOKIE"            -> sctp_state_cookie_parameter_new(p)
    [] p.kind = "UNRECOGNIZED_PARAMETER"  -> sctp_unrecognized_parameters_parameter_new(p)
    [] p.kind = "COOKIE_PRESERVATIVE"     -> sctp_cookie_preservative_parameter_new(p)
    [] p.kind = "HOSTNAME_ADDRESS"        -> sctp_hostname_address_parameter_new(p)
    [] p.kind = "SUPPORTED_ADDRESS_TYPES" -> sctp_supported_address_types_parameter_new(p)
    [] p.kind = "SUPPORTED_EXTENSIONS"    -> sctp_supported_extensions_parameter_new(p)
    [] p.kind = "ADAPTATION_INDICATION"   -> sctp_adaptation_indication_parameter_new(p)
    [] p.kind = "PAD"                     -> sctp_pad_parameter_new(p)
    [] p.kind = "ECN_CAPABLE"             -> sctp_ecn_capable_parameter_new(p)
    [] p.kind = "FORWARD_TSN_SUPPORTED"   -> sctp_forward_tsn_supported_parameter_new(p)
    [] p.kind = "OUTGOING_SSN_RESET"      -> sctp_outgoing_ssn_reset_request_parameter_new(p)
    [] p.kind = "INCOMING_SSN_RESET"      -> sctp_incoming_ssn_reset_request_parameter_new(p)
    [] p.kind = "SSN_TSN_RESET"           -> sctp_ssn_tsn_reset_request_parameter_new(p)
    [] p.kind = "RECONFIG_RESPONSE"       -> sctp_reconfig_response_parameter_new(p)
    [] p.kind = "ADD_OUTGOING_STREAMS"    -> sctp_add_outgoing_streams_request_parameter_new(p)
    [] p.kind = "ADD_INCOMING_STREAMS"    -> sctp_add_incoming_streams_request_parameter_new(p)
    [] p.kind = "RECONFIG_REQUEST_GENERIC" -> sctp_generic_reconfig_request_parameter_new(p)

sctp_parameter_list_append(list) == [i \in DOMAIN List(list) |-> Parameter(list[i])]

------------------------------------------------------------------------------
(* Chunks, as written: [kind, val].  An item has the fields of the struct, *)
(* the blocks of a SACK in one array, and the parameter or cause items.    *)
NoBlocks == [gaps |-> 0, nr_gaps |-> 0, dups |-> 0]

ChunkItem(type, w, fields) ==
  [type |-> type, val |-> Joined([f \in fields |-> Value(w.val[f])], [value |-> <<>>]),
   nocheck |-> {f \in fields : w.val[f] = Open}, length |-> 0, blocks |-> <<>>,
   count |-> NoBlocks, items |-> <<>>]

Sized(item, len, value, nocheck) ==
  [item EXCEPT !.length = len, !.val.value = value, !.nocheck = @ \cup nocheck]

sctp_generic_chunk_new(w) ==
  LET v == w.val.value IN
  Sized(ChunkItem(IF w.val.type = Open THEN "DATA" ELSE w.val.type, w, {"flgs"}), Value(w.val.len),
        IF v = Open THEN [i \in 1..Value(w.val.len) |-> 0] ELSE IF v = Short THEN <<>> ELSE v,
        Flags(w.val.type = Open, {"type"}) \cup Flags(w.val.len = Open, {"length"})
          \cup Flags(v = Open, {"value"}) \cup Flags(v = Short, {"partial"}))

WithData(item, w) ==
  Sized(item, NumberBytes + Value(w.val.len), <<>>, Flags(w.val.len = Open, {"length", "value"}))

sctp_data_chunk_new(w) ==
  WithData(ChunkItem("DATA", w, {"flgs", "tsn", "sid", "ssn", "ppid"}), w)

(* One of ppid and fsn is always open: they share the field of a union. *)
sctp_i_data_chunk_new(w) ==
  LET item == WithData(ChunkItem("I_DATA", w, {"flgs", "tsn", "sid", "mid", "ppid", "fsn"}), w)
      union == IF w.val.ppid = Open THEN Value(w.val.fsn) ELSE w.val.ppid IN
  [item EXCEPT !.val = Joined([res |-> 0, field |-> union], @)]

WithParameters(item, w, open) ==
  LET ps == sctp_parameter_list_append(w.val.params) IN
  [item EXCEPT !.items = ps, !.length = ListLength(ps),
     !.nocheck = @ \cup Flags(w.val.params = Open, open) \cup Flags(SomeFlag(ps, "length"), {"length"})]

InitFields == {"flgs", "tag", "a_rwnd", "os", "is", "tsn"}

sctp_init_chunk_new(w) ==
  WithParameters(ChunkItem("INIT", w, InitFields), w, {"length", "opt_param"})
sctp_init_ack_chunk_new(w) ==
  WithParameters(ChunkItem("INIT_ACK", w, InitFields), w, {"length", "opt_param"})

(* "..." for its parameters leaves no flag: they are taken to be none. *)
sctp_reconfig_chunk_new(w) == WithParameters(ChunkItem("RECONFIG", w, {"flgs"}), w, {})

(* The blocks of all lists follow one another in one array. *)
Blocks(w, l) == IF l \in DOMAIN w.val THEN List(w.val[l]) ELSE <<>>

WithBlocks(item, w, lists) ==
  LET all == Blocks(w, "gaps") \o Blocks(w, "nr_gaps") \o Blocks(w, "dups") IN
  [item EXCEPT !.blocks = all, !.length = Len(all),
     !.count = [l \in DOMAIN NoBlocks |-> Len(Blocks(w, l))],
     !.nocheck = @ \cup {l \in lists : w.val[l] = Open}
                   \cup Flags(\E l \in lists : w.val[l] = Open, {"length"})]

sctp_sack_chunk_new(w) ==
  WithBlocks(ChunkItem("SACK", w, {"flgs", "cum_tsn", "a_rwnd"}), w, {"gaps", "dups"})
sctp_nr_sack_chunk_new(w) ==
  WithBlocks(ChunkItem("NR_SACK", w, {"flgs", "cum_tsn", "a_rwnd"}), w, {"gaps", "nr_gaps", "dups"})

WithInfo(item, w) ==
  LET info == sctp_heartbeat_information_parameter_new(w.val.info) IN
  Sized(item, 1 + info.bytes, Image(info), info.nocheck \cap {"length", "value"})

sctp_heartbeat_chunk_new(w) == WithInfo(ChunkItem("HEARTBEAT", w, {"flgs"}), w)
sctp_heartbeat_ack_chunk_new(w) == WithInfo(ChunkItem("HEARTBEAT_ACK", w, {"flgs"}), w)

sctp_cookie_echo_chunk_new(w) ==
  LET v == w.val.value IN
  Sized(ChunkItem("COOKIE_ECHO", w, {"flgs"}), Value(w.val.len),
        IF v = Open THEN [i \in 1..Value(w.val.len) |-> 1] ELSE v,
        Flags(w.val.len = Open, {"length"}) \cup Flags(v = Open, {"value"}))

sctp_pad_chunk_new(w) ==
  Sized(ChunkItem("PAD", w, {"flgs"}), Value(w.val.len), [i \in 1..Value(w.val.len) |-> 1],
        Flags(w.val.len = Open, {"length"}) \cup {"value"})

sctp_shutdown_chunk_new(w) == [ChunkItem("SHUTDOWN", w, {"flgs", "cum_tsn"}) EXCEPT !.length = 1]
sctp_shutdown_ack_chunk_new(w) == ChunkItem("SHUTDOWN_ACK", w, {"flgs"})
sctp_cookie_ack_chunk_new(w) == ChunkItem("COOKIE_ACK", w, {"flgs"})
sctp_ecne_chunk_new(w) == ChunkItem("ECNE", w, {"flgs", "lowest_tsn"})
sctp_cwr_chunk_new(w) == ChunkItem("CWR", w, {"flgs", "lowest_tsn"})
sctp_shutdown_complete_chunk_new(w) == ChunkItem("SHUTDOWN_COMPLETE", w, {"flgs"})

(* cum_tsn arrives as a u32, so that 2^32 - 1 is the same as "..." here;   *)
(* ids=[] is not checked, but its length is; the flags are always 0.       *)
WithIds(type, w) ==
  [ChunkItem(type, w, {}) EXCEPT
     !.val = Joined([flgs |-> 0, cum_tsn |-> IF w.val.cum_tsn \in {Open, MaxU32} THEN 0
                                            ELSE w.val.cum_tsn], @),
     !.blocks = List(w.val.ids), !.length = Len(List(w.val.ids)),
     !.nocheck = Flags(w.val.cum_tsn \in {Open, MaxU32}, {"cum_tsn"}) \cup Flags(w.val.ids = Open, {"length"})
                   \cup Flags(List(w.val.ids) = <<>>, {"ids"})]

sctp_forward_tsn_chunk_new(w) == WithIds("FORWARD_TSN", w)
sctp_i_forward_tsn_chunk_new(w) == WithIds("I_FORWARD_TSN", w)

------------------------------------------------------------------------------
(* Error causes have the shape of parameters; "type" is the cause code and *)
(* "value" the cause information.                                          *)
sctp_generic_cause_new(c) == sctp_generic_parameter_new(c)
sctp_invalid_stream_identifier_cause_new(c) == FixedSize(c)
sctp_stale_cookie_error_cause_new(c) == FixedSize(c)
sctp_no_user_data_cause_new(c) == FixedSize(c)
sctp_missing_mandatory_parameter_cause_new(c) == OpenSize(c)
sctp_user_initiated_abort_cause_new(c) == OpenSize(c)
sctp_protocol_violation_cause_new(c) == OpenSize(c)
sctp_out_of_resources_cause_new(c) == Tlv(c, <<>>, 0, {})
sctp_invalid_mandatory_parameter_cause_new(c) == Tlv(c, <<>>, 0, {})
sctp_cookie_received_while_shutdown_cause_new(c) == Tlv(c, <<>>, 0, {})
sctp_unrecognized_parameters_cause_new(c) == Nesting(c)
sctp_restart_with_new_addresses_cause_new(c) == Nesting(c)

(* One parameter only, and its open type counts as well. *)
sctp_unresolvable_address_cause_new(c) ==
  [Nesting(c) EXCEPT !.nocheck = @ \cup Flags(SomeFlag(SubItems(c), "type"), {"value"})]

(* One chunk (here a SHUTDOWN): of its own fields only the flags count. *)
sctp_unrecognized_chunk_type_cause_new(c) ==
  IF c.val.chunk = Open THEN Tlv(c, <<>>, 0, {"length", "value"})
  ELSE LET item == sctp_shutdown_chunk_new(c.val.chunk) IN
       Tlv(c, <<item.val.flgs, item.val.cum_tsn>>, 2, Flags("flgs" \in item.nocheck, {"value"}))

Cause(c) ==
  CASE c.kind = "CAUSE"                          -> sctp_generic_cause_new(c)
    [] c.kind = "INVALID_STREAM_IDENTIFIER"      -> sctp_invalid_stream_identifier_cause_new(c)
    [] c.kind = "MISSING_MANDATORY_PARAMETER"    -> sctp_missing_mandatory_parameter_cause_new(c)
    [] c.kind = "STALE_COOKIE_ERROR"             -> sctp_stale_cookie_error_cause_new(c)
    [] c.kind = "OUT_OF_RESOURCE"                -> sctp_out_of_resources_cause_new(c)
    [] c.kind = "UNRESOLVABLE_ADDRESS"           -> sctp_unresolvable_address_cause_new(c)
    [] c.kind = "UNRECOGNIZED_CHUNK_TYPE"        -> sctp_unrecognized_chunk_type_cause_new(c)
    [] c.kind = "INVALID_MANDATORY_PARAMETER"    -> sctp_invalid_mandatory_parameter_cause_new(c)
    [] c.kind = "UNRECOGNIZED_PARAMETERS"        -> sctp_unrecognized_parameters_cause_new(c)
    [] c.kind = "NO_USER_DATA"                   -> sctp_no_user_data_cause_new(c)
    [] c.kind = "COOKIE_RECEIVED_WHILE_SHUTDOWN" -> sctp_cookie_received_while_shutdown_cause_new(c)
    [] c.kind = "RESTART_WITH_NEW_ADDRESSES"     -> sctp_restart_with_new_addresses_cause_new(c)
    [] c.kind = "USER_INITIATED_ABORT"           -> sctp_user_initiated_abort_cause_new(c)
    [] c.kind = "PROTOCOL_VIOLATION"             -> sctp_protocol_violation_cause_new(c)

sctp_cause_list_append(list) == [i \in DOMAIN List(list) |-> Cause(list[i])]

WithCauses(item, w) ==
  LET cs == sctp_cause_list_append(w.val.causes) IN
  [item EXCEPT !.items = cs, !.length = ListLength(cs),
     !.nocheck = @ \cup Flags(w.val.causes = Open, {"length", "opt_causes"})
                   \cup Flags(SomeFlag(cs, "type") \/ SomeFlag(cs, "value"), {"value"})
                   \cup Flags(SomeFlag(cs, "length"), {"length"})]

sctp_abort_chunk_new(w) == WithCauses(ChunkItem("ABORT", w, {"flgs"}), w)
sctp_error_chunk_new(w) == WithCauses(ChunkItem("ERROR", w, {"flgs"}), w)

NewChunk(w) ==
  CASE w.kind = "CHUNK"             -> sctp_generic_chunk_new(w)
    [] w.kind = "DATA"              -> sctp_data_chunk_new(w)
    [] w.kind = "INIT"              -> sctp_init_chunk_new(w)
    [] w.kind = "INIT_ACK"          -> sctp_init_ack_chunk_new(w)
    [] w.kind = "SACK"              -> sctp_sack_chunk_new(w)
    [] w.kind = "NR_SACK"           -> sctp_nr_sack_chunk_new(w)
    [] w.kind = "HEARTBEAT"         -> sctp_heartbeat_chunk_new(w)
    [] w.kind = "HEARTBEAT_ACK"     -> sctp_heartbeat_ack_chunk_new(w)
    [] w.kind = "ABORT"             -> sctp_abort_chunk_new(w)
    [] w.kind = "SHUTDOWN"          -> sctp_shutdown_chunk_new(w)
    [] w.kind = "SHUTDOWN_ACK"      -> sctp_shutdown_ack_chunk_new(w)
    [] w.kind = "ERROR"             -> sctp_error_chunk_new(w)
    [] w.kind = "COOKIE_ECHO"       -> sctp_cookie_echo_chunk_new(w)
    [] w.kind = "COOKIE_ACK"        -> sctp_cookie_ack_chunk_new(w)
    [] w.kind = "ECNE"              -> sctp_ecne_chunk_new(w)
    [] w.kind = "CWR"               -> sctp_cwr_chunk_new(w)
    [] w.kind = "SHUTDOWN_COMPLETE" -> sctp_shutdown_complete_chunk_new(w)
    [] w.kind = "I_DATA"            -> sctp_i_data_chunk_new(w)
    [] w.kind = "PAD"               -> sctp_pad_chunk_new(w)
    [] w.kind = "FORWARD_TSN"       -> sctp_forward_tsn_chunk_new(w)
    [] w.kind = "I_FORWARD_TSN"     -> sctp_i_forward_tsn_chunk_new(w)
    [] w.kind = "RECONFIG"          -> sctp_reconfig_chunk_new(w)

------------------------------------------------------------------------------
(* new_sctp_packet: what may not be left open in a packet to be sent. *)
RequiredOfParameter(type) ==
  CASE type = "STATE_COOKIE"         -> {}
    [] type = "OUTGOING_SSN_RESET"   -> {"reqsn", "respsn", "last_tsn", "length", "value"}
    [] type = "INCOMING_SSN_RESET"   -> {"reqsn", "length", "value"}
    [] type = "SSN_TSN_RESET"        -> {"reqsn", "length", "value"}
    [] type = "RECONFIG_RESPONSE"    -> {"result", "length", "value"} \cup NextTsns
    [] type = "ADD_OUTGOING_STREAMS" -> {"reqsn", "number_of_new_streams", "length", "value"}
    [] type = "ADD_INCOMING_STREAMS" -> {"reqsn", "number_of_new_streams", "length", "value"}
    [] OTHER                         -> {"length", "value"}

\* Mutant: the TSN of an inbound DATA chunk may be left open.
RequiredOfChunk_tsn(type) ==
  CASE type = "DATA"                   -> {"flgs", "length", "sid", "ssn", "ppid"}
    [] type \in {"INIT", "INIT_ACK"}   -> {"tag", "a_rwnd", "os", "is", "opt_param"}
    [] type = "SACK"                   -> {"cum_tsn", "a_rwnd", "gaps", "dups"}
    [] type = "NR_SACK"                -> {"cum_tsn", "a_rwnd", "gaps", "nr_gaps", "dups"}
    [] type \in {"ABORT", "ERROR", "PAD"} -> {"length"}
    [] type = "SHUTDOWN"               -> {"cum_tsn"}
    [] type \in {"ECNE", "CWR"}        -> {"lowest_tsn"}
    [] type = "FORWARD_TSN"            -> {"cum_tsn"}
    [] type \in {"HEARTBEAT", "HEARTBEAT_ACK", "SHUTDOWN_ACK", "COOKIE_ECHO", "COOKIE_ACK",
                 "SHUTDOWN_COMPLETE", "RECONFIG"} -> {}
    [] OTHER                           -> {"type", "flgs", "length"}

RequiredOfChunk(type) ==
  CASE type = "DATA"                   -> {"flgs", "length", "tsn", "sid", "ssn", "ppid"}
    [] type \in {"INIT", "INIT_ACK"}   -> {"tag", "a_rwnd", "os", "is", "opt_param"}
    [] type = "SACK"                   -> {"cum_tsn", "a_rwnd", "gaps", "dups"}
    [] type = "NR_SACK"                -> {"cum_tsn", "a_rwnd", "gaps", "nr_gaps", "dups"}
    [] type \in {"ABORT", "ERROR", "PAD"} -> {"length"}
    [] type = "SHUTDOWN"               -> {"cum_tsn"}
    [] type \in {"ECNE", "CWR"}        -> {"lowest_tsn"}
    [] type = "FORWARD_TSN"            -> {"cum_tsn"}
    [] type \in {"HEARTBEAT", "HEARTBEAT_ACK", "SHUTDOWN_ACK", "COOKIE_ECHO", "COOKIE_ACK",
                 "SHUTDOWN_COMPLETE", "RECONFIG"} -> {}
    [] OTHER                           -> {"type", "flgs", "length"}

HasParameters == {"INIT", "INIT_ACK", "RECONFIG"}
HasCauses == {"ABORT", "ERROR"}

TooOpen(item) ==
  \/ item.type \in HasParameters
       /\ \E i \in DOMAIN item.items :
            item.items[i].nocheck \cap RequiredOfParameter(item.items[i].type) # {}
  \/ item.type \in HasCauses
       /\ \E i \in DOMAIN item.items : item.items[i].nocheck \cap {"length", "value"} # {}
  \/ item.nocheck \cap RequiredOfChunk(item.type) # {}

HasPartial(item) ==
  "partial" \in item.nocheck \/ \E i \in DOMAIN item.items : "partial" \in item.items[i].nocheck

Refused(dir, bad_crc32c) ==
  IF dir = "inbound" THEN \E i \in DOMAIN items : TooOpen(items[i])
  ELSE bad_crc32c \/ \E i \in DOMAIN items : HasPartial(items[i])

------------------------------------------------------------------------------
(* verify_sctp.  "junk" is what the memory behind the script's bytes holds.*)
Status(b) == IF b THEN "ok" ELSE "err"
FirstBad(s) ==
  IF \A i \in DOMAIN s : s[i] = "ok" THEN "ok"
  ELSE s[CHOOSE i \in DOMAIN s : s[i] # "ok" /\ \A j \in 1..(i - 1) : s[j] = "ok"]

At(s, i, junk) == IF i \in DOMAIN s THEN s[i] ELSE junk
MemSame(s, t, junk) == \A i \in DOMAIN t : At(s, i, junk) = t[i]
Read(item, f, junk) == IF f \in DOMAIN item.val THEN item.val[f] ELSE At(item.val.value, 1, junk)
Same(item, l, f, junk) == f \in item.nocheck \/ Read(item, f, junk) = l.val[f]

ReconfigTypes == {"OUTGOING_SSN_RESET", "INCOMING_SSN_RESET", "SSN_TSN_RESET", "RECONFIG_RESPONSE",
                  "ADD_OUTGOING_STREAMS", "ADD_INCOMING_STREAMS"}

(* The bytes of what the kernel sends, and its length field: -1 is one that *)
(* does not even cover the header.                                          *)
LiveLength(l) ==
  CASE "value" \in DOMAIN l.val -> Len(l.val.value)
    [] "sids" \in DOMAIN l.val  -> NumberBytes + Len(l.val.sids)
    [] OTHER                    -> NumberBytes + (IF NextTsns \subseteq DOMAIN l.val THEN 1 ELSE 0)

LiveListLength(ls) == Total([i \in DOMAIN ls |-> 1 + LiveLength(ls[i])])
LengthField(l) == IF l.whole THEN LiveLength(l) ELSE -1

(* The iterators step over what was compared, and assert that its length   *)
(* covers the header.                                                      *)
sctp_parameters_next(l, status) == IF status = "ok" /\ ~l.whole THEN "dies" ELSE status
sctp_causes_next(l, status) == IF status = "ok" /\ ~l.whole THEN "dies" ELSE status

HeaderSame(item, l, length) ==
  /\ "type" \in item.nocheck \/ item.type = l.type
  /\ "length" \in item.nocheck \/ item.length = length

ValueStatus(item, value, junk) ==
  IF "value" \in item.nocheck THEN "ok"
  ELSE IF "length" \in item.nocheck THEN "dies"
  ELSE Status(MemSame(item.val.value, value, junk))

(* The number of stream identifiers comes from the script's length; for a  *)
(* parameter shorter than the struct it is negative and taken as unsigned. *)
SidsStatus(p, l, junk) ==
  CASE "sids" \notin DOMAIN l.val -> "ok"
    [] "sids" \in DOMAIN p.val    -> Status(MemSame(l.val.sids, p.val.sids, junk))
    [] OTHER                      -> IF junk = 0 THEN "err" ELSE "dies"

ReconfigStatus(p, l, junk) ==
  IF \A f \in DOMAIN l.val \ {"sids"} : Same(p, l, f, junk) THEN SidsStatus(p, l, junk) ELSE "err"

ParameterStatus(p, l, junk) ==
  CASE l.type = "PARTIAL" \/ ~HeaderSame(p, l, LengthField(l)) -> "err"
    [] OTHER -> sctp_parameters_next(l, IF l.type \in ReconfigTypes THEN ReconfigStatus(p, l, junk)
                                        ELSE ValueStatus(p, l.val.value, junk))

CauseStatus(c, l, junk) ==
  IF l.type = "PARTIAL" \/ ~HeaderSame(c, l, LengthField(l)) THEN "err"
  ELSE sctp_causes_next(l, ValueStatus(c, l.val.value, junk))

ListStatus(each, sizes) ==
  LET bad == FirstBad(each) IN IF bad # "ok" THEN bad ELSE Status(sizes)

verify_sctp_parameters(ps, ls, junk) ==
  ListStatus([i \in 1..Min({Len(ps), Len(ls)}) |-> ParameterStatus(ps[i], ls[i], junk)],
             Len(ps) = Len(ls))

\* Mutant: causes the script does not list are overlooked.
verify_sctp_causes_more(cs, ls, junk) ==
  ListStatus([i \in 1..Min({Len(cs), Len(ls)}) |-> CauseStatus(cs[i], ls[i], junk)],
             Len(cs) <= Len(ls))

verify_sctp_causes(cs, ls, junk) ==
  ListStatus([i \in 1..Min({Len(cs), Len(ls)}) |-> CauseStatus(cs[i], ls[i], junk)],
             Len(cs) = Len(ls))

(* The TSN is compared whether or not the script left it open. *)
verify_data_chunk(item, l, junk) ==
  Status(/\ Read(item, "tsn", junk) = l.val.tsn
         /\ \A f \in {"sid", "ssn", "ppid"} : Same(item, l, f, junk))

verify_i_data_chunk(item, l, junk) ==
  Status(/\ Read(item, "tsn", junk) = l.val.tsn
         /\ \A f \in {"sid", "res", "mid"} : Same(item, l, f, junk)
         /\ \A f \in {"ppid", "fsn"} : f \in item.nocheck \/ item.val.field = l.val.field)

(* Asserted: the chunk is as long as the struct. *)
verify_init_chunk(item, l, junk) ==
  IF "short" \in DOMAIN l.val THEN "dies"
  ELSE IF \E f \in InitFields \ {"flgs"} : ~Same(item, l, f, junk) THEN "err"
  ELSE IF "opt_param" \in item.nocheck THEN "ok"
  ELSE verify_sctp_parameters(item.items, l.val.params, junk)

verify_init_ack_chunk(item, l, junk) == verify_init_chunk(item, l, junk)

verify_reconfig_chunk(item, l, junk) == verify_sctp_parameters(item.items, l.val.params, junk)

CountSame(item, l, list) == list \in item.nocheck \/ item.count[list] = Len(l.val[list])
BlocksSame(item, base, list, l, junk) ==
  list \in item.nocheck \/ \A i \in 1..item.count[list] : At(item.blocks, base + i, junk) = l.val[list][i]

\* Mutant: the base of the duplicates is the kernel's number of gap blocks in both chunks.
verify_sack_chunk_base(item, l, junk) ==
  Status(/\ Same(item, l, "cum_tsn", junk) /\ Same(item, l, "a_rwnd", junk)
         /\ CountSame(item, l, "gaps") /\ CountSame(item, l, "dups")
         /\ BlocksSame(item, 0, "gaps", l, junk)
         /\ BlocksSame(item, Len(l.val.gaps), "dups", l, junk))

verify_sack_chunk(item, l, junk) ==
  LET script_base == IF "gaps" \in item.nocheck THEN 0 ELSE Len(l.val.gaps) IN
  Status(/\ Same(item, l, "cum_tsn", junk) /\ Same(item, l, "a_rwnd", junk)
         /\ CountSame(item, l, "gaps") /\ CountSame(item, l, "dups")
         /\ BlocksSame(item, 0, "gaps", l, junk)
         /\ BlocksSame(item, script_base, "dups", l, junk))

verify_nr_sack_chunk(item, l, junk) ==
  LET after_gaps == IF "gaps" \in item.nocheck THEN 0 ELSE Len(l.val.gaps)
      after_nr_gaps == after_gaps + (IF "nr_gaps" \in item.nocheck THEN 0 ELSE item.count.nr_gaps) IN
  Status(/\ Same(item, l, "cum_tsn", junk) /\ Same(item, l, "a_rwnd", junk)
         /\ \A list \in DOMAIN NoBlocks : CountSame(item, l, list)
         /\ BlocksSame(item, 0, "gaps", l, junk)
         /\ BlocksSame(item, after_gaps, "nr_gaps", l, junk)
         /\ BlocksSame(item, after_nr_gaps, "dups", l, junk))

verify_heartbeat_chunk(item, l, junk) == ValueStatus(item, l.val.value, junk)
verify_heartbeat_ack_chunk(item, l, junk) == ValueStatus(item, l.val.value, junk)
verify_cookie_echo_chunk(item, l, junk) == ValueStatus(item, l.val.value, junk)

verify_abort_chunk(item, l, junk) ==
  IF "opt_causes" \in item.nocheck THEN "ok" ELSE verify_sctp_causes(item.items, l.val.causes, junk)
verify_error_chunk(item, l, junk) ==
  IF "opt_causes" \in item.nocheck THEN "ok" ELSE verify_sctp_causes(item.items, l.val.causes, junk)

verify_shutdown_chunk(item, l, junk) == Status(Same(item, l, "cum_tsn", junk))
verify_ecne_chunk(item, l, junk) == Status(Same(item, l, "lowest_tsn", junk))
verify_cwr_chunk(item, l, junk) == Status(Same(item, l, "lowest_tsn", junk))
verify_shutdown_ack_chunk(item, l, junk) == "ok"
verify_cookie_ack_chunk(item, l, junk) == "ok"
verify_shutdown_complete_chunk(item, l, junk) == "ok"
verify_pad_chunk(item, l, junk) == "ok"

(* The kernel's number of blocks is taken from the script's chunk, too. *)
verify_forward_tsn_chunk(item, l, junk) ==
  Status(/\ Same(item, l, "cum_tsn", junk)
         /\ "ids" \in item.nocheck \/ MemSame(l.val.ids, item.blocks, junk))
verify_i_forward_tsn_chunk(item, l, junk) == verify_forward_tsn_chunk(item, l, junk)

(* -1 is a length below that of the struct. *)
LiveChunkLength(l) ==
  CASE "short" \in DOMAIN l.val -> -1
    [] l.type \in {"DATA", "I_DATA"} -> NumberBytes + l.val.len
    [] l.type = "PAD" -> l.val.len
    [] l.type = "SACK" -> Len(l.val.gaps) + Len(l.val.dups)
    [] l.type = "NR_SACK" -> Len(l.val.gaps) + Len(l.val.nr_gaps) + Len(l.val.dups)
    [] l.type \in {"FORWARD_TSN", "I_FORWARD_TSN"} -> Len(l.val.ids)
    [] l.type \in HasParameters -> LiveListLength(l.val.params)
    [] l.type \in HasCauses -> LiveListLength(l.val.causes)
    [] l.type = "SHUTDOWN" -> 1
    [] "value" \in DOMAIN l.val -> Len(l.val.value)
    [] OTHER -> 0

ByType(item, l, junk) ==
  CASE l.type = "DATA"              -> verify_data_chunk(item, l, junk)
    [] l.type = "INIT"              -> verify_init_chunk(item, l, junk)
    [] l.type = "INIT_ACK"          -> verify_init_ack_chunk(item, l, junk)
    [] l.type = "SACK"              -> verify_sack_chunk(item, l, junk)
    [] l.type = "NR_SACK"           -> verify_nr_sack_chunk(item, l, junk)
    [] l.type = "HEARTBEAT"         -> verify_heartbeat_chunk(item, l, junk)
    [] l.type = "HEARTBEAT_ACK"     -> verify_heartbeat_ack_chunk(item, l, junk)
    [] l.type = "ABORT"             -> verify_abort_chunk(item, l, junk)
    [] l.type = "SHUTDOWN"          -> verify_shutdown_chunk(item, l, junk)
    [] l.type = "SHUTDOWN_ACK"      -> verify_shutdown_ack_chunk(item, l, junk)
    [] l.type = "ERROR"             -> verify_error_chunk(item, l, junk)
    [] l.type = "COOKIE_ECHO"       -> verify_cookie_echo_chunk(item, l, junk)
    [] l.type = "COOKIE_ACK"        -> verify_cookie_ack_chunk(item, l, junk)
    [] l.type = "ECNE"              -> verify_ecne_chunk(item, l, junk)
    [] l.type = "CWR"               -> verify_cwr_chunk(item, l, junk)
    [] l.type = "SHUTDOWN_COMPLETE" -> verify_shutdown_complete_chunk(item, l, junk)
    [] l.type = "I_DATA"            -> verify_i_data_chunk(item, l, junk)
    [] l.type = "PAD"               -> verify_pad_chunk(item, l, junk)
    [] l.type = "RECONFIG"          -> verify_reconfig_chunk(item, l, junk)
    [] l.type = "FORWARD_TSN"       -> verify_forward_tsn_chunk(item, l, junk)
    [] l.type = "I_FORWARD_TSN"     -> verify_i_forward_tsn_chunk(item, l, junk)
    [] OTHER                        -> "dies"

(* The type is compared whether or not the script left it open. *)
ChunkStatus(item, l, junk) ==
  IF \/ l.type = "PARTIAL" \/ item.type # l.type \/ ~Same(item, l, "flgs", junk)
     \/ ~("length" \in item.nocheck \/ item.length = LiveChunkLength(l))
  THEN "err"
  ELSE ByType(item, l, junk)

verify_sctp(list, ls, junk) ==
  ListStatus([i \in 1..Min({Len(list), Len(ls)}) |-> ChunkStatus(list[i], ls[i], junk)],
             Len(list) = Len(ls))

(* Before that do_outbound_script_packet walks over the chunks, and        *)
(* map_outbound_live_sctp_packet over the parameters of RECONFIG.  Of a    *)
(* chunk that is "TOO_SHORT" the length field does not cover the header:   *)
(* only HEARTBEAT is looked at before the iterator asserts that it does.   *)
sctp_chunks_next(l) ==
  CASE l.type = "PARTIAL" -> "err"
    [] l.type = "TOO_SHORT" -> IF l.of = "HEARTBEAT" THEN "err" ELSE "dies"
    [] OTHER -> "ok"

WalkChunks(ls) == FirstBad([i \in DOMAIN ls |-> sctp_chunks_next(ls[i])])

MapParameters(l) ==
  IF l.type # "RECONFIG" THEN "ok"
  ELSE FirstBad([j \in DOMAIN l.val.params |->
                   IF l.val.params[j].type = "PARTIAL" THEN "err" ELSE sctp_parameters_next(l.val.params[j], "ok")])

map_outbound_live_sctp_packet(ls) == FirstBad([i \in DOMAIN ls |-> MapParameters(ls[i])])

------------------------------------------------------------------------------
(* What scripts write, and what the kernel sends.  A number is written as 1*)
(* and a gap block as 2 or 3, so that a block taken for another is noticed.*)
(* What is left open is no number, list or type.                           *)
ASSUME MarkersAssumption ==
  /\ \A m \in {Open, Short} : m \notin Nat /\ m \notin Seq(Nat)
  /\ Open \notin ReconfigTypes \cup {"0", "HEARTBEAT_INFORMATION", Short}

Par(kind, type, length, val) == [kind |-> kind, type |-> type, length |-> length, val |-> val]
Plain(kind, length, value) == Par(kind, kind, length, [value |-> value])

GenericOf(kind, types) ==
  {Par(kind, t, v[1], [value |-> v[2]]) :
     t \in types, v \in {<<Open, Open>>, <<1, Open>>, <<1, Short>>, <<1, <<1>>>>, <<0, <<>>>>}}
FixedOf(kind) == {Plain(kind, 1, Open), Plain(kind, 1, <<1>>)}
OpenOf(kind) == {Plain(kind, Open, Open), Plain(kind, 0, <<>>), Plain(kind, 1, <<1>>)}
NestingOf(kind, subs) ==
  {Par(kind, kind, IF sub = Open \/ \E i \in DOMAIN List(sub) : sub[i].length = Open THEN Open
                   ELSE Total([i \in DOMAIN sub |-> 1 + sub[i].length]), [sub |-> sub]) : sub \in subs}
SubLists ==
  {Open} \cup {<<q>> : q \in {Par("PARAMETER", t, 1, [value |-> v]) : t \in {Open, "UNKNOWN"}, v \in {Open, <<1>>}}}
    \cup {<<Plain("PAD", 1, Open)>>, <<Par("PARAMETER", "UNKNOWN", Open, [value |-> Open]),
              Par("PARAMETER", "UNKNOWN", 1, [value |-> <<1>>])>>}
Numbers(kind, fields, fixed) ==
  {Par(kind, kind, NumberBytes, Joined(v, fixed)) : v \in {v \in [fields -> {1, Open}] : Cardinality({f \in fields : v[f] = Open}) <= 1}}

InitParameters ==
  (UNION {FixedOf(k) : k \in {"IPV4_ADDRESS", "IPV6_ADDRESS", "COOKIE_PRESERVATIVE"}})
    \cup (UNION {OpenOf(k) : k \in {"HOSTNAME_ADDRESS", "SUPPORTED_ADDRESS_TYPES", "SUPPORTED_EXTENSIONS"}})
    \cup {Plain(k, n, Open) : k \in {"STATE_COOKIE", "PAD"}, n \in {Open, 1}}
    \cup {Plain("ADAPTATION_INDICATION", 1, <<1>>)}
    \cup {Plain(k, 0, <<>>) : k \in {"ECN_CAPABLE", "FORWARD_TSN_SUPPORTED"}}
    \cup GenericOf("PARAMETER", {Open, "UNKNOWN"})
    \cup NestingOf("UNRECOGNIZED_PARAMETER", SubLists)

ReconfigParameters ==
  Numbers("OUTGOING_SSN_RESET", {"reqsn", "respsn", "last_tsn"}, [sids |-> <<>>])
    \cup Numbers("INCOMING_SSN_RESET", {"reqsn"}, [sids |-> <<>>])
    \cup {Par("OUTGOING_SSN_RESET", "OUTGOING_SSN_RESET", NumberBytes + 1,
              [reqsn |-> 1, respsn |-> 1, last_tsn |-> 1, sids |-> <<1>>]),
          Par("INCOMING_SSN_RESET", "INCOMING_SSN_RESET", NumberBytes + 1, [reqsn |-> 1, sids |-> <<1>>])}
    \cup Numbers("SSN_TSN_RESET", {"reqsn"}, <<>>)
    \cup Numbers("RECONFIG_RESPONSE", {"respsn", "result"}, <<>>)
    \cup {[p EXCEPT !.length = @ + 1] : p \in Numbers("RECONFIG_RESPONSE", {"respsn", "result"} \cup NextTsns, <<>>)}
    \cup (UNION {Numbers(k, {"reqsn", "number_of_new_streams"}, <<>>) :
                  k \in {"ADD_OUTGOING_STREAMS", "ADD_INCOMING_STREAMS"}})
    \cup {Par("RECONFIG_REQUEST_GENERIC", t, n, [reqsn |-> r]) :
            t \in {Open, "SSN_TSN_RESET"}, n \in {Open, NumberBytes}, r \in {Open, 1}}
    \cup GenericOf("PARAMETER", {Open, "UNKNOWN"})

Shutdown(flgs, cum_tsn) == [kind |-> "SHUTDOWN", val |-> [flgs |-> flgs, cum_tsn |-> cum_tsn]]
Causes ==
  (UNION {FixedOf(k) : k \in {"INVALID_STREAM_IDENTIFIER", "STALE_COOKIE_ERROR", "NO_USER_DATA"}})
    \cup (UNION {OpenOf(k) : k \in {"MISSING_MANDATORY_PARAMETER", "USER_INITIATED_ABORT", "PROTOCOL_VIOLATION"}})
    \cup {Plain(k, 0, <<>>) :
            k \in {"OUT_OF_RESOURCE", "INVALID_MANDATORY_PARAMETER", "COOKIE_RECEIVED_WHILE_SHUTDOWN"}}
    \cup GenericOf("CAUSE", {Open, "UNKNOWN"})
    \cup (UNION {NestingOf(k, SubLists) :
                  k \in {"UNRESOLVABLE_ADDRESS", "UNRECOGNIZED_PARAMETERS", "RESTART_WITH_NEW_ADDRESSES"}})
    \cup {Par("UNRECOGNIZED_CHUNK_TYPE", "UNRECOGNIZED_CHUNK_TYPE", IF w = Open THEN Open ELSE 2, [chunk |-> w]) :
            w \in {Open, Shutdown(1, 1), Shutdown(Open, 1), Shutdown(1, Open)}}

(* Lists: none, "...", one of each, and two where more of them matter. *)
Lists(all, some) ==
  {Open, <<>>} \cup {<<p>> : p \in all} \cup {<<p, q>> : p, q \in some}
SomeParameters == {Plain("ECN_CAPABLE", 0, <<>>), Plain("HOSTNAME_ADDRESS", Open, Open)}
SomeCauses == {Plain("OUT_OF_RESOURCE", 0, <<>>), Plain("USER_INITIATED_ABORT", Open, Open)}

AtMost(n, c, fields, values) ==
  {v \in [fields -> values] : Cardinality({f \in fields : v[f] = c}) <= n}
Chunks(kind, fields, rest) ==
  {[kind |-> kind, val |-> Joined(v, r)] : v \in AtMost(MaxOpen, Open, fields, {1, Open}), r \in rest}

BlockLists(n) == {Open, <<>>, <<n>>}
SackLists == [gaps : BlockLists(2), dups : BlockLists(1)]
NrSackLists == [gaps : BlockLists(2), nr_gaps : BlockLists(3), dups : BlockLists(1)]
Infos == {Plain("HEARTBEAT_INFORMATION", v[1], v[2]) : v \in {<<Open, Open>>, <<1, Open>>, <<1, <<1>>>>}}
Just(r) == {r}
None == Just(<<>>)

WrittenChunks(kind) ==
  CASE kind = "CHUNK" ->
         {[kind |-> kind, val |-> [type |-> t, flgs |-> f, len |-> v[1], value |-> v[2]]] :
            t \in {Open, "SHUTDOWN", "COOKIE_ACK", "UNKNOWN"}, f \in {1, Open},
            v \in {<<Open, Open>>, <<0, <<>>>>, <<1, Open>>, <<1, <<1>>>>, <<1, Short>>}}
    [] kind = "DATA" -> Chunks(kind, {"flgs", "len", "tsn", "sid", "ssn", "ppid"}, None)
    [] kind = "I_DATA" ->
         Chunks(kind, {"flgs", "len", "tsn", "sid", "mid", "ppid"}, Just([fsn |-> Open]))
           \cup Chunks(kind, {"flgs", "len", "tsn", "sid", "mid", "fsn"}, Just([ppid |-> Open]))
    [] kind \in {"INIT", "INIT_ACK"} ->
         Chunks(kind, InitFields, Just([params |-> <<>>]))
           \cup {[kind |-> kind, val |-> Joined([f \in InitFields |-> 1], [params |-> ps])] :
                   ps \in Lists(InitParameters, SomeParameters)}
    [] kind = "RECONFIG" ->
         Chunks(kind, {"flgs"}, [params : Lists(ReconfigParameters, {})])
    [] kind = "SACK" -> Chunks(kind, {"flgs", "cum_tsn", "a_rwnd"}, SackLists)
    [] kind = "NR_SACK" -> Chunks(kind, {"flgs", "cum_tsn", "a_rwnd"}, NrSackLists)
    [] kind \in {"HEARTBEAT", "HEARTBEAT_ACK"} -> Chunks(kind, {"flgs"}, [info : Infos])
    [] kind \in HasCauses -> Chunks(kind, {"flgs"}, [causes : Lists(Causes, SomeCauses)])
    [] kind = "COOKIE_ECHO" ->
         Chunks(kind, {"flgs"}, {[len |-> v[1], value |-> v[2]] : v \in {<<Open, Open>>, <<1, Open>>, <<1, <<1>>>>}})
    [] kind = "PAD" -> Chunks(kind, {"flgs", "len"}, None)
    [] kind = "SHUTDOWN" -> Chunks(kind, {"flgs", "cum_tsn"}, None)
    [] kind \in {"ECNE", "CWR"} -> Chunks(kind, {"flgs", "lowest_tsn"}, None)
    [] kind \in {"FORWARD_TSN", "I_FORWARD_TSN"} ->
         {[kind |-> kind, val |-> v] : v \in [cum_tsn : {1, Open, MaxU32}, ids : {Open, <<>>, <<1>>}]}
    [] OTHER -> Chunks(kind, {"flgs"}, None)

(* Live parameters and causes: the value may differ, be shorter or longer, *)
(* the type may be another, the last one may be cut off, and one that is   *)
(* not "whole" has a length field below that of the header.                *)
LiveItem(type, val) == [type |-> type, val |-> val, whole |-> TRUE]
Shortened(ls) == {[ls EXCEPT ![i].whole = FALSE] : i \in DOMAIN ls}
Cut == LiveItem("PARTIAL", [value |-> <<>>])
Other == LiveItem("ECN_CAPABLE", [value |-> <<>>])
NumbersOf(val) == AtMost(MaxOff, 0, DOMAIN val \ {"sids"}, {0, 1})

LiveItems(p) ==
  IF p.type \in ReconfigTypes
  THEN LET sids == IF "sids" \in DOMAIN p.val THEN [sids : {<<>>, <<0>>, <<1>>}] ELSE {<<>>}
           long == IF p.type = "RECONFIG_RESPONSE" THEN {[f \in NextTsns |-> 1], <<>>} ELSE {<<>>} IN
       {LiveItem(p.type, Joined(Joined(v, m), n)) : v \in NumbersOf(p.val), m \in sids, n \in long}
  ELSE {LiveItem(IF p.type = Open THEN "UNKNOWN" ELSE p.type, [value |-> v]) :
          v \in {<<>>, <<0>>, <<1>>, <<1, 0>>, <<0, 1>>, <<1, 1>>, <<1, 1, 1>>}}
         \cup (IF p.type = Open THEN {LiveItem("SSN_TSN_RESET", [reqsn |-> 1]),
                                      LiveItem("INCOMING_SSN_RESET", [reqsn |-> 1, sids |-> <<>>])} ELSE {})
         \cup {Other}

WholeLists(ps) ==
  {<<>>, <<Cut>>}
    \cup (IF List(ps) = <<>> THEN {<<Other>>} ELSE {<<l>> : l \in LiveItems(ps[1])})
    \cup (IF Len(List(ps)) = 1 THEN {<<l, m>> : l \in LiveItems(ps[1]), m \in {Other, Cut}}
          ELSE IF Len(List(ps)) = 2 THEN {<<l, m>> : l \in LiveItems(ps[1]), m \in LiveItems(ps[2])} ELSE {})
LiveLists(ps) == WholeLists(ps) \cup UNION {Shortened(ls) : ls \in WholeLists(ps)}

Live(type, fields, rest) ==
  {[type |-> type, val |-> Joined(v, r)] : v \in AtMost(MaxOff, 0, fields, {0, 1}), r \in rest}

LiveBlocks(n) == {<<>>, <<n>>, <<0>>, <<n, n>>}
Bytes == {<<>>, <<0>>, <<1>>, <<1, 1>>, <<1, 0>>}

LiveOf(type, w) ==
  CASE type = "DATA" -> Live(type, {"flgs", "len", "tsn", "sid", "ssn", "ppid"}, {<<>>})
    [] type = "I_DATA" -> Live(type, {"flgs", "len", "tsn", "sid", "mid", "field"}, [res : {0, 1}])
    [] type \in {"INIT", "INIT_ACK"} ->
         IF List(w.val.params) = <<>> THEN Live(type, InitFields, [params : LiveLists(w.val.params)])
         ELSE {[type |-> type, val |-> Joined([f \in InitFields |-> 1], [params |-> ls])] : ls \in LiveLists(w.val.params)}
    [] type = "RECONFIG" -> Live(type, {"flgs"}, [params : LiveLists(w.val.params)])
    [] type \in HasCauses -> Live(type, {"flgs"}, [causes : LiveLists(w.val.causes)])
    [] type = "SACK" -> Live(type, {"flgs", "cum_tsn", "a_rwnd"}, [gaps : LiveBlocks(2), dups : LiveBlocks(1)])
    [] type = "NR_SACK" ->
         {[type |-> type, val |-> Joined([flgs |-> 1, cum_tsn |-> 1, a_rwnd |-> 1], r)] :
            r \in [gaps : LiveBlocks(2), nr_gaps : LiveBlocks(3), dups : LiveBlocks(1)]}
    [] type \in {"HEARTBEAT", "HEARTBEAT_ACK", "COOKIE_ECHO", "UNKNOWN"} -> Live(type, {"flgs"}, [value : Bytes])
    [] type = "PAD" -> Live(type, {"flgs", "len"}, {<<>>})
    [] type = "SHUTDOWN" -> Live(type, {"flgs", "cum_tsn"}, {<<>>})
    [] type \in {"ECNE", "CWR"} -> Live(type, {"flgs", "lowest_tsn"}, {<<>>})
    [] type \in {"FORWARD_TSN", "I_FORWARD_TSN"} ->
         {[type |-> type, val |-> v] : v \in [flgs : {0, 1}, cum_tsn : {0, 1, MaxU32}, ids : {<<>>, <<0>>, <<1>>, <<1, 1>>}]}
    [] OTHER -> Live(type, {"flgs"}, {<<>>})

(* Chunks with numbers in front may end before them: what follows in the   *)
(* memory is then taken for them.  The length field of any chunk may be    *)
(* below that of the header.                                               *)
HasNumbers == {"DATA", "I_DATA", "INIT", "INIT_ACK", "SACK", "NR_SACK", "SHUTDOWN", "ECNE", "CWR",
               "FORWARD_TSN", "I_FORWARD_TSN"}
ShortOf(type, w) ==
  {[type |-> type, val |-> Joined([short |-> TRUE], l.val)] :
     l \in {l \in LiveOf(type, w) : type \in HasNumbers /\ l.val.flgs = 1}}
    \cup {[type |-> "TOO_SHORT", of |-> type, val |-> [flgs |-> 1]]}

LiveChunks(w) ==
  LET types == IF w.kind # "CHUNK" THEN {w.kind, "SHUTDOWN_ACK"}
               ELSE {"SHUTDOWN", "COOKIE_ACK", "UNKNOWN", "DATA"} IN
  (UNION {LiveOf(t, w) \cup ShortOf(t, w) : t \in types}) \cup {[type |-> "PARTIAL", val |-> [flgs |-> 1]]}
CookieAck == [type |-> "COOKIE_ACK", val |-> [flgs |-> 1]]

------------------------------------------------------------------------------
(* The parser reads the packet chunk by chunk, new_sctp_packet accepts it  *)
(* or not, and an outbound packet is compared with one that was sniffed.   *)
ChunkInit ==
  written = <<>> /\ items = <<>> /\ direction = "none" /\ live = <<>> /\ verdict = {}

sctp_chunk_list_append(w) ==
  /\ direction = "none"
  /\ Len(written) < MaxChunks
  /\ Len(written) > 0 => w.kind \in Bundled /\ \A i \in DOMAIN written : written[i].kind \in Bundled
  /\ written' = Append(written, w)
  /\ items' = Append(items, NewChunk(w))
  /\ UNCHANGED <<direction, live, verdict>>

new_sctp_packet(dir, bad_crc32c) ==
  /\ direction = "none" /\ written # <<>>
  /\ direction' = dir
  /\ verdict' = {IF Refused(dir, bad_crc32c) THEN "refused" ELSE "made"}
  /\ UNCHANGED <<written, items, live>>

LivePackets ==
  IF Len(written) = 1
  THEN {<<>>} \cup {<<l>> : l \in LiveChunks(written[1])}
         \cup {<<l, CookieAck>> : l \in LiveOf("COOKIE_ACK", <<>>) \cup {[type |-> "PARTIAL", val |-> [flgs |-> 1]]}}
  ELSE {ls \in SeqOf(UNION {LiveChunks(written[i]) : i \in DOMAIN written}, Len(written) + 1) :
          Len(ls) >= Len(written) - 1}

verify_outbound(ls) ==
  /\ direction = "outbound" /\ verdict = {"made"}
  /\ live' = ls
  /\ verdict' = {FirstBad(<<WalkChunks(ls), map_outbound_live_sctp_packet(ls), verify_sctp(items, ls, junk)>>) :
                   junk \in {0, 1}}
  /\ UNCHANGED <<written, items, direction>>

next_event ==
  /\ "made" \in verdict => direction = "inbound"
  /\ verdict # {}
  /\ written' = <<>> /\ items' = <<>> /\ direction' = "none" /\ live' = <<>> /\ verdict' = {}

ChunkNext ==
  \/ \E k \in Kinds : \E w \in WrittenChunks(k) : sctp_chunk_list_append(w)
  \/ \E dir \in {"inbound", "outbound"}, bad_crc32c \in BOOLEAN : new_sctp_packet(dir, bad_crc32c)
  \/ \E ls \in LivePackets : verify_outbound(ls)
  \/ next_event

ChunkSpec == ChunkInit /\ [][ChunkNext]_chunkVars

------------------------------------------------------------------------------
(* What the script means: whatever is written is what is sent. *)
Fits(x, y) == x = Open \/ x = y

Pattern(sub) ==
  Cat([i \in DOMAIN sub |->
         <<IF sub[i].type = Open THEN Open ELSE 1>>
           \o (IF sub[i].val.value = Open THEN [j \in 1..sub[i].length |-> Open] ELSE sub[i].val.value)])
SameShape(pattern, bytes) ==
  Len(pattern) = Len(bytes) /\ \A i \in DOMAIN pattern : Fits(pattern[i], bytes[i])

ValueFits(p, l) ==
  CASE "sub" \in DOMAIN p.val ->
         p.length = Open \/ ("value" \in DOMAIN l.val /\ SameShape(Pattern(p.val.sub), l.val.value))
    [] "chunk" \in DOMAIN p.val ->
         p.val.chunk = Open
           \/ ("value" \in DOMAIN l.val
                /\ SameShape(<<p.val.chunk.val.flgs, p.val.chunk.val.cum_tsn>>, l.val.value))
    [] OTHER -> \A f \in DOMAIN p.val : p.val[f] = Open \/ (f \in DOMAIN l.val /\ p.val[f] = l.val[f])

ItemFits(p, l) ==
  l.type # "PARTIAL" /\ l.whole /\ Fits(p.type, l.type) /\ Fits(p.length, LiveLength(l)) /\ ValueFits(p, l)

ListFits(ps, ls) ==
  ps = Open \/ (Len(ps) = Len(ls) /\ \A i \in DOMAIN ps : ItemFits(ps[i], ls[i]))

ItemLists == {"params", "causes"}
Implied(w) ==
  CASE w.kind = "I_DATA" ->
         Joined([res |-> 0, field |-> IF w.val.ppid = Open THEN w.val.fsn ELSE w.val.ppid], w.val)
    [] w.kind \in {"FORWARD_TSN", "I_FORWARD_TSN"} -> Joined([flgs |-> 0], w.val)
    [] OTHER -> w.val

(* A chunk given by its bytes. *)
BytesOf(l) ==
  CASE l.type = "SHUTDOWN" -> <<l.val.cum_tsn>>
    [] l.type = "UNKNOWN" -> l.val.value
    [] OTHER -> <<>>
GenericFits(w, l) ==
  /\ Fits(w.val.type, l.type) /\ Fits(w.val.flgs, l.val.flgs)
  /\ Fits(w.val.len, LiveChunkLength(l)) /\ Fits(w.val.value, BytesOf(l))

ChunkFits(w, l) ==
  /\ l.type \notin {"PARTIAL", "TOO_SHORT"} /\ "short" \notin DOMAIN l.val
  /\ IF w.kind = "CHUNK" THEN GenericFits(w, l)
     ELSE /\ w.kind = l.type
          /\ \A f \in DOMAIN Implied(w) \cap DOMAIN l.val :
               IF f \in ItemLists THEN ListFits(w.val[f], l.val[f]) ELSE Fits(Implied(w)[f], l.val[f])
          /\ w.kind = "COOKIE_ECHO" => Fits(w.val.len, Len(l.val.value))
          /\ "info" \in DOMAIN w.val =>
               w.val.info.length = Open \/ SameShape(Pattern(<<w.val.info>>), l.val.value)

Fitting == Len(written) = Len(live) /\ \A i \in DOMAIN written : ChunkFits(written[i], live[i])

(* Where verify_sctp is known to differ. *)
ListOf(w) ==
  IF "params" \in DOMAIN w.val THEN List(w.val.params)
  ELSE IF "causes" \in DOMAIN w.val THEN List(w.val.causes) ELSE <<>>
AnyWritten(P(_)) == \E i \in DOMAIN written : P(written[i])
AnyItem(P(_)) == \E i \in DOMAIN written : \E j \in DOMAIN ListOf(written[i]) : P(ListOf(written[i])[j])

(* One open value within a parameter or cause leaves all of it unchecked. *)
OpenWithin(p) ==
  \/ "sub" \in DOMAIN p.val /\ \E i \in DOMAIN List(p.val.sub) : p.val.sub[i].val.value = Open
  \/ p.kind = "UNRESOLVABLE_ADDRESS" /\ \E i \in DOMAIN List(p.val.sub) : p.val.sub[i].type = Open
  \/ "chunk" \in DOMAIN p.val /\ p.val.chunk # Open /\ p.val.chunk.val.flgs = Open
NumberTakenAsOpen(w) ==
  w.kind \in {"FORWARD_TSN", "I_FORWARD_TSN"} /\ w.val.cum_tsn = MaxU32

(* Open fields that are compared all the same, or cannot be. *)
CheckedThoughOpen(w) ==
  \/ w.kind \in {"DATA", "I_DATA"} /\ w.val.tsn = Open
  \/ w.kind = "CHUNK" /\ (w.val.type \in {Open, "UNKNOWN"} \/ w.val.value = Open)
  \/ w.kind = "RECONFIG" /\ w.val.params = Open
ItemCheckedThoughOpen(p) ==
  \/ p.kind = "PAD"
  \/ p.type = Open
  \/ p.kind = "RECONFIG_REQUEST_GENERIC" /\ p.length = Open
  \/ "sub" \in DOMAIN p.val
       /\ \E i \in DOMAIN List(p.val.sub) : p.val.sub[i].type = Open \/ p.val.sub[i].kind = "PAD"
  \/ "chunk" \in DOMAIN p.val /\ p.val.chunk # Open /\ p.val.chunk.val.cum_tsn = Open
UnknownType(w) == w.kind = "CHUNK" /\ w.val.type \in {Open, "UNKNOWN"}
NoRoomForFields(w) == w.kind = "CHUNK" /\ w.val.len = Open
OpenPad(p) == p.kind = "PAD" /\ p.length = Open
OpenType(p) == p.type = Open

(* What the kernel sends is shorter than its header or its struct. *)
LiveListOf(l) ==
  IF "params" \in DOMAIN l.val THEN l.val.params ELSE IF "causes" \in DOMAIN l.val THEN l.val.causes ELSE <<>>
TooShort(l) ==
  \/ l.type = "TOO_SHORT" \/ "short" \in DOMAIN l.val
  \/ \E j \in DOMAIN LiveListOf(l) : ~LiveListOf(l)[j].whole
ReadBehind(l) == "short" \in DOMAIN l.val /\ l.type \notin {"INIT", "INIT_ACK"}
AnyLive(P(_)) == \E i \in DOMAIN live : P(live[i])

------------------------------------------------------------------------------
Judged == verdict # {} /\ verdict \subseteq {"ok", "err", "dies"}

(* The packet is refused, made or judged, and only an outbound one judged. *)
ChunkTypeOK ==
  /\ direction \in {"none", "inbound", "outbound"}
  /\ verdict \in {{}, {"refused"}, {"made"}} \/ (Judged /\ direction = "outbound")
  /\ \A i \in DOMAIN items :
       /\ items[i].length \in Nat
       /\ items[i].length = Len(items[i].blocks) \/ items[i].type \notin {"SACK", "NR_SACK"}
       /\ \A j \in DOMAIN items[i].items : items[i].items[j].bytes \in Nat

(* A packet that passes verify_sctp is the packet the script describes: no *)
(* chunk, parameter, cause, block or number that is written differs.       *)
OnlyMatchesPass ==
  Judged /\ "ok" \in verdict =>
    Fitting \/ AnyWritten(NumberTakenAsOpen) \/ AnyItem(OpenWithin) \/ AnyLive(ReadBehind)

(* A packet that is as the script describes passes: what is left open with *)
(* "..." is not compared, except where the code is known to do so.         *)
MatchesPass ==
  Judged /\ Fitting =>
    verdict = {"ok"} \/ AnyWritten(CheckedThoughOpen) \/ AnyItem(ItemCheckedThoughOpen)

(* verify_sctp is right both ways: what passes matches the script, and     *)
(* what matches passes.                                                    *)
VerdictIsRight == OnlyMatchesPass /\ MatchesPass

(* No assertion of verify_sctp, or of the iterators it uses, fails, and no *)
(* loop over stream identifiers runs away, as long as what the kernel      *)
(* sends covers its headers and structs.                                   *)
NoAssertionFails ==
  "dies" \in verdict =>
    AnyWritten(UnknownType) \/ AnyItem(OpenPad) \/ AnyItem(OpenType) \/ AnyLive(TooShort)

(* The verdict does not depend on memory behind the script's chunks.       *)
VerdictDetermined ==
  Cardinality(verdict) > 1 =>
    AnyWritten(NoRoomForFields) \/ AnyItem(OpenType) \/ AnyLive(TooShort)

(* verify_sctp comes to a verdict, and to one that the packets determine.  *)
VerdictDefined == NoAssertionFails /\ VerdictDetermined

(* Numbers that map_inbound_sctp_packet shifts to the kernel's: an open    *)
(* one is stored as 0, not shifted, and means nothing to the kernel.       *)
ShiftedNumbers == {"tag", "tsn", "cum_tsn", "lowest_tsn"}
ShiftedItemNumbers == {"reqsn", "respsn", "last_tsn"} \cup NextTsns
NotRequired(w, f) ==
  w.kind \in {"I_DATA", "I_FORWARD_TSN"} \/ (w.kind \in {"INIT", "INIT_ACK"} /\ f = "tsn")
ItemNotRequired(p, f) ==
  (p.kind = "RECONFIG_RESPONSE" /\ f = "respsn") \/ (p.kind = "RECONFIG_REQUEST_GENERIC" /\ p.type = Open)

(* A chunk given by its bytes has the numbers of the type it is stored as. *)
(* Bytes that are left open are not refused, an open length only is where  *)
(* that type requires one.                                                 *)
GenericNumbers(i) == written[i].kind = "CHUNK" /\ items[i].type \in {"DATA", "SHUTDOWN"}
BytesWritten(w) == w.val.type # Open /\ w.val.value \notin {Open, Short, <<>>}
BytesNotRequired(w) == w.val.type = "SHUTDOWN" \/ w.val.len # Open

(* In an inbound packet that new_sctp_packet accepts, every number that is *)
(* mapped to the kernel's is one the script has written, but for those     *)
(* above that it does not require.                                         *)
InboundNumbersWritten ==
  direction = "inbound" /\ verdict = {"made"} =>
    \A i \in DOMAIN written :
      /\ \A f \in ShiftedNumbers \cap DOMAIN written[i].val :
           written[i].val[f] # Open \/ NotRequired(written[i], f)
      /\ GenericNumbers(i) => BytesWritten(written[i]) \/ BytesNotRequired(written[i])
      /\ \A j \in DOMAIN ListOf(written[i]) :
           LET p == ListOf(written[i])[j] IN
           \A f \in ShiftedItemNumbers \cap DOMAIN p.val : p.val[f] # Open \/ ItemNotRequired(p, f)

====
