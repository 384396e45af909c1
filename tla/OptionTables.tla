------------------------------ MODULE OptionTables ------------------------------
(***************************************************************************)
(* How run_system_call.c moves each struct between a script and the        *)
(* kernel.  check_X compares what the kernel returned with the script;     *)
(* setsockopt_X and parse_expression_to_X fill the struct handed to the    *)
(* kernel; getsockopt_X prepares the struct the kernel will fill.  Each    *)
(* function is the sequence of its steps, in the order of the code: a      *)
(* reader or a checker and the member it is applied to.  StructArguments   *)
(* says what each reader and checker does.  The branches are those of the  *)
(* FreeBSD build, the only one that compiles every struct.                 *)
(***************************************************************************)
EXTENDS Naturals, Sequences

(* One reader or checker applied to several members in turn. *)
Each(how, members) == [i \in 1..Len(members) |-> <<how, members[i]>>]

(* Comparison of the kernel's answer with the script. *)
check_linger == Each("s32", <<"l_onoff", "l_linger">>)
check_sctp_rtoinfo == Each("assoc", <<"srto_assoc_id">>) \o Each("u32", <<"srto_initial",
    "srto_max", "srto_min">>)
check_sctp_initmsg == Each("u16", <<"sinit_num_ostreams", "sinit_max_instreams",
    "sinit_max_attempts", "sinit_max_init_timeo">>)
check_sctp_authkeyid == Each("assoc", <<"scact_assoc_id">>)
    \o Each("u16", <<"scact_keynumber">>)
check_sctp_sack_info == Each("assoc", <<"sack_assoc_id">>) \o Each("u32", <<"sack_delay",
    "sack_freq">>)
check_sctp_paddrinfo == Each("assoc", <<"spinfo_assoc_id">>) \o Each("s32", <<"spinfo_state">>)
    \o Each("u32", <<"spinfo_cwnd", "spinfo_srtt", "spinfo_rto", "spinfo_mtu">>)
\* Mutant: one member is not compared.
check_sctp_status_skips == Each("assoc", <<"sstat_assoc_id">>) \o Each("s32", <<"sstat_state">>)
    \o Each("u32", <<"sstat_rwnd">>) \o Each("u16", <<"sstat_unackdata", "sstat_penddata",
    "sstat_instrms">>) \o Each("u32", <<"sstat_fragmentation_point">>)
    \o Each("sctp_paddrinfo", <<"sstat_primary">>)
check_sctp_status == Each("assoc", <<"sstat_assoc_id">>) \o Each("s32", <<"sstat_state">>)
    \o Each("u32", <<"sstat_rwnd">>) \o Each("u16", <<"sstat_unackdata", "sstat_penddata",
    "sstat_instrms", "sstat_outstrms">>) \o Each("u32", <<"sstat_fragmentation_point">>)
    \o Each("sctp_paddrinfo", <<"sstat_primary">>)
check_sctp_paddrparams == Each("u32", <<"spp_hbinterval">>) \o Each("u16", <<"spp_pathmaxrxt">>)
    \o Each("u32", <<"spp_pathmtu", "spp_flags", "spp_ipv6_flowlabel">>)
    \o Each("u8", <<"spp_dscp">>)
check_sctp_assoc_value == Each("assoc", <<"assoc_id">>) \o Each("u16", <<"assoc_value">>)
check_sctp_stream_value == Each("u16", <<"stream_id", "stream_value">>)
check_sctp_assocparams == Each("assoc", <<"sasoc_assoc_id">>)
    \o Each("u16", <<"sasoc_asocmaxrxt", "sasoc_number_peer_destinations">>)
    \o Each("u32", <<"sasoc_peer_rwnd", "sasoc_local_rwnd", "sasoc_cookie_life">>)
check_sctp_event == Each("assoc", <<"se_assoc_id">>) \o Each("u16", <<"se_type">>)
    \o Each("u8", <<"se_on">>)
check_sctp_event_subscribe == Each("u8", <<"sctp_data_io_event", "sctp_association_event",
    "sctp_address_event", "sctp_send_failure_event", "sctp_peer_error_event",
    "sctp_shutdown_event", "sctp_partial_delivery_event", "sctp_adaptation_layer_event",
    "sctp_authentication_event", "sctp_sender_dry_event">>)
check_sctp_sndinfo == Each("u16", <<"snd_sid", "snd_flags">>) \o Each("u32", <<"snd_ppid",
    "snd_context">>) \o Each("assoc", <<"snd_assoc_id">>)
check_sctp_default_prinfo == Each("assoc", <<"pr_assoc_id">>) \o Each("u16", <<"pr_policy">>)
    \o Each("u32", <<"pr_value">>)
check_sctp_setprim == Each("assoc", <<"ssp_assoc_id">>) \o Each("addr", <<"ssp_addr">>)
check_sctp_setadaptation == Each("u32", <<"ssb_adaptation_ind">>)
check_sctp_hamcalgo == Each("u32", <<"shmac_number_of_idents">>)
    \o Each("list", <<"shmac_idents">>) \o Each("u16s", <<"shmac_idents">>)
check_sctp_assoc_ids == Each("u32", <<"gaids_number_of_ids">>)
    \o Each("ids", <<"gaids_assoc_id">>)
check_sctp_authchunks == Each("assoc", <<"gauth_assoc_id">>)
    \o Each("u32", <<"gauth_number_of_chunks">>) \o Each("u8s", <<"gauth_chunks">>)
check_sctp_udpencaps == Each("u16", <<"sue_port">>)
check_accept_filter_arg == Each("str", <<"af_name", "af_arg">>)
check_tcp_function_set == Each("str", <<"function_set_name">>) \o Each("u32", <<"pcbcnt">>)
check_tcp_fastopen == Each("s32", <<"enable">>) \o Each("hex", <<"psk">>)
check_sctp_sndrcvinfo == Each("u16", <<"sinfo_stream", "sinfo_ssn", "sinfo_flags">>)
    \o Each("u32", <<"sinfo_ppid", "sinfo_context", "sinfo_timetolive", "sinfo_tsn",
    "sinfo_cumtsn">>) \o Each("assoc", <<"sinfo_assoc_id">>)
check_sctp_extrcvinfo == Each("u16", <<"sinfo_stream", "sinfo_ssn", "sinfo_flags">>)
    \o Each("u32", <<"sinfo_ppid", "sinfo_context", "sinfo_pr_value", "sinfo_tsn",
    "sinfo_cumtsn">>) \o Each("u16", <<"serinfo_next_flags", "serinfo_next_stream">>)
    \o Each("u32", <<"serinfo_next_aid", "serinfo_next_length", "serinfo_next_ppid">>)
    \o Each("assoc", <<"sinfo_assoc_id">>)
check_sctp_rcvinfo == Each("u16", <<"rcv_sid", "rcv_ssn", "rcv_flags">>)
    \o Each("u32", <<"rcv_ppid", "rcv_tsn", "rcv_cumtsn", "rcv_context">>)
    \o Each("assoc", <<"rcv_assoc_id">>)
check_sctp_nxtinfo == Each("u16", <<"nxt_sid", "nxt_flags">>) \o Each("u32", <<"nxt_ppid",
    "nxt_length">>) \o Each("assoc", <<"nxt_assoc_id">>)
check_sctp_assoc_change == Each("u16", <<"sac_type", "sac_flags">>)
    \o Each("u32", <<"sac_length">>) \o Each("u16", <<"sac_state", "sac_error",
    "sac_outbound_streams", "sac_inbound_streams">>) \o Each("assoc", <<"sac_assoc_id">>)
    \o Each("u8s", <<"sac_info">>)
check_sctp_paddr_change == Each("u16", <<"spc_type", "spc_flags">>)
    \o Each("u32", <<"spc_length">>) \o Each("addr", <<"spc_aaddr">>)
    \o Each("u32", <<"spc_state", "spc_error">>) \o Each("assoc", <<"spc_assoc_id">>)
check_sctp_remote_error == Each("u16", <<"sre_type", "sre_flags">>)
    \o Each("u32", <<"sre_length">>) \o Each("u16", <<"sre_error">>)
    \o Each("assoc", <<"sre_assoc_id">>) \o Each("u8s", <<"sre_data">>)
check_sctp_send_failed == Each("u16", <<"ssf_type", "ssf_flags">>)
    \o Each("u32", <<"ssf_length", "ssf_error">>) \o Each("sctp_sndrcvinfo", <<"ssf_info">>)
    \o Each("assoc", <<"ssf_assoc_id">>) \o Each("u8s", <<"ssf_data">>)
check_sctp_shutdown_event == Each("u16", <<"sse_type", "sse_flags">>)
    \o Each("u32", <<"sse_length">>) \o Each("assoc", <<"sse_assoc_id">>)
check_sctp_adaptation_event == Each("u16", <<"sai_type", "sai_flags">>)
    \o Each("u32", <<"sai_length", "sai_adaptation_ind">>) \o Each("assoc", <<"sai_assoc_id">>)
check_sctp_pdapi_event == Each("u16", <<"pdapi_type", "pdapi_flags">>)
    \o Each("u32", <<"pdapi_length", "pdapi_indication", "pdapi_stream", "pdapi_seq">>)
    \o Each("assoc", <<"pdapi_assoc_id">>)
check_sctp_authkey_event == Each("u16", <<"auth_type", "auth_flags">>)
    \o Each("u32", <<"auth_length">>) \o Each("u16", <<"auth_keynumber">>)
    \o Each("u32", <<"auth_indication">>) \o Each("assoc", <<"auth_assoc_id">>)
check_sctp_sender_dry_event == Each("u16", <<"sender_dry_type", "sender_dry_flags">>)
    \o Each("u32", <<"sender_dry_length">>) \o Each("assoc", <<"sender_dry_assoc_id">>)
check_sctp_send_failed_event == Each("u16", <<"ssfe_type", "ssfe_flags">>)
    \o Each("u32", <<"ssfe_length", "ssfe_error">>) \o Each("sctp_sndinfo", <<"ssfe_info">>)
    \o Each("assoc", <<"ssfe_assoc_id">>) \o Each("u8s", <<"ssfe_data">>)
check_sctp_tlv == Each("u16", <<"sn_type", "sn_flags">>) \o Each("u32", <<"sn_length">>)
check_sctp_stream_reset_event == Each("u16", <<"strreset_type", "strreset_flags">>)
    \o Each("u32", <<"strreset_length">>) \o Each("assoc", <<"strreset_assoc_id">>)
    \o Each("u16s", <<"strreset_stream_list">>)
check_sctp_assoc_reset_event == Each("u16", <<"assocreset_type", "assocreset_flags">>)
    \o Each("u32", <<"assocreset_length">>) \o Each("assoc", <<"assocreset_assoc_id">>)
    \o Each("u32", <<"assocreset_local_tsn", "assocreset_remote_tsn">>)
check_sctp_stream_change_event == Each("u16", <<"strchange_type", "strchange_flags">>)
    \o Each("u32", <<"strchange_length">>) \o Each("assoc", <<"strchange_assoc_id">>)
    \o Each("u16", <<"strchange_instrms", "strchange_outstrms">>)
check_sctp_recvv_rn == Each("sctp_rcvinfo", <<"recvv_rcvinfo">>)
    \o Each("sctp_nxtinfo", <<"recvv_nxtinfo">>)

(* Structs read from a script for the calls that send. *)
parse_expression_to_sctp_initmsg == Each("u16", <<"sinit_num_ostreams", "sinit_max_instreams",
    "sinit_max_attempts", "sinit_max_init_timeo">>)
parse_expression_to_sctp_sndrcvinfo == Each("u16", <<"sinfo_stream", "sinfo_ssn",
    "sinfo_flags">>) \o Each("u32", <<"sinfo_ppid", "sinfo_context", "sinfo_timetolive">>)
    \o Each("u32opt", <<"sinfo_tsn", "sinfo_cumtsn">>) \o Each("assoc", <<"sinfo_assoc_id">>)
parse_expression_to_sctp_sndinfo == Each("u16", <<"snd_sid", "snd_flags">>)
    \o Each("u32", <<"snd_ppid", "snd_context">>) \o Each("assoc", <<"snd_assoc_id">>)
parse_expression_to_sctp_authinfo == Each("u16", <<"auth_keynumber">>)
parse_expression_to_sctp_prinfo == Each("u16", <<"pr_policy">>) \o Each("u32", <<"pr_value">>)
parse_expression_to_sctp_sendv_spa == Each("u32", <<"sendv_flags">>)
    \o Each("spa", <<"sendv_sndinfo", "sendv_prinfo", "sendv_authinfo">>)

(* The cases of setsockopt(). *)
setsockopt_linger == Each("s32", <<"l_onoff", "l_linger">>)
setsockopt_accept_filter_arg == Each("str", <<"af_name">>) \o Each("stropt", <<"af_arg">>)
setsockopt_tcp_function_set == Each("str", <<"function_set_name">>) \o Each("u32", <<"pcbcnt">>)
setsockopt_tcp_fastopen == Each("s32", <<"enable">>) \o Each("hex", <<"psk">>)
\* Mutant: one member is not filled in.
setsockopt_sctp_rtoinfo_skips == Each("assoc", <<"srto_assoc_id">>)
    \o Each("u32", <<"srto_initial", "srto_max">>)
setsockopt_sctp_rtoinfo == Each("assoc", <<"srto_assoc_id">>) \o Each("u32", <<"srto_initial",
    "srto_max", "srto_min">>)
setsockopt_sctp_hmacalgo == Each("list", <<"shmac_idents">>)
    \o Each("malloc", <<"shmac_idents">>) \o Each("u32", <<"shmac_number_of_idents">>)
    \o Each("unchecked", <<"shmac_idents">>)
setsockopt_sctp_assoc_value == Each("assoc", <<"assoc_id">>) \o Each("u32", <<"assoc_value">>)
setsockopt_sctp_initmsg == parse_expression_to_sctp_initmsg
setsockopt_sctp_authkeyid == Each("assoc", <<"scact_assoc_id">>)
    \o Each("u16", <<"scact_keynumber">>)
setsockopt_sctp_sack_info == Each("assoc", <<"sack_assoc_id">>) \o Each("u32", <<"sack_delay",
    "sack_freq">>)
setsockopt_sctp_paddrinfo == Each("assoc", <<"spinfo_assoc_id">>)
    \o Each("addr", <<"spinfo_address">>)
setsockopt_sctp_status == Each("assoc", <<"sstat_assoc_id">>)
setsockopt_sctp_paddrparams == Each("assoc", <<"spp_assoc_id">>)
    \o Each("addr", <<"spp_address">>) \o Each("u32", <<"spp_hbinterval">>)
    \o Each("u16", <<"spp_pathmaxrxt">>) \o Each("u32", <<"spp_pathmtu", "spp_flags",
    "spp_ipv6_flowlabel">>) \o Each("u8", <<"spp_dscp">>)
setsockopt_sctp_stream_value == Each("u16", <<"stream_id", "stream_value">>)
setsockopt_sctp_assocparams == Each("assoc", <<"sasoc_assoc_id">>)
    \o Each("u16", <<"sasoc_asocmaxrxt", "sasoc_number_peer_destinations">>)
    \o Each("u32", <<"sasoc_peer_rwnd", "sasoc_local_rwnd", "sasoc_cookie_life">>)
setsockopt_sctp_event == Each("assoc", <<"se_assoc_id">>) \o Each("u16", <<"se_type">>)
    \o Each("u8", <<"se_on">>)
setsockopt_sctp_event_subscribe == Each("u8", <<"sctp_data_io_event", "sctp_association_event",
    "sctp_address_event", "sctp_send_failure_event", "sctp_peer_error_event",
    "sctp_shutdown_event", "sctp_partial_delivery_event", "sctp_adaptation_layer_event",
    "sctp_authentication_event", "sctp_sender_dry_event">>)
setsockopt_sctp_sndinfo == Each("u16", <<"snd_sid", "snd_flags">>) \o Each("u32", <<"snd_ppid",
    "snd_context">>) \o Each("assoc", <<"snd_assoc_id">>)
setsockopt_sctp_setprim == Each("assoc", <<"ssp_assoc_id">>) \o Each("addr", <<"ssp_addr">>)
setsockopt_sctp_setadaptation == Each("u32", <<"ssb_adaptation_ind">>)
setsockopt_sctp_sndrcvinfo == parse_expression_to_sctp_sndrcvinfo
setsockopt_sctp_prinfo == Each("u16", <<"pr_policy">>) \o Each("u32", <<"pr_value">>)
setsockopt_sctp_default_prinfo == Each("u16", <<"pr_policy">>) \o Each("u32", <<"pr_value">>)
    \o Each("assoc", <<"pr_assoc_id">>)
setsockopt_sctp_setpeerprim == Each("assoc", <<"sspp_assoc_id">>)
    \o Each("addr", <<"sspp_addr">>)
setsockopt_sctp_authchunk == Each("u8", <<"sauth_chunk">>)
setsockopt_sctp_authkey == Each("list", <<"sca_key">>) \o Each("malloc", <<"sca_key">>)
    \o Each("assoc", <<"sca_assoc_id">>) \o Each("u16", <<"sca_keynumber", "sca_keylength">>)
    \o Each("u8s", <<"sca_key">>)
setsockopt_sctp_reset_streams == Each("list", <<"srs_stream_list">>)
    \o Each("malloc", <<"srs_stream_list">>) \o Each("assoc", <<"srs_assoc_id">>)
    \o Each("u16", <<"srs_flags", "srs_number_streams">>) \o Each("u16s", <<"srs_stream_list">>)
setsockopt_sctp_add_streams == Each("assoc", <<"sas_assoc_id">>) \o Each("u16", <<"sas_instrms",
    "sas_outstrms">>)
setsockopt_sctp_udpencaps == Each("assoc", <<"sue_assoc_id">>)
    \o Each("addr", <<"sue_address">>) \o Each("u16", <<"sue_port">>)

(* The cases of getsockopt() that prepare the struct. *)
getsockopt_linger == Each("malloc", <<"">>)
getsockopt_accept_filter_arg == Each("malloc", <<"">>)
getsockopt_tcp_function_set == Each("malloc", <<"">>)
getsockopt_tcp_fastopen == Each("malloc", <<"">>)
\* Mutant: the ellipsis is not allowed for.
getsockopt_sctp_rtoinfo_strict == Each("malloc", <<"">>) \o Each("u32", <<"srto_assoc_id">>)
getsockopt_sctp_rtoinfo == Each("malloc", <<"">>) \o Each("assoc", <<"srto_assoc_id">>)
getsockopt_sctp_hmacalgo == Each("malloc", <<"">>)
getsockopt_sctp_assoc_value == Each("malloc", <<"">>) \o Each("assoc", <<"assoc_id">>)
getsockopt_sctp_initmsg == Each("malloc", <<"">>)
getsockopt_sctp_authkeyid == Each("malloc", <<"">>) \o Each("assoc", <<"scact_assoc_id">>)
getsockopt_sctp_sack_info == Each("malloc", <<"">>) \o Each("assoc", <<"sack_assoc_id">>)
getsockopt_sctp_paddrinfo == Each("malloc", <<"">>) \o Each("assoc", <<"spinfo_assoc_id">>)
    \o Each("addr", <<"spinfo_address">>)
getsockopt_sctp_status == Each("malloc", <<"">>) \o Each("assoc", <<"sstat_assoc_id">>)
getsockopt_sctp_paddrparams == Each("malloc", <<"">>) \o Each("addr", <<"spp_address">>)
    \o Each("assoc", <<"spp_assoc_id">>)
getsockopt_sctp_stream_value == Each("malloc", <<"">>) \o Each("u16", <<"stream_id">>)
getsockopt_sctp_assocparams == Each("malloc", <<"">>) \o Each("assoc", <<"sasoc_assoc_id">>)
getsockopt_sctp_event == Each("malloc", <<"">>) \o Each("assoc", <<"se_assoc_id">>)
    \o Each("u16", <<"se_type">>)
getsockopt_sctp_event_subscribe == Each("malloc", <<"">>)
getsockopt_sctp_sndinfo == Each("malloc", <<"">>) \o Each("assoc", <<"snd_assoc_id">>)
getsockopt_sctp_setprim == Each("malloc", <<"">>) \o Each("assoc", <<"ssp_assoc_id">>)
getsockopt_sctp_setadaptation == Each("malloc", <<"">>)
getsockopt_sctp_sndrcvinfo == Each("malloc", <<"">>)
getsockopt_sctp_prinfo == Each("malloc", <<"">>) \o Each("beyond", <<"pr_policy">>)
getsockopt_sctp_default_prinfo == Each("malloc", <<"">>) \o Each("assoc", <<"pr_assoc_id">>)
getsockopt_sctp_assoc_ids == Each("malloc", <<"">>)
getsockopt_sctp_authchunks == Each("malloc", <<"">>) \o Each("assoc", <<"gauth_assoc_id">>)
getsockopt_sctp_reset_streams == Each("malloc", <<"">>) \o Each("assoc", <<"srs_assoc_id">>)
getsockopt_sctp_add_streams == Each("malloc", <<"">>) \o Each("assoc", <<"sas_assoc_id">>)
getsockopt_sctp_udpencaps == Each("malloc", <<"">>) \o Each("assoc", <<"sue_assoc_id">>)
    \o Each("addr", <<"sue_address">>)

(* The dispatch on the expression type: the second switch of getsockopt(), check_cmsghdr() and *)
(* check_sctp_notification(); the switch of setsockopt(); the calls that send; the first switch *)
(* of getsockopt(). *)
Checks == [linger |-> check_linger, sctp_rtoinfo |-> check_sctp_rtoinfo,
    sctp_initmsg |-> check_sctp_initmsg, sctp_authkeyid |-> check_sctp_authkeyid,
    sctp_sack_info |-> check_sctp_sack_info, sctp_paddrinfo |-> check_sctp_paddrinfo,
    sctp_status |-> check_sctp_status, sctp_paddrparams |-> check_sctp_paddrparams,
    sctp_assoc_value |-> check_sctp_assoc_value, sctp_stream_value |-> check_sctp_stream_value,
    sctp_assocparams |-> check_sctp_assocparams, sctp_event |-> check_sctp_event,
    sctp_event_subscribe |-> check_sctp_event_subscribe, sctp_sndinfo |-> check_sctp_sndinfo,
    sctp_default_prinfo |-> check_sctp_default_prinfo, sctp_setprim |-> check_sctp_setprim,
    sctp_setadaptation |-> check_sctp_setadaptation, sctp_hmacalgo |-> check_sctp_hamcalgo,
    sctp_assoc_ids |-> check_sctp_assoc_ids, sctp_authchunks |-> check_sctp_authchunks,
    sctp_udpencaps |-> check_sctp_udpencaps, accept_filter_arg |-> check_accept_filter_arg,
    tcp_function_set |-> check_tcp_function_set, tcp_fastopen |-> check_tcp_fastopen,
    sctp_sndrcvinfo |-> check_sctp_sndrcvinfo, sctp_extrcvinfo |-> check_sctp_extrcvinfo,
    sctp_rcvinfo |-> check_sctp_rcvinfo, sctp_nxtinfo |-> check_sctp_nxtinfo,
    sctp_assoc_change |-> check_sctp_assoc_change,
    sctp_paddr_change |-> check_sctp_paddr_change,
    sctp_remote_error |-> check_sctp_remote_error, sctp_send_failed |-> check_sctp_send_failed,
    sctp_shutdown_event |-> check_sctp_shutdown_event,
    sctp_adaptation_event |-> check_sctp_adaptation_event,
    sctp_pdapi_event |-> check_sctp_pdapi_event,
    sctp_authkey_event |-> check_sctp_authkey_event,
    sctp_sender_dry_event |-> check_sctp_sender_dry_event,
    sctp_send_failed_event |-> check_sctp_send_failed_event, sctp_tlv |-> check_sctp_tlv,
    sctp_stream_reset_event |-> check_sctp_stream_reset_event,
    sctp_assoc_reset_event |-> check_sctp_assoc_reset_event,
    sctp_stream_change_event |-> check_sctp_stream_change_event,
    sctp_recvv_rn |-> check_sctp_recvv_rn]

Sets == [linger |-> setsockopt_linger, accept_filter_arg |-> setsockopt_accept_filter_arg,
    tcp_function_set |-> setsockopt_tcp_function_set, tcp_fastopen |-> setsockopt_tcp_fastopen,
    sctp_rtoinfo |-> setsockopt_sctp_rtoinfo, sctp_hmacalgo |-> setsockopt_sctp_hmacalgo,
    sctp_assoc_value |-> setsockopt_sctp_assoc_value, sctp_initmsg |-> setsockopt_sctp_initmsg,
    sctp_authkeyid |-> setsockopt_sctp_authkeyid, sctp_sack_info |-> setsockopt_sctp_sack_info,
    sctp_paddrinfo |-> setsockopt_sctp_paddrinfo, sctp_status |-> setsockopt_sctp_status,
    sctp_paddrparams |-> setsockopt_sctp_paddrparams,
    sctp_stream_value |-> setsockopt_sctp_stream_value,
    sctp_assocparams |-> setsockopt_sctp_assocparams, sctp_event |-> setsockopt_sctp_event,
    sctp_event_subscribe |-> setsockopt_sctp_event_subscribe,
    sctp_sndinfo |-> setsockopt_sctp_sndinfo, sctp_setprim |-> setsockopt_sctp_setprim,
    sctp_setadaptation |-> setsockopt_sctp_setadaptation,
    sctp_sndrcvinfo |-> setsockopt_sctp_sndrcvinfo, sctp_prinfo |-> setsockopt_sctp_prinfo,
    sctp_default_prinfo |-> setsockopt_sctp_default_prinfo,
    sctp_setpeerprim |-> setsockopt_sctp_setpeerprim,
    sctp_authchunk |-> setsockopt_sctp_authchunk, sctp_authkey |-> setsockopt_sctp_authkey,
    sctp_reset_streams |-> setsockopt_sctp_reset_streams,
    sctp_add_streams |-> setsockopt_sctp_add_streams,
    sctp_udpencaps |-> setsockopt_sctp_udpencaps]

Sends == [sctp_initmsg |-> parse_expression_to_sctp_initmsg,
    sctp_sndrcvinfo |-> parse_expression_to_sctp_sndrcvinfo,
    sctp_sndinfo |-> parse_expression_to_sctp_sndinfo,
    sctp_authinfo |-> parse_expression_to_sctp_authinfo,
    sctp_prinfo |-> parse_expression_to_sctp_prinfo,
    sctp_sendv_spa |-> parse_expression_to_sctp_sendv_spa]

Gets == [linger |-> getsockopt_linger, accept_filter_arg |-> getsockopt_accept_filter_arg,
    tcp_function_set |-> getsockopt_tcp_function_set, tcp_fastopen |-> getsockopt_tcp_fastopen,
    sctp_rtoinfo |-> getsockopt_sctp_rtoinfo, sctp_hmacalgo |-> getsockopt_sctp_hmacalgo,
    sctp_assoc_value |-> getsockopt_sctp_assoc_value, sctp_initmsg |-> getsockopt_sctp_initmsg,
    sctp_authkeyid |-> getsockopt_sctp_authkeyid, sctp_sack_info |-> getsockopt_sctp_sack_info,
    sctp_paddrinfo |-> getsockopt_sctp_paddrinfo, sctp_status |-> getsockopt_sctp_status,
    sctp_paddrparams |-> getsockopt_sctp_paddrparams,
    sctp_stream_value |-> getsockopt_sctp_stream_value,
    sctp_assocparams |-> getsockopt_sctp_assocparams, sctp_event |-> getsockopt_sctp_event,
    sctp_event_subscribe |-> getsockopt_sctp_event_subscribe,
    sctp_sndinfo |-> getsockopt_sctp_sndinfo, sctp_setprim |-> getsockopt_sctp_setprim,
    sctp_setadaptation |-> getsockopt_sctp_setadaptation,
    sctp_sndrcvinfo |-> getsockopt_sctp_sndrcvinfo, sctp_prinfo |-> getsockopt_sctp_prinfo,
    sctp_default_prinfo |-> getsockopt_sctp_default_prinfo,
    sctp_assoc_ids |-> getsockopt_sctp_assoc_ids,
    sctp_authchunks |-> getsockopt_sctp_authchunks,
    sctp_reset_streams |-> getsockopt_sctp_reset_streams,
    sctp_add_streams |-> getsockopt_sctp_add_streams,
    sctp_udpencaps |-> getsockopt_sctp_udpencaps]

=============================================================================
