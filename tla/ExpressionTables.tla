--------------------------- MODULE ExpressionTables ---------------------------
(***************************************************************************)
(* What packetdrill knows of each struct a script can write in braces: the *)
(* members of its expression (script.h), the order in which                *)
(* evaluate_X_expression evaluates them (script.c) and the order in which  *)
(* free_expression frees them (script.c).  Each operator is one struct     *)
(* declaration, one evaluate function or one case of free_expression; all  *)
(* evaluate functions have the same body otherwise (allocate the struct,   *)
(* evaluate member after member into it, return at the first error), which *)
(* StructArguments executes once for all of them.  A struct maps each      *)
(* member to the type of the kernel's member of the same name; the words   *)
(* that are not scalars are "addr" (a socket address), "str", "hex", "data"*)
(* (a payload), a list of scalars ("u8s", "u16s", "ids"), a list of structs*)
(* ("iovecs", "cmsgs"), or the name of a nested struct.                    *)
(***************************************************************************)
EXTENDS Naturals, Sequences

iovec_expr == [iov_base |-> "data", iov_len |-> "u32"]
evaluate_iovec_expression == <<"iov_base", "iov_len">>
free_iovec == <<"iov_base", "iov_len">>

msghdr_expr == [msg_name |-> "addr", msg_namelen |-> "u32", msg_iov |-> "iovecs",
    msg_iovlen |-> "u32", msg_control |-> "cmsgs", msg_controllen |-> "u32",
    msg_flags |-> "s32"]
evaluate_msghdr_expression == <<"msg_name", "msg_namelen", "msg_iov", "msg_iovlen",
    "msg_control", "msg_controllen", "msg_flags">>
free_msghdr == <<"msg_name", "msg_namelen", "msg_iov", "msg_iovlen", "msg_control",
    "msg_controllen", "msg_flags">>

cmsghdr_expr == [cmsg_len |-> "u32", cmsg_level |-> "s32", cmsg_type |-> "s32",
    cmsg_data |-> "sctp_sndinfo"]
evaluate_cmsghdr_expression == <<"cmsg_len", "cmsg_level", "cmsg_type", "cmsg_data">>
free_cmsghdr == <<"cmsg_len", "cmsg_level", "cmsg_type", "cmsg_data">>

pollfd_expr == [fd |-> "s32", events |-> "u16", revents |-> "u16"]
evaluate_pollfd_expression == <<"fd", "events", "revents">>
free_pollfd == <<"fd", "events", "revents">>

linger_expr == [l_onoff |-> "s32", l_linger |-> "s32"]
evaluate_linger_expression == <<"l_onoff", "l_linger">>
free_linger == <<"l_onoff", "l_linger">>

accept_filter_arg_expr == [af_name |-> "str", af_arg |-> "str"]
evaluate_accept_filter_arg_expression == <<"af_name", "af_arg">>
free_accept_filter_arg == <<"af_name", "af_arg">>

sf_hdtr_expr == [headers |-> "iovecs", hdr_cnt |-> "u32", trailers |-> "iovecs",
    trl_cnt |-> "u32"]
evaluate_sf_hdtr_expression == <<"headers", "hdr_cnt", "trailers", "trl_cnt">>
free_sf_hdtr == <<"headers", "hdr_cnt", "trailers", "trl_cnt">>

tcp_function_set_expr == [function_set_name |-> "str", pcbcnt |-> "u32"]
evaluate_tcp_function_set_expression == <<"function_set_name", "pcbcnt">>
free_tcp_function_set == <<"function_set_name", "pcbcnt">>

tcp_fastopen_expr == [enable |-> "s32", psk |-> "hex"]
evaluate_tcp_fastopen_expression == <<"enable", "psk">>
free_tcp_fastopen == <<"enable", "psk">>

sctp_rtoinfo_expr == [srto_assoc_id |-> "assoc", srto_initial |-> "u32", srto_max |-> "u32",
    srto_min |-> "u32"]
evaluate_sctp_rtoinfo_expression == <<"srto_assoc_id", "srto_initial", "srto_max", "srto_min">>
free_sctp_rtoinfo == <<"srto_assoc_id", "srto_initial", "srto_max", "srto_min">>

sctp_initmsg_expr == [sinit_num_ostreams |-> "u16", sinit_max_instreams |-> "u16",
    sinit_max_attempts |-> "u16", sinit_max_init_timeo |-> "u16"]
evaluate_sctp_initmsg_expression == <<"sinit_num_ostreams", "sinit_max_instreams",
    "sinit_max_attempts", "sinit_max_init_timeo">>
free_sctp_initmsg == <<"sinit_num_ostreams", "sinit_max_instreams", "sinit_max_attempts",
    "sinit_max_init_timeo">>

sctp_hmacalgo_expr == [shmac_number_of_idents |-> "u32", shmac_idents |-> "u16s"]
evaluate_sctp_hmacalgo_expression == <<"shmac_number_of_idents", "shmac_idents">>
free_sctp_hmacalgo == <<"shmac_number_of_idents", "shmac_idents">>

sctp_assoc_value_expr == [assoc_id |-> "assoc", assoc_value |-> "u32"]
evaluate_sctp_assoc_value_expression == <<"assoc_id", "assoc_value">>
free_sctp_assoc_value == <<"assoc_id", "assoc_value">>

sctp_stream_value_expr == [stream_id |-> "u16", stream_value |-> "u16"]
evaluate_sctp_stream_value_expression == <<"stream_id", "stream_value">>
free_sctp_stream_value == <<"stream_id", "stream_value">>

sctp_authkeyid_expr == [scact_assoc_id |-> "assoc", scact_keynumber |-> "u16"]
evaluate_sctp_authkeyid_expression == <<"scact_assoc_id", "scact_keynumber">>
free_sctp_authkeyid == <<"scact_assoc_id", "scact_keynumber">>

sctp_sack_info_expr == [sack_assoc_id |-> "assoc", sack_delay |-> "u32", sack_freq |-> "u32"]
evaluate_sctp_sack_info_expression == <<"sack_assoc_id", "sack_delay", "sack_freq">>
free_sctp_sack_info == <<"sack_assoc_id", "sack_delay", "sack_freq">>

sctp_status_expr == [sstat_assoc_id |-> "assoc", sstat_state |-> "s32", sstat_rwnd |-> "u32",
    sstat_unackdata |-> "u16", sstat_penddata |-> "u16", sstat_instrms |-> "u16",
    sstat_outstrms |-> "u16", sstat_fragmentation_point |-> "u32",
    sstat_primary |-> "sctp_paddrinfo"]
evaluate_sctp_status_expression == <<"sstat_assoc_id", "sstat_state", "sstat_rwnd",
    "sstat_unackdata", "sstat_penddata", "sstat_instrms", "sstat_outstrms",
    "sstat_fragmentation_point", "sstat_primary">>
\* Mutant: the nested struct is forgotten.
free_sctp_status_leaks == <<"sstat_assoc_id", "sstat_state", "sstat_rwnd", "sstat_unackdata",
    "sstat_penddata", "sstat_instrms", "sstat_outstrms", "sstat_fragmentation_point">>
free_sctp_status == <<"sstat_assoc_id", "sstat_state", "sstat_rwnd", "sstat_unackdata",
    "sstat_penddata", "sstat_instrms", "sstat_outstrms", "sstat_fragmentation_point",
    "sstat_primary">>

sctp_paddrinfo_expr == [spinfo_assoc_id |-> "assoc", spinfo_address |-> "addr",
    spinfo_state |-> "s32", spinfo_cwnd |-> "u32", spinfo_srtt |-> "u32", spinfo_rto |-> "u32",
    spinfo_mtu |-> "u32"]
evaluate_sctp_paddrinfo_expression == <<"spinfo_assoc_id", "spinfo_address", "spinfo_state",
    "spinfo_cwnd", "spinfo_srtt", "spinfo_rto", "spinfo_mtu">>
free_sctp_paddrinfo == <<"spinfo_assoc_id", "spinfo_address", "spinfo_state", "spinfo_cwnd",
    "spinfo_srtt", "spinfo_rto", "spinfo_mtu">>

sctp_paddrparams_expr == [spp_assoc_id |-> "assoc", spp_address |-> "addr",
    spp_hbinterval |-> "u32", spp_pathmaxrxt |-> "u16", spp_pathmtu |-> "u32",
    spp_flags |-> "u32", spp_ipv6_flowlabel |-> "u32", spp_dscp |-> "u8"]
evaluate_sctp_peer_addr_param_expression == <<"spp_assoc_id", "spp_address", "spp_hbinterval",
    "spp_pathmaxrxt", "spp_pathmtu", "spp_flags", "spp_ipv6_flowlabel", "spp_dscp">>
free_sctp_paddrparams == <<"spp_assoc_id", "spp_address", "spp_hbinterval", "spp_pathmaxrxt",
    "spp_pathmtu", "spp_flags", "spp_ipv6_flowlabel", "spp_dscp">>

sctp_assocparams_expr == [sasoc_assoc_id |-> "assoc", sasoc_asocmaxrxt |-> "u16",
    sasoc_number_peer_destinations |-> "u16", sasoc_peer_rwnd |-> "u32",
    sasoc_local_rwnd |-> "u32", sasoc_cookie_life |-> "u32"]
evaluate_sctp_accocparams_expression == <<"sasoc_assoc_id", "sasoc_asocmaxrxt",
    "sasoc_number_peer_destinations", "sasoc_peer_rwnd", "sasoc_local_rwnd",
    "sasoc_cookie_life">>
free_sctp_assocparams == <<"sasoc_assoc_id", "sasoc_asocmaxrxt",
    "sasoc_number_peer_destinations", "sasoc_peer_rwnd", "sasoc_local_rwnd",
    "sasoc_cookie_life">>

sctp_event_expr == [se_assoc_id |-> "assoc", se_type |-> "u16", se_on |-> "u8"]
evaluate_sctp_event_expression == <<"se_assoc_id", "se_type", "se_on">>
free_sctp_event == <<"se_assoc_id", "se_type", "se_on">>

sctp_event_subscribe_expr == [sctp_data_io_event |-> "u8", sctp_association_event |-> "u8",
    sctp_address_event |-> "u8", sctp_send_failure_event |-> "u8",
    sctp_peer_error_event |-> "u8", sctp_shutdown_event |-> "u8",
    sctp_partial_delivery_event |-> "u8", sctp_adaptation_layer_event |-> "u8",
    sctp_authentication_event |-> "u8", sctp_sender_dry_event |-> "u8"]
evaluate_sctp_event_subscribe_expression == <<"sctp_data_io_event", "sctp_association_event",
    "sctp_address_event", "sctp_send_failure_event", "sctp_peer_error_event",
    "sctp_shutdown_event", "sctp_partial_delivery_event", "sctp_adaptation_layer_event",
    "sctp_authentication_event", "sctp_sender_dry_event">>
free_sctp_event_subscribe == <<"sctp_data_io_event", "sctp_association_event",
    "sctp_address_event", "sctp_send_failure_event", "sctp_peer_error_event",
    "sctp_shutdown_event", "sctp_partial_delivery_event", "sctp_adaptation_layer_event",
    "sctp_authentication_event", "sctp_sender_dry_event">>

sctp_sndinfo_expr == [snd_sid |-> "u16", snd_flags |-> "u16", snd_ppid |-> "u32",
    snd_context |-> "u32", snd_assoc_id |-> "assoc"]
evaluate_sctp_sndinfo_expression == <<"snd_sid", "snd_flags", "snd_ppid", "snd_context",
    "snd_assoc_id">>
free_sctp_sndinfo == <<"snd_sid", "snd_flags", "snd_ppid", "snd_context", "snd_assoc_id">>

sctp_setprim_expr == [ssp_assoc_id |-> "assoc", ssp_addr |-> "addr"]
evaluate_sctp_setprim_expression == <<"ssp_assoc_id", "ssp_addr">>
free_sctp_setprim == <<"ssp_assoc_id", "ssp_addr">>

sctp_setadaptation_expr == [ssb_adaptation_ind |-> "u32"]
evaluate_sctp_setadaptation_expression == <<"ssb_adaptation_ind">>
free_sctp_setadaptation == <<"ssb_adaptation_ind">>

sctp_sndrcvinfo_expr == [sinfo_stream |-> "u16", sinfo_ssn |-> "u16", sinfo_flags |-> "u16",
    sinfo_ppid |-> "u32", sinfo_context |-> "u32", sinfo_timetolive |-> "u32",
    sinfo_tsn |-> "u32", sinfo_cumtsn |-> "u32", sinfo_assoc_id |-> "assoc"]
evaluate_sctp_sndrcvinfo_expression == <<"sinfo_stream", "sinfo_ssn", "sinfo_flags",
    "sinfo_ppid", "sinfo_context", "sinfo_timetolive", "sinfo_tsn", "sinfo_cumtsn",
    "sinfo_assoc_id">>
free_sctp_sndrcvinfo == <<"sinfo_stream", "sinfo_ssn", "sinfo_flags", "sinfo_ppid",
    "sinfo_context", "sinfo_timetolive", "sinfo_tsn", "sinfo_cumtsn", "sinfo_assoc_id">>

sctp_prinfo_expr == [pr_policy |-> "u16", pr_value |-> "u32"]
evaluate_sctp_prinfo_expression == <<"pr_policy", "pr_value">>
free_sctp_prinfo == <<"pr_policy", "pr_value">>

sctp_default_prinfo_expr == [pr_policy |-> "u16", pr_value |-> "u32", pr_assoc_id |-> "assoc"]
evaluate_sctp_default_prinfo_expression == <<"pr_policy", "pr_value", "pr_assoc_id">>
free_sctp_default_prinfo == <<"pr_policy", "pr_value", "pr_assoc_id">>

sctp_authinfo_expr == [auth_keynumber |-> "u16"]
evaluate_sctp_authinfo_expression == <<"auth_keynumber">>
free_sctp_authinfo == <<"auth_keynumber">>

sctp_sendv_spa_expr == [sendv_flags |-> "u32", sendv_sndinfo |-> "sctp_sndinfo",
    sendv_prinfo |-> "sctp_prinfo", sendv_authinfo |-> "sctp_authinfo"]
evaluate_sctp_sendv_spa_expression == <<"sendv_flags", "sendv_sndinfo", "sendv_prinfo",
    "sendv_authinfo">>
free_sctp_sendv_spa == <<"sendv_flags", "sendv_sndinfo", "sendv_prinfo", "sendv_authinfo">>

sctp_rcvinfo_expr == [rcv_sid |-> "u16", rcv_ssn |-> "u16", rcv_flags |-> "u16",
    rcv_ppid |-> "u32", rcv_tsn |-> "u32", rcv_cumtsn |-> "u32", rcv_context |-> "u32",
    rcv_assoc_id |-> "assoc"]
evaluate_sctp_rcvinfo_expression == <<"rcv_sid", "rcv_ssn", "rcv_flags", "rcv_ppid", "rcv_tsn",
    "rcv_cumtsn", "rcv_context", "rcv_assoc_id">>
free_sctp_rcvinfo == <<"rcv_sid", "rcv_ssn", "rcv_flags", "rcv_ppid", "rcv_tsn", "rcv_cumtsn",
    "rcv_context", "rcv_assoc_id">>

sctp_nxtinfo_expr == [nxt_sid |-> "u16", nxt_flags |-> "u16", nxt_ppid |-> "u32",
    nxt_length |-> "u32", nxt_assoc_id |-> "assoc"]
evaluate_sctp_nxtinfo_expression == <<"nxt_sid", "nxt_flags", "nxt_ppid", "nxt_length",
    "nxt_assoc_id">>
free_sctp_nxtinfo == <<"nxt_sid", "nxt_flags", "nxt_ppid", "nxt_length", "nxt_assoc_id">>

sctp_recvv_rn_expr == [recvv_rcvinfo |-> "sctp_rcvinfo", recvv_nxtinfo |-> "sctp_nxtinfo"]
evaluate_sctp_recvv_rn_expression == <<"recvv_rcvinfo", "recvv_nxtinfo">>
free_sctp_recvv_rn == <<"recvv_rcvinfo", "recvv_nxtinfo">>

sctp_assoc_change_expr == [sac_type |-> "u16", sac_flags |-> "u16", sac_length |-> "u32",
    sac_state |-> "u16", sac_error |-> "u16", sac_outbound_streams |-> "u16",
    sac_inbound_streams |-> "u16", sac_assoc_id |-> "assoc", sac_info |-> "u8s"]
evaluate_sctp_assoc_change_expression == <<"sac_type", "sac_flags", "sac_length", "sac_state",
    "sac_error", "sac_outbound_streams", "sac_inbound_streams", "sac_assoc_id", "sac_info">>
free_sctp_assoc_change == <<"sac_type", "sac_flags", "sac_length", "sac_state", "sac_error",
    "sac_outbound_streams", "sac_inbound_streams", "sac_assoc_id", "sac_info">>

sctp_paddr_change_expr == [spc_type |-> "u16", spc_flags |-> "u16", spc_length |-> "u32",
    spc_aaddr |-> "addr", spc_state |-> "u32", spc_error |-> "u32", spc_assoc_id |-> "assoc"]
evaluate_sctp_paddr_change_expression == <<"spc_type", "spc_flags", "spc_length", "spc_aaddr",
    "spc_state", "spc_error", "spc_assoc_id">>
free_sctp_paddr_change == <<"spc_type", "spc_flags", "spc_length", "spc_aaddr", "spc_state",
    "spc_error", "spc_assoc_id">>

sctp_remote_error_expr == [sre_type |-> "u16", sre_flags |-> "u16", sre_length |-> "u32",
    sre_error |-> "u16", sre_assoc_id |-> "assoc", sre_data |-> "u8s"]
evaluate_sctp_remote_error_expression == <<"sre_type", "sre_flags", "sre_length", "sre_error",
    "sre_assoc_id", "sre_data">>
free_sctp_remote_error == <<"sre_type", "sre_flags", "sre_length", "sre_error", "sre_assoc_id",
    "sre_data">>

sctp_send_failed_expr == [ssf_type |-> "u16", ssf_flags |-> "u16", ssf_length |-> "u32",
    ssf_error |-> "u32", ssf_info |-> "sctp_sndrcvinfo", ssf_assoc_id |-> "assoc",
    ssf_data |-> "u8s"]
evaluate_sctp_send_failed_expression == <<"ssf_type", "ssf_flags", "ssf_length", "ssf_error",
    "ssf_info", "ssf_assoc_id", "ssf_data">>
free_sctp_send_failed == <<"ssf_type", "ssf_flags", "ssf_length", "ssf_error", "ssf_info",
    "ssf_assoc_id", "ssf_data">>

sctp_shutdown_event_expr == [sse_type |-> "u16", sse_flags |-> "u16", sse_length |-> "u32",
    sse_assoc_id |-> "assoc"]
evaluate_sctp_shutdown_event_expression == <<"sse_type", "sse_flags", "sse_length",
    "sse_assoc_id">>
free_sctp_shutdown_event == <<"sse_type", "sse_flags", "sse_length", "sse_assoc_id">>

sctp_adaptation_event_expr == [sai_type |-> "u16", sai_flags |-> "u16", sai_length |-> "u32",
    sai_adaptation_ind |-> "u32", sai_assoc_id |-> "assoc"]
evaluate_sctp_adaptation_event_expression == <<"sai_type", "sai_flags", "sai_length",
    "sai_adaptation_ind", "sai_assoc_id">>
free_sctp_adaptation_event == <<"sai_type", "sai_flags", "sai_length", "sai_adaptation_ind",
    "sai_assoc_id">>

sctp_pdapi_event_expr == [pdapi_type |-> "u16", pdapi_flags |-> "u16", pdapi_length |-> "u32",
    pdapi_indication |-> "u32", pdapi_stream |-> "u32", pdapi_seq |-> "u32",
    pdapi_assoc_id |-> "assoc"]
evaluate_sctp_pdapi_event_expression == <<"pdapi_type", "pdapi_flags", "pdapi_length",
    "pdapi_indication", "pdapi_stream", "pdapi_seq", "pdapi_assoc_id">>
free_sctp_pdapi_event == <<"pdapi_type", "pdapi_flags", "pdapi_length", "pdapi_indication",
    "pdapi_stream", "pdapi_seq", "pdapi_assoc_id">>

sctp_authkey_event_expr == [auth_type |-> "u16", auth_flags |-> "u16", auth_length |-> "u32",
    auth_keynumber |-> "u16", auth_indication |-> "u32", auth_assoc_id |-> "assoc"]
evaluate_sctp_authkey_event_expression == <<"auth_type", "auth_flags", "auth_length",
    "auth_keynumber", "auth_indication", "auth_assoc_id">>
free_sctp_authkey_event == <<"auth_type", "auth_flags", "auth_length", "auth_keynumber",
    "auth_indication", "auth_assoc_id">>

sctp_sender_dry_event_expr == [sender_dry_type |-> "u16", sender_dry_flags |-> "u16",
    sender_dry_length |-> "u32", sender_dry_assoc_id |-> "assoc"]
evaluate_sctp_sender_dry_event_expression == <<"sender_dry_type", "sender_dry_flags",
    "sender_dry_length", "sender_dry_assoc_id">>
free_sctp_sender_dry_event == <<"sender_dry_type", "sender_dry_flags", "sender_dry_length",
    "sender_dry_assoc_id">>

sctp_send_failed_event_expr == [ssfe_type |-> "u16", ssfe_flags |-> "u16",
    ssfe_length |-> "u32", ssfe_error |-> "u32", ssfe_info |-> "sctp_sndinfo",
    ssfe_assoc_id |-> "assoc", ssfe_data |-> "u8s"]
evaluate_sctp_send_failed_event_expression == <<"ssfe_type", "ssfe_flags", "ssfe_length",
    "ssfe_error", "ssfe_info", "ssfe_assoc_id", "ssfe_data">>
free_sctp_send_failed_event == <<"ssfe_type", "ssfe_flags", "ssfe_length", "ssfe_error",
    "ssfe_info", "ssfe_assoc_id", "ssfe_data">>

sctp_tlv_expr == [sn_type |-> "u16", sn_flags |-> "u16", sn_length |-> "u32"]
evaluate_sctp_tlv_expression == <<"sn_type", "sn_flags", "sn_length">>
free_sctp_tlv == <<"sn_type", "sn_flags", "sn_length">>

sctp_extrcvinfo_expr == [sinfo_stream |-> "u16", sinfo_ssn |-> "u16", sinfo_flags |-> "u16",
    sinfo_ppid |-> "u32", sinfo_context |-> "u32", sinfo_pr_value |-> "u32",
    sinfo_tsn |-> "u32", sinfo_cumtsn |-> "u32", serinfo_next_flags |-> "u16",
    serinfo_next_stream |-> "u16", serinfo_next_aid |-> "u32", serinfo_next_length |-> "u32",
    serinfo_next_ppid |-> "u32", sinfo_assoc_id |-> "assoc"]
evaluate_sctp_extrcvinfo_expression == <<"sinfo_stream", "sinfo_ssn", "sinfo_flags",
    "sinfo_ppid", "sinfo_context", "sinfo_pr_value", "sinfo_tsn", "sinfo_cumtsn",
    "serinfo_next_flags", "serinfo_next_stream", "serinfo_next_aid", "serinfo_next_length",
    "serinfo_next_ppid", "sinfo_assoc_id">>
free_sctp_extrcvinfo == <<"sinfo_stream", "sinfo_ssn", "sinfo_flags", "sinfo_ppid",
    "sinfo_context", "sinfo_pr_value", "sinfo_tsn", "sinfo_cumtsn", "serinfo_next_flags",
    "serinfo_next_stream", "serinfo_next_aid", "serinfo_next_length", "serinfo_next_ppid",
    "sinfo_assoc_id">>

sctp_assoc_ids_expr == [gaids_number_of_ids |-> "u32", gaids_assoc_id |-> "ids"]
evaluate_sctp_assoc_ids_expression == <<"gaids_number_of_ids", "gaids_assoc_id">>
free_sctp_assoc_ids == <<"gaids_number_of_ids", "gaids_assoc_id">>

sctp_authchunks_expr == [gauth_assoc_id |-> "assoc", gauth_number_of_chunks |-> "u32",
    gauth_chunks |-> "u8s"]
evaluate_sctp_authchunks_expression == <<"gauth_assoc_id", "gauth_number_of_chunks",
    "gauth_chunks">>
free_sctp_authchunks == <<"gauth_assoc_id", "gauth_number_of_chunks", "gauth_chunks">>

sctp_setpeerprim_expr == [sspp_assoc_id |-> "assoc", sspp_addr |-> "addr"]
evaluate_sctp_setpeerprim_expression == <<"sspp_assoc_id", "sspp_addr">>
free_sctp_setpeerprim == <<"sspp_assoc_id", "sspp_addr">>

sctp_authchunk_expr == [sauth_chunk |-> "u8"]
evaluate_sctp_authchunk_expression == <<"sauth_chunk">>
free_sctp_authchunk == <<"sauth_chunk">>

sctp_authkey_expr == [sca_assoc_id |-> "assoc", sca_keynumber |-> "u16",
    sca_keylength |-> "u16", sca_key |-> "u8s"]
evaluate_sctp_authkey_expression == <<"sca_assoc_id", "sca_keynumber", "sca_keylength",
    "sca_key">>
free_sctp_authkey == <<"sca_assoc_id", "sca_keynumber", "sca_keylength", "sca_key">>

sctp_reset_streams_expr == [srs_assoc_id |-> "assoc", srs_flags |-> "u16",
    srs_number_streams |-> "u16", srs_stream_list |-> "u16s"]
evaluate_sctp_reset_streams_expression == <<"srs_assoc_id", "srs_flags", "srs_number_streams",
    "srs_stream_list">>
free_sctp_reset_streams == <<"srs_assoc_id", "srs_flags", "srs_number_streams",
    "srs_stream_list">>

sctp_add_streams_expr == [sas_assoc_id |-> "assoc", sas_instrms |-> "u16",
    sas_outstrms |-> "u16"]
evaluate_sctp_add_streams_expression == <<"sas_assoc_id", "sas_instrms", "sas_outstrms">>
free_sctp_add_streams == <<"sas_assoc_id", "sas_instrms", "sas_outstrms">>

sctp_stream_reset_event_expr == [strreset_type |-> "u16", strreset_flags |-> "u16",
    strreset_length |-> "u32", strreset_assoc_id |-> "assoc", strreset_stream_list |-> "u16s"]
evaluate_sctp_stream_reset_event_expression == <<"strreset_type", "strreset_flags",
    "strreset_length", "strreset_assoc_id", "strreset_stream_list">>
free_sctp_stream_reset_event == <<"strreset_type", "strreset_flags", "strreset_length",
    "strreset_assoc_id", "strreset_stream_list">>

sctp_assoc_reset_event_expr == [assocreset_type |-> "u16", assocreset_flags |-> "u16",
    assocreset_length |-> "u32", assocreset_assoc_id |-> "assoc",
    assocreset_local_tsn |-> "u32", assocreset_remote_tsn |-> "u32"]
evaluate_sctp_assoc_reset_event_expression == <<"assocreset_type", "assocreset_flags",
    "assocreset_length", "assocreset_assoc_id", "assocreset_local_tsn",
    "assocreset_remote_tsn">>
free_sctp_assoc_reset_event == <<"assocreset_type", "assocreset_flags", "assocreset_length",
    "assocreset_assoc_id", "assocreset_local_tsn", "assocreset_remote_tsn">>

sctp_stream_change_event_expr == [strchange_type |-> "u16", strchange_flags |-> "u16",
    strchange_length |-> "u32", strchange_assoc_id |-> "assoc", strchange_instrms |-> "u16",
    strchange_outstrms |-> "u16"]
evaluate_sctp_stream_change_event_expression == <<"strchange_type", "strchange_flags",
    "strchange_length", "strchange_assoc_id", "strchange_instrms", "strchange_outstrms">>
free_sctp_stream_change_event == <<"strchange_type", "strchange_flags", "strchange_length",
    "strchange_assoc_id", "strchange_instrms", "strchange_outstrms">>

sctp_udpencaps_expr == [sue_assoc_id |-> "assoc", sue_address |-> "addr", sue_port |-> "u16"]
evaluate_sctp_udpencaps_expression == <<"sue_assoc_id", "sue_address", "sue_port">>
free_sctp_udpencaps == <<"sue_assoc_id", "sue_address", "sue_port">>

(* The dispatch of evaluate() and free_expression() on the expression type. *)
Structs == [iovec |-> iovec_expr, msghdr |-> msghdr_expr, cmsghdr |-> cmsghdr_expr,
    pollfd |-> pollfd_expr, linger |-> linger_expr,
    accept_filter_arg |-> accept_filter_arg_expr, sf_hdtr |-> sf_hdtr_expr,
    tcp_function_set |-> tcp_function_set_expr, tcp_fastopen |-> tcp_fastopen_expr,
    sctp_rtoinfo |-> sctp_rtoinfo_expr, sctp_initmsg |-> sctp_initmsg_expr,
    sctp_hmacalgo |-> sctp_hmacalgo_expr, sctp_assoc_value |-> sctp_assoc_value_expr,
    sctp_stream_value |-> sctp_stream_value_expr, sctp_authkeyid |-> sctp_authkeyid_expr,
    sctp_sack_info |-> sctp_sack_info_expr, sctp_status |-> sctp_status_expr,
    sctp_paddrinfo |-> sctp_paddrinfo_expr, sctp_paddrparams |-> sctp_paddrparams_expr,
    sctp_assocparams |-> sctp_assocparams_expr, sctp_event |-> sctp_event_expr,
    sctp_event_subscribe |-> sctp_event_subscribe_expr, sctp_sndinfo |-> sctp_sndinfo_expr,
    sctp_setprim |-> sctp_setprim_expr, sctp_setadaptation |-> sctp_setadaptation_expr,
    sctp_sndrcvinfo |-> sctp_sndrcvinfo_expr, sctp_prinfo |-> sctp_prinfo_expr,
    sctp_default_prinfo |-> sctp_default_prinfo_expr, sctp_authinfo |-> sctp_authinfo_expr,
    sctp_sendv_spa |-> sctp_sendv_spa_expr, sctp_rcvinfo |-> sctp_rcvinfo_expr,
    sctp_nxtinfo |-> sctp_nxtinfo_expr, sctp_recvv_rn |-> sctp_recvv_rn_expr,
    sctp_assoc_change |-> sctp_assoc_change_expr, sctp_paddr_change |-> sctp_paddr_change_expr,
    sctp_remote_error |-> sctp_remote_error_expr, sctp_send_failed |-> sctp_send_failed_expr,
    sctp_shutdown_event |-> sctp_shutdown_event_expr,
    sctp_adaptation_event |-> sctp_adaptation_event_expr,
    sctp_pdapi_event |-> sctp_pdapi_event_expr, sctp_authkey_event |-> sctp_authkey_event_expr,
    sctp_sender_dry_event |-> sctp_sender_dry_event_expr,
    sctp_send_failed_event |-> sctp_send_failed_event_expr, sctp_tlv |-> sctp_tlv_expr,
    sctp_extrcvinfo |-> sctp_extrcvinfo_expr, sctp_assoc_ids |-> sctp_assoc_ids_expr,
    sctp_authchunks |-> sctp_authchunks_expr, sctp_setpeerprim |-> sctp_setpeerprim_expr,
    sctp_authchunk |-> sctp_authchunk_expr, sctp_authkey |-> sctp_authkey_expr,
    sctp_reset_streams |-> sctp_reset_streams_expr, sctp_add_streams |-> sctp_add_streams_expr,
    sctp_stream_reset_event |-> sctp_stream_reset_event_expr,
    sctp_assoc_reset_event |-> sctp_assoc_reset_event_expr,
    sctp_stream_change_event |-> sctp_stream_change_event_expr,
    sctp_udpencaps |-> sctp_udpencaps_expr]

evaluate == [iovec |-> evaluate_iovec_expression, msghdr |-> evaluate_msghdr_expression,
    cmsghdr |-> evaluate_cmsghdr_expression, pollfd |-> evaluate_pollfd_expression,
    linger |-> evaluate_linger_expression,
    accept_filter_arg |-> evaluate_accept_filter_arg_expression,
    sf_hdtr |-> evaluate_sf_hdtr_expression,
    tcp_function_set |-> evaluate_tcp_function_set_expression,
    tcp_fastopen |-> evaluate_tcp_fastopen_expression,
    sctp_rtoinfo |-> evaluate_sctp_rtoinfo_expression,
    sctp_initmsg |-> evaluate_sctp_initmsg_expression,
    sctp_hmacalgo |-> evaluate_sctp_hmacalgo_expression,
    sctp_assoc_value |-> evaluate_sctp_assoc_value_expression,
    sctp_stream_value |-> evaluate_sctp_stream_value_expression,
    sctp_authkeyid |-> evaluate_sctp_authkeyid_expression,
    sctp_sack_info |-> evaluate_sctp_sack_info_expression,
    sctp_status |-> evaluate_sctp_status_expression,
    sctp_paddrinfo |-> evaluate_sctp_paddrinfo_expression,
    sctp_paddrparams |-> evaluate_sctp_peer_addr_param_expression,
    sctp_assocparams |-> evaluate_sctp_accocparams_expression,
    sctp_event |-> evaluate_sctp_event_expression,
    sctp_event_subscribe |-> evaluate_sctp_event_subscribe_expression,
    sctp_sndinfo |-> evaluate_sctp_sndinfo_expression,
    sctp_setprim |-> evaluate_sctp_setprim_expression,
    sctp_setadaptation |-> evaluate_sctp_setadaptation_expression,
    sctp_sndrcvinfo |-> evaluate_sctp_sndrcvinfo_expression,
    sctp_prinfo |-> evaluate_sctp_prinfo_expression,
    sctp_default_prinfo |-> evaluate_sctp_default_prinfo_expression,
    sctp_authinfo |-> evaluate_sctp_authinfo_expression,
    sctp_sendv_spa |-> evaluate_sctp_sendv_spa_expression,
    sctp_rcvinfo |-> evaluate_sctp_rcvinfo_expression,
    sctp_nxtinfo |-> evaluate_sctp_nxtinfo_expression,
    sctp_recvv_rn |-> evaluate_sctp_recvv_rn_expression,
    sctp_assoc_change |-> evaluate_sctp_assoc_change_expression,
    sctp_paddr_change |-> evaluate_sctp_paddr_change_expression,
    sctp_remote_error |-> evaluate_sctp_remote_error_expression,
    sctp_send_failed |-> evaluate_sctp_send_failed_expression,
    sctp_shutdown_event |-> evaluate_sctp_shutdown_event_expression,
    sctp_adaptation_event |-> evaluate_sctp_adaptation_event_expression,
    sctp_pdapi_event |-> evaluate_sctp_pdapi_event_expression,
    sctp_authkey_event |-> evaluate_sctp_authkey_event_expression,
    sctp_sender_dry_event |-> evaluate_sctp_sender_dry_event_expression,
    sctp_send_failed_event |-> evaluate_sctp_send_failed_event_expression,
    sctp_tlv |-> evaluate_sctp_tlv_expression,
    sctp_extrcvinfo |-> evaluate_sctp_extrcvinfo_expression,
    sctp_assoc_ids |-> evaluate_sctp_assoc_ids_expression,
    sctp_authchunks |-> evaluate_sctp_authchunks_expression,
    sctp_setpeerprim |-> evaluate_sctp_setpeerprim_expression,
    sctp_authchunk |-> evaluate_sctp_authchunk_expression,
    sctp_authkey |-> evaluate_sctp_authkey_expression,
    sctp_reset_streams |-> evaluate_sctp_reset_streams_expression,
    sctp_add_streams |-> evaluate_sctp_add_streams_expression,
    sctp_stream_reset_event |-> evaluate_sctp_stream_reset_event_expression,
    sctp_assoc_reset_event |-> evaluate_sctp_assoc_reset_event_expression,
    sctp_stream_change_event |-> evaluate_sctp_stream_change_event_expression,
    sctp_udpencaps |-> evaluate_sctp_udpencaps_expression]

free_expression == [iovec |-> free_iovec, msghdr |-> free_msghdr, cmsghdr |-> free_cmsghdr,
    pollfd |-> free_pollfd, linger |-> free_linger,
    accept_filter_arg |-> free_accept_filter_arg, sf_hdtr |-> free_sf_hdtr,
    tcp_function_set |-> free_tcp_function_set, tcp_fastopen |-> free_tcp_fastopen,
    sctp_rtoinfo |-> free_sctp_rtoinfo, sctp_initmsg |-> free_sctp_initmsg,
    sctp_hmacalgo |-> free_sctp_hmacalgo, sctp_assoc_value |-> free_sctp_assoc_value,
    sctp_stream_value |-> free_sctp_stream_value, sctp_authkeyid |-> free_sctp_authkeyid,
    sctp_sack_info |-> free_sctp_sack_info, sctp_status |-> free_sctp_status,
    sctp_paddrinfo |-> free_sctp_paddrinfo, sctp_paddrparams |-> free_sctp_paddrparams,
    sctp_assocparams |-> free_sctp_assocparams, sctp_event |-> free_sctp_event,
    sctp_event_subscribe |-> free_sctp_event_subscribe, sctp_sndinfo |-> free_sctp_sndinfo,
    sctp_setprim |-> free_sctp_setprim, sctp_setadaptation |-> free_sctp_setadaptation,
    sctp_sndrcvinfo |-> free_sctp_sndrcvinfo, sctp_prinfo |-> free_sctp_prinfo,
    sctp_default_prinfo |-> free_sctp_default_prinfo, sctp_authinfo |-> free_sctp_authinfo,
    sctp_sendv_spa |-> free_sctp_sendv_spa, sctp_rcvinfo |-> free_sctp_rcvinfo,
    sctp_nxtinfo |-> free_sctp_nxtinfo, sctp_recvv_rn |-> free_sctp_recvv_rn,
    sctp_assoc_change |-> free_sctp_assoc_change, sctp_paddr_change |-> free_sctp_paddr_change,
    sctp_remote_error |-> free_sctp_remote_error, sctp_send_failed |-> free_sctp_send_failed,
    sctp_shutdown_event |-> free_sctp_shutdown_event,
    sctp_adaptation_event |-> free_sctp_adaptation_event,
    sctp_pdapi_event |-> free_sctp_pdapi_event, sctp_authkey_event |-> free_sctp_authkey_event,
    sctp_sender_dry_event |-> free_sctp_sender_dry_event,
    sctp_send_failed_event |-> free_sctp_send_failed_event, sctp_tlv |-> free_sctp_tlv,
    sctp_extrcvinfo |-> free_sctp_extrcvinfo, sctp_assoc_ids |-> free_sctp_assoc_ids,
    sctp_authchunks |-> free_sctp_authchunks, sctp_setpeerprim |-> free_sctp_setpeerprim,
    sctp_authchunk |-> free_sctp_authchunk, sctp_authkey |-> free_sctp_authkey,
    sctp_reset_streams |-> free_sctp_reset_streams, sctp_add_streams |-> free_sctp_add_streams,
    sctp_stream_reset_event |-> free_sctp_stream_reset_event,
    sctp_assoc_reset_event |-> free_sctp_assoc_reset_event,
    sctp_stream_change_event |-> free_sctp_stream_change_event,
    sctp_udpencaps |-> free_sctp_udpencaps]

=============================================================================
