SPECIFICATION ArgSpec
CONSTANT Types = {"iovec", "msghdr", "cmsghdr", "pollfd", "linger", "accept_filter_arg", "sf_hdtr", 
  "tcp_function_set", "tcp_fastopen", "sctp_rtoinfo", "sctp_initmsg", "sctp_hmacalgo", 
  "sctp_assoc_value", "sctp_stream_value", "sctp_authkeyid", "sctp_sack_info", 
  "sctp_status", "sctp_paddrinfo", "sctp_paddrparams", "sctp_assocparams", "sctp_event", 
  "sctp_event_subscribe", "sctp_sndinfo", "sctp_setprim", "sctp_setadaptation", 
  "sctp_sndrcvinfo", "sctp_prinfo", "sctp_default_prinfo", "sctp_authinfo", 
  "sctp_sendv_spa", "sctp_rcvinfo", "sctp_nxtinfo", "sctp_recvv_rn", "sctp_assoc_change", 
  "sctp_paddr_change", "sctp_remote_error", "sctp_send_failed", "sctp_shutdown_event", 
  "sctp_adaptation_event", "sctp_pdapi_event", "sctp_authkey_event", 
  "sctp_sender_dry_event", "sctp_send_failed_event", "sctp_tlv", "sctp_extrcvinfo", 
  "sctp_assoc_ids", "sctp_authchunks", "sctp_setpeerprim", "sctp_authchunk", 
  "sctp_authkey", "sctp_reset_streams", "sctp_add_streams", "sctp_stream_reset_event", 
  "sctp_assoc_reset_event", "sctp_stream_change_event", "sctp_udpencaps"}
INVARIANT FreedOnce
INVARIANT KernelGetsScript
INVARIANT RoundTrip
INVARIANT VerdictIsRight
CHECK_DEADLOCK FALSE
