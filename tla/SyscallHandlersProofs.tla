----------------------- MODULE SyscallHandlersProofs -----------------------
(***************************************************************************)
(* Proofs about SyscallHandlers, for any descriptors, any number of        *)
(* sockets and any number of connections that wait.  What holds of all     *)
(* handlers is stated once about the shape of their steps (TableFacts);    *)
(* the invariant says what a call has done by the steps it has passed, and *)
(* what the tracked sockets, the kernel and the script agree on meanwhile. *)
(***************************************************************************)
EXTENDS SyscallHandlers, FiniteSetTheorems, WellFoundedInduction, TLAPS

Frees == {"free", "iovec_free", "msghdr_free", "sf_hdtr_free", "free_addrs"}
Ends == {"end", "end_fd", "end_keep"}
Checks == {"check", "check_if_ok", "check_optlen", "check_flags", "check_cmsghdr"}
Prepares == {"args", "fd", "fd2", "connect", "connect_any"} \cup Allocators

\* A handler has taken one of these steps before step k.
Before(n, k, ops) == \E j \in 1 .. (k - 1) : system_call_table[n].steps[j] \in ops
Passed(ops) == Before(call.name, call.pc, ops)
Pending == call.pc <= Len(Steps)

\* Memory that was allocated before step k and not freed since.
HeldAt(n, k, m) ==
  LET s == system_call_table[n].steps IN
  \E j \in 1 .. (k - 1) :
    /\ s[j] \in Allocators /\ m \in Allocates(s[j])
    /\ \A i \in (j + 1) .. (k - 1) : s[i] \in Frees => m \notin Releases(s[i])

(***************************************************************************)
(* The inductive invariant.                                                *)
(***************************************************************************)
\* What the call in progress has done so far.
CallInv ==
  /\ call.result = "none" <=> ~Passed({"kernel"})
  /\ IF Passed({"fd"}) THEN call.fd # -1 /\ call.live # -1 ELSE call.fd = -1 /\ call.live = -1
  /\ call.bracket = IF Passed(Ends) THEN "done"
                    ELSE IF Passed({"begin"}) THEN "running" ELSE "enqueued"
  /\ call.new # -1 <=> call.name \in Creators /\ call.result = "value"
  /\ Passed(Ends) => \/ call.expect = call.result \/ call.expect = "wrong"
                     \/ call.expect = "another" /\ call.new # -1
  /\ call.expect = "wrong" => call.name = "close" /\ Pending
  /\ call.outs # "none" => Passed(Checks) /\ call.outs # "differ"
  /\ \A m \in mem : m = "live_addrs" \/ HeldAt(call.name, call.pc, m)
  /\ MakesSocket(call.name) /\ Pending =>
       Len(sockets) < MaxSockets /\ (call.result = "none" => objects < MaxSockets)

\* A descriptor is made or closed in the kernel before the socket is.
Creating == InCall /\ call.new # -1 /\ Pending
Closing == InCall /\ call.name = "close" /\ call.result # "none" /\ Pending
Accepting == Creating /\ call.name = "accept"

Open(i) == i \in DOMAIN sockets /\ ~sockets[i].closed /\ sockets[i].script # -1
Sure(i) == Open(i) /\ sockets[i].script \notin doubtful

\* The struct socket that find_socket_by_script_fd() returns for the call.
Found(i) ==
  /\ Open(i) /\ sockets[i].script = call.fd /\ sockets[i].live = call.live
  /\ \A j \in DOMAIN sockets : Open(j) /\ sockets[j].script = call.fd => i <= j

\* The tracked sockets are the script's descriptors, but for the doubtful ones.
TrackedInv ==
  /\ \A i \in DOMAIN sockets : /\ sockets[i].script = -1 <=> sockets[i].live = -1
                               /\ sockets[i].script = -1 => ~sockets[i].closed
  /\ \A i, j \in DOMAIN sockets :
       /\ Sure(i) /\ Sure(j)
       /\ sockets[i].script = sockets[j].script \/ sockets[i].live = sockets[j].live
       => i = j
  /\ \A i \in DOMAIN sockets : Sure(i) =>
       /\ meaning[sockets[i].script] # 0
       /\ kernel[sockets[i].live] =
            IF Closing /\ sockets[i].script = call.fd THEN 0 ELSE meaning[sockets[i].script]
  /\ \A f \in ScriptFds \ doubtful : meaning[f] # 0 =>
       \E i \in DOMAIN sockets : Sure(i) /\ sockets[i].script = f
  /\ InCall /\ Passed({"fd"}) /\ Pending => \E i \in DOMAIN sockets : Found(i)

\* The kernel's descriptors have their structs, but for the one that is being made.
KernelInv ==
  /\ \A l \in LiveFds : kernel[l] # 0 =>
       \/ Creating /\ l = call.new
       \/ \E i \in DOMAIN sockets : Open(i) /\ sockets[i].live = l
  /\ Closing => kernel[call.live] = 0 /\ (call.result = "fail" => call.fd \in doubtful)
  /\ \A l, m \in LiveFds : kernel[l] = kernel[m] /\ kernel[l] # 0 => l = m
  /\ Creating => /\ call.object # 0 /\ kernel[call.new] = call.object
                 /\ \A f \in ScriptFds \ doubtful : meaning[f] # call.object
  /\ \A l \in LiveFds : kernel[l] <= objects
  /\ \A c \in pending : c.object <= objects /\ \A l \in LiveFds : kernel[l] # c.object
  /\ \A c, d \in pending : c.object = d.object => c = d

Acked(i) == i \in DOMAIN sockets /\ sockets[i].state = "acked"

\* The connections that wait have their sockets, in the order in which they came.
AcceptInv ==
  /\ wire => \A i \in DOMAIN sockets : ~Acked(i)
  /\ \A i \in DOMAIN sockets : sockets[i].remote <= objects
  /\ \A i \in DOMAIN sockets : Acked(i) /\ sockets[i].script # -1 =>
       /\ \A c \in pending : sockets[i].remote < c.object
       /\ Accepting => sockets[i].remote < call.object
  /\ ~wire => /\ \A c \in pending : \E i \in DOMAIN sockets : Acked(i) /\ sockets[i].remote = c.object
              /\ Accepting => \E i \in DOMAIN sockets : Acked(i) /\ sockets[i].remote = call.object
  /\ Accepting => \A c \in pending : call.object < c.object
  /\ ~PeeledOff => \A i, j \in DOMAIN sockets :
                     Acked(i) /\ Acked(j) /\ i < j => sockets[i].remote > sockets[j].remote

OutcomeInv ==
  /\ test = "running" => broken = {}
  /\ call = Idle => mem = {}
  /\ AllClosed /\ FailMeansMismatch /\ NothingBroken

IInv ==
  /\ TypeOK /\ OutcomeInv
  /\ InCall => CallInv
  /\ test = "running" => TrackedInv /\ KernelInv /\ AcceptInv

(***************************************************************************)
(* The handlers have the same shape: preparation, begin_syscall(), the     *)
(* call, end_syscall(), and what follows.  f, b and e are the places of    *)
(* the (first) descriptor, of begin_syscall() and of end_syscall(); r and  *)
(* q where memory and addresses are freed.                                 *)
(***************************************************************************)
Tracks == {"socket", "open", "listen", "accept", "close", "peeloff"}

Freeing(op) ==
  CASE op \in {"malloc", "malloc_some", "pollfds_new"} -> "free"
    [] op \in {"iovec_new", "iovec_new_unchecked"} -> "iovec_free"
    [] op = "msghdr_new" -> "msghdr_free" [] op = "sf_hdtr_new" -> "sf_hdtr_free"

Shape(n, s, f, b, e, r, q) ==
  /\ Len(s) \in Nat /\ f < b /\ b + 1 < e /\ (e <= Len(s) \/ b > Len(s))
  /\ \A k \in 1 .. Len(s) :
       /\ k < b => s[k] \in Prepares
       /\ k = b => s[k] = "begin"
       /\ k = b + 1 => s[k] = "kernel"
       /\ k > b + 1 /\ k < e => s[k] \in Frees
       /\ k = e => s[k] = IF n \in Creators THEN "end_fd" ELSE IF n = "close" THEN "end_keep" ELSE "end"
       /\ k > e => s[k] \in Frees \cup Checks \cup Tracks
       /\ s[k] = "fd" <=> k = f
       /\ s[k] \in {"connect", "connect_any"} => f # 0 /\ f < k
       /\ s[k] \in Tracks => k = Len(s) /\ k = e + 1
       /\ s[k] \in {"socket", "open"} => n \in {"socket", "open"}
       /\ s[k] = "accept" => n = "accept"
       /\ s[k] = "close" => n = "close"
       /\ s[k] = "peeloff" => n = "sctp_peeloff"
       /\ s[k] = "listen" => n = "listen"
       /\ s[k] = "check_optlen" => n = "getsockopt"
       /\ s[k] = "check_flags" => n = "recvmsg"
       /\ s[k] = "check_cmsghdr" => n \in {"recvmsg", "sendmsg"}
       /\ s[k] \in Allocators \ {"addrs"} => k < r /\ r <= Len(s) /\ s[r] = Freeing(s[k])
       /\ s[k] = "addrs" => k < q /\ q <= Len(s) /\ s[q] = "free_addrs"
  /\ n \in {"accept", "sctp_peeloff", "close", "listen"} => f # 0
  /\ n \in Creators \cup {"close"} => b < Len(s) /\ s[Len(s)] \in Tracks

LEMMA TableShape ==
  ASSUME NEW n \in DOMAIN system_call_table
  PROVE  \E f, b, e, r, q \in Nat : Shape(n, system_call_table[n].steps, f, b, e, r, q)
  <1> DEFINE Goal(m) == \E f, b, e, r, q \in Nat : Shape(m, system_call_table[m].steps, f, b, e, r, q)
  <1>1. Goal("socket")
    <2>1. system_call_table["socket"] = syscall_socket
      BY DEF system_call_table
    <2>2. Shape("socket", syscall_socket.steps, 0, 2, 4, 0, 0)
      BY DEF syscall_socket, Shape, H, Frees, Ends, Checks, Tracks, Prepares, Allocators,
             Creators, Freeing
    <2> QED
      BY <2>1, <2>2
  <1>2. Goal("bind")
    <2>1. system_call_table["bind"] = syscall_bind
      BY DEF system_call_table
    <2>2. Shape("bind", syscall_bind.steps, 2, 4, 6, 0, 0)
      BY DEF syscall_bind, Shape, H, Frees, Ends, Checks, Tracks, Prepares, Allocators,
             Creators, Freeing
    <2> QED
      BY <2>1, <2>2
  <1>3. Goal("listen")
    <2>1. system_call_table["listen"] = syscall_listen
      BY DEF system_call_table
    <2>2. Shape("listen", syscall_listen.steps, 2, 4, 6, 0, 0)
      BY DEF syscall_listen, Shape, H, Frees, Ends, Checks, Tracks, Prepares, Allocators,
             Creators, Freeing
    <2> QED
      BY <2>1, <2>2
  <1>4. Goal("accept")
    <2>1. system_call_table["accept"] = syscall_accept
      BY DEF system_call_table
    <2>2. Shape("accept", syscall_accept.steps, 2, 4, 6, 0, 0)
      BY DEF syscall_accept, Shape, H, Frees, Ends, Checks, Tracks, Prepares, Allocators,
             Creators, Freeing
    <2> QED
      BY <2>1, <2>2
  <1>5. Goal("connect")
    <2>1. system_call_table["connect"] = syscall_connect
      BY DEF system_call_table
    <2>2. Shape("connect", syscall_connect.steps, 2, 5, 7, 0, 0)
      BY DEF syscall_connect, Shape, H, Frees, Ends, Checks, Tracks, Prepares, Allocators,
             Creators, Freeing
    <2> QED
      BY <2>1, <2>2
  <1>6. Goal("read")
    <2>1. system_call_table["read"] = syscall_read
      BY DEF system_call_table
    <2>2. Shape("read", syscall_read.steps, 2, 5, 7, 8, 0)
      BY DEF syscall_read, Shape, H, Frees, Ends, Checks, Tracks, Prepares, Allocators,
             Creators, Freeing
    <2> QED
      BY <2>1, <2>2
  <1>7. Goal("recv")
    <2>1. system_call_table["recv"] = syscall_recv
      BY DEF system_call_table
    <2>2. Shape("recv", syscall_recv.steps, 2, 5, 7, 8, 0)
      BY DEF syscall_recv, Shape, H, Frees, Ends, Checks, Tracks, Prepares, Allocators,
             Creators, Freeing
    <2> QED
      BY <2>1, <2>2
  <1>8. Goal("recvfrom")
    <2>1. system_call_table["recvfrom"] = syscall_recvfrom
      BY DEF system_call_table
    <2>2. Shape("recvfrom", syscall_recvfrom.steps, 2, 5, 7, 8, 0)
      BY DEF syscall_recvfrom, Shape, H, Frees, Ends, Checks, Tracks, Prepares, Allocators,
             Creators, Freeing
    <2> QED
      BY <2>1, <2>2
  <1>9. Goal("write")
    <2>1. system_call_table["write"] = syscall_write
      BY DEF system_call_table
    <2>2. Shape("write", syscall_write.steps, 2, 5, 7, 8, 0)
      BY DEF syscall_write, Shape, H, Frees, Ends, Checks, Tracks, Prepares, Allocators,
             Creators, Freeing
    <2> QED
      BY <2>1, <2>2
  <1>10. Goal("send")
    <2>1. system_call_table["send"] = syscall_send
      BY DEF system_call_table
    <2>2. Shape("send", syscall_send.steps, 2, 5, 7, 8, 0)
      BY DEF syscall_send, Shape, H, Frees, Ends, Checks, Tracks, Prepares, Allocators,
             Creators, Freeing
    <2> QED
      BY <2>1, <2>2
  <1>11. Goal("sendto")
    <2>1. system_call_table["sendto"] = syscall_sendto
      BY DEF system_call_table
    <2>2. Shape("sendto", syscall_sendto.steps, 2, 6, 8, 9, 0)
      BY DEF syscall_sendto, Shape, H, Frees, Ends, Checks, Tracks, Prepares, Allocators,
             Creators, Freeing
    <2> QED
      BY <2>1, <2>2
  <1>12. Goal("readv")
    <2>1. system_call_table["readv"] = syscall_readv
      BY DEF system_call_table
    <2>2. Shape("readv", syscall_readv.steps, 2, 6, 8, 9, 0)
      BY DEF syscall_readv, Shape, H, Frees, Ends, Checks, Tracks, Prepares, Allocators,
             Creators, Freeing
    <2> QED
      BY <2>1, <2>2
  <1>13. Goal("writev")
    <2>1. system_call_table["writev"] = syscall_writev
      BY DEF system_call_table
    <2>2. Shape("writev", syscall_writev.steps, 2, 6, 8, 9, 0)
      BY DEF syscall_writev, Shape, H, Frees, Ends, Checks, Tracks, Prepares, Allocators,
             Creators, Freeing
    <2> QED
      BY <2>1, <2>2
  <1>14. Goal("recvmsg")
    <2>1. system_call_table["recvmsg"] = syscall_recvmsg
      BY DEF system_call_table
    <2>2. Shape("recvmsg", syscall_recvmsg.steps, 2, 6, 8, 11, 0)
      BY DEF syscall_recvmsg, Shape, H, Frees, Ends, Checks, Tracks, Prepares, Allocators,
             Creators, Freeing
    <2> QED
      BY <2>1, <2>2
  <1>15. Goal("sendmsg")
    <2>1. system_call_table["sendmsg"] = syscall_sendmsg
      BY DEF system_call_table
    <2>2. Shape("sendmsg", syscall_sendmsg.steps, 2, 8, 10, 12, 0)
      BY DEF syscall_sendmsg, Shape, H, Frees, Ends, Checks, Tracks, Prepares, Allocators,
             Creators, Freeing
    <2> QED
      BY <2>1, <2>2
  <1>16. Goal("fcntl")
    <2>1. system_call_table["fcntl"] = syscall_fcntl
      BY DEF system_call_table
    <2>2. Shape("fcntl", syscall_fcntl.steps, 2, 4, 6, 0, 0)
      BY DEF syscall_fcntl, Shape, H, Frees, Ends, Checks, Tracks, Prepares, Allocators,
             Creators, Freeing
    <2> QED
      BY <2>1, <2>2
  <1>17. Goal("ioctl")
    <2>1. system_call_table["ioctl"] = syscall_ioctl
      BY DEF system_call_table
    <2>2. Shape("ioctl", syscall_ioctl.steps, 2, 4, 6, 0, 0)
      BY DEF syscall_ioctl, Shape, H, Frees, Ends, Checks, Tracks, Prepares, Allocators,
             Creators, Freeing
    <2> QED
      BY <2>1, <2>2
  <1>18. Goal("close")
    <2>1. system_call_table["close"] = syscall_close
      BY DEF system_call_table
    <2>2. Shape("close", syscall_close.steps, 2, 3, 5, 0, 0)
      BY DEF syscall_close, Shape, H, Frees, Ends, Checks, Tracks, Prepares, Allocators,
             Creators, Freeing
    <2> QED
      BY <2>1, <2>2
  <1>19. Goal("shutdown")
    <2>1. system_call_table["shutdown"] = syscall_shutdown
      BY DEF system_call_table
    <2>2. Shape("shutdown", syscall_shutdown.steps, 2, 4, 6, 0, 0)
      BY DEF syscall_shutdown, Shape, H, Frees, Ends, Checks, Tracks, Prepares, Allocators,
             Creators, Freeing
    <2> QED
      BY <2>1, <2>2
  <1>20. Goal("getsockopt")
    <2>1. system_call_table["getsockopt"] = syscall_getsockopt
      BY DEF system_call_table
    <2>2. Shape("getsockopt", syscall_getsockopt.steps, 2, 6, 8, 11, 0)
      BY DEF syscall_getsockopt, Shape, H, Frees, Ends, Checks, Tracks, Prepares, Allocators,
             Creators, Freeing
    <2> QED
      BY <2>1, <2>2
  <1>21. Goal("setsockopt")
    <2>1. system_call_table["setsockopt"] = syscall_setsockopt
      BY DEF system_call_table
    <2>2. Shape("setsockopt", syscall_setsockopt.steps, 2, 6, 9, 8, 0)
      BY DEF syscall_setsockopt, Shape, H, Frees, Ends, Checks, Tracks, Prepares, Allocators,
             Creators, Freeing
    <2> QED
      BY <2>1, <2>2
  <1>22. Goal("poll")
    <2>1. system_call_table["poll"] = syscall_poll
      BY DEF system_call_table
    <2>2. Shape("poll", syscall_poll.steps, 3, 5, 7, 9, 0)
      BY DEF syscall_poll, Shape, H, Frees, Ends, Checks, Tracks, Prepares, Allocators,
             Creators, Freeing
    <2> QED
      BY <2>1, <2>2
  <1>23. Goal("open")
    <2>1. system_call_table["open"] = syscall_open
      BY DEF system_call_table
    <2>2. Shape("open", syscall_open.steps, 0, 2, 4, 0, 0)
      BY DEF syscall_open, Shape, H, Frees, Ends, Checks, Tracks, Prepares, Allocators,
             Creators, Freeing
    <2> QED
      BY <2>1, <2>2
  <1>24. Goal("sendfile")
    <2>1. system_call_table["sendfile"] = syscall_sendfile
      BY DEF system_call_table
    <2>2. Shape("sendfile", syscall_sendfile.steps, 2, 8, 10, 12, 0)
      BY DEF syscall_sendfile, Shape, H, Frees, Ends, Checks, Tracks, Prepares, Allocators,
             Creators, Freeing
    <2> QED
      BY <2>1, <2>2
  <1>25. Goal("sctp_sendmsg")
    <2>1. system_call_table["sctp_sendmsg"] = syscall_sctp_sendmsg
      BY DEF system_call_table
    <2>2. Shape("sctp_sendmsg", syscall_sctp_sendmsg.steps, 2, 5, 8, 7, 0)
      BY DEF syscall_sctp_sendmsg, Shape, H, Frees, Ends, Checks, Tracks, Prepares, Allocators,
             Creators, Freeing
    <2> QED
      BY <2>1, <2>2
  <1>26. Goal("sctp_recvmsg")
    <2>1. system_call_table["sctp_recvmsg"] = syscall_sctp_recvmsg
      BY DEF system_call_table
    <2>2. Shape("sctp_recvmsg", syscall_sctp_recvmsg.steps, 2, 5, 8, 7, 0)
      BY DEF syscall_sctp_recvmsg, Shape, H, Frees, Ends, Checks, Tracks, Prepares, Allocators,
             Creators, Freeing
    <2> QED
      BY <2>1, <2>2
  <1>27. Goal("sctp_send")
    <2>1. system_call_table["sctp_send"] = syscall_sctp_send
      BY DEF system_call_table
    <2>2. Shape("sctp_send", syscall_sctp_send.steps, 2, 5, 8, 7, 0)
      BY DEF syscall_sctp_send, Shape, H, Frees, Ends, Checks, Tracks, Prepares, Allocators,
             Creators, Freeing
    <2> QED
      BY <2>1, <2>2
  <1>28. Goal("sctp_sendx")
    <2>1. system_call_table["sctp_sendx"] = syscall_sctp_sendx
      BY DEF system_call_table
    <2>2. Shape("sctp_sendx", syscall_sctp_sendx.steps, 2, 7, 9, 11, 12)
      BY DEF syscall_sctp_sendx, Shape, H, Frees, Ends, Checks, Tracks, Prepares, Allocators,
             Creators, Freeing
    <2> QED
      BY <2>1, <2>2
  <1>29. Goal("sctp_sendv")
    <2>1. system_call_table["sctp_sendv"] = syscall_sctp_sendv
      BY DEF system_call_table
    <2>2. Shape("sctp_sendv", syscall_sctp_sendv.steps, 2, 8, 10, 12, 11)
      BY DEF syscall_sctp_sendv, Shape, H, Frees, Ends, Checks, Tracks, Prepares, Allocators,
             Creators, Freeing
    <2> QED
      BY <2>1, <2>2
  <1>30. Goal("sctp_recvv")
    <2>1. system_call_table["sctp_recvv"] = syscall_sctp_recvv
      BY DEF system_call_table
    <2>2. Shape("sctp_recvv", syscall_sctp_recvv.steps, 2, 7, 9, 12, 11)
      BY DEF syscall_sctp_recvv, Shape, H, Frees, Ends, Checks, Tracks, Prepares, Allocators,
             Creators, Freeing
    <2> QED
      BY <2>1, <2>2
  <1>31. Goal("sctp_bindx")
    <2>1. system_call_table["sctp_bindx"] = syscall_sctp_bindx
      BY DEF system_call_table
    <2>2. Shape("sctp_bindx", syscall_sctp_bindx.steps, 2, 4, 6, 0, 0)
      BY DEF syscall_sctp_bindx, Shape, H, Frees, Ends, Checks, Tracks, Prepares, Allocators,
             Creators, Freeing
    <2> QED
      BY <2>1, <2>2
  <1>32. Goal("sctp_connectx")
    <2>1. system_call_table["sctp_connectx"] = syscall_sctp_connectx
      BY DEF system_call_table
    <2>2. Shape("sctp_connectx", syscall_sctp_connectx.steps, 2, 5, 7, 0, 0)
      BY DEF syscall_sctp_connectx, Shape, H, Frees, Ends, Checks, Tracks, Prepares, Allocators,
             Creators, Freeing
    <2> QED
      BY <2>1, <2>2
  <1>33. Goal("sctp_peeloff")
    <2>1. system_call_table["sctp_peeloff"] = syscall_sctp_peeloff
      BY DEF system_call_table
    <2>2. Shape("sctp_peeloff", syscall_sctp_peeloff.steps, 2, 4, 6, 0, 0)
      BY DEF syscall_sctp_peeloff, Shape, H, Frees, Ends, Checks, Tracks, Prepares, Allocators,
             Creators, Freeing
    <2> QED
      BY <2>1, <2>2
  <1>34. Goal("sctp_getpaddrs")
    <2>1. system_call_table["sctp_getpaddrs"] = syscall_sctp_getpaddrs
      BY DEF system_call_table
    <2>2. Shape("sctp_getpaddrs", syscall_sctp_getpaddrs.steps, 2, 4, 6, 0, 0)
      BY DEF syscall_sctp_getpaddrs, Shape, H, Frees, Ends, Checks, Tracks, Prepares, Allocators,
             Creators, Freeing
    <2> QED
      BY <2>1, <2>2
  <1>35. Goal("sctp_getladdrs")
    <2>1. system_call_table["sctp_getladdrs"] = syscall_sctp_getladdrs
      BY DEF system_call_table
    <2>2. Shape("sctp_getladdrs", syscall_sctp_getladdrs.steps, 2, 4, 6, 0, 0)
      BY DEF syscall_sctp_getladdrs, Shape, H, Frees, Ends, Checks, Tracks, Prepares, Allocators,
             Creators, Freeing
    <2> QED
      BY <2>1, <2>2
  <1>36. Goal("sctp_freepaddrs")
    <2>1. system_call_table["sctp_freepaddrs"] = syscall_sctp_freepaddrs
      BY DEF system_call_table
    <2>2. Shape("sctp_freepaddrs", syscall_sctp_freepaddrs.steps, 0, 2, 4, 0, 0)
      BY DEF syscall_sctp_freepaddrs, Shape, H, Frees, Ends, Checks, Tracks, Prepares, Allocators,
             Creators, Freeing
    <2> QED
      BY <2>1, <2>2
  <1>37. Goal("sctp_freeladdrs")
    <2>1. system_call_table["sctp_freeladdrs"] = syscall_sctp_freeladdrs
      BY DEF system_call_table
    <2>2. Shape("sctp_freeladdrs", syscall_sctp_freeladdrs.steps, 0, 2, 4, 0, 0)
      BY DEF syscall_sctp_freeladdrs, Shape, H, Frees, Ends, Checks, Tracks, Prepares, Allocators,
             Creators, Freeing
    <2> QED
      BY <2>1, <2>2
  <1>38. DOMAIN system_call_table =
          {"socket", "bind", "listen", "accept", "connect", "read", "recv", "recvfrom",
           "write", "send", "sendto", "readv", "writev", "recvmsg", "sendmsg", "fcntl",
           "ioctl", "close", "shutdown", "getsockopt", "setsockopt", "poll", "open",
           "sendfile", "sctp_sendmsg", "sctp_recvmsg", "sctp_send", "sctp_sendx",
           "sctp_sendv", "sctp_recvv", "sctp_bindx", "sctp_connectx", "sctp_peeloff",
           "sctp_getpaddrs", "sctp_getladdrs", "sctp_freepaddrs", "sctp_freeladdrs"}
    BY DEF system_call_table
  <1> HIDE DEF Goal
  <1>39. Goal(n)
    BY <1>1, <1>2, <1>3, <1>4, <1>5, <1>6, <1>7, <1>8, <1>9, <1>10, <1>11, <1>12, <1>13,
       <1>14, <1>15, <1>16, <1>17, <1>18, <1>19, <1>20, <1>21, <1>22, <1>23, <1>24, <1>25,
       <1>26, <1>27, <1>28, <1>29, <1>30, <1>31, <1>32, <1>33, <1>34, <1>35, <1>36, <1>37,
       <1>38
  <1> QED
    BY <1>39 DEF Goal

\* What a handler has done before step k and does there.
StepFacts(n, k) ==
  LET s == system_call_table[n].steps IN
  /\ Len(s) \in Nat
  /\ k <= Len(s) =>
       /\ s[k] \in Prepares \cup {"begin"} =>
            ~Before(n, k, {"begin"}) /\ ~Before(n, k, {"kernel"})
       /\ s[k] \in Prepares \cup {"begin", "kernel"} => ~Before(n, k, Ends)
       /\ s[k] \in Prepares \cup {"begin", "kernel"} \cup Ends \cup Tracks => ~Before(n, k, Checks)
       /\ s[k] = "kernel" => Before(n, k, {"begin"}) /\ ~Before(n, k, {"kernel"}) /\ k < Len(s)
       /\ s[k] = "kernel" /\ n \in {"accept", "sctp_peeloff", "close", "listen"} =>
            Before(n, k, {"fd"})
       /\ s[k] \in Ends => /\ Before(n, k, {"begin"}) /\ Before(n, k, {"kernel"}) /\ ~Before(n, k, Ends)
                           /\ s[k] = IF n \in Creators THEN "end_fd"
                                     ELSE IF n = "close" THEN "end_keep" ELSE "end"
       /\ s[k] \in Checks \cup Tracks => Before(n, k, {"kernel"}) /\ Before(n, k, Ends)
       /\ s[k] \in Checks => n \notin Creators \cup {"close"}
       /\ s[k] \in Tracks => k = Len(s)
       /\ s[k] \in {"socket", "open"} => n \in {"socket", "open"}
       /\ s[k] = "accept" => n = "accept"
       /\ s[k] = "close" => n = "close"
       /\ s[k] = "peeloff" => n = "sctp_peeloff"
       /\ s[k] = "listen" => n = "listen"
       /\ s[k] = "check_optlen" => n = "getsockopt"
       /\ s[k] = "check_flags" => n = "recvmsg"
       /\ s[k] = "check_cmsghdr" => n \in {"recvmsg", "sendmsg"}
       /\ s[k] \in {"connect", "connect_any", "listen", "accept", "close", "peeloff"} =>
            Before(n, k, {"fd"})
       /\ n \in Creators \cup {"close"} /\ s[k] \notin Tracks => k < Len(s)
  /\ k = Len(s) + 1 => /\ Before(n, k, {"kernel"}) => Before(n, k, Ends)
                       /\ \A m : ~HeldAt(n, k, m)

LEMMA TableFacts ==
  ASSUME NEW n \in DOMAIN system_call_table, NEW k \in Nat,
         1 <= k, k <= Len(system_call_table[n].steps) + 1
  PROVE  StepFacts(n, k)
  <1>1. PICK f, b, e, r, q \in Nat : Shape(n, system_call_table[n].steps, f, b, e, r, q)
    BY TableShape
  <1>. DEFINE s == system_call_table[n].steps
  <1>2. Len(s) \in Nat /\ f < b /\ b + 1 < e /\ (e <= Len(s) \/ b > Len(s))
    BY <1>1 DEF Shape
  <1>3. ASSUME NEW j \in 1 .. Len(s)
        PROVE  /\ s[j] \in Prepares <=> j < b
               /\ s[j] = "begin" <=> j = b
               /\ s[j] = "kernel" <=> j = b + 1
               /\ s[j] \in Ends <=> j = e
               /\ s[j] \in Checks \cup Tracks => j > e
               /\ s[j] = "fd" <=> j = f
    <2>1. j < b \/ j = b \/ j = b + 1 \/ (j > b + 1 /\ j < e) \/ j = e \/ j > e
      BY <1>2
    <2>2. /\ j < b => s[j] \in Prepares
          /\ j = b => s[j] = "begin"
          /\ j = b + 1 => s[j] = "kernel"
          /\ j > b + 1 /\ j < e => s[j] \in Frees
          /\ j = e => s[j] \in Ends
          /\ j > e => s[j] \in Frees \cup Checks \cup Tracks
          /\ s[j] = "fd" <=> j = f
      BY <1>1 DEF Shape, Ends
    <2> HIDE DEF s
    <2> QED
      BY <1>2, <2>1, <2>2 DEF Prepares, Allocators, Ends, Checks, Tracks, Frees
  <1>4. /\ Before(n, k, {"begin"}) <=> k > b
        /\ Before(n, k, {"kernel"}) <=> k > b + 1
        /\ Before(n, k, Ends) <=> k > e
        /\ Before(n, k, Checks) => k > e + 1
        /\ f # 0 => (Before(n, k, {"fd"}) <=> k > f)
    <2>1. \A j \in 1 .. (k - 1) : j \in 1 .. Len(s)
      BY <1>2
    <2>2. /\ k > b => b \in 1 .. (k - 1)
          /\ k > b + 1 => b + 1 \in 1 .. (k - 1)
          /\ k > e => e \in 1 .. (k - 1)
          /\ f # 0 /\ k > f => f \in 1 .. (k - 1)
      BY <1>2
    <2> HIDE DEF s
    <2>3. /\ k > b => Before(n, k, {"begin"})
          /\ k > b + 1 => Before(n, k, {"kernel"})
          /\ k > e => Before(n, k, Ends)
          /\ f # 0 /\ k > f => Before(n, k, {"fd"})
      BY <1>3, <2>1, <2>2 DEF Before, s
    <2>4. ASSUME NEW ops, Before(n, k, ops) PROVE \E j \in 1 .. Len(s) : j < k /\ s[j] \in ops
      BY <1>2, <2>1, <2>4 DEF Before, s
    <2> QED
      BY <1>2, <1>3, <2>3, <2>4
  <1>5. k <= Len(s) => /\ s[k] \in Tracks => k = Len(s) /\ k = e + 1
                       /\ s[k] \in {"connect", "connect_any"} => f # 0 /\ f < k
    BY <1>1 DEF Shape
  <1>6. n \in {"accept", "sctp_peeloff", "close", "listen"} => f # 0
    BY <1>1 DEF Shape
  <1>7. k = Len(s) + 1 => \A m : ~HeldAt(n, k, m)
    <2> SUFFICES ASSUME k = Len(s) + 1, NEW m, HeldAt(n, k, m) PROVE FALSE
      OBVIOUS
    <2>1. PICK j \in 1 .. Len(s) : /\ s[j] \in Allocators /\ m \in Allocates(s[j])
                                   /\ \A i \in (j + 1) .. Len(s) :
                                        s[i] \in Frees => m \notin Releases(s[i])
      BY <1>2 DEF HeldAt
    <2>2. CASE s[j] = "addrs"
      <3>1. q \in (j + 1) .. Len(s) /\ s[q] = "free_addrs"
        BY <1>1, <2>2 DEF Shape
      <3>2. Allocates("addrs") = {"addrs"} /\ Releases("free_addrs") = {"addrs"}
        BY DEF Allocates, Releases
      <3> QED
        BY <2>1, <2>2, <3>1, <3>2 DEF Frees
    <2>3. CASE s[j] # "addrs"
      <3>1. r \in (j + 1) .. Len(s) /\ s[r] = Freeing(s[j])
        BY <1>1, <2>1, <2>3 DEF Shape
      <3>2. Freeing(s[j]) \in Frees /\ Allocates(s[j]) = Releases(Freeing(s[j]))
        BY <2>1, <2>3 DEF Freeing, Allocates, Releases, Frees, Allocators
      <3> QED
        BY <2>1, <3>1, <3>2
    <2> QED
      BY <2>2, <2>3
  <1>8. k <= Len(s) =>
          /\ s[k] \in {"socket", "open"} => n \in {"socket", "open"}
          /\ s[k] = "accept" => n = "accept"
          /\ s[k] = "close" => n = "close"
          /\ s[k] = "peeloff" => n = "sctp_peeloff"
          /\ s[k] = "listen" => n = "listen"
          /\ s[k] = "check_optlen" => n = "getsockopt"
          /\ s[k] = "check_flags" => n = "recvmsg"
          /\ s[k] = "check_cmsghdr" => n \in {"recvmsg", "sendmsg"}
          /\ k = e => s[k] = IF n \in Creators THEN "end_fd"
                             ELSE IF n = "close" THEN "end_keep" ELSE "end"
    BY <1>1 DEF Shape
  <1>9. n \in Creators \cup {"close"} => b < Len(s) /\ s[Len(s)] \in Tracks
    BY <1>1 DEF Shape
  <1>10. ASSUME k <= Len(s)
         PROVE  /\ s[k] \in Checks => n \notin Creators \cup {"close"}
                /\ n \in Creators \cup {"close"} /\ s[k] \notin Tracks => k < Len(s)
    <2>1. Len(s) \in 1 .. Len(s)
      BY <1>2, <1>10
    <2>2. n \in Creators \cup {"close"} => Len(s) = e + 1
      BY <1>1, <1>9, <2>1 DEF Shape
    <2>3. s[k] \in Checks => s[k] \notin Tracks
      BY DEF Checks, Tracks
    <2> QED
      BY <1>2, <1>3, <1>9, <1>10, <2>2, <2>3
  <1> HIDE DEF s
  <1>11. ASSUME k <= Len(s)
         PROVE  /\ s[k] \in Prepares <=> k < b
                /\ s[k] = "begin" <=> k = b
                /\ s[k] = "kernel" <=> k = b + 1
                /\ s[k] \in Ends <=> k = e
                /\ s[k] \in Checks \cup Tracks => k > e
    BY <1>2, <1>3, <1>11 DEF s
  <1> QED
    <2>1. ASSUME k <= Len(s)
          PROVE /\ s[k] \in {"connect", "connect_any", "listen", "accept", "close", "peeloff"} =>
                     Before(n, k, {"fd"})
                /\ s[k] = "kernel" => k < Len(s)
      <3>1. s[k] \in {"listen", "accept", "close", "peeloff"} => s[k] \in Tracks
        BY DEF Tracks
      <3> QED
      BY <1>2, <1>4, <1>5, <1>6, <1>8, <1>11, <2>1, <3>1 DEF s
    <2> QED
    BY <1>2, <1>4, <1>5, <1>6, <1>7, <1>8, <1>10, <1>11, <2>1 DEF StepFacts, s

LEMMA BeforeNext ==
  ASSUME NEW n, NEW k \in Nat, 1 <= k, NEW ops
  PROVE  Before(n, k + 1, ops) <=> Before(n, k, ops) \/ system_call_table[n].steps[k] \in ops
  BY DEF Before

LEMMA HeldNext ==
  ASSUME NEW n, NEW k \in Nat, 1 <= k, NEW m
  PROVE  LET op == system_call_table[n].steps[k] IN
         /\ HeldAt(n, k, m) /\ (op \in Frees => m \notin Releases(op)) => HeldAt(n, k + 1, m)
         /\ op \in Allocators /\ m \in Allocates(op) => HeldAt(n, k + 1, m)
  BY DEF HeldAt

(***************************************************************************)
(* A step of the call in progress.                                         *)
(***************************************************************************)
LEMMA NotIdle ==
  ASSUME NEW c \in Calls
  PROVE  c # Idle
  <1>1. c.name \in DOMAIN system_call_table
    BY DEF Calls
  <1>2. "none" \notin DOMAIN system_call_table
    BY DEF system_call_table
  <1> QED
    BY <1>1, <1>2 DEF Idle

LEMMA AtFacts ==
  ASSUME IInv, NEW ops, At(ops)
  PROVE  /\ call \in Calls /\ call.name \in DOMAIN system_call_table
         /\ Steps = system_call_table[call.name].steps /\ Len(Steps) \in Nat
         /\ call.pc \in 1 .. Len(Steps) /\ Step \in ops
         /\ StepFacts(call.name, call.pc)
         /\ test = "running" /\ InCall /\ Pending /\ CallInv
         /\ TypeOK /\ TrackedInv /\ KernelInv /\ AcceptInv
  <1>1. TypeOK /\ InCall /\ test = "running" /\ CallInv /\ TrackedInv /\ KernelInv /\ AcceptInv
    BY DEF IInv, At, InCall
  <1>2. call \in Calls /\ call.pc \in 1 .. (Len(Steps) + 1)
    BY <1>1 DEF TypeOK, InCall
  <1>3. call.name \in DOMAIN system_call_table /\ call.pc \in Nat
    BY <1>2 DEF Calls
  <1>4. Steps = system_call_table[call.name].steps
    BY DEF Steps, Handler
  <1>5. Len(Steps) \in Nat
    BY <1>3, <1>4, TableFacts, TableShape DEF Shape
  <1>6. call.pc \in 1 .. Len(Steps) /\ Pending /\ Step \in ops
    BY <1>2, <1>3, <1>5 DEF At, Step, Pending
  <1>7. StepFacts(call.name, call.pc)
    BY <1>3, <1>4, <1>5, <1>6, TableFacts
  <1> QED
    BY <1>1, <1>2, <1>3, <1>4, <1>5, <1>6, <1>7

\* The handler goes on to its next step.
Forward ==
  /\ call' \in Calls /\ call'.name = call.name /\ call'.pc = call.pc + 1
  /\ test' = "running"

LEMMA ForwardFacts ==
  ASSUME IInv, NEW ops, At(ops), Forward
  PROVE  /\ InCall' /\ Steps' = Steps
         /\ call'.pc \in 1 .. (Len(Steps) + 1) /\ (Pending' <=> call.pc < Len(Steps))
         /\ \A o : Before(call'.name, call'.pc, o) <=> Before(call.name, call.pc, o) \/ Step \in o
         /\ \A m : /\ HeldAt(call.name, call.pc, m) /\ (Step \in Frees => m \notin Releases(Step)) =>
                        HeldAt(call'.name, call'.pc, m)
                   /\ Step \in Allocators /\ m \in Allocates(Step) => HeldAt(call'.name, call'.pc, m)
  <1>1. InCall'
    BY NotIdle DEF Forward, InCall
  <1>2. Steps' = Steps
    BY DEF Forward, Steps, Handler
  <1>3. call'.pc \in 1 .. (Len(Steps) + 1) /\ (Pending' <=> call.pc < Len(Steps))
    BY AtFacts, <1>2 DEF Forward, Pending
  <1>4. Step = system_call_table[call.name].steps[call.pc] /\ call.pc \in Nat /\ 1 <= call.pc
    BY AtFacts DEF Step
  <1>5. \A o : Before(call'.name, call'.pc, o) <=> Before(call.name, call.pc, o) \/ Step \in o
    BY <1>4, BeforeNext DEF Forward
  <1>6. \A m : /\ HeldAt(call.name, call.pc, m) /\ (Step \in Frees => m \notin Releases(Step)) =>
                        HeldAt(call'.name, call'.pc, m)
               /\ Step \in Allocators /\ m \in Allocates(Step) => HeldAt(call'.name, call'.pc, m)
    BY <1>4, HeldNext DEF Forward
  <1> QED
    BY <1>1, <1>2, <1>3, <1>5, <1>6

\* The last step of these handlers tells packetdrill what the call has done.
LEMMA StillPending ==
  ASSUME IInv, NEW ops, At(ops), Forward, Step \notin Tracks, call.name \in Creators \cup {"close"}
  PROVE  Pending'
  <1>1. /\ StepFacts(call.name, call.pc) /\ call.pc <= Len(Steps)
        /\ Steps = system_call_table[call.name].steps
        /\ Pending' <=> call.pc < Len(Steps)
    BY AtFacts, ForwardFacts
  <1> QED
    BY <1>1 DEF StepFacts, Step

\* What the kernel returned has not changed, nor has anything but the memory.
SameResult ==
  /\ Forward
  /\ call'.fd = call.fd /\ call'.live = call.live
  /\ call'.result = call.result /\ call'.new = call.new /\ call'.object = call.object

Kept ==
  /\ SameResult
  /\ call'.expect = call.expect /\ call'.outs = call.outs /\ call'.bracket = call.bracket

MemInv == \A m \in mem : m = "live_addrs" \/ HeldAt(call.name, call.pc, m)

LEMMA KeptCall ==
  ASSUME IInv, NEW ops, At(ops), Kept, MemInv',
         Step \notin {"fd", "kernel", "begin"} \cup Ends \cup Checks,
         call.expect = "wrong" => Step \notin Tracks,
         Pending' => UNCHANGED <<objects, wire>> /\ Len(sockets') = Len(sockets)
  PROVE  CallInv'
  <1>1. /\ CallInv /\ call \in Calls
        /\ \A o : Before(call'.name, call'.pc, o) <=> Before(call.name, call.pc, o) \/ Step \in o
    BY AtFacts, ForwardFacts DEF Kept, SameResult
  <1>2. /\ Passed({"kernel"})' <=> Passed({"kernel"})
        /\ Passed({"fd"})' <=> Passed({"fd"})
        /\ Passed({"begin"})' <=> Passed({"begin"})
        /\ Passed(Ends)' <=> Passed(Ends)
        /\ Passed(Checks)' <=> Passed(Checks)
    BY <1>1 DEF Passed
  <1>3. Pending
    BY AtFacts
  <1>4. call.expect = "wrong" => Pending'
    BY <1>1, StillPending DEF CallInv, Kept, SameResult
  <1> QED
    BY <1>1, <1>2, <1>3, <1>4 DEF CallInv, Kept, SameResult, Forward, MemInv, MakesSocket

LEMMA SamePhase ==
  ASSUME IInv, NEW ops, At(ops), SameResult,
         Step \notin Tracks \/ call.name \notin Creators \cup {"close"}
  PROVE  /\ Creating' <=> Creating
         /\ Closing' <=> Closing
         /\ Accepting' <=> Accepting
  <1>1. InCall' /\ (Pending' <=> call.pc < Len(Steps))
    BY ForwardFacts DEF SameResult
  <1>2. InCall /\ Pending /\ CallInv /\ StepFacts(call.name, call.pc)
    BY AtFacts
  <1>3. call.name \in Creators \cup {"close"} => Pending'
    BY StillPending DEF SameResult
  <1>4. call.new # -1 => call.name \in Creators
    BY <1>2 DEF CallInv
  <1> QED
    BY <1>1, <1>2, <1>3, <1>4 DEF Creating, Closing, Accepting, SameResult, Forward

LEMMA QuietSockets ==
  ASSUME IInv, NEW ops, At(ops), SameResult, unchangedSockets, Step \notin Tracks \cup {"fd"}
  PROVE  TrackedInv' /\ KernelInv' /\ AcceptInv'
  <1>1. /\ Creating' <=> Creating
        /\ Closing' <=> Closing
        /\ Accepting' <=> Accepting
    BY SamePhase
  <1>2. TrackedInv /\ KernelInv /\ AcceptInv /\ InCall /\ Pending
    BY AtFacts
  <1>3. Passed({"fd"})' => Passed({"fd"})
    BY ForwardFacts DEF SameResult, Passed
  <1>4. TrackedInv'
    BY <1>1, <1>2, <1>3 DEF TrackedInv, Open, Sure, Found, unchangedSockets, unchangedKernel, SameResult
  <1>5. KernelInv'
    BY <1>1, <1>2 DEF KernelInv, Open, unchangedSockets, unchangedKernel, SameResult
  <1>6. AcceptInv'
    BY <1>1, <1>2 DEF AcceptInv, Acked, PeeledOff, unchangedSockets, unchangedKernel, SameResult
  <1> QED
    BY <1>4, <1>5, <1>6

\* The types of all but the call.
StateTypes ==
  /\ wire \in BOOLEAN /\ objects \in 0 .. MaxSockets
  /\ sockets \in Seq(Sockets) /\ Len(sockets) <= MaxSockets
  /\ pending \in SUBSET [on : Nat, object : 1 .. MaxSockets]
  /\ IsFiniteSet(pending) /\ Cardinality(pending) <= MaxPending
  /\ kernel \in [LiveFds -> 0 .. MaxSockets]
  /\ meaning \in [ScriptFds -> 0 .. MaxSockets] /\ doubtful \subseteq ScriptFds
  /\ listening \subseteq 0 .. MaxSockets

LEMMA SameTypes ==
  ASSUME TypeOK, unchangedSockets
  PROVE  StateTypes'
  BY DEF TypeOK, unchangedSockets, unchangedKernel, StateTypes

LEMMA ForwardInv ==
  ASSUME IInv, NEW ops, At(ops), Forward, broken' = {},
         StateTypes', CallInv', TrackedInv', KernelInv', AcceptInv'
  PROVE  IInv'
  <1>1. TypeOK'
    BY ForwardFacts DEF TypeOK, StateTypes, Forward
  <1>2. OutcomeInv'
    BY NotIdle DEF OutcomeInv, AllClosed, FailMeansMismatch, NothingBroken, Forward
  <1> QED
    BY <1>1, <1>2 DEF IInv

\* An error return.  No step that comes after a comparison fails but another one.
LEMMA FailInv ==
  ASSUME IInv, NEW ops, At(ops), NEW allocated, Fail(allocated), StateTypes', NothingBroken',
         Step \in Prepares \cup {"begin", "kernel"} \cup Ends \cup Tracks
  PROVE  IInv'
  <1>1. call \in Calls /\ StepFacts(call.name, call.pc) /\ CallInv /\ call.pc <= Len(Steps)
        /\ Steps = system_call_table[call.name].steps
    BY AtFacts
  <1>2. ~Passed(Checks)
    BY <1>1 DEF StepFacts, Step, Passed
  <1>3. call.outs = "none"
    BY <1>1, <1>2 DEF CallInv
  <1>4. call' \in Calls /\ call'.outs = call.outs /\ test' = "failed"
    BY <1>1 DEF Fail, Calls
  <1>5. ~InCall'
    BY <1>4 DEF InCall
  <1>6. TypeOK'
    BY <1>4, <1>5 DEF TypeOK, StateTypes
  <1>7. OutcomeInv'
    BY <1>3, <1>4, NotIdle DEF OutcomeInv, AllClosed, FailMeansMismatch
  <1> QED
    BY <1>4, <1>5, <1>6, <1>7 DEF IInv

LEMMA Running ==
  ASSUME IInv, NEW ops, At(ops)
  PROVE  broken = {} /\ TypeOK
  BY AtFacts DEF IInv, OutcomeInv

LEMMA NoneBroken ==
  ASSUME broken' = {}
  PROVE  NothingBroken'
  BY DEF NothingBroken

LEMMA KeptInv ==
  ASSUME IInv, NEW ops, At(ops), Kept, MemInv', unchangedSockets, broken' = broken,
         Step \notin {"fd", "kernel", "begin"} \cup Ends \cup Checks \cup Tracks
  PROVE  IInv'
  <1>1. broken' = {} /\ StateTypes'
    BY Running, SameTypes
  <1>2. CallInv'
    BY KeptCall DEF unchangedSockets, unchangedKernel
  <1>3. TrackedInv' /\ KernelInv' /\ AcceptInv'
    BY QuietSockets DEF Kept
  <1> QED
    BY <1>1, <1>2, <1>3, ForwardInv DEF Kept, SameResult

LEMMA ProceedKept ==
  ASSUME IInv, NEW ops, At(ops), Proceed
  PROVE  Kept
  BY AtFacts DEF Proceed, Kept, SameResult, Forward, Calls

LEMMA SameMem ==
  ASSUME IInv, NEW ops, At(ops), Forward, mem' = mem, Step \notin Frees
  PROVE  MemInv'
  BY AtFacts, ForwardFacts DEF MemInv, CallInv

LEMMA ArgsInv ==
  ASSUME IInv, Args
  PROVE  IInv'
  <1>1. At({"args"}) /\ unchangedSockets /\ broken' = broken
    BY DEF Args
  <1>2. Step = "args" /\ broken' = {} /\ StateTypes'
    BY <1>1, AtFacts, Running, SameTypes
  <1>3. CASE Proceed /\ UNCHANGED mem
    <2>1. Kept /\ MemInv'
      BY <1>1, <1>2, <1>3, ProceedKept, SameMem DEF Kept, SameResult, Frees
    <2> QED
      BY <1>1, <1>2, <2>1, KeptInv DEF Ends, Checks, Tracks
  <1>4. CASE Fail(mem)
    BY <1>1, <1>2, <1>4, FailInv, NoneBroken DEF Prepares
  <1> QED
    BY <1>3, <1>4 DEF Args

LEMMA MinNat ==
  ASSUME NEW S \in SUBSET Nat, S # {}
  PROVE  Min(S) \in S /\ \A x \in S : Min(S) <= x
  <1>1. PICK x \in S : \A y \in S : ~(<<y, x>> \in OpToRel(<, Nat))
    BY NatLessThanWellFounded, WFMin
  <1>2. ASSUME NEW y \in S
        PROVE  ~(y < x)
    <2>1. <<y, x>> \notin {ss \in Nat \X Nat : ss[1] < ss[2]}
      BY <1>1, Zenon DEF OpToRel
    <2> QED
      BY <2>1
  <1>3. \A y \in S : x <= y
    BY <1>2
  <1> QED
    BY <1>3 DEF Min

LEMMA EachSocket ==
  ASSUME TypeOK
  PROVE  /\ sockets \in Seq(Sockets) /\ Len(sockets) \in Nat /\ DOMAIN sockets = 1 .. Len(sockets)
         /\ \A i \in DOMAIN sockets :
              /\ sockets[i] \in Sockets
              /\ sockets[i].script \in ScriptFds \cup {-1} /\ sockets[i].live \in LiveFds \cup {-1}
              /\ sockets[i].remote \in Nat
  <1>1. sockets \in Seq(Sockets)
    BY DEF TypeOK
  <1>2. \A i \in DOMAIN sockets : sockets[i] \in Sockets
    BY <1>1
  <1>3. \A x \in Sockets : /\ x.script \in ScriptFds \cup {-1} /\ x.live \in LiveFds \cup {-1}
                           /\ x.remote \in Nat
    BY DEF Sockets
  <1> QED
    BY <1>1, <1>2, <1>3

\* find_socket_by_script_fd() finds the newest open socket of that descriptor.
LEMMA Find ==
  ASSUME TypeOK, TrackedInv, NEW f \in ScriptFds
  PROVE  LET i == find_socket_by_script_fd(f) IN
         /\ ByScript(f) = {} => i = 0 /\ to_live_fd(f) = -1
         /\ ByScript(f) # {} => /\ i \in DOMAIN sockets /\ i # 0 /\ Open(i) /\ sockets[i].script = f
                                /\ to_live_fd(f) = sockets[i].live /\ to_live_fd(f) \in LiveFds
         /\ \A j \in DOMAIN sockets : Open(j) /\ sockets[j].script = f => ByScript(f) # {} /\ i <= j
  <1>1. sockets \in Seq(Sockets) /\ DOMAIN sockets \subseteq Nat \ {0} /\ f # -1
    BY FdsAssumption DEF TypeOK
  <1>2. ByScript(f) \in SUBSET Nat
    BY <1>1 DEF ByScript
  <1>3. ByScript(f) # {} => /\ find_socket_by_script_fd(f) \in ByScript(f)
                            /\ \A j \in ByScript(f) : find_socket_by_script_fd(f) <= j
    BY <1>2, MinNat DEF find_socket_by_script_fd
  <1>4. \A j \in ByScript(f) : Open(j) /\ sockets[j].script = f
    BY <1>1 DEF ByScript, Open
  <1>5. \A j \in DOMAIN sockets : sockets[j].live \in LiveFds \cup {-1}
    BY EachSocket
  <1>6. \A j \in DOMAIN sockets : Open(j) /\ sockets[j].script = f => j \in ByScript(f)
    BY DEF ByScript, Open
  <1>7. ByScript(f) # {} => sockets[find_socket_by_script_fd(f)].live \in LiveFds
    BY <1>1, <1>3, <1>4, <1>5 DEF TrackedInv, Open
  <1> QED
    <2>1. ASSUME ByScript(f) # {}
          PROVE  LET i == find_socket_by_script_fd(f) IN
                 /\ i \in DOMAIN sockets /\ i # 0 /\ Open(i) /\ sockets[i].script = f
                 /\ to_live_fd(f) = sockets[i].live /\ to_live_fd(f) \in LiveFds
      BY <1>1, <1>3, <1>4, <1>7, <2>1 DEF to_live_fd, Open
    <2>2. ByScript(f) = {} => find_socket_by_script_fd(f) = 0 /\ to_live_fd(f) = -1
      BY DEF find_socket_by_script_fd, to_live_fd
    <2>3. ASSUME NEW j \in DOMAIN sockets, Open(j) /\ sockets[j].script = f
          PROVE  ByScript(f) # {} /\ find_socket_by_script_fd(f) <= j
      BY <1>3, <1>6, <2>3
    <2> QED
      BY <2>1, <2>2, <2>3

LEMMA NextStep ==
  ASSUME NEW c \in Calls
  PROVE  c.pc + 1 \in Nat
  BY DEF Calls

\* The records that a step makes of the call.
LEMMA FdUpdates ==
  ASSUME NEW c \in Calls, NEW k \in Nat, NEW f \in ScriptFds, NEW l \in LiveFds
  PROVE  /\ [c EXCEPT !.pc = k, !.live2 = l] \in Calls
         /\ [c EXCEPT !.pc = k, !.fd = f, !.live = l] \in Calls
  <1>1. [c EXCEPT !.pc = k, !.live2 = l] \in Calls
    BY DEF Calls
  <1>2. [c EXCEPT !.pc = k, !.fd = f, !.live = l] \in Calls
    BY DEF Calls
  <1> QED
    BY <1>1, <1>2

LEMMA BeginUpdates ==
  ASSUME NEW c \in Calls, NEW k \in Nat
  PROVE  [c EXCEPT !.pc = k, !.bracket = "running"] \in Calls
  BY ZenonT(40) DEF Calls

LEMMA ResultUpdates ==
  ASSUME NEW c \in Calls, NEW k \in Nat, NEW r \in {"value", "fail"}
  PROVE  [c EXCEPT !.pc = k, !.result = r] \in Calls
  BY DEF Calls

LEMMA CreateUpdates ==
  ASSUME NEW c \in Calls, NEW k \in Nat, NEW l \in LiveFds, NEW o \in Nat
  PROVE  [c EXCEPT !.pc = k, !.result = "value", !.new = l, !.object = o] \in Calls
  BY DEF Calls

LEMMA EndUpdates ==
  ASSUME NEW c \in Calls, NEW k \in Nat, NEW e \in {"value", "another", "fail", "wrong"}
  PROVE  [c EXCEPT !.pc = k, !.expect = e, !.bracket = "done"] \in Calls
  BY ZenonT(40) DEF Calls

LEMMA CheckUpdates ==
  ASSUME NEW c \in Calls, NEW k \in Nat,
         NEW o \in {"match", "differ", "unwritten", "undefined"}
  PROVE  [c EXCEPT !.pc = k, !.outs = o] \in Calls
  BY DEF Calls

LEMMA FdInv ==
  ASSUME IInv, Fd
  PROVE  IInv'
  <1>1. At({"fd", "fd2"}) /\ unchangedSockets /\ broken' = broken
    BY DEF Fd
  <1>2. /\ call \in Calls /\ CallInv /\ Step \in {"fd", "fd2"} /\ broken' = {} /\ StateTypes'
        /\ test = "running" /\ InCall /\ Pending /\ TypeOK /\ TrackedInv /\ KernelInv /\ AcceptInv
    BY <1>1, AtFacts, Running, SameTypes
  <1>3. ~Passed({"begin"}) /\ ~Passed({"kernel"}) /\ ~Passed(Ends) /\ ~Passed(Checks)
    BY <1>1, <1>2, AtFacts DEF StepFacts, Step, Passed, Prepares
  <1>4. PICK f \in ScriptFds :
       \/ /\ to_live_fd(f) >= 0
          /\ call' = IF Step = "fd"
                     THEN [call EXCEPT !.pc = @ + 1, !.fd = f, !.live = to_live_fd(f)]
                     ELSE [call EXCEPT !.pc = @ + 1, !.live2 = to_live_fd(f)]
          /\ UNCHANGED <<mem, test>>
       \/ to_live_fd(f) < 0 /\ Fail(mem)
    BY DEF Fd
  <1>5. CASE to_live_fd(f) < 0 /\ Fail(mem)
    BY <1>1, <1>2, <1>5, FailInv, NoneBroken DEF Prepares
  <1>6. CASE /\ to_live_fd(f) >= 0
             /\ call' = IF Step = "fd"
                     THEN [call EXCEPT !.pc = @ + 1, !.fd = f, !.live = to_live_fd(f)]
                     ELSE [call EXCEPT !.pc = @ + 1, !.live2 = to_live_fd(f)]
             /\ UNCHANGED <<mem, test>>
    <2>1. PICK i \in DOMAIN sockets : /\ Open(i) /\ sockets[i].script = f /\ f # -1
                                      /\ to_live_fd(f) = sockets[i].live /\ to_live_fd(f) \in LiveFds
                                      /\ \A j \in DOMAIN sockets :
                                           Open(j) /\ sockets[j].script = f => i <= j
      BY <1>2, <1>6, Find DEF Open
    <2>2. CASE Step = "fd2"
      <3>1. Kept
        <4>1. call' = [call EXCEPT !.pc = @ + 1, !.live2 = to_live_fd(f)] /\ test' = "running"
          BY <1>2, <1>6, <2>2
        <4>2. PICK l \in LiveFds : l = to_live_fd(f)
          BY <2>1
        <4>3. call' \in Calls
          BY <1>2, <4>1, <4>2, FdUpdates, NextStep
        <4> QED
          BY <1>2, <4>1, <4>2, <4>3 DEF Kept, SameResult, Forward, Calls
      <3>2. MemInv'
        BY <1>1, <1>6, <2>2, <3>1, SameMem DEF Kept, SameResult, Frees
      <3> QED
        BY <1>1, <2>2, <3>1, <3>2, KeptInv DEF Ends, Checks, Tracks
    <2>3. CASE Step = "fd"
      <3>1. /\ Forward /\ call'.fd = f /\ call'.live = sockets[i].live /\ call'.live # -1
            /\ call'.result = call.result /\ call'.new = call.new /\ call'.expect = call.expect
            /\ call'.outs = call.outs /\ call'.bracket = call.bracket
        <4>1. call' = [call EXCEPT !.pc = @ + 1, !.fd = f, !.live = to_live_fd(f)] /\ test' = "running"
          BY <1>2, <1>6, <2>3
        <4>2. PICK l \in LiveFds : l = to_live_fd(f)
          BY <2>1
        <4>3. l # -1
          BY FdsAssumption
        <4>4. call' \in Calls
          BY <1>2, <4>1, <4>2, FdUpdates, NextStep
        <4> QED
          BY <1>2, <2>1, <4>1, <4>2, <4>3, <4>4 DEF Forward, Calls
      <3>2. \A o : Before(call'.name, call'.pc, o) <=> Before(call.name, call.pc, o) \/ Step \in o
        BY <1>1, <3>1, ForwardFacts
      <3>3. /\ ~Passed({"begin"})' /\ ~Passed({"kernel"})' /\ ~Passed(Ends)' /\ ~Passed(Checks)'
            /\ Passed({"fd"})'
        BY <1>3, <2>3, <3>2 DEF Passed, Ends, Checks
      <3>4. MemInv'
        BY <1>1, <1>6, <2>3, <3>1, SameMem DEF Frees
      <3>5. call.expect = "wrong" => Pending'
        BY <1>1, <1>2, <2>3, <3>1, StillPending DEF CallInv, Tracks
      <3>6. CallInv'
        BY <1>1, <1>2, <1>3, <2>1, <3>1, <3>3, <3>4, <3>5
           DEF CallInv, MemInv, MakesSocket, unchangedSockets, unchangedKernel, Forward
      <3>7. ~Creating /\ ~Closing /\ ~Accepting /\ ~Creating' /\ ~Closing' /\ ~Accepting'
        BY <1>2, <1>3, <3>1 DEF Creating, Closing, Accepting, CallInv
      <3>8. TrackedInv'
        BY <1>1, <1>2, <2>1, <3>1, <3>7 DEF TrackedInv, Open, Sure, Found, unchangedSockets, unchangedKernel
      <3>9. KernelInv' /\ AcceptInv'
        BY <1>1, <1>2, <3>7 DEF KernelInv, Open, AcceptInv, Acked, PeeledOff, unchangedSockets, unchangedKernel
      <3> QED
        BY <1>1, <1>2, <3>1, <3>6, <3>8, <3>9, ForwardInv
    <2> QED
      BY <1>2, <2>2, <2>3
  <1> QED
    BY <1>4, <1>5, <1>6

LEMMA AllocateInv ==
  ASSUME IInv, Allocate
  PROVE  IInv'
  <1>1. At(Allocators) /\ unchangedSockets /\ broken' = broken
    BY DEF Allocate, At
  <1>2. Step \in Allocators /\ broken' = {} /\ StateTypes'
    BY <1>1, AtFacts, Running, SameTypes
  <1>3. CASE mem' = mem \cup Allocates(Step) /\ Proceed
    <2>1. Kept
      BY <1>1, <1>3, ProceedKept
    <2>2. MemInv'
      BY <1>1, <1>2, <1>3, <2>1, AtFacts, ForwardFacts
         DEF MemInv, CallInv, Kept, SameResult, Frees, Allocators
    <2> QED
      BY <1>1, <1>2, <2>1, <2>2, KeptInv DEF Allocators, Ends, Checks, Tracks
  <1>4. CASE UNCHANGED mem /\ Proceed
    <2>1. Kept /\ MemInv'
      BY <1>1, <1>2, <1>4, ProceedKept, SameMem DEF Kept, SameResult, Frees, Allocators
    <2> QED
      BY <1>1, <1>2, <2>1, KeptInv DEF Allocators, Ends, Checks, Tracks
  <1>5. CASE Fail(mem \cup Allocates(Step))
    BY <1>1, <1>2, <1>5, FailInv, NoneBroken DEF Prepares
  <1> QED
    BY <1>3, <1>4, <1>5 DEF Allocate

LEMMA MsghdrInv ==
  ASSUME IInv, MsghdrNew
  PROVE  IInv'
  <1>1. At({"msghdr_new"}) /\ unchangedSockets
    BY DEF MsghdrNew
  <1>2. Step = "msghdr_new" /\ broken = {} /\ StateTypes' /\ Allocates(Step) = Msghdr
    BY <1>1, AtFacts, Running, SameTypes DEF Allocates
  <1>3. CASE mem' = mem \cup Msghdr /\ Proceed /\ UNCHANGED broken
    <2>1. Kept
      BY <1>1, <1>3, ProceedKept
    <2>2. MemInv'
      BY <1>1, <1>2, <1>3, <2>1, AtFacts, ForwardFacts
         DEF MemInv, CallInv, Kept, SameResult, Frees, Allocators
    <2> QED
      BY <1>1, <1>2, <1>3, <2>1, <2>2, KeptInv DEF Ends, Checks, Tracks
  <1>4. CASE Fail(mem \cup Msghdr) /\ broken' \subseteq {"cmsg_entry"}
    <2>1. NothingBroken'
      BY <1>4 DEF NothingBroken
    <2> QED
      BY <1>1, <1>2, <1>4, <2>1, FailInv DEF Prepares, Allocators
  <1> QED
    BY <1>2, <1>3, <1>4 DEF MsghdrNew

LEMMA FreeInv ==
  ASSUME IInv, Free
  PROVE  IInv'
  <1>1. At(Frees) /\ unchangedSockets /\ broken' = broken /\ Proceed /\ mem' = mem \ Releases(Step)
    BY DEF Free, Frees
  <1>2. Step \in Frees
    BY <1>1, AtFacts
  <1>3. Kept
    BY <1>1, ProceedKept
  <1>4. MemInv'
    BY <1>1, <1>2, <1>3, AtFacts, ForwardFacts DEF MemInv, CallInv, Kept, SameResult
  <1> QED
    BY <1>1, <1>2, <1>3, <1>4, KeptInv DEF Frees, Ends, Checks, Tracks

LEMMA BeginInv ==
  ASSUME IInv, Begin
  PROVE  IInv'
  <1>1. At({"begin"}) /\ unchangedSockets /\ mem' = mem /\ test' = test
        /\ call' = [call EXCEPT !.pc = @ + 1, !.bracket = "running"]
    BY DEF Begin
  <1>2. /\ call \in Calls /\ CallInv /\ Step = "begin" /\ broken = {} /\ StateTypes'
        /\ test = "running" /\ InCall /\ Pending
    BY <1>1, AtFacts, Running, SameTypes
  <1>3. ~Passed({"begin"}) /\ ~Passed({"kernel"}) /\ ~Passed(Ends) /\ ~Passed(Checks)
    BY <1>1, <1>2, AtFacts DEF StepFacts, Step, Passed, Prepares
  <1>4. SameResult /\ call'.expect = call.expect /\ call'.outs = call.outs /\ call'.bracket = "running"
    <2>1. call' \in Calls
      BY <1>1, <1>2, BeginUpdates, NextStep
    <2> QED
      BY <1>1, <1>2, <2>1 DEF SameResult, Forward, Calls
  <1>5. \A o : Before(call'.name, call'.pc, o) <=> Before(call.name, call.pc, o) \/ Step \in o
    BY <1>1, <1>4, ForwardFacts DEF SameResult
  <1>6. /\ Passed({"begin"})' /\ ~Passed({"kernel"})' /\ ~Passed(Ends)' /\ ~Passed(Checks)'
        /\ Passed({"fd"})' <=> Passed({"fd"})
    BY <1>2, <1>3, <1>5 DEF Passed, Ends, Checks
  <1>7. broken' = {}
    BY <1>2, <1>3 DEF Begin, CallInv
  <1>8. MemInv'
    BY <1>1, <1>2, <1>4, SameMem DEF SameResult, Frees
  <1>9. call.expect = "wrong" => Pending'
    BY <1>1, <1>2, <1>4, StillPending DEF SameResult, CallInv, Tracks
  <1>10. CallInv'
    BY <1>1, <1>2, <1>3, <1>4, <1>6, <1>8, <1>9
       DEF CallInv, MemInv, MakesSocket, unchangedSockets, unchangedKernel, Forward, SameResult
  <1>11. TrackedInv' /\ KernelInv' /\ AcceptInv'
    BY <1>1, <1>2, <1>4, QuietSockets DEF Tracks
  <1> QED
    BY <1>1, <1>2, <1>4, <1>7, <1>10, <1>11, ForwardInv DEF SameResult

LEMMA ClosedFd ==
  ASSUME TypeOK, NEW l
  PROVE  [kernel EXCEPT ![l] = 0] \in [LiveFds -> 0 .. MaxSockets]
  <1>1. kernel \in [LiveFds -> 0 .. MaxSockets]
    BY DEF TypeOK
  <1>2. 0 \in 0 .. MaxSockets
    BY FdsAssumption
  <1> QED
    BY <1>1, <1>2

LEMMA EndInv ==
  ASSUME IInv, End
  PROVE  IInv'
  <1>1. At(Ends) /\ UNCHANGED <<objects, sockets, listening, pending, meaning, doubtful, wire>>
    BY DEF End, Ends
  <1>2. /\ call \in Calls /\ CallInv /\ Step \in Ends /\ broken = {} /\ TypeOK
        /\ test = "running" /\ InCall /\ Pending
    BY <1>1, AtFacts, Running
  <1>3. /\ Passed({"begin"}) /\ Passed({"kernel"}) /\ ~Passed(Ends) /\ ~Passed(Checks)
        /\ Step = IF call.name \in Creators THEN "end_fd"
                  ELSE IF call.name = "close" THEN "end_keep" ELSE "end"
    BY <1>1, <1>2, AtFacts DEF StepFacts, Step, Passed
  <1>4. call.bracket = "running" /\ call.result \in {"value", "fail"}
    BY <1>2, <1>3 DEF CallInv, Calls
  <1>5. PICK e \in {"value", "another", "fail"} :
          /\ broken' = broken \cup (IF call.bracket = "running" THEN {} ELSE {"end"})
                              \cup (IF ResultAgrees(Step, e) THEN {} ELSE Uninitialised)
          /\ EndWith(e)
    BY DEF End
  <1>6. ASSUME NEW x \in {"value", "another", "fail", "wrong"},
               call' = [call EXCEPT !.pc = @ + 1, !.expect = x, !.bracket = "done"],
               UNCHANGED <<mem, test, kernel>>, broken' = {},
               \/ x = call.result
               \/ x = "another" /\ call.new # -1
               \/ x = "wrong" /\ call.name = "close"
        PROVE  IInv'
    <2>1. call' \in Calls
      BY <1>2, <1>6, EndUpdates, NextStep
    <2>2. SameResult /\ call'.expect = x /\ call'.outs = call.outs /\ call'.bracket = "done"
      BY <1>2, <1>6, <2>1 DEF SameResult, Forward, Calls
    <2>3. \A o : Before(call'.name, call'.pc, o) <=> Before(call.name, call.pc, o) \/ Step \in o
      BY <1>1, <2>2, ForwardFacts DEF SameResult
    <2>4. /\ Passed({"kernel"})' /\ Passed(Ends)' /\ ~Passed(Checks)'
          /\ Passed({"fd"})' <=> Passed({"fd"})
      BY <1>2, <1>3, <2>3 DEF Passed, Ends, Checks
    <2>5. MemInv'
      BY <1>1, <1>2, <1>6, <2>2, SameMem DEF SameResult, Frees, Ends
    <2>6. call.name = "close" => Pending'
      BY <1>1, <1>2, <2>2, StillPending DEF SameResult, Tracks, Ends
    <2>7. unchangedSockets
      BY <1>1, <1>6 DEF unchangedSockets, unchangedKernel
    <2>8. CallInv'
      BY <1>2, <1>3, <1>4, <1>6, <2>2, <2>4, <2>5, <2>6, <2>7
         DEF CallInv, MemInv, MakesSocket, unchangedSockets, unchangedKernel, Forward, SameResult
    <2>9. TrackedInv' /\ KernelInv' /\ AcceptInv'
      BY <1>1, <1>2, <2>2, <2>7, QuietSockets DEF Tracks, Ends
    <2> QED
      BY <1>1, <1>2, <1>6, <2>2, <2>7, <2>8, <2>9, ForwardInv, SameTypes DEF SameResult
  <1>7. CASE /\ ResultAgrees(Step, e)
             /\ call' = [call EXCEPT !.pc = @ + 1, !.expect = e, !.bracket = "done"]
             /\ UNCHANGED <<mem, test, kernel>>
    <2>1. broken' = {}
      BY <1>2, <1>4, <1>5, <1>7
    <2>2. e = call.result \/ (e = "another" /\ call.new # -1)
      BY <1>2, <1>3, <1>4, <1>7 DEF ResultAgrees, CallInv
    <2> QED
      BY <1>6, <1>7, <2>1, <2>2
  <1>8. CASE /\ ~ResultAgrees(Step, e) /\ Step # "end_keep"
             /\ Fail(mem)
             /\ kernel' = IF call.new >= 0 /\ call.name # "sctp_peeloff"
                          THEN [kernel EXCEPT ![call.new] = 0] ELSE kernel
    <2>1. kernel' \in [LiveFds -> 0 .. MaxSockets]
      BY <1>2, <1>8, ClosedFd DEF TypeOK
    <2>2. StateTypes'
      BY <1>1, <1>2, <2>1 DEF TypeOK, StateTypes
    <2>3. broken' \subseteq {"uninitialised"}
      BY <1>2, <1>4, <1>5, <1>8 DEF Uninitialised
    <2>4. NothingBroken'
      BY <2>3 DEF NothingBroken
    <2> QED
      BY <1>1, <1>2, <1>8, <2>2, <2>4, FailInv
  <1>9. CASE /\ ~ResultAgrees(Step, e) /\ Step = "end_keep"
             /\ call' = [call EXCEPT !.pc = @ + 1, !.expect = "wrong", !.bracket = "done"]
             /\ UNCHANGED <<mem, test, kernel>>
    <2>1. call.name = "close"
      BY <1>3, <1>9
    <2>2. Uninitialised = {}
      <3>1. system_call_table["close"].error_out = {}
        BY DEF system_call_table, syscall_close, H
      <3> QED
        BY <2>1, <3>1 DEF Uninitialised, Handler
    <2>3. broken' = {}
      BY <1>2, <1>4, <1>5, <2>2
    <2> QED
      BY <1>6, <1>9, <2>1, <2>3
  <1> QED
    BY <1>5, <1>7, <1>8, <1>9 DEF EndWith

(***************************************************************************)
(* The control messages.                                                   *)
(***************************************************************************)
IsList(s) == Len(s) \in Nat /\ DOMAIN s = 1 .. Len(s)

LEMMA BoundedList ==
  ASSUME NEW S, NEW n \in Nat, NEW s \in BoundedSeq(S, n)
  PROVE  IsList(s)
  <1>1. PICK m \in 0 .. n : s \in [1 .. m -> S]
    BY DEF BoundedSeq, SeqOf
  <1> QED
    BY <1>1 DEF IsList

\* check_cmsghdr() returns at the first message that is not as the script says.
LEMMA FirstBad ==
  ASSUME NEW script, NEW live, IsList(live)
  PROVE  \/ /\ \A i \in DOMAIN live : CheckMessage(script, live, i) = "ok"
            /\ check_cmsghdr(script, live) = IF Len(live) # Len(script) THEN "err" ELSE "ok"
         \/ \E i \in DOMAIN live :
              /\ check_cmsghdr(script, live) = CheckMessage(script, live, i)
              /\ CheckMessage(script, live, i) # "ok"
              /\ \A j \in DOMAIN live : j < i => CheckMessage(script, live, j) = "ok"
  <1> DEFINE bad == {i \in DOMAIN live : CheckMessage(script, live, i) # "ok"}
  <1>1. bad \in SUBSET Nat /\ DOMAIN live \subseteq Nat
    BY DEF IsList
  <1>2. check_cmsghdr(script, live) = IF bad # {} THEN CheckMessage(script, live, Min(bad))
                                      ELSE IF Len(live) # Len(script) THEN "err" ELSE "ok"
    BY DEF check_cmsghdr
  <1>3. CASE bad = {}
    BY <1>2, <1>3
  <1>4. CASE bad # {}
    <2>1. Min(bad) \in bad /\ \A x \in bad : Min(bad) <= x
      BY <1>1, <1>4, MinNat
    <2>2. PICK i \in bad : i = Min(bad)
      BY <2>1
    <2>3. check_cmsghdr(script, live) = CheckMessage(script, live, i)
      BY <1>2, <1>4, <2>2
    <2>4. \A j \in DOMAIN live : j < i => CheckMessage(script, live, j) = "ok"
      BY <1>1, <2>1, <2>2
    <2> QED
      BY <2>3, <2>4
  <1> QED
    BY <1>3, <1>4

\* With structs of the announced types, the lists pass if and only if they agree.
LEMMA CmsgVerdict ==
  ASSUME NEW script, NEW live, IsList(script), IsList(live),
         \A i \in DOMAIN script : script[i].type = script[i].struct
  PROVE  /\ check_cmsghdr(script, live) # "undefined"
         /\ check_cmsghdr(script, live) = "ok" <=>
              /\ Len(live) = Len(script)
              /\ \A i \in DOMAIN live : live[i].type = script[i].type /\ live[i].data = script[i].data
  <1>1. ASSUME NEW i \in DOMAIN live
        PROVE  /\ CheckMessage(script, live, i) # "undefined"
               /\ CheckMessage(script, live, i) = "ok" <=>
                    /\ i <= Len(script)
                    /\ live[i].type = script[i].type /\ live[i].data = script[i].data
    <2>1. i \in Nat /\ i >= 1 /\ Len(script) \in Nat
      BY DEF IsList
    <2>2. i <= Len(script) => script[i].type = script[i].struct
      BY <2>1 DEF IsList
    <2> QED
      BY <2>1, <2>2 DEF CheckMessage
  <1>2. CASE /\ \A i \in DOMAIN live : CheckMessage(script, live, i) = "ok"
             /\ check_cmsghdr(script, live) = IF Len(live) # Len(script) THEN "err" ELSE "ok"
    BY <1>1, <1>2
  <1>3. ASSUME NEW i \in DOMAIN live,
               check_cmsghdr(script, live) = CheckMessage(script, live, i),
               CheckMessage(script, live, i) # "ok"
        PROVE  /\ check_cmsghdr(script, live) # "undefined"
               /\ check_cmsghdr(script, live) # "ok"
               /\ ~ /\ Len(live) = Len(script)
                    /\ \A j \in DOMAIN live : live[j].type = script[j].type /\ live[j].data = script[j].data
    <2>1. Len(live) = Len(script) => i <= Len(script)
      BY DEF IsList
    <2> QED
      BY <1>1, <1>3, <2>1
  <1> QED
    BY <1>2, <1>3, FirstBad

\* The space that the script's structs take bounds what the kernel returns.
LEMMA NoOverrun ==
  ASSUME NEW script, NEW live, IsList(script), IsList(live), LiveSpace(live) <= ScriptSpace(script)
  PROVE  check_cmsghdr(script, live) # "crash"
  <1> SUFFICES ASSUME NEW i \in DOMAIN live, CheckMessage(script, live, i) = "crash",
                      \A j \in DOMAIN live : j < i => CheckMessage(script, live, j) = "ok"
               PROVE  FALSE
    BY FirstBad
  <1>1. i \in Nat /\ i <= Len(live) /\ Len(script) \in Nat /\ Len(live) \in Nat
    BY DEF IsList
  <1>2. i > Len(script)
    BY DEF CheckMessage
  <1> DEFINE A == {j \in DOMAIN script : script[j].struct = "sndrcvinfo"}
             B == {j \in DOMAIN live : live[j].type = "sndrcvinfo"}
  <1>3. A \in SUBSET B
    <2> SUFFICES ASSUME NEW j \in A PROVE j \in B
      OBVIOUS
    <2>1. j \in Nat /\ j >= 1 /\ j <= Len(script) /\ script[j].struct = "sndrcvinfo"
      BY DEF IsList
    <2>2. j \in DOMAIN live /\ j < i
      BY <1>1, <1>2, <2>1 DEF IsList
    <2>3. CheckMessage(script, live, j) = "ok"
      BY <2>2
    <2>4. script[j].struct = live[j].type
      BY <2>1, <2>3 DEF CheckMessage
    <2> QED
      BY <2>1, <2>2, <2>4
  <1>4. IsFiniteSet(B)
    <2>1. IsFiniteSet(1 .. Len(live))
      BY <1>1, FS_Interval
    <2>2. B \in SUBSET (1 .. Len(live))
      BY DEF IsList
    <2> QED
      BY <2>1, <2>2, FS_Subset
  <1>5. IsFiniteSet(A) /\ Cardinality(A) <= Cardinality(B)
    <2> HIDE DEF A, B
    <2> QED
      BY <1>3, <1>4, FS_Subset
  <1>6. Cardinality(A) \in Nat /\ Cardinality(B) \in Nat
    BY <1>4, <1>5, FS_CardinalityType
  <1>7. ScriptSpace(script) = Len(script) + Cardinality(A) /\ LiveSpace(live) = Len(live) + Cardinality(B)
    BY DEF ScriptSpace, LiveSpace
  <1> HIDE DEF A, B
  <1> QED
    BY <1>1, <1>2, <1>5, <1>6, <1>7

CaseInv(c) ==
  /\ c.outs \in {"match", "differ", "unwritten", "undefined"}
  /\ c.verdict # "crash"
  /\ c.outs = "match" => c.verdict = "ok"
  /\ c.outs = "differ" => c.verdict \notin {"ok", "undefined"}

LEMMA ReceivedCase ==
  ASSUME NEW c \in ReceivedCases
  PROVE  CaseInv(c)
  <1>1. PICK d \in {d \in ScriptLists \X BoundedSeq(LiveMessages, MaxMessages + 1) :
                      LiveSpace(d[2]) <= ScriptSpace(d[1])} : c = CmsgCase(d[1], d[2], TRUE)
    BY DEF ReceivedCases
  <1>2. PICK script, live : script = d[1] /\ live = d[2]
    OBVIOUS
  <1>3. /\ script \in BoundedSeq(ScriptMessages, MaxMessages)
        /\ live \in BoundedSeq(LiveMessages, MaxMessages + 1)
        /\ LiveSpace(live) <= ScriptSpace(script)
        /\ c = CmsgCase(script, live, TRUE)
    BY <1>1, <1>2 DEF ScriptLists
  <1>4. MaxMessages \in Nat /\ MaxMessages + 1 \in Nat
    BY FdsAssumption
  <1>5. IsList(script)
    BY <1>3, <1>4, BoundedList
  <1>6. IsList(live)
    BY <1>3, <1>4, BoundedList
  <1>7. c.verdict = check_cmsghdr(script, live) /\ c.outs = Agreement(script, live, TRUE)
    BY <1>3 DEF CmsgCase
  <1>8. c.verdict # "crash"
    BY <1>3, <1>5, <1>6, <1>7, NoOverrun
  <1>9. CASE \E i \in DOMAIN script : script[i].type # script[i].struct
    BY <1>7, <1>8, <1>9 DEF Agreement, CaseInv
  <1>10. CASE ~ \E i \in DOMAIN script : script[i].type # script[i].struct
    <2>1. /\ c.verdict # "undefined"
          /\ c.verdict = "ok" <=>
               /\ Len(live) = Len(script)
               /\ \A i \in DOMAIN live : live[i].type = script[i].type /\ live[i].data = script[i].data
      BY <1>5, <1>6, <1>7, <1>10, CmsgVerdict
    <2>2. c.outs = IF c.verdict = "ok" THEN "match" ELSE "differ"
      BY <1>7, <1>10, <2>1 DEF Agreement
    <2> QED
      BY <1>8, <2>1, <2>2 DEF CaseInv
  <1> QED
    BY <1>9, <1>10

LEMMA OwnCase ==
  ASSUME NEW c \in OwnCases
  PROVE  CaseInv(c)
  <1>1. PICK script \in BoundedSeq(ScriptMessages, MaxMessages) :
          c = CmsgCase(script, Control(script), FALSE)
    BY DEF OwnCases, ScriptLists
  <1>2. IsList(script)
    BY FdsAssumption, BoundedList
  <1>3. PICK live : live = Control(script)
    OBVIOUS
  <1>4. IsList(live) /\ Len(live) = Len(script)
    BY <1>2, <1>3 DEF Control, IsList
  <1>5. c.verdict = check_cmsghdr(script, live) /\ c.outs = Agreement(script, live, FALSE)
    BY <1>1, <1>3 DEF CmsgCase
  <1>6. \A i \in DOMAIN live : CheckMessage(script, live, i) # "crash"
    BY <1>4 DEF IsList, CheckMessage
  <1>7. c.verdict # "crash"
    BY <1>4, <1>5, <1>6, FirstBad
  <1> QED
    BY <1>5, <1>7 DEF Agreement, CaseInv

LEMMA CheckForward ==
  ASSUME IInv, NEW ops, At(ops), Step \in Checks, SameResult,
         call'.expect = call.expect, call'.bracket = call.bracket,
         call'.outs # "differ",
         mem' = mem, broken' = broken, unchangedSockets
  PROVE  IInv'
  <1>1. /\ CallInv /\ call \in Calls /\ Pending /\ broken' = {} /\ StateTypes'
        /\ \A o : Before(call'.name, call'.pc, o) <=> Before(call.name, call.pc, o) \/ Step \in o
    BY AtFacts, ForwardFacts, Running, SameTypes DEF SameResult
  <1>2. Step \notin {"fd", "kernel", "begin"} \cup Ends \cup Frees \cup Tracks
    BY DEF Checks, Ends, Frees, Tracks
  <1>3. /\ Passed({"kernel"})' <=> Passed({"kernel"})
        /\ Passed({"fd"})' <=> Passed({"fd"})
        /\ Passed({"begin"})' <=> Passed({"begin"})
        /\ Passed(Ends)' <=> Passed(Ends)
        /\ Passed(Checks)'
    BY <1>1, <1>2 DEF Passed
  <1>4. MemInv'
    BY <1>2, SameMem DEF SameResult
  <1>5. call.expect = "wrong" => Pending'
    BY <1>1, <1>2, StillPending DEF CallInv, SameResult
  <1>6. CallInv'
    BY <1>1, <1>3, <1>4, <1>5
       DEF CallInv, MemInv, MakesSocket, unchangedSockets, unchangedKernel, Forward, SameResult
  <1>7. TrackedInv' /\ KernelInv' /\ AcceptInv'
    BY <1>2, QuietSockets
  <1> QED
    BY <1>1, <1>6, <1>7, ForwardInv DEF SameResult

LEMMA CheckFail ==
  ASSUME IInv, NEW ops, At(ops), test' = "failed", call' \in Calls, call'.outs # "match",
         call'.outs = "unwritten" => call'.name \in Unguarded \cup {"getsockopt", "recvmsg", "sendmsg"},
         broken' \subseteq {"uninitialised", "cmsg_data"}, unchangedSockets
  PROVE  IInv'
  <1>1. StateTypes'
    BY Running, SameTypes
  <1>2. ~InCall'
    BY DEF InCall
  <1>3. TypeOK'
    BY <1>1, <1>2 DEF TypeOK, StateTypes
  <1>4. NothingBroken'
    BY DEF NothingBroken
  <1>5. OutcomeInv'
    BY <1>4, NotIdle DEF OutcomeInv, AllClosed, FailMeansMismatch
  <1> QED
    BY <1>2, <1>3, <1>5 DEF IInv

LEMMA CheckInv ==
  ASSUME IInv, Check
  PROVE  IInv'
  <1>1. At({"check", "check_if_ok", "check_optlen", "check_flags"}) /\ unchangedSockets
    BY DEF Check
  <1>2. /\ call \in Calls /\ test = "running" /\ Step \in Checks /\ broken = {} /\ CallInv
        /\ StepFacts(call.name, call.pc) /\ call.pc <= Len(Steps)
        /\ Steps = system_call_table[call.name].steps
    BY <1>1, AtFacts, Running DEF Checks
  <1>3. CASE Proceed /\ UNCHANGED <<mem, broken>>
    <2>1. Kept
      BY <1>1, <1>3, ProceedKept
    <2>2. call'.outs # "differ"
      BY <1>2, <2>1 DEF CallInv, Kept
    <2> QED
      BY <1>1, <1>2, <1>3, <2>1, <2>2, CheckForward DEF Kept
  <1>4. ASSUME NEW o \in {"match", "unwritten"},
               call' = [call EXCEPT !.pc = @ + 1, !.outs = o],
               UNCHANGED <<mem, broken, test>>
        PROVE  IInv'
    <2>1. call' \in Calls
      BY <1>2, <1>4, CheckUpdates, NextStep
    <2>2. SameResult /\ call'.expect = call.expect /\ call'.bracket = call.bracket /\ call'.outs = o
      BY <1>2, <1>4, <2>1 DEF SameResult, Forward, Calls
    <2> QED
      BY <1>1, <1>2, <1>4, <2>2, CheckForward
  <1>5. ASSUME NEW o \in {"differ", "unwritten"}, test' = "failed",
               call' = [call EXCEPT !.pc = 0, !.outs = o],
               o = "unwritten" => call.name \in Unguarded \cup {"getsockopt", "recvmsg", "sendmsg"},
               broken' = broken \cup Uninitialised
        PROVE  IInv'
    <2>1. call' \in Calls
      BY <1>2, <1>5, CheckUpdates
    <2>2. call'.outs = o /\ call'.name = call.name
      BY <1>2, <1>5 DEF Calls
    <2>3. broken' \subseteq {"uninitialised"}
      BY <1>2, <1>5 DEF Uninitialised
    <2> QED
      BY <1>1, <1>5, <2>1, <2>2, <2>3, CheckFail
  <1>6. ASSUME NEW said \in Values \cup {0}, NEW live \in Holds(said), NEW o,
               o = IF ~Written THEN "unwritten"
                   ELSE IF said = 0 \/ said = live THEN "match" ELSE "differ",
               \/ /\ said \in {0, live}
                  /\ call' = [call EXCEPT !.pc = @ + 1, !.outs = o]
                  /\ UNCHANGED <<mem, broken, test>>
               \/ /\ said \notin {0, live}
                  /\ test' = "failed"
                  /\ call' = [call EXCEPT !.pc = 0, !.outs = o]
                  /\ broken' = broken \cup Uninitialised
        PROVE  IInv'
    <2>1. CASE said \in {0, live}
      <3>1. o \in {"match", "unwritten"}
        BY <1>6, <2>1
      <3> QED
        BY <1>4, <1>6, <2>1, <3>1
    <2>2. CASE said \notin {0, live}
      <3>1. o \in {"differ", "unwritten"} /\ (o = "unwritten" => ~Written)
        BY <1>6, <2>2
      <3>2. ASSUME ~Written, call.name \notin Unguarded
            PROVE  call.name \in {"getsockopt", "recvmsg"}
        <4>1. Step \in {"check_optlen", "check_flags"}
          BY <1>6, <2>2, <3>2 DEF Holds
        <4> QED
          BY <1>2, <4>1 DEF StepFacts, Step
      <3> QED
        BY <1>5, <1>6, <2>2, <3>1, <3>2
    <2> QED
      BY <2>1, <2>2
  <1> QED
    BY <1>3, <1>6 DEF Check

LEMMA CheckCmsghdrInv ==
  ASSUME IInv, CheckCmsghdr
  PROVE  IInv'
  <1>1. At({"check_cmsghdr"}) /\ unchangedSockets
    BY DEF CheckCmsghdr
  <1>2. /\ call \in Calls /\ test = "running" /\ Step = "check_cmsghdr" /\ broken = {}
        /\ StepFacts(call.name, call.pc) /\ call.pc <= Len(Steps)
        /\ Steps = system_call_table[call.name].steps
    BY <1>1, AtFacts, Running
  <1>3. call.name \in {"recvmsg", "sendmsg"} /\ Step \in Checks
    BY <1>2 DEF StepFacts, Step, Checks
  <1>4. PICK c \in IF call.name = "recvmsg" /\ call.result = "value" THEN ReceivedCases ELSE OwnCases :
       \/ /\ c.verdict \in {"ok", "undefined"}
          /\ call' = [call EXCEPT !.pc = @ + 1, !.outs = c.outs]
          /\ UNCHANGED <<mem, test, broken>>
       \/ /\ c.verdict # "ok"
          /\ test' = "failed" /\ mem' = mem \ Handler.error_out
          /\ call' = [call EXCEPT !.pc = 0, !.outs = c.outs]
          /\ broken' = broken \cup (IF c.verdict = "crash" THEN {"cmsg_count"} ELSE {})
                              \cup (IF c.verdict = "undefined" THEN {"cmsg_data"} ELSE {})
    BY DEF CheckCmsghdr
  <1>5. CaseInv(c)
    <2>1. CASE c \in ReceivedCases
      BY <2>1, ReceivedCase
    <2>2. CASE c \in OwnCases
      BY <2>2, OwnCase
    <2> QED
      BY <2>1, <2>2
  <1>6. PICK o \in {"match", "differ", "unwritten", "undefined"} : o = c.outs
    BY <1>5 DEF CaseInv
  <1>7. CASE /\ c.verdict \in {"ok", "undefined"}
             /\ call' = [call EXCEPT !.pc = @ + 1, !.outs = c.outs]
             /\ UNCHANGED <<mem, test, broken>>
    <2>1. call' = [call EXCEPT !.pc = @ + 1, !.outs = o] /\ o # "differ"
      BY <1>5, <1>6, <1>7 DEF CaseInv
    <2>2. call' \in Calls
      BY <1>2, <2>1, CheckUpdates, NextStep
    <2>3. /\ SameResult /\ call'.expect = call.expect /\ call'.bracket = call.bracket
          /\ call'.outs = o
      BY <1>2, <1>7, <2>1, <2>2 DEF SameResult, Forward, Calls
    <2> QED
      BY <1>1, <1>3, <1>7, <2>1, <2>3, CheckForward
  <1>8. CASE /\ c.verdict # "ok"
             /\ test' = "failed"
             /\ call' = [call EXCEPT !.pc = 0, !.outs = c.outs]
             /\ broken' = broken \cup (IF c.verdict = "crash" THEN {"cmsg_count"} ELSE {})
                                 \cup (IF c.verdict = "undefined" THEN {"cmsg_data"} ELSE {})
    <2>1. call' = [call EXCEPT !.pc = 0, !.outs = o] /\ o # "match"
      BY <1>5, <1>6, <1>8 DEF CaseInv
    <2>2. call' \in Calls
      BY <1>2, <2>1, CheckUpdates
    <2>3. call'.outs = o /\ call'.name = call.name
      BY <1>2, <2>1 DEF Calls
    <2>4. broken' \subseteq {"cmsg_data"}
      BY <1>2, <1>5, <1>8 DEF CaseInv
    <2> QED
      BY <1>1, <1>3, <1>8, <2>1, <2>2, <2>3, <2>4, CheckFail
  <1> QED
    BY <1>4, <1>7, <1>8

(***************************************************************************)
(* Between calls.                                                          *)
(***************************************************************************)
LEMMA Between ==
  ASSUME TrackedInv, KernelInv, AcceptInv, unchangedSockets,
         ~Creating, ~Closing, ~Accepting, ~Creating', ~Closing', ~Accepting',
         (InCall /\ Passed({"fd"}) /\ Pending)' => /\ InCall /\ Passed({"fd"}) /\ Pending
                                                   /\ call'.fd = call.fd /\ call'.live = call.live
  PROVE  TrackedInv' /\ KernelInv' /\ AcceptInv'
  <1>1. TrackedInv'
    BY DEF TrackedInv, Open, Sure, Found, unchangedSockets, unchangedKernel
  <1>2. KernelInv'
    BY DEF KernelInv, Open, unchangedSockets, unchangedKernel
  <1>3. AcceptInv'
    BY DEF AcceptInv, Acked, PeeledOff, unchangedSockets, unchangedKernel
  <1> QED
    BY <1>1, <1>2, <1>3

LEMMA ReturnInv ==
  ASSUME IInv, Return
  PROVE  IInv'
  <1>1. /\ TypeOK /\ OutcomeInv /\ TrackedInv /\ KernelInv /\ AcceptInv /\ call \in Calls
        /\ test = "running" /\ broken = {}
    BY DEF IInv, Return, InCall, OutcomeInv, TypeOK
  <1>2. call' = Idle /\ mem' = {} /\ unchangedSockets /\ broken' = broken /\ test' = test
    BY DEF Return
  <1>3. ~InCall'
    BY <1>2 DEF InCall
  <1>4. ~Pending
    <2>1. Len(Steps) \in Nat /\ call.pc \in Nat
      BY <1>1, TableShape DEF Shape, Calls, Steps, Handler
    <2> QED
      BY <2>1 DEF Return, Pending
  <1>5. TrackedInv' /\ KernelInv' /\ AcceptInv'
    BY <1>1, <1>2, <1>3, <1>4, Between DEF Creating, Closing, Accepting
  <1>6. TypeOK'
    BY <1>1, <1>2, <1>3, SameTypes DEF TypeOK, StateTypes
  <1>7. OutcomeInv'
    BY <1>1, <1>2 DEF OutcomeInv, AllClosed, FailMeansMismatch, NothingBroken
  <1> QED
    BY <1>3, <1>5, <1>6, <1>7 DEF IInv

LEMMA InvokeInv ==
  ASSUME IInv, Invoke
  PROVE  IInv'
  <1>1. PICK n \in DOMAIN system_call_table :
       /\ MakesSocket(n) => Room(1)
       /\ call' = [name |-> n, pc |-> 1, fd |-> -1, live |-> -1, live2 |-> -1, result |-> "none",
                   expect |-> "none", new |-> -1, object |-> 0, outs |-> "none",
                   bracket |-> "enqueued"]
    BY DEF Invoke
  <1>2. /\ TypeOK /\ OutcomeInv /\ TrackedInv /\ KernelInv /\ AcceptInv
        /\ test = "running" /\ broken = {} /\ mem = {} /\ ~InCall
    BY DEF IInv, Invoke, InCall, OutcomeInv
  <1>3. unchangedSockets /\ mem' = mem /\ broken' = broken /\ test' = test
    BY DEF Invoke
  <1>4. call' \in Calls
    BY <1>1 DEF Calls
  <1>5. InCall' /\ Len(Steps') \in Nat /\ call'.pc = 1
    BY <1>1, <1>2, <1>3, <1>4, NotIdle, TableShape DEF InCall, Steps, Handler, Shape
  <1>6. \A o : ~Before(call'.name, call'.pc, o)
    BY <1>5 DEF Before
  <1>7. TypeOK'
    BY <1>2, <1>3, <1>4, <1>5, SameTypes DEF TypeOK, StateTypes
  <1>8. OutcomeInv'
    BY <1>2, <1>3, <1>4, NotIdle DEF OutcomeInv, AllClosed, FailMeansMismatch, NothingBroken
  <1>9. CallInv'
    <2>1. MakesSocket(n) => Len(sockets) < MaxSockets /\ objects < MaxSockets
      BY <1>1, <1>2, FdsAssumption, EachSocket DEF Room, TypeOK
    <2> QED
      BY <1>1, <1>2, <1>3, <1>6, <2>1 DEF CallInv, Passed, MakesSocket, unchangedSockets, unchangedKernel
  <1>10. TrackedInv' /\ KernelInv' /\ AcceptInv'
    BY <1>1, <1>2, <1>3, <1>6, Between DEF Creating, Closing, Accepting, Passed
  <1> QED
    BY <1>7, <1>8, <1>9, <1>10 DEF IInv

LEMMA CloseAllInv ==
  ASSUME IInv, close_all_sockets
  PROVE  IInv'
  <1>1. /\ TypeOK /\ OutcomeInv /\ TrackedInv /\ KernelInv
        /\ test = "running" /\ broken = {} /\ mem = {} /\ call = Idle
        /\ ~Creating /\ ~Closing
    BY DEF IInv, close_all_sockets, InCall, OutcomeInv, Creating, Closing
  <1>2. /\ UNCHANGED <<objects, sockets, listening, pending, meaning, doubtful, call, mem, wire>>
        /\ test' \in {"passed", "failed"}
    BY DEF close_all_sockets
  <1>3. \A i \in ToClose : Open(i) /\ (Sure(i) => kernel[sockets[i].live] # 0)
    BY <1>1, EachSocket, FdsAssumption DEF ToClose, TrackedInv, Open, Sure
  <1>4. ASSUME NEW i \in ToClose, NEW j \in ToClose, i # j, sockets[i].live = sockets[j].live
        PROVE  ~Sure(i) \/ ~Sure(j)
    BY <1>1, <1>4 DEF TrackedInv, ToClose
  <1>5. broken' \subseteq (IF PeeledOff THEN {"double_free"} ELSE {})
                       \cup (IF \E i \in ToClose : sockets[i].script \in doubtful THEN {"bad_close"} ELSE {})
    <2>1. /\ (\E i \in ToClose : kernel[sockets[i].live] = 0) => \E i \in ToClose : sockets[i].script \in doubtful
          /\ (\E i, j \in ToClose : i # j /\ sockets[i].live = sockets[j].live) =>
                \E i \in ToClose : sockets[i].script \in doubtful
      BY <1>3, <1>4 DEF Sure
    <2>2. broken' = (IF PeeledOff THEN {"double_free"} ELSE {})
                    \cup (IF \/ \E i \in ToClose : kernel[sockets[i].live] = 0
                             \/ \E i, j \in ToClose : i # j /\ sockets[i].live = sockets[j].live
                          THEN {"bad_close"} ELSE {})
      BY <1>1 DEF close_all_sockets, PeeledOff
    <2> QED
      BY <2>1, <2>2
  <1>6. NothingBroken'
    BY <1>2, <1>5 DEF NothingBroken, PeeledOff, ToClose
  <1>7. kernel' = [l \in LiveFds |-> IF \E i \in ToClose : sockets[i].live = l THEN 0 ELSE kernel[l]]
    BY DEF close_all_sockets
  <1>8. \A l \in LiveFds : kernel[l] # 0 => \E i \in ToClose : sockets[i].live = l
    <2> SUFFICES ASSUME NEW l \in LiveFds, kernel[l] # 0 PROVE \E i \in ToClose : sockets[i].live = l
      OBVIOUS
    <2>1. PICK i \in DOMAIN sockets : Open(i) /\ sockets[i].live = l
      BY <1>1 DEF KernelInv
    <2> QED
      BY <2>1, FdsAssumption DEF ToClose, Open
  <1>9. \A l \in LiveFds : kernel'[l] = 0
    BY <1>7, <1>8
  <1>10. kernel' \in [LiveFds -> 0 .. MaxSockets]
    BY <1>7, <1>9, FdsAssumption
  <1>11. TypeOK'
    BY <1>1, <1>2, <1>10 DEF TypeOK, InCall
  <1>12. OutcomeInv'
    BY <1>1, <1>2, <1>6, <1>9 DEF OutcomeInv, AllClosed, FailMeansMismatch
  <1> QED
    BY <1>2, <1>11, <1>12 DEF IInv, InCall

LEMMA StutterInv ==
  ASSUME IInv, UNCHANGED vars
  PROVE  IInv'
  <1>1. unchangedSockets /\ call' = call /\ mem' = mem /\ broken' = broken /\ test' = test
    BY DEF vars, unchangedSockets, unchangedKernel
  <1>2. /\ InCall' <=> InCall
        /\ Steps' = Steps
        /\ Pending' <=> Pending
        /\ \A o : Before(call'.name, call'.pc, o) <=> Before(call.name, call.pc, o)
    BY <1>1 DEF InCall, Steps, Handler, Pending
  <1>3. TypeOK'
    BY <1>1, <1>2, SameTypes DEF IInv, TypeOK, StateTypes
  <1>4. OutcomeInv'
    BY <1>1 DEF IInv, OutcomeInv, AllClosed, FailMeansMismatch, NothingBroken, PeeledOff, Waiting,
                ToClose, unchangedSockets, unchangedKernel
  <1>5. InCall => CallInv'
    BY <1>1, <1>2 DEF IInv, CallInv, Passed, MakesSocket, unchangedSockets, unchangedKernel
  <1>6. ASSUME test = "running" PROVE TrackedInv' /\ KernelInv' /\ AcceptInv'
    <2>1. TrackedInv /\ KernelInv /\ AcceptInv
      BY <1>6 DEF IInv
    <2>2. /\ Creating' <=> Creating
          /\ Closing' <=> Closing
          /\ Accepting' <=> Accepting
      BY <1>1, <1>2 DEF Creating, Closing, Accepting
    <2>3. TrackedInv'
      BY <1>1, <1>2, <2>1, <2>2
         DEF TrackedInv, Open, Sure, Found, unchangedSockets, unchangedKernel, Passed
    <2>4. KernelInv'
      BY <1>1, <2>1, <2>2 DEF KernelInv, Open, unchangedSockets, unchangedKernel
    <2>5. AcceptInv'
      BY <1>1, <2>1, <2>2 DEF AcceptInv, Acked, PeeledOff, unchangedSockets, unchangedKernel
    <2> QED
      BY <2>3, <2>4, <2>5
  <1> QED
    BY <1>1, <1>2, <1>3, <1>4, <1>5, <1>6 DEF IInv

LEMMA InitInv ==
  ASSUME Init
  PROVE  IInv
  <1>1. DOMAIN sockets = {} /\ Len(sockets) = 0 /\ sockets \in Seq(Sockets)
    BY DEF Init
  <1>2. IsFiniteSet(pending) /\ Cardinality(pending) = 0
    BY FS_EmptySet DEF Init
  <1>3. ~InCall /\ call = Idle /\ ~Creating /\ ~Closing /\ ~Accepting
    BY DEF Init, InCall, Creating, Closing, Accepting
  <1>4. TypeOK
    BY <1>1, <1>2, <1>3, FdsAssumption DEF Init, TypeOK
  <1>5. OutcomeInv
    BY DEF Init, OutcomeInv, AllClosed, FailMeansMismatch, NothingBroken
  <1>6. TrackedInv /\ KernelInv /\ AcceptInv
    BY <1>1, <1>3, FdsAssumption DEF Init, TrackedInv, KernelInv, AcceptInv
  <1> QED
    BY <1>3, <1>4, <1>5, <1>6 DEF IInv

\* A new socket comes first.
LEMMA Prepend ==
  ASSUME NEW S, NEW s \in S, NEW q \in Seq(S)
  PROVE  LET p == <<s>> \o q IN
         /\ p \in Seq(S) /\ Len(p) = Len(q) + 1 /\ DOMAIN p = 1 .. (Len(q) + 1)
         /\ 1 \in DOMAIN p /\ p[1] = s
         /\ \A i \in DOMAIN q : i + 1 \in DOMAIN p /\ p[i + 1] = q[i]
         /\ \A i \in DOMAIN p : i = 1 \/ (i - 1 \in DOMAIN q /\ p[i] = q[i - 1])
  OBVIOUS

Pushed(s) ==
  /\ sockets' \in Seq(Sockets) /\ Len(sockets') = Len(sockets) + 1
  /\ 1 \in DOMAIN sockets' /\ sockets'[1] = s
  /\ \A i \in DOMAIN sockets : i \in Nat /\ i >= 1 /\ i + 1 \in DOMAIN sockets'
                               /\ sockets'[i + 1] = sockets[i]
  /\ \A i \in DOMAIN sockets' :
       i = 1 \/ (i \in Nat /\ i > 1 /\ i - 1 \in DOMAIN sockets /\ sockets'[i] = sockets[i - 1])

LEMMA InsertFacts ==
  ASSUME TypeOK, NEW s \in Sockets, Insert(s)
  PROVE  Pushed(s) /\ (~PeeledOff' => ~PeeledOff)
  <1>1. sockets \in Seq(Sockets) /\ Len(sockets) \in Nat /\ DOMAIN sockets = 1 .. Len(sockets)
    BY EachSocket
  <1>2. PICK p : p = <<s>> \o sockets
    OBVIOUS
  <1>3. /\ p \in Seq(Sockets) /\ Len(p) = Len(sockets) + 1 /\ DOMAIN p = 1 .. (Len(sockets) + 1)
        /\ 1 \in DOMAIN p /\ p[1] = s
        /\ \A i \in DOMAIN sockets : i + 1 \in DOMAIN p /\ p[i + 1] = sockets[i]
        /\ \A i \in DOMAIN p : i = 1 \/ (i - 1 \in DOMAIN sockets /\ p[i] = sockets[i - 1])
    BY <1>1, <1>2, Prepend
  <1>4. sockets' = p
    BY <1>2 DEF Insert
  <1>5. Pushed(s)
    BY <1>1, <1>3, <1>4 DEF Pushed
  <1>6. PeeledOff => PeeledOff'
    <2> SUFFICES ASSUME NEW i \in DOMAIN sockets, NEW j \in DOMAIN sockets, i # j,
                        sockets[i].map = sockets[j].map
                 PROVE  PeeledOff'
      BY DEF PeeledOff
    <2>1. /\ i + 1 \in DOMAIN sockets' /\ j + 1 \in DOMAIN sockets' /\ i + 1 # j + 1
          /\ sockets'[i + 1].map = sockets'[j + 1].map
      BY <1>5 DEF Pushed
    <2> QED
      BY <2>1 DEF PeeledOff
  <1> QED
    BY <1>5, <1>6

LEMMA StillOpen ==
  ASSUME NEW s, Pushed(s), NEW i \in DOMAIN sockets, Open(i)
  PROVE  i + 1 \in DOMAIN sockets' /\ Open(i + 1)' /\ sockets'[i + 1] = sockets[i]
  BY DEF Pushed, Open

\* A connection that waits, or a copy of a struct without a descriptor, is not in the way.
LEMMA UntrackedPushed ==
  ASSUME TypeOK, TrackedInv, NEW s \in Sockets, Pushed(s), s.script = -1, s.live = -1, ~s.closed,
         kernel' = kernel, meaning' = meaning, doubtful' = doubtful,
         Closing' <=> Closing, Closing => call'.fd = call.fd,
         (InCall /\ Passed({"fd"}) /\ Pending)' => /\ InCall /\ Passed({"fd"}) /\ Pending
                                                   /\ call'.fd = call.fd /\ call'.live = call.live
  PROVE  TrackedInv'
  <1>1. \A i \in DOMAIN sockets' : Open(i)' => /\ i # 1 /\ i - 1 \in DOMAIN sockets /\ Open(i - 1)
                                               /\ sockets'[i] = sockets[i - 1] /\ i \in Nat
    BY DEF Pushed, Open
  <1>2. \A i \in DOMAIN sockets : Open(i) => i + 1 \in DOMAIN sockets' /\ Open(i + 1)'
                                             /\ sockets'[i + 1] = sockets[i] /\ i \in Nat
    BY DEF Pushed, Open
  <1>3. \A i \in DOMAIN sockets' : /\ sockets'[i].script = -1 <=> sockets'[i].live = -1
                                   /\ sockets'[i].script = -1 => ~sockets'[i].closed
    <2> SUFFICES ASSUME NEW i \in DOMAIN sockets'
                 PROVE  /\ sockets'[i].script = -1 <=> sockets'[i].live = -1
                        /\ sockets'[i].script = -1 => ~sockets'[i].closed
      OBVIOUS
    <2>1. i = 1 \/ (i - 1 \in DOMAIN sockets /\ sockets'[i] = sockets[i - 1])
      BY DEF Pushed
    <2>2. CASE i = 1
      BY <2>2 DEF Pushed
    <2>3. CASE i - 1 \in DOMAIN sockets /\ sockets'[i] = sockets[i - 1]
      BY <2>3 DEF TrackedInv
    <2> QED
      BY <2>1, <2>2, <2>3
  <1>4. \A i \in DOMAIN sockets' : Sure(i)' => Sure(i - 1)
    BY <1>1 DEF Sure
  <1>5. \A i \in DOMAIN sockets : Sure(i) => Sure(i + 1)'
    BY <1>2 DEF Sure
  <1>6. ASSUME NEW i \in DOMAIN sockets', NEW j \in DOMAIN sockets', Sure(i)', Sure(j)',
               sockets'[i].script = sockets'[j].script \/ sockets'[i].live = sockets'[j].live
        PROVE  i = j
    <2>1. Open(i)' /\ Open(j)'
      BY <1>6 DEF Sure
    <2>2. i - 1 = j - 1
      BY <1>1, <1>4, <1>6, <2>1 DEF TrackedInv
    <2> QED
      BY <1>1, <2>1, <2>2
  <1>7. ASSUME NEW i \in DOMAIN sockets', Sure(i)'
        PROVE  /\ meaning'[sockets'[i].script] # 0
               /\ kernel'[sockets'[i].live] =
                    IF Closing' /\ sockets'[i].script = call'.fd THEN 0
                    ELSE meaning'[sockets'[i].script]
    <2>1. Open(i)'
      BY <1>7 DEF Sure
    <2> QED
      BY <1>1, <1>4, <1>7, <2>1 DEF TrackedInv
  <1>8. ASSUME NEW f \in ScriptFds \ doubtful', meaning'[f] # 0
        PROVE  \E i \in DOMAIN sockets' : Sure(i)' /\ sockets'[i].script = f
    <2>1. PICK i \in DOMAIN sockets : Sure(i) /\ sockets[i].script = f
      BY <1>8 DEF TrackedInv
    <2>2. Open(i)
      BY <2>1 DEF Sure
    <2> QED
      BY <1>2, <1>5, <2>1, <2>2
  <1>9. ASSUME (InCall /\ Passed({"fd"}) /\ Pending)'
        PROVE  \E i \in DOMAIN sockets' : Found(i)'
    <2>1. PICK i \in DOMAIN sockets : Found(i)
      BY <1>9 DEF TrackedInv
    <2>2. Open(i)
      BY <2>1 DEF Found
    <2>3. /\ i + 1 \in DOMAIN sockets' /\ Open(i + 1)' /\ i \in Nat
          /\ sockets'[i + 1].script = call'.fd /\ sockets'[i + 1].live = call'.live
      BY <1>2, <1>9, <2>1, <2>2 DEF Found
    <2>4. ASSUME NEW j \in DOMAIN sockets', Open(j)', sockets'[j].script = call'.fd
          PROVE  i + 1 <= j
      <3>1. j - 1 \in DOMAIN sockets /\ Open(j - 1) /\ sockets[j - 1].script = call.fd /\ j \in Nat
        BY <1>1, <1>9, <2>4
      <3>2. i <= j - 1
        BY <2>1, <3>1 DEF Found
      <3> QED
        BY <2>3, <3>1, <3>2
    <2>5. Found(i + 1)'
      BY <2>3, <2>4 DEF Found
    <2> QED
      BY <2>3, <2>5
  <1> QED
    BY <1>3, <1>6, <1>7, <1>8, <1>9 DEF TrackedInv

LEMMA ChildInv ==
  ASSUME IInv, Child
  PROVE  IInv'
  <1>1. /\ TypeOK /\ OutcomeInv /\ TrackedInv /\ KernelInv /\ AcceptInv /\ test = "running"
        /\ broken = {} /\ (InCall => CallInv)
    BY DEF IInv, Child, OutcomeInv
  <1>2. /\ UNCHANGED <<kernel, listening, meaning, doubtful, call, mem, broken, wire, test>>
        /\ objects' = Fresh
        /\ Room(IF MakesSocket(call.name) THEN 2 ELSE 1) /\ Cardinality(pending) < MaxPending
    BY DEF Child
  <1>3. /\ InCall' <=> InCall
        /\ Steps' = Steps
        /\ Pending' <=> Pending
        /\ \A o : Before(call'.name, call'.pc, o) <=> Before(call.name, call.pc, o)
        /\ Creating' <=> Creating
        /\ Closing' <=> Closing
        /\ Accepting' <=> Accepting
        /\ MakesSocket(call.name)' <=> MakesSocket(call.name)
    BY <1>2 DEF InCall, Steps, Handler, Pending, Creating, Closing, Accepting, MakesSocket
  <1>4. PICK o \in listening : pending' = pending \cup {[on |-> o, object |-> Fresh]}
    BY DEF Child
  <1>5. PICK c : c = [on |-> o, object |-> Fresh]
    OBVIOUS
  <1>6. objects \in Nat /\ Len(sockets) \in Nat /\ Fresh = objects + 1
        /\ Fresh \in 1 .. MaxSockets /\ Len(sockets) + 1 <= MaxSockets
        /\ (MakesSocket(call.name) => Len(sockets) + 1 < MaxSockets /\ Fresh < MaxSockets)
    BY <1>1, <1>2, EachSocket, FdsAssumption DEF Room, TypeOK, Fresh
  <1>7. c \in [on : Nat, object : 1 .. MaxSockets] /\ c.object = Fresh /\ pending' = pending \cup {c}
    <2>1. o \in Nat
      BY <1>1 DEF TypeOK
    <2> QED
      BY <1>4, <1>5, <1>6, <2>1
  <1>8. /\ pending' \in SUBSET [on : Nat, object : 1 .. MaxSockets]
        /\ IsFiniteSet(pending') /\ Cardinality(pending') <= MaxPending
    <2>1. IsFiniteSet(pending) /\ pending \in SUBSET [on : Nat, object : 1 .. MaxSockets]
      BY <1>1 DEF TypeOK
    <2>2. Cardinality(pending) \in Nat
      BY <2>1, FS_CardinalityType
    <2>3. /\ IsFiniteSet(pending \cup {c})
          /\ Cardinality(pending \cup {c}) = Cardinality(pending)
             \/ Cardinality(pending \cup {c}) = Cardinality(pending) + 1
      BY <2>1, FS_AddElement
    <2> QED
      BY <1>2, <1>7, <2>1, <2>2, <2>3, FdsAssumption
  <1> DEFINE s == Socket(-1, -1, "acked", Fresh, NewMap)
  <1>9. /\ s \in Sockets /\ s.script = -1 /\ s.live = -1 /\ ~s.closed /\ s.state = "acked"
        /\ s.remote = Fresh
    BY <1>6 DEF Socket, Sockets, NewMap
  <1>10. ~wire => Insert(s)
    BY DEF Child
  <1> HIDE DEF s
  <1>11. ~wire => Pushed(s) /\ (~PeeledOff' => ~PeeledOff)
    BY <1>1, <1>9, <1>10, InsertFacts
  <1>12. wire => sockets' = sockets
    BY DEF Child
  <1>13. sockets' \in Seq(Sockets) /\ Len(sockets') \in Nat /\ Len(sockets') <= Len(sockets) + 1
    BY <1>1, <1>6, <1>11, <1>12, EachSocket DEF Pushed, TypeOK
  <1>14. TypeOK'
    <2>1. objects' \in 0 .. MaxSockets /\ Len(sockets') <= MaxSockets
      BY <1>2, <1>6, <1>13, FdsAssumption
    <2> QED
      BY <1>1, <1>2, <1>3, <1>8, <1>13, <2>1 DEF TypeOK
  <1>15. OutcomeInv'
    BY <1>1, <1>2 DEF OutcomeInv, AllClosed, FailMeansMismatch, NothingBroken
  <1>16. InCall' => CallInv'
    BY <1>1, <1>2, <1>3, <1>6, <1>13, FdsAssumption DEF CallInv, Passed
  <1>17. TrackedInv'
    <2>1. CASE wire
      BY <1>1, <1>2, <1>3, <1>12, <2>1 DEF TrackedInv, Open, Sure, Found, Passed
    <2>2. CASE ~wire
      BY <1>1, <1>2, <1>3, <1>9, <1>11, <2>2, UntrackedPushed DEF Passed
    <2> QED
      BY <2>1, <2>2
  <1>18. KernelInv'
    <2>1. \A l \in LiveFds : kernel[l] \in Nat /\ kernel[l] <= objects /\ kernel[l] # Fresh
      BY <1>1, <1>6 DEF KernelInv, TypeOK
    <2>2. \A d \in pending : d.object \in Nat /\ d.object <= objects
      BY <1>1 DEF KernelInv, TypeOK
    <2>3. \A l \in LiveFds : kernel[l] <= Fresh
      BY <1>6, <2>1
    <2>4. \A d \in pending' : d.object <= Fresh /\ \A l \in LiveFds : kernel[l] # d.object
      BY <1>1, <1>6, <1>7, <2>1, <2>2 DEF KernelInv
    <2>5. \A d, e \in pending' : d.object = e.object => d = e
      BY <1>1, <1>6, <1>7, <2>2 DEF KernelInv
    <2>6. \A l \in LiveFds : kernel[l] # 0 =>
            \/ Creating /\ l = call.new
            \/ \E j \in DOMAIN sockets' : Open(j)' /\ sockets'[j].live = l
      <3>1. CASE wire
        BY <1>1, <1>12, <3>1 DEF KernelInv, Open
      <3>2. CASE ~wire
        BY <1>1, <1>11, <3>2, StillOpen DEF KernelInv
      <3> QED
        BY <3>1, <3>2
    <2> QED
      BY <1>1, <1>2, <1>3, <2>3, <2>4, <2>5, <2>6 DEF KernelInv
  <1>19. AcceptInv'
    <2>1. \A j \in DOMAIN sockets : sockets[j].remote \in Nat /\ sockets[j].remote <= objects
      BY <1>1, EachSocket DEF AcceptInv
    <2>2. Accepting => call.object < Fresh
      <3>1. Accepting => call.new \in LiveFds /\ kernel[call.new] = call.object
        BY <1>1 DEF Accepting, Creating, InCall, KernelInv, TypeOK, Calls
      <3> QED
        BY <1>1, <1>6, <3>1 DEF KernelInv, TypeOK
    <2>3. Accepting' => \A d \in pending' : call'.object < d.object
      BY <1>1, <1>2, <1>3, <1>7, <2>2 DEF AcceptInv
    <2>4. CASE wire
      BY <1>1, <1>2, <1>6, <1>12, <2>1, <2>3, <2>4 DEF AcceptInv, Acked, PeeledOff
    <2>5. CASE ~wire
      <3>1. ASSUME NEW j \in DOMAIN sockets'
            PROVE  sockets'[j].remote <= objects'
        <4>1. objects' = objects + 1
          BY <1>2, <1>6
        <4>2. j = 1 => sockets'[j].remote = objects + 1
          BY <1>6, <1>9, <1>11, <2>5 DEF Pushed
        <4>3. j # 1 => j - 1 \in DOMAIN sockets /\ sockets'[j] = sockets[j - 1]
          BY <1>11, <2>5 DEF Pushed
        <4>4. j # 1 => sockets'[j].remote \in Nat /\ sockets'[j].remote <= objects
          BY <2>1, <4>3
        <4> QED
          BY <1>6, <4>1, <4>2, <4>4
      <3>2. ASSUME NEW j \in DOMAIN sockets', Acked(j)', sockets'[j].script # -1
            PROVE  /\ \A d \in pending' : sockets'[j].remote < d.object
                   /\ Accepting' => sockets'[j].remote < call'.object
        <4>1. j - 1 \in DOMAIN sockets /\ sockets'[j] = sockets[j - 1]
          BY <1>9, <1>11, <2>5, <3>2 DEF Pushed
        <4>2. Acked(j - 1)
          BY <3>2, <4>1 DEF Acked
        <4> QED
          BY <1>1, <1>2, <1>3, <1>6, <1>7, <2>1, <3>2, <4>1, <4>2 DEF AcceptInv
      <3>3. \A j \in DOMAIN sockets : Acked(j) => /\ j + 1 \in DOMAIN sockets' /\ Acked(j + 1)'
                                                  /\ sockets'[j + 1] = sockets[j]
        BY <1>11, <2>5 DEF Pushed, Acked
      <3>4. 1 \in DOMAIN sockets' /\ Acked(1)' /\ sockets'[1].remote = Fresh
        BY <1>9, <1>11, <2>5 DEF Pushed, Acked
      <3>5. /\ \A d \in pending' : \E j \in DOMAIN sockets' : Acked(j)' /\ sockets'[j].remote = d.object
            /\ Accepting' => \E j \in DOMAIN sockets' : Acked(j)' /\ sockets'[j].remote = call'.object
        <4>1. ASSUME NEW d \in pending'
              PROVE  \E j \in DOMAIN sockets' : Acked(j)' /\ sockets'[j].remote = d.object
          <5>1. CASE d = c
            BY <1>7, <3>4, <5>1
          <5>2. CASE d \in pending
            BY <1>1, <2>5, <3>3, <5>2 DEF AcceptInv
          <5> QED
            BY <1>7, <5>1, <5>2
        <4>2. ASSUME Accepting'
              PROVE  \E j \in DOMAIN sockets' : Acked(j)' /\ sockets'[j].remote = call'.object
          BY <1>1, <1>2, <1>3, <2>5, <3>3, <4>2 DEF AcceptInv
        <4> QED
          BY <4>1, <4>2
      <3>6. ASSUME ~PeeledOff', NEW j \in DOMAIN sockets', NEW k \in DOMAIN sockets',
                   Acked(j)', Acked(k)', j < k
            PROVE  sockets'[j].remote > sockets'[k].remote
        <4>1. k - 1 \in DOMAIN sockets /\ sockets'[k] = sockets[k - 1] /\ Acked(k - 1) /\ k \in Nat
              /\ (j = 1 \/ (j \in Nat /\ j - 1 \in DOMAIN sockets /\ sockets'[j] = sockets[j - 1]))
          BY <1>11, <2>5, <3>6 DEF Pushed, Acked
        <4>2. CASE j = 1
          BY <1>6, <2>1, <3>4, <4>1, <4>2
        <4>3. CASE j # 1
          <5>1. j - 1 \in DOMAIN sockets /\ Acked(j - 1) /\ j - 1 < k - 1
            BY <3>6, <4>1, <4>3 DEF Acked
          <5>2. ~PeeledOff
            BY <1>11, <2>5, <3>6
          <5> QED
            BY <1>1, <4>1, <4>3, <5>1, <5>2 DEF AcceptInv
        <4> QED
          BY <4>2, <4>3
      <3> QED
        BY <1>2, <2>3, <2>5, <3>1, <3>2, <3>5, <3>6 DEF AcceptInv
    <2> QED
      BY <2>4, <2>5
  <1> QED
    BY <1>14, <1>15, <1>16, <1>17, <1>18, <1>19 DEF IInv

(***************************************************************************)
(* The system call.                                                        *)
(***************************************************************************)
LEMMA OldestFirst ==
  ASSUME TypeOK, pending # {}
  PROVE  Oldest \in pending /\ \A d \in pending : Oldest.object <= d.object
  <1> DEFINE S == {c.object : c \in pending}
  <1>1. \A c \in pending : c.object \in Nat
    BY DEF TypeOK
  <1>2. S \in SUBSET Nat /\ S # {}
    BY <1>1
  <1>3. Min(S) \in S /\ \A x \in S : Min(S) <= x
    BY <1>2, MinNat
  <1>4. PICK c \in pending : \A d \in pending : c.object <= d.object
    BY <1>3
  <1> QED
    BY <1>4 DEF Oldest

\* The call has been made.
Called ==
  /\ Forward
  /\ call'.fd = call.fd /\ call'.live = call.live /\ call'.expect = call.expect
  /\ call'.outs = call.outs /\ call'.bracket = call.bracket
  /\ call'.result \in {"value", "fail"}
  /\ call'.new # -1 <=> call.name \in Creators /\ call'.result = "value"
  /\ mem' \subseteq mem \cup {"live_addrs"}

LEMMA CalledInv ==
  ASSUME IInv, At({"kernel"}), Called, UNCHANGED <<sockets, meaning, broken, wire>>
  PROVE  /\ CallInv' /\ broken' = {} /\ InCall'
         /\ ~Creating /\ ~Closing /\ ~Accepting
         /\ call.name \in Creators \cup {"close"} => Pending'
         /\ (InCall /\ Passed({"fd"}) /\ Pending)' => InCall /\ Passed({"fd"}) /\ Pending
  <1>1. /\ call \in Calls /\ CallInv /\ Step = "kernel" /\ broken = {}
        /\ test = "running" /\ InCall /\ Pending
    BY AtFacts, Running
  <1>2. Passed({"begin"}) /\ ~Passed({"kernel"}) /\ ~Passed(Ends) /\ ~Passed(Checks)
    BY <1>1, AtFacts DEF StepFacts, Step, Passed
  <1>3. InCall' /\ \A o : Before(call'.name, call'.pc, o) <=> Before(call.name, call.pc, o) \/ Step \in o
    BY ForwardFacts DEF Called
  <1>4. /\ Passed({"begin"})' /\ Passed({"kernel"})' /\ ~Passed(Ends)' /\ ~Passed(Checks)'
        /\ Passed({"fd"})' <=> Passed({"fd"})
    BY <1>1, <1>2, <1>3 DEF Passed, Ends, Checks
  <1>5. call.result = "none" /\ call.new = -1 /\ call.outs = "none"
    BY <1>1, <1>2 DEF CallInv
  <1>6. call.name \in Creators \cup {"close"} => Pending'
    BY <1>1, StillPending DEF Called, Tracks
  <1>7. MemInv'
    <2>1. \A m : HeldAt(call.name, call.pc, m) => HeldAt(call'.name, call'.pc, m)
      BY <1>1, ForwardFacts DEF Called, Frees
    <2> QED
      BY <1>1, <2>1 DEF CallInv, MemInv, Called
  <1>8. CallInv'
    BY <1>1, <1>2, <1>4, <1>5, <1>6, <1>7 DEF CallInv, MemInv, MakesSocket, Forward, Called
  <1> QED
    BY <1>1, <1>3, <1>4, <1>5, <1>6, <1>8 DEF Creating, Closing, Accepting

\* A call that makes no descriptor and closes none, or fails.
LEMMA PlainCallInv ==
  ASSUME IInv, At({"kernel"}), Called, UNCHANGED <<objects, kernel, pending, wire>>,
         UNCHANGED <<sockets, meaning, doubtful, broken>>, listening' \subseteq 0 .. MaxSockets,
         call.name # "close", call'.new = -1
  PROVE  IInv'
  <1>1. /\ CallInv' /\ broken' = {} /\ ~Creating /\ ~Closing /\ ~Accepting
        /\ (InCall /\ Passed({"fd"}) /\ Pending)' => InCall /\ Passed({"fd"}) /\ Pending
    BY CalledInv
  <1>2. ~Creating' /\ ~Closing' /\ ~Accepting' /\ call'.fd = call.fd /\ call'.live = call.live
    BY DEF Creating, Closing, Accepting, Called, Forward
  <1>3. TypeOK /\ TrackedInv /\ KernelInv /\ AcceptInv
    BY AtFacts
  <1>4. TrackedInv'
    BY <1>1, <1>2, <1>3 DEF TrackedInv, Open, Sure, Found
  <1>5. KernelInv'
    BY <1>1, <1>2, <1>3 DEF KernelInv, Open
  <1>6. AcceptInv'
    BY <1>1, <1>2, <1>3 DEF AcceptInv, Acked, PeeledOff
  <1>7. StateTypes'
    BY <1>3 DEF TypeOK, StateTypes
  <1> QED
    BY <1>1, <1>4, <1>5, <1>6, <1>7, ForwardInv DEF Called

\* close() gives the descriptor back, also when it fails or the script has another name for it.
LEMMA CloseCallInv ==
  ASSUME IInv, At({"kernel"}), Called, UNCHANGED <<objects, sockets, meaning, broken, wire>>,
         call.name = "close", kernel' = [kernel EXCEPT ![call.live] = 0],
         listening' \subseteq listening, pending' \subseteq pending, doubtful \subseteq doubtful',
         doubtful' \subseteq doubtful \cup {sockets[i].script : i \in ByLive(call.live)} \cup {call.fd},
         \A i \in ByLive(call.live) : sockets[i].script # call.fd => sockets[i].script \in doubtful',
         call'.result = "fail" => call.fd \in doubtful'
  PROVE  IInv'
  <1>1. /\ CallInv' /\ broken' = {} /\ InCall' /\ ~Creating /\ ~Closing /\ ~Accepting /\ Pending'
        /\ (InCall /\ Passed({"fd"}) /\ Pending)' => InCall /\ Passed({"fd"}) /\ Pending
    BY CalledInv
  <1>2. /\ TypeOK /\ TrackedInv /\ KernelInv /\ AcceptInv /\ InCall /\ Pending
        /\ Passed({"fd"}) /\ CallInv /\ call \in Calls
    BY AtFacts DEF StepFacts, Step, Passed
  <1>3. Closing' /\ ~Creating' /\ ~Accepting' /\ call'.fd = call.fd /\ call'.live = call.live
    BY <1>1 DEF Closing, Creating, Accepting, Called, Forward, Creators
  <1>4. PICK k \in DOMAIN sockets : Found(k)
    BY <1>2 DEF TrackedInv
  <1>5. /\ call.live \in LiveFds /\ call.fd \in ScriptFds /\ kernel \in [LiveFds -> 0 .. MaxSockets]
        /\ Open(k) /\ sockets[k].script = call.fd /\ sockets[k].live = call.live
    BY <1>2, <1>4 DEF CallInv, TypeOK, Calls, Found
  <1>6. \A l \in LiveFds : kernel'[l] = IF l = call.live THEN 0 ELSE kernel[l]
    BY <1>5
  <1>7. \A i : /\ Open(i)' <=> Open(i)
               /\ Sure(i)' => Sure(i)
               /\ Found(i)' <=> Found(i)
    BY <1>3 DEF Open, Sure, Found
  <1>8. ASSUME NEW i \in DOMAIN sockets, Sure(i)'
        PROVE  /\ sockets[i].live \in LiveFds
               /\ sockets[i].script = call.fd <=> sockets[i].live = call.live
    <2>1. Sure(i) /\ Open(i) /\ sockets[i].script \notin doubtful'
      BY <1>7, <1>8 DEF Sure
    <2>2. sockets[i].live \in LiveFds
      BY <1>2, <2>1, EachSocket DEF TrackedInv, Open
    <2>3. ASSUME sockets[i].live = call.live PROVE sockets[i].script = call.fd
      BY <2>1, <2>3 DEF ByLive, Open
    <2>4. ASSUME sockets[i].script = call.fd PROVE sockets[i].live = call.live
      <3>1. Sure(k)
        BY <1>5, <2>1, <2>4 DEF Sure
      <3>2. i = k
        BY <1>2, <1>5, <2>1, <2>4, <3>1 DEF TrackedInv
      <3> QED
        BY <1>5, <3>2
    <2> QED
      BY <2>2, <2>3, <2>4
  <1>9. TrackedInv'
    <2>1. ASSUME NEW i \in DOMAIN sockets, Sure(i)'
          PROVE  /\ meaning[sockets[i].script] # 0
                 /\ kernel'[sockets[i].live] =
                      IF sockets[i].script = call.fd THEN 0 ELSE meaning[sockets[i].script]
      BY <1>1, <1>2, <1>6, <1>7, <1>8, <2>1 DEF TrackedInv
    <2>2. ASSUME NEW f \in ScriptFds \ doubtful', meaning[f] # 0
          PROVE  \E i \in DOMAIN sockets : Sure(i)' /\ sockets[i].script = f
      <3>1. PICK i \in DOMAIN sockets : Sure(i) /\ sockets[i].script = f
        BY <1>2, <2>2 DEF TrackedInv
      <3> QED
        BY <2>2, <3>1 DEF Sure, Open
    <2>3. \A i, j \in DOMAIN sockets :
            /\ Sure(i)' /\ Sure(j)'
            /\ sockets[i].script = sockets[j].script \/ sockets[i].live = sockets[j].live
            => i = j
      BY <1>2, <1>7 DEF TrackedInv
    <2>4. Found(k)'
      BY <1>4, <1>7
    <2> QED
      BY <1>2, <1>3, <2>1, <2>2, <2>3, <2>4 DEF TrackedInv
  <1>10. KernelInv'
    <2>1. ASSUME NEW l \in LiveFds, kernel'[l] # 0
          PROVE  \E i \in DOMAIN sockets : Open(i)' /\ sockets[i].live = l
      <3>1. kernel[l] # 0
        BY <1>6, <2>1
      <3>2. PICK i \in DOMAIN sockets : Open(i) /\ sockets[i].live = l
        BY <1>1, <1>2, <3>1 DEF KernelInv
      <3> QED
        BY <1>7, <3>2
    <2>2. \A l, m \in LiveFds : kernel'[l] = kernel'[m] /\ kernel'[l] # 0 => l = m
      BY <1>2, <1>6 DEF KernelInv
    <2>3. \A l \in LiveFds : kernel'[l] <= objects
      BY <1>2, <1>6 DEF KernelInv, TypeOK
    <2>4. \A c \in pending' : c.object <= objects /\ \A l \in LiveFds : kernel'[l] # c.object
      BY <1>2, <1>6 DEF KernelInv, TypeOK
    <2>5. \A c, d \in pending' : c.object = d.object => c = d
      BY <1>2 DEF KernelInv
    <2>6. kernel'[call'.live] = 0 /\ (call'.result = "fail" => call'.fd \in doubtful')
      BY <1>3, <1>5, <1>6
    <2> QED
      BY <1>3, <2>1, <2>2, <2>3, <2>4, <2>5, <2>6 DEF KernelInv
  <1>11. AcceptInv'
    BY <1>2, <1>3 DEF AcceptInv, Acked, PeeledOff
  <1>12. StateTypes'
    <2>1. IsFiniteSet(pending)
      BY <1>2 DEF TypeOK
    <2>2. IsFiniteSet(pending') /\ Cardinality(pending') <= Cardinality(pending)
      BY <2>1, FS_Subset
    <2>3. Cardinality(pending') \in Nat /\ Cardinality(pending) \in Nat
      BY <2>1, <2>2, FS_CardinalityType
    <2>4. Cardinality(pending') <= MaxPending
      BY <1>2, <2>2, <2>3, FdsAssumption DEF TypeOK
    <2>5. kernel' \in [LiveFds -> 0 .. MaxSockets]
      BY <1>2, ClosedFd
    <2>6. \A i \in ByLive(call.live) : sockets[i].script \in ScriptFds
      <3>1. call.live # -1
        BY <1>5, FdsAssumption
      <3> QED
        BY <1>2, <3>1, EachSocket DEF ByLive, TrackedInv
    <2>7. doubtful' \subseteq ScriptFds /\ listening' \subseteq 0 .. MaxSockets
      <3>1. /\ doubtful \subseteq ScriptFds /\ listening \subseteq 0 .. MaxSockets
            /\ {sockets[i].script : i \in ByLive(call.live)} \subseteq ScriptFds
        BY <1>2, <2>6 DEF TypeOK
      <3> QED
        BY <1>5, <3>1
    <2> QED
      BY <1>2, <2>1, <2>2, <2>4, <2>5, <2>7 DEF TypeOK, StateTypes
  <1> QED
    BY <1>1, <1>9, <1>10, <1>11, <1>12, ForwardInv DEF Called

LEMMA CreateCallInv ==
  ASSUME IInv, At({"kernel"}), Called, UNCHANGED <<sockets, listening, meaning, doubtful, broken, wire>>,
         call.name \in Creators, NEW l \in LiveFds, kernel[l] = 0, NEW o \in 1 .. MaxSockets,
         call'.new = l, call'.object = o, kernel' = [kernel EXCEPT ![l] = o],
         pending' \subseteq pending, objects' \in 0 .. MaxSockets, objects <= objects', o <= objects',
         \A m \in LiveFds : kernel[m] # o,
         \A c \in pending' : c.object # o,
         call.name = "accept" => /\ \E c \in pending : c.object = o
                                 /\ \A c \in pending' : o < c.object
  PROVE  IInv'
  <1>1. /\ CallInv' /\ broken' = {} /\ InCall' /\ ~Creating /\ ~Closing /\ ~Accepting /\ Pending'
        /\ (InCall /\ Passed({"fd"}) /\ Pending)' => InCall /\ Passed({"fd"}) /\ Pending
    BY CalledInv
  <1>2. TypeOK /\ TrackedInv /\ KernelInv /\ AcceptInv
    BY AtFacts
  <1>3. /\ Creating' /\ ~Closing' /\ (Accepting' <=> call.name = "accept")
        /\ call'.fd = call.fd /\ call'.live = call.live
    BY <1>1, FdsAssumption DEF Closing, Creating, Accepting, Called, Forward, Creators
  <1>4. \A m \in LiveFds : kernel'[m] = IF m = l THEN o ELSE kernel[m]
    BY <1>2 DEF TypeOK
  <1>5. /\ \A m \in LiveFds : kernel[m] \in Nat /\ kernel[m] <= objects
        /\ \A c \in pending : c.object \in Nat /\ c.object <= objects
        /\ objects \in Nat /\ objects' \in Nat /\ o \in Nat /\ o # 0
    BY <1>2 DEF KernelInv, TypeOK
  <1>6. TrackedInv'
    <2>1. \A i \in DOMAIN sockets : Sure(i) => sockets[i].live \in LiveFds /\ kernel[sockets[i].live] # 0
                                               /\ kernel[sockets[i].live] = meaning[sockets[i].script]
                                               /\ meaning[sockets[i].script] # 0
      BY <1>1, <1>2, EachSocket DEF TrackedInv, Open, Sure
    <2>2. \A i \in DOMAIN sockets : Sure(i) => /\ kernel'[sockets[i].live] = meaning[sockets[i].script]
                                               /\ meaning[sockets[i].script] # 0
      BY <1>4, <2>1
    <2> QED
      BY <1>1, <1>2, <1>3, <2>2 DEF TrackedInv, Open, Sure, Found
  <1>7. KernelInv'
    <2>1. ASSUME NEW m \in LiveFds, kernel'[m] # 0, m # l
          PROVE  \E i \in DOMAIN sockets : Open(i) /\ sockets[i].live = m
      BY <1>1, <1>2, <1>4, <2>1 DEF KernelInv
    <2>2. \A m, k \in LiveFds : kernel'[m] = kernel'[k] /\ kernel'[m] # 0 => m = k
      BY <1>2, <1>4 DEF KernelInv
    <2>3. \A f \in ScriptFds \ doubtful : meaning[f] # o
      <3> SUFFICES ASSUME NEW f \in ScriptFds \ doubtful, meaning[f] = o PROVE FALSE
        OBVIOUS
      <3>1. PICK i \in DOMAIN sockets : Sure(i) /\ sockets[i].script = f
        BY <1>2, <1>5 DEF TrackedInv
      <3>2. sockets[i].live \in LiveFds /\ kernel[sockets[i].live] = o
        BY <1>1, <1>2, <3>1, EachSocket DEF TrackedInv, Open, Sure
      <3> QED
        BY <3>2
    <2>4. \A m \in LiveFds : kernel'[m] <= objects'
      BY <1>4, <1>5
    <2>5. \A c \in pending' : c.object <= objects' /\ \A m \in LiveFds : kernel'[m] # c.object
      BY <1>2, <1>4, <1>5 DEF KernelInv
    <2>6. \A c, d \in pending' : c.object = d.object => c = d
      BY <1>2 DEF KernelInv
    <2>7. kernel'[call'.new] = call'.object /\ call'.object # 0
      BY <1>4, <1>5
    <2> QED
      BY <1>3, <2>1, <2>2, <2>3, <2>4, <2>5, <2>6, <2>7 DEF KernelInv, Open
  <1>8. AcceptInv'
    <2>1. \A i \in DOMAIN sockets : sockets[i].remote \in Nat /\ sockets[i].remote <= objects
      BY <1>2, EachSocket DEF AcceptInv
    <2>2. \A i \in DOMAIN sockets : sockets[i].remote <= objects'
      BY <1>5, <2>1
    <2>3. CASE call.name # "accept"
      BY <1>2, <1>3, <2>2, <2>3 DEF AcceptInv, Acked, PeeledOff
    <2>4. CASE call.name = "accept"
      BY <1>2, <1>3, <2>2, <2>4 DEF AcceptInv, Acked, PeeledOff
    <2> QED
      BY <2>3, <2>4
  <1>9. StateTypes'
    <2>1. IsFiniteSet(pending)
      BY <1>2 DEF TypeOK
    <2>2. IsFiniteSet(pending') /\ Cardinality(pending') <= Cardinality(pending)
      BY <2>1, FS_Subset
    <2>3. Cardinality(pending') \in Nat /\ Cardinality(pending) \in Nat
      BY <2>1, <2>2, FS_CardinalityType
    <2>4. Cardinality(pending') <= MaxPending
      BY <1>2, <2>2, <2>3, FdsAssumption DEF TypeOK
    <2>5. kernel' \in [LiveFds -> 0 .. MaxSockets]
      BY <1>2 DEF TypeOK
    <2> QED
      BY <1>2, <2>1, <2>2, <2>4, <2>5 DEF TypeOK, StateTypes
  <1> QED
    BY <1>1, <1>6, <1>7, <1>8, <1>9, ForwardInv DEF Called

LEMMA KernelStepInv ==
  ASSUME IInv, Kernel
  PROVE  IInv'
  <1>1. At({"kernel"}) /\ UNCHANGED <<sockets, meaning, broken, wire, test>>
    BY DEF Kernel
  <1>2. /\ call \in Calls /\ CallInv /\ TypeOK /\ TrackedInv /\ KernelInv /\ AcceptInv
        /\ test = "running" /\ Step = "kernel" /\ Pending
    BY <1>1, AtFacts
  <1>3. call.result = "none" /\ call.new = -1
    BY <1>1, <1>2, AtFacts DEF StepFacts, Step, Passed, CallInv
  <1>4. ASSUME NEW r \in {"value", "fail"}, call' = [call EXCEPT !.pc = @ + 1, !.result = r],
               call.name \in Creators => r = "fail",
               mem' \subseteq mem \cup {"live_addrs"}
        PROVE  Called /\ call'.new = -1
    <2>1. call' \in Calls
      BY <1>2, <1>4, ResultUpdates, NextStep
    <2> QED
      BY <1>1, <1>2, <1>3, <1>4, <2>1 DEF Called, Forward, Calls
  <1>5. CASE PlainCall
    <2>1. PICK r \in {"value", "fail"} :
            /\ call' = [call EXCEPT !.pc = @ + 1, !.result = r]
            /\ mem' \subseteq mem \cup {"live_addrs"}
            /\ listening' = IF call.name = "listen" /\ r = "value"
                            THEN listening \cup {kernel[call.live]} ELSE listening
      BY <1>5 DEF PlainCall
    <2>2. /\ call.name \notin Creators \cup {"close"}
          /\ UNCHANGED <<objects, kernel, pending, doubtful>>
      BY <1>5 DEF PlainCall
    <2>3. Called /\ call'.new = -1
      BY <1>4, <2>1, <2>2
    <2>4. call.name = "listen" => call.live \in LiveFds
      BY <1>1, <1>2, AtFacts DEF StepFacts, Step, Passed, CallInv, Calls
    <2>5. listening' \subseteq 0 .. MaxSockets
      BY <1>2, <2>1, <2>4 DEF TypeOK
    <2> QED
      BY <1>1, <2>2, <2>3, <2>5, PlainCallInv
  <1>6. CASE FailedCall
    <2>1. /\ call.name # "close" /\ call' = [call EXCEPT !.pc = @ + 1, !.result = "fail"]
          /\ UNCHANGED <<objects, kernel, listening, pending, mem, doubtful>>
      BY <1>6 DEF FailedCall, Creators
    <2>2. Called /\ call'.new = -1
      BY <1>4, <2>1
    <2>3. listening' \subseteq 0 .. MaxSockets
      BY <1>2, <2>1 DEF TypeOK
    <2> QED
      BY <1>1, <2>1, <2>2, <2>3, PlainCallInv
  <1>7. CASE CloseCall
    <2>1. PICK r \in {"value", "fail"} :
            /\ call' = [call EXCEPT !.pc = @ + 1, !.result = r]
            /\ doubtful' = doubtful \cup ({sockets[i].script : i \in ByLive(call.live)} \ {call.fd})
                                    \cup (IF r = "fail" THEN {call.fd} ELSE {})
      BY <1>7 DEF CloseCall
    <2>2. /\ call.name = "close" /\ kernel' = [kernel EXCEPT ![call.live] = 0]
          /\ listening' \subseteq listening /\ pending' \subseteq pending
          /\ UNCHANGED <<objects, mem>>
      BY <1>7 DEF CloseCall
    <2>3. Called
      BY <1>4, <2>1, <2>2 DEF Creators
    <2>4. /\ doubtful \subseteq doubtful'
          /\ doubtful' \subseteq doubtful \cup {sockets[i].script : i \in ByLive(call.live)} \cup {call.fd}
          /\ \A i \in ByLive(call.live) : sockets[i].script # call.fd => sockets[i].script \in doubtful'
      BY <2>1
    <2>5. call'.result = "fail" => call.fd \in doubtful'
      BY <1>2, <2>1 DEF TypeOK, Calls
    <2> QED
      BY <1>1, <2>2, <2>3, <2>4, <2>5, CloseCallInv
  <1>8. ASSUME call.name \in Creators, FreeFds # {}, call.name = "accept" => pending # {},
               NEW l, l = Min(FreeFds),
               NEW o, o = IF call.name = "accept" THEN Oldest.object ELSE Fresh,
               kernel' = [kernel EXCEPT ![l] = o],
               call' = [call EXCEPT !.pc = @ + 1, !.result = "value", !.new = l, !.object = o],
               pending' = IF call.name = "accept" THEN pending \ {Oldest} ELSE pending,
               objects' = IF call.name = "accept" THEN objects ELSE Fresh,
               mem' = mem, UNCHANGED <<listening, doubtful>>
        PROVE  IInv'
    <2>1. l \in LiveFds /\ kernel[l] = 0
      <3>1. FreeFds \in SUBSET Nat
        BY FdsAssumption DEF FreeFds
      <3>2. Min(FreeFds) \in FreeFds
        BY <1>8, <3>1, MinNat
      <3> QED
        BY <1>8, <3>2 DEF FreeFds
    <2>2. /\ objects \in 0 .. MaxSockets
          /\ \A m \in LiveFds : kernel[m] \in Nat /\ kernel[m] <= objects
          /\ \A c \in pending : c.object \in 1 .. MaxSockets /\ c.object <= objects
      BY <1>2 DEF TypeOK, KernelInv
    <2>3. /\ o \in 1 .. MaxSockets /\ objects' \in 0 .. MaxSockets /\ objects <= objects' /\ o <= objects'
          /\ pending' \subseteq pending
          /\ \A m \in LiveFds : kernel[m] # o
          /\ \A c \in pending' : c.object # o
          /\ call.name = "accept" => /\ \E c \in pending : c.object = o
                                     /\ \A c \in pending' : o < c.object
      <3>1. CASE call.name = "accept"
        <4>1. Oldest \in pending /\ \A d \in pending : Oldest.object <= d.object
          BY <1>2, <1>8, <3>1, OldestFirst
        <4>2. o = Oldest.object /\ objects' = objects /\ pending' = pending \ {Oldest}
          BY <1>8, <3>1
        <4>3. \A c \in pending' : c.object # o
          BY <1>2, <4>1, <4>2 DEF KernelInv
        <4>4. \A m \in LiveFds : kernel[m] # o
          BY <1>2, <4>1, <4>2 DEF KernelInv
        <4> QED
          BY <2>2, <4>1, <4>2, <4>3, <4>4
      <3>2. CASE call.name # "accept"
        <4>1. objects < MaxSockets
          BY <1>2, <1>3, <1>8, <3>2 DEF CallInv, MakesSocket, Creators
        <4>2. o = objects + 1 /\ objects' = objects + 1 /\ pending' = pending
          BY <1>8, <3>2 DEF Fresh
        <4> QED
          BY <2>2, <3>2, <4>1, <4>2, FdsAssumption
      <3> QED
        BY <3>1, <3>2
    <2>4. PICK k \in LiveFds, p \in 1 .. MaxSockets : k = l /\ p = o
      BY <2>1, <2>3
    <2>5. call' \in Calls
      <3>1. p \in Nat
        BY FdsAssumption
      <3>2. call' = [call EXCEPT !.pc = @ + 1, !.result = "value", !.new = k, !.object = p]
        BY <1>8, <2>4
      <3>3. PICK n \in Nat : n = call.pc + 1
        BY <1>2, NextStep
      <3>4. call' = [call EXCEPT !.pc = n, !.result = "value", !.new = k, !.object = p]
        BY <3>2, <3>3
      <3> QED
        BY <1>2, <3>1, <3>4, CreateUpdates
    <2>6. Called /\ call'.new = l /\ call'.object = o
      <3>1. l # -1
        BY <2>1, FdsAssumption
      <3> QED
        BY <1>1, <1>2, <1>8, <2>5, <3>1 DEF Called, Forward, Calls
    <2> QED
      BY <1>1, <1>8, <2>1, <2>3, <2>4, <2>6, CreateCallInv
  <1> QED
    <2>1. CASE CreateCall
      BY <1>8, <2>1 DEF CreateCall
    <2> QED
      BY <1>5, <1>6, <1>7, <2>1 DEF Kernel

(***************************************************************************)
(* The tracked sockets.                                                    *)
(***************************************************************************)
\* The socket of the call is the open one with its descriptor.
LEMMA CallSocket ==
  ASSUME IInv, NEW ops, At(ops),
         Step \in {"connect", "connect_any", "listen", "accept", "close", "peeloff"}
  PROVE  LET i == find_socket_by_script_fd(call.fd) IN
         /\ call.fd \in ScriptFds /\ i \in DOMAIN sockets /\ Open(i)
         /\ sockets[i].script = call.fd /\ sockets[i].live = call.live
  <1>1. /\ TypeOK /\ TrackedInv /\ CallInv /\ call \in Calls /\ InCall /\ Pending
        /\ StepFacts(call.name, call.pc) /\ call.pc <= Len(Steps)
        /\ Steps = system_call_table[call.name].steps
    BY AtFacts
  <1>2. Passed({"fd"})
    BY <1>1 DEF StepFacts, Step, Passed
  <1>3. call.fd \in ScriptFds
    BY <1>1, <1>2 DEF CallInv, Calls
  <1>4. PICK j \in DOMAIN sockets : Found(j)
    BY <1>1, <1>2 DEF TrackedInv
  <1>5. PICK f \in ScriptFds : f = call.fd
    BY <1>3
  <1>6. /\ Open(j) /\ sockets[j].script = f /\ sockets[j].live = call.live
        /\ \A i \in DOMAIN sockets : Open(i) /\ sockets[i].script = f => j <= i
    BY <1>4, <1>5 DEF Found
  <1>7. PICK i : i = find_socket_by_script_fd(f)
    OBVIOUS
  <1>8. i \in DOMAIN sockets /\ Open(i) /\ sockets[i].script = f /\ i <= j
    BY <1>1, <1>6, <1>7, Find
  <1>9. i = j
    <2>1. i \in Nat /\ j \in Nat
      BY <1>1, <1>8, EachSocket
    <2> QED
      BY <1>6, <1>8, <2>1
  <1> QED
    BY <1>5, <1>6, <1>7, <1>9

LEMMA StateOnly ==
  ASSUME IInv, NEW ops, At(ops), Kept, Step \in {"listen", "connect", "connect_any"},
         mem' = mem, broken' = broken, unchangedKernel, UNCHANGED <<meaning, doubtful>>,
         NEW k \in DOMAIN sockets, sockets[k].state = "new", NEW x \in {"listening", "connecting"},
         sockets' = [sockets EXCEPT ![k].state = x]
  PROVE  IInv'
  <1>1. /\ TypeOK /\ TrackedInv /\ KernelInv /\ AcceptInv /\ CallInv /\ InCall /\ Pending
        /\ StepFacts(call.name, call.pc) /\ call.pc <= Len(Steps) /\ broken = {}
        /\ Steps = system_call_table[call.name].steps
    BY AtFacts, Running
  <1>2. Step = "listen" => call.name = "listen"
    BY <1>1 DEF StepFacts, Step
  <1>3. Step \notin Tracks \/ call.name \notin Creators \cup {"close"}
    BY <1>2 DEF Tracks, Creators
  <1>4. /\ sockets' \in Seq(Sockets) /\ DOMAIN sockets' = DOMAIN sockets /\ Len(sockets') = Len(sockets)
        /\ \A i \in DOMAIN sockets :
             /\ sockets'[i].script = sockets[i].script /\ sockets'[i].live = sockets[i].live
             /\ sockets'[i].closed = sockets[i].closed /\ sockets'[i].remote = sockets[i].remote
             /\ sockets'[i].map = sockets[i].map
             /\ sockets'[i].state = "acked" <=> sockets[i].state = "acked"
    <2>1. sockets \in Seq(Sockets)
      BY <1>1, EachSocket
    <2>2. [sockets[k] EXCEPT !.state = x] \in Sockets
      BY <1>1, EachSocket DEF Sockets
    <2>3. sockets' \in Seq(Sockets) /\ DOMAIN sockets' = DOMAIN sockets /\ Len(sockets') = Len(sockets)
      BY <2>1, <2>2
    <2>4. \A i \in DOMAIN sockets : sockets'[i] = IF i = k THEN [sockets[k] EXCEPT !.state = x]
                                                  ELSE sockets[i]
      BY <2>1
    <2>5. sockets[k] \in Sockets
      BY <1>1, EachSocket
    <2> QED
      BY <2>3, <2>4, <2>5 DEF Sockets
  <1>5. /\ Creating' <=> Creating
        /\ Closing' <=> Closing
        /\ Accepting' <=> Accepting
    BY <1>3, SamePhase DEF Kept
  <1>6. MemInv'
    BY SameMem DEF Kept, SameResult, Frees
  <1>7. CallInv'
    <2>1. call.expect = "wrong" => Step \notin Tracks
      BY <1>1, <1>3 DEF CallInv
    <2> QED
      BY <1>4, <1>6, <2>1, KeptCall DEF Ends, Checks, unchangedKernel
  <1>8. (InCall /\ Passed({"fd"}) /\ Pending)' => InCall /\ Passed({"fd"}) /\ Pending
    BY <1>1, ForwardFacts DEF Kept, SameResult, Passed
  <1>9. \A i : /\ Open(i)' <=> Open(i)
               /\ Sure(i)' <=> Sure(i)
               /\ Acked(i)' <=> Acked(i)
    BY <1>4 DEF Open, Sure, Acked
  <1>10. \A i : Found(i) => Found(i)'
    BY <1>4, <1>9 DEF Found, Open, Kept, SameResult
  <1>11. TrackedInv'
    <2>1. (InCall /\ Passed({"fd"}) /\ Pending)' => \E i \in DOMAIN sockets' : Found(i)'
      BY <1>1, <1>4, <1>8, <1>10 DEF TrackedInv
    <2> QED
      BY <1>1, <1>4, <1>5, <1>9, <2>1 DEF TrackedInv, Kept, SameResult, unchangedKernel
  <1>12. KernelInv'
    BY <1>1, <1>4, <1>5, <1>9 DEF KernelInv, Kept, SameResult, unchangedKernel
  <1>13. AcceptInv'
    BY <1>1, <1>4, <1>5, <1>9 DEF AcceptInv, PeeledOff, Kept, SameResult, unchangedKernel
  <1>14. StateTypes'
    BY <1>1, <1>4 DEF TypeOK, StateTypes, unchangedKernel
  <1> QED
    BY <1>1, <1>7, <1>11, <1>12, <1>13, <1>14, ForwardInv DEF Kept, SameResult

LEMMA ListenInv ==
  ASSUME IInv, TrackListen
  PROVE  IInv'
  <1>1. At({"listen"}) /\ unchangedKernel /\ UNCHANGED <<meaning, doubtful, broken>>
    BY DEF TrackListen
  <1>2. Step = "listen" /\ TypeOK /\ broken = {}
    BY <1>1, AtFacts, Running
  <1>3. PICK k : k = find_socket_by_script_fd(call.fd)
    OBVIOUS
  <1>4. k \in DOMAIN sockets
    BY <1>1, <1>2, <1>3, CallSocket
  <1>5. CASE /\ sockets[k].state = "new"
             /\ sockets' = [sockets EXCEPT ![k].state = "listening"]
             /\ Proceed /\ UNCHANGED mem
    BY <1>1, <1>2, <1>4, <1>5, ProceedKept, StateOnly
  <1>6. CASE Fail(mem) /\ UNCHANGED sockets
    BY <1>1, <1>2, <1>6, FailInv, SameTypes, NoneBroken DEF unchangedSockets, unchangedKernel, Tracks
  <1> QED
    BY <1>3, <1>5, <1>6 DEF TrackListen

LEMMA ConnectInv ==
  ASSUME IInv, TrackConnect
  PROVE  IInv'
  <1>1. At({"connect", "connect_any"}) /\ unchangedKernel /\ UNCHANGED <<meaning, doubtful, broken>>
    BY DEF TrackConnect
  <1>2. Step \in {"connect", "connect_any"} /\ TypeOK /\ broken = {}
    BY <1>1, AtFacts, Running
  <1>3. PICK k : k = find_socket_by_script_fd(call.fd)
    OBVIOUS
  <1>4. k \in DOMAIN sockets
    BY <1>1, <1>2, <1>3, CallSocket
  <1>5. CASE /\ sockets[k].state = "new"
             /\ sockets' = [sockets EXCEPT ![k].state = "connecting"]
             /\ Proceed /\ UNCHANGED mem
    BY <1>1, <1>2, <1>4, <1>5, ProceedKept, StateOnly
  <1>6. CASE Proceed /\ UNCHANGED <<mem, sockets>>
    <2>1. Kept /\ MemInv'
      BY <1>1, <1>2, <1>6, ProceedKept, SameMem DEF Kept, SameResult, Frees
    <2> QED
      BY <1>1, <1>2, <1>6, <2>1, KeptInv DEF unchangedSockets, unchangedKernel, Ends, Checks, Tracks
  <1>7. CASE Fail(mem) /\ UNCHANGED sockets
    BY <1>1, <1>2, <1>7, FailInv, SameTypes, NoneBroken DEF unchangedSockets, unchangedKernel, Prepares
  <1> QED
    BY <1>3, <1>5, <1>6, <1>7 DEF TrackConnect

\* The last step of a handler that tracks sockets.
LEMMA LastStep ==
  ASSUME IInv, NEW ops, At(ops), Kept, Step \in Tracks, mem' = mem, call.expect # "wrong"
  PROVE  /\ CallInv' /\ InCall' /\ ~Pending' /\ ~Creating' /\ ~Closing' /\ ~Accepting'
  <1>1. /\ StepFacts(call.name, call.pc) /\ call.pc <= Len(Steps) /\ CallInv
        /\ Steps = system_call_table[call.name].steps /\ Len(Steps) \in Nat
        /\ call.pc \in Nat
    BY AtFacts
  <1>2. call.pc = Len(Steps)
    BY <1>1 DEF StepFacts, Step
  <1>3. InCall' /\ ~Pending'
    BY <1>1, <1>2, ForwardFacts DEF Kept, SameResult
  <1>4. MemInv'
    BY SameMem DEF Kept, SameResult, Frees, Tracks
  <1>5. CallInv'
    BY <1>3, <1>4, KeptCall DEF Tracks, Ends, Checks
  <1> QED
    BY <1>3, <1>5 DEF Creating, Closing, Accepting

LEMMA LastQuiet ==
  ASSUME IInv, NEW ops, At(ops), Proceed, Step \in Tracks \ {"close"}, call.result = "fail",
         unchangedSockets, mem' = mem, broken' = broken
  PROVE  IInv'
  <1>1. /\ TypeOK /\ TrackedInv /\ KernelInv /\ AcceptInv /\ CallInv /\ broken' = {} /\ Kept
        /\ StepFacts(call.name, call.pc) /\ call.pc <= Len(Steps)
        /\ Steps = system_call_table[call.name].steps
    BY AtFacts, Running, ProceedKept
  <1>2. call.name # "close"
    <2>1. Step \in {"socket", "open", "listen", "accept", "peeloff"}
      BY DEF Tracks
    <2> QED
      BY <1>1, <2>1 DEF StepFacts, Step
  <1>3. call.expect # "wrong" /\ ~Creating /\ ~Closing /\ ~Accepting
    BY <1>1, <1>2 DEF CallInv, Creating, Closing, Accepting
  <1>4. CallInv' /\ InCall' /\ ~Pending' /\ ~Creating' /\ ~Closing' /\ ~Accepting'
    BY <1>1, <1>3, LastStep
  <1>5. TrackedInv' /\ KernelInv' /\ AcceptInv'
    BY <1>1, <1>3, <1>4, Between
  <1> QED
    BY <1>1, <1>4, <1>5, SameTypes, ForwardInv DEF Kept, SameResult

LEMMA CloseInv ==
  ASSUME IInv, TrackClose
  PROVE  IInv'
  <1>1. At({"close"}) /\ unchangedKernel /\ UNCHANGED <<doubtful, broken>>
    BY DEF TrackClose
  <1>2. /\ TypeOK /\ TrackedInv /\ KernelInv /\ AcceptInv /\ CallInv /\ InCall /\ Pending
        /\ StepFacts(call.name, call.pc) /\ call.pc <= Len(Steps) /\ Step = "close"
        /\ Steps = system_call_table[call.name].steps /\ broken = {}
    BY <1>1, AtFacts, Running
  <1>3. call.name = "close" /\ Passed({"kernel"})
    BY <1>2 DEF StepFacts, Step, Passed, Tracks
  <1>4. Closing /\ ~Creating /\ ~Accepting
    BY <1>2, <1>3 DEF Closing, Creating, Accepting, CallInv, Creators
  <1>5. PICK k : k = find_socket_by_script_fd(call.fd)
    OBVIOUS
  <1>6. /\ k \in DOMAIN sockets /\ Open(k) /\ sockets[k].script = call.fd /\ call.fd \in ScriptFds
        /\ sockets[k].live = call.live
    BY <1>1, <1>2, <1>5, CallSocket
  <1>7. /\ sockets' = IF call.result = "value" THEN [sockets EXCEPT ![k].closed = TRUE] ELSE sockets
        /\ meaning' = [meaning EXCEPT ![call.fd] = 0]
        /\ IF call.expect = "wrong" THEN Fail(mem) ELSE Proceed /\ UNCHANGED mem
    BY <1>5 DEF TrackClose, run_syscall_close
  <1>8. /\ sockets' \in Seq(Sockets) /\ DOMAIN sockets' = DOMAIN sockets /\ Len(sockets') = Len(sockets)
        /\ \A i \in DOMAIN sockets :
             /\ sockets'[i].script = sockets[i].script /\ sockets'[i].live = sockets[i].live
             /\ sockets'[i].remote = sockets[i].remote
             /\ sockets'[i].map = sockets[i].map /\ sockets'[i].state = sockets[i].state
             /\ sockets'[i].closed <=> sockets[i].closed \/ (call.result = "value" /\ i = k)
    <2>1. sockets \in Seq(Sockets) /\ sockets[k] \in Sockets
      BY <1>2, <1>6, EachSocket
    <2>2. [sockets[k] EXCEPT !.closed = TRUE] \in Sockets
      BY <2>1 DEF Sockets
    <2>3. CASE call.result = "value"
      <3>1. sockets' \in Seq(Sockets) /\ DOMAIN sockets' = DOMAIN sockets /\ Len(sockets') = Len(sockets)
        BY <1>6, <1>7, <2>1, <2>2, <2>3
      <3>2. \A i \in DOMAIN sockets : sockets'[i] = IF i = k THEN [sockets[k] EXCEPT !.closed = TRUE]
                                                    ELSE sockets[i]
        BY <1>6, <1>7, <2>1, <2>3
      <3>3. /\ [sockets[k] EXCEPT !.closed = TRUE].script = sockets[k].script
            /\ [sockets[k] EXCEPT !.closed = TRUE].live = sockets[k].live
            /\ [sockets[k] EXCEPT !.closed = TRUE].remote = sockets[k].remote
            /\ [sockets[k] EXCEPT !.closed = TRUE].map = sockets[k].map
            /\ [sockets[k] EXCEPT !.closed = TRUE].state = sockets[k].state
            /\ [sockets[k] EXCEPT !.closed = TRUE].closed
        BY <2>1 DEF Sockets
      <3> QED
        BY <2>3, <3>1, <3>2, <3>3
    <2>4. CASE call.result # "value"
      BY <1>7, <2>1, <2>4
    <2> QED
      BY <2>3, <2>4
  <1>9. /\ meaning' \in [ScriptFds -> 0 .. MaxSockets]
        /\ \A f \in ScriptFds : meaning'[f] = IF f = call.fd THEN 0 ELSE meaning[f]
    <2>1. meaning \in [ScriptFds -> 0 .. MaxSockets] /\ 0 \in 0 .. MaxSockets
      BY <1>2, FdsAssumption DEF TypeOK
    <2> QED
      BY <1>6, <1>7, <2>1
  <1>10. StateTypes'
    BY <1>1, <1>2, <1>8, <1>9 DEF TypeOK, StateTypes, unchangedKernel
  <1>11. CASE call.expect = "wrong"
    BY <1>1, <1>2, <1>7, <1>10, <1>11, FailInv, NoneBroken DEF Tracks
  <1>12. CASE call.expect # "wrong"
    <2>1. Kept /\ mem' = mem
      BY <1>1, <1>7, <1>12, ProceedKept
    <2>2. CallInv' /\ InCall' /\ ~Pending' /\ ~Creating' /\ ~Closing' /\ ~Accepting'
      BY <1>1, <1>2, <1>12, <2>1, LastStep DEF Tracks
    <2>3. \A i : /\ Open(i)' <=> Open(i) /\ ~(call.result = "value" /\ i = k)
                 /\ Acked(i)' <=> Acked(i)
      BY <1>8 DEF Open, Acked
    <2>4. ASSUME NEW i \in DOMAIN sockets
          PROVE  Sure(i)' <=> Sure(i) /\ sockets[i].script # call.fd
      <3>1. Sure(i)' <=> Sure(i) /\ ~(call.result = "value" /\ i = k)
        BY <1>1, <1>8, <2>3, <2>4 DEF Sure
      <3>2. ASSUME Sure(i), sockets[i].script = call.fd
            PROVE  call.result = "value" /\ i = k
        <4>1. Sure(k)
          BY <1>6, <3>2 DEF Sure
        <4>2. i = k
          BY <1>2, <1>6, <3>2, <4>1 DEF TrackedInv
        <4> QED
          <5>1. call.result # "fail"
            BY <1>2, <1>4, <3>2 DEF Sure, KernelInv
          <5>2. call.result \in {"none", "value", "fail"} /\ call.result # "none"
            <6>1. call \in Calls
              BY <1>1, AtFacts
            <6> QED
              BY <1>4, <6>1 DEF Closing, Calls
          <5> QED
            BY <4>2, <5>1, <5>2
      <3> QED
        BY <1>6, <3>1, <3>2
    <2>5. TrackedInv'
      <3>1. \A i \in DOMAIN sockets' : /\ sockets'[i].script = -1 <=> sockets'[i].live = -1
                                       /\ sockets'[i].script = -1 => ~sockets'[i].closed
        BY <1>2, <1>6, <1>8 DEF TrackedInv, Open
      <3>2. \A i, j \in DOMAIN sockets' :
              /\ Sure(i)' /\ Sure(j)'
              /\ sockets'[i].script = sockets'[j].script \/ sockets'[i].live = sockets'[j].live
              => i = j
        BY <1>2, <1>8, <2>4 DEF TrackedInv
      <3>3. ASSUME NEW i \in DOMAIN sockets', Sure(i)'
            PROVE  /\ meaning'[sockets'[i].script] # 0
                   /\ kernel'[sockets'[i].live] = meaning'[sockets'[i].script]
        <4>1. /\ i \in DOMAIN sockets /\ Sure(i) /\ sockets[i].script # call.fd
              /\ sockets'[i].script = sockets[i].script /\ sockets'[i].live = sockets[i].live
          BY <1>8, <2>4, <3>3
        <4>2. sockets[i].script \in ScriptFds
          BY <1>2, <4>1, EachSocket DEF Sure, Open
        <4> QED
          BY <1>1, <1>2, <1>9, <4>1, <4>2 DEF TrackedInv, unchangedKernel
      <3>4. ASSUME NEW f \in ScriptFds \ doubtful, meaning'[f] # 0
            PROVE  \E i \in DOMAIN sockets' : Sure(i)' /\ sockets'[i].script = f
        <4>1. f # call.fd /\ meaning[f] # 0
          BY <1>9, <3>4
        <4>2. PICK i \in DOMAIN sockets : Sure(i) /\ sockets[i].script = f
          BY <1>2, <3>4, <4>1 DEF TrackedInv
        <4> QED
          BY <1>8, <2>4, <4>1, <4>2
      <3> QED
        BY <1>1, <2>2, <3>1, <3>2, <3>3, <3>4 DEF TrackedInv
    <2>6. KernelInv'
      <3>1. ASSUME NEW l \in LiveFds, kernel[l] # 0
            PROVE  \E i \in DOMAIN sockets' : Open(i)' /\ sockets'[i].live = l
        <4>1. PICK i \in DOMAIN sockets : Open(i) /\ sockets[i].live = l
          BY <1>2, <1>4, <3>1 DEF KernelInv
        <4>2. i # k
          BY <1>2, <1>4, <1>6, <3>1, <4>1 DEF KernelInv
        <4> QED
          BY <1>8, <2>3, <4>1, <4>2
      <3> QED
        BY <1>1, <1>2, <2>2, <3>1 DEF KernelInv, unchangedKernel
    <2>7. AcceptInv'
      BY <1>1, <1>2, <1>8, <2>2, <2>3 DEF AcceptInv, PeeledOff, unchangedKernel
    <2> QED
      BY <1>1, <1>2, <1>10, <2>1, <2>2, <2>5, <2>6, <2>7, ForwardInv DEF Kept, SameResult
  <1> QED
    BY <1>11, <1>12

\* The descriptor that was made gets its socket and its number in the script.
LEMMA TrackedPushed ==
  ASSUME TypeOK, TrackedInv, KernelInv, Creating, ~Closing,
         ~Creating', ~Closing', ~Pending', UNCHANGED <<objects, pending, kernel>>,
         NEW f \in ScriptFds, meaning' = [meaning EXCEPT ![f] = call.object],
         doubtful \subseteq doubtful', ByScript(f) = {} \/ f \in doubtful',
         NEW s \in Sockets, Pushed(s), s.script = f, s.live = call.new, ~s.closed
  PROVE  TrackedInv' /\ KernelInv'
  <1>1. \A g \in ScriptFds : meaning'[g] = IF g = f THEN call.object ELSE meaning[g]
    BY DEF TypeOK
  <1>2. /\ call.object # 0 /\ kernel[call.new] = call.object
        /\ \A g \in ScriptFds \ doubtful : meaning[g] # call.object
    BY DEF KernelInv
  <1>3. f # -1 /\ call.new # -1
    BY FdsAssumption DEF Creating
  <1>4. Open(1)' /\ sockets'[1].script = f /\ sockets'[1].live = call.new /\ 1 \in DOMAIN sockets'
    BY <1>3 DEF Pushed, Open
  <1>5. ASSUME NEW i \in DOMAIN sockets', Sure(i)', i # 1
        PROVE  /\ i \in Nat /\ i - 1 \in DOMAIN sockets /\ Sure(i - 1) /\ sockets'[i] = sockets[i - 1]
               /\ sockets'[i].script # f /\ sockets'[i].live # call.new
               /\ sockets'[i].script \in ScriptFds
               /\ meaning[sockets'[i].script] # 0
               /\ kernel[sockets'[i].live] = meaning[sockets'[i].script]
    <2>1. i \in Nat /\ i - 1 \in DOMAIN sockets /\ Open(i - 1) /\ sockets'[i] = sockets[i - 1]
      BY <1>5 DEF Pushed, Open, Sure
    <2>2. sockets'[i].script \notin doubtful' /\ Sure(i - 1)
      BY <1>5, <2>1 DEF Sure
    <2>3. /\ sockets'[i].script \in ScriptFds
          /\ meaning[sockets'[i].script] # 0
          /\ kernel[sockets'[i].live] = meaning[sockets'[i].script]
      BY <2>1, <2>2, EachSocket DEF TrackedInv, Open
    <2>4. sockets'[i].script # f
      BY <2>1, <2>2 DEF ByScript, Open
    <2> QED
      BY <1>2, <2>1, <2>2, <2>3, <2>4
  <1>6. TrackedInv'
    <2>1. \A i \in DOMAIN sockets' : /\ sockets'[i].script = -1 <=> sockets'[i].live = -1
                                     /\ sockets'[i].script = -1 => ~sockets'[i].closed
      <3> SUFFICES ASSUME NEW i \in DOMAIN sockets'
                   PROVE  /\ sockets'[i].script = -1 <=> sockets'[i].live = -1
                          /\ sockets'[i].script = -1 => ~sockets'[i].closed
        OBVIOUS
      <3>1. i = 1 \/ (i - 1 \in DOMAIN sockets /\ sockets'[i] = sockets[i - 1])
        BY DEF Pushed
      <3>2. CASE i = 1
        BY <1>3, <3>2 DEF Pushed
      <3>3. CASE i - 1 \in DOMAIN sockets /\ sockets'[i] = sockets[i - 1]
        BY <3>3 DEF TrackedInv
      <3> QED
        BY <3>1, <3>2, <3>3
    <2>2. ASSUME NEW i \in DOMAIN sockets', NEW j \in DOMAIN sockets', Sure(i)', Sure(j)',
                 sockets'[i].script = sockets'[j].script \/ sockets'[i].live = sockets'[j].live
          PROVE  i = j
      <3>1. CASE i = 1 \/ j = 1
        BY <1>4, <1>5, <2>2, <3>1
      <3>2. CASE i # 1 /\ j # 1
        <4>1. /\ i - 1 \in DOMAIN sockets /\ Sure(i - 1) /\ sockets'[i] = sockets[i - 1] /\ i \in Nat
              /\ j - 1 \in DOMAIN sockets /\ Sure(j - 1) /\ sockets'[j] = sockets[j - 1] /\ j \in Nat
          BY <1>5, <2>2, <3>2
        <4>2. i - 1 = j - 1
          BY <2>2, <4>1 DEF TrackedInv
        <4> QED
          BY <4>1, <4>2
      <3> QED
        BY <3>1, <3>2
    <2>3. ASSUME NEW i \in DOMAIN sockets', Sure(i)'
          PROVE  /\ meaning'[sockets'[i].script] # 0
                 /\ kernel'[sockets'[i].live] = meaning'[sockets'[i].script]
      <3>1. CASE i = 1
        BY <1>1, <1>2, <1>4, <3>1
      <3>2. CASE i # 1
        BY <1>1, <1>5, <2>3, <3>2
      <3> QED
        BY <3>1, <3>2
    <2>4. ASSUME NEW g \in ScriptFds \ doubtful', meaning'[g] # 0
          PROVE  \E i \in DOMAIN sockets' : Sure(i)' /\ sockets'[i].script = g
      <3>1. CASE g = f
        BY <1>4, <2>4, <3>1 DEF Sure
      <3>2. CASE g # f
        <4>1. PICK i \in DOMAIN sockets : Sure(i) /\ sockets[i].script = g
          BY <1>1, <2>4, <3>2 DEF TrackedInv
        <4>2. Open(i + 1)' /\ i + 1 \in DOMAIN sockets' /\ sockets'[i + 1] = sockets[i]
          BY <4>1, StillOpen DEF Sure
        <4> QED
          BY <2>4, <4>1, <4>2 DEF Sure
      <3> QED
        BY <3>1, <3>2
    <2> QED
      BY <2>1, <2>2, <2>3, <2>4 DEF TrackedInv
  <1>7. KernelInv'
    <2>1. ASSUME NEW l \in LiveFds, kernel[l] # 0
          PROVE  \E i \in DOMAIN sockets' : Open(i)' /\ sockets'[i].live = l
      <3>1. CASE l = call.new
        BY <1>4, <3>1
      <3>2. CASE l # call.new
        <4>1. PICK i \in DOMAIN sockets : Open(i) /\ sockets[i].live = l
          BY <2>1, <3>2 DEF KernelInv
        <4> QED
          BY <4>1, StillOpen
      <3> QED
        BY <3>1, <3>2
    <2> QED
      BY <2>1 DEF KernelInv
  <1> QED
    BY <1>6, <1>7

LEMMA AcceptPushed ==
  ASSUME TypeOK, AcceptInv, ~Accepting', UNCHANGED <<objects, pending, wire>>,
         NEW s \in Sockets, Pushed(s), ~PeeledOff' => ~PeeledOff, s.remote <= objects,
         s.state = "acked" => /\ PeeledOff' /\ ~wire
                              /\ s.script # -1 => \A c \in pending : s.remote < c.object
  PROVE  AcceptInv'
  <1>1. ASSUME NEW i \in DOMAIN sockets', i # 1
        PROVE  /\ i \in Nat /\ i - 1 \in DOMAIN sockets /\ sockets'[i] = sockets[i - 1]
               /\ Acked(i)' <=> Acked(i - 1)
    BY <1>1 DEF Pushed, Acked
  <1>2. sockets'[1] = s
    BY DEF Pushed
  <1>3. wire' => \A i \in DOMAIN sockets' : ~Acked(i)'
    BY <1>1, <1>2 DEF AcceptInv, Acked
  <1>4. \A i \in DOMAIN sockets' : sockets'[i].remote <= objects'
    BY <1>1, <1>2 DEF AcceptInv
  <1>5. ASSUME NEW i \in DOMAIN sockets', Acked(i)', sockets'[i].script # -1
        PROVE  \A c \in pending' : sockets'[i].remote < c.object
    <2>1. CASE i = 1
      BY <1>2, <1>5, <2>1 DEF Acked
    <2>2. CASE i # 1
      BY <1>1, <1>5, <2>2 DEF AcceptInv
    <2> QED
      BY <2>1, <2>2
  <1>6. ASSUME ~wire', NEW c \in pending'
        PROVE  \E i \in DOMAIN sockets' : Acked(i)' /\ sockets'[i].remote = c.object
    <2>1. PICK i \in DOMAIN sockets : Acked(i) /\ sockets[i].remote = c.object
      BY <1>6 DEF AcceptInv
    <2>2. i + 1 \in DOMAIN sockets' /\ sockets'[i + 1] = sockets[i]
      BY DEF Pushed
    <2> QED
      BY <2>1, <2>2 DEF Acked
  <1>7. ASSUME ~PeeledOff', NEW i \in DOMAIN sockets', NEW j \in DOMAIN sockets',
               Acked(i)', Acked(j)', i < j
        PROVE  sockets'[i].remote > sockets'[j].remote
    <2>1. i # 1
      BY <1>2, <1>7 DEF Acked
    <2>2. i > 1 /\ i \in Nat
      BY <2>1 DEF Pushed
    <2>3. j # 1
      BY <1>7, <2>2
    <2>4. /\ i - 1 \in DOMAIN sockets /\ sockets'[i] = sockets[i - 1] /\ Acked(i - 1)
          /\ j - 1 \in DOMAIN sockets /\ sockets'[j] = sockets[j - 1] /\ Acked(j - 1) /\ j \in Nat
      BY <1>1, <1>7, <2>1, <2>3
    <2>5. i - 1 < j - 1
      BY <1>7, <2>2, <2>4
    <2> QED
      BY <1>7, <2>4, <2>5 DEF AcceptInv
  <1> QED
    BY <1>3, <1>4, <1>5, <1>6, <1>7 DEF AcceptInv

LEMMA MeaningUpdate ==
  ASSUME TypeOK, NEW f, call.object \in 0 .. MaxSockets
  PROVE  [meaning EXCEPT ![f] = call.object] \in [ScriptFds -> 0 .. MaxSockets]
  <1>1. meaning \in [ScriptFds -> 0 .. MaxSockets]
    BY DEF TypeOK
  <1> QED
    BY <1>1

\* The object that the call has made.
LEMMA Created ==
  ASSUME IInv, NEW ops, At(ops), call.name \in Creators, call.result = "value"
  PROVE  /\ Creating /\ ~Closing /\ call.new \in LiveFds /\ call.new # -1
         /\ call.object \in 0 .. MaxSockets /\ call.object <= objects
         /\ kernel[call.new] = call.object
         /\ call.expect # "wrong"
  <1>1. TypeOK /\ KernelInv /\ CallInv /\ InCall /\ Pending /\ call \in Calls
    BY AtFacts
  <1>2. call.new # -1 /\ Creating /\ ~Closing /\ call.expect # "wrong"
    BY <1>1 DEF CallInv, Creating, Closing, Creators
  <1>3. call.new \in LiveFds
    BY <1>1, <1>2 DEF Calls
  <1>4. kernel[call.new] \in 0 .. MaxSockets
    BY <1>1, <1>3 DEF TypeOK
  <1> QED
    BY <1>1, <1>2, <1>3, <1>4 DEF KernelInv

\* A new struct socket for the descriptor that the call has made.
LEMMA InsertInv ==
  ASSUME IInv, NEW ops, At(ops), Step \in {"socket", "open", "accept", "peeloff"},
         call.name \in Creators, call.result = "value", MakesSocket(call.name),
         Proceed, unchangedKernel, UNCHANGED <<mem, broken>>,
         NEW f \in ScriptFds, meaning' = [meaning EXCEPT ![f] = call.object],
         doubtful \subseteq doubtful', doubtful' \subseteq doubtful \cup {f},
         ByScript(f) = {} \/ f \in doubtful',
         NEW s \in Sockets, Insert(s), s.script = f, s.live = call.new, ~s.closed,
         s.remote <= objects,
         s.state = "acked" => /\ PeeledOff' /\ ~wire
                              /\ s.script # -1 => \A c \in pending : s.remote < c.object
  PROVE  IInv'
  <1>1. /\ TypeOK /\ TrackedInv /\ KernelInv /\ AcceptInv /\ CallInv /\ broken = {} /\ Pending
    BY AtFacts, Running
  <1>2. /\ Creating /\ ~Closing /\ call.new \in LiveFds /\ call.object \in 0 .. MaxSockets
        /\ call.expect # "wrong"
    BY Created
  <1>3. Kept
    BY ProceedKept
  <1>4. CallInv' /\ InCall' /\ ~Pending' /\ ~Creating' /\ ~Closing' /\ ~Accepting'
    BY <1>2, <1>3, LastStep DEF Tracks
  <1>5. Pushed(s) /\ (~PeeledOff' => ~PeeledOff)
    BY <1>1, InsertFacts
  <1>6. TrackedInv' /\ KernelInv'
    BY <1>1, <1>2, <1>4, <1>5, TrackedPushed DEF unchangedKernel
  <1>7. AcceptInv'
    BY <1>1, <1>4, <1>5, AcceptPushed DEF unchangedKernel
  <1>8. StateTypes'
    <2>1. Len(sockets) < MaxSockets /\ Len(sockets) \in Nat
      BY <1>1, EachSocket DEF CallInv
    <2>2. sockets' \in Seq(Sockets) /\ Len(sockets') <= MaxSockets
      BY <1>5, <2>1, FdsAssumption DEF Pushed
    <2>3. meaning' \in [ScriptFds -> 0 .. MaxSockets]
      BY <1>1, <1>2, MeaningUpdate
    <2> QED
      BY <1>1, <2>2, <2>3 DEF TypeOK, StateTypes, unchangedKernel
  <1> QED
    BY <1>1, <1>3, <1>4, <1>6, <1>7, <1>8, ForwardInv DEF Kept, SameResult

LEMMA NewSocket ==
  ASSUME TypeOK, NEW f \in ScriptFds, NEW l \in LiveFds, NEW x \in {"new", "init"}, NEW r \in Nat
  PROVE  LET s == Socket(f, l, x, r, NewMap) IN
         /\ s \in Sockets /\ s.script = f /\ s.live = l /\ ~s.closed /\ s.remote = r
         /\ s.state # "acked"
  <1>1. NewMap \in Nat
    BY EachSocket DEF NewMap
  <1> QED
    BY <1>1 DEF Socket, Sockets

LEMMA NewInv ==
  ASSUME IInv, TrackNew
  PROVE  IInv'
  <1>1. At({"socket", "open"}) /\ UNCHANGED <<objects, listening, pending, doubtful, broken, wire>>
    BY DEF TrackNew
  <1>2. /\ TypeOK /\ TrackedInv /\ broken = {} /\ Step \in {"socket", "open"}
        /\ call \in Calls /\ StepFacts(call.name, call.pc) /\ call.pc <= Len(Steps)
        /\ Steps = system_call_table[call.name].steps
    BY <1>1, AtFacts, Running
  <1>3. call.name \in {"socket", "open"}
    BY <1>2 DEF StepFacts, Step
  <1>4. CASE call.result = "fail" /\ Proceed /\ UNCHANGED <<sockets, meaning, kernel, mem>>
    BY <1>1, <1>2, <1>4, LastQuiet DEF unchangedSockets, unchangedKernel, Tracks
  <1>5. ASSUME call.result = "value", NEW f \in ScriptFds, insert_new_socket(f, call.new),
               Insert(Socket(f, call.new, "new", 0, NewMap)),
               meaning' = [meaning EXCEPT ![f] = call.object],
               Proceed, UNCHANGED <<kernel, mem>>
        PROVE  IInv'
    <2>1. call.new \in LiveFds
      BY <1>1, <1>3, <1>5, Created DEF Creators
    <2>2. PICK s : s = Socket(f, call.new, "new", 0, NewMap)
      OBVIOUS
    <2>3. /\ s \in Sockets /\ s.script = f /\ s.live = call.new /\ ~s.closed /\ s.remote = 0
          /\ s.state # "acked"
      <3>1. PICK l \in LiveFds : l = call.new
        BY <2>1
      <3> QED
        BY <1>2, <2>2, <3>1, NewSocket
    <2>4. ByScript(f) = {} /\ unchangedKernel
      <3>1. find_socket_by_script_fd(f) = 0
        BY <1>5 DEF insert_new_socket
      <3> QED
        BY <1>1, <1>2, <1>5, <3>1, Find DEF unchangedKernel
    <2>5. s.remote <= objects /\ Insert(s) /\ MakesSocket(call.name) /\ call.name \in Creators
      BY <1>2, <1>3, <1>5, <2>2, <2>3 DEF TypeOK, MakesSocket, Creators
    <2> QED
      BY <1>1, <1>2, <1>5, <2>3, <2>4, <2>5, InsertInv
  <1>6. CASE kernel' = [kernel EXCEPT ![call.new] = 0] /\ Fail(mem) /\ UNCHANGED <<sockets, meaning>>
    <2>1. kernel' \in [LiveFds -> 0 .. MaxSockets]
      BY <1>2, <1>6, ClosedFd
    <2>2. StateTypes'
      BY <1>1, <1>2, <1>6, <2>1 DEF TypeOK, StateTypes
    <2> QED
      BY <1>1, <1>2, <1>6, <2>2, FailInv, NoneBroken DEF Tracks
  <1> QED
    BY <1>4, <1>5, <1>6 DEF TrackNew

LEMMA PeeloffInv ==
  ASSUME IInv, TrackPeeloff
  PROVE  IInv'
  <1>1. At({"peeloff"}) /\ unchangedKernel /\ UNCHANGED doubtful
    BY DEF TrackPeeloff
  <1>2. /\ TypeOK /\ TrackedInv /\ KernelInv /\ AcceptInv /\ CallInv /\ broken = {} /\ Step = "peeloff"
        /\ call \in Calls /\ StepFacts(call.name, call.pc) /\ call.pc <= Len(Steps)
        /\ Steps = system_call_table[call.name].steps /\ InCall /\ Pending
    BY <1>1, AtFacts, Running
  <1>3. call.name = "sctp_peeloff" /\ call.result \in {"value", "fail"} /\ call.expect # "wrong"
    BY <1>2 DEF StepFacts, Step, Passed, Tracks, CallInv, Calls
  <1>4. PICK k : k = find_socket_by_script_fd(call.fd)
    OBVIOUS
  <1>5. k \in DOMAIN sockets /\ Open(k)
    BY <1>1, <1>2, <1>4, CallSocket
  <1>6. sockets[k] \in Sockets /\ ~sockets[k].closed /\ sockets[k].script # -1
    BY <1>2, <1>5, EachSocket DEF Open
  <1>7. CASE Fail(mem) /\ UNCHANGED <<sockets, meaning, broken>>
    <2>1. unchangedSockets
      BY <1>1, <1>7 DEF unchangedSockets, unchangedKernel
    <2> QED
      BY <1>1, <1>2, <1>7, <2>1, FailInv, SameTypes, NoneBroken DEF Tracks
  <1>8. CASE broken' = broken \cup {"peeloff"} /\ Fail(mem) /\ UNCHANGED <<sockets, meaning>>
    <2>1. unchangedSockets
      BY <1>1, <1>8 DEF unchangedSockets, unchangedKernel
    <2>2. NothingBroken'
      BY <1>2, <1>8 DEF NothingBroken
    <2> QED
      BY <1>1, <1>2, <1>8, <2>1, <2>2, FailInv, SameTypes DEF Tracks
  <1>9. ASSUME NEW f \in IF call.result = "fail" THEN {-1} ELSE ScriptFds, ByScript(f) = {},
               Insert([sockets[k] EXCEPT !.script = f, !.live = call.new]),
               meaning' = IF f < 0 THEN meaning ELSE [meaning EXCEPT ![f] = call.object],
               Proceed, UNCHANGED <<mem, broken>>
        PROVE  IInv'
    <2>1. PICK s : s = [sockets[k] EXCEPT !.script = f, !.live = call.new]
      OBVIOUS
    <2>2. f \in ScriptFds \cup {-1} /\ call.new \in LiveFds \cup {-1}
      BY <1>2, <1>9 DEF Calls
    <2>3. /\ s \in Sockets /\ s.script = f /\ s.live = call.new /\ ~s.closed
          /\ s.remote = sockets[k].remote /\ s.state = sockets[k].state /\ s.map = sockets[k].map
      <3>1. PICK p \in Sockets, g \in ScriptFds \cup {-1}, l \in LiveFds \cup {-1} :
              p = sockets[k] /\ g = f /\ l = call.new
        BY <1>6, <2>2
      <3>2. s = [p EXCEPT !.script = g, !.live = l]
        BY <2>1, <3>1
      <3>3. /\ s \in Sockets /\ s.script = g /\ s.live = l /\ s.closed = p.closed
            /\ s.remote = p.remote /\ s.state = p.state /\ s.map = p.map
        BY <3>2 DEF Sockets
      <3> QED
        BY <1>6, <3>1, <3>3
    <2>4. Insert(s) /\ Pushed(s) /\ (~PeeledOff' => ~PeeledOff)
      BY <1>2, <1>9, <2>1, <2>3, InsertFacts
    <2>5. PeeledOff'
      <3>1. /\ k \in Nat /\ k >= 1 /\ k + 1 \in DOMAIN sockets' /\ sockets'[k + 1] = sockets[k]
            /\ 1 \in DOMAIN sockets' /\ sockets'[1] = s
        BY <1>5, <2>4 DEF Pushed
      <3>2. k + 1 # 1 /\ sockets'[k + 1].map = sockets'[1].map
        BY <2>3, <3>1
      <3> QED
        BY <3>1, <3>2 DEF PeeledOff
    <2>6. /\ s.remote <= objects
          /\ s.state = "acked" => ~wire /\ \A c \in pending : s.remote < c.object
      BY <1>2, <1>5, <1>6, <2>3 DEF AcceptInv, Acked
    <2>7. MakesSocket(call.name) /\ call.name \in Creators
      BY <1>3 DEF MakesSocket, Creators
    <2>8. CASE call.result = "value"
      <3>1. f \in ScriptFds /\ meaning' = [meaning EXCEPT ![f] = call.object]
        BY <1>9, <2>8, FdsAssumption
      <3> QED
        BY <1>1, <1>2, <1>9, <2>3, <2>4, <2>5, <2>6, <2>7, <2>8, <3>1, InsertInv
    <2>9. CASE call.result = "fail"
      <3>1. f = -1 /\ meaning' = meaning /\ call.new = -1 /\ ~Creating /\ ~Closing
        BY <1>2, <1>3, <1>9, <2>9 DEF CallInv, Creating, Closing
      <3>2. Kept
        BY <1>1, <1>9, ProceedKept
      <3>3. CallInv' /\ InCall' /\ ~Pending' /\ ~Creating' /\ ~Closing' /\ ~Accepting'
        BY <1>1, <1>2, <1>3, <1>9, <3>2, LastStep DEF Tracks
      <3>4. TrackedInv'
        BY <1>1, <1>2, <2>3, <2>4, <3>1, <3>3, UntrackedPushed DEF unchangedKernel
      <3>5. KernelInv'
        <4>1. \A l \in LiveFds : kernel[l] # 0 => \E i \in DOMAIN sockets' : Open(i)' /\ sockets'[i].live = l
          BY <1>2, <2>4, <3>1, StillOpen DEF KernelInv
        <4> QED
          BY <1>1, <1>2, <3>1, <3>3, <4>1 DEF KernelInv, unchangedKernel
      <3>6. AcceptInv'
        BY <1>1, <1>2, <2>3, <2>4, <2>5, <2>6, <3>3, AcceptPushed DEF unchangedKernel
      <3>7. StateTypes'
        <4>1. Len(sockets) < MaxSockets /\ Len(sockets) \in Nat
          BY <1>2, <2>7, EachSocket DEF CallInv
        <4>2. sockets' \in Seq(Sockets) /\ Len(sockets') <= MaxSockets
          BY <2>4, <4>1, FdsAssumption DEF Pushed
        <4> QED
          BY <1>1, <1>2, <3>1, <4>2 DEF TypeOK, StateTypes, unchangedKernel
      <3> QED
        BY <1>1, <1>2, <1>9, <3>2, <3>3, <3>4, <3>5, <3>6, <3>7, ForwardInv DEF Kept, SameResult
    <2> QED
      BY <1>3, <2>8, <2>9
  <1> QED
    BY <1>4, <1>7, <1>8, <1>9 DEF TrackPeeloff

\* The newest of the sockets that accept() may return.
LEMMA Newest ==
  ASSUME TypeOK, Acceptable # 0
  PROVE  /\ Acceptable \in DOMAIN sockets /\ Acked(Acceptable) /\ Acceptable \in Nat
         /\ \A i \in DOMAIN sockets : Acked(i) => i \in Nat /\ Acceptable <= i
  <1> DEFINE S == {i \in DOMAIN sockets : sockets[i].state = "acked"}
  <1>1. S \in SUBSET Nat
    BY EachSocket
  <1>2. S # {} /\ Acceptable = Min(S)
    BY DEF Acceptable
  <1>3. Min(S) \in S /\ \A i \in S : Min(S) <= i
    BY <1>1, <1>2, MinNat
  <1> QED
    BY <1>1, <1>2, <1>3 DEF Acked

\* The assert of run_syscall_accept() fails only if two connections wait.
LEMMA TwoWait ==
  ASSUME TypeOK, AcceptInv, Accepting, ~PeeledOff, Acceptable # 0,
         sockets[Acceptable].remote # call.object, call.object \in Nat
  PROVE  Cardinality(Waiting) > 1
  <1>1. PICK k : k = Acceptable
    OBVIOUS
  <1>2. /\ k \in DOMAIN sockets /\ Acked(k) /\ k \in Nat
        /\ \A i \in DOMAIN sockets : Acked(i) => i \in Nat /\ k <= i
    BY <1>1, Newest
  <1>3. ~wire
    BY <1>2 DEF AcceptInv
  <1>4. PICK i \in DOMAIN sockets : Acked(i) /\ sockets[i].remote = call.object
    BY <1>3 DEF AcceptInv
  <1>5. k < i /\ i \in Nat
    BY <1>1, <1>2, <1>4
  <1>6. sockets[k].remote > sockets[i].remote /\ sockets[k].remote \in Nat
    BY <1>2, <1>4, <1>5, EachSocket DEF AcceptInv
  <1>7. sockets[k].script = -1 /\ sockets[i].script = -1
    BY <1>2, <1>4, <1>6 DEF AcceptInv
  <1>8. k \in Waiting /\ i \in Waiting
    BY <1>2, <1>4, <1>7 DEF Waiting, Acked
  <1>9. IsFiniteSet(Waiting)
    <2>1. Waiting \subseteq 1 .. Len(sockets) /\ Len(sockets) \in Nat
      BY EachSocket DEF Waiting
    <2>2. IsFiniteSet(1 .. Len(sockets))
      BY <2>1, FS_Interval
    <2> QED
      BY <2>1, <2>2, FS_Subset
  <1>10. Cardinality({i} \cup {k}) = 2 /\ IsFiniteSet({i} \cup {k})
    <2>1. IsFiniteSet({i}) /\ Cardinality({i}) = 1
      BY FS_Singleton
    <2>2. k \notin {i}
      BY <1>5
    <2>3. PICK S : S = {i}
      OBVIOUS
    <2>4. IsFiniteSet(S \cup {k}) /\ Cardinality(S \cup {k}) = Cardinality(S) + 1
      BY <2>1, <2>2, <2>3, FS_AddElement
    <2> QED
      BY <2>1, <2>3, <2>4
  <1>11. {i} \cup {k} \subseteq Waiting
    BY <1>8
  <1>12. Cardinality({i} \cup {k}) <= Cardinality(Waiting)
    BY <1>9, <1>11, FS_Subset
  <1>13. Cardinality(Waiting) \in Nat
    BY <1>9, FS_CardinalityType
  <1> QED
    BY <1>10, <1>12, <1>13

LEMMA AcceptStepInv ==
  ASSUME IInv, TrackAccept
  PROVE  IInv'
  <1>1. At({"accept"}) /\ unchangedKernel
    BY DEF TrackAccept
  <1>2. /\ TypeOK /\ TrackedInv /\ KernelInv /\ AcceptInv /\ CallInv /\ broken = {} /\ Step = "accept"
        /\ call \in Calls /\ StepFacts(call.name, call.pc) /\ call.pc <= Len(Steps)
        /\ Steps = system_call_table[call.name].steps /\ InCall /\ Pending
    BY <1>1, AtFacts, Running
  <1>3. call.name = "accept" /\ call.name \in Creators
    BY <1>2 DEF StepFacts, Step, Creators
  <1>4. CASE call.result = "fail" /\ Proceed /\ UNCHANGED <<sockets, meaning, doubtful, mem, broken>>
    BY <1>1, <1>2, <1>4, LastQuiet DEF unchangedSockets, unchangedKernel, Tracks
  <1>5. ASSUME call.result = "value"
        PROVE  /\ Creating /\ ~Closing /\ Accepting /\ call.new \in LiveFds /\ call.new # -1
               /\ call.object \in 0 .. MaxSockets /\ call.object <= objects
               /\ kernel[call.new] = call.object
               /\ call.expect # "wrong" /\ call.object \in Nat
    <2>1. /\ Creating /\ ~Closing /\ call.new \in LiveFds /\ call.new # -1
          /\ call.object \in 0 .. MaxSockets /\ call.object <= objects
          /\ kernel[call.new] = call.object
          /\ call.expect # "wrong"
      BY <1>1, <1>3, <1>5, Created
    <2> QED
      BY <1>3, <2>1, FdsAssumption DEF Accepting
  <1>6. ASSUME call.result = "value", Acceptable # 0, sockets[Acceptable].remote = call.object,
               NEW f \in ScriptFds, Accepted(f),
               sockets' = [sockets EXCEPT ![Acceptable].script = f, ![Acceptable].live = call.new],
               Proceed, UNCHANGED <<mem, broken>>
        PROVE  IInv'
    <2>1. PICK k : k = Acceptable
      OBVIOUS
    <2>2. k \in DOMAIN sockets /\ Acked(k)
      BY <1>2, <1>6, <2>1, Newest
    <2>3. sockets[k].script = -1 /\ ~sockets[k].closed /\ ~wire
      BY <1>2, <1>5, <1>6, <2>1, <2>2, EachSocket DEF AcceptInv, TrackedInv
    <2>4. /\ sockets' \in Seq(Sockets) /\ DOMAIN sockets' = DOMAIN sockets /\ Len(sockets') = Len(sockets)
          /\ \A i \in DOMAIN sockets :
               /\ sockets'[i].script = IF i = k THEN f ELSE sockets[i].script
               /\ sockets'[i].live = IF i = k THEN call.new ELSE sockets[i].live
               /\ sockets'[i].closed = sockets[i].closed /\ sockets'[i].remote = sockets[i].remote
               /\ sockets'[i].map = sockets[i].map /\ sockets'[i].state = sockets[i].state
      <3>1. sockets \in Seq(Sockets) /\ sockets[k] \in Sockets
        BY <1>2, <2>2, EachSocket
      <3>2. PICK l \in LiveFds : l = call.new
        BY <1>5, <1>6
      <3>3. PICK s : s = [sockets[k] EXCEPT !.script = f, !.live = l]
        OBVIOUS
      <3>4. /\ s \in Sockets /\ s.script = f /\ s.live = l /\ s.closed = sockets[k].closed
            /\ s.remote = sockets[k].remote /\ s.state = sockets[k].state /\ s.map = sockets[k].map
        BY <3>1, <3>3 DEF Sockets
      <3>5. sockets' = [sockets EXCEPT ![k] = s]
        BY <1>6, <2>1, <2>2, <3>1, <3>2, <3>3
      <3>6. sockets' \in Seq(Sockets) /\ DOMAIN sockets' = DOMAIN sockets /\ Len(sockets') = Len(sockets)
        BY <2>2, <3>1, <3>4, <3>5
      <3>7. \A i \in DOMAIN sockets : sockets'[i] = IF i = k THEN s ELSE sockets[i]
        BY <3>1, <3>5
      <3> QED
        BY <3>2, <3>4, <3>6, <3>7
    <2>5. /\ meaning' \in [ScriptFds -> 0 .. MaxSockets]
          /\ \A g \in ScriptFds : meaning'[g] = IF g = f THEN call.object ELSE meaning[g]
      BY <1>2, <1>5, <1>6, MeaningUpdate DEF TypeOK, Accepted
    <2>6. Kept
      BY <1>1, <1>6, ProceedKept
    <2>7. CallInv' /\ InCall' /\ ~Pending' /\ ~Creating' /\ ~Closing' /\ ~Accepting'
      BY <1>1, <1>2, <1>5, <1>6, <2>6, LastStep DEF Tracks
    <2>8. /\ \A i : Open(i)' <=> Open(i) \/ i = k
          /\ \A i : Acked(i)' <=> Acked(i)
          /\ ~Open(k) /\ f # -1
      BY <2>2, <2>3, <2>4, FdsAssumption DEF Open, Acked
    <2>9. /\ call.object # 0 /\ \A g \in ScriptFds \ doubtful : meaning[g] # call.object
          /\ doubtful \subseteq doubtful' /\ doubtful' \subseteq ScriptFds
          /\ ByScript(f) = {} \/ f \in doubtful'
      BY <1>2, <1>5, <1>6 DEF KernelInv, Accepted, TypeOK
    <2>10. ASSUME NEW i \in DOMAIN sockets, Sure(i)', i # k
           PROVE  /\ Sure(i) /\ sockets[i].script \in ScriptFds
                  /\ meaning[sockets[i].script] # 0 /\ sockets[i].script # f
                  /\ kernel[sockets[i].live] = meaning[sockets[i].script]
                  /\ sockets[i].live # call.new
                  /\ sockets'[i].script = sockets[i].script /\ sockets'[i].live = sockets[i].live
      <3>1. /\ Open(i) /\ sockets[i].script \notin doubtful'
            /\ sockets'[i].script = sockets[i].script /\ sockets'[i].live = sockets[i].live
        BY <2>4, <2>8, <2>10 DEF Sure
      <3>2. Sure(i)
        BY <2>9, <3>1 DEF Sure
      <3>3. /\ sockets[i].script \in ScriptFds
            /\ meaning[sockets[i].script] # 0
            /\ kernel[sockets[i].live] = meaning[sockets[i].script]
        BY <1>2, <1>5, <1>6, <3>1, <3>2, EachSocket DEF TrackedInv, Open
      <3>4. sockets[i].script # f
        BY <2>9, <3>1 DEF ByScript, Open
      <3> QED
        BY <1>5, <1>6, <2>9, <3>1, <3>2, <3>3, <3>4
    <2>11. TrackedInv'
      <3>1. \A i \in DOMAIN sockets' : /\ sockets'[i].script = -1 <=> sockets'[i].live = -1
                                       /\ sockets'[i].script = -1 => ~sockets'[i].closed
        BY <1>2, <1>5, <1>6, <2>4, <2>8 DEF TrackedInv
      <3>2. ASSUME NEW i \in DOMAIN sockets, NEW j \in DOMAIN sockets, Sure(i)', Sure(j)',
                   sockets'[i].script = sockets'[j].script \/ sockets'[i].live = sockets'[j].live
            PROVE  i = j
        <4>1. CASE i = k
          BY <2>4, <2>10, <3>2, <4>1
        <4>2. CASE j = k
          BY <2>4, <2>10, <3>2, <4>2
        <4>3. CASE i # k /\ j # k
          BY <1>2, <2>10, <3>2, <4>3 DEF TrackedInv
        <4> QED
          BY <4>1, <4>2, <4>3
      <3>3. ASSUME NEW i \in DOMAIN sockets, Sure(i)'
            PROVE  /\ meaning'[sockets'[i].script] # 0
                   /\ kernel'[sockets'[i].live] = meaning'[sockets'[i].script]
        <4>1. kernel' = kernel
          BY <1>1 DEF unchangedKernel
        <4>2. CASE i = k
          BY <1>5, <1>6, <2>4, <2>5, <2>9, <4>1, <4>2
        <4>3. CASE i # k
          BY <2>5, <2>10, <3>3, <4>1, <4>3
        <4> QED
          BY <4>2, <4>3
      <3>4. ASSUME NEW g \in ScriptFds \ doubtful', meaning'[g] # 0
            PROVE  \E i \in DOMAIN sockets' : Sure(i)' /\ sockets'[i].script = g
        <4>1. CASE g = f
          BY <2>2, <2>4, <2>8, <3>4, <4>1 DEF Sure
        <4>2. CASE g # f
          <5>1. PICK i \in DOMAIN sockets : Sure(i) /\ sockets[i].script = g
            BY <1>2, <2>5, <2>9, <3>4, <4>2 DEF TrackedInv
          <5>2. Open(i)' /\ i # k
            BY <2>8, <5>1 DEF Sure
          <5> QED
            BY <2>4, <3>4, <5>1, <5>2 DEF Sure
        <4> QED
          BY <4>1, <4>2
      <3> QED
        BY <2>4, <2>7, <3>1, <3>2, <3>3, <3>4 DEF TrackedInv
    <2>12. KernelInv'
      <3>1. ASSUME NEW l \in LiveFds, kernel[l] # 0
            PROVE  \E i \in DOMAIN sockets' : Open(i)' /\ sockets'[i].live = l
        <4>1. CASE l = call.new
          BY <2>2, <2>4, <2>8, <4>1
        <4>2. CASE l # call.new
          <5>1. PICK i \in DOMAIN sockets : Open(i) /\ sockets[i].live = l
            BY <1>2, <3>1, <4>2 DEF KernelInv
          <5> QED
            BY <2>4, <2>8, <5>1
        <4> QED
          BY <4>1, <4>2
      <3> QED
        BY <1>1, <1>2, <2>7, <3>1 DEF KernelInv, unchangedKernel
    <2>13. AcceptInv'
      <3>1. \A i \in DOMAIN sockets : Acked(i) /\ sockets'[i].script # -1 =>
              \A c \in pending : sockets[i].remote < c.object
        <4>1. \A c \in pending : sockets[k].remote < c.object
          BY <1>2, <1>5, <1>6, <2>1 DEF AcceptInv
        <4> QED
          BY <1>2, <2>4, <4>1 DEF AcceptInv
      <3>2. PeeledOff' <=> PeeledOff
        BY <2>4 DEF PeeledOff
      <3> QED
        BY <1>1, <1>2, <2>4, <2>7, <2>8, <3>1, <3>2 DEF AcceptInv, unchangedKernel
    <2>14. StateTypes'
      BY <1>1, <1>2, <2>4, <2>5, <2>9 DEF TypeOK, StateTypes, unchangedKernel
    <2> QED
      BY <1>1, <1>2, <1>6, <2>6, <2>7, <2>11, <2>12, <2>13, <2>14, ForwardInv DEF Kept, SameResult
  <1>7. CASE /\ call.result = "value" /\ Acceptable # 0 /\ sockets[Acceptable].remote # call.object
             /\ broken' = broken \cup {"accept"}
             /\ Fail(mem) /\ UNCHANGED <<sockets, meaning, doubtful>>
    <2>1. ~PeeledOff => Cardinality(Waiting) > 1
      BY <1>2, <1>5, <1>7, TwoWait
    <2>2. Waiting' = Waiting /\ (PeeledOff' <=> PeeledOff)
      BY <1>7 DEF Waiting, PeeledOff
    <2>3. NothingBroken'
      BY <1>2, <1>7, <2>1, <2>2 DEF NothingBroken
    <2>4. StateTypes'
      BY <1>1, <1>2, <1>7, SameTypes DEF unchangedSockets, unchangedKernel
    <2> QED
      BY <1>1, <1>2, <1>7, <2>3, <2>4, FailInv DEF Tracks
  <1>8. ASSUME call.result = "value", wire, NEW f \in ScriptFds, Accepted(f),
               Insert(Socket(f, call.new, "init", call.object, NewMap)),
               Proceed, UNCHANGED <<mem, broken>>
        PROVE  IInv'
    <2>1. PICK s : s = Socket(f, call.new, "init", call.object, NewMap)
      OBVIOUS
    <2>2. /\ s \in Sockets /\ s.script = f /\ s.live = call.new /\ ~s.closed
          /\ s.remote = call.object /\ s.state # "acked"
      <3>1. PICK l \in LiveFds, r \in Nat : l = call.new /\ r = call.object
        BY <1>5, <1>8
      <3> QED
        BY <1>2, <2>1, <3>1, NewSocket
    <2>3. s.remote <= objects /\ Insert(s) /\ MakesSocket(call.name)
      BY <1>3, <1>5, <1>8, <2>1, <2>2 DEF MakesSocket
    <2>4. /\ meaning' = [meaning EXCEPT ![f] = call.object]
          /\ doubtful \subseteq doubtful' /\ doubtful' \subseteq doubtful \cup {f}
          /\ ByScript(f) = {} \/ f \in doubtful'
      BY <1>8 DEF Accepted
    <2> QED
      BY <1>1, <1>2, <1>3, <1>8, <2>2, <2>3, <2>4, InsertInv
  <1> QED
    BY <1>4, <1>6, <1>7, <1>8 DEF TrackAccept

(***************************************************************************)
(* The theorems.                                                           *)
(***************************************************************************)
\* Every step of a handler, a client and the end of the test keep the invariant.
THEOREM Invariance == Spec => []IInv
  <1>1. Init => IInv
    BY InitInv
  <1>2. IInv /\ [Next]_vars => IInv'
    <2> SUFFICES ASSUME IInv, [Next]_vars PROVE IInv'
      OBVIOUS
    <2>1. CASE Next
      BY <2>1, InvokeInv, ArgsInv, FdInv, AllocateInv, MsghdrInv, FreeInv, BeginInv, KernelStepInv, EndInv,
         CheckInv, CheckCmsghdrInv, NewInv, ListenInv, ConnectInv, AcceptStepInv, CloseInv,
         PeeloffInv, ReturnInv, ChildInv, CloseAllInv DEF Next
    <2>2. CASE UNCHANGED vars
      BY <2>2, StutterInv
    <2> QED
      BY <2>1, <2>2
  <1> QED
    BY <1>1, <1>2, PTL DEF Spec

\* The variables keep their types, and a handler never runs past its last step.
THEOREM TypeCorrect == Spec => []TypeOK
  <1>1. IInv => TypeOK
    BY DEF IInv
  <1> QED
    BY <1>1, Invariance, PTL

\* find_socket_by_script_fd() and to_live_fd(): every call is made on the socket the script means,
\* unless the number was given out while in use or its close() failed.
THEOREM CallsIntendedSocket == Spec => []IntendedSocket
  <1>1. IInv => IntendedSocket
    <2> SUFFICES ASSUME IInv, At({"kernel"}), call.live >= 0, call.fd \notin doubtful
                 PROVE  meaning[call.fd] # 0 /\ kernel[call.live] = meaning[call.fd]
      BY DEF IntendedSocket
    <2>1. /\ TrackedInv /\ CallInv /\ InCall /\ Pending /\ call \in Calls
          /\ StepFacts(call.name, call.pc) /\ call.pc <= Len(Steps) /\ Step = "kernel"
          /\ Steps = system_call_table[call.name].steps
      BY AtFacts
    <2>2. ~Closing /\ Passed({"fd"})
      BY <2>1 DEF StepFacts, Step, Passed, CallInv, Closing
    <2>3. PICK i \in DOMAIN sockets : Found(i)
      BY <2>1, <2>2 DEF TrackedInv
    <2>4. Sure(i) /\ sockets[i].script = call.fd /\ sockets[i].live = call.live
      BY <2>3 DEF Found, Sure
    <2> QED
      BY <2>1, <2>2, <2>4 DEF TrackedInv
  <1> QED
    BY <1>1, Invariance, PTL

\* Between calls the script, the tracked sockets and the kernel hold the same descriptors, the
\* doubtful numbers excepted, and every descriptor of the kernel has its struct.
THEOREM NamesAlwaysAgree == Spec => []NamesAgree
  <1>1. IInv => NamesAgree
    <2> SUFFICES ASSUME IInv, test = "running", call = Idle
                 PROVE  /\ \A f \in ScriptFds \ doubtful :
                             IF meaning[f] = 0 THEN ByScript(f) = {}
                             ELSE /\ Cardinality(ByScript(f)) = 1
                                  /\ kernel[to_live_fd(f)] = meaning[f]
                        /\ \A l \in LiveFds : kernel[l] # 0 =>
                             \E i \in ByLive(l) :
                               sockets[i].script \in doubtful \/ meaning[sockets[i].script] = kernel[l]
      BY DEF NamesAgree
    <2>1. TypeOK /\ TrackedInv /\ KernelInv /\ ~Creating /\ ~Closing
      BY DEF IInv, InCall, Creating, Closing
    <2>2. ASSUME NEW f \in ScriptFds \ doubtful
          PROVE  \A i \in ByScript(f) : i \in DOMAIN sockets /\ Open(i) /\ Sure(i) /\ sockets[i].script = f
      BY <2>2, FdsAssumption DEF ByScript, Open, Sure
    <2>3. ASSUME NEW f \in ScriptFds \ doubtful, meaning[f] = 0
          PROVE  ByScript(f) = {}
      BY <2>1, <2>2, <2>3 DEF TrackedInv
    <2>4. ASSUME NEW f \in ScriptFds \ doubtful, meaning[f] # 0
          PROVE  Cardinality(ByScript(f)) = 1 /\ kernel[to_live_fd(f)] = meaning[f]
      <3>1. PICK j \in DOMAIN sockets : Sure(j) /\ sockets[j].script = f
        BY <2>1, <2>4 DEF TrackedInv
      <3>2. ByScript(f) = {j}
        <4>1. j \in ByScript(f)
          BY <3>1 DEF ByScript, Open, Sure
        <4> QED
          BY <2>1, <2>2, <3>1, <4>1 DEF TrackedInv
      <3>3. to_live_fd(f) = sockets[j].live
        <4>1. PICK i : i = find_socket_by_script_fd(f)
          OBVIOUS
        <4>2. /\ i \in DOMAIN sockets /\ Open(i) /\ sockets[i].script = f
              /\ to_live_fd(f) = sockets[i].live
          BY <2>1, <3>2, <4>1, Find
        <4>3. i \in ByScript(f)
          BY <4>2 DEF ByScript, Open
        <4> QED
          BY <3>2, <4>2, <4>3
      <3> QED
        BY <2>1, <3>1, <3>2, <3>3, FS_Singleton DEF TrackedInv
    <2>5. ASSUME NEW l \in LiveFds, kernel[l] # 0
          PROVE  \E i \in ByLive(l) :
                   sockets[i].script \in doubtful \/ meaning[sockets[i].script] = kernel[l]
      <3>1. PICK i \in DOMAIN sockets : Open(i) /\ sockets[i].live = l
        BY <2>1, <2>5 DEF KernelInv
      <3>2. i \in ByLive(l)
        BY <3>1 DEF ByLive, Open
      <3>3. Sure(i) => kernel[l] = meaning[sockets[i].script]
        BY <2>1, <3>1 DEF TrackedInv
      <3> QED
        BY <3>1, <3>2, <3>3 DEF Sure
    <2> QED
      BY <2>3, <2>4, <2>5
  <1> QED
    BY <1>1, Invariance, PTL

\* No assert fails and nothing is closed or freed twice but where NothingBroken says so.
THEOREM NothingBreaks == Spec => []NothingBroken
  <1>1. IInv => NothingBroken
    BY DEF IInv, OutcomeInv
  <1> QED
    BY <1>1, Invariance, PTL

\* A handler that returns has passed end_syscall() if it made the call, and freed its memory.
LEMMA Returned ==
  ASSUME IInv, InCall, call.pc > Len(Steps)
  PROVE  /\ CallInv /\ call \in Calls /\ ~Pending
         /\ call.result # "none" => Passed(Ends)
         /\ \A m : ~HeldAt(call.name, call.pc, m)
  <1>1. CallInv /\ TypeOK
    BY DEF IInv
  <1>2. call \in Calls /\ call.pc \in 1 .. (Len(Steps) + 1)
    BY <1>1 DEF TypeOK, InCall
  <1>3. call.name \in DOMAIN system_call_table /\ Steps = system_call_table[call.name].steps
    BY <1>2 DEF Calls, Steps, Handler
  <1>4. Len(Steps) \in Nat
    BY <1>3, TableShape DEF Shape
  <1>5. call.pc = Len(Steps) + 1
    BY <1>2, <1>4
  <1>6. StepFacts(call.name, call.pc)
    BY <1>3, <1>4, <1>5, TableFacts
  <1>7. /\ Passed({"kernel"}) => Passed(Ends)
        /\ \A m : ~HeldAt(call.name, call.pc, m)
    BY <1>3, <1>5, <1>6 DEF StepFacts, Passed
  <1> QED
    BY <1>1, <1>2, <1>4, <1>5, <1>7 DEF CallInv, Pending

\* The checks of a handler are right both ways.
THEOREM VerdictsAreRight == Spec => []VerdictIsRight
  <1>1. IInv => VerdictIsRight
    <2> SUFFICES ASSUME IInv PROVE PassMeansMatch /\ FailMeansMismatch
      BY DEF VerdictIsRight
    <2>1. FailMeansMismatch
      BY DEF IInv, OutcomeInv
    <2>2. ASSUME InCall, call.pc > Len(Steps), call.result # "none"
          PROVE  /\ call.expect = call.result \/ (call.new >= 0 /\ call.expect = "another")
                 /\ call.outs # "differ"
      <3>1. CallInv /\ call \in Calls /\ ~Pending /\ Passed(Ends)
        BY <2>2, Returned
      <3>2. call.new # -1 => call.new >= 0
        <4>1. call.new \in LiveFds \cup {-1}
          BY <3>1 DEF Calls
        <4>2. ASSUME NEW l \in LiveFds PROVE l >= 0
          BY FdsAssumption
        <4> QED
          BY <4>1, <4>2
      <3> QED
        BY <3>1, <3>2 DEF CallInv
    <2> QED
      BY <2>1, <2>2 DEF PassMeansMatch
  <1> QED
    BY <1>1, Invariance, PTL

\* Neither a call nor a test leaves memory, a bracket or a descriptor behind.
THEOREM NothingStaysBehind == Spec => []NothingLeftBehind
  <1>1. IInv => NothingLeftBehind
    <2> SUFFICES ASSUME IInv PROVE CallLeavesNothing /\ AllClosed
      BY DEF NothingLeftBehind
    <2>1. AllClosed
      BY DEF IInv, OutcomeInv
    <2>2. ASSUME InCall, call.pc > Len(Steps)
          PROVE  mem \subseteq {"live_addrs"} /\ (call.result # "none" => call.bracket = "done")
      BY <2>2, Returned DEF CallInv
    <2> QED
      BY <2>1, <2>2 DEF CallLeavesNothing
  <1> QED
    BY <1>1, Invariance, PTL
=============================================================================
