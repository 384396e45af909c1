--------------------------- MODULE SyscallHandlers ---------------------------
(***************************************************************************)
(* The handlers of run_system_call.c, from the check of the arguments to   *)
(* the update of the tracked sockets, over a script that makes any calls   *)
(* in any order, and the end of the test (close_all_sockets() in run.c).   *)
(*                                                                         *)
(* A handler is the sequence of its steps, in the order of the code, and   *)
(* the memory that its error exit frees.  One step of the model is one     *)
(* step of the handler in progress.  StructArguments models the members of *)
(* the structs a handler passes, SyscallThread the threads.                *)
(*                                                                         *)
(* The kernel hands out the lowest free descriptor; what a script calls 3  *)
(* need not be what the kernel calls 3.  MaxPending bounds the connections *)
(* that wait for accept(), MaxSockets the struct sockets ever made,        *)
(* MaxMessages the control messages of a msghdr.                           *)
(* The branches are those of the FreeBSD build.                            *)
(***************************************************************************)
EXTENDS Integers, FiniteSetsExt, SequencesExt

CONSTANTS ScriptFds, LiveFds, MaxSockets, MaxPlain, MaxPending, MaxMessages

ASSUME FdsAssumption ==
  /\ ScriptFds \subseteq Nat /\ LiveFds \subseteq Nat
  /\ MaxSockets \in Nat /\ MaxPlain \in Nat /\ MaxPending \in Nat /\ MaxMessages \in Nat

VARIABLES
  objects,   \* the number of objects the kernel has made
  sockets,   \* state->sockets, newest first
  kernel,    \* the kernel's descriptors: live fd -> object, 0 if free
  listening, \* the objects that listen
  pending,   \* the connections accept() may return: the listening object and the new one
  meaning,   \* what the script means by an fd: script fd -> object, 0 if closed
  doubtful,  \* the script's fds that were given out again while open, or whose close() failed
  call,      \* the call in progress, or Idle
  mem,       \* the memory the call has allocated
  broken,    \* what has gone wrong: asserts that failed, memory freed wrongly
  wire,      \* is this a wire client, which sees no packets?
  test       \* "running", "passed" or "failed"

vars == <<objects, sockets, kernel, listening, pending, meaning, doubtful, call, mem, broken, wire,
          test>>

------------------------------------------------------------------------------
(* The handlers. *)
H(steps, error_out) == [steps |-> steps, error_out |-> error_out]

Buffer  == {"buf"}
Iovec   == {"iov", "base"}
Msghdr  == {"msg", "name", "iov", "base", "control"}
SfHdtr  == {"hdtr", "headers", "trailers"}

syscall_socket   == H(<<"args", "begin", "kernel", "end_fd", "socket">>, {})
syscall_bind     == H(<<"args", "fd", "args", "begin", "kernel", "end">>, {})
syscall_listen   == H(<<"args", "fd", "args", "begin", "kernel", "end", "listen">>, {})
syscall_accept   == H(<<"args", "fd", "args", "begin", "kernel", "end_fd", "accept">>, {})
syscall_connect  == H(<<"args", "fd", "args", "connect", "begin", "kernel", "end">>, {})
syscall_read     == H(<<"args", "fd", "args", "malloc", "begin", "kernel", "end", "free">>, Buffer)
syscall_recv     == H(<<"args", "fd", "args", "malloc", "begin", "kernel", "end", "free">>, Buffer)
syscall_recvfrom == H(<<"args", "fd", "args", "malloc", "begin", "kernel", "end", "free">>, Buffer)
syscall_write    == H(<<"args", "fd", "args", "malloc", "begin", "kernel", "end", "free">>, Buffer)
syscall_send     == H(<<"args", "fd", "args", "malloc", "begin", "kernel", "end", "free">>, Buffer)
syscall_sendto   == H(<<"args", "fd", "args", "connect_any", "malloc", "begin", "kernel", "end",
                        "free">>, Buffer)
syscall_readv    == H(<<"args", "fd", "args", "iovec_new", "args", "begin", "kernel", "end",
                        "iovec_free">>, Iovec)
syscall_writev   == H(<<"args", "fd", "args", "iovec_new", "args", "begin", "kernel", "end",
                        "iovec_free">>, Iovec)
syscall_recvmsg  == H(<<"args", "fd", "args", "msghdr_new", "args", "begin", "kernel", "end",
                        "check_flags", "check_cmsghdr", "msghdr_free">>, Msghdr)
syscall_sendmsg  == H(<<"args", "fd", "args", "msghdr_new", "args", "connect_any", "args",
                        "begin", "kernel", "end", "check_cmsghdr", "msghdr_free">>, Msghdr)
syscall_fcntl    == H(<<"args", "fd", "args", "begin", "kernel", "end">>, {})
syscall_ioctl    == H(<<"args", "fd", "args", "begin", "kernel", "end", "check">>, {})
syscall_close    == H(<<"args", "fd", "begin", "kernel", "end_keep", "close">>, {})
syscall_shutdown == H(<<"args", "fd", "args", "begin", "kernel", "end">>, {})
syscall_getsockopt == H(<<"args", "fd", "args", "malloc", "args", "begin", "kernel", "end",
                          "check_optlen", "check_if_ok", "free">>, Buffer)
syscall_setsockopt == H(<<"args", "fd", "args", "malloc_some", "args", "begin", "kernel", "free",
                          "end">>, Buffer)
syscall_poll     == H(<<"args", "pollfds_new", "fd", "args", "begin", "kernel", "end", "check",
                        "free">>, Buffer)
syscall_open     == H(<<"args", "begin", "kernel", "end_fd", "open">>, {})
syscall_sendfile == H(<<"args", "fd", "args", "fd2", "args", "sf_hdtr_new", "args", "begin",
                        "kernel", "end", "check", "sf_hdtr_free">>, SfHdtr)
syscall_sctp_sendmsg == H(<<"args", "fd", "args", "malloc", "begin", "kernel", "free", "end">>, {})
syscall_sctp_recvmsg == H(<<"args", "fd", "args", "malloc", "begin", "kernel", "free", "end",
                            "check">>, {})
syscall_sctp_send  == H(<<"args", "fd", "args", "malloc", "begin", "kernel", "free", "end",
                          "check">>, {})
syscall_sctp_sendx == H(<<"args", "fd", "args", "addrs", "args", "malloc", "begin", "kernel",
                          "end", "check", "free", "free_addrs">>, {"buf", "addrs"})
syscall_sctp_sendv == H(<<"args", "fd", "args", "iovec_new_unchecked", "args", "addrs", "args",
                          "begin", "kernel", "end", "free_addrs", "iovec_free">>,
                        Iovec \cup {"addrs"})
syscall_sctp_recvv == H(<<"args", "fd", "args", "iovec_new_unchecked", "args", "addrs", "begin",
                          "kernel", "end", "check", "free_addrs", "iovec_free">>,
                        Iovec \cup {"addrs"})
syscall_sctp_bindx    == H(<<"args", "fd", "args", "begin", "kernel", "end">>, {})
syscall_sctp_connectx == H(<<"args", "fd", "args", "connect", "begin", "kernel", "end",
                             "check">>, {})
syscall_sctp_peeloff  == H(<<"args", "fd", "args", "begin", "kernel", "end_fd", "peeloff">>, {})
syscall_sctp_getpaddrs == H(<<"args", "fd", "args", "begin", "kernel", "end", "check">>,
                            {"live_addrs"})
syscall_sctp_getladdrs == H(<<"args", "fd", "args", "begin", "kernel", "end", "check">>,
                            {"live_addrs"})
syscall_sctp_freepaddrs == H(<<"args">>, {})
syscall_sctp_freeladdrs == H(<<"args">>, {})

(* The dispatch on the name of the call. *)
system_call_table ==
  [socket |-> syscall_socket, bind |-> syscall_bind, listen |-> syscall_listen,
   accept |-> syscall_accept, connect |-> syscall_connect, read |-> syscall_read,
   readv |-> syscall_readv, recv |-> syscall_recv, recvfrom |-> syscall_recvfrom,
   recvmsg |-> syscall_recvmsg, write |-> syscall_write, writev |-> syscall_writev,
   send |-> syscall_send, sendto |-> syscall_sendto, sendmsg |-> syscall_sendmsg,
   fcntl |-> syscall_fcntl, ioctl |-> syscall_ioctl, close |-> syscall_close,
   shutdown |-> syscall_shutdown, getsockopt |-> syscall_getsockopt,
   setsockopt |-> syscall_setsockopt, poll |-> syscall_poll, open |-> syscall_open,
   sendfile |-> syscall_sendfile, sctp_sendmsg |-> syscall_sctp_sendmsg,
   sctp_recvmsg |-> syscall_sctp_recvmsg, sctp_send |-> syscall_sctp_send,
   sctp_sendx |-> syscall_sctp_sendx, sctp_sendv |-> syscall_sctp_sendv,
   sctp_recvv |-> syscall_sctp_recvv, sctp_bindx |-> syscall_sctp_bindx,
   sctp_connectx |-> syscall_sctp_connectx, sctp_peeloff |-> syscall_sctp_peeloff,
   sctp_getpaddrs |-> syscall_sctp_getpaddrs, sctp_getladdrs |-> syscall_sctp_getladdrs,
   sctp_freepaddrs |-> syscall_sctp_freepaddrs, sctp_freeladdrs |-> syscall_sctp_freeladdrs]

------------------------------------------------------------------------------
(* Tracked sockets. *)
Idle == [name |-> "none", pc |-> 0, bracket |-> "idle"]

Socket(script, live, state, remote, map) ==
  [script |-> script, live |-> live, state |-> state, closed |-> FALSE, remote |-> remote,
   map |-> map]

NewMap == Len(sockets) + 1      \* the ts_val_map that socket_new() allocates
Fresh == objects + 1            \* a new object of the kernel

(* The indices of the open sockets with this script or live fd; the newest is found. *)
ByScript(f) == {i \in DOMAIN sockets : ~sockets[i].closed /\ sockets[i].script = f}
ByLive(l)   == {i \in DOMAIN sockets : ~sockets[i].closed /\ sockets[i].live = l}

\* Mutant: a socket that was closed is found as well.
find_socket_by_script_fd_closed(f) ==
  LET is == {i \in DOMAIN sockets : sockets[i].script = f} IN IF is = {} THEN 0 ELSE Min(is)

find_socket_by_script_fd(f) == IF ByScript(f) = {} THEN 0 ELSE Min(ByScript(f))
find_socket_by_live_fd(l)   == IF ByLive(l) = {} THEN 0 ELSE Min(ByLive(l))

to_live_fd(f) ==
  LET i == find_socket_by_script_fd(f) IN IF i = 0 THEN -1 ELSE sockets[i].live

insert_new_socket(f, l) ==
  /\ f >= 0 /\ l >= 0
  /\ find_socket_by_script_fd(f) = 0 /\ find_socket_by_live_fd(l) = 0

\* Mutant: the oldest one is taken.
Acceptable_oldest ==
  LET is == {i \in DOMAIN sockets : sockets[i].state = "acked"} IN
  IF is = {} THEN 0 ELSE Max(is)

(* The newest socket in a state in which accept() may return it, open or not. *)
Acceptable ==
  LET is == {i \in DOMAIN sockets : sockets[i].state = "acked"} IN
  IF is = {} THEN 0 ELSE Min(is)

------------------------------------------------------------------------------
Init ==
  /\ objects = 0 /\ sockets = <<>> /\ pending = {} /\ listening = {} /\ doubtful = {}
  /\ kernel = [l \in LiveFds |-> 0]
  /\ meaning = [f \in ScriptFds |-> 0]
  /\ call = Idle /\ mem = {} /\ broken = {}
  /\ wire \in BOOLEAN
  /\ test = "running"

Handler == system_call_table[call.name]
Steps == Handler.steps
InCall == test = "running" /\ call # Idle
At(ops) == InCall /\ call.pc <= Len(Steps) /\ Steps[call.pc] \in ops
Step == Steps[call.pc]

Proceed == call' = [call EXCEPT !.pc = @ + 1] /\ UNCHANGED test

(* An error return.  invoke_system_call() ends the test. *)
Fail(allocated) ==
  /\ test' = "failed"
  /\ mem' = allocated \ Handler.error_out
  /\ call' = [call EXCEPT !.pc = 0]

Room(n) == Len(sockets) + n <= MaxSockets /\ objects + n <= MaxSockets
MakesSocket(name) == name \in {"socket", "open", "sctp_peeloff"} \/ (name = "accept" /\ wire)

(* The calls that leave the tracked sockets as they are: all look them up in the same way, and *)
(* with more than MaxPlain sockets only the others are made. *)
TrackingSteps == {"socket", "open", "listen", "connect", "connect_any", "accept", "close", "peeloff"}
Plain(name) ==
  \A i \in DOMAIN system_call_table[name].steps :
    system_call_table[name].steps[i] \notin TrackingSteps

unchangedKernel == UNCHANGED <<objects, kernel, listening, pending, wire>>
unchangedSockets == unchangedKernel /\ UNCHANGED <<sockets, meaning, doubtful>>

(* invoke_system_call() *)
Invoke ==
  /\ test = "running" /\ call = Idle
  /\ \E n \in DOMAIN system_call_table :
       /\ MakesSocket(n) => Room(1)
       /\ Plain(n) => Len(sockets) <= MaxPlain
       /\ call' = [name |-> n, pc |-> 1, fd |-> -1, live |-> -1, live2 |-> -1, result |-> "none",
                   expect |-> "none", new |-> -1, object |-> 0, outs |-> "none",
                   bracket |-> "enqueued"]
  /\ unchangedSockets /\ UNCHANGED <<mem, broken, test>>

(* check_arg_count(), s32_arg(), ellipsis_arg() and the like *)
Args ==
  /\ At({"args"})
  /\ (Proceed /\ UNCHANGED mem) \/ Fail(mem)
  /\ unchangedSockets /\ UNCHANGED broken

Fd ==
  /\ At({"fd", "fd2"})
  /\ \E f \in ScriptFds :
       \/ /\ to_live_fd(f) >= 0
          /\ call' = IF Step = "fd"
                     THEN [call EXCEPT !.pc = @ + 1, !.fd = f, !.live = to_live_fd(f)]
                     ELSE [call EXCEPT !.pc = @ + 1, !.live2 = to_live_fd(f)]
          /\ UNCHANGED <<mem, test>>
       \/ to_live_fd(f) < 0 /\ Fail(mem)
  /\ unchangedSockets /\ UNCHANGED broken

(* iovec_new(), pollfds_new() and sf_hdtr_new() leave what they have allocated to the caller *)
(* when they fail. *)
Allocates(op) ==
  CASE op \in {"malloc", "malloc_some", "pollfds_new"} -> Buffer
    [] op \in {"iovec_new", "iovec_new_unchecked"} -> Iovec
    [] op = "msghdr_new" -> Msghdr [] op = "sf_hdtr_new" -> SfHdtr [] op = "addrs" -> {"addrs"}

Allocators == {"malloc", "malloc_some", "pollfds_new", "iovec_new", "iovec_new_unchecked",
               "msghdr_new", "sf_hdtr_new", "addrs"}

Allocate ==
  /\ At(Allocators \ {"msghdr_new"})
  /\ \/ mem' = mem \cup Allocates(Step) /\ Proceed
     \/ /\ Step \in {"malloc_some", "addrs", "iovec_new_unchecked"}   \* not needed, or failed
        /\ UNCHANGED mem /\ Proceed
     \/ Step \notin {"malloc", "malloc_some", "iovec_new_unchecked"} /\ Fail(mem \cup Allocates(Step))
  /\ unchangedSockets /\ UNCHANGED broken

(* cmsg_new() takes every entry of the list for a control message when it sums up the sizes, *)
(* and only then checks its type; a level or type that is left open is refused. *)
cmsg_new(entries) ==
  IF "other" \in ToSet(entries) THEN "crash" ELSE IF "open" \in ToSet(entries) THEN "err" ELSE "ok"

(* msghdr_new() fails as well for another msghdr, iovec or msg_controllen than it can use. *)
MsghdrNew ==
  /\ At({"msghdr_new"})
  /\ \E entries \in BoundedSeq({"message", "open", "other"}, MaxMessages) :
       \/ /\ cmsg_new(entries) = "ok"
          /\ mem' = mem \cup Msghdr /\ Proceed /\ UNCHANGED broken
       \/ cmsg_new(entries) # "crash" /\ Fail(mem \cup Msghdr) /\ UNCHANGED broken
       \/ /\ cmsg_new(entries) = "crash"
          /\ broken' = broken \cup {"cmsg_entry"}
          /\ Fail(mem \cup Msghdr)
  /\ unchangedSockets

\* Mutant: the buffers of an iovec are forgotten.
Releases_forgets(op) ==
  CASE op = "free" -> Buffer [] op = "iovec_free" -> {"iov"} [] op = "msghdr_free" -> Msghdr
    [] op = "sf_hdtr_free" -> SfHdtr [] op = "free_addrs" -> {"addrs"}

Releases(op) ==
  CASE op = "free" -> Buffer [] op = "iovec_free" -> Iovec [] op = "msghdr_free" -> Msghdr
    [] op = "sf_hdtr_free" -> SfHdtr [] op = "free_addrs" -> {"addrs"}

Free ==
  /\ At({"free", "iovec_free", "msghdr_free", "sf_hdtr_free", "free_addrs"})
  /\ mem' = mem \ Releases(Step)
  /\ Proceed /\ unchangedSockets /\ UNCHANGED broken

(* begin_syscall() *)
Begin ==
  /\ At({"begin"})
  /\ call' = [call EXCEPT !.pc = @ + 1, !.bracket = "running"]
  /\ broken' = broken \cup IF call.bracket = "enqueued" THEN {} ELSE {"begin"}
  /\ unchangedSockets /\ UNCHANGED <<mem, test>>

(* The system call.  A created descriptor is the lowest free one; accept() returns the *)
(* connection that waits longest; no call but poll() succeeds on a descriptor that is not *)
(* open.  close() gives the descriptor back also when it fails (ECONNRESET, EINTR). *)
FreeFds == {l \in LiveFds : kernel[l] = 0}
Oldest == CHOOSE c \in pending : \A d \in pending : c.object <= d.object
Creators == {"socket", "open", "accept", "sctp_peeloff"}

PlainCall ==
  /\ call.name \notin Creators \cup {"close"}
  /\ \E r \in {"value", "fail"} :
       /\ r = "value" => call.name = "poll" \/ kernel[call.live] # 0
       /\ call' = [call EXCEPT !.pc = @ + 1, !.result = r]
       /\ mem' = IF call.name \in {"sctp_getpaddrs", "sctp_getladdrs"} /\ r = "value"
                 THEN mem \cup {"live_addrs"} ELSE mem
       /\ listening' = IF call.name = "listen" /\ r = "value"
                       THEN listening \cup {kernel[call.live]} ELSE listening
  /\ UNCHANGED <<objects, kernel, pending, doubtful>>

FailedCall ==
  /\ call.name \in Creators
  /\ call' = [call EXCEPT !.pc = @ + 1, !.result = "fail"]
  /\ UNCHANGED <<objects, kernel, listening, pending, mem, doubtful>>

CloseCall ==
  /\ call.name = "close"
  /\ \E r \in {"value", "fail"} :
       /\ r = "value" => kernel[call.live] # 0
       /\ call' = [call EXCEPT !.pc = @ + 1, !.result = r]
       \* the script's other names for what is closed here, and its own if it is not marked closed
       /\ doubtful' = doubtful \cup ({sockets[i].script : i \in ByLive(call.live)} \ {call.fd})
                               \cup (IF r = "fail" THEN {call.fd} ELSE {})
  /\ kernel' = [kernel EXCEPT ![call.live] = 0]
  /\ listening' = listening \ {kernel[call.live]}
  /\ pending' = {c \in pending : c.on # kernel[call.live]}
  /\ UNCHANGED <<objects, mem>>

CreateCall ==
  /\ call.name \in Creators /\ FreeFds # {}
  /\ call.name = "accept" => pending # {} /\ Oldest.on = kernel[call.live]
  \* a one-to-many socket with an association
  /\ call.name = "sctp_peeloff" =>
       /\ kernel[call.live] # 0
       /\ \E i \in ByScript(call.fd) : sockets[i].state \in {"listening", "connecting"}
  /\ LET l == Min(FreeFds)
         o == IF call.name = "accept" THEN Oldest.object ELSE Fresh IN
     /\ kernel' = [kernel EXCEPT ![l] = o]
     /\ call' = [call EXCEPT !.pc = @ + 1, !.result = "value", !.new = l, !.object = o]
  /\ pending' = IF call.name = "accept" THEN pending \ {Oldest} ELSE pending
  /\ objects' = IF call.name = "accept" THEN objects ELSE Fresh
  /\ UNCHANGED <<listening, mem, doubtful>>

Kernel ==
  /\ At({"kernel"})
  /\ PlainCall \/ FailedCall \/ CloseCall \/ CreateCall
  /\ UNCHANGED <<sockets, meaning, broken, wire, test>>

(* The comparisons of end_syscall(), CHECK_FD and CHECK_EXACT, result and errno. *)
ResultAgrees(mode, expect) ==
  IF mode = "end_fd" /\ expect # "fail" THEN call.result # "fail" ELSE call.result = expect

(* The addresses that an error exit frees although the library did not set the pointer. *)
Uninitialised == IF "live_addrs" \in Handler.error_out \ mem THEN {"uninitialised"} ELSE {}

EndWith(e) ==
  \/ /\ ResultAgrees(Step, e)
     /\ call' = [call EXCEPT !.pc = @ + 1, !.expect = e, !.bracket = "done"]
     /\ UNCHANGED <<mem, test, kernel>>
  \/ /\ ~ResultAgrees(Step, e) /\ Step # "end_keep"
     /\ Fail(mem)
     /\ kernel' = IF call.new >= 0 /\ call.name # "sctp_peeloff"
                  THEN [kernel EXCEPT ![call.new] = 0] ELSE kernel
  \/ /\ ~ResultAgrees(Step, e) /\ Step = "end_keep"
     /\ call' = [call EXCEPT !.pc = @ + 1, !.expect = "wrong", !.bracket = "done"]
     /\ UNCHANGED <<mem, test, kernel>>

(* end_syscall().  The handlers that have created a descriptor close it on an error, *)
(* sctp_peeloff() excepted; close() goes on. *)
End ==
  /\ At({"end", "end_fd", "end_keep"})
  /\ \E e \in {"value", "another", "fail"} :
       /\ broken' = broken \cup (IF call.bracket = "running" THEN {} ELSE {"end"})
                           \cup (IF ResultAgrees(Step, e) THEN {} ELSE Uninitialised)
       /\ EndWith(e)
  /\ UNCHANGED <<objects, sockets, listening, pending, meaning, doubtful, wire>>

------------------------------------------------------------------------------
(* What the call returned through its arguments. *)

(* The calls whose outputs are not set before the call and compared whatever it returned. *)
Unguarded == {"ioctl", "sctp_recvmsg", "sctp_connectx", "sctp_recvv", "sendfile",
              "sctp_getpaddrs", "sctp_getladdrs"}

(* The struct that sctp_send() and sctp_sendx() are given is compared although they only read *)
(* it. *)
Written == call.result = "value" /\ call.name \notin {"sctp_send", "sctp_sendx"}

(* What the argument holds that is compared with the value the script says: the value that    *)
(* the call wrote; else anything; or the handler's own, the size of the option or buffers it  *)
(* has cleared; or the script's own, which was stored there (pollfds_new, msghdr_new).        *)
Values == {1, 2}
OwnValue == 1
Holds(said) ==
  IF Written \/ call.name \in Unguarded THEN Values
  ELSE IF Step = "check_optlen" THEN {OwnValue}
  ELSE IF Step = "check_flags" THEN {said, OwnValue} ELSE {said}

(* pollfds_check(), check_sockaddr(), check_sctp_notification() and the like; 0 is an ellipsis *)
Check ==
  /\ At({"check", "check_if_ok", "check_optlen", "check_flags"})
  /\ \/ /\ Step = "check_if_ok" /\ call.result = "fail"
        /\ Proceed /\ UNCHANGED <<mem, broken>>
     \/ /\ Step = "check_if_ok" => call.result # "fail"
        /\ \E said \in Values \cup {0} : \E live \in Holds(said) :
             LET o == IF ~Written THEN "unwritten"
                      ELSE IF said = 0 \/ said = live THEN "match" ELSE "differ" IN
             \/ /\ said \in {0, live}
                /\ call' = [call EXCEPT !.pc = @ + 1, !.outs = o]
                /\ UNCHANGED <<mem, broken, test>>
             \/ /\ said \notin {0, live}
                /\ test' = "failed" /\ mem' = mem \ Handler.error_out
                /\ call' = [call EXCEPT !.pc = 0, !.outs = o]
                /\ broken' = broken \cup Uninitialised
  /\ unchangedSockets

(* The control messages.  The script gives each a type, with the length that goes with it,   *)
(* and a struct; a sctp_sndrcvinfo takes twice the space of a sctp_rcvinfo.  The kernel      *)
(* returns as many as fit into the space of the script's structs.                            *)
Kinds == {"rcvinfo", "sndrcvinfo"}
ScriptMessages == [type : Kinds, struct : Kinds, data : {0, 1}]
LiveMessages == [type : Kinds, data : {0, 1}]

ScriptSpace(script) == Len(script) + Cardinality({i \in DOMAIN script : script[i].struct = "sndrcvinfo"})
LiveSpace(live) == Len(live) + Cardinality({i \in DOMAIN live : live[i].type = "sndrcvinfo"})

(* The buffer as cmsg_new() leaves it: a struct that is only received is not filled in. *)
Control(script) ==
  [i \in DOMAIN script |->
     [type |-> script[i].type, data |-> IF script[i].struct = "rcvinfo" THEN 0 ELSE script[i].data]]

\* One control message of the kernel against the script's list.
CheckMessage(script, live, i) ==
  IF i > Len(script) THEN "crash"                             \* get_arg() returns NULL
  ELSE IF script[i].type # live[i].type THEN "err"
  ELSE IF script[i].struct # live[i].type THEN "undefined"    \* read as another struct
  ELSE IF script[i].data # live[i].data THEN "err" ELSE "ok"

\* Mutant: the count of the messages is not compared.
check_cmsghdr_count(script, live) ==
  LET bad == {i \in DOMAIN live : CheckMessage(script, live, i) # "ok"} IN
  IF bad # {} THEN CheckMessage(script, live, Min(bad)) ELSE "ok"

(* The first message that differs ends the loop over the kernel's messages. *)
check_cmsghdr(script, live) ==
  LET bad == {i \in DOMAIN live : CheckMessage(script, live, i) # "ok"} IN
  IF bad # {} THEN CheckMessage(script, live, Min(bad))
  ELSE IF Len(live) # Len(script) THEN "err" ELSE "ok"

(* What should come out: the lists agree, or there is nothing to compare.  A struct of another *)
(* type than the one announced has no meaning. *)
Agreement(script, live, received) ==
  IF \E i \in DOMAIN script : script[i].type # script[i].struct THEN "undefined"
  ELSE IF ~received THEN "unwritten"
  ELSE IF /\ Len(live) = Len(script)
          /\ \A i \in DOMAIN live : live[i].type = script[i].type /\ live[i].data = script[i].data
  THEN "match" ELSE "differ"

CmsgCase(script, live, received) ==
  [verdict |-> check_cmsghdr(script, live), outs |-> Agreement(script, live, received)]

ScriptLists == BoundedSeq(ScriptMessages, MaxMessages)
ReceivedCases ==
  {CmsgCase(c[1], c[2], TRUE) :
     c \in {d \in ScriptLists \X BoundedSeq(LiveMessages, MaxMessages + 1) :
              LiveSpace(d[2]) <= ScriptSpace(d[1])}}
OwnCases == {CmsgCase(script, Control(script), FALSE) : script \in ScriptLists}

(* Only a recvmsg() that succeeds replaces the control messages of the script. *)
CheckCmsghdr ==
  /\ At({"check_cmsghdr"})
  /\ \E c \in IF call.name = "recvmsg" /\ call.result = "value" THEN ReceivedCases ELSE OwnCases :
       \/ /\ c.verdict \in {"ok", "undefined"}
          /\ call' = [call EXCEPT !.pc = @ + 1, !.outs = c.outs]
          /\ UNCHANGED <<mem, test, broken>>
       \/ /\ c.verdict # "ok"
          /\ test' = "failed" /\ mem' = mem \ Handler.error_out
          /\ call' = [call EXCEPT !.pc = 0, !.outs = c.outs]
          /\ broken' = broken \cup (IF c.verdict = "crash" THEN {"cmsg_count"} ELSE {})
                              \cup (IF c.verdict = "undefined" THEN {"cmsg_data"} ELSE {})
  /\ unchangedSockets

------------------------------------------------------------------------------
(* The tracked sockets follow the calls. *)
Insert(s) == sockets' = <<s>> \o sockets

(* run_syscall_socket(), and insert_new_socket() for open(); on an error the fd is closed. *)
TrackNew ==
  /\ At({"socket", "open"})
  /\ \/ call.result = "fail" /\ Proceed /\ UNCHANGED <<sockets, meaning, kernel, mem>>
     \/ /\ call.result = "value"
        /\ \E f \in ScriptFds :
             \/ /\ insert_new_socket(f, call.new)
                /\ Insert(Socket(f, call.new, "new", 0, NewMap))
                /\ meaning' = [meaning EXCEPT ![f] = call.object]
                /\ Proceed /\ UNCHANGED <<kernel, mem>>
             \/ /\ ~insert_new_socket(f, call.new)
                /\ kernel' = [kernel EXCEPT ![call.new] = 0]
                /\ Fail(mem) /\ UNCHANGED <<sockets, meaning>>
  /\ UNCHANGED <<objects, listening, pending, doubtful, broken, wire>>

(* run_syscall_listen() *)
TrackListen ==
  /\ At({"listen"})
  /\ LET i == find_socket_by_script_fd(call.fd) IN
     \/ /\ sockets[i].state = "new"
        /\ sockets' = [sockets EXCEPT ![i].state = "listening"]
        /\ Proceed /\ UNCHANGED mem
     \/ sockets[i].state # "new" /\ Fail(mem) /\ UNCHANGED sockets
  /\ unchangedKernel /\ UNCHANGED <<meaning, doubtful, broken>>

(* run_syscall_connect(), for connect() and for the calls that may connect. *)
TrackConnect ==
  /\ At({"connect", "connect_any"})
  /\ LET i == find_socket_by_script_fd(call.fd) IN
     \/ /\ sockets[i].state = "new"
        /\ sockets' = [sockets EXCEPT ![i].state = "connecting"]
        /\ Proceed /\ UNCHANGED mem
     \/ /\ call.name = "sendmsg" \/ (Step = "connect_any" /\ sockets[i].state # "new")
        /\ Proceed /\ UNCHANGED <<mem, sockets>>
     \/ Step = "connect" /\ sockets[i].state # "new" /\ Fail(mem) /\ UNCHANGED sockets
  /\ unchangedKernel /\ UNCHANGED <<meaning, doubtful, broken>>

(* run_syscall_accept(): the newest acceptable socket is taken for the one returned; a wire *)
(* client, which has no child sockets, makes one.  (Elsewhere there is always one: only the *)
(* packets of the script make connections.)  Unlike insert_new_socket(), neither looks      *)
(* whether the script uses the number already. *)
Accepted(f) ==
  /\ meaning' = [meaning EXCEPT ![f] = call.object]
  /\ doubtful' = IF ByScript(f) = {} THEN doubtful ELSE doubtful \cup {f}

TrackAccept ==
  /\ At({"accept"})
  /\ \/ call.result = "fail" /\ Proceed /\ UNCHANGED <<sockets, meaning, doubtful, mem, broken>>
     \/ /\ call.result = "value" /\ Acceptable # 0 /\ sockets[Acceptable].remote = call.object
        /\ \E f \in ScriptFds :
             /\ sockets' = [sockets EXCEPT ![Acceptable].script = f, ![Acceptable].live = call.new]
             /\ Accepted(f)
        /\ Proceed /\ UNCHANGED <<mem, broken>>
     \/ /\ call.result = "value" /\ Acceptable # 0 /\ sockets[Acceptable].remote # call.object
        /\ broken' = broken \cup {"accept"}              \* assert(is_equal_port(...))
        /\ Fail(mem) /\ UNCHANGED <<sockets, meaning, doubtful>>
     \/ /\ call.result = "value" /\ Acceptable = 0 /\ wire
        /\ \E f \in ScriptFds :
             /\ Insert(Socket(f, call.new, "init", call.object, NewMap))
             /\ Accepted(f)
        /\ Proceed /\ UNCHANGED <<mem, broken>>
  /\ unchangedKernel

\* Mutant: the socket is not marked.
run_syscall_close_forgets(i) == UNCHANGED sockets

run_syscall_close(i) == sockets' = [sockets EXCEPT ![i].closed = TRUE]

(* syscall_close(): a close() that has failed leaves the struct socket open. *)
TrackClose ==
  /\ At({"close"})
  /\ IF call.result = "value" THEN run_syscall_close(find_socket_by_script_fd(call.fd))
     ELSE UNCHANGED sockets
  /\ meaning' = [meaning EXCEPT ![call.fd] = 0]
  /\ IF call.expect = "wrong" THEN Fail(mem) ELSE Proceed /\ UNCHANGED mem
  /\ unchangedKernel /\ UNCHANGED <<doubtful, broken>>

(* run_syscall_sctp_peeloff(): the whole struct of the parent is copied over the new one, *)
(* also when the call has failed as the script expects, with -1 for both descriptors. *)
TrackPeeloff ==
  /\ At({"peeloff"})
  /\ LET i == find_socket_by_script_fd(call.fd) IN
     \/ sockets[i].state = "new" /\ Fail(mem) /\ UNCHANGED <<sockets, meaning, broken>>
     \/ /\ sockets[i].state # "new"
        /\ \E f \in IF call.result = "fail" THEN {-1} ELSE ScriptFds :
             \/ /\ ByScript(f) # {}               \* assert(new_socket == NULL)
                /\ broken' = broken \cup {"peeloff"}
                /\ Fail(mem) /\ UNCHANGED <<sockets, meaning>>
             \/ /\ ByScript(f) = {}
                /\ Insert([sockets[i] EXCEPT !.script = f, !.live = call.new])
                /\ meaning' = IF f < 0 THEN meaning ELSE [meaning EXCEPT ![f] = call.object]
                /\ Proceed /\ UNCHANGED <<mem, broken>>
  /\ unchangedKernel /\ UNCHANGED doubtful

Return ==
  /\ InCall /\ call.pc > Len(Steps)
  /\ call' = Idle /\ mem' = {}
  /\ unchangedSockets /\ UNCHANGED <<broken, test>>

------------------------------------------------------------------------------
(* A client connects: the packets of the script make a child socket, except on a wire *)
(* client.  This may happen while a call blocks. *)
Child ==
  /\ test = "running" /\ call.bracket \in {"idle", "running"}
  /\ Room(IF MakesSocket(call.name) THEN 2 ELSE 1) /\ Cardinality(pending) < MaxPending
  /\ \E i \in DOMAIN sockets : sockets[i].state = "listening"
  /\ \E o \in listening : pending' = pending \cup {[on |-> o, object |-> Fresh]}
  /\ objects' = Fresh
  /\ IF wire THEN UNCHANGED sockets ELSE Insert(Socket(-1, -1, "acked", Fresh, NewMap))
  /\ UNCHANGED <<kernel, listening, meaning, doubtful, call, mem, broken, wire, test>>

ToClose == {i \in DOMAIN sockets : sockets[i].live >= 0 /\ ~sockets[i].closed}

(* The final reset or abort of a connection, which may fail as well. *)
ToReset == {i \in DOMAIN sockets : ~wire /\ sockets[i].state \notin {"init", "new", "listening"}}

(* close_all_sockets() at the end of a test without a failure: every open socket is closed, *)
(* every struct and its memory freed; the program dies if a close, a reset or an abort fails. *)
close_all_sockets ==
  /\ test = "running" /\ call = Idle
  /\ LET twice == \E i, j \in DOMAIN sockets : i # j /\ sockets[i].map = sockets[j].map
         stale == \/ \E i \in ToClose : kernel[sockets[i].live] = 0
                  \/ \E i, j \in ToClose : i # j /\ sockets[i].live = sockets[j].live IN
     /\ broken' = broken \cup (IF twice THEN {"double_free"} ELSE {})
                         \cup (IF stale THEN {"bad_close"} ELSE {})
     /\ \/ ~stale /\ test' = "passed"
        \/ (stale \/ ToReset # {}) /\ test' = "failed"
  /\ kernel' = [l \in LiveFds |-> IF \E i \in ToClose : sockets[i].live = l THEN 0 ELSE kernel[l]]
  /\ UNCHANGED <<objects, sockets, listening, pending, meaning, doubtful, call, mem, wire>>

Next ==
  \/ Invoke \/ Args \/ Fd \/ Allocate \/ MsghdrNew \/ Free \/ Begin \/ Kernel \/ End
  \/ Check \/ CheckCmsghdr
  \/ TrackNew \/ TrackListen \/ TrackConnect \/ TrackAccept \/ TrackClose \/ TrackPeeloff
  \/ Return \/ Child \/ close_all_sockets

Spec == Init /\ [][Next]_vars

------------------------------------------------------------------------------
Sockets ==
  [script : ScriptFds \cup {-1}, live : LiveFds \cup {-1}, closed : BOOLEAN,
   state : {"new", "listening", "connecting", "acked", "init"}, remote : Nat, map : Nat]

Calls ==
  [name : DOMAIN system_call_table, pc : Nat, fd : ScriptFds \cup {-1},
   live : LiveFds \cup {-1}, live2 : LiveFds \cup {-1}, new : LiveFds \cup {-1}, object : Nat,
   result : {"none", "value", "fail"}, expect : {"none", "value", "another", "fail", "wrong"},
   outs : {"none", "match", "differ", "unwritten", "undefined"},
   bracket : {"enqueued", "running", "done"}]

TypeOK ==
  /\ test \in {"running", "passed", "failed"} /\ wire \in BOOLEAN
  /\ objects \in 0..MaxSockets
  /\ sockets \in Seq(Sockets) /\ Len(sockets) <= MaxSockets
  /\ pending \in SUBSET [on : Nat, object : 1..MaxSockets]
  /\ IsFiniteSet(pending) /\ Cardinality(pending) <= MaxPending
  /\ kernel \in [LiveFds -> 0..MaxSockets]
  /\ meaning \in [ScriptFds -> 0..MaxSockets] /\ doubtful \subseteq ScriptFds
  /\ listening \subseteq 0..MaxSockets
  /\ call = Idle \/ call \in Calls
  /\ InCall => call.pc \in 1..(Len(Steps) + 1)

(* A call on a descriptor of the script is made on the very socket the script means, the   *)
(* one it got under that number and has not closed since, whatever numbers the kernel and  *)
(* the script have used again (find_socket_by_script_fd, to_live_fd).  Excepted are the    *)
(* doubtful numbers only: given to accept() while in use, or left open by a close() that   *)
(* failed.                                                                                 *)
IntendedSocket ==
  At({"kernel"}) /\ call.live >= 0 /\ call.fd \notin doubtful =>
    /\ meaning[call.fd] # 0
    /\ kernel[call.live] = meaning[call.fd]

(* Between calls, the tracked sockets are the descriptors the script holds, one to one, and *)
(* each leads to the script's object in the kernel (run_syscall_socket, run_syscall_accept, *)
(* run_syscall_close, run_syscall_sctp_peeloff), but for the doubtful numbers; and no       *)
(* descriptor of the kernel is without its struct.                                          *)
NamesAgree ==
  test = "running" /\ call = Idle =>
    /\ \A f \in ScriptFds \ doubtful :
         IF meaning[f] = 0 THEN ByScript(f) = {}
         ELSE /\ Cardinality(ByScript(f)) = 1
              /\ kernel[to_live_fd(f)] = meaning[f]
    /\ \A l \in LiveFds : kernel[l] # 0 =>
         \E i \in ByLive(l) : sockets[i].script \in doubtful \/ meaning[sockets[i].script] = kernel[l]

(* No assert of the handlers fails, nothing is closed twice and no list is read past its    *)
(* end, whatever the calls: the kernel never returns more control messages than the script  *)
(* lists.  run_syscall_accept() needs that at most one connection waits: it takes the       *)
(* newest for the one the kernel returned.  run_syscall_sctp_peeloff() breaks this: both    *)
(* structs own the copied memory, the copy may be taken for a connection that waits, a call *)
(* that fails as expected looks for a socket with the descriptor -1, and a number in use    *)
(* fails an assert.  A socket with a doubtful number is closed once more at the end.        *)
(* Excepted are also pointers a library leaves unset, list entries that are no control      *)
(* messages, and control messages with a struct of another type than their own.             *)
Waiting == {i \in DOMAIN sockets : sockets[i].state = "acked" /\ sockets[i].script < 0}
PeeledOff == \E i, j \in DOMAIN sockets : i # j /\ sockets[i].map = sockets[j].map

NothingBroken ==
  broken \subseteq {"uninitialised", "cmsg_entry", "cmsg_data", "peeloff"}
                   \cup (IF PeeledOff THEN {"double_free", "accept"} ELSE {})
                   \cup (IF Cardinality(Waiting) > 1 THEN {"accept"} ELSE {})
                   \cup (IF \E i \in ToClose : sockets[i].script \in doubtful THEN {"bad_close"} ELSE {})

(* A test that passes leaves no descriptor open (close_all_sockets), so that the next       *)
(* script of the command line starts with none.                                             *)
AllClosed == test = "passed" => \A l \in LiveFds : kernel[l] = 0

(* A handler that returns STATUS_OK has freed all it allocated and, if it called the kernel *)
(* at all, did so between begin_syscall() and end_syscall(), so that the other thread may   *)
(* go on.  sctp_getpaddrs() and sctp_getladdrs() keep their result.                         *)
CallLeavesNothing ==
  InCall /\ call.pc > Len(Steps) =>
    /\ mem \subseteq {"live_addrs"}
    /\ call.result # "none" => call.bracket = "done"

(* Neither a call (its handler) nor a test (close_all_sockets) leaves anything behind.      *)
NothingLeftBehind == CallLeavesNothing /\ AllClosed

(* A handler returns STATUS_OK only if the call had the result the script expects and       *)
(* returned through its arguments what the script lists.                                    *)
PassMeansMatch ==
  InCall /\ call.pc > Len(Steps) /\ call.result # "none" =>
    /\ call.expect = call.result \/ (call.new >= 0 /\ call.expect = "another")
    /\ call.outs # "differ"

(* A test does not fail for what a call returned through its arguments when that is as the  *)
(* script says, or when the call wrote nothing.  Excepted are the outputs that are compared *)
(* although they hold nothing, or a value of the handler's own, after a call that failed as *)
(* expected, and control messages of a kind that cmsg_new() does not fill in.               *)
FailMeansMismatch ==
  test = "failed" /\ call # Idle =>
    /\ call.outs # "match"
    /\ call.outs = "unwritten" => call.name \in Unguarded \cup {"getsockopt", "recvmsg", "sendmsg"}

(* The comparison of a call with the script (end_syscall and the checks of the handlers) is *)
(* right both ways: what passes is as expected, and what fails is not.                      *)
VerdictIsRight == PassMeansMatch /\ FailMeansMismatch

=============================================================================
