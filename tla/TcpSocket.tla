----------------------------- MODULE TcpSocket -----------------------------
(***************************************************************************)
(* How packetdrill follows one TCP connection of the kernel under test:    *)
(* the list of struct socket in run.h and socket.h, the system calls and   *)
(* packets that move a socket from state to state (run_system_call.c,      *)
(* run_packet.c), the mapping of sequence numbers between script and live  *)
(* packets, and the reset that clears the connection at the end (run.c).   *)
(*                                                                         *)
(* A script is any sequence of events that is right for a TCP kernel.  The *)
(* module chooses the live packets that the author means, writes them down *)
(* the way the comment in socket.h says scripts are written (absolute in   *)
(* packets with SYN, relative to the first SYN in all others) or with an   *)
(* absolute ("1:1(0)!") or open ("...(0)") sequence number, and lets the   *)
(* program map them.  The kernel is external: a minimal TCP endpoint.      *)
(***************************************************************************)
EXTENDS Integers, Sequences

CONSTANTS
  SeqMod,            \* sequence numbers wrap here: 2^32 in the code
  RemoteIsns,        \* the initial sequence numbers the scripts inject
  Setups,            \* the modes and roles, as named below
  MaxPackets         \* bound: packet events in a script

ASSUME SeqModAssumption == SeqMod \in Nat \ {0, 1, 2}
ASSUME MaxPacketsAssumption == MaxPackets \in Nat
ASSUME IsnsAssumption == RemoteIsns \subseteq 0 .. SeqMod - 1
ASSUME SetupsAssumption ==
  Setups \subseteq {"local_active", "local_passive", "server_active", "server_passive"}

SetupName ==
  [local       |-> [active |-> "local_active",  passive |-> "local_passive"],
   wire_server |-> [active |-> "server_active", passive |-> "server_passive"]]

Seq32 == 0 .. SeqMod - 1
Plus(a, b)  == (a + b) % SeqMod
Minus(a, b) == (a - b) % SeqMod

\* A TCP header; doff is zero in a header that was never filled in.
Packet ==
  [doff : {0, 5}, syn : 0 .. 1, ack : 0 .. 1, fin : 0 .. 1, len : 0 .. 1,
   seq : Seq32, ack_seq : Seq32]
Tcp(syn, ack, fin, len, seq, ack_seq) ==
  [doff |-> 5, syn |-> syn, ack |-> ack, fin |-> fin, len |-> len,
   seq |-> seq, ack_seq |-> ack_seq]
NoHeader == [Tcp(0, 0, 0, 0, 0, 0) EXCEPT !.doff = 0]
SegmentEnd(p) == Plus(p.seq, p.syn + p.fin + p.len)

VARIABLES
  mode,       \* local, or wire_server, which sees no system calls
  role,       \* the side of the connection the kernel under test is on
  sockets,    \* state->sockets, oldest first
  sut,        \* state->socket_under_test: an index, 0 for NULL
  kernel,     \* external: the connection in the kernel under test
  peer,       \* the remote side that the script plays, as its author means it
  scriptIsn,  \* what the script calls the kernel's initial sequence number
  want, got,  \* a packet as the author means it, and what the program made of it
  heard,      \* was every sniffed packet matched to the socket under test?
  last,       \* direction of the last packet event
  phase       \* "running", or "freed" after state_free

env  == <<mode, role, scriptIsn>>
vars == <<env, sockets, sut, kernel, peer, want, got, heard, last, phase>>

SocketState ==
  {"SOCKET_INIT", "SOCKET_NEW", "SOCKET_PASSIVE_LISTENING",
   "SOCKET_PASSIVE_PACKET_RECEIVED", "SOCKET_PASSIVE_SYNACK_SENT",
   "SOCKET_PASSIVE_SYNACK_ACKED", "SOCKET_ACTIVE_CONNECTING",
   "SOCKET_ACTIVE_SYN_SENT", "SOCKET_ACTIVE_SYN_ACKED"}

\* remote_isn stands for the script and the live value, which are set together.
\* tuple: what is known of the live addresses.
Socket ==
  [state : SocketState, tuple : {"none", "remote", "full"}, remote_isn : Seq32,
   script_local_isn : Seq32, live_local_isn : Seq32, fd : {-1, 0, 3, 4},
   is_closed : BOOLEAN, last_outbound : Packet, last_injected : Packet]

\* external: known, once a packet of the kernel was sniffed.
KernelState ==
  [st : {"closed", "listen", "syn_sent", "syn_rcvd", "established"},
   isn : Seq32, snd : Seq32, rcv : Seq32, known : BOOLEAN, accepted : BOOLEAN,
   fin : {"no", "due", "sent"}]

\* One type for the sockets, the kernel and the packets.
TypeOK ==
  /\ mode \in DOMAIN SetupName /\ role \in {"active", "passive"}
  /\ SetupName[mode][role] \in Setups
  /\ sockets \in Seq(Socket) /\ Len(sockets) <= 2
  /\ sut \in 0 .. Len(sockets)
  /\ kernel \in KernelState
  /\ peer \in [isn : Seq32 \cup {-1}, snd : Seq32, fin : BOOLEAN, packets : 0 .. MaxPackets]
  /\ scriptIsn \in Seq32
  /\ want \in Packet /\ got \in Packet
  /\ heard \in BOOLEAN
  /\ last \in {"none", "inbound", "outbound"}
  /\ phase \in {"running", "freed"}

Init ==
  /\ mode \in DOMAIN SetupName /\ role \in {"active", "passive"}
  /\ SetupName[mode][role] \in Setups
  /\ sockets = <<>> /\ sut = 0
  /\ kernel = [st |-> "closed", isn |-> 0, snd |-> 0, rcv |-> 0, known |-> FALSE,
               accepted |-> FALSE, fin |-> "no"]
  /\ peer = [isn |-> -1, snd |-> 0, fin |-> FALSE, packets |-> 0]
  /\ scriptIsn \in {0, SeqMod - 1}
  /\ want = NoHeader /\ got = NoHeader
  /\ heard = TRUE /\ last = "none" /\ phase = "running"

Running == phase = "running"

(***************************************************************************)
(* The kernel under test (external).                                       *)
(***************************************************************************)
\* What an injected segment does to the connection.
Receive(k, p) ==
  CASE k.st = "listen" /\ p.syn = 1 /\ p.ack = 0 ->
         [k EXCEPT !.st = "syn_rcvd", !.rcv = SegmentEnd(p)]
    [] k.st = "syn_sent" /\ p.syn = 1 /\ (p.ack = 1 => p.ack_seq = Plus(k.isn, 1)) ->
         [k EXCEPT !.st = IF p.ack = 1 THEN "established" ELSE "syn_rcvd",
                   !.rcv = SegmentEnd(p)]
    [] k.st = "syn_rcvd" /\ p.ack = 1 /\ p.ack_seq = Plus(k.isn, 1)
         /\ (p.syn = 0 => p.seq = k.rcv) ->
         [k EXCEPT !.st = "established", !.rcv = SegmentEnd(p)]
    [] k.st = "established" /\ p.syn = 0 /\ p.seq = k.rcv ->
         [k EXCEPT !.rcv = SegmentEnd(p)]
    [] OTHER -> k

\* The segments it may send next.
Sends(k) ==
  CASE k.st = "syn_sent" -> {Tcp(1, 0, 0, 0, k.isn, 0)}
    [] k.st = "syn_rcvd" -> {Tcp(1, 1, 0, 0, k.isn, k.rcv)}
    [] k.st = "established" /\ k.fin = "due" -> {Tcp(0, 1, 1, 0, k.snd, k.rcv)}
    [] k.st = "established" /\ k.fin # "due" ->
         {Tcp(0, 1, 0, n, k.snd, k.rcv) : n \in IF k.fin = "no" THEN 0 .. 1 ELSE {0}}
    [] OTHER -> {}

\* Does a reset clear the connection?
ResetAccepted(k, p) ==
  \/ k.st \in {"syn_rcvd", "established"} /\ Minus(p.seq, k.rcv) < SeqMod \div 2
  \/ k.st = "syn_sent" /\ p.ack = 1 /\ p.ack_seq = Plus(k.isn, 1)

(***************************************************************************)
(* How a script writes a live packet, after the comment in socket.h.  The  *)
(* style of a sequence number is "plain", "absolute" (FLAG_ABSOLUTE_SEQ)   *)
(* or, in an outbound packet, "open" (FLAG_IGNORE_SEQ, with start 0).      *)
(***************************************************************************)
InboundScript(p, style) ==
  [p EXCEPT !.seq = IF p.syn = 1 \/ style = "absolute" THEN @ ELSE Minus(@, peer.isn),
            !.ack_seq = IF p.ack = 0 THEN @
                        ELSE IF p.syn = 1 THEN Plus(Minus(@, kernel.isn), scriptIsn)
                        ELSE Minus(@, kernel.isn)]
OutboundScript(p, style) ==
  [p EXCEPT !.seq = IF style = "open" THEN 0
                    ELSE IF style = "absolute" THEN @
                    ELSE IF p.syn = 1 THEN Plus(Minus(@, kernel.isn), scriptIsn)
                    ELSE Minus(@, kernel.isn),
            !.ack_seq = IF p.ack = 0 \/ p.syn = 1 THEN @ ELSE Minus(@, peer.isn)]

\* The first SYN of the kernel shows what the script calls its number: an
\* absolute one is the live number, and one that is left open counts from 0.
CallsIsn(p, style) ==
  p.syn = 1 /\ ~kernel.known =>
    /\ style = "absolute" => scriptIsn = p.seq
    /\ style = "open" => scriptIsn = 0

(***************************************************************************)
(* Sequence numbers between script and live packets.                       *)
(***************************************************************************)
remote_seq_script_to_live_offset(s, syn) == IF syn = 1 THEN 0 ELSE s.remote_isn

local_seq_script_to_live_offset(s, syn) ==
  IF syn = 1 THEN Minus(s.live_local_isn, s.script_local_isn) ELSE s.live_local_isn

map_inbound_packet(s, p, style) ==
  [p EXCEPT !.seq = IF style = "absolute" THEN @
                    ELSE Plus(@, remote_seq_script_to_live_offset(s, p.syn)),
            !.ack_seq = IF p.ack = 1
                        THEN Plus(@, local_seq_script_to_live_offset(s, p.syn)) ELSE @]

map_outbound_live_packet(s, p, style) ==
  [p EXCEPT !.seq = IF style = "absolute" THEN @
                    ELSE Minus(@, local_seq_script_to_live_offset(s, p.syn)),
            !.ack_seq = IF p.ack = 1
                        THEN Minus(@, remote_seq_script_to_live_offset(s, p.syn)) ELSE @]

\* What verify_tcp compares: not a sequence number that the script leaves open.
Compared(p, style) == IF style = "open" THEN [p EXCEPT !.seq = 0] ELSE p

(***************************************************************************)
(* System calls.  In wire_server mode the other machine makes them.        *)
(***************************************************************************)
\* calloc in socket_new.
socket_new ==
  [state |-> "SOCKET_INIT", tuple |-> "none", remote_isn |-> 0,
   script_local_isn |-> 0, live_local_isn |-> 0, fd |-> 0, is_closed |-> FALSE,
   last_outbound |-> NoHeader, last_injected |-> NoHeader]

find_socket_by_script_fd(fd) ==
  {i \in 1 .. Len(sockets) : sockets[i].fd = fd /\ ~sockets[i].is_closed}

syscall_socket ==
  /\ Running /\ mode = "local" /\ sut = 0
  /\ sockets' = <<[socket_new EXCEPT !.state = "SOCKET_NEW", !.fd = 3]>>
  /\ sut' = 1
  /\ UNCHANGED <<env, kernel, peer, want, got, heard, last, phase>>

syscall_listen ==
  /\ Running /\ role = "passive" /\ kernel.st = "closed"
  /\ \/ mode = "wire_server" /\ UNCHANGED sockets
     \/ /\ mode = "local"
        /\ \E i \in find_socket_by_script_fd(3) :
             /\ sockets[i].state = "SOCKET_NEW"
             /\ sockets' = [sockets EXCEPT ![i].state = "SOCKET_PASSIVE_LISTENING"]
  /\ \E isn \in Seq32 :
       kernel' = [kernel EXCEPT !.st = "listen", !.isn = isn, !.snd = Plus(isn, 1)]
  /\ UNCHANGED <<env, sut, peer, want, got, heard, last, phase>>

syscall_connect ==
  /\ Running /\ role = "active" /\ kernel.st = "closed"
  /\ \/ mode = "wire_server" /\ UNCHANGED sockets
     \/ /\ mode = "local"
        /\ \E i \in find_socket_by_script_fd(3) :
             /\ sockets[i].state = "SOCKET_NEW"
             /\ sockets' = [sockets EXCEPT ![i].state = "SOCKET_ACTIVE_CONNECTING",
                                           ![i].tuple = "remote"]
  /\ \E isn \in Seq32 :
       kernel' = [kernel EXCEPT !.st = "syn_sent", !.isn = isn, !.snd = Plus(isn, 1)]
  /\ UNCHANGED <<env, sut, peer, want, got, heard, last, phase>>

Acceptable(s) ==
  s.state \in {"SOCKET_PASSIVE_SYNACK_SENT", "SOCKET_PASSIVE_SYNACK_ACKED"}

\* The newest socket whose handshake is far enough gets the new descriptor.
syscall_accept ==
  /\ Running /\ mode = "local" /\ role = "passive"
  /\ kernel.st = "established" /\ ~kernel.accepted
  /\ \E i \in 1 .. Len(sockets) :
       /\ Acceptable(sockets[i])
       /\ \A j \in 1 .. Len(sockets) : Acceptable(sockets[j]) => j <= i
       /\ sockets' = [sockets EXCEPT ![i].fd = 4]
  /\ kernel' = [kernel EXCEPT !.accepted = TRUE]
  /\ UNCHANGED <<env, sut, peer, want, got, heard, last, phase>>

syscall_close ==
  /\ Running /\ kernel.st = "established" /\ kernel.fin = "no"
  /\ \/ mode = "wire_server" /\ UNCHANGED sockets
     \/ /\ mode = "local"
        /\ \E i \in find_socket_by_script_fd(IF role = "active" THEN 3 ELSE 4) :
             sockets' = [sockets EXCEPT ![i].is_closed = TRUE]
  /\ kernel' = [kernel EXCEPT !.fin = "due"]
  /\ UNCHANGED <<env, sut, peer, want, got, heard, last, phase>>

(***************************************************************************)
(* An inbound packet event.                                                *)
(***************************************************************************)
setup_new_child_socket ==
  [socket_new EXCEPT !.state = "SOCKET_PASSIVE_PACKET_RECEIVED",
                     !.tuple = "full", !.fd = -1]

\* handle_listen_for_script_packet: the socket list and the socket under test
\* after it; a listening socket is handed the packet itself.
handle_listen_for_script_packet(p) ==
  IF mode = "wire_server" /\ sut = 0
  THEN <<<<[setup_new_child_socket EXCEPT !.remote_isn = p.seq]>>, 1>>
  ELSE IF mode = "local" /\ sut # 0 /\ sockets[sut].state = "SOCKET_PASSIVE_LISTENING"
  THEN <<[sockets EXCEPT ![sut].remote_isn = p.seq], sut>>
  ELSE <<sockets, sut>>

\* Mutant: does not take the initial sequence number from the SYN-ACK.
received_no_isn(s, p) ==
  IF s.state = "SOCKET_PASSIVE_SYNACK_SENT" /\ p.ack = 1
  THEN [s EXCEPT !.state = "SOCKET_PASSIVE_SYNACK_ACKED"]
  ELSE IF s.state = "SOCKET_ACTIVE_SYN_SENT" /\ p.syn = 1 /\ p.ack = 1
  THEN [s EXCEPT !.state = "SOCKET_ACTIVE_SYN_ACKED"]
  ELSE s

\* The state change at the head of do_inbound_script_packet.
received(s, p) ==
  IF s.state = "SOCKET_PASSIVE_SYNACK_SENT" /\ p.ack = 1
  THEN [s EXCEPT !.state = "SOCKET_PASSIVE_SYNACK_ACKED"]
  ELSE IF s.state = "SOCKET_ACTIVE_SYN_SENT" /\ p.syn = 1 /\ p.ack = 1
  THEN [s EXCEPT !.state = "SOCKET_ACTIVE_SYN_ACKED", !.remote_isn = p.seq]
  ELSE s

\* p is the packet as the script has it.  The live packet is made from the
\* socket found first; without a live address there, a child is made for it.
do_inbound_script_packet(p, style) ==
  LET found == handle_listen_for_script_packet(p)
      i     == found[2]
      s     == received(found[1][i], p)
      live  == map_inbound_packet(s, p, style)
      list  == [found[1] EXCEPT ![i] = [s EXCEPT !.last_injected = live]]
  IN  /\ i # 0
      /\ \/ /\ s.tuple = "none"
            /\ sockets' = Append(list, setup_new_child_socket)
            /\ sut' = Len(list) + 1
         \/ s.tuple # "none" /\ sockets' = list /\ sut' = i
      /\ got' = live
      /\ kernel' = Receive(kernel, live)

\* The packets a right script injects next: it acknowledges only what it has
\* seen, answers a SYN with a SYN-ACK or with a SYN of its own, and sends
\* nothing after its FIN.
SynIn(isn)    == Tcp(1, 0, 0, 0, isn, 0)
SynAckIn(isn) == Tcp(1, 1, 0, 0, isn, Plus(kernel.isn, 1))
Injectable ==
  CASE kernel.st = "listen" -> {SynIn(isn) : isn \in RemoteIsns}
    [] kernel.st = "syn_sent" /\ kernel.known ->
         {SynIn(isn) : isn \in RemoteIsns} \cup {SynAckIn(isn) : isn \in RemoteIsns}
    [] kernel.st = "syn_rcvd" /\ role = "active" -> {SynAckIn(peer.isn)}
    [] kernel.st = "syn_rcvd" /\ role = "passive" /\ ~kernel.known -> {SynIn(peer.isn)}
    [] kernel.known /\ (kernel.st = "established" \/ (kernel.st = "syn_rcvd" /\ role = "passive")) ->
         {p \in {Tcp(0, 1, f, n, peer.snd, kernel.snd) : f \in 0 .. 1, n \in 0 .. 1} :
            peer.fin => p.fin + p.len = 0}
    [] OTHER -> {}

inbound_packet ==
  /\ Running /\ peer.packets < MaxPackets
  /\ \E p \in Injectable, style \in {"plain", "absolute"} :
       /\ want' = p
       /\ do_inbound_script_packet(InboundScript(p, style), style)
       /\ peer' = [isn |-> IF p.syn = 1 THEN p.seq ELSE peer.isn, snd |-> SegmentEnd(p),
                   fin |-> peer.fin \/ p.fin = 1, packets |-> peer.packets + 1]
  /\ last' = "inbound"
  /\ UNCHANGED <<env, heard, phase>>

(***************************************************************************)
(* An outbound packet event: p is what the kernel sends, e what the script *)
(* expects.                                                                *)
(***************************************************************************)
\* Mutant: the socket stays in SOCKET_ACTIVE_CONNECTING.
handle_connect_keeps_state(e) ==
  IF e.syn = 1 /\ e.ack = 0 /\ mode = "wire_server" /\ sut = 0
  THEN <<<<[socket_new EXCEPT !.tuple = "remote", !.fd = -1, !.script_local_isn = e.seq]>>, 1>>
  ELSE IF e.syn = 1 /\ e.ack = 0 /\ mode = "local" /\ sut # 0
          /\ sockets[sut].state = "SOCKET_ACTIVE_CONNECTING"
  THEN <<[sockets EXCEPT ![sut].script_local_isn = e.seq], sut>>
  ELSE <<sockets, sut>>

handle_connect_for_script_packet(e) ==
  IF e.syn = 1 /\ e.ack = 0 /\ mode = "wire_server" /\ sut = 0
  THEN <<<<[socket_new EXCEPT !.state = "SOCKET_ACTIVE_SYN_SENT", !.tuple = "remote",
                              !.fd = -1, !.script_local_isn = e.seq]>>, 1>>
  ELSE IF e.syn = 1 /\ e.ack = 0 /\ mode = "local" /\ sut # 0
          /\ sockets[sut].state = "SOCKET_ACTIVE_CONNECTING"
  THEN <<[sockets EXCEPT ![sut].state = "SOCKET_ACTIVE_SYN_SENT",
                         ![sut].script_local_isn = e.seq], sut>>
  ELSE <<sockets, sut>>

\* After the sniff, in do_outbound_script_packet.
synack_sent(s, p) ==
  IF s.state = "SOCKET_PASSIVE_PACKET_RECEIVED" /\ p.syn = 1 /\ p.ack = 1
  THEN [s EXCEPT !.state = "SOCKET_PASSIVE_SYNACK_SENT", !.live_local_isn = p.seq]
  ELSE s

\* sniff_outbound_live_packet: a full tuple matches; a connecting socket
\* learns its tuple and its sequence number from the first SYN.
find_connect_for_live_packet(s, p) ==
  /\ s.tuple = "remote" /\ s.state = "SOCKET_ACTIVE_SYN_SENT"
  /\ p.syn = 1 /\ p.ack = 0
Matches(s, p) == s.tuple = "full" \/ find_connect_for_live_packet(s, p)
Sniffed(s, p) ==
  IF s.tuple = "full" THEN s
  ELSE [s EXCEPT !.tuple = "full", !.live_local_isn = p.seq]

do_outbound_script_packet(e, p, style) ==
  LET found == handle_connect_for_script_packet(e)
      i     == found[2]
      s0    == found[1][i]
      s1    == IF s0.state = "SOCKET_PASSIVE_PACKET_RECEIVED" /\ e.syn = 1 /\ e.ack = 1
                  /\ style # "open"
               THEN [s0 EXCEPT !.script_local_isn = e.seq] ELSE s0
      s2    == synack_sent(Sniffed(s1, p), p)
  IN  \/ /\ i # 0 /\ Matches(s1, p)
         /\ sockets' = [found[1] EXCEPT ![i] = [s2 EXCEPT !.last_outbound = p]]
         /\ sut' = i
         /\ got' = Compared(map_outbound_live_packet(s2, p, style), style)
         /\ heard' = heard
      \/ /\ i = 0 \/ ~Matches(s1, p)
         /\ heard' = FALSE
         /\ UNCHANGED <<sockets, sut, got>>

outbound_packet ==
  /\ Running /\ peer.packets < MaxPackets
  /\ \E p \in Sends(kernel), style \in {"plain", "absolute", "open"} :
       /\ CallsIsn(p, style)
       /\ want' = OutboundScript(p, style)
       /\ do_outbound_script_packet(OutboundScript(p, style), p, style)
       /\ kernel' = [kernel EXCEPT !.snd = SegmentEnd(p), !.known = TRUE,
                                   !.fin = IF p.fin = 1 THEN "sent" ELSE @]
  /\ peer' = [peer EXCEPT !.packets = @ + 1]
  /\ last' = "outbound"
  /\ UNCHANGED <<env, phase>>

(***************************************************************************)
(* state_free: the sockets are closed and their connections reset.         *)
(***************************************************************************)
\* Mutant: forgets that a SYN takes up a sequence number.
reset_connection_no_syn(s) ==
  LET o == s.last_outbound  r == s.last_injected IN
  IF o.doff > 0 /\ o.ack = 1 THEN {Tcp(0, 0, 0, 0, o.ack_seq, 0)}
  ELSE IF o.doff > 0 THEN {Tcp(0, 1, 0, 0, 0, Plus(o.seq, o.fin + o.len))}
  ELSE IF r.doff > 0 THEN {Tcp(0, 0, 0, 0, Plus(r.seq, r.fin + r.len), 0)}
  ELSE {}

\* The reset for a socket: something the kernel will accept, if anything is
\* known of the connection.
reset_connection(s) ==
  LET o == s.last_outbound  r == s.last_injected IN
  IF o.doff > 0 /\ o.ack = 1 THEN {Tcp(0, 0, 0, 0, o.ack_seq, 0)}
  ELSE IF o.doff > 0 THEN {Tcp(0, 1, 0, 0, 0, SegmentEnd(o))}
  ELSE IF r.doff > 0 THEN {Tcp(0, 0, 0, 0, SegmentEnd(r), 0)}
  ELSE {}

HasConnection(s) ==
  s.state \notin {"SOCKET_INIT", "SOCKET_NEW", "SOCKET_PASSIVE_LISTENING"}

close_all_sockets ==
  /\ Running
  /\ LET resets == UNION {reset_connection(sockets[i]) :
                            i \in {j \in 1 .. Len(sockets) : HasConnection(sockets[j])}}
     IN  kernel' = IF \E p \in resets : ResetAccepted(kernel, p)
                   THEN [kernel EXCEPT !.st = "closed"] ELSE kernel
  /\ sockets' = <<>> /\ sut' = 0
  /\ phase' = "freed"
  /\ UNCHANGED <<env, peer, want, got, heard, last>>

Next ==
  \/ syscall_socket \/ syscall_listen \/ syscall_connect \/ syscall_accept
  \/ syscall_close \/ inbound_packet \/ outbound_packet \/ close_all_sockets

Spec == Init /\ [][Next]_vars

(***************************************************************************)
(* Properties.                                                             *)
(***************************************************************************)
\* In local mode handle_listen_for_script_packet leaves the number of the SYN
\* with the listening socket; the child that do_inbound_script_packet then
\* makes for the connection counts from zero.
IsnForgotten == mode = "local" /\ role = "passive" /\ peer.isn \notin {-1, 0}

\* "sequence numbers and ACK numbers in all packets with the SYN flag set are
\* absolute, and for other packets [...] relative to the first SYN [...]
\* allowing arbitrary ISNs" (socket.h:281): every packet is injected, and every
\* sniffed packet is compared, as a script written that way means it, but for
\* those without SYN on a connection whose child socket has not learnt the
\* number of the peer's SYN.
AsWritten == got = want \/ (IsnForgotten /\ want.syn = 0)

\* No packet of the connection is lost on packetdrill: whatever the kernel
\* sends matches the socket under test, so that sniff_outbound_live_packet
\* does not wait for ever.
PacketsHeard == heard

\* When accept() returns in the kernel, run_syscall_accept finds a socket for
\* it, and it is the one that the packets of the script go to.
AcceptFindsSocket ==
  Running /\ mode = "local" /\ role = "passive" /\ kernel.st = "established" =>
    sut # 0 /\ Acceptable(sockets[sut])

\* The state of the socket under test follows the kernel's connection closely
\* enough for whoever looks for it: the sniffer (sniff_outbound_live_packet)
\* and accept() (run_syscall_accept).
SocketFollowsKernel == PacketsHeard /\ AcceptFindsSocket

\* "Inject a TCP RST packet to clear the connection state out of the kernel":
\* the reset is one the kernel accepts when the last packet event showed what
\* the kernel has received, or when nothing of the kernel was sniffed yet (but
\* not in local mode with a listening socket, which keeps the injected header).
ResetClears ==
  phase = "freed" /\ (\/ last = "outbound"
                      \/ /\ last = "inbound" /\ ~kernel.known
                         /\ SetupName[mode][role] # "local_passive") =>
    kernel.st = "closed"
=============================================================================
