-------------------------- MODULE TcpSocketProofs --------------------------
(***************************************************************************)
(* Proofs about TcpSocket, for sequence numbers of every width, every      *)
(* initial sequence number and scripts of every length.  The invariant     *)
(* says, for each state of the connection in the kernel under test, which  *)
(* socket packetdrill has for it and what that socket has learnt: the      *)
(* mapping is right because every number is learnt before it is used.      *)
(***************************************************************************)
EXTENDS TcpSocket, SequenceTheorems, TLAPS

(***************************************************************************)
(* What there is of the connection, by the state of the kernel.            *)
(***************************************************************************)
TheSocket == sockets[sut]

\* The system calls have made no socket yet, or one that has no packets.
NoSockets == sockets = <<>> /\ sut = 0
OnlySocket(state, tuple) ==
  Len(sockets) = 1 /\ sut = 1 /\ sockets[1].state = state /\ sockets[1].tuple = tuple
BeforePackets(state, tuple) ==
  /\ ~kernel.known /\ last = "none"
  /\ IF mode = "local" THEN OnlySocket(state, tuple) ELSE NoSockets

\* The socket of the connection, and the number it learns from the kernel.
HasSocket(state) == sut # 0 /\ TheSocket.state = state /\ TheSocket.tuple = "full"
LocalIsnLearnt ==
  TheSocket.live_local_isn = kernel.isn /\ TheSocket.script_local_isn = scriptIsn

\* It has learnt the peer's number and the kernel has got what the script sent,
\* unless the number was left with the listening socket.
RemoteIsnLearnt == IsnForgotten \/ TheSocket.remote_isn = peer.isn
PeerInStep == IsnForgotten \/ peer.snd = kernel.rcv

ClosedInv ==
  /\ ~kernel.known /\ last = "none"
  /\ NoSockets \/ (mode = "local" /\ OnlySocket("SOCKET_NEW", "none"))

ListenInv == role = "passive" /\ BeforePackets("SOCKET_PASSIVE_LISTENING", "none")

SynSentInv ==
  /\ role = "active"
  /\ IF kernel.known
     THEN HasSocket("SOCKET_ACTIVE_SYN_SENT") /\ LocalIsnLearnt /\ last = "outbound"
     ELSE BeforePackets("SOCKET_ACTIVE_CONNECTING", "remote")

SynReceivedInv ==
  /\ peer.isn # -1 /\ PeerInStep
  /\ role = "active" =>
       kernel.known /\ HasSocket("SOCKET_ACTIVE_SYN_SENT") /\ LocalIsnLearnt
  /\ role = "passive" =>
       /\ RemoteIsnLearnt
       /\ kernel.known =>
            /\ \/ HasSocket("SOCKET_PASSIVE_SYNACK_SENT")
               \/ IsnForgotten /\ HasSocket("SOCKET_PASSIVE_SYNACK_ACKED")
            /\ LocalIsnLearnt
       /\ ~kernel.known =>
            /\ HasSocket("SOCKET_PASSIVE_PACKET_RECEIVED") /\ last = "inbound"
            /\ kernel.rcv = Plus(peer.isn, 1)
            /\ TheSocket.last_outbound = NoHeader /\ TheSocket.script_local_isn = 0
            /\ mode = "wire_server" =>
                 TheSocket.last_injected.doff = 5 /\ SegmentEnd(TheSocket.last_injected) = kernel.rcv

EstablishedInv ==
  /\ peer.isn # -1 /\ PeerInStep
  /\ kernel.known /\ LocalIsnLearnt /\ RemoteIsnLearnt
  /\ HasSocket(IF role = "active" THEN "SOCKET_ACTIVE_SYN_ACKED" ELSE "SOCKET_PASSIVE_SYNACK_ACKED")

\* The last packet that the kernel sent shows what a reset needs.
LastOutboundInv ==
  last = "outbound" =>
    /\ sut # 0 /\ TheSocket.last_outbound.doff = 5
    /\ IF kernel.st = "syn_sent"
       THEN TheSocket.last_outbound.ack = 0 /\ SegmentEnd(TheSocket.last_outbound) = Plus(kernel.isn, 1)
       ELSE TheSocket.last_outbound.ack = 1 /\ TheSocket.last_outbound.ack_seq = kernel.rcv

PlaceInv ==
  /\ kernel.st = "closed" => ClosedInv
  /\ kernel.st = "listen" => ListenInv
  /\ kernel.st = "syn_sent" => SynSentInv
  /\ kernel.st = "syn_rcvd" => SynReceivedInv
  /\ kernel.st = "established" => EstablishedInv
  /\ kernel.st # "established" => kernel.fin = "no"
  /\ kernel.st \in {"listen", "syn_sent", "syn_rcvd"} => kernel.snd = Plus(kernel.isn, 1)
  /\ LastOutboundInv

IInv == TypeOK /\ AsWritten /\ PacketsHeard /\ (Running => PlaceInv) /\ ResetClears

(***************************************************************************)
(* Numbers modulo SeqMod.                                                  *)
(***************************************************************************)
LEMMA PlusIs ==
  ASSUME NEW a \in Seq32, NEW b \in 0 .. SeqMod
  PROVE  /\ Plus(a, b) = IF a + b < SeqMod THEN a + b ELSE a + b - SeqMod
         /\ Plus(a, b) \in Seq32
  BY SeqModAssumption DEF Plus, Seq32

LEMMA MinusIs ==
  ASSUME NEW a \in Seq32, NEW b \in Seq32
  PROVE  /\ Minus(a, b) = IF a >= b THEN a - b ELSE a - b + SeqMod
         /\ Minus(a, b) \in Seq32
  BY SeqModAssumption DEF Minus, Seq32

\* A number is mapped to itself by an offset of zero, by an offset and back,
\* and by two ways of changing the base.
LEMMA Offsets ==
  ASSUME NEW x \in Seq32, NEW i \in Seq32, NEW s \in Seq32
  PROVE  /\ Plus(x, 0) = x /\ Minus(x, 0) = x /\ Minus(x, x) = 0
         /\ Plus(Minus(x, i), i) = x
         /\ Plus(Minus(i, i), s) = s
         /\ Plus(Plus(Minus(x, i), s), Minus(i, s)) = x
         /\ Minus(x, Minus(i, s)) = Plus(Minus(x, i), s)
  <1>0. SeqMod \in Nat /\ SeqMod > 2 /\ Seq32 = 0 .. SeqMod - 1 /\ 0 \in Seq32 /\ Seq32 \subseteq 0 .. SeqMod
    BY SeqModAssumption DEF Seq32
  <1>1. Plus(x, 0) = x /\ Minus(x, 0) = x /\ Minus(x, x) = 0
    <2>1. Plus(x, 0) = x
      BY <1>0, PlusIs
    <2>2. Minus(x, 0) = x
      BY <1>0, MinusIs
    <2>3. Minus(x, x) = 0
      BY <1>0, MinusIs
    <2>4. QED
      BY <2>1, <2>2, <2>3
  <1>2. /\ Minus(x, i) \in Seq32 /\ Minus(x, i) = IF x >= i THEN x - i ELSE x - i + SeqMod
    BY MinusIs
  <1>3. /\ Minus(i, s) \in Seq32 /\ Minus(i, s) = IF i >= s THEN i - s ELSE i - s + SeqMod
    BY MinusIs
  <1>4. Plus(Minus(x, i), i) = x
    <2>1. Plus(Minus(x, i), i) = IF Minus(x, i) + i < SeqMod THEN Minus(x, i) + i ELSE Minus(x, i) + i - SeqMod
      BY <1>0, <1>2, PlusIs
    <2>2. QED
      BY <1>0, <1>2, <2>1
  <1>5. Minus(i, i) = 0 /\ Plus(0, s) = s
    <2>1. Minus(i, i) = 0
      BY <1>0, MinusIs
    <2>2. Plus(0, s) = s
      BY <1>0, PlusIs
    <2>3. QED
      BY <2>1, <2>2
  <1>6. /\ Plus(Minus(x, i), s) \in Seq32
        /\ Plus(Minus(x, i), s) =
             IF Minus(x, i) + s < SeqMod THEN Minus(x, i) + s ELSE Minus(x, i) + s - SeqMod
    BY <1>0, <1>2, PlusIs
  <1>7. Plus(Plus(Minus(x, i), s), Minus(i, s)) = x
    <2> DEFINE a == Plus(Minus(x, i), s)
               b == Minus(i, s)
    <2>1. Plus(a, b) = IF a + b < SeqMod THEN a + b ELSE a + b - SeqMod
      BY <1>0, <1>3, <1>6, PlusIs
    <2>2. QED
      BY <1>0, <1>2, <1>3, <1>6, <2>1
  <1>8. Minus(x, Minus(i, s)) = Plus(Minus(x, i), s)
    <2>1. Minus(x, Minus(i, s)) = IF x >= Minus(i, s) THEN x - Minus(i, s) ELSE x - Minus(i, s) + SeqMod
      BY <1>3, MinusIs
    <2>2. QED
      BY <1>0, <1>2, <1>3, <1>6, <2>1
  <1>9. QED
    BY <1>1, <1>4, <1>5, <1>7, <1>8

(***************************************************************************)
(* Packets and sockets.                                                    *)
(***************************************************************************)
LEMMA PacketTypes ==
  /\ NoHeader \in Packet
  /\ \A syn, ack, fin, len \in 0 .. 1, seq, ack_seq \in Seq32 :
       Tcp(syn, ack, fin, len, seq, ack_seq) \in Packet
  /\ \A p \in Packet : SegmentEnd(p) \in Seq32
  /\ 0 \in Seq32 /\ 1 \in 0 .. SeqMod
  /\ socket_new \in Socket
  <1>1. 0 \in Seq32 /\ 1 \in 0 .. SeqMod
    BY SeqModAssumption DEF Seq32
  <1>2. \A syn, ack, fin, len \in 0 .. 1, seq, ack_seq \in Seq32 :
          Tcp(syn, ack, fin, len, seq, ack_seq) \in Packet
    BY DEF Tcp, Packet
  <1>3. NoHeader \in Packet
    BY <1>1 DEF NoHeader, Tcp, Packet
  <1>4. ASSUME NEW p \in Packet PROVE SegmentEnd(p) \in Seq32
    <2>1. p.seq \in Seq32 /\ p.syn + p.fin + p.len \in 0 .. SeqMod
      BY SeqModAssumption DEF Packet
    <2>2. QED
      BY <2>1, PlusIs DEF SegmentEnd
  <1>5. socket_new \in Socket
    BY <1>1, <1>3 DEF socket_new, Socket, SocketState
  <1>6. QED
    BY <1>1, <1>2, <1>3, <1>4, <1>5

LEMMA InitIInv == ASSUME Init PROVE IInv
  <1>1. 0 \in Seq32 /\ SeqMod - 1 \in Seq32
    BY SeqModAssumption DEF Seq32
  <1>2. TypeOK
    <2>1. sockets \in Seq(Socket) /\ Len(sockets) = 0
      BY EmptySeq DEF Init
    <2>2. kernel \in KernelState
      BY <1>1 DEF Init, KernelState
    <2>3. peer \in [isn : Seq32 \cup {-1}, snd : Seq32, fin : BOOLEAN, packets : 0 .. MaxPackets]
      BY <1>1, MaxPacketsAssumption DEF Init
    <2>4. want \in Packet /\ got \in Packet
      BY PacketTypes DEF Init
    <2>5. sut \in 0 .. Len(sockets) /\ Len(sockets) <= 2
      BY <2>1 DEF Init
    <2>6. scriptIsn \in Seq32 /\ heard \in BOOLEAN /\ last \in {"none", "inbound", "outbound"}
      BY <1>1 DEF Init
    <2>7. QED
      BY <2>1, <2>2, <2>3, <2>4, <2>5, <2>6 DEF Init, TypeOK
  <1>3. AsWritten /\ PacketsHeard /\ ResetClears
    BY DEF Init, AsWritten, PacketsHeard, ResetClears
  <1>4. PlaceInv
    BY DEF Init, PlaceInv, ClosedInv, NoSockets, LastOutboundInv
  <1>5. QED
    BY <1>2, <1>3, <1>4 DEF IInv

(***************************************************************************)
(* System calls.                                                           *)
(***************************************************************************)
LEMMA SocketInv == ASSUME IInv, syscall_socket PROVE IInv'
  <1> USE DEF syscall_socket, env, Running
  <1>0. PlaceInv /\ kernel.st = "closed"
    BY DEF IInv, PlaceInv, ListenInv, SynSentInv, SynReceivedInv, EstablishedInv, BeforePackets,
       OnlySocket, NoSockets, HasSocket, TypeOK, KernelState
  <1>1. [socket_new EXCEPT !.state = "SOCKET_NEW", !.fd = 3] \in Socket
    BY PacketTypes DEF Socket, SocketState
  <1>2. /\ sockets' \in Seq(Socket) /\ Len(sockets') = 1
        /\ sockets'[1].state = "SOCKET_NEW" /\ sockets'[1].tuple = "none"
    <2> DEFINE s == [socket_new EXCEPT !.state = "SOCKET_NEW", !.fd = 3]
    <2>1. s \in Socket /\ s.state = "SOCKET_NEW" /\ s.tuple = "none" /\ sockets' = <<s>>
      BY <1>1 DEF socket_new
    <2> HIDE DEF s
    <2>2. <<s>> \in Seq(Socket) /\ Len(<<s>>) = 1 /\ <<s>>[1] = s
      BY <2>1
    <2>3. QED
      BY <2>1, <2>2
  <1>3. TypeOK'
    BY <1>2 DEF IInv, TypeOK
  <1>4. PlaceInv'
    BY <1>0, <1>2 DEF PlaceInv, ClosedInv, OnlySocket, NoSockets, LastOutboundInv
  <1>5. QED
    BY <1>3, <1>4 DEF IInv, AsWritten, IsnForgotten, PacketsHeard, ResetClears

\* A socket that is only marked keeps the rest.
LEMMA MarkedType ==
  ASSUME TypeOK, NEW i \in 1 .. Len(sockets), NEW s \in Socket,
         sockets' = [sockets EXCEPT ![i] = s]
  PROVE  /\ sockets' \in Seq(Socket) /\ Len(sockets') = Len(sockets) /\ sockets'[i] = s
         /\ \A j \in 1 .. Len(sockets) : j # i => sockets'[j] = sockets[j]
  BY DEF TypeOK

\* listen() and connect(): the connection leaves the closed state, with an
\* initial sequence number of the kernel's choice.
LEMMA OpenInv ==
  ASSUME IInv, Running, kernel.st = "closed",
         NEW isn \in Seq32, NEW st \in {"listen", "syn_sent"},
         st = "listen" => role = "passive", st = "syn_sent" => role = "active",
         kernel' = [kernel EXCEPT !.st = st, !.isn = isn, !.snd = Plus(isn, 1)],
         \/ mode = "wire_server" /\ sockets' = sockets
         \/ /\ mode = "local"
            /\ \E s \in Socket :
                 /\ sockets' = [sockets EXCEPT ![1] = s] /\ Len(sockets) = 1 /\ sut = 1
                 /\ st = "listen" => s.state = "SOCKET_PASSIVE_LISTENING" /\ s.tuple = "none"
                 /\ st = "syn_sent" => s.state = "SOCKET_ACTIVE_CONNECTING" /\ s.tuple = "remote",
         UNCHANGED <<env, sut, peer, want, got, heard, last, phase>>
  PROVE  IInv'
  <1> USE DEF env, Running
  <1>1. Plus(isn, 1) \in Seq32
    BY PlusIs, PacketTypes
  <1>2. /\ kernel' \in KernelState
        /\ kernel'.st = st /\ kernel'.isn = isn /\ kernel'.snd = Plus(isn, 1)
        /\ kernel'.known = kernel.known /\ kernel'.fin = kernel.fin
    BY <1>1 DEF IInv, TypeOK, KernelState
  <1>3. /\ sockets' \in Seq(Socket) /\ Len(sockets') = Len(sockets)
        /\ mode = "local" => /\ Len(sockets) = 1 /\ sut = 1
                             /\ st = "listen" => sockets'[1].state = "SOCKET_PASSIVE_LISTENING"
                                                  /\ sockets'[1].tuple = "none"
                             /\ st = "syn_sent" => sockets'[1].state = "SOCKET_ACTIVE_CONNECTING"
                                                    /\ sockets'[1].tuple = "remote"
    <2>1. CASE mode = "wire_server" /\ sockets' = sockets
      BY <2>1 DEF IInv, TypeOK
    <2>2. CASE mode = "local"
      <3>1. PICK s \in Socket :
                 /\ sockets' = [sockets EXCEPT ![1] = s] /\ Len(sockets) = 1 /\ sut = 1
                 /\ st = "listen" => s.state = "SOCKET_PASSIVE_LISTENING" /\ s.tuple = "none"
                 /\ st = "syn_sent" => s.state = "SOCKET_ACTIVE_CONNECTING" /\ s.tuple = "remote"
        BY <2>2
      <3>2. 1 \in 1 .. Len(sockets)
        BY <3>1
      <3>3. sockets' \in Seq(Socket) /\ Len(sockets') = Len(sockets) /\ sockets'[1] = s
        BY <3>1, <3>2, MarkedType DEF IInv
      <3>4. QED
        BY <3>1, <3>3
    <2>3. QED
      BY <2>1, <2>2
  <1>4. TypeOK'
    BY <1>2, <1>3 DEF IInv, TypeOK
  <1>5. ClosedInv /\ kernel.fin = "no"
    BY DEF IInv, PlaceInv
  <1>6. mode # "local" => NoSockets'
    <2>1. mode # "local" => sockets' = sockets /\ sut' = sut
      OBVIOUS
    <2>2. QED
      BY <1>5, <2>1 DEF ClosedInv, NoSockets
  <1>7. BeforePackets("SOCKET_PASSIVE_LISTENING", "none")' \/ st # "listen"
    BY <1>2, <1>3, <1>5, <1>6 DEF ClosedInv, BeforePackets, OnlySocket
  <1>8. BeforePackets("SOCKET_ACTIVE_CONNECTING", "remote")' \/ st # "syn_sent"
    BY <1>2, <1>3, <1>5, <1>6 DEF ClosedInv, BeforePackets, OnlySocket
  <1>9. PlaceInv'
    BY <1>2, <1>5, <1>7, <1>8 DEF PlaceInv, ListenInv, SynSentInv, LastOutboundInv, ClosedInv
  <1>10. QED
    BY <1>4, <1>9 DEF IInv, AsWritten, IsnForgotten, PacketsHeard, ResetClears

\* find_socket_by_script_fd finds the only socket there is.
LEMMA OnlyFound ==
  ASSUME IInv, Running, kernel.st = "closed", NEW i \in find_socket_by_script_fd(3)
  PROVE  i = 1 /\ Len(sockets) = 1 /\ sut = 1 /\ sockets[1] \in Socket /\ sockets[1].tuple = "none"
  <1>1. i \in 1 .. Len(sockets)
    BY DEF find_socket_by_script_fd
  <1>2. ClosedInv
    BY DEF IInv, PlaceInv
  <1>3. ~NoSockets
    BY <1>1, EmptySeq DEF NoSockets
  <1>4. Len(sockets) = 1 /\ sut = 1 /\ sockets[1].tuple = "none"
    BY <1>2, <1>3 DEF ClosedInv, OnlySocket
  <1>5. i = 1
    BY <1>1, <1>4
  <1>6. sockets \in Seq(Socket)
    BY DEF IInv, TypeOK
  <1>7. sockets[1] \in Socket
    BY <1>1, <1>5, <1>6
  <1>8. QED
    BY <1>4, <1>5, <1>7

LEMMA ListenSyscallInv == ASSUME IInv, syscall_listen PROVE IInv'
  <1> USE DEF syscall_listen
  <1>1. PICK isn \in Seq32 :
          kernel' = [kernel EXCEPT !.st = "listen", !.isn = isn, !.snd = Plus(isn, 1)]
    OBVIOUS
  <1>2. CASE mode = "wire_server" /\ UNCHANGED sockets
    BY <1>1, <1>2, OpenInv
  <1>3. CASE mode = "local"
    <2>1. PICK i \in find_socket_by_script_fd(3) :
             sockets' = [sockets EXCEPT ![i].state = "SOCKET_PASSIVE_LISTENING"]
      BY <1>3
    <2>2. i = 1 /\ Len(sockets) = 1 /\ sut = 1 /\ sockets[1] \in Socket /\ sockets[1].tuple = "none"
      BY OnlyFound
    <2> DEFINE s == [sockets[1] EXCEPT !.state = "SOCKET_PASSIVE_LISTENING"]
    <2>3. s \in Socket /\ s.state = "SOCKET_PASSIVE_LISTENING" /\ s.tuple = "none"
      BY <2>2 DEF Socket, SocketState
    <2>4. sockets' = [sockets EXCEPT ![1] = s]
      BY <2>1, <2>2
    <2> HIDE DEF s
    <2>5. QED
      BY <1>1, <1>3, <2>2, <2>3, <2>4, OpenInv
  <1>4. QED
    BY <1>2, <1>3

LEMMA ConnectInv == ASSUME IInv, syscall_connect PROVE IInv'
  <1> USE DEF syscall_connect
  <1>1. PICK isn \in Seq32 :
          kernel' = [kernel EXCEPT !.st = "syn_sent", !.isn = isn, !.snd = Plus(isn, 1)]
    OBVIOUS
  <1>2. CASE mode = "wire_server" /\ UNCHANGED sockets
    BY <1>1, <1>2, OpenInv
  <1>3. CASE mode = "local"
    <2>1. PICK i \in find_socket_by_script_fd(3) :
             sockets' = [sockets EXCEPT ![i].state = "SOCKET_ACTIVE_CONNECTING",
                                        ![i].tuple = "remote"]
      BY <1>3
    <2>2. i = 1 /\ Len(sockets) = 1 /\ sut = 1 /\ sockets[1] \in Socket /\ sockets[1].tuple = "none"
      BY OnlyFound
    <2> DEFINE s == [sockets[1] EXCEPT !.state = "SOCKET_ACTIVE_CONNECTING", !.tuple = "remote"]
    <2>3. s \in Socket /\ s.state = "SOCKET_ACTIVE_CONNECTING" /\ s.tuple = "remote"
      BY <2>2 DEF Socket, SocketState
    <2>4. sockets' = [sockets EXCEPT ![1] = s]
      BY <2>1, <2>2 DEF IInv, TypeOK
    <2> HIDE DEF s
    <2>5. QED
      BY <1>1, <1>3, <2>2, <2>3, <2>4, OpenInv
  <1>4. QED
    BY <1>2, <1>3

\* accept() and close(): the descriptor changes, nothing of the connection does.
LEMMA MarkInv ==
  ASSUME IInv, Running, kernel.st = "established",
         kernel' \in KernelState,
         kernel'.st = kernel.st, kernel'.isn = kernel.isn, kernel'.rcv = kernel.rcv,
         kernel'.known = kernel.known,
         \/ sockets' = sockets
         \/ \E i \in 1 .. Len(sockets), t \in Socket :
              /\ sockets' = [sockets EXCEPT ![i] = t]
              /\ t.state = sockets[i].state /\ t.tuple = sockets[i].tuple
              /\ t.remote_isn = sockets[i].remote_isn
              /\ t.live_local_isn = sockets[i].live_local_isn
              /\ t.script_local_isn = sockets[i].script_local_isn
              /\ t.last_outbound = sockets[i].last_outbound,
         UNCHANGED <<env, sut, peer, want, got, heard, last, phase>>
  PROVE  IInv'
  <1> USE DEF env, Running
  <1>1. EstablishedInv /\ LastOutboundInv /\ sut \in 1 .. Len(sockets)
    BY DEF IInv, PlaceInv, EstablishedInv, HasSocket, TypeOK
  <1>2. /\ sockets' \in Seq(Socket) /\ Len(sockets') = Len(sockets)
        /\ sockets'[sut].state = sockets[sut].state /\ sockets'[sut].tuple = sockets[sut].tuple
        /\ sockets'[sut].remote_isn = sockets[sut].remote_isn
        /\ sockets'[sut].live_local_isn = sockets[sut].live_local_isn
        /\ sockets'[sut].script_local_isn = sockets[sut].script_local_isn
        /\ sockets'[sut].last_outbound = sockets[sut].last_outbound
    <2>1. CASE sockets' = sockets
      BY <2>1 DEF IInv, TypeOK
    <2>2. CASE sockets' # sockets
      <3>1. PICK i \in 1 .. Len(sockets), t \in Socket :
              /\ sockets' = [sockets EXCEPT ![i] = t]
              /\ t.state = sockets[i].state /\ t.tuple = sockets[i].tuple
              /\ t.remote_isn = sockets[i].remote_isn
              /\ t.live_local_isn = sockets[i].live_local_isn
              /\ t.script_local_isn = sockets[i].script_local_isn
              /\ t.last_outbound = sockets[i].last_outbound
        BY <2>2
      <3>2. /\ sockets' \in Seq(Socket) /\ Len(sockets') = Len(sockets) /\ sockets'[i] = t
            /\ sut # i => sockets'[sut] = sockets[sut]
        BY <1>1, <3>1, MarkedType DEF IInv
      <3>3. QED
        BY <3>1, <3>2
    <2>3. QED
      BY <2>1, <2>2
  <1>3. TypeOK'
    BY <1>2 DEF IInv, TypeOK
  <1>4. EstablishedInv'
    BY <1>1, <1>2 DEF EstablishedInv, HasSocket, LocalIsnLearnt, TheSocket, RemoteIsnLearnt, PeerInStep, IsnForgotten
  <1>5. LastOutboundInv'
    BY <1>1, <1>2 DEF LastOutboundInv, TheSocket, SegmentEnd
  <1>6. PlaceInv'
    BY <1>4, <1>5 DEF PlaceInv
  <1>7. QED
    BY <1>3, <1>6 DEF IInv, AsWritten, IsnForgotten, PacketsHeard, ResetClears

LEMMA AcceptInv == ASSUME IInv, syscall_accept PROVE IInv'
  <1> USE DEF syscall_accept
  <1>1. PICK i \in 1 .. Len(sockets) : sockets' = [sockets EXCEPT ![i].fd = 4]
    OBVIOUS
  <1> DEFINE t == [sockets[i] EXCEPT !.fd = 4]
  <1>2. sockets[i] \in Socket
    BY <1>1 DEF IInv, TypeOK
  <1>3. /\ t \in Socket /\ sockets' = [sockets EXCEPT ![i] = t]
        /\ t.state = sockets[i].state /\ t.tuple = sockets[i].tuple
        /\ t.remote_isn = sockets[i].remote_isn
        /\ t.live_local_isn = sockets[i].live_local_isn
        /\ t.script_local_isn = sockets[i].script_local_isn
        /\ t.last_outbound = sockets[i].last_outbound
    BY <1>1, <1>2 DEF Socket
  <1>4. /\ kernel' \in KernelState
        /\ kernel'.st = kernel.st /\ kernel'.isn = kernel.isn /\ kernel'.rcv = kernel.rcv
        /\ kernel'.known = kernel.known
    BY DEF IInv, TypeOK, KernelState
  <1> HIDE DEF t
  <1>5. QED
    BY <1>3, <1>4, MarkInv

LEMMA CloseInv == ASSUME IInv, syscall_close PROVE IInv'
  <1> USE DEF syscall_close
  <1>4. /\ kernel' \in KernelState
        /\ kernel'.st = kernel.st /\ kernel'.isn = kernel.isn /\ kernel'.rcv = kernel.rcv
        /\ kernel'.known = kernel.known
    BY DEF IInv, TypeOK, KernelState
  <1>5. CASE sockets' = sockets
    BY <1>4, <1>5, MarkInv
  <1>6. CASE sockets' # sockets
    <2>1. PICK i \in 1 .. Len(sockets) : sockets' = [sockets EXCEPT ![i].is_closed = TRUE]
      BY <1>6 DEF find_socket_by_script_fd
    <2> DEFINE t == [sockets[i] EXCEPT !.is_closed = TRUE]
    <2>2. sockets[i] \in Socket
      BY <2>1 DEF IInv, TypeOK
    <2>3. /\ t \in Socket /\ sockets' = [sockets EXCEPT ![i] = t]
          /\ t.state = sockets[i].state /\ t.tuple = sockets[i].tuple
          /\ t.remote_isn = sockets[i].remote_isn
          /\ t.live_local_isn = sockets[i].live_local_isn
          /\ t.script_local_isn = sockets[i].script_local_isn
          /\ t.last_outbound = sockets[i].last_outbound
      BY <2>1, <2>2 DEF Socket
    <2> HIDE DEF t
    <2>4. QED
      BY <1>4, <2>3, MarkInv
  <1>7. QED
    BY <1>5, <1>6

(***************************************************************************)
(* Packets of the kernel.                                                  *)
(***************************************************************************)
LEMMA SendsTypes ==
  ASSUME TypeOK, NEW p \in Sends(kernel)
  PROVE  /\ p \in Packet /\ p.doff = 5
         /\ kernel.st \in {"syn_sent", "syn_rcvd", "established"}
         /\ kernel.st = "syn_sent" => p = Tcp(1, 0, 0, 0, kernel.isn, 0)
         /\ kernel.st = "syn_rcvd" => p = Tcp(1, 1, 0, 0, kernel.isn, kernel.rcv)
         /\ kernel.st = "established" => p.syn = 0 /\ p.ack = 1 /\ p.ack_seq = kernel.rcv
  <1>0. /\ kernel.isn \in Seq32 /\ kernel.rcv \in Seq32 /\ kernel.snd \in Seq32 /\ 0 \in Seq32
        /\ kernel.st \in {"closed", "listen", "syn_sent", "syn_rcvd", "established"}
    BY PacketTypes DEF TypeOK, KernelState
  <1>1. CASE kernel.st = "syn_sent"
    <2>1. p = Tcp(1, 0, 0, 0, kernel.isn, 0)
      BY <1>1 DEF Sends
    <2>2. QED
      BY <1>0, <1>1, <2>1 DEF Tcp, Packet
  <1>2. CASE kernel.st = "syn_rcvd"
    <2>1. p = Tcp(1, 1, 0, 0, kernel.isn, kernel.rcv)
      BY <1>2 DEF Sends
    <2>2. QED
      BY <1>0, <1>2, <2>1 DEF Tcp, Packet
  <1>3. CASE kernel.st = "established"
    <2>1. \E f, n \in 0 .. 1 : p = Tcp(0, 1, f, n, kernel.snd, kernel.rcv)
      <3>1. CASE kernel.fin = "due"
        <4>1. p = Tcp(0, 1, 1, 0, kernel.snd, kernel.rcv)
          BY <1>3, <3>1 DEF Sends
        <4>2. QED
          BY <4>1
      <3>2. CASE kernel.fin # "due"
        <4>1. Sends(kernel) = {Tcp(0, 1, 0, n, kernel.snd, kernel.rcv) : n \in IF kernel.fin = "no" THEN 0 .. 1 ELSE {0}}
          BY <1>3, <3>2 DEF Sends
        <4>2. QED
          BY <4>1
      <3>3. QED
        BY <3>1, <3>2
    <2>2. QED
      BY <1>0, <1>3, <2>1 DEF Tcp, Packet
  <1>4. CASE kernel.st \in {"closed", "listen"}
    BY <1>4 DEF Sends
  <1>5. QED
    BY <1>0, <1>1, <1>2, <1>3, <1>4

\* A socket that has learnt its numbers shows the live packet as it was written.
LEMMA OutboundMapped ==
  ASSUME TypeOK, NEW s \in Socket, NEW p \in Packet, NEW style,
         s.live_local_isn = kernel.isn, s.script_local_isn = scriptIsn,
         p.syn = 0 => s.remote_isn = peer.isn
  PROVE  Compared(map_outbound_live_packet(s, p, style), style) = OutboundScript(p, style)
  <1>0. /\ kernel.isn \in Seq32 /\ scriptIsn \in Seq32 /\ p.seq \in Seq32 /\ p.ack_seq \in Seq32
        /\ p.syn \in 0 .. 1 /\ p.ack \in 0 .. 1
    BY DEF TypeOK, KernelState, Packet
  <1> DEFINE x == Minus(p.seq, local_seq_script_to_live_offset(s, p.syn))
             y == IF p.syn = 1 THEN Plus(Minus(p.seq, kernel.isn), scriptIsn) ELSE Minus(p.seq, kernel.isn)
             a == IF style = "absolute" THEN p.seq ELSE x
             b == IF p.ack = 1 THEN Minus(p.ack_seq, remote_seq_script_to_live_offset(s, p.syn)) ELSE p.ack_seq
             c == IF style = "open" THEN 0 ELSE IF style = "absolute" THEN p.seq ELSE y
             d == IF p.ack = 0 \/ p.syn = 1 THEN p.ack_seq ELSE Minus(p.ack_seq, peer.isn)
  <1>1. x = y
    <2>1. CASE p.syn = 1
      BY <1>0, <2>1, Offsets DEF local_seq_script_to_live_offset
    <2>2. CASE p.syn = 0
      BY <2>2 DEF local_seq_script_to_live_offset
    <2>3. QED
      BY <1>0, <2>1, <2>2
  <1>2. b = d
    <2>1. CASE p.syn = 1
      BY <1>0, <2>1, Offsets DEF remote_seq_script_to_live_offset
    <2>2. CASE p.syn = 0
      BY <1>0, <2>2 DEF remote_seq_script_to_live_offset
    <2>3. QED
      BY <1>0, <2>1, <2>2
  <1>3. map_outbound_live_packet(s, p, style) = [p EXCEPT !.seq = a, !.ack_seq = b]
    BY DEF map_outbound_live_packet
  <1>4. OutboundScript(p, style) = [p EXCEPT !.seq = c, !.ack_seq = d]
    <2>1. c = IF style = "open" THEN 0 ELSE IF style = "absolute" THEN p.seq
              ELSE IF p.syn = 1 THEN Plus(Minus(p.seq, kernel.isn), scriptIsn) ELSE Minus(p.seq, kernel.isn)
      OBVIOUS
    <2> HIDE DEF c
    <2>2. QED
      BY <2>1 DEF OutboundScript
  <1>5. IF style = "open" THEN c = 0 ELSE a = c
    BY <1>1
  <1>6. [p EXCEPT !.seq = a, !.ack_seq = b].ack_seq = b
    BY DEF Packet
  <1> HIDE DEF a, b, c, d, x, y
  <1>7. QED
    BY <1>2, <1>3, <1>4, <1>5 DEF Compared, Packet

\* What is compared is a packet, whatever the socket has learnt.
LEMMA OutboundTyped ==
  ASSUME NEW s \in Socket, NEW p \in Packet, NEW style
  PROVE  Compared(map_outbound_live_packet(s, p, style), style) \in Packet
  <1>0. /\ s.live_local_isn \in Seq32 /\ s.script_local_isn \in Seq32 /\ s.remote_isn \in Seq32
        /\ p.seq \in Seq32 /\ p.ack_seq \in Seq32 /\ 0 \in Seq32
    BY PacketTypes DEF Socket, Packet
  <1> DEFINE x == local_seq_script_to_live_offset(s, p.syn)
             y == remote_seq_script_to_live_offset(s, p.syn)
             a == IF style = "absolute" THEN p.seq ELSE Minus(p.seq, x)
             b == IF p.ack = 1 THEN Minus(p.ack_seq, y) ELSE p.ack_seq
  <1>1. Minus(s.live_local_isn, s.script_local_isn) \in Seq32
    BY <1>0, MinusIs
  <1>2. x \in Seq32 /\ y \in Seq32
    BY <1>0, <1>1 DEF local_seq_script_to_live_offset, remote_seq_script_to_live_offset
  <1>3. map_outbound_live_packet(s, p, style) = [p EXCEPT !.seq = a, !.ack_seq = b]
    BY DEF map_outbound_live_packet
  <1> HIDE DEF x, y
  <1>4. Minus(p.seq, x) \in Seq32 /\ Minus(p.ack_seq, y) \in Seq32
    BY <1>0, <1>2, MinusIs
  <1>5. a \in Seq32 /\ b \in Seq32
    BY <1>0, <1>4
  <1> HIDE DEF a, b
  <1>6. QED
    BY <1>0, <1>3, <1>5 DEF Compared, Packet

\* What the script says of a packet of the kernel.
LEMMA OutboundScriptIs ==
  ASSUME TypeOK, NEW p \in Packet, p.syn = 0 => peer.isn # -1, NEW style
  PROVE  /\ OutboundScript(p, style) \in Packet
         /\ OutboundScript(p, style).syn = p.syn /\ OutboundScript(p, style).ack = p.ack
         /\ p.syn = 1 /\ p.seq = kernel.isn /\ ~kernel.known /\ CallsIsn(p, style) =>
              OutboundScript(p, style).seq = scriptIsn
  <1>0. /\ kernel.isn \in Seq32 /\ scriptIsn \in Seq32 /\ p.seq \in Seq32 /\ p.ack_seq \in Seq32
        /\ p.syn \in 0 .. 1 /\ p.ack \in 0 .. 1 /\ (p.syn = 0 => peer.isn \in Seq32)
        /\ Seq32 \subseteq 0 .. SeqMod /\ 0 \in Seq32
    BY SeqModAssumption DEF TypeOK, KernelState, Packet, Seq32
  <1> DEFINE y == IF p.syn = 1 THEN Plus(Minus(p.seq, kernel.isn), scriptIsn) ELSE Minus(p.seq, kernel.isn)
             c == IF style = "open" THEN 0 ELSE IF style = "absolute" THEN p.seq ELSE y
             d == IF p.ack = 0 \/ p.syn = 1 THEN p.ack_seq ELSE Minus(p.ack_seq, peer.isn)
  <1>1. c \in Seq32
    <2>1. Minus(p.seq, kernel.isn) \in Seq32
      BY <1>0, MinusIs
    <2>2. Plus(Minus(p.seq, kernel.isn), scriptIsn) \in Seq32
      BY <1>0, <2>1, PlusIs
    <2>3. QED
      BY <1>0, <2>1, <2>2
  <1>2. d \in Seq32
    <2>1. CASE p.syn = 1
      BY <1>0, <2>1
    <2>2. CASE p.syn = 0
      <3>1. Minus(p.ack_seq, peer.isn) \in Seq32
        BY <1>0, <2>2, MinusIs
      <3>2. QED
        BY <1>0, <3>1
    <2>3. QED
      BY <1>0, <2>1, <2>2
  <1>3. ASSUME p.syn = 1, p.seq = kernel.isn, ~kernel.known, CallsIsn(p, style) PROVE c = scriptIsn
    <2>1. Plus(Minus(kernel.isn, kernel.isn), scriptIsn) = scriptIsn
      BY <1>0, Offsets
    <2>2. QED
      BY <1>3, <2>1 DEF CallsIsn
  <1>4. OutboundScript(p, style) = [p EXCEPT !.seq = c, !.ack_seq = d]
    <2>1. c = IF style = "open" THEN 0 ELSE IF style = "absolute" THEN p.seq
              ELSE IF p.syn = 1 THEN Plus(Minus(p.seq, kernel.isn), scriptIsn) ELSE Minus(p.seq, kernel.isn)
      OBVIOUS
    <2> HIDE DEF c
    <2>2. QED
      BY <2>1 DEF OutboundScript
  <1> HIDE DEF c, d
  <1>5. QED
    BY <1>1, <1>2, <1>3, <1>4 DEF Packet

\* A packet was sniffed for a socket that has learnt the kernel's number: what
\* the invariant says of the socket is what has to be shown of it.
LEMMA OutboundEnd ==
  ASSUME IInv, Running, peer.packets < MaxPackets, NEW p \in Sends(kernel), NEW style,
         want' = OutboundScript(p, style), heard' = heard,
         got' = want' \/ (IsnForgotten /\ p.syn = 0), got' \in Packet,
         kernel' = [kernel EXCEPT !.snd = SegmentEnd(p), !.known = TRUE,
                                  !.fin = IF p.fin = 1 THEN "sent" ELSE @],
         peer' = [peer EXCEPT !.packets = @ + 1], last' = "outbound", UNCHANGED <<env, phase>>,
         sockets' \in Seq(Socket), Len(sockets') <= 2, sut' \in 1 .. Len(sockets'),
         NEW t \in Socket, sockets'[sut'] = t, t.tuple = "full",
         t.live_local_isn = kernel.isn, t.script_local_isn = scriptIsn, t.last_outbound = p,
         role = "active" /\ kernel.st # "established" => t.state = "SOCKET_ACTIVE_SYN_SENT",
         role = "active" /\ kernel.st = "established" => t.state = "SOCKET_ACTIVE_SYN_ACKED",
         role = "passive" /\ kernel.st # "established" =>
           t.state = "SOCKET_PASSIVE_SYNACK_SENT" \/ (IsnForgotten /\ t.state = "SOCKET_PASSIVE_SYNACK_ACKED"),
         role = "passive" /\ kernel.st = "established" => t.state = "SOCKET_PASSIVE_SYNACK_ACKED",
         role = "passive" \/ kernel.st = "established" => IsnForgotten \/ t.remote_isn = peer.isn
  PROVE  IInv'
  <1> USE DEF env, Running
  <1>1. /\ p \in Packet /\ p.doff = 5
        /\ kernel.st \in {"syn_sent", "syn_rcvd", "established"}
        /\ kernel.st = "syn_sent" => p = Tcp(1, 0, 0, 0, kernel.isn, 0)
        /\ kernel.st = "syn_rcvd" => p = Tcp(1, 1, 0, 0, kernel.isn, kernel.rcv)
        /\ kernel.st = "established" => p.syn = 0 /\ p.ack = 1 /\ p.ack_seq = kernel.rcv
    BY SendsTypes DEF IInv
  <1>2. SegmentEnd(p) \in Seq32
    BY <1>1, PacketTypes
  <1>3. kernel.st # "established" => /\ SegmentEnd(p) = Plus(kernel.isn, 1) /\ p.fin = 0
                                     /\ p.ack = IF kernel.st = "syn_sent" THEN 0 ELSE 1
                                     /\ p.ack_seq = IF kernel.st = "syn_sent" THEN 0 ELSE kernel.rcv
    BY <1>1 DEF SegmentEnd, Tcp
  <1>4. /\ kernel' \in KernelState /\ kernel'.st = kernel.st /\ kernel'.isn = kernel.isn
        /\ kernel'.rcv = kernel.rcv /\ kernel'.known = TRUE /\ kernel'.snd = SegmentEnd(p)
        /\ p.fin = 0 => kernel'.fin = kernel.fin
    <2>1. p.fin \in 0 .. 1
      BY <1>1 DEF Packet
    <2> DEFINE f == IF p.fin = 1 THEN "sent" ELSE kernel.fin
    <2>2. f \in {"no", "due", "sent"} /\ (p.fin = 0 => f = kernel.fin)
      BY <2>1 DEF IInv, TypeOK, KernelState
    <2>3. kernel' = [kernel EXCEPT !.snd = SegmentEnd(p), !.known = TRUE, !.fin = f]
      OBVIOUS
    <2> HIDE DEF f
    <2>4. QED
      BY <1>2, <2>2, <2>3 DEF IInv, TypeOK, KernelState
  <1>5. /\ peer' \in [isn : Seq32 \cup {-1}, snd : Seq32, fin : BOOLEAN, packets : 0 .. MaxPackets]
        /\ peer'.isn = peer.isn /\ peer'.snd = peer.snd
    <2> DEFINE n == peer.packets + 1
    <2>1. n \in 0 .. MaxPackets /\ peer' = [peer EXCEPT !.packets = n]
      BY MaxPacketsAssumption DEF IInv, TypeOK
    <2> HIDE DEF n
    <2>2. QED
      BY <2>1 DEF IInv, TypeOK
  <1>6. PlaceInv
    BY DEF IInv
  <1>7. want' \in Packet /\ want'.syn = p.syn
    <2>1. p.syn = 0 => peer.isn # -1
      BY <1>1, <1>6 DEF PlaceInv, EstablishedInv, Tcp
    <2>2. QED
      BY <1>1, <2>1, OutboundScriptIs DEF IInv
  <1>8. TypeOK'
    <2>1. sut' \in 0 .. Len(sockets')
      OBVIOUS
    <2>2. QED
      BY <1>4, <1>5, <1>7, <2>1 DEF IInv, TypeOK
  <1>9. LocalIsnLearnt' /\ sut' # 0
    BY <1>4 DEF LocalIsnLearnt, TheSocket
  <1>13. IsnForgotten' = IsnForgotten
    BY <1>5 DEF IsnForgotten
  <1>10. LastOutboundInv'
    <2>1. SegmentEnd(p)' = SegmentEnd(p)
      BY DEF SegmentEnd
    <2>2. CASE kernel.st = "syn_sent"
      BY <1>1, <1>3, <1>4, <1>9, <2>1, <2>2 DEF LastOutboundInv, TheSocket, SegmentEnd
    <2>3. CASE kernel.st # "syn_sent"
      BY <1>1, <1>3, <1>4, <1>9, <2>3 DEF LastOutboundInv, TheSocket
    <2>4. QED
      BY <2>2, <2>3
  <1>11. PlaceInv'
    <2>1. CASE kernel.st = "syn_sent"
      <3>1. SynSentInv'
        BY <1>4, <1>6, <1>9, <2>1 DEF PlaceInv, SynSentInv, HasSocket, TheSocket
      <3>2. QED
        BY <1>3, <1>4, <1>6, <1>10, <2>1, <3>1 DEF PlaceInv
    <2>2. CASE kernel.st = "syn_rcvd"
      <3>1. SynReceivedInv'
        BY <1>4, <1>5, <1>6, <1>9, <1>13, <2>2 DEF PlaceInv, SynReceivedInv, HasSocket, TheSocket, IInv, TypeOK,
           RemoteIsnLearnt, PeerInStep
      <3>2. QED
        BY <1>3, <1>4, <1>6, <1>10, <2>2, <3>1 DEF PlaceInv
    <2>3. CASE kernel.st = "established"
      <3>1. EstablishedInv'
        BY <1>4, <1>5, <1>6, <1>9, <1>13, <2>3 DEF PlaceInv, EstablishedInv, HasSocket, TheSocket, IInv, TypeOK,
           RemoteIsnLearnt, PeerInStep
      <3>2. QED
        BY <1>4, <1>10, <2>3, <3>1 DEF PlaceInv
    <2>4. QED
      BY <1>1, <2>1, <2>2, <2>3
  <1>12. QED
    BY <1>7, <1>8, <1>11, <1>13 DEF IInv, AsWritten, PacketsHeard, ResetClears

\* do_outbound_script_packet, once the socket is found and the packet is its.
LEMMA OutboundDone ==
  ASSUME NEW e, NEW p, NEW style, NEW list, NEW i, handle_connect_for_script_packet(e) = <<list, i>>,
         do_outbound_script_packet(e, p, style), i # 0,
         NEW s1, s1 = IF list[i].state = "SOCKET_PASSIVE_PACKET_RECEIVED" /\ e.syn = 1 /\ e.ack = 1
                         /\ style # "open"
                      THEN [list[i] EXCEPT !.script_local_isn = e.seq] ELSE list[i],
         Matches(s1, p),
         NEW s2, s2 = synack_sent(Sniffed(s1, p), p)
  PROVE  /\ sockets' = [list EXCEPT ![i] = [s2 EXCEPT !.last_outbound = p]]
         /\ sut' = i /\ got' = Compared(map_outbound_live_packet(s2, p, style), style) /\ heard' = heard
  <1> DEFINE found == handle_connect_for_script_packet(e)
  <1>1. found[1] = list /\ found[2] = i
    OBVIOUS
  <1> HIDE DEF found
  <1>2. QED
    BY <1>1 DEF do_outbound_script_packet, found

\* The socket knows all about its connection: nothing is learnt.
LEMMA OutboundKnown ==
  ASSUME IInv, outbound_packet,
         sut # 0, TheSocket.tuple = "full", LocalIsnLearnt,
         TheSocket.state \notin {"SOCKET_ACTIVE_CONNECTING", "SOCKET_PASSIVE_PACKET_RECEIVED"}
  PROVE  IInv'
  <1>1. PICK p \in Sends(kernel), style \in {"plain", "absolute", "open"} :
          /\ CallsIsn(p, style)
          /\ want' = OutboundScript(p, style)
          /\ do_outbound_script_packet(OutboundScript(p, style), p, style)
          /\ kernel' = [kernel EXCEPT !.snd = SegmentEnd(p), !.known = TRUE,
                                      !.fin = IF p.fin = 1 THEN "sent" ELSE @]
    BY DEF outbound_packet
  <1>2. /\ p \in Packet /\ p.doff = 5
        /\ kernel.st \in {"syn_sent", "syn_rcvd", "established"}
        /\ kernel.st # "established" => p.syn = 1
    BY SendsTypes DEF IInv, Tcp
  <1>3. sut \in 1 .. Len(sockets) /\ TheSocket \in Socket /\ sockets \in Seq(Socket) /\ Len(sockets) <= 2
    BY DEF IInv, TypeOK, TheSocket
  <1>4. PlaceInv /\ Running
    BY DEF IInv, outbound_packet
  <1>5. handle_connect_for_script_packet(OutboundScript(p, style)) = <<sockets, sut>>
    BY DEF handle_connect_for_script_packet, TheSocket
  <1>6. /\ Matches(TheSocket, p) /\ Sniffed(TheSocket, p) = TheSocket
        /\ synack_sent(TheSocket, p) = TheSocket
    BY DEF Matches, Sniffed, synack_sent
  <1> DEFINE t == [TheSocket EXCEPT !.last_outbound = p]
  <1>7. /\ sockets' = [sockets EXCEPT ![sut] = t]
        /\ sut' = sut /\ got' = Compared(map_outbound_live_packet(TheSocket, p, style), style) /\ heard' = heard
    BY <1>1, <1>5, <1>6, OutboundDone DEF TheSocket
  <1>8. /\ t \in Socket /\ t.tuple = "full" /\ t.last_outbound = p /\ t.state = TheSocket.state
        /\ t.live_local_isn = kernel.isn /\ t.script_local_isn = scriptIsn
        /\ t.remote_isn = TheSocket.remote_isn
    BY <1>2, <1>3 DEF Socket, LocalIsnLearnt
  <1> HIDE DEF t
  <1>9. /\ sockets' \in Seq(Socket) /\ Len(sockets') <= 2 /\ sut' \in 1 .. Len(sockets')
        /\ sockets'[sut'] = t
    BY <1>3, <1>7, <1>8, MarkedType DEF IInv
  <1>10. /\ role = "active" /\ kernel.st # "established" => t.state = "SOCKET_ACTIVE_SYN_SENT"
         /\ role = "active" /\ kernel.st = "established" => t.state = "SOCKET_ACTIVE_SYN_ACKED"
         /\ role = "passive" /\ kernel.st # "established" =>
              t.state = "SOCKET_PASSIVE_SYNACK_SENT" \/ (IsnForgotten /\ t.state = "SOCKET_PASSIVE_SYNACK_ACKED")
         /\ role = "passive" /\ kernel.st = "established" => t.state = "SOCKET_PASSIVE_SYNACK_ACKED"
         /\ role = "passive" \/ kernel.st = "established" => IsnForgotten \/ t.remote_isn = peer.isn
    <2>1. CASE kernel.st = "syn_sent"
      <3>1. SynSentInv
        BY <1>4, <2>1 DEF PlaceInv
      <3>2. kernel.known
        BY <3>1 DEF SynSentInv, BeforePackets, OnlySocket, NoSockets, TheSocket
      <3>3. QED
        BY <1>8, <2>1, <3>1, <3>2 DEF SynSentInv, HasSocket
    <2>2. CASE kernel.st = "syn_rcvd"
      <3>1. SynReceivedInv
        BY <1>4, <2>2 DEF PlaceInv
      <3>2. kernel.known
        BY <3>1 DEF SynReceivedInv, HasSocket, IInv, TypeOK, KernelState
      <3>3. QED
        BY <1>8, <2>2, <3>1, <3>2 DEF SynReceivedInv, HasSocket, RemoteIsnLearnt
    <2>3. CASE kernel.st = "established"
      BY <1>4, <1>8, <2>3 DEF PlaceInv, EstablishedInv, HasSocket, RemoteIsnLearnt
    <2>4. QED
      BY <1>2, <2>1, <2>2, <2>3
  <1>11. (got' = want' \/ (IsnForgotten /\ p.syn = 0)) /\ got' \in Packet
    <2>1. p.syn = 0 => IsnForgotten \/ TheSocket.remote_isn = peer.isn
      BY <1>2, <1>8, <1>10
    <2>2. got' \in Packet
      BY <1>2, <1>3, <1>7, OutboundTyped
    <2>3. got' = want' \/ (IsnForgotten /\ p.syn = 0)
      BY <1>1, <1>2, <1>3, <1>7, <2>1, OutboundMapped DEF IInv, LocalIsnLearnt, Packet
    <2>4. QED
      BY <2>2, <2>3
  <1>12. QED
    BY <1>1, <1>4, <1>7, <1>8, <1>9, <1>10, <1>11, OutboundEnd DEF outbound_packet

\* The SYN-ACK of a passive connection: both numbers are learnt from it.
LEMMA OutboundSynAck ==
  ASSUME IInv, outbound_packet, kernel.st = "syn_rcvd", role = "passive", ~kernel.known
  PROVE  IInv'
  <1>1. PICK p \in Sends(kernel), style \in {"plain", "absolute", "open"} :
          /\ CallsIsn(p, style)
          /\ want' = OutboundScript(p, style)
          /\ do_outbound_script_packet(OutboundScript(p, style), p, style)
          /\ kernel' = [kernel EXCEPT !.snd = SegmentEnd(p), !.known = TRUE,
                                      !.fin = IF p.fin = 1 THEN "sent" ELSE @]
    BY DEF outbound_packet
  <1>2. p \in Packet /\ p.syn = 1 /\ p.ack = 1 /\ p.seq = kernel.isn
    BY SendsTypes DEF IInv, Tcp
  <1>3. PlaceInv /\ Running
    BY DEF IInv, outbound_packet
  <1>4. /\ sut # 0 /\ TheSocket.state = "SOCKET_PASSIVE_PACKET_RECEIVED" /\ TheSocket.tuple = "full"
        /\ IsnForgotten \/ TheSocket.remote_isn = peer.isn
        /\ TheSocket.script_local_isn = 0
    BY <1>3 DEF PlaceInv, SynReceivedInv, HasSocket, RemoteIsnLearnt
  <1>5. sut \in 1 .. Len(sockets) /\ TheSocket \in Socket /\ sockets \in Seq(Socket) /\ Len(sockets) <= 2
    BY <1>4 DEF IInv, TypeOK, TheSocket
  <1> DEFINE e == OutboundScript(p, style)
  <1>6. /\ e.syn = 1 /\ e.ack = 1 /\ e.seq = scriptIsn /\ scriptIsn \in Seq32 /\ kernel.isn \in Seq32
        /\ style = "open" => scriptIsn = 0
    BY <1>1, <1>2, OutboundScriptIs DEF IInv, TypeOK, KernelState, CallsIsn
  <1> HIDE DEF e
  <1>7. handle_connect_for_script_packet(e) = <<sockets, sut>>
    BY <1>6 DEF handle_connect_for_script_packet
  <1> DEFINE s1 == [TheSocket EXCEPT !.script_local_isn = scriptIsn]
             s2 == [s1 EXCEPT !.state = "SOCKET_PASSIVE_SYNACK_SENT", !.live_local_isn = kernel.isn]
             t == [s2 EXCEPT !.last_outbound = p]
  <1>8. Matches(s1, p) /\ Sniffed(s1, p) = s1 /\ synack_sent(s1, p) = s2
    BY <1>2, <1>4, <1>5 DEF Matches, Sniffed, synack_sent, Socket
  <1>9. /\ s2 \in Socket /\ s2.live_local_isn = kernel.isn /\ s2.script_local_isn = scriptIsn
        /\ IsnForgotten \/ s2.remote_isn = peer.isn
    BY <1>4, <1>5, <1>6 DEF Socket, SocketState
  <1>10. /\ t \in Socket /\ t.tuple = "full" /\ t.last_outbound = p /\ t.state = "SOCKET_PASSIVE_SYNACK_SENT"
         /\ t.live_local_isn = kernel.isn /\ t.script_local_isn = scriptIsn
         /\ IsnForgotten \/ t.remote_isn = peer.isn
    BY <1>2, <1>4, <1>5, <1>6 DEF Socket, SocketState
  <1>11. /\ sockets' = [sockets EXCEPT ![sut] = t]
         /\ sut' = sut /\ got' = Compared(map_outbound_live_packet(s2, p, style), style) /\ heard' = heard
    <2>1. s1 = IF sockets[sut].state = "SOCKET_PASSIVE_PACKET_RECEIVED" /\ e.syn = 1 /\ e.ack = 1
                  /\ style # "open"
               THEN [sockets[sut] EXCEPT !.script_local_isn = e.seq] ELSE sockets[sut]
      <3>1. CASE style # "open"
        BY <1>4, <1>6, <3>1 DEF TheSocket
      <3>2. CASE style = "open"
        <4>1. s1 = TheSocket
          BY <1>4, <1>5, <1>6, <3>2 DEF Socket
        <4>2. QED
          BY <3>2, <4>1 DEF TheSocket
      <3>3. QED
        BY <3>1, <3>2
    <2>2. do_outbound_script_packet(e, p, style)
      BY <1>1 DEF e
    <2>3. s2 = synack_sent(Sniffed(s1, p), p)
      BY <1>8
    <2> HIDE DEF s1, s2
    <2>4. QED
      BY <1>4, <1>7, <1>8, <2>1, <2>2, <2>3, OutboundDone
  <1> HIDE DEF s2, t
  <1>12. /\ sockets' \in Seq(Socket) /\ Len(sockets') <= 2 /\ sut' \in 1 .. Len(sockets')
         /\ sockets'[sut'] = t
    BY <1>5, <1>10, <1>11, MarkedType DEF IInv
  <1>13. got' = want' /\ got' \in Packet
    BY <1>1, <1>2, <1>9, <1>11, OutboundMapped, OutboundTyped DEF IInv
  <1>14. QED
    BY <1>1, <1>3, <1>10, <1>11, <1>12, <1>13, OutboundEnd DEF outbound_packet

\* A list of one socket.
LEMMA OneSocket ==
  ASSUME NEW l \in Seq(Socket), Len(l) = 1, NEW s \in Socket
  PROVE  /\ l[1] \in Socket /\ 1 \in DOMAIN l
         /\ [l EXCEPT ![1] = s] \in Seq(Socket) /\ Len([l EXCEPT ![1] = s]) = 1
         /\ [l EXCEPT ![1] = s][1] = s
  <1>1. 1 \in 1 .. Len(l)
    OBVIOUS
  <1>2. QED
    BY <1>1

\* The first SYN of an active connection: the socket, which handle_connect made
\* or found, learns its address and its number from it.
LEMMA OutboundSyn ==
  ASSUME IInv, outbound_packet, kernel.st = "syn_sent", ~kernel.known
  PROVE  IInv'
  <1>1. PICK p \in Sends(kernel), style \in {"plain", "absolute", "open"} :
          /\ CallsIsn(p, style)
          /\ want' = OutboundScript(p, style)
          /\ do_outbound_script_packet(OutboundScript(p, style), p, style)
          /\ kernel' = [kernel EXCEPT !.snd = SegmentEnd(p), !.known = TRUE,
                                      !.fin = IF p.fin = 1 THEN "sent" ELSE @]
    BY DEF outbound_packet
  <1>2. p \in Packet /\ p.syn = 1 /\ p.ack = 0 /\ p.seq = kernel.isn
    BY SendsTypes DEF IInv, Tcp
  <1>3. PlaceInv /\ Running
    BY DEF IInv, outbound_packet
  <1>4. role = "active" /\ BeforePackets("SOCKET_ACTIVE_CONNECTING", "remote")
    BY <1>3 DEF PlaceInv, SynSentInv
  <1> DEFINE e == OutboundScript(p, style)
  <1>5. e.syn = 1 /\ e.ack = 0 /\ e.seq = scriptIsn /\ scriptIsn \in Seq32 /\ kernel.isn \in Seq32
    BY <1>1, <1>2, OutboundScriptIs DEF IInv, TypeOK, KernelState
  <1> HIDE DEF e
  <1>6. \E list \in Seq(Socket) :
          /\ handle_connect_for_script_packet(e) = <<list, 1>> /\ Len(list) = 1
          /\ list[1].state = "SOCKET_ACTIVE_SYN_SENT" /\ list[1].tuple = "remote"
          /\ list[1].script_local_isn = scriptIsn
    <2>1. CASE mode = "local"
      <3> DEFINE s == [sockets[1] EXCEPT !.state = "SOCKET_ACTIVE_SYN_SENT", !.script_local_isn = e.seq]
      <3>1. /\ Len(sockets) = 1 /\ sut = 1 /\ sockets[1].state = "SOCKET_ACTIVE_CONNECTING"
            /\ sockets[1].tuple = "remote" /\ sockets \in Seq(Socket)
        BY <1>4, <2>1 DEF BeforePackets, OnlySocket, IInv, TypeOK
      <3>2. sockets[1] \in Socket /\ 1 \in DOMAIN sockets
        BY <3>1, OneSocket, PacketTypes
      <3>3. /\ s \in Socket /\ s.state = "SOCKET_ACTIVE_SYN_SENT" /\ s.tuple = "remote"
            /\ s.script_local_isn = scriptIsn
        BY <1>5, <3>1, <3>2 DEF Socket, SocketState
      <3>4. handle_connect_for_script_packet(e) = <<[sockets EXCEPT ![1] = s], 1>>
        <4>1. handle_connect_for_script_packet(e) =
                <<[sockets EXCEPT ![1].state = "SOCKET_ACTIVE_SYN_SENT", ![1].script_local_isn = e.seq], 1>>
          <5>1. handle_connect_for_script_packet(e) =
                  <<[sockets EXCEPT ![sut].state = "SOCKET_ACTIVE_SYN_SENT", ![sut].script_local_isn = e.seq], sut>>
            <6>1. sut # 0 /\ mode # "wire_server" /\ sockets[sut].state = "SOCKET_ACTIVE_CONNECTING"
              BY <2>1, <3>1
            <6>2. QED
              BY <1>5, <2>1, <6>1, Zenon DEF handle_connect_for_script_packet
          <5>2. QED
            BY <3>1, <5>1, Zenon
        <4>2. [sockets EXCEPT ![1].state = "SOCKET_ACTIVE_SYN_SENT", ![1].script_local_isn = e.seq]
                = [sockets EXCEPT ![1] = s]
          BY <3>1, <3>2
        <4>3. QED
          BY <4>1, <4>2
      <3> HIDE DEF s
      <3>5. /\ [sockets EXCEPT ![1] = s] \in Seq(Socket) /\ Len([sockets EXCEPT ![1] = s]) = 1
            /\ [sockets EXCEPT ![1] = s][1] = s
        BY <3>1, <3>3, OneSocket
      <3>6. QED
        BY <3>3, <3>4, <3>5
    <2>2. CASE mode # "local"
      <3> DEFINE s == [socket_new EXCEPT !.state = "SOCKET_ACTIVE_SYN_SENT", !.tuple = "remote",
                                         !.fd = -1, !.script_local_isn = e.seq]
      <3>1. mode = "wire_server" /\ sut = 0
        BY <1>4, <2>2 DEF BeforePackets, NoSockets, IInv, TypeOK, SetupName
      <3>2. /\ s \in Socket /\ s.state = "SOCKET_ACTIVE_SYN_SENT" /\ s.tuple = "remote"
            /\ s.script_local_isn = scriptIsn
        BY <1>5, PacketTypes DEF Socket, SocketState
      <3>3. handle_connect_for_script_packet(e) = <<<<s>>, 1>>
        BY <1>5, <3>1 DEF handle_connect_for_script_packet
      <3> HIDE DEF s
      <3>4. <<s>> \in Seq(Socket) /\ Len(<<s>>) = 1 /\ <<s>>[1] = s
        BY <3>2
      <3>5. QED
        BY <3>2, <3>3, <3>4
    <2>3. QED
      BY <2>1, <2>2
  <1>7. PICK list \in Seq(Socket) :
          /\ handle_connect_for_script_packet(e) = <<list, 1>> /\ Len(list) = 1
          /\ list[1].state = "SOCKET_ACTIVE_SYN_SENT" /\ list[1].tuple = "remote"
          /\ list[1].script_local_isn = scriptIsn
    BY <1>6
  <1>8. PICK s1 \in Socket : s1 = list[1]
    BY <1>7, OneSocket, PacketTypes
  <1> DEFINE s2 == [s1 EXCEPT !.tuple = "full", !.live_local_isn = p.seq]
             t == [s2 EXCEPT !.last_outbound = p]
  <1>9. Matches(s1, p) /\ Sniffed(s1, p) = s2 /\ synack_sent(s2, p) = s2
    BY <1>2, <1>7, <1>8 DEF Matches, find_connect_for_live_packet, Sniffed, synack_sent, Socket
  <1>10. s2 \in Socket /\ s2.live_local_isn = kernel.isn /\ s2.script_local_isn = scriptIsn
    BY <1>2, <1>5, <1>7, <1>8 DEF Socket
  <1>11. /\ t \in Socket /\ t.tuple = "full" /\ t.last_outbound = p /\ t.state = "SOCKET_ACTIVE_SYN_SENT"
         /\ t.live_local_isn = kernel.isn /\ t.script_local_isn = scriptIsn
    BY <1>2, <1>5, <1>7, <1>8 DEF Socket
  <1>12. /\ sockets' = [list EXCEPT ![1] = t]
         /\ sut' = 1 /\ got' = Compared(map_outbound_live_packet(s2, p, style), style) /\ heard' = heard
    <2>1. s1 = IF list[1].state = "SOCKET_PASSIVE_PACKET_RECEIVED" /\ e.syn = 1 /\ e.ack = 1
                  /\ style # "open"
               THEN [list[1] EXCEPT !.script_local_isn = e.seq] ELSE list[1]
      BY <1>7, <1>8
    <2>2. do_outbound_script_packet(e, p, style)
      BY <1>1 DEF e
    <2>3. s2 = synack_sent(Sniffed(s1, p), p)
      BY <1>9
    <2> HIDE DEF s2
    <2>4. QED
      BY <1>7, <1>9, <2>1, <2>2, <2>3, OutboundDone
  <1> HIDE DEF s2, t
  <1>13. /\ sockets' \in Seq(Socket) /\ Len(sockets') <= 2 /\ sut' \in 1 .. Len(sockets')
         /\ sockets'[sut'] = t
    <2>1. sockets' \in Seq(Socket) /\ Len(sockets') = 1 /\ sockets'[1] = t
      BY <1>7, <1>11, <1>12, OneSocket
    <2>2. sut' = 1
      BY <1>12
    <2>3. QED
      BY <2>1, <2>2
  <1>14. got' = want' /\ got' \in Packet
    BY <1>1, <1>2, <1>10, <1>12, OutboundMapped, OutboundTyped DEF IInv
  <1>15. QED
    BY <1>1, <1>3, <1>4, <1>11, <1>12, <1>13, <1>14, OutboundEnd DEF outbound_packet

LEMMA OutboundInv == ASSUME IInv, outbound_packet PROVE IInv'
  <1>1. PlaceInv
    BY DEF IInv, outbound_packet
  <1>2. kernel.st \in {"syn_sent", "syn_rcvd", "established"} /\ role \in {"active", "passive"}
    BY SendsTypes DEF IInv, outbound_packet, TypeOK
  <1>3. CASE kernel.st = "syn_sent"
    BY <1>1, <1>3, OutboundSyn, OutboundKnown DEF PlaceInv, SynSentInv, HasSocket
  <1>4. CASE kernel.st = "syn_rcvd"
    BY <1>1, <1>2, <1>4, OutboundSynAck, OutboundKnown DEF PlaceInv, SynReceivedInv, HasSocket
  <1>5. CASE kernel.st = "established"
    BY <1>1, <1>5, OutboundKnown DEF PlaceInv, EstablishedInv, HasSocket
  <1>6. QED
    BY <1>2, <1>3, <1>4, <1>5

(***************************************************************************)
(* Packets of the script.                                                  *)
(***************************************************************************)
LEMMA InjectableTypes ==
  ASSUME IInv, Running, NEW p \in Injectable
  PROVE  /\ p \in Packet /\ p.doff = 5
         /\ kernel.st \in {"listen", "syn_sent", "syn_rcvd", "established"}
         /\ kernel.st = "listen" =>
              p.syn = 1 /\ p.ack = 0 /\ p.fin = 0 /\ p.len = 0
         /\ kernel.st = "syn_sent" =>
              /\ kernel.known /\ p.syn = 1 /\ p.fin = 0 /\ p.len = 0
              /\ p.ack = 1 => p.ack_seq = Plus(kernel.isn, 1)
         /\ kernel.st = "syn_rcvd" /\ role = "active" =>
              p.syn = 1 /\ p.ack = 1 /\ p.fin = 0 /\ p.len = 0 /\ p.ack_seq = Plus(kernel.isn, 1)
         /\ kernel.st = "syn_rcvd" /\ role = "passive" /\ ~kernel.known =>
              p.syn = 1 /\ p.ack = 0 /\ p.fin = 0 /\ p.len = 0 /\ p.seq = peer.isn
         /\ kernel.st = "established" \/ (kernel.st = "syn_rcvd" /\ role = "passive" /\ kernel.known) =>
              p.syn = 0 /\ p.ack = 1 /\ p.seq = peer.snd /\ p.ack_seq = kernel.snd
  <1>0. /\ kernel.isn \in Seq32 /\ kernel.rcv \in Seq32 /\ kernel.snd \in Seq32 /\ 0 \in Seq32
        /\ kernel.st \in {"closed", "listen", "syn_sent", "syn_rcvd", "established"}
        /\ peer.isn \in Seq32 \cup {-1} /\ peer.snd \in Seq32 /\ Plus(kernel.isn, 1) \in Seq32
        /\ role \in {"active", "passive"} /\ mode \in {"local", "wire_server"}
        /\ SetupName[mode][role] \in Setups /\ kernel.known \in BOOLEAN
    BY PacketTypes, PlusIs DEF IInv, TypeOK, KernelState, SetupName
  <1>1. PlaceInv
    BY DEF IInv
  <1>2. RemoteIsns \subseteq Seq32
    BY IsnsAssumption DEF Seq32
  <1>3. CASE kernel.st = "listen"
    <2>1. PICK isn \in RemoteIsns : p = Tcp(1, 0, 0, 0, isn, 0)
      BY <1>3 DEF Injectable, SynIn
    <2>2. role = "passive"
      BY <1>1, <1>3 DEF PlaceInv, ListenInv
    <2>3. QED
      BY <1>0, <1>2, <1>3, <2>1, <2>2 DEF Tcp, Packet
  <1>4. CASE kernel.st = "syn_sent"
    <2>1. kernel.known
      BY <1>4 DEF Injectable
    <2>2. \E isn \in RemoteIsns : p = Tcp(1, 0, 0, 0, isn, 0) \/ p = Tcp(1, 1, 0, 0, isn, Plus(kernel.isn, 1))
      BY <1>4, <2>1 DEF Injectable, SynIn, SynAckIn
    <2>3. QED
      BY <1>0, <1>2, <1>4, <2>1, <2>2 DEF Tcp, Packet
  <1>5. CASE kernel.st = "syn_rcvd" /\ role = "active"
    <2>1. peer.isn \in Seq32 /\ kernel.known
      BY <1>0, <1>1, <1>5 DEF PlaceInv, SynReceivedInv
    <2>2. p = Tcp(1, 1, 0, 0, peer.isn, Plus(kernel.isn, 1))
      BY <1>5, <2>1 DEF Injectable, SynAckIn
    <2>3. QED
      BY <1>0, <1>5, <2>1, <2>2 DEF Tcp, Packet
  <1>6. CASE kernel.st = "syn_rcvd" /\ role = "passive" /\ ~kernel.known
    <2>1. peer.isn \in Seq32
      BY <1>0, <1>1, <1>6 DEF PlaceInv, SynReceivedInv
    <2>2. p = Tcp(1, 0, 0, 0, peer.isn, 0)
      BY <1>6 DEF Injectable, SynIn
    <2>3. QED
      BY <1>0, <1>6, <2>1, <2>2 DEF Tcp, Packet
  <1>7. CASE kernel.st = "established" \/ (kernel.st = "syn_rcvd" /\ role = "passive" /\ kernel.known)
    <2>1. kernel.known
      BY <1>1, <1>7 DEF PlaceInv, EstablishedInv
    <2>2. \E f, n \in 0 .. 1 : p = Tcp(0, 1, f, n, peer.snd, kernel.snd)
      <3>1. p \in {q \in {Tcp(0, 1, f, n, peer.snd, kernel.snd) : f \in 0 .. 1, n \in 0 .. 1} :
                     peer.fin => q.fin + q.len = 0}
        BY <1>0, <1>7, <2>1 DEF Injectable
      <3>2. QED
        BY <3>1
    <2>3. QED
      BY <1>0, <1>7, <2>1, <2>2 DEF Tcp, Packet
  <1>8. kernel.st # "closed"
    BY DEF Injectable
  <1>9. QED
    BY <1>0, <1>3, <1>4, <1>5, <1>6, <1>7, <1>8

\* A packet is injected as it was meant, by a socket that has learnt the numbers
\* the packet is written with.
LEMMA InboundMapped ==
  ASSUME TypeOK, NEW s \in Socket, NEW p \in Packet, NEW style,
         p.syn = 0 => peer.isn # -1 /\ s.remote_isn = peer.isn,
         p.ack = 1 => s.live_local_isn = kernel.isn /\ s.script_local_isn = scriptIsn
  PROVE  map_inbound_packet(s, InboundScript(p, style), style) = p
  <1>0. /\ kernel.isn \in Seq32 /\ scriptIsn \in Seq32 /\ p.seq \in Seq32 /\ p.ack_seq \in Seq32
        /\ p.syn \in 0 .. 1 /\ p.ack \in 0 .. 1 /\ (p.syn = 0 => peer.isn \in Seq32)
    BY DEF TypeOK, KernelState, Packet
  <1> DEFINE a == IF p.syn = 1 \/ style = "absolute" THEN p.seq ELSE Minus(p.seq, peer.isn)
             b == IF p.ack = 0 THEN p.ack_seq
                  ELSE IF p.syn = 1 THEN Plus(Minus(p.ack_seq, kernel.isn), scriptIsn)
                  ELSE Minus(p.ack_seq, kernel.isn)
             c == IF style = "absolute" THEN a ELSE Plus(a, remote_seq_script_to_live_offset(s, p.syn))
             d == IF p.ack = 1 THEN Plus(b, local_seq_script_to_live_offset(s, p.syn)) ELSE b
  <1>1. c = p.seq
    <2>1. CASE p.syn = 1
      BY <1>0, <2>1, Offsets DEF remote_seq_script_to_live_offset
    <2>2. CASE p.syn = 0
      <3>1. Plus(Minus(p.seq, peer.isn), peer.isn) = p.seq
        BY <1>0, <2>2, Offsets
      <3>2. QED
        BY <2>2, <3>1 DEF remote_seq_script_to_live_offset
    <2>3. QED
      BY <1>0, <2>1, <2>2
  <1>2. d = p.ack_seq
    <2>1. CASE p.ack = 0
      BY <2>1
    <2>2. CASE p.ack = 1 /\ p.syn = 1
      <3>1. Plus(Plus(Minus(p.ack_seq, kernel.isn), scriptIsn), Minus(kernel.isn, scriptIsn)) = p.ack_seq
        BY <1>0, Offsets
      <3>2. QED
        BY <2>2, <3>1 DEF local_seq_script_to_live_offset
    <2>3. CASE p.ack = 1 /\ p.syn = 0
      <3>1. Plus(Minus(p.ack_seq, kernel.isn), kernel.isn) = p.ack_seq
        BY <1>0, Offsets
      <3>2. QED
        BY <2>3, <3>1 DEF local_seq_script_to_live_offset
    <2>4. QED
      BY <1>0, <2>1, <2>2, <2>3
  <1>3. InboundScript(p, style) = [p EXCEPT !.seq = a, !.ack_seq = b]
    BY DEF InboundScript
  <1>4. map_inbound_packet(s, [p EXCEPT !.seq = a, !.ack_seq = b], style) =
          [[p EXCEPT !.seq = a, !.ack_seq = b] EXCEPT !.seq = c, !.ack_seq = d]
    <2> DEFINE q == [p EXCEPT !.seq = a, !.ack_seq = b]
    <2>1. q.seq = a /\ q.ack_seq = b /\ q.syn = p.syn /\ q.ack = p.ack
      BY DEF Packet
    <2> HIDE DEF q, a, b
    <2>2. QED
      BY <2>1 DEF map_inbound_packet
  <1> HIDE DEF a, b, c, d
  <1>5. [[p EXCEPT !.seq = a, !.ack_seq = b] EXCEPT !.seq = c, !.ack_seq = d] = p
    BY <1>1, <1>2 DEF Packet
  <1>6. QED
    BY <1>3, <1>4, <1>5

\* What is injected is a packet of the same kind, whatever the socket has learnt.
LEMMA InboundTyped ==
  ASSUME TypeOK, NEW s \in Socket, NEW p \in Packet, NEW style, p.syn = 0, peer.isn # -1,
         NEW q, q = map_inbound_packet(s, InboundScript(p, style), style)
  PROVE  q \in Packet /\ q.syn = p.syn /\ q.ack = p.ack
  <1>0. /\ s.live_local_isn \in Seq32 /\ s.script_local_isn \in Seq32 /\ s.remote_isn \in Seq32
        /\ p.seq \in Seq32 /\ p.ack_seq \in Seq32 /\ kernel.isn \in Seq32 /\ peer.isn \in Seq32
        /\ Seq32 \subseteq 0 .. SeqMod
    BY SeqModAssumption DEF Socket, Packet, TypeOK, KernelState, Seq32
  <1> DEFINE a == IF style = "absolute" THEN p.seq ELSE Minus(p.seq, peer.isn)
             b == IF p.ack = 0 THEN p.ack_seq ELSE Minus(p.ack_seq, kernel.isn)
             e == [p EXCEPT !.seq = a, !.ack_seq = b]
             c == IF style = "absolute" THEN a ELSE Plus(a, s.remote_isn)
             d == IF p.ack = 1 THEN Plus(b, s.live_local_isn) ELSE b
  <1>1. InboundScript(p, style) = e
    BY DEF InboundScript
  <1>2. Minus(p.seq, peer.isn) \in Seq32 /\ Minus(p.ack_seq, kernel.isn) \in Seq32
    BY <1>0, MinusIs
  <1>3. a \in Seq32 /\ b \in Seq32
    BY <1>0, <1>2
  <1>4. e.seq = a /\ e.ack_seq = b /\ e.syn = 0 /\ e.ack = p.ack
    BY DEF Packet
  <1>5. e \in Packet
    BY <1>3 DEF Packet
  <1> HIDE DEF a, b, e
  <1>6. Plus(a, s.remote_isn) \in Seq32 /\ Plus(b, s.live_local_isn) \in Seq32
    BY <1>0, <1>3, PlusIs
  <1>7. c \in Seq32 /\ d \in Seq32
    BY <1>3, <1>6
  <1>8. map_inbound_packet(s, e, style) = [e EXCEPT !.seq = c, !.ack_seq = d]
    BY <1>4 DEF map_inbound_packet, remote_seq_script_to_live_offset, local_seq_script_to_live_offset
  <1> HIDE DEF c, d
  <1>9. QED
    BY <1>1, <1>4, <1>5, <1>7, <1>8 DEF Packet

\* What the kernel makes of the packets that a right script injects.
LEMMA ReceiveIs ==
  ASSUME IInv, Running, NEW p \in Injectable, p.syn = 1 \/ ~IsnForgotten
  PROVE  /\ Receive(kernel, p) \in KernelState
         /\ Receive(kernel, p).isn = kernel.isn /\ Receive(kernel, p).snd = kernel.snd
         /\ Receive(kernel, p).known = kernel.known /\ Receive(kernel, p).fin = kernel.fin
         /\ kernel.st = "syn_rcvd" /\ role = "passive" /\ ~kernel.known => Receive(kernel, p) = kernel
         /\ kernel.st # "syn_rcvd" \/ role = "active" \/ kernel.known =>
              /\ Receive(kernel, p).rcv = SegmentEnd(p)
              /\ Receive(kernel, p).st =
                   IF kernel.st = "listen" \/ (kernel.st = "syn_sent" /\ p.ack = 0)
                   THEN "syn_rcvd" ELSE "established"
  <1>1. /\ p \in Packet
        /\ kernel.st \in {"listen", "syn_sent", "syn_rcvd", "established"}
        /\ kernel.st = "listen" => p.syn = 1 /\ p.ack = 0
        /\ kernel.st = "syn_sent" => p.syn = 1 /\ (p.ack = 1 => p.ack_seq = Plus(kernel.isn, 1))
        /\ kernel.st = "syn_rcvd" /\ role = "active" =>
              p.syn = 1 /\ p.ack = 1 /\ p.ack_seq = Plus(kernel.isn, 1)
        /\ kernel.st = "syn_rcvd" /\ role = "passive" /\ ~kernel.known => p.ack = 0
        /\ kernel.st = "established" \/ (kernel.st = "syn_rcvd" /\ role = "passive" /\ kernel.known) =>
              p.syn = 0 /\ p.ack = 1 /\ p.seq = peer.snd /\ p.ack_seq = kernel.snd
    BY InjectableTypes
  <1>2. SegmentEnd(p) \in Seq32 /\ p.syn \in 0 .. 1 /\ p.ack \in 0 .. 1 /\ kernel \in KernelState
    BY <1>1, PacketTypes DEF Packet, IInv, TypeOK
  <1>3. PlaceInv /\ role \in {"active", "passive"}
    BY DEF IInv, TypeOK
  <1>4. CASE kernel.st = "listen"
    <2>1. Receive(kernel, p) = [kernel EXCEPT !.st = "syn_rcvd", !.rcv = SegmentEnd(p)]
      BY <1>1, <1>4 DEF Receive
    <2>2. QED
      BY <1>2, <1>4, <2>1 DEF KernelState
  <1>5. CASE kernel.st = "syn_sent"
    <2> DEFINE st == IF p.ack = 1 THEN "established" ELSE "syn_rcvd"
    <2>1. Receive(kernel, p) = [kernel EXCEPT !.st = st, !.rcv = SegmentEnd(p)]
      BY <1>1, <1>5 DEF Receive
    <2>2. st \in {"established", "syn_rcvd"}
      OBVIOUS
    <2>3. st = IF p.ack = 0 THEN "syn_rcvd" ELSE "established"
      BY <1>2
    <2> HIDE DEF st
    <2>4. QED
      BY <1>2, <1>5, <2>1, <2>2, <2>3 DEF KernelState
  <1>6. CASE kernel.st = "syn_rcvd" /\ (role = "active" \/ kernel.known)
    <2>1. p.ack = 1 /\ p.ack_seq = Plus(kernel.isn, 1) /\ (p.syn = 0 => p.seq = kernel.rcv)
      BY <1>1, <1>3, <1>6 DEF PlaceInv, SynReceivedInv, PeerInStep
    <2>2. Receive(kernel, p) = [kernel EXCEPT !.st = "established", !.rcv = SegmentEnd(p)]
      BY <1>6, <2>1 DEF Receive
    <2>3. QED
      BY <1>2, <1>6, <2>2 DEF KernelState
  <1>7. CASE kernel.st = "syn_rcvd" /\ role = "passive" /\ ~kernel.known
    <2>1. Receive(kernel, p) = kernel
      BY <1>1, <1>7 DEF Receive
    <2>2. QED
      BY <1>2, <1>7, <2>1
  <1>8. CASE kernel.st = "established"
    <2>1. p.syn = 0 /\ p.seq = kernel.rcv
      BY <1>1, <1>3, <1>8 DEF PlaceInv, EstablishedInv, PeerInStep
    <2>2. Receive(kernel, p) = [kernel EXCEPT !.rcv = SegmentEnd(p)]
      BY <1>8, <2>1 DEF Receive
    <2>3. QED
      BY <1>2, <1>8, <2>2 DEF KernelState
  <1>9. QED
    BY <1>1, <1>3, <1>4, <1>5, <1>6, <1>7, <1>8

\* A packet was injected as it was meant: what the invariant says of the socket
\* is what has to be shown of it.
LEMMA InboundEnd ==
  ASSUME IInv, Running, peer.packets < MaxPackets, NEW p \in Injectable,
         p.syn = 1 \/ ~IsnForgotten, want' = p, got' = p, kernel' = Receive(kernel, p),
         peer' = [isn |-> IF p.syn = 1 THEN p.seq ELSE peer.isn, snd |-> SegmentEnd(p),
                  fin |-> peer.fin \/ p.fin = 1, packets |-> peer.packets + 1],
         last' = "inbound", UNCHANGED <<env, heard, phase>>,
         sockets' \in Seq(Socket), Len(sockets') <= 2, sut' \in 1 .. Len(sockets'),
         NEW t \in Socket, sockets'[sut'] = t, t.tuple = "full",
         role = "passive" => IsnForgotten' \/ t.remote_isn = IF p.syn = 1 THEN p.seq ELSE peer.isn,
         kernel.st = "listen" \/ (kernel.st = "syn_rcvd" /\ role = "passive" /\ ~kernel.known) =>
           /\ t.state = "SOCKET_PASSIVE_PACKET_RECEIVED" /\ t.last_outbound = NoHeader
           /\ t.script_local_isn = 0
           /\ mode = "wire_server" => t.last_injected = p,
         kernel.known => t.live_local_isn = kernel.isn /\ t.script_local_isn = scriptIsn,
         role = "passive" /\ kernel.known => t.state = "SOCKET_PASSIVE_SYNACK_ACKED",
         role = "active" => IF p.ack = 0 THEN t.state = "SOCKET_ACTIVE_SYN_SENT"
                            ELSE /\ t.state = "SOCKET_ACTIVE_SYN_ACKED"
                                 /\ t.remote_isn = IF p.syn = 1 THEN p.seq ELSE peer.isn
  PROVE  IInv'
  <1> USE DEF env, Running
  <1>1. /\ p \in Packet /\ p.doff = 5
        /\ kernel.st \in {"listen", "syn_sent", "syn_rcvd", "established"}
        /\ kernel.st = "listen" => p.syn = 1 /\ p.ack = 0 /\ p.fin = 0 /\ p.len = 0
        /\ kernel.st = "syn_sent" => kernel.known /\ p.syn = 1
        /\ kernel.st = "syn_rcvd" /\ role = "active" => p.syn = 1 /\ p.ack = 1
        /\ kernel.st = "syn_rcvd" /\ role = "passive" /\ ~kernel.known =>
              p.syn = 1 /\ p.ack = 0 /\ p.fin = 0 /\ p.len = 0 /\ p.seq = peer.isn
        /\ kernel.st = "established" \/ (kernel.st = "syn_rcvd" /\ role = "passive" /\ kernel.known) =>
              p.syn = 0 /\ p.ack = 1
    BY InjectableTypes
  <1>2. /\ kernel' \in KernelState
        /\ kernel'.isn = kernel.isn /\ kernel'.snd = kernel.snd
        /\ kernel'.known = kernel.known /\ kernel'.fin = kernel.fin
        /\ kernel.st = "syn_rcvd" /\ role = "passive" /\ ~kernel.known => kernel' = kernel
        /\ kernel.st # "syn_rcvd" \/ role = "active" \/ kernel.known =>
             /\ kernel'.rcv = SegmentEnd(p)
             /\ kernel'.st = IF kernel.st = "listen" \/ (kernel.st = "syn_sent" /\ p.ack = 0)
                             THEN "syn_rcvd" ELSE "established"
    BY ReceiveIs
  <1>3. PlaceInv /\ role \in {"active", "passive"} /\ p.ack \in 0 .. 1 /\ p.seq \in Seq32 /\ p.syn \in 0 .. 1
    BY <1>1 DEF IInv, TypeOK, Packet
  <1>4. SegmentEnd(p) \in Seq32 /\ (p.syn = 1 /\ p.fin = 0 /\ p.len = 0 => SegmentEnd(p) = Plus(p.seq, 1))
    <2>1. SegmentEnd(p) \in Seq32
      BY <1>1, PacketTypes
    <2>2. p.syn = 1 /\ p.fin = 0 /\ p.len = 0 => p.syn + p.fin + p.len = 1
      OBVIOUS
    <2>3. QED
      BY <2>1, <2>2 DEF SegmentEnd
  <1> DEFINE isn == IF p.syn = 1 THEN p.seq ELSE peer.isn
  <1>5. isn \in Seq32 /\ isn # -1
    <2>1. p.syn = 0 => peer.isn # -1 /\ peer.isn \in Seq32 \cup {-1}
      BY <1>1, <1>3 DEF PlaceInv, EstablishedInv, SynReceivedInv, IInv, TypeOK
    <2>2. \A n \in Seq32 : n # -1
      BY SeqModAssumption DEF Seq32
    <2>3. QED
      BY <1>3, <2>1, <2>2
  <1>6. /\ peer' \in [isn : Seq32 \cup {-1}, snd : Seq32, fin : BOOLEAN, packets : 0 .. MaxPackets]
        /\ peer'.isn = isn /\ peer'.snd = SegmentEnd(p)
    <2> DEFINE f == peer.fin \/ p.fin = 1
               n == peer.packets + 1
    <2>1. f \in BOOLEAN
      OBVIOUS
    <2>2. n \in 0 .. MaxPackets
      BY MaxPacketsAssumption DEF IInv, TypeOK
    <2>3. peer' = [isn |-> isn, snd |-> SegmentEnd(p), fin |-> f, packets |-> n]
      OBVIOUS
    <2> HIDE DEF f, n, isn
    <2>4. QED
      BY <1>4, <1>5, <2>1, <2>2, <2>3
  <1>7. TypeOK'
    <2>1. sut' \in 0 .. Len(sockets')
      OBVIOUS
    <2>2. want' \in Packet /\ got' \in Packet
      BY <1>1
    <2>3. QED
      BY <1>2, <1>6, <2>1, <2>2 DEF IInv, TypeOK
  <1>8. sut' # 0 /\ TheSocket' = t
    BY DEF TheSocket
  <1>9. LastOutboundInv'
    BY DEF LastOutboundInv
  <1>10. PlaceInv'
    <2>1. CASE kernel.st = "listen" \/ (kernel.st = "syn_rcvd" /\ role = "passive" /\ ~kernel.known)
      <3>1. role = "passive" /\ ~kernel.known /\ kernel'.st = "syn_rcvd"
        BY <1>2, <1>3, <2>1 DEF PlaceInv, ListenInv, BeforePackets
      <3>2. p.syn = 1 /\ p.fin = 0 /\ p.len = 0 /\ SegmentEnd(p) = Plus(p.seq, 1)
        BY <1>1, <1>4, <2>1
      <3>3. kernel'.rcv = SegmentEnd(p)
        <4>1. CASE kernel.st = "listen"
          BY <1>2, <4>1
        <4>2. CASE kernel.st # "listen"
          BY <1>1, <1>2, <1>3, <2>1, <3>2, <4>2 DEF PlaceInv, SynReceivedInv
        <4>3. QED
          BY <4>1, <4>2
      <3>4. SegmentEnd(t.last_injected)' = SegmentEnd(t.last_injected)
        BY DEF SegmentEnd
      <3>5. SynReceivedInv'
        BY <1>1, <1>2, <1>5, <1>6, <1>8, <2>1, <3>1, <3>2, <3>3 DEF SynReceivedInv, HasSocket, SegmentEnd,
           RemoteIsnLearnt, PeerInStep
      <3>6. kernel.snd = Plus(kernel.isn, 1) /\ kernel.fin = "no"
        BY <1>3, <2>1 DEF PlaceInv
      <3>7. QED
        BY <1>2, <1>9, <3>1, <3>5, <3>6 DEF PlaceInv
    <2>2. CASE kernel.st = "syn_sent" /\ p.ack = 0
      <3>1. role = "active" /\ kernel.known /\ kernel'.st = "syn_rcvd" /\ kernel'.rcv = SegmentEnd(p)
        BY <1>1, <1>2, <1>3, <2>2 DEF PlaceInv, SynSentInv
      <3>2. SynReceivedInv'
        BY <1>2, <1>5, <1>6, <1>8, <2>2, <3>1 DEF SynReceivedInv, HasSocket, LocalIsnLearnt, PeerInStep
      <3>3. kernel.snd = Plus(kernel.isn, 1) /\ kernel.fin = "no"
        BY <1>3, <2>2 DEF PlaceInv
      <3>4. QED
        BY <1>2, <1>9, <3>1, <3>2, <3>3 DEF PlaceInv
    <2>3. CASE \/ kernel.st = "syn_sent" /\ p.ack = 1
               \/ kernel.st = "syn_rcvd" /\ (role = "active" \/ kernel.known)
               \/ kernel.st = "established"
      <3>1. kernel.known /\ kernel'.st = "established" /\ kernel'.rcv = SegmentEnd(p)
        BY <1>1, <1>2, <1>3, <2>3 DEF PlaceInv, EstablishedInv, SynReceivedInv
      <3>2. role = "active" => p.ack = 1
        BY <1>1, <2>3
      <3>3. t.state = IF role = "active" THEN "SOCKET_ACTIVE_SYN_ACKED" ELSE "SOCKET_PASSIVE_SYNACK_ACKED"
        BY <1>3, <3>1, <3>2
      <3>4. IsnForgotten' \/ t.remote_isn = isn
        BY <1>3, <3>2
      <3>5. EstablishedInv'
        BY <1>2, <1>5, <1>6, <1>8, <3>1, <3>3, <3>4 DEF EstablishedInv, HasSocket, LocalIsnLearnt,
           RemoteIsnLearnt, PeerInStep
      <3>6. QED
        BY <1>9, <3>1, <3>5 DEF PlaceInv
    <2>4. QED
      BY <1>1, <1>3, <2>1, <2>2, <2>3
  <1>11. QED
    BY <1>7, <1>10 DEF IInv, AsWritten, IsnForgotten, PacketsHeard, ResetClears

\* do_inbound_script_packet, once the socket is found: it has a connection, or
\* a child is made for it.
LEMMA InboundDone ==
  ASSUME NEW e, NEW style, NEW list, NEW i, handle_listen_for_script_packet(e) = <<list, i>>,
         do_inbound_script_packet(e, style),
         NEW s, s = received(list[i], e), s.tuple # "none",
         NEW live, live = map_inbound_packet(s, e, style)
  PROVE  /\ sockets' = [list EXCEPT ![i] = [s EXCEPT !.last_injected = live]]
         /\ sut' = i /\ got' = live /\ kernel' = Receive(kernel, live)
  <1> DEFINE found == handle_listen_for_script_packet(e)
  <1>1. found[1] = list /\ found[2] = i
    OBVIOUS
  <1> HIDE DEF found
  <1>2. QED
    BY <1>1 DEF do_inbound_script_packet, found

LEMMA InboundChild ==
  ASSUME NEW e, NEW style, NEW list, NEW i, handle_listen_for_script_packet(e) = <<list, i>>,
         do_inbound_script_packet(e, style),
         NEW s, s = received(list[i], e), s.tuple = "none",
         NEW live, live = map_inbound_packet(s, e, style),
         NEW l, l = [list EXCEPT ![i] = [s EXCEPT !.last_injected = live]]
  PROVE  /\ sockets' = Append(l, setup_new_child_socket)
         /\ sut' = Len(l) + 1 /\ got' = live /\ kernel' = Receive(kernel, live)
  <1> DEFINE found == handle_listen_for_script_packet(e)
  <1>1. found[1] = list /\ found[2] = i
    OBVIOUS
  <1> HIDE DEF found
  <1>2. QED
    BY <1>1 DEF do_inbound_script_packet, found

\* What the script says of a packet it injects.
LEMMA InboundScriptIs ==
  ASSUME NEW p \in Packet, NEW style
  PROVE  /\ InboundScript(p, style).syn = p.syn /\ InboundScript(p, style).ack = p.ack
         /\ p.syn = 1 => InboundScript(p, style).seq = p.seq
  BY DEF InboundScript, Packet

\* The packet goes to the socket of a connection that there is.
LEMMA InboundKnown ==
  ASSUME IInv, inbound_packet, kernel.st \notin {"closed", "listen"}, ~IsnForgotten \/ ~kernel.known
  PROVE  IInv'
  <1>1. PICK p \in Injectable, style \in {"plain", "absolute"} :
          /\ want' = p
          /\ do_inbound_script_packet(InboundScript(p, style), style)
          /\ peer' = [isn |-> IF p.syn = 1 THEN p.seq ELSE peer.isn, snd |-> SegmentEnd(p),
                      fin |-> peer.fin \/ p.fin = 1, packets |-> peer.packets + 1]
    BY DEF inbound_packet
  <1>2. PlaceInv /\ Running /\ role \in {"active", "passive"} /\ kernel.known \in BOOLEAN
    BY DEF IInv, inbound_packet, TypeOK, KernelState
  <1>3. /\ p \in Packet
        /\ kernel.st \in {"syn_sent", "syn_rcvd", "established"}
        /\ kernel.st = "syn_sent" => kernel.known /\ p.syn = 1
        /\ kernel.st = "syn_rcvd" /\ role = "active" => p.syn = 1 /\ p.ack = 1
        /\ kernel.st = "syn_rcvd" /\ role = "passive" /\ ~kernel.known =>
              p.syn = 1 /\ p.ack = 0 /\ p.seq = peer.isn
        /\ kernel.st = "established" \/ (kernel.st = "syn_rcvd" /\ role = "passive" /\ kernel.known) =>
              p.syn = 0 /\ p.ack = 1
    BY <1>2, InjectableTypes
  <1> DEFINE e == InboundScript(p, style)
  <1>4. e.syn = p.syn /\ e.ack = p.ack /\ (p.syn = 1 => e.seq = p.seq) /\ p.ack \in 0 .. 1 /\ p.syn \in 0 .. 1
        /\ p.seq \in Seq32
    BY <1>3, InboundScriptIs DEF Packet
  <1>14. do_inbound_script_packet(e, style)
    BY <1>1
  <1>15. \A s \in Socket :
           /\ p.syn = 0 => peer.isn # -1 /\ s.remote_isn = peer.isn
           /\ p.ack = 1 => s.live_local_isn = kernel.isn /\ s.script_local_isn = scriptIsn
           => map_inbound_packet(s, e, style) = p
    BY <1>3, InboundMapped DEF IInv
  <1> HIDE DEF e
  <1>5. /\ sut # 0 /\ TheSocket.tuple = "full"
        /\ role = "active" => TheSocket.state = IF kernel.st = "established" THEN "SOCKET_ACTIVE_SYN_ACKED"
                                                ELSE "SOCKET_ACTIVE_SYN_SENT"
        /\ role = "passive" => TheSocket.state = IF kernel.st = "established" THEN "SOCKET_PASSIVE_SYNACK_ACKED"
                                                 ELSE IF kernel.known THEN "SOCKET_PASSIVE_SYNACK_SENT"
                                                 ELSE "SOCKET_PASSIVE_PACKET_RECEIVED"
        /\ kernel.known => LocalIsnLearnt
        /\ role = "passive" \/ kernel.st = "established" =>
             (IsnForgotten \/ TheSocket.remote_isn = peer.isn) /\ peer.isn # -1
        /\ ~kernel.known => /\ TheSocket.last_outbound = NoHeader /\ TheSocket.script_local_isn = 0
                            /\ kernel.st = "syn_rcvd" /\ role = "passive"
    <2>1. CASE kernel.st = "syn_sent"
      BY <1>2, <1>3, <2>1 DEF PlaceInv, SynSentInv, HasSocket
    <2>2. CASE kernel.st = "syn_rcvd"
      BY <1>2, <2>2 DEF PlaceInv, SynReceivedInv, HasSocket, RemoteIsnLearnt
    <2>3. CASE kernel.st = "established"
      BY <1>2, <2>3 DEF PlaceInv, EstablishedInv, HasSocket, RemoteIsnLearnt
    <2>4. QED
      BY <1>3, <2>1, <2>2, <2>3
  <1>6. sut \in 1 .. Len(sockets) /\ TheSocket \in Socket /\ sockets \in Seq(Socket) /\ Len(sockets) <= 2
    BY <1>5 DEF IInv, TypeOK, TheSocket
  <1>7. handle_listen_for_script_packet(e) = <<sockets, sut>>
    <2>1. sockets[sut].state # "SOCKET_PASSIVE_LISTENING"
      BY <1>2, <1>5 DEF TheSocket
    <2>2. QED
      BY <1>5, <2>1 DEF handle_listen_for_script_packet
  <1>8. PICK s \in Socket :
          /\ s = received(TheSocket, e) /\ s.tuple = "full" /\ s.last_outbound = TheSocket.last_outbound
          /\ kernel.known => s.live_local_isn = kernel.isn /\ s.script_local_isn = scriptIsn
          /\ ~kernel.known => s.script_local_isn = 0
          /\ role = "passive" => IsnForgotten \/ s.remote_isn = peer.isn
          /\ role = "passive" /\ kernel.known => s.state = "SOCKET_PASSIVE_SYNACK_ACKED"
          /\ ~kernel.known => s.state = "SOCKET_PASSIVE_PACKET_RECEIVED"
          /\ role = "active" => IF p.ack = 0 THEN s.state = "SOCKET_ACTIVE_SYN_SENT"
                                ELSE /\ s.state = "SOCKET_ACTIVE_SYN_ACKED"
                                     /\ s.remote_isn = IF p.syn = 1 THEN p.seq ELSE peer.isn
    <2>1. CASE role = "active" /\ kernel.st # "established" /\ p.ack = 1
      <3> DEFINE r == [TheSocket EXCEPT !.state = "SOCKET_ACTIVE_SYN_ACKED", !.remote_isn = p.seq]
      <3>0. p.syn = 1 /\ kernel.known
        BY <1>3, <1>5, <2>1
      <3>1. received(TheSocket, e) = r
        BY <1>3, <1>4, <1>5, <2>1, <3>0 DEF received
      <3>2. /\ r \in Socket /\ r.state = "SOCKET_ACTIVE_SYN_ACKED" /\ r.remote_isn = p.seq
            /\ r.tuple = TheSocket.tuple /\ r.last_outbound = TheSocket.last_outbound
            /\ r.live_local_isn = TheSocket.live_local_isn
            /\ r.script_local_isn = TheSocket.script_local_isn
        BY <1>4, <1>6 DEF Socket, SocketState
      <3> HIDE DEF r
      <3>3. r.live_local_isn = kernel.isn /\ r.script_local_isn = scriptIsn /\ r.tuple = "full"
        BY <1>5, <3>0, <3>2 DEF LocalIsnLearnt
      <3>4. QED
        BY <2>1, <3>0, <3>1, <3>2, <3>3
    <2>2. CASE role = "passive" /\ kernel.st = "syn_rcvd" /\ kernel.known
      <3>1. received(TheSocket, e) = [TheSocket EXCEPT !.state = "SOCKET_PASSIVE_SYNACK_ACKED"]
        BY <1>3, <1>4, <1>5, <2>2 DEF received
      <3>2. QED
        BY <1>3, <1>4, <1>5, <1>6, <2>2, <3>1 DEF Socket, SocketState, LocalIsnLearnt
    <2>3. CASE \/ kernel.st = "established" \/ ~kernel.known
               \/ role = "active" /\ kernel.st # "established" /\ p.ack = 0
      <3>1. received(TheSocket, e) = TheSocket
        BY <1>2, <1>3, <1>4, <1>5, <2>3 DEF received
      <3>2. QED
        BY <1>2, <1>3, <1>4, <1>5, <1>6, <2>3, <3>1 DEF LocalIsnLearnt
    <2>4. role = "passive" => kernel.st # "syn_sent"
      BY <1>2 DEF PlaceInv, SynSentInv
    <2>5. QED
      BY <1>2, <1>3, <1>4, <2>1, <2>2, <2>3, <2>4
  <1>9. map_inbound_packet(s, e, style) = p
    <2>1. p.syn = 0 => peer.isn # -1 /\ s.remote_isn = peer.isn
      <3>1. p.syn = 0 => ~IsnForgotten
        BY <1>2, <1>3, <1>5 DEF IsnForgotten
      <3>2. QED
        BY <1>2, <1>3, <1>5, <1>8, <3>1
    <2>2. p.ack = 1 => kernel.known
      BY <1>2, <1>3, <1>5
    <2>3. QED
      BY <1>8, <1>15, <2>1, <2>2
  <1> DEFINE t == [s EXCEPT !.last_injected = p]
  <1>10. /\ got' = p /\ kernel' = Receive(kernel, p) /\ sockets' = [sockets EXCEPT ![sut] = t] /\ sut' = sut
    <2>1. s = received(sockets[sut], e) /\ p = map_inbound_packet(s, e, style) /\ s.tuple # "none"
      BY <1>8, <1>9 DEF TheSocket
    <2>2. QED
      BY <1>7, <1>14, <2>1, InboundDone
  <1>11. /\ t \in Socket /\ t.tuple = "full" /\ t.last_injected = p
         /\ t.last_outbound = s.last_outbound /\ t.state = s.state /\ t.remote_isn = s.remote_isn
         /\ t.live_local_isn = s.live_local_isn /\ t.script_local_isn = s.script_local_isn
    BY <1>3, <1>8 DEF Socket
  <1> HIDE DEF t
  <1>12. /\ sockets' \in Seq(Socket) /\ Len(sockets') <= 2 /\ sut' \in 1 .. Len(sockets')
         /\ sockets'[sut'] = t
    BY <1>6, <1>10, <1>11, MarkedType DEF IInv
  <1>16. /\ role = "passive" => IsnForgotten' \/ t.remote_isn = IF p.syn = 1 THEN p.seq ELSE peer.isn
         /\ p.syn = 1 \/ ~IsnForgotten
    <2>1. role = "passive" /\ p.syn = 1 => p.seq = peer.isn
      BY <1>2, <1>3, <1>5, <1>4 DEF PlaceInv, SynSentInv
    <2>2. role = "passive" => peer'.isn = peer.isn
      BY <1>1, <1>4, <2>1
    <2>3. role = "passive" => (IsnForgotten => IsnForgotten')
      BY <2>2 DEF IsnForgotten, inbound_packet, env
    <2>4. p.syn = 1 \/ ~IsnForgotten
      BY <1>2, <1>3, <1>5 DEF IsnForgotten
    <2>5. QED
      BY <1>8, <1>11, <2>1, <2>3, <2>4
  <1>17. /\ kernel.st = "listen" \/ (kernel.st = "syn_rcvd" /\ role = "passive" /\ ~kernel.known) =>
              /\ t.state = "SOCKET_PASSIVE_PACKET_RECEIVED" /\ t.last_outbound = NoHeader
              /\ t.script_local_isn = 0
              /\ mode = "wire_server" => t.last_injected = p
         /\ kernel.known => t.live_local_isn = kernel.isn /\ t.script_local_isn = scriptIsn
         /\ role = "passive" /\ kernel.known => t.state = "SOCKET_PASSIVE_SYNACK_ACKED"
         /\ role = "active" => IF p.ack = 0 THEN t.state = "SOCKET_ACTIVE_SYN_SENT"
                               ELSE /\ t.state = "SOCKET_ACTIVE_SYN_ACKED"
                                    /\ t.remote_isn = IF p.syn = 1 THEN p.seq ELSE peer.isn
    BY <1>5, <1>8, <1>11
  <1>18. QED
    BY <1>1, <1>2, <1>10, <1>11, <1>12, <1>16, <1>17, InboundEnd DEF inbound_packet

\* The number of the peer's SYN was left with the listening socket: the packet
\* may be injected with a number that the kernel does not take, and only the
\* socket goes on.
LEMMA InboundForgotten ==
  ASSUME IInv, inbound_packet, kernel.st \notin {"closed", "listen"}, IsnForgotten, kernel.known
  PROVE  IInv'
  <1> USE DEF env, Running
  <1>1. PICK p \in Injectable, style \in {"plain", "absolute"} :
          /\ want' = p
          /\ do_inbound_script_packet(InboundScript(p, style), style)
          /\ peer' = [isn |-> IF p.syn = 1 THEN p.seq ELSE peer.isn, snd |-> SegmentEnd(p),
                      fin |-> peer.fin \/ p.fin = 1, packets |-> peer.packets + 1]
    BY DEF inbound_packet
  <1>2. PlaceInv /\ role = "passive" /\ mode = "local" /\ peer.isn \notin {-1, 0}
    BY DEF IInv, inbound_packet, IsnForgotten
  <1>3. /\ p \in Packet /\ p.syn = 0 /\ p.ack = 1
        /\ kernel.st \in {"syn_rcvd", "established"}
    <2>1. kernel.st # "syn_sent"
      BY <1>2 DEF PlaceInv, SynSentInv
    <2>2. Running
      BY DEF inbound_packet
    <2>3. QED
      BY <1>2, <2>1, <2>2, InjectableTypes
  <1>4. /\ sut # 0 /\ TheSocket.tuple = "full" /\ LocalIsnLearnt
        /\ TheSocket.state \in {"SOCKET_PASSIVE_SYNACK_SENT", "SOCKET_PASSIVE_SYNACK_ACKED"}
    <2>1. CASE kernel.st = "syn_rcvd"
      BY <1>2, <2>1 DEF PlaceInv, SynReceivedInv, HasSocket
    <2>2. CASE kernel.st = "established"
      BY <1>2, <2>2 DEF PlaceInv, EstablishedInv, HasSocket
    <2>3. QED
      BY <1>3, <2>1, <2>2
  <1>5. sut \in 1 .. Len(sockets) /\ TheSocket \in Socket /\ sockets \in Seq(Socket) /\ Len(sockets) <= 2
    BY <1>4 DEF IInv, TypeOK, TheSocket
  <1>6. PICK e : e = InboundScript(p, style)
    OBVIOUS
  <1>7. e.syn = 0 /\ e.ack = 1
    BY <1>3, <1>6, InboundScriptIs
  <1>8. handle_listen_for_script_packet(e) = <<sockets, sut>>
    <2>1. sockets[sut].state # "SOCKET_PASSIVE_LISTENING"
      BY <1>4 DEF TheSocket
    <2>2. QED
      BY <1>4, <2>1 DEF handle_listen_for_script_packet
  <1>9. PICK s \in Socket :
          /\ s = received(TheSocket, e) /\ s.tuple = "full" /\ s.state = "SOCKET_PASSIVE_SYNACK_ACKED"
          /\ s.live_local_isn = kernel.isn /\ s.script_local_isn = scriptIsn
    <2>1. CASE TheSocket.state = "SOCKET_PASSIVE_SYNACK_SENT"
      <3>1. received(TheSocket, e) = [TheSocket EXCEPT !.state = "SOCKET_PASSIVE_SYNACK_ACKED"]
        BY <1>7, <2>1 DEF received
      <3>2. QED
        BY <1>4, <1>5, <3>1 DEF Socket, SocketState, LocalIsnLearnt
    <2>2. CASE TheSocket.state = "SOCKET_PASSIVE_SYNACK_ACKED"
      <3>1. received(TheSocket, e) = TheSocket
        BY <2>2 DEF received
      <3>2. QED
        BY <1>4, <1>5, <2>2, <3>1 DEF LocalIsnLearnt
    <2>3. QED
      BY <1>4, <2>1, <2>2
  <1>10. PICK q : q = map_inbound_packet(s, e, style)
    OBVIOUS
  <1>11. q \in Packet /\ q.syn = 0 /\ q.ack = 1
    <2>1. TypeOK /\ peer.isn # -1
      BY <1>2 DEF IInv
    <2>2. q = map_inbound_packet(s, InboundScript(p, style), style)
      BY <1>6, <1>10
    <2>3. QED
      BY <1>3, <2>1, <2>2, InboundTyped
  <1> DEFINE t == [s EXCEPT !.last_injected = q]
  <1>12. got' = q /\ kernel' = Receive(kernel, q) /\ sockets' = [sockets EXCEPT ![sut] = t] /\ sut' = sut
    <2>1. s = received(sockets[sut], e) /\ s.tuple # "none" /\ do_inbound_script_packet(e, style)
      BY <1>1, <1>6, <1>9 DEF TheSocket
    <2>2. QED
      BY <1>8, <1>10, <2>1, InboundDone
  <1>13. /\ t \in Socket /\ t.tuple = "full" /\ t.state = "SOCKET_PASSIVE_SYNACK_ACKED"
         /\ t.live_local_isn = kernel.isn /\ t.script_local_isn = scriptIsn
    BY <1>9, <1>11 DEF Socket
  <1> HIDE DEF t
  <1>14. /\ sockets' \in Seq(Socket) /\ Len(sockets') <= 2 /\ sut' \in 1 .. Len(sockets')
         /\ sockets'[sut'] = t
    BY <1>5, <1>12, <1>13, MarkedType DEF IInv
  <1>15. /\ kernel' \in KernelState /\ kernel'.st \in {kernel.st, "established"}
         /\ kernel'.isn = kernel.isn /\ kernel'.snd = kernel.snd
         /\ kernel'.known = kernel.known /\ kernel'.fin = kernel.fin
    <2>1. kernel \in KernelState /\ SegmentEnd(q) \in Seq32
      BY <1>11, PacketTypes DEF IInv, TypeOK
    <2>2. \/ Receive(kernel, q) = kernel
          \/ Receive(kernel, q) = [kernel EXCEPT !.st = "established", !.rcv = SegmentEnd(q)]
          \/ Receive(kernel, q) = [kernel EXCEPT !.rcv = SegmentEnd(q)]
      <3>1. CASE kernel.st = "syn_rcvd"
        BY <1>11, <3>1 DEF Receive
      <3>2. CASE kernel.st = "established"
        BY <1>11, <3>2 DEF Receive
      <3>3. QED
        BY <1>3, <3>1, <3>2
    <2>3. CASE Receive(kernel, q) = kernel
      BY <1>12, <2>1, <2>3
    <2>4. CASE Receive(kernel, q) = [kernel EXCEPT !.st = "established", !.rcv = SegmentEnd(q)]
      BY <1>12, <2>1, <2>4 DEF KernelState
    <2>5. CASE Receive(kernel, q) = [kernel EXCEPT !.rcv = SegmentEnd(q)]
      BY <1>12, <2>1, <2>5 DEF KernelState
    <2>6. QED
      BY <2>2, <2>3, <2>4, <2>5
  <1>16. /\ peer' \in [isn : Seq32 \cup {-1}, snd : Seq32, fin : BOOLEAN, packets : 0 .. MaxPackets]
         /\ peer'.isn = peer.isn
    <2> DEFINE f == peer.fin \/ p.fin = 1
               n == peer.packets + 1
    <2>1. f \in BOOLEAN
      OBVIOUS
    <2>2. n \in 0 .. MaxPackets /\ peer.isn \in Seq32 \cup {-1}
      BY MaxPacketsAssumption DEF IInv, TypeOK, inbound_packet
    <2>3. peer' = [isn |-> peer.isn, snd |-> SegmentEnd(p), fin |-> f, packets |-> n]
      BY <1>1, <1>3
    <2>4. SegmentEnd(p) \in Seq32
      BY <1>3, PacketTypes
    <2> HIDE DEF f, n
    <2>5. QED
      BY <2>1, <2>2, <2>3, <2>4
  <1>17. TypeOK'
    <2>1. sut' \in 0 .. Len(sockets')
      BY <1>14
    <2>2. want' \in Packet /\ got' \in Packet
      BY <1>1, <1>3, <1>11, <1>12
    <2>3. QED
      BY <1>14, <1>15, <1>16, <2>1, <2>2 DEF IInv, TypeOK, inbound_packet
  <1>18. IsnForgotten' /\ sut' # 0 /\ TheSocket' = t /\ last' = "inbound" /\ role' = "passive"
    BY <1>2, <1>14, <1>16 DEF IsnForgotten, TheSocket, inbound_packet
  <1>19. /\ kernel'.known /\ LocalIsnLearnt' /\ HasSocket("SOCKET_PASSIVE_SYNACK_ACKED")'
         /\ RemoteIsnLearnt' /\ PeerInStep' /\ LastOutboundInv' /\ peer'.isn # -1
    <2>1. scriptIsn' = scriptIsn
      BY DEF inbound_packet
    <2>2. QED
      BY <1>2, <1>13, <1>15, <1>16, <1>18, <2>1 DEF LocalIsnLearnt, HasSocket, RemoteIsnLearnt, PeerInStep,
         LastOutboundInv
  <1>20. PlaceInv'
    <2>1. CASE kernel'.st = "established"
      BY <1>18, <1>19, <2>1 DEF PlaceInv, EstablishedInv
    <2>2. CASE kernel'.st = "syn_rcvd"
      <3>1. kernel.st = "syn_rcvd" /\ kernel.fin = "no" /\ kernel.snd = Plus(kernel.isn, 1)
        BY <1>2, <1>3, <1>15, <2>2 DEF PlaceInv
      <3>2. SynReceivedInv'
        BY <1>18, <1>19 DEF SynReceivedInv
      <3>3. QED
        BY <1>15, <1>19, <2>2, <3>1, <3>2 DEF PlaceInv
    <2>3. QED
      BY <1>3, <1>15, <2>1, <2>2
  <1>21. QED
    BY <1>1, <1>3, <1>17, <1>18, <1>20 DEF IInv, AsWritten, PacketsHeard, ResetClears, inbound_packet

\* A socket that setup_new_child_socket makes.
LEMMA ChildSocket ==
  /\ setup_new_child_socket \in Socket /\ setup_new_child_socket.tuple = "full"
  /\ setup_new_child_socket.state = "SOCKET_PASSIVE_PACKET_RECEIVED"
  /\ setup_new_child_socket.last_outbound = NoHeader /\ setup_new_child_socket.remote_isn = 0
  /\ setup_new_child_socket.script_local_isn = 0
  BY PacketTypes DEF setup_new_child_socket, socket_new, Socket, SocketState

\* The first SYN, for a server on another machine: the socket is made for it.
LEMMA InboundWireSyn ==
  ASSUME IInv, inbound_packet, kernel.st = "listen", mode # "local"
  PROVE  IInv'
  <1>1. PICK p \in Injectable, style \in {"plain", "absolute"} :
          /\ want' = p
          /\ do_inbound_script_packet(InboundScript(p, style), style)
          /\ peer' = [isn |-> IF p.syn = 1 THEN p.seq ELSE peer.isn, snd |-> SegmentEnd(p),
                      fin |-> peer.fin \/ p.fin = 1, packets |-> peer.packets + 1]
    BY DEF inbound_packet
  <1>2. PlaceInv /\ Running
    BY DEF IInv, inbound_packet
  <1>3. p \in Packet /\ p.syn = 1 /\ p.ack = 0 /\ p.seq \in Seq32
    BY <1>2, InjectableTypes DEF Packet
  <1>4. role = "passive" /\ ~kernel.known /\ mode = "wire_server" /\ sut = 0
    BY <1>2 DEF PlaceInv, ListenInv, BeforePackets, NoSockets, IInv, TypeOK, SetupName
  <1> DEFINE e == InboundScript(p, style)
             s == [setup_new_child_socket EXCEPT !.remote_isn = e.seq]
             t == [s EXCEPT !.last_injected = p]
  <1>5. e.seq = p.seq /\ do_inbound_script_packet(e, style)
    BY <1>1, <1>3, InboundScriptIs
  <1>6. \A r \in Socket : map_inbound_packet(r, e, style) = p
    BY <1>3, InboundMapped DEF IInv
  <1> HIDE DEF e
  <1>7. /\ s \in Socket /\ s.tuple = "full" /\ s.state = "SOCKET_PASSIVE_PACKET_RECEIVED"
        /\ s.remote_isn = p.seq /\ s.last_outbound = NoHeader /\ s.script_local_isn = 0
    BY <1>3, <1>5, ChildSocket DEF Socket, SocketState
  <1>8. handle_listen_for_script_packet(e) = <<<<s>>, 1>>
    BY <1>4 DEF handle_listen_for_script_packet
  <1> HIDE DEF s
  <1>9. PICK list : list = <<s>>
    OBVIOUS
  <1>10. list \in Seq(Socket) /\ Len(list) = 1 /\ list[1] = s
    BY <1>7, <1>9
  <1>11. received(s, e) = s /\ map_inbound_packet(s, e, style) = p
    BY <1>6, <1>7 DEF received
  <1>12. /\ got' = p /\ kernel' = Receive(kernel, p)
         /\ sockets' = [list EXCEPT ![1] = t] /\ sut' = 1
    <2>1. s = received(list[1], e) /\ s.tuple # "none"
      BY <1>7, <1>10, <1>11
    <2>2. handle_listen_for_script_packet(e) = <<list, 1>>
      BY <1>8, <1>9
    <2>3. PICK r : r = s
      OBVIOUS
    <2>4. /\ got' = p /\ kernel' = Receive(kernel, p)
          /\ sockets' = [list EXCEPT ![1] = [r EXCEPT !.last_injected = p]] /\ sut' = 1
      BY <1>5, <1>11, <2>1, <2>2, <2>3, InboundDone
    <2>5. QED
      BY <2>3, <2>4
  <1>13. /\ t \in Socket /\ t.tuple = "full" /\ t.last_injected = p
         /\ t.last_outbound = NoHeader /\ t.state = "SOCKET_PASSIVE_PACKET_RECEIVED"
         /\ t.remote_isn = p.seq /\ t.script_local_isn = 0
    BY <1>3, <1>7 DEF Socket
  <1> HIDE DEF t
  <1>14. /\ sockets' \in Seq(Socket) /\ Len(sockets') = 1 /\ sockets'[1] = t
    BY <1>10, <1>12, <1>13, OneSocket
  <1>15. Len(sockets') <= 2 /\ sut' \in 1 .. Len(sockets') /\ sockets'[sut'] = t
    <2>1. sut' = 1
      BY <1>12
    <2>2. QED
      BY <1>14, <2>1
  <1>16. QED
    BY <1>1, <1>2, <1>3, <1>4, <1>12, <1>13, <1>14, <1>15, InboundEnd DEF inbound_packet

\* The same in local mode: the listening socket takes the packet and a child,
\* which has not learnt its sequence number, the connection.
LEMMA InboundLocalSyn ==
  ASSUME IInv, inbound_packet, kernel.st = "listen", mode = "local"
  PROVE  IInv'
  <1>1. PICK p \in Injectable, style \in {"plain", "absolute"} :
          /\ want' = p
          /\ do_inbound_script_packet(InboundScript(p, style), style)
          /\ peer' = [isn |-> IF p.syn = 1 THEN p.seq ELSE peer.isn, snd |-> SegmentEnd(p),
                      fin |-> peer.fin \/ p.fin = 1, packets |-> peer.packets + 1]
    BY DEF inbound_packet
  <1>2. PlaceInv /\ Running
    BY DEF IInv, inbound_packet
  <1>3. p \in Packet /\ p.syn = 1 /\ p.ack = 0 /\ p.seq \in Seq32 /\ 0 \in Seq32
    BY <1>2, InjectableTypes, PacketTypes DEF Packet
  <1>4. /\ role = "passive" /\ ~kernel.known /\ sut = 1 /\ Len(sockets) = 1
        /\ sockets[1].state = "SOCKET_PASSIVE_LISTENING" /\ sockets[1].tuple = "none"
        /\ sockets \in Seq(Socket)
    BY <1>2 DEF PlaceInv, ListenInv, BeforePackets, OnlySocket, IInv, TypeOK
  <1>5. sockets[1] \in Socket
    BY <1>4, OneSocket, PacketTypes
  <1> DEFINE e == InboundScript(p, style)
             s == [sockets[1] EXCEPT !.remote_isn = e.seq]
             r == [s EXCEPT !.last_injected = p]
             t == setup_new_child_socket
  <1>6. e.seq = p.seq /\ do_inbound_script_packet(e, style)
    BY <1>1, <1>3, InboundScriptIs
  <1>7. \A c \in Socket : map_inbound_packet(c, e, style) = p
    BY <1>3, InboundMapped DEF IInv
  <1> HIDE DEF e
  <1>8. s \in Socket /\ s.tuple = "none" /\ s.state = "SOCKET_PASSIVE_LISTENING" /\ r \in Socket
    BY <1>3, <1>4, <1>5, <1>6 DEF Socket
  <1>9. PICK list \in Seq(Socket) :
          handle_listen_for_script_packet(e) = <<list, 1>> /\ Len(list) = 1 /\ list[1] = s
    <2>1. handle_listen_for_script_packet(e) = <<[sockets EXCEPT ![1] = s], 1>>
      <3>1. handle_listen_for_script_packet(e) = <<[sockets EXCEPT ![sut].remote_isn = e.seq], sut>>
        <4>1. sut # 0 /\ mode # "wire_server" /\ sockets[sut].state = "SOCKET_PASSIVE_LISTENING"
          BY <1>4
        <4>2. QED
          BY <4>1, Zenon DEF handle_listen_for_script_packet
      <3>2. handle_listen_for_script_packet(e) = <<[sockets EXCEPT ![1].remote_isn = e.seq], 1>>
        BY <1>4, <3>1, Zenon
      <3>3. [sockets EXCEPT ![1].remote_isn = e.seq] = [sockets EXCEPT ![1] = s]
        BY <1>4, <1>5
      <3>4. QED
        BY <3>2, <3>3
    <2> HIDE DEF s
    <2>2. /\ [sockets EXCEPT ![1] = s] \in Seq(Socket) /\ Len([sockets EXCEPT ![1] = s]) = 1
          /\ [sockets EXCEPT ![1] = s][1] = s
      BY <1>4, <1>8, OneSocket
    <2>3. QED
      BY <2>1, <2>2
  <1> HIDE DEF s
  <1>10. received(s, e) = s /\ map_inbound_packet(s, e, style) = p
    BY <1>7, <1>8 DEF received
  <1>11. PICK l \in Seq(Socket) : l = [list EXCEPT ![1] = r] /\ Len(l) = 1
    <2> HIDE DEF r
    <2>1. QED
      BY <1>8, <1>9, OneSocket
  <1>12. got' = p /\ kernel' = Receive(kernel, p) /\ sockets' = Append(l, t) /\ sut' = Len(l) + 1
    <2>1. PICK c : c = s
      OBVIOUS
    <2>2. c = received(list[1], e) /\ c.tuple = "none" /\ p = map_inbound_packet(c, e, style)
      BY <1>8, <1>9, <1>10, <2>1
    <2>3. l = [list EXCEPT ![1] = [c EXCEPT !.last_injected = p]]
      BY <1>11, <2>1
    <2>4. QED
      BY <1>6, <1>9, <2>2, <2>3, InboundChild
  <1>13. /\ t \in Socket /\ t.tuple = "full" /\ t.last_outbound = NoHeader
         /\ t.state = "SOCKET_PASSIVE_PACKET_RECEIVED" /\ t.remote_isn = 0 /\ t.script_local_isn = 0
    BY <1>3, ChildSocket
  <1>17. IsnForgotten' \/ t.remote_isn = p.seq
    <2>1. peer'.isn = p.seq /\ mode' = "local" /\ role' = "passive"
      BY <1>1, <1>3, <1>4 DEF inbound_packet, env
    <2>2. p.seq # -1
      BY <1>3, SeqModAssumption DEF Seq32
    <2> HIDE DEF t
    <2>3. QED
      BY <1>13, <2>1, <2>2 DEF IsnForgotten
  <1> HIDE DEF t
  <1>14. /\ sockets' \in Seq(Socket) /\ Len(sockets') = 2 /\ sockets'[2] = t
    <2>1. /\ Append(l, t) \in Seq(Socket) /\ Len(Append(l, t)) = Len(l) + 1
          /\ Append(l, t)[Len(l) + 1] = t
      BY <1>13, AppendProperties
    <2>2. Len(l) + 1 = 2
      <3>1. Len(l) = 1
        BY <1>11, Zenon
      <3>2. QED
        BY <3>1
    <2>3. sockets' = Append(l, t)
      BY <1>12
    <2>4. QED
      BY <2>1, <2>2, <2>3
  <1>15. Len(sockets') <= 2 /\ sut' \in 1 .. Len(sockets') /\ sockets'[sut'] = t
    BY <1>11, <1>12, <1>14
  <1>16. QED
    BY <1>1, <1>2, <1>3, <1>4, <1>12, <1>13, <1>14, <1>15, <1>17, InboundEnd DEF inbound_packet

LEMMA InboundInv == ASSUME IInv, inbound_packet PROVE IInv'
  <1>1. kernel.st # "closed"
    BY InjectableTypes DEF inbound_packet
  <1>2. QED
    BY <1>1, InboundKnown, InboundForgotten, InboundWireSyn, InboundLocalSyn

(***************************************************************************)
(* The end.                                                                *)
(***************************************************************************)
\* The socket under test has a connection, and the reset for it is accepted.
LEMMA ResetFound ==
  ASSUME IInv, Running,
         \/ last = "outbound"
         \/ last = "inbound" /\ ~kernel.known /\ SetupName[mode][role] # "local_passive"
  PROVE  /\ sut \in 1 .. Len(sockets) /\ HasConnection(sockets[sut])
         /\ \E p \in reset_connection(sockets[sut]) : ResetAccepted(kernel, p)
  <1>1. PlaceInv /\ role \in {"active", "passive"} /\ mode \in {"local", "wire_server"} /\ kernel \in KernelState
    BY DEF IInv, TypeOK, SetupName
  <1>2. kernel.st \in {"syn_sent", "syn_rcvd", "established"}
    BY <1>1 DEF PlaceInv, ClosedInv, ListenInv, BeforePackets, KernelState
  <1>3. /\ sut # 0
        /\ TheSocket.state \in {"SOCKET_ACTIVE_SYN_SENT", "SOCKET_PASSIVE_PACKET_RECEIVED",
             "SOCKET_PASSIVE_SYNACK_SENT", "SOCKET_ACTIVE_SYN_ACKED", "SOCKET_PASSIVE_SYNACK_ACKED"}
    <2>1. CASE kernel.st = "syn_sent"
      BY <1>1, <2>1 DEF PlaceInv, SynSentInv, BeforePackets, HasSocket
    <2>2. CASE kernel.st = "syn_rcvd"
      BY <1>1, <2>2 DEF PlaceInv, SynReceivedInv, HasSocket
    <2>3. CASE kernel.st = "established"
      BY <1>1, <2>3 DEF PlaceInv, EstablishedInv, HasSocket
    <2>4. QED
      BY <1>2, <2>1, <2>2, <2>3
  <1>4. sut \in 1 .. Len(sockets) /\ TheSocket \in Socket
    BY <1>3 DEF IInv, TypeOK, TheSocket
  <1>5. HasConnection(TheSocket)
    BY <1>3 DEF HasConnection
  <1>6. /\ kernel.rcv \in Seq32 /\ Minus(kernel.rcv, kernel.rcv) = 0 /\ 0 < SeqMod \div 2
        /\ kernel.isn \in Seq32
    <2>1. kernel.rcv \in Seq32 /\ kernel.isn \in Seq32
      BY <1>1 DEF KernelState
    <2>2. Minus(kernel.rcv, kernel.rcv) = 0
      BY <2>1, Offsets
    <2>3. 0 < SeqMod \div 2
      BY SeqModAssumption
    <2>4. QED
      BY <2>1, <2>2, <2>3
  <1> DEFINE o == TheSocket.last_outbound
             r == TheSocket.last_injected
  <1>7. /\ \A q : Tcp(0, 0, 0, 0, q, 0).seq = q
        /\ \A q : Tcp(0, 1, 0, 0, 0, q).ack = 1 /\ Tcp(0, 1, 0, 0, 0, q).ack_seq = q
    BY DEF Tcp
  <1>8. CASE last = "outbound" /\ kernel.st = "syn_sent"
    <2>1. o.doff = 5 /\ o.ack = 0 /\ SegmentEnd(o) = Plus(kernel.isn, 1)
      BY <1>1, <1>8 DEF PlaceInv, LastOutboundInv
    <2>2. reset_connection(TheSocket) = {Tcp(0, 1, 0, 0, 0, SegmentEnd(o))}
      BY <2>1 DEF reset_connection
    <2>3. ResetAccepted(kernel, Tcp(0, 1, 0, 0, 0, SegmentEnd(o)))
      BY <1>7, <1>8, <2>1 DEF ResetAccepted
    <2>4. QED
      BY <1>4, <1>5, <2>2, <2>3 DEF TheSocket
  <1>9. CASE last = "outbound" /\ kernel.st # "syn_sent"
    <2>1. o.doff = 5 /\ o.ack = 1 /\ o.ack_seq = kernel.rcv
      BY <1>1, <1>9 DEF PlaceInv, LastOutboundInv
    <2>2. reset_connection(TheSocket) = {Tcp(0, 0, 0, 0, kernel.rcv, 0)}
      BY <2>1 DEF reset_connection
    <2>3. ResetAccepted(kernel, Tcp(0, 0, 0, 0, kernel.rcv, 0))
      BY <1>2, <1>6, <1>7, <1>9 DEF ResetAccepted
    <2>4. QED
      BY <1>4, <1>5, <2>2, <2>3 DEF TheSocket
  <1>10. CASE last # "outbound"
    <2>1. kernel.st = "syn_rcvd" /\ role = "passive" /\ mode = "wire_server"
      BY <1>1, <1>2, <1>10 DEF PlaceInv, SynSentInv, SynReceivedInv, EstablishedInv, BeforePackets, SetupName
    <2>2. o = NoHeader /\ r.doff = 5 /\ SegmentEnd(r) = kernel.rcv
      BY <1>1, <1>10, <2>1 DEF PlaceInv, SynReceivedInv
    <2>3. o.doff = 0
      BY <2>2 DEF NoHeader, Tcp
    <2>4. reset_connection(TheSocket) = {Tcp(0, 0, 0, 0, kernel.rcv, 0)}
      BY <2>2, <2>3 DEF reset_connection
    <2>5. ResetAccepted(kernel, Tcp(0, 0, 0, 0, kernel.rcv, 0))
      BY <1>6, <1>7, <2>1 DEF ResetAccepted
    <2>6. QED
      BY <1>4, <1>5, <2>4, <2>5 DEF TheSocket
  <1>11. QED
    BY <1>8, <1>9, <1>10

LEMMA CloseAllInv == ASSUME IInv, close_all_sockets PROVE IInv'
  <1> USE DEF close_all_sockets, env
  <1> DEFINE resets == UNION {reset_connection(sockets[i]) :
                                i \in {j \in 1 .. Len(sockets) : HasConnection(sockets[j])}}
             cleared == \E p \in resets : ResetAccepted(kernel, p)
  <1>1. kernel' = IF cleared THEN [kernel EXCEPT !.st = "closed"] ELSE kernel
    OBVIOUS
  <1> HIDE DEF cleared
  <1>2. kernel' \in KernelState /\ kernel'.known = kernel.known /\ (cleared => kernel'.st = "closed")
    BY <1>1 DEF IInv, TypeOK, KernelState
  <1>3. TypeOK'
    <2>1. sockets' \in Seq(Socket) /\ Len(sockets') = 0
      BY EmptySeq
    <2>2. sut' \in 0 .. Len(sockets') /\ Len(sockets') <= 2
      BY <2>1
    <2>3. QED
      BY <1>2, <2>1, <2>2 DEF IInv, TypeOK
  <1>4. ResetClears'
    <2>1. SUFFICES ASSUME \/ last = "outbound"
                          \/ last = "inbound" /\ ~kernel.known /\ SetupName[mode][role] # "local_passive"
                   PROVE  cleared
      BY <1>2 DEF ResetClears
    <2>2. PICK p \in reset_connection(sockets[sut]) : ResetAccepted(kernel, p)
      BY <2>1, ResetFound
    <2>3. sut \in 1 .. Len(sockets) /\ HasConnection(sockets[sut])
      BY <2>1, ResetFound
    <2>4. p \in resets
      BY <2>2, <2>3
    <2>5. QED
      BY <2>2, <2>4 DEF cleared
  <1>5. QED
    BY <1>3, <1>4 DEF IInv, AsWritten, IsnForgotten, PacketsHeard, Running

(***************************************************************************)
(* The theorems.                                                           *)
(***************************************************************************)
LEMMA StepIInv == ASSUME IInv, [Next]_vars PROVE IInv'
  <1>1. CASE Next
    BY <1>1, SocketInv, ListenSyscallInv, ConnectInv, AcceptInv, CloseInv, InboundInv, OutboundInv,
       CloseAllInv DEF Next
  <1>2. CASE UNCHANGED vars
    BY <1>2 DEF vars, env, IInv, TypeOK, AsWritten, PacketsHeard, Running, PlaceInv, ResetClears,
       ClosedInv, ListenInv, SynSentInv, SynReceivedInv, EstablishedInv, LastOutboundInv, TheSocket,
       NoSockets, OnlySocket, BeforePackets, HasSocket, LocalIsnLearnt, RemoteIsnLearnt, PeerInStep, IsnForgotten
  <1>3. QED
    BY <1>1, <1>2

\* For sequence numbers of every width and scripts of every length, the
\* inductive invariant holds: which socket packetdrill (run_packet.c and
\* run_system_call.c) has for the connection, and what it has learnt.
THEOREM Invariance == Spec => []IInv
  BY InitIInv, StepIInv, PTL DEF Spec

\* The sockets, the kernel and the packets keep their types: sequence numbers
\* stay in range whatever is added and subtracted (socket.h, run_packet.c).
THEOREM TypeCorrect == Spec => []TypeOK
  <1>1. IInv => TypeOK
    BY DEF IInv
  <1>2. QED
    BY <1>1, Invariance, PTL

\* map_inbound_packet and map_outbound_live_packet make of every packet what a
\* script written after the comment in socket.h means, whatever the initial
\* sequence numbers of both sides, the one the script uses for the kernel's,
\* and the place where they wrap; the packets without SYN to a child that has
\* not learnt the number of the peer's SYN are excepted.
THEOREM MappedAsWritten == Spec => []AsWritten
  <1>1. IInv => AsWritten
    BY DEF IInv
  <1>2. QED
    BY <1>1, Invariance, PTL

\* Every packet the kernel sends matches the socket under test, and accept()
\* finds that socket: its state is never behind the kernel's (run_packet.c,
\* run_system_call.c).
THEOREM SocketFollows == Spec => []SocketFollowsKernel
  <1>1. ASSUME IInv PROVE SocketFollowsKernel
    <2>1. Running /\ kernel.st = "established" => EstablishedInv
      BY <1>1 DEF IInv, PlaceInv
    <2>2. AcceptFindsSocket
      BY <2>1 DEF AcceptFindsSocket, EstablishedInv, HasSocket, TheSocket, Acceptable
    <2>3. QED
      BY <1>1, <2>2 DEF IInv, SocketFollowsKernel
  <1>2. QED
    BY <1>1, Invariance, PTL

\* The reset that close_all_sockets injects is one the kernel accepts, when the
\* last packet event showed what the kernel has received (run.c, run_packet.c).
THEOREM ResetsClear == Spec => []ResetClears
  <1>1. IInv => ResetClears
    BY DEF IInv
  <1>2. QED
    BY <1>1, Invariance, PTL
=============================================================================
