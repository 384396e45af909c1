----------------------- MODULE SctpAssociationProofs -----------------------
(***************************************************************************)
(* Proofs about SctpAssociation, for tags and TSNs of every width and any  *)
(* number of handshakes.  Numbers are learnt from the packets of the       *)
(* handshake and used long after; the invariant says, for each state of    *)
(* the socket, which of its numbers are those of the kernel's association, *)
(* of the cookie that was prepared, and of the script.  The second part    *)
(* proves that SctpChunks stores and verifies chunks as it should, in      *)
(* bundles of any length.                                                  *)
(***************************************************************************)
EXTENDS SctpAssociation, SctpChunks, WellFoundedInduction, FiniteSetTheorems, TLAPS

\* The socket has sniffed the INIT_ACK, or the INIT of the kernel.
Learnt == {"init_ack_sent", "cookie_echo_received", "init_sent", "init_ack_received"}
LocalLearnt(side) ==
  /\ sut.live.ltag = side.ltag /\ sut.live.ltsn = side.ltsn /\ side.ltag # 0
  /\ sut.script.ltag = script.side.ltag /\ sut.script.ltsn = script.side.ltsn
  /\ script.side.ltag # 0

\* The numbers of the peer are the script's own.
RemoteInv == sut # NoSocket => sut.live.rtag = sut.script.rtag /\ sut.live.rtsn = sut.script.rtsn

\* The kernel sends heartbeats only on an association, and packetdrill keeps the
\* one it has sniffed last.
HeartbeatInv ==
  /\ kernel.heartbeat # Nothing \/ kernel.packet.type = "HEARTBEAT" => Established
  /\ sut.state \notin Learnt => script.heartbeat = Nothing
  /\ sut.state \in Learnt \cup {"packet_received"} => sut.heartbeat_ack = script.heartbeat
  /\ script.heartbeat # Nothing => Established
  /\ kernel.packet.type = "HEARTBEAT" => kernel.heartbeat # Nothing

\* An INIT_ACK that was not sniffed yet.
InitAckInv ==
  kernel.packet.type = "INIT_ACK" =>
    /\ role = "passive" /\ sut.state \in {"packet_received", "init_ack_sent", "cookie_echo_received"}
    /\ kernel.packet.cookie.ltag # 0
    /\ kernel.packet.cookie.rtsn = kernel.packet.said.rtsn
    /\ mode = "wire" /\ sut.state = "packet_received" =>
         kernel.packet.cookie.rtag = sut.live.rtag /\ kernel.packet.said.rtag = sut.live.rtag

\* The socket of an association has not learnt the kernel's numbers yet.
Blank ==
  \/ sut.state = "packet_received"
  \/ sut.state = "cookie_echo_received" /\ sut.cookie_echo = NoCookie

PassiveInv ==
  role = "passive" =>
    /\ kernel.packet.type # "INIT"
    /\ sut.state \in {"none", "listening"} => ~Established /\ kernel.packet = NoPacket
    /\ sut.state = "listening" => mode = "local"
    /\ sut.state \in {"none", "listening"} \/ Blank => ~Established /\ ~script.restarting
    /\ Blank => sut.cookie_echo = NoCookie /\ kernel.packet.type = "INIT_ACK"
    /\ sut.state \notin {"none", "listening"} /\ ~Blank =>
         /\ sut.state \in {"init_ack_sent", "cookie_echo_received"}
         /\ LocalLearnt(sut.cookie_echo)
         /\ sut.cookie_echo.rtsn = script.side.rtsn
         /\ mode = "wire" /\ ~script.restarted /\ ~script.unechoed =>
              sut.cookie_echo.rtag = sut.live.rtag /\ script.side.rtag = sut.live.rtag
         /\ Established /\ ~script.restarting => kernel.assoc = sut.cookie_echo
    /\ sut.state = "cookie_echo_received" /\ ~script.unechoed =>
         Established /\ ~script.restarting

ActiveInv ==
  role = "active" =>
    /\ ~script.restarting
    /\ sut.state \in {"none", "connecting"} =>
         IF Established THEN /\ kernel.packet.type = "INIT" /\ kernel.assoc.ltag # 0
                             /\ kernel.assoc.rtag = 0 /\ kernel.assoc.rtsn = 0
         ELSE kernel.packet = NoPacket
    /\ sut.state \notin {"none", "connecting"} =>
         /\ sut.state \in {"init_sent", "init_ack_received", "cookie_echo_received"}
         /\ sut.cookie_echo = NoCookie /\ kernel.packet.type \in {"none", "HEARTBEAT"}
         /\ LocalLearnt(kernel.assoc)
         /\ kernel.assoc.rtsn = script.side.rtsn
         /\ ~script.unechoed =>
              /\ sut.script = script.side /\ sut.state # "cookie_echo_received"
              /\ script.side.ltag # script.side.rtag => kernel.assoc.rtag = sut.live.rtag

PlaceInv == RemoteInv /\ HeartbeatInv /\ InitAckInv /\ PassiveInv /\ ActiveInv

\* The last packet that only shows how it was mapped.
SeenInv ==
  /\ NumbersAsWritten
  /\ seen.what \in {"COOKIE_ECHO", "HEARTBEAT_ACK"} => seen.ok

IInv == TypeOK /\ (test = "running" => PlaceInv) /\ SeenInv /\ AbortClears

(***************************************************************************)
(* Numbers modulo W.                                                       *)
(***************************************************************************)
LEMMA PlusIs ==
  ASSUME NEW a \in Num, NEW b \in Num
  PROVE  /\ Plus(a, b) = IF a + b < W THEN a + b ELSE a + b - W
         /\ Plus(a, b) \in Num
  BY WAssumption DEF Plus, Num

LEMMA MinusIs ==
  ASSUME NEW a \in Num, NEW b \in Num
  PROVE  /\ Minus(a, b) = IF a >= b THEN a - b ELSE a - b + W
         /\ Minus(a, b) \in Num
  BY WAssumption DEF Minus, Num

\* A number at a distance from one base is mapped to the same distance from
\* another, by the difference of two bases that are as far apart.
LEMMA DistanceKept ==
  ASSUME NEW a \in Num, NEW b \in Num, NEW from \in Num, NEW to \in Num, NEW d \in Num,
         Minus(a, b) = Minus(to, from)
  PROVE  Minus(Plus(Plus(from, d), Minus(a, b)), to) = d
  <1>1. W \in Nat /\ W > 2 /\ Num = 0 .. W - 1
    BY WAssumption DEF Num
  <1> DEFINE m == Minus(to, from)
             n == Plus(from, d)
             q == Plus(n, m)
  <1>2. m \in Num /\ m = IF to >= from THEN to - from ELSE to - from + W
    BY MinusIs
  <1>3. n \in Num /\ n = IF from + d < W THEN from + d ELSE from + d - W
    BY PlusIs
  <1> HIDE DEF m, n
  <1>4. q \in Num /\ q = IF n + m < W THEN n + m ELSE n + m - W
    BY <1>2, <1>3, PlusIs
  <1> HIDE DEF q
  <1>5. Minus(q, to) = IF q >= to THEN q - to ELSE q - to + W
    BY <1>4, MinusIs
  <1>6. Minus(q, to) = d
    BY <1>1, <1>2, <1>3, <1>4, <1>5
  <1>7. QED
    BY <1>6 DEF m, n, q

LEMMA SameBase ==
  ASSUME NEW a \in Num, NEW b \in Num
  PROVE  Minus(a, a) = 0 /\ Minus(b, b) = 0 /\ Plus(a, 0) = a /\ 0 \in Num /\ 1 \in Num
  <1>1. W \in Nat /\ W > 2 /\ Num = 0 .. W - 1 /\ 0 \in Num /\ 1 \in Num
    BY WAssumption DEF Num
  <1>2. Minus(a, a) = 0
    BY <1>1, MinusIs
  <1>3. Minus(b, b) = 0
    BY <1>1, MinusIs
  <1>4. Plus(a, 0) = a
    BY <1>1, PlusIs
  <1>5. QED
    BY <1>1, <1>2, <1>3, <1>4

\* v_tag: a tag that is off in the script by some number is the kernel's only if
\* that number is zero.
LEMMA TagIs ==
  ASSUME NEW s, NEW explicit \in BOOLEAN, NEW reflect \in BOOLEAN, NEW wrong \in Num,
         NEW kern \in Num, NEW said \in Num,
         kern = IF reflect THEN s.live.rtag ELSE s.live.ltag,
         said = IF reflect THEN s.script.rtag ELSE s.script.ltag,
         kern = 0 <=> said = 0, ~explicit => wrong = 0
  PROVE  /\ wrong = 0 => v_tag(s, explicit, Plus(said, wrong), reflect) = kern
         /\ wrong # 0 /\ kern # 1 => v_tag(s, explicit, Plus(said, wrong), reflect) # kern
  <1>1. W \in Nat /\ W > 2 /\ Num = 0 .. W - 1 /\ 0 \in Num
    BY WAssumption DEF Num
  <1> DEFINE tag == Plus(said, wrong)
             m == Minus(tag, said)
             shifted == Plus(kern, m)
  <1>2. tag \in Num /\ tag = IF said + wrong < W THEN said + wrong ELSE said + wrong - W
    BY PlusIs
  <1>3. v_tag(s, explicit, tag, reflect) =
          IF explicit THEN IF tag = 0 THEN 0 ELSE IF shifted = 0 THEN 1 ELSE shifted ELSE kern
    BY DEF v_tag
  <1> HIDE DEF tag
  <1>4. m \in Num /\ m = IF tag >= said THEN tag - said ELSE tag - said + W
    BY <1>2, MinusIs
  <1>5. m = wrong
    BY <1>1, <1>2, <1>4
  <1> HIDE DEF m
  <1>6. shifted \in Num /\ shifted = IF kern + m < W THEN kern + m ELSE kern + m - W
    BY <1>4, PlusIs
  <1> HIDE DEF shifted
  <1>7. /\ wrong = 0 => v_tag(s, explicit, tag, reflect) = kern
        /\ wrong # 0 /\ kern # 1 => v_tag(s, explicit, tag, reflect) # kern
    <2>1. CASE ~explicit
      BY <1>3, <2>1
    <2>2. CASE explicit /\ tag = 0
      <3>1. wrong = 0 <=> said = 0
        BY <1>1, <1>2, <2>2
      <3>2. QED
        BY <1>3, <2>2, <3>1
    <2>3. CASE explicit /\ tag # 0 /\ shifted = 0
      <3>1. ASSUME wrong = 0 PROVE FALSE
        <4>1. kern = 0
          BY <1>1, <1>5, <1>6, <2>3, <3>1
        <4>2. tag = 0
          BY <1>1, <1>2, <3>1, <4>1
        <4>3. QED
          BY <2>3, <4>2
      <3>2. QED
        BY <1>3, <2>3, <3>1
    <2>4. CASE explicit /\ tag # 0 /\ shifted # 0
      <3>1. shifted = kern <=> wrong = 0
        BY <1>1, <1>5, <1>6
      <3>2. QED
        BY <1>3, <2>4, <3>1
    <2>5. QED
      BY <2>1, <2>2, <2>3, <2>4
  <1>8. QED
    BY <1>7 DEF tag

(***************************************************************************)
(* Types.                                                                  *)
(***************************************************************************)
LEMMA NumTypes ==
  /\ 0 \in Num /\ 1 \in Num /\ Tag \subseteq Num /\ 0 \notin Tag
  /\ ScriptTsns \subseteq Num /\ KernelTsns \subseteq Num /\ Offsets \subseteq Num
  BY WAssumption DEF Num, Tag

LEMMA SideIs ==
  ASSUME NEW a \in Num, NEW b \in Num, NEW c \in Num, NEW d \in Num
  PROVE  /\ Side(a, b, c, d) \in Sides
         /\ Side(a, b, c, d).ltag = a /\ Side(a, b, c, d).ltsn = b
         /\ Side(a, b, c, d).rtag = c /\ Side(a, b, c, d).rtsn = d
  BY DEF Side, Sides

LEMMA SideTypes ==
  Unset \in Sides /\ Unset.ltag = 0 /\ Unset.ltsn = 0 /\ Unset.rtag = 0 /\ Unset.rtsn = 0
  BY NumTypes, SideIs DEF Unset

LEMMA SocketTypes ==
  ASSUME NEW st \in SocketState
  PROVE  /\ Socket(st) \in Sockets /\ Socket(st).state = st /\ Socket(st).heartbeat_ack = Nothing
         /\ Socket(st).live = Unset /\ Socket(st).script = Unset /\ Socket(st).cookie_echo = NoCookie
  BY SideTypes DEF Socket, Sockets, NoCookie, Nothing

\* The socket, and the packet of the kernel, by what they say they are.
LEMMA StateTypes ==
  ASSUME TypeOK
  PROVE  /\ sut.state \in SocketState \cup {"none"}
         /\ sut.state # "none" => sut \in Sockets /\ sut # NoSocket
         /\ kernel.assoc \in Sides /\ kernel.heartbeat \in 0..2
         /\ kernel.packet.type \in {"none", "INIT", "HEARTBEAT", "INIT_ACK"}
         /\ kernel.packet.type = "none" <=> kernel.packet = NoPacket
         /\ kernel.packet.type = "INIT_ACK" => kernel.packet.cookie \in Sides /\ kernel.packet.said \in Sides
  <1>1. sut = NoSocket \/ sut \in Sockets
    BY DEF TypeOK
  <1>2. NoSocket.state = "none" /\ "none" \notin SocketState /\ \A s \in Sockets : s.state \in SocketState
    BY DEF NoSocket, SocketState, Sockets
  <1>3. sut.state \in SocketState \cup {"none"} /\ (sut.state # "none" => sut \in Sockets /\ sut # NoSocket)
    BY <1>1, <1>2, Zenon
  <1>4. kernel.assoc \in Sides /\ kernel.heartbeat \in 0..2 /\ kernel.packet \in KernelPackets
    BY DEF TypeOK
  <1>5. ASSUME NEW p \in KernelPackets
        PROVE  /\ p.type \in {"none", "INIT", "HEARTBEAT", "INIT_ACK"}
               /\ p.type = "none" <=> p = NoPacket
               /\ p.type = "INIT_ACK" => p.cookie \in Sides /\ p.said \in Sides
    <2>1. CASE p = NoPacket
      BY <2>1 DEF NoPacket
    <2>2. CASE p = [type |-> "INIT"]
      BY <2>2 DEF NoPacket
    <2>3. CASE p = [type |-> "HEARTBEAT"]
      BY <2>3 DEF NoPacket
    <2>4. CASE p \in [type : {"INIT_ACK"}, cookie : Sides, said : Sides]
      BY <2>4 DEF NoPacket
    <2>5. QED
      BY <2>1, <2>2, <2>3, <2>4 DEF KernelPackets
  <1>6. QED
    BY <1>3, <1>4, <1>5

LEMMA InitIInv == ASSUME Init PROVE IInv
  <1>1. TypeOK
    <2>1. sut \in {NoSocket} \cup Sockets
      BY SocketTypes DEF Init, SocketState
    <2>2. kernel \in [assoc : Sides, packet : KernelPackets, heartbeat : 0..2]
      BY SideTypes DEF Init, NoAssoc, KernelPackets, Nothing
    <2>3. script \in [side : Sides, handshakes : 0..MaxHandshakes, restarting : BOOLEAN,
                      restarted : BOOLEAN, unechoed : BOOLEAN, heartbeat : 0..2]
      BY SideTypes, WAssumption DEF Init, Nothing
    <2>4. QED
      BY <2>1, <2>2, <2>3 DEF Init, TypeOK, NotSeen, Seen
  <1>2. SeenInv /\ AbortClears
    BY DEF Init, NotSeen, Seen, SeenInv, NumbersAsWritten, TsnAsWritten, TagAccepted, AbortClears
  <1>3. sut.state = IF mode = "wire" THEN "none" ELSE IF role = "passive" THEN "listening" ELSE "connecting"
    BY SocketTypes DEF Init, NoSocket, SocketState
  <1>4. /\ kernel.packet = NoPacket /\ kernel.packet.type = "none" /\ kernel.heartbeat = Nothing
        /\ ~Established /\ ~script.restarting /\ script.heartbeat = Nothing
    BY DEF Init, Established, NoPacket
  <1>5. RemoteInv
    BY SocketTypes DEF Init, RemoteInv, SocketState
  <1>6. HeartbeatInv /\ InitAckInv
    BY <1>3, <1>4 DEF HeartbeatInv, InitAckInv, Learnt
  <1>7. PassiveInv /\ ActiveInv
    BY <1>3, <1>4 DEF Init, PassiveInv, Blank, ActiveInv
  <1>8. QED
    BY <1>1, <1>2, <1>5, <1>6, <1>7 DEF IInv, PlaceInv

\* A packet event that leaves nothing to look at.
LEMMA QuietStep ==
  ASSUME TypeOK', PlaceInv', seen' = NotSeen, test' = "running"
  PROVE  IInv'
  BY DEF NotSeen, Seen, SeenInv, NumbersAsWritten, TsnAsWritten, TagAccepted, AbortClears, IInv

(***************************************************************************)
(* The handshake with a listening kernel.                                  *)
(***************************************************************************)
\* What the numbers of the peer become: the script's numbers are the live ones.
LEMMA RemoteMapped ==
  ASSUME NEW s \in Sockets, s.live.rtsn = s.script.rtsn, NEW n \in Num
  PROVE  MapIn(s, "remote", n) = n
  <1>1. s.live.rtsn \in Num
    BY DEF Sockets, Sides
  <1>2. Initial(s.live, "remote") = s.live.rtsn /\ Initial(s.script, "remote") = s.live.rtsn
    BY DEF Initial
  <1>3. Minus(s.live.rtsn, s.live.rtsn) = 0 /\ Plus(n, 0) = n
    BY <1>1, SameBase
  <1>4. QED
    BY <1>2, <1>3 DEF MapIn

LEMMA InboundInitInv == ASSUME IInv, inbound_init PROVE IInv'
  <1>1. /\ Running /\ role = "passive" /\ kernel.packet = NoPacket
        /\ script.handshakes < MaxHandshakes
    BY DEF inbound_init
  <1>2. PlaceInv /\ role = "passive" /\ kernel.packet.type = "none" /\ TypeOK /\ test = "running"
    <2>1. test = "running"
      BY <1>1 DEF Running
    <2>2. NoPacket.type = "none"
      BY DEF NoPacket
    <2>3. QED
      BY <1>1, <2>1, <2>2 DEF IInv
  <1>3. /\ sut.state \in {"none", "listening", "init_ack_sent", "cookie_echo_received"}
        /\ sut.state # "none" => sut \in Sockets /\ sut # NoSocket
        /\ ~Blank
    BY <1>2, StateTypes DEF PlaceInv, PassiveInv, Blank
  <1> DEFINE fresh == sut.state \in {"none", "listening"}
             child(rtag, rtsn) ==
               CASE sut.state = "none" ->
                      [Socket("packet_received") EXCEPT !.script = Side(0, 0, rtag, rtsn),
                                                        !.live = Side(0, 0, rtag, rtsn)]
                 [] sut.state = "listening" -> Socket("packet_received")
                 [] OTHER -> sut
             cookie(rtag, rtsn, tag, tsn) ==
               Side(tag, tsn, IF fresh THEN rtag ELSE initiate_tag(sut, rtag),
                              IF fresh THEN rtsn ELSE MapIn(sut, "remote", rtsn))
  <1>4. PICK rtag \in Tag, rtsn \in ScriptTsns, tag \in Tag, tsn \in KernelTsns :
          /\ sut' = child(rtag, rtsn)
          /\ kernel' = [kernel EXCEPT !.packet =
                          [type |-> "INIT_ACK", cookie |-> cookie(rtag, rtsn, tag, tsn),
                           said |-> Side(0, 0, rtag, rtsn)]]
    BY DEF inbound_init
  <1>5. /\ rtag \in Num /\ rtsn \in Num /\ tag \in Num /\ tsn \in Num /\ tag # 0 /\ 0 \in Num
    BY NumTypes
  <1>6. PICK said \in Sides : said = Side(0, 0, rtag, rtsn) /\ said.rtag = rtag /\ said.rtsn = rtsn
    BY <1>5, SideIs
  <1>7. PICK c \in Sides :
          /\ c = cookie(rtag, rtsn, tag, tsn)
          /\ c.ltag = tag /\ c.rtsn = rtsn /\ (fresh => c.rtag = rtag)
    <2>1. CASE fresh
      <3>1. cookie(rtag, rtsn, tag, tsn) = Side(tag, tsn, rtag, rtsn)
        BY <2>1
      <3>2. QED
        BY <1>5, <3>1, SideIs
    <2>2. CASE ~fresh
      <3>1. sut \in Sockets /\ sut.live.rtsn = sut.script.rtsn
        BY <1>2, <1>3, <2>2 DEF PlaceInv, RemoteInv
      <3>2. MapIn(sut, "remote", rtsn) = rtsn
        BY <1>5, <3>1, RemoteMapped
      <3>3. PICK n \in Num : n = initiate_tag(sut, rtag)
        BY <1>5, <3>1 DEF initiate_tag, Sockets, Sides
      <3>4. cookie(rtag, rtsn, tag, tsn) = Side(tag, tsn, n, rtsn)
        BY <2>2, <3>2, <3>3
      <3> HIDE DEF cookie
      <3>5. /\ Side(tag, tsn, n, rtsn) \in Sides
            /\ Side(tag, tsn, n, rtsn).ltag = tag /\ Side(tag, tsn, n, rtsn).rtsn = rtsn
        BY <1>5, SideIs
      <3>6. QED
        BY <2>2, <3>4, <3>5
    <2>3. QED
      BY <2>1, <2>2
  <1>8. PICK q \in KernelPackets :
          kernel' = [kernel EXCEPT !.packet = q] /\ q.type = "INIT_ACK" /\ q.cookie = c /\ q.said = said
    <2> DEFINE r == [type |-> "INIT_ACK", cookie |-> c, said |-> said]
    <2>1. r \in KernelPackets /\ r.type = "INIT_ACK" /\ r.cookie = c /\ r.said = said
      BY DEF KernelPackets
    <2>2. kernel' = [kernel EXCEPT !.packet = r]
      BY <1>4, <1>6, <1>7
    <2> HIDE DEF r
    <2>3. QED
      BY <2>1, <2>2
  <1>9. /\ kernel' \in [assoc : Sides, packet : KernelPackets, heartbeat : 0..2]
        /\ kernel'.assoc = kernel.assoc /\ kernel'.packet = q /\ kernel'.heartbeat = kernel.heartbeat
    BY <1>2, <1>8 DEF TypeOK
  <1>10. /\ script' \in [side : Sides, handshakes : 0..MaxHandshakes, restarting : BOOLEAN,
                         restarted : BOOLEAN, unechoed : BOOLEAN, heartbeat : 0..2]
         /\ script'.side = script.side /\ script'.restarting = script.restarting
         /\ script'.restarted = script.restarted /\ script'.unechoed = script.unechoed
         /\ script'.heartbeat = script.heartbeat
    <2>1. script.handshakes + 1 \in 0..MaxHandshakes
      <3>1. script.handshakes \in 0..MaxHandshakes
        BY <1>2 DEF TypeOK
      <3>2. QED
        BY <1>1, <3>1, WAssumption
    <2>2. script' = [script EXCEPT !.handshakes = script.handshakes + 1]
      BY DEF inbound_init
    <2>3. QED
      BY <1>2, <2>1, <2>2 DEF TypeOK
  <1>11. /\ fresh => /\ sut' \in Sockets /\ sut'.state = "packet_received"
                     /\ sut'.live = sut'.script /\ sut'.cookie_echo = NoCookie
                     /\ sut'.heartbeat_ack = Nothing
                     /\ sut.state = "none" => sut'.live.rtag = rtag
         /\ ~fresh => sut' = sut
    <2>1. "packet_received" \in SocketState
      BY DEF SocketState
    <2>2. CASE sut.state = "none"
      <3>1. sut' = [Socket("packet_received") EXCEPT !.script = said, !.live = said]
        BY <1>4, <1>6, <2>2
      <3>2. PICK s \in Sockets : s = Socket("packet_received") /\ s.state = "packet_received"
                                 /\ s.cookie_echo = NoCookie /\ s.heartbeat_ack = Nothing
        BY <2>1, SocketTypes
      <3>3. sut' = [s EXCEPT !.script = said, !.live = said]
        BY <3>1, <3>2
      <3>4. /\ sut' \in Sockets /\ sut'.state = "packet_received" /\ sut'.live = said
            /\ sut'.script = said /\ sut'.cookie_echo = s.cookie_echo
            /\ sut'.heartbeat_ack = s.heartbeat_ack
        BY <3>2, <3>3 DEF Sockets
      <3>5. QED
        BY <1>6, <2>2, <3>2, <3>4
    <2>3. CASE sut.state = "listening"
      <3>1. sut' = Socket("packet_received")
        BY <1>4, <2>3
      <3>2. QED
        BY <2>1, <2>3, <3>1, SocketTypes
    <2>4. CASE ~fresh
      BY <1>4, <2>4
    <2>5. QED
      BY <2>2, <2>3, <2>4
  <1>12. seen' = NotSeen /\ UNCHANGED <<mode, role, test>>
    BY DEF inbound_init
  <1> HIDE DEF child, cookie
  <1>13. TypeOK'
    <2>1. sut' \in {NoSocket} \cup Sockets
      BY <1>3, <1>11
    <2>2. QED
      BY <1>2, <1>9, <1>10, <1>12, <2>1 DEF TypeOK, NotSeen, Seen
  <1>14. mode = "wire" => sut.state # "listening"
    BY <1>2 DEF PlaceInv, PassiveInv
  <1>15. Established' <=> Established
    BY <1>9 DEF Established
  <1>16. RemoteInv'
    BY <1>2, <1>11 DEF PlaceInv, RemoteInv
  <1>17. HeartbeatInv'
    BY <1>2, <1>3, <1>8, <1>9, <1>10, <1>11, <1>15 DEF PlaceInv, HeartbeatInv, Learnt
  <1>18. InitAckInv'
    <2>1. fresh /\ mode = "wire" => c.rtag = sut'.live.rtag /\ said.rtag = sut'.live.rtag
      BY <1>6, <1>7, <1>11, <1>14
    <2>2. fresh => sut'.state = "packet_received"
      BY <1>11
    <2>3. ~fresh => sut' = sut /\ sut.state # "packet_received"
      BY <1>3, <1>11
    <2>4. q.cookie = c /\ q.said = said /\ c.ltag # 0 /\ c.rtsn = said.rtsn /\ kernel'.packet = q
      BY <1>5, <1>6, <1>7, <1>8, <1>9
    <2>5. QED
      BY <1>2, <1>3, <1>12, <2>1, <2>2, <2>3, <2>4 DEF InitAckInv
  <1>19. PassiveInv'
    <2>1. fresh => Blank' /\ sut'.cookie_echo = NoCookie
      BY <1>11 DEF Blank
    <2>2. ~fresh => (Blank' <=> Blank) /\ sut' = sut
      BY <1>11 DEF Blank
    <2>3. LocalLearnt(sut.cookie_echo) /\ ~fresh => LocalLearnt(sut.cookie_echo)'
      BY <1>10, <2>2 DEF LocalLearnt
    <2>4. QED
      BY <1>2, <1>3, <1>8, <1>9, <1>10, <1>11, <1>12, <1>15, <2>1, <2>2, <2>3 DEF PlaceInv, PassiveInv
  <1>20. ActiveInv'
    BY <1>2, <1>12 DEF ActiveInv
  <1>21. QED
    BY <1>2, <1>12, <1>13, <1>16, <1>17, <1>18, <1>19, <1>20, QuietStep DEF PlaceInv

\* The socket after it has learnt the kernel's numbers and the script's.
Learns(s, c, ltag, ltsn) ==
  [s EXCEPT !.state = "init_ack_sent", !.cookie_echo = c,
            !.script.ltag = ltag, !.script.ltsn = ltsn,
            !.live.ltag = c.ltag, !.live.ltsn = c.ltsn]

HasLearnt(t, s, c, ltag, ltsn) ==
  /\ t \in Sockets /\ t.state = "init_ack_sent" /\ t.cookie_echo = c /\ t.heartbeat_ack = s.heartbeat_ack
  /\ t.script.ltag = ltag /\ t.script.ltsn = ltsn
  /\ t.script.rtag = s.script.rtag /\ t.script.rtsn = s.script.rtsn
  /\ t.live.ltag = c.ltag /\ t.live.ltsn = c.ltsn
  /\ t.live.rtag = s.live.rtag /\ t.live.rtsn = s.live.rtsn

LEMMA LearnsLocal ==
  ASSUME NEW s \in Sockets, NEW c \in Sides, NEW ltag \in Num, NEW ltsn \in Num
  PROVE  HasLearnt(Learns(s, c, ltag, ltsn), s, c, ltag, ltsn)
  <1> DEFINE a == [s.script EXCEPT !.ltag = ltag, !.ltsn = ltsn]
             b == [s.live EXCEPT !.ltag = c.ltag, !.ltsn = c.ltsn]
  <1>1. s.script \in Sides /\ s.live \in Sides /\ c.ltag \in Num /\ c.ltsn \in Num
    BY DEF Sockets, Sides
  <1>2. /\ a \in Sides /\ a.ltag = ltag /\ a.ltsn = ltsn
        /\ a.rtag = s.script.rtag /\ a.rtsn = s.script.rtsn
    <2>1. PICK x \in Sides : x = s.script
      BY <1>1
    <2>2. a = [x EXCEPT !.ltag = ltag, !.ltsn = ltsn]
      BY <2>1
    <2> HIDE DEF a
    <2>3. a \in Sides /\ a.ltag = ltag /\ a.ltsn = ltsn /\ a.rtag = x.rtag /\ a.rtsn = x.rtsn
      BY <2>2 DEF Sides
    <2>4. QED
      BY <2>1, <2>3
  <1>3. /\ b \in Sides /\ b.ltag = c.ltag /\ b.ltsn = c.ltsn
        /\ b.rtag = s.live.rtag /\ b.rtsn = s.live.rtsn
    <2>1. PICK x \in Sides, m \in Num, n \in Num : x = s.live /\ m = c.ltag /\ n = c.ltsn
      BY <1>1
    <2>2. b = [x EXCEPT !.ltag = m, !.ltsn = n]
      BY <2>1
    <2> HIDE DEF b
    <2>3. b \in Sides /\ b.ltag = m /\ b.ltsn = n /\ b.rtag = x.rtag /\ b.rtsn = x.rtsn
      BY <2>2 DEF Sides
    <2>4. QED
      BY <2>1, <2>3
  <1>4. PICK t : t = Learns(s, c, ltag, ltsn)
    OBVIOUS
  <1>5. t = [s EXCEPT !.state = "init_ack_sent", !.cookie_echo = c, !.script = a, !.live = b]
    BY <1>4 DEF Learns, Sockets, Sides
  <1> HIDE DEF a, b
  <1>6. /\ t \in Sockets /\ t.state = "init_ack_sent" /\ t.cookie_echo = c /\ t.heartbeat_ack = s.heartbeat_ack
        /\ t.script = a /\ t.live = b
    BY <1>2, <1>3, <1>5 DEF Sockets, SocketState
  <1>7. HasLearnt(t, s, c, ltag, ltsn)
    BY <1>2, <1>3, <1>6 DEF HasLearnt
  <1>8. QED
    BY <1>4, <1>7

Kernels == [assoc : Sides, packet : KernelPackets, heartbeat : 0..2]
Scripts ==
  [side : Sides, handshakes : 0..MaxHandshakes, restarting : BOOLEAN, restarted : BOOLEAN,
   unechoed : BOOLEAN, heartbeat : 0..2]

\* The packet of the kernel is sniffed.
LEMMA Sniffed ==
  ASSUME TypeOK, kernel' = [kernel EXCEPT !.packet = NoPacket]
  PROVE  /\ kernel' \in Kernels /\ kernel'.assoc = kernel.assoc /\ kernel'.heartbeat = kernel.heartbeat
         /\ kernel'.packet = NoPacket /\ kernel'.packet.type = "none"
         /\ Established' <=> Established
  <1>1. NoPacket \in KernelPackets /\ NoPacket.type = "none"
    BY DEF KernelPackets, NoPacket
  <1>2. /\ kernel' \in Kernels /\ kernel'.assoc = kernel.assoc /\ kernel'.heartbeat = kernel.heartbeat
        /\ kernel'.packet = NoPacket
    BY <1>1 DEF TypeOK, Kernels
  <1>3. QED
    BY <1>1, <1>2 DEF Established

LEMMA OutboundInitAckInv == ASSUME IInv, outbound_init_ack PROVE IInv'
  <1>1. /\ Running /\ kernel.packet.type = "INIT_ACK"
        /\ kernel' = [kernel EXCEPT !.packet = NoPacket]
        /\ seen' = NotSeen /\ UNCHANGED <<mode, role, test>>
    BY DEF outbound_init_ack
  <1>2. TypeOK /\ PlaceInv /\ test = "running"
    BY <1>1 DEF IInv, Running
  <1>3. /\ role = "passive" /\ sut.state \in {"packet_received", "init_ack_sent", "cookie_echo_received"}
        /\ sut \in Sockets /\ sut # NoSocket
        /\ kernel.packet.cookie \in Sides /\ kernel.packet.said \in Sides
        /\ kernel.packet.cookie.ltag # 0 /\ kernel.packet.cookie.rtsn = kernel.packet.said.rtsn
    BY <1>1, <1>2, StateTypes DEF PlaceInv, InitAckInv
  <1>4. /\ kernel' \in Kernels /\ kernel'.assoc = kernel.assoc /\ kernel'.heartbeat = kernel.heartbeat
        /\ kernel'.packet = NoPacket /\ kernel'.packet.type = "none"
        /\ Established' <=> Established
    BY <1>1, <1>2, Sniffed
  <1>5. InitAckInv' /\ ActiveInv'
    BY <1>1, <1>3, <1>4 DEF InitAckInv, ActiveInv
  <1>6. CASE ~learns_init_ack(sut) /\ UNCHANGED <<sut, script>>
    <2>1. TypeOK'
      BY <1>1, <1>2, <1>4, <1>6 DEF TypeOK, NotSeen, Seen, Kernels
    <2>2. RemoteInv' /\ HeartbeatInv'
      BY <1>2, <1>4, <1>6 DEF PlaceInv, RemoteInv, HeartbeatInv
    <2>3. PassiveInv'
      BY <1>1, <1>2, <1>3, <1>4, <1>6 DEF PlaceInv, PassiveInv, Blank, LocalLearnt, learns_init_ack
    <2>4. QED
      BY <1>1, <1>2, <1>5, <2>1, <2>2, <2>3, QuietStep DEF PlaceInv
  <1>7. CASE learns_init_ack(sut)
    <2>1. PICK c \in Sides, said \in Sides : c = kernel.packet.cookie /\ said = kernel.packet.said
      BY <1>3
    <2>2. PICK ltag \in Tag, ltsn \in ScriptTsns :
            /\ sut' = [sut EXCEPT !.state = "init_ack_sent", !.cookie_echo = c,
                                  !.script.ltag = ltag, !.script.ltsn = ltsn,
                                  !.live.ltag = c.ltag, !.live.ltsn = c.ltsn]
            /\ script' = [script EXCEPT !.side = Side(ltag, ltsn, said.rtag, said.rtsn),
                                        !.restarting = Established, !.restarted = Established]
      BY <1>7, <2>1 DEF outbound_init_ack
    <2>3. ltag \in Num /\ ltsn \in Num /\ ltag # 0 /\ said.rtag \in Num /\ said.rtsn \in Num
          /\ "init_ack_sent" \in SocketState
      BY NumTypes DEF Sides, SocketState
    <2> DEFINE side == Side(ltag, ltsn, said.rtag, said.rtsn)
    <2>4. /\ side \in Sides
            /\ side.ltag = ltag /\ side.ltsn = ltsn /\ side.rtag = said.rtag /\ side.rtsn = said.rtsn
      <3>1. PICK m \in Num, n \in Num : m = said.rtag /\ n = said.rtsn
        BY <2>3
      <3>2. side = Side(ltag, ltsn, m, n)
        BY <3>1
      <3> HIDE DEF side
      <3>3. side \in Sides /\ side.ltag = ltag /\ side.ltsn = ltsn /\ side.rtag = m /\ side.rtsn = n
        BY <2>3, <3>2 DEF Side, Sides
      <3>4. QED
        BY <3>1, <3>3
    <2> HIDE DEF side
    <2>5. /\ sut' \in Sockets /\ sut'.state = "init_ack_sent" /\ sut'.cookie_echo = c
          /\ sut'.heartbeat_ack = sut.heartbeat_ack
          /\ sut'.script.ltag = ltag /\ sut'.script.ltsn = ltsn
          /\ sut'.script.rtag = sut.script.rtag /\ sut'.script.rtsn = sut.script.rtsn
          /\ sut'.live.ltag = c.ltag /\ sut'.live.ltsn = c.ltsn
          /\ sut'.live.rtag = sut.live.rtag /\ sut'.live.rtsn = sut.live.rtsn
      <3>1. PICK s \in Sockets : s = sut
        BY <1>3
      <3>2. PICK t : t = sut'
        OBVIOUS
      <3>3. t = Learns(s, c, ltag, ltsn)
        BY <2>2, <3>1, <3>2 DEF Learns
      <3>4. /\ t \in Sockets /\ t.state = "init_ack_sent" /\ t.cookie_echo = c
            /\ t.heartbeat_ack = s.heartbeat_ack
            /\ t.script.ltag = ltag /\ t.script.ltsn = ltsn
            /\ t.script.rtag = s.script.rtag /\ t.script.rtsn = s.script.rtsn
            /\ t.live.ltag = c.ltag /\ t.live.ltsn = c.ltsn
            /\ t.live.rtag = s.live.rtag /\ t.live.rtsn = s.live.rtsn
        <4>1. ltag \in Num /\ ltsn \in Num
          BY <2>3
        <4>2. HasLearnt(Learns(s, c, ltag, ltsn), s, c, ltag, ltsn)
          BY <4>1, LearnsLocal
        <4>3. HasLearnt(t, s, c, ltag, ltsn)
          BY <3>3, <4>2
        <4>4. QED
          BY <4>3 DEF HasLearnt
      <3>5. QED
        BY <3>1, <3>2, <3>4
    <2>6. PICK b \in BOOLEAN : b <=> Established
      OBVIOUS
    <2>7. /\ script' \in Scripts /\ script'.side = side /\ script'.heartbeat = script.heartbeat
          /\ script'.unechoed = script.unechoed
          /\ (script'.restarting <=> Established) /\ (script'.restarted <=> Established)
      <3>1. script' = [script EXCEPT !.side = side, !.restarting = b, !.restarted = b]
        BY <2>2, <2>6 DEF side
      <3>2. /\ script' \in Scripts /\ script'.side = side /\ script'.heartbeat = script.heartbeat
            /\ script'.unechoed = script.unechoed /\ script'.restarting = b /\ script'.restarted = b
        BY <1>2, <2>4, <3>1 DEF TypeOK, Scripts
      <3>3. QED
        BY <2>6, <3>2, Zenon
    <2>8. TypeOK'
      BY <1>1, <1>2, <1>4, <2>5, <2>7 DEF TypeOK, NotSeen, Seen, Kernels, Scripts
    <2>9. RemoteInv'
      BY <1>2, <1>3, <2>5 DEF PlaceInv, RemoteInv
    <2>10. HeartbeatInv'
      <3>1. sut'.state \in Learnt /\ sut'.heartbeat_ack = script'.heartbeat
        BY <1>2, <1>3, <2>5, <2>7 DEF PlaceInv, HeartbeatInv, Learnt
      <3>2. QED
        BY <1>2, <1>4, <2>7, <3>1 DEF PlaceInv, HeartbeatInv
    <2>11. PassiveInv'
      <3>1. LocalLearnt(sut.cookie_echo)'
        BY <1>3, <2>1, <2>3, <2>4, <2>5, <2>7 DEF LocalLearnt
      <3>2. sut'.cookie_echo.rtsn = script'.side.rtsn
        BY <1>3, <2>1, <2>4, <2>5, <2>7
      <3>3. mode = "wire" /\ ~script'.restarted /\ ~script'.unechoed =>
              sut'.cookie_echo.rtag = sut'.live.rtag /\ script'.side.rtag = sut'.live.rtag
        <4>1. sut.state = "cookie_echo_received" /\ ~script.unechoed => Established
          BY <1>2, <1>3 DEF PlaceInv, PassiveInv
        <4>2. QED
          BY <1>1, <1>2, <1>7, <2>1, <2>4, <2>5, <2>7, <4>1 DEF PlaceInv, InitAckInv, learns_init_ack
      <3>4. QED
        BY <1>1, <1>3, <1>4, <2>5, <2>7, <3>1, <3>2, <3>3 DEF PassiveInv, Blank
    <2>12. QED
      BY <1>1, <1>2, <1>5, <2>8, <2>9, <2>10, <2>11, QuietStep DEF PlaceInv
  <1>8. QED
    BY <1>6, <1>7 DEF outbound_init_ack

(***************************************************************************)
(* The handshake that the kernel begins.                                   *)
(***************************************************************************)
LEMMA KernelSendsInitInv == ASSUME IInv, kernel_sends_init PROVE IInv'
  <1>1. /\ Running /\ role = "active" /\ ~Established
        /\ seen' = NotSeen /\ UNCHANGED <<mode, role, sut, script, test>>
    BY DEF kernel_sends_init
  <1>2. TypeOK /\ PlaceInv /\ test = "running"
    BY <1>1 DEF IInv, Running
  <1>3. PICK tag \in Tag, tsn \in KernelTsns :
          kernel' = [kernel EXCEPT !.assoc = Side(tag, tsn, 0, 0), !.packet = [type |-> "INIT"]]
    BY DEF kernel_sends_init
  <1>4. PICK a \in Sides : a = Side(tag, tsn, 0, 0) /\ a.ltag # 0 /\ a.rtag = 0 /\ a.rtsn = 0
    <2>1. tag \in Num /\ tsn \in Num /\ 0 \in Num /\ tag # 0
      BY NumTypes
    <2>2. QED
      BY <2>1, SideIs
  <1>5. PICK p \in KernelPackets : p = [type |-> "INIT"] /\ p.type = "INIT"
    <2>1. [type |-> "INIT"] \in KernelPackets
      BY DEF KernelPackets
    <2>2. [type |-> "INIT"].type = "INIT"
      OBVIOUS
    <2>3. QED
      BY <2>1, <2>2
  <1>6. /\ kernel' \in Kernels /\ kernel'.assoc = a /\ kernel'.packet = p
        /\ kernel'.heartbeat = kernel.heartbeat
    <2>1. kernel' = [kernel EXCEPT !.assoc = a, !.packet = p]
      BY <1>3, <1>4, <1>5
    <2>2. QED
      BY <1>2, <2>1 DEF TypeOK, Kernels
  <1>7. Established'
    BY <1>4, <1>6, SideTypes DEF Established, NoAssoc
  <1>8. sut.state \in {"none", "connecting"}
    <2>1. kernel.assoc.ltag = 0
      BY <1>1, SideTypes DEF Established, NoAssoc
    <2>2. QED
      BY <1>1, <1>2, <2>1 DEF PlaceInv, ActiveInv, LocalLearnt
  <1>9. TypeOK'
    BY <1>1, <1>2, <1>6 DEF TypeOK, NotSeen, Seen, Kernels
  <1>10. RemoteInv' /\ HeartbeatInv'
    BY <1>1, <1>2, <1>5, <1>6, <1>7 DEF PlaceInv, RemoteInv, HeartbeatInv
  <1>11. InitAckInv' /\ PassiveInv'
    BY <1>1, <1>5, <1>6 DEF InitAckInv, PassiveInv
  <1>12. ActiveInv'
    BY <1>1, <1>2, <1>4, <1>5, <1>6, <1>7, <1>8 DEF PlaceInv, ActiveInv
  <1>13. QED
    BY <1>1, <1>2, <1>9, <1>10, <1>11, <1>12, QuietStep DEF PlaceInv

LEMMA OutboundInitInv == ASSUME IInv, outbound_init PROVE IInv'
  <1>1. /\ Running /\ kernel.packet.type = "INIT" /\ sut.state \in {"none", "connecting"}
        /\ kernel' = [kernel EXCEPT !.packet = NoPacket]
        /\ seen' = NotSeen /\ UNCHANGED <<mode, role, test>>
    BY DEF outbound_init
  <1>2. TypeOK /\ PlaceInv /\ test = "running"
    BY <1>1 DEF IInv, Running
  <1>3. role = "active" /\ kernel.assoc \in Sides /\ NoPacket.type = "none"
    BY <1>1, <1>2 DEF TypeOK, PlaceInv, PassiveInv, NoPacket
  <1>4. /\ Established /\ kernel.assoc.ltag # 0 /\ kernel.assoc.rtag = 0 /\ kernel.assoc.rtsn = 0
    BY <1>1, <1>2, <1>3 DEF PlaceInv, ActiveInv
  <1>5. /\ kernel' \in Kernels /\ kernel'.assoc = kernel.assoc /\ kernel'.heartbeat = kernel.heartbeat
        /\ kernel'.packet = NoPacket /\ kernel'.packet.type = "none" /\ Established'
    BY <1>1, <1>2, <1>4, Sniffed
  <1>6. PICK m \in Num, n \in Num : m = kernel.assoc.ltag /\ n = kernel.assoc.ltsn
    BY <1>3 DEF Sides
  <1>7. PICK ltag \in Tag, ltsn \in ScriptTsns :
          /\ sut' = [Socket("init_sent") EXCEPT !.script = Side(ltag, ltsn, 0, 0),
                                                !.live = Side(m, n, 0, 0)]
          /\ script' = [script EXCEPT !.side = Side(ltag, ltsn, 0, 0)]
    BY <1>6 DEF outbound_init
  <1>8. ltag \in Num /\ ltsn \in Num /\ 0 \in Num /\ ltag # 0
    BY NumTypes
  <1>9. PICK a \in Sides : /\ a = Side(ltag, ltsn, 0, 0) /\ a.ltag = ltag /\ a.ltsn = ltsn
                           /\ a.rtag = 0 /\ a.rtsn = 0
    BY <1>8, SideIs
  <1>10. PICK b \in Sides : /\ b = Side(m, n, 0, 0) /\ b.ltag = m /\ b.ltsn = n
                            /\ b.rtag = 0 /\ b.rtsn = 0
    BY <1>8, SideIs
  <1>11. /\ sut' \in Sockets /\ sut'.state = "init_sent" /\ sut'.script = a /\ sut'.live = b
         /\ sut'.cookie_echo = NoCookie /\ sut'.heartbeat_ack = Nothing
    <2>1. "init_sent" \in SocketState
      BY DEF SocketState
    <2>2. PICK s \in Sockets : /\ s = Socket("init_sent") /\ s.state = "init_sent"
                               /\ s.cookie_echo = NoCookie /\ s.heartbeat_ack = Nothing
      BY <2>1, SocketTypes
    <2>3. sut' = [s EXCEPT !.script = a, !.live = b]
      BY <1>7, <1>9, <1>10, <2>2
    <2>4. /\ sut' \in Sockets /\ sut'.state = s.state /\ sut'.script = a /\ sut'.live = b
          /\ sut'.cookie_echo = s.cookie_echo /\ sut'.heartbeat_ack = s.heartbeat_ack
      BY <2>3 DEF Sockets
    <2>5. QED
      BY <2>2, <2>4
  <1>12. /\ script' \in Scripts /\ script'.side = a /\ script'.restarting = script.restarting
         /\ script'.heartbeat = script.heartbeat
    <2>1. script' = [script EXCEPT !.side = a]
      BY <1>7, <1>9
    <2>2. QED
      BY <1>2, <2>1 DEF TypeOK, Scripts
  <1>13. TypeOK'
    BY <1>1, <1>2, <1>5, <1>11, <1>12 DEF TypeOK, NotSeen, Seen, Kernels, Scripts
  <1>14. RemoteInv'
    BY <1>9, <1>10, <1>11 DEF RemoteInv
  <1>15. HeartbeatInv'
    <2>1. script.heartbeat = Nothing
      BY <1>1, <1>2 DEF PlaceInv, HeartbeatInv, Learnt
    <2>2. QED
      BY <1>5, <1>11, <1>12, <2>1 DEF HeartbeatInv, Learnt
  <1>16. InitAckInv' /\ PassiveInv'
    BY <1>1, <1>3, <1>5 DEF InitAckInv, PassiveInv
  <1>17. ActiveInv'
    <2>1. LocalLearnt(kernel.assoc)'
      BY <1>4, <1>5, <1>6, <1>8, <1>9, <1>10, <1>11, <1>12 DEF LocalLearnt
    <2>2. ~script'.restarting
      BY <1>2, <1>3, <1>12 DEF PlaceInv, ActiveInv
    <2>3. kernel'.assoc.rtsn = script'.side.rtsn /\ kernel'.assoc.rtag = sut'.live.rtag
      BY <1>4, <1>5, <1>9, <1>10, <1>11, <1>12
    <2>4. QED
      BY <1>5, <1>11, <1>12, <2>1, <2>2, <2>3 DEF ActiveInv
  <1>18. QED
    BY <1>1, <1>2, <1>13, <1>14, <1>15, <1>16, <1>17, QuietStep DEF PlaceInv

\* The socket after it has learnt the numbers of the peer.
Meets(s, rtag, rtsn) ==
  [s EXCEPT !.state = "init_ack_received", !.script.rtag = rtag, !.script.rtsn = rtsn,
            !.live.rtag = rtag, !.live.rtsn = rtsn]
HasMet(t, s, rtag, rtsn) ==
  /\ t \in Sockets /\ t.state = "init_ack_received" /\ t.cookie_echo = s.cookie_echo
  /\ t.heartbeat_ack = s.heartbeat_ack
  /\ t.script = [s.script EXCEPT !.rtag = rtag, !.rtsn = rtsn]
  /\ t.live = [s.live EXCEPT !.rtag = rtag, !.rtsn = rtsn]

LEMMA RemoteIs ==
  ASSUME NEW a \in Sides, NEW m \in Num, NEW n \in Num, NEW b,
         b = [a EXCEPT !.rtag = m, !.rtsn = n]
  PROVE  b \in Sides /\ b.ltag = a.ltag /\ b.ltsn = a.ltsn /\ b.rtag = m /\ b.rtsn = n
  BY DEF Sides

LEMMA MeetsRemote ==
  ASSUME NEW s \in Sockets, NEW rtag \in Num, NEW rtsn \in Num
  PROVE  HasMet(Meets(s, rtag, rtsn), s, rtag, rtsn)
  <1>1. PICK x \in Sides, y \in Sides : x = s.script /\ y = s.live
    BY DEF Sockets
  <1>2. PICK a : a = [x EXCEPT !.rtag = rtag, !.rtsn = rtsn]
    OBVIOUS
  <1>3. PICK b : b = [y EXCEPT !.rtag = rtag, !.rtsn = rtsn]
    OBVIOUS
  <1>4. a \in Sides /\ b \in Sides
    BY <1>2, <1>3, RemoteIs
  <1>5. PICK t : t = Meets(s, rtag, rtsn)
    OBVIOUS
  <1>6. t = [s EXCEPT !.state = "init_ack_received", !.script = a, !.live = b]
    BY <1>1, <1>2, <1>3, <1>5 DEF Meets, Sockets, Sides
  <1>7. /\ t \in Sockets /\ t.state = "init_ack_received" /\ t.cookie_echo = s.cookie_echo
        /\ t.heartbeat_ack = s.heartbeat_ack /\ t.script = a /\ t.live = b
    BY <1>4, <1>6 DEF Sockets, SocketState
  <1>8. HasMet(t, s, rtag, rtsn)
    BY <1>1, <1>2, <1>3, <1>7 DEF HasMet
  <1>9. QED
    BY <1>5, <1>8

\* The socket after the kernel's INIT was answered: it knows the numbers of the peer, or a
\* COOKIE_ECHO had moved it on and it does not.
Answered(s, rtag, rtsn) == IF s.state # "init_sent" THEN s ELSE Meets(s, rtag, rtsn)
HasAnswered(t, s, rtag, rtsn) ==
  /\ t \in Sockets /\ t.cookie_echo = s.cookie_echo /\ t.heartbeat_ack = s.heartbeat_ack
  /\ t.script.ltag = s.script.ltag /\ t.script.ltsn = s.script.ltsn
  /\ t.live.ltag = s.live.ltag /\ t.live.ltsn = s.live.ltsn
  /\ t.live.rtag = t.script.rtag /\ t.live.rtsn = t.script.rtsn
  /\ s.state # "init_sent" => t.state = s.state
  /\ s.state = "init_sent" =>
       /\ t.state = "init_ack_received" /\ t.live.rtag = rtag
       /\ t.script = [s.script EXCEPT !.rtag = rtag, !.rtsn = rtsn]

LEMMA AnsweredIs ==
  ASSUME NEW s \in Sockets, NEW rtag \in Num, NEW rtsn \in Num,
         s.live.rtag = s.script.rtag, s.live.rtsn = s.script.rtsn, NEW t, t = Answered(s, rtag, rtsn)
  PROVE  HasAnswered(t, s, rtag, rtsn)
  <1>1. CASE s.state # "init_sent"
    BY <1>1 DEF Answered, HasAnswered
  <1>2. CASE s.state = "init_sent"
    <2>1. HasMet(t, s, rtag, rtsn)
      BY <1>2, MeetsRemote DEF Answered
    <2>2. PICK x \in Sides, y \in Sides : x = s.script /\ y = s.live
      BY DEF Sockets
    <2>3. PICK a : a = t.script /\ a = [x EXCEPT !.rtag = rtag, !.rtsn = rtsn]
      BY <2>1, <2>2 DEF HasMet
    <2>4. PICK b : b = t.live /\ b = [y EXCEPT !.rtag = rtag, !.rtsn = rtsn]
      BY <2>1, <2>2 DEF HasMet
    <2>5. a.ltag = x.ltag /\ a.ltsn = x.ltsn /\ a.rtag = rtag /\ a.rtsn = rtsn
      BY <2>3 DEF Sides
    <2>6. b.ltag = y.ltag /\ b.ltsn = y.ltsn /\ b.rtag = rtag /\ b.rtsn = rtsn
      BY <2>4 DEF Sides
    <2>7. QED
      BY <1>2, <2>1, <2>2, <2>3, <2>4, <2>5, <2>6 DEF HasMet, HasAnswered
  <1>3. QED
    BY <1>1, <1>2

LEMMA InboundInitAckInv == ASSUME IInv, inbound_init_ack PROVE IInv'
  <1>1. /\ Running /\ role = "active" /\ sut.state \in {"init_sent", "cookie_echo_received"}
        /\ seen' = NotSeen /\ UNCHANGED <<mode, role, test>>
    BY DEF inbound_init_ack
  <1>2. TypeOK /\ PlaceInv /\ test = "running"
    BY <1>1 DEF IInv, Running
  <1>3. role = "active" /\ sut \in Sockets /\ sut # NoSocket /\ kernel.assoc \in Sides
    BY <1>1, <1>2, StateTypes DEF TypeOK
  <1>4. /\ ~script.restarting /\ sut.cookie_echo = NoCookie /\ kernel.packet.type \in {"none", "HEARTBEAT"}
        /\ LocalLearnt(kernel.assoc)
        /\ ~script.unechoed => sut.script = script.side /\ sut.state = "init_sent"
    BY <1>1, <1>2, <1>3 DEF PlaceInv, ActiveInv
  <1>5. PICK rtag \in Tag, rtsn \in ScriptTsns :
          /\ sut' = Answered(sut, rtag, rtsn)
          /\ script' = [script EXCEPT !.side.rtag = rtag, !.side.rtsn = rtsn]
          /\ kernel' = [kernel EXCEPT !.assoc.rtag = initiate_tag(Answered(sut, rtag, rtsn), rtag),
                                      !.assoc.rtsn = MapIn(Answered(sut, rtag, rtsn), "remote", rtsn)]
    BY DEF inbound_init_ack, Meets, Answered
  <1>6. rtag \in Num /\ rtsn \in Num
    BY NumTypes
  <1>7. PICK s \in Sockets : s = sut /\ s.script \in Sides /\ s.live \in Sides
    BY <1>3 DEF Sockets
  <1>8. PICK t \in Sockets : t = sut' /\ HasAnswered(t, s, rtag, rtsn)
    <2>1. s.live.rtag = s.script.rtag /\ s.live.rtsn = s.script.rtsn
      BY <1>2, <1>3, <1>7 DEF PlaceInv, RemoteInv
    <2>2. PICK u : u = Answered(s, rtag, rtsn)
      OBVIOUS
    <2>3. HasAnswered(u, s, rtag, rtsn)
      BY <1>6, <2>1, <2>2, AnsweredIs
    <2>4. u \in Sockets
      BY <2>3 DEF HasAnswered
    <2>5. QED
      BY <1>5, <1>7, <2>2, <2>3, <2>4
  <1>9. PICK a \in Sides, b \in Sides :
          /\ t.script = a /\ a.ltag = s.script.ltag /\ a.ltsn = s.script.ltsn
          /\ t.live = b /\ b.ltag = s.live.ltag /\ b.ltsn = s.live.ltsn
          /\ b.rtag = a.rtag /\ b.rtsn = a.rtsn
          /\ s.state = "init_sent" => b.rtag = rtag
    BY <1>8 DEF HasAnswered, Sockets
  <1>10. MapIn(t, "remote", rtsn) = rtsn
    BY <1>6, <1>9, RemoteMapped
  <1>11. PICK m \in Num : m = initiate_tag(t, rtag) /\ (rtag # s.script.ltag => m = rtag)
    BY <1>6, <1>9 DEF initiate_tag, Sides
  <1>12. PICK k \in Sides, z \in Sides : k = kernel.assoc /\ z = script.side
    BY <1>2 DEF TypeOK
  <1>13. PICK d \in Sides :
           /\ kernel' = [kernel EXCEPT !.assoc = d]
           /\ d.ltag = k.ltag /\ d.ltsn = k.ltsn /\ d.rtag = m /\ d.rtsn = rtsn
    <2>1. PICK d : d = [k EXCEPT !.rtag = m, !.rtsn = rtsn]
      OBVIOUS
    <2>2. d \in Sides /\ d.ltag = k.ltag /\ d.ltsn = k.ltsn /\ d.rtag = m /\ d.rtsn = rtsn
      BY <1>6, <2>1 DEF Sides
    <2>3. kernel' = [kernel EXCEPT !.assoc.rtag = m, !.assoc.rtsn = rtsn]
      BY <1>5, <1>7, <1>8, <1>10, <1>11
    <2>4. kernel' = [kernel EXCEPT !.assoc = d]
      BY <1>2, <1>12, <2>1, <2>3 DEF TypeOK, Sides
    <2>5. QED
      BY <2>2, <2>4
  <1>14. PICK e \in Sides :
           /\ script' = [script EXCEPT !.side = e]
           /\ e = [z EXCEPT !.rtag = rtag, !.rtsn = rtsn]
           /\ e.ltag = z.ltag /\ e.ltsn = z.ltsn /\ e.rtag = rtag /\ e.rtsn = rtsn
    <2>1. PICK e : e = [z EXCEPT !.rtag = rtag, !.rtsn = rtsn]
      OBVIOUS
    <2>2. e \in Sides /\ e.ltag = z.ltag /\ e.ltsn = z.ltsn /\ e.rtag = rtag /\ e.rtsn = rtsn
      BY <1>6, <2>1 DEF Sides
    <2>3. script' = [script EXCEPT !.side = e]
      BY <1>2, <1>5, <1>12, <2>1 DEF TypeOK, Sides
    <2>4. QED
      BY <2>1, <2>2, <2>3
  <1>15. /\ kernel' \in Kernels /\ kernel'.assoc = d /\ kernel'.packet = kernel.packet
         /\ kernel'.heartbeat = kernel.heartbeat
    BY <1>2, <1>13 DEF TypeOK, Kernels
  <1>16. /\ script' \in Scripts /\ script'.side = e /\ script'.restarting = script.restarting
         /\ script'.heartbeat = script.heartbeat /\ script'.unechoed = script.unechoed
    BY <1>2, <1>14 DEF TypeOK, Scripts
  <1>17. /\ sut' = t /\ t.state \in {"init_ack_received", "cookie_echo_received"}
         /\ t.cookie_echo = NoCookie /\ t.heartbeat_ack = sut.heartbeat_ack
         /\ ~script.unechoed => t.state = "init_ack_received"
    BY <1>1, <1>4, <1>7, <1>8 DEF HasAnswered
  <1>18. TypeOK'
    BY <1>1, <1>2, <1>15, <1>16, <1>17 DEF TypeOK, NotSeen, Seen, Kernels, Scripts
  <1>19. Established /\ Established'
    BY <1>4, <1>12, <1>13, <1>15, SideTypes DEF Established, NoAssoc, LocalLearnt
  <1>20. RemoteInv'
    BY <1>9, <1>17 DEF RemoteInv
  <1>21. HeartbeatInv'
    <2>1. sut.heartbeat_ack = script.heartbeat
      BY <1>1, <1>2 DEF PlaceInv, HeartbeatInv, Learnt
    <2>2. QED
      BY <1>2, <1>15, <1>16, <1>17, <1>19, <2>1 DEF PlaceInv, HeartbeatInv, Learnt
  <1>22. InitAckInv' /\ PassiveInv'
    BY <1>1, <1>3, <1>4, <1>15 DEF InitAckInv, PassiveInv
  <1>23. ActiveInv'
    <2>1. LocalLearnt(kernel.assoc)'
      <3>1. /\ s.live.ltag = k.ltag /\ s.live.ltsn = k.ltsn /\ k.ltag # 0
            /\ s.script.ltag = z.ltag /\ s.script.ltsn = z.ltsn /\ z.ltag # 0
        BY <1>4, <1>7, <1>12 DEF LocalLearnt
      <3>2. b.ltag = d.ltag /\ b.ltsn = d.ltsn /\ d.ltag # 0
        BY <1>9, <1>13, <3>1
      <3>3. a.ltag = e.ltag /\ a.ltsn = e.ltsn /\ e.ltag # 0
        BY <1>9, <1>14, <3>1
      <3>4. QED
        BY <1>9, <1>15, <1>16, <1>17, <3>2, <3>3 DEF LocalLearnt
    <2>2. ASSUME ~script.unechoed PROVE a = e /\ (e.ltag # e.rtag => d.rtag = b.rtag)
      <3>1. s.script = z /\ s.state = "init_sent"
        BY <1>4, <1>7, <1>12, <2>2
      <3>2. t.script = [z EXCEPT !.rtag = rtag, !.rtsn = rtsn]
        BY <1>8, <3>1 DEF HasAnswered
      <3>3. a = e
        BY <1>9, <1>14, <3>2
      <3>4. e.ltag = s.script.ltag
        BY <1>9, <3>3
      <3>5. QED
        BY <1>9, <1>11, <1>13, <1>14, <3>1, <3>3, <3>4
    <2>3. a.rtag = b.rtag /\ a.rtsn = b.rtsn
      BY <1>9
    <2>4. d.rtsn = e.rtsn
      BY <1>13, <1>14
    <2>5. QED
      BY <1>1, <1>4, <1>9, <1>15, <1>16, <1>17, <2>1, <2>2, <2>3, <2>4 DEF ActiveInv
  <1>24. QED
    BY <1>1, <1>2, <1>18, <1>20, <1>21, <1>22, <1>23, QuietStep DEF PlaceInv

(***************************************************************************)
(* Heartbeats.                                                             *)
(***************************************************************************)
LEMMA KernelHeartbeatInv == ASSUME IInv, kernel_heartbeat PROVE IInv'
  <1>1. /\ Running /\ Established /\ kernel.packet = NoPacket
        /\ seen' = NotSeen /\ UNCHANGED <<mode, role, sut, script, test>>
    BY DEF kernel_heartbeat
  <1>2. TypeOK /\ PlaceInv /\ test = "running" /\ kernel.packet.type = "none"
    <2>1. NoPacket.type = "none"
      BY DEF NoPacket
    <2>2. QED
      BY <1>1, <2>1 DEF IInv, Running
  <1>3. PICK h \in 1..2 : h = 3 - (IF kernel.heartbeat = Nothing THEN 2 ELSE kernel.heartbeat)
    <2>1. kernel.heartbeat \in 0..2
      BY <1>2 DEF TypeOK
    <2>2. QED
      BY <2>1 DEF Nothing
  <1>4. PICK p \in KernelPackets : p = [type |-> "HEARTBEAT"] /\ p.type = "HEARTBEAT"
    <2>1. [type |-> "HEARTBEAT"] \in KernelPackets
      BY DEF KernelPackets
    <2>2. [type |-> "HEARTBEAT"].type = "HEARTBEAT"
      OBVIOUS
    <2>3. QED
      BY <2>1, <2>2
  <1>5. kernel' \in Kernels /\ kernel'.assoc = kernel.assoc /\ kernel'.packet = p /\ kernel'.heartbeat = h
    <2>1. kernel' = [kernel EXCEPT !.heartbeat = h, !.packet = p]
      BY <1>3, <1>4 DEF kernel_heartbeat
    <2>2. h \in 0..2
      BY <1>3
    <2>3. QED
      BY <1>2, <2>1, <2>2 DEF TypeOK, Kernels
  <1>6. Established' /\ kernel'.heartbeat # Nothing
    BY <1>1, <1>3, <1>5 DEF Established, Nothing
  <1>7. TypeOK'
    BY <1>1, <1>2, <1>5 DEF TypeOK, NotSeen, Seen, Kernels
  <1>8. RemoteInv'
    BY <1>1, <1>2 DEF PlaceInv, RemoteInv
  <1>9. HeartbeatInv'
    BY <1>1, <1>2, <1>5, <1>6 DEF PlaceInv, HeartbeatInv
  <1>10. InitAckInv'
    BY <1>4, <1>5 DEF InitAckInv
  <1>11. PassiveInv'
    BY <1>1, <1>2, <1>4, <1>5, <1>6 DEF PlaceInv, PassiveInv, Blank, LocalLearnt
  <1>12. ActiveInv'
    BY <1>1, <1>2, <1>4, <1>5, <1>6 DEF PlaceInv, ActiveInv, LocalLearnt
  <1>13. QED
    BY <1>1, <1>2, <1>7, <1>8, <1>9, <1>10, <1>11, <1>12, QuietStep DEF PlaceInv

LEMMA OutboundHeartbeatInv == ASSUME IInv, outbound_heartbeat PROVE IInv'
  <1>1. /\ Running /\ kernel.packet.type = "HEARTBEAT"
        /\ sut.state \notin {"none", "listening", "connecting"}
        /\ kernel' = [kernel EXCEPT !.packet = NoPacket]
        /\ seen' = NotSeen /\ UNCHANGED <<mode, role, test>>
    BY DEF outbound_heartbeat
  <1>2. TypeOK /\ PlaceInv /\ test = "running"
    BY <1>1 DEF IInv, Running
  <1>3. /\ kernel' \in Kernels /\ kernel'.assoc = kernel.assoc /\ kernel'.heartbeat = kernel.heartbeat
        /\ kernel'.packet = NoPacket /\ kernel'.packet.type = "none"
        /\ Established' <=> Established
    BY <1>1, <1>2, Sniffed
  <1>4. Established /\ sut.state \in Learnt /\ sut \in Sockets /\ sut # NoSocket
    BY <1>1, <1>2, StateTypes DEF PlaceInv, HeartbeatInv, PassiveInv, Blank, ActiveInv, TypeOK, Learnt
  <1>5. PICK h \in 0..2 : h = kernel.heartbeat
    BY <1>2 DEF TypeOK
  <1>6. /\ sut' \in Sockets /\ sut'.state = sut.state /\ sut'.script = sut.script /\ sut'.live = sut.live
        /\ sut'.cookie_echo = sut.cookie_echo /\ sut'.heartbeat_ack = h
    <2>1. sut' = [sut EXCEPT !.heartbeat_ack = h]
      BY <1>5 DEF outbound_heartbeat, prepare_heartbeat_ack
    <2>2. QED
      BY <1>4, <2>1 DEF Sockets
  <1>7. /\ script' \in Scripts /\ script'.side = script.side /\ script'.restarting = script.restarting
        /\ script'.restarted = script.restarted /\ script'.unechoed = script.unechoed
        /\ script'.heartbeat = h
    <2>1. script' = [script EXCEPT !.heartbeat = h]
      BY <1>5 DEF outbound_heartbeat
    <2>2. QED
      BY <1>2, <2>1 DEF TypeOK, Scripts
  <1>8. TypeOK'
    BY <1>1, <1>2, <1>3, <1>6, <1>7 DEF TypeOK, NotSeen, Seen, Kernels, Scripts
  <1>9. RemoteInv'
    BY <1>2, <1>4, <1>6 DEF PlaceInv, RemoteInv
  <1>10. HeartbeatInv' /\ InitAckInv'
    BY <1>2, <1>3, <1>4, <1>6, <1>7 DEF PlaceInv, HeartbeatInv, InitAckInv
  <1>11. PassiveInv'
    <2>1. LocalLearnt(sut.cookie_echo) => LocalLearnt(sut.cookie_echo)'
      BY <1>6, <1>7 DEF LocalLearnt
    <2>2. QED
      BY <1>1, <1>2, <1>3, <1>4, <1>6, <1>7, <2>1 DEF PlaceInv, PassiveInv, Blank, Learnt
  <1>12. ActiveInv'
    <2>1. LocalLearnt(kernel.assoc) => LocalLearnt(kernel.assoc)'
      BY <1>3, <1>6, <1>7 DEF LocalLearnt
    <2>2. QED
      BY <1>1, <1>2, <1>3, <1>4, <1>6, <1>7, <2>1 DEF PlaceInv, ActiveInv, Learnt
  <1>13. QED
    BY <1>1, <1>2, <1>8, <1>9, <1>10, <1>11, <1>12, QuietStep DEF PlaceInv

(***************************************************************************)
(* Chunks with numbers, and verification tags.                             *)
(***************************************************************************)
\* The functions that map a packet treat a number as its sender's exactly where
\* the protocol does.
LEMMA SpacesAgree ==
  ASSUME NEW c \in Chunk, NEW f \in Fields(c), c # "CWR"
  PROVE  /\ c # "NR_SACK_GAPS" => InboundSpace(c, f) = IF OfSender(c, f) THEN "remote" ELSE "local"
         /\ OutboundSpace(c, f) = IF OfSender(c, f) THEN "local" ELSE "remote"
  <1>1. CASE c \in {"DATA", "I_DATA", "FORWARD_TSN", "I_FORWARD_TSN"}
    <2>1. f = "tsn"
      BY <1>1 DEF Fields
    <2>2. QED
      BY <1>1, <2>1 DEF InboundSpace, OutboundSpace, OfSender
  <1>2. CASE c \in {"SACK", "NR_SACK", "NR_SACK_GAPS"}
    <2>1. f \in {"cum_tsn", "dup_tsn"}
      BY <1>2 DEF Fields
    <2>2. QED
      BY <1>2, <2>1 DEF InboundSpace, OutboundSpace, OfSender
  <1>3. CASE c \in {"SHUTDOWN", "ECNE"}
    <2>1. f = "tsn"
      BY <1>3 DEF Fields
    <2>2. QED
      BY <1>3, <2>1 DEF InboundSpace, OutboundSpace, OfSender
  <1>4. CASE c = "OUTGOING_SSN_RESET"
    <2>1. f \in {"reqsn", "respsn", "last_tsn"}
      BY <1>4 DEF Fields
    <2>2. QED
      BY <1>4, <2>1 DEF InboundSpace, OutboundSpace, OfSender
  <1>5. CASE c = "RECONFIG_RESPONSE"
    <2>1. f \in {"respsn", "receiver_next_tsn", "sender_next_tsn"}
      BY <1>5 DEF Fields
    <2>2. QED
      BY <1>5, <2>1 DEF InboundSpace, OutboundSpace, OfSender
  <1>6. CASE c \in {"INCOMING_SSN_RESET", "SSN_TSN_RESET", "ADD_OUTGOING_STREAMS", "ADD_INCOMING_STREAMS"}
    <2>1. f = "reqsn"
      BY <1>6 DEF Fields
    <2>2. QED
      BY <1>6, <2>1 DEF InboundSpace, OutboundSpace, OfSender
  <1>7. QED
    BY <1>1, <1>2, <1>3, <1>4, <1>5, <1>6 DEF Chunk

\* While it is connected and no restart is under way, the socket maps with the
\* numbers of the kernel's association and of the script.
LEMMA ConnectedNumbers ==
  ASSUME TypeOK, PlaceInv, Connected, InStep
  PROVE  /\ sut \in Sockets /\ kernel.assoc \in Sides /\ script.side \in Sides
         /\ sut.live \in Sides /\ sut.script \in Sides
         /\ sut.live.ltsn = kernel.assoc.ltsn /\ sut.script.ltsn = script.side.ltsn
         /\ kernel.assoc.rtsn = script.side.rtsn /\ sut.live.rtsn = sut.script.rtsn
         /\ sut.live.ltag = kernel.assoc.ltag /\ sut.script.ltag = script.side.ltag
         /\ kernel.assoc.ltag # 0 /\ script.side.ltag # 0 /\ sut.live.rtag = sut.script.rtag
         /\ /\ ~script.restarted /\ ~script.unechoed /\ (mode = "wire" \/ role = "active")
            /\ script.side.ltag # script.side.rtag
            => kernel.assoc.rtag = sut.live.rtag /\ script.side.rtag = sut.live.rtag
  <1>1. /\ Established /\ ~script.restarting
        /\ sut.state \in {"cookie_echo_received", "init_ack_received", "init_ack_sent"}
    BY DEF Connected, InStep
  <1>2. /\ sut \in Sockets /\ sut # NoSocket /\ kernel.assoc \in Sides /\ script.side \in Sides
        /\ role \in {"passive", "active"}
    BY <1>1, StateTypes DEF TypeOK
  <1>3. sut.live \in Sides /\ sut.script \in Sides
    BY <1>2 DEF Sockets
  <1>4. sut.live.rtsn = sut.script.rtsn /\ sut.live.rtag = sut.script.rtag
    BY <1>2 DEF PlaceInv, RemoteInv
  <1>5. CASE role = "passive"
    <2>1. /\ LocalLearnt(sut.cookie_echo) /\ kernel.assoc = sut.cookie_echo
          /\ sut.cookie_echo.rtsn = script.side.rtsn
          /\ mode = "wire" /\ ~script.restarted /\ ~script.unechoed =>
               sut.cookie_echo.rtag = sut.live.rtag /\ script.side.rtag = sut.live.rtag
      BY <1>1, <1>5 DEF PlaceInv, PassiveInv
    <2>2. QED
      BY <1>2, <1>3, <1>4, <1>5, <2>1 DEF LocalLearnt
  <1>6. CASE role = "active"
    <2>1. /\ LocalLearnt(kernel.assoc) /\ kernel.assoc.rtsn = script.side.rtsn
          /\ ~script.unechoed =>
               /\ sut.script = script.side
               /\ script.side.ltag # script.side.rtag => kernel.assoc.rtag = sut.live.rtag
      BY <1>1, <1>6 DEF PlaceInv, ActiveInv
    <2>2. QED
      BY <1>2, <1>3, <1>4, <1>6, <2>1 DEF LocalLearnt
  <1>7. QED
    BY <1>2, <1>5, <1>6

LEMMA MapsIn ==
  ASSUME TypeOK, PlaceInv, Connected, InStep, NEW d \in Num,
         NEW c \in Chunk, NEW f \in Fields(c), c # "CWR", c # "NR_SACK_GAPS"
  PROVE  Minus(MapIn(sut, InboundSpace(c, f), Plus(Base(script.side, c, f, "in"), d)),
               Base(kernel.assoc, c, f, "in")) = d
  <1>1. PICK l \in Num, s \in Num, a \in Num, g \in Num, r \in Num, h \in Num :
          /\ l = sut.live.ltsn /\ s = sut.script.ltsn /\ a = kernel.assoc.ltsn /\ g = script.side.ltsn
          /\ r = sut.live.rtsn /\ r = sut.script.rtsn /\ h = kernel.assoc.rtsn /\ h = script.side.rtsn
          /\ l = a /\ s = g
    BY ConnectedNumbers DEF Sides
  <1>2. CASE OfSender(c, f)
    <2>1. InboundSpace(c, f) = "remote"
      BY <1>2, SpacesAgree
    <2>2. Base(script.side, c, f, "in") = h /\ Base(kernel.assoc, c, f, "in") = h
      BY <1>1, <1>2 DEF Base
    <2>3. MapIn(sut, "remote", Plus(h, d)) = Plus(Plus(h, d), Minus(r, r))
      BY <1>1 DEF MapIn, Initial
    <2>4. Minus(r, r) = Minus(h, h)
      BY SameBase
    <2>5. Minus(Plus(Plus(h, d), Minus(r, r)), h) = d
      BY <2>4, DistanceKept
    <2>6. QED
      BY <2>1, <2>2, <2>3, <2>5
  <1>3. CASE ~OfSender(c, f)
    <2>1. InboundSpace(c, f) = "local"
      BY <1>3, SpacesAgree
    <2>2. Base(script.side, c, f, "in") = g /\ Base(kernel.assoc, c, f, "in") = a
      BY <1>1, <1>3 DEF Base
    <2>3. MapIn(sut, "local", Plus(g, d)) = Plus(Plus(g, d), Minus(l, s))
      BY <1>1 DEF MapIn, Initial
    <2>4. Minus(l, s) = Minus(a, g)
      BY <1>1
    <2>5. Minus(Plus(Plus(g, d), Minus(l, s)), a) = d
      BY <2>4, DistanceKept
    <2>6. QED
      BY <2>1, <2>2, <2>3, <2>5
  <1>4. QED
    BY <1>2, <1>3

LEMMA MapsOut ==
  ASSUME TypeOK, PlaceInv, Connected, InStep, NEW d \in Num,
         NEW c \in Chunk, NEW f \in Fields(c), c # "CWR"
  PROVE  Minus(MapOut(sut, OutboundSpace(c, f), Plus(Base(kernel.assoc, c, f, "out"), d)),
               Base(script.side, c, f, "out")) = d
  <1>1. PICK l \in Num, s \in Num, a \in Num, g \in Num, r \in Num, h \in Num :
          /\ l = sut.live.ltsn /\ s = sut.script.ltsn /\ a = kernel.assoc.ltsn /\ g = script.side.ltsn
          /\ r = sut.live.rtsn /\ r = sut.script.rtsn /\ h = kernel.assoc.rtsn /\ h = script.side.rtsn
          /\ l = a /\ s = g
    BY ConnectedNumbers DEF Sides
  <1>2. CASE ~OfSender(c, f)
    <2>1. OutboundSpace(c, f) = "remote"
      BY <1>2, SpacesAgree
    <2>2. OfSender(c, f) = FALSE
      BY <1>2 DEF OfSender
    <2>3. Base(script.side, c, f, "out") = h /\ Base(kernel.assoc, c, f, "out") = h
      BY <1>1, <2>2 DEF Base
    <2>4. MapOut(sut, "remote", Plus(h, d)) = Plus(Plus(h, d), Minus(r, r))
      BY <1>1 DEF MapOut, Initial
    <2>5. Minus(r, r) = Minus(h, h)
      BY SameBase
    <2>6. Minus(Plus(Plus(h, d), Minus(r, r)), h) = d
      BY <2>5, DistanceKept
    <2>7. QED
      BY <2>1, <2>3, <2>4, <2>6
  <1>3. CASE OfSender(c, f)
    <2>1. OutboundSpace(c, f) = "local"
      BY <1>3, SpacesAgree
    <2>2. Base(script.side, c, f, "out") = g /\ Base(kernel.assoc, c, f, "out") = a
      BY <1>1, <1>3 DEF Base
    <2>3. MapOut(sut, "local", Plus(a, d)) = Plus(Plus(a, d), Minus(s, l))
      BY <1>1 DEF MapOut, Initial
    <2>4. Minus(s, l) = Minus(g, a)
      BY <1>1
    <2>5. Minus(Plus(Plus(a, d), Minus(s, l)), g) = d
      BY <2>4, DistanceKept
    <2>6. QED
      BY <2>1, <2>2, <2>3, <2>5
  <1>4. QED
    BY <1>2, <1>3

\* A packet that only shows how it was mapped.
LEMMA ShownStep ==
  ASSUME IInv, Connected, UNCHANGED <<mode, role, sut, kernel, script, test>>,
         seen'.what \in {"TSN", "other TSN", "T", "no T"}, NumbersAsWritten'
  PROVE  IInv'
  <1>1. test = "running" /\ TypeOK /\ PlaceInv
    BY DEF Connected, Running, IInv
  <1>2. TypeOK'
    BY <1>1 DEF TypeOK
  <1>3. RemoteInv' /\ HeartbeatInv' /\ InitAckInv'
    BY <1>1 DEF PlaceInv, RemoteInv, HeartbeatInv, InitAckInv, Established
  <1>4. PassiveInv' /\ ActiveInv'
    BY <1>1 DEF PlaceInv, PassiveInv, Blank, ActiveInv, LocalLearnt, Established
  <1>5. SeenInv' /\ AbortClears'
    BY <1>1 DEF SeenInv, AbortClears
  <1>6. QED
    BY <1>2, <1>3, <1>4, <1>5 DEF IInv, PlaceInv

LEMMA InboundChunkInv == ASSUME IInv, inbound_chunk PROVE IInv'
  <1>1. Connected /\ UNCHANGED <<mode, role, sut, kernel, script, test>>
    BY DEF inbound_chunk
  <1>2. TypeOK /\ PlaceInv
    BY <1>1 DEF Connected, Running, IInv
  <1> DEFINE kept(c, d) == \A f \in Fields(c) :
               Minus(MapIn(sut, InboundSpace(c, f), Plus(Base(script.side, c, f, "in"), d)),
                     Base(kernel.assoc, c, f, "in")) = d
  <1>3. PICK c \in Chunk, d \in Offsets :
          seen' = Seen("in", IF c = "CWR" \/ c = "NR_SACK_GAPS" THEN "other TSN" ELSE "TSN", kept(c, d))
    BY DEF inbound_chunk
  <1>4. /\ seen'.what = IF c = "CWR" \/ c = "NR_SACK_GAPS" THEN "other TSN" ELSE "TSN"
        /\ seen'.ok = kept(c, d)
    BY <1>3 DEF Seen
  <1>5. InStep /\ seen'.what = "TSN" => kept(c, d)
    <2>1. SUFFICES ASSUME InStep, seen'.what = "TSN", NEW f \in Fields(c)
                   PROVE  Minus(MapIn(sut, InboundSpace(c, f), Plus(Base(script.side, c, f, "in"), d)),
                                Base(kernel.assoc, c, f, "in")) = d
      OBVIOUS
    <2>2. d \in Num /\ c # "CWR" /\ c # "NR_SACK_GAPS"
      BY <1>4, <2>1, NumTypes
    <2>3. QED
      BY <1>1, <1>2, <2>1, <2>2, MapsIn
  <1> HIDE DEF kept
  <1>6. NumbersAsWritten'
    <2>1. InStep' <=> InStep
      BY <1>1 DEF InStep
    <2>2. TsnAsWritten'
      BY <1>4, <1>5, <2>1 DEF TsnAsWritten
    <2>3. TagAccepted'
      BY <1>4 DEF TagAccepted
    <2>4. QED
      BY <2>2, <2>3 DEF NumbersAsWritten
  <1>7. QED
    BY <1>1, <1>4, <1>6, ShownStep

LEMMA OutboundChunkInv == ASSUME IInv, outbound_chunk PROVE IInv'
  <1>1. Connected /\ UNCHANGED <<mode, role, sut, kernel, script, test>>
    BY DEF outbound_chunk
  <1>2. TypeOK /\ PlaceInv
    BY <1>1 DEF Connected, Running, IInv
  <1> DEFINE kept(c, d) == \A f \in Fields(c) :
               Minus(MapOut(sut, OutboundSpace(c, f), Plus(Base(kernel.assoc, c, f, "out"), d)),
                     Base(script.side, c, f, "out")) = d
  <1>3. PICK c \in Chunk, d \in Offsets :
          seen' = Seen("out", IF c = "CWR" THEN "other TSN" ELSE "TSN", kept(c, d))
    BY DEF outbound_chunk
  <1>4. /\ seen'.what = IF c = "CWR" THEN "other TSN" ELSE "TSN"
        /\ seen'.ok = kept(c, d)
    BY <1>3 DEF Seen
  <1>5. InStep /\ seen'.what = "TSN" => kept(c, d)
    <2>1. SUFFICES ASSUME InStep, seen'.what = "TSN", NEW f \in Fields(c)
                   PROVE  Minus(MapOut(sut, OutboundSpace(c, f), Plus(Base(kernel.assoc, c, f, "out"), d)),
                                Base(script.side, c, f, "out")) = d
      OBVIOUS
    <2>2. d \in Num /\ c # "CWR"
      BY <1>4, <2>1, NumTypes
    <2>3. QED
      BY <1>1, <1>2, <2>1, <2>2, MapsOut
  <1> HIDE DEF kept
  <1>6. NumbersAsWritten'
    <2>1. InStep' <=> InStep
      BY <1>1 DEF InStep
    <2>2. TsnAsWritten'
      BY <1>4, <1>5, <2>1 DEF TsnAsWritten
    <2>3. TagAccepted'
      BY <1>4 DEF TagAccepted
    <2>4. QED
      BY <2>2, <2>3 DEF NumbersAsWritten
  <1>7. QED
    BY <1>1, <1>4, <1>6, ShownStep

LEMMA InboundTaggedInv == ASSUME IInv, inbound_tagged PROVE IInv'
  <1>1. Connected /\ UNCHANGED <<mode, role, sut, kernel, script, test>>
    BY DEF inbound_tagged
  <1>2. TypeOK /\ PlaceInv
    BY <1>1 DEF Connected, Running, IInv
  <1> DEFINE meant(reflect) == IF reflect THEN script.side.rtag ELSE script.side.ltag
             expected(reflect) == IF reflect THEN kernel.assoc.rtag ELSE kernel.assoc.ltag
  <1>3. PICK reflect \in BOOLEAN, explicit \in BOOLEAN, wrong \in Num :
          /\ ~explicit => wrong = 0
          /\ seen' = Seen("in", IF reflect THEN "T" ELSE "no T",
                          (v_tag(sut, explicit, Plus(meant(reflect), wrong), reflect) = expected(reflect))
                            = (wrong = 0))
    BY DEF inbound_tagged
  <1>4. PICK m \in Num, e \in Num : m = meant(reflect) /\ e = expected(reflect)
    <2>1. script.side \in Sides /\ kernel.assoc \in Sides
      BY <1>2 DEF TypeOK
    <2>2. QED
      BY <2>1 DEF Sides
  <1> HIDE DEF meant, expected
  <1>5. /\ seen'.what = IF reflect THEN "T" ELSE "no T"
        /\ seen'.ok <=> ((v_tag(sut, explicit, Plus(m, wrong), reflect) = e) <=> (wrong = 0))
    BY <1>3, <1>4 DEF Seen
  <1>6. ASSUME InStep, e # 1, e = (IF reflect THEN sut.live.rtag ELSE sut.live.ltag),
               m = (IF reflect THEN sut.script.rtag ELSE sut.script.ltag), e = 0 <=> m = 0
        PROVE  seen'.ok
    <2>1. /\ wrong = 0 => v_tag(sut, explicit, Plus(m, wrong), reflect) = e
          /\ wrong # 0 /\ e # 1 => v_tag(sut, explicit, Plus(m, wrong), reflect) # e
      <3>1. ~explicit => wrong = 0
        BY <1>3
      <3>2. /\ e = IF reflect THEN sut.live.rtag ELSE sut.live.ltag
            /\ m = IF reflect THEN sut.script.rtag ELSE sut.script.ltag
            /\ e = 0 <=> m = 0
        BY <1>6
      <3>3. PICK s : s = sut
        OBVIOUS
      <3>4. /\ e = IF reflect THEN s.live.rtag ELSE s.live.ltag
            /\ m = IF reflect THEN s.script.rtag ELSE s.script.ltag
        BY <3>2, <3>3
      <3>5. /\ wrong = 0 => v_tag(s, explicit, Plus(m, wrong), reflect) = e
            /\ wrong # 0 /\ e # 1 => v_tag(s, explicit, Plus(m, wrong), reflect) # e
        BY <3>1, <3>2, <3>4, TagIs
      <3>6. QED
        BY <3>3, <3>5
    <2>2. QED
      BY <1>5, <1>6, <2>1
  <1>7. TsnAsWritten'
    BY <1>5 DEF TsnAsWritten
  <1>8. TagAccepted'
    <2>1. SUFFICES ASSUME InStep
                   PROVE  /\ seen'.what = "no T" /\ kernel.assoc.ltag # 1 => seen'.ok
                          /\ /\ seen'.what = "T" /\ kernel.assoc.rtag # 1 /\ ~script.restarted
                             /\ ~script.unechoed /\ (mode = "wire" \/ role = "active")
                             /\ script.side.ltag # script.side.rtag
                             => seen'.ok
      BY <1>1 DEF TagAccepted, InStep
    <2>2. /\ sut.live.ltag = kernel.assoc.ltag /\ sut.script.ltag = script.side.ltag
          /\ kernel.assoc.ltag # 0 /\ script.side.ltag # 0 /\ sut.live.rtag = sut.script.rtag
          /\ /\ ~script.restarted /\ ~script.unechoed /\ (mode = "wire" \/ role = "active")
             /\ script.side.ltag # script.side.rtag
             => kernel.assoc.rtag = sut.live.rtag /\ script.side.rtag = sut.live.rtag
      BY <1>1, <1>2, <2>1, ConnectedNumbers
    <2>3. ASSUME seen'.what = "no T", kernel.assoc.ltag # 1 PROVE seen'.ok
      <3>1. ~reflect
        BY <1>5, <2>3
      <3>2. e = kernel.assoc.ltag /\ m = script.side.ltag
        BY <1>4, <3>1 DEF meant, expected
      <3>3. QED
        BY <1>6, <2>1, <2>2, <2>3, <3>1, <3>2
    <2>4. ASSUME seen'.what = "T", kernel.assoc.rtag # 1, ~script.restarted,
                 ~script.unechoed, mode = "wire" \/ role = "active", script.side.ltag # script.side.rtag
          PROVE  seen'.ok
      <3>1. reflect
        BY <1>5, <2>4
      <3>2. e = kernel.assoc.rtag /\ m = script.side.rtag
        BY <1>4, <3>1 DEF meant, expected
      <3>3. QED
        BY <1>6, <2>1, <2>2, <2>4, <3>1, <3>2
    <2>5. QED
      BY <2>3, <2>4
  <1>9. QED
    BY <1>1, <1>5, <1>7, <1>8, ShownStep DEF NumbersAsWritten

(***************************************************************************)
(* The end of the test.                                                    *)
(***************************************************************************)
LEMMA AbortInv == ASSUME IInv, abort_association PROVE IInv'
  <1>1. Running /\ test' = "ended" /\ seen' = NotSeen /\ UNCHANGED <<mode, role, sut, script>>
    BY DEF abort_association
  <1>2. TypeOK /\ PlaceInv
    BY <1>1 DEF Running, IInv
  <1> DEFINE s == IF sut.state \in {"none", "listening"} THEN Unset ELSE sut.live
             accepted == /\ s.ltag # 0 \/ s.rtag # 0
                         /\ abort_tag(sut) = IF s.ltag = 0 THEN kernel.assoc.rtag ELSE kernel.assoc.ltag
  <1>3. kernel' = IF accepted THEN [kernel EXCEPT !.assoc = NoAssoc] ELSE kernel
    BY DEF abort_association
  <1> HIDE DEF accepted, s
  <1>4. kernel' \in Kernels /\ (accepted => kernel'.assoc = NoAssoc) /\ (~accepted => kernel' = kernel)
    <2>1. NoAssoc \in Sides /\ kernel \in Kernels
      BY <1>2, SideTypes DEF NoAssoc, TypeOK, Kernels
    <2>2. QED
      BY <1>3, <2>1 DEF Kernels
  <1>5. TypeOK'
    BY <1>1, <1>2, <1>4 DEF TypeOK, Kernels, NotSeen, Seen
  <1>6. SeenInv'
    BY <1>1 DEF SeenInv, NumbersAsWritten, TsnAsWritten, TagAccepted, NotSeen, Seen
  <1>7. AbortClears'
    <2>1. SUFFICES ASSUME ~script.restarting, sut.state \notin {"none", "connecting"}, ~accepted
                   PROVE  ~Established
      BY <1>1, <1>4 DEF AbortClears, InStep, Established
    <2>2. role \in {"passive", "active"}
      BY <1>2 DEF TypeOK
    <2>3. CASE role = "passive"
      <3>1. CASE sut.state \in {"none", "listening"} \/ Blank
        BY <1>2, <2>3, <3>1 DEF PlaceInv, PassiveInv
      <3>2. CASE ~(sut.state \in {"none", "listening"} \/ Blank)
        <4>1. LocalLearnt(sut.cookie_echo) /\ (Established => kernel.assoc = sut.cookie_echo)
          BY <1>2, <2>1, <2>3, <3>2 DEF PlaceInv, PassiveInv
        <4>2. s = sut.live
          BY <3>2 DEF s
        <4>3. Established => accepted
          BY <4>1, <4>2 DEF LocalLearnt, accepted, abort_tag
        <4>4. QED
          BY <2>1, <4>3
      <3>3. QED
        BY <3>1, <3>2
    <2>4. CASE role = "active"
      <3>1. LocalLearnt(kernel.assoc) /\ sut.state # "listening"
        BY <1>2, <2>1, <2>4 DEF PlaceInv, ActiveInv
      <3>2. s = sut.live
        BY <2>1, <3>1 DEF s
      <3>3. accepted
        BY <3>1, <3>2 DEF LocalLearnt, accepted, abort_tag
      <3>4. QED
        BY <2>1, <3>3
    <2>5. QED
      BY <2>2, <2>3, <2>4
  <1>8. QED
    BY <1>1, <1>5, <1>6, <1>7 DEF IInv

(***************************************************************************)
(* Chunks that are filled in.                                              *)
(***************************************************************************)
\* A packet changes nothing of the socket but its state.
OnlyMoves(t, s, moves) ==
  /\ t \in Sockets /\ t.script = s.script /\ t.live = s.live /\ t.cookie_echo = s.cookie_echo
  /\ t.heartbeat_ack = s.heartbeat_ack
  /\ t.state = s.state \/ (moves /\ t.state = "cookie_echo_received")

\* What is known after a chunk was filled in.
CopyFilled(e, s, type, moves) ==
  /\ OnlyMoves(e.s, s, moves) /\ e.shifted = TRUE /\ e.fits \in BOOLEAN
  /\ e.fits => /\ e.cookie = IF type = "COOKIE_ECHO" THEN s.cookie_echo ELSE NoCookie
               /\ e.ack = IF type = "HEARTBEAT_ACK" THEN s.heartbeat_ack ELSE Nothing
               /\ type = "COOKIE_ECHO" => s.cookie_echo # NoCookie
               /\ type = "HEARTBEAT_ACK" => s.heartbeat_ack # Nothing

LEMMA MovesSocket ==
  ASSUME NEW s \in Sockets, NEW t, t = [s EXCEPT !.state = "cookie_echo_received"]
  PROVE  /\ t \in Sockets /\ t.script = s.script /\ t.live = s.live /\ t.cookie_echo = s.cookie_echo
         /\ t.heartbeat_ack = s.heartbeat_ack /\ t.state = "cookie_echo_received"
  BY DEF Sockets, SocketState

\* Before the first chunk, FillAll begins here.
Start(s) == [s |-> s, shifted |-> FALSE, fits |-> TRUE, cookie |-> NoCookie, ack |-> Nothing]

IsWild(item, type) == item.type = type /\ item.wild = TRUE

\* The first chunk is read as it is.
LEMMA FirstFilled ==
  ASSUME NEW s \in Sockets, NEW type \in {"COOKIE_ECHO", "HEARTBEAT_ACK"}, NEW garbage,
         NEW moves \in BOOLEAN, NEW item, IsWild(item, type)
  PROVE  CopyFilled(Fill(Start(s), item, garbage, moves), s, type, moves)
  <1>1. PICK e : e = Fill(Start(s), item, garbage, moves)
    OBVIOUS
  <1> DEFINE a == IF type = "COOKIE_ECHO" /\ moves THEN [s EXCEPT !.state = "cookie_echo_received"] ELSE s
             b == IF type = "COOKIE_ECHO" THEN s.cookie_echo # NoCookie ELSE s.heartbeat_ack # Nothing
             c == IF type = "COOKIE_ECHO" THEN s.cookie_echo ELSE NoCookie
             d == IF type = "HEARTBEAT_ACK" THEN s.heartbeat_ack ELSE Nothing
  <1>2. e = [s |-> a, shifted |-> TRUE, fits |-> b, cookie |-> c, ack |-> d]
    BY <1>1 DEF Fill, Start, IsWild
  <1>3. b \in BOOLEAN
    OBVIOUS
  <1> HIDE DEF a, b, c, d
  <1>4. e.s = a /\ e.shifted = TRUE /\ e.fits = b /\ e.cookie = c /\ e.ack = d
    <2>1. PICK x \in BOOLEAN, y \in BOOLEAN : x = TRUE /\ y = b
      BY <1>3
    <2>2. PICK u, v, w : u = a /\ v = c /\ w = d
      OBVIOUS
    <2>3. e = [s |-> u, shifted |-> x, fits |-> y, cookie |-> v, ack |-> w]
      BY <1>2, <2>1, <2>2
    <2>4. e.s = u /\ e.shifted = x /\ e.fits = y /\ e.cookie = v /\ e.ack = w
      BY ONLY <2>3
    <2>5. QED
      BY <2>1, <2>2, <2>4
  <1>5. PICK t : t = e.s
    OBVIOUS
  <1>6. OnlyMoves(t, s, moves)
    <2>1. CASE type = "COOKIE_ECHO" /\ moves
      <3>1. t = [s EXCEPT !.state = "cookie_echo_received"]
        BY <1>4, <1>5, <2>1 DEF a
      <3>2. QED
        BY <2>1, <3>1, MovesSocket DEF OnlyMoves
    <2>2. CASE ~(type = "COOKIE_ECHO" /\ moves)
      <3>1. t = s
        BY <1>4, <1>5, <2>2 DEF a
      <3>2. QED
        BY <3>1 DEF OnlyMoves
    <2>3. QED
      BY <2>1, <2>2
  <1>7. OnlyMoves(e.s, s, moves)
    BY <1>5, <1>6
  <1>8. CopyFilled(e, s, type, moves)
    BY <1>3, <1>4, <1>7 DEF CopyFilled, b, c, d
  <1>9. QED
    BY <1>1, <1>8

\* After it the type of the next is garbage, and nothing that fits is filled in.
LEMMA SecondFilled ==
  ASSUME NEW s \in Sockets, NEW type \in {"COOKIE_ECHO", "HEARTBEAT_ACK"}, NEW garbage,
         NEW moves \in BOOLEAN, NEW r, CopyFilled(r, s, type, moves),
         NEW item, item.wild \in BOOLEAN, NEW e, e = Fill(r, item, garbage, moves)
  PROVE  CopyFilled(e, s, type, moves)
  <1> DEFINE prepared == IF garbage = "COOKIE_ECHO" THEN r.s.cookie_echo # NoCookie
                         ELSE r.s.heartbeat_ack # Nothing
             fill == item.wild /\ garbage \in {"COOKIE_ECHO", "HEARTBEAT_ACK"}
  <1>1. r.shifted = TRUE /\ OnlyMoves(r.s, s, moves) /\ r.fits \in BOOLEAN
    BY DEF CopyFilled
  <1>2. /\ e.s = IF garbage = "COOKIE_ECHO" /\ moves THEN [r.s EXCEPT !.state = "cookie_echo_received"]
                 ELSE r.s
        /\ e.shifted = (r.shifted \/ fill)
        /\ e.fits = (r.fits /\ (fill => prepared /\ ~r.shifted))
        /\ e.cookie = IF fill /\ garbage = "COOKIE_ECHO" THEN r.s.cookie_echo ELSE r.cookie
        /\ e.ack = IF fill /\ garbage = "HEARTBEAT_ACK" THEN r.s.heartbeat_ack ELSE r.ack
    BY <1>1 DEF Fill
  <1>3. PICK q \in Sockets : q = r.s /\ OnlyMoves(q, s, moves)
    BY <1>1 DEF OnlyMoves
  <1>4. PICK t : t = e.s
    OBVIOUS
  <1>5. OnlyMoves(t, s, moves)
    <2>1. CASE garbage = "COOKIE_ECHO" /\ moves
      <3>1. t = [q EXCEPT !.state = "cookie_echo_received"]
        BY <1>2, <1>3, <1>4, <2>1
      <3>2. QED
        BY <1>3, <2>1, <3>1, MovesSocket DEF OnlyMoves
    <2>2. CASE ~(garbage = "COOKIE_ECHO" /\ moves)
      <3>1. t = q
        BY <1>2, <1>3, <1>4, <2>2
      <3>2. QED
        BY <1>3, <3>1
    <2>3. QED
      BY <2>1, <2>2
  <1>6. OnlyMoves(e.s, s, moves) /\ e.shifted = TRUE /\ e.fits \in BOOLEAN
    BY <1>1, <1>2, <1>4, <1>5
  <1>7. e.fits => r.fits /\ ~fill
    BY <1>1, <1>2
  <1>8. e.fits => r.fits /\ e.cookie = r.cookie /\ e.ack = r.ack
    BY <1>2, <1>7
  <1>9. QED
    BY <1>6, <1>8 DEF CopyFilled

\* A whole packet: its first chunk decides.
LEMMA PacketFilled ==
  ASSUME NEW s \in Sockets, NEW p \in Packets, NEW garbage, NEW moves \in BOOLEAN, NEW e,
         e = FillAll(s, p, garbage, moves)
  PROVE  /\ p[1].type \in {"COOKIE_ECHO", "HEARTBEAT_ACK"} /\ Head(p) = p[1]
         /\ CopyFilled(e, s, p[1].type, moves)
  <1>1. Item("DATA", FALSE).wild \in BOOLEAN /\ Item("HEARTBEAT_ACK", TRUE).wild \in BOOLEAN
    BY DEF Item
  <1>2. PICK type \in {"COOKIE_ECHO", "HEARTBEAT_ACK"} :
          /\ p[1] = Item(type, TRUE) /\ Head(p) = p[1]
          /\ Len(p) = 1 \/ p[2].wild \in BOOLEAN
    <2>1. CASE p = <<Item("COOKIE_ECHO", TRUE)>>
      BY <2>1
    <2>2. CASE p = <<Item("HEARTBEAT_ACK", TRUE)>>
      BY <2>2
    <2>3. CASE p = <<Item("COOKIE_ECHO", TRUE), Item("DATA", FALSE)>>
      <3>1. PICK x, y : x = Item("COOKIE_ECHO", TRUE) /\ y = Item("DATA", FALSE) /\ y.wild \in BOOLEAN
        BY <1>1
      <3>2. p = <<x, y>>
        BY <2>3, <3>1
      <3>3. p[1] = x /\ Head(p) = x /\ p[2] = y
        BY ONLY <3>2
      <3>4. QED
        BY <3>1, <3>3
    <2>4. CASE p = <<Item("HEARTBEAT_ACK", TRUE), Item("DATA", FALSE)>>
      <3>1. PICK x, y : x = Item("HEARTBEAT_ACK", TRUE) /\ y = Item("DATA", FALSE) /\ y.wild \in BOOLEAN
        BY <1>1
      <3>2. p = <<x, y>>
        BY <2>4, <3>1
      <3>3. p[1] = x /\ Head(p) = x /\ p[2] = y
        BY ONLY <3>2
      <3>4. QED
        BY <3>1, <3>3
    <2>5. CASE p = <<Item("COOKIE_ECHO", TRUE), Item("HEARTBEAT_ACK", TRUE)>>
      <3>1. PICK x, y : x = Item("COOKIE_ECHO", TRUE) /\ y = Item("HEARTBEAT_ACK", TRUE) /\ y.wild \in BOOLEAN
        BY <1>1
      <3>2. p = <<x, y>>
        BY <2>5, <3>1
      <3>3. p[1] = x /\ Head(p) = x /\ p[2] = y
        BY ONLY <3>2
      <3>4. QED
        BY <3>1, <3>3
    <2>6. QED
      BY <2>1, <2>2, <2>3, <2>4, <2>5 DEF Packets
  <1>3. p[1].type = type
    BY <1>2 DEF Item
  <1>4. PICK first : first = p[1] /\ IsWild(first, type)
    BY <1>2 DEF Item, IsWild
  <1>5. PICK r : r = Fill(Start(s), first, garbage, moves)
    OBVIOUS
  <1>6. CopyFilled(r, s, type, moves)
    BY <1>4, <1>5, FirstFilled
  <1>7. CASE Len(p) = 1
    <2>1. e = r
      BY <1>4, <1>5, <1>7 DEF FillAll, Start
    <2>2. QED
      BY <1>2, <1>3, <1>6, <2>1
  <1>8. CASE Len(p) # 1
    <2>1. PICK item : item = p[2] /\ item.wild \in BOOLEAN
      BY <1>2, <1>8
    <2>2. e = Fill(r, item, garbage, moves)
      BY <1>4, <1>5, <1>8, <2>1 DEF FillAll, Start
    <2>3. CopyFilled(e, s, type, moves)
      BY <1>6, <2>1, <2>2, SecondFilled
    <2>4. QED
      BY <1>2, <1>3, <2>3
  <1>9. QED
    BY <1>7, <1>8

\* moves_to_cookie_echo_received: only for a packet that the kernel accepts.
TagDecides(s, t, bad_crc, given, tag) ==
  /\ moves_to_cookie_echo_received(s, bad_crc, given # "no", tag) => ~bad_crc /\ given # "wrong"
  /\ given # "wrong" => v_tag(t, given # "no", tag, FALSE) = s.live.ltag

LEMMA MovesIfTagRight ==
  ASSUME NEW s \in Sockets, NEW t \in Sockets, t.live = s.live, t.script = s.script,
         s.live.ltag # 0, s.script.ltag # 0,
         NEW bad_crc \in BOOLEAN, NEW given \in {"no", "right", "wrong"}, NEW tag,
         tag = IF given = "wrong" THEN Plus(s.script.ltag, 1) ELSE s.script.ltag
  PROVE  TagDecides(s, t, bad_crc, given, tag)
  <1>1. PICK kern \in Num, said \in Num : kern = s.live.ltag /\ said = s.script.ltag
    BY DEF Sockets, Sides
  <1>2. W \in Nat /\ W > 2 /\ Num = 0 .. W - 1 /\ 0 \in Num /\ 1 \in Num
    BY WAssumption DEF Num
  <1>3. Plus(said, 1) # said /\ Plus(said, 0) = said
    <2>1. Plus(said, 1) = IF said + 1 < W THEN said + 1 ELSE said + 1 - W
      BY <1>2, PlusIs
    <2>2. Plus(said, 0) = IF said + 0 < W THEN said + 0 ELSE said + 0 - W
      BY <1>2, PlusIs
    <2>3. said \in 0 .. W - 1
      BY <1>2
    <2>4. QED
      BY <1>2, <2>1, <2>2, <2>3
  <1>4. given = "wrong" => tag # said
    BY <1>1, <1>3
  <1>5. moves_to_cookie_echo_received(s, bad_crc, given # "no", tag) => ~bad_crc /\ given # "wrong"
    BY <1>1, <1>4 DEF moves_to_cookie_echo_received
  <1>6. ASSUME given # "wrong" PROVE v_tag(t, given # "no", tag, FALSE) = kern
    <2>1. PICK explicit \in BOOLEAN : explicit = (given # "no")
      OBVIOUS
    <2>2. tag = Plus(said, 0)
      BY <1>1, <1>3, <1>6
    <2>3. kern = t.live.ltag /\ said = t.script.ltag
      BY <1>1
    <2>4. v_tag(t, explicit, Plus(said, 0), FALSE) = kern
      <3>1. PICK reflect \in BOOLEAN, n \in Num : reflect = FALSE /\ n = 0
        BY <1>2
      <3>2. /\ kern = IF reflect THEN t.live.rtag ELSE t.live.ltag
            /\ said = IF reflect THEN t.script.rtag ELSE t.script.ltag
            /\ (kern = 0 <=> said = 0) /\ (~explicit => n = 0)
        BY <1>1, <2>3, <3>1
      <3>3. n = 0 => v_tag(t, explicit, Plus(said, n), reflect) = kern
        BY <3>2, TagIs
      <3>4. QED
        BY <3>1, <3>3
    <2>5. QED
      BY <2>1, <2>2, <2>4
  <1>7. QED
    BY <1>1, <1>5, <1>6 DEF TagDecides

\* Whoever may inject such a packet has sniffed an INIT_ACK or an INIT.
LEMMA FilledWhere ==
  ASSUME TypeOK, PlaceInv, sut.state \notin {"none", "listening", "connecting"}
  PROVE  /\ sut \in Sockets /\ sut # NoSocket /\ sut.state \in Learnt \cup {"packet_received"}
         /\ role = "passive" => sut.state \in {"packet_received", "init_ack_sent", "cookie_echo_received"}
         /\ role = "active" => /\ sut.state \in {"init_sent", "init_ack_received", "cookie_echo_received"}
                               /\ sut.cookie_echo = NoCookie
         /\ sut.heartbeat_ack = script.heartbeat
  <1>1. sut \in Sockets /\ sut # NoSocket /\ role \in {"passive", "active"}
    BY StateTypes DEF TypeOK
  <1>3. role = "passive" => sut.state \in {"packet_received", "init_ack_sent", "cookie_echo_received"}
    BY DEF PlaceInv, PassiveInv, Blank
  <1>4. role = "active" => /\ sut.state \in {"init_sent", "init_ack_received", "cookie_echo_received"}
                           /\ sut.cookie_echo = NoCookie
    BY DEF PlaceInv, ActiveInv
  <1>5. sut.state \in Learnt \cup {"packet_received"}
    BY <1>1, <1>3, <1>4 DEF Learnt
  <1>6. sut.heartbeat_ack = script.heartbeat
    BY <1>5 DEF PlaceInv, HeartbeatInv
  <1>7. QED
    BY <1>1, <1>3, <1>4, <1>5, <1>6

\* A socket that has learnt has a cookie.
LEMMA LearntCookie == ASSUME LocalLearnt(sut.cookie_echo) PROVE sut.cookie_echo # NoCookie
  BY SideTypes DEF LocalLearnt, NoCookie

LEMMA InboundFilledInv == ASSUME IInv, inbound_filled PROVE IInv'
  <1>1. /\ Running /\ sut.state \notin {"none", "listening", "connecting"}
        /\ UNCHANGED <<mode, role>>
    BY DEF inbound_filled
  <1>2. TypeOK /\ PlaceInv /\ test = "running"
    BY <1>1 DEF IInv, Running
  <1>3. /\ sut \in Sockets /\ sut # NoSocket /\ sut.state \in Learnt \cup {"packet_received"}
        /\ role = "passive" => sut.state \in {"packet_received", "init_ack_sent", "cookie_echo_received"}
        /\ role = "active" => /\ sut.state \in {"init_sent", "init_ack_received", "cookie_echo_received"}
                              /\ sut.cookie_echo = NoCookie
        /\ sut.heartbeat_ack = script.heartbeat /\ role \in {"passive", "active"}
    BY <1>1, <1>2, FilledWhere DEF TypeOK
  <1> DEFINE tagOf(given) == IF given = "wrong" THEN Plus(sut.script.ltag, 1) ELSE sut.script.ltag
             movesIf(bad_crc, given) ==
               moves_to_cookie_echo_received(sut, bad_crc, given # "no", tagOf(given))
             takesIf(end, bad_crc, given) ==
               /\ ~bad_crc /\ end.fits /\ end.cookie # NoCookie
               /\ v_tag(end.s, given # "no", tagOf(given), FALSE) = end.cookie.ltag
  <1>4. PICK p \in Packets, garbage \in {"DATA", "COOKIE_ECHO", "HEARTBEAT_ACK"},
             bad_crc \in BOOLEAN, given \in {"no", "right", "wrong"} :
           LET explicit == given # "no"
               tag == IF given = "wrong" THEN Plus(sut.script.ltag, 1) ELSE sut.script.ltag
               moves == moves_to_cookie_echo_received(sut, bad_crc, explicit, tag)
               end == FillAll(sut, p, garbage, moves)
               takes == /\ ~bad_crc /\ end.fits /\ end.cookie # NoCookie
                        /\ v_tag(end.s, explicit, tag, FALSE) = end.cookie.ltag IN
           /\ IF Len(p) = 1 THEN garbage = "DATA" ELSE ~bad_crc /\ given = "no"
           /\ sut' = IF end.fits THEN end.s ELSE sut
           /\ test' = IF end.fits THEN test ELSE "assert"
           /\ kernel' = IF takes THEN [kernel EXCEPT !.assoc = end.cookie] ELSE kernel
           /\ script' = [script EXCEPT !.restarting = @ /\ ~takes,
                           !.unechoed = @ \/ (end.s.state # sut.state /\ Head(p).type # "COOKIE_ECHO")]
           /\ seen' = IF ~end.fits \/ Len(p) > 1 THEN NotSeen
                      ELSE IF p[1].type = "HEARTBEAT_ACK"
                      THEN Seen("in", "HEARTBEAT_ACK", end.ack = script.heartbeat)
                      ELSE Seen("in", "COOKIE_ECHO", ~bad_crc /\ given # "wrong" => takes)
    BY DEF inbound_filled
  <1>5. PICK tag : tag = tagOf(given)
    OBVIOUS
  <1>6. PICK moves \in BOOLEAN : moves = movesIf(bad_crc, given)
    BY DEF moves_to_cookie_echo_received
  <1>7. PICK end : end = FillAll(sut, p, garbage, moves)
    OBVIOUS
  <1>8. PICK takes \in BOOLEAN : takes = takesIf(end, bad_crc, given)
    OBVIOUS
  <1>9. PICK type : type = p[1].type
    OBVIOUS
  <1>10. /\ type \in {"COOKIE_ECHO", "HEARTBEAT_ACK"} /\ Head(p).type = type
         /\ CopyFilled(end, sut, type, moves)
    <2>1. PICK s \in Sockets : s = sut
      BY <1>3
    <2>2. /\ p[1].type \in {"COOKIE_ECHO", "HEARTBEAT_ACK"} /\ Head(p) = p[1]
          /\ CopyFilled(end, s, p[1].type, moves)
      BY <1>7, <2>1, PacketFilled
    <2>3. QED
      BY <1>9, <2>1, <2>2
  <1>11. /\ sut' = IF end.fits THEN end.s ELSE sut
         /\ test' = IF end.fits THEN test ELSE "assert"
         /\ kernel' = IF takes THEN [kernel EXCEPT !.assoc = end.cookie] ELSE kernel
         /\ script' = [script EXCEPT !.restarting = @ /\ ~takes,
                         !.unechoed = @ \/ (end.s.state # sut.state /\ type # "COOKIE_ECHO")]
         /\ seen' = IF ~end.fits \/ Len(p) > 1 THEN NotSeen
                    ELSE IF type = "HEARTBEAT_ACK"
                    THEN Seen("in", "HEARTBEAT_ACK", end.ack = script.heartbeat)
                    ELSE Seen("in", "COOKIE_ECHO", ~bad_crc /\ given # "wrong" => takes)
    BY <1>4, <1>6, <1>7, <1>8, <1>9, <1>10
  <1> HIDE DEF tagOf, movesIf, takesIf
  <1>12. PICK s \in Sockets : s = end.s /\ OnlyMoves(s, sut, moves)
    BY <1>10 DEF CopyFilled, OnlyMoves
  <1>13. /\ end.fits \in BOOLEAN
         /\ end.fits => /\ type = "COOKIE_ECHO" => end.cookie = sut.cookie_echo /\ end.cookie # NoCookie
                        /\ type = "HEARTBEAT_ACK" => /\ end.cookie = NoCookie /\ end.ack = sut.heartbeat_ack
                                                     /\ sut.heartbeat_ack # Nothing
    BY <1>10 DEF CopyFilled
  <1>14. takes => end.fits /\ type = "COOKIE_ECHO"
    BY <1>8, <1>10, <1>13 DEF takesIf
  <1>15. takes => sut.cookie_echo \in Sides /\ end.cookie = sut.cookie_echo
    BY <1>3, <1>13, <1>14 DEF Sockets
  <1>16. /\ kernel' \in Kernels /\ kernel'.packet = kernel.packet /\ kernel'.heartbeat = kernel.heartbeat
         /\ takes => kernel'.assoc = sut.cookie_echo
         /\ ~takes => kernel'.assoc = kernel.assoc
    <2>1. kernel \in Kernels
      BY <1>2 DEF TypeOK, Kernels
    <2>2. CASE takes
      <3>1. kernel' = [kernel EXCEPT !.assoc = sut.cookie_echo]
        BY <1>11, <1>15, <2>2
      <3>2. QED
        BY <1>15, <2>1, <2>2, <3>1 DEF Kernels
    <2>3. CASE ~takes
      <3>1. kernel' = kernel
        BY <1>11, <2>3
      <3>2. QED
        BY <2>1, <2>3, <3>1 DEF Kernels
    <2>4. QED
      BY <2>2, <2>3
  <1>17. /\ script' \in Scripts /\ script'.side = script.side /\ script'.restarted = script.restarted
         /\ script'.heartbeat = script.heartbeat
         /\ script'.restarting <=> script.restarting /\ ~takes
         /\ script'.unechoed <=> script.unechoed \/ (s.state # sut.state /\ type # "COOKIE_ECHO")
    <2>1. script \in Scripts /\ script.restarting \in BOOLEAN /\ script.unechoed \in BOOLEAN
      BY <1>2 DEF TypeOK, Scripts
    <2>2. PICK x \in BOOLEAN, y \in BOOLEAN :
            /\ x <=> script.restarting /\ ~takes
            /\ y <=> script.unechoed \/ (s.state # sut.state /\ type # "COOKIE_ECHO")
      OBVIOUS
    <2>3. script' = [script EXCEPT !.restarting = x, !.unechoed = y]
      BY <1>11, <1>12, <2>1, <2>2
    <2>4. /\ script' \in Scripts /\ script'.side = script.side /\ script'.restarted = script.restarted
          /\ script'.heartbeat = script.heartbeat /\ script'.restarting = x /\ script'.unechoed = y
      BY <2>1, <2>3 DEF Scripts
    <2>5. QED
      BY <2>2, <2>4
  <1>18. seen'.what \in {"none", "COOKIE_ECHO", "HEARTBEAT_ACK"}
    BY <1>11 DEF NotSeen, Seen
  <1>19. sut' \in Sockets /\ test' \in {"running", "assert"}
    BY <1>2, <1>3, <1>11, <1>12
  <1>20. TypeOK'
    BY <1>1, <1>2, <1>16, <1>17, <1>18, <1>19 DEF TypeOK, Kernels, Scripts
  <1>21. ASSUME end.fits, type = "COOKIE_ECHO"
         PROVE  /\ role = "passive" /\ LocalLearnt(sut.cookie_echo)
                /\ moves => ~bad_crc /\ given # "wrong"
                /\ ~bad_crc /\ given # "wrong" => takes
    <2>1. role = "passive"
      BY <1>3, <1>13, <1>21
    <2>2. LocalLearnt(sut.cookie_echo)
      BY <1>1, <1>2, <1>3, <1>13, <1>21, <2>1 DEF PlaceInv, PassiveInv
    <2>3. /\ sut.live.ltag # 0 /\ sut.script.ltag # 0 /\ sut.live.ltag = sut.cookie_echo.ltag
          /\ s.live = sut.live /\ s.script = sut.script
      BY <1>12, <2>2 DEF LocalLearnt, OnlyMoves
    <2>4. PICK q \in Sockets : q = sut
      BY <1>3
    <2>5. tag = IF given = "wrong" THEN Plus(q.script.ltag, 1) ELSE q.script.ltag
      BY <1>5, <2>4 DEF tagOf
    <2>6. /\ moves_to_cookie_echo_received(q, bad_crc, given # "no", tag) => ~bad_crc /\ given # "wrong"
          /\ given # "wrong" => v_tag(s, given # "no", tag, FALSE) = q.live.ltag
      <3>1. TagDecides(q, s, bad_crc, given, tag)
        BY <2>3, <2>4, <2>5, MovesIfTagRight
      <3>2. QED
        BY <3>1 DEF TagDecides
    <2>7. moves => ~bad_crc /\ given # "wrong"
      BY <1>5, <1>6, <2>4, <2>6 DEF movesIf
    <2>8. ~bad_crc /\ given # "wrong" => takes
      BY <1>5, <1>8, <1>12, <1>13, <1>21, <2>3, <2>4, <2>6 DEF takesIf
    <2>9. QED
      BY <2>1, <2>2, <2>7, <2>8
  <1>22. SeenInv'
    <2>1. NumbersAsWritten'
      BY <1>18 DEF NumbersAsWritten, TsnAsWritten, TagAccepted
    <2>2. CASE ~end.fits \/ Len(p) > 1
      BY <1>11, <2>1, <2>2 DEF SeenInv, NotSeen, Seen
    <2>3. CASE ~(~end.fits \/ Len(p) > 1) /\ type = "HEARTBEAT_ACK"
      <3>1. end.ack = script.heartbeat
        BY <1>3, <1>13, <2>3
      <3>2. seen'.ok <=> end.ack = script.heartbeat
        BY <1>11, <2>3 DEF Seen
      <3>3. QED
        BY <2>1, <3>1, <3>2 DEF SeenInv
    <2>4. CASE ~(~end.fits \/ Len(p) > 1) /\ type # "HEARTBEAT_ACK"
      <3>1. ~bad_crc /\ given # "wrong" => takes
        BY <1>10, <1>21, <2>4
      <3>2. seen'.ok <=> (~bad_crc /\ given # "wrong" => takes)
        BY <1>11, <2>4 DEF Seen
      <3>3. QED
        BY <2>1, <3>1, <3>2 DEF SeenInv
    <2>5. QED
      BY <2>2, <2>3, <2>4
  <1>23. AbortClears'
    BY <1>19 DEF AbortClears
  <1>24. ASSUME end.fits PROVE PlaceInv'
    <2>1. /\ sut' = s /\ s.script = sut.script /\ s.live = sut.live /\ s.cookie_echo = sut.cookie_echo
          /\ s.heartbeat_ack = sut.heartbeat_ack
          /\ s.state = sut.state \/ (moves /\ s.state = "cookie_echo_received")
      BY <1>11, <1>12, <1>24 DEF OnlyMoves
    <2>2. s.state \in Learnt /\ s # NoSocket /\ (role = "passive" => ~Blank)
      <3>1. role = "passive" => ~Blank
        BY <1>2, <1>3, <1>10, <1>13, <1>24 DEF PlaceInv, PassiveInv, HeartbeatInv
      <3>2. QED
        BY <1>3, <2>1, <3>1 DEF Learnt, NoSocket, Sockets, SocketState, Blank
    <2>3. Established => Established'
      <3>1. takes => LocalLearnt(sut.cookie_echo)
        BY <1>14, <1>21
      <3>2. takes => kernel'.assoc.ltag # 0
        BY <1>16, <3>1 DEF LocalLearnt
      <3>3. QED
        BY <1>16, <3>2, SideTypes DEF Established, NoAssoc
    <2>4. takes => Established'
      <3>1. takes => LocalLearnt(sut.cookie_echo)
        BY <1>14, <1>21
      <3>2. takes => kernel'.assoc.ltag # 0
        BY <1>16, <3>1 DEF LocalLearnt
      <3>3. QED
        BY <3>2, SideTypes DEF Established, NoAssoc
    <2>5. RemoteInv'
      BY <1>2, <1>3, <2>1 DEF PlaceInv, RemoteInv
    <2>6. HeartbeatInv'
      BY <1>2, <1>3, <1>16, <1>17, <2>1, <2>2, <2>3 DEF PlaceInv, HeartbeatInv
    <2>7. InitAckInv'
      BY <1>1, <1>2, <1>3, <1>16, <2>1, <2>2 DEF PlaceInv, InitAckInv, Blank
    <2>8. type = "HEARTBEAT_ACK" => Established
      BY <1>2, <1>3, <1>13, <1>24 DEF PlaceInv, HeartbeatInv
    <2>9. PassiveInv'
      <3>1. SUFFICES ASSUME role = "passive" PROVE PassiveInv'
        BY <1>1 DEF PassiveInv
      <3>2. /\ s.state \in {"init_ack_sent", "cookie_echo_received"} /\ kernel'.packet = kernel.packet
        BY <1>3, <1>16, <2>1, <2>2, <3>1 DEF Blank
      <3>3. /\ LocalLearnt(sut.cookie_echo) /\ sut.cookie_echo.rtsn = script.side.rtsn
            /\ mode = "wire" /\ ~script.restarted /\ ~script.unechoed =>
                 sut.cookie_echo.rtag = sut.live.rtag /\ script.side.rtag = sut.live.rtag
            /\ Established /\ ~script.restarting => kernel.assoc = sut.cookie_echo
            /\ sut.state = "cookie_echo_received" /\ ~script.unechoed =>
                 Established /\ ~script.restarting
            /\ kernel.packet.type # "INIT" /\ sut.cookie_echo # NoCookie
        BY <1>1, <1>2, <1>3, <2>2, <3>1, LearntCookie DEF PlaceInv, PassiveInv
      <3>4. LocalLearnt(sut.cookie_echo)'
        BY <1>17, <2>1, <3>3 DEF LocalLearnt
      <3>5. Established' /\ ~script'.restarting => kernel'.assoc = s.cookie_echo
        <4>1. CASE takes
          BY <1>16, <2>1, <4>1
        <4>2. CASE ~takes
          BY <1>16, <1>17, <2>1, <3>3, <4>2 DEF Established
        <4>3. QED
          BY <4>1, <4>2
      <3>6. s.state = "cookie_echo_received" /\ ~script'.unechoed =>
              Established' /\ ~script'.restarting
        <4>1. CASE s.state = sut.state
          BY <1>17, <2>3, <3>3, <4>1
        <4>2. CASE s.state # sut.state /\ type = "COOKIE_ECHO"
          <5>1. takes
            BY <1>21, <1>24, <2>1, <4>2
          <5>2. QED
            BY <1>17, <2>4, <5>1
        <4>3. CASE s.state # sut.state /\ type = "HEARTBEAT_ACK"
          BY <1>17, <4>3
        <4>4. QED
          BY <1>10, <4>1, <4>2, <4>3
      <3>7. QED
        BY <1>1, <1>17, <2>1, <3>2, <3>3, <3>4, <3>5, <3>6 DEF PassiveInv, Blank
    <2>10. ActiveInv'
      <3>1. SUFFICES ASSUME role = "active" PROVE ActiveInv'
        BY <1>1 DEF ActiveInv
      <3>2. ~takes
        BY <1>14, <1>21, <3>1
      <3>3. s.state \in {"init_sent", "init_ack_received", "cookie_echo_received"} /\ kernel'.packet = kernel.packet
        BY <1>3, <1>16, <2>1, <3>1
      <3>4. /\ ~script.restarting /\ sut.cookie_echo = NoCookie
            /\ LocalLearnt(kernel.assoc) /\ kernel.packet.type \in {"none", "HEARTBEAT"}
            /\ kernel.assoc.rtsn = script.side.rtsn
            /\ ~script.unechoed =>
                 /\ sut.script = script.side /\ sut.state # "cookie_echo_received"
                 /\ script.side.ltag # script.side.rtag => kernel.assoc.rtag = sut.live.rtag
            /\ type = "HEARTBEAT_ACK"
        BY <1>1, <1>2, <1>3, <1>10, <1>21, <1>24, <3>1 DEF PlaceInv, ActiveInv
      <3>5. LocalLearnt(kernel.assoc)'
        BY <1>16, <1>17, <2>1, <3>2, <3>4 DEF LocalLearnt
      <3>6. QED
        BY <1>1, <1>16, <1>17, <2>1, <3>2, <3>3, <3>4, <3>5 DEF ActiveInv
    <2>11. QED
      BY <2>5, <2>6, <2>7, <2>9, <2>10 DEF PlaceInv
  <1>25. ~end.fits => test' = "assert"
    BY <1>11
  <1>26. QED
    BY <1>13, <1>20, <1>22, <1>23, <1>24, <1>25 DEF IInv

LEMMA InboundCookieEchoInv == ASSUME IInv, inbound_cookie_echo PROVE IInv'
  <1>1. /\ Running /\ sut.state \notin {"none", "listening", "connecting"}
        /\ seen' = NotSeen /\ UNCHANGED <<mode, role, kernel, test>>
    BY DEF inbound_cookie_echo
  <1>2. TypeOK /\ PlaceInv /\ test = "running"
    BY <1>1 DEF IInv, Running
  <1>3. /\ sut \in Sockets /\ sut # NoSocket /\ sut.state \in Learnt \cup {"packet_received"}
        /\ role = "passive" => sut.state \in {"packet_received", "init_ack_sent", "cookie_echo_received"}
        /\ role = "active" => /\ sut.state \in {"init_sent", "init_ack_received", "cookie_echo_received"}
                              /\ sut.cookie_echo = NoCookie
        /\ sut.heartbeat_ack = script.heartbeat /\ role \in {"passive", "active"}
    BY <1>1, <1>2, FilledWhere DEF TypeOK
  <1>4. PICK moves \in BOOLEAN :
          /\ sut' = FillAll(sut, <<Item("COOKIE_ECHO", FALSE)>>, "DATA", moves).s
          /\ script' = [script EXCEPT !.unechoed = script.unechoed \/ moves]
    BY DEF inbound_cookie_echo, moves_to_cookie_echo_received
  <1>5. sut' = IF moves THEN [sut EXCEPT !.state = "cookie_echo_received"] ELSE sut
    <2>1. PICK p : p = <<Item("COOKIE_ECHO", FALSE)>>
      OBVIOUS
    <2>2. PICK item : item = Item("COOKIE_ECHO", FALSE)
      OBVIOUS
    <2>3. item.type = "COOKIE_ECHO"
      BY <2>2 DEF Item
    <2>4. Len(p) = 1 /\ p[1] = item
      BY <2>1, <2>2
    <2>5. sut' = Fill(Start(sut), item, "DATA", moves).s
      BY <1>4, <2>1, <2>4 DEF FillAll, Start
    <2>6. QED
      BY <2>5, <2>3 DEF Fill, Start
  <1>6. /\ sut' \in Sockets /\ sut' # NoSocket /\ sut'.script = sut.script /\ sut'.live = sut.live
        /\ sut'.cookie_echo = sut.cookie_echo /\ sut'.heartbeat_ack = sut.heartbeat_ack
        /\ sut'.state = IF moves THEN "cookie_echo_received" ELSE sut.state
    <2>1. PICK s \in Sockets : s = sut
      BY <1>3
    <2>2. CASE moves
      <3>1. PICK u : u = sut'
        OBVIOUS
      <3>2. u = [s EXCEPT !.state = "cookie_echo_received"]
        BY <1>5, <2>1, <2>2, <3>1
      <3>3. QED
        BY <2>1, <2>2, <3>1, <3>2, MovesSocket DEF OnlyMoves, NoSocket, Sockets, SocketState
    <2>3. CASE ~moves
      BY <1>3, <1>5, <2>3
    <2>4. QED
      BY <2>2, <2>3
  <1>7. /\ script' \in Scripts /\ script'.side = script.side /\ script'.restarted = script.restarted
        /\ script'.heartbeat = script.heartbeat /\ script'.restarting = script.restarting
        /\ script'.unechoed <=> script.unechoed \/ moves
    <2>1. script \in Scripts /\ script.unechoed \in BOOLEAN
      BY <1>2 DEF TypeOK, Scripts
    <2>2. PICK y \in BOOLEAN : y <=> script.unechoed \/ moves
      OBVIOUS
    <2>3. script' = [script EXCEPT !.unechoed = y]
      BY <1>4, <2>1, <2>2
    <2>4. /\ script' \in Scripts /\ script'.side = script.side /\ script'.restarted = script.restarted
          /\ script'.heartbeat = script.heartbeat /\ script'.restarting = script.restarting
          /\ script'.unechoed = y
      BY <2>1, <2>3 DEF Scripts
    <2>5. QED
      BY <2>2, <2>4
  <1>8. TypeOK'
    BY <1>1, <1>2, <1>6, <1>7 DEF TypeOK, NotSeen, Seen, Scripts
  <1>9. Established' <=> Established
    BY <1>1 DEF Established
  <1>10. RemoteInv'
    BY <1>2, <1>3, <1>6 DEF PlaceInv, RemoteInv
  <1>11. HeartbeatInv'
    <2>1. sut'.state \in Learnt \cup {"packet_received"}
      BY <1>3, <1>6 DEF Learnt
    <2>2. sut'.state \notin Learnt => sut.state \notin Learnt
      BY <1>6 DEF Learnt
    <2>3. QED
      BY <1>1, <1>2, <1>3, <1>6, <1>7, <1>9, <2>1, <2>2 DEF PlaceInv, HeartbeatInv
  <1>12. InitAckInv'
    BY <1>1, <1>2, <1>6 DEF PlaceInv, InitAckInv
  <1>13. PassiveInv'
    <2>1. SUFFICES ASSUME role = "passive" PROVE PassiveInv'
      BY <1>1 DEF PassiveInv
    <2>2. LocalLearnt(sut.cookie_echo) => LocalLearnt(sut.cookie_echo)'
      BY <1>6, <1>7 DEF LocalLearnt
    <2>3. CASE Blank
      <3>1. Blank' /\ sut'.cookie_echo = NoCookie
        BY <1>2, <1>6, <2>1, <2>3 DEF PlaceInv, PassiveInv, Blank
      <3>2. QED
        BY <1>1, <1>2, <1>6, <1>7, <1>9, <2>1, <2>3, <3>1 DEF PlaceInv, PassiveInv, Blank
    <2>4. CASE ~Blank
      <3>1. /\ LocalLearnt(sut.cookie_echo) /\ sut.cookie_echo # NoCookie
        BY <1>1, <1>2, <1>3, <2>1, <2>4, LearntCookie DEF PlaceInv, PassiveInv
      <3>2. ~Blank'
        BY <1>6, <2>4, <3>1 DEF Blank
      <3>3. QED
        BY <1>1, <1>2, <1>3, <1>6, <1>7, <1>9, <2>1, <2>2, <2>4, <3>1, <3>2 DEF PlaceInv, PassiveInv
    <2>5. QED
      BY <2>3, <2>4
  <1>14. ActiveInv'
    <2>1. LocalLearnt(kernel.assoc) => LocalLearnt(kernel.assoc)'
      BY <1>1, <1>6, <1>7 DEF LocalLearnt
    <2>2. QED
      BY <1>1, <1>2, <1>3, <1>6, <1>7, <2>1 DEF PlaceInv, ActiveInv
  <1>15. QED
    BY <1>1, <1>2, <1>8, <1>10, <1>11, <1>12, <1>13, <1>14, QuietStep DEF PlaceInv

(***************************************************************************)
(* The theorems.                                                           *)
(***************************************************************************)
LEMMA StutterInv == ASSUME IInv, UNCHANGED vars PROVE IInv'
  <1>1. UNCHANGED <<mode, role, sut, kernel, script, seen, test>>
    BY DEF vars
  <1>2. TypeOK' /\ AbortClears'
    BY <1>1 DEF IInv, TypeOK, AbortClears, InStep, Established
  <1>3. SeenInv'
    BY <1>1 DEF IInv, SeenInv, NumbersAsWritten, TsnAsWritten, TagAccepted, InStep
  <1>4. test = "running" => RemoteInv' /\ HeartbeatInv' /\ InitAckInv'
    BY <1>1 DEF IInv, PlaceInv, RemoteInv, HeartbeatInv, InitAckInv, Established
  <1>5. test = "running" => PassiveInv' /\ ActiveInv'
    BY <1>1 DEF IInv, PlaceInv, PassiveInv, Blank, ActiveInv, LocalLearnt, Established
  <1>6. QED
    BY <1>1, <1>2, <1>3, <1>4, <1>5 DEF IInv, PlaceInv

LEMMA StepIInv == ASSUME IInv, [Next]_vars PROVE IInv'
  <1>1. CASE inbound_init
    BY <1>1, InboundInitInv
  <1>2. CASE outbound_init_ack
    BY <1>2, OutboundInitAckInv
  <1>3. CASE kernel_sends_init
    BY <1>3, KernelSendsInitInv
  <1>4. CASE outbound_init
    BY <1>4, OutboundInitInv
  <1>5. CASE inbound_init_ack
    BY <1>5, InboundInitAckInv
  <1>6. CASE inbound_filled
    BY <1>6, InboundFilledInv
  <1>7. CASE kernel_heartbeat
    BY <1>7, KernelHeartbeatInv
  <1>8. CASE outbound_heartbeat
    BY <1>8, OutboundHeartbeatInv
  <1>9. CASE inbound_chunk
    BY <1>9, InboundChunkInv
  <1>10. CASE outbound_chunk
    BY <1>10, OutboundChunkInv
  <1>11. CASE inbound_tagged
    BY <1>11, InboundTaggedInv
  <1>12. CASE abort_association
    BY <1>12, AbortInv
  <1>13. CASE UNCHANGED vars
    BY <1>13, StutterInv
  <1>14. CASE inbound_cookie_echo
    BY <1>14, InboundCookieEchoInv
  <1>15. QED
    BY <1>1, <1>2, <1>3, <1>4, <1>5, <1>6, <1>7, <1>8, <1>9, <1>10, <1>11, <1>12, <1>13, <1>14 DEF Next

\* The inductive invariant of run_packet.c's view of an association holds, for numbers
\* of every width and any number of handshakes.
THEOREM Invariance == Spec => []IInv
  <1>1. Init => IInv
    BY InitIInv
  <1>2. IInv /\ [Next]_vars => IInv'
    BY StepIInv
  <1>3. QED
    BY <1>1, <1>2, PTL DEF Spec

\* The socket under test, the kernel and the script keep their types.
THEOREM TypeCorrect == Spec => []TypeOK
  <1>1. IInv => TypeOK
    BY DEF IInv
  <1>2. QED
    BY <1>1, Invariance, PTL

\* map_inbound_sctp_packet and map_outbound_live_sctp_packet keep the distance of every
\* number from its initial TSN, and the kernel accepts the verification tags that the
\* script means it to accept, whatever handshakes went before.
THEOREM NumbersMapped == Spec => []NumbersAsWritten
  <1>1. IInv => NumbersAsWritten
    BY DEF IInv, SeenInv
  <1>2. QED
    BY <1>1, Invariance, PTL

\* COOKIE_ECHO[...] and HEARTBEAT_ACK[...] are filled in with what the kernel accepts, and
\* the socket that accept() finds maps with the numbers of the kernel's association.
THEOREM EchoesFilled == Spec => []EchoesAccepted
  <1>1. ASSUME IInv PROVE EchoesAccepted
    <2>1. seen.what \in {"COOKIE_ECHO", "HEARTBEAT_ACK"} => seen.ok
      BY <1>1 DEF IInv, SeenInv
    <2>2. ASSUME Running, role = "passive", ~script.unechoed, sut.state = "cookie_echo_received"
          PROVE  /\ Established
                 /\ kernel.assoc.ltag = sut.live.ltag /\ kernel.assoc.ltsn = sut.live.ltsn
      <3>1. PassiveInv
        BY <1>1, <2>2 DEF IInv, PlaceInv, Running
      <3>2. Established /\ ~script.restarting
        BY <2>2, <3>1 DEF PassiveInv
      <3>3. LocalLearnt(sut.cookie_echo) /\ kernel.assoc = sut.cookie_echo
        BY <2>2, <3>1, <3>2 DEF PassiveInv
      <3>4. QED
        BY <3>2, <3>3 DEF LocalLearnt
    <2>3. QED
      BY <2>1, <2>2 DEF EchoesAccepted, CookieAccepted, HeartbeatEchoed
  <1>2. IInv => EchoesAccepted
    BY <1>1
  <1>3. QED
    BY <1>2, Invariance, PTL

\* abort_association leaves the kernel without the association, unless a restart was
\* begun and not completed or the kernel's INIT was never sniffed.
THEOREM AbortsClear == Spec => []AbortClears
  <1>1. IInv => AbortClears
    BY DEF IInv
  <1>2. QED
    BY <1>1, Invariance, PTL

------------------------------------------------------------------------------
(***************************************************************************)
(* SctpChunks: the packets of scripts.  Every chunk of a packet is stored  *)
(* by its constructor, with a flag for each field that was left open.      *)
(* new_sctp_packet refuses the flags that a packet to be sent must not     *)
(* have, and verify_sctp compares a sniffed packet flag by flag.           *)
(***************************************************************************)

(* The fields of a joined record, those of its first part first. *)
LEMMA JoinedFields ==
  ASSUME NEW f, NEW g
  PROVE  /\ DOMAIN Joined(f, g) = (DOMAIN f) \cup (DOMAIN g)
         /\ \A x \in DOMAIN f : Joined(f, g)[x] = f[x]
         /\ \A x \in (DOMAIN g) \ (DOMAIN f) : Joined(f, g)[x] = g[x]
BY DEF Joined

(* A written chunk has its numbers and, besides them, one of the rests. *)
LEMMA ChunksFields ==
  ASSUME NEW kind, NEW fields, NEW rest, NEW w \in Chunks(kind, fields, rest)
  PROVE  /\ w.kind = kind
         /\ \E r \in rest : /\ DOMAIN w.val = fields \cup DOMAIN r
                            /\ \A f \in (DOMAIN r) \ fields : w.val[f] = r[f]
<1>1. PICK v \in AtMost(MaxOpen, Open, fields, {1, Open}), r \in rest :
        w = [kind |-> kind, val |-> Joined(v, r)]
  BY DEF Chunks
<1>2. DOMAIN v = fields
  BY DEF AtMost
<1>3. w.kind = kind /\ w.val = Joined(v, r)
  BY <1>1
<1>4. DOMAIN w.val = fields \cup DOMAIN r
  BY <1>2, <1>3, JoinedFields
<1>5. \A f \in (DOMAIN r) \ fields : w.val[f] = r[f]
  BY <1>2, <1>3 DEF Joined
<1>6. QED BY <1>3, <1>4, <1>5

(* The elements of a written list are parameters or causes that may be written. *)
LEMMA ListElements ==
  ASSUME NEW all, NEW some, NEW list \in Lists(all, some), NEW j \in DOMAIN List(list)
  PROVE  List(list) = list /\ list[j] \in all \cup some
BY DEF Lists, List

(* None of the numbers of p is shifted. *)
NoNumbers(p) == (DOMAIN p.val) \cap ShiftedItemNumbers = {}

(* Values, nested lists and nested chunks are no shifted numbers. *)
LEMMA PlainItems ==
  /\ \A k, n, v : NoNumbers(Plain(k, n, v))
  /\ \A k, t, n, v : NoNumbers(Par(k, t, n, [value |-> v]))
  /\ \A k, t, n, v : NoNumbers(Par(k, t, n, [sub |-> v]))
  /\ \A k, t, n, v : NoNumbers(Par(k, t, n, [chunk |-> v]))
BY DEF NoNumbers, ShiftedItemNumbers, NextTsns, Plain, Par

(* Nor have the families of parameters and causes any. *)
LEMMA PlainSets ==
  ASSUME NEW k, NEW S
  PROVE  /\ \A p \in FixedOf(k) : NoNumbers(p)
         /\ \A p \in OpenOf(k) : NoNumbers(p)
         /\ \A p \in GenericOf(k, S) : NoNumbers(p)
         /\ \A p \in NestingOf(k, S) : NoNumbers(p)
<1>1. \A p \in FixedOf(k) : NoNumbers(p)
  BY PlainItems DEF FixedOf
<1>2. \A p \in OpenOf(k) : NoNumbers(p)
  BY PlainItems DEF OpenOf
<1>3. \A p \in GenericOf(k, S) : NoNumbers(p)
  BY PlainItems DEF GenericOf
<1>4. \A p \in NestingOf(k, S) : NoNumbers(p)
  BY PlainItems DEF NestingOf
<1>5. QED BY <1>1, <1>2, <1>3, <1>4

(* The parameters of INIT and INIT_ACK have no shifted numbers. *)
LEMMA InitParametersPlain == \A p \in InitParameters : NoNumbers(p)
<1> SUFFICES ASSUME NEW p \in InitParameters PROVE NoNumbers(p)
  OBVIOUS
<1> DEFINE A == (UNION {FixedOf(k) : k \in {"IPV4_ADDRESS", "IPV6_ADDRESS", "COOKIE_PRESERVATIVE"}})
           B == (UNION {OpenOf(k) : k \in {"HOSTNAME_ADDRESS", "SUPPORTED_ADDRESS_TYPES",
                                          "SUPPORTED_EXTENSIONS"}})
           C == {Plain(k, n, Open) : k \in {"STATE_COOKIE", "PAD"}, n \in {Open, 1}}
           D == {Plain("ADAPTATION_INDICATION", 1, <<1>>)}
           E == {Plain(k, 0, <<>>) : k \in {"ECN_CAPABLE", "FORWARD_TSN_SUPPORTED"}}
           F == GenericOf("PARAMETER", {Open, "UNKNOWN"})
           G == NestingOf("UNRECOGNIZED_PARAMETER", SubLists)
<1>1. p \in A => NoNumbers(p)
  BY PlainSets
<1>2. p \in B => NoNumbers(p)
  BY PlainSets
<1>3. p \in C \cup D \cup E => NoNumbers(p)
  BY PlainItems
<1>4. p \in F \cup G => NoNumbers(p)
  BY PlainSets
<1>5. InitParameters = A \cup B \cup C \cup D \cup E \cup F \cup G
  BY DEF InitParameters
<1> HIDE DEF A, B, C, D, E, F, G
<1>6. QED BY <1>1, <1>2, <1>3, <1>4, <1>5

(* Nor have error causes. *)
LEMMA CausesPlain == \A p \in Causes : NoNumbers(p)
<1> SUFFICES ASSUME NEW p \in Causes PROVE NoNumbers(p)
  OBVIOUS
<1> DEFINE A == (UNION {FixedOf(k) : k \in {"INVALID_STREAM_IDENTIFIER", "STALE_COOKIE_ERROR",
                                           "NO_USER_DATA"}})
           B == (UNION {OpenOf(k) : k \in {"MISSING_MANDATORY_PARAMETER", "USER_INITIATED_ABORT",
                                          "PROTOCOL_VIOLATION"}})
           C == {Plain(k, 0, <<>>) : k \in {"OUT_OF_RESOURCE", "INVALID_MANDATORY_PARAMETER",
                                            "COOKIE_RECEIVED_WHILE_SHUTDOWN"}}
           D == GenericOf("CAUSE", {Open, "UNKNOWN"})
           E == (UNION {NestingOf(k, SubLists) :
                         k \in {"UNRESOLVABLE_ADDRESS", "UNRECOGNIZED_PARAMETERS",
                                "RESTART_WITH_NEW_ADDRESSES"}})
           F == {Par("UNRECOGNIZED_CHUNK_TYPE", "UNRECOGNIZED_CHUNK_TYPE",
                     IF w = Open THEN Open ELSE 2, [chunk |-> w]) :
                   w \in {Open, Shutdown(1, 1), Shutdown(Open, 1), Shutdown(1, Open)}}
<1>1. p \in A => NoNumbers(p)
  BY PlainSets
<1>2. p \in B => NoNumbers(p)
  BY PlainSets
<1>3. p \in C => NoNumbers(p)
  BY PlainItems
<1>4. p \in D => NoNumbers(p)
  BY PlainSets
<1>5. p \in E => NoNumbers(p)
  BY PlainSets
<1>6. p \in F => NoNumbers(p)
  BY PlainItems
<1>7. Causes = A \cup B \cup C \cup D \cup E \cup F
  BY Zenon DEF Causes
<1> HIDE DEF A, B, C, D, E, F
<1>8. QED BY <1>1, <1>2, <1>3, <1>4, <1>5, <1>6, <1>7

(* Nor have the parameters and causes that are written in pairs. *)
LEMMA SomePlain == \A p \in SomeParameters \cup SomeCauses : NoNumbers(p)
BY PlainItems DEF SomeParameters, SomeCauses

(* A shifted number of p is written, not required, or makes new_sctp_packet refuse p. *)
NumbersKept(p) ==
  \A f \in ShiftedItemNumbers \cap DOMAIN p.val :
    p.val[f] # Open \/ ItemNotRequired(p, f)
      \/ Parameter(p).nocheck \cap RequiredOfParameter(Parameter(p).type) # {}

(* The fields of a RECONFIG parameter. *)
LEMMA NumbersFields ==
  ASSUME NEW kind, NEW fields, NEW fixed, NEW p \in Numbers(kind, fields, fixed)
  PROVE  p.kind = kind /\ p.type = kind /\ DOMAIN p.val = fields \cup DOMAIN fixed
<1>1. PICK v \in {v \in [fields -> {1, Open}] : Cardinality({f \in fields : v[f] = Open}) <= 1} :
        p = Par(kind, kind, NumberBytes, Joined(v, fixed))
  BY DEF Numbers
<1>2. DOMAIN v = fields
  OBVIOUS
<1>3. QED BY <1>1, <1>2, JoinedFields DEF Par

(* A number that is required and has a flag of its own is written or refused. *)
LEMMA ReconfigKept ==
  ASSUME NEW p, NEW numbers, NEW n, Parameter(p) = Reconfig(p, numbers, n),
         \A f \in ShiftedItemNumbers \cap DOMAIN p.val :
           ItemNotRequired(p, f) \/ f \in numbers \cap RequiredOfParameter(p.type)
  PROVE  NumbersKept(p)
<1>1. Parameter(p).nocheck = {f \in numbers : p.val[f] = Open} /\ Parameter(p).type = p.type
  BY DEF Reconfig
<1>2. QED BY <1>1 DEF NumbersKept

(* The numbers of every parameter of RECONFIG are written or refused. *)
LEMMA ReconfigNumbers ==
  ASSUME NEW p, p.kind = p.type,
         \/ p.kind = "OUTGOING_SSN_RESET" /\ DOMAIN p.val = {"reqsn", "respsn", "last_tsn", "sids"}
         \/ p.kind = "INCOMING_SSN_RESET" /\ DOMAIN p.val = {"reqsn", "sids"}
         \/ p.kind = "SSN_TSN_RESET" /\ DOMAIN p.val = {"reqsn"}
         \/ p.kind = "RECONFIG_RESPONSE" /\ DOMAIN p.val \subseteq {"respsn", "result"} \cup NextTsns
         \/ p.kind = "ADD_OUTGOING_STREAMS" /\ DOMAIN p.val = {"reqsn", "number_of_new_streams"}
         \/ p.kind = "ADD_INCOMING_STREAMS" /\ DOMAIN p.val = {"reqsn", "number_of_new_streams"}
  PROVE  NumbersKept(p)
<1>1. CASE p.kind = "OUTGOING_SSN_RESET"
  <2>1. Parameter(p) = Reconfig(p, {"reqsn", "respsn", "last_tsn"}, Len(p.val.sids))
    BY <1>1 DEF Parameter, sctp_outgoing_ssn_reset_request_parameter_new
  <2>2. QED BY <1>1, <2>1, ReconfigKept DEF RequiredOfParameter, ShiftedItemNumbers, NextTsns
<1>2. CASE p.kind = "INCOMING_SSN_RESET"
  <2>1. Parameter(p) = Reconfig(p, {"reqsn"}, Len(p.val.sids))
    BY <1>2 DEF Parameter, sctp_incoming_ssn_reset_request_parameter_new
  <2>2. QED BY <1>2, <2>1, ReconfigKept DEF RequiredOfParameter, ShiftedItemNumbers, NextTsns
<1>3. CASE p.kind = "SSN_TSN_RESET"
  <2>1. Parameter(p) = Reconfig(p, {"reqsn"}, 0)
    BY <1>3 DEF Parameter, sctp_ssn_tsn_reset_request_parameter_new
  <2>2. QED BY <1>3, <2>1, ReconfigKept DEF RequiredOfParameter, ShiftedItemNumbers, NextTsns
<1>4. CASE p.kind = "RECONFIG_RESPONSE"
  <2>1. Parameter(p) = Reconfig(p, DOMAIN p.val, IF NextTsns \subseteq DOMAIN p.val THEN 1 ELSE 0)
    BY <1>4 DEF Parameter, sctp_reconfig_response_parameter_new
  <2>2. QED BY <1>4, <2>1, ReconfigKept DEF RequiredOfParameter, ShiftedItemNumbers, NextTsns, ItemNotRequired
<1>5. CASE p.kind = "ADD_OUTGOING_STREAMS"
  <2>1. Parameter(p) = Reconfig(p, {"reqsn", "number_of_new_streams"}, 0)
    BY <1>5 DEF Parameter, sctp_add_outgoing_streams_request_parameter_new
  <2>2. QED BY <1>5, <2>1, ReconfigKept DEF RequiredOfParameter, ShiftedItemNumbers, NextTsns
<1>6. CASE p.kind = "ADD_INCOMING_STREAMS"
  <2>1. Parameter(p) = Reconfig(p, {"reqsn", "number_of_new_streams"}, 0)
    BY <1>6 DEF Parameter, sctp_add_incoming_streams_request_parameter_new
  <2>2. QED BY <1>6, <2>1, ReconfigKept DEF RequiredOfParameter, ShiftedItemNumbers, NextTsns
<1>7. QED BY <1>1, <1>2, <1>3, <1>4, <1>5, <1>6

(* So is that of the generic request. *)
LEMMA GenericReconfigKept ==
  ASSUME NEW t \in {Open, "SSN_TSN_RESET"}, NEW n, NEW r
  PROVE  NumbersKept(Par("RECONFIG_REQUEST_GENERIC", t, n, [reqsn |-> r]))
<1> DEFINE p == Par("RECONFIG_REQUEST_GENERIC", t, n, [reqsn |-> r])
<1>1. p.kind = "RECONFIG_REQUEST_GENERIC" /\ p.type = t /\ p.val = [reqsn |-> r]
  BY DEF Par
<1> HIDE DEF p
<1>2. Parameter(p) = sctp_generic_reconfig_request_parameter_new(p)
  BY <1>1 DEF Parameter
<1>3. /\ Parameter(p).type = IF t = Open THEN "0" ELSE t
      /\ Parameter(p).nocheck = Flags(r = Open, {"reqsn"})
  BY <1>1, <1>2 DEF sctp_generic_reconfig_request_parameter_new
<1>4. t = Open => NumbersKept(p)
  BY <1>1 DEF NumbersKept, ItemNotRequired
<1>5. ASSUME t # Open PROVE NumbersKept(p)
  BY <1>1, <1>3, <1>5 DEF NumbersKept, RequiredOfParameter, Flags
<1>6. QED BY <1>4, <1>5 DEF p

(* So are the numbers of whatever RECONFIG carries. *)
LEMMA ReconfigParametersKept == \A p \in ReconfigParameters : NumbersKept(p)
<1> SUFFICES ASSUME NEW p \in ReconfigParameters PROVE NumbersKept(p)
  OBVIOUS
<1> DEFINE A == Numbers("OUTGOING_SSN_RESET", {"reqsn", "respsn", "last_tsn"}, [sids |-> <<>>])
           B == Numbers("INCOMING_SSN_RESET", {"reqsn"}, [sids |-> <<>>])
           C == {Par("OUTGOING_SSN_RESET", "OUTGOING_SSN_RESET", NumberBytes + 1,
                     [reqsn |-> 1, respsn |-> 1, last_tsn |-> 1, sids |-> <<1>>]),
                 Par("INCOMING_SSN_RESET", "INCOMING_SSN_RESET", NumberBytes + 1,
                     [reqsn |-> 1, sids |-> <<1>>])}
           D == Numbers("SSN_TSN_RESET", {"reqsn"}, <<>>)
           E == Numbers("RECONFIG_RESPONSE", {"respsn", "result"}, <<>>)
           Long == Numbers("RECONFIG_RESPONSE", {"respsn", "result"} \cup NextTsns, <<>>)
           F == {[q EXCEPT !.length = @ + 1] : q \in Long}
           Adds(k) == Numbers(k, {"reqsn", "number_of_new_streams"}, <<>>)
           G == UNION {Adds(k) : k \in {"ADD_OUTGOING_STREAMS", "ADD_INCOMING_STREAMS"}}
           H == {Par("RECONFIG_REQUEST_GENERIC", t, n, [reqsn |-> r]) :
                   t \in {Open, "SSN_TSN_RESET"}, n \in {Open, NumberBytes}, r \in {Open, 1}}
           I == GenericOf("PARAMETER", {Open, "UNKNOWN"})
<1>1. ReconfigParameters = A \cup B \cup C \cup D \cup E \cup F \cup G \cup H \cup I
  BY DEF ReconfigParameters
<1>2. ASSUME p \in A PROVE NumbersKept(p)
  BY <1>2, NumbersFields, ReconfigNumbers
<1>3. ASSUME p \in B PROVE NumbersKept(p)
  BY <1>3, NumbersFields, ReconfigNumbers
<1>4. ASSUME p \in C PROVE NumbersKept(p)
  BY <1>4, ReconfigNumbers DEF Par
<1>5. ASSUME p \in D PROVE NumbersKept(p)
  BY <1>5, NumbersFields, ReconfigNumbers
<1>6. ASSUME p \in E PROVE NumbersKept(p)
  BY <1>6, NumbersFields, ReconfigNumbers
<1>7. ASSUME p \in F PROVE NumbersKept(p)
  <2>1. PICK q \in Long : p = [q EXCEPT !.length = @ + 1]
    BY <1>7
  <2>2. \E v : q = Par("RECONFIG_RESPONSE", "RECONFIG_RESPONSE", NumberBytes, v)
    BY DEF Numbers
  <2>3. p.kind = q.kind /\ p.type = q.type /\ p.val = q.val
    BY <2>1, <2>2 DEF Par
  <2>4. QED BY <2>3, NumbersFields, ReconfigNumbers
<1>8. ASSUME p \in G PROVE NumbersKept(p)
  <2>1. PICK k \in {"ADD_OUTGOING_STREAMS", "ADD_INCOMING_STREAMS"} : p \in Adds(k)
    BY <1>8
  <2>2. QED BY <2>1, NumbersFields, ReconfigNumbers
<1>9. ASSUME p \in H PROVE NumbersKept(p)
  BY <1>9, GenericReconfigKept
<1>10. ASSUME p \in I PROVE NumbersKept(p)
  BY <1>10, PlainSets DEF NoNumbers, NumbersKept
<1> HIDE DEF A, B, C, D, E, F, G, H, I
<1>11. QED BY <1>1, <1>2, <1>3, <1>4, <1>5, <1>6, <1>7, <1>8, <1>9, <1>10

(* The numbers of a chunk that map_inbound_sctp_packet shifts. *)
ShiftedOf(k) ==
  CASE k \in {"DATA", "I_DATA"} -> {"tsn"}
    [] k \in {"INIT", "INIT_ACK"} -> {"tag", "tsn"}
    [] k \in {"SACK", "NR_SACK", "SHUTDOWN", "FORWARD_TSN", "I_FORWARD_TSN"} -> {"cum_tsn"}
    [] k \in {"ECNE", "CWR"} -> {"lowest_tsn"}
    [] OTHER -> {}

(* No parameter or cause of w has a shifted number. *)
ItemsPlain(w) == \A j \in DOMAIN ListOf(w) : NoNumbers(ListOf(w)[j])

(* A chunk without parameters and causes. *)
LEMMA NoItems ==
  ASSUME NEW w, "params" \notin DOMAIN w.val, "causes" \notin DOMAIN w.val
  PROVE  ItemsPlain(w)
BY DEF ItemsPlain, ListOf

(* A chunk with numbers and a rest that is neither parameters nor causes. *)
LEMMA FieldsOnly ==
  ASSUME NEW k, NEW fields, NEW rest, NEW w \in Chunks(k, fields, rest), NEW more,
         \A r \in rest : DOMAIN r = more,
         fields \cap ShiftedNumbers = ShiftedOf(k), more \cap ShiftedNumbers = {},
         {"params", "causes"} \cap (fields \cup more) = {}
  PROVE  /\ w.kind = k /\ ShiftedNumbers \cap DOMAIN w.val = ShiftedOf(k)
         /\ ItemsPlain(w)
<1>1. w.kind = k /\ DOMAIN w.val = fields \cup more
  BY ChunksFields
<1>2. ItemsPlain(w)
  BY <1>1, NoItems
<1>3. QED BY <1>1, <1>2

(* A chunk whose parameters or causes have no shifted numbers. *)
LEMMA PlainLists ==
  ASSUME NEW w, NEW l \in {"params", "causes"}, NEW all, NEW some, 
         {"params", "causes"} \cap DOMAIN w.val = {l}, w.val[l] \in Lists(all, some),
         \A p \in all \cup some : NoNumbers(p)
  PROVE  ItemsPlain(w)
<1>1. ListOf(w) = List(w.val[l])
  BY DEF ListOf
<1>2. \A j \in DOMAIN List(w.val[l]) : List(w.val[l])[j] \in all \cup some
  BY ListElements
<1>3. QED BY <1>1, <1>2 DEF ItemsPlain

(* What matters of a written chunk when it is to be sent. *)
Shape(k, w) ==
  /\ w.kind = k /\ ShiftedNumbers \cap DOMAIN w.val \subseteq ShiftedOf(k)
  /\ k # "RECONFIG" => ItemsPlain(w)
  /\ k = "RECONFIG" => "params" \in DOMAIN w.val /\ w.val.params \in Lists(ReconfigParameters, {})

(* Every chunk that is written has its shape. *)
LEMMA WrittenShape ==
  ASSUME NEW k, NEW w \in WrittenChunks(k)
  PROVE  Shape(k, w)
<1>1. CASE k = "CHUNK"
  <2>1. w.kind = k /\ DOMAIN w.val = {"type", "flgs", "len", "value"}
    BY <1>1 DEF WrittenChunks, HasCauses
  <2>2. QED BY <1>1, <2>1, NoItems DEF Shape, ShiftedNumbers
<1>2. CASE k = "DATA"
  <2> DEFINE F == {"flgs", "len", "tsn", "sid", "ssn", "ppid"}
             R == None
             M == {}
  <2>1. WrittenChunks(k) = Chunks(k, F, R)
    BY <1>2 DEF WrittenChunks, HasCauses
  <2>2. \A r \in R : DOMAIN r = M
    BY DEF None, Just
  <2>3. F \cap ShiftedNumbers = ShiftedOf(k)
    BY <1>2 DEF ShiftedOf, ShiftedNumbers
  <2>4. M \cap ShiftedNumbers = {} /\ {"params", "causes"} \cap (F \cup M) = {}
    BY DEF ShiftedNumbers
  <2> HIDE DEF F, R, M
  <2>5. QED BY <1>2, <2>1, <2>2, <2>3, <2>4, FieldsOnly DEF Shape
<1>3. CASE k = "I_DATA"
  <2> DEFINE F == {"flgs", "len", "tsn", "sid", "mid", "ppid"}
             G == {"flgs", "len", "tsn", "sid", "mid", "fsn"}
  <2>1. WrittenChunks(k) = Chunks(k, F, Just([fsn |-> Open])) \cup Chunks(k, G, Just([ppid |-> Open]))
    BY <1>3 DEF WrittenChunks, HasCauses
  <2>2. /\ \A r \in Just([fsn |-> Open]) : DOMAIN r = {"fsn"}
        /\ \A r \in Just([ppid |-> Open]) : DOMAIN r = {"ppid"}
    BY DEF Just
  <2>3. F \cap ShiftedNumbers = ShiftedOf(k) /\ G \cap ShiftedNumbers = ShiftedOf(k)
    BY <1>3 DEF ShiftedOf, ShiftedNumbers
  <2>4. /\ {"fsn"} \cap ShiftedNumbers = {} /\ {"ppid"} \cap ShiftedNumbers = {}
        /\ {"params", "causes"} \cap (F \cup {"fsn"}) = {} /\ {"params", "causes"} \cap (G \cup {"ppid"}) = {}
    BY DEF ShiftedNumbers
  <2> HIDE DEF F, G
  <2>5. CASE w \in Chunks(k, F, Just([fsn |-> Open]))
    BY <1>3, <2>2, <2>3, <2>4, <2>5, FieldsOnly DEF Shape
  <2>6. CASE w \in Chunks(k, G, Just([ppid |-> Open]))
    BY <1>3, <2>2, <2>3, <2>4, <2>6, FieldsOnly DEF Shape
  <2>7. QED BY <2>1, <2>5, <2>6
<1>4. CASE k \in {"INIT", "INIT_ACK"}
  <2> DEFINE A == Chunks(k, InitFields, Just([params |-> <<>>]))
             B == {[kind |-> k, val |-> Joined([f \in InitFields |-> 1], [params |-> ps])] :
                     ps \in Lists(InitParameters, SomeParameters)}
  <2>1. w \in A \/ w \in B
    BY <1>4 DEF WrittenChunks, HasCauses
  <2>2. \A p \in InitParameters \cup SomeParameters : NoNumbers(p)
    BY InitParametersPlain, SomePlain
  <2>3. ASSUME w.kind = k, DOMAIN w.val = InitFields \cup {"params"},
               w.val.params \in Lists(InitParameters, SomeParameters)
        PROVE  Shape(k, w)
    <3>1. {"params", "causes"} \cap DOMAIN w.val = {"params"}
      BY <2>3 DEF InitFields
    <3>2. ItemsPlain(w)
      BY <2>2, <2>3, <3>1, PlainLists
    <3>3. ShiftedNumbers \cap DOMAIN w.val \subseteq ShiftedOf(k)
      BY <1>4, <2>3 DEF InitFields, ShiftedNumbers, ShiftedOf
    <3>4. QED BY <1>4, <2>3, <3>2, <3>3 DEF Shape
  <2>4. CASE w \in A
    <3>1. w.kind = k /\ DOMAIN w.val = InitFields \cup {"params"} /\ w.val.params = <<>>
      BY <2>4, ChunksFields DEF Just, InitFields
    <3>2. <<>> \in Lists(InitParameters, SomeParameters)
      BY DEF Lists
    <3>3. QED BY <2>3, <3>1, <3>2
  <2>5. CASE w \in B
    <3>1. PICK ps \in Lists(InitParameters, SomeParameters) :
            w = [kind |-> k, val |-> Joined([f \in InitFields |-> 1], [params |-> ps])]
      BY <2>5
    <3>2. w.kind = k /\ w.val = Joined([f \in InitFields |-> 1], [params |-> ps])
      BY <3>1
    <3>3. DOMAIN w.val = InitFields \cup {"params"} /\ w.val.params = ps
      BY <3>2 DEF Joined, InitFields
    <3>4. QED BY <2>3, <3>2, <3>3
  <2>6. QED BY <2>1, <2>4, <2>5
<1>5. CASE k = "RECONFIG"
  <2> DEFINE R == [params : Lists(ReconfigParameters, {})]
  <2>1. WrittenChunks(k) = Chunks(k, {"flgs"}, R)
    BY <1>5 DEF WrittenChunks, HasCauses
  <2>2. w.kind = k /\ \E r \in R : /\ DOMAIN w.val = {"flgs"} \cup DOMAIN r
                                 /\ \A f \in (DOMAIN r) \ {"flgs"} : w.val[f] = r[f]
    <3> HIDE DEF R
    <3>1. w \in Chunks(k, {"flgs"}, R)
      BY <2>1
    <3>2. QED BY <3>1, ChunksFields
  <2>3. DOMAIN w.val = {"flgs", "params"} /\ w.val.params \in Lists(ReconfigParameters, {})
    BY <2>2
  <2>4. QED BY <1>5, <2>2, <2>3 DEF Shape, ShiftedNumbers
<1>6. CASE k = "SACK"
  <2> DEFINE F == {"flgs", "cum_tsn", "a_rwnd"}
             R == SackLists
             M == {"gaps", "dups"}
  <2>1. WrittenChunks(k) = Chunks(k, F, R)
    BY <1>6 DEF WrittenChunks, HasCauses
  <2>2. \A r \in R : DOMAIN r = M
    BY DEF SackLists
  <2>3. F \cap ShiftedNumbers = ShiftedOf(k)
    BY <1>6 DEF ShiftedOf, ShiftedNumbers
  <2>4. M \cap ShiftedNumbers = {} /\ {"params", "causes"} \cap (F \cup M) = {}
    BY DEF ShiftedNumbers
  <2> HIDE DEF F, R, M
  <2>5. QED BY <1>6, <2>1, <2>2, <2>3, <2>4, FieldsOnly DEF Shape
<1>7. CASE k = "NR_SACK"
  <2> DEFINE F == {"flgs", "cum_tsn", "a_rwnd"}
             R == NrSackLists
             M == {"gaps", "nr_gaps", "dups"}
  <2>1. WrittenChunks(k) = Chunks(k, F, R)
    BY <1>7 DEF WrittenChunks, HasCauses
  <2>2. \A r \in R : DOMAIN r = M
    BY DEF NrSackLists
  <2>3. F \cap ShiftedNumbers = ShiftedOf(k)
    BY <1>7 DEF ShiftedOf, ShiftedNumbers
  <2>4. M \cap ShiftedNumbers = {} /\ {"params", "causes"} \cap (F \cup M) = {}
    BY DEF ShiftedNumbers
  <2> HIDE DEF F, R, M
  <2>5. QED BY <1>7, <2>1, <2>2, <2>3, <2>4, FieldsOnly DEF Shape
<1>8. CASE k \in {"HEARTBEAT", "HEARTBEAT_ACK"}
  <2> DEFINE F == {"flgs"}
             R == [info : Infos]
             M == {"info"}
  <2>1. WrittenChunks(k) = Chunks(k, F, R)
    BY <1>8 DEF WrittenChunks, HasCauses
  <2>2. \A r \in R : DOMAIN r = M
    BY DEF Infos
  <2>3. F \cap ShiftedNumbers = ShiftedOf(k)
    BY <1>8 DEF ShiftedOf, ShiftedNumbers
  <2>4. M \cap ShiftedNumbers = {} /\ {"params", "causes"} \cap (F \cup M) = {}
    BY DEF ShiftedNumbers
  <2> HIDE DEF F, R, M
  <2>5. QED BY <1>8, <2>1, <2>2, <2>3, <2>4, FieldsOnly DEF Shape
<1>9. CASE k \in HasCauses
  <2> DEFINE R == [causes : Lists(Causes, SomeCauses)]
  <2>1. WrittenChunks(k) = Chunks(k, {"flgs"}, R)
    BY <1>9 DEF WrittenChunks, HasCauses
  <2>2. w.kind = k /\ \E r \in R : /\ DOMAIN w.val = {"flgs"} \cup DOMAIN r
                                 /\ \A f \in (DOMAIN r) \ {"flgs"} : w.val[f] = r[f]
    <3> HIDE DEF R
    <3>1. w \in Chunks(k, {"flgs"}, R)
      BY <2>1
    <3>2. QED BY <3>1, ChunksFields
  <2>3. DOMAIN w.val = {"flgs", "causes"} /\ w.val.causes \in Lists(Causes, SomeCauses)
    BY <2>2
  <2>4. ItemsPlain(w)
    BY <2>3, PlainLists, CausesPlain, SomePlain
  <2>5. QED BY <1>9, <2>2, <2>3, <2>4 DEF Shape, ShiftedNumbers, HasCauses
<1>10. CASE k = "COOKIE_ECHO"
  <2> DEFINE Rest == {[len |-> v[1], value |-> v[2]] : v \in {<<Open, Open>>, <<1, Open>>, <<1, <<1>>>>}}
  <2>1. WrittenChunks(k) = Chunks(k, {"flgs"}, Rest)
    BY <1>10 DEF WrittenChunks, HasCauses
  <2>2. \A r \in Rest : DOMAIN r = {"len", "value"}
    OBVIOUS
  <2> HIDE DEF Rest
  <2>3. {"flgs"} \cap ShiftedNumbers = ShiftedOf(k) /\ {"len", "value"} \cap ShiftedNumbers = {}
    BY <1>10 DEF ShiftedOf, ShiftedNumbers
  <2>4. {"params", "causes"} \cap ({"flgs"} \cup {"len", "value"}) = {}
    OBVIOUS
  <2>5. QED BY <1>10, <2>1, <2>2, <2>3, <2>4, FieldsOnly DEF Shape
<1>11. CASE k = "PAD"
  <2> DEFINE F == {"flgs", "len"}
             R == None
             M == {}
  <2>1. WrittenChunks(k) = Chunks(k, F, R)
    BY <1>11 DEF WrittenChunks, HasCauses
  <2>2. \A r \in R : DOMAIN r = M
    BY DEF None, Just
  <2>3. F \cap ShiftedNumbers = ShiftedOf(k)
    BY <1>11 DEF ShiftedOf, ShiftedNumbers
  <2>4. M \cap ShiftedNumbers = {} /\ {"params", "causes"} \cap (F \cup M) = {}
    BY DEF ShiftedNumbers
  <2> HIDE DEF F, R, M
  <2>5. QED BY <1>11, <2>1, <2>2, <2>3, <2>4, FieldsOnly DEF Shape
<1>12. CASE k = "SHUTDOWN"
  <2> DEFINE F == {"flgs", "cum_tsn"}
             R == None
             M == {}
  <2>1. WrittenChunks(k) = Chunks(k, F, R)
    BY <1>12 DEF WrittenChunks, HasCauses
  <2>2. \A r \in R : DOMAIN r = M
    BY DEF None, Just
  <2>3. F \cap ShiftedNumbers = ShiftedOf(k)
    BY <1>12 DEF ShiftedOf, ShiftedNumbers
  <2>4. M \cap ShiftedNumbers = {} /\ {"params", "causes"} \cap (F \cup M) = {}
    BY DEF ShiftedNumbers
  <2> HIDE DEF F, R, M
  <2>5. QED BY <1>12, <2>1, <2>2, <2>3, <2>4, FieldsOnly DEF Shape
<1>13. CASE k \in {"ECNE", "CWR"}
  <2> DEFINE F == {"flgs", "lowest_tsn"}
             R == None
             M == {}
  <2>1. WrittenChunks(k) = Chunks(k, F, R)
    BY <1>13 DEF WrittenChunks, HasCauses
  <2>2. \A r \in R : DOMAIN r = M
    BY DEF None, Just
  <2>3. F \cap ShiftedNumbers = ShiftedOf(k)
    BY <1>13 DEF ShiftedOf, ShiftedNumbers
  <2>4. M \cap ShiftedNumbers = {} /\ {"params", "causes"} \cap (F \cup M) = {}
    BY DEF ShiftedNumbers
  <2> HIDE DEF F, R, M
  <2>5. QED BY <1>13, <2>1, <2>2, <2>3, <2>4, FieldsOnly DEF Shape
<1>14. CASE k \in {"FORWARD_TSN", "I_FORWARD_TSN"}
  <2>1. w.kind = k /\ DOMAIN w.val = {"cum_tsn", "ids"}
    BY <1>14 DEF WrittenChunks, HasCauses
  <2>2. QED BY <1>14, <2>1, NoItems DEF Shape, ShiftedNumbers, ShiftedOf
<1>15. CASE k \notin {"CHUNK", "DATA", "I_DATA", "INIT", "INIT_ACK", "RECONFIG", "SACK", "NR_SACK",
                      "HEARTBEAT", "HEARTBEAT_ACK", "ABORT", "ERROR", "COOKIE_ECHO", "PAD",
                      "SHUTDOWN", "ECNE", "CWR", "FORWARD_TSN", "I_FORWARD_TSN"}
  <2> DEFINE F == {"flgs"}
             R == None
             M == {}
  <2>1. WrittenChunks(k) = Chunks(k, F, R)
    BY <1>15 DEF WrittenChunks, HasCauses
  <2>2. \A r \in R : DOMAIN r = M
    BY DEF None, Just
  <2>3. F \cap ShiftedNumbers = ShiftedOf(k)
    BY <1>15 DEF ShiftedOf, ShiftedNumbers
  <2>4. M \cap ShiftedNumbers = {} /\ {"params", "causes"} \cap (F \cup M) = {}
    OBVIOUS
  <2> HIDE DEF F, R, M
  <2>5. QED BY <1>15, <2>1, <2>2, <2>3, <2>4, FieldsOnly DEF Shape
<1>16. QED
  BY <1>1, <1>2, <1>3, <1>4, <1>5, <1>6, <1>7, <1>8, <1>9, <1>10, <1>11, <1>12, <1>13, <1>14, <1>15
  DEF HasCauses

(* The fields of an item. *)
ItemFields == {"type", "val", "nocheck", "length", "blocks", "count", "items"}

(* An item has a flag for each open field. *)
LEMMA ChunkItemFields ==
  ASSUME NEW type, NEW w, NEW fields
  PROVE  LET item == ChunkItem(type, w, fields) IN
         /\ DOMAIN item = ItemFields /\ item.type = type
         /\ item.nocheck = {f \in fields : w.val[f] = Open}
BY DEF ChunkItem, ItemFields

(* sctp_data_chunk_new keeps these flags, *)
LEMMA WithDataFields ==
  ASSUME NEW item, NEW w, DOMAIN item = ItemFields
  PROVE  WithData(item, w).type = item.type /\ item.nocheck \subseteq WithData(item, w).nocheck
BY DEF WithData, Sized, ItemFields

(* so do the constructors of chunks with parameters, *)
LEMMA WithParametersFields ==
  ASSUME NEW item, NEW w, NEW open, DOMAIN item = ItemFields
  PROVE  /\ WithParameters(item, w, open).type = item.type
         /\ WithParameters(item, w, open).items = sctp_parameter_list_append(w.val.params)
         /\ item.nocheck \subseteq WithParameters(item, w, open).nocheck
BY DEF WithParameters, ItemFields

(* those of SACK and NR_SACK, *)
LEMMA WithBlocksFields ==
  ASSUME NEW item, NEW w, NEW lists, DOMAIN item = ItemFields
  PROVE  /\ WithBlocks(item, w, lists).type = item.type
         /\ item.nocheck \subseteq WithBlocks(item, w, lists).nocheck
BY DEF WithBlocks, ItemFields

(* and those of FORWARD_TSN and I_FORWARD_TSN. *)
LEMMA WithIdsFields ==
  ASSUME NEW type, NEW w
  PROVE  WithIds(type, w).type = type /\ (w.val.cum_tsn = Open => "cum_tsn" \in WithIds(type, w).nocheck)
<1>1. DOMAIN ChunkItem(type, w, {}) = ItemFields /\ ChunkItem(type, w, {}).type = type
  BY ChunkItemFields
<1>2. QED BY <1>1 DEF WithIds, ItemFields, Flags

(* An open shifted number leaves its flag, whatever the chunk. *)
LEMMA OpenNumbersFlagged ==
  ASSUME NEW w, w.kind \in {"DATA", "INIT", "INIT_ACK", "SACK", "NR_SACK", "SHUTDOWN", "ECNE", "CWR",
                            "FORWARD_TSN"}
  PROVE  /\ NewChunk(w).type = w.kind
         /\ \A f \in ShiftedOf(w.kind) : w.val[f] = Open => f \in NewChunk(w).nocheck
<1>1. CASE w.kind = "DATA"
  <2> DEFINE item == ChunkItem("DATA", w, {"flgs", "tsn", "sid", "ssn", "ppid"})
  <2>1. NewChunk(w) = WithData(item, w)
    BY <1>1 DEF NewChunk, sctp_data_chunk_new
  <2>2. QED BY <1>1, <2>1, ChunkItemFields, WithDataFields DEF ShiftedOf
<1>2. CASE w.kind = "INIT"
  <2> DEFINE item == ChunkItem("INIT", w, InitFields)
  <2>1. NewChunk(w) = WithParameters(item, w, {"length", "opt_param"})
    BY <1>2 DEF NewChunk, sctp_init_chunk_new
  <2>2. QED BY <1>2, <2>1, ChunkItemFields, WithParametersFields DEF ShiftedOf, InitFields
<1>3. CASE w.kind = "INIT_ACK"
  <2> DEFINE item == ChunkItem("INIT_ACK", w, InitFields)
  <2>1. NewChunk(w) = WithParameters(item, w, {"length", "opt_param"})
    BY <1>3 DEF NewChunk, sctp_init_ack_chunk_new
  <2>2. QED BY <1>3, <2>1, ChunkItemFields, WithParametersFields DEF ShiftedOf, InitFields
<1>4. CASE w.kind = "SACK"
  <2> DEFINE item == ChunkItem("SACK", w, {"flgs", "cum_tsn", "a_rwnd"})
  <2>1. NewChunk(w) = WithBlocks(item, w, {"gaps", "dups"})
    BY <1>4 DEF NewChunk, sctp_sack_chunk_new
  <2>2. QED BY <1>4, <2>1, ChunkItemFields, WithBlocksFields DEF ShiftedOf
<1>5. CASE w.kind = "NR_SACK"
  <2> DEFINE item == ChunkItem("NR_SACK", w, {"flgs", "cum_tsn", "a_rwnd"})
  <2>1. NewChunk(w) = WithBlocks(item, w, {"gaps", "nr_gaps", "dups"})
    BY <1>5 DEF NewChunk, sctp_nr_sack_chunk_new
  <2>2. QED BY <1>5, <2>1, ChunkItemFields, WithBlocksFields DEF ShiftedOf
<1>6. CASE w.kind = "SHUTDOWN"
  <2> DEFINE item == ChunkItem("SHUTDOWN", w, {"flgs", "cum_tsn"})
  <2>1. NewChunk(w) = [item EXCEPT !.length = 1]
    BY <1>6 DEF NewChunk, sctp_shutdown_chunk_new
  <2>2. NewChunk(w).type = item.type /\ NewChunk(w).nocheck = item.nocheck
    BY <2>1, ChunkItemFields DEF ItemFields
  <2>3. QED BY <1>6, <2>2, ChunkItemFields DEF ShiftedOf
<1>7. CASE w.kind = "ECNE"
  <2>1. NewChunk(w) = ChunkItem("ECNE", w, {"flgs", "lowest_tsn"})
    BY <1>7 DEF NewChunk, sctp_ecne_chunk_new
  <2>2. QED BY <1>7, <2>1, ChunkItemFields DEF ShiftedOf
<1>8. CASE w.kind = "CWR"
  <2>1. NewChunk(w) = ChunkItem("CWR", w, {"flgs", "lowest_tsn"})
    BY <1>8 DEF NewChunk, sctp_cwr_chunk_new
  <2>2. QED BY <1>8, <2>1, ChunkItemFields DEF ShiftedOf
<1>9. CASE w.kind = "FORWARD_TSN"
  <2>1. NewChunk(w) = WithIds("FORWARD_TSN", w)
    BY <1>9 DEF NewChunk, sctp_forward_tsn_chunk_new
  <2>2. QED BY <1>9, <2>1, WithIdsFields DEF ShiftedOf
<1>10. QED BY <1>1, <1>2, <1>3, <1>4, <1>5, <1>6, <1>7, <1>8, <1>9

(* What InboundNumbersWritten says of one chunk. *)
NumbersWritten(w) ==
  /\ \A f \in ShiftedNumbers \cap DOMAIN w.val : w.val[f] # Open \/ NotRequired(w, f)
  /\ w.kind = "CHUNK" /\ NewChunk(w).type \in {"DATA", "SHUTDOWN"} => BytesWritten(w) \/ BytesNotRequired(w)
  /\ \A j \in DOMAIN ListOf(w) :
       LET p == ListOf(w)[j] IN
       \A f \in ShiftedItemNumbers \cap DOMAIN p.val : p.val[f] # Open \/ ItemNotRequired(p, f)

(* new_sctp_packet requires every shifted number but the TSN of INIT and INIT_ACK. *)
LEMMA RequiredNumbers ==
  ASSUME NEW k \in {"DATA", "INIT", "INIT_ACK", "SACK", "NR_SACK", "SHUTDOWN", "ECNE", "CWR",
                    "FORWARD_TSN"}
  PROVE  \A f \in ShiftedOf(k) : f \in RequiredOfChunk(k) \/ (k \in {"INIT", "INIT_ACK"} /\ f = "tsn")
BY DEF ShiftedOf, RequiredOfChunk

(* The bytes of a chunk are required where its length is. *)
LEMMA OpenBytesRefused ==
  ASSUME NEW w, w.kind = "CHUNK", w.val.type # "SHUTDOWN", w.val.len = Open,
         NewChunk(w).type \in {"DATA", "SHUTDOWN"}
  PROVE  TooOpen(NewChunk(w))
<1> DEFINE k == IF w.val.type = Open THEN "DATA" ELSE w.val.type
           c == ChunkItem(k, w, {"flgs"})
           len == Value(w.val.len)
           v == w.val.value
           value == IF v = Open THEN [i \in 1..len |-> 0] ELSE IF v = Short THEN <<>> ELSE v
           flags == Flags(w.val.type = Open, {"type"}) \cup Flags(w.val.len = Open, {"length"})
                      \cup Flags(v = Open, {"value"}) \cup Flags(v = Short, {"partial"})
<1>1. NewChunk(w) = Sized(c, len, value, flags)
  BY DEF NewChunk, sctp_generic_chunk_new
<1>2. DOMAIN c = ItemFields /\ c.type = k
  BY ChunkItemFields
<1>3. "length" \in flags
  BY DEF Flags
<1> HIDE DEF c, len, value, flags, k
<1>4. NewChunk(w).type = k /\ "length" \in NewChunk(w).nocheck
  BY <1>1, <1>2, <1>3 DEF Sized, ItemFields
<1>5. k = "DATA"
  BY <1>4 DEF k
<1>6. "length" \in RequiredOfChunk("DATA")
  BY DEF RequiredOfChunk
<1>7. QED BY <1>4, <1>5, <1>6 DEF TooOpen

(* A chunk that new_sctp_packet accepts has all of its shifted numbers. *)
LEMMA OpenNumbersRefused ==
  ASSUME NEW k, NEW w \in WrittenChunks(k), ~TooOpen(NewChunk(w))
  PROVE  NumbersWritten(w)
<1>1. Shape(k, w)
  BY WrittenShape
<1>2. ASSUME NEW f \in ShiftedNumbers \cap DOMAIN w.val, w.val[f] = Open
      PROVE  NotRequired(w, f)
  <2>1. w.kind = k /\ f \in ShiftedOf(k)
    BY <1>1 DEF Shape
  <2>2. CASE k \in {"I_DATA", "I_FORWARD_TSN"}
    BY <2>1, <2>2 DEF NotRequired
  <2>3. CASE k \in {"DATA", "INIT", "INIT_ACK", "SACK", "NR_SACK", "SHUTDOWN", "ECNE", "CWR", "FORWARD_TSN"}
    <3>1. NewChunk(w).type = k /\ f \in NewChunk(w).nocheck
      BY <1>2, <2>1, <2>3, OpenNumbersFlagged
    <3>2. f \notin RequiredOfChunk(k)
      BY <3>1 DEF TooOpen
    <3>3. QED BY <2>1, <2>3, <3>2, RequiredNumbers DEF NotRequired
  <2>4. QED BY <2>1, <2>2, <2>3 DEF ShiftedOf
<1>3. ASSUME NEW j \in DOMAIN ListOf(w), NEW f \in ShiftedItemNumbers \cap DOMAIN ListOf(w)[j].val,
             ListOf(w)[j].val[f] = Open
      PROVE  ItemNotRequired(ListOf(w)[j], f)
  <2>1. CASE k # "RECONFIG"
    BY <1>1, <1>3, <2>1 DEF Shape, ItemsPlain, NoNumbers
  <2>2. CASE k = "RECONFIG"
    <3> DEFINE ps == w.val.params
               item == ChunkItem("RECONFIG", w, {"flgs"})
    <3>1. w.kind = k /\ ListOf(w) = List(ps) /\ ps \in Lists(ReconfigParameters, {})
      BY <1>1, <2>2 DEF Shape, ListOf
    <3>2. List(ps) = ps /\ ps[j] \in ReconfigParameters
      BY <3>1, ListElements
    <3>3. NumbersKept(ps[j])
      BY <3>2, ReconfigParametersKept
    <3>4. NewChunk(w) = WithParameters(item, w, {})
      BY <2>2, <3>1 DEF NewChunk, sctp_reconfig_chunk_new
    <3>5. NewChunk(w).type = "RECONFIG" /\ NewChunk(w).items = sctp_parameter_list_append(ps)
      BY <3>4, ChunkItemFields, WithParametersFields
    <3>6. j \in DOMAIN NewChunk(w).items /\ NewChunk(w).items[j] = Parameter(ps[j])
      BY <3>1, <3>5 DEF sctp_parameter_list_append
    <3>7. Parameter(ps[j]).nocheck \cap RequiredOfParameter(Parameter(ps[j]).type) = {}
      BY <3>5, <3>6 DEF TooOpen, HasParameters
    <3>8. ps[j].val[f] = Open /\ f \in ShiftedItemNumbers \cap DOMAIN ps[j].val
      BY <1>3, <3>1, <3>2
    <3>9. QED BY <3>1, <3>2, <3>3, <3>7, <3>8 DEF NumbersKept
  <2>3. QED BY <2>1, <2>2
<1>4. w.kind = "CHUNK" /\ NewChunk(w).type \in {"DATA", "SHUTDOWN"} => BytesNotRequired(w)
  BY OpenBytesRefused DEF BytesNotRequired
<1>5. QED BY <1>2, <1>3, <1>4 DEF NumbersWritten

(* All chunks of scripts. *)
AllWritten == UNION {WrittenChunks(k) : k \in Kinds}

(* The inductive invariant: items are what the constructors make of the chunks written. *)
ChunkInv ==
  /\ written \in Seq(AllWritten) /\ items \in Seq({NewChunk(w) : w \in AllWritten})
  /\ Len(items) = Len(written)
  /\ \A i \in 1..Len(written) : items[i] = NewChunk(written[i])
  /\ direction = "inbound" /\ verdict = {"made"} => \A i \in DOMAIN items : ~TooOpen(items[i])

(* It holds before the first chunk, *)
LEMMA ChunkInvInit == ChunkInit => ChunkInv
BY DEF ChunkInit, ChunkInv

(* and every step keeps it. *)
LEMMA ChunkInvStep == ChunkInv /\ [ChunkNext]_chunkVars => ChunkInv'
<1> SUFFICES ASSUME ChunkInv, [ChunkNext]_chunkVars PROVE ChunkInv'
  OBVIOUS
<1>1. ASSUME NEW k \in Kinds, NEW w \in WrittenChunks(k), sctp_chunk_list_append(w)
      PROVE  ChunkInv'
  <2>1. w \in AllWritten
    BY DEF AllWritten
  <2>2. written' = Append(written, w) /\ items' = Append(items, NewChunk(w))
    BY <1>1 DEF sctp_chunk_list_append
  <2>3. written' \in Seq(AllWritten) /\ items' \in Seq({NewChunk(v) : v \in AllWritten})
    BY <2>1, <2>2 DEF ChunkInv
  <2>4. Len(items') = Len(written') /\ \A i \in 1..Len(written') : items'[i] = NewChunk(written'[i])
    <3> DEFINE Made == {NewChunk(v) : v \in AllWritten}
    <3>1. NewChunk(w) \in Made
      BY <2>1
    <3> HIDE DEF Made
    <3>2. items \in Seq(Made) /\ written \in Seq(AllWritten)
      BY DEF ChunkInv, Made
    <3>3. Len(items) = Len(written) /\ \A i \in 1..Len(written) : items[i] = NewChunk(written[i])
      BY DEF ChunkInv
    <3>4. QED BY <2>1, <2>2, <3>1, <3>2, <3>3
  <2>5. direction' = "none"
    BY <1>1 DEF sctp_chunk_list_append
  <2>6. QED BY <2>3, <2>4, <2>5 DEF ChunkInv
<1>2. ASSUME NEW dir \in {"inbound", "outbound"}, NEW bad_crc32c \in BOOLEAN, new_sctp_packet(dir, bad_crc32c)
      PROVE  ChunkInv'
  <2>1. /\ UNCHANGED <<written, items>> /\ direction' = dir
        /\ verdict' = {IF Refused(dir, bad_crc32c) THEN "refused" ELSE "made"}
    BY <1>2 DEF new_sctp_packet
  <2>2. ASSUME dir = "inbound", verdict' = {"made"} PROVE \A i \in DOMAIN items : ~TooOpen(items[i])
    <3>1. ~Refused(dir, bad_crc32c)
      BY <2>1, <2>2
    <3>2. QED BY <2>2, <3>1 DEF Refused
  <2>3. QED BY <2>1, <2>2 DEF ChunkInv
<1>3. ASSUME NEW ls \in LivePackets, verify_outbound(ls)
      PROVE  ChunkInv'
  BY <1>3 DEF verify_outbound, ChunkInv
<1>4. CASE next_event
  BY <1>4 DEF next_event, ChunkInv
<1>5. CASE UNCHANGED chunkVars
  BY <1>5 DEF chunkVars, ChunkInv
<1>6. QED BY <1>1, <1>2, <1>3, <1>4, <1>5 DEF ChunkNext

(* A packet to be sent is accepted by new_sctp_packet only with its shifted
   numbers written, in bundles of any length. *)
THEOREM NumbersOfInboundPackets == ChunkSpec => []InboundNumbersWritten
<1>1. ChunkInv => InboundNumbersWritten
  <2> SUFFICES ASSUME ChunkInv, direction = "inbound" /\ verdict = {"made"}, NEW i \in DOMAIN written
               PROVE  NumbersWritten(written[i]) /\ items[i] = NewChunk(written[i])
    BY DEF InboundNumbersWritten, NumbersWritten, GenericNumbers
  <2>1. written[i] \in AllWritten /\ i \in 1..Len(written) /\ i \in DOMAIN items
    BY DEF ChunkInv
  <2>2. PICK k \in Kinds : written[i] \in WrittenChunks(k)
    BY <2>1 DEF AllWritten
  <2>3. ~TooOpen(NewChunk(written[i]))
    BY <2>1 DEF ChunkInv
  <2>4. items[i] = NewChunk(written[i])
    BY <2>1 DEF ChunkInv
  <2>5. QED BY <2>2, <2>3, <2>4, OpenNumbersRefused
<1>2. QED BY <1>1, ChunkInvInit, ChunkInvStep, PTL DEF ChunkSpec

------------------------------------------------------------------------------
(***************************************************************************)
(* The verdict of verify_sctp.  Every item a constructor makes stands for  *)
(* what was written: a flag for what is open, the written value elsewhere. *)
(* So the status of each parameter, cause and chunk is right (ItemRight,   *)
(* ListRight, ChunkRight), for either content of the memory behind the     *)
(* chunks, and that of the packet is, for bundles of any length.           *)
(***************************************************************************)

(* The natural numbers are well-ordered. *)
LEMMA Minimal ==
  ASSUME NEW R, IsWellFoundedOn(R, Nat), NEW S, S \subseteq Nat, S # {}
  PROVE  \E n \in S : \A m \in S : ~(<<m, n>> \in R)
BY WFMin

(* A set of numbers has a least one for any well-founded order that < refines, *)
LEMMA LeastIn ==
  ASSUME NEW R, IsWellFoundedOn(R, Nat), \A x, y \in Nat : x < y => <<x, y>> \in R,
         NEW S, S \subseteq Nat, S # {}
  PROVE  \E n \in S : \A m \in S : n <= m
<1>1. PICK n \in S : \A m \in S : ~(<<m, n>> \in R)
  BY Zenon, Minimal
<1>2. ASSUME NEW m \in S PROVE n <= m
  <2>1. m \in Nat /\ n \in Nat
    OBVIOUS
  <2>2. ~(m < n)
    BY <1>1, <2>1, Zenon
  <2>3. QED BY <2>1, <2>2
<1>3. QED BY <1>2

(* and for < itself. *)
LEMMA Least == ASSUME NEW S, S \subseteq Nat, S # {} PROVE \E n \in S : \A m \in S : n <= m
<1>1. \A x, y \in Nat : x < y => <<x, y>> \in OpToRel(<, Nat)
  BY DEF OpToRel
<1>2. QED BY <1>1, NatLessThanWellFounded, LeastIn, Zenon

(* The smaller of two numbers. *)
LEMMA MinTwo == ASSUME NEW a \in Nat, NEW b \in Nat PROVE Min({a, b}) = IF a <= b THEN a ELSE b
<1>1. \E x \in {a, b} : \A y \in {a, b} : x =< y
  OBVIOUS
<1>2. Min({a, b}) \in {a, b} /\ \A y \in {a, b} : Min({a, b}) =< y
  BY <1>1 DEF Min
<1>3. QED BY <1>2

(* The first error is found, if there is one. *)
LEMMA FirstBadFound ==
  ASSUME NEW n \in Nat, NEW s, DOMAIN s = 1..n
  PROVE  \/ FirstBad(s) = "ok" /\ \A i \in 1..n : s[i] = "ok"
         \/ \E i \in 1..n : FirstBad(s) = s[i] /\ s[i] # "ok" /\ \A j \in 1..(i - 1) : s[j] = "ok"
<1>1. CASE \A i \in 1..n : s[i] = "ok"
  BY <1>1 DEF FirstBad
<1>2. CASE ~\A i \in 1..n : s[i] = "ok"
  <2> DEFINE B == {i \in 1..n : s[i] # "ok"}
             First(i) == s[i] # "ok" /\ \A j \in 1..(i - 1) : s[j] = "ok"
  <2>1. PICK m \in B : \A k \in B : m <= k
    <3>1. B \subseteq Nat /\ B # {}
      BY <1>2
    <3> HIDE DEF B
    <3>2. QED BY <3>1, Least
  <2>2. m \in 1..n /\ First(m)
    <3>1. \A j \in 1..(m - 1) : j \in 1..n /\ ~(m <= j)
      OBVIOUS
    <3>2. QED BY <2>1, <3>1
  <2>3. \E i \in 1..n : First(i)
    BY <2>2
  <2>4. FirstBad(s) = s[CHOOSE i \in 1..n : First(i)]
    BY <1>2 DEF FirstBad
  <2>5. (CHOOSE i \in 1..n : First(i)) \in 1..n /\ First(CHOOSE i \in 1..n : First(i))
    <3> HIDE DEF First
    <3>1. QED BY <2>3
  <2>6. QED BY <2>4, <2>5
<1>3. QED BY <1>1, <1>2

(* What that says of all of them. *)
LEMMA FirstBadFacts ==
  ASSUME NEW n \in Nat, NEW s, DOMAIN s = 1..n
  PROVE  /\ FirstBad(s) = "ok" <=> \A i \in 1..n : s[i] = "ok"
         /\ FirstBad(s) = "dies" => \E i \in 1..n : s[i] = "dies"
BY FirstBadFound

(* Three checks, one after the other. *)
LEMMA FirstOfThree ==
  ASSUME NEW a, NEW b, NEW c
  PROVE  FirstBad(<<a, b, c>>) = IF a # "ok" THEN a ELSE IF b # "ok" THEN b ELSE c
<1> DEFINE s == <<a, b, c>>
<1>1. DOMAIN s = 1..3 /\ s[1] = a /\ s[2] = b /\ s[3] = c
  OBVIOUS
<1> HIDE DEF s
<1>2. \/ FirstBad(s) = "ok" /\ \A i \in 1..3 : s[i] = "ok"
      \/ \E i \in 1..3 : FirstBad(s) = s[i] /\ s[i] # "ok" /\ \A j \in 1..(i - 1) : s[j] = "ok"
  BY <1>1, FirstBadFound
<1>3. CASE FirstBad(s) = "ok" /\ \A i \in 1..3 : s[i] = "ok"
  BY <1>1, <1>3 DEF s
<1>4. ASSUME NEW i \in 1..3, FirstBad(s) = s[i], s[i] # "ok", \A j \in 1..(i - 1) : s[j] = "ok"
      PROVE  FirstBad(s) = IF a # "ok" THEN a ELSE IF b # "ok" THEN b ELSE c
  <2>1. i = 1 \/ i = 2 \/ i = 3
    OBVIOUS
  <2>2. (i = 2 => s[1] = "ok") /\ (i = 3 => s[1] = "ok" /\ s[2] = "ok")
    BY <1>4
  <2>3. QED BY <1>1, <1>4, <2>1, <2>2
<1>5. QED BY <1>2, <1>3, <1>4 DEF s

(* Folds over one element. *)
CatStep(s, g) ==
  [t \in SUBSET DOMAIN s |-> IF t = {} THEN <<>> ELSE LET x == Max(t) IN g[t \ {x}] \o s[x]]
(* The same for sums. *)
TotalStep(s, g) ==
  [t \in SUBSET DOMAIN s |-> IF t = {} THEN 0 ELSE LET x == Max(t) IN g[t \ {x}] + s[x]]

(* What Cat chooses. *)
LEMMA CatDef == ASSUME NEW s PROVE Cat(s) = (CHOOSE g : g = CatStep(s, g))[DOMAIN s]
BY DEF Cat, FoldLeft, MapThenFoldSet, CatStep

(* The same for Total. *)
LEMMA TotalDef == ASSUME NEW s PROVE Total(s) = (CHOOSE g : g = TotalStep(s, g))[DOMAIN s]
BY DEF Total, FoldLeft, MapThenFoldSet, TotalStep

(* The largest number of a singleton. *)
LEMMA MaxOne == Max({1}) = 1
BY DEF Max

(* Joining the sequences of a list of one, *)
LEMMA CatOne == ASSUME NEW s, DOMAIN s = {1} PROVE Cat(s) = <<>> \o s[1]
<1> DEFINE h == [t \in SUBSET DOMAIN s |-> IF t = {} THEN <<>> ELSE <<>> \o s[1]]
           g == CHOOSE g : g = CatStep(s, g)
<1>1. h = CatStep(s, h)
  <2>1. \A t \in SUBSET {1} : t = {} \/ t = {1}
    OBVIOUS
  <2>2. Max({1}) = 1 /\ {1} \ {1} = {} /\ h[{}] = <<>>
    BY MaxOne
  <2>3. \A t \in SUBSET DOMAIN s : h[t] = IF t = {} THEN <<>> ELSE h[t \ {Max(t)}] \o s[Max(t)]
    BY <2>1, <2>2
  <2> HIDE DEF h
  <2>4. QED BY <2>3 DEF CatStep, h
<1>2. g = CatStep(s, g)
  <2> HIDE DEF h
  <2>1. \E z : z = CatStep(s, z)
    BY <1>1
  <2>2. QED BY <2>1
<1> HIDE DEF g, h
<1>3. Cat(s) = g[{1}]
  BY CatDef DEF g
<1>4. g[{}] = <<>>
  BY <1>2 DEF CatStep
<1>5. g[{1}] = g[{1} \ {1}] \o s[1]
  BY <1>2, MaxOne DEF CatStep
<1>6. {1} \ {1} = {}
  OBVIOUS
<1>7. QED BY <1>3, <1>4, <1>5, <1>6

(* and adding up its numbers. *)
LEMMA TotalOne == ASSUME NEW s, DOMAIN s = {1} PROVE Total(s) = 0 + s[1]
<1> DEFINE h == [t \in SUBSET DOMAIN s |-> IF t = {} THEN 0 ELSE 0 + s[1]]
           g == CHOOSE g : g = TotalStep(s, g)
<1>1. h = TotalStep(s, h)
  <2>1. \A t \in SUBSET {1} : t = {} \/ t = {1}
    OBVIOUS
  <2>2. Max({1}) = 1 /\ {1} \ {1} = {} /\ h[{}] = 0
    BY MaxOne
  <2>3. \A t \in SUBSET DOMAIN s : h[t] = IF t = {} THEN 0 ELSE h[t \ {Max(t)}] + s[Max(t)]
    BY <2>1, <2>2
  <2> HIDE DEF h
  <2>4. QED BY <2>3 DEF TotalStep, h
<1>2. g = TotalStep(s, g)
  <2> HIDE DEF h
  <2>1. \E z : z = TotalStep(s, z)
    BY <1>1
  <2>2. QED BY <2>1
<1> HIDE DEF g, h
<1>3. Total(s) = g[{1}]
  BY TotalDef DEF g
<1>4. g[{}] = 0
  BY <1>2 DEF TotalStep
<1>5. g[{1}] = g[{1} \ {1}] + s[1]
  BY <1>2, MaxOne DEF TotalStep
<1>6. {1} \ {1} = {}
  OBVIOUS
<1>7. QED BY <1>3, <1>4, <1>5, <1>6

(* Items whose value is a string of bytes. *)
ValueItem(p, q) ==
  /\ p.type \notin ReconfigTypes \cup {"0"}
  /\ q.nocheck \subseteq {"type", "length", "value", "partial"}
  /\ "type" \in q.nocheck => p.type = Open /\ ~OpenPad(p)
  /\ "type" \notin q.nocheck => q.type = p.type
  /\ "length" \in q.nocheck => p.length = Open
  /\ "length" \notin q.nocheck => p.length = q.length /\ q.length \in 0..2
  /\ "partial" \notin q.nocheck => q.bytes = q.length
  /\ "value" \in q.nocheck => OpenWithin(p) \/ \A l : ValueFits(p, l)
  /\ "value" \notin q.nocheck /\ "length" \in q.nocheck => OpenPad(p)
  /\ q.nocheck \cap {"length", "value", "partial"} = {} =>
       /\ q.val.value \in Seq(Nat) /\ Len(q.val.value) = q.length
       /\ \A l : "value" \in DOMAIN l.val /\ l.val.value \in Seq(Nat) =>
            /\ q.val.value = l.val.value => ValueFits(p, l)
            /\ ValueFits(p, l) => q.val.value = l.val.value \/ ItemCheckedThoughOpen(p)

(* A single value fits when it is open or the one that was sent. *)
LEMMA PlainFits ==
  ASSUME NEW p, NEW v, p.val = [value |-> v], NEW l
  PROVE  ValueFits(p, l) <=> v = Open \/ ("value" \in DOMAIN l.val /\ v = l.val.value)
BY DEF ValueFits

(* "..." and a short value are neither numbers nor bytes. *)
LEMMA OpenMarks ==
  /\ Open # Short
  /\ \A n \in Nat : Open # n /\ Short # n
  /\ \A s \in Seq(Nat) : Open # s /\ Short # s
BY MarkersAssumption

(* The byte strings of at most one byte. *)
LEMMA Small == /\ <<>> \in Seq(Nat) /\ <<0>> \in Seq(Nat) /\ <<1>> \in Seq(Nat)
               /\ Len(<<>>) = 0 /\ Len(<<0>>) = 1 /\ Len(<<1>>) = 1
OBVIOUS

(* One value that is written or left open. *)
PlainStored(p, q, v) ==
  /\ p.val = [value |-> v] /\ p.type \notin ReconfigTypes \cup {"0"}
  /\ q.nocheck \subseteq {"type", "length", "value", "partial"}
  /\ "type" \in q.nocheck => p.type = Open /\ ~OpenPad(p)
  /\ "type" \notin q.nocheck => q.type = p.type
  /\ "length" \in q.nocheck => p.length = Open
  /\ "length" \notin q.nocheck => p.length = q.length /\ q.length \in 0..2
  /\ "partial" \notin q.nocheck => q.bytes = q.length
  /\ "value" \in q.nocheck => v = Open
  /\ "value" \notin q.nocheck /\ "length" \in q.nocheck => OpenPad(p)
  /\ q.nocheck \cap {"length", "value", "partial"} = {} =>
       /\ q.val.value \in Seq(Nat) /\ Len(q.val.value) = q.length
       /\ q.val.value = v \/ (v = Open /\ ItemCheckedThoughOpen(p))

(* Such an item is one whose value is a string of bytes. *)
LEMMA PlainItem ==
  ASSUME NEW p, NEW q, NEW v, PlainStored(p, q, v)
  PROVE  ValueItem(p, q)
<1> USE DEF PlainStored
<1>1. \A l : ValueFits(p, l) <=> v = Open \/ ("value" \in DOMAIN l.val /\ v = l.val.value)
  BY PlainFits
<1>2. "value" \in q.nocheck => \A l : ValueFits(p, l)
  BY <1>1
<1>3. ASSUME q.nocheck \cap {"length", "value", "partial"} = {}, NEW l, "value" \in DOMAIN l.val,
             l.val.value \in Seq(Nat)
      PROVE  /\ q.val.value = l.val.value => ValueFits(p, l)
             /\ ValueFits(p, l) => q.val.value = l.val.value \/ ItemCheckedThoughOpen(p)
  <2>1. v \in Seq(Nat) => v # Open
    BY OpenMarks
  <2>2. QED BY <1>1, <1>3, <2>1
<1>4. QED BY <1>2, <1>3 DEF ValueItem

(* A value of known size: sctp_ipv4_address_parameter_new and the like. *)
LEMMA FixedItems ==
  ASSUME NEW k, k \notin ReconfigTypes \cup {"0"}, NEW v \in {Open, << 1 >>}
  PROVE  ValueItem(Plain(k, 1, v), FixedSize(Plain(k, 1, v)))
<1> DEFINE p == Plain(k, 1, v)
           q == FixedSize(p)
<1>1. p.kind = k /\ p.type = k /\ p.length = 1 /\ p.val = [value |-> v]
  BY DEF Plain, Par
<1>2. /\ q.type = k /\ q.length = 1 /\ q.bytes = 1 /\ q.nocheck = Flags(v = Open, {"value"})
      /\ q.val.value = IF v = Open THEN <<0>> ELSE v
  BY <1>1 DEF FixedSize, Tlv
<1> HIDE DEF p, q
<1>3. q.nocheck \subseteq {"value"} /\ ("value" \in q.nocheck <=> v = Open)
  BY <1>2 DEF Flags
<1>4. "value" \notin q.nocheck => q.val.value = <<1>> /\ v = <<1>>
  BY <1>2, <1>3
<1>5. "value" \notin q.nocheck => q.val.value \in Seq(Nat) /\ Len(q.val.value) = 1 /\ q.val.value = v
  BY <1>4, Small
<1>6. q.type = k /\ q.length = 1 /\ q.bytes = 1
  BY <1>2
<1>7. PlainStored(p, q, v)
  BY <1>1, <1>3, <1>5, <1>6 DEF PlainStored
<1>8. QED BY <1>7, PlainItem DEF p, q

(* A value whose size is open with it: sctp_hostname_address_parameter_new and the like. *)
LEMMA OpenItem ==
  ASSUME NEW k, k \notin ReconfigTypes \cup {"0"}, NEW n, NEW v,
         \/ n = Open /\ v = Open
         \/ n = 0 /\ v = <<>>
         \/ n = 1 /\ v = << 1 >>
  PROVE  ValueItem(Plain(k, n, v), OpenSize(Plain(k, n, v)))
<1> DEFINE p == Plain(k, n, v)
           q == OpenSize(p)
<1>1. p.kind = k /\ p.type = k /\ p.length = n /\ p.val = [value |-> v]
  BY DEF Plain, Par
<1>2. /\ q.type = k /\ q.nocheck = Flags(v = Open, {"length", "value"})
      /\ q.val.value = List(v) /\ q.length = Len(List(v)) /\ q.bytes = q.length
  BY <1>1 DEF OpenSize, Tlv
<1> HIDE DEF p, q
<1>3. CASE v = Open
  <2>1. q.nocheck = {"length", "value"} /\ n = Open
    BY <1>2, <1>3, OpenMarks, Small DEF Flags
  <2>2. PlainStored(p, q, v)
    BY <1>1, <1>2, <1>3, <2>1 DEF PlainStored
  <2>3. QED BY <2>2, PlainItem DEF p, q
<1>4. CASE v # Open
  <2>1. v \in Seq(Nat) /\ Len(v) = n /\ n \in 0..2
    <3>1. v \in Seq(Nat) /\ Len(v) = n
      BY <1>4, Small, Zenon
    <3>2. n \in 0..2
      BY <1>4
    <3>3. QED BY <3>1, <3>2
  <2>2. q.nocheck = {} /\ q.val.value = v /\ q.length = Len(v)
    BY <1>2, <1>4 DEF Flags, List
  <2>3. PlainStored(p, q, v)
    BY <1>1, <1>2, <2>1, <2>2 DEF PlainStored
  <2>4. QED BY <2>3, PlainItem DEF p, q
<1>5. QED BY <1>3, <1>4

(* Parameters and causes of which "..." hides value and size, *)
LEMMA OpenItems ==
  ASSUME NEW k, k \notin ReconfigTypes \cup {"0"}, NEW p \in OpenOf(k)
  PROVE  ValueItem(p, OpenSize(p))
<1>1. p = Plain(k, Open, Open) \/ p = Plain(k, 0, <<>>) \/ p = Plain(k, 1, <<1>>)
  BY DEF OpenOf
<1>2. /\ ValueItem(Plain(k, Open, Open), OpenSize(Plain(k, Open, Open)))
      /\ ValueItem(Plain(k, 0, <<>>), OpenSize(Plain(k, 0, <<>>)))
      /\ ValueItem(Plain(k, 1, <<1>>), OpenSize(Plain(k, 1, <<1>>)))
  BY OpenItem
<1>3. QED BY <1>1, <1>2, Zenon

(* Items without a value. *)
LEMMA EmptyItems ==
  ASSUME NEW k, k \notin ReconfigTypes \cup {"0"}
  PROVE  ValueItem(Plain(k, 0, <<>>), Tlv(Plain(k, 0, <<>>), <<>>, 0, {}))
<1> DEFINE p == Plain(k, 0, <<>>)
           q == Tlv(p, <<>>, 0, {})
<1>1. p.kind = k /\ p.type = k /\ p.length = 0 /\ p.val = [value |-> <<>>]
  BY DEF Plain, Par
<1>2. q.type = k /\ q.length = 0 /\ q.bytes = 0 /\ q.nocheck = {} /\ q.val.value = <<>>
  BY <1>1 DEF Tlv
<1> HIDE DEF p, q
<1>3. PlainStored(p, q, <<>>)
  BY <1>1, <1>2, Small DEF PlainStored
<1>4. QED BY <1>3, PlainItem DEF p, q

(* STATE_COOKIE and PAD, whose value is never written. *)
LEMMA CookieItems ==
  ASSUME NEW n \in {Open, 1}
  PROVE  LET p == Plain("STATE_COOKIE", n, Open) IN ValueItem(p, sctp_state_cookie_parameter_new(p))
<1> DEFINE p == Plain("STATE_COOKIE", n, Open)
           q == sctp_state_cookie_parameter_new(p)
<1>1. p.type = "STATE_COOKIE" /\ p.length = n /\ p.val = [value |-> Open]
  BY DEF Plain, Par
<1>2. /\ q.type = "STATE_COOKIE" /\ q.nocheck = Flags(n = Open, {"length"}) \cup {"value"}
      /\ q.length = (IF n = Open THEN 0 ELSE n) /\ q.bytes = q.length
  BY <1>1 DEF sctp_state_cookie_parameter_new, Tlv, Stored
<1> HIDE DEF p, q
<1>3. q.nocheck \subseteq {"length", "value"} /\ "value" \in q.nocheck /\ ("length" \in q.nocheck <=> n = Open)
  BY <1>2 DEF Flags
<1>4. PlainStored(p, q, Open)
  BY <1>1, <1>2, <1>3 DEF PlainStored, ReconfigTypes
<1>5. QED BY <1>4, PlainItem DEF p, q

(* paddings, *)
LEMMA PadItems ==
  ASSUME NEW n \in {Open, 1}
  PROVE  LET p == Plain("PAD", n, Open) IN ValueItem(p, sctp_pad_parameter_new(p))
<1> DEFINE p == Plain("PAD", n, Open)
           q == sctp_pad_parameter_new(p)
<1>1. [i \in 1..1 |-> 1] \in Seq(Nat) /\ Len([i \in 1..1 |-> 1]) = 1
  OBVIOUS
<1>2. p.kind = "PAD" /\ p.type = "PAD" /\ p.length = n /\ p.val = [value |-> Open]
  BY DEF Plain, Par
<1>3. /\ q.type = "PAD" /\ q.nocheck = Flags(n = Open, {"length"})
      /\ q.length = (IF n = Open THEN 0 ELSE n) /\ q.bytes = q.length
      /\ n = 1 /\ n # Open => q.val.value = [i \in 1..1 |-> 1]
  BY <1>2 DEF sctp_pad_parameter_new, Tlv, Stored
<1> HIDE DEF p, q
<1>4. ItemCheckedThoughOpen(p) /\ (n = Open => OpenPad(p))
  BY <1>2 DEF ItemCheckedThoughOpen, OpenPad
<1>5. q.nocheck \subseteq {"length"} /\ ("length" \in q.nocheck <=> n = Open)
  BY <1>3 DEF Flags
<1>6. n # Open => q.val.value \in Seq(Nat) /\ Len(q.val.value) = q.length
  BY <1>1, <1>3
<1>7. PlainStored(p, q, Open)
  BY <1>2, <1>3, <1>4, <1>5, <1>6 DEF PlainStored, ReconfigTypes
<1>8. QED BY <1>7, PlainItem DEF p, q

(* PARAMETER and CAUSE: type, length and value on their own. *)
LEMMA GenericItem ==
  ASSUME NEW k \in {"PARAMETER", "CAUSE"}, NEW t \in {Open, "UNKNOWN"}, NEW n, NEW v,
         \/ n = Open /\ v = Open
         \/ n = 1 /\ v \in {Open, Short, << 1 >>}
         \/ n = 0 /\ v = <<>>
  PROVE  LET p == Par(k, t, n, [value |-> v]) IN
         /\ ValueItem(p, sctp_generic_parameter_new(p))
         /\ "sub" \notin DOMAIN p.val /\ "chunk" \notin DOMAIN p.val
<1> DEFINE p == Par(k, t, n, [value |-> v])
           q == sctp_generic_parameter_new(p)
<1>1. p.kind = k /\ p.type = t /\ p.length = n /\ p.val = [value |-> v]
  BY DEF Par
<1>2. /\ q.type = (IF t = Open THEN "0" ELSE t)
      /\ q.length = (IF n = Open THEN 0 ELSE n)
      /\ q.bytes = (IF v = Short THEN 0 ELSE q.length)
      /\ q.val.value = (IF v \in {Open, Short} THEN <<>> ELSE v)
      /\ q.nocheck = Flags(t = Open, {"type"}) \cup Flags(n = Open, {"length"})
                       \cup Flags(v = Open, {"value"}) \cup Flags(v = Short, {"partial"})
  BY <1>1 DEF sctp_generic_parameter_new, Stored
<1> HIDE DEF p, q
<1>3. t \notin ReconfigTypes /\ ~OpenPad(p)
  BY <1>1, MarkersAssumption DEF ReconfigTypes, OpenPad
<1>4. /\ q.nocheck \subseteq {"type", "length", "value", "partial"}
      /\ "type" \in q.nocheck <=> t = Open
      /\ "length" \in q.nocheck <=> n = Open
      /\ "value" \in q.nocheck <=> v = Open
      /\ "partial" \in q.nocheck <=> v = Short
  BY <1>2 DEF Flags
<1>5. n # Open => n \in 0..2
  OBVIOUS
<1>6. ASSUME v # Open, v # Short PROVE v \in Seq(Nat) /\ Len(v) = n /\ n # Open
  <2>1. v \in Seq(Nat) /\ Len(v) = n
    BY <1>6, Small, Zenon
  <2>2. QED BY <1>6, <2>1, OpenMarks
<1>7. n = Open => v = Open
  BY OpenMarks, Small
<1>8. t # "0"
  BY MarkersAssumption
<1>9. v = Short /\ v # Open => n = 1
  BY OpenMarks, Small
<1>10. /\ "type" \notin q.nocheck => q.type = t
       /\ "length" \notin q.nocheck => q.length = n
       /\ "partial" \notin q.nocheck => q.bytes = q.length
       /\ "value" \notin q.nocheck /\ "partial" \notin q.nocheck => q.val.value = v
  BY <1>2, <1>4
<1>11. PlainStored(p, q, v)
  BY <1>1, <1>3, <1>4, <1>5, <1>6, <1>7, <1>8, <1>10 DEF PlainStored
<1>12. QED BY <1>1, <1>11, PlainItem DEF p, q

(* and those given by type, length and bytes. *)
LEMMA GenericItems ==
  ASSUME NEW k \in {"PARAMETER", "CAUSE"}, NEW p \in GenericOf(k, {Open, "UNKNOWN"})
  PROVE  ValueItem(p, sctp_generic_parameter_new(p))
<1>1. PICK t \in {Open, "UNKNOWN"},
           w \in {<<Open, Open>>, <<1, Open>>, <<1, Short>>, <<1, <<1>>>>, <<0, <<>>>>} :
        p = Par(k, t, w[1], [value |-> w[2]])
  BY DEF GenericOf
<1>2. \/ w[1] = Open /\ w[2] = Open
      \/ w[1] = 1 /\ w[2] \in {Open, Short, <<1>>}
      \/ w[1] = 0 /\ w[2] = <<>>
  OBVIOUS
<1>3. QED BY <1>1, <1>2, GenericItem

(* The elements of two sequences that are joined. *)
LEMMA Joining ==
  ASSUME NEW V, NEW e \in Seq(V), NEW f \in Seq(V)
  PROVE  \A i \in 1..(Len(e) + Len(f)) : (e \o f)[i] = IF i <= Len(e) THEN e[i] ELSE f[i - Len(e)]
OBVIOUS

(* Items that nest one parameter of one byte. *)
LEMMA TwoBytes ==
  ASSUME NEW b, NEW c, NEW V, b \in V, c \in V, NEW f \in [1..1 -> V], f[1] = c
  PROVE  LET s == <<>> \o (<<b>> \o f) IN s \in Seq(V) /\ Len(s) = 2 /\ s[1] = b /\ s[2] = c
<1>1. f \in Seq(V) /\ Len(f) = 1
  OBVIOUS
<1>2. <<b>> \in Seq(V) /\ Len(<<b>>) = 1 /\ <<b>>[1] = b
  OBVIOUS
<1> DEFINE t == <<b>> \o f
<1>3. t \in Seq(V) /\ Len(t) = 2 /\ t[1] = b /\ t[2] = c
  <2> DEFINE e == <<b>>
  <2> HIDE DEF e
  <2>1. e \in Seq(V) /\ Len(e) = 1 /\ e[1] = b
    BY <1>2 DEF e
  <2>2. e \o f \in Seq(V) /\ Len(e \o f) = 2
    BY <1>1, <2>1
  <2>3. \A i \in 1..2 : (e \o f)[i] = IF i <= Len(e) THEN e[i] ELSE f[i - Len(e)]
    <3>1. f \in Seq(V) /\ e \in Seq(V)
      BY <1>1, <2>1
    <3>2. \A i \in 1..(Len(e) + Len(f)) : (e \o f)[i] = IF i <= Len(e) THEN e[i] ELSE f[i - Len(e)]
      BY <3>1, Joining, Zenon
    <3>3. Len(e) + Len(f) = 2
      BY <1>1, <2>1
    <3>4. QED BY <3>2, <3>3, Zenon
  <2>4. (e \o f)[1] = b
    BY <2>1, <2>3
  <2>5. (e \o f)[2] = c
    <3>1. (e \o f)[2] = f[2 - 1]
      BY <2>1, <2>3
    <3>2. 2 - 1 = 1
      OBVIOUS
    <3>3. QED BY <3>1, <3>2
  <2>6. QED BY <2>1, <2>2, <2>4, <2>5 DEF e
<1> HIDE DEF t
<1>4. <<>> \o t = t
  BY <1>3
<1>5. QED BY <1>3, <1>4 DEF t

(* What Nesting makes of a list of one parameter of one byte. *)
LEMMA NestedOne ==
  ASSUME NEW p, NEW a, p.val = [sub |-> <<a>>], <<a>> # Open, SubItem(a).bytes = 1,
         NEW c \in Nat, 1 \in DOMAIN SubItem(a).val.value => SubItem(a).val.value[1] = c,
         1 \notin DOMAIN SubItem(a).val.value => c = 0
  PROVE  LET q == Nesting(p)
             r == SubItem(a) IN
         /\ q.type = p.type /\ q.length = 2 /\ q.bytes = 2
         /\ q.nocheck = Flags("length" \in r.nocheck, {"length"}) \cup Flags("value" \in r.nocheck, {"value"})
         /\ q.val.value \in Seq(Nat) /\ Len(q.val.value) = 2
         /\ q.val.value[1] = (IF "type" \in r.nocheck THEN 0 ELSE 1) /\ q.val.value[2] = c
         /\ SubItems(p) = [i \in {1} |-> r]
<1> DEFINE r == SubItem(a)
           b == IF "type" \in r.nocheck THEN 0 ELSE 1
           qs == [i \in {1} |-> r]
<1>1. DOMAIN <<a>> = {1} /\ <<a>>[1] = a
  OBVIOUS
<1>2. SubItems(p) = qs
  BY <1>1 DEF SubItems, List
<1>3. ListLength(qs) = 2
  <2> DEFINE s == [i \in DOMAIN qs |-> 1 + qs[i].bytes]
  <2>1. DOMAIN s = {1} /\ s[1] = 2
    OBVIOUS
  <2> HIDE DEF s
  <2>2. Total(s) = 0 + s[1]
    BY <2>1, TotalOne
  <2>3. QED BY <2>1, <2>2 DEF ListLength, s
<1>4. Cat([i \in DOMAIN qs |-> Image(qs[i])]) = <<>> \o Image(r)
  <2> DEFINE s == [i \in DOMAIN qs |-> Image(qs[i])]
  <2>1. DOMAIN s = {1} /\ s[1] = Image(r)
    OBVIOUS
  <2> HIDE DEF s
  <2>2. QED BY <2>1, CatOne DEF s
<1>5. Image(r) = <<b>> \o Filled(r) /\ Filled(r) \in [1..1 -> Nat] /\ Filled(r)[1] = c
  BY DEF Image, Filled
<1>6. /\ SomeFlag(qs, "length") <=> "length" \in r.nocheck
      /\ SomeFlag(qs, "value") <=> "value" \in r.nocheck
  BY DEF SomeFlag
<1>7. p.val.sub = <<a>>
  OBVIOUS
<1> HIDE DEF qs, r
<1>8. Nesting(p) = Tlv(p, Cat([i \in DOMAIN qs |-> Image(qs[i])]), ListLength(qs),
                       Flags(p.val.sub = Open, {"length", "value"})
                         \cup Flags(SomeFlag(qs, "length"), {"length"})
                         \cup Flags(SomeFlag(qs, "value"), {"value"}))
  BY <1>2 DEF Nesting
<1>9. /\ Nesting(p).type = p.type /\ Nesting(p).length = 2 /\ Nesting(p).bytes = 2
      /\ Nesting(p).val.value = <<>> \o (<<b>> \o Filled(r))
      /\ Nesting(p).nocheck = Flags(p.val.sub = Open, {"length", "value"})
                                \cup Flags(SomeFlag(qs, "length"), {"length"})
                                \cup Flags(SomeFlag(qs, "value"), {"value"})
  <2> DEFINE n == Flags(p.val.sub = Open, {"length", "value"})
                    \cup Flags(SomeFlag(qs, "length"), {"length"})
                    \cup Flags(SomeFlag(qs, "value"), {"value"})
             v == <<>> \o (<<b>> \o Filled(r))
  <2>1. Nesting(p) = Tlv(p, v, 2, n)
    BY <1>3, <1>4, <1>5, <1>8, Zenon
  <2> HIDE DEF n, v
  <2>2. Nesting(p).type = p.type /\ Nesting(p).length = 2 /\ Nesting(p).bytes = 2 /\ Nesting(p).val.value = v
    BY <2>1 DEF Tlv
  <2>3. Nesting(p).nocheck = n
    BY <2>1 DEF Tlv
  <2>4. QED BY <2>2, <2>3 DEF n, v
<1>10. Nesting(p).nocheck = Flags("length" \in r.nocheck, {"length"}) \cup Flags("value" \in r.nocheck, {"value"})
  BY <1>6, <1>7, <1>9 DEF Flags
<1>11. b \in Nat
  OBVIOUS
<1> DEFINE t == Nesting(p).val.value
<1>12. t \in Seq(Nat) /\ Len(t) = 2 /\ t[1] = b /\ t[2] = c
  BY <1>5, <1>9, <1>11, TwoBytes
<1> HIDE DEF t, b
<1>13. QED BY <1>2, <1>9, <1>10, <1>12 DEF r, qs, t, b

(* What the script means by a list of one parameter of one byte. *)
LEMMA PatternOne ==
  ASSUME NEW a, a.length = 1, a.val.value \in {Open, << 1 >>}
  PROVE  LET s == Pattern(<<a>>) IN
         /\ Len(s) = 2 /\ DOMAIN s = 1..2 /\ s[1] = (IF a.type = Open THEN Open ELSE 1)
         /\ s[2] = (IF a.val.value = Open THEN Open ELSE 1)
<1> DEFINE V == {Open} \cup Nat
           x == IF a.type = Open THEN Open ELSE 1
           y == IF a.val.value = Open THEN Open ELSE 1
           f == IF a.val.value = Open THEN [j \in 1..a.length |-> Open] ELSE a.val.value
           s == [i \in DOMAIN <<a>> |-> <<IF <<a>>[i].type = Open THEN Open ELSE 1>>
                   \o (IF <<a>>[i].val.value = Open THEN [j \in 1..<<a>>[i].length |-> Open]
                       ELSE <<a>>[i].val.value)]
<1>1. DOMAIN <<a>> = {1} /\ <<a>>[1] = a
  OBVIOUS
<1>2. DOMAIN s = {1} /\ s[1] = <<x>> \o f
  BY <1>1
<1>3. Pattern(<<a>>) = Cat(s)
  BY DEF Pattern
<1>4. x \in V /\ y \in V /\ f \in [1..1 -> V] /\ f[1] = y
  OBVIOUS
<1> HIDE DEF s, x, y, f, V
<1>5. Pattern(<<a>>) = <<>> \o (<<x>> \o f)
  BY <1>2, <1>3, CatOne
<1> DEFINE t == Pattern(<<a>>)
           z == <<>> \o (<<x>> \o f)
<1>6. t \in Seq(V) /\ Len(t) = 2 /\ t[1] = x /\ t[2] = y
  <2>1. z \in Seq(V) /\ Len(z) = 2 /\ z[1] = x /\ z[2] = y
    BY <1>4, TwoBytes
  <2> HIDE DEF z
  <2>2. QED BY <1>5, <2>1 DEF z
<1> HIDE DEF t, z
<1>7. DOMAIN t = 1..2
  BY <1>6
<1>8. QED BY <1>6, <1>7 DEF t, x, y

(* The bytes of such a list are compared with those sent as the script means it. *)
LEMMA NestFits ==
  ASSUME NEW p, NEW a, p.val = [sub |-> <<a>>], p.length # Open,
         a.length = 1, a.val.value \in {Open, << 1 >>}, NEW l, "value" \in DOMAIN l.val,
         NEW t \in Seq(Nat), Len(t) = 2
  PROVE  /\ t = l.val.value /\ (a.type = Open \/ t[1] = 1) /\ (a.val.value = Open \/ t[2] = 1) => ValueFits(p, l)
         /\ ValueFits(p, l) /\ l.val.value \in Seq(Nat) /\ t[1] = 1 /\ t[2] = 1
              => t = l.val.value \/ a.type = Open \/ a.val.value = Open
<1> DEFINE s == Pattern(<<a>>)
           v == l.val.value
<1>1. /\ Len(s) = 2 /\ DOMAIN s = 1..2 /\ s[1] = (IF a.type = Open THEN Open ELSE 1)
      /\ s[2] = (IF a.val.value = Open THEN Open ELSE 1)
  BY PatternOne
<1>2. "sub" \in DOMAIN p.val /\ p.val.sub = <<a>>
  OBVIOUS
<1>3. ValueFits(p, l) <=> SameShape(s, v)
  BY <1>2 DEF ValueFits
<1> HIDE DEF s, v
<1>4. SameShape(s, v) <=> Len(v) = 2 /\ (s[1] = Open \/ s[1] = v[1]) /\ (s[2] = Open \/ s[2] = v[2])
  BY <1>1 DEF SameShape, Fits
<1>5. 1 # Open
  BY OpenMarks
<1>6. ASSUME t = v, a.type = Open \/ t[1] = 1, a.val.value = Open \/ t[2] = 1 PROVE ValueFits(p, l)
  BY <1>1, <1>3, <1>4, <1>6
<1>7. ASSUME ValueFits(p, l), v \in Seq(Nat), t[1] = 1, t[2] = 1, a.type # Open, a.val.value # Open PROVE t = v
  <2>1. Len(v) = 2 /\ v[1] = 1 /\ v[2] = 1
    BY <1>1, <1>3, <1>4, <1>5, <1>7
  <2>2. QED BY <1>7, <2>1
<1>8. QED BY <1>6, <1>7 DEF v

(* Nothing is known of what is nested. *)
LEMMA NestedOpen ==
  ASSUME NEW k, k \notin ReconfigTypes \cup {"0"}, NEW p, NEW q, NEW sub, p.val = [sub |-> sub],
         p.type = k, p.length = Open, q.type = k, q.nocheck = {"length", "value"}, q.bytes = q.length
  PROVE  ValueItem(p, q)
<1>1. \A l : ValueFits(p, l)
  BY DEF ValueFits
<1>2. QED BY <1>1 DEF ValueItem

(* The parameters and causes that carry parameters. *)
NestKinds == {"UNRECOGNIZED_PARAMETER", "UNRESOLVABLE_ADDRESS", "UNRECOGNIZED_PARAMETERS",
              "RESTART_WITH_NEW_ADDRESSES"}

(* Nesting(p), and for UNRESOLVABLE_ADDRESS with another reason to leave the value open. *)
NestStored(p, q) ==
  LET n == Nesting(p) IN
  /\ q.type = n.type /\ q.length = n.length /\ q.bytes = n.bytes /\ q.val = n.val
  /\ n.nocheck \subseteq q.nocheck /\ q.nocheck \subseteq n.nocheck \cup {"value"}
  /\ "value" \in q.nocheck \ n.nocheck => p.kind = "UNRESOLVABLE_ADDRESS" /\ SomeFlag(SubItems(p), "type")

(* One that carries a parameter of one byte, *)
LEMMA NestedByte ==
  ASSUME NEW k \in NestKinds, NEW p, NEW q, NestStored(p, q), NEW a, <<a>> # Open,
         p.val = [sub |-> <<a>>], p.kind = k, p.type = k, p.length = 2, a.length = 1,
         a.val.value \in {Open, << 1 >>}, SubItem(a).bytes = 1,
         SubItem(a).nocheck = Flags(a.type = Open /\ a.kind # "PAD", {"type"})
                                \cup Flags(a.val.value = Open /\ a.kind # "PAD", {"value"}),
         a.val.value = Open => a.kind = "PAD" \/ SubItem(a).val.value = <<>>,
         a.val.value # Open => SubItem(a).val.value = << 1 >>,
         a.kind = "PAD" => a.val.value = Open /\ SubItem(a).val.value = [i \in 1..1 |-> 1]
  PROVE  ValueItem(p, q)
<1> DEFINE n == Nesting(p)
           r == SubItem(a)
           c == IF a.val.value = Open /\ a.kind # "PAD" THEN 0 ELSE 1
           b == IF "type" \in r.nocheck THEN 0 ELSE 1
<1>1. /\ 1 \in DOMAIN r.val.value => r.val.value[1] = c
      /\ 1 \notin DOMAIN r.val.value => c = 0
  OBVIOUS
<1>2. c \in Nat
  OBVIOUS
<1> HIDE DEF c
<1>3. /\ n.type = p.type /\ n.length = 2 /\ n.bytes = 2
      /\ n.nocheck = Flags("length" \in r.nocheck, {"length"}) \cup Flags("value" \in r.nocheck, {"value"})
      /\ n.val.value \in Seq(Nat) /\ Len(n.val.value) = 2
      /\ n.val.value[1] = b /\ n.val.value[2] = c
      /\ SubItems(p) = [i \in {1} |-> r]
  BY <1>1, <1>2, NestedOne
<1>4. /\ "length" \notin r.nocheck
      /\ "type" \in r.nocheck <=> a.type = Open /\ a.kind # "PAD"
      /\ "value" \in r.nocheck <=> a.val.value = Open /\ a.kind # "PAD"
  BY DEF Flags
<1>5. SomeFlag(SubItems(p), "type") <=> "type" \in r.nocheck
  BY <1>3 DEF SomeFlag
<1>6. n.nocheck \subseteq {"value"} /\ ("value" \in n.nocheck <=> "value" \in r.nocheck)
  BY <1>3, <1>4 DEF Flags
<1> HIDE DEF n, r
<1>7. /\ q.type = k /\ q.length = 2 /\ q.bytes = 2 /\ q.val = n.val
      /\ q.nocheck \subseteq {"value"}
      /\ "value" \in q.nocheck => \/ a.val.value = Open
                                  \/ k = "UNRESOLVABLE_ADDRESS" /\ a.type = Open
      /\ "value" \notin q.nocheck => (a.val.value # Open \/ a.kind = "PAD")
  BY <1>3, <1>4, <1>5, <1>6 DEF NestStored, n
<1>8. /\ "sub" \in DOMAIN p.val /\ p.val.sub = <<a>> /\ List(p.val.sub) = <<a>>
      /\ 1 \in DOMAIN <<a>> /\ <<a>>[1] = a
  BY DEF List
<1>9. "value" \in q.nocheck => OpenWithin(p)
  BY <1>7, <1>8 DEF OpenWithin
<1>10. ASSUME "value" \notin q.nocheck, NEW l, "value" \in DOMAIN l.val, l.val.value \in Seq(Nat)
       PROVE  /\ q.val.value = l.val.value => ValueFits(p, l)
              /\ ValueFits(p, l) => q.val.value = l.val.value \/ ItemCheckedThoughOpen(p)
  <2>1. p.length # Open
    BY OpenMarks
  <2>2. a.type # Open \/ a.kind = "PAD" => b = 1
    BY <1>4
  <2>3. c = 1
    BY <1>7, <1>10 DEF c
  <2>4. a.type = Open \/ a.kind = "PAD" => ItemCheckedThoughOpen(p)
    BY <1>8 DEF ItemCheckedThoughOpen
  <2>5. \/ a.kind = "PAD"
        \/ a.val.value # Open
    BY <1>7, <1>10
  <2> DEFINE t == n.val.value
  <2>6. t \in Seq(Nat) /\ Len(t) = 2 /\ t[1] = b /\ t[2] = 1 /\ q.val.value = t
    BY <1>3, <1>7, <2>3
  <2> HIDE DEF t, b
  <2>7. /\ t = l.val.value /\ (a.type = Open \/ t[1] = 1) /\ (a.val.value = Open \/ t[2] = 1) => ValueFits(p, l)
        /\ ValueFits(p, l) /\ l.val.value \in Seq(Nat) /\ t[1] = 1 /\ t[2] = 1
             => t = l.val.value \/ a.type = Open \/ a.val.value = Open
    BY <1>10, <2>1, <2>6, NestFits
  <2>8. QED BY <1>10, <2>2, <2>4, <2>5, <2>6, <2>7
<1>11. k \notin ReconfigTypes \cup {"0"}
  BY DEF NestKinds, ReconfigTypes
<1>12. q.val.value \in Seq(Nat) /\ Len(q.val.value) = 2
  BY <1>3, <1>7
<1>13. QED BY <1>7, <1>9, <1>10, <1>11, <1>12 DEF ValueItem

(* and one that carries any list of them. *)
LEMMA NestingItems ==
  ASSUME NEW k \in NestKinds, NEW p \in NestingOf(k, SubLists), NEW q, NestStored(p, q)
  PROVE  ValueItem(p, q)
<1> DEFINE Len0(sub) == IF sub = Open \/ \E i \in DOMAIN List(sub) : sub[i].length = Open THEN Open
                        ELSE Total([i \in DOMAIN sub |-> 1 + sub[i].length])
           n == Nesting(p)
<1>1. PICK sub \in SubLists : p = Par(k, k, Len0(sub), [sub |-> sub])
  BY DEF NestingOf
<1> HIDE DEF Len0
<1>2. p.kind = k /\ p.type = k /\ p.length = Len0(sub) /\ p.val = [sub |-> sub] /\ p.val.sub = sub
  BY <1>1 DEF Par
<1>3. k \notin ReconfigTypes \cup {"0"}
  BY DEF NestKinds, ReconfigTypes
<1>4. /\ n.type = k /\ n.bytes = n.length
      /\ n.nocheck = Flags(sub = Open, {"length", "value"}) \cup Flags(SomeFlag(SubItems(p), "length"), {"length"})
                       \cup Flags(SomeFlag(SubItems(p), "value"), {"value"})
  BY <1>2 DEF Nesting, Tlv
<1>5. ASSUME p.length = Open, n.nocheck = {"length", "value"} PROVE ValueItem(p, q)
  BY <1>2, <1>3, <1>4, <1>5, NestedOpen DEF NestStored
<1>6. CASE sub = Open
  <2>1. p.length = Open
    BY <1>2, <1>6 DEF Len0
  <2>2. n.nocheck = {"length", "value"}
    BY <1>4, <1>6 DEF Flags
  <2>3. QED BY <1>5, <2>1, <2>2
<1>7. ASSUME NEW a, sub = <<a>>, sub # Open, a.length = 1 PROVE p.length = 2
  <2>1. DOMAIN sub = {1} /\ sub[1] = a /\ List(sub) = sub
    BY <1>7 DEF List
  <2>2. 1 # Open
    BY OpenMarks
  <2> DEFINE s == [i \in DOMAIN sub |-> 1 + sub[i].length]
  <2>3. Len0(sub) = Total(s)
    BY <1>7, <2>1, <2>2 DEF Len0
  <2>4. DOMAIN s = {1} /\ s[1] = 2
    BY <1>7, <2>1
  <2> HIDE DEF s
  <2>5. Total(s) = 0 + s[1]
    BY <2>4, TotalOne
  <2>6. QED BY <1>2, <2>3, <2>4, <2>5
<1>8. ASSUME sub # Open, NEW t \in {Open, "UNKNOWN"}, NEW v \in {Open, << 1 >>},
             sub = <<Par("PARAMETER", t, 1, [value |-> v])>>
      PROVE  ValueItem(p, q)
  <2> DEFINE a == Par("PARAMETER", t, 1, [value |-> v])
             r == SubItem(a)
  <2>1. a.kind = "PARAMETER" /\ a.type = t /\ a.length = 1 /\ a.val = [value |-> v] /\ a.val.value = v
    BY DEF Par
  <2> HIDE DEF a
  <2>2. r = sctp_generic_parameter_new(a)
    BY <2>1 DEF SubItem
  <2>3. 1 # Open /\ v # Short /\ (v # Open => v = <<1>>)
    BY OpenMarks, Small
  <2>4. /\ r.bytes = 1 /\ r.val.value = (IF v = Open THEN <<>> ELSE v)
        /\ r.nocheck = Flags(t = Open, {"type"}) \cup Flags(v = Open, {"value"})
    BY <2>1, <2>2, <2>3 DEF sctp_generic_parameter_new, Stored, Flags
  <2>5. p.length = 2 /\ sub = <<a>>
    BY <1>7, <1>8, <2>1 DEF a
  <2> HIDE DEF r
  <2>6. r.nocheck = Flags(a.type = Open /\ a.kind # "PAD", {"type"})
                      \cup Flags(a.val.value = Open /\ a.kind # "PAD", {"value"})
    BY <2>1, <2>4 DEF Flags
  <2>7. QED BY <1>2, <1>8, <2>1, <2>3, <2>4, <2>5, <2>6, NestedByte DEF r
<1>9. ASSUME sub # Open, sub = <<Plain("PAD", 1, Open)>>
      PROVE  ValueItem(p, q)
  <2> DEFINE a == Plain("PAD", 1, Open)
             r == SubItem(a)
  <2>1. a.kind = "PAD" /\ a.type = "PAD" /\ a.length = 1 /\ a.val = [value |-> Open] /\ a.val.value = Open
    BY DEF Plain, Par
  <2> HIDE DEF a
  <2>2. r = sctp_pad_parameter_new(a)
    BY <2>1 DEF SubItem
  <2>3. 1 # Open
    BY OpenMarks
  <2>4. r.bytes = 1 /\ r.val.value = [i \in 1..1 |-> 1] /\ r.nocheck = {}
    BY <2>1, <2>2, <2>3 DEF sctp_pad_parameter_new, Tlv, Stored, Flags
  <2>5. p.length = 2 /\ sub = <<a>>
    BY <1>7, <1>9, <2>1 DEF a
  <2> HIDE DEF r
  <2>6. r.nocheck = Flags(a.type = Open /\ a.kind # "PAD", {"type"})
                      \cup Flags(a.val.value = Open /\ a.kind # "PAD", {"value"})
    BY <2>1, <2>4 DEF Flags
  <2>7. QED BY <1>2, <1>9, <2>1, <2>4, <2>5, <2>6, NestedByte DEF r
<1>10. ASSUME sub # Open, NEW x, sub = <<Par("PARAMETER", "UNKNOWN", Open, [value |-> Open]), x>>
       PROVE  ValueItem(p, q)
  <2> DEFINE a == Par("PARAMETER", "UNKNOWN", Open, [value |-> Open])
  <2>1. a.kind = "PARAMETER" /\ a.length = Open /\ a.val.value = Open
    BY DEF Par
  <2>2. 1 \in DOMAIN sub /\ sub[1] = a /\ List(sub) = sub
    BY <1>10 DEF List
  <2> HIDE DEF a
  <2>3. p.length = Open
    BY <1>2, <2>1, <2>2 DEF Len0
  <2>4. {"length", "value"} \subseteq SubItem(a).nocheck
    BY <2>1 DEF SubItem, sctp_generic_parameter_new, Flags
  <2>5. 1 \in DOMAIN SubItems(p) /\ SubItems(p)[1] = SubItem(a)
    BY <1>2, <2>2 DEF SubItems
  <2>6. SomeFlag(SubItems(p), "length") /\ SomeFlag(SubItems(p), "value")
    BY <2>4, <2>5 DEF SomeFlag
  <2>7. n.nocheck = {"length", "value"}
    BY <1>4, <1>10, <2>6 DEF Flags
  <2>8. QED BY <1>5, <2>3, <2>7
<1>11. \/ sub = Open
       \/ \E t \in {Open, "UNKNOWN"}, v \in {Open, <<1>>} : sub = <<Par("PARAMETER", t, 1, [value |-> v])>>
       \/ sub = <<Plain("PAD", 1, Open)>>
       \/ \E x : sub = <<Par("PARAMETER", "UNKNOWN", Open, [value |-> Open]), x>>
  BY DEF SubLists
<1>12. QED BY <1>6, <1>8, <1>9, <1>10, <1>11

(* Nesting() itself, and as sctp_unresolvable_address_cause_new extends it. *)
LEMMA NestingStored ==
  /\ \A p : NestStored(p, Nesting(p))
  /\ \A p : p.kind = "UNRESOLVABLE_ADDRESS" => NestStored(p, sctp_unresolvable_address_cause_new(p))
<1>1. \A p : NestStored(p, Nesting(p))
  BY DEF NestStored
<1>2. ASSUME NEW p, p.kind = "UNRESOLVABLE_ADDRESS"
      PROVE  NestStored(p, sctp_unresolvable_address_cause_new(p))
  <2> DEFINE n == Nesting(p)
             q == sctp_unresolvable_address_cause_new(p)
  <2>1. DOMAIN n = {"type", "length", "bytes", "val", "nocheck"}
    BY DEF Nesting, Tlv
  <2>2. q = [n EXCEPT !.nocheck = @ \cup Flags(SomeFlag(SubItems(p), "type"), {"value"})]
    BY DEF sctp_unresolvable_address_cause_new
  <2> HIDE DEF n, q
  <2>3. /\ q.type = n.type /\ q.length = n.length /\ q.bytes = n.bytes /\ q.val = n.val
        /\ q.nocheck = n.nocheck \cup Flags(SomeFlag(SubItems(p), "type"), {"value"})
    BY <2>1, <2>2
  <2>4. QED BY <1>2, <2>3 DEF NestStored, Flags, n, q
<1>3. QED BY <1>1, <1>2

(* The chunk within UNRECOGNIZED_CHUNK_TYPE. *)
LEMMA ChunkWithin ==
  ASSUME NEW w \in {Open, Shutdown(1, 1), Shutdown(Open, 1), Shutdown(1, Open)}
  PROVE  LET p == Par("UNRECOGNIZED_CHUNK_TYPE", "UNRECOGNIZED_CHUNK_TYPE",
                      IF w = Open THEN Open ELSE 2, [chunk |-> w]) IN
         ValueItem(p, sctp_unrecognized_chunk_type_cause_new(p))
<1> DEFINE k == "UNRECOGNIZED_CHUNK_TYPE"
           p == Par(k, k, IF w = Open THEN Open ELSE 2, [chunk |-> w])
           q == sctp_unrecognized_chunk_type_cause_new(p)
<1>1. /\ p.kind = k /\ p.type = k /\ p.length = (IF w = Open THEN Open ELSE 2)
      /\ p.val = [chunk |-> w] /\ p.val.chunk = w /\ "chunk" \in DOMAIN p.val /\ "sub" \notin DOMAIN p.val
  BY DEF Par
<1>2. k \notin ReconfigTypes \cup {"0"}
  BY DEF ReconfigTypes
<1> HIDE DEF p
<1>3. CASE w = Open
  <2>1. q = Tlv(p, <<>>, 0, {"length", "value"})
    BY <1>1, <1>3 DEF sctp_unrecognized_chunk_type_cause_new
  <2>2. q.type = k /\ q.nocheck = {"length", "value"} /\ q.bytes = q.length
    BY <1>1, <2>1 DEF Tlv
  <2> HIDE DEF q
  <2>3. \A l : ValueFits(p, l)
    BY <1>1, <1>3 DEF ValueFits
  <2>4. QED BY <1>1, <1>2, <1>3, <2>2, <2>3 DEF ValueItem, p, q
<1>4. CASE w # Open
  <2>1. PICK f \in {1, Open}, c \in {1, Open} : w = Shutdown(f, c)
    BY <1>4
  <2>2. w.val = [flgs |-> f, cum_tsn |-> c]
    BY <2>1 DEF Shutdown
  <2> DEFINE item == sctp_shutdown_chunk_new(w)
             t == <<Value(f), Value(c)>>
  <2>3. item.val.flgs = Value(f) /\ item.val.cum_tsn = Value(c) /\ ("flgs" \in item.nocheck <=> f = Open)
    BY <2>2 DEF sctp_shutdown_chunk_new, ChunkItem, Joined
  <2> HIDE DEF item
  <2>4. q = Tlv(p, t, 2, Flags("flgs" \in item.nocheck, {"value"}))
    BY <1>1, <1>4, <2>3 DEF sctp_unrecognized_chunk_type_cause_new, item
  <2>5. /\ q.type = k /\ q.length = 2 /\ q.bytes = 2 /\ q.val.value = t
        /\ q.nocheck = Flags("flgs" \in item.nocheck, {"value"})
    BY <1>1, <2>4 DEF Tlv
  <2>6. q.nocheck \subseteq {"value"} /\ ("value" \in q.nocheck <=> f = Open)
    BY <2>3, <2>5 DEF Flags
  <2> HIDE DEF q
  <2>7. Value(f) \in Nat /\ Value(c) \in Nat
    BY DEF Value
  <2>8. t \in Seq(Nat) /\ Len(t) = 2 /\ t[1] = Value(f) /\ t[2] = Value(c)
    BY <2>7
  <2>9. "value" \in q.nocheck => OpenWithin(p)
    BY <1>1, <1>4, <2>2, <2>6 DEF OpenWithin
  <2>10. p.length = 2 /\ 2 # Open /\ 1 # Open
    BY <1>1, <1>4, OpenMarks
  <2> DEFINE s == <<f, c>>
  <2>11. Len(s) = 2 /\ DOMAIN s = 1..2 /\ s[1] = f /\ s[2] = c
    OBVIOUS
  <2>12. \A l : "value" \in DOMAIN l.val => (ValueFits(p, l) <=> SameShape(s, l.val.value))
    BY <1>1, <1>4, <2>2 DEF ValueFits
  <2> HIDE DEF s, t
  <2>13. ASSUME NEW l, "value" \in DOMAIN l.val, l.val.value \in Seq(Nat), f # Open
         PROVE  /\ t = l.val.value => ValueFits(p, l) \/ c = Open
                /\ ValueFits(p, l) => t = l.val.value \/ ItemCheckedThoughOpen(p)
    <3> DEFINE v == l.val.value
    <3>1. SameShape(s, v) <=> Len(v) = 2 /\ (s[1] = Open \/ s[1] = v[1]) /\ (s[2] = Open \/ s[2] = v[2])
      BY <2>11 DEF SameShape, Fits
    <3>2. c = Open => ItemCheckedThoughOpen(p)
      BY <1>1, <1>4, <2>2 DEF ItemCheckedThoughOpen
    <3>3. f = 1 /\ t[1] = 1
      BY <2>8, <2>13 DEF Value
    <3> HIDE DEF v
    <3>4. v \in Seq(Nat) /\ (ValueFits(p, l) <=> SameShape(s, v))
      BY <2>12, <2>13 DEF v
    <3>5. t = v => ValueFits(p, l) \/ c = Open
      <4>1. c # Open => c = 1 /\ t[2] = 1
        BY <2>8 DEF Value
      <4>2. QED BY <2>8, <2>11, <3>1, <3>3, <3>4, <4>1
    <3>6. ASSUME ValueFits(p, l), c # Open PROVE t = v
      <4>1. c = 1 /\ t[2] = 1
        BY <2>8, <3>6 DEF Value
      <4>2. Len(v) = 2 /\ v[1] = 1 /\ v[2] = 1
        BY <2>10, <2>11, <3>1, <3>3, <3>4, <3>6, <4>1
      <4>3. QED BY <2>8, <3>3, <3>4, <4>1, <4>2
    <3>7. QED BY <3>2, <3>5, <3>6 DEF v
  <2>14. \A l : "value" \in DOMAIN l.val /\ l.val.value \in Seq(Nat) /\ c = Open /\ f # Open => (t = l.val.value => ValueFits(p, l))
    <3> SUFFICES ASSUME NEW l, "value" \in DOMAIN l.val, l.val.value \in Seq(Nat), c = Open, f # Open,
                        t = l.val.value
                 PROVE  ValueFits(p, l)
      OBVIOUS
    <3>1. SameShape(s, t) <=> Len(t) = 2 /\ (s[1] = Open \/ s[1] = t[1]) /\ (s[2] = Open \/ s[2] = t[2])
      BY <2>11 DEF SameShape, Fits
    <3>2. f = 1 /\ t[1] = 1
      BY <2>8 DEF Value
    <3>3. QED BY <2>8, <2>11, <2>12, <3>1, <3>2
  <2>15. ASSUME f # Open, NEW l, "value" \in DOMAIN l.val, l.val.value \in Seq(Nat)
         PROVE  /\ q.val.value = l.val.value => ValueFits(p, l)
                /\ ValueFits(p, l) => q.val.value = l.val.value \/ ItemCheckedThoughOpen(p)
    BY <2>5, <2>13, <2>14, <2>15
  <2>16. q.length \in 0..2 /\ p.length = q.length /\ q.val.value \in Seq(Nat) /\ Len(q.val.value) = q.length
    BY <2>5, <2>8, <2>10
  <2>17. ValueItem(p, q)
    BY <1>1, <1>2, <2>5, <2>6, <2>9, <2>15, <2>16 DEF ValueItem
  <2>18. QED BY <2>17 DEF p, q
<1>5. QED BY <1>3, <1>4

(* Nesting parameters and causes keep their kind. *)
LEMMA NestingKind == ASSUME NEW k, NEW S, NEW p \in NestingOf(k, S) PROVE p.kind = k
<1> DEFINE L(sub) == IF sub = Open \/ \E i \in DOMAIN List(sub) : sub[i].length = Open THEN Open
                     ELSE Total([i \in DOMAIN sub |-> 1 + sub[i].length])
<1>1. PICK sub \in S : p = Par(k, k, L(sub), [sub |-> sub])
  BY DEF NestingOf
<1> HIDE DEF L
<1>2. QED BY <1>1 DEF Par

(* What Parameter() makes of the parameters of INIT and INIT_ACK. *)
LEMMA InitParameterItems == \A p \in InitParameters : ValueItem(p, Parameter(p))
<1> SUFFICES ASSUME NEW p \in InitParameters PROVE ValueItem(p, Parameter(p))
  OBVIOUS
<1> DEFINE A == (UNION {FixedOf(k) : k \in {"IPV4_ADDRESS", "IPV6_ADDRESS", "COOKIE_PRESERVATIVE"}})
           B == (UNION {OpenOf(k) : k \in {"HOSTNAME_ADDRESS", "SUPPORTED_ADDRESS_TYPES",
                                          "SUPPORTED_EXTENSIONS"}})
           C == {Plain(k, n, Open) : k \in {"STATE_COOKIE", "PAD"}, n \in {Open, 1}}
           D == {Plain("ADAPTATION_INDICATION", 1, <<1>>)}
           E == {Plain(k, 0, <<>>) : k \in {"ECN_CAPABLE", "FORWARD_TSN_SUPPORTED"}}
           F == GenericOf("PARAMETER", {Open, "UNKNOWN"})
           G == NestingOf("UNRECOGNIZED_PARAMETER", SubLists)
<1>1. ASSUME p \in A PROVE ValueItem(p, Parameter(p))
  <2>1. PICK k \in {"IPV4_ADDRESS", "IPV6_ADDRESS", "COOKIE_PRESERVATIVE"} : p \in FixedOf(k)
    BY <1>1
  <2>2. PICK v \in {Open, <<1>>} : p = Plain(k, 1, v)
    BY <2>1 DEF FixedOf
  <2>3. p.kind = k
    BY <2>2 DEF Plain, Par
  <2>4. Parameter(p) = FixedSize(p)
    BY <2>1, <2>3 DEF Parameter, sctp_ipv4_address_parameter_new, sctp_ipv6_address_parameter_new,
                      sctp_cookie_preservative_parameter_new
  <2>5. k \notin ReconfigTypes \cup {"0"}
    BY <2>1 DEF ReconfigTypes
  <2>6. QED BY <2>2, <2>4, <2>5, FixedItems
<1>2. ASSUME p \in B PROVE ValueItem(p, Parameter(p))
  <2>1. PICK k \in {"HOSTNAME_ADDRESS", "SUPPORTED_ADDRESS_TYPES", "SUPPORTED_EXTENSIONS"} : p \in OpenOf(k)
    BY <1>2
  <2>2. p.kind = k
    BY <2>1 DEF OpenOf, Plain, Par
  <2>3. Parameter(p) = OpenSize(p)
    BY <2>1, <2>2 DEF Parameter, sctp_hostname_address_parameter_new,
                      sctp_supported_address_types_parameter_new, sctp_supported_extensions_parameter_new
  <2>4. k \notin ReconfigTypes \cup {"0"}
    BY <2>1 DEF ReconfigTypes
  <2>5. QED BY <2>1, <2>3, <2>4, OpenItems
<1>3. ASSUME p \in C PROVE ValueItem(p, Parameter(p))
  <2>1. PICK k \in {"STATE_COOKIE", "PAD"}, n \in {Open, 1} : p = Plain(k, n, Open)
    BY <1>3
  <2>2. p.kind = k
    BY <2>1 DEF Plain, Par
  <2>3. CASE k = "STATE_COOKIE"
    <3>1. Parameter(p) = sctp_state_cookie_parameter_new(p)
      BY <2>2, <2>3 DEF Parameter
    <3>2. QED BY <2>1, <2>3, <3>1, CookieItems
  <2>4. CASE k = "PAD"
    <3>1. Parameter(p) = sctp_pad_parameter_new(p)
      BY <2>2, <2>4 DEF Parameter
    <3>2. QED BY <2>1, <2>4, <3>1, PadItems
  <2>5. QED BY <2>1, <2>3, <2>4
<1>4. ASSUME p \in D PROVE ValueItem(p, Parameter(p))
  <2>1. p = Plain("ADAPTATION_INDICATION", 1, <<1>>) /\ p.kind = "ADAPTATION_INDICATION"
    BY <1>4 DEF Plain, Par
  <2>2. Parameter(p) = FixedSize(p)
    BY <2>1 DEF Parameter, sctp_adaptation_indication_parameter_new
  <2>3. "ADAPTATION_INDICATION" \notin ReconfigTypes \cup {"0"}
    BY DEF ReconfigTypes
  <2>4. QED BY <2>1, <2>2, <2>3, FixedItems
<1>5. ASSUME p \in E PROVE ValueItem(p, Parameter(p))
  <2>1. PICK k \in {"ECN_CAPABLE", "FORWARD_TSN_SUPPORTED"} : p = Plain(k, 0, <<>>)
    BY <1>5
  <2>2. p.kind = k
    BY <2>1 DEF Plain, Par
  <2>3. Parameter(p) = Tlv(p, <<>>, 0, {})
    BY <2>1, <2>2 DEF Parameter, sctp_ecn_capable_parameter_new, sctp_forward_tsn_supported_parameter_new
  <2>4. k \notin ReconfigTypes \cup {"0"}
    BY <2>1 DEF ReconfigTypes
  <2>5. QED BY <2>1, <2>3, <2>4, EmptyItems
<1>6. ASSUME p \in F PROVE ValueItem(p, Parameter(p))
  <2>1. p.kind = "PARAMETER"
    BY <1>6 DEF GenericOf, Par
  <2>2. Parameter(p) = sctp_generic_parameter_new(p)
    BY <2>1 DEF Parameter
  <2>3. QED BY <1>6, <2>2, GenericItems
<1>7. ASSUME p \in G PROVE ValueItem(p, Parameter(p))
  <2>1. p.kind = "UNRECOGNIZED_PARAMETER"
    BY <1>7, NestingKind
  <2>2. Parameter(p) = Nesting(p)
    BY <2>1 DEF Parameter, sctp_unrecognized_parameters_parameter_new
  <2>3. QED BY <1>7, <2>2, NestingItems, NestingStored DEF NestKinds
<1>8. InitParameters = A \cup B \cup C \cup D \cup E \cup F \cup G
  BY DEF InitParameters
<1> HIDE DEF A, B, C, D, E, F, G
<1>9. QED BY <1>1, <1>2, <1>3, <1>4, <1>5, <1>6, <1>7, <1>8

(* What Cause() makes of error causes. *)
LEMMA CauseItems == \A p \in Causes : ValueItem(p, Cause(p))
<1> SUFFICES ASSUME NEW p \in Causes PROVE ValueItem(p, Cause(p))
  OBVIOUS
<1> DEFINE A == (UNION {FixedOf(k) : k \in {"INVALID_STREAM_IDENTIFIER", "STALE_COOKIE_ERROR",
                                           "NO_USER_DATA"}})
           B == (UNION {OpenOf(k) : k \in {"MISSING_MANDATORY_PARAMETER", "USER_INITIATED_ABORT",
                                          "PROTOCOL_VIOLATION"}})
           C == {Plain(k, 0, <<>>) : k \in {"OUT_OF_RESOURCE", "INVALID_MANDATORY_PARAMETER",
                                            "COOKIE_RECEIVED_WHILE_SHUTDOWN"}}
           D == GenericOf("CAUSE", {Open, "UNKNOWN"})
           E == (UNION {NestingOf(k, SubLists) :
                         k \in {"UNRESOLVABLE_ADDRESS", "UNRECOGNIZED_PARAMETERS",
                                "RESTART_WITH_NEW_ADDRESSES"}})
           F == {Par("UNRECOGNIZED_CHUNK_TYPE", "UNRECOGNIZED_CHUNK_TYPE",
                     IF w = Open THEN Open ELSE 2, [chunk |-> w]) :
                   w \in {Open, Shutdown(1, 1), Shutdown(Open, 1), Shutdown(1, Open)}}
<1>1. ASSUME p \in A PROVE ValueItem(p, Cause(p))
  <2>1. PICK k \in {"INVALID_STREAM_IDENTIFIER", "STALE_COOKIE_ERROR", "NO_USER_DATA"} : p \in FixedOf(k)
    BY <1>1
  <2>2. PICK v \in {Open, <<1>>} : p = Plain(k, 1, v)
    BY <2>1 DEF FixedOf
  <2>3. p.kind = k
    BY <2>2 DEF Plain, Par
  <2>4. Cause(p) = FixedSize(p)
    BY <2>1, <2>3 DEF Cause, sctp_invalid_stream_identifier_cause_new, sctp_stale_cookie_error_cause_new,
                      sctp_no_user_data_cause_new
  <2>5. k \notin ReconfigTypes \cup {"0"}
    BY <2>1 DEF ReconfigTypes
  <2>6. QED BY <2>2, <2>4, <2>5, FixedItems
<1>2. ASSUME p \in B PROVE ValueItem(p, Cause(p))
  <2>1. PICK k \in {"MISSING_MANDATORY_PARAMETER", "USER_INITIATED_ABORT", "PROTOCOL_VIOLATION"} : p \in OpenOf(k)
    BY <1>2
  <2>2. p.kind = k
    BY <2>1 DEF OpenOf, Plain, Par
  <2>3. Cause(p) = OpenSize(p)
    BY <2>1, <2>2 DEF Cause, sctp_missing_mandatory_parameter_cause_new,
                      sctp_user_initiated_abort_cause_new, sctp_protocol_violation_cause_new
  <2>4. k \notin ReconfigTypes \cup {"0"}
    BY <2>1 DEF ReconfigTypes
  <2>5. QED BY <2>1, <2>3, <2>4, OpenItems
<1>3. ASSUME p \in C PROVE ValueItem(p, Cause(p))
  <2>1. PICK k \in {"OUT_OF_RESOURCE", "INVALID_MANDATORY_PARAMETER", "COOKIE_RECEIVED_WHILE_SHUTDOWN"} :
          p = Plain(k, 0, <<>>)
    BY <1>3
  <2>2. p.kind = k
    BY <2>1 DEF Plain, Par
  <2>3. Cause(p) = Tlv(p, <<>>, 0, {})
    BY <2>1, <2>2 DEF Cause, sctp_out_of_resources_cause_new, sctp_invalid_mandatory_parameter_cause_new,
                      sctp_cookie_received_while_shutdown_cause_new
  <2>4. k \notin ReconfigTypes \cup {"0"}
    BY <2>1 DEF ReconfigTypes
  <2>5. QED BY <2>1, <2>3, <2>4, EmptyItems
<1>4. ASSUME p \in D PROVE ValueItem(p, Cause(p))
  <2>1. p.kind = "CAUSE"
    BY <1>4 DEF GenericOf, Par
  <2>2. Cause(p) = sctp_generic_parameter_new(p)
    BY <2>1 DEF Cause, sctp_generic_cause_new
  <2>3. QED BY <1>4, <2>2, GenericItems
<1>5. ASSUME p \in E PROVE ValueItem(p, Cause(p))
  <2>1. PICK k \in {"UNRESOLVABLE_ADDRESS", "UNRECOGNIZED_PARAMETERS", "RESTART_WITH_NEW_ADDRESSES"} :
          p \in NestingOf(k, SubLists)
    BY <1>5
  <2>2. p.kind = k
    BY <2>1, NestingKind
  <2>3. k # "UNRESOLVABLE_ADDRESS" => Cause(p) = Nesting(p)
    BY <2>1, <2>2 DEF Cause, sctp_unrecognized_parameters_cause_new, sctp_restart_with_new_addresses_cause_new
  <2>4. k = "UNRESOLVABLE_ADDRESS" => Cause(p) = sctp_unresolvable_address_cause_new(p)
    BY <2>1, <2>2 DEF Cause
  <2>5. NestStored(p, Cause(p))
    BY <2>2, <2>3, <2>4, NestingStored
  <2>6. k \in NestKinds
    BY <2>1 DEF NestKinds
  <2>7. QED BY <2>1, <2>5, <2>6, NestingItems
<1>6. ASSUME p \in F PROVE ValueItem(p, Cause(p))
  <2>1. PICK w \in {Open, Shutdown(1, 1), Shutdown(Open, 1), Shutdown(1, Open)} :
          p = Par("UNRECOGNIZED_CHUNK_TYPE", "UNRECOGNIZED_CHUNK_TYPE",
                  IF w = Open THEN Open ELSE 2, [chunk |-> w])
    BY <1>6
  <2>2. p.kind = "UNRECOGNIZED_CHUNK_TYPE"
    BY <2>1 DEF Par
  <2>3. Cause(p) = sctp_unrecognized_chunk_type_cause_new(p)
    BY <2>2 DEF Cause
  <2>4. QED BY <2>1, <2>3, ChunkWithin
<1>7. Causes = A \cup B \cup C \cup D \cup E \cup F
  BY Zenon DEF Causes
<1> HIDE DEF A, B, C, D, E, F
<1>8. QED BY <1>1, <1>2, <1>3, <1>4, <1>5, <1>6, <1>7

(* Those that are written in pairs are among them. *)
LEMMA SomeItems ==
  /\ SomeParameters \subseteq InitParameters
  /\ SomeCauses \subseteq Causes
<1>1. Plain("ECN_CAPABLE", 0, <<>>) \in InitParameters /\ Plain("HOSTNAME_ADDRESS", Open, Open) \in InitParameters
  <2>1. Plain("ECN_CAPABLE", 0, <<>>) \in {Plain(k, 0, <<>>) : k \in {"ECN_CAPABLE", "FORWARD_TSN_SUPPORTED"}}
    OBVIOUS
  <2>2. Plain("HOSTNAME_ADDRESS", Open, Open) \in OpenOf("HOSTNAME_ADDRESS")
    BY DEF OpenOf
  <2>3. QED BY <2>1, <2>2 DEF InitParameters
<1>2. Plain("OUT_OF_RESOURCE", 0, <<>>) \in Causes /\ Plain("USER_INITIATED_ABORT", Open, Open) \in Causes
  <2>1. Plain("OUT_OF_RESOURCE", 0, <<>>) \in
          {Plain(k, 0, <<>>) : k \in {"OUT_OF_RESOURCE", "INVALID_MANDATORY_PARAMETER",
                                      "COOKIE_RECEIVED_WHILE_SHUTDOWN"}}
    OBVIOUS
  <2>2. Plain("USER_INITIATED_ABORT", Open, Open) \in OpenOf("USER_INITIATED_ABORT")
    BY DEF OpenOf
  <2>3. QED BY <2>1, <2>2 DEF Causes
<1>3. QED BY <1>1, <1>2 DEF SomeParameters, SomeCauses

(* Items with numbers of their own: the parameters of RECONFIG. *)
ReconfigShapes(t) ==
  CASE t = "OUTGOING_SSN_RESET" -> {{"reqsn", "respsn", "last_tsn", "sids"}}
    [] t = "INCOMING_SSN_RESET" -> {{"reqsn", "sids"}}
    [] t = "SSN_TSN_RESET"      -> {{"reqsn"}}
    [] t = "RECONFIG_RESPONSE"  -> {{"respsn", "result"}, {"respsn", "result"} \cup NextTsns}
    [] OTHER                    -> {{"reqsn", "number_of_new_streams"}}

(* A parameter of RECONFIG that has the fields of its type. *)
Shaped(p) ==
  /\ p.type \in ReconfigTypes /\ DOMAIN p.val \in ReconfigShapes(p.type)
  /\ "sids" \in DOMAIN p.val => p.val.sids \in Seq(Nat)

(* Items whose value is a row of numbers, each with a flag of its own. *)
NumberItem(p, q) ==
  /\ Shaped(p) /\ p.length = LiveLength(p)
  /\ q.type = p.type /\ q.length = p.length /\ q.bytes = p.length /\ DOMAIN q.val = DOMAIN p.val
  /\ q.nocheck = {f \in (DOMAIN p.val) \ {"sids"} : p.val[f] = Open}
  /\ \A f \in DOMAIN p.val : p.val[f] # Open => q.val[f] = p.val[f]
  /\ "sub" \notin DOMAIN p.val /\ "chunk" \notin DOMAIN p.val

(* The length follows from the shape. *)
LEMMA ShapedLength ==
  ASSUME NEW p, Shaped(p)
  PROVE  /\ LiveLength(p) \in Nat /\ LiveLength(p) > 2
         /\ LiveLength(p) = NumberBytes + (IF "sids" \in DOMAIN p.val THEN Len(p.val.sids)
                                           ELSE IF NextTsns \subseteq DOMAIN p.val THEN 1 ELSE 0)
         /\ "value" \notin DOMAIN p.val /\ "sub" \notin DOMAIN p.val /\ "chunk" \notin DOMAIN p.val
         /\ "sids" \in DOMAIN p.val <=> p.type \in {"OUTGOING_SSN_RESET", "INCOMING_SSN_RESET"}
         /\ NextTsns \subseteq DOMAIN p.val => p.type = "RECONFIG_RESPONSE"
<1>1. /\ "value" \notin DOMAIN p.val /\ "sub" \notin DOMAIN p.val /\ "chunk" \notin DOMAIN p.val
      /\ "sids" \in DOMAIN p.val <=> p.type \in {"OUTGOING_SSN_RESET", "INCOMING_SSN_RESET"}
      /\ NextTsns \subseteq DOMAIN p.val => p.type = "RECONFIG_RESPONSE"
  BY DEF Shaped, ReconfigTypes, ReconfigShapes, NextTsns
<1>2. LiveLength(p) = NumberBytes + (IF "sids" \in DOMAIN p.val THEN Len(p.val.sids)
                                     ELSE IF NextTsns \subseteq DOMAIN p.val THEN 1 ELSE 0)
  BY <1>1 DEF LiveLength
<1>3. "sids" \in DOMAIN p.val => Len(p.val.sids) \in Nat
  BY DEF Shaped
<1>4. QED BY <1>1, <1>2, <1>3 DEF NumberBytes

(* Reconfig() stores the numbers and flags the open ones. *)
LEMMA ReconfigItem ==
  ASSUME NEW p, Shaped(p), p.length = LiveLength(p), NEW n, NEW numbers,
         numbers = (DOMAIN p.val) \ {"sids"}, NumberBytes + n = LiveLength(p)
  PROVE  NumberItem(p, Reconfig(p, numbers, n))
<1> DEFINE q == Reconfig(p, numbers, n)
<1>1. /\ q.type = p.type /\ q.length = p.length /\ q.bytes = p.length
      /\ q.val = [f \in DOMAIN p.val |-> Value(p.val[f])]
      /\ q.nocheck = {f \in numbers : p.val[f] = Open}
  BY DEF Reconfig
<1> HIDE DEF q
<1>2. DOMAIN q.val = DOMAIN p.val /\ \A f \in DOMAIN p.val : p.val[f] # Open => q.val[f] = p.val[f]
  BY <1>1 DEF Value
<1>3. QED BY <1>1, <1>2, ShapedLength DEF NumberItem, q

(* The constructors of RECONFIG parameters make such items. *)
LEMMA CountedItem ==
  ASSUME NEW p, Shaped(p), p.kind = p.type, p.length = LiveLength(p)
  PROVE  NumberItem(p, Parameter(p))
<1>1. CASE p.kind = "OUTGOING_SSN_RESET"
  <2>1. Parameter(p) = Reconfig(p, {"reqsn", "respsn", "last_tsn"}, Len(p.val.sids))
    BY <1>1 DEF Parameter, sctp_outgoing_ssn_reset_request_parameter_new
  <2>2. DOMAIN p.val = {"reqsn", "respsn", "last_tsn", "sids"}
    BY <1>1 DEF Shaped, ReconfigShapes
  <2>3. {"reqsn", "respsn", "last_tsn"} = (DOMAIN p.val) \ {"sids"}
    BY <2>2
  <2>4. NumberBytes + Len(p.val.sids) = LiveLength(p)
    BY <1>1, <2>2, ShapedLength DEF NextTsns
  <2>5. QED BY <2>1, <2>3, <2>4, ReconfigItem
<1>2. CASE p.kind = "INCOMING_SSN_RESET"
  <2>1. Parameter(p) = Reconfig(p, {"reqsn"}, Len(p.val.sids))
    BY <1>2 DEF Parameter, sctp_incoming_ssn_reset_request_parameter_new
  <2>2. DOMAIN p.val = {"reqsn", "sids"}
    BY <1>2 DEF Shaped, ReconfigShapes
  <2>3. {"reqsn"} = (DOMAIN p.val) \ {"sids"}
    BY <2>2
  <2>4. NumberBytes + Len(p.val.sids) = LiveLength(p)
    BY <1>2, <2>2, ShapedLength DEF NextTsns
  <2>5. QED BY <2>1, <2>3, <2>4, ReconfigItem
<1>3. CASE p.kind = "SSN_TSN_RESET"
  <2>1. Parameter(p) = Reconfig(p, {"reqsn"}, 0)
    BY <1>3 DEF Parameter, sctp_ssn_tsn_reset_request_parameter_new
  <2>2. DOMAIN p.val = {"reqsn"}
    BY <1>3 DEF Shaped, ReconfigShapes
  <2>3. {"reqsn"} = (DOMAIN p.val) \ {"sids"}
    BY <2>2
  <2>4. NumberBytes + 0 = LiveLength(p)
    BY <1>3, <2>2, ShapedLength DEF NextTsns
  <2>5. QED BY <2>1, <2>3, <2>4, ReconfigItem
<1>4. CASE p.kind = "RECONFIG_RESPONSE"
  <2>1. Parameter(p) = Reconfig(p, DOMAIN p.val, IF NextTsns \subseteq DOMAIN p.val THEN 1 ELSE 0)
    BY <1>4 DEF Parameter, sctp_reconfig_response_parameter_new
  <2>2. "sids" \notin DOMAIN p.val
    BY <1>4, ShapedLength
  <2>3. DOMAIN p.val = (DOMAIN p.val) \ {"sids"}
    BY <2>2
  <2>4. QED BY <2>1, <2>2, <2>3, ShapedLength, ReconfigItem
<1>5. CASE p.kind = "ADD_OUTGOING_STREAMS"
  <2>1. Parameter(p) = Reconfig(p, {"reqsn", "number_of_new_streams"}, 0)
    BY <1>5 DEF Parameter, sctp_add_outgoing_streams_request_parameter_new
  <2>2. DOMAIN p.val = {"reqsn", "number_of_new_streams"}
    BY <1>5 DEF Shaped, ReconfigShapes
  <2>3. {"reqsn", "number_of_new_streams"} = (DOMAIN p.val) \ {"sids"}
    BY <2>2
  <2>4. NumberBytes + 0 = LiveLength(p)
    BY <1>5, <2>2, ShapedLength DEF NextTsns
  <2>5. QED BY <2>1, <2>3, <2>4, ReconfigItem
<1>6. CASE p.kind = "ADD_INCOMING_STREAMS"
  <2>1. Parameter(p) = Reconfig(p, {"reqsn", "number_of_new_streams"}, 0)
    BY <1>6 DEF Parameter, sctp_add_incoming_streams_request_parameter_new
  <2>2. DOMAIN p.val = {"reqsn", "number_of_new_streams"}
    BY <1>6 DEF Shaped, ReconfigShapes
  <2>3. {"reqsn", "number_of_new_streams"} = (DOMAIN p.val) \ {"sids"}
    BY <2>2
  <2>4. NumberBytes + 0 = LiveLength(p)
    BY <1>6, <2>2, ShapedLength DEF NextTsns
  <2>5. QED BY <2>1, <2>3, <2>4, ReconfigItem
<1>7. QED BY <1>1, <1>2, <1>3, <1>4, <1>5, <1>6 DEF Shaped, ReconfigTypes

(* Items that no parameter of the kernel can equal. *)
NeverItem(p, q) ==
  /\ ItemCheckedThoughOpen(p) /\ q.nocheck \subseteq {"reqsn"}
  /\ q.type = "0" \/ q.length = -1
  /\ p.type = Open \/ Shaped(p)

(* RECONFIG_REQUEST_GENERIC. *)
LEMMA GenericReconfigItem ==
  ASSUME NEW t \in {Open, "SSN_TSN_RESET"}, NEW n \in {Open, NumberBytes}, NEW r \in {Open, 1}
  PROVE  LET p == Par("RECONFIG_REQUEST_GENERIC", t, n, [reqsn |-> r]) IN
         NumberItem(p, Parameter(p)) \/ NeverItem(p, Parameter(p))
<1> DEFINE p == Par("RECONFIG_REQUEST_GENERIC", t, n, [reqsn |-> r])
           q == Parameter(p)
<1>1. p.kind = "RECONFIG_REQUEST_GENERIC" /\ p.type = t /\ p.length = n /\ p.val = [reqsn |-> r]
  BY DEF Par
<1> HIDE DEF p
<1>2. q = sctp_generic_reconfig_request_parameter_new(p)
  BY <1>1 DEF Parameter
<1>3. /\ q.type = (IF t = Open THEN "0" ELSE t)
      /\ q.length = (IF n = Open THEN -1 ELSE n)
      /\ q.bytes = NumberBytes /\ q.val = [reqsn |-> Value(r)] /\ q.nocheck = Flags(r = Open, {"reqsn"})
  BY <1>1, <1>2 DEF sctp_generic_reconfig_request_parameter_new
<1> HIDE DEF q
<1>4. q.nocheck \subseteq {"reqsn"} /\ ("reqsn" \in q.nocheck <=> r = Open)
  BY <1>3 DEF Flags
<1>5. CASE t = Open \/ n = Open
  <2>1. ItemCheckedThoughOpen(p)
    BY <1>1, <1>5 DEF ItemCheckedThoughOpen
  <2>2. DOMAIN p.val = {"reqsn"}
    BY <1>1
  <2>3. t # Open => Shaped(p)
    BY <1>1, <2>2 DEF Shaped, ReconfigTypes, ReconfigShapes
  <2>4. NeverItem(p, q)
    BY <1>1, <1>3, <1>4, <1>5, <2>1, <2>3 DEF NeverItem
  <2>5. QED BY <2>4 DEF p, q
<1>6. CASE t # Open /\ n # Open
  <2>1. t = "SSN_TSN_RESET" /\ n = NumberBytes
    BY <1>6
  <2>2. DOMAIN p.val = {"reqsn"} /\ p.val.reqsn = r
    BY <1>1
  <2>3. Shaped(p)
    BY <1>1, <2>1, <2>2 DEF Shaped, ReconfigTypes, ReconfigShapes
  <2>4. LiveLength(p) = NumberBytes
    BY <2>2, <2>3, ShapedLength DEF NextTsns, NumberBytes
  <2>5. q.type = p.type /\ q.length = p.length /\ q.bytes = p.length /\ p.length = LiveLength(p)
    BY <1>1, <1>3, <1>6, <2>1, <2>4
  <2>6. DOMAIN q.val = DOMAIN p.val /\ (r # Open => q.val.reqsn = r)
    BY <1>3, <2>2 DEF Value
  <2>7. q.nocheck = {f \in (DOMAIN p.val) \ {"sids"} : p.val[f] = Open}
    BY <1>4, <2>2
  <2>8. NumberItem(p, q)
    BY <2>2, <2>3, <2>5, <2>6, <2>7 DEF NumberItem
  <2>9. QED BY <2>8 DEF p, q
<1>7. QED BY <1>5, <1>6

(* The numbers that are written. *)
LEMMA NumbersWhole ==
  ASSUME NEW kind, NEW fields, NEW fixed, NEW p \in Numbers(kind, fields, fixed), "sids" \notin fields
  PROVE  /\ p.kind = kind /\ p.type = kind /\ p.length = NumberBytes
         /\ DOMAIN p.val = fields \cup DOMAIN fixed
         /\ "sids" \in DOMAIN fixed => p.val.sids = fixed.sids
         /\ DOMAIN p = {"kind", "type", "length", "val"}
<1>1. PICK v \in {v \in [fields -> {1, Open}] : Cardinality({f \in fields : v[f] = Open}) <= 1} :
        p = Par(kind, kind, NumberBytes, Joined(v, fixed))
  BY DEF Numbers
<1>2. DOMAIN v = fields
  OBVIOUS
<1>3. p.val = Joined(v, fixed)
  BY <1>1 DEF Par
<1>4. p.kind = kind /\ p.type = kind /\ p.length = NumberBytes /\ DOMAIN p = {"kind", "type", "length", "val"}
  BY <1>1 DEF Par
<1>5. DOMAIN p.val = fields \cup DOMAIN fixed
  BY <1>2, <1>3, JoinedFields
<1>6. "sids" \in DOMAIN fixed => p.val.sids = fixed.sids
  BY <1>2, <1>3 DEF Joined
<1>7. QED BY <1>4, <1>5, <1>6

(* What Parameter() makes of the parameters of RECONFIG. *)
LEMMA ReconfigParameterItems ==
  \A p \in ReconfigParameters :
    ValueItem(p, Parameter(p)) \/ NumberItem(p, Parameter(p)) \/ NeverItem(p, Parameter(p))
<1> SUFFICES ASSUME NEW p \in ReconfigParameters
             PROVE  ValueItem(p, Parameter(p)) \/ NumberItem(p, Parameter(p)) \/ NeverItem(p, Parameter(p))
  OBVIOUS
<1> DEFINE A == Numbers("OUTGOING_SSN_RESET", {"reqsn", "respsn", "last_tsn"}, [sids |-> <<>>])
           B == Numbers("INCOMING_SSN_RESET", {"reqsn"}, [sids |-> <<>>])
           C == {Par("OUTGOING_SSN_RESET", "OUTGOING_SSN_RESET", NumberBytes + 1,
                     [reqsn |-> 1, respsn |-> 1, last_tsn |-> 1, sids |-> <<1>>]),
                 Par("INCOMING_SSN_RESET", "INCOMING_SSN_RESET", NumberBytes + 1,
                     [reqsn |-> 1, sids |-> <<1>>])}
           D == Numbers("SSN_TSN_RESET", {"reqsn"}, <<>>)
           E == Numbers("RECONFIG_RESPONSE", {"respsn", "result"}, <<>>)
           Long == Numbers("RECONFIG_RESPONSE", {"respsn", "result"} \cup NextTsns, <<>>)
           F == {[q EXCEPT !.length = @ + 1] : q \in Long}
           Adds(k) == Numbers(k, {"reqsn", "number_of_new_streams"}, <<>>)
           G == UNION {Adds(k) : k \in {"ADD_OUTGOING_STREAMS", "ADD_INCOMING_STREAMS"}}
           H == {Par("RECONFIG_REQUEST_GENERIC", t, n, [reqsn |-> r]) :
                   t \in {Open, "SSN_TSN_RESET"}, n \in {Open, NumberBytes}, r \in {Open, 1}}
           I == GenericOf("PARAMETER", {Open, "UNKNOWN"})
<1>1. ReconfigParameters = A \cup B \cup C \cup D \cup E \cup F \cup G \cup H \cup I
  BY DEF ReconfigParameters
<1>2. ASSUME p.kind = p.type, p.type \in ReconfigTypes, DOMAIN p.val \in ReconfigShapes(p.type),
             NEW n \in {0, 1}, p.length = NumberBytes + n,
             "sids" \in DOMAIN p.val => p.val.sids \in Seq(Nat) /\ Len(p.val.sids) = n,
             "sids" \notin DOMAIN p.val => (NextTsns \subseteq DOMAIN p.val <=> n = 1)
      PROVE  NumberItem(p, Parameter(p))
  <2>1. Shaped(p)
    BY <1>2 DEF Shaped
  <2>2. p.length = LiveLength(p)
    BY <1>2, <2>1, ShapedLength
  <2>3. QED BY <1>2, <2>1, <2>2, CountedItem
<1>3. ASSUME p \in A PROVE NumberItem(p, Parameter(p))
  <2>1. /\ p.kind = "OUTGOING_SSN_RESET" /\ p.type = p.kind /\ p.length = NumberBytes + 0
        /\ DOMAIN p.val = {"reqsn", "respsn", "last_tsn", "sids"} /\ p.val.sids = <<>>
    BY <1>3, NumbersWhole DEF NumberBytes
  <2>2. QED BY <1>2, <2>1, Small DEF ReconfigTypes, ReconfigShapes
<1>4. ASSUME p \in B PROVE NumberItem(p, Parameter(p))
  <2>1. /\ p.kind = "INCOMING_SSN_RESET" /\ p.type = p.kind /\ p.length = NumberBytes + 0
        /\ DOMAIN p.val = {"reqsn", "sids"} /\ p.val.sids = <<>>
    BY <1>4, NumbersWhole DEF NumberBytes
  <2>2. QED BY <1>2, <2>1, Small DEF ReconfigTypes, ReconfigShapes
<1>5. ASSUME p \in C PROVE NumberItem(p, Parameter(p))
  <2>1. /\ p.kind \in {"OUTGOING_SSN_RESET", "INCOMING_SSN_RESET"} /\ p.type = p.kind
        /\ p.length = NumberBytes + 1 /\ "sids" \in DOMAIN p.val /\ p.val.sids = <<1>>
        /\ p.type = "OUTGOING_SSN_RESET" => DOMAIN p.val = {"reqsn", "respsn", "last_tsn", "sids"}
        /\ p.type = "INCOMING_SSN_RESET" => DOMAIN p.val = {"reqsn", "sids"}
    BY <1>5 DEF Par
  <2>2. QED BY <1>2, <2>1, Small DEF ReconfigTypes, ReconfigShapes
<1>6. ASSUME p \in D PROVE NumberItem(p, Parameter(p))
  <2>1. /\ p.kind = "SSN_TSN_RESET" /\ p.type = p.kind /\ p.length = NumberBytes + 0
        /\ DOMAIN p.val = {"reqsn"}
    BY <1>6, NumbersWhole DEF NumberBytes
  <2>2. QED BY <1>2, <2>1 DEF ReconfigTypes, ReconfigShapes, NextTsns
<1>7. ASSUME p \in E PROVE NumberItem(p, Parameter(p))
  <2>1. /\ p.kind = "RECONFIG_RESPONSE" /\ p.type = p.kind /\ p.length = NumberBytes + 0
        /\ DOMAIN p.val = {"respsn", "result"}
    BY <1>7, NumbersWhole DEF NumberBytes
  <2>2. QED BY <1>2, <2>1 DEF ReconfigTypes, ReconfigShapes, NextTsns
<1>8. ASSUME p \in F PROVE NumberItem(p, Parameter(p))
  <2>1. PICK q \in Long : p = [q EXCEPT !.length = @ + 1]
    BY <1>8
  <2>2. /\ q.kind = "RECONFIG_RESPONSE" /\ q.type = q.kind /\ q.length = NumberBytes
        /\ DOMAIN q.val = {"respsn", "result"} \cup NextTsns /\ DOMAIN q = {"kind", "type", "length", "val"}
    BY NumbersWhole DEF NextTsns
  <2>3. p.kind = q.kind /\ p.type = q.type /\ p.val = q.val /\ p.length = q.length + 1
    BY <2>1, <2>2
  <2>4. /\ p.kind = "RECONFIG_RESPONSE" /\ p.type = p.kind /\ p.length = NumberBytes + 1
        /\ DOMAIN p.val = {"respsn", "result"} \cup NextTsns
    BY <2>2, <2>3
  <2>5. "sids" \notin DOMAIN p.val /\ NextTsns \subseteq DOMAIN p.val
    BY <2>4 DEF NextTsns
  <2>6. DOMAIN p.val \in ReconfigShapes(p.type) /\ p.type \in ReconfigTypes
    BY <2>4 DEF ReconfigTypes, ReconfigShapes
  <2>7. QED BY <1>2, <2>4, <2>5, <2>6
<1>9. ASSUME p \in G PROVE NumberItem(p, Parameter(p))
  <2>1. PICK k \in {"ADD_OUTGOING_STREAMS", "ADD_INCOMING_STREAMS"} : p \in Adds(k)
    BY <1>9
  <2>2. /\ p.kind = k /\ p.type = p.kind /\ p.length = NumberBytes + 0
        /\ DOMAIN p.val = {"reqsn", "number_of_new_streams"}
    BY <2>1, NumbersWhole DEF NumberBytes
  <2>3. QED BY <1>2, <2>1, <2>2 DEF ReconfigTypes, ReconfigShapes, NextTsns
<1>10. ASSUME p \in H PROVE NumberItem(p, Parameter(p)) \/ NeverItem(p, Parameter(p))
  BY <1>10, GenericReconfigItem
<1>11. ASSUME p \in I PROVE ValueItem(p, Parameter(p))
  <2>1. p.kind = "PARAMETER"
    BY <1>11 DEF GenericOf, Par
  <2>2. Parameter(p) = sctp_generic_parameter_new(p)
    BY <2>1 DEF Parameter
  <2>3. QED BY <1>11, <2>2, GenericItems
<1> HIDE DEF A, B, C, D, E, F, G, H, I
<1>12. QED BY <1>1, <1>3, <1>4, <1>5, <1>6, <1>7, <1>8, <1>9, <1>10, <1>11

(* What the kernel sends: parameters of a known shape, or a string of bytes. *)
LiveItemOK(l) ==
  /\ l.type # "0"
  /\ \/ Shaped(l)
     \/ l.type \notin ReconfigTypes /\ DOMAIN l.val = {"value"} /\ l.val.value \in Seq(Nat)

(* The values that are sent are strings of bytes. *)
LEMMA ByteStrings ==
  /\ \A v \in {<<>>, <<0>>, <<1>>, <<1, 0>>, <<0, 1>>, <<1, 1>>, <<1, 1, 1>>} : v \in Seq(Nat)
  /\ LiveItemOK(Other) /\ LiveItemOK(Cut)
<1>1. <<1, 0>> \in Seq(Nat) /\ <<0, 1>> \in Seq(Nat) /\ <<1, 1>> \in Seq(Nat)
  OBVIOUS
<1>2. <<1, 1, 1>> \in Seq(Nat)
  OBVIOUS
<1>3. \A v \in {<<>>, <<0>>, <<1>>, <<1, 0>>, <<0, 1>>, <<1, 1>>, <<1, 1, 1>>} : v \in Seq(Nat)
  BY <1>1, <1>2, Small, Zenon
<1>4. \A t : LiveItem(t, [value |-> <<>>]).type = t
  BY DEF LiveItem
<1>5. \A t : LiveItem(t, [value |-> <<>>]).val = [value |-> <<>>]
  BY DEF LiveItem
<1>6. \A l : l.val = [value |-> <<>>] => DOMAIN l.val = {"value"} /\ l.val.value = <<>>
  OBVIOUS
<1>7. \A l : l.val = [value |-> <<>>] => DOMAIN l.val = {"value"} /\ l.val.value \in Seq(Nat)
  BY <1>6, Small
<1>8. \A t : t \notin ReconfigTypes \cup {"0"} => LiveItemOK(LiveItem(t, [value |-> <<>>]))
  BY <1>4, <1>5, <1>7 DEF LiveItemOK
<1>9. "PARTIAL" \notin ReconfigTypes \cup {"0"} /\ "ECN_CAPABLE" \notin ReconfigTypes \cup {"0"}
  BY DEF ReconfigTypes
<1>10. LiveItemOK(Other) /\ LiveItemOK(Cut)
  BY <1>8, <1>9 DEF Other, Cut
<1>11. QED BY <1>3, <1>10

(* What the script may write: a value, or the numbers of its type. *)
Writable(p) == p.type \notin ReconfigTypes \cup {"0"} \/ Shaped(p)

(* The kernel answers numbers with numbers of that type, *)
LEMMA LiveNumbers ==
  ASSUME NEW p, Shaped(p), NEW l \in LiveItems(p)
  PROVE  Shaped(l)
<1> DEFINE S == IF "sids" \in DOMAIN p.val THEN [sids : {<<>>, <<0>>, <<1>>}] ELSE {<<>>}
           L == IF p.type = "RECONFIG_RESPONSE" THEN {[f \in NextTsns |-> 1], <<>>} ELSE {<<>>}
<1>1. p.type \in ReconfigTypes
  BY DEF Shaped
<1>2. PICK v \in NumbersOf(p.val), m \in S, n \in L : l = LiveItem(p.type, Joined(Joined(v, m), n))
  BY <1>1 DEF LiveItems
<1>3. l.type = p.type /\ l.val = Joined(Joined(v, m), n)
  BY <1>2 DEF LiveItem
<1>4. DOMAIN v = (DOMAIN p.val) \ {"sids"}
  BY DEF NumbersOf, AtMost
<1>5. DOMAIN m = (DOMAIN p.val) \cap {"sids"} /\ ("sids" \in DOMAIN p.val => m.sids \in {<<>>, <<0>>, <<1>>})
  <2> DEFINE V == {<<>>, <<0>>, <<1>>}
  <2>1. "sids" \in DOMAIN p.val => m \in [sids : V]
    BY <1>2
  <2> HIDE DEF V
  <2>2. "sids" \in DOMAIN p.val => DOMAIN m = {"sids"} /\ m.sids \in V
    BY <2>1
  <2>3. "sids" \notin DOMAIN p.val => DOMAIN m = {}
    BY <1>2
  <2>4. QED BY <2>2, <2>3 DEF V
<1>6. DOMAIN n = {} \/ (p.type = "RECONFIG_RESPONSE" /\ DOMAIN n = NextTsns)
  BY <1>2
<1>7. DOMAIN l.val = ((DOMAIN v) \cup (DOMAIN m)) \cup DOMAIN n
  <2> DEFINE g == Joined(v, m)
  <2>1. DOMAIN g = (DOMAIN v) \cup DOMAIN m
    BY JoinedFields
  <2> HIDE DEF g
  <2>2. DOMAIN Joined(g, n) = (DOMAIN g) \cup DOMAIN n
    BY JoinedFields
  <2>3. QED BY <1>3, <2>1, <2>2 DEF g
<1>8. DOMAIN l.val = (DOMAIN p.val) \cup DOMAIN n
  BY <1>4, <1>5, <1>7
<1> HIDE DEF S, L
<1>9. DOMAIN l.val \in ReconfigShapes(l.type)
  <2>1. CASE DOMAIN n = {}
    BY <1>3, <1>8, <2>1 DEF Shaped
  <2>2. CASE p.type = "RECONFIG_RESPONSE" /\ DOMAIN n = NextTsns
    <3>1. DOMAIN p.val = {"respsn", "result"} \/ DOMAIN p.val = {"respsn", "result"} \cup NextTsns
      BY <2>2 DEF Shaped, ReconfigShapes
    <3>2. DOMAIN l.val = {"respsn", "result"} \cup NextTsns
      BY <1>8, <2>2, <3>1
    <3>3. QED BY <1>3, <2>2, <3>2 DEF ReconfigShapes
  <2>3. QED BY <1>6, <2>1, <2>2
<1>10. "sids" \in DOMAIN l.val => l.val.sids = m.sids
  <2>1. "sids" \notin DOMAIN v /\ "sids" \notin DOMAIN n
    BY <1>4, <1>6 DEF NextTsns
  <2>2. QED BY <1>3, <1>7, <2>1 DEF Joined
<1>11. "sids" \in DOMAIN l.val => "sids" \in DOMAIN p.val
  BY <1>6, <1>8 DEF NextTsns
<1>12. "sids" \in DOMAIN l.val => l.val.sids \in Seq(Nat)
  BY <1>5, <1>10, <1>11, ByteStrings
<1>13. QED BY <1>1, <1>3, <1>9, <1>12 DEF Shaped

(* and everything with what can be compared. *)
LEMMA LiveItemsOK ==
  ASSUME NEW p, Writable(p), NEW l \in LiveItems(p)
  PROVE  LiveItemOK(l)
<1>1. CASE Shaped(p)
  <2>1. Shaped(l)
    BY <1>1, LiveNumbers
  <2>2. l.type # "0"
    BY <2>1 DEF Shaped, ReconfigTypes
  <2>3. QED BY <2>1, <2>2 DEF LiveItemOK
<1>2. CASE p.type \notin ReconfigTypes \cup {"0"}
  <2> DEFINE A == {LiveItem(IF p.type = Open THEN "UNKNOWN" ELSE p.type, [value |-> v]) :
                     v \in {<<>>, <<0>>, <<1>>, <<1, 0>>, <<0, 1>>, <<1, 1>>, <<1, 1, 1>>}}
             B == {LiveItem("SSN_TSN_RESET", [reqsn |-> 1]),
                   LiveItem("INCOMING_SSN_RESET", [reqsn |-> 1, sids |-> <<>>])}
  <2>1. l \in A \/ l \in B \/ l = Other
    BY <1>2 DEF LiveItems
  <2>2. ASSUME l \in A PROVE LiveItemOK(l)
    <3>1. PICK v \in {<<>>, <<0>>, <<1>>, <<1, 0>>, <<0, 1>>, <<1, 1>>, <<1, 1, 1>>} :
            l = LiveItem(IF p.type = Open THEN "UNKNOWN" ELSE p.type, [value |-> v])
      BY <2>2
    <3>2. v \in Seq(Nat)
      BY ByteStrings
    <3>3. l.type = (IF p.type = Open THEN "UNKNOWN" ELSE p.type) /\ DOMAIN l.val = {"value"} /\ l.val.value = v
      BY <3>1 DEF LiveItem
    <3>4. l.type \notin ReconfigTypes \cup {"0"}
      BY <1>2, <3>3 DEF ReconfigTypes
    <3>5. QED BY <3>2, <3>3, <3>4 DEF LiveItemOK
  <2>3. ASSUME l \in B PROVE LiveItemOK(l)
    <3>1. \/ l.type = "SSN_TSN_RESET" /\ DOMAIN l.val = {"reqsn"}
          \/ l.type = "INCOMING_SSN_RESET" /\ DOMAIN l.val = {"reqsn", "sids"} /\ l.val.sids = <<>>
      BY <2>3 DEF LiveItem
    <3>2. Shaped(l)
      BY <3>1, Small DEF Shaped, ReconfigTypes, ReconfigShapes
    <3>3. QED BY <3>1, <3>2 DEF LiveItemOK
  <2>4. QED BY <2>1, <2>2, <2>3, ByteStrings
<1>3. QED BY <1>1, <1>2 DEF Writable

(* Bytes are compared one by one. *)
LEMMA MemSameEqual ==
  ASSUME NEW s \in Seq(Nat), NEW t \in Seq(Nat), Len(s) = Len(t), NEW junk
  PROVE  MemSame(s, t, junk) <=> s = t
<1>1. DOMAIN s = 1..Len(s) /\ DOMAIN t = 1..Len(s)
  OBVIOUS
<1>2. MemSame(s, t, junk) <=> \A i \in 1..Len(s) : s[i] = t[i]
  BY <1>1 DEF MemSame, At
<1>3. (\A i \in 1..Len(s) : s[i] = t[i]) => s = t
  OBVIOUS
<1>4. QED BY <1>2, <1>3

(* s and t are what the comparison of an item comes to, for either content of the memory behind it. *)
ItemRight(p, l, s, t) ==
  /\ s = "dies" \/ t = "dies" => OpenPad(p) \/ OpenType(p) \/ ~l.whole
  /\ s # t => OpenType(p) \/ ~l.whole
  /\ s = "ok" \/ t = "ok" => ItemFits(p, l) \/ OpenWithin(p)
  /\ ItemFits(p, l) => (s = "ok" /\ t = "ok") \/ ItemCheckedThoughOpen(p)

(* Items that differ. *)
LEMMA BothErr ==
  ASSUME NEW p, NEW l, NEW s, NEW t, s = "err", t = "err", ItemFits(p, l) => ItemCheckedThoughOpen(p)
  PROVE  ItemRight(p, l, s, t)
BY DEF ItemRight

(* What the length field covers is compared. *)
LEMMA WholeStatus ==
  ASSUME NEW q, NEW l, l.whole, NEW j
  PROVE  /\ ParameterStatus(q, l, j) =
              IF l.type = "PARTIAL" \/ ~HeaderSame(q, l, LiveLength(l)) THEN "err"
              ELSE IF l.type \in ReconfigTypes THEN ReconfigStatus(q, l, j) ELSE ValueStatus(q, l.val.value, j)
         /\ CauseStatus(q, l, j) =
              IF l.type = "PARTIAL" \/ ~HeaderSame(q, l, LiveLength(l)) THEN "err"
              ELSE ValueStatus(q, l.val.value, j)
<1>1. LengthField(l) = LiveLength(l)
  BY DEF LengthField
<1>2. \A x : sctp_parameters_next(l, x) = x /\ sctp_causes_next(l, x) = x
  BY DEF sctp_parameters_next, sctp_causes_next
<1>3. QED BY <1>1, <1>2 DEF ParameterStatus, CauseStatus

(* What it does not cover never passes. *)
LEMMA NotWhole ==
  ASSUME NEW p, NEW q, NEW l, ~l.whole
  PROVE  /\ ItemRight(p, l, ParameterStatus(q, l, 0), ParameterStatus(q, l, 1))
         /\ ItemRight(p, l, CauseStatus(q, l, 0), CauseStatus(q, l, 1))
<1>1. \A x : sctp_parameters_next(l, x) # "ok" /\ sctp_causes_next(l, x) # "ok"
  BY DEF sctp_parameters_next, sctp_causes_next
<1>2. \A j : ParameterStatus(q, l, j) # "ok" /\ CauseStatus(q, l, j) # "ok"
  BY <1>1 DEF ParameterStatus, CauseStatus
<1>3. ~ItemFits(p, l)
  BY DEF ItemFits
<1>4. QED BY <1>2, <1>3 DEF ItemRight

(* The header of an item is compared as it was written. *)
LEMMA ValueHeader ==
  ASSUME NEW p, NEW q, ValueItem(p, q), NEW l
  PROVE  /\ HeaderSame(q, l, LiveLength(l)) => Fits(p.type, l.type) /\ Fits(p.length, LiveLength(l))
         /\ Fits(p.type, l.type) /\ Fits(p.length, LiveLength(l)) =>
              HeaderSame(q, l, LiveLength(l)) \/ p.type = Open
<1>1. "length" \notin q.nocheck => p.length = q.length /\ q.length # Open
  BY OpenMarks DEF ValueItem
<1>2. QED BY <1>1 DEF HeaderSame, Fits, ValueItem

(* The value is compared, unless it was left open. *)
LEMMA ValueCompared ==
  ASSUME NEW p, NEW q, ValueItem(p, q), "partial" \notin q.nocheck, NEW l,
         l.type # "PARTIAL", l.whole, DOMAIN l.val = {"value"}, l.val.value \in Seq(Nat),
         HeaderSame(q, l, LiveLength(l))
  PROVE  ItemRight(p, l, ValueStatus(q, l.val.value, 0), ValueStatus(q, l.val.value, 1))
<1> DEFINE s(j) == ValueStatus(q, l.val.value, j)
<1>1. ItemFits(p, l) <=> ValueFits(p, l)
  BY ValueHeader DEF ItemFits
<1>2. CASE "value" \in q.nocheck
  <2>1. s(0) = "ok" /\ s(1) = "ok"
    BY <1>2 DEF ValueStatus
  <2>2. OpenWithin(p) \/ ValueFits(p, l)
    BY <1>2 DEF ValueItem
  <2> HIDE DEF s
  <2>3. ItemRight(p, l, s(0), s(1))
    BY <1>1, <2>1, <2>2 DEF ItemRight
  <2>4. QED BY <2>3 DEF s
<1>3. CASE "value" \notin q.nocheck /\ "length" \in q.nocheck
  <2>1. s(0) = "dies" /\ s(1) = "dies"
    BY <1>3 DEF ValueStatus
  <2>2. OpenPad(p)
    BY <1>3 DEF ValueItem
  <2>3. ItemCheckedThoughOpen(p)
    BY <2>2 DEF OpenPad, ItemCheckedThoughOpen
  <2> HIDE DEF s
  <2>4. ItemRight(p, l, s(0), s(1))
    BY <2>1, <2>2, <2>3 DEF ItemRight
  <2>5. QED BY <2>4 DEF s
<1>4. CASE "value" \notin q.nocheck /\ "length" \notin q.nocheck
  <2> DEFINE a == q.val.value
             b == l.val.value
  <2>1. q.nocheck \cap {"length", "value", "partial"} = {}
    BY <1>4
  <2>2. a \in Seq(Nat) /\ Len(a) = q.length
    BY <2>1 DEF ValueItem
  <2>3. /\ a = b => ValueFits(p, l)
        /\ ValueFits(p, l) => a = b \/ ItemCheckedThoughOpen(p)
    BY <2>1 DEF ValueItem
  <2>4. q.length = Len(b)
    BY <1>4 DEF HeaderSame, LiveLength
  <2>5. \A j : s(j) = Status(MemSame(a, b, j))
    BY <1>4 DEF ValueStatus
  <2> HIDE DEF a, b, s
  <2>6. \A j : MemSame(a, b, j) <=> a = b
    BY <2>2, <2>4, MemSameEqual DEF b
  <2>7. \A j : (a = b => s(j) = "ok") /\ (a # b => s(j) = "err")
    BY <2>5, <2>6 DEF Status
  <2>8. ItemRight(p, l, s(0), s(1))
    BY <1>1, <2>3, <2>7 DEF ItemRight
  <2>9. QED BY <2>8 DEF s
<1>5. QED BY <1>2, <1>3, <1>4

(* An item with a string of bytes is never equal to one with numbers, unless all of it is open. *)
LEMMA ValueIsNoNumber ==
  ASSUME NEW p, NEW q, ValueItem(p, q), NEW l, Shaped(l), HeaderSame(q, l, LiveLength(l))
  PROVE  p.type = Open /\ p.length = Open /\ "value" \in q.nocheck
<1>1. l.type \in ReconfigTypes /\ LiveLength(l) > 2 /\ LiveLength(l) \in Nat
  BY ShapedLength DEF Shaped
<1>2. "type" \in q.nocheck
  BY <1>1 DEF HeaderSame, ValueItem
<1>3. "length" \in q.nocheck
  BY <1>1 DEF HeaderSame, ValueItem
<1>4. QED BY <1>2, <1>3 DEF ValueItem

(* The status of items whose value is a string of bytes, *)
LEMMA ValueItemRight ==
  ASSUME NEW p, NEW q, ValueItem(p, q), "partial" \notin q.nocheck, NEW l, LiveItemOK(l), l.whole
  PROVE  /\ ItemRight(p, l, ParameterStatus(q, l, 0), ParameterStatus(q, l, 1))
         /\ ItemRight(p, l, CauseStatus(q, l, 0), CauseStatus(q, l, 1))
<1>1. CASE l.type = "PARTIAL" \/ ~HeaderSame(q, l, LiveLength(l))
  <2>1. \A j : ParameterStatus(q, l, j) = "err" /\ CauseStatus(q, l, j) = "err"
    BY <1>1, WholeStatus
  <2>2. ItemFits(p, l) => ItemCheckedThoughOpen(p)
    BY <1>1, ValueHeader DEF ItemFits, ItemCheckedThoughOpen
  <2>3. QED BY <2>1, <2>2, BothErr
<1>2. CASE l.type # "PARTIAL" /\ HeaderSame(q, l, LiveLength(l)) /\ ~Shaped(l)
  <2>1. l.type \notin ReconfigTypes /\ DOMAIN l.val = {"value"} /\ l.val.value \in Seq(Nat)
    BY <1>2 DEF LiveItemOK
  <2>2. \A j : /\ ParameterStatus(q, l, j) = ValueStatus(q, l.val.value, j)
               /\ CauseStatus(q, l, j) = ValueStatus(q, l.val.value, j)
    BY <1>2, <2>1, WholeStatus
  <2>3. QED BY <1>2, <2>1, <2>2, ValueCompared
<1>3. CASE l.type # "PARTIAL" /\ HeaderSame(q, l, LiveLength(l)) /\ Shaped(l)
  <2>1. p.type = Open /\ p.length = Open /\ "value" \in q.nocheck
    BY <1>3, ValueIsNoNumber
  <2>2. OpenType(p) /\ ItemCheckedThoughOpen(p)
    BY <2>1 DEF OpenType, ItemCheckedThoughOpen
  <2>3. ItemFits(p, l) \/ OpenWithin(p)
    BY <1>3, <2>1 DEF ItemFits, Fits, ValueItem
  <2>4. QED BY <2>2, <2>3 DEF ItemRight
<1>4. QED BY <1>1, <1>2, <1>3

(* of the generic request, which matches nothing, *)
LEMMA NeverItemRight ==
  ASSUME NEW p, NEW q, NeverItem(p, q), NEW l, LiveItemOK(l), l.whole
  PROVE  ItemRight(p, l, ParameterStatus(q, l, 0), ParameterStatus(q, l, 1))
<1>1. LiveLength(l) \in Nat
  <2>1. CASE Shaped(l)
    BY <2>1, ShapedLength
  <2>2. CASE DOMAIN l.val = {"value"} /\ l.val.value \in Seq(Nat)
    BY <2>2 DEF LiveLength
  <2>3. QED BY <2>1, <2>2 DEF LiveItemOK
<1>2. ~HeaderSame(q, l, LiveLength(l))
  BY <1>1 DEF HeaderSame, NeverItem, LiveItemOK
<1>3. ParameterStatus(q, l, 0) = "err" /\ ParameterStatus(q, l, 1) = "err"
  BY <1>2, WholeStatus
<1>4. QED BY <1>3, BothErr DEF NeverItem

(* Parameters of one type and one length have the same numbers. *)
LEMMA ShapesEqual ==
  ASSUME NEW p, NEW l, Shaped(p), Shaped(l), p.type = l.type, LiveLength(p) = LiveLength(l)
  PROVE  DOMAIN p.val = DOMAIN l.val /\ ("sids" \in DOMAIN p.val => Len(p.val.sids) = Len(l.val.sids))
<1>1. "sids" \in DOMAIN p.val <=> "sids" \in DOMAIN l.val
  BY ShapedLength
<1>2. /\ "sids" \in DOMAIN p.val => Len(p.val.sids) = Len(l.val.sids)
      /\ "sids" \notin DOMAIN p.val => (NextTsns \subseteq DOMAIN p.val <=> NextTsns \subseteq DOMAIN l.val)
  <2>1. "sids" \in DOMAIN p.val => Len(p.val.sids) \in Nat /\ Len(l.val.sids) \in Nat
    BY <1>1 DEF Shaped
  <2>2. QED BY <1>1, <2>1, ShapedLength DEF NumberBytes
<1>3. CASE p.type = "RECONFIG_RESPONSE"
  <2>1. "sids" \notin DOMAIN p.val
    BY <1>3, ShapedLength
  <2>2. /\ DOMAIN p.val \in {{"respsn", "result"}, {"respsn", "result"} \cup NextTsns}
        /\ DOMAIN l.val \in {{"respsn", "result"}, {"respsn", "result"} \cup NextTsns}
    BY <1>3 DEF Shaped, ReconfigShapes
  <2>3. ~(NextTsns \subseteq {"respsn", "result"})
    BY DEF NextTsns
  <2>4. NextTsns \subseteq {"respsn", "result"} \cup NextTsns
    OBVIOUS
  <2>5. DOMAIN p.val = DOMAIN l.val
    BY <1>2, <2>1, <2>2, <2>3, <2>4
  <2>6. QED BY <1>2, <2>5
<1>4. CASE p.type # "RECONFIG_RESPONSE"
  <2>1. DOMAIN p.val = DOMAIN l.val
    BY <1>4 DEF Shaped, ReconfigShapes
  <2>2. QED BY <1>2, <2>1
<1>5. QED BY <1>3, <1>4

(* and of items with numbers is right. *)
LEMMA NumberItemRight ==
  ASSUME NEW p, NEW q, NumberItem(p, q), NEW l, LiveItemOK(l), l.whole
  PROVE  ItemRight(p, l, ParameterStatus(q, l, 0), ParameterStatus(q, l, 1))
<1>1. Shaped(p) /\ p.type # Open /\ p.length # Open /\ p.length \in Nat
  BY ShapedLength, OpenMarks, MarkersAssumption DEF NumberItem, Shaped
<1>2. "type" \notin q.nocheck /\ "length" \notin q.nocheck
  BY <1>1 DEF NumberItem, Shaped, ReconfigTypes, ReconfigShapes, NextTsns
<1>3. HeaderSame(q, l, LiveLength(l)) <=> p.type = l.type /\ p.length = LiveLength(l)
  BY <1>2 DEF HeaderSame, NumberItem
<1>4. CASE l.type = "PARTIAL" \/ ~HeaderSame(q, l, LiveLength(l))
  <2>1. \A j : ParameterStatus(q, l, j) = "err"
    BY <1>4, WholeStatus
  <2>2. ~ItemFits(p, l)
    BY <1>1, <1>3, <1>4 DEF ItemFits, Fits
  <2>3. QED BY <2>1, <2>2, BothErr
<1>5. CASE l.type # "PARTIAL" /\ HeaderSame(q, l, LiveLength(l))
  <2>1. p.type = l.type /\ p.length = LiveLength(l) /\ l.type \in ReconfigTypes
    BY <1>1, <1>3, <1>5 DEF Shaped
  <2>2. Shaped(l)
    BY <2>1 DEF LiveItemOK
  <2>3. DOMAIN p.val = DOMAIN l.val /\ ("sids" \in DOMAIN p.val => Len(p.val.sids) = Len(l.val.sids))
    BY <1>1, <2>1, <2>2, ShapesEqual DEF NumberItem
  <2>4. \A j : ParameterStatus(q, l, j) = ReconfigStatus(q, l, j)
    BY <1>5, <2>1, WholeStatus
  <2> DEFINE Eq(f) == p.val[f] = Open \/ p.val[f] = l.val[f]
  <2>5. \A j : \A f \in (DOMAIN l.val) \ {"sids"} : Same(q, l, f, j) <=> Eq(f)
    BY <2>3 DEF Same, Read, NumberItem
  <2>6. ASSUME NEW j, "sids" \notin DOMAIN l.val PROVE SidsStatus(q, l, j) = "ok"
    <3>1. "sids" \notin DOMAIN q.val
      BY <2>3, <2>6 DEF NumberItem
    <3>2. QED BY <2>6, <3>1 DEF SidsStatus
  <2>7. ASSUME "sids" \in DOMAIN l.val
        PROVE  \A j : SidsStatus(q, l, j) = IF Eq("sids") THEN "ok" ELSE "err"
    <3>1. p.val.sids \in Seq(Nat) /\ l.val.sids \in Seq(Nat) /\ Len(p.val.sids) = Len(l.val.sids)
      BY <1>1, <2>2, <2>3, <2>7 DEF Shaped
    <3>2. p.val.sids # Open
      BY <3>1, OpenMarks
    <3>3. q.val.sids = p.val.sids /\ "sids" \in DOMAIN q.val
      BY <2>3, <2>7, <3>2 DEF NumberItem
    <3>4. \A j : SidsStatus(q, l, j) = Status(MemSame(l.val.sids, q.val.sids, j))
      BY <2>7, <3>3 DEF SidsStatus
    <3>5. \A j : MemSame(l.val.sids, q.val.sids, j) <=> l.val.sids = p.val.sids
      BY <3>1, <3>3, MemSameEqual
    <3>6. QED BY <3>2, <3>4, <3>5 DEF Status
  <2>8. \A j : ReconfigStatus(q, l, j) = IF \A f \in DOMAIN l.val : Eq(f) THEN "ok" ELSE "err"
    <3>1. \A j : ReconfigStatus(q, l, j) =
                   IF \A f \in (DOMAIN l.val) \ {"sids"} : Same(q, l, f, j) THEN SidsStatus(q, l, j) ELSE "err"
      BY DEF ReconfigStatus
    <3> HIDE DEF Eq
    <3>2. ASSUME NEW j PROVE ReconfigStatus(q, l, j) = IF \A f \in DOMAIN l.val : Eq(f) THEN "ok" ELSE "err"
      <4>1. CASE ~\A f \in (DOMAIN l.val) \ {"sids"} : Eq(f)
        BY <2>5, <3>1, <4>1
      <4>2. CASE (\A f \in (DOMAIN l.val) \ {"sids"} : Eq(f)) /\ "sids" \notin DOMAIN l.val
        BY <2>5, <2>6, <3>1, <4>2
      <4>3. CASE (\A f \in (DOMAIN l.val) \ {"sids"} : Eq(f)) /\ "sids" \in DOMAIN l.val
        BY <2>5, <2>7, <3>1, <4>3
      <4>4. QED BY <4>1, <4>2, <4>3
    <3>3. QED BY <3>2
  <2>9. ItemFits(p, l) <=> \A f \in DOMAIN l.val : Eq(f)
    <3>1. "sub" \notin DOMAIN p.val /\ "chunk" \notin DOMAIN p.val
      BY DEF NumberItem
    <3>2. ValueFits(p, l) <=> \A f \in DOMAIN p.val : p.val[f] = Open \/ (f \in DOMAIN l.val /\ p.val[f] = l.val[f])
      BY <3>1 DEF ValueFits
    <3>3. ItemFits(p, l) <=> ValueFits(p, l)
      BY <1>5, <2>1 DEF ItemFits, Fits
    <3>4. QED BY <2>3, <3>2, <3>3
  <2> HIDE DEF Eq
  <2>10. \A j : ParameterStatus(q, l, j) = IF ItemFits(p, l) THEN "ok" ELSE "err"
    BY <2>4, <2>8, <2>9
  <2>11. ParameterStatus(q, l, 0) = (IF ItemFits(p, l) THEN "ok" ELSE "err")
    BY <2>10
  <2>12. ParameterStatus(q, l, 1) = (IF ItemFits(p, l) THEN "ok" ELSE "err")
    BY <2>10
  <2>13. QED BY <2>11, <2>12 DEF ItemRight
<1>6. QED BY <1>4, <1>5

(* ListStatus() of a list of n items that is compared with one of m. *)
Judge(s, n, m) == ListStatus(s, n = m)

(* A list passes when its lengths agree and every item passes. *)
JudgedByAll(s, n, m) ==
  /\ Judge(s, n, m) = "ok" <=> n = m /\ \A i \in 1..n : s[i] = "ok"
  /\ Judge(s, n, m) = "dies" => \E i \in 1..n : i \in 1..m /\ s[i] = "dies"

(* That is what ListStatus finds. *)
LEMMA JudgeFacts ==
  ASSUME NEW n \in Nat, NEW m \in Nat, NEW s, DOMAIN s = 1..Min({n, m})
  PROVE  JudgedByAll(s, n, m)
<1> DEFINE k == Min({n, m})
           b == FirstBad(s)
<1>1. k = IF n <= m THEN n ELSE m
  BY MinTwo
<1>2. k \in Nat /\ k <= n /\ k <= m /\ (n = m => k = n)
  BY <1>1
<1> HIDE DEF k
<1>3. b = "ok" <=> \A i \in 1..k : s[i] = "ok"
  BY <1>2, FirstBadFacts DEF k
<1>4. b = "dies" => \E i \in 1..k : s[i] = "dies"
  BY <1>2, FirstBadFacts DEF k
<1>5. Judge(s, n, m) = IF b # "ok" THEN b ELSE IF n = m THEN "ok" ELSE "err"
  BY DEF Judge, ListStatus, Status
<1> HIDE DEF b
<1>6. Judge(s, n, m) = "ok" <=> n = m /\ b = "ok"
  BY <1>5
<1>7. Judge(s, n, m) = "dies" => b = "dies"
  BY <1>5
<1>8. \A i \in 1..k : i \in 1..n /\ i \in 1..m
  BY <1>2
<1>9. n = m => 1..k = 1..n
  BY <1>2
<1>10. Judge(s, n, m) = "ok" <=> n = m /\ \A i \in 1..n : s[i] = "ok"
  BY <1>3, <1>6, <1>9
<1>11. QED BY <1>4, <1>7, <1>8, <1>10 DEF JudgedByAll

(* A length field of the list does not cover the header. *)
SomeNotWhole(ls) == \E i \in 1..Len(ls) : ~ls[i].whole

(* A list of items, compared one by one. *)
ListRight(ps, ls, s, t) ==
  /\ s = "dies" \/ t = "dies" => (\E i \in DOMAIN ps : OpenPad(ps[i]) \/ OpenType(ps[i])) \/ SomeNotWhole(ls)
  /\ s # t => (\E i \in DOMAIN ps : OpenType(ps[i])) \/ SomeNotWhole(ls)
  /\ s = "ok" \/ t = "ok" => ListFits(ps, ls) \/ \E i \in DOMAIN ps : OpenWithin(ps[i])
  /\ ListFits(ps, ls) => (s = "ok" /\ t = "ok") \/ \E i \in DOMAIN ps : ItemCheckedThoughOpen(ps[i])

(* A list is judged rightly when every item of it is. *)
LEMMA ListsJudged ==
  ASSUME NEW ps, NEW n \in Nat, DOMAIN ps = 1..n, Len(ps) = n, ps # Open, NEW ls, NEW m \in Nat, Len(ls) = m,
         NEW s, NEW t, s = [i \in 1..Min({n, m}) |-> s[i]], t = [i \in 1..Min({n, m}) |-> t[i]],
         \A i \in 1..n : i \in 1..m => ItemRight(ps[i], ls[i], s[i], t[i])
  PROVE  ListRight(ps, ls, Judge(s, n, m), Judge(t, n, m))
<1> DEFINE k == Min({n, m})
           S == Judge(s, n, m)
           T == Judge(t, n, m)
<1>1. k = IF n <= m THEN n ELSE m
  BY MinTwo
<1>2. k \in Nat /\ k <= n /\ k <= m /\ (n = m => k = n)
  BY <1>1
<1> HIDE DEF k
<1>3. /\ S = "ok" <=> n = m /\ \A i \in 1..n : s[i] = "ok"
      /\ S = "dies" => \E i \in 1..n : i \in 1..m /\ s[i] = "dies"
      /\ T = "ok" <=> n = m /\ \A i \in 1..n : t[i] = "ok"
      /\ T = "dies" => \E i \in 1..n : i \in 1..m /\ t[i] = "dies"
  <2>1. DOMAIN s = 1..Min({n, m}) /\ DOMAIN t = 1..Min({n, m})
    OBVIOUS
  <2>2. JudgedByAll(s, n, m) /\ JudgedByAll(t, n, m)
    BY <2>1, JudgeFacts, Zenon
  <2>3. QED BY <2>2, Zenon DEF JudgedByAll
<1>4. ListFits(ps, ls) <=> n = m /\ \A i \in 1..n : ItemFits(ps[i], ls[i])
  BY DEF ListFits
<1>5. ASSUME \A i \in 1..n : ~OpenType(ps[i]), \A i \in 1..m : ls[i].whole PROVE S = T
  <2>1. \A i \in 1..k : i \in 1..n /\ i \in 1..m
    BY <1>2
  <2>2. \A i \in 1..k : s[i] = t[i]
    BY <1>5, <2>1 DEF ItemRight
  <2>3. s = t
    BY <2>2 DEF k
  <2>4. QED BY <2>3
<1> HIDE DEF S, T
<1>6. S = "dies" \/ T = "dies" => (\E i \in 1..n : OpenPad(ps[i]) \/ OpenType(ps[i])) \/ SomeNotWhole(ls)
  <2>1. ASSUME NEW i \in 1..n, i \in 1..m, s[i] = "dies" \/ t[i] = "dies"
        PROVE  (\E h \in 1..n : OpenPad(ps[h]) \/ OpenType(ps[h])) \/ SomeNotWhole(ls)
    BY <2>1 DEF ItemRight, SomeNotWhole
  <2>2. QED BY <1>3, <2>1
<1>7. S # T => (\E i \in 1..n : OpenType(ps[i])) \/ SomeNotWhole(ls)
  BY <1>5 DEF SomeNotWhole
<1>8. ASSUME S = "ok" \/ T = "ok", \A i \in 1..n : ~OpenWithin(ps[i]) PROVE ListFits(ps, ls)
  BY <1>3, <1>4, <1>8 DEF ItemRight
<1>9. ASSUME ListFits(ps, ls), \A i \in 1..n : ~ItemCheckedThoughOpen(ps[i]) PROVE S = "ok" /\ T = "ok"
  BY <1>3, <1>4, <1>9 DEF ItemRight
<1>10. ListRight(ps, ls, S, T)
  BY <1>6, <1>7, <1>8, <1>9 DEF ListRight
<1>11. QED BY <1>10 DEF S, T

(* Whatever is written is stored as one of the three. *)
ItemStored(p, q) == ValueItem(p, q) \/ NumberItem(p, q) \/ NeverItem(p, q)

(* Every parameter and cause of scripts, *)
LEMMA StoredItems ==
  /\ \A p \in InitParameters \cup SomeParameters : ItemStored(p, Parameter(p))
  /\ \A p \in ReconfigParameters \cup {} : ItemStored(p, Parameter(p))
  /\ \A c \in Causes \cup SomeCauses : ValueItem(c, Cause(c))
BY InitParameterItems, ReconfigParameterItems, CauseItems, SomeItems DEF ItemStored

(* whatever is stored may be written, *)
LEMMA StoredWritable ==
  ASSUME NEW p, NEW q, ItemStored(p, q)
  PROVE  Writable(p)
BY MarkersAssumption DEF ItemStored, ValueItem, NumberItem, NeverItem, Writable

(* and its status is right. *)
LEMMA StoredRight ==
  ASSUME NEW p, NEW q, ItemStored(p, q), "partial" \notin q.nocheck, NEW l, LiveItemOK(l)
  PROVE  ItemRight(p, l, ParameterStatus(q, l, 0), ParameterStatus(q, l, 1))
<1>1. CASE l.whole
  BY <1>1, ValueItemRight, NumberItemRight, NeverItemRight DEF ItemStored
<1>2. CASE ~l.whole
  BY <1>2, NotWhole
<1>3. QED BY <1>1, <1>2

(* The bytes of an item are as many as those of the one that fits it. *)
LEMMA StoredLength ==
  ASSUME NEW p, NEW q, ItemStored(p, q), "partial" \notin q.nocheck, "length" \notin q.nocheck, NEW l, ItemFits(p, l)
  PROVE  q.bytes = LiveLength(l) \/ ItemCheckedThoughOpen(p)
<1>1. CASE ValueItem(p, q)
  <2>1. p.length = q.length /\ q.bytes = q.length /\ p.length # Open
    BY <1>1, OpenMarks DEF ValueItem
  <2>2. QED BY <2>1 DEF ItemFits, Fits
<1>2. CASE NumberItem(p, q)
  <2>1. p.length = q.bytes /\ p.length # Open
    BY <1>2, ShapedLength, OpenMarks DEF NumberItem
  <2>2. QED BY <2>1 DEF ItemFits, Fits
<1>3. CASE NeverItem(p, q)
  BY <1>3 DEF NeverItem
<1>4. QED BY <1>1, <1>2, <1>3 DEF ItemStored

(* Lists of parameters and causes, as written and as sent. *)
WrittenList(ps, all) ==
  /\ Len(List(ps)) \in Nat /\ DOMAIN List(ps) = 1..Len(List(ps))
  /\ List(ps) # <<>> => Len(List(ps)) > 0
  /\ ps # Open => List(ps) = ps
  /\ \A i \in DOMAIN List(ps) : List(ps)[i] \in all

(* Every list of scripts is such a list. *)
LEMMA ListsAreWritten ==
  ASSUME NEW all, NEW some, NEW ps \in Lists(all, some)
  PROVE  WrittenList(ps, all \cup some)
<1>1. CASE ps = Open \/ ps = <<>>
  <2>1. List(ps) = <<>>
    BY <1>1 DEF List
  <2>2. Len(<<>>) = 0 /\ DOMAIN <<>> = 1..0
    OBVIOUS
  <2>3. \A i \in 1..0 : FALSE
    OBVIOUS
  <2>4. ps # Open => ps = <<>>
    BY <1>1
  <2>5. QED BY <2>1, <2>2, <2>3, <2>4 DEF WrittenList
<1>2. ASSUME NEW p \in all, ps = <<p>>, ps # Open PROVE WrittenList(ps, all \cup some)
  <2>1. List(ps) = ps /\ Len(ps) = 1 /\ DOMAIN ps = 1..1 /\ ps[1] = p
    BY <1>2 DEF List
  <2>2. QED BY <2>1 DEF WrittenList
<1>3. ASSUME NEW p \in some, NEW q \in some, ps = <<p, q>>, ps # Open PROVE WrittenList(ps, all \cup some)
  <2>1. List(ps) = ps /\ Len(ps) = 2 /\ DOMAIN ps = 1..2 /\ ps[1] = p /\ ps[2] = q
    BY <1>3 DEF List
  <2>2. \A i \in 1..2 : i = 1 \/ i = 2
    OBVIOUS
  <2>3. \A i \in 1..2 : ps[i] \in all \cup some
    BY <2>1, <2>2, Zenon
  <2>4. 2 \in Nat /\ 2 > 0
    OBVIOUS
  <2>5. QED BY <2>1, <2>3, <2>4, Zenon DEF WrittenList
<1>4. \/ ps = Open \/ ps = <<>> \/ (\E p \in all : ps = <<p>>)
      \/ (\E p, q \in some : ps = <<p, q>>)
  BY DEF Lists
<1>5. QED BY <1>1, <1>2, <1>3, <1>4, Zenon

(* A sniffed list that can be compared. *)
LiveListOK(ls) ==
  /\ Len(ls) \in Nat /\ DOMAIN ls = 1..Len(ls)
  /\ \A i \in 1..Len(ls) : LiveItemOK(ls[i])

(* Lists of up to two such items. *)
LEMMA ShortLists ==
  /\ LiveListOK(<<>>)
  /\ \A l : LiveItemOK(l) => LiveListOK(<<l>>)
  /\ \A l, m : LiveItemOK(l) /\ LiveItemOK(m) => LiveListOK(<<l, m>>)
<1>1. LiveListOK(<<>>)
  BY DEF LiveListOK
<1>2. ASSUME NEW l, LiveItemOK(l) PROVE LiveListOK(<<l>>)
  <2>1. Len(<<l>>) = 1 /\ DOMAIN <<l>> = 1..1 /\ <<l>>[1] = l
    OBVIOUS
  <2>2. QED BY <1>2, <2>1 DEF LiveListOK
<1>3. ASSUME NEW l, NEW m, LiveItemOK(l), LiveItemOK(m) PROVE LiveListOK(<<l, m>>)
  <2>1. Len(<<l, m>>) = 2 /\ DOMAIN <<l, m>> = 1..2 /\ <<l, m>>[1] = l /\ <<l, m>>[2] = m
    OBVIOUS
  <2>2. QED BY <1>3, <2>1 DEF LiveListOK
<1>4. QED BY <1>1, <1>2, <1>3

(* A length field below that of the header changes nothing else. *)
LEMMA ShortenedOK ==
  ASSUME NEW ls, LiveListOK(ls), NEW ms \in Shortened(ls)
  PROVE  LiveListOK(ms)
<1>1. PICK i \in DOMAIN ls : ms = [ls EXCEPT ![i].whole = FALSE]
  BY DEF Shortened
<1>2. Len(ls) \in Nat /\ DOMAIN ls = 1..Len(ls) /\ \A j \in 1..Len(ls) : LiveItemOK(ls[j])
  BY DEF LiveListOK
<1>3. /\ ms = [ls EXCEPT ![i] = [ls[i] EXCEPT !.whole = FALSE]]
      /\ DOMAIN ms = 1..Len(ls)
  BY <1>1, <1>2
<1>4. Len(ms) = Len(ls)
  BY <1>2, <1>3
<1>5. \A j \in 1..Len(ls) : ms[j].type = ls[j].type /\ ms[j].val = ls[j].val
  <2>1. \A x : [x EXCEPT !.whole = FALSE].type = x.type /\ [x EXCEPT !.whole = FALSE].val = x.val
    OBVIOUS
  <2>2. QED BY <1>1, <1>2, <1>3, <2>1
<1>6. \A j \in 1..Len(ls) : LiveItemOK(ms[j])
  BY <1>2, <1>5 DEF LiveItemOK, Shaped
<1>7. QED BY <1>2, <1>3, <1>4, <1>6 DEF LiveListOK

(* Whatever the kernel sends where ps is written can be compared. *)
LEMMA WholeListsOK ==
  ASSUME NEW ps, NEW all, WrittenList(ps, all), \A p \in all : Writable(p), NEW ls \in WholeLists(ps)
  PROVE  LiveListOK(ls)
<1> DEFINE n == Len(List(ps))
<1>1. n \in Nat /\ DOMAIN List(ps) = 1..n
  BY DEF WrittenList
<1>2. ASSUME NEW i \in 1..n PROVE ps[i] = List(ps)[i] /\ Writable(ps[i])
  <2>1. i \in DOMAIN List(ps)
    BY <1>1
  <2>2. List(ps) = ps
    BY <2>1 DEF WrittenList, List
  <2>3. QED BY <2>1, <2>2 DEF WrittenList
<1>3. LiveItemOK(Other) /\ LiveItemOK(Cut)
  BY ByteStrings
<1>4. List(ps) # <<>> => n > 0
  BY DEF WrittenList
<1> HIDE DEF n
<1>5. \A i \in 1..n : \A l \in LiveItems(ps[i]) : LiveItemOK(l)
  BY <1>2, LiveItemsOK
<1>6. \/ ls = <<>> \/ ls = <<Cut>> \/ ls = <<Other>>
      \/ n > 0 /\ \E l \in LiveItems(ps[1]) : ls = <<l>>
      \/ n = 1 /\ \E l \in LiveItems(ps[1]), m \in {Other, Cut} : ls = <<l, m>>
      \/ n = 2 /\ \E l \in LiveItems(ps[1]), m \in LiveItems(ps[2]) : ls = <<l, m>>
  BY <1>4 DEF WholeLists, n
<1>7. n > 0 => 1 \in 1..n
  BY <1>1 DEF n
<1>8. QED BY <1>3, <1>5, <1>6, <1>7, ShortLists

(* So can what has a length field below that of the header. *)
LEMMA LiveListsOK ==
  ASSUME NEW ps, NEW all, WrittenList(ps, all), \A p \in all : Writable(p), NEW ls \in LiveLists(ps)
  PROVE  LiveListOK(ls)
<1>1. ls \in WholeLists(ps) \/ \E ms \in WholeLists(ps) : ls \in Shortened(ms)
  BY DEF LiveLists
<1>2. QED BY <1>1, WholeListsOK, ShortenedOK

(* What a chunk is written as. *)
WrittenFields(k) ==
  CASE k = "CHUNK" -> {"type", "flgs", "len", "value"}
    [] k = "DATA" -> {"flgs", "len", "tsn", "sid", "ssn", "ppid"}
    [] k = "I_DATA" -> {"flgs", "len", "tsn", "sid", "mid", "ppid", "fsn"}
    [] k \in {"INIT", "INIT_ACK"} -> InitFields \cup {"params"}
    [] k = "RECONFIG" -> {"flgs", "params"}
    [] k = "SACK" -> {"flgs", "cum_tsn", "a_rwnd", "gaps", "dups"}
    [] k = "NR_SACK" -> {"flgs", "cum_tsn", "a_rwnd", "gaps", "nr_gaps", "dups"}
    [] k \in {"HEARTBEAT", "HEARTBEAT_ACK"} -> {"flgs", "info"}
    [] k \in HasCauses -> {"flgs", "causes"}
    [] k = "COOKIE_ECHO" -> {"flgs", "len", "value"}
    [] k = "PAD" -> {"flgs", "len"}
    [] k = "SHUTDOWN" -> {"flgs", "cum_tsn"}
    [] k \in {"ECNE", "CWR"} -> {"flgs", "lowest_tsn"}
    [] k \in {"FORWARD_TSN", "I_FORWARD_TSN"} -> {"cum_tsn", "ids"}
    [] OTHER -> {"flgs"}

(* What the kernel sends. *)
LiveFields(k) ==
  CASE k = "DATA" -> {"flgs", "len", "tsn", "sid", "ssn", "ppid"}
    [] k = "I_DATA" -> {"flgs", "len", "tsn", "sid", "mid", "field", "res"}
    [] k \in {"INIT", "INIT_ACK"} -> InitFields \cup {"params"}
    [] k = "RECONFIG" -> {"flgs", "params"}
    [] k = "SACK" -> {"flgs", "cum_tsn", "a_rwnd", "gaps", "dups"}
    [] k = "NR_SACK" -> {"flgs", "cum_tsn", "a_rwnd", "gaps", "nr_gaps", "dups"}
    [] k \in {"HEARTBEAT", "HEARTBEAT_ACK", "COOKIE_ECHO", "UNKNOWN"} -> {"flgs", "value"}
    [] k \in HasCauses -> {"flgs", "causes"}
    [] k = "PAD" -> {"flgs", "len"}
    [] k = "SHUTDOWN" -> {"flgs", "cum_tsn"}
    [] k \in {"ECNE", "CWR"} -> {"flgs", "lowest_tsn"}
    [] k \in {"FORWARD_TSN", "I_FORWARD_TSN"} -> {"flgs", "cum_tsn", "ids"}
    [] OTHER -> {"flgs"}

(* The chunks that have nothing but flags. *)
FlagsOnly == {"SHUTDOWN_ACK", "COOKIE_ACK", "SHUTDOWN_COMPLETE"}

(* The types of sniffed chunks. *)
LiveTypes ==
  {"DATA", "I_DATA", "INIT", "INIT_ACK", "RECONFIG", "SACK", "NR_SACK", "HEARTBEAT", "HEARTBEAT_ACK",
   "ABORT", "ERROR", "COOKIE_ECHO", "COOKIE_ACK", "PAD", "SHUTDOWN", "SHUTDOWN_ACK", "SHUTDOWN_COMPLETE",
   "ECNE", "CWR", "FORWARD_TSN", "I_FORWARD_TSN", "UNKNOWN"}

(* A sniffed chunk that can be compared: cut off, or with the fields of its type. *)
LiveOK(l) ==
  \/ l.type = "PARTIAL"
  \/ /\ l.type \in LiveTypes /\ DOMAIN l.val = LiveFields(l.type)
     /\ "len" \in DOMAIN l.val => l.val.len \in {0, 1}
     /\ \A f \in {"gaps", "nr_gaps", "dups", "ids", "value"} \cap DOMAIN l.val : l.val[f] \in Seq(Nat)
     /\ \A f \in {"params", "causes"} \cap DOMAIN l.val : LiveListOK(l.val[f])
     /\ "value" \in DOMAIN l.val /\ Len(l.val.value) = 2 => l.val.value[1] = 1

(* A chunk of a script and one that was sniffed, with what verify_sctp finds for either junk. *)
ChunkRight(w, l, s, t) ==
  LET ps == ListOf(w) IN
  /\ s = "dies" \/ t = "dies" =>
       UnknownType(w) \/ TooShort(l) \/ \E j \in DOMAIN ps : OpenPad(ps[j]) \/ OpenType(ps[j])
  /\ s # t => NoRoomForFields(w) \/ TooShort(l) \/ \E j \in DOMAIN ps : OpenType(ps[j])
  /\ s = "ok" \/ t = "ok" =>
       ChunkFits(w, l) \/ NumberTakenAsOpen(w) \/ ReadBehind(l) \/ \E j \in DOMAIN ps : OpenWithin(ps[j])
  /\ ChunkFits(w, l) =>
       (s = "ok" /\ t = "ok") \/ CheckedThoughOpen(w) \/ \E j \in DOMAIN ps : ItemCheckedThoughOpen(ps[j])

(* What depends on no memory. *)
LEMMA OneStatus ==
  ASSUME NEW w, NEW l, NEW s \in {"ok", "err"}, NEW t, t = s,
         s = "ok" => ChunkFits(w, l) \/ NumberTakenAsOpen(w),
         ChunkFits(w, l) => s = "ok" \/ CheckedThoughOpen(w)
  PROVE  ChunkRight(w, l, s, t)
BY DEF ChunkRight

(* A chunk that ends before its struct fits nothing, and the asserts of    *)
(* INIT and INIT_ACK let it not pass.                                      *)
LEMMA ShortRight ==
  ASSUME NEW w, NEW item, NEW l, "short" \in DOMAIN l.val
  PROVE  ChunkRight(w, l, ChunkStatus(item, l, 0), ChunkStatus(item, l, 1))
<1>1. ~ChunkFits(w, l) /\ TooShort(l)
  BY DEF ChunkFits, TooShort
<1>2. CASE l.type \in {"INIT", "INIT_ACK"}
  <2>1. \A j : ByType(item, l, j) = "dies"
    BY <1>2 DEF ByType, verify_init_chunk, verify_init_ack_chunk
  <2>2. \A j : ChunkStatus(item, l, j) # "ok"
    BY <2>1 DEF ChunkStatus
  <2>3. QED BY <1>1, <2>2 DEF ChunkRight
<1>3. CASE l.type \notin {"INIT", "INIT_ACK"}
  <2>1. ReadBehind(l)
    BY <1>3 DEF ReadBehind
  <2>2. QED BY <1>1, <2>1 DEF ChunkRight
<1>4. QED BY <1>2, <1>3

(* The others do not. *)
LEMMA NotShort ==
  ASSUME NEW l, LiveOK(l), l.type # "PARTIAL"
  PROVE  l.type # "TOO_SHORT" /\ "short" \notin DOMAIN l.val
<1>1. l.type \in LiveTypes /\ DOMAIN l.val = LiveFields(l.type)
  BY DEF LiveOK
<1>2. "short" \notin LiveFields(l.type)
  BY <1>1 DEF LiveFields, LiveTypes, HasCauses, InitFields
<1>3. QED BY <1>1, <1>2 DEF LiveTypes

(* A chunk of another type, or one that is cut off. *)
LEMMA OtherType ==
  ASSUME NEW w, w.kind # "CHUNK", NEW item, item.type = w.kind, NEW l, l.type = "PARTIAL" \/ l.type # w.kind
  PROVE  ChunkRight(w, l, ChunkStatus(item, l, 0), ChunkStatus(item, l, 1))
<1>1. ~ChunkFits(w, l)
  BY DEF ChunkFits
<1>2. ChunkStatus(item, l, 0) = "err" /\ ChunkStatus(item, l, 1) = "err"
  BY DEF ChunkStatus
<1>3. QED BY <1>1, <1>2, OneStatus

(* Fields that are stored, with a flag when they are open. *)
FieldsStored(item, w, fields) ==
  \A f \in fields : /\ f \in DOMAIN item.val /\ item.val[f] = Value(w.val[f])
                    /\ f \in item.nocheck <=> w.val[f] = Open

(* The comparison of such a field is what the script means. *)
LEMMA FieldSame ==
  ASSUME NEW item, NEW w, NEW fields, FieldsStored(item, w, fields), NEW f \in fields, NEW l, NEW junk
  PROVE  Same(item, l, f, junk) <=> Fits(w.val[f], l.val[f])
BY DEF FieldsStored, Same, Read, Fits, Value

(* ChunkItem stores every field. *)
LEMMA StoredByChunkItem ==
  ASSUME NEW type, NEW w, NEW fields, "value" \notin fields
  PROVE  LET item == ChunkItem(type, w, fields) IN
         /\ DOMAIN item = ItemFields /\ item.type = type /\ FieldsStored(item, w, fields)
         /\ item.nocheck \subseteq fields /\ item.length = 0 /\ item.blocks = <<>> /\ item.items = <<>>
         /\ DOMAIN item.val = fields \cup {"value"}
<1> DEFINE item == ChunkItem(type, w, fields)
<1>1. DOMAIN item = ItemFields /\ item.type = type /\ item.nocheck = {f \in fields : w.val[f] = Open}
  BY ChunkItemFields
<1>2. item.val = Joined([f \in fields |-> Value(w.val[f])], [value |-> <<>>])
  BY DEF ChunkItem
<1>3. item.length = 0 /\ item.blocks = <<>> /\ item.items = <<>>
  BY DEF ChunkItem
<1> HIDE DEF item
<1>4. DOMAIN item.val = fields \cup {"value"} /\ \A f \in fields : item.val[f] = Value(w.val[f])
  BY <1>2 DEF Joined
<1>5. QED BY <1>1, <1>3, <1>4 DEF FieldsStored, item

(* The comparison of type, flags and length comes first. *)
LEMMA HeadFirst ==
  ASSUME NEW w, NEW item, NEW l, item.type = l.type, l.type # "PARTIAL", FieldsStored(item, w, {"flgs"}), NEW junk
  PROVE  ChunkStatus(item, l, junk) =
           IF Fits(w.val.flgs, l.val.flgs) /\ ("length" \in item.nocheck \/ item.length = LiveChunkLength(l))
           THEN ByType(item, l, junk) ELSE "err"
<1>1. Same(item, l, "flgs", junk) <=> Fits(w.val.flgs, l.val.flgs)
  BY FieldSame
<1>2. QED BY <1>1 DEF ChunkStatus

(* A field that is written on its own is 1 or open. *)
LEMMA ChunksValues ==
  ASSUME NEW kind, NEW fields, NEW rest, NEW w \in Chunks(kind, fields, rest)
  PROVE  /\ w.kind = kind
         /\ \A f \in fields : w.val[f] \in {1, Open}
         /\ \E r \in rest : /\ DOMAIN w.val = fields \cup DOMAIN r
                            /\ \A f \in (DOMAIN r) \ fields : w.val[f] = r[f]
<1>1. PICK v \in AtMost(MaxOpen, Open, fields, {1, Open}), r \in rest : w = [kind |-> kind, val |-> Joined(v, r)]
  BY DEF Chunks
<1>2. v \in [fields -> {1, Open}]
  BY <1>1 DEF AtMost
<1>3. w.kind = kind /\ w.val = Joined(v, r)
  BY <1>1
<1>4. /\ DOMAIN w.val = fields \cup DOMAIN r
      /\ \A f \in fields : w.val[f] = v[f]
      /\ \A f \in (DOMAIN r) \ fields : w.val[f] = r[f]
  BY <1>2, <1>3 DEF Joined
<1>5. QED BY <1>2, <1>3, <1>4

(* The fields of a sniffed chunk. *)
LEMMA LiveValues ==
  ASSUME NEW type, NEW fields, NEW rest, NEW l \in Live(type, fields, rest)
  PROVE  /\ l.type = type
         /\ \A f \in fields : l.val[f] \in {0, 1}
         /\ \E r \in rest : /\ DOMAIN l.val = fields \cup DOMAIN r
                            /\ \A f \in (DOMAIN r) \ fields : l.val[f] = r[f]
<1>1. PICK v \in AtMost(MaxOff, 0, fields, {0, 1}), r \in rest : l = [type |-> type, val |-> Joined(v, r)]
  BY DEF Live
<1>2. v \in [fields -> {0, 1}]
  BY <1>1 DEF AtMost
<1>3. l.type = type /\ l.val = Joined(v, r)
  BY <1>1
<1>4. /\ DOMAIN l.val = fields \cup DOMAIN r
      /\ \A f \in fields : l.val[f] = v[f]
      /\ \A f \in (DOMAIN r) \ fields : l.val[f] = r[f]
  BY <1>2, <1>3 DEF Joined
<1>5. QED BY <1>2, <1>3, <1>4

(* Chunks that are written as fields only. *)
LEMMA NoRest ==
  ASSUME NEW kind, NEW fields, NEW w \in Chunks(kind, fields, None)
  PROVE  w.kind = kind /\ DOMAIN w.val = fields /\ \A f \in fields : w.val[f] \in {1, Open}
<1>1. \A r \in None : DOMAIN r = {}
  BY DEF None, Just
<1>2. w.kind = kind /\ \A f \in fields : w.val[f] \in {1, Open}
  BY ChunksValues
<1>3. \E r \in None : DOMAIN w.val = fields \cup DOMAIN r
  BY ChunksValues
<1>4. DOMAIN w.val = fields
  BY <1>1, <1>3
<1>5. QED BY <1>2, <1>4

(* Chunks that are written with numbers only. *)
LEMMA FieldsWritten ==
  /\ \A w \in WrittenChunks("DATA") : w.kind = "DATA" /\ DOMAIN w.val = WrittenFields("DATA") /\ w.val.len \in {1, Open}
  /\ \A w \in WrittenChunks("PAD") : w.kind = "PAD" /\ DOMAIN w.val = WrittenFields("PAD") /\ w.val.len \in {1, Open}
  /\ \A k \in FlagsOnly \cup {"SHUTDOWN", "ECNE", "CWR"} :
       \A w \in WrittenChunks(k) : w.kind = k /\ DOMAIN w.val = WrittenFields(k)
<1>1. ASSUME NEW k \in FlagsOnly \cup {"SHUTDOWN", "ECNE", "CWR", "DATA", "PAD"}
      PROVE  WrittenChunks(k) = Chunks(k, WrittenFields(k), None)
  BY <1>1 DEF WrittenChunks, WrittenFields, HasCauses, FlagsOnly
<1>2. "len" \in WrittenFields("DATA") /\ "len" \in WrittenFields("PAD")
  BY DEF WrittenFields, HasCauses
<1>3. QED BY <1>1, <1>2, NoRest

(* SHUTDOWN_ACK, COOKIE_ACK and SHUTDOWN_COMPLETE. *)
LEMMA FlagsRight ==
  ASSUME NEW k \in FlagsOnly, NEW w \in WrittenChunks(k), NEW l, LiveOK(l)
  PROVE  ChunkRight(w, l, ChunkStatus(NewChunk(w), l, 0), ChunkStatus(NewChunk(w), l, 1))
<1> DEFINE item == NewChunk(w)
<1>1. w.kind = k /\ DOMAIN w.val = {"flgs"} /\ k # "CHUNK"
  BY FieldsWritten DEF WrittenFields, FlagsOnly, HasCauses
<1>2. item = ChunkItem(k, w, {"flgs"})
  BY <1>1 DEF FlagsOnly, NewChunk, sctp_shutdown_ack_chunk_new, sctp_cookie_ack_chunk_new, sctp_shutdown_complete_chunk_new
<1> HIDE DEF item
<1>3. item.type = k /\ FieldsStored(item, w, {"flgs"}) /\ item.length = 0
  BY <1>2, StoredByChunkItem
<1>4. CASE l.type = "PARTIAL" \/ l.type # k
  BY <1>1, <1>3, <1>4, OtherType DEF item
<1>5. CASE l.type # "PARTIAL" /\ l.type = k
  <2>1. DOMAIN l.val = {"flgs"}
    BY <1>5 DEF LiveOK, LiveFields, FlagsOnly, HasCauses
  <2>2. LiveChunkLength(l) = 0
    BY <1>5, <2>1 DEF LiveChunkLength, FlagsOnly, HasCauses, HasParameters
  <2>3. \A junk : ByType(item, l, junk) = "ok"
    BY <1>5 DEF ByType, FlagsOnly, verify_shutdown_ack_chunk, verify_cookie_ack_chunk, verify_shutdown_complete_chunk
  <2>4. \A junk : ChunkStatus(item, l, junk) = IF Fits(w.val.flgs, l.val.flgs) THEN "ok" ELSE "err"
    BY <1>3, <1>5, <2>2, <2>3, HeadFirst
  <2>5. Implied(w) = w.val
    BY <1>1 DEF Implied, FlagsOnly
  <2>6. ChunkFits(w, l) <=> Fits(w.val.flgs, l.val.flgs)
    BY <1>1, <1>5, <2>1, <2>5 DEF ChunkFits, ItemLists, FlagsOnly
  <2>7. QED BY <2>4, <2>6, OneStatus DEF item
<1>6. QED BY <1>4, <1>5

(* The struct of SHUTDOWN, ECNE and CWR has one number. *)
LEMMA NumberRight ==
  ASSUME NEW k \in {"SHUTDOWN", "ECNE", "CWR"}, NEW w \in WrittenChunks(k), NEW l, LiveOK(l)
  PROVE  ChunkRight(w, l, ChunkStatus(NewChunk(w), l, 0), ChunkStatus(NewChunk(w), l, 1))
<1> DEFINE item == NewChunk(w)
           n == IF k = "SHUTDOWN" THEN "cum_tsn" ELSE "lowest_tsn"
<1>1. w.kind = k /\ DOMAIN w.val = {"flgs", n} /\ k # "CHUNK"
  BY FieldsWritten DEF WrittenFields, HasCauses
<1>2. item = IF k = "SHUTDOWN" THEN [ChunkItem(k, w, {"flgs", n}) EXCEPT !.length = 1] ELSE ChunkItem(k, w, {"flgs", n})
  BY <1>1 DEF NewChunk, sctp_shutdown_chunk_new, sctp_ecne_chunk_new, sctp_cwr_chunk_new
<1>3. "value" \notin {"flgs", n}
  OBVIOUS
<1>4. item.type = k /\ FieldsStored(item, w, {"flgs", n}) /\ item.length = IF k = "SHUTDOWN" THEN 1 ELSE 0
  <2> DEFINE c == ChunkItem(k, w, {"flgs", n})
  <2>1. DOMAIN c = ItemFields /\ c.type = k /\ FieldsStored(c, w, {"flgs", n}) /\ c.length = 0
    BY <1>3, StoredByChunkItem
  <2> HIDE DEF c
  <2>2. item.type = c.type /\ item.val = c.val /\ item.nocheck = c.nocheck /\ item.length = IF k = "SHUTDOWN" THEN 1 ELSE 0
    BY <1>2, <2>1 DEF c, ItemFields
  <2>3. QED BY <2>1, <2>2 DEF FieldsStored
<1> HIDE DEF item
<1>5. CASE l.type = "PARTIAL" \/ l.type # k
  BY <1>1, <1>4, <1>5, OtherType DEF item
<1>6. CASE l.type # "PARTIAL" /\ l.type = k
  <2>1. DOMAIN l.val = {"flgs", n}
    BY <1>6 DEF LiveOK, LiveFields, HasCauses
  <2>2. LiveChunkLength(l) = IF k = "SHUTDOWN" THEN 1 ELSE 0
    BY <1>6, <2>1 DEF LiveChunkLength, HasCauses, HasParameters
  <2>3. \A junk : ByType(item, l, junk) = IF Same(item, l, n, junk) THEN "ok" ELSE "err"
    BY <1>6 DEF ByType, verify_shutdown_chunk, verify_ecne_chunk, verify_cwr_chunk, Status
  <2>4. \A junk : Same(item, l, n, junk) <=> Fits(w.val[n], l.val[n])
    BY <1>4, FieldSame
  <2>5. FieldsStored(item, w, {"flgs"})
    BY <1>4 DEF FieldsStored
  <2>6. \A junk : ChunkStatus(item, l, junk) =
          IF Fits(w.val.flgs, l.val.flgs) /\ Fits(w.val[n], l.val[n]) THEN "ok" ELSE "err"
    BY <1>4, <1>6, <2>2, <2>3, <2>4, <2>5, HeadFirst
  <2>7. Implied(w) = w.val
    BY <1>1 DEF Implied
  <2>8. ChunkFits(w, l) <=> Fits(w.val.flgs, l.val.flgs) /\ Fits(w.val[n], l.val[n])
    BY <1>1, <1>6, <2>1, <2>7 DEF ChunkFits, ItemLists
  <2>9. QED BY <2>6, <2>8, OneStatus DEF item
<1>7. QED BY <1>5, <1>6

(* Sized keeps the fields and adds length, value and flags. *)
LEMMA SizedFields ==
  ASSUME NEW type, NEW w, NEW fields, "value" \notin fields, NEW len, NEW value, NEW flags, flags \cap fields = {}
  PROVE  LET item == Sized(ChunkItem(type, w, fields), len, value, flags) IN
         /\ DOMAIN item = ItemFields /\ item.type = type /\ item.length = len /\ item.items = <<>>
         /\ FieldsStored(item, w, fields) /\ DOMAIN item.val = fields \cup {"value"} /\ item.val.value = value
         /\ item.nocheck \subseteq fields \cup flags /\ flags \subseteq item.nocheck
<1> DEFINE c == ChunkItem(type, w, fields)
           item == Sized(c, len, value, flags)
<1>1. /\ DOMAIN c = ItemFields /\ c.type = type /\ FieldsStored(c, w, fields) /\ c.nocheck \subseteq fields
      /\ c.items = <<>> /\ DOMAIN c.val = fields \cup {"value"}
  BY StoredByChunkItem
<1> HIDE DEF c
<1>2. /\ DOMAIN item = ItemFields /\ item.type = c.type /\ item.length = len /\ item.items = c.items
      /\ item.val = [c.val EXCEPT !.value = value] /\ item.nocheck = c.nocheck \cup flags
  BY <1>1 DEF Sized, ItemFields
<1> HIDE DEF item
<1>3. DOMAIN item.val = fields \cup {"value"} /\ item.val.value = value /\ \A f \in fields : item.val[f] = c.val[f]
  BY <1>1, <1>2
<1>4. FieldsStored(item, w, fields)
  BY <1>1, <1>2, <1>3 DEF FieldsStored
<1>5. QED BY <1>1, <1>2, <1>3, <1>4 DEF c, item

(* DATA is judged rightly, *)
LEMMA DataRight ==
  ASSUME NEW w \in WrittenChunks("DATA"), NEW l, LiveOK(l)
  PROVE  ChunkRight(w, l, ChunkStatus(NewChunk(w), l, 0), ChunkStatus(NewChunk(w), l, 1))
<1> DEFINE item == NewChunk(w)
           F == {"flgs", "tsn", "sid", "ssn", "ppid"}
           flags == Flags(w.val.len = Open, {"length", "value"})
<1>1. w.kind = "DATA" /\ DOMAIN w.val = {"flgs", "len", "tsn", "sid", "ssn", "ppid"} /\ w.val.len \in {1, Open}
  BY FieldsWritten DEF WrittenFields, HasCauses
<1>2. item = Sized(ChunkItem("DATA", w, F), NumberBytes + Value(w.val.len), <<>>, flags)
  BY <1>1 DEF NewChunk, sctp_data_chunk_new, WithData
<1>3. "value" \notin F /\ flags \cap F = {} /\ "length" \notin F /\ ("length" \in flags <=> w.val.len = Open)
  BY DEF Flags
<1> HIDE DEF item, flags
<1>4. /\ item.type = "DATA" /\ FieldsStored(item, w, F) /\ item.length = NumberBytes + Value(w.val.len)
      /\ "length" \in item.nocheck <=> w.val.len = Open
  BY <1>2, <1>3, SizedFields
<1>5. CASE l.type # "DATA"
  BY <1>1, <1>4, <1>5, OtherType DEF item
<1>6. CASE l.type = "DATA"
  <2>1. DOMAIN l.val = {"flgs", "len", "tsn", "sid", "ssn", "ppid"} /\ l.val.len \in {0, 1}
    BY <1>6 DEF LiveOK, LiveFields, HasCauses
  <2>2. LiveChunkLength(l) = NumberBytes + l.val.len
    BY <1>6, <2>1 DEF LiveChunkLength, HasCauses, HasParameters
  <2>3. \A junk, f : f \in F => (Same(item, l, f, junk) <=> Fits(w.val[f], l.val[f]))
    BY <1>4, FieldSame
  <2>4. "length" \in item.nocheck \/ item.length = LiveChunkLength(l) <=> Fits(w.val.len, l.val.len)
    BY <1>1, <1>4, <2>1, <2>2, OpenMarks DEF Fits, Value, NumberBytes
  <2>5. \A junk : Read(item, "tsn", junk) = Value(w.val.tsn)
    BY <1>4 DEF FieldsStored, Read
  <2>6. \A junk : ByType(item, l, junk) =
          IF /\ Value(w.val.tsn) = l.val.tsn /\ Fits(w.val.sid, l.val.sid)
             /\ Fits(w.val.ssn, l.val.ssn) /\ Fits(w.val.ppid, l.val.ppid) THEN "ok" ELSE "err"
    BY <1>6, <2>3, <2>5 DEF ByType, verify_data_chunk, Status
  <2>7. FieldsStored(item, w, {"flgs"})
    BY <1>4 DEF FieldsStored
  <2>8. \A junk : ChunkStatus(item, l, junk) =
          IF Fits(w.val.flgs, l.val.flgs) /\ Fits(w.val.len, l.val.len) THEN ByType(item, l, junk) ELSE "err"
    BY <1>4, <1>6, <2>4, <2>7, HeadFirst
  <2>9. Implied(w) = w.val
    BY <1>1 DEF Implied
  <2>10. ChunkFits(w, l) <=> /\ Fits(w.val.flgs, l.val.flgs) /\ Fits(w.val.len, l.val.len) /\ Fits(w.val.tsn, l.val.tsn)
                             /\ Fits(w.val.sid, l.val.sid) /\ Fits(w.val.ssn, l.val.ssn) /\ Fits(w.val.ppid, l.val.ppid)
    BY <1>1, <1>6, <2>1, <2>9 DEF ChunkFits, ItemLists
  <2>11. Value(w.val.tsn) = l.val.tsn => Fits(w.val.tsn, l.val.tsn)
    BY DEF Value, Fits
  <2>12. Fits(w.val.tsn, l.val.tsn) => Value(w.val.tsn) = l.val.tsn \/ CheckedThoughOpen(w)
    BY <1>1 DEF Value, Fits, CheckedThoughOpen
  <2>13. QED BY <2>6, <2>8, <2>10, <2>11, <2>12, OneStatus DEF item
<1>7. QED BY <1>5, <1>6

(* and PAD. *)
LEMMA PadRight ==
  ASSUME NEW w \in WrittenChunks("PAD"), NEW l, LiveOK(l)
  PROVE  ChunkRight(w, l, ChunkStatus(NewChunk(w), l, 0), ChunkStatus(NewChunk(w), l, 1))
<1> DEFINE item == NewChunk(w)
           bytes == [i \in 1..Value(w.val.len) |-> 1]
           flags == Flags(w.val.len = Open, {"length"}) \cup {"value"}
<1>1. w.kind = "PAD" /\ DOMAIN w.val = {"flgs", "len"} /\ w.val.len \in {1, Open}
  BY FieldsWritten DEF WrittenFields, HasCauses
<1>2. item = Sized(ChunkItem("PAD", w, {"flgs"}), Value(w.val.len), bytes, flags)
  BY <1>1 DEF NewChunk, sctp_pad_chunk_new
<1>3. flags \cap {"flgs"} = {} /\ ("length" \in flags <=> w.val.len = Open)
  BY DEF Flags
<1> HIDE DEF item, flags, bytes
<1>4. /\ item.type = "PAD" /\ FieldsStored(item, w, {"flgs"}) /\ item.length = Value(w.val.len)
      /\ "length" \in item.nocheck <=> w.val.len = Open
  BY <1>2, <1>3, SizedFields
<1>5. CASE l.type # "PAD"
  BY <1>1, <1>4, <1>5, OtherType DEF item
<1>6. CASE l.type = "PAD"
  <2>1. DOMAIN l.val = {"flgs", "len"} /\ l.val.len \in {0, 1}
    BY <1>6 DEF LiveOK, LiveFields, HasCauses
  <2>2. LiveChunkLength(l) = l.val.len
    BY <1>6, <2>1 DEF LiveChunkLength, HasCauses, HasParameters
  <2>3. "length" \in item.nocheck \/ item.length = LiveChunkLength(l) <=> Fits(w.val.len, l.val.len)
    BY <1>1, <1>4, <2>1, <2>2, OpenMarks DEF Fits, Value
  <2>4. \A junk : ByType(item, l, junk) = "ok"
    BY <1>6 DEF ByType, verify_pad_chunk
  <2>5. \A junk : ChunkStatus(item, l, junk) =
          IF Fits(w.val.flgs, l.val.flgs) /\ Fits(w.val.len, l.val.len) THEN "ok" ELSE "err"
    BY <1>4, <1>6, <2>3, <2>4, HeadFirst
  <2>6. Implied(w) = w.val
    BY <1>1 DEF Implied
  <2>7. ChunkFits(w, l) <=> Fits(w.val.flgs, l.val.flgs) /\ Fits(w.val.len, l.val.len)
    BY <1>1, <1>6, <2>1, <2>6 DEF ChunkFits, ItemLists
  <2>8. QED BY <2>5, <2>7, OneStatus DEF item
<1>7. QED BY <1>5, <1>6

(* I_DATA as it is written. *)
LEMMA IDataWritten ==
  ASSUME NEW w \in WrittenChunks("I_DATA")
  PROVE  /\ w.kind = "I_DATA" /\ DOMAIN w.val = {"flgs", "len", "tsn", "sid", "mid", "ppid", "fsn"}
         /\ w.val.len \in {1, Open} /\ (w.val.ppid = Open \/ w.val.fsn = Open)
<1> DEFINE F == {"flgs", "len", "tsn", "sid", "mid", "ppid"}
           G == {"flgs", "len", "tsn", "sid", "mid", "fsn"}
<1>1. w \in Chunks("I_DATA", F, Just([fsn |-> Open])) \/ w \in Chunks("I_DATA", G, Just([ppid |-> Open]))
  BY DEF WrittenChunks, HasCauses
<1>2. CASE w \in Chunks("I_DATA", F, Just([fsn |-> Open]))
  <2>1. w.kind = "I_DATA" /\ \A f \in F : w.val[f] \in {1, Open}
    BY <1>2, ChunksValues
  <2>2. DOMAIN w.val = F \cup {"fsn"} /\ w.val.fsn = Open
    BY <1>2, ChunksValues DEF Just
  <2>3. QED BY <2>1, <2>2
<1>3. CASE w \in Chunks("I_DATA", G, Just([ppid |-> Open]))
  <2>1. w.kind = "I_DATA" /\ \A f \in G : w.val[f] \in {1, Open}
    BY <1>3, ChunksValues
  <2>2. DOMAIN w.val = G \cup {"ppid"} /\ w.val.ppid = Open
    BY <1>3, ChunksValues DEF Just
  <2>3. QED BY <2>1, <2>2
<1>4. QED BY <1>1, <1>2, <1>3

(* It is judged rightly: the union is compared with ppid or fsn, whichever is written. *)
LEMMA IDataRight ==
  ASSUME NEW w \in WrittenChunks("I_DATA"), NEW l, LiveOK(l)
  PROVE  ChunkRight(w, l, ChunkStatus(NewChunk(w), l, 0), ChunkStatus(NewChunk(w), l, 1))
<1> DEFINE item == NewChunk(w)
           F == {"flgs", "tsn", "sid", "mid", "ppid", "fsn"}
           flags == Flags(w.val.len = Open, {"length", "value"})
           c == Sized(ChunkItem("I_DATA", w, F), NumberBytes + Value(w.val.len), <<>>, flags)
           field == IF w.val.ppid = Open THEN Value(w.val.fsn) ELSE w.val.ppid
           implied == IF w.val.ppid = Open THEN w.val.fsn ELSE w.val.ppid
           fixed == [res |-> 0, field |-> field]
<1>1. /\ w.kind = "I_DATA" /\ DOMAIN w.val = {"flgs", "len", "tsn", "sid", "mid", "ppid", "fsn"}
      /\ w.val.len \in {1, Open} /\ (w.val.ppid = Open \/ w.val.fsn = Open)
  BY IDataWritten
<1>2. item = [c EXCEPT !.val = Joined(fixed, @)]
  BY <1>1 DEF NewChunk, sctp_i_data_chunk_new, WithData
<1>3. "value" \notin F /\ flags \cap F = {} /\ "length" \notin F /\ "res" \notin F \cup flags /\ ("length" \in flags <=> w.val.len = Open)
  BY DEF Flags
<1>4. DOMAIN fixed = {"res", "field"} /\ fixed.res = 0 /\ fixed.field = field
  OBVIOUS
<1> HIDE DEF item, flags, fixed
<1>5. /\ DOMAIN c = ItemFields /\ c.type = "I_DATA" /\ FieldsStored(c, w, F) /\ c.length = NumberBytes + Value(w.val.len)
      /\ "length" \in c.nocheck <=> w.val.len = Open
      /\ "res" \notin c.nocheck
  BY <1>3, SizedFields
<1> HIDE DEF c
<1>6. /\ item.type = c.type /\ item.length = c.length /\ item.nocheck = c.nocheck /\ item.val = Joined(fixed, c.val)
  BY <1>2, <1>5 DEF ItemFields
<1>7. /\ "res" \in DOMAIN item.val /\ item.val.res = 0 /\ item.val.field = field
      /\ \A f \in F : f \in DOMAIN c.val => f \in DOMAIN item.val /\ item.val[f] = c.val[f]
  BY <1>4, <1>6 DEF Joined
<1>8. FieldsStored(item, w, F)
  BY <1>5, <1>6, <1>7 DEF FieldsStored
<1>9. CASE l.type # "I_DATA"
  BY <1>1, <1>5, <1>6, <1>9, OtherType DEF item
<1>10. CASE l.type = "I_DATA"
  <2>1. DOMAIN l.val = {"flgs", "len", "tsn", "sid", "mid", "field", "res"} /\ l.val.len \in {0, 1}
    BY <1>10 DEF LiveOK, LiveFields, HasCauses
  <2>2. LiveChunkLength(l) = NumberBytes + l.val.len
    BY <1>10, <2>1 DEF LiveChunkLength, HasCauses, HasParameters
  <2>3. \A junk, f : f \in F => (Same(item, l, f, junk) <=> Fits(w.val[f], l.val[f]))
    BY <1>8, FieldSame
  <2>4. "length" \in item.nocheck \/ item.length = LiveChunkLength(l) <=> Fits(w.val.len, l.val.len)
    BY <1>1, <1>5, <1>6, <2>1, <2>2, OpenMarks DEF Fits, Value, NumberBytes
  <2>5. \A junk : Read(item, "tsn", junk) = Value(w.val.tsn)
    BY <1>8 DEF FieldsStored, Read
  <2>6. \A junk : Same(item, l, "res", junk) <=> 0 = l.val.res
    BY <1>5, <1>6, <1>7 DEF Same, Read
  <2>7. (\A f \in {"ppid", "fsn"} : f \in item.nocheck \/ item.val.field = l.val.field) <=> Fits(implied, l.val.field)
    BY <1>1, <1>7, <1>8 DEF FieldsStored, Fits, Value
  <2>8. \A junk : ByType(item, l, junk) =
          IF /\ Value(w.val.tsn) = l.val.tsn /\ Fits(w.val.sid, l.val.sid) /\ 0 = l.val.res
             /\ Fits(w.val.mid, l.val.mid) /\ Fits(implied, l.val.field) THEN "ok" ELSE "err"
    BY <1>10, <2>3, <2>5, <2>6, <2>7 DEF ByType, verify_i_data_chunk, Status
  <2>9. FieldsStored(item, w, {"flgs"})
    BY <1>8 DEF FieldsStored
  <2>10. \A junk : ChunkStatus(item, l, junk) =
          IF Fits(w.val.flgs, l.val.flgs) /\ Fits(w.val.len, l.val.len) THEN ByType(item, l, junk) ELSE "err"
    BY <1>5, <1>6, <1>10, <2>4, <2>9, HeadFirst
  <2>11. /\ DOMAIN Implied(w) = {"res", "field"} \cup DOMAIN w.val
         /\ Implied(w).res = 0 /\ Implied(w).field = implied
         /\ \A f \in {"flgs", "len", "tsn", "sid", "mid"} : Implied(w)[f] = w.val[f]
    <3> DEFINE a == [res |-> 0, field |-> implied]
    <3>1. Implied(w) = Joined(a, w.val)
      BY <1>1 DEF Implied
    <3>2. DOMAIN a = {"res", "field"} /\ a.res = 0 /\ a.field = implied
      OBVIOUS
    <3> HIDE DEF a, implied
    <3>3. QED BY <1>1, <3>1, <3>2 DEF Joined
  <2> HIDE DEF implied, field
  <2>12. (DOMAIN Implied(w)) \cap DOMAIN l.val = {"flgs", "len", "tsn", "sid", "mid", "field", "res"}
    BY <1>1, <2>1, <2>11
  <2>13. Fits(0, l.val.res) <=> 0 = l.val.res
    BY OpenMarks DEF Fits
  <2>14. ChunkFits(w, l) <=> /\ Fits(w.val.flgs, l.val.flgs) /\ Fits(w.val.len, l.val.len) /\ Fits(w.val.tsn, l.val.tsn)
                             /\ Fits(w.val.sid, l.val.sid) /\ Fits(w.val.mid, l.val.mid)
                             /\ Fits(implied, l.val.field) /\ 0 = l.val.res
    BY <1>1, <1>10, <2>11, <2>12, <2>13, NotShort DEF ChunkFits, ItemLists
  <2>15. Value(w.val.tsn) = l.val.tsn => Fits(w.val.tsn, l.val.tsn)
    BY DEF Value, Fits
  <2>16. Fits(w.val.tsn, l.val.tsn) => Value(w.val.tsn) = l.val.tsn \/ CheckedThoughOpen(w)
    BY <1>1 DEF Value, Fits, CheckedThoughOpen
  <2>17. QED BY <2>8, <2>10, <2>14, <2>15, <2>16, OneStatus DEF item
<1>11. QED BY <1>9, <1>10

(* A list of blocks, or "...". *)
BlockList(x) == x = Open \/ x \in Seq(Nat)

(* What scripts write for blocks. *)
LEMMA BlockListsAreLists ==
  /\ \A n \in Nat : \A x \in BlockLists(n) : BlockList(x)
  /\ \A x : BlockList(x) => List(x) \in Seq(Nat)
<1>1. \A n \in Nat : <<n>> \in Seq(Nat)
  OBVIOUS
<1>2. <<>> \in Seq(Nat)
  OBVIOUS
<1>3. QED BY <1>1, <1>2 DEF BlockLists, BlockList, List

(* Where the blocks of each list are in the array. *)
InOneArray(all, g, n, d, junk) ==
  /\ Len(all) = Len(g) + Len(n) + Len(d)
  /\ \A i \in 1..Len(g) : At(all, 0 + i, junk) = g[i]
  /\ \A i \in 1..Len(n) : At(all, Len(g) + i, junk) = n[i]
  /\ \A i \in 1..Len(d) : At(all, (Len(g) + Len(n)) + i, junk) = d[i]

(* The offsets at which the verifier reads find the blocks of each list. *)
LEMMA BlocksAt ==
  ASSUME NEW g \in Seq(Nat), NEW n \in Seq(Nat), NEW d \in Seq(Nat), NEW junk
  PROVE  InOneArray(g \o n \o d, g, n, d, junk)
<1> DEFINE gn == g \o n
           all == gn \o d
<1>1. Len(g) \in Nat /\ Len(n) \in Nat /\ Len(d) \in Nat
  OBVIOUS
<1>2. /\ gn \in Seq(Nat) /\ Len(gn) = Len(g) + Len(n)
      /\ \A i \in 1..Len(gn) : gn[i] = IF i <= Len(g) THEN g[i] ELSE n[i - Len(g)]
  BY <1>1
<1> HIDE DEF gn
<1>3. /\ all \in Seq(Nat) /\ Len(all) = Len(gn) + Len(d) /\ DOMAIN all = 1..Len(all)
      /\ \A i \in 1..Len(all) : all[i] = IF i <= Len(gn) THEN gn[i] ELSE d[i - Len(gn)]
  BY <1>1, <1>2
<1> HIDE DEF all
<1>4. Len(gn) = Len(g) + Len(n) /\ Len(all) = Len(gn) + Len(d)
  BY <1>2, <1>3
<1>5. ASSUME NEW i \in 1..Len(g) PROVE At(all, 0 + i, junk) = g[i]
  <2>1. 0 + i = i /\ i \in 1..Len(all) /\ i <= Len(gn) /\ i \in 1..Len(gn) /\ i <= Len(g)
    BY <1>1, <1>4
  <2>2. all[i] = gn[i] /\ gn[i] = g[i]
    BY <1>2, <1>3, <2>1
  <2>3. QED BY <1>3, <2>1, <2>2 DEF At
<1>6. ASSUME NEW i \in 1..Len(n) PROVE At(all, Len(g) + i, junk) = n[i]
  <2> DEFINE k == Len(g) + i
  <2>1. k \in 1..Len(all) /\ k <= Len(gn) /\ k \in 1..Len(gn) /\ ~(k <= Len(g)) /\ k - Len(g) = i
    BY <1>1, <1>4
  <2> HIDE DEF k
  <2>2. all[k] = gn[k] /\ gn[k] = n[i]
    BY <1>2, <1>3, <2>1
  <2>3. At(all, k, junk) = n[i]
    BY <1>3, <2>1, <2>2 DEF At
  <2>4. QED BY <2>3 DEF k
<1>7. ASSUME NEW i \in 1..Len(d) PROVE At(all, (Len(g) + Len(n)) + i, junk) = d[i]
  <2> DEFINE k == (Len(g) + Len(n)) + i
  <2>1. k \in 1..Len(all) /\ ~(k <= Len(gn)) /\ k - Len(gn) = i
    BY <1>1, <1>4
  <2> HIDE DEF k
  <2>2. all[k] = d[i]
    BY <1>3, <2>1
  <2>3. At(all, k, junk) = d[i]
    BY <1>3, <2>1, <2>2 DEF At
  <2>4. QED BY <2>3 DEF k
<1>8. InOneArray(all, g, n, d, junk)
  BY <1>4, <1>5, <1>6, <1>7 DEF InOneArray
<1>9. QED BY <1>8 DEF gn, all

(* One list of blocks. *)
LEMMA BlocksFit ==
  ASSUME NEW item, NEW list, NEW x, BlockList(x), list \in item.nocheck <=> x = Open, NEW base, NEW junk,
         item.count[list] = Len(List(x)), \A i \in 1..Len(List(x)) : At(item.blocks, base + i, junk) = List(x)[i],
         NEW l, l.val[list] \in Seq(Nat)
  PROVE  CountSame(item, l, list) /\ BlocksSame(item, base, list, l, junk) <=> Fits(x, l.val[list])
<1>1. CASE x = Open
  BY <1>1 DEF CountSame, BlocksSame, Fits
<1>2. CASE x # Open
  <2>1. List(x) = x /\ x \in Seq(Nat)
    BY <1>2 DEF List, BlockList
  <2> DEFINE y == l.val[list]
  <2>2. CountSame(item, l, list) <=> Len(x) = Len(y)
    BY <1>2, <2>1 DEF CountSame
  <2>3. BlocksSame(item, base, list, l, junk) <=> \A i \in 1..Len(x) : x[i] = y[i]
    BY <1>2, <2>1 DEF BlocksSame
  <2>4. y \in Seq(Nat)
    OBVIOUS
  <2> HIDE DEF y
  <2>5. x = [i \in 1..Len(x) |-> x[i]] /\ y = [i \in 1..Len(y) |-> y[i]]
    BY <2>1, <2>4
  <2>6. ASSUME Len(x) = Len(y), \A i \in 1..Len(x) : x[i] = y[i] PROVE x = y
    <3>1. [i \in 1..Len(x) |-> x[i]] = [i \in 1..Len(y) |-> y[i]]
      BY <2>6
    <3>2. QED BY <2>5, <3>1
  <2>7. x = y => Len(x) = Len(y) /\ \A i \in 1..Len(x) : x[i] = y[i]
    OBVIOUS
  <2>8. QED BY <1>2, <2>2, <2>3, <2>6, <2>7 DEF Fits, y
<1>3. QED BY <1>1, <1>2

(* The numbers of SACK and NR_SACK. *)
SackFields == {"flgs", "cum_tsn", "a_rwnd"}

(* SACK and NR_SACK as they are written. *)
LEMMA SacksWritten ==
  /\ \A w \in WrittenChunks("SACK") :
       /\ w.kind = "SACK" /\ DOMAIN w.val = SackFields \cup {"gaps", "dups"}
       /\ BlockList(w.val.gaps) /\ BlockList(w.val.dups)
  /\ \A w \in WrittenChunks("NR_SACK") :
       /\ w.kind = "NR_SACK" /\ DOMAIN w.val = SackFields \cup {"gaps", "nr_gaps", "dups"}
       /\ BlockList(w.val.gaps) /\ BlockList(w.val.nr_gaps) /\ BlockList(w.val.dups)
<1>1. WrittenChunks("SACK") = Chunks("SACK", SackFields, SackLists)
  BY DEF WrittenChunks, SackFields, HasCauses
<1>2. WrittenChunks("NR_SACK") = Chunks("NR_SACK", SackFields, NrSackLists)
  BY DEF WrittenChunks, SackFields, HasCauses
<1>3. \A r \in SackLists : DOMAIN r = {"gaps", "dups"} /\ BlockList(r.gaps) /\ BlockList(r.dups)
  BY BlockListsAreLists DEF SackLists
<1>4. \A r \in NrSackLists : DOMAIN r = {"gaps", "nr_gaps", "dups"} /\ BlockList(r.gaps) /\ BlockList(r.nr_gaps) /\ BlockList(r.dups)
  BY BlockListsAreLists DEF NrSackLists
<1>5. ASSUME NEW w \in WrittenChunks("SACK")
      PROVE  /\ w.kind = "SACK" /\ DOMAIN w.val = SackFields \cup {"gaps", "dups"}
             /\ BlockList(w.val.gaps) /\ BlockList(w.val.dups)
  <2>1. w.kind = "SACK"
    BY <1>1, ChunksValues
  <2>2. \E r \in SackLists : DOMAIN w.val = SackFields \cup DOMAIN r /\ \A f \in (DOMAIN r) \ SackFields : w.val[f] = r[f]
    BY <1>1, ChunksValues
  <2>3. QED BY <1>3, <2>1, <2>2 DEF SackFields
<1>6. ASSUME NEW w \in WrittenChunks("NR_SACK")
      PROVE  /\ w.kind = "NR_SACK" /\ DOMAIN w.val = SackFields \cup {"gaps", "nr_gaps", "dups"}
             /\ BlockList(w.val.gaps) /\ BlockList(w.val.nr_gaps) /\ BlockList(w.val.dups)
  <2>1. w.kind = "NR_SACK"
    BY <1>2, ChunksValues
  <2>2. \E r \in NrSackLists : DOMAIN w.val = SackFields \cup DOMAIN r /\ \A f \in (DOMAIN r) \ SackFields : w.val[f] = r[f]
    BY <1>2, ChunksValues
  <2>3. QED BY <1>4, <2>1, <2>2 DEF SackFields
<1>7. QED BY <1>5, <1>6

(* An item with all blocks in one array. *)
BlocksStored(item, type, w, lists, all) ==
  /\ item.type = type /\ FieldsStored(item, w, SackFields)
  /\ item.blocks = all /\ item.length = Len(all)
  /\ \A f \in {"gaps", "nr_gaps", "dups"} : item.count[f] = Len(Blocks(w, f))
  /\ \A f \in lists : f \in item.nocheck <=> w.val[f] = Open
  /\ "length" \in item.nocheck <=> \E f \in lists : w.val[f] = Open

(* WithBlocks makes such an item. *)
LEMMA StoredByWithBlocks ==
  ASSUME NEW type, NEW w, NEW lists, lists \subseteq {"gaps", "nr_gaps", "dups"}
  PROVE  BlocksStored(WithBlocks(ChunkItem(type, w, SackFields), w, lists), type, w, lists,
                      Blocks(w, "gaps") \o Blocks(w, "nr_gaps") \o Blocks(w, "dups"))
<1> DEFINE c == ChunkItem(type, w, SackFields)
           item == WithBlocks(c, w, lists)
           all == Blocks(w, "gaps") \o Blocks(w, "nr_gaps") \o Blocks(w, "dups")
<1>1. /\ DOMAIN c = ItemFields /\ c.type = type /\ FieldsStored(c, w, SackFields) /\ c.nocheck \subseteq SackFields
  BY StoredByChunkItem DEF SackFields
<1> HIDE DEF c
<1>2. /\ item.type = c.type /\ item.val = c.val /\ item.blocks = all /\ item.length = Len(all)
      /\ item.count = [f \in DOMAIN NoBlocks |-> Len(Blocks(w, f))]
      /\ item.nocheck = c.nocheck \cup {f \in lists : w.val[f] = Open}
                          \cup Flags(\E f \in lists : w.val[f] = Open, {"length"})
  BY <1>1 DEF WithBlocks, ItemFields
<1> HIDE DEF item, all
<1>3. DOMAIN NoBlocks = {"gaps", "nr_gaps", "dups"}
  BY DEF NoBlocks
<1>4. \A f \in {"gaps", "nr_gaps", "dups"} : item.count[f] = Len(Blocks(w, f))
  BY <1>2, <1>3
<1>5. \A f \in lists : f \in item.nocheck <=> w.val[f] = Open
  BY <1>1, <1>2 DEF Flags, SackFields
<1>6. "length" \in item.nocheck <=> \E f \in lists : w.val[f] = Open
  BY <1>1, <1>2 DEF Flags, SackFields
<1>7. FieldsStored(item, w, SackFields)
  BY <1>1, <1>2 DEF Flags, SackFields, FieldsStored
<1>8. BlocksStored(item, type, w, lists, all)
  BY <1>1, <1>2, <1>4, <1>5, <1>6, <1>7 DEF BlocksStored
<1>9. QED BY <1>8 DEF item, all, c

(* SACK is judged rightly, *)
LEMMA SackRight ==
  ASSUME NEW w \in WrittenChunks("SACK"), NEW l, LiveOK(l)
  PROVE  ChunkRight(w, l, ChunkStatus(NewChunk(w), l, 0), ChunkStatus(NewChunk(w), l, 1))
<1> DEFINE item == NewChunk(w)
           g == List(w.val.gaps)
           d == List(w.val.dups)
           lists == {"gaps", "dups"}
<1>1. /\ w.kind = "SACK" /\ DOMAIN w.val = SackFields \cup lists
      /\ BlockList(w.val.gaps) /\ BlockList(w.val.dups)
  BY SacksWritten
<1>2. g \in Seq(Nat) /\ d \in Seq(Nat) /\ <<>> \in Seq(Nat) /\ Len(<<>>) = 0 /\ Len(g) \in Nat /\ Len(d) \in Nat
  BY <1>1, BlockListsAreLists
<1>3. Blocks(w, "gaps") = g /\ Blocks(w, "nr_gaps") = <<>> /\ Blocks(w, "dups") = d
  BY <1>1 DEF Blocks, SackFields
<1>4. item = WithBlocks(ChunkItem("SACK", w, SackFields), w, lists)
  BY <1>1 DEF NewChunk, sctp_sack_chunk_new, SackFields
<1> HIDE DEF item, g, d
<1>5. /\ item.type = "SACK" /\ FieldsStored(item, w, SackFields)
      /\ item.blocks = g \o <<>> \o d /\ item.length = Len(g \o <<>> \o d)
      /\ item.count["gaps"] = Len(g) /\ item.count["dups"] = Len(d)
      /\ "gaps" \in item.nocheck <=> w.val.gaps = Open
      /\ "dups" \in item.nocheck <=> w.val.dups = Open
      /\ "length" \in item.nocheck <=> w.val.gaps = Open \/ w.val.dups = Open
  <2>1. lists \subseteq {"gaps", "nr_gaps", "dups"}
    OBVIOUS
  <2>2. BlocksStored(item, "SACK", w, lists, g \o <<>> \o d)
    BY <1>3, <1>4, <2>1, StoredByWithBlocks
  <2>3. QED BY <1>3, <2>2 DEF BlocksStored
<1>6. \A junk : InOneArray(item.blocks, g, <<>>, d, junk)
  BY <1>2, <1>5, BlocksAt
<1>7. CASE l.type # "SACK"
  BY <1>1, <1>5, <1>7, OtherType DEF item
<1>8. CASE l.type = "SACK"
  <2> DEFINE base == IF "gaps" \in item.nocheck THEN 0 ELSE Len(l.val.gaps)
             ok == /\ Fits(w.val.cum_tsn, l.val.cum_tsn) /\ Fits(w.val.a_rwnd, l.val.a_rwnd)
                   /\ Fits(w.val.gaps, l.val.gaps) /\ Fits(w.val.dups, l.val.dups)
  <2>1. DOMAIN l.val = SackFields \cup lists /\ l.val.gaps \in Seq(Nat) /\ l.val.dups \in Seq(Nat)
    BY <1>8 DEF LiveOK, LiveFields, HasCauses, SackFields
  <2>2. LiveChunkLength(l) = Len(l.val.gaps) + Len(l.val.dups)
    BY <1>8, <2>1 DEF LiveChunkLength, HasCauses, HasParameters, SackFields
  <2>3. ASSUME NEW junk PROVE CountSame(item, l, "gaps") /\ BlocksSame(item, 0, "gaps", l, junk) <=> Fits(w.val.gaps, l.val.gaps)
    <3>1. \A i \in 1..Len(g) : At(item.blocks, 0 + i, junk) = g[i]
      BY <1>6 DEF InOneArray
    <3>2. QED BY <1>1, <1>5, <2>1, <3>1, BlocksFit DEF g
  <2>4. ASSUME NEW junk PROVE CountSame(item, l, "dups") /\ BlocksSame(item, Len(g), "dups", l, junk) <=> Fits(w.val.dups, l.val.dups)
    <3>1. \A i \in 1..Len(d) : At(item.blocks, (Len(g) + Len(<<>>)) + i, junk) = d[i]
      BY <1>6 DEF InOneArray
    <3>2. Len(g) + Len(<<>>) = Len(g)
      BY <1>2
    <3>3. \A i \in 1..Len(d) : At(item.blocks, Len(g) + i, junk) = d[i]
      BY <3>1, <3>2
    <3>4. QED BY <1>1, <1>5, <2>1, <3>3, BlocksFit DEF d
  <2>5. CountSame(item, l, "gaps") => base = Len(g)
    BY <1>2, <1>5 DEF CountSame, g, List
  <2>6. \A junk, f : f \in SackFields => (Same(item, l, f, junk) <=> Fits(w.val[f], l.val[f]))
    BY <1>5, FieldSame
  <2>7. \A junk : ByType(item, l, junk) =
          IF /\ Same(item, l, "cum_tsn", junk) /\ Same(item, l, "a_rwnd", junk)
             /\ CountSame(item, l, "gaps") /\ CountSame(item, l, "dups")
             /\ BlocksSame(item, 0, "gaps", l, junk)
             /\ BlocksSame(item, base, "dups", l, junk)
          THEN "ok" ELSE "err"
    BY <1>8 DEF ByType, verify_sack_chunk, Status
  <2> HIDE DEF base
  <2>8. \A junk : ByType(item, l, junk) = IF ok THEN "ok" ELSE "err"
    BY <2>3, <2>4, <2>5, <2>6, <2>7 DEF SackFields
  <2>9. ok => "length" \in item.nocheck \/ item.length = LiveChunkLength(l)
    <3>1. item.length = Len(g) + Len(d)
      BY <1>2, <1>5, <1>6 DEF InOneArray
    <3>2. QED BY <1>5, <2>2, <3>1 DEF Fits, g, d, List
  <2>10. FieldsStored(item, w, {"flgs"})
    BY <1>5 DEF FieldsStored, SackFields
  <2>11. ChunkFits(w, l) <=> Fits(w.val.flgs, l.val.flgs) /\ ok
    <3>1. Implied(w) = w.val
      BY <1>1 DEF Implied
    <3>2. (DOMAIN w.val) \cap DOMAIN l.val = SackFields \cup lists
      BY <1>1, <2>1
    <3>3. QED BY <1>1, <1>8, <3>1, <3>2, NotShort DEF ChunkFits, ItemLists, SackFields
  <2> HIDE DEF ok
  <2>12. \A junk : ChunkStatus(item, l, junk) = IF Fits(w.val.flgs, l.val.flgs) /\ ok THEN "ok" ELSE "err"
    BY <1>5, <1>8, <2>8, <2>9, <2>10, HeadFirst
  <2>13. QED BY <2>11, <2>12, OneStatus DEF item
<1>9. QED BY <1>7, <1>8

(* and NR_SACK. *)
LEMMA NrSackRight ==
  ASSUME NEW w \in WrittenChunks("NR_SACK"), NEW l, LiveOK(l)
  PROVE  ChunkRight(w, l, ChunkStatus(NewChunk(w), l, 0), ChunkStatus(NewChunk(w), l, 1))
<1> DEFINE item == NewChunk(w)
           g == List(w.val.gaps)
           n == List(w.val.nr_gaps)
           d == List(w.val.dups)
           lists == {"gaps", "nr_gaps", "dups"}
<1>1. /\ w.kind = "NR_SACK" /\ DOMAIN w.val = SackFields \cup lists
      /\ BlockList(w.val.gaps) /\ BlockList(w.val.nr_gaps) /\ BlockList(w.val.dups)
  BY SacksWritten
<1>2. g \in Seq(Nat) /\ n \in Seq(Nat) /\ d \in Seq(Nat) /\ Len(g) \in Nat /\ Len(n) \in Nat /\ Len(d) \in Nat
  BY <1>1, BlockListsAreLists
<1>3. Blocks(w, "gaps") = g /\ Blocks(w, "nr_gaps") = n /\ Blocks(w, "dups") = d
  BY <1>1 DEF Blocks, SackFields
<1>4. item = WithBlocks(ChunkItem("NR_SACK", w, SackFields), w, lists)
  BY <1>1 DEF NewChunk, sctp_nr_sack_chunk_new, SackFields
<1> HIDE DEF item, g, n, d
<1>5. /\ item.type = "NR_SACK" /\ FieldsStored(item, w, SackFields)
      /\ item.blocks = g \o n \o d /\ item.length = Len(g \o n \o d)
      /\ item.count["gaps"] = Len(g) /\ item.count["nr_gaps"] = Len(n) /\ item.count["dups"] = Len(d)
      /\ "gaps" \in item.nocheck <=> w.val.gaps = Open
      /\ "nr_gaps" \in item.nocheck <=> w.val.nr_gaps = Open
      /\ "dups" \in item.nocheck <=> w.val.dups = Open
      /\ "length" \in item.nocheck <=> w.val.gaps = Open \/ w.val.nr_gaps = Open \/ w.val.dups = Open
  <2>1. lists \subseteq {"gaps", "nr_gaps", "dups"}
    OBVIOUS
  <2>2. BlocksStored(item, "NR_SACK", w, lists, g \o n \o d)
    BY <1>3, <1>4, <2>1, StoredByWithBlocks
  <2>3. QED BY <1>3, <2>2 DEF BlocksStored
<1>6. \A junk : InOneArray(item.blocks, g, n, d, junk)
  BY <1>2, <1>5, BlocksAt
<1>7. CASE l.type # "NR_SACK"
  BY <1>1, <1>5, <1>7, OtherType DEF item
<1>8. CASE l.type = "NR_SACK"
  <2> DEFINE base == IF "gaps" \in item.nocheck THEN 0 ELSE Len(l.val.gaps)
             next == base + (IF "nr_gaps" \in item.nocheck THEN 0 ELSE item.count.nr_gaps)
             ok == /\ Fits(w.val.cum_tsn, l.val.cum_tsn) /\ Fits(w.val.a_rwnd, l.val.a_rwnd)
                   /\ Fits(w.val.gaps, l.val.gaps) /\ Fits(w.val.nr_gaps, l.val.nr_gaps) /\ Fits(w.val.dups, l.val.dups)
  <2>1. /\ DOMAIN l.val = SackFields \cup lists /\ l.val.gaps \in Seq(Nat)
        /\ l.val.nr_gaps \in Seq(Nat) /\ l.val.dups \in Seq(Nat)
    BY <1>8 DEF LiveOK, LiveFields, HasCauses, SackFields
  <2>2. LiveChunkLength(l) = Len(l.val.gaps) + Len(l.val.nr_gaps) + Len(l.val.dups)
    BY <1>8, <2>1 DEF LiveChunkLength, HasCauses, HasParameters, SackFields
  <2>3. ASSUME NEW junk PROVE CountSame(item, l, "gaps") /\ BlocksSame(item, 0, "gaps", l, junk) <=> Fits(w.val.gaps, l.val.gaps)
    <3>1. \A i \in 1..Len(g) : At(item.blocks, 0 + i, junk) = g[i]
      BY <1>6 DEF InOneArray
    <3>2. QED BY <1>1, <1>5, <2>1, <3>1, BlocksFit DEF g
  <2>4. ASSUME NEW junk PROVE CountSame(item, l, "nr_gaps") /\ BlocksSame(item, Len(g), "nr_gaps", l, junk) <=> Fits(w.val.nr_gaps, l.val.nr_gaps)
    <3>1. \A i \in 1..Len(n) : At(item.blocks, Len(g) + i, junk) = n[i]
      BY <1>6 DEF InOneArray
    <3>2. QED BY <1>1, <1>5, <2>1, <3>1, BlocksFit DEF n
  <2>5. ASSUME NEW junk PROVE CountSame(item, l, "dups") /\ BlocksSame(item, Len(g) + Len(n), "dups", l, junk) <=> Fits(w.val.dups, l.val.dups)
    <3>1. \A i \in 1..Len(d) : At(item.blocks, (Len(g) + Len(n)) + i, junk) = d[i]
      BY <1>6 DEF InOneArray
    <3>2. QED BY <1>1, <1>5, <2>1, <3>1, BlocksFit DEF d
  <2>6. CountSame(item, l, "gaps") => base = Len(g)
    BY <1>2, <1>5 DEF CountSame, g, List
  <2>7. (IF "nr_gaps" \in item.nocheck THEN 0 ELSE item.count.nr_gaps) = Len(n)
    BY <1>2, <1>5 DEF n, List
  <2>8. \A junk, f : f \in SackFields => (Same(item, l, f, junk) <=> Fits(w.val[f], l.val[f]))
    BY <1>5, FieldSame
  <2>9. DOMAIN NoBlocks = lists
    BY DEF NoBlocks
  <2>10. \A junk : ByType(item, l, junk) =
          IF /\ Same(item, l, "cum_tsn", junk) /\ Same(item, l, "a_rwnd", junk)
             /\ \A list \in lists : CountSame(item, l, list)
             /\ BlocksSame(item, 0, "gaps", l, junk)
             /\ BlocksSame(item, base, "nr_gaps", l, junk)
             /\ BlocksSame(item, next, "dups", l, junk)
          THEN "ok" ELSE "err"
    BY <1>8, <2>9 DEF ByType, verify_nr_sack_chunk, Status
  <2>11. CountSame(item, l, "gaps") => next = Len(g) + Len(n)
    BY <2>6, <2>7
  <2> HIDE DEF base, next
  <2>12. \A junk : ByType(item, l, junk) = IF ok THEN "ok" ELSE "err"
    BY <2>3, <2>4, <2>5, <2>6, <2>8, <2>10, <2>11 DEF SackFields
  <2>13. ok => "length" \in item.nocheck \/ item.length = LiveChunkLength(l)
    <3>1. item.length = Len(g) + Len(n) + Len(d)
      BY <1>2, <1>5, <1>6 DEF InOneArray
    <3>2. QED BY <1>5, <2>2, <3>1 DEF Fits, g, n, d, List
  <2>14. FieldsStored(item, w, {"flgs"})
    BY <1>5 DEF FieldsStored, SackFields
  <2>15. ChunkFits(w, l) <=> Fits(w.val.flgs, l.val.flgs) /\ ok
    <3>1. Implied(w) = w.val
      BY <1>1 DEF Implied
    <3>2. (DOMAIN w.val) \cap DOMAIN l.val = SackFields \cup lists
      BY <1>1, <2>1
    <3>3. QED BY <1>1, <1>8, <3>1, <3>2, NotShort DEF ChunkFits, ItemLists, SackFields
  <2> HIDE DEF ok
  <2>16. \A junk : ChunkStatus(item, l, junk) = IF Fits(w.val.flgs, l.val.flgs) /\ ok THEN "ok" ELSE "err"
    BY <1>5, <1>8, <2>12, <2>13, <2>14, HeadFirst
  <2>17. QED BY <2>15, <2>16, OneStatus DEF item
<1>9. QED BY <1>7, <1>8

(* Three ways to write a value and its length. *)
ValueWritten(n, v) == \/ n = Open /\ v = Open
                      \/ n = 1 /\ v = Open
                      \/ n = 1 /\ v = <<1>>

(* COOKIE_ECHO as it is written. *)
LEMMA CookiesWritten ==
  ASSUME NEW w \in WrittenChunks("COOKIE_ECHO")
  PROVE  w.kind = "COOKIE_ECHO" /\ DOMAIN w.val = {"flgs", "len", "value"} /\ ValueWritten(w.val.len, w.val.value)
<1> DEFINE R == {[len |-> v[1], value |-> v[2]] : v \in {<<Open, Open>>, <<1, Open>>, <<1, <<1>>>>}}
<1>1. w \in Chunks("COOKIE_ECHO", {"flgs"}, R)
  BY DEF WrittenChunks, HasCauses
<1>2. \A r \in R : DOMAIN r = {"len", "value"} /\ ValueWritten(r.len, r.value)
  BY DEF ValueWritten
<1> HIDE DEF R
<1>3. w.kind = "COOKIE_ECHO"
  BY <1>1, ChunksValues
<1>4. \E r \in R : DOMAIN w.val = {"flgs"} \cup DOMAIN r /\ \A f \in (DOMAIN r) \ {"flgs"} : w.val[f] = r[f]
  BY <1>1, ChunksValues
<1>5. QED BY <1>2, <1>3, <1>4

(* Bytes that are compared, when their number is known. *)
LEMMA BytesCompared ==
  ASSUME NEW item, NEW y \in Seq(Nat), NEW n \in Nat, item.length = n,
         "length" \in item.nocheck => "value" \in item.nocheck,
         "value" \notin item.nocheck => item.val.value \in Seq(Nat) /\ Len(item.val.value) = n,
         "length" \in item.nocheck \/ n = Len(y), NEW junk
  PROVE  ValueStatus(item, y, junk) = IF "value" \in item.nocheck \/ item.val.value = y THEN "ok" ELSE "err"
<1>1. CASE "value" \in item.nocheck
  BY <1>1 DEF ValueStatus
<1>2. CASE "value" \notin item.nocheck
  <2>1. MemSame(item.val.value, y, junk) <=> item.val.value = y
    BY <1>2, MemSameEqual
  <2>2. QED BY <1>2, <2>1 DEF ValueStatus, Status
<1>3. QED BY <1>1, <1>2

(* It is judged rightly. *)
LEMMA CookieRight ==
  ASSUME NEW w \in WrittenChunks("COOKIE_ECHO"), NEW l, LiveOK(l)
  PROVE  ChunkRight(w, l, ChunkStatus(NewChunk(w), l, 0), ChunkStatus(NewChunk(w), l, 1))
<1> DEFINE item == NewChunk(w)
           n == w.val.len
           v == w.val.value
           bytes == IF v = Open THEN [i \in 1..Value(n) |-> 1] ELSE v
           flags == Flags(n = Open, {"length"}) \cup Flags(v = Open, {"value"})
<1>1. w.kind = "COOKIE_ECHO" /\ DOMAIN w.val = {"flgs", "len", "value"} /\ ValueWritten(n, v)
  BY CookiesWritten
<1>2. item = Sized(ChunkItem("COOKIE_ECHO", w, {"flgs"}), Value(n), bytes, flags)
  BY <1>1 DEF NewChunk, sctp_cookie_echo_chunk_new
<1>3. flags \cap {"flgs"} = {} /\ ("length" \in flags <=> n = Open) /\ ("value" \in flags <=> v = Open)
  BY DEF Flags
<1>4. v # Open => bytes = <<1>>
  BY <1>1 DEF ValueWritten
<1> HIDE DEF item, flags, bytes
<1>5. /\ item.type = "COOKIE_ECHO" /\ FieldsStored(item, w, {"flgs"}) /\ item.length = Value(n)
      /\ "length" \in item.nocheck <=> n = Open
      /\ "value" \in item.nocheck <=> v = Open
      /\ v # Open => item.val.value = <<1>>
  BY <1>2, <1>3, <1>4, SizedFields
<1> HIDE DEF n, v
<1>6. CASE l.type # "COOKIE_ECHO"
  BY <1>1, <1>5, <1>6, OtherType DEF item
<1>7. CASE l.type = "COOKIE_ECHO"
  <2> DEFINE y == l.val.value
  <2>1. DOMAIN l.val = {"flgs", "value"} /\ y \in Seq(Nat)
    BY <1>7 DEF LiveOK, LiveFields, HasCauses
  <2>2. LiveChunkLength(l) = Len(y)
    BY <1>7, <2>1 DEF LiveChunkLength, HasCauses, HasParameters
  <2>3. \A junk : ByType(item, l, junk) = ValueStatus(item, y, junk)
    BY <1>7 DEF ByType, verify_cookie_echo_chunk
  <2>4. \A junk : ChunkStatus(item, l, junk) =
          IF Fits(w.val.flgs, l.val.flgs) /\ ("length" \in item.nocheck \/ item.length = LiveChunkLength(l))
          THEN ByType(item, l, junk) ELSE "err"
    BY <1>5, <1>7, HeadFirst
  <2>5. ChunkFits(w, l) <=> Fits(w.val.flgs, l.val.flgs) /\ Fits(v, y) /\ Fits(n, Len(y))
    <3>1. Implied(w) = w.val
      BY <1>1 DEF Implied
    <3>2. (DOMAIN w.val) \cap DOMAIN l.val = {"flgs", "value"}
      BY <1>1, <2>1
    <3>3. QED BY <1>1, <1>7, <3>1, <3>2, NotShort DEF ChunkFits, ItemLists, n, v
  <2> HIDE DEF y
  <2>6. Value(n) \in Nat /\ (n # Open => Value(n) = n)
    BY <1>1 DEF Value, ValueWritten
  <2>7. "length" \in item.nocheck \/ item.length = LiveChunkLength(l) <=> Fits(n, Len(y))
    BY <1>5, <2>2, <2>6 DEF Fits
  <2>8. \A junk : Fits(n, Len(y)) => ValueStatus(item, y, junk) = IF Fits(v, y) THEN "ok" ELSE "err"
    <3>1. ASSUME NEW junk, Fits(n, Len(y)) PROVE ValueStatus(item, y, junk) = IF Fits(v, y) THEN "ok" ELSE "err"
      <4>1. "length" \in item.nocheck => "value" \in item.nocheck
        BY <1>1, <1>5, OpenMarks DEF ValueWritten
      <4>2. "value" \notin item.nocheck => item.val.value \in Seq(Nat) /\ Len(item.val.value) = Value(n)
        BY <1>1, <1>5, <2>6, Small, OpenMarks DEF ValueWritten
      <4>3. "length" \in item.nocheck \/ Value(n) = Len(y)
        BY <1>5, <2>2, <2>7, <3>1
      <4>4. ValueStatus(item, y, junk) = IF "value" \in item.nocheck \/ item.val.value = y THEN "ok" ELSE "err"
        BY <1>5, <2>1, <2>6, <4>1, <4>2, <4>3, BytesCompared
      <4>5. QED BY <1>1, <1>5, <4>4 DEF Fits, ValueWritten
    <3>2. QED BY <3>1
  <2>9. \A junk : ChunkStatus(item, l, junk) =
          IF Fits(w.val.flgs, l.val.flgs) /\ Fits(n, Len(y)) /\ Fits(v, y) THEN "ok" ELSE "err"
    BY <2>3, <2>4, <2>7, <2>8
  <2>10. QED BY <2>5, <2>9, OneStatus DEF item
<1>8. QED BY <1>6, <1>7

(* HEARTBEAT and HEARTBEAT_ACK as they are written. *)
LEMMA HeartbeatsWritten ==
  ASSUME NEW k \in {"HEARTBEAT", "HEARTBEAT_ACK"}, NEW w \in WrittenChunks(k)
  PROVE  LET info == w.val.info IN
         /\ w.kind = k /\ DOMAIN w.val = {"flgs", "info"} /\ info.type = "HEARTBEAT_INFORMATION"
         /\ ValueWritten(info.length, info.val.value)
         /\ info = Plain("HEARTBEAT_INFORMATION", info.length, info.val.value)
<1> DEFINE R == [info : Infos]
<1>1. w \in Chunks(k, {"flgs"}, R)
  BY DEF WrittenChunks, HasCauses
<1>2. \A r \in R : DOMAIN r = {"info"} /\ r.info \in Infos
  OBVIOUS
<1> HIDE DEF R
<1>3. w.kind = k
  BY <1>1, ChunksValues
<1>4. \E r \in R : DOMAIN w.val = {"flgs"} \cup DOMAIN r /\ \A f \in (DOMAIN r) \ {"flgs"} : w.val[f] = r[f]
  BY <1>1, ChunksValues
<1>5. DOMAIN w.val = {"flgs", "info"} /\ w.val.info \in Infos
  BY <1>2, <1>4
<1>6. PICK p \in {<<Open, Open>>, <<1, Open>>, <<1, <<1>>>>} : w.val.info = Plain("HEARTBEAT_INFORMATION", p[1], p[2])
  BY <1>5 DEF Infos
<1>7. ValueWritten(p[1], p[2])
  BY <1>6 DEF ValueWritten
<1>8. LET info == w.val.info IN info.type = "HEARTBEAT_INFORMATION" /\ info.length = p[1] /\ info.val.value = p[2]
  BY <1>6 DEF Plain, Par
<1>9. QED BY <1>3, <1>5, <1>6, <1>7, <1>8

(* The bytes of the information parameter, type and value. *)
LEMMA InfoImage ==
  ASSUME NEW v \in {Open, << 1 >>}
  PROVE  LET q == sctp_generic_parameter_new(Plain("HEARTBEAT_INFORMATION", 1, v)) IN
         /\ Image(q) \in Seq(Nat) /\ Len(Image(q)) = 2 /\ Image(q)[1] = 1 /\ (v # Open => Image(q)[2] = 1)
<1> DEFINE p == Plain("HEARTBEAT_INFORMATION", 1, v)
           q == sctp_generic_parameter_new(p)
           f == Filled(q)
           c == IF v = Open THEN 0 ELSE 1
<1>1. p.type = "HEARTBEAT_INFORMATION" /\ p.length = 1 /\ p.val = [value |-> v]
  BY DEF Plain, Par
<1>2. "HEARTBEAT_INFORMATION" # Open /\ 1 # Open /\ v # Short
  BY MarkersAssumption, OpenMarks, Small
<1>3. q.bytes = 1 /\ "type" \notin q.nocheck /\ q.val.value = IF v = Open THEN <<>> ELSE v
  BY <1>1, <1>2 DEF sctp_generic_parameter_new, Stored, Flags
<1> HIDE DEF q
<1>4. f \in [1..1 -> Nat] /\ f[1] = c
  BY <1>3 DEF Filled
<1> HIDE DEF f
<1>5. Image(q) = <<1>> \o f
  BY <1>3 DEF Image, f
<1>6. f = <<c>>
  BY <1>4
<1>7. c \in Nat /\ (v # Open => c = 1)
  OBVIOUS
<1> HIDE DEF c
<1>8. <<1>> \in Seq(Nat) /\ <<c>> \in Seq(Nat) /\ Len(<<1>>) = 1 /\ Len(<<c>>) = 1 /\ <<1>>[1] = 1 /\ <<c>>[1] = c
  BY <1>7
<1> DEFINE t == <<1>> \o <<c>>
<1>9. t \in Seq(Nat) /\ Len(t) = 2 /\ t[1] = 1 /\ t[2] = c
  BY <1>8
<1> HIDE DEF t
<1>10. Image(q) = t
  BY <1>5, <1>6 DEF t
<1>11. QED BY <1>7, <1>9, <1>10 DEF q

(* A value of two bytes that are given. *)
LEMMA TwoBytesFit ==
  ASSUME NEW a, a.type # Open, a.length = 1, a.val.value \in {Open, << 1 >>}, NEW y \in Seq(Nat)
  PROVE  SameShape(Pattern(<<a>>), y) <=> Len(y) = 2 /\ y[1] = 1 /\ (a.val.value = Open \/ y[2] = 1)
<1> DEFINE s == Pattern(<<a>>)
<1>1. /\ Len(s) = 2 /\ DOMAIN s = 1..2 /\ s[1] = 1 /\ s[2] = (IF a.val.value = Open THEN Open ELSE 1)
  BY PatternOne
<1> HIDE DEF s
<1>2. 1..2 = {1, 2}
  OBVIOUS
<1>3. (\A i \in DOMAIN s : Fits(s[i], y[i])) <=> Fits(s[1], y[1]) /\ Fits(s[2], y[2])
  BY <1>1, <1>2
<1>4. (Fits(s[1], y[1]) <=> y[1] = 1) /\ (Fits(s[2], y[2]) <=> a.val.value = Open \/ y[2] = 1)
  BY <1>1, OpenMarks DEF Fits
<1>5. SameShape(s, y) <=> Len(y) = 2 /\ y[1] = 1 /\ (a.val.value = Open \/ y[2] = 1)
  BY <1>1, <1>3, <1>4 DEF SameShape
<1>6. QED BY <1>5 DEF s

(* They are judged rightly. *)
LEMMA HeartbeatRight ==
  ASSUME NEW k \in {"HEARTBEAT", "HEARTBEAT_ACK"}, NEW w \in WrittenChunks(k), NEW l, LiveOK(l)
  PROVE  ChunkRight(w, l, ChunkStatus(NewChunk(w), l, 0), ChunkStatus(NewChunk(w), l, 1))
<1> DEFINE item == NewChunk(w)
           info == w.val.info
           n == info.length
           v == info.val.value
           q == sctp_generic_parameter_new(info)
           flags == q.nocheck \cap {"length", "value"}
<1>1. w.kind = k /\ DOMAIN w.val = {"flgs", "info"}
  BY HeartbeatsWritten
<1>2. info = Plain("HEARTBEAT_INFORMATION", n, v) /\ ValueWritten(n, v) /\ info.type = "HEARTBEAT_INFORMATION"
  BY HeartbeatsWritten
<1>3. item = Sized(ChunkItem(k, w, {"flgs"}), 1 + q.bytes, Image(q), flags)
  BY <1>1 DEF NewChunk, sctp_heartbeat_chunk_new, sctp_heartbeat_ack_chunk_new, WithInfo, sctp_heartbeat_information_parameter_new
<1>4. Open # Short /\ Open # 1 /\ <<1>> # Open /\ <<1>> # Short /\ "HEARTBEAT_INFORMATION" # Open
  BY OpenMarks, MarkersAssumption, Small
<1>5. /\ q.bytes = IF n = Open THEN 0 ELSE 1
      /\ flags \cap {"flgs"} = {} /\ ("length" \in flags <=> n = Open) /\ ("value" \in flags <=> v = Open)
  BY <1>2, <1>4 DEF sctp_generic_parameter_new, Stored, Flags, ValueWritten
<1>6. n # Open => Image(q) \in Seq(Nat) /\ Len(Image(q)) = 2 /\ Image(q)[1] = 1 /\ (v # Open => Image(q)[2] = 1)
  BY <1>2, InfoImage DEF ValueWritten
<1> HIDE DEF item, q, flags
<1>7. /\ item.type = k /\ FieldsStored(item, w, {"flgs"}) /\ item.length = 1 + q.bytes /\ item.val.value = Image(q)
      /\ "length" \in item.nocheck <=> n = Open
      /\ "value" \in item.nocheck <=> v = Open
  BY <1>3, <1>5, SizedFields
<1>8. CASE l.type # k
  BY <1>1, <1>7, <1>8, OtherType DEF item
<1>9. CASE l.type = k
  <2> DEFINE y == l.val.value
             ok == n = Open \/ (Len(y) = 2 /\ y[1] = 1 /\ (v = Open \/ y[2] = 1))
  <2>1. DOMAIN l.val = {"flgs", "value"} /\ y \in Seq(Nat) /\ (Len(y) = 2 => y[1] = 1)
    BY <1>9 DEF LiveOK, LiveFields, HasCauses
  <2>2. LiveChunkLength(l) = Len(y)
    BY <1>9, <2>1 DEF LiveChunkLength, HasCauses, HasParameters
  <2>3. \A junk : ByType(item, l, junk) = ValueStatus(item, y, junk)
    BY <1>9 DEF ByType, verify_heartbeat_chunk, verify_heartbeat_ack_chunk
  <2>4. \A junk : ChunkStatus(item, l, junk) =
          IF Fits(w.val.flgs, l.val.flgs) /\ ("length" \in item.nocheck \/ item.length = LiveChunkLength(l))
          THEN ByType(item, l, junk) ELSE "err"
    BY <1>7, <1>9, HeadFirst
  <2>5. ChunkFits(w, l) <=> Fits(w.val.flgs, l.val.flgs) /\ ok
    <3>1. Implied(w) = w.val
      BY <1>1 DEF Implied
    <3>2. (DOMAIN w.val) \cap DOMAIN l.val = {"flgs"}
      BY <1>1, <2>1
    <3>3. n # Open => (SameShape(Pattern(<<info>>), y) <=> Len(y) = 2 /\ y[1] = 1 /\ (v = Open \/ y[2] = 1))
      BY <1>2, <1>4, <2>1, TwoBytesFit DEF ValueWritten
    <3>4. ChunkFits(w, l) <=> Fits(w.val.flgs, l.val.flgs) /\ (info.length = Open \/ SameShape(Pattern(<<info>>), y))
      BY <1>1, <1>9, <3>1, <3>2, NotShort DEF ChunkFits, ItemLists
    <3>5. QED BY <3>3, <3>4
  <2>6. "length" \in item.nocheck \/ item.length = LiveChunkLength(l) <=> n = Open \/ Len(y) = 2
    <3>1. n # Open => item.length = 2
      BY <1>5, <1>7
    <3>2. QED BY <1>7, <2>2, <3>1
  <2> HIDE DEF y
  <2>7. \A junk : n = Open \/ Len(y) = 2 => ValueStatus(item, y, junk) = IF ok THEN "ok" ELSE "err"
    <3>1. ASSUME NEW junk, v = Open, n = Open \/ Len(y) = 2 PROVE ValueStatus(item, y, junk) = "ok" /\ ok
      BY <1>7, <2>1, <3>1 DEF ValueStatus
    <3>2. ASSUME NEW junk, v # Open, n = Open \/ Len(y) = 2 PROVE ValueStatus(item, y, junk) = IF ok THEN "ok" ELSE "err"
      <4>1. n # Open
        BY <1>2, <1>4, <3>2 DEF ValueWritten
      <4>2. Image(q) \in Seq(Nat) /\ Len(Image(q)) = 2 /\ Image(q)[1] = 1 /\ Image(q)[2] = 1
        BY <1>6, <3>2, <4>1
      <4>3. ValueStatus(item, y, junk) = IF MemSame(Image(q), y, junk) THEN "ok" ELSE "err"
        BY <1>7, <3>2, <4>1 DEF ValueStatus, Status
      <4>4. MemSame(Image(q), y, junk) <=> Image(q) = y
        BY <2>1, <3>2, <4>1, <4>2, MemSameEqual
      <4>5. Image(q) = y <=> y[1] = 1 /\ y[2] = 1
        BY <2>1, <3>2, <4>1, <4>2
      <4>6. QED BY <3>2, <4>1, <4>3, <4>4, <4>5
    <3>3. QED BY <3>1, <3>2
  <2>8. ok => n = Open \/ Len(y) = 2
    OBVIOUS
  <2> HIDE DEF ok
  <2>9. \A junk : ChunkStatus(item, l, junk) = IF Fits(w.val.flgs, l.val.flgs) /\ ok THEN "ok" ELSE "err"
    BY <2>3, <2>4, <2>6, <2>7, <2>8
  <2>10. QED BY <2>5, <2>9, OneStatus DEF item
<1>10. QED BY <1>8, <1>9

(* FORWARD_TSN and I_FORWARD_TSN are judged rightly, but for 2^32 - 1. *)
LEMMA ForwardRight ==
  ASSUME NEW k \in {"FORWARD_TSN", "I_FORWARD_TSN"}, NEW w \in WrittenChunks(k), NEW l, LiveOK(l)
  PROVE  ChunkRight(w, l, ChunkStatus(NewChunk(w), l, 0), ChunkStatus(NewChunk(w), l, 1))
<1> DEFINE item == NewChunk(w)
           n == w.val.cum_tsn
           ids == w.val.ids
           c == ChunkItem(k, w, {})
           fixed == [flgs |-> 0, cum_tsn |-> IF n \in {Open, MaxU32} THEN 0 ELSE n]
<1>1. w.kind = k /\ DOMAIN w.val = {"cum_tsn", "ids"} /\ n \in {1, Open, MaxU32} /\ ids \in {Open, <<>>, <<1>>}
  <2>1. \A v \in [cum_tsn : {1, Open, MaxU32}, ids : {Open, <<>>, <<1>>}] :
          DOMAIN v = {"cum_tsn", "ids"} /\ v.cum_tsn \in {1, Open, MaxU32} /\ v.ids \in {Open, <<>>, <<1>>}
    OBVIOUS
  <2>2. \E v \in [cum_tsn : {1, Open, MaxU32}, ids : {Open, <<>>, <<1>>}] : w = [kind |-> k, val |-> v]
    BY DEF WrittenChunks, HasCauses
  <2>3. QED BY <2>1, <2>2
<1>2. item = [c EXCEPT !.val = Joined(fixed, @), !.blocks = List(ids), !.length = Len(List(ids)),
                !.nocheck = Flags(n \in {Open, MaxU32}, {"cum_tsn"}) \cup Flags(ids = Open, {"length"})
                              \cup Flags(List(ids) = <<>>, {"ids"})]
  BY <1>1 DEF NewChunk, sctp_forward_tsn_chunk_new, sctp_i_forward_tsn_chunk_new, WithIds
<1>3. DOMAIN c = ItemFields /\ c.type = k
  BY ChunkItemFields
<1>4. DOMAIN fixed = {"flgs", "cum_tsn"} /\ fixed.flgs = 0 /\ (n \notin {Open, MaxU32} => fixed.cum_tsn = n)
  OBVIOUS
<1> HIDE DEF c, fixed
<1>5. /\ item.type = k /\ item.val = Joined(fixed, c.val) /\ item.blocks = List(ids) /\ item.length = Len(List(ids))
      /\ item.nocheck = Flags(n \in {Open, MaxU32}, {"cum_tsn"}) \cup Flags(ids = Open, {"length"})
                          \cup Flags(List(ids) = <<>>, {"ids"})
  BY <1>2, <1>3 DEF ItemFields
<1> HIDE DEF item
<1>6. /\ "flgs" \notin item.nocheck
      /\ "cum_tsn" \in item.nocheck <=> n \in {Open, MaxU32}
      /\ "length" \in item.nocheck <=> ids = Open
      /\ "ids" \in item.nocheck <=> List(ids) = <<>>
  BY <1>5 DEF Flags
<1>7. /\ "flgs" \in DOMAIN item.val /\ item.val.flgs = 0
      /\ "cum_tsn" \in DOMAIN item.val /\ (n \notin {Open, MaxU32} => item.val.cum_tsn = n)
  BY <1>4, <1>5 DEF Joined
<1>8. CASE l.type # k
  BY <1>1, <1>5, <1>8, OtherType DEF item
<1>9. CASE l.type = k
  <2> DEFINE y == l.val.ids
             number == n \in {Open, MaxU32} \/ n = l.val.cum_tsn
  <2>1. DOMAIN l.val = {"flgs", "cum_tsn", "ids"} /\ y \in Seq(Nat)
    BY <1>9 DEF LiveOK, LiveFields, HasCauses
  <2>2. LiveChunkLength(l) = Len(y)
    BY <1>9, <2>1 DEF LiveChunkLength, HasCauses, HasParameters
  <2>3. \A junk : ByType(item, l, junk) = verify_forward_tsn_chunk(item, l, junk)
    BY <1>9 DEF ByType, verify_i_forward_tsn_chunk
  <2>4. \A junk : /\ Same(item, l, "flgs", junk) <=> 0 = l.val.flgs
                  /\ Same(item, l, "cum_tsn", junk) <=> number
    BY <1>6, <1>7 DEF Same, Read
  <2> HIDE DEF number
  <2>5. \A junk : ChunkStatus(item, l, junk) =
          IF /\ 0 = l.val.flgs /\ (ids = Open \/ Len(List(ids)) = Len(y)) /\ number
             /\ List(ids) = <<>> \/ MemSame(y, List(ids), junk) THEN "ok" ELSE "err"
    BY <1>5, <1>6, <1>9, <2>2, <2>3, <2>4 DEF ChunkStatus, verify_forward_tsn_chunk, Status
  <2>6. ASSUME NEW junk
        PROVE  /\ ids = Open \/ Len(List(ids)) = Len(y)
               /\ List(ids) = <<>> \/ MemSame(y, List(ids), junk)
               <=> Fits(ids, y)
    <3>1. CASE ids = Open
      BY <3>1 DEF List, Fits
    <3>2. CASE ids = <<>> /\ ids # Open
      <4>1. List(ids) = <<>> /\ Len(<<>>) = 0
        BY <3>2 DEF List
      <4>2. Len(y) = 0 <=> <<>> = y
        BY <2>1
      <4>3. QED BY <3>2, <4>1, <4>2 DEF Fits
    <3>3. CASE ids = <<1>> /\ ids # Open
      <4>1. List(ids) = <<1>> /\ <<1>> # <<>> /\ <<1>> \in Seq(Nat)
        BY <3>3 DEF List
      <4>2. Len(y) = Len(<<1>>) => (MemSame(y, <<1>>, junk) <=> y = <<1>>)
        BY <2>1, <4>1, MemSameEqual
      <4>3. QED BY <3>3, <4>1, <4>2 DEF Fits
    <3>4. QED BY <1>1, <3>1, <3>2, <3>3
  <2>7. \A junk : ChunkStatus(item, l, junk) = IF 0 = l.val.flgs /\ number /\ Fits(ids, y) THEN "ok" ELSE "err"
    BY <2>5, <2>6
  <2>8. DOMAIN Implied(w) = {"flgs", "cum_tsn", "ids"} /\ Implied(w).flgs = 0 /\ Implied(w).cum_tsn = n /\ Implied(w).ids = ids
    <3> DEFINE a == [flgs |-> 0]
    <3>1. Implied(w) = Joined(a, w.val)
      BY <1>1 DEF Implied
    <3>2. DOMAIN a = {"flgs"} /\ a.flgs = 0
      OBVIOUS
    <3> HIDE DEF a
    <3>3. QED BY <1>1, <3>1, <3>2 DEF Joined
  <2>9. Fits(0, l.val.flgs) <=> 0 = l.val.flgs
    BY OpenMarks DEF Fits
  <2>10. (DOMAIN Implied(w)) \cap DOMAIN l.val = {"flgs", "cum_tsn", "ids"}
    BY <2>1, <2>8
  <2>11. ChunkFits(w, l) <=> 0 = l.val.flgs /\ Fits(n, l.val.cum_tsn) /\ Fits(ids, y)
    BY <1>1, <1>9, <2>8, <2>9, <2>10, NotShort DEF ChunkFits, ItemLists
  <2>12. number => Fits(n, l.val.cum_tsn) \/ NumberTakenAsOpen(w)
    BY <1>1 DEF number, Fits, NumberTakenAsOpen
  <2>13. Fits(n, l.val.cum_tsn) => number
    BY DEF number, Fits
  <2>14. QED BY <2>7, <2>11, <2>12, <2>13, OneStatus DEF item
<1>10. QED BY <1>8, <1>9

(* A chunk given by its bytes. *)
GenericLengths(n, v) == \/ n = Open /\ v = Open
                        \/ n = 0 /\ v = <<>>
                        \/ n = 1 /\ v \in {Open, <<1>>, Short}

(* A chunk given by its bytes, as it is written. *)
LEMMA GenericsWritten ==
  ASSUME NEW w \in WrittenChunks("CHUNK")
  PROVE  /\ w.kind = "CHUNK" /\ DOMAIN w.val = {"type", "flgs", "len", "value"}
         /\ w.val.type \in {Open, "SHUTDOWN", "COOKIE_ACK", "UNKNOWN"}
         /\ GenericLengths(w.val.len, w.val.value)
<1>1. PICK t \in {Open, "SHUTDOWN", "COOKIE_ACK", "UNKNOWN"}, f \in {1, Open},
           v \in {<<Open, Open>>, <<0, <<>>>>, <<1, Open>>, <<1, <<1>>>>, <<1, Short>>} :
        w = [kind |-> "CHUNK", val |-> [type |-> t, flgs |-> f, len |-> v[1], value |-> v[2]]]
  BY DEF WrittenChunks, HasCauses
<1>2. GenericLengths(v[1], v[2])
  BY <1>1 DEF GenericLengths
<1>3. QED BY <1>1, <1>2

(* It is judged rightly, where its type is known and it has room for the fields of that type. *)
LEMMA GenericRight ==
  ASSUME NEW w \in WrittenChunks("CHUNK"), "partial" \notin NewChunk(w).nocheck, NEW l, LiveOK(l)
  PROVE  ChunkRight(w, l, ChunkStatus(NewChunk(w), l, 0), ChunkStatus(NewChunk(w), l, 1))
<1> DEFINE item == NewChunk(w)
           t == w.val.type
           n == w.val.len
           v == w.val.value
           k == IF t = Open THEN "DATA" ELSE t
           bytes == IF v = Open THEN [i \in 1..Value(n) |-> 0] ELSE IF v = Short THEN <<>> ELSE v
           flags == Flags(t = Open, {"type"}) \cup Flags(n = Open, {"length"})
                      \cup Flags(v = Open, {"value"}) \cup Flags(v = Short, {"partial"})
<1>1. /\ w.kind = "CHUNK" /\ DOMAIN w.val = {"type", "flgs", "len", "value"}
      /\ t \in {Open, "SHUTDOWN", "COOKIE_ACK", "UNKNOWN"} /\ GenericLengths(n, v)
  BY GenericsWritten
<1>2. item = Sized(ChunkItem(k, w, {"flgs"}), Value(n), bytes, flags)
  BY <1>1 DEF NewChunk, sctp_generic_chunk_new
<1>3. /\ flags \cap {"flgs"} = {} /\ ("length" \in flags <=> n = Open) /\ ("partial" \in flags <=> v = Short)
      /\ "cum_tsn" \notin flags
  BY DEF Flags
<1> HIDE DEF item, flags, bytes
<1>4. /\ item.type = k /\ FieldsStored(item, w, {"flgs"}) /\ item.length = Value(n)
      /\ "length" \in item.nocheck <=> n = Open
      /\ "partial" \in item.nocheck <=> v = Short
      /\ "cum_tsn" \notin item.nocheck /\ DOMAIN item.val = {"flgs", "value"} /\ item.val.value = bytes
  BY <1>2, <1>3, SizedFields
<1>5. v # Short
  BY <1>4 DEF item
<1>6. \A junk : l.type # "PARTIAL" /\ l.type = k =>
        ChunkStatus(item, l, junk) =
          IF Fits(w.val.flgs, l.val.flgs) /\ (n = Open \/ Value(n) = LiveChunkLength(l)) THEN ByType(item, l, junk) ELSE "err"
  BY <1>4, HeadFirst
<1>7. ChunkFits(w, l) <=> l.type # "PARTIAL" /\ Fits(t, l.type) /\ Fits(w.val.flgs, l.val.flgs)
                            /\ Fits(n, LiveChunkLength(l)) /\ Fits(v, BytesOf(l))
  BY <1>1, NotShort DEF ChunkFits, GenericFits
<1>8. Open # 0 /\ Open # 1 /\ Open # <<>> /\ Open # <<1>>
  BY OpenMarks, Small
<1>9. CASE l.type = "PARTIAL" \/ l.type # k
  <2>1. ChunkStatus(item, l, 0) = "err" /\ ChunkStatus(item, l, 1) = "err"
    BY <1>4, <1>9 DEF ChunkStatus
  <2>2. ChunkFits(w, l) => CheckedThoughOpen(w)
    BY <1>1, <1>7, <1>9 DEF Fits, CheckedThoughOpen
  <2>3. QED BY <2>1, <2>2, OneStatus DEF item
<1>10. CASE l.type = k /\ t = Open
  <2>1. l.type = "DATA" /\ l.val.len \in {0, 1} /\ DOMAIN l.val = {"flgs", "len", "tsn", "sid", "ssn", "ppid"}
    BY <1>10 DEF LiveOK, LiveFields, HasCauses
  <2>2. LiveChunkLength(l) = NumberBytes + l.val.len
    BY <2>1 DEF LiveChunkLength, HasCauses, HasParameters
  <2>3. UnknownType(w) /\ CheckedThoughOpen(w)
    BY <1>1, <1>10 DEF UnknownType, CheckedThoughOpen
  <2>4. CASE n = Open
    <3>1. v = Open
      BY <1>1, <1>8, <2>4 DEF GenericLengths
    <3>2. ASSUME NEW junk, ChunkStatus(item, l, junk) = "ok" PROVE ChunkFits(w, l)
      BY <1>6, <1>7, <1>10, <2>1, <2>4, <3>1, <3>2 DEF Fits
    <3>3. NoRoomForFields(w)
      BY <1>1, <2>4 DEF NoRoomForFields
    <3>4. QED BY <2>3, <3>2, <3>3 DEF ChunkRight, item
  <2>5. CASE n # Open
    <3>1. Value(n) \in {0, 1}
      BY <1>1, <2>5 DEF Value, GenericLengths
    <3>2. Value(n) # LiveChunkLength(l)
      BY <2>1, <2>2, <3>1 DEF NumberBytes
    <3>3. ChunkStatus(item, l, 0) = "err" /\ ChunkStatus(item, l, 1) = "err"
      BY <1>6, <1>10, <2>1, <2>5, <3>2
    <3>4. QED BY <2>3, <3>3, OneStatus DEF item
  <2>6. QED BY <2>4, <2>5
<1>11. CASE l.type = k /\ t = "UNKNOWN" /\ t # Open
  <2>1. \A junk : ByType(item, l, junk) = "dies"
    BY <1>11 DEF ByType
  <2>2. UnknownType(w) /\ CheckedThoughOpen(w)
    BY <1>1, <1>11 DEF UnknownType, CheckedThoughOpen
  <2>3. ChunkStatus(item, l, 0) = ChunkStatus(item, l, 1) /\ ChunkStatus(item, l, 0) # "ok"
    BY <1>6, <1>11, <2>1
  <2>4. QED BY <2>2, <2>3 DEF ChunkRight, item
<1>12. CASE l.type = k /\ t = "COOKIE_ACK" /\ t # Open
  <2>1. \A junk : ByType(item, l, junk) = "ok"
    BY <1>12 DEF ByType, verify_cookie_ack_chunk
  <2>2. DOMAIN l.val = {"flgs"}
    BY <1>12 DEF LiveOK, LiveFields, HasCauses
  <2>3. LiveChunkLength(l) = 0 /\ BytesOf(l) = <<>>
    BY <1>12, <2>2 DEF LiveChunkLength, HasCauses, HasParameters, BytesOf
  <2>4. n = Open \/ Value(n) = 0 <=> Fits(n, 0) /\ Fits(v, <<>>)
    BY <1>1, <1>5, <1>8 DEF GenericLengths, Fits, Value
  <2>5. \A junk : ChunkStatus(item, l, junk) = IF ChunkFits(w, l) THEN "ok" ELSE "err"
    BY <1>6, <1>7, <1>12, <2>1, <2>3, <2>4 DEF Fits
  <2>6. QED BY <2>5, OneStatus DEF item
<1>13. CASE l.type = k /\ t = "SHUTDOWN" /\ t # Open
  <2> DEFINE y == l.val.cum_tsn
  <2>1. \A junk : ByType(item, l, junk) = IF At(bytes, 1, junk) = y THEN "ok" ELSE "err"
    BY <1>4, <1>13 DEF ByType, verify_shutdown_chunk, Status, Same, Read
  <2>2. LiveChunkLength(l) = 1 /\ BytesOf(l) = <<y>>
    <3>1. DOMAIN l.val = {"flgs", "cum_tsn"}
      BY <1>13 DEF LiveOK, LiveFields, HasCauses
    <3>2. QED BY <1>13, <3>1 DEF LiveChunkLength, HasCauses, HasParameters, BytesOf
  <2>3. CASE n = Open
    <3>1. v = Open
      BY <1>1, <1>8, <2>3 DEF GenericLengths
    <3>2. ASSUME NEW junk, ChunkStatus(item, l, junk) = "ok" PROVE ChunkFits(w, l)
      BY <1>6, <1>7, <1>13, <2>3, <3>1, <3>2 DEF Fits
    <3>3. NoRoomForFields(w) /\ CheckedThoughOpen(w)
      BY <1>1, <2>3, <3>1 DEF NoRoomForFields, CheckedThoughOpen
    <3>4. ChunkStatus(item, l, 0) # "dies" /\ ChunkStatus(item, l, 1) # "dies"
      BY <1>6, <1>13, <2>1
    <3>5. QED BY <3>2, <3>3, <3>4 DEF ChunkRight, item
  <2>4. CASE n = 0 /\ n # Open
    <3>1. ChunkStatus(item, l, 0) = "err" /\ ChunkStatus(item, l, 1) = "err"
      BY <1>6, <1>13, <2>2, <2>4 DEF Value
    <3>2. ~ChunkFits(w, l)
      BY <1>7, <2>2, <2>4 DEF Fits
    <3>3. QED BY <3>1, <3>2, OneStatus DEF item
  <2>5. CASE n = 1 /\ n # Open
    <3>1. \A junk : At(bytes, 1, junk) = IF v = Open THEN 0 ELSE 1
      <4>1. CASE v = Open
        <5>1. bytes = [i \in 1..1 |-> 0]
          BY <2>5, <4>1 DEF bytes, Value
        <5>2. QED BY <4>1, <5>1 DEF At
      <4>2. CASE v # Open
        <5>1. bytes = <<1>>
          BY <1>1, <1>5, <1>8, <2>5, <4>2 DEF bytes, GenericLengths
        <5>2. QED BY <4>2, <5>1 DEF At
      <4>3. QED BY <4>1, <4>2
    <3>2. v = Open \/ v = <<1>>
      BY <1>1, <1>5, <2>5 DEF GenericLengths
    <3>3. <<1>> = <<y>> <=> 1 = y
      OBVIOUS
    <3>4. \A junk : ChunkStatus(item, l, junk) =
            IF Fits(w.val.flgs, l.val.flgs) /\ (IF v = Open THEN 0 ELSE 1) = y THEN "ok" ELSE "err"
      BY <1>6, <1>13, <2>1, <2>2, <2>5, <3>1 DEF Value
    <3>5. ChunkFits(w, l) <=> Fits(w.val.flgs, l.val.flgs) /\ (v = Open \/ <<1>> = <<y>>)
      BY <1>7, <1>8, <1>13, <2>2, <2>5, <3>2 DEF Fits
    <3>6. v = Open => CheckedThoughOpen(w)
      BY <1>1 DEF CheckedThoughOpen
    <3>7. QED BY <3>3, <3>4, <3>5, <3>6, OneStatus DEF item
  <2>6. QED BY <1>1, <2>3, <2>4, <2>5 DEF GenericLengths
<1>14. QED BY <1>1, <1>9, <1>10, <1>11, <1>12, <1>13

(* The items qs that the constructors have made of the list ps. *)
ListStored(ps, qs) ==
  /\ Len(ps) \in Nat /\ DOMAIN ps = 1..Len(ps) /\ ps # Open
  /\ Len(qs) = Len(ps) /\ DOMAIN qs = 1..Len(ps)
  /\ \A i \in 1..Len(ps) : ItemStored(ps[i], qs[i]) /\ "partial" \notin qs[i].nocheck

(* verify_sctp_parameters is right about every stored list, *)
LEMMA ParametersRight ==
  ASSUME NEW ps, NEW qs, ListStored(ps, qs), NEW ls, LiveListOK(ls)
  PROVE  ListRight(ps, ls, verify_sctp_parameters(qs, ls, 0), verify_sctp_parameters(qs, ls, 1))
<1> DEFINE n == Len(ps)
           m == Len(ls)
           s == [i \in 1..Min({n, m}) |-> ParameterStatus(qs[i], ls[i], 0)]
           t == [i \in 1..Min({n, m}) |-> ParameterStatus(qs[i], ls[i], 1)]
<1>1. n \in Nat /\ m \in Nat /\ DOMAIN ps = 1..n /\ ps # Open
  BY DEF ListStored, LiveListOK
<1>2. verify_sctp_parameters(qs, ls, 0) = Judge(s, n, m) /\ verify_sctp_parameters(qs, ls, 1) = Judge(t, n, m)
  BY DEF ListStored, verify_sctp_parameters, Judge
<1>3. ASSUME NEW i \in 1..n, i \in 1..m PROVE ItemRight(ps[i], ls[i], s[i], t[i])
  <2>1. i \in 1..Min({n, m})
    BY <1>1, <1>3, MinTwo
  <2>2. s[i] = ParameterStatus(qs[i], ls[i], 0) /\ t[i] = ParameterStatus(qs[i], ls[i], 1)
    BY <2>1
  <2>3. ItemStored(ps[i], qs[i]) /\ "partial" \notin qs[i].nocheck /\ LiveItemOK(ls[i])
    BY <1>3 DEF ListStored, LiveListOK
  <2>4. QED BY <2>2, <2>3, StoredRight
<1>4. s = [i \in 1..Min({n, m}) |-> s[i]] /\ t = [i \in 1..Min({n, m}) |-> t[i]]
  OBVIOUS
<1> HIDE DEF s, t
<1>5. ListRight(ps, ls, Judge(s, n, m), Judge(t, n, m))
  BY <1>1, <1>3, <1>4, ListsJudged
<1>6. QED BY <1>2, <1>5

(* and so is verify_sctp_causes. *)
LEMMA CausesRight ==
  ASSUME NEW ps, NEW qs, ListStored(ps, qs), \A i \in 1..Len(ps) : ValueItem(ps[i], qs[i]), NEW ls, LiveListOK(ls)
  PROVE  ListRight(ps, ls, verify_sctp_causes(qs, ls, 0), verify_sctp_causes(qs, ls, 1))
<1> DEFINE n == Len(ps)
           m == Len(ls)
           s == [i \in 1..Min({n, m}) |-> CauseStatus(qs[i], ls[i], 0)]
           t == [i \in 1..Min({n, m}) |-> CauseStatus(qs[i], ls[i], 1)]
<1>1. n \in Nat /\ m \in Nat /\ DOMAIN ps = 1..n /\ ps # Open
  BY DEF ListStored, LiveListOK
<1>2. verify_sctp_causes(qs, ls, 0) = Judge(s, n, m) /\ verify_sctp_causes(qs, ls, 1) = Judge(t, n, m)
  BY DEF ListStored, verify_sctp_causes, Judge
<1>3. ASSUME NEW i \in 1..n, i \in 1..m PROVE ItemRight(ps[i], ls[i], s[i], t[i])
  <2>1. i \in 1..Min({n, m})
    BY <1>1, <1>3, MinTwo
  <2>2. s[i] = CauseStatus(qs[i], ls[i], 0) /\ t[i] = CauseStatus(qs[i], ls[i], 1)
    BY <2>1
  <2>3. ValueItem(ps[i], qs[i]) /\ "partial" \notin qs[i].nocheck /\ LiveItemOK(ls[i])
    BY <1>3 DEF ListStored, LiveListOK
  <2>4. ItemRight(ps[i], ls[i], CauseStatus(qs[i], ls[i], 0), CauseStatus(qs[i], ls[i], 1))
    BY <2>3, ValueItemRight, NotWhole
  <2>5. QED BY <2>2, <2>4
<1>4. s = [i \in 1..Min({n, m}) |-> s[i]] /\ t = [i \in 1..Min({n, m}) |-> t[i]]
  OBVIOUS
<1> HIDE DEF s, t
<1>5. ListRight(ps, ls, Judge(s, n, m), Judge(t, n, m))
  BY <1>1, <1>3, <1>4, ListsJudged
<1>6. QED BY <1>2, <1>5

(* Lists that fit are of one length. *)
LEMMA ListsLength ==
  ASSUME NEW ps, NEW qs, ListStored(ps, qs), ~SomeFlag(qs, "length"), NEW ls, LiveListOK(ls), ListFits(ps, ls),
         \A i \in DOMAIN ps : ~ItemCheckedThoughOpen(ps[i])
  PROVE  ListLength(qs) = LiveListLength(ls)
<1> DEFINE n == Len(ps)
<1>1. /\ n \in Nat /\ DOMAIN ps = 1..n /\ DOMAIN qs = 1..n /\ DOMAIN ls = 1..n
      /\ \A i \in 1..n : ItemFits(ps[i], ls[i])
  BY DEF ListStored, LiveListOK, ListFits
<1>2. \A i \in 1..n : "length" \notin qs[i].nocheck
  BY <1>1 DEF SomeFlag
<1>3. \A i \in 1..n : qs[i].bytes = LiveLength(ls[i])
  BY <1>1, <1>2, StoredLength DEF ListStored
<1>4. [i \in DOMAIN qs |-> 1 + qs[i].bytes] = [i \in DOMAIN ls |-> 1 + LiveLength(ls[i])]
  BY <1>1, <1>3
<1>5. QED BY <1>4 DEF ListLength, LiveListLength

(* The two comparisons that come before the list. *)
FieldsFit(w, l, fields) == \A f \in fields : Fits(w.val[f], l.val[f])
LengthSame(item, l) == "length" \in item.nocheck \/ item.length = LiveChunkLength(l)

(* A chunk with a list: the fields and the length are compared first, and  *)
(* the list is not when flag says so.                                      *)
LEMMA ListChunkRight ==
  ASSUME NEW w, NEW l, NEW item, NEW F, NEW flag, NEW S, NEW T, NEW a, NEW b, NEW x, NEW ls,
         S = IF FieldsFit(w, l, F) /\ LengthSame(item, l) THEN IF flag \in item.nocheck THEN "ok" ELSE a ELSE "err",
         T = IF FieldsFit(w, l, F) /\ LengthSame(item, l) THEN IF flag \in item.nocheck THEN "ok" ELSE b ELSE "err",
         ListRight(List(x), ls, a, b), ListOf(w) = List(x), SomeNotWhole(ls) => TooShort(l),
         ChunkFits(w, l) <=> FieldsFit(w, l, F) /\ ListFits(x, ls),
         flag \in item.nocheck => x = Open,
         x = Open => CheckedThoughOpen(w) \/ (flag \in item.nocheck /\ LengthSame(item, l)),
         x # Open /\ ListFits(x, ls) /\ (\A i \in DOMAIN x : ~ItemCheckedThoughOpen(x[i])) => LengthSame(item, l)
  PROVE  ChunkRight(w, l, S, T)
<1> DEFINE ps == List(x)
<1>1. ps = ListOf(w) /\ (x # Open => ps = x)
  BY DEF List
<1>2. x = Open => ListFits(x, ls)
  BY DEF ListFits
<1>3. S = "dies" \/ T = "dies" => TooShort(l) \/ \E j \in DOMAIN ps : OpenPad(ps[j]) \/ OpenType(ps[j])
  BY DEF ListRight
<1>4. S # T => TooShort(l) \/ \E j \in DOMAIN ps : OpenType(ps[j])
  BY DEF ListRight
<1>5. S = "ok" \/ T = "ok" => ChunkFits(w, l) \/ \E j \in DOMAIN ps : OpenWithin(ps[j])
  BY <1>1, <1>2 DEF ListRight
<1>6. ChunkFits(w, l) => (S = "ok" /\ T = "ok") \/ CheckedThoughOpen(w) \/ \E j \in DOMAIN ps : ItemCheckedThoughOpen(ps[j])
  BY <1>1, <1>2 DEF ListRight
<1> HIDE DEF ps
<1>7. QED BY <1>1, <1>3, <1>4, <1>5, <1>6 DEF ChunkRight

(* sctp_parameter_list_append stores every list of parameters, *)
LEMMA ParametersStored ==
  ASSUME NEW x, NEW all, WrittenList(x, all), \A p \in all : ItemStored(p, Parameter(p)),
         NEW qs, qs = sctp_parameter_list_append(x), \A i \in DOMAIN qs : "partial" \notin qs[i].nocheck
  PROVE  ListStored(List(x), qs)
<1> DEFINE ps == List(x)
           n == Len(ps)
<1>1. n \in Nat /\ DOMAIN ps = 1..n /\ \A i \in 1..n : ps[i] \in all
  BY DEF WrittenList
<1>2. ps # Open
  BY OpenMarks, Small DEF List
<1>3. \A i \in 1..n : x[i] = ps[i]
  <2>1. CASE x = Open
    <3>1. n = 0
      BY <2>1 DEF List
    <3>2. QED BY <3>1
  <2>2. QED BY <2>1 DEF List
<1> HIDE DEF n, ps
<1>4. qs = [i \in 1..n |-> Parameter(ps[i])]
  BY <1>1, <1>3 DEF sctp_parameter_list_append, ps
<1>5. DOMAIN qs = 1..n /\ Len(qs) = n /\ \A i \in 1..n : qs[i] = Parameter(ps[i])
  BY <1>1, <1>4
<1>6. QED BY <1>1, <1>2, <1>5 DEF ListStored, n, ps

(* and sctp_cause_list_append every list of causes. *)
LEMMA CausesStored ==
  ASSUME NEW x, NEW all, WrittenList(x, all), \A p \in all : ValueItem(p, Cause(p)),
         NEW qs, qs = sctp_cause_list_append(x), \A i \in DOMAIN qs : "partial" \notin qs[i].nocheck
  PROVE  ListStored(List(x), qs) /\ \A i \in 1..Len(List(x)) : ValueItem(List(x)[i], qs[i])
<1> DEFINE ps == List(x)
           n == Len(ps)
<1>1. n \in Nat /\ DOMAIN ps = 1..n /\ \A i \in 1..n : ps[i] \in all
  BY DEF WrittenList
<1>2. ps # Open
  BY OpenMarks, Small DEF List
<1>3. \A i \in 1..n : x[i] = ps[i]
  <2>1. CASE x = Open
    <3>1. n = 0
      BY <2>1 DEF List
    <3>2. QED BY <3>1
  <2>2. QED BY <2>1 DEF List
<1> HIDE DEF n, ps
<1>4. qs = [i \in 1..n |-> Cause(ps[i])]
  BY <1>1, <1>3 DEF sctp_cause_list_append, ps
<1>5. DOMAIN qs = 1..n /\ Len(qs) = n /\ \A i \in 1..n : qs[i] = Cause(ps[i])
  BY <1>1, <1>4
<1>6. \A i \in 1..n : ValueItem(ps[i], qs[i])
  BY <1>1, <1>5
<1>7. QED BY <1>1, <1>2, <1>5, <1>6 DEF ListStored, ItemStored, n, ps

(* INIT and INIT_ACK have open fields or a list of parameters. *)
LEMMA InitsOrNot ==
  ASSUME NEW k, NEW w \in WrittenChunks(k), k \in {"INIT", "INIT_ACK"}
  PROVE  w \in Chunks(k, InitFields, Just([params |-> <<>>]))
                \cup {[kind |-> k, val |-> Joined([f \in InitFields |-> 1], [params |-> ps])] :
                        ps \in Lists(InitParameters, SomeParameters)}
BY DEF WrittenChunks, HasCauses

(* INIT and INIT_ACK, *)
LEMMA InitsWritten ==
  ASSUME NEW k \in {"INIT", "INIT_ACK"}, NEW w \in WrittenChunks(k)
  PROVE  /\ w.kind = k /\ DOMAIN w.val = InitFields \cup {"params"}
         /\ w.val.params \in Lists(InitParameters, SomeParameters)
<1> DEFINE A == Chunks(k, InitFields, Just([params |-> <<>>]))
           B == {[kind |-> k, val |-> Joined([f \in InitFields |-> 1], [params |-> ps])] :
                   ps \in Lists(InitParameters, SomeParameters)}
<1>1. w \in A \/ w \in B
  BY InitsOrNot
<1>2. CASE w \in A
  <2>1. w.kind = k /\ DOMAIN w.val = InitFields \cup {"params"} /\ w.val.params = <<>>
    BY <1>2, ChunksFields DEF Just, InitFields
  <2>2. <<>> \in Lists(InitParameters, SomeParameters)
    BY DEF Lists
  <2>3. QED BY <2>1, <2>2
<1>3. CASE w \in B
  <2>1. PICK x \in Lists(InitParameters, SomeParameters) :
          w = [kind |-> k, val |-> Joined([f \in InitFields |-> 1], [params |-> x])]
    BY <1>3
  <2>2. w.kind = k /\ w.val = Joined([f \in InitFields |-> 1], [params |-> x])
    BY <2>1
  <2>3. DOMAIN w.val = InitFields \cup {"params"} /\ w.val.params = x
    BY <2>2 DEF Joined, InitFields
  <2>4. QED BY <2>2, <2>3
<1>4. QED BY <1>1, <1>2, <1>3

(* RECONFIG, *)
LEMMA ReconfigsWritten ==
  ASSUME NEW w \in WrittenChunks("RECONFIG")
  PROVE  /\ w.kind = "RECONFIG" /\ DOMAIN w.val = {"flgs", "params"}
         /\ w.val.params \in Lists(ReconfigParameters, {})
<1> DEFINE R == [params : Lists(ReconfigParameters, {})]
<1>1. w \in Chunks("RECONFIG", {"flgs"}, R)
  BY DEF WrittenChunks, HasCauses
<1>2. \A r \in R : DOMAIN r = {"params"} /\ r.params \in Lists(ReconfigParameters, {})
  OBVIOUS
<1> HIDE DEF R
<1>3. w.kind = "RECONFIG"
  BY <1>1, ChunksValues
<1>4. \E r \in R : DOMAIN w.val = {"flgs"} \cup DOMAIN r /\ \A f \in (DOMAIN r) \ {"flgs"} : w.val[f] = r[f]
  BY <1>1, ChunksValues
<1>5. QED BY <1>2, <1>3, <1>4

(* ABORT and ERROR as they are written. *)
LEMMA AbortsWritten ==
  ASSUME NEW k \in HasCauses, NEW w \in WrittenChunks(k)
  PROVE  /\ w.kind = k /\ DOMAIN w.val = {"flgs", "causes"}
         /\ w.val.causes \in Lists(Causes, SomeCauses)
<1> DEFINE R == [causes : Lists(Causes, SomeCauses)]
<1>1. w \in Chunks(k, {"flgs"}, R)
  BY DEF WrittenChunks, HasCauses
<1>2. \A r \in R : DOMAIN r = {"causes"} /\ r.causes \in Lists(Causes, SomeCauses)
  OBVIOUS
<1> HIDE DEF R
<1>3. w.kind = k
  BY <1>1, ChunksValues
<1>4. \E r \in R : DOMAIN w.val = {"flgs"} \cup DOMAIN r /\ \A f \in (DOMAIN r) \ {"flgs"} : w.val[f] = r[f]
  BY <1>1, ChunksValues
<1>5. QED BY <1>2, <1>3, <1>4

(* What WithParameters adds to an item. *)
LEMMA StoredWithParameters ==
  ASSUME NEW type, NEW w, NEW F, "value" \notin F, "params" \notin F, "length" \notin F, "opt_param" \notin F,
         NEW open \in {{}, {"length", "opt_param"}}
  PROVE  LET item == WithParameters(ChunkItem(type, w, F), w, open)
             qs == sctp_parameter_list_append(w.val.params) IN
         /\ item.type = type /\ FieldsStored(item, w, F) /\ item.items = qs /\ item.length = ListLength(qs)
         /\ "length" \in item.nocheck <=> (w.val.params = Open /\ open # {}) \/ SomeFlag(qs, "length")
         /\ "opt_param" \in item.nocheck <=> w.val.params = Open /\ open # {}
<1> DEFINE c == ChunkItem(type, w, F)
           qs == sctp_parameter_list_append(w.val.params)
           item == WithParameters(c, w, open)
<1>1. DOMAIN c = ItemFields /\ c.type = type /\ FieldsStored(c, w, F) /\ c.nocheck \subseteq F
  BY StoredByChunkItem
<1> HIDE DEF c
<1>2. /\ item.type = c.type /\ item.val = c.val /\ item.items = qs /\ item.length = ListLength(qs)
      /\ item.nocheck = c.nocheck \cup Flags(w.val.params = Open, open) \cup Flags(SomeFlag(qs, "length"), {"length"})
  BY <1>1 DEF WithParameters, ItemFields
<1> HIDE DEF item, qs
<1>3. /\ "length" \in item.nocheck <=> (w.val.params = Open /\ open # {}) \/ SomeFlag(qs, "length")
      /\ "opt_param" \in item.nocheck <=> w.val.params = Open /\ open # {}
  BY <1>1, <1>2 DEF Flags
<1>4. FieldsStored(item, w, F)
  <2>1. \A f \in F : f \in item.nocheck <=> f \in c.nocheck
    BY <1>2 DEF Flags
  <2>2. QED BY <1>1, <1>2, <2>1 DEF FieldsStored
<1>5. QED BY <1>1, <1>2, <1>3, <1>4 DEF item, qs, c

(* INIT and INIT_ACK are judged rightly, *)
LEMMA InitRight ==
  ASSUME NEW k \in {"INIT", "INIT_ACK"}, NEW w \in WrittenChunks(k), ~HasPartial(NewChunk(w)), NEW l, LiveOK(l)
  PROVE  ChunkRight(w, l, ChunkStatus(NewChunk(w), l, 0), ChunkStatus(NewChunk(w), l, 1))
<1> DEFINE item == NewChunk(w)
           x == w.val.params
           ps == List(x)
           qs == sctp_parameter_list_append(x)
           all == InitParameters \cup SomeParameters
           V(junk) == verify_sctp_parameters(qs, l.val.params, junk)
<1>1. w.kind = k /\ DOMAIN w.val = InitFields \cup {"params"} /\ x \in Lists(InitParameters, SomeParameters)
  BY InitsWritten
<1>2. item = WithParameters(ChunkItem(k, w, InitFields), w, {"length", "opt_param"})
  BY <1>1 DEF NewChunk, sctp_init_chunk_new, sctp_init_ack_chunk_new
<1> HIDE DEF item
<1>3. /\ item.type = k /\ FieldsStored(item, w, InitFields) /\ item.items = qs /\ item.length = ListLength(qs)
      /\ "length" \in item.nocheck <=> x = Open \/ SomeFlag(qs, "length")
      /\ "opt_param" \in item.nocheck <=> x = Open
  <2>1. /\ "value" \notin InitFields /\ "params" \notin InitFields /\ "length" \notin InitFields /\ "opt_param" \notin InitFields
        /\ {"length", "opt_param"} # {}
    BY DEF InitFields
  <2>2. QED BY <1>2, <2>1, StoredWithParameters
<1>4. \A i \in DOMAIN qs : "partial" \notin qs[i].nocheck
  BY <1>3 DEF HasPartial, item
<1> HIDE DEF qs
<1>5. WrittenList(x, all)
  BY <1>1, ListsAreWritten
<1>6. ListStored(ps, qs)
  BY <1>4, <1>5, StoredItems, ParametersStored DEF qs
<1>7. ListOf(w) = ps
  BY <1>1 DEF ListOf
<1> HIDE DEF ps, all, x
<1>8. CASE l.type # k
  BY <1>1, <1>3, <1>8, OtherType DEF item
<1>9. CASE l.type = k
  <2> DEFINE ls == l.val.params
  <2>1. DOMAIN l.val = InitFields \cup {"params"} /\ LiveListOK(ls)
    BY <1>9 DEF LiveOK, LiveFields, HasCauses
  <2>2. LiveChunkLength(l) = LiveListLength(ls)
    BY <1>9, <2>1 DEF LiveChunkLength, HasCauses, HasParameters, InitFields
  <2>3. \A junk, f : f \in InitFields => (Same(item, l, f, junk) <=> Fits(w.val[f], l.val[f]))
    BY <1>3, FieldSame
  <2>4. \A junk : ByType(item, l, junk) =
          IF \E f \in InitFields \ {"flgs"} : ~Same(item, l, f, junk) THEN "err"
          ELSE IF "opt_param" \in item.nocheck THEN "ok" ELSE V(junk)
    BY <1>3, <1>9, NotShort DEF ByType, verify_init_chunk, verify_init_ack_chunk
  <2>5. FieldsStored(item, w, {"flgs"})
    BY <1>3 DEF FieldsStored, InitFields
  <2> HIDE DEF V
  <2>6. \A junk : ChunkStatus(item, l, junk) =
          IF Fits(w.val.flgs, l.val.flgs) /\ LengthSame(item, l) THEN ByType(item, l, junk) ELSE "err"
    BY <1>3, <1>9, <2>5, HeadFirst DEF LengthSame
  <2>7. \A junk : ChunkStatus(item, l, junk) =
          IF FieldsFit(w, l, InitFields) /\ LengthSame(item, l)
          THEN IF "opt_param" \in item.nocheck THEN "ok" ELSE V(junk) ELSE "err"
    <3>1. FieldsFit(w, l, InitFields) <=>
            Fits(w.val.flgs, l.val.flgs) /\ \A f \in InitFields \ {"flgs"} : Fits(w.val[f], l.val[f])
      BY DEF FieldsFit, InitFields
    <3>2. QED BY <2>3, <2>4, <2>6, <3>1
  <2>8. ChunkFits(w, l) <=> FieldsFit(w, l, InitFields) /\ ListFits(x, ls)
    <3>1. Implied(w) = w.val
      BY <1>1 DEF Implied
    <3>2. (DOMAIN w.val) \cap DOMAIN l.val = InitFields \cup {"params"}
      BY <1>1, <2>1
    <3>3. "params" \in ItemLists /\ \A f \in InitFields : f \notin ItemLists
      BY DEF ItemLists, InitFields
    <3>4. "info" \notin DOMAIN w.val
      BY <1>1 DEF InitFields
    <3>5. QED BY <1>1, <1>9, <3>1, <3>2, <3>3, <3>4, NotShort DEF ChunkFits, FieldsFit, x
  <2>9. ListRight(ps, ls, V(0), V(1))
    BY <1>6, <2>1, ParametersRight DEF V
  <2>10. ASSUME x # Open, ListFits(x, ls), \A i \in DOMAIN x : ~ItemCheckedThoughOpen(x[i])
         PROVE  LengthSame(item, l)
    <3>1. ps = x
      BY <2>10 DEF ps, List
    <3>2. CASE SomeFlag(qs, "length")
      BY <1>3, <3>2 DEF LengthSame
    <3>3. CASE ~SomeFlag(qs, "length")
      <4>1. ListLength(qs) = LiveListLength(ls)
        BY <1>6, <2>1, <2>10, <3>1, <3>3, ListsLength
      <4>2. QED BY <1>3, <2>2, <4>1 DEF LengthSame
    <3>4. QED BY <3>2, <3>3
  <2>11. x = Open => "opt_param" \in item.nocheck /\ LengthSame(item, l)
    BY <1>3 DEF LengthSame
  <2>12. SomeNotWhole(ls) => TooShort(l)
    BY <2>1 DEF SomeNotWhole, TooShort, LiveListOf, LiveListOK
  <2> HIDE DEF ls
  <2>13. ChunkRight(w, l, ChunkStatus(item, l, 0), ChunkStatus(item, l, 1))
    BY <1>3, <1>7, <2>7, <2>8, <2>9, <2>10, <2>11, <2>12, ListChunkRight DEF ps
  <2>14. QED BY <2>13 DEF item
<1>10. QED BY <1>8, <1>9

(* RECONFIG is, *)
LEMMA ReconfigRight ==
  ASSUME NEW w \in WrittenChunks("RECONFIG"), ~HasPartial(NewChunk(w)), NEW l, LiveOK(l)
  PROVE  ChunkRight(w, l, ChunkStatus(NewChunk(w), l, 0), ChunkStatus(NewChunk(w), l, 1))
<1> DEFINE item == NewChunk(w)
           x == w.val.params
           ps == List(x)
           qs == sctp_parameter_list_append(x)
           all == ReconfigParameters \cup {}
           V(junk) == verify_sctp_parameters(qs, l.val.params, junk)
<1>1. w.kind = "RECONFIG" /\ DOMAIN w.val = {"flgs", "params"} /\ x \in Lists(ReconfigParameters, {})
  BY ReconfigsWritten
<1>2. item = WithParameters(ChunkItem("RECONFIG", w, {"flgs"}), w, {})
  BY <1>1 DEF NewChunk, sctp_reconfig_chunk_new
<1> HIDE DEF item
<1>3. /\ item.type = "RECONFIG" /\ FieldsStored(item, w, {"flgs"}) /\ item.items = qs /\ item.length = ListLength(qs)
      /\ "length" \in item.nocheck <=> SomeFlag(qs, "length")
      /\ "opt_param" \notin item.nocheck
  BY <1>2, StoredWithParameters
<1>4. \A i \in DOMAIN qs : "partial" \notin qs[i].nocheck
  BY <1>3 DEF HasPartial, item
<1> HIDE DEF qs
<1>5. WrittenList(x, all)
  BY <1>1, ListsAreWritten
<1>6. ListStored(ps, qs)
  BY <1>4, <1>5, StoredItems, ParametersStored DEF qs
<1>7. ListOf(w) = ps
  BY <1>1 DEF ListOf
<1> HIDE DEF ps, all, x
<1>8. CASE l.type # "RECONFIG"
  BY <1>1, <1>3, <1>8, OtherType DEF item
<1>9. CASE l.type = "RECONFIG"
  <2> DEFINE ls == l.val.params
  <2>1. DOMAIN l.val = {"flgs", "params"} /\ LiveListOK(ls)
    BY <1>9 DEF LiveOK, LiveFields, HasCauses
  <2>2. LiveChunkLength(l) = LiveListLength(ls)
    BY <1>9, <2>1 DEF LiveChunkLength, HasCauses, HasParameters
  <2>3. \A junk : ByType(item, l, junk) = V(junk)
    BY <1>3, <1>9 DEF ByType, verify_reconfig_chunk
  <2> HIDE DEF V
  <2>4. FieldsFit(w, l, {"flgs"}) <=> Fits(w.val.flgs, l.val.flgs)
    BY DEF FieldsFit
  <2>5. \A junk : ChunkStatus(item, l, junk) =
          IF FieldsFit(w, l, {"flgs"}) /\ LengthSame(item, l)
          THEN IF "opt_param" \in item.nocheck THEN "ok" ELSE V(junk) ELSE "err"
    BY <1>3, <1>9, <2>3, <2>4, HeadFirst DEF LengthSame
  <2>6. ChunkFits(w, l) <=> FieldsFit(w, l, {"flgs"}) /\ ListFits(x, ls)
    <3>1. Implied(w) = w.val
      BY <1>1 DEF Implied
    <3>2. (DOMAIN w.val) \cap DOMAIN l.val = {"flgs", "params"}
      BY <1>1, <2>1
    <3>3. QED BY <1>1, <1>9, <2>4, <3>1, <3>2, NotShort DEF ChunkFits, ItemLists, x
  <2>7. ListRight(ps, ls, V(0), V(1))
    BY <1>6, <2>1, ParametersRight DEF V
  <2>8. ASSUME x # Open, ListFits(x, ls), \A i \in DOMAIN x : ~ItemCheckedThoughOpen(x[i])
         PROVE  LengthSame(item, l)
    <3>1. ps = x
      BY <2>8 DEF ps, List
    <3>2. CASE SomeFlag(qs, "length")
      BY <1>3, <3>2 DEF LengthSame
    <3>3. CASE ~SomeFlag(qs, "length")
      <4>1. ListLength(qs) = LiveListLength(ls)
        BY <1>6, <2>1, <2>8, <3>1, <3>3, ListsLength
      <4>2. QED BY <1>3, <2>2, <4>1 DEF LengthSame
    <3>4. QED BY <3>2, <3>3
  <2>9. x = Open => CheckedThoughOpen(w)
    BY <1>1 DEF CheckedThoughOpen, x
  <2>10. SomeNotWhole(ls) => TooShort(l)
    BY <2>1 DEF SomeNotWhole, TooShort, LiveListOf, LiveListOK
  <2> HIDE DEF ls
  <2>11. ChunkRight(w, l, ChunkStatus(item, l, 0), ChunkStatus(item, l, 1))
    BY <1>3, <1>7, <2>5, <2>6, <2>7, <2>8, <2>9, <2>10, ListChunkRight DEF ps
  <2>12. QED BY <2>11 DEF item
<1>10. QED BY <1>8, <1>9

(* and ABORT and ERROR are. *)
LEMMA AbortRight ==
  ASSUME NEW k \in HasCauses, NEW w \in WrittenChunks(k), ~HasPartial(NewChunk(w)), NEW l, LiveOK(l)
  PROVE  ChunkRight(w, l, ChunkStatus(NewChunk(w), l, 0), ChunkStatus(NewChunk(w), l, 1))
<1> DEFINE item == NewChunk(w)
           x == w.val.causes
           ps == List(x)
           qs == sctp_cause_list_append(x)
           all == Causes \cup SomeCauses
           c == ChunkItem(k, w, {"flgs"})
           V(junk) == verify_sctp_causes(qs, l.val.causes, junk)
<1>1. w.kind = k /\ DOMAIN w.val = {"flgs", "causes"} /\ x \in Lists(Causes, SomeCauses)
  BY AbortsWritten
<1>2. item = WithCauses(c, w)
  BY <1>1 DEF NewChunk, sctp_abort_chunk_new, sctp_error_chunk_new, HasCauses
<1> HIDE DEF item
<1>3. /\ item.type = k /\ FieldsStored(item, w, {"flgs"}) /\ item.items = qs /\ item.length = ListLength(qs)
      /\ "length" \in item.nocheck <=> x = Open \/ SomeFlag(qs, "length")
      /\ "opt_causes" \in item.nocheck <=> x = Open
  <2>1. DOMAIN c = ItemFields /\ c.type = k /\ FieldsStored(c, w, {"flgs"}) /\ c.nocheck \subseteq {"flgs"}
    BY StoredByChunkItem
  <2> HIDE DEF c, qs
  <2>2. /\ item.type = c.type /\ item.val = c.val /\ item.items = qs /\ item.length = ListLength(qs)
        /\ item.nocheck = c.nocheck \cup Flags(x = Open, {"length", "opt_causes"})
                            \cup Flags(SomeFlag(qs, "type") \/ SomeFlag(qs, "value"), {"value"})
                            \cup Flags(SomeFlag(qs, "length"), {"length"})
    BY <1>2, <2>1 DEF WithCauses, ItemFields, qs
  <2>3. /\ "length" \in item.nocheck <=> x = Open \/ SomeFlag(qs, "length")
        /\ "opt_causes" \in item.nocheck <=> x = Open
        /\ "flgs" \in item.nocheck <=> "flgs" \in c.nocheck
    BY <2>1, <2>2 DEF Flags
  <2>4. QED BY <2>1, <2>2, <2>3 DEF FieldsStored
<1>4. \A i \in DOMAIN qs : "partial" \notin qs[i].nocheck
  BY <1>3 DEF HasPartial, item
<1> HIDE DEF qs
<1>5. WrittenList(x, all)
  BY <1>1, ListsAreWritten
<1>6. ListStored(ps, qs) /\ \A i \in 1..Len(ps) : ValueItem(ps[i], qs[i])
  BY <1>4, <1>5, StoredItems, CausesStored DEF qs
<1>7. ListOf(w) = ps
  BY <1>1 DEF ListOf
<1> HIDE DEF ps, all, x
<1>8. CASE l.type # k
  BY <1>1, <1>3, <1>8, OtherType DEF item, HasCauses
<1>9. CASE l.type = k
  <2> DEFINE ls == l.val.causes
  <2>1. DOMAIN l.val = {"flgs", "causes"} /\ LiveListOK(ls)
    BY <1>9 DEF LiveOK, LiveFields, HasCauses
  <2>2. LiveChunkLength(l) = LiveListLength(ls)
    BY <1>9, <2>1 DEF LiveChunkLength, HasCauses, HasParameters
  <2>3. \A junk : ByType(item, l, junk) = IF "opt_causes" \in item.nocheck THEN "ok" ELSE V(junk)
    BY <1>3, <1>9 DEF ByType, verify_abort_chunk, verify_error_chunk, HasCauses
  <2> HIDE DEF V
  <2>4. FieldsFit(w, l, {"flgs"}) <=> Fits(w.val.flgs, l.val.flgs)
    BY DEF FieldsFit
  <2>5. \A junk : ChunkStatus(item, l, junk) =
          IF FieldsFit(w, l, {"flgs"}) /\ LengthSame(item, l)
          THEN IF "opt_causes" \in item.nocheck THEN "ok" ELSE V(junk) ELSE "err"
    BY <1>3, <1>9, <2>3, <2>4, HeadFirst DEF LengthSame, HasCauses
  <2>6. ChunkFits(w, l) <=> FieldsFit(w, l, {"flgs"}) /\ ListFits(x, ls)
    <3>1. Implied(w) = w.val
      BY <1>1 DEF Implied, HasCauses
    <3>2. (DOMAIN w.val) \cap DOMAIN l.val = {"flgs", "causes"}
      BY <1>1, <2>1
    <3>3. QED BY <1>1, <1>9, <2>4, <3>1, <3>2, NotShort DEF ChunkFits, ItemLists, x, HasCauses
  <2>7. ListRight(ps, ls, V(0), V(1))
    BY <1>6, <2>1, CausesRight DEF V
  <2>8. ASSUME x # Open, ListFits(x, ls), \A i \in DOMAIN x : ~ItemCheckedThoughOpen(x[i])
         PROVE  LengthSame(item, l)
    <3>1. ps = x
      BY <2>8 DEF ps, List
    <3>2. CASE SomeFlag(qs, "length")
      BY <1>3, <3>2 DEF LengthSame
    <3>3. CASE ~SomeFlag(qs, "length")
      <4>1. ListLength(qs) = LiveListLength(ls)
        BY <1>6, <2>1, <2>8, <3>1, <3>3, ListsLength
      <4>2. QED BY <1>3, <2>2, <4>1 DEF LengthSame
    <3>4. QED BY <3>2, <3>3
  <2>9. x = Open => "opt_causes" \in item.nocheck /\ LengthSame(item, l)
    BY <1>3 DEF LengthSame
  <2>10. SomeNotWhole(ls) => TooShort(l)
    BY <2>1 DEF SomeNotWhole, TooShort, LiveListOf, LiveListOK
  <2> HIDE DEF ls
  <2>11. ChunkRight(w, l, ChunkStatus(item, l, 0), ChunkStatus(item, l, 1))
    BY <1>3, <1>7, <2>5, <2>6, <2>7, <2>8, <2>9, <2>10, ListChunkRight DEF ps
  <2>12. QED BY <2>11 DEF item
<1>10. QED BY <1>8, <1>9

(* Every chunk that a script can write is judged rightly, whatever is sniffed. *)
LEMMA EveryChunkRight ==
  ASSUME NEW k \in Kinds, NEW w \in WrittenChunks(k), ~HasPartial(NewChunk(w)), NEW l, LiveOK(l)
  PROVE  ChunkRight(w, l, ChunkStatus(NewChunk(w), l, 0), ChunkStatus(NewChunk(w), l, 1))
<1>1. CASE k = "CHUNK"
  <2>1. "partial" \notin NewChunk(w).nocheck
    BY DEF HasPartial
  <2>2. QED BY <1>1, <2>1, GenericRight
<1>2. CASE k \in FlagsOnly
  BY <1>2, FlagsRight
<1>3. CASE k \in {"SHUTDOWN", "ECNE", "CWR"}
  BY <1>3, NumberRight
<1>4. CASE k = "DATA"
  BY <1>4, DataRight
<1>5. CASE k = "PAD"
  BY <1>5, PadRight
<1>6. CASE k = "I_DATA"
  BY <1>6, IDataRight
<1>7. CASE k = "SACK"
  BY <1>7, SackRight
<1>8. CASE k = "NR_SACK"
  BY <1>8, NrSackRight
<1>9. CASE k = "COOKIE_ECHO"
  BY <1>9, CookieRight
<1>10. CASE k \in {"HEARTBEAT", "HEARTBEAT_ACK"}
  BY <1>10, HeartbeatRight
<1>11. CASE k \in {"FORWARD_TSN", "I_FORWARD_TSN"}
  BY <1>11, ForwardRight
<1>12. CASE k \in {"INIT", "INIT_ACK"}
  BY <1>12, InitRight
<1>13. CASE k = "RECONFIG"
  BY <1>13, ReconfigRight
<1>14. CASE k \in HasCauses
  BY <1>14, AbortRight
<1>15. \/ k = "CHUNK" \/ k \in FlagsOnly \/ k \in {"SHUTDOWN", "ECNE", "CWR"} \/ k = "DATA" \/ k = "PAD" \/ k = "I_DATA"
       \/ k = "SACK" \/ k = "NR_SACK" \/ k = "COOKIE_ECHO" \/ k \in {"HEARTBEAT", "HEARTBEAT_ACK"}
       \/ k \in {"FORWARD_TSN", "I_FORWARD_TSN"} \/ k \in {"INIT", "INIT_ACK"} \/ k = "RECONFIG" \/ k \in HasCauses
  BY BoundsAssumption DEF FlagsOnly, HasCauses
<1>16. QED BY <1>1, <1>2, <1>3, <1>4, <1>5, <1>6, <1>7, <1>8, <1>9, <1>10, <1>11, <1>12, <1>13, <1>14, <1>15

(* A live chunk without lists. *)
LEMMA PlainLive ==
  ASSUME NEW type \in LiveTypes, NEW fields, NEW rest, NEW l \in Live(type, fields, rest),
         \A r \in rest : fields \cup DOMAIN r = LiveFields(type),
         LiveFields(type) \cap {"gaps", "nr_gaps", "dups", "ids", "value", "params", "causes"} = {},
         "len" \in LiveFields(type) => "len" \in fields
  PROVE  LiveOK(l)
<1>1. l.type = type /\ \A f \in fields : l.val[f] \in {0, 1}
  BY LiveValues
<1>2. \E r \in rest : DOMAIN l.val = fields \cup DOMAIN r
  BY LiveValues
<1>3. DOMAIN l.val = LiveFields(type)
  BY <1>2
<1>4. "len" \in DOMAIN l.val => l.val.len \in {0, 1}
  BY <1>1, <1>3
<1>5. QED BY <1>1, <1>3, <1>4 DEF LiveOK

(* A live chunk with lists of numbers, parameters or causes. *)
ListsLive(r) ==
  /\ \A f \in {"gaps", "nr_gaps", "dups", "ids", "value"} \cap DOMAIN r : r[f] \in Seq(Nat)
  /\ \A f \in {"params", "causes"} \cap DOMAIN r : LiveListOK(r[f])
  /\ "value" \in DOMAIN r /\ Len(r.value) = 2 => r.value[1] = 1

(* It can be compared. *)
LEMMA LiveWithLists ==
  ASSUME NEW type \in LiveTypes, NEW fields, NEW rest, NEW l \in Live(type, fields, rest),
         \A r \in rest : fields \cup DOMAIN r = LiveFields(type) /\ ListsLive(r),
         fields \cap {"gaps", "nr_gaps", "dups", "ids", "value", "params", "causes"} = {},
         "len" \notin LiveFields(type)
  PROVE  LiveOK(l)
<1>1. l.type = type
  BY LiveValues
<1>2. \E r \in rest : DOMAIN l.val = fields \cup DOMAIN r /\ \A f \in (DOMAIN r) \ fields : l.val[f] = r[f]
  BY LiveValues
<1>3. DOMAIN l.val = LiveFields(type) /\ ListsLive(l.val)
  <2>1. PICK r \in rest : DOMAIN l.val = fields \cup DOMAIN r /\ \A f \in (DOMAIN r) \ fields : l.val[f] = r[f]
    BY <1>2
  <2>2. DOMAIN l.val = LiveFields(type) /\ ListsLive(r)
    BY <2>1
  <2>3. \A f \in {"gaps", "nr_gaps", "dups", "ids", "value", "params", "causes"} :
          f \in DOMAIN l.val => f \in DOMAIN r /\ l.val[f] = r[f]
    BY <2>1
  <2>4. QED BY <2>2, <2>3 DEF ListsLive
<1>4. QED BY <1>1, <1>3 DEF LiveOK, ListsLive

(* The blocks and bytes that are sent. *)
LEMMA LiveBytes ==
  /\ \A n \in Nat : \A v \in LiveBlocks(n) : v \in Seq(Nat)
  /\ \A v \in Bytes : v \in Seq(Nat) /\ (Len(v) = 2 => v[1] = 1)
<1>1. \A n \in Nat : <<n>> \in Seq(Nat) /\ <<n, n>> \in Seq(Nat)
  OBVIOUS
<1>2. /\ <<>> \in Seq(Nat) /\ <<0>> \in Seq(Nat) /\ <<1>> \in Seq(Nat) /\ <<1, 1>> \in Seq(Nat) /\ <<1, 0>> \in Seq(Nat)
      /\ Len(<<>>) = 0 /\ Len(<<0>>) = 1 /\ Len(<<1>>) = 1 /\ <<1, 1>>[1] = 1 /\ <<1, 0>>[1] = 1
  OBVIOUS
<1>3. QED BY <1>1, <1>2 DEF LiveBlocks, Bytes

(* The lists of what is written are such that the kernel can send them. *)
Sendable(type, w) ==
  /\ type \in HasParameters => \A ls \in LiveLists(w.val.params) : LiveListOK(ls)
  /\ type \in HasCauses => \A ls \in LiveLists(w.val.causes) : LiveListOK(ls)

(* Every chunk that is sent can then be compared. *)
LEMMA LiveOfOK ==
  ASSUME NEW type \in LiveTypes, NEW w, Sendable(type, w), NEW l \in LiveOf(type, w)
  PROVE  LiveOK(l)
<1>1. CASE type \in {"DATA", "PAD", "SHUTDOWN", "ECNE", "CWR"} \cup FlagsOnly
  <2>1. LiveOf(type, w) = Live(type, LiveFields(type), {<<>>})
    BY <1>1 DEF LiveOf, LiveFields, HasCauses, FlagsOnly
  <2>2. DOMAIN <<>> = {}
    OBVIOUS
  <2>3. LiveFields(type) \cap {"gaps", "nr_gaps", "dups", "ids", "value", "params", "causes"} = {}
    BY <1>1 DEF LiveFields, HasCauses, FlagsOnly
  <2>4. QED BY <2>1, <2>2, <2>3, PlainLive
<1>2. CASE type = "I_DATA"
  <2> DEFINE F == {"flgs", "len", "tsn", "sid", "mid", "field"}
             R == [res : {0, 1}]
  <2>1. LiveOf(type, w) = Live(type, F, R)
    BY <1>2 DEF LiveOf, HasCauses
  <2>2. \A r \in R : F \cup DOMAIN r = LiveFields(type)
    BY <1>2 DEF LiveFields, HasCauses
  <2>3. LiveFields(type) \cap {"gaps", "nr_gaps", "dups", "ids", "value", "params", "causes"} = {}
    BY <1>2 DEF LiveFields, HasCauses
  <2>4. "len" \in F
    OBVIOUS
  <2> HIDE DEF F, R
  <2>5. QED BY <2>1, <2>2, <2>3, <2>4, PlainLive
<1>3. CASE type \in {"INIT", "INIT_ACK"}
  <2> DEFINE R == [params : LiveLists(w.val.params)]
  <2>1. \/ l \in Live(type, InitFields, R)
        \/ \E ls \in LiveLists(w.val.params) : l = [type |-> type, val |-> Joined([f \in InitFields |-> 1], [params |-> ls])]
    BY <1>3 DEF LiveOf, HasCauses
  <2>2. \A ls \in LiveLists(w.val.params) : LiveListOK(ls)
    BY <1>3 DEF Sendable, HasParameters
  <2>3. LiveFields(type) = InitFields \cup {"params"} /\ "len" \notin LiveFields(type)
    BY <1>3 DEF LiveFields, InitFields, HasCauses
  <2>4. CASE l \in Live(type, InitFields, R)
    <3>1. \A r \in R : InitFields \cup DOMAIN r = LiveFields(type) /\ ListsLive(r)
      <4>1. \A r \in R : DOMAIN r = {"params"} /\ LiveListOK(r.params)
        BY <2>2
      <4>2. QED BY <2>3, <4>1 DEF ListsLive
    <3>2. InitFields \cap {"gaps", "nr_gaps", "dups", "ids", "value", "params", "causes"} = {}
      BY DEF InitFields
    <3> HIDE DEF R
    <3>3. QED BY <2>3, <2>4, <3>1, <3>2, LiveWithLists
  <2>5. ASSUME NEW ls \in LiveLists(w.val.params), l = [type |-> type, val |-> Joined([f \in InitFields |-> 1], [params |-> ls])]
        PROVE  LiveOK(l)
    <3>1. l.type = type /\ l.val = Joined([f \in InitFields |-> 1], [params |-> ls])
      BY <2>5
    <3>2. DOMAIN l.val = InitFields \cup {"params"} /\ l.val.params = ls
      BY <3>1 DEF Joined, InitFields
    <3>3. QED BY <2>2, <2>3, <2>5, <3>1, <3>2 DEF LiveOK, InitFields
  <2>6. QED BY <2>1, <2>4, <2>5
<1>4. CASE type = "RECONFIG"
  <2> DEFINE R == [params : LiveLists(w.val.params)]
  <2>1. LiveOf(type, w) = Live(type, {"flgs"}, R)
    BY <1>4 DEF LiveOf, HasCauses
  <2>2. \A ls \in LiveLists(w.val.params) : LiveListOK(ls)
    BY <1>4 DEF Sendable, HasParameters
  <2>3. LiveFields(type) = {"flgs", "params"}
    BY <1>4 DEF LiveFields, HasCauses
  <2>4. \A r \in R : DOMAIN r = {"params"} /\ LiveListOK(r.params)
    BY <2>2
  <2> HIDE DEF R
  <2>5. \A r \in R : {"flgs"} \cup DOMAIN r = LiveFields(type) /\ ListsLive(r)
    BY <2>3, <2>4 DEF ListsLive
  <2>6. {"flgs"} \cap {"gaps", "nr_gaps", "dups", "ids", "value", "params", "causes"} = {} /\ "len" \notin LiveFields(type)
    BY <2>3
  <2>7. QED BY <2>1, <2>5, <2>6, LiveWithLists
<1>5. CASE type \in HasCauses
  <2> DEFINE R == [causes : LiveLists(w.val.causes)]
  <2>1. LiveOf(type, w) = Live(type, {"flgs"}, R)
    BY <1>5 DEF LiveOf, HasCauses
  <2>2. \A ls \in LiveLists(w.val.causes) : LiveListOK(ls)
    BY <1>5 DEF Sendable, HasParameters
  <2>3. LiveFields(type) = {"flgs", "causes"}
    BY <1>5 DEF LiveFields, HasCauses
  <2>4. \A r \in R : DOMAIN r = {"causes"} /\ LiveListOK(r.causes)
    BY <2>2
  <2> HIDE DEF R
  <2>5. \A r \in R : {"flgs"} \cup DOMAIN r = LiveFields(type) /\ ListsLive(r)
    BY <2>3, <2>4 DEF ListsLive
  <2>6. {"flgs"} \cap {"gaps", "nr_gaps", "dups", "ids", "value", "params", "causes"} = {} /\ "len" \notin LiveFields(type)
    BY <2>3
  <2>7. QED BY <2>1, <2>5, <2>6, LiveWithLists
<1>6. CASE type = "SACK"
  <2> DEFINE R == [gaps : LiveBlocks(2), dups : LiveBlocks(1)]
  <2>1. LiveOf(type, w) = Live(type, SackFields, R)
    BY <1>6 DEF LiveOf, HasCauses, SackFields
  <2>2. \A r \in R : DOMAIN r = {"gaps", "dups"} /\ r.gaps \in Seq(Nat) /\ r.dups \in Seq(Nat)
    BY LiveBytes
  <2>3. LiveFields(type) = SackFields \cup {"gaps", "dups"}
    BY <1>6 DEF LiveFields, HasCauses, SackFields
  <2> HIDE DEF R
  <2>4. \A r \in R : SackFields \cup DOMAIN r = LiveFields(type) /\ ListsLive(r)
    BY <2>2, <2>3 DEF ListsLive
  <2>5. SackFields \cap {"gaps", "nr_gaps", "dups", "ids", "value", "params", "causes"} = {} /\ "len" \notin LiveFields(type)
    BY <2>3 DEF SackFields
  <2>6. QED BY <2>1, <2>4, <2>5, LiveWithLists
<1>7. CASE type = "NR_SACK"
  <2> DEFINE R == [gaps : LiveBlocks(2), nr_gaps : LiveBlocks(3), dups : LiveBlocks(1)]
  <2>1. PICK r \in R : l = [type |-> type, val |-> Joined([flgs |-> 1, cum_tsn |-> 1, a_rwnd |-> 1], r)]
    BY <1>7 DEF LiveOf, HasCauses
  <2>2. DOMAIN r = {"gaps", "nr_gaps", "dups"} /\ r.gaps \in Seq(Nat) /\ r.nr_gaps \in Seq(Nat) /\ r.dups \in Seq(Nat)
    BY LiveBytes
  <2>3. l.type = type /\ l.val = Joined([flgs |-> 1, cum_tsn |-> 1, a_rwnd |-> 1], r)
    BY <2>1
  <2>4. /\ DOMAIN l.val = {"flgs", "cum_tsn", "a_rwnd", "gaps", "nr_gaps", "dups"}
        /\ l.val.gaps = r.gaps /\ l.val.nr_gaps = r.nr_gaps /\ l.val.dups = r.dups
    BY <2>2, <2>3 DEF Joined
  <2>5. LiveFields(type) = {"flgs", "cum_tsn", "a_rwnd", "gaps", "nr_gaps", "dups"}
    BY <1>7 DEF LiveFields, HasCauses
  <2>6. QED BY <2>2, <2>3, <2>4, <2>5 DEF LiveOK
<1>8. CASE type \in {"HEARTBEAT", "HEARTBEAT_ACK", "COOKIE_ECHO", "UNKNOWN"}
  <2> DEFINE R == [value : Bytes]
  <2>1. LiveOf(type, w) = Live(type, {"flgs"}, R)
    BY <1>8 DEF LiveOf, HasCauses
  <2>2. \A r \in R : DOMAIN r = {"value"} /\ r.value \in Seq(Nat) /\ (Len(r.value) = 2 => r.value[1] = 1)
    BY LiveBytes
  <2>3. LiveFields(type) = {"flgs", "value"}
    BY <1>8 DEF LiveFields, HasCauses
  <2> HIDE DEF R
  <2>4. \A r \in R : {"flgs"} \cup DOMAIN r = LiveFields(type) /\ ListsLive(r)
    BY <2>2, <2>3 DEF ListsLive
  <2>5. {"flgs"} \cap {"gaps", "nr_gaps", "dups", "ids", "value", "params", "causes"} = {} /\ "len" \notin LiveFields(type)
    BY <2>3
  <2>6. QED BY <2>1, <2>4, <2>5, LiveWithLists
<1>9. CASE type \in {"FORWARD_TSN", "I_FORWARD_TSN"}
  <2> DEFINE R == [flgs : {0, 1}, cum_tsn : {0, 1, MaxU32}, ids : {<<>>, <<0>>, <<1>>, <<1, 1>>}]
  <2>1. PICK v \in R : l = [type |-> type, val |-> v]
    BY <1>9 DEF LiveOf, HasCauses
  <2>2. \A s \in {<<>>, <<0>>, <<1>>, <<1, 1>>} : s \in Seq(Nat)
    BY ByteStrings
  <2>3. DOMAIN v = {"flgs", "cum_tsn", "ids"} /\ v.ids \in Seq(Nat)
    BY <2>2
  <2>4. LiveFields(type) = {"flgs", "cum_tsn", "ids"}
    BY <1>9 DEF LiveFields, HasCauses
  <2>5. l.type = type /\ l.val = v
    BY <2>1
  <2>6. QED BY <2>3, <2>4, <2>5 DEF LiveOK
<1>10. QED BY <1>1, <1>2, <1>3, <1>4, <1>5, <1>6, <1>7, <1>8, <1>9 DEF LiveTypes, HasCauses, FlagsOnly

(* The lists of a written chunk are ones the kernel can answer. *)
LEMMA WrittenSendable ==
  ASSUME NEW k, NEW w \in WrittenChunks(k)
  PROVE  Sendable(k, w)
<1>1. ASSUME k \in {"INIT", "INIT_ACK"} PROVE \A ls \in LiveLists(w.val.params) : LiveListOK(ls)
  <2>1. w.val.params \in Lists(InitParameters, SomeParameters)
    BY <1>1, InitsWritten
  <2>2. WrittenList(w.val.params, InitParameters \cup SomeParameters)
    BY <2>1, ListsAreWritten
  <2>3. \A p \in InitParameters \cup SomeParameters : Writable(p)
    BY StoredItems, StoredWritable
  <2>4. QED BY <2>2, <2>3, LiveListsOK
<1>2. ASSUME k = "RECONFIG" PROVE \A ls \in LiveLists(w.val.params) : LiveListOK(ls)
  <2>1. w.val.params \in Lists(ReconfigParameters, {})
    BY <1>2, ReconfigsWritten
  <2>2. WrittenList(w.val.params, ReconfigParameters \cup {})
    BY <2>1, ListsAreWritten
  <2>3. \A p \in ReconfigParameters \cup {} : Writable(p)
    BY StoredItems, StoredWritable
  <2>4. QED BY <2>2, <2>3, LiveListsOK
<1>3. ASSUME k \in HasCauses PROVE \A ls \in LiveLists(w.val.causes) : LiveListOK(ls)
  <2>1. w.val.causes \in Lists(Causes, SomeCauses)
    BY <1>3, AbortsWritten
  <2>2. WrittenList(w.val.causes, Causes \cup SomeCauses)
    BY <2>1, ListsAreWritten
  <2>3. \A p \in Causes \cup SomeCauses : Writable(p)
    BY StoredItems, StoredWritable DEF ItemStored
  <2>4. QED BY <2>2, <2>3, LiveListsOK
<1>4. QED BY <1>1, <1>2, <1>3 DEF Sendable, HasParameters

(* A chunk that ends before its struct, or does not even cover its header. *)
ShortOK(l) == l.type = "TOO_SHORT" \/ (l.type \in LiveTypes \ {"RECONFIG"} /\ "short" \in DOMAIN l.val)

(* The kernel may send such chunks. *)
LEMMA ShortOfOK ==
  ASSUME NEW type \in LiveTypes, NEW w, NEW l \in ShortOf(type, w)
  PROVE  ShortOK(l)
<1>1. CASE l = [type |-> "TOO_SHORT", of |-> type, val |-> [flgs |-> 1]]
  BY <1>1 DEF ShortOK
<1>2. ASSUME NEW m, type \in HasNumbers, l = [type |-> type, val |-> Joined([short |-> TRUE], m.val)] PROVE ShortOK(l)
  <2>1. l.type = type /\ l.val = Joined([short |-> TRUE], m.val)
    BY <1>2
  <2>2. "short" \in DOMAIN l.val
    BY <2>1 DEF Joined
  <2>3. QED BY <1>2, <2>1, <2>2 DEF ShortOK, HasNumbers
<1>3. \/ l = [type |-> "TOO_SHORT", of |-> type, val |-> [flgs |-> 1]]
      \/ \E m \in LiveOf(type, w) : type \in HasNumbers /\ l = [type |-> type, val |-> Joined([short |-> TRUE], m.val)]
  BY DEF ShortOf
<1>4. QED BY <1>1, <1>2, <1>3

(* What the kernel may send where w is written can be compared. *)
LEMMA LiveChunksOK ==
  ASSUME NEW k \in Kinds, NEW w \in WrittenChunks(k), NEW l \in LiveChunks(w)
  PROVE  LiveOK(l) \/ ShortOK(l)
<1>1. w.kind = k
  BY WrittenShape DEF Shape
<1>2. CASE l = [type |-> "PARTIAL", val |-> [flgs |-> 1]]
  BY <1>2 DEF LiveOK
<1>3. ASSUME NEW type \in FlagsOnly \cup {"SHUTDOWN", "UNKNOWN", "DATA"}, l \in LiveOf(type, w) \cup ShortOf(type, w)
      PROVE  LiveOK(l) \/ ShortOK(l)
  <2>1. type \in LiveTypes
    BY DEF LiveTypes, FlagsOnly
  <2>2. Sendable(type, w)
    BY DEF Sendable, HasParameters, HasCauses, FlagsOnly
  <2>3. QED BY <1>3, <2>1, <2>2, LiveOfOK, ShortOfOK
<1>4. ASSUME k # "CHUNK", l \in LiveOf(k, w) \cup ShortOf(k, w) PROVE LiveOK(l) \/ ShortOK(l)
  <2>1. k \in LiveTypes
    BY <1>4, BoundsAssumption DEF LiveTypes
  <2>2. QED BY <1>4, <2>1, WrittenSendable, LiveOfOK, ShortOfOK
<1>5. \/ l = [type |-> "PARTIAL", val |-> [flgs |-> 1]]
      \/ (k # "CHUNK" /\ l \in LiveOf(k, w) \cup ShortOf(k, w))
      \/ \E type \in FlagsOnly \cup {"SHUTDOWN", "UNKNOWN", "DATA"} : l \in LiveOf(type, w) \cup ShortOf(type, w)
  BY <1>1 DEF LiveChunks, FlagsOnly
<1>6. QED BY <1>2, <1>3, <1>4, <1>5

(* A sniffed packet that can be compared. *)
AnyOK(l) == LiveOK(l) \/ ShortOK(l)
PacketOK(ls) == Len(ls) \in Nat /\ DOMAIN ls = 1..Len(ls) /\ \A i \in 1..Len(ls) : AnyOK(ls[i])

(* So can every packet that is sniffed. *)
LEMMA PacketsOK ==
  ASSUME ChunkInv, NEW ls \in LivePackets
  PROVE  PacketOK(ls)
<1>1. ASSUME NEW i \in DOMAIN written, NEW l \in LiveChunks(written[i]) PROVE AnyOK(l)
  <2>1. written[i] \in AllWritten
    BY DEF ChunkInv
  <2>2. PICK k \in Kinds : written[i] \in WrittenChunks(k)
    BY <2>1 DEF AllWritten
  <2>3. QED BY <2>2, LiveChunksOK DEF AnyOK
<1>2. CASE Len(written) = 1
  <2>1. 1 \in DOMAIN written
    BY <1>2 DEF ChunkInv
  <2>2. AnyOK(CookieAck)
    <3>1. CookieAck.type = "COOKIE_ACK" /\ DOMAIN CookieAck.val = {"flgs"}
      BY DEF CookieAck
    <3>2. LiveFields("COOKIE_ACK") = {"flgs"} /\ "COOKIE_ACK" \in LiveTypes
      BY DEF LiveFields, LiveTypes, HasCauses
    <3>3. QED BY <3>1, <3>2 DEF LiveOK, AnyOK
  <2>3. AnyOK([type |-> "PARTIAL", val |-> [flgs |-> 1]])
    BY DEF LiveOK, AnyOK
  <2>4. ASSUME NEW l \in LiveOf("COOKIE_ACK", <<>>) PROVE AnyOK(l)
    <3>1. "COOKIE_ACK" \in LiveTypes /\ Sendable("COOKIE_ACK", <<>>)
      BY DEF LiveTypes, Sendable, HasParameters, HasCauses
    <3>2. QED BY <3>1, LiveOfOK DEF AnyOK
  <2>5. ASSUME NEW l, AnyOK(l) PROVE PacketOK(<<l>>)
    BY <2>5 DEF PacketOK
  <2>6. ASSUME NEW l, AnyOK(l), NEW m, AnyOK(m) PROVE PacketOK(<<l, m>>)
    BY <2>6 DEF PacketOK
  <2>7. PacketOK(<<>>)
    BY DEF PacketOK
  <2>8. \/ ls = <<>>
        \/ \E l \in LiveChunks(written[1]) : ls = <<l>>
        \/ \E l \in LiveOf("COOKIE_ACK", <<>>) \cup {[type |-> "PARTIAL", val |-> [flgs |-> 1]]} : ls = <<l, CookieAck>>
    BY <1>2 DEF LivePackets
  <2>9. QED BY <1>1, <2>1, <2>2, <2>3, <2>4, <2>5, <2>6, <2>7, <2>8
<1>3. CASE Len(written) # 1
  <2> DEFINE S == UNION {LiveChunks(written[i]) : i \in DOMAIN written}
  <2>1. \A l \in S : AnyOK(l)
    BY <1>1
  <2>2. ls \in SeqOf(S, Len(written) + 1)
    BY <1>3 DEF LivePackets
  <2> HIDE DEF S
  <2>3. PICK m \in 0..(Len(written) + 1) : ls \in [1..m -> S]
    BY <2>2 DEF SeqOf
  <2>4. Len(written) \in Nat
    BY DEF ChunkInv
  <2>5. m \in Nat /\ ls \in Seq(S) /\ Len(ls) = m
    BY <2>3, <2>4
  <2>6. QED BY <2>1, <2>3, <2>5 DEF PacketOK
<1>4. QED BY <1>2, <1>3

(* What the verdict on a packet, with either of two contents of the memory *)
(* behind the chunks, says about the chunks ws written and ls sniffed.     *)
PacketRight(ws, ls, S, T) ==
  /\ S = "dies" \/ T = "dies" =>
       \/ \E i \in DOMAIN ws :
            UnknownType(ws[i]) \/ \E j \in DOMAIN ListOf(ws[i]) : OpenPad(ListOf(ws[i])[j]) \/ OpenType(ListOf(ws[i])[j])
       \/ \E i \in DOMAIN ls : TooShort(ls[i])
  /\ S # T =>
       \/ \E i \in DOMAIN ws : NoRoomForFields(ws[i]) \/ \E j \in DOMAIN ListOf(ws[i]) : OpenType(ListOf(ws[i])[j])
       \/ \E i \in DOMAIN ls : TooShort(ls[i])
  /\ S = "ok" \/ T = "ok" =>
       \/ Len(ws) = Len(ls) /\ \A i \in DOMAIN ws : ChunkFits(ws[i], ls[i])
       \/ \E i \in DOMAIN ws : NumberTakenAsOpen(ws[i]) \/ \E j \in DOMAIN ListOf(ws[i]) : OpenWithin(ListOf(ws[i])[j])
       \/ \E i \in DOMAIN ls : ReadBehind(ls[i])
  /\ Len(ws) = Len(ls) /\ (\A i \in DOMAIN ws : ChunkFits(ws[i], ls[i])) =>
       \/ S = "ok" /\ T = "ok"
       \/ \E i \in DOMAIN ws :
            CheckedThoughOpen(ws[i]) \/ \E j \in DOMAIN ListOf(ws[i]) : ItemCheckedThoughOpen(ListOf(ws[i])[j])

(* The verdict is right for the packet when every status is for its chunk. *)
LEMMA ChunksJudged ==
  ASSUME NEW ws, NEW n \in Nat, DOMAIN ws = 1..n, Len(ws) = n, NEW ls, NEW m \in Nat, Len(ls) = m, DOMAIN ls = 1..m,
         NEW s, NEW t, s = [i \in 1..Min({n, m}) |-> s[i]], t = [i \in 1..Min({n, m}) |-> t[i]],
         \A i \in 1..n : i \in 1..m => ChunkRight(ws[i], ls[i], s[i], t[i])
  PROVE  PacketRight(ws, ls, Judge(s, n, m), Judge(t, n, m))
<1> DEFINE k == Min({n, m})
           S == Judge(s, n, m)
           T == Judge(t, n, m)
<1>1. k = IF n <= m THEN n ELSE m
  BY MinTwo
<1>2. k \in Nat /\ k <= n /\ k <= m /\ (n = m => k = n)
  BY <1>1
<1> HIDE DEF k
<1>3. /\ S = "ok" <=> n = m /\ \A i \in 1..n : s[i] = "ok"
      /\ S = "dies" => \E i \in 1..n : i \in 1..m /\ s[i] = "dies"
      /\ T = "ok" <=> n = m /\ \A i \in 1..n : t[i] = "ok"
      /\ T = "dies" => \E i \in 1..n : i \in 1..m /\ t[i] = "dies"
  <2>1. DOMAIN s = 1..k /\ DOMAIN t = 1..k
    BY DEF k
  <2>2. JudgedByAll(s, n, m) /\ JudgedByAll(t, n, m)
    BY <2>1, JudgeFacts DEF k
  <2>3. QED BY <2>2 DEF JudgedByAll
<1>4. S # T => \E i \in 1..n : i \in 1..m /\ s[i] # t[i]
  <2> SUFFICES ASSUME \A i \in 1..n : i \in 1..m => s[i] = t[i] PROVE s = t
    OBVIOUS
  <2>0. \A i \in 1..k : i \in 1..n /\ i \in 1..m
    BY <1>2
  <2>1. \A i \in 1..k : s[i] = t[i]
    BY <2>0
  <2>2. s = [i \in 1..k |-> s[i]] /\ t = [i \in 1..k |-> t[i]]
    BY DEF k
  <2>3. QED BY <2>1, <2>2
<1> HIDE DEF S, T
<1>5. S = "dies" \/ T = "dies" =>
       \/ \E i \in 1..n :
            UnknownType(ws[i]) \/ \E j \in DOMAIN ListOf(ws[i]) : OpenPad(ListOf(ws[i])[j]) \/ OpenType(ListOf(ws[i])[j])
       \/ \E i \in 1..m : TooShort(ls[i])
  BY <1>3 DEF ChunkRight
<1>6. S # T =>
       \/ \E i \in 1..n : NoRoomForFields(ws[i]) \/ \E j \in DOMAIN ListOf(ws[i]) : OpenType(ListOf(ws[i])[j])
       \/ \E i \in 1..m : TooShort(ls[i])
  BY <1>4 DEF ChunkRight
<1>7. S = "ok" \/ T = "ok" =>
       \/ n = m /\ \A i \in 1..n : ChunkFits(ws[i], ls[i])
       \/ \E i \in 1..n : NumberTakenAsOpen(ws[i]) \/ \E j \in DOMAIN ListOf(ws[i]) : OpenWithin(ListOf(ws[i])[j])
       \/ \E i \in 1..m : ReadBehind(ls[i])
  BY <1>3 DEF ChunkRight
<1>8. n = m /\ (\A i \in 1..n : ChunkFits(ws[i], ls[i])) =>
       \/ S = "ok" /\ T = "ok"
       \/ \E i \in 1..n :
            CheckedThoughOpen(ws[i]) \/ \E j \in DOMAIN ListOf(ws[i]) : ItemCheckedThoughOpen(ListOf(ws[i])[j])
  BY <1>3 DEF ChunkRight
<1>9. PacketRight(ws, ls, S, T)
  BY <1>5, <1>6, <1>7, <1>8 DEF PacketRight
<1>10. QED BY <1>9 DEF S, T

(* No chunk of the packet has a value shorter than its length says: *)
(* new_sctp_packet refuses those.                                   *)
AllWhole(cs) == \A i \in DOMAIN cs : ~HasPartial(cs[i])

(* verify_sctp is right about every packet that new_sctp_packet has made. *)
LEMMA EveryPacketRight ==
  ASSUME ChunkInv, AllWhole(items), NEW ls, PacketOK(ls), \A i \in 1..Len(ls) : ls[i].type # "TOO_SHORT"
  PROVE  PacketRight(written, ls, verify_sctp(items, ls, 0), verify_sctp(items, ls, 1))
<1> DEFINE n == Len(written)
           m == Len(ls)
           s == [i \in 1..Min({n, m}) |-> ChunkStatus(items[i], ls[i], 0)]
           t == [i \in 1..Min({n, m}) |-> ChunkStatus(items[i], ls[i], 1)]
<1>1. n \in Nat /\ m \in Nat /\ DOMAIN ls = 1..m /\ DOMAIN written = 1..n /\ DOMAIN items = 1..n /\ Len(items) = n
  BY DEF ChunkInv, PacketOK
<1>2. verify_sctp(items, ls, 0) = Judge(s, n, m) /\ verify_sctp(items, ls, 1) = Judge(t, n, m)
  BY <1>1 DEF verify_sctp, Judge
<1>3. ASSUME NEW i \in 1..n, i \in 1..m PROVE ChunkRight(written[i], ls[i], s[i], t[i])
  <2>1. i \in 1..Min({n, m})
    BY <1>1, <1>3, MinTwo
  <2>2. s[i] = ChunkStatus(items[i], ls[i], 0) /\ t[i] = ChunkStatus(items[i], ls[i], 1)
    BY <2>1
  <2>3. /\ written[i] \in AllWritten /\ items[i] = NewChunk(written[i]) /\ ~HasPartial(items[i])
        /\ LiveOK(ls[i]) \/ "short" \in DOMAIN ls[i].val
    BY <1>1, <1>3 DEF ChunkInv, AllWhole, PacketOK, AnyOK, ShortOK
  <2>4. PICK k \in Kinds : written[i] \in WrittenChunks(k)
    BY <2>3 DEF AllWritten
  <2>5. ~HasPartial(NewChunk(written[i]))
    BY <2>3
  <2>6. ChunkRight(written[i], ls[i], ChunkStatus(NewChunk(written[i]), ls[i], 0), ChunkStatus(NewChunk(written[i]), ls[i], 1))
    BY <2>3, <2>4, <2>5, EveryChunkRight, ShortRight
  <2>7. QED BY <2>2, <2>3, <2>6
<1>4. s = [i \in 1..Min({n, m}) |-> s[i]] /\ t = [i \in 1..Min({n, m}) |-> t[i]]
  OBVIOUS
<1> HIDE DEF s, t
<1>5. PacketRight(written, ls, Judge(s, n, m), Judge(t, n, m))
  BY <1>1, <1>3, <1>4, ChunksJudged
<1>6. QED BY <1>2, <1>5

(* A packet that do_outbound_script_packet cannot walk over has a chunk    *)
(* that fits nothing.                                                      *)
LEMMA WalkFails ==
  ASSUME ChunkInv, NEW ls, PacketOK(ls), NEW S, S = WalkChunks(ls), S # "ok"
  PROVE  PacketRight(written, ls, S, S)
<1> DEFINE m == Len(ls)
           s == [i \in DOMAIN ls |-> sctp_chunks_next(ls[i])]
<1>1. m \in Nat /\ DOMAIN ls = 1..m /\ DOMAIN s = 1..m /\ S = FirstBad(s)
  BY DEF PacketOK, WalkChunks
<1>2. \A i \in 1..m : s[i] = sctp_chunks_next(ls[i])
  BY <1>1
<1> HIDE DEF s
<1>3. PICK i \in 1..m : S = s[i] /\ s[i] # "ok"
  BY <1>1, FirstBadFound
<1>4. /\ ls[i].type \in {"PARTIAL", "TOO_SHORT"}
      /\ S = "dies" => ls[i].type = "TOO_SHORT"
  BY <1>2, <1>3 DEF sctp_chunks_next
<1>5. S = "dies" => \E h \in DOMAIN ls : TooShort(ls[h])
  BY <1>1, <1>4 DEF TooShort
<1>6. ~(Len(written) = Len(ls) /\ \A h \in DOMAIN written : ChunkFits(written[h], ls[h]))
  <2>1. Len(written) = Len(ls) => i \in DOMAIN written
    BY <1>1 DEF ChunkInv
  <2>2. \A w : ~ChunkFits(w, ls[i])
    BY <1>4 DEF ChunkFits
  <2>3. QED BY <2>1, <2>2
<1>7. QED BY <1>5, <1>6 DEF PacketRight

(* So has one that map_outbound_live_sctp_packet cannot walk over, where   *)
(* the script has written the parameters of RECONFIG.                      *)
LEMMA MapFails ==
  ASSUME ChunkInv, NEW ls, PacketOK(ls), NEW S, S = map_outbound_live_sctp_packet(ls), S # "ok"
  PROVE  PacketRight(written, ls, S, S)
<1> DEFINE m == Len(ls)
           s == [i \in DOMAIN ls |-> MapParameters(ls[i])]
<1>1. m \in Nat /\ DOMAIN ls = 1..m /\ DOMAIN s = 1..m /\ S = FirstBad(s)
  BY DEF PacketOK, map_outbound_live_sctp_packet
<1>2. \A i \in 1..m : s[i] = MapParameters(ls[i])
  BY <1>1
<1> HIDE DEF s
<1>3. PICK i \in 1..m : S = s[i] /\ s[i] # "ok"
  BY <1>1, FirstBadFound
<1> DEFINE l == ls[i]
           ps == l.val.params
           t == [j \in DOMAIN ps |-> IF ps[j].type = "PARTIAL" THEN "err" ELSE sctp_parameters_next(ps[j], "ok")]
<1>4. l.type = "RECONFIG" /\ S = FirstBad(t)
  BY <1>2, <1>3 DEF MapParameters
<1>5. AnyOK(l)
  BY DEF PacketOK
<1>6. DOMAIN l.val = {"flgs", "params"} /\ LiveListOK(ps)
  BY <1>4, <1>5 DEF AnyOK, ShortOK, LiveOK, LiveFields, HasCauses
<1>7. Len(ps) \in Nat /\ DOMAIN ps = 1..Len(ps) /\ DOMAIN t = 1..Len(ps)
  BY <1>6 DEF LiveListOK
<1>8. \A j \in 1..Len(ps) : t[j] = IF ps[j].type = "PARTIAL" THEN "err" ELSE sctp_parameters_next(ps[j], "ok")
  BY <1>7
<1> HIDE DEF t
<1>9. PICK j \in 1..Len(ps) : S = t[j] /\ t[j] # "ok"
  BY <1>3, <1>4, <1>7, FirstBadFound
<1>10. (ps[j].type = "PARTIAL" \/ ~ps[j].whole) /\ (S = "dies" => ~ps[j].whole)
  BY <1>8, <1>9 DEF sctp_parameters_next
<1>11. S = "dies" => \E h \in DOMAIN ls : TooShort(ls[h])
  <2>1. LiveListOf(l) = ps
    BY <1>6 DEF LiveListOf
  <2>2. S = "dies" => TooShort(l)
    BY <1>7, <1>10, <2>1 DEF TooShort
  <2>3. QED BY <1>1, <2>2
<1>12. ASSUME Len(written) = Len(ls), \A h \in DOMAIN written : ChunkFits(written[h], ls[h])
       PROVE  \E h \in DOMAIN written : CheckedThoughOpen(written[h])
  <2> DEFINE w == written[i]
  <2>1. i \in DOMAIN written /\ w \in AllWritten /\ ChunkFits(w, l)
    BY <1>1, <1>12 DEF ChunkInv
  <2>2. PICK k \in Kinds : w \in WrittenChunks(k)
    BY <2>1 DEF AllWritten
  <2>3. w.kind = k
    BY <2>2, WrittenShape DEF Shape
  <2>4. CASE k = "CHUNK"
    <3>1. w.val.type \in {Open, "SHUTDOWN", "COOKIE_ACK", "UNKNOWN"} /\ Fits(w.val.type, "RECONFIG")
      BY <1>4, <2>1, <2>2, <2>3, <2>4, GenericsWritten DEF ChunkFits, GenericFits
    <3>2. CheckedThoughOpen(w)
      BY <2>3, <2>4, <3>1 DEF Fits, CheckedThoughOpen
    <3>3. QED BY <2>1, <3>2
  <2>5. CASE k # "CHUNK"
    <3>1. k = "RECONFIG"
      BY <1>4, <2>1, <2>3, <2>5 DEF ChunkFits
    <3>2. DOMAIN w.val = {"flgs", "params"} /\ Implied(w) = w.val
      BY <2>2, <2>3, <3>1, ReconfigsWritten DEF Implied
    <3>3. ListFits(w.val.params, ps)
      BY <1>6, <2>1, <2>3, <2>5, <3>2 DEF ChunkFits, ItemLists
    <3>4. \A p : ~ItemFits(p, ps[j])
      BY <1>10 DEF ItemFits
    <3>5. WrittenList(w.val.params, ReconfigParameters \cup {})
      BY <2>2, <3>1, ReconfigsWritten, ListsAreWritten
    <3>6. w.val.params = Open
      <4>1. ASSUME w.val.params # Open PROVE FALSE
        <5>1. DOMAIN w.val.params = 1..Len(w.val.params)
          BY <3>5, <4>1 DEF WrittenList
        <5>2. QED BY <3>3, <3>4, <4>1, <5>1 DEF ListFits
      <4>2. QED BY <4>1
    <3>7. CheckedThoughOpen(w)
      BY <2>3, <3>1, <3>6 DEF CheckedThoughOpen
    <3>8. QED BY <2>1, <3>7
  <2>6. QED BY <2>4, <2>5
<1>13. QED BY <1>11, <1>12 DEF PacketRight

(* The verdict on a sniffed packet. *)
VerdictOn(cs, ls, junk) == FirstBad(<<WalkChunks(ls), map_outbound_live_sctp_packet(ls), verify_sctp(cs, ls, junk)>>)

(* It is right for every packet. *)
LEMMA EveryVerdictRight ==
  ASSUME ChunkInv, AllWhole(items), NEW ls, PacketOK(ls)
  PROVE  PacketRight(written, ls, VerdictOn(items, ls, 0), VerdictOn(items, ls, 1))
<1> DEFINE a == WalkChunks(ls)
           b == map_outbound_live_sctp_packet(ls)
           V(j) == verify_sctp(items, ls, j)
<1>1. \A j : VerdictOn(items, ls, j) = IF a # "ok" THEN a ELSE IF b # "ok" THEN b ELSE V(j)
  BY FirstOfThree, Zenon DEF VerdictOn
<1> HIDE DEF V
<1>2. CASE a # "ok"
  BY <1>1, <1>2, WalkFails
<1>3. CASE a = "ok" /\ b # "ok"
  <2>1. PacketRight(written, ls, b, b)
    BY <1>3, MapFails
  <2> HIDE DEF a, b
  <2>2. QED BY <1>1, <1>3, <2>1
<1>4. CASE a = "ok" /\ b = "ok"
  <2> DEFINE s == [i \in DOMAIN ls |-> sctp_chunks_next(ls[i])]
  <2>1. Len(ls) \in Nat /\ DOMAIN s = 1..Len(ls) /\ FirstBad(s) = "ok"
    BY <1>4 DEF PacketOK, WalkChunks
  <2>2. \A i \in 1..Len(ls) : s[i] = sctp_chunks_next(ls[i])
    BY <2>1
  <2> HIDE DEF s
  <2>3. \A i \in 1..Len(ls) : s[i] = "ok"
    BY <2>1, FirstBadFacts
  <2>4. \A i \in 1..Len(ls) : ls[i].type # "TOO_SHORT"
    BY <2>2, <2>3 DEF sctp_chunks_next
  <2>5. PacketRight(written, ls, V(0), V(1))
    BY <2>4, EveryPacketRight DEF V
  <2> HIDE DEF a, b
  <2>6. QED BY <1>1, <1>4, <2>5
<1>5. QED BY <1>2, <1>3, <1>4

(* The inductive invariant: a packet that was made for comparison is whole, *)
(* and a verdict is the one verify_sctp comes to.                           *)
VerdictInv ==
  /\ ChunkInv
  /\ direction = "none" => verdict = {}
  /\ direction = "outbound" /\ verdict = {"made"} => AllWhole(items)
  /\ \/ verdict \in {{}, {"refused"}, {"made"}}
     \/ /\ PacketOK(live) /\ AllWhole(items)
        /\ verdict = {VerdictOn(items, live, junk) : junk \in {0, 1}}

(* Every step keeps it. *)
LEMMA VerdictInvStep == VerdictInv /\ [ChunkNext]_chunkVars => VerdictInv'
<1> SUFFICES ASSUME VerdictInv, [ChunkNext]_chunkVars PROVE VerdictInv'
  OBVIOUS
<1>1. ChunkInv'
  BY ChunkInvStep DEF VerdictInv
<1>2. ASSUME NEW k \in Kinds, NEW w \in WrittenChunks(k), sctp_chunk_list_append(w)
      PROVE  VerdictInv'
  <2>1. direction' = "none" /\ verdict' = {}
    BY <1>2 DEF sctp_chunk_list_append, VerdictInv
  <2>2. QED BY <1>1, <2>1 DEF VerdictInv
<1>3. ASSUME NEW dir \in {"inbound", "outbound"}, NEW bad_crc32c \in BOOLEAN, new_sctp_packet(dir, bad_crc32c)
      PROVE  VerdictInv'
  <2>1. UNCHANGED <<items, live>> /\ direction' = dir /\ verdict' \in {{"refused"}, {"made"}}
    BY <1>3 DEF new_sctp_packet
  <2>2. ASSUME dir = "outbound", verdict' = {"made"} PROVE AllWhole(items)
    <3>1. verdict' = {IF Refused(dir, bad_crc32c) THEN "refused" ELSE "made"}
      BY <1>3 DEF new_sctp_packet
    <3>2. ~Refused(dir, bad_crc32c)
      BY <2>2, <3>1
    <3>3. QED BY <2>2, <3>2 DEF Refused, AllWhole
  <2>3. AllWhole(items)' <=> AllWhole(items)
    BY <2>1 DEF AllWhole
  <2>4. QED BY <1>1, <2>1, <2>2, <2>3 DEF VerdictInv
<1>4. ASSUME NEW ls \in LivePackets, verify_outbound(ls)
      PROVE  VerdictInv'
  <2>1. direction = "outbound" /\ verdict = {"made"} /\ live' = ls /\ UNCHANGED <<items, direction>>
    BY <1>4 DEF verify_outbound
  <2>2. AllWhole(items) /\ PacketOK(ls)
    BY <2>1, PacketsOK DEF VerdictInv
  <2>3. verdict' = {VerdictOn(items, ls, junk) : junk \in {0, 1}}
    BY <1>4 DEF verify_outbound, VerdictOn
  <2>4. AllWhole(items)' /\ PacketOK(live)'
    BY <2>1, <2>2 DEF AllWhole, PacketOK
  <2>5. verdict' = {VerdictOn(items', live', junk) : junk \in {0, 1}}
    BY <2>1, <2>3
  <2>6. QED BY <1>1, <2>1, <2>4, <2>5 DEF VerdictInv
<1>5. CASE next_event
  BY <1>1, <1>5 DEF next_event, VerdictInv
<1>6. CASE UNCHANGED chunkVars
  <2>1. UNCHANGED <<items, direction, live, verdict>>
    BY <1>6 DEF chunkVars
  <2>2. /\ AllWhole(items)' <=> AllWhole(items)
        /\ PacketOK(live)' <=> PacketOK(live)
    BY <2>1 DEF AllWhole, PacketOK
  <2>3. {VerdictOn(items', live', junk) : junk \in {0, 1}} = {VerdictOn(items, live, junk) : junk \in {0, 1}}
    BY <2>1
  <2>4. QED BY <1>1, <2>1, <2>2, <2>3 DEF VerdictInv
<1>7. QED BY <1>2, <1>3, <1>4, <1>5, <1>6 DEF ChunkNext

(* Either of the two contents of the memory behind the chunks. *)
LEMMA TwoVerdicts ==
  ASSUME VerdictInv, verdict \notin {{}, {"refused"}, {"made"}}
  PROVE  \E S, T : verdict = {S, T} /\ PacketRight(written, live, S, T)
<1> DEFINE S == VerdictOn(items, live, 0)
           T == VerdictOn(items, live, 1)
<1>1. PacketOK(live) /\ AllWhole(items) /\ verdict = {VerdictOn(items, live, junk) : junk \in {0, 1}}
  BY DEF VerdictInv
<1>2. verdict = {S, T}
  BY <1>1
<1>3. PacketRight(written, live, S, T)
  BY <1>1, EveryVerdictRight DEF VerdictInv
<1> HIDE DEF S, T
<1>4. QED BY <1>2, <1>3

(* verify_sctp comes to one verdict on every packet, whatever was written, *)
(* sniffed and lies in the memory behind the chunks, except as stated.     *)
THEOREM VerdictsDefined == ChunkSpec => []VerdictDefined
<1>1. ChunkInit => VerdictInv
  BY ChunkInvInit DEF ChunkInit, VerdictInv
<1>2. VerdictInv => VerdictDefined
  <2> SUFFICES ASSUME VerdictInv PROVE VerdictDefined
    OBVIOUS
  <2>1. CASE verdict \in {{}, {"refused"}, {"made"}}
    <3>1. "dies" \notin verdict
      BY <2>1
    <3>2. Cardinality({}) = 0 /\ Cardinality({"refused"}) = 1 /\ Cardinality({"made"}) = 1
      BY FS_EmptySet, FS_Singleton
    <3>3. ~(Cardinality(verdict) > 1)
      BY <2>1, <3>2
    <3>4. QED BY <3>1, <3>3 DEF VerdictDefined, NoAssertionFails, VerdictDetermined
  <2>2. ASSUME NEW S, NEW T, verdict = {S, T}, PacketRight(written, live, S, T) PROVE VerdictDefined
    <3>1. "dies" \in verdict => S = "dies" \/ T = "dies"
      BY <2>2
    <3>2. S = T => ~(Cardinality(verdict) > 1)
      BY <2>2, FS_Singleton
    <3>3. NoAssertionFails
      BY <2>2, <3>1 DEF PacketRight, NoAssertionFails, AnyWritten, AnyItem, AnyLive
    <3>4. VerdictDetermined
      BY <2>2, <3>2 DEF PacketRight, VerdictDetermined, AnyWritten, AnyItem, AnyLive
    <3>5. QED BY <3>3, <3>4 DEF VerdictDefined
  <2>3. QED BY <2>1, <2>2, TwoVerdicts
<1>3. QED BY <1>1, <1>2, VerdictInvStep, PTL DEF ChunkSpec

(* What verify_sctp lets pass is what the script describes, and what the   *)
(* script describes passes, except as stated.                              *)
THEOREM VerdictsRight == ChunkSpec => []VerdictIsRight
<1>1. ChunkInit => VerdictInv
  BY ChunkInvInit DEF ChunkInit, VerdictInv
<1>2. VerdictInv => VerdictIsRight
  <2> SUFFICES ASSUME VerdictInv PROVE VerdictIsRight
    OBVIOUS
  <2>1. CASE verdict \in {{}, {"refused"}, {"made"}}
    <3>1. ~Judged
      BY <2>1 DEF Judged
    <3>2. QED BY <3>1 DEF VerdictIsRight, OnlyMatchesPass, MatchesPass
  <2>2. ASSUME NEW S, NEW T, verdict = {S, T}, PacketRight(written, live, S, T) PROVE VerdictIsRight
    <3>1. "ok" \in verdict => S = "ok" \/ T = "ok"
      BY <2>2
    <3>2. S = "ok" /\ T = "ok" => verdict = {"ok"}
      BY <2>2
    <3>3. OnlyMatchesPass
      BY <2>2, <3>1 DEF PacketRight, OnlyMatchesPass, Fitting, AnyWritten, AnyItem, AnyLive
    <3>4. MatchesPass
      BY <2>2, <3>2 DEF PacketRight, MatchesPass, Fitting, AnyWritten, AnyItem
    <3>5. QED BY <3>3, <3>4 DEF VerdictIsRight
  <2>3. QED BY <2>1, <2>2, TwoVerdicts
<1>3. QED BY <1>1, <1>2, VerdictInvStep, PTL DEF ChunkSpec

=============================================================================
