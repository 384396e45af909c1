--------------------------- MODULE SctpAssociation ---------------------------
(***************************************************************************)
(* SCTP associations in run_packet.c: how the socket under test learns the *)
(* tags and initial TSNs of script and kernel from the handshake packets,  *)
(* how TSNs and verification tags of all chunks are mapped with them, how  *)
(* COOKIE_ECHO[...] and HEARTBEAT_ACK[...] are filled in with what the     *)
(* kernel has sent, and the abort at the end of a test.                    *)
(*                                                                         *)
(* Tags and TSNs are numbers modulo W (2^32 in the code).  "local" is the  *)
(* kernel under test, "remote" the peer the script plays.                  *)
(***************************************************************************)
EXTENDS Integers, Sequences

CONSTANTS W, ScriptTsns, KernelTsns, Offsets, MaxHandshakes

ASSUME WAssumption ==
  /\ W \in Nat /\ W > 2 /\ MaxHandshakes \in Nat
  /\ ScriptTsns \cup KernelTsns \cup Offsets \subseteq 0..(W - 1)

VARIABLES
  mode,        \* "local", or "wire" on a wire server, which sees no system calls
  role,        \* "passive" or "active": who starts the association
  sut,         \* state->socket_under_test
  kernel,      \* the kernel's association, cookies, packets to sniff and last heartbeat
  script,      \* how the script has numbered the association, and what it has seen
  seen,        \* the last packet that was mapped, for the properties
  test         \* "running", "ended" or "assert"

vars == <<mode, role, sut, kernel, script, seen, test>>

Num == 0..(W - 1)
Tag == 1..(W - 1)
Plus(a, b) == (a + b) % W
Minus(a, b) == (a - b) % W

------------------------------------------------------------------------------
(* struct socket *)
Side(ltag, ltsn, rtag, rtsn) == [ltag |-> ltag, ltsn |-> ltsn, rtag |-> rtag, rtsn |-> rtsn]
Unset == Side(0, 0, 0, 0)
NoSocket == [state |-> "none"]
NoCookie == Unset
Nothing == 0

Socket(state) ==
  [state |-> state, script |-> Unset, live |-> Unset, cookie_echo |-> NoCookie,
   heartbeat_ack |-> Nothing]

SocketState == {"listening", "packet_received", "init_ack_sent", "cookie_echo_received",
                "connecting", "init_sent", "init_ack_received"}

------------------------------------------------------------------------------
(* The numbers in the chunks, and by which difference each is shifted. *)
Chunk == {"DATA", "I_DATA", "FORWARD_TSN", "I_FORWARD_TSN", "SACK", "NR_SACK", "NR_SACK_GAPS",
          "SHUTDOWN", "ECNE", "CWR", "OUTGOING_SSN_RESET", "INCOMING_SSN_RESET", "SSN_TSN_RESET",
          "RECONFIG_RESPONSE", "ADD_OUTGOING_STREAMS", "ADD_INCOMING_STREAMS"}

Fields(c) ==
  CASE c \in {"SACK", "NR_SACK", "NR_SACK_GAPS"} -> {"cum_tsn", "dup_tsn"}
    [] c = "OUTGOING_SSN_RESET" -> {"reqsn", "respsn", "last_tsn"}
    [] c = "RECONFIG_RESPONSE" -> {"respsn", "receiver_next_tsn", "sender_next_tsn"}
    [] c \in {"INCOMING_SSN_RESET", "SSN_TSN_RESET", "ADD_OUTGOING_STREAMS",
              "ADD_INCOMING_STREAMS"} -> {"reqsn"}
    [] OTHER -> {"tsn"}

\* Mutant: the last TSN of a stream reset belongs to the kernel.
InboundSpace_last_tsn(c, f) ==
  CASE c \in {"DATA", "I_DATA", "FORWARD_TSN", "I_FORWARD_TSN"} -> "remote"
    [] c = "NR_SACK_GAPS" /\ f = "dup_tsn" -> "none"
    [] c \in {"SACK", "NR_SACK", "SHUTDOWN", "ECNE", "CWR"} \/ f = "cum_tsn" -> "local"
    [] f \in {"respsn", "receiver_next_tsn", "last_tsn"} -> "local"
    [] OTHER -> "remote"

(* map_inbound_sctp_packet().  The duplicate TSNs of an NR_SACK are mapped only if it has no *)
(* nr gap blocks, which the test of its length leaves out. *)
InboundSpace(c, f) ==
  CASE c \in {"DATA", "I_DATA", "FORWARD_TSN", "I_FORWARD_TSN"} -> "remote"
    [] c = "NR_SACK_GAPS" /\ f = "dup_tsn" -> "none"
    [] c \in {"SACK", "NR_SACK", "SHUTDOWN", "ECNE", "CWR"} \/ f = "cum_tsn" -> "local"
    [] f \in {"respsn", "receiver_next_tsn"} -> "local"
    [] OTHER -> "remote"

(* map_outbound_live_sctp_packet() *)
OutboundSpace(c, f) ==
  CASE c \in {"DATA", "I_DATA", "FORWARD_TSN", "I_FORWARD_TSN"} -> "local"
    [] c \in {"SACK", "NR_SACK", "NR_SACK_GAPS", "SHUTDOWN", "ECNE", "CWR"} -> "remote"
    [] f \in {"respsn", "receiver_next_tsn"} -> "remote"
    [] OTHER -> "local"

(* The protocol: is a number of a chunk one of its sender's TSNs (and request numbers)? *)
OfSender(c, f) ==
  \/ c \in {"DATA", "I_DATA", "FORWARD_TSN", "I_FORWARD_TSN", "CWR"}
  \/ f \in {"reqsn", "last_tsn", "sender_next_tsn"}

Initial(side, space) ==
  CASE space = "local" -> side.ltsn [] space = "remote" -> side.rtsn [] space = "none" -> 0

(* From script to live space, and back. *)
MapIn(s, space, n) == Plus(n, Minus(Initial(s.live, space), Initial(s.script, space)))
MapOut(s, space, n) == Plus(n, Minus(Initial(s.script, space), Initial(s.live, space)))

(* The verification tag of an inbound packet that has no INIT chunk. *)
v_tag(s, explicit, tag, reflect) ==
  LET live == IF reflect THEN s.live.rtag ELSE s.live.ltag
      said == IF reflect THEN s.script.rtag ELSE s.script.ltag
      shifted == Plus(live, Minus(tag, said)) IN
  IF explicit THEN IF tag = 0 THEN 0 ELSE IF shifted = 0 THEN 1 ELSE shifted ELSE live

(* The initiate tag of an inbound INIT or INIT_ACK: one that equals the kernel's is the kernel's. *)
initiate_tag(s, tag) == IF tag = s.script.ltag THEN s.live.ltag ELSE tag

------------------------------------------------------------------------------
(* The kernel under test: its association is a record of tags and TSNs, and so is a cookie. *)
NoAssoc == Unset
NoPacket == [type |-> "none"]
Established == kernel.assoc # NoAssoc

Seen(dir, what, ok) == [dir |-> dir, what |-> what, ok |-> ok]
NotSeen == Seen("none", "none", TRUE)

Init ==
  /\ mode \in {"local", "wire"} /\ role \in {"passive", "active"}
  /\ sut = IF mode = "wire" THEN NoSocket
           ELSE Socket(IF role = "passive" THEN "listening" ELSE "connecting")
  /\ kernel = [assoc |-> NoAssoc, packet |-> NoPacket, heartbeat |-> Nothing]
  /\ script = [side |-> Unset, handshakes |-> 0, restarting |-> FALSE, restarted |-> FALSE,
               unechoed |-> FALSE, heartbeat |-> Nothing]
  /\ seen = NotSeen
  /\ test = "running"

(* A packet that only shows how it was mapped ends a behaviour: it changes nothing else. *)
Running == test = "running" /\ seen.what \notin {"TSN", "other TSN", "T", "no T", "HEARTBEAT_ACK"}

(* handle_listen_for_script_packet() and do_inbound_script_packet() for an INIT.  On a wire *)
(* server the new socket learns the tag and TSN of the peer; in local mode the listening *)
(* socket does, and the packet then makes a child that has not learnt them.  The kernel *)
(* answers with a cookie and numbers of its choice. *)
inbound_init ==
  /\ Running /\ role = "passive" /\ kernel.packet = NoPacket
  /\ script.handshakes < MaxHandshakes
  /\ \E rtag \in Tag, rtsn \in ScriptTsns, tag \in Tag, tsn \in KernelTsns :
       LET child == CASE sut.state = "none" ->
                           [Socket("packet_received") EXCEPT !.script = Side(0, 0, rtag, rtsn),
                                                             !.live = Side(0, 0, rtag, rtsn)]
                      [] sut.state = "listening" -> Socket("packet_received")
                      [] OTHER -> sut IN
       /\ sut' = child
       /\ kernel' = [kernel EXCEPT !.packet =
                       [type |-> "INIT_ACK",
                        cookie |-> Side(tag, tsn,
                                        IF sut.state \in {"none", "listening"} THEN rtag
                                        ELSE initiate_tag(sut, rtag),
                                        IF sut.state \in {"none", "listening"} THEN rtsn
                                        ELSE MapIn(sut, "remote", rtsn)),
                        said |-> Side(0, 0, rtag, rtsn)]]
  /\ script' = [script EXCEPT !.handshakes = @ + 1]
  /\ seen' = NotSeen
  /\ UNCHANGED <<mode, role, test>>

learns_init_ack(s) == s.state \in {"packet_received", "cookie_echo_received"}

(* do_outbound_script_packet() for an INIT_ACK: the first one counts, and the first of a *)
(* restart of an association that the kernel has. *)
outbound_init_ack ==
  /\ Running /\ kernel.packet.type = "INIT_ACK"
  /\ kernel' = [kernel EXCEPT !.packet = NoPacket]
  /\ LET cookie == kernel.packet.cookie IN
     \E ltag \in Tag, ltsn \in ScriptTsns :
       \/ /\ learns_init_ack(sut)
          /\ sut' = [sut EXCEPT !.state = "init_ack_sent", !.cookie_echo = cookie,
                                !.script.ltag = ltag, !.script.ltsn = ltsn,
                                !.live.ltag = cookie.ltag, !.live.ltsn = cookie.ltsn]
          /\ script' = [script EXCEPT
                          !.side = Side(ltag, ltsn, kernel.packet.said.rtag, kernel.packet.said.rtsn),
                          !.restarting = Established, !.restarted = Established]
       \/ ~learns_init_ack(sut) /\ UNCHANGED <<sut, script>>
  /\ seen' = NotSeen
  /\ UNCHANGED <<mode, role, test>>

(* The kernel connects. *)
kernel_sends_init ==
  /\ Running /\ role = "active" /\ ~Established
  /\ \E tag \in Tag, tsn \in KernelTsns :
       kernel' = [kernel EXCEPT !.assoc = Side(tag, tsn, 0, 0), !.packet = [type |-> "INIT"]]
  /\ seen' = NotSeen
  /\ UNCHANGED <<mode, role, sut, script, test>>

(* handle_connect_for_script_packet() learns the numbers of the script, *)
(* find_connect_for_live_packet() those of the kernel. *)
outbound_init ==
  /\ Running /\ kernel.packet.type = "INIT" /\ sut.state \in {"none", "connecting"}
  /\ \E ltag \in Tag, ltsn \in ScriptTsns :
       /\ sut' = [Socket("init_sent") EXCEPT
                    !.script = Side(ltag, ltsn, 0, 0),
                    !.live = Side(kernel.assoc.ltag, kernel.assoc.ltsn, 0, 0)]
       /\ script' = [script EXCEPT !.side = Side(ltag, ltsn, 0, 0)]
  /\ kernel' = [kernel EXCEPT !.packet = NoPacket]
  /\ seen' = NotSeen
  /\ UNCHANGED <<mode, role, test>>

(* do_inbound_script_packet() for the INIT_ACK that the kernel waits for: the numbers of the *)
(* peer are learnt unless a COOKIE_ECHO has moved the socket on. *)
inbound_init_ack ==
  /\ Running /\ role = "active" /\ sut.state \in {"init_sent", "cookie_echo_received"}
  /\ script.side.rtag = 0
  /\ \E rtag \in Tag, rtsn \in ScriptTsns :
       LET s == IF sut.state # "init_sent" THEN sut
                ELSE [sut EXCEPT !.state = "init_ack_received",
                                 !.script.rtag = rtag, !.script.rtsn = rtsn,
                                 !.live.rtag = rtag, !.live.rtsn = rtsn] IN
       /\ sut' = s
       /\ script' = [script EXCEPT !.side.rtag = rtag, !.side.rtsn = rtsn]
       /\ kernel' = [kernel EXCEPT !.assoc.rtag = initiate_tag(s, rtag),
                                   !.assoc.rtsn = MapIn(s, "remote", rtsn)]
  /\ seen' = NotSeen
  /\ UNCHANGED <<mode, role, test>>

------------------------------------------------------------------------------
(* Packets with chunks that are filled in: COOKIE_ECHO[...], or COOKIE_ECHO with a value, which *)
(* is sent as it is written.  script.unechoed: the socket has moved on by a packet that does *)
(* not begin with COOKIE_ECHO[...]. *)
Item(type, wild) == [type |-> type, wild |-> wild]
Packets ==
  {<<Item("COOKIE_ECHO", TRUE)>>, <<Item("HEARTBEAT_ACK", TRUE)>>,
   <<Item("COOKIE_ECHO", TRUE), Item("DATA", FALSE)>>,
   <<Item("HEARTBEAT_ACK", TRUE), Item("DATA", FALSE)>>,
   <<Item("COOKIE_ECHO", TRUE), Item("HEARTBEAT_ACK", TRUE)>>}

\* Mutant: also for a packet with a bad checksum or a wrong tag.
moves_always(s, bad_crc, explicit, tag) == TRUE

moves_to_cookie_echo_received(s, bad_crc, explicit, tag) ==
  ~bad_crc /\ (explicit => tag = s.script.ltag /\ s.script.ltag # 0)

(* One step of the loop over the items.  After a chunk has been filled in, the type of the *)
(* next is read where it was before: garbage, from the bytes of the kernel. *)
Fill(acc, item, garbage, moves) ==
  LET type == IF acc.shifted THEN garbage ELSE item.type
      prepared == IF type = "COOKIE_ECHO" THEN acc.s.cookie_echo # NoCookie
                  ELSE acc.s.heartbeat_ack # Nothing
      fill == item.wild /\ type \in {"COOKIE_ECHO", "HEARTBEAT_ACK"} IN
  [s |-> IF type = "COOKIE_ECHO" /\ moves THEN [acc.s EXCEPT !.state = "cookie_echo_received"]
         ELSE acc.s,
   shifted |-> acc.shifted \/ fill,
   fits |-> acc.fits /\ (fill => prepared /\ ~acc.shifted),
   cookie |-> IF fill /\ type = "COOKIE_ECHO" THEN acc.s.cookie_echo ELSE acc.cookie,
   ack |-> IF fill /\ type = "HEARTBEAT_ACK" THEN acc.s.heartbeat_ack ELSE acc.ack]

(* The loop, for a packet of one item or two. *)
FillAll(s, p, garbage, moves) ==
  LET start == [s |-> s, shifted |-> FALSE, fits |-> TRUE, cookie |-> NoCookie, ack |-> Nothing]
      one   == Fill(start, p[1], garbage, moves)
  IN  IF Len(p) = 1 THEN one ELSE Fill(one, p[2], garbage, moves)

(* do_inbound_script_packet() *)
inbound_filled ==
  /\ Running /\ sut.state \notin {"none", "listening", "connecting"}
  /\ \E p \in Packets, garbage \in {"DATA", "COOKIE_ECHO", "HEARTBEAT_ACK"},
        bad_crc \in BOOLEAN, given \in {"no", "right", "wrong"} :
       LET explicit == given # "no"
           tag == IF given = "wrong" THEN Plus(sut.script.ltag, 1) ELSE sut.script.ltag
           moves == moves_to_cookie_echo_received(sut, bad_crc, explicit, tag)
           end == FillAll(sut, p, garbage, moves)
           takes == /\ ~bad_crc /\ end.fits /\ end.cookie # NoCookie
                    /\ v_tag(end.s, explicit, tag, FALSE) = end.cookie.ltag IN
       /\ IF Len(p) = 1 THEN garbage = "DATA" ELSE ~bad_crc /\ given = "no"
       /\ sut' = IF end.fits THEN end.s ELSE sut
       /\ test' = IF end.fits THEN test ELSE "assert"
       /\ kernel' = IF takes THEN [kernel EXCEPT !.assoc = end.cookie] ELSE kernel
       /\ script' = [script EXCEPT !.restarting = @ /\ ~takes,
                       !.unechoed = @ \/ (end.s.state # sut.state /\ Head(p).type # "COOKIE_ECHO")]
       /\ seen' = IF ~end.fits \/ Len(p) > 1 THEN NotSeen
                  ELSE IF p[1].type = "HEARTBEAT_ACK"
                  THEN Seen("in", "HEARTBEAT_ACK", end.ack = script.heartbeat)
                  ELSE Seen("in", "COOKIE_ECHO", ~bad_crc /\ given # "wrong" => takes)
  /\ UNCHANGED <<mode, role>>

(* do_inbound_script_packet() for a COOKIE_ECHO with a value: the kernel has not made this *)
(* cookie and does not take it, and the state of the socket moves all the same. *)
inbound_cookie_echo ==
  /\ Running /\ sut.state \notin {"none", "listening", "connecting"}
  /\ \E bad_crc \in BOOLEAN, given \in {"no", "right", "wrong"} :
       LET tag == IF given = "wrong" THEN Plus(sut.script.ltag, 1) ELSE sut.script.ltag
           moves == moves_to_cookie_echo_received(sut, bad_crc, given # "no", tag) IN
       /\ sut' = FillAll(sut, <<Item("COOKIE_ECHO", FALSE)>>, "DATA", moves).s
       /\ script' = [script EXCEPT !.unechoed = @ \/ moves]
  /\ seen' = NotSeen
  /\ UNCHANGED <<mode, role, kernel, test>>

(* The kernel sends a HEARTBEAT, which is sniffed at some later event. *)
kernel_heartbeat ==
  /\ Running /\ Established /\ kernel.packet = NoPacket
  /\ kernel' = [kernel EXCEPT !.heartbeat = 3 - (IF @ = Nothing THEN 2 ELSE @),
                              !.packet = [type |-> "HEARTBEAT"]]
  /\ seen' = NotSeen
  /\ UNCHANGED <<mode, role, sut, script, test>>

prepare_heartbeat_ack(s, h) == h

outbound_heartbeat ==
  /\ Running /\ kernel.packet.type = "HEARTBEAT"
  /\ sut.state \notin {"none", "listening", "connecting"}
  /\ sut' = [sut EXCEPT !.heartbeat_ack = prepare_heartbeat_ack(sut, kernel.heartbeat)]
  /\ script' = [script EXCEPT !.heartbeat = kernel.heartbeat]
  /\ kernel' = [kernel EXCEPT !.packet = NoPacket]
  /\ seen' = NotSeen
  /\ UNCHANGED <<mode, role, test>>

------------------------------------------------------------------------------
(* Any other chunk: the script writes a number as a distance from the initial TSN. *)
Connected == /\ Running /\ Established /\ sut.state \in {"cookie_echo_received", "init_ack_received",
                                                        "init_ack_sent"}

Base(side, c, f, dir) ==
  LET remote == (dir = "in") = OfSender(c, f) IN IF remote THEN side.rtsn ELSE side.ltsn

(* The numbers arrive at the distance from the kernel's initial TSN that the script gives them. *)
inbound_chunk ==
  /\ Connected
  /\ \E c \in Chunk, d \in Offsets :
       seen' = Seen("in", IF c = "CWR" \/ c = "NR_SACK_GAPS" THEN "other TSN" ELSE "TSN",
                    \A f \in Fields(c) :
                      LET n == Plus(Base(script.side, c, f, "in"), d) IN
                      Minus(MapIn(sut, InboundSpace(c, f), n),
                            Base(kernel.assoc, c, f, "in")) = d)
  /\ UNCHANGED <<mode, role, sut, kernel, script, test>>

outbound_chunk ==
  /\ Connected
  /\ \E c \in Chunk, d \in Offsets :
       seen' = Seen("out", IF c = "CWR" THEN "other TSN" ELSE "TSN",
                    \A f \in Fields(c) :
                      LET n == Plus(Base(kernel.assoc, c, f, "out"), d) IN
                      Minus(MapOut(sut, OutboundSpace(c, f), n),
                            Base(script.side, c, f, "out")) = d)
  /\ UNCHANGED <<mode, role, sut, kernel, script, test>>

(* An ABORT or SHUTDOWN_COMPLETE, with the T bit or without, with a tag or without. *)
inbound_tagged ==
  /\ Connected
  /\ \E reflect \in BOOLEAN, explicit \in BOOLEAN, wrong \in Num :
       LET meant == IF reflect THEN script.side.rtag ELSE script.side.ltag
           expected == IF reflect THEN kernel.assoc.rtag ELSE kernel.assoc.ltag
           tag == v_tag(sut, explicit, Plus(meant, wrong), reflect) IN
       /\ ~explicit => wrong = 0
       /\ seen' = Seen("in", IF reflect THEN "T" ELSE "no T", (tag = expected) = (wrong = 0))
  /\ UNCHANGED <<mode, role, sut, kernel, script, test>>

\* Mutant: the tag of the script is used.
abort_tag_script(s) == s.script.ltag

abort_tag(s) == IF s.live.ltag # 0 THEN s.live.ltag ELSE s.live.rtag

(* abort_association(), called by close_all_sockets(). *)
abort_association ==
  /\ Running
  /\ test' = "ended"
  /\ LET s == IF sut.state \in {"none", "listening"} THEN Unset ELSE sut.live
         reflect == s.ltag = 0
         accepted == /\ s.ltag # 0 \/ s.rtag # 0
                     /\ abort_tag(sut) = IF reflect THEN kernel.assoc.rtag ELSE kernel.assoc.ltag IN
     kernel' = IF accepted THEN [kernel EXCEPT !.assoc = NoAssoc] ELSE kernel
  /\ seen' = NotSeen
  /\ UNCHANGED <<mode, role, sut, script>>

Next ==
  \/ inbound_init \/ outbound_init_ack \/ kernel_sends_init \/ outbound_init \/ inbound_init_ack
  \/ inbound_filled \/ inbound_cookie_echo \/ kernel_heartbeat \/ outbound_heartbeat
  \/ inbound_chunk \/ outbound_chunk \/ inbound_tagged \/ abort_association

Spec == Init /\ [][Next]_vars

------------------------------------------------------------------------------
\* One type for the socket, the kernel and the script.
Sides == [ltag : Num, ltsn : Num, rtag : Num, rtsn : Num]
Sockets ==
  [state : SocketState, script : Sides, live : Sides, cookie_echo : Sides, heartbeat_ack : 0..2]
KernelPackets ==
  {NoPacket, [type |-> "INIT"], [type |-> "HEARTBEAT"]} \cup
  [type : {"INIT_ACK"}, cookie : Sides, said : Sides]
TypeOK ==
  /\ mode \in {"local", "wire"} /\ role \in {"passive", "active"}
  /\ sut \in {NoSocket} \cup Sockets
  /\ kernel \in [assoc : Sides, packet : KernelPackets, heartbeat : 0..2]
  /\ script \in [side : Sides, handshakes : 0..MaxHandshakes, restarting : BOOLEAN,
                 restarted : BOOLEAN, unechoed : BOOLEAN, heartbeat : 0..2]
  /\ seen.what \in {"none", "COOKIE_ECHO", "HEARTBEAT_ACK", "TSN", "other TSN", "T", "no T"}
  /\ test \in {"running", "ended", "assert"}

(* Between the INIT_ACK of a restart and its COOKIE_ECHO the program maps with the numbers  *)
(* of the new association while the kernel still has the old one.                           *)
InStep == ~script.restarting

(* Every TSN and every reconfiguration sequence number in a packet of the script reaches the *)
(* kernel, and every one of a live packet is compared with the script, at the distance from  *)
(* the initial TSN that it was given, across the wrap of the numbers and after a restart     *)
(* (map_inbound_sctp_packet, map_outbound_live_sctp_packet).  Excepted: CWR, which is mapped *)
(* like ECNE although its TSN is its sender's, and the duplicates of an inbound NR_SACK with *)
(* nr gap blocks.                                                                            *)
TsnAsWritten ==
  InStep /\ seen.what = "TSN" => seen.ok

(* A packet that the script gives no verification tag, or the right one, is accepted by the *)
(* kernel, and one with a wrong tag is not (map_inbound_sctp_packet).  Excepted are a kernel *)
(* tag of 1, which a tag mapped to 0 becomes, and a reflected tag (T bit) that the socket    *)
(* has not learnt: in local mode, after a restart, after a COOKIE_ECHO that the script wrote *)
(* itself, or if both sides chose the same tag.                                              *)
TagAccepted ==
  InStep => /\ seen.what = "no T" /\ kernel.assoc.ltag # 1 => seen.ok
            /\ /\ seen.what = "T" /\ kernel.assoc.rtag # 1 /\ ~script.restarted
               /\ ~script.unechoed /\ (mode = "wire" \/ role = "active")
               /\ script.side.ltag # script.side.rtag
               => seen.ok

(* All numbers of an association, TSNs and tags, mean to the kernel what they mean in the    *)
(* script (map_inbound_sctp_packet, map_outbound_live_sctp_packet).                          *)
NumbersAsWritten == TsnAsWritten /\ TagAccepted

(* COOKIE_ECHO[...] carries a cookie that the kernel accepts under the tag it is sent with,  *)
(* however many INIT_ACK chunks went before; and while the socket is in the state in which   *)
(* accept() finds it, the kernel has the association with the numbers the socket maps with   *)
(* (do_outbound_script_packet, do_inbound_script_packet).  Excepted are a COOKIE_ECHO with a *)
(* value of the script, which moves the socket although the kernel takes no such cookie, and *)
(* a packet in which the type of a chunk after HEARTBEAT_ACK[...] was misread as COOKIE_ECHO. *)
CookieAccepted ==
  /\ seen.what = "COOKIE_ECHO" => seen.ok
  /\ Running /\ role = "passive" /\ ~script.unechoed /\ sut.state = "cookie_echo_received" =>
       /\ Established
       /\ kernel.assoc.ltag = sut.live.ltag /\ kernel.assoc.ltsn = sut.live.ltsn

(* HEARTBEAT_ACK[...] echoes the HEARTBEAT that was sniffed last (do_outbound_script_packet, *)
(* do_inbound_script_packet).                                                                *)
HeartbeatEchoed == seen.what = "HEARTBEAT_ACK" => seen.ok

(* A chunk that the script leaves to the program, COOKIE_ECHO[...] or HEARTBEAT_ACK[...], is *)
(* filled with what the kernel accepts, however many others were sniffed between preparing   *)
(* and injecting it (do_outbound_script_packet, do_inbound_script_packet).                   *)
EchoesAccepted == CookieAccepted /\ HeartbeatEchoed

(* At the end of a test the kernel is left without the association, unless a restart was     *)
(* begun and not completed, or the INIT of the kernel never sniffed (abort_association).     *)
AbortClears ==
  test = "ended" /\ InStep /\ sut.state \notin {"none", "connecting"} => ~Established
=============================================================================
