------------------------- MODULE WireProtocolProofs -------------------------
(***************************************************************************)
(* Proofs about WireProtocol, for scripts of every length: client and      *)
(* server stay in step, and together they run the script as one process    *)
(* would.  Each side has walked to some position in the script; the        *)
(* invariant says how far apart the two can be, and that the messages      *)
(* under way are exactly what makes up the difference.                     *)
(***************************************************************************)
EXTENDS WireProtocol, SequenceTheorems, TLAPS

\* How far the sides have come, with the null event counted.
CPos == IF cpc = "end" THEN Ended ELSE cnum
SPos == IF sresult = "done" THEN Ended ELSE snum

Pkt(e) == e \in 1 .. Len(script) /\ script[e] \in Packet
Last(e) == IF e = 0 THEN "INVALID_EVENT" ELSE script[e]

\* Every event from a to b is a packet; none is.
AllPackets(a, b) == \A e \in a .. b : Pkt(e)
NoPackets(a, b)  == \A e \in a .. b : ~Pkt(e)

\* The client, once it has started the script, and the server.
ClientInScript ==
  cpc \in {"get_next_event", "next_event", "receive_packets_done", "run_event", "end"}
ServerInScript ==
  spc \in {"get_next_event", "next_event", "run_packet", "send_warning", "send_error"}

\* The messages that either side sends.
Starting == Plain("WIRE_CLIENT_STARTING")
Start(k) == Msg("WIRE_PACKETS_START", k, "STATUS_OK")
Ready == Plain("WIRE_SERVER_READY")
Warning == Plain("WIRE_PACKETS_WARN")
Done(k) == Msg("WIRE_PACKETS_DONE", k, "STATUS_OK")
Failed(k) == Msg("WIRE_PACKETS_DONE", k, "STATUS_ERR")

Op == {"WIRE_COMMAND_LINE_ARGS", "WIRE_SCRIPT_PATH", "WIRE_SCRIPT", "WIRE_HARDWARE_ADDR",
       "WIRE_CLIENT_STARTING", "WIRE_PACKETS_START", "WIRE_SERVER_READY",
       "WIRE_PACKETS_WARN", "WIRE_PACKETS_DONE"}
Message == [op : Op, num_events : Nat, result : {"STATUS_OK", "STATUS_ERR"}]

Types == TypeOK /\ c2s \in Seq(Message) /\ s2c \in Seq(Message) /\ log \in Seq(Nat)

\* What each side keeps of the script fits the place it has reached.
ClientInv ==
  /\ clast = Last(cnum)
  /\ ~ClientInScript => cnum = 0 /\ cevent = 0
  /\ cpc = "setup" => csetup < Len(Setup)
  /\ cpc # "setup" => csetup = Len(Setup)
  /\ cpc = "get_next_event" => cevent = cnum
  /\ cpc \in {"next_event", "receive_packets_done"} => cevent = cnum + 1
  /\ cpc = "receive_packets_done" => Pkt(cnum) /\ ~Pkt(cnum + 1)
  /\ cpc = "run_event" => cevent = cnum /\ cnum # 0 /\ ~Pkt(cnum)
  /\ cpc = "end" => cevent = Ended /\ cnum = Len(script)
  /\ outcome = "passed" => cpc = "end"
  /\ outcome = "local_error" => cpc \in {"init_command", "run_event", "end"}
  /\ outcome = "connection" => ~ServerOpen /\ sresult # "reported"
  /\ outcome # "bad_server"

ServerInv ==
  /\ slast = Last(snum)
  /\ spc = "setup" => ssetup < Len(Setup)
  /\ spc \in {"setup", "parse", "send_server_ready", "receive_client_starting"} =>
       snum = 0 /\ sevent = 0
  /\ spc = "get_next_event" => sevent = snum
  /\ spc = "next_event" => sevent = snum + 1
  /\ spc \in {"run_packet", "send_warning", "send_error"} => sevent = snum /\ Pkt(snum)
  /\ spc \notin {"error_done", "closed"} => sresult = "running"
  /\ sresult = "connection" => ~ClientOpen
  /\ sresult = "done" => snum = Len(script)
  /\ sresult # "bad_client"
  /\ daemon = "teardown" => spc = "error_done"

\* What the server has yet to read, while it reads.
ServerListens == ServerOpen /\ spc # "error_done"

SetupUnread ==
  /\ Len(c2s) = csetup - ssetup
  /\ \A i \in 1 .. Len(c2s) : c2s[i] = Plain(Setup[ssetup + i])

ToServerInv ==
  ServerListens =>
    /\ spc = "setup" => SetupUnread /\ cpc \in {"setup", "receive_server_ready"}
    /\ spc \in {"parse", "send_server_ready"} => c2s = <<>> /\ cpc = "receive_server_ready"
    /\ spc = "receive_client_starting" =>
         \/ c2s = <<>> /\ cpc \in {"receive_server_ready", "init_command", "send_client_starting"}
         \/ ClientInScript /\ c2s = <<Starting>>
         \/ ClientInScript /\ \E k \in 0 .. Len(script) : c2s = <<Starting, Start(k)>>
    /\ ServerInScript =>
         /\ ClientInScript
         /\ c2s = <<>> \/ \E k \in 0 .. Len(script) : c2s = <<Start(k)>>

\* Before the client has started the script, nothing of it has happened.
BeforeInv ==
  ~ClientInScript =>
    /\ snum = 0 /\ log = <<>> /\ sresult \notin {"done", "reported"}
    /\ ClientOpen /\ cpc # "receive_server_ready" => s2c = <<>>
    /\ ClientOpen /\ cpc \in {"init_command", "send_client_starting"} =>
         spc = "receive_client_starting" /\ daemon = "alive"
    /\ ClientOpen /\ cpc = "receive_server_ready" =>
         s2c = <<>> \/ (s2c = <<Ready>> /\ spc = "receive_client_starting" /\ daemon = "alive")

(***************************************************************************)
(* Where the two sides are, by the batch of packets the client is in.      *)
(***************************************************************************)
Warnings(s) == \A i \in 1 .. Len(s) : s[i] = Warning
WarningsThen(s, m) ==
  Len(s) > 0 /\ s[Len(s)] = m /\ \A i \in 1 .. Len(s) - 1 : s[i] = Warning

NoStart == c2s = <<>> \/ c2s = <<Starting>>

\* In none, and neither is the server.
Between ==
  /\ NoStart /\ sresult # "reported"
  /\ ~Pkt(CPos) /\ ~Pkt(SPos)
  /\ NoPackets(CPos + 1, SPos) /\ NoPackets(SPos + 1, CPos)
  /\ ClientOpen => /\ s2c = <<>> /\ Spared
                   /\ Len(log) = IF cpc = "run_event" THEN cnum - 1 ELSE cnum
  /\ outcome = "passed" => Spared

\* The server has not read the message that it starts, after event k.
Requested(k) ==
  /\ c2s = <<Start(k)>> \/ c2s = <<Starting, Start(k)>>
  /\ sresult # "reported"
  /\ Pkt(CPos) /\ k \in 0 .. CPos - 1 /\ SPos <= k
  /\ ~Pkt(SPos) /\ NoPackets(SPos + 1, k) /\ AllPackets(k + 1, CPos)
  /\ Len(log) = k
  /\ ClientOpen => s2c = <<>> /\ Spared

\* The server is in it too.
InBatch ==
  /\ c2s = <<>>
  /\ Pkt(CPos) /\ Pkt(SPos)
  /\ AllPackets(CPos, SPos) /\ AllPackets(SPos, CPos)
  /\ ServerInScript =>
       Len(log) = IF spc \in {"run_packet", "send_error"} THEN snum - 1 ELSE snum
  /\ ClientOpen => IF sresult = "reported" THEN WarningsThen(s2c, Failed(snum)) ELSE Warnings(s2c)

\* The server has left it, after event k.
Finished(k) ==
  /\ c2s = <<>> /\ sresult # "reported"
  /\ Pkt(CPos) /\ k \in CPos .. SPos - 1
  /\ ~Pkt(SPos) /\ AllPackets(CPos, k) /\ NoPackets(k + 1, SPos)
  /\ ClientOpen => WarningsThen(s2c, Done(k)) /\ Len(log) = k /\ Spared

\* The server is gone, and the message that it starts is lost.
Alone ==
  /\ ~ServerOpen /\ sresult # "reported"
  /\ Pkt(CPos) /\ ~Pkt(SPos)
  /\ ClientOpen => s2c = <<>> /\ Spared

PlaceInv ==
  ClientInScript =>
    \/ Between
    \/ \E k \in 0 .. Len(script) : Requested(k)
    \/ InBatch
    \/ \E k \in 0 .. Len(script) : Finished(k)
    \/ Alone

IInv == Types /\ ClientInv /\ ServerInv /\ ToServerInv /\ BeforeInv /\ PlaceInv

(***************************************************************************)
(* Facts about the script and the messages.                                *)
(***************************************************************************)
\* The script as a sequence of kinds.
LEMMA ScriptType ==
  ASSUME TypeOK
  PROVE  /\ script \in Seq(Kind) /\ Len(script) \in Nat /\ Len(script) >= 1
         /\ \A e \in 1 .. Len(script) : script[e] \in Kind
  <1>1. PICK n \in 1 .. MaxEvents : script \in [1 .. n -> Kind]
    BY DEF TypeOK
  <1>2. n \in Nat /\ n >= 1
    BY <1>1, MaxEventsAssumption
  <1>3. script \in Seq(Kind) /\ Len(script) = n
    BY <1>1, <1>2
  <1>4. QED
    BY <1>2, <1>3

\* IsPacket of the model, on the events that it is asked about.
LEMMA IsPacketPkt ==
  ASSUME TypeOK, NEW e \in 1 .. Len(script) + 1
  PROVE  IsPacket(e) <=> Pkt(e)
  BY ScriptType DEF IsPacket, Pkt, Ended

LEMMA LastPkt ==
  ASSUME TypeOK, NEW e \in 0 .. Len(script)
  PROVE  /\ Last(e) \in Packet <=> Pkt(e)
         /\ Last(e) \in Kind \cup {"INVALID_EVENT"}
  BY ScriptType DEF Last, Pkt, Packet, Kind

LEMMA MessageTypes ==
  /\ Starting \in Message /\ Ready \in Message /\ Warning \in Message
  /\ \A k \in Nat : Start(k) \in Message /\ Done(k) \in Message /\ Failed(k) \in Message
  /\ \A i \in 1 .. Len(Setup) : Plain(Setup[i]) \in Message
  /\ Len(Setup) = 4
  <1>1. /\ Starting \in Message /\ Ready \in Message /\ Warning \in Message
        /\ \A k \in Nat : Start(k) \in Message /\ Done(k) \in Message /\ Failed(k) \in Message
    BY DEF Starting, Ready, Warning, Start, Done, Failed, Plain, Msg, Message, Op
  <1>2. \A i \in 1 .. Len(Setup) : Setup[i] \in Op
    BY DEF Setup, Op
  <1>3. \A o \in Op : Plain(o) \in Message
    BY DEF Plain, Msg, Message
  <1>4. Len(Setup) = 4
    BY DEF Setup
  <1>5. QED
    BY <1>1, <1>2, <1>3, <1>4

\* The queues of one or two messages.
LEMMA ShortQueues ==
  ASSUME NEW a, NEW b
  PROVE  /\ Append(<<>>, a) = <<a>> /\ Append(<<a>>, b) = <<a, b>>
         /\ Head(<<a>>) = a /\ Tail(<<a>>) = <<>>
         /\ Head(<<a, b>>) = a /\ Tail(<<a, b>>) = <<b>>
         /\ <<a>> # <<>> /\ <<a, b>> # <<>>
  <1>1. Append(<<>>, a) = <<a>>
    OBVIOUS
  <1>2. Append(<<a>>, b) = <<a, b>>
    <2>1. <<a>> \in Seq({a, b}) /\ <<a, b>> \in Seq({a, b}) /\ Len(<<a>>) = 1 /\ Len(<<a, b>>) = 2
      OBVIOUS
    <2>2. Append(<<a>>, b) \in Seq({a, b}) /\ Len(Append(<<a>>, b)) = 2
      BY <2>1
    <2>3. \A i \in 1 .. 2 : Append(<<a>>, b)[i] = <<a, b>>[i]
      BY <2>1
    <2>4. QED
      BY <2>1, <2>2, <2>3, SeqEqual
  <1>3. Head(<<a>>) = a
    OBVIOUS
  <1>4. Tail(<<a>>) = <<>>
    OBVIOUS
  <1>5. Head(<<a, b>>) = a
    OBVIOUS
  <1>6. Tail(<<a, b>>) = <<b>>
    OBVIOUS
  <1>7. <<a>> # <<>> /\ <<a, b>> # <<>>
    OBVIOUS
  <1>8. QED
    BY <1>1, <1>2, <1>3, <1>4, <1>5, <1>6, <1>7

LEMMA AppendWarning ==
  ASSUME NEW s \in Seq(Message), Warnings(s)
  PROVE  Append(s, Warning) \in Seq(Message) /\ Warnings(Append(s, Warning))
  <1>1. Append(s, Warning) \in Seq(Message) /\ Len(Append(s, Warning)) = Len(s) + 1
    BY MessageTypes
  <1>2. QED
    BY <1>1 DEF Warnings

LEMMA AppendLast ==
  ASSUME NEW s \in Seq(Message), Warnings(s), NEW m \in Message
  PROVE  Append(s, m) \in Seq(Message) /\ WarningsThen(Append(s, m), m)
  BY DEF Warnings, WarningsThen

LEMMA TailWarnings ==
  ASSUME NEW s \in Seq(Message), Warnings(s), s # <<>>
  PROVE  Tail(s) \in Seq(Message) /\ Warnings(Tail(s)) /\ Head(s) = Warning
  BY DEF Warnings

LEMMA TailThen ==
  ASSUME NEW s \in Seq(Message), NEW m, WarningsThen(s, m), s # <<>>
  PROVE  /\ Tail(s) \in Seq(Message)
         /\ \/ Head(s) = Warning /\ WarningsThen(Tail(s), m)
            \/ Head(s) = m /\ Tail(s) = <<>>
  <1>1. CASE Len(s) = 1
    <2>1. Head(s) = m /\ Tail(s) \in Seq(Message) /\ Len(Tail(s)) = 0
      BY <1>1 DEF WarningsThen
    <2>2. Tail(s) = <<>>
      BY <2>1, EmptySeq
    <2>3. QED
      BY <2>1, <2>2
  <1>2. CASE Len(s) > 1
    <2>1. /\ Tail(s) \in Seq(Message) /\ Len(Tail(s)) = Len(s) - 1
          /\ \A i \in 1 .. Len(s) - 1 : Tail(s)[i] = s[i + 1]
      BY <1>2
    <2>2. Head(s) = Warning
      BY <1>2 DEF WarningsThen
    <2>3. Tail(s)[Len(s) - 1] = m
      BY <1>2, <2>1 DEF WarningsThen
    <2>4. \A i \in 1 .. Len(s) - 2 : Tail(s)[i] = Warning
      BY <1>2, <2>1 DEF WarningsThen
    <2>5. QED
      BY <1>2, <2>1, <2>2, <2>3, <2>4 DEF WarningsThen
  <1>3. QED
    BY <1>1, <1>2 DEF WarningsThen

\* The numbers are numbers.
LEMMA Numbers ==
  ASSUME IInv
  PROVE  /\ Len(script) \in Nat /\ Len(script) >= 1 /\ Ended = Len(script) + 1
         /\ cnum \in 0 .. Len(script) /\ snum \in 0 .. Len(script)
         /\ cevent \in 0 .. Ended /\ sevent \in 0 .. Ended
         /\ CPos \in 0 .. Ended /\ SPos \in 0 .. Ended
         /\ badEvent \in 0 .. Len(script)
  <1>1. Len(script) \in Nat /\ Len(script) >= 1
    BY ScriptType DEF IInv, Types
  <1>2. QED
    BY <1>1 DEF IInv, Types, TypeOK, Ended, CPos, SPos

\* The connection has just been made.
LEMMA InitIInv == ASSUME Init PROVE IInv
  <1> USE DEF Init
  <1>1. TypeOK
    <2>1. PICK n \in 1 .. MaxEvents : script \in [1 .. n -> Kind]
      OBVIOUS
    <2>2. n \in Nat /\ n >= 1 /\ Len(script) = n
      BY <2>1, MaxEventsAssumption
    <2>3. Len(Setup) = 4
      BY MessageTypes
    <2>4. QED
      BY <2>1, <2>2, <2>3 DEF TypeOK, Outcomes
  <1>2. Len(script) \in Nat /\ Len(script) >= 1 /\ Len(Setup) = 4 /\ Len(<<>>) = 0
    BY <1>1, ScriptType, MessageTypes
  <1>3. Types
    BY <1>1, EmptySeq DEF Types
  <1>4. ClientInv /\ ServerInv /\ BeforeInv
    BY <1>2 DEF ClientInv, ServerInv, BeforeInv, ClientInScript, Last, ServerOpen, ClientOpen
  <1>5. ToServerInv
    BY <1>2 DEF ToServerInv, SetupUnread, ServerInScript
  <1>6. PlaceInv
    BY DEF PlaceInv, ClientInScript
  <1>7. QED
    BY <1>3, <1>4, <1>5, <1>6 DEF IInv

(***************************************************************************)
(* The client.                                                             *)
(***************************************************************************)
\* The client ends, where it is, having read a message or not: the server goes
\* on with what it has been sent.
LEMMA ClientEndsInv ==
  ASSUME IInv, ClientOpen, outcome' \in Outcomes \ {"running", "bad_server"},
         outcome' = "passed" => cpc = "end",
         outcome' = "local_error" => cpc \in {"init_command", "run_event", "end"},
         outcome' = "connection" => ~ServerOpen /\ sresult # "reported",
         s2c' \in Seq(Message),
         UNCHANGED <<conf, c2s, cpc, csetup, cevent, clast, cnum, sVars, log>>
  PROVE  IInv'
  <1> USE DEF IInv, conf, sVars, ClientOpen, ServerOpen
  <1>1. Types'
    BY DEF Types, TypeOK
  <1>2. ClientInv'
    BY DEF ClientInv, Last, ClientInScript, Pkt, Ended
  <1>3. ServerInv'
    BY DEF ServerInv, Last, Pkt
  <1>4. ToServerInv'
    BY DEF ToServerInv, ServerListens, SetupUnread, ClientInScript, ServerInScript
  <1>5. BeforeInv'
    BY DEF BeforeInv, ClientInScript
  <1>6. PlaceInv'
    <2> SUFFICES ASSUME ClientInScript PROVE PlaceInv'
      BY DEF PlaceInv, ClientInScript
    <2> USE DEF Pkt, CPos, SPos, Ended, AllPackets, NoPackets
    <2>1. CASE Between
      <3>1. Between'
        BY <2>1 DEF Spared, Between, NoStart
      <3>2. QED
        BY <3>1 DEF PlaceInv
    <2>2. ASSUME NEW k \in 0 .. Len(script), Requested(k) PROVE PlaceInv'
      <3>1. Requested(k)'
        BY <2>2 DEF Requested
      <3>2. QED
        BY <3>1 DEF PlaceInv
    <2>3. CASE InBatch
      <3>1. InBatch'
        BY <2>3 DEF InBatch, ServerInScript
      <3>2. QED
        BY <3>1 DEF PlaceInv
    <2>4. ASSUME NEW k \in 0 .. Len(script), Finished(k) PROVE PlaceInv'
      <3>1. Finished(k)'
        BY <2>4 DEF Finished
      <3>2. QED
        BY <3>1 DEF PlaceInv
    <2>5. CASE Alone
      <3>1. Alone'
        BY <2>5 DEF Alone
      <3>2. QED
        BY <3>1 DEF PlaceInv
    <2>6. QED
      BY <2>1, <2>2, <2>3, <2>4, <2>5 DEF PlaceInv
  <1>7. QED
    BY <1>1, <1>2, <1>3, <1>4, <1>5, <1>6

\* One more setup message, to a server that may be gone.
LEMMA ClientSetupInv == ASSUME IInv, wire_client_init PROVE IInv'
  <1> USE DEF IInv, conf, sVars, wire_client_init, ClientAt, ClientOpen, ServerOpen, ClientSends
  <1>0. /\ Len(Setup) = 4 /\ csetup \in 0 .. 3 /\ Plain(Setup[csetup + 1]) \in Message
        /\ c2s \in Seq(Message)
    BY MessageTypes DEF ClientInv, Types, TypeOK
  <1>1. Types'
    <2>1. c2s' \in Seq(Message)
      BY <1>0
    <2>2. csetup' \in 0 .. Len(Setup) /\ cpc' \in {"setup", "receive_server_ready"}
      BY <1>0
    <2>3. QED
      BY <2>1, <2>2 DEF Types, TypeOK
  <1>2. ClientInv'
    BY <1>0 DEF ClientInv, Last, ClientInScript, Pkt, Ended
  <1>3. ServerInv'
    BY DEF ServerInv, Last, Pkt
  <1>4. ToServerInv'
    <2> SUFFICES ASSUME ServerListens, spc = "setup" PROVE SetupUnread'
      BY <1>0 DEF ToServerInv, ServerListens, ServerInScript, ClientInScript
    <2>1. c2s' = Append(c2s, Plain(Setup[csetup + 1])) /\ SetupUnread
      BY DEF ServerListens, ToServerInv
    <2>2. ssetup \in 0 .. 4
      BY <1>0 DEF Types, TypeOK
    <2>3. /\ Len(c2s') = Len(c2s) + 1
          /\ c2s'[Len(c2s) + 1] = Plain(Setup[csetup + 1])
          /\ \A i \in 1 .. Len(c2s) : c2s'[i] = c2s[i]
      BY <1>0, <2>1
    <2>4. \A i \in 1 .. Len(c2s') : c2s'[i] = Plain(Setup[ssetup + i])
      <3> SUFFICES ASSUME NEW i \in 1 .. Len(c2s') PROVE c2s'[i] = Plain(Setup[ssetup + i])
        OBVIOUS
      <3>1. CASE i = Len(c2s) + 1
        <4>1. ssetup + i = csetup + 1
          BY <1>0, <2>1, <2>2, <3>1 DEF SetupUnread
        <4>2. QED
          BY <2>3, <3>1, <4>1
      <3>2. CASE i \in 1 .. Len(c2s)
        BY <2>1, <2>3, <3>2 DEF SetupUnread
      <3>3. QED
        BY <1>0, <2>3, <3>1, <3>2
    <2>5. QED
      BY <1>0, <2>1, <2>2, <2>3, <2>4 DEF SetupUnread
  <1>5. BeforeInv'
    BY DEF BeforeInv, ClientInScript
  <1>6. PlaceInv'
    BY DEF PlaceInv, ClientInScript
  <1>7. QED
    BY <1>1, <1>2, <1>3, <1>4, <1>5, <1>6

\* The answer to the setup is WIRE_SERVER_READY.
LEMMA ClientReadyInv == ASSUME IInv, wire_client_receive_server_ready PROVE IInv'
  <1> USE DEF IInv, conf, sVars, wire_client_receive_server_ready, ClientAt, ClientOpen, ServerOpen, ClientReads
  <1>0. s2c = <<Ready>> /\ spc = "receive_client_starting" /\ daemon = "alive"
    BY DEF BeforeInv, ClientInScript
  <1>8. Head(s2c) = Ready /\ Tail(s2c) = <<>>
    BY <1>0
  <1>9. /\ s2c' = <<>> /\ cpc' = "init_command"
        /\ UNCHANGED <<c2s, csetup, cevent, clast, cnum, outcome, spc, daemon, sresult, snum, ssetup, slast, sevent, log, script, badEvent>>
    BY <1>8 DEF Ready, Plain, Msg
  <1>1. Types'
    BY <1>9, EmptySeq DEF Types, TypeOK
  <1>2. ClientInv'
    BY <1>9 DEF ClientInv, Last, ClientInScript, Pkt, Ended
  <1>3. ServerInv'
    BY <1>9 DEF ServerInv, Last, Pkt
  <1>4. ToServerInv'
    BY <1>0, <1>9 DEF ToServerInv, ServerListens, ServerInScript, ClientInScript
  <1>5. BeforeInv'
    BY <1>0, <1>9 DEF BeforeInv, ClientInScript
  <1>6. PlaceInv'
    BY <1>9 DEF PlaceInv, ClientInScript
  <1>7. QED
    BY <1>1, <1>2, <1>3, <1>4, <1>5, <1>6

\* The init command succeeds.
LEMMA InitCommandInv == ASSUME IInv, ClientAt("init_command"), cpc' = "send_client_starting",
         UNCHANGED <<conf, c2s, s2c, csetup, cevent, clast, cnum, outcome, sVars, log>> PROVE IInv'
  <1> USE DEF IInv, conf, sVars, ClientAt, ClientOpen, ServerOpen
  <1>1. Types'
    BY DEF Types, TypeOK
  <1>2. ClientInv'
    BY DEF ClientInv, Last, ClientInScript, Pkt, Ended
  <1>3. ServerInv'
    BY DEF ServerInv, Last, Pkt
  <1>4. ToServerInv'
    BY DEF ToServerInv, ServerListens, ServerInScript, ClientInScript, SetupUnread
  <1>5. BeforeInv'
    BY DEF BeforeInv, ClientInScript
  <1>6. PlaceInv'
    BY DEF PlaceInv, ClientInScript
  <1>7. QED
    BY <1>1, <1>2, <1>3, <1>4, <1>5, <1>6

\* The client starts the script: neither side has moved yet.
LEMMA StartingInv == ASSUME IInv, wire_client_send_client_starting PROVE IInv'
  <1> USE DEF IInv, conf, sVars, wire_client_send_client_starting, ClientAt, ClientOpen, ServerOpen, ClientSends
  <1>0. /\ spc = "receive_client_starting" /\ daemon = "alive" /\ c2s = <<>> /\ s2c = <<>>
        /\ snum = 0 /\ cnum = 0 /\ cevent = 0 /\ log = <<>> /\ sresult = "running"
    BY DEF BeforeInv, ClientInScript, ToServerInv, ServerListens, ClientInv, ServerInv
  <1>8. c2s' = <<Starting>> /\ c2s' \in Seq(Message)
    <2>1. c2s' = Append(<<>>, Starting)
      BY <1>0 DEF Starting
    <2>2. QED
      BY <2>1, MessageTypes, ShortQueues
  <1>9. Len(script) \in Nat /\ Len(script) >= 1
    BY Numbers
  <1>1. Types'
    BY <1>8 DEF Types, TypeOK
  <1>2. ClientInv'
    BY <1>0 DEF ClientInv, Last, ClientInScript, Pkt, Ended
  <1>3. ServerInv'
    BY DEF ServerInv, Last, Pkt
  <1>4. ToServerInv'
    BY <1>0, <1>8 DEF ToServerInv, ServerListens, ServerInScript, ClientInScript
  <1>5. BeforeInv'
    BY DEF BeforeInv, ClientInScript
  <1>6. PlaceInv'
    <2>1. CPos' = 0 /\ SPos' = 0
      BY <1>0 DEF CPos, SPos
    <2>2. Between'
      <3>1. Len(<<>>) = 0
        OBVIOUS
      <3>2. NoPackets(CPos + 1, SPos)' /\ NoPackets(SPos + 1, CPos)' /\ ~Pkt(CPos)' /\ ~Pkt(SPos)'
        BY <1>9, <2>1 DEF NoPackets, Pkt
      <3>3. QED
        BY <1>0, <1>8, <3>1, <3>2 DEF Spared, Between, NoStart
    <2>3. QED
      BY <2>2 DEF PlaceInv
  <1>7. QED
    BY <1>1, <1>2, <1>3, <1>4, <1>5, <1>6

\* What the client has walked past changes only with its position; its place is
\* kept when it moves without counting an event.
LEMMA ClientMovesInv ==
  ASSUME IInv, ClientInScript, ClientInScript', ClientOpen, cpc # "end", cpc' # "end",
         Len(log') = IF cpc' = "run_event" THEN cnum - 1
                     ELSE IF cpc = "run_event" THEN cnum ELSE Len(log),
         cpc = "run_event" \/ cpc' # "run_event", cpc = "run_event" \/ log' = log,
         UNCHANGED <<conf, c2s, s2c, csetup, clast, cnum, outcome, sVars>>
  PROVE  PlaceInv' /\ ToServerInv' /\ BeforeInv'
  <1> USE DEF IInv, conf, sVars, ClientOpen, ServerOpen
  <1>1. ToServerInv'
    BY DEF ToServerInv, ServerListens, ServerInScript, ClientInScript, SetupUnread
  <1>2. BeforeInv'
    BY DEF BeforeInv
  <1>3. PlaceInv'
    <2> USE DEF Pkt, CPos, SPos, Ended, AllPackets, NoPackets
    <2>1. CASE Between
      <3>1. Between'
        BY <2>1 DEF Spared, Between, NoStart
      <3>2. QED
        BY <3>1 DEF PlaceInv
    <2>2. cpc = "run_event" => Between
      BY DEF ClientInv, PlaceInv, Requested, InBatch, Finished, Alone
    <2>3. ASSUME cpc # "run_event", NEW k \in 0 .. Len(script), Requested(k) PROVE PlaceInv'
      <3>1. Requested(k)'
        BY <2>3 DEF Spared, Requested
      <3>2. QED
        BY <3>1 DEF PlaceInv
    <2>4. CASE InBatch /\ cpc # "run_event"
      <3>1. InBatch'
        BY <2>4 DEF InBatch, ServerInScript
      <3>2. QED
        BY <3>1 DEF PlaceInv
    <2>5. ASSUME cpc # "run_event", NEW k \in 0 .. Len(script), Finished(k) PROVE PlaceInv'
      <3>1. Finished(k)'
        BY <2>5 DEF Spared, Finished
      <3>2. QED
        BY <3>1 DEF PlaceInv
    <2>6. CASE Alone /\ cpc # "run_event"
      <3>1. Alone'
        BY <2>6 DEF Spared, Alone
      <3>2. QED
        BY <3>1 DEF PlaceInv
    <2>7. QED
      BY <2>1, <2>2, <2>3, <2>4, <2>5, <2>6 DEF PlaceInv
  <1>4. QED
    BY <1>1, <1>2, <1>3

\* The client looks at the next event.
LEMMA ClientGetNextInv ==
  ASSUME IInv, client_get_next_event, outcome' = outcome PROVE IInv'
  <1> USE DEF IInv, conf, sVars, client_get_next_event, ClientAt, ClientOpen, ServerOpen,
      ClientDies
  <1>0. /\ cevent' = cevent + 1 /\ cpc' = "next_event" /\ cevent = cnum
        /\ UNCHANGED <<csetup, clast, cnum>>
    BY DEF ClientInv
  <1>8. cnum \in 0 .. Len(script) /\ Len(script) \in Nat
    BY Numbers
  <1>1. Types'
    BY <1>0, <1>8 DEF Types, TypeOK
  <1>2. ClientInv'
    BY <1>0, <1>8 DEF ClientInv, Last, ClientInScript, Pkt, Ended
  <1>3. ServerInv'
    BY DEF ServerInv, Last, Pkt
  <1>4. PlaceInv' /\ ToServerInv' /\ BeforeInv'
    BY <1>0, ClientMovesInv DEF ClientInScript
  <1>5. QED
    BY <1>1, <1>2, <1>3, <1>4

\* A system call, a command or code was run: the next event has happened.
LEMMA RunLocalInv ==
  ASSUME IInv, run_local_event, outcome' = outcome PROVE IInv'
  <1> USE DEF IInv, conf, sVars, run_local_event, ClientAt, ClientOpen, ServerOpen, ClientDies
  <1>0. /\ cpc' = "get_next_event" /\ log' = Append(log, cevent) /\ cevent = cnum
        /\ UNCHANGED <<csetup, cevent, clast, cnum>>
    BY DEF ClientInv
  <1>8. /\ cnum \in 0 .. Len(script) /\ Len(script) \in Nat /\ ~Pkt(cnum) /\ cnum # 0
    BY Numbers DEF ClientInv
  <1>9. Between
    BY DEF PlaceInv, ClientInScript, ClientInv, Requested, InBatch, Finished, Alone, CPos
  <1>10. Len(log) = cnum - 1 /\ log \in Seq(Nat)
    BY <1>9 DEF Between, Types
  <1>11. log' \in Seq(Nat) /\ Len(log') = cnum
    BY <1>0, <1>8, <1>10
  <1>1. Types'
    BY <1>0, <1>8, <1>11 DEF Types, TypeOK
  <1>2. ClientInv'
    BY <1>0, <1>8 DEF ClientInv, Last, ClientInScript, Pkt, Ended
  <1>3. ServerInv'
    BY DEF ServerInv, Last, Pkt
  <1>4. PlaceInv' /\ ToServerInv' /\ BeforeInv'
    BY <1>0, <1>11, ClientMovesInv DEF ClientInScript
  <1>5. QED
    BY <1>1, <1>2, <1>3, <1>4

\* The end of wire_client_next_event: the position moves by one.
LEMMA ClientCountsEffect ==
  ASSUME IInv, ClientOpen, cpc \in {"next_event", "receive_packets_done"}, ClientCounts,
         UNCHANGED <<conf, csetup, cevent, outcome, sVars>>
  PROVE  /\ CPos = cnum /\ CPos' = cnum + 1 /\ ClientInScript /\ ClientInScript'
         /\ ClientInv'
         /\ TypeOK'
         /\ cpc' = "run_event" => cnum' = cnum + 1
         /\ cpc' \notin {"run_event", "end"} => Pkt(cnum + 1)
         /\ cpc' \in {"run_event", "end"} => ~Pkt(cnum + 1)
         /\ cpc' \in {"get_next_event", "run_event", "end"}
         /\ cpc' # "end" => cnum' = cnum + 1
         /\ cpc' = "end" => cnum' = cnum
  <1> USE DEF conf, sVars
  <1>1. /\ Len(script) \in Nat /\ cnum \in 0 .. Len(script) /\ Ended = Len(script) + 1
        /\ cevent = cnum + 1
    BY Numbers DEF IInv, ClientInv
  <1>2. CPos = cnum /\ ClientInScript
    BY DEF CPos, ClientInScript
  <1>3. IsPacket(cevent) <=> Pkt(cnum + 1)
    BY <1>1, IsPacketPkt DEF IInv, Types
  <1>4. CASE cevent # Ended
    <2>1. /\ clast' = script[cnum + 1] /\ cnum' = cnum + 1 /\ cnum + 1 \in 1 .. Len(script)
          /\ cpc' = IF Pkt(cnum + 1) THEN "get_next_event" ELSE "run_event"
      BY <1>1, <1>3, <1>4 DEF ClientCounts
    <2>2. script[cnum + 1] \in Kind
      BY <2>1, ScriptType DEF IInv, Types
    <2>3. ClientInv'
      BY <1>1, <2>1 DEF IInv, ClientInv, Last, ClientInScript, Pkt, Ended, ClientOpen, ServerOpen
    <2>4. TypeOK'
      BY <1>1, <2>1, <2>2 DEF IInv, Types, TypeOK
    <2>5. CPos' = cnum + 1 /\ ClientInScript'
      BY <2>1 DEF CPos, ClientInScript
    <2>6. QED
      BY <1>2, <2>1, <2>3, <2>4, <2>5
  <1>5. CASE cevent = Ended
    <2>1. cpc' = "end" /\ UNCHANGED <<clast, cnum>> /\ cnum = Len(script)
      BY <1>1, <1>5 DEF ClientCounts
    <2>2. ClientInv'
      BY <1>1, <1>5, <2>1 DEF IInv, ClientInv, Last, ClientInScript, Pkt, Ended, ClientOpen, ServerOpen
    <2>3. TypeOK'
      BY <2>1 DEF IInv, Types, TypeOK
    <2>4. CPos' = cnum + 1 /\ ClientInScript'
      BY <1>1, <2>1 DEF CPos, ClientInScript, Ended
    <2>5. ~Pkt(cnum + 1)
      BY <1>1, <2>1 DEF Pkt
    <2>6. QED
      BY <1>2, <2>1, <2>2, <2>3, <2>4, <2>5
  <1>6. QED
    BY <1>4, <1>5

\* The client counts an event like the one before: both are packets or both not.
LEMMA ClientCountsOn ==
  ASSUME IInv, ClientAt("next_event"), IsPacket(cevent) <=> clast \in Packet, ClientCounts,
         UNCHANGED <<conf, c2s, s2c, csetup, cevent, outcome, sVars, log>>
  PROVE  IInv'
  <1> USE DEF conf, sVars, ClientAt
  <1>1. /\ CPos = cnum /\ CPos' = cnum + 1 /\ ClientInScript /\ ClientInScript'
        /\ ClientInv' /\ TypeOK'
        /\ cpc' = "run_event" => cnum' = cnum + 1
        /\ cpc' \in {"get_next_event", "run_event", "end"}
        /\ cpc' # "end" => cnum' = cnum + 1
        /\ cpc' = "end" => cnum' = cnum
        /\ cpc' = "run_event" => ~Pkt(cnum + 1)
        /\ cpc' = "end" => ~Pkt(cnum + 1)
        /\ cpc' = "get_next_event" => Pkt(cnum + 1)
    BY ClientCountsEffect
  <1>2. /\ Len(script) \in Nat /\ cnum \in 0 .. Len(script) /\ SPos \in 0 .. Ended
        /\ Ended = Len(script) + 1 /\ cevent = cnum + 1
    BY Numbers DEF IInv, ClientInv
  <1>3. Pkt(cnum + 1) <=> Pkt(cnum)
    BY <1>2, IsPacketPkt, LastPkt DEF IInv, ClientInv, Types
  <1>4. Types' /\ ServerInv' /\ ToServerInv' /\ BeforeInv'
    BY <1>1 DEF IInv, Types, ServerInv, Last, Pkt, ClientOpen, ServerOpen, ToServerInv,
       ServerListens, ServerInScript, BeforeInv, SetupUnread
  <1>5. SPos' = SPos /\ script' = script
    BY DEF SPos, Ended
  <1>6. PlaceInv'
    <2> USE DEF Pkt, AllPackets, NoPackets, ClientOpen, ServerOpen
    <2>1. CASE Between
      <3>1. cpc' # "get_next_event"
        BY <1>1, <1>3, <2>1 DEF Between
      <3>2. ~Pkt(cnum + 1) /\ NoPackets(cnum + 2, SPos) /\ NoPackets(SPos + 1, cnum + 1)
        BY <1>1, <1>2, <1>3, <2>1 DEF Between
      <3>3. Len(log') = IF cpc' = "run_event" THEN cnum' - 1 ELSE cnum'
        <4>1. Len(log) = cnum /\ log' = log
          BY <2>1 DEF Between
        <4>2. CASE cpc' = "run_event"
          BY <1>1, <1>2, <4>1, <4>2
        <4>3. CASE cpc' = "end"
          BY <1>1, <4>1, <4>3
        <4>4. QED
          BY <1>1, <3>1, <4>2, <4>3
      <3>4. Between'
        BY <1>1, <1>2, <1>5, <2>1, <3>2, <3>3 DEF Spared, Between, NoStart
      <3>5. QED
        BY <3>4 DEF PlaceInv
    <2>2. ASSUME NEW k \in 0 .. Len(script), Requested(k) PROVE PlaceInv'
      <3>1. Pkt(cnum + 1) /\ AllPackets(k + 1, cnum + 1) /\ k \in 0 .. cnum
        BY <1>1, <1>2, <1>3, <2>2 DEF Requested
      <3>2. Requested(k)'
        BY <1>1, <1>2, <1>5, <2>2, <3>1 DEF Spared, Requested
      <3>3. QED
        BY <3>2 DEF PlaceInv
    <2>3. CASE InBatch
      <3>1. /\ Pkt(cnum + 1) /\ AllPackets(cnum + 1, SPos) /\ AllPackets(SPos, cnum + 1)
        BY <1>1, <1>2, <1>3, <2>3 DEF InBatch
      <3>2. InBatch'
        BY <1>1, <1>5, <2>3, <3>1 DEF InBatch, ServerInScript
      <3>3. QED
        BY <3>2 DEF PlaceInv
    <2>4. ASSUME NEW k \in 0 .. Len(script), Finished(k) PROVE PlaceInv'
      <3>1. Pkt(cnum + 1) /\ AllPackets(cnum + 1, k) /\ k # cnum
        BY <1>1, <1>2, <1>3, <2>4 DEF Finished
      <3>2. k \in cnum + 1 .. SPos - 1
        BY <1>1, <1>2, <2>4, <3>1 DEF Finished
      <3>3. Finished(k)'
        BY <1>1, <1>2, <1>5, <2>4, <3>1, <3>2 DEF Spared, Finished
      <3>4. QED
        BY <3>3 DEF PlaceInv
    <2>5. CASE Alone
      <3>1. Alone'
        BY <1>1, <1>3, <1>5, <2>5 DEF Spared, Alone
      <3>2. QED
        BY <3>1 DEF PlaceInv
    <2>6. QED
      BY <1>1, <2>1, <2>2, <2>3, <2>4, <2>5 DEF PlaceInv, IInv
  <1>7. QED
    BY <1>1, <1>4, <1>6 DEF IInv

\* A batch of packets starts: the client tells the server, and counts.
LEMMA ClientStartsBatch ==
  ASSUME IInv, ClientAt("next_event"), IsPacket(cevent), clast \notin Packet,
         ClientSends(Msg("WIRE_PACKETS_START", cnum, "STATUS_OK")), ClientCounts,
         UNCHANGED <<conf, s2c, csetup, cevent, outcome, sVars, log>>
  PROVE  IInv'
  <1> USE DEF conf, sVars, ClientAt
  <1>1. /\ CPos = cnum /\ CPos' = cnum + 1 /\ ClientInScript /\ ClientInScript'
        /\ ClientInv' /\ TypeOK'
        /\ cpc' \in {"get_next_event", "run_event", "end"}
        /\ cpc' \in {"run_event", "end"} => ~Pkt(cnum + 1)
        /\ cpc' # "end" => cnum' = cnum + 1
    BY ClientCountsEffect
  <1>2. /\ Len(script) \in Nat /\ cnum \in 0 .. Len(script) /\ SPos \in 0 .. Ended
        /\ Ended = Len(script) + 1 /\ cevent = cnum + 1
    BY Numbers DEF IInv, ClientInv
  <1>3. Pkt(cnum + 1) /\ ~Pkt(cnum)
    BY <1>2, IsPacketPkt, LastPkt DEF IInv, ClientInv, Types
  <1>4. Between
    BY <1>1, <1>3 DEF IInv, PlaceInv, Requested, InBatch, Finished, Alone
  <1>5. SPos' = SPos /\ script' = script
    BY DEF SPos, Ended
  <1>6. /\ SPos <= cnum /\ ~Pkt(SPos) /\ NoPackets(SPos + 1, cnum) /\ Len(log) = cnum
        /\ s2c = <<>> /\ Spared /\ sresult # "reported"
    BY <1>1, <1>2, <1>3, <1>4 DEF Between, NoPackets
  <1>7. ServerInv' /\ BeforeInv'
    BY <1>1 DEF IInv, ServerInv, Last, Pkt, ClientOpen, ServerOpen, BeforeInv
  <1>11. PICK k \in 0 .. Len(script) : k = cnum
    BY <1>2
  <1>8. CASE ServerOpen
    <2>1. c2s' = Append(c2s, Start(cnum))
      BY <1>8 DEF ClientSends, Start
    <2>2. \/ c2s = <<>> /\ c2s' = <<Start(k)>>
          \/ c2s = <<Starting>> /\ c2s' = <<Starting, Start(k)>>
      BY <1>4, <1>11, <2>1, ShortQueues DEF Between, NoStart
    <2>3. c2s' \in Seq(Message)
      BY <1>2, <2>1, MessageTypes DEF IInv, Types
    <2>4. Types'
      BY <1>1, <2>3 DEF IInv, Types
    <2>5. <<Starting>> # <<>> /\ \A n : <<Starting>> # <<Start(n)>>
      BY DEF Starting, Start, Plain, Msg
    <2>6. ToServerInv'
      <3>1. SUFFICES ASSUME ServerListens PROVE ToServerInv'
        BY DEF ToServerInv, ServerListens, ServerOpen
      <3>2. spc \notin {"setup", "parse", "send_server_ready"}
        BY <1>1, <3>1 DEF IInv, ToServerInv, ClientInScript
      <3>3. spc = "receive_client_starting" => c2s' = <<Starting, Start(k)>>
        BY <1>1, <2>2, <3>1 DEF IInv, ToServerInv, ClientInScript
      <3>4. ServerInScript => c2s' = <<Start(k)>>
        BY <2>2, <2>5, <3>1 DEF IInv, ToServerInv
      <3>5. QED
        BY <1>1, <1>5, <3>2, <3>3, <3>4 DEF ToServerInv, ServerInScript
    <2>7. Requested(k)'
      <3>1. Pkt(CPos)' /\ AllPackets(k + 1, CPos)' /\ NoPackets(SPos + 1, k)' /\ ~Pkt(SPos)'
        BY <1>1, <1>2, <1>3, <1>5, <1>6, <1>11 DEF NoPackets, AllPackets, Pkt
      <3>2. k \in 0 .. CPos' - 1 /\ SPos' <= k /\ Len(log') = k
        BY <1>1, <1>2, <1>5, <1>6, <1>11
      <3>3. QED
        BY <1>6, <2>2, <3>1, <3>2 DEF Spared, Requested
    <2>8. PlaceInv'
      BY <1>5, <2>7 DEF PlaceInv
    <2>9. QED
      BY <1>1, <1>7, <2>4, <2>6, <2>8 DEF IInv
  <1>9. CASE ~ServerOpen
    <2>1. c2s' = c2s
      BY <1>9 DEF ClientSends
    <2>2. Types'
      BY <1>1, <2>1 DEF IInv, Types
    <2>3. ToServerInv'
      BY <1>9 DEF ToServerInv, ServerListens, ServerOpen
    <2>4. Alone'
      <3>1. Pkt(CPos)' /\ ~Pkt(SPos)'
        BY <1>1, <1>3, <1>5, <1>6 DEF Pkt
      <3>2. QED
        BY <1>6, <1>9, <3>1 DEF Spared, Alone, ServerOpen
    <2>5. QED
      BY <1>1, <1>7, <2>2, <2>3, <2>4 DEF IInv, PlaceInv
  <1>10. QED
    BY <1>8, <1>9

\* A batch is over for the client: it waits for the answer.
LEMMA ClientWaits ==
  ASSUME IInv, ClientAt("next_event"), ~IsPacket(cevent), clast \in Packet,
         cpc' = "receive_packets_done",
         UNCHANGED <<conf, c2s, s2c, csetup, cevent, clast, cnum, outcome, sVars, log>>
  PROVE  IInv'
  <1> USE DEF conf, sVars, ClientAt
  <1>1. /\ Len(script) \in Nat /\ cnum \in 0 .. Len(script) /\ cevent = cnum + 1
    BY Numbers DEF IInv, ClientInv
  <1>2. ~Pkt(cnum + 1) /\ Pkt(cnum)
    BY <1>1, IsPacketPkt, LastPkt DEF IInv, ClientInv, Types
  <1>3. Types' /\ ServerInv'
    BY DEF IInv, Types, TypeOK, ServerInv, Last, Pkt, ClientOpen, ServerOpen
  <1>4. ClientInv'
    BY <1>1, <1>2 DEF IInv, ClientInv, Last, ClientInScript, Pkt, Ended, ClientOpen, ServerOpen
  <1>5. PlaceInv' /\ ToServerInv' /\ BeforeInv'
    BY ClientMovesInv DEF ClientInScript
  <1>6. QED
    BY <1>3, <1>4, <1>5 DEF IInv

\* wire_client_next_event: one of the three.
LEMMA ClientNextEventInv == ASSUME IInv, wire_client_next_event PROVE IInv'
  <1>1. CASE IsPacket(cevent) /\ clast \notin Packet
    BY <1>1, ClientStartsBatch DEF wire_client_next_event
  <1>2. CASE ~IsPacket(cevent) /\ clast \in Packet
    BY <1>2, ClientWaits DEF wire_client_next_event
  <1>3. CASE IsPacket(cevent) <=> clast \in Packet
    BY <1>3, ClientCountsOn DEF wire_client_next_event
  <1>4. QED
    BY <1>1, <1>2, <1>3

\* The client reads a warning, or the answer it waits for.
LEMMA PacketsDoneInv ==
  ASSUME IInv, wire_client_receive_packets_done PROVE IInv'
  <1> USE DEF conf, sVars, cVars, ClientAt, wire_client_receive_packets_done, ClientReads
  <1>1. /\ Len(script) \in Nat /\ cnum \in 0 .. Len(script) /\ cevent = cnum + 1
        /\ SPos \in 0 .. Ended /\ Ended = Len(script) + 1
        /\ Pkt(cnum) /\ ~Pkt(cnum + 1) /\ CPos = cnum /\ ClientInScript
    BY Numbers DEF IInv, ClientInv, CPos, ClientInScript
  <1>2. s2c \in Seq(Message) /\ s2c # <<>> /\ s2c' = Tail(s2c)
    BY DEF IInv, Types
  <1>3. /\ Warning.op = "WIRE_PACKETS_WARN"
        /\ \A k : /\ Done(k).op = "WIRE_PACKETS_DONE" /\ Done(k).result = "STATUS_OK"
                  /\ Done(k).num_events = k
                  /\ Failed(k).op = "WIRE_PACKETS_DONE" /\ Failed(k).result = "STATUS_ERR"
    BY DEF Warning, Done, Failed, Plain, Msg
  <1>4. SPos' = SPos /\ script' = script
    BY DEF SPos, Ended
  <1>5. ASSUME Head(s2c) = Warning, UNCHANGED cVars, s2c' \in Seq(Message)
        PROVE  Types' /\ ClientInv' /\ ServerInv' /\ ToServerInv' /\ BeforeInv' /\ CPos' = CPos
    BY <1>1, <1>5 DEF IInv, Types, TypeOK, ClientInv, ServerInv, ToServerInv, BeforeInv, Last, Pkt,
       ClientInScript, ServerInScript, ServerListens, SetupUnread, Ended, ClientOpen, ServerOpen,
       CPos
  <1>6. CASE InBatch /\ sresult # "reported"
    <2>1. Tail(s2c) \in Seq(Message) /\ Warnings(Tail(s2c)) /\ Head(s2c) = Warning
      BY <1>2, <1>6, TailWarnings DEF InBatch
    <2>2. UNCHANGED cVars
      BY <1>3, <2>1
    <2>3. InBatch'
      BY <1>2, <1>4, <1>5, <1>6, <2>1, <2>2 DEF InBatch, Pkt, AllPackets, ClientOpen, ServerInScript
    <2>4. QED
      BY <1>2, <1>5, <2>1, <2>2, <2>3 DEF IInv, PlaceInv
  <1>7. CASE InBatch /\ sresult = "reported"
    <2>1. /\ Tail(s2c) \in Seq(Message)
          /\ \/ Head(s2c) = Warning /\ WarningsThen(Tail(s2c), Failed(snum))
             \/ Head(s2c) = Failed(snum) /\ Tail(s2c) = <<>>
      BY <1>2, <1>7, TailThen DEF InBatch
    <2>2. CASE Head(s2c) = Warning /\ WarningsThen(Tail(s2c), Failed(snum))
      <3>1. UNCHANGED cVars
        BY <1>3, <2>2
      <3>2. InBatch'
        BY <1>2, <1>4, <1>5, <1>7, <2>1, <2>2, <3>1
           DEF InBatch, Pkt, AllPackets, ClientOpen, ServerInScript
      <3>3. QED
        BY <1>2, <1>5, <2>1, <2>2, <3>1, <3>2 DEF IInv, PlaceInv
    <2>3. CASE Head(s2c) = Failed(snum)
      <3>1. ClientDies("server_error")
        BY <1>3, <2>3
      <3>2. QED
        BY <1>2, <2>1, <3>1, ClientEndsInv DEF ClientDies, Outcomes
    <2>4. QED
      BY <2>1, <2>2, <2>3
  <1>8. ASSUME NEW k \in 0 .. Len(script), Finished(k) PROVE IInv'
    <2>1. /\ Tail(s2c) \in Seq(Message)
          /\ \/ Head(s2c) = Warning /\ WarningsThen(Tail(s2c), Done(k))
             \/ Head(s2c) = Done(k) /\ Tail(s2c) = <<>>
      BY <1>2, <1>8, TailThen DEF Finished
    <2>2. CASE Head(s2c) = Warning /\ WarningsThen(Tail(s2c), Done(k))
      <3>1. UNCHANGED cVars
        BY <1>3, <2>2
      <3>2. Finished(k)'
        BY <1>2, <1>4, <1>5, <1>8, <2>1, <2>2, <3>1
           DEF Spared, Finished, Pkt, AllPackets, NoPackets, ClientOpen
      <3>3. QED
        BY <1>2, <1>4, <1>5, <2>1, <2>2, <3>1, <3>2 DEF IInv, PlaceInv
    <2>3. CASE Head(s2c) = Done(k) /\ Tail(s2c) = <<>>
      <3>1. k = cnum
        BY <1>1, <1>8 DEF Finished, AllPackets, NoPackets
      <3>2. ClientCounts /\ UNCHANGED <<csetup, cevent, outcome>>
        BY <1>3, <2>3, <3>1
      <3>3. /\ CPos' = cnum + 1 /\ ClientInScript' /\ ClientInv' /\ TypeOK'
            /\ cpc' \in {"get_next_event", "run_event", "end"}
            /\ cpc' \notin {"run_event", "end"} => Pkt(cnum + 1)
            /\ cpc' # "end" => cnum' = cnum + 1
            /\ cpc' = "end" => cnum' = cnum
        BY <3>2, ClientCountsEffect
      <3>4. cpc' \in {"run_event", "end"}
        BY <1>1, <3>3
      <3>5. Types' /\ ServerInv' /\ ToServerInv' /\ BeforeInv'
        BY <1>1, <1>2, <2>1, <3>2, <3>3 DEF IInv, Types, ServerInv, Last, Pkt, ClientOpen, ServerOpen,
           ToServerInv, ServerListens, ServerInScript, BeforeInv, SetupUnread
      <3>6. ~Pkt(CPos)' /\ ~Pkt(SPos)' /\ NoPackets(CPos + 1, SPos)' /\ NoPackets(SPos + 1, CPos)'
        BY <1>1, <1>4, <1>8, <3>1, <3>3 DEF Finished, Pkt, NoPackets
      <3>7. Len(log') = IF cpc' = "run_event" THEN cnum' - 1 ELSE cnum'
        BY <1>1, <1>8, <3>1, <3>3, <3>4 DEF Finished
      <3>8. Between'
        BY <1>2, <1>8, <2>3, <3>2, <3>6, <3>7 DEF Spared, Between, NoStart, Finished, ClientOpen
      <3>9. QED
        BY <3>3, <3>5, <3>8 DEF IInv, PlaceInv
    <2>4. QED
      BY <2>1, <2>2, <2>3
  <1>9. QED
    <2>1. ~Between /\ ~Alone /\ \A k \in 0 .. Len(script) : ~Requested(k)
      BY <1>1, <1>2 DEF Between, Alone, Requested
    <2>2. QED
      BY <1>1, <1>6, <1>7, <1>8, <2>1 DEF IInv, PlaceInv

\* The client blames the connection only when the server is gone without a word.
LEMMA ConnectionErrorInv == ASSUME IInv, client_connection_error PROVE IInv'
  <1> USE DEF client_connection_error
  <1>1. sresult # "reported"
    <2> SUFFICES ASSUME sresult = "reported" PROVE FALSE
      OBVIOUS
    <2>1. ClientInScript
      BY DEF IInv, BeforeInv
    <2>2. InBatch
      BY <2>1 DEF IInv, PlaceInv, Between, Requested, Finished, Alone
    <2>3. s2c # <<>> /\ Pkt(CPos)
      BY <2>2 DEF InBatch, WarningsThen
    <2>4. cnum \in 0 .. Len(script) /\ Len(script) \in Nat
      BY Numbers
    <2>5. cpc = "next_event" /\ clast \notin Packet
      BY <2>1, <2>3 DEF ClientWriting, ClientReading, ClientInScript
    <2>6. QED
      BY <2>3, <2>4, <2>5, LastPkt DEF IInv, ClientInv, Types, CPos
  <1>2. QED
    BY <1>1, ClientEndsInv DEF ClientDies, Outcomes, conf, sVars, IInv, Types

\* Every step of the client, and its death.
LEMMA ClientInvs == ASSUME IInv, ClientStep \/ client_killed PROVE IInv'
  <1> USE DEF conf, sVars, ClientDies
  <1>0. s2c \in Seq(Message)
    BY DEF IInv, Types
  <1>1. CASE client_killed
    BY <1>0, <1>1, ClientEndsInv DEF client_killed, Outcomes
  <1>2. CASE run_init_command
    <2>1. CASE outcome' = "local_error"
      BY <1>0, <1>2, <2>1, ClientEndsInv DEF run_init_command, Outcomes, ClientAt, ClientOpen
    <2>2. CASE outcome' # "local_error"
      BY <1>2, <2>2, InitCommandInv DEF run_init_command
    <2>3. QED
      BY <2>1, <2>2
  <1>3. CASE client_get_next_event
    <2>1. CASE outcome' = "script_error"
      BY <1>0, <1>3, <2>1, ClientEndsInv DEF client_get_next_event, Outcomes, ClientAt, ClientOpen
    <2>2. CASE outcome' # "script_error"
      BY <1>3, <2>2, ClientGetNextInv DEF client_get_next_event
    <2>3. QED
      BY <2>1, <2>2
  <1>4. CASE run_local_event
    <2>1. CASE outcome' = "local_error"
      BY <1>0, <1>4, <2>1, ClientEndsInv DEF run_local_event, Outcomes, ClientAt, ClientOpen
    <2>2. CASE outcome' # "local_error"
      BY <1>4, <2>2, RunLocalInv DEF run_local_event
    <2>3. QED
      BY <2>1, <2>2
  <1>5. CASE run_script_end
    BY <1>0, <1>5, ClientEndsInv DEF run_script_end, Outcomes, ClientAt
  <1>6. QED
    BY <1>1, <1>2, <1>3, <1>4, <1>5, ConnectionErrorInv, ClientSetupInv, ClientReadyInv, StartingInv,
       ClientNextEventInv, PacketsDoneInv DEF ClientStep

(***************************************************************************)
(* The server.                                                             *)
(***************************************************************************)
\* A server that is busy with a packet is in a batch, and so is the client.
LEMMA BusyInBatch ==
  ASSUME IInv, ServerOpen, spc \in {"run_packet", "send_warning", "send_error"}
  PROVE  InBatch /\ ClientInScript /\ Pkt(snum) /\ SPos = snum /\ sevent = snum /\ sresult = "running"
  <1>1. Pkt(snum) /\ sevent = snum /\ sresult = "running" /\ SPos = snum
    BY DEF IInv, ServerInv, SPos
  <1>2. ClientInScript
    BY DEF IInv, ToServerInv, ServerListens, ServerInScript
  <1>3. InBatch
    BY <1>1, <1>2 DEF IInv, PlaceInv, Between, Requested, Finished, Alone
  <1>4. QED
    BY <1>1, <1>2, <1>3

\* A client that has passed the test is at the end, and no packet is left.
LEMMA PassedBetween ==
  ASSUME IInv, outcome = "passed"
  PROVE  Between /\ ClientInScript /\ PassedTestSparesDaemon
  <1>1. cpc = "end" /\ ClientInScript /\ CPos = Len(script) + 1 /\ Len(script) \in Nat
    BY Numbers DEF IInv, ClientInv, ClientInScript, CPos, Ended
  <1>2. ~Pkt(CPos)
    BY <1>1 DEF Pkt
  <1>3. Between
    BY <1>1, <1>2 DEF IInv, PlaceInv, Requested, InBatch, Finished, Alone
  <1>4. Spared /\ ~Pkt(SPos)
    BY <1>3 DEF Between
  <1>5. ~ServerWriting
    <2> SUFFICES ASSUME ServerWriting PROVE FALSE
      OBVIOUS
    <2>1. ServerOpen /\ ServerListens /\ sresult = "running" /\ SPos = snum
      BY <1>4 DEF ServerWriting, ServerOpen, Spared, ServerListens, IInv, ServerInv, SPos
    <2>2. spc # "send_server_ready"
      BY <1>1, <2>1 DEF IInv, ToServerInv
    <2>3. spc \notin {"send_warning", "send_error"}
      BY <1>4, <2>1, BusyInBatch
    <2>4. slast \in Packet
      BY <2>2, <2>3 DEF ServerWriting
    <2>5. QED
      BY <1>4, <2>1, <2>4, Numbers, LastPkt DEF IInv, ServerInv, Types
  <1>6. ~ServerAt("run_packet")
    BY <1>4, BusyInBatch DEF ServerAt
  <1>7. QED
    BY <1>1, <1>3, <1>4, <1>5, <1>6 DEF PassedTestSparesDaemon

\* The thread gives up, closes the connection, or dies with the daemon: what it
\* has found out and sent stays.
LEMMA ServerEndsInv ==
  ASSUME IInv, ServerOpen,
         \/ spc' = "closed" /\ spc = "error_done" /\ UNCHANGED <<sresult, daemon>>
         \/ /\ spc' = "error_done" /\ daemon' = daemon
            /\ sresult' \in {"connection", "parse_error", "script_error"}
            /\ spc # "error_done"
            /\ sresult' = "connection" => ~ClientOpen
            /\ sresult' = "parse_error" => spc = "parse"
            /\ sresult' = "script_error" => spc = "get_next_event"
         \/ /\ UNCHANGED <<spc, sresult>>
            /\ daemon' \in {"no_netdev", "late_packet", "sigpipe", "teardown"}
            /\ \/ daemon' # "teardown" /\ ServerWriting /\ ~ClientOpen
               \/ daemon' # "teardown" /\ spc \in {"parse", "run_packet"}
               \/ daemon' = "teardown" /\ spc = "error_done",
         UNCHANGED <<conf, c2s, s2c, cVars, ssetup, sevent, slast, snum, log>>
  PROVE  IInv'
  <1> USE DEF conf, cVars
  <1>0. /\ spc \notin {"error_done", "closed"} => sresult = "running"
        /\ spc # "closed" /\ daemon = "alive"
        /\ SPos' = SPos /\ CPos' = CPos /\ script' = script
    BY DEF IInv, ServerInv, ServerOpen, SPos, CPos, Ended
  <1>1. Types'
    BY DEF IInv, Types, TypeOK
  <1>2. ClientInv'
    BY <1>0 DEF IInv, ClientInv, ServerOpen, ClientInScript, Last, Pkt, Ended
  <1>3. ServerInv'
    BY <1>0 DEF IInv, ServerInv, ClientOpen, Last, Pkt
  <1>4. ToServerInv'
    BY DEF ToServerInv, ServerListens, ServerOpen
  <1>5. BeforeInv'
    <2>1. ~ClientInScript => sresult' \notin {"done", "reported"}
      BY DEF IInv, BeforeInv
    <2>2. ClientOpen /\ ~ClientInScript /\ cpc # "setup" => 
            spc \in {"setup", "parse", "error_done"} \/ UNCHANGED <<spc, daemon>>
      BY <1>0 DEF IInv, ToServerInv, ServerListens, ServerOpen, ServerInScript, ServerWriting, BeforeInv
    <2>3. QED
      BY <1>0, <2>1, <2>2 DEF IInv, BeforeInv, ClientInScript, ClientOpen
  <1>6. PlaceInv'
    <2> SUFFICES ASSUME ClientInScript PROVE PlaceInv'
      BY DEF PlaceInv, ClientInScript
    <2>0. /\ sresult' # sresult => sresult = "running" /\ sresult' # "reported"
          /\ spc # "parse"
      BY <1>0 DEF IInv, ToServerInv, ServerListens, ServerOpen, ClientInScript
    <2>9. ClientOpen /\ daemon' # daemon => Spared' \/ (InBatch /\ Pkt(SPos))
      BY <2>0, BusyInBatch DEF Spared
    <2>10. outcome = "passed" => Spared'
      BY <1>0, <2>0, PassedBetween, BusyInBatch DEF PassedTestSparesDaemon, Between, Spared
    <2>11. UNCHANGED daemon => (Spared <=> Spared')
      BY DEF Spared
    <2> USE DEF Pkt, AllPackets, NoPackets, ClientOpen
    <2>1. CASE Between
      <3>1. Between'
        BY <1>0, <2>0, <2>1, <2>9, <2>10, <2>11 DEF Between, NoStart
      <3>2. QED
        BY <3>1 DEF PlaceInv
    <2>2. ASSUME NEW k \in 0 .. Len(script), Requested(k) PROVE PlaceInv'
      <3>1. Requested(k)'
        BY <1>0, <2>0, <2>2, <2>9, <2>11 DEF Requested
      <3>2. QED
        BY <1>0, <3>1 DEF PlaceInv
    <2>3. CASE InBatch
      <3>1. InBatch'
        BY <1>0, <2>0, <2>3 DEF InBatch, ServerInScript
      <3>2. QED
        BY <3>1 DEF PlaceInv
    <2>4. ASSUME NEW k \in 0 .. Len(script), Finished(k) PROVE PlaceInv'
      <3>1. Finished(k)'
        BY <1>0, <2>0, <2>4, <2>9, <2>11 DEF Finished
      <3>2. QED
        BY <1>0, <3>1 DEF PlaceInv
    <2>5. ~Alone
      BY DEF Alone
    <2>6. QED
      BY <2>1, <2>2, <2>3, <2>4, <2>5 DEF PlaceInv, IInv
  <1>7. QED
    BY <1>1, <1>2, <1>3, <1>4, <1>5, <1>6 DEF IInv

\* The next setup message is the one that the server waits for.
LEMMA ServerSetupInv == ASSUME IInv, wire_server_receive_setup PROVE IInv'
  <1> USE DEF conf, cVars, ServerAt, ServerReads, wire_server_receive_setup
  <1>0. /\ Len(Setup) = 4 /\ csetup \in 0 .. 4 /\ ssetup \in 0 .. 3
        /\ c2s \in Seq(Message) /\ c2s # <<>> /\ sresult = "running"
        /\ SetupUnread /\ cpc \in {"setup", "receive_server_ready"} /\ snum = 0 /\ sevent = 0
    BY MessageTypes DEF IInv, ServerInv, ToServerInv, ServerListens, Types, TypeOK, ServerOpen
  <1>1. Head(c2s) = Plain(Setup[ssetup + 1])
    <2>1. 1 \in 1 .. Len(c2s) /\ Head(c2s) = c2s[1]
      BY <1>0
    <2>2. QED
      BY <1>0, <2>1 DEF SetupUnread
  <1>2. /\ ssetup' = ssetup + 1 /\ spc' = IF ssetup' = 4 THEN "parse" ELSE "setup"
        /\ sresult' = sresult /\ c2s' = Tail(c2s)
    BY <1>0, <1>1 DEF Plain, Msg
  <1>3. /\ c2s' \in Seq(Message) /\ Len(c2s') = csetup - ssetup' /\ Len(c2s') \in Nat
        /\ \A i \in 1 .. Len(c2s') : c2s'[i] = c2s[i + 1] /\ i + 1 \in 1 .. Len(c2s)
    BY <1>0, <1>2 DEF SetupUnread
  <1>4. \A i \in 1 .. Len(c2s') : c2s'[i] = Plain(Setup[ssetup' + i])
    <2> SUFFICES ASSUME NEW i \in 1 .. Len(c2s') PROVE c2s'[i] = Plain(Setup[ssetup' + i])
      OBVIOUS
    <2>1. i \in Nat /\ c2s'[i] = Plain(Setup[ssetup + (i + 1)])
      BY <1>0, <1>3 DEF SetupUnread
    <2>2. ssetup + (i + 1) = ssetup' + i
      BY <1>0, <1>2, <2>1
    <2>3. QED
      BY <2>1, <2>2
  <1>5. Types'
    BY <1>0, <1>2, <1>3 DEF IInv, Types, TypeOK
  <1>6. ClientInv' /\ ServerInv' /\ BeforeInv' /\ PlaceInv'
    BY <1>0, <1>2 DEF IInv, ClientInv, ServerInv, BeforeInv, PlaceInv, ClientInScript, ServerOpen, ClientOpen,
       Last, Pkt, Ended
  <1>7. ToServerInv'
    <2>1. CASE ssetup' = 4
      <3>1. Len(c2s') = 0 /\ csetup = 4
        <4>1. Len(c2s') = csetup - 4 /\ Len(c2s') \in Nat /\ csetup \in 0 .. 4
          BY <1>0, <1>3, <2>1, Zenon
        <4>2. ASSUME NEW n \in Nat, NEW m \in 0 .. 4, n = m - 4 PROVE n = 0 /\ m = 4
          BY <4>2
        <4>3. QED
          BY <4>1, <4>2, Zenon
      <3>2. c2s' = <<>> /\ cpc = "receive_server_ready"
        BY <1>0, <1>3, <3>1, EmptySeq DEF IInv, ClientInv
      <3>3. QED
        BY <1>2, <2>1, <3>2 DEF ToServerInv, ServerInScript
    <2>2. CASE ssetup' # 4
      BY <1>0, <1>2, <1>3, <1>4, <2>2 DEF ToServerInv, ServerInScript, SetupUnread
    <2>3. QED
      BY <2>1, <2>2
  <1>8. QED
    BY <1>5, <1>6, <1>7 DEF IInv

\* The script is parsed and the network device is there.
LEMMA ServerParseInv ==
  ASSUME IInv, ServerAt("parse"), spc' = "send_server_ready",
         UNCHANGED <<conf, c2s, s2c, cVars, ssetup, sevent, slast, snum, sresult, daemon, log>>
  PROVE  IInv'
  <1> USE DEF conf, cVars, ServerAt, ServerOpen
  <1>1. Types' /\ ClientInv' /\ ServerInv'
    BY DEF IInv, Types, TypeOK, ClientInv, ServerInv, ClientInScript, ClientOpen, Last, Pkt, Ended
  <1>2. ToServerInv' /\ BeforeInv' /\ PlaceInv'
    BY DEF IInv, ToServerInv, BeforeInv, PlaceInv, ClientInScript, ServerInScript, ClientOpen,
       ServerListens
  <1>3. QED
    BY <1>1, <1>2 DEF IInv

\* The client, if it is there, waits for nothing but this message.
LEMMA ServerReadyInv == ASSUME IInv, wire_server_send_server_ready PROVE IInv'
  <1> USE DEF conf, cVars, ServerAt, ServerOpen, wire_server_send_server_ready
  <1>0. c2s = <<>> /\ cpc = "receive_server_ready" /\ sresult = "running"
    BY DEF IInv, ToServerInv, ServerListens, ServerInv
  <1>1. ClientOpen => s2c' = <<Ready>>
    <2>1. ClientOpen => s2c = <<>>
      BY <1>0 DEF IInv, BeforeInv, ClientInScript
    <2>2. QED
      BY <2>1, ShortQueues DEF ServerSends, Ready
  <1>2. s2c' \in Seq(Message)
    BY <1>1, MessageTypes DEF ServerSends, IInv, Types
  <1>3. Types' /\ ClientInv' /\ ServerInv'
    BY <1>2 DEF IInv, Types, TypeOK, ClientInv, ServerInv, ClientInScript, ClientOpen, Last, Pkt, Ended
  <1>4. ToServerInv'
    BY <1>0 DEF ToServerInv, ServerInScript
  <1>5. BeforeInv' /\ PlaceInv'
    BY <1>0, <1>1 DEF IInv, BeforeInv, PlaceInv, ClientInScript, ClientOpen
  <1>6. QED
    BY <1>3, <1>4, <1>5 DEF IInv

\* The first message after the setup is WIRE_CLIENT_STARTING.
LEMMA ServerStartingInv == ASSUME IInv, wire_server_receive_client_starting PROVE IInv'
  <1> USE DEF conf, cVars, ServerAt, ServerReads, wire_server_receive_client_starting
  <1>0. /\ ClientInScript /\ sresult = "running" /\ snum = 0 /\ sevent = 0 /\ ServerOpen
        /\ \/ c2s = <<Starting>>
           \/ \E k \in 0 .. Len(script) : c2s = <<Starting, Start(k)>>
    BY DEF IInv, ServerInv, ToServerInv, ServerListens
  <1>1. Head(c2s) = Starting
    BY <1>0, ShortQueues
  <1>2. spc' = "get_next_event" /\ sresult' = sresult /\ c2s' = Tail(c2s)
    BY <1>1 DEF Starting, Plain, Msg
  <1>3. \/ c2s = <<Starting>> /\ c2s' = <<>>
        \/ \E k \in 0 .. Len(script) : c2s = <<Starting, Start(k)>> /\ c2s' = <<Start(k)>>
    <2>1. CASE c2s = <<Starting>>
      BY <1>2, <2>1, ShortQueues
    <2>2. ASSUME NEW k \in 0 .. Len(script), c2s = <<Starting, Start(k)>> PROVE c2s' = <<Start(k)>>
      BY <1>2, <2>2, ShortQueues
    <2>3. QED
      BY <1>0, <2>1, <2>2
  <1>4. c2s' \in Seq(Message)
    BY <1>2, <1>3 DEF IInv, Types
  <1>5. Types' /\ ClientInv' /\ ServerInv'
    BY <1>0, <1>2, <1>4 DEF IInv, Types, TypeOK, ClientInv, ServerInv, ClientInScript, ClientOpen, ServerOpen,
       Last, Pkt, Ended
  <1>6. ToServerInv' /\ BeforeInv'
    BY <1>0, <1>2, <1>3 DEF ToServerInv, BeforeInv, ServerInScript, ClientInScript
  <1>7. SPos' = SPos /\ CPos' = CPos /\ script' = script
    BY <1>2 DEF SPos, CPos, Ended
  <1>8. PlaceInv'
    <2> USE DEF Pkt, AllPackets, NoPackets, ClientOpen
    <2>1. CASE Between
      <3>1. c2s' = <<>>
        <4>1. \A k : c2s # <<Starting, Start(k)>>
          BY <2>1 DEF Between, NoStart
        <4>2. QED
          BY <1>3, <4>1
      <3>2. Between'
        BY <1>2, <1>7, <2>1, <3>1 DEF Spared, Between, NoStart
      <3>3. QED
        BY <3>2 DEF PlaceInv
    <2>2. ASSUME NEW k \in 0 .. Len(script), Requested(k) PROVE PlaceInv'
      <3>1. c2s' = <<Start(k)>>
        <4>1. <<Starting>> # <<Start(k)>> /\ <<Starting>> # <<Starting, Start(k)>>
          BY DEF Starting, Start, Plain, Msg
        <4>2. PICK j \in 0 .. Len(script) : c2s = <<Starting, Start(j)>> /\ c2s' = <<Start(j)>>
          BY <1>3, <2>2, <4>1 DEF Requested
        <4>3. c2s = <<Starting, Start(k)>>
          BY <4>2, <2>2 DEF Requested
        <4>4. QED
          BY <1>2, <4>3, ShortQueues
      <3>2. Requested(k)'
        BY <1>2, <1>7, <2>2, <3>1 DEF Spared, Requested
      <3>3. QED
        BY <1>7, <3>2 DEF PlaceInv
    <2>3. c2s # <<>>
      OBVIOUS
    <2>4. QED
      BY <1>0, <2>1, <2>2, <2>3 DEF PlaceInv, IInv, InBatch, Finished, Alone
  <1>9. QED
    BY <1>5, <1>6, <1>8 DEF IInv

\* The server looks at the next event.
LEMMA ServerGetNextInv ==
  ASSUME IInv, server_get_next_event, sresult' = sresult PROVE IInv'
  <1> USE DEF conf, cVars, ServerAt, server_get_next_event
  <1>0. /\ sresult = "running" /\ sevent = snum /\ ServerListens /\ ServerOpen /\ ServerInScript
        /\ ClientInScript
    BY DEF IInv, ServerInv, ServerListens, ServerInScript, ToServerInv
  <1>1. sevent' = sevent + 1 /\ spc' = "next_event"
    BY <1>0 DEF ServerStops
  <1>2. snum \in 0 .. Len(script) /\ Len(script) \in Nat
    BY Numbers
  <1>3. Types'
    BY <1>0, <1>1, <1>2 DEF IInv, Types, TypeOK
  <1>4. ClientInv' /\ ServerInv'
    BY <1>0, <1>1, <1>2 DEF IInv, ClientInv, ServerInv, ClientInScript, ClientOpen, ServerOpen,
       Last, Pkt, Ended
  <1>5. ToServerInv' /\ BeforeInv'
    BY <1>0, <1>1 DEF IInv, ToServerInv, BeforeInv, ServerInScript, ClientInScript
  <1>6. SPos' = SPos /\ CPos' = CPos /\ script' = script
    BY DEF SPos, CPos, Ended
  <1>7. PlaceInv'
    <2> USE DEF Pkt, AllPackets, NoPackets, ClientOpen
    <2>1. CASE Between
      <3>1. Between'
        BY <1>6, <2>1 DEF Spared, Between, NoStart
      <3>2. QED
        BY <3>1 DEF PlaceInv
    <2>2. ASSUME NEW k \in 0 .. Len(script), Requested(k) PROVE PlaceInv'
      <3>1. Requested(k)'
        BY <1>6, <2>2 DEF Spared, Requested
      <3>2. QED
        BY <1>6, <3>1 DEF PlaceInv
    <2>3. CASE InBatch
      <3>1. InBatch'
        BY <1>0, <1>1, <1>6, <2>3 DEF InBatch, ServerInScript
      <3>2. QED
        BY <3>1 DEF PlaceInv
    <2>4. ASSUME NEW k \in 0 .. Len(script), Finished(k) PROVE PlaceInv'
      <3>1. Finished(k)'
        BY <1>6, <2>4 DEF Spared, Finished
      <3>2. QED
        BY <1>6, <3>1 DEF PlaceInv
    <2>5. QED
      BY <1>0, <2>1, <2>2, <2>3, <2>4 DEF PlaceInv, IInv, Alone
  <1>8. QED
    BY <1>3, <1>4, <1>5, <1>7 DEF IInv

\* The server leaves a packet for the next thing to do; it stays in the batch.
LEMMA BusyMovesInv ==
  ASSUME IInv, ServerOpen, spc \in {"run_packet", "send_warning", "send_error"},
         spc' \in {"get_next_event", "send_warning", "send_error"},
         s2c' \in Seq(Message), ClientOpen => Warnings(s2c'),
         log' \in Seq(Nat), Len(log') = IF spc' = "send_error" THEN snum - 1 ELSE snum,
         UNCHANGED <<conf, c2s, cVars, ssetup, sevent, slast, snum, sresult, daemon>>
  PROVE  IInv'
  <1> USE DEF conf, cVars
  <1>0. InBatch /\ ClientInScript /\ Pkt(snum) /\ SPos = snum /\ sevent = snum /\ sresult = "running"
    BY BusyInBatch
  <1>1. Types'
    BY DEF IInv, Types, TypeOK
  <1>2. ClientInv' /\ ServerInv'
    BY <1>0 DEF IInv, ClientInv, ServerInv, ClientInScript, ClientOpen, ServerOpen, Last, Pkt, Ended
  <1>3. ToServerInv' /\ BeforeInv'
    BY <1>0 DEF ToServerInv, BeforeInv, ServerInScript, ClientInScript, InBatch
  <1>4. SPos' = SPos /\ CPos' = CPos /\ script' = script
    BY DEF SPos, CPos, Ended
  <1>5. InBatch'
    BY <1>0, <1>4 DEF InBatch, Pkt, AllPackets, ClientOpen
  <1>6. QED
    BY <1>1, <1>2, <1>3, <1>5 DEF IInv, PlaceInv

\* A packet event is run.
LEMMA RunPacketInv == ASSUME IInv, run_packet_event PROVE IInv'
  <1> USE DEF ServerAt, run_packet_event
  <1>0. InBatch /\ Pkt(snum) /\ sevent = snum /\ sresult = "running"
    BY BusyInBatch
  <1>1. snum \in 1 .. Len(script) /\ Len(script) \in Nat /\ log \in Seq(Nat) /\ s2c \in Seq(Message)
    BY <1>0, Numbers DEF Pkt, IInv, Types
  <1>2. Len(log) = snum - 1 /\ (ClientOpen => Warnings(s2c))
    BY <1>0 DEF InBatch, ServerInScript
  <1>3. CASE log' = Append(log, sevent) /\ spc' \in {"get_next_event", "send_warning"}
    <2>1. log' \in Seq(Nat) /\ Len(log') = snum
      BY <1>0, <1>1, <1>2, <1>3
    <2>2. s2c' \in Seq(Message) /\ (ClientOpen => Warnings(s2c'))
      BY <1>1, <1>2
    <2>3. QED
      BY <1>3, <2>1, <2>2, BusyMovesInv
  <1>4. CASE spc' = "send_error" /\ log' = log
    <2>2. s2c' \in Seq(Message) /\ (ClientOpen => Warnings(s2c'))
      BY <1>1, <1>2
    <2>3. QED
      BY <1>1, <1>2, <1>4, <2>2, BusyMovesInv
  <1>5. QED
    BY <1>3, <1>4

\* A warning goes out in the middle of a batch.
LEMMA SendWarningInv == ASSUME IInv, wire_server_send_packet_warning PROVE IInv'
  <1> USE DEF ServerAt, wire_server_send_packet_warning
  <1>0. InBatch /\ sresult = "running"
    BY BusyInBatch
  <1>1. log \in Seq(Nat) /\ s2c \in Seq(Message)
    BY DEF IInv, Types
  <1>2. Len(log) = snum /\ (ClientOpen => Warnings(s2c))
    BY <1>0 DEF InBatch, ServerInScript
  <1>3. s2c' \in Seq(Message) /\ (ClientOpen => Warnings(s2c'))
    BY <1>1, <1>2, AppendWarning DEF ServerSends, Warning
  <1>4. QED
    BY <1>1, <1>2, <1>3, BusyMovesInv

\* The report of a wrong packet is the last message.
LEMMA SendErrorInv == ASSUME IInv, wire_server_send_packets_done_error PROVE IInv'
  <1> USE DEF conf, cVars, ServerAt, wire_server_send_packets_done_error, ServerStops
  <1>0. InBatch /\ ClientInScript /\ Pkt(snum) /\ SPos = snum /\ sevent = snum /\ sresult = "running"
    BY BusyInBatch
  <1>1. s2c' \in Seq(Message) /\ (ClientOpen => WarningsThen(s2c', Failed(snum)))
    <2>1. s2c \in Seq(Message) /\ Failed(snum) \in Message
      BY Numbers, MessageTypes DEF IInv, Types
    <2>2. ClientOpen => Warnings(s2c) /\ s2c' = Append(s2c, Failed(snum))
      BY <1>0 DEF InBatch, ServerSends, Failed
    <2>3. ~ClientOpen => s2c' = s2c
      BY DEF ServerSends
    <2>4. QED
      BY <2>1, <2>2, <2>3, AppendLast
  <1>2. Types'
    BY <1>1 DEF IInv, Types, TypeOK
  <1>3. outcome # "connection"
    BY DEF IInv, ClientInv
  <1>4. ClientInv' /\ ServerInv'
    BY <1>0, <1>3 DEF IInv, ClientInv, ServerInv, ClientInScript, ClientOpen, ServerOpen, Last, Pkt, Ended
  <1>5. ToServerInv' /\ BeforeInv'
    BY <1>0 DEF ToServerInv, BeforeInv, ServerListens, ClientInScript
  <1>6. SPos' = SPos /\ CPos' = CPos /\ script' = script
    BY <1>0 DEF SPos, CPos, Ended
  <1>7. InBatch'
    BY <1>0, <1>1, <1>6 DEF InBatch, Pkt, AllPackets, ClientOpen, ServerInScript
  <1>8. QED
    BY <1>2, <1>4, <1>5, <1>7 DEF IInv, PlaceInv

\* The end of wire_server_next_event: the position moves by one.
LEMMA ServerCountsEffect ==
  ASSUME IInv, ServerAt("next_event"), ServerCounts,
         UNCHANGED <<conf, cVars, ssetup, sevent, daemon, log>>
  PROVE  /\ SPos = snum /\ SPos' = snum + 1 /\ snum \in 0 .. Len(script) /\ Len(script) \in Nat
         /\ sresult = "running" /\ sresult' \in {"running", "done"}
         /\ CPos' = CPos /\ CPos \in Nat /\ ClientInScript /\ ClientInScript' /\ script' = script
         /\ IsPacket(sevent) <=> Pkt(snum + 1)
         /\ slast \in Packet <=> Pkt(snum)
         /\ spc' \in {"run_packet", "get_next_event", "error_done"}
         /\ spc' = "run_packet" <=> Pkt(snum + 1)
         /\ spc' # "error_done" => snum' = snum + 1
         /\ c2s = <<>> \/ \E k \in 0 .. Len(script) : c2s = <<Start(k)>>
         /\ TypeOK' /\ ClientInv' /\ ServerInv' /\ BeforeInv' /\ ~Alone
  <1> USE DEF conf, cVars, ServerAt
  <1>1. /\ Len(script) \in Nat /\ snum \in 0 .. Len(script) /\ Ended = Len(script) + 1
        /\ sevent = snum + 1 /\ sresult = "running" /\ CPos \in Nat
    BY Numbers DEF IInv, ServerInv
  <1>2. /\ SPos = snum /\ ClientInScript /\ ClientInScript' /\ CPos' = CPos /\ script' = script
        /\ c2s = <<>> \/ \E k \in 0 .. Len(script) : c2s = <<Start(k)>>
    BY <1>1 DEF SPos, CPos, ClientInScript, IInv, ToServerInv, ServerListens, ServerInScript, Ended
  <1>3. (IsPacket(sevent) <=> Pkt(snum + 1)) /\ (slast \in Packet <=> Pkt(snum))
    BY <1>1, IsPacketPkt, LastPkt DEF IInv, Types, ServerInv
  <1>4. BeforeInv' /\ ~Alone /\ outcome # "connection"
    BY <1>2 DEF BeforeInv, Alone, IInv, ClientInv
  <1>5. CASE sevent # Ended
    <2>1. /\ slast' = script[snum + 1] /\ snum' = snum + 1 /\ snum + 1 \in 1 .. Len(script)
          /\ spc' = IF Pkt(snum + 1) THEN "run_packet" ELSE "get_next_event"
          /\ sresult' = sresult
      BY <1>1, <1>3, <1>5 DEF ServerCounts
    <2>2. script[snum + 1] \in Kind
      BY <2>1, ScriptType DEF IInv, Types
    <2>3. TypeOK'
      BY <1>1, <2>1, <2>2 DEF IInv, Types, TypeOK
    <2>4. ClientInv'
      BY <1>4 DEF IInv, ClientInv, Last, ClientInScript, Pkt, Ended
    <2>5. ServerInv'
      BY <1>1, <2>1 DEF IInv, ServerInv, Last, Pkt
    <2>6. SPos' = snum + 1
      BY <1>1, <2>1 DEF SPos
    <2>7. QED
      BY <1>1, <1>2, <1>3, <1>4, <2>1, <2>3, <2>4, <2>5, <2>6
  <1>6. CASE sevent = Ended
    <2>1. /\ spc' = "error_done" /\ sresult' = "done" /\ UNCHANGED <<slast, snum>>
          /\ snum = Len(script) /\ ~Pkt(snum + 1)
      BY <1>1, <1>6 DEF ServerCounts, ServerStops, Pkt
    <2>2. TypeOK'
      BY <2>1 DEF IInv, Types, TypeOK
    <2>3. ClientInv'
      BY <1>4 DEF IInv, ClientInv, Last, ClientInScript, Pkt, Ended
    <2>4. ServerInv'
      BY <1>1, <2>1 DEF IInv, ServerInv, Last, Pkt
    <2>5. SPos' = snum + 1
      BY <1>1, <2>1 DEF SPos, Ended
    <2>6. QED
      BY <1>1, <1>2, <1>3, <1>4, <2>1, <2>2, <2>3, <2>4, <2>5
  <1>7. QED
    BY <1>5, <1>6

\* The server counts an event like the one before: both are packets or both not.
LEMMA ServerCountsOn ==
  ASSUME IInv, ServerAt("next_event"), IsPacket(sevent) <=> slast \in Packet, ServerCounts,
         UNCHANGED <<conf, c2s, s2c, cVars, ssetup, sevent, daemon, log>>
  PROVE  IInv'
  <1> USE DEF conf, cVars, ServerAt
  <1>1. /\ SPos = snum /\ SPos' = snum + 1 /\ snum \in 0 .. Len(script) /\ Len(script) \in Nat
        /\ sresult = "running" /\ sresult' \in {"running", "done"}
        /\ CPos' = CPos /\ CPos \in Nat /\ ClientInScript /\ ClientInScript' /\ script' = script
        /\ Pkt(snum + 1) <=> Pkt(snum)
        /\ spc' \in {"run_packet", "get_next_event", "error_done"}
        /\ spc' = "run_packet" <=> Pkt(snum + 1)
        /\ spc' # "error_done" => snum' = snum + 1
        /\ c2s = <<>> \/ \E k \in 0 .. Len(script) : c2s = <<Start(k)>>
        /\ TypeOK' /\ ClientInv' /\ ServerInv' /\ BeforeInv' /\ ~Alone
    BY ServerCountsEffect
  <1>2. Types'
    BY <1>1 DEF IInv, Types
  <1>3. ToServerInv'
    BY <1>1 DEF ToServerInv, ServerInScript, ServerListens
  <1>4. PlaceInv'
    <2> USE DEF Pkt, AllPackets, NoPackets, ClientOpen
    <2>1. CASE Between
      <3>1. ~Pkt(snum + 1) /\ NoPackets(CPos + 1, snum + 1) /\ NoPackets(snum + 2, CPos)
        BY <1>1, <2>1 DEF Between
      <3>2. Between'
        BY <1>1, <2>1, <3>1 DEF Spared, Between, NoStart
      <3>3. QED
        BY <3>2 DEF PlaceInv
    <2>2. ASSUME NEW k \in 0 .. Len(script), Requested(k) PROVE PlaceInv'
      <3>1. ~Pkt(snum + 1) /\ snum + 1 <= k /\ NoPackets(snum + 2, k)
        BY <1>1, <2>2 DEF Requested
      <3>2. Requested(k)'
        BY <1>1, <2>2, <3>1 DEF Spared, Requested
      <3>3. QED
        BY <1>1, <3>2 DEF PlaceInv
    <2>3. CASE InBatch
      <3>1. Pkt(snum + 1) /\ AllPackets(CPos, snum + 1) /\ AllPackets(snum + 1, CPos)
        BY <1>1, <2>3 DEF InBatch
      <3>2. spc' = "run_packet" /\ snum' = snum + 1 /\ Len(log') = snum' - 1
        <4>1. Len(log) = snum /\ log' = log
          BY <2>3 DEF InBatch, ServerInScript
        <4>2. spc' = "run_packet" /\ snum' = snum + 1
          BY <1>1, <3>1
        <4>3. QED
          BY <1>1, <4>1, <4>2
      <3>3. ClientOpen => Warnings(s2c')
        BY <1>1, <2>3 DEF InBatch
      <3>4. InBatch'
        BY <1>1, <2>3, <3>1, <3>2, <3>3 DEF InBatch
      <3>5. QED
        BY <3>4 DEF PlaceInv
    <2>4. ASSUME NEW k \in 0 .. Len(script), Finished(k) PROVE PlaceInv'
      <3>1. ~Pkt(snum + 1) /\ NoPackets(k + 1, snum + 1) /\ k \in CPos .. snum
        BY <1>1, <2>4 DEF Finished
      <3>2. Finished(k)'
        BY <1>1, <2>4, <3>1 DEF Spared, Finished
      <3>3. QED
        BY <1>1, <3>2 DEF PlaceInv
    <2>5. QED
      BY <1>1, <2>1, <2>2, <2>3, <2>4 DEF PlaceInv, IInv
  <1>5. QED
    BY <1>1, <1>2, <1>3, <1>4 DEF IInv

\* The server reads the message that starts the batch: it is for this event.
LEMMA ServerStartsBatch ==
  ASSUME IInv, wire_server_next_event, IsPacket(sevent), slast \notin Packet PROVE IInv'
  <1> USE DEF conf, cVars, ServerAt, ServerReads, wire_server_next_event
  <1>1. /\ Len(script) \in Nat /\ snum \in 0 .. Len(script) /\ Ended = Len(script) + 1
        /\ sevent = snum + 1 /\ sresult = "running" /\ SPos = snum /\ CPos \in Nat
    BY Numbers DEF IInv, ServerInv, SPos
  <1>2. Pkt(snum + 1) /\ ~Pkt(snum)
    BY <1>1, IsPacketPkt, LastPkt DEF IInv, Types, ServerInv
  <1>3. c2s # <<>> /\ c2s' = Tail(c2s)
    OBVIOUS
  <1>4. PICK j \in 0 .. Len(script) : c2s = <<Start(j)>> /\ ClientInScript
    BY <1>3 DEF IInv, ToServerInv, ServerListens, ServerInScript
  <1>5. PICK k \in 0 .. Len(script) : Requested(k) /\ c2s = <<Start(k)>>
    <2>1. <<Start(j)>> # <<Starting>> /\ <<Start(j)>> # <<>> /\ \A k : <<Start(j)>> # <<Starting, Start(k)>>
      BY DEF Starting, Start, Plain, Msg
    <2>2. ~Between /\ ~InBatch /\ ~Alone /\ \A k \in 0 .. Len(script) : ~Finished(k)
      BY <1>3, <1>4, <2>1 DEF Between, NoStart, InBatch, Alone, Finished
    <2>3. QED
      BY <1>4, <2>1, <2>2 DEF IInv, PlaceInv, Requested
  <1>6. k = snum
    BY <1>1, <1>2, <1>5 DEF Requested, NoPackets
  <1>7. Head(c2s) = Start(k) /\ c2s' = <<>>
    BY <1>3, <1>5, ShortQueues
  <1>8. ServerCounts /\ s2c' = s2c
    BY <1>6, <1>7 DEF Start, Msg
  <1>9. /\ SPos' = snum + 1 /\ sresult' \in {"running", "done"}
        /\ CPos' = CPos /\ ClientInScript' /\ script' = script
        /\ spc' = "run_packet" /\ snum' = snum + 1
        /\ TypeOK' /\ ClientInv' /\ ServerInv' /\ BeforeInv'
    BY <1>2, <1>8, ServerCountsEffect
  <1>10. Types'
    BY <1>7, <1>8, <1>9, EmptySeq DEF IInv, Types
  <1>11. ToServerInv'
    BY <1>7, <1>9 DEF ToServerInv, ServerInScript
  <1>12. InBatch'
    <2> USE DEF Pkt, AllPackets
    <2>1. Pkt(CPos) /\ AllPackets(snum + 1, CPos) /\ AllPackets(CPos, snum + 1)
      BY <1>1, <1>2, <1>5, <1>6 DEF Requested
    <2>2. Len(log') = snum' - 1
      <3>1. Len(log) = snum /\ log' = log
        BY <1>5, <1>6 DEF Requested
      <3>2. QED
        BY <1>1, <1>9, <3>1
    <2>3. ClientOpen => s2c' = <<>>
      BY <1>5, <1>8 DEF Requested
    <2>4. Warnings(<<>>)
      BY DEF Warnings
    <2>5. QED
      BY <1>2, <1>7, <1>9, <2>1, <2>2, <2>3, <2>4 DEF InBatch, ClientOpen
  <1>13. QED
    BY <1>9, <1>10, <1>11, <1>12 DEF IInv, PlaceInv

\* The server leaves the batch and answers, if the client is there.
LEMMA ServerFinishesBatch ==
  ASSUME IInv, ServerAt("next_event"), ~IsPacket(sevent), slast \in Packet,
         ServerSends(Msg("WIRE_PACKETS_DONE", snum, "STATUS_OK")), ServerCounts,
         UNCHANGED <<conf, c2s, cVars, ssetup, sevent, daemon, log>>
  PROVE  IInv'
  <1> USE DEF conf, cVars, ServerAt
  <1>1. /\ SPos = snum /\ SPos' = snum + 1 /\ snum \in 0 .. Len(script) /\ Len(script) \in Nat
        /\ sresult = "running" /\ sresult' \in {"running", "done"}
        /\ CPos' = CPos /\ CPos \in Nat /\ ClientInScript /\ ClientInScript' /\ script' = script
        /\ ~Pkt(snum + 1) /\ Pkt(snum)
        /\ spc' \in {"get_next_event", "error_done"}
        /\ c2s = <<>> \/ \E k \in 0 .. Len(script) : c2s = <<Start(k)>>
        /\ TypeOK' /\ ClientInv' /\ ServerInv' /\ BeforeInv' /\ ~Alone
    BY ServerCountsEffect
  <1>2. InBatch
    BY <1>1 DEF IInv, PlaceInv, Between, Requested, Finished
  <1>3. PICK k \in 0 .. Len(script) : k = snum
    BY <1>1
  <1>4. s2c' \in Seq(Message) /\ (ClientOpen => WarningsThen(s2c', Done(k)))
    <2>1. s2c \in Seq(Message) /\ Done(k) \in Message
      BY <1>1, MessageTypes DEF IInv, Types
    <2>2. ClientOpen => Warnings(s2c) /\ s2c' = Append(s2c, Done(k))
      BY <1>1, <1>2, <1>3 DEF InBatch, ServerSends, Done
    <2>3. ~ClientOpen => s2c' = s2c
      BY DEF ServerSends
    <2>4. QED
      BY <2>1, <2>2, <2>3, AppendLast
  <1>5. Types'
    BY <1>1, <1>4 DEF IInv, Types
  <1>6. ToServerInv'
    BY <1>1, <1>2 DEF ToServerInv, ServerInScript, InBatch
  <1>7. Finished(k)'
    <2> USE DEF Pkt, AllPackets, NoPackets
    <2>1. Pkt(CPos) /\ k \in CPos .. snum /\ AllPackets(CPos, k) /\ NoPackets(k + 1, snum + 1)
      BY <1>1, <1>2, <1>3 DEF InBatch
    <2>2. c2s' = <<>> /\ Len(log') = k
      BY <1>2, <1>3 DEF InBatch, ServerInScript
    <2>3. Spared'
      BY DEF ServerOpen, Spared
    <2>4. QED
      BY <1>1, <1>4, <2>1, <2>2, <2>3 DEF Finished, ClientOpen
  <1>8. QED
    BY <1>1, <1>5, <1>6, <1>7 DEF IInv, PlaceInv

\* wire_server_next_event: one of the three.
LEMMA ServerNextEventInv == ASSUME IInv, wire_server_next_event PROVE IInv'
  <1>1. CASE IsPacket(sevent) /\ slast \notin Packet
    BY <1>1, ServerStartsBatch
  <1>2. CASE ~IsPacket(sevent) /\ slast \in Packet
    BY <1>2, ServerFinishesBatch DEF wire_server_next_event
  <1>3. CASE IsPacket(sevent) <=> slast \in Packet
    BY <1>3, ServerCountsOn DEF wire_server_next_event
  <1>4. QED
    BY <1>1, <1>2, <1>3

\* Every step of the server thread.
LEMMA ServerInvs == ASSUME IInv, ServerStep \/ run_packet_event PROVE IInv'
  <1> USE DEF conf, cVars, ServerAt
  <1>1. CASE server_connection_error
    <2> USE DEF server_connection_error
    <2>1. spc # "error_done"
      BY <1>1 DEF ServerWriting, ServerReading
    <2>2. CASE spc = "next_event" /\ sevent = Ended
      <3>1. ~IsPacket(sevent)
        BY <2>2, Numbers DEF IsPacket
      <3>2. slast \in Packet
        BY <1>1, <2>2, <3>1 DEF ServerWriting, ServerReading
      <3>3. ServerCounts /\ ServerSends(Msg("WIRE_PACKETS_DONE", snum, "STATUS_OK"))
        BY <1>1, <2>2 DEF ServerCounts, ServerSends
      <3>4. QED
        BY <1>1, <2>2, <3>1, <3>2, <3>3, ServerFinishesBatch
    <2>3. CASE ~(spc = "next_event" /\ sevent = Ended)
      <3>1. spc' = "error_done" /\ sresult' = "connection"
        BY <1>1, <2>3 DEF ServerStops
      <3>2. QED
        BY <1>1, <2>1, <3>1, ServerEndsInv
    <2>4. QED
      BY <2>2, <2>3
  <1>2. CASE server_sigpipe
    BY <1>2, ServerEndsInv DEF server_sigpipe
  <1>3. CASE wire_server_parse
    <2>1. CASE spc' = "send_server_ready"
      BY <1>3, <2>1, ServerParseInv DEF wire_server_parse, ServerStops
    <2>2. CASE spc' # "send_server_ready"
      BY <1>3, <2>2, ServerEndsInv DEF wire_server_parse, ServerStops
    <2>3. QED
      BY <2>1, <2>2
  <1>4. CASE server_get_next_event
    <2>1. CASE sresult' = sresult
      BY <1>4, <2>1, ServerGetNextInv
    <2>2. CASE sresult' # sresult
      BY <1>4, <2>2, ServerEndsInv DEF server_get_next_event, ServerStops
    <2>3. QED
      BY <2>1, <2>2
  <1>5. CASE inbound_packet_late
    BY <1>5, ServerEndsInv DEF inbound_packet_late
  <1>6. CASE wire_server_error_done
    BY <1>6, ServerEndsInv DEF wire_server_error_done, ServerAt
  <1>7. QED
    BY <1>1, <1>2, <1>3, <1>4, <1>5, <1>6, ServerSetupInv, ServerReadyInv, ServerStartingInv,
       ServerNextEventInv, RunPacketInv, SendWarningInv, SendErrorInv DEF ServerStep

LEMMA StepIInv == ASSUME IInv, [Next]_vars PROVE IInv'
  <1>1. CASE Next
    BY <1>1, ClientInvs, ServerInvs DEF Next
  <1>2. CASE UNCHANGED vars
    <2> USE <1>2 DEF vars, conf, cVars, sVars
    <2>1. Types' /\ ClientInv' /\ ServerInv' /\ ToServerInv' /\ BeforeInv'
      BY DEF IInv, Types, TypeOK, ClientInv, ServerInv, ToServerInv, BeforeInv, Last, Pkt, Ended,
         ClientInScript, ServerInScript, ServerListens, SetupUnread, ClientOpen, ServerOpen
    <2>2. PlaceInv'
      BY DEF Spared, IInv, PlaceInv, Between, Requested, InBatch, Finished, Alone, NoStart, Pkt, CPos, SPos, Ended,
         AllPackets, NoPackets, ClientInScript, ServerInScript, ClientOpen, ServerOpen
    <2>3. QED
      BY <2>1, <2>2 DEF IInv
  <1>3. QED
    BY <1>1, <1>2

(***************************************************************************)
(* The theorems.                                                           *)
(***************************************************************************)
\* The strengthening that the others rest on: the places that two sides can be
\* in, and the messages between them.
THEOREM Invariance == Spec => []IInv
  <1>1. Init => IInv
    BY InitIInv
  <1>2. QED
    BY <1>1, StepIInv, PTL DEF Spec

\* The types of both sides.
THEOREM TypeCorrect == Spec => []TypeOK
  <1>1. IInv => TypeOK
    BY DEF IInv, Types
  <1>2. QED
    BY <1>1, Invariance, PTL

\* wire_client_receive_packets_done and wire_server_receive_packets_start never
\* see a message of another kind or for another event, in scripts of any length.
THEOREM InStep == Spec => []NeverOutOfStep
  <1>1. IInv => NeverOutOfStep
    BY DEF IInv, ClientInv, ServerInv, NeverOutOfStep
  <1>2. QED
    BY <1>1, Invariance, PTL

\* The report of a wrong packet (wire_server_send_packets_done) reaches a client
\* that waits for it: nothing is unread on the server's side, and the client has
\* found no other reason to end than its own script or a signal.
THEOREM ErrorsArrive == Spec => []ErrorNotOvertaken
  <1>1. ASSUME IInv PROVE ErrorNotOvertaken
    <2> SUFFICES ASSUME sresult = "reported"
                 PROVE  /\ c2s = <<>>
                        /\ outcome \in {"running", "server_error", "killed", "script_error"}
      BY DEF ErrorNotOvertaken
    <2>1. ClientInScript
      BY <1>1 DEF IInv, BeforeInv
    <2>2. InBatch
      BY <1>1, <2>1 DEF IInv, PlaceInv, Between, Requested, Finished, Alone
    <2>3. c2s = <<>> /\ Pkt(CPos)
      BY <2>2 DEF InBatch
    <2>4. cpc \notin {"run_event", "end"}
      BY <1>1, <2>3, Numbers DEF IInv, ClientInv, CPos, Pkt, Ended
    <2>5. outcome \in Outcomes
      BY <1>1 DEF IInv, Types, TypeOK
    <2>6. outcome \notin {"passed", "local_error", "connection", "bad_server"}
      BY <1>1, <2>1, <2>4 DEF IInv, ClientInv, ClientInScript
    <2>7. QED
      BY <2>3, <2>5, <2>6 DEF Outcomes
  <1>2. QED
    BY <1>1, Invariance, PTL

\* The daemon outlives every test that passes, and has nothing more to write to
\* the client that has gone.
THEOREM PassSparesDaemon == Spec => []PassedTestSparesDaemon
  <1>1. ASSUME IInv PROVE PassedTestSparesDaemon
    BY <1>1, PassedBetween DEF PassedTestSparesDaemon
  <1>2. QED
    BY <1>1, Invariance, PTL

(***************************************************************************)
(* Refinement.  An event is run by run_local_event or run_packet_event; a  *)
(* test passes at the end of run_script and fails when the client dies.    *)
(***************************************************************************)
LEMMA InitRefines == Init => Sequential!Init
  BY DEF Init, Sequential!Init

\* The client, seen as SequentialScript.
LEMMA ClientRefines ==
  ASSUME IInv, ClientStep \/ client_killed PROVE [Sequential!Next]_(Sequential!vars)
  <1> USE DEF Sequential!vars, conf, ClientOpen, ClientAt
  <1>0. outcome = "running"
    BY DEF ClientStep, client_killed, client_connection_error, wire_client_init,
       wire_client_receive_server_ready, run_init_command, wire_client_send_client_starting,
       client_get_next_event, wire_client_next_event, wire_client_receive_packets_done,
       run_local_event, run_script_end
  <1>1. ASSUME outcome' \in {"running", "bad_server", "server_error", "connection", "script_error",
                              "local_error", "killed"},
               script' = script, log' = log
        PROVE  [Sequential!Next]_(Sequential!vars)
    <2>1. CASE outcome' = "running"
      BY <1>0, <1>1, <2>1
    <2>2. CASE outcome' # "running"
      BY <1>0, <1>1, <2>2 DEF Sequential!Fail, Sequential!Next
    <2>3. QED
      BY <2>1, <2>2
  <1>2. CASE run_local_event /\ outcome' = "running"
    <2>1. log' = Append(log, cevent) /\ script' = script
      BY <1>2 DEF run_local_event, ClientDies
    <2>2. cpc = "run_event" /\ cevent = cnum /\ ~Pkt(cnum) /\ cnum # 0
      BY <1>2 DEF run_local_event, IInv, ClientInv
    <2>3. Between
      BY <1>2, <2>2 DEF IInv, PlaceInv, ClientInScript, Requested, InBatch, Finished, Alone, CPos
    <2>4. Len(log) = cnum - 1 /\ cnum \in 0 .. Len(script) /\ Len(script) \in Nat
      BY <1>0, <2>2, <2>3, Numbers DEF Between
    <2>5. Len(log) < Len(script) /\ cevent = Len(log) + 1
      BY <2>2, <2>4
    <2>6. Sequential!Run
      BY <1>0, <1>2, <2>1, <2>5 DEF Sequential!Run
    <2>7. QED
      BY <2>6 DEF Sequential!Next
  <1>3. CASE run_script_end /\ outcome' = "passed"
    <2>1. cpc = "end" /\ cnum = Len(script) /\ Len(script) \in Nat
      BY <1>3, Numbers DEF run_script_end, IInv, ClientInv
    <2>2. Between
      BY <2>1 DEF IInv, PlaceInv, ClientInScript, Requested, InBatch, Finished, Alone, CPos, Pkt, Ended
    <2>3. Len(log) = Len(script)
      BY <1>0, <2>1, <2>2 DEF Between
    <2>4. Sequential!Pass
      BY <1>0, <1>3, <2>3 DEF run_script_end, Sequential!Pass
    <2>5. QED
      BY <2>4 DEF Sequential!Next
  <1>4. CASE run_local_event /\ outcome' # "running"
    BY <1>0, <1>1, <1>4 DEF run_local_event, ClientDies
  <1>5. CASE run_script_end /\ outcome' # "passed"
    BY <1>1, <1>5 DEF run_script_end, ClientDies
  <1>6. CASE client_killed \/ client_connection_error \/ run_init_command \/ client_get_next_event
    BY <1>0, <1>1, <1>6 DEF client_killed, client_connection_error, run_init_command, client_get_next_event,
       ClientDies
  <1>7. CASE wire_client_init \/ wire_client_receive_server_ready \/ wire_client_send_client_starting
    BY <1>0, <1>1, <1>7 DEF wire_client_init, wire_client_receive_server_ready,
       wire_client_send_client_starting, ClientDies
  <1>8. CASE wire_client_next_event
    BY <1>0, <1>1, <1>8 DEF wire_client_next_event
  <1>9. CASE wire_client_receive_packets_done
    <2>1. outcome' \in {"running", "server_error", "bad_server"} /\ script' = script /\ log' = log
      BY <1>0, <1>9 DEF wire_client_receive_packets_done, ClientDies, cVars
    <2>2. QED
      BY <1>1, <2>1
  <1>10. QED
    BY <1>2, <1>3, <1>4, <1>5, <1>6, <1>7, <1>8, <1>9 DEF ClientStep

\* The server, seen as SequentialScript: only run_packet_event shows.
LEMMA ServerRefines ==
  ASSUME IInv, ServerStep \/ run_packet_event PROVE [Sequential!Next]_(Sequential!vars)
  <1> USE DEF Sequential!vars, conf, cVars
  <1>1. CASE ServerStep
    BY <1>1 DEF ServerStep, server_connection_error, server_sigpipe, wire_server_receive_setup,
       wire_server_parse, wire_server_send_server_ready, wire_server_receive_client_starting,
       server_get_next_event, wire_server_next_event, inbound_packet_late,
       wire_server_send_packet_warning, wire_server_send_packets_done_error, wire_server_error_done
  <1>2. CASE run_packet_event /\ log' = log
    BY <1>2 DEF run_packet_event
  <1>3. CASE run_packet_event /\ log' # log
    <2>1. log' = Append(log, sevent) /\ script' = script /\ outcome' = outcome
      BY <1>3 DEF run_packet_event
    <2>2. InBatch /\ Pkt(snum) /\ sevent = snum
      BY <1>3, BusyInBatch DEF run_packet_event, ServerAt
    <2>3. Len(log) = snum - 1 /\ snum \in 1 .. Len(script) /\ Len(script) \in Nat
      BY <1>3, <2>2, Numbers DEF InBatch, ServerInScript, run_packet_event, ServerAt, Pkt
    <2>4. Len(log) < Len(script) /\ sevent = Len(log) + 1
      BY <2>2, <2>3
    <2>5. outcome # "passed"
      BY <2>2, PassedBetween, <1>3, BusyInBatch DEF Between, run_packet_event, ServerAt
    <2>6. Sequential!Run
      BY <2>1, <2>4, <2>5 DEF Sequential!Run
    <2>7. QED
      BY <2>6 DEF Sequential!Next
  <1>4. QED
    BY <1>1, <1>2, <1>3

\* Client and server together run the script as one process would, in order and
\* to the end before the test passes: for scripts of every length.
THEOREM Refinement == Spec => ImplementsSequentialScript
  <1>1. ASSUME IInv, [Next]_vars PROVE [Sequential!Next]_(Sequential!vars)
    <2>1. CASE Next
      BY <1>1, <2>1, ClientRefines, ServerRefines DEF Next
    <2>2. CASE UNCHANGED vars
      BY <2>2 DEF vars, conf, cVars, sVars, Sequential!vars
    <2>3. QED
      BY <1>1, <2>1, <2>2
  <1>2. QED
    BY <1>1, InitRefines, Invariance, PTL DEF Spec, Sequential!Spec, ImplementsSequentialScript
=============================================================================
