---------------------------- MODULE WireProtocol ----------------------------
(***************************************************************************)
(* Running a script over a real wire.  The wire client (run_script in      *)
(* run.c with wire_client.c) makes the system calls and runs the commands; *)
(* a thread of the wire server daemon (wire_server.c) injects and sniffs   *)
(* the packets.  Both walk through their own copy of the script and tell   *)
(* each other, over a TCP connection, only when a batch of packet events   *)
(* starts and when it is done.                                             *)
(*                                                                         *)
(* The TCP connection is two reliable FIFO channels of whole messages.  An *)
(* endpoint that closes early leaves what it sent readable; a message half *)
(* written by a process that dies reads like one never sent, because       *)
(* read_bytes returns an error on both.                                    *)
(***************************************************************************)
EXTENDS Naturals, Sequences

CONSTANT MaxEvents     \* bound: the longest script

ASSUME MaxEventsAssumption == MaxEvents \in Nat \ {0}

(***************************************************************************)
(* Events: an inbound packet, which the server injects when its time has   *)
(* come; an outbound packet, which it sniffs; and the system calls,        *)
(* commands and code, which the client runs.                               *)
(***************************************************************************)
Packet == {"inbound", "outbound"}
Kind   == Packet \cup {"local"}

\* The setup messages, in the order in which wire_client_init sends them.
Setup ==
  <<"WIRE_COMMAND_LINE_ARGS", "WIRE_SCRIPT_PATH", "WIRE_SCRIPT",
    "WIRE_HARDWARE_ADDR">>

VARIABLES
  script,    \* the script, the same on both sides
  badEvent,  \* the event get_next_event rejects (out of order), or 0
  c2s, s2c,  \* the messages under way to the server and to the client
  cpc,       \* where the client is
  csetup,    \* how many setup messages it has sent
  cevent,    \* the client's state->event
  clast,     \* wire_client->last_event_type
  cnum,      \* wire_client->num_events
  outcome,   \* "running", "passed", or why the client died
  spc,       \* where the server thread is
  ssetup,    \* how many setup messages it has received
  sevent,    \* the server's state->event
  slast,     \* wire_server->last_event_type
  snum,      \* wire_server->num_events
  sresult,   \* what the server thread has found out so far
  daemon,    \* "alive", or what ended the server process
  log        \* history: the events that have happened, in order

conf  == <<script, badEvent>>
cVars == <<cpc, csetup, cevent, clast, cnum, outcome>>
sVars == <<spc, ssetup, sevent, slast, snum, sresult, daemon>>
vars  == <<conf, c2s, s2c, cVars, sVars, log>>

Msg(op, n, result) == [op |-> op, num_events |-> n, result |-> result]
Plain(op) == Msg(op, 0, "STATUS_OK")

Outcomes ==
  {"running", "passed", "server_error", "bad_server", "connection",
   "script_error", "local_error", "killed"}

\* One type for both sides of the connection.
TypeOK ==
  /\ \E n \in 1 .. MaxEvents : script \in [1 .. n -> Kind]
  /\ badEvent \in 0 .. Len(script)
  /\ cpc \in {"setup", "receive_server_ready", "init_command",
              "send_client_starting", "get_next_event", "next_event",
              "receive_packets_done", "run_event", "end"}
  /\ csetup \in 0 .. Len(Setup) /\ ssetup \in 0 .. Len(Setup)
  /\ cevent \in 0 .. Len(script) + 1 /\ sevent \in 0 .. Len(script) + 1
  /\ cnum \in 0 .. Len(script) /\ snum \in 0 .. Len(script)
  /\ {clast, slast} \subseteq Kind \cup {"INVALID_EVENT"}
  /\ outcome \in Outcomes
  /\ spc \in {"setup", "parse", "send_server_ready", "receive_client_starting",
              "get_next_event", "next_event", "run_packet", "send_warning",
              "send_error", "error_done", "closed"}
  /\ sresult \in {"running", "done", "reported", "bad_client", "connection",
                  "parse_error", "script_error"}
  /\ daemon \in {"alive", "no_netdev", "late_packet", "sigpipe", "teardown"}

Init ==
  /\ script \in UNION {[1 .. n -> Kind] : n \in 1 .. MaxEvents}
  /\ badEvent \in 0 .. Len(script)
  /\ c2s = <<>> /\ s2c = <<>> /\ log = <<>>
  /\ cpc = "setup" /\ csetup = 0 /\ cevent = 0 /\ clast = "INVALID_EVENT"
  /\ cnum = 0 /\ outcome = "running"
  /\ spc = "setup" /\ ssetup = 0 /\ sevent = 0 /\ slast = "INVALID_EVENT"
  /\ snum = 0 /\ sresult = "running" /\ daemon = "alive"

Ended      == Len(script) + 1            \* the null event after the last one
IsPacket(e) == e < Ended /\ script[e] \in Packet

(***************************************************************************)
(* The connection.  The kernel closes both ends when a process ends.       *)
(***************************************************************************)
ClientOpen == outcome = "running"
ServerOpen == spc # "closed" /\ daemon = "alive"

ClientAt(l) == ClientOpen /\ cpc = l
ServerAt(l) == ServerOpen /\ spc = l

\* die() in the client.
ClientDies(why) == outcome' = why /\ UNCHANGED <<cpc, csetup, cevent, clast, cnum>>

\* wire_conn_write by the client; a write to a closed peer fails, or vanishes
\* when the reset has not come back yet.
ClientSends(m) ==
  \/ ServerOpen /\ c2s' = Append(c2s, m)
  \/ ~ServerOpen /\ c2s' = c2s

\* wire_conn_read of the next message, and its error at the end of the stream.
ClientReads == s2c # <<>> /\ s2c' = Tail(s2c)
ServerReads == c2s # <<>> /\ c2s' = Tail(c2s)

\* wire_conn_write by the server, to a client that may be gone.
ServerSends(m) ==
  \/ ClientOpen /\ s2c' = Append(s2c, m)
  \/ ~ClientOpen /\ s2c' = s2c

\* goto error_done, with the reason.
ServerStops(why) == spc' = "error_done" /\ sresult' = why

(***************************************************************************)
(* The client.                                                             *)
(***************************************************************************)
\* Any write or read of the client that fails ends in wire_client_die (or,
\* before run_script ignores it, in SIGPIPE).
ClientWriting ==
  \/ cpc \in {"setup", "send_client_starting"}
  \/ cpc = "next_event" /\ IsPacket(cevent) /\ clast \notin Packet
ClientReading == cpc \in {"receive_server_ready", "receive_packets_done"}

client_connection_error ==
  /\ ClientOpen
  /\ ~ServerOpen
  /\ ClientWriting \/ (ClientReading /\ s2c = <<>>)
  /\ ClientDies("connection")
  /\ UNCHANGED <<conf, c2s, s2c, sVars, log>>

wire_client_init ==
  /\ ClientAt("setup")
  /\ ClientSends(Plain(Setup[csetup + 1]))
  /\ csetup' = csetup + 1
  /\ cpc' = IF csetup' = Len(Setup) THEN "receive_server_ready" ELSE "setup"
  /\ UNCHANGED <<conf, s2c, cevent, clast, cnum, outcome, sVars, log>>

wire_client_receive_server_ready ==
  /\ ClientAt("receive_server_ready")
  /\ ClientReads
  /\ \/ /\ Head(s2c).op = "WIRE_SERVER_READY"
        /\ cpc' = "init_command" /\ UNCHANGED <<csetup, cevent, clast, cnum, outcome>>
     \/ /\ Head(s2c).op # "WIRE_SERVER_READY"
        /\ ClientDies("bad_server")
  /\ UNCHANGED <<conf, c2s, sVars, log>>

\* The init command of the script; if it fails, exit(EXIT_FAILURE).
run_init_command ==
  /\ ClientAt("init_command")
  /\ \/ cpc' = "send_client_starting" /\ UNCHANGED <<csetup, cevent, clast, cnum, outcome>>
     \/ ClientDies("local_error")
  /\ UNCHANGED <<conf, c2s, s2c, sVars, log>>

wire_client_send_client_starting ==
  /\ ClientAt("send_client_starting")
  /\ ClientSends(Plain("WIRE_CLIENT_STARTING"))
  /\ cpc' = "get_next_event"
  /\ UNCHANGED <<conf, s2c, csetup, cevent, clast, cnum, outcome, sVars, log>>

client_get_next_event ==
  /\ ClientAt("get_next_event")
  /\ \/ /\ cevent + 1 # badEvent
        /\ cevent' = cevent + 1
        /\ cpc' = "next_event" /\ UNCHANGED <<csetup, clast, cnum, outcome>>
     \/ cevent + 1 = badEvent /\ ClientDies("script_error")
  /\ UNCHANGED <<conf, c2s, s2c, sVars, log>>

\* The end of wire_client_next_event, and the switch on the type of event
\* that follows it: a packet event is left to the server.
ClientCounts ==
  \/ /\ cevent # Ended
     /\ clast' = script[cevent] /\ cnum' = cnum + 1
     /\ cpc' = IF IsPacket(cevent) THEN "get_next_event" ELSE "run_event"
  \/ /\ cevent = Ended
     /\ cpc' = "end" /\ UNCHANGED <<clast, cnum>>

\* Mutant: sends a request for every packet event.
wire_client_next_event_always_starts ==
  /\ ClientAt("next_event")
  /\ \/ /\ IsPacket(cevent)
        /\ ClientSends(Msg("WIRE_PACKETS_START", cnum, "STATUS_OK"))
        /\ ClientCounts
     \/ /\ ~IsPacket(cevent) /\ clast \in Packet
        /\ cpc' = "receive_packets_done" /\ UNCHANGED <<clast, cnum, c2s>>
     \/ /\ ~IsPacket(cevent) /\ clast \notin Packet
        /\ ClientCounts /\ c2s' = c2s
  /\ UNCHANGED <<conf, s2c, csetup, cevent, outcome, sVars, log>>

\* Mutant: waits for the server only at the end of the script.
wire_client_next_event_runs_ahead ==
  /\ ClientAt("next_event")
  /\ \/ /\ IsPacket(cevent) /\ clast \notin Packet
        /\ ClientSends(Msg("WIRE_PACKETS_START", cnum, "STATUS_OK"))
        /\ ClientCounts
     \/ /\ cevent = Ended /\ clast \in Packet
        /\ cpc' = "receive_packets_done" /\ UNCHANGED <<clast, cnum, c2s>>
     \/ /\ cevent # Ended /\ (IsPacket(cevent) => clast \in Packet)
        /\ ClientCounts /\ c2s' = c2s
  /\ UNCHANGED <<conf, s2c, csetup, cevent, outcome, sVars, log>>

\* Mutant: the null event is ignored, so the last batch is not waited for.
wire_client_next_event_ignores_null ==
  /\ ClientAt("next_event")
  /\ \/ /\ IsPacket(cevent) /\ clast \notin Packet
        /\ ClientSends(Msg("WIRE_PACKETS_START", cnum, "STATUS_OK"))
        /\ ClientCounts
     \/ /\ cevent # Ended /\ ~IsPacket(cevent) /\ clast \in Packet
        /\ cpc' = "receive_packets_done" /\ UNCHANGED <<clast, cnum, c2s>>
     \/ /\ cevent = Ended \/ (IsPacket(cevent) <=> clast \in Packet)
        /\ ClientCounts /\ c2s' = c2s
  /\ UNCHANGED <<conf, s2c, csetup, cevent, outcome, sVars, log>>

wire_client_next_event ==
  /\ ClientAt("next_event")
  /\ \/ /\ IsPacket(cevent) /\ clast \notin Packet
        /\ ClientSends(Msg("WIRE_PACKETS_START", cnum, "STATUS_OK"))
        /\ ClientCounts
     \/ /\ ~IsPacket(cevent) /\ clast \in Packet
        /\ cpc' = "receive_packets_done" /\ UNCHANGED <<clast, cnum, c2s>>
     \/ /\ IsPacket(cevent) <=> clast \in Packet
        /\ ClientCounts /\ c2s' = c2s
  /\ UNCHANGED <<conf, s2c, csetup, cevent, outcome, sVars, log>>

\* Warnings are printed; the answer must be for the events counted here.
wire_client_receive_packets_done ==
  /\ ClientAt("receive_packets_done")
  /\ ClientReads
  /\ LET m == Head(s2c) IN
     \/ m.op = "WIRE_PACKETS_WARN" /\ UNCHANGED cVars
     \/ /\ m.op = "WIRE_PACKETS_DONE"
        /\ m.result = "STATUS_ERR"
        /\ ClientDies("server_error")
     \/ /\ m.op = "WIRE_PACKETS_DONE"
        /\ m.result = "STATUS_OK" /\ m.num_events = cnum
        /\ ClientCounts /\ UNCHANGED <<csetup, cevent, outcome>>
     \/ /\ \/ m.op \notin {"WIRE_PACKETS_WARN", "WIRE_PACKETS_DONE"}
           \/ m.op = "WIRE_PACKETS_DONE" /\ m.result = "STATUS_OK" /\ m.num_events # cnum
        /\ ClientDies("bad_server")
  /\ UNCHANGED <<conf, c2s, sVars, log>>

\* run_system_call_event, run_command_event and run_code_event.
run_local_event ==
  /\ ClientAt("run_event")
  /\ \/ /\ log' = Append(log, cevent)
        /\ cpc' = "get_next_event" /\ UNCHANGED <<csetup, cevent, clast, cnum, outcome>>
     \/ ClientDies("local_error") /\ log' = log
  /\ UNCHANGED <<conf, c2s, s2c, sVars>>

\* The cleanup command, code_execute and state_free at the end of run_script.
run_script_end ==
  /\ ClientAt("end")
  /\ \/ outcome' = "passed" /\ UNCHANGED <<cpc, csetup, cevent, clast, cnum>>
     \/ ClientDies("local_error")
  /\ UNCHANGED <<conf, c2s, s2c, sVars, log>>

\* A signal, or die() in the system call thread: at any time.
client_killed ==
  /\ ClientOpen
  /\ ClientDies("killed")
  /\ UNCHANGED <<conf, c2s, s2c, sVars, log>>

(***************************************************************************)
(* The server thread.                                                      *)
(***************************************************************************)
ServerReading ==
  \/ spc \in {"setup", "receive_client_starting"}
  \/ spc = "next_event" /\ IsPacket(sevent) /\ slast \notin Packet
ServerWriting ==
  \/ spc \in {"send_server_ready", "send_warning", "send_error"}
  \/ spc = "next_event" /\ ~IsPacket(sevent) /\ slast \in Packet

\* A read at the end of the stream, or a write refused with an error.  What
\* wire_server_next_event returns for the null event is not looked at.
server_connection_error ==
  /\ ServerOpen
  /\ ~ClientOpen
  /\ ServerWriting \/ (ServerReading /\ c2s = <<>>)
  /\ IF spc = "next_event" /\ sevent = Ended
     THEN ServerStops("done") ELSE ServerStops("connection")
  /\ UNCHANGED <<conf, c2s, s2c, cVars, ssetup, sevent, slast, snum, daemon, log>>

\* The server never ignores SIGPIPE, whose default is to end the process.
server_sigpipe ==
  /\ ServerOpen
  /\ ~ClientOpen
  /\ ServerWriting
  /\ daemon' = "sigpipe"
  /\ UNCHANGED <<conf, c2s, s2c, cVars, spc, ssetup, sevent, slast, snum, sresult, log>>

\* wire_server_receive_args, _script_path, _script and _hw_address.
wire_server_receive_setup ==
  /\ ServerAt("setup")
  /\ ServerReads
  /\ \/ /\ Head(c2s).op = Setup[ssetup + 1]
        /\ ssetup' = ssetup + 1
        /\ spc' = IF ssetup' = Len(Setup) THEN "parse" ELSE "setup"
        /\ sresult' = sresult
     \/ /\ Head(c2s).op # Setup[ssetup + 1]
        /\ ServerStops("bad_client") /\ ssetup' = ssetup
  /\ UNCHANGED <<conf, s2c, cVars, sevent, slast, snum, daemon, log>>

\* parse_script_and_set_config, then wire_server_netdev_new; either may die().
wire_server_parse ==
  /\ ServerAt("parse")
  /\ \/ spc' = "send_server_ready" /\ UNCHANGED <<sresult, daemon>>
     \/ ServerStops("parse_error") /\ daemon' = daemon
     \/ daemon' = "no_netdev" /\ UNCHANGED <<spc, sresult>>
  /\ UNCHANGED <<conf, c2s, s2c, cVars, ssetup, sevent, slast, snum, log>>

wire_server_send_server_ready ==
  /\ ServerAt("send_server_ready")
  /\ ServerSends(Plain("WIRE_SERVER_READY"))
  /\ spc' = "receive_client_starting"
  /\ UNCHANGED <<conf, c2s, cVars, ssetup, sevent, slast, snum, sresult, daemon, log>>

wire_server_receive_client_starting ==
  /\ ServerAt("receive_client_starting")
  /\ ServerReads
  /\ \/ /\ Head(c2s).op = "WIRE_CLIENT_STARTING"
        /\ spc' = "get_next_event" /\ sresult' = sresult
     \/ /\ Head(c2s).op # "WIRE_CLIENT_STARTING"
        /\ ServerStops("bad_client")
  /\ UNCHANGED <<conf, s2c, cVars, ssetup, sevent, slast, snum, daemon, log>>

server_get_next_event ==
  /\ ServerAt("get_next_event")
  /\ \/ /\ sevent + 1 # badEvent
        /\ sevent' = sevent + 1
        /\ spc' = "next_event" /\ sresult' = sresult
     \/ /\ sevent + 1 = badEvent
        /\ ServerStops("script_error") /\ sevent' = sevent
  /\ UNCHANGED <<conf, c2s, s2c, cVars, ssetup, slast, snum, daemon, log>>

\* Mutant: only packet events are counted.
ServerCounts_packets_only ==
  \/ /\ sevent # Ended
     /\ slast' = script[sevent] /\ snum' = IF IsPacket(sevent) THEN snum + 1 ELSE snum
     /\ spc' = IF IsPacket(sevent) THEN "run_packet" ELSE "get_next_event"
     /\ sresult' = sresult
  \/ /\ sevent = Ended
     /\ ServerStops("done") /\ UNCHANGED <<slast, snum>>

\* The end of wire_server_next_event, and the switch that follows it: only a
\* packet event is run.
ServerCounts ==
  \/ /\ sevent # Ended
     /\ slast' = script[sevent] /\ snum' = snum + 1
     /\ spc' = IF IsPacket(sevent) THEN "run_packet" ELSE "get_next_event"
     /\ sresult' = sresult
  \/ /\ sevent = Ended
     /\ ServerStops("done") /\ UNCHANGED <<slast, snum>>

wire_server_next_event ==
  /\ ServerAt("next_event")
  /\ \/ /\ IsPacket(sevent) /\ slast \notin Packet
        /\ ServerReads
        /\ LET m == Head(c2s) IN
           \/ /\ m.op = "WIRE_PACKETS_START" /\ m.num_events = snum
              /\ ServerCounts
           \/ /\ m.op # "WIRE_PACKETS_START" \/ m.num_events # snum
              /\ ServerStops("bad_client") /\ UNCHANGED <<slast, snum>>
        /\ s2c' = s2c
     \/ /\ ~IsPacket(sevent) /\ slast \in Packet
        /\ ServerSends(Msg("WIRE_PACKETS_DONE", snum, "STATUS_OK"))
        /\ ServerCounts /\ c2s' = c2s
     \/ /\ IsPacket(sevent) <=> slast \in Packet
        /\ ServerCounts /\ UNCHANGED <<c2s, s2c>>
  /\ UNCHANGED <<conf, cVars, ssetup, sevent, daemon, log>>

\* The packet is injected, or sniffed and verified: right, suspicious, wrong.
run_packet_event ==
  /\ ServerAt("run_packet")
  /\ \/ log' = Append(log, sevent) /\ spc' = "get_next_event"
     \/ /\ script[sevent] = "outbound"
        /\ log' = Append(log, sevent) /\ spc' = "send_warning"
     \/ spc' = "send_error" /\ log' = log
  /\ UNCHANGED <<conf, c2s, s2c, cVars, ssetup, sevent, slast, snum, sresult, daemon>>

\* wait_for_event, before an inbound packet, calls die() when it is late.
inbound_packet_late ==
  /\ ServerAt("run_packet")
  /\ script[sevent] = "inbound"
  /\ daemon' = "late_packet"
  /\ UNCHANGED <<conf, c2s, s2c, cVars, spc, ssetup, sevent, slast, snum, sresult, log>>

wire_server_send_packet_warning ==
  /\ ServerAt("send_warning")
  /\ ServerSends(Plain("WIRE_PACKETS_WARN"))
  /\ spc' = "get_next_event"
  /\ UNCHANGED <<conf, c2s, cVars, ssetup, sevent, slast, snum, sresult, daemon, log>>

wire_server_send_packets_done_error ==
  /\ ServerAt("send_error")
  /\ ServerSends(Msg("WIRE_PACKETS_DONE", snum, "STATUS_ERR"))
  /\ ServerStops("reported")
  /\ UNCHANGED <<conf, c2s, cVars, ssetup, sevent, slast, snum, daemon, log>>

\* Mutant: the thread ends without wire_server_free.
wire_server_error_done_leaks ==
  /\ ServerAt("error_done")
  /\ FALSE
  /\ UNCHANGED vars

\* state_free, if there is a state, and wire_server_free, which closes the
\* connection.  close_all_sockets calls die() when the packet that resets a
\* connection or aborts an association cannot be sent.
StateAllocated == ssetup = Len(Setup) /\ sresult # "parse_error"

wire_server_error_done ==
  /\ ServerAt("error_done")
  /\ \/ spc' = "closed" /\ daemon' = daemon
     \/ StateAllocated /\ daemon' = "teardown" /\ spc' = spc
  /\ UNCHANGED <<conf, c2s, s2c, cVars, ssetup, sevent, slast, snum, sresult, log>>

(***************************************************************************)
(* The specification.                                                      *)
(***************************************************************************)
ClientStep ==
  \/ client_connection_error \/ wire_client_init
  \/ wire_client_receive_server_ready \/ run_init_command
  \/ wire_client_send_client_starting \/ client_get_next_event
  \/ wire_client_next_event \/ wire_client_receive_packets_done
  \/ run_local_event \/ run_script_end

ServerStep ==
  \/ server_connection_error \/ server_sigpipe \/ wire_server_receive_setup
  \/ wire_server_parse \/ wire_server_send_server_ready
  \/ wire_server_receive_client_starting \/ server_get_next_event
  \/ wire_server_next_event \/ inbound_packet_late
  \/ wire_server_send_packet_warning \/ wire_server_send_packets_done_error
  \/ wire_server_error_done

Next == ClientStep \/ client_killed \/ ServerStep \/ run_packet_event

Spec == Init /\ [][Next]_vars

\* The server waits for a packet that the kernel under test has yet to send:
\* netdev_receive has no timeout, so nothing promises that it returns.
Sniffing == ServerAt("run_packet") /\ script[sevent] = "outbound"

FairSpec ==
  /\ Spec
  /\ WF_vars(ClientStep)
  /\ WF_vars(ServerStep \/ (~Sniffing /\ run_packet_event))

(***************************************************************************)
(* Properties.                                                             *)
(***************************************************************************)
\* The two copies of next_event in wire_client.c and wire_server.c stay in
\* step: no "bad wire client" or "bad wire server" message is ever printed,
\* whatever the script and however far one side runs ahead of the other.
NeverOutOfStep == outcome # "bad_server" /\ sresult # "bad_client"

\* The error message that wire_server_run_packet_event sends is the last thing
\* the client hears: nothing of the client's is left unread when the thread
\* closes the connection, so that no reset can overtake the message, and the
\* client does not blame the connection or itself.
ErrorNotOvertaken ==
  sresult = "reported" =>
    /\ c2s = <<>>
    /\ outcome \in {"running", "server_error", "killed", "script_error"}

\* Excepted: the reset or abort at the end of the test cannot be sent.
Spared == daemon \in {"alive", "teardown"}

\* A test that passed does not take the daemon down with it, unless the final
\* packet of state_free cannot be sent: the server writes nothing after the last
\* answer that run_script waits for, and no packet of the script is still to be
\* injected, too late, or sniffed.
PassedTestSparesDaemon == outcome = "passed" => Spared /\ ~ServerWriting /\ ~ServerAt("run_packet")

\* "If we're running as a server, just listen for connections forever": a
\* client that goes away does not end the daemon, whose senders print an error
\* and return STATUS_ERR when wire_conn_write fails.
LostClientSparesDaemon == daemon # "sigpipe"

\* The two processes together run the script as one would: in order, across
\* the machines, and the client reports a pass only when every packet event
\* was handled on the server.
Sequential ==
  INSTANCE SequentialScript
  WITH verdict <- IF outcome \in {"running", "passed"} THEN outcome ELSE "failed"

ImplementsSequentialScript == Sequential!Spec

\* The client never waits for an answer that cannot come: it ends, unless the
\* server sniffs for ever for a packet that the kernel under test never sends.
ClientEnds == <>(outcome # "running") \/ <>[]Sniffing
=============================================================================
