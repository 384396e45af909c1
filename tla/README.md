# A verification project for packetdrill

packetdrill runs scripts that test a TCP, UDP, UDPLite or SCTP implementation:
it makes system calls, injects packets, sniffs the packets that the kernel
under test sends, and compares all of it, times included, with the script.
The program is in `src/gtests/net/packetdrill`; all file names below are
relative to that directory.

This directory holds TLA+ models of packetdrill, the TLC configurations that
check them on small instances, and TLAPS proofs. `PROJECT.json` lists the
components, the runs, the source lines behind every definition, the hazards of
the code and the properties that watch them.

    tlc -config SyscallThread_threads.cfg SyscallThread    # a run
    tlapm SyscallThreadProofs.tla                          # the proofs

Contents: [components](#1-the-system) · [modules](#2-the-modules) ·
[runs](#3-the-runs) · [fairness](#4-fairness) · [proofs](#5-the-proofs) ·
[disagreements](#6-where-code-and-comments-disagree) ·
[limits](#7-what-is-not-modelled) · [plan](#8-plan)

## 1. The system

| Component | State | Operations | Interacts through |
|---|---|---|---|
| Interpreter loop (`run.c`) | `struct state`: current and last event, start times, sockets, mutex | `get_next_event`, `adjust_relative_event_times`, `wait_for_event`, `check_event_time`, `verify_time`, `state_free` | calls every other component; holds `state->mutex` except while it waits |
| System call thread (`run_system_call.c`) | `syscalls->state`, `event`, `live_end_usecs`, three condition variables | `enqueue_system_call`, `begin_syscall`, `end_syscall`, `await_idle_thread`, `syscalls_free` | shares `struct state` with the main thread under the mutex |
| System call handlers (`run_system_call.c`) | memory for the duration of a call | one `syscall_*` for each call, one `check_*`, `setsockopt_*`, `getsockopt_*` for each struct | change the list of sockets; arguments come from the expressions of the parser |
| Packet events (`run_packet.c`) | the sockets | `do_inbound_script_packet`, `do_outbound_script_packet`, `map_*`, `verify_*`, `reset_connection`, `abort_association` | netdev below, sockets shared with system calls |
| Socket tracking (`socket.c`, `socket.h`) | state, addresses, initial sequence numbers, last headers, timestamp maps, SCTP tags | `socket_new`, `socket_free`, offsets between script and live | used by packets and system calls |
| Wire client and server (`wire_client.c`, `wire_server.c`, `wire_conn.c`) | position in the script, count of packet events | setup messages, `next_event` on both sides, errors and warnings | a TCP connection between two machines |
| Process (`packetdrill.c`, `logging.c`, `system.c`) | globals `cleanup_cmd`, `init_cmd_exists`, `init_cmd_exed` | `main`, init and cleanup commands, `die`, `signal_handler` | every component calls `die` |
| SCTP associations (`run_packet.c`, `sctp_packet.c`) | tags and initial TSNs of script and kernel, prepared COOKIE_ECHO and HEARTBEAT_ACK chunks | `map_*_sctp_packet`, the chunk, parameter and cause constructors, `verify_sctp`, `abort_association` | live in `struct socket`; used by packet events |
| TCP options and timestamps (`run_packet.c`, `hash_map.c`, `tcp_options*.c`) | `ts_val_map` and the baseline of a socket | `map_*`, `verify_outbound_live_tcp_options`, `hash_map_*` | live in `struct socket`; used by packet events |
| Parser and expressions (`parser.y`, `lexer.l`, `script.c`) | the event list, options, `cleanup_cmd`, copies of expressions during a call | parse, `evaluate`, `free_expression` | produces the script; system calls evaluate its arguments |
| Packet construction, parsing, checksums, options, printing | none (pure) | build, parse, map, compare, format | used by packet events |
| Network devices (`netdev.c`, `packet_socket_*.c`, ...) | file descriptors | send, receive | the kernel |

Which behaviours are hard:

- *Two threads, one mutex.* A blocking call runs on its own thread. The handover
  needs three condition variables and five states, the waits have a timeout,
  and teardown may cancel the thread at any point. Correct: no assert fails,
  calls do not overlap, no call is forgotten, nobody waits for ever, and a
  test passes only if every call was verified.
- *Two processes, one script.* On a real wire, client and server each walk
  through their own copy of the script and tell each other only where batches
  of packets start and end. Correct: the two stay in step, the events happen in
  script order across the machines, errors arrive, the daemon survives.
- *A model of the kernel's connection.* packetdrill infers from the script and
  from sniffed packets what the kernel knows, in sockets that change hands
  (listener to child). Correct: numbers are mapped as the script means them,
  across the wrap at 2^32, and the reset at the end is one the kernel accepts.
- *Time.* Relative times are resolved when the event is reached, packets are
  examined later than they were sent, and calls end on another thread.
  Correct: what passes happened in the order, and with the distances, of the
  script.
- *Associations that start again.* An SCTP script may repeat and cross handshakes.
  The program keeps the numbers of the last one it saw, and chunks prepared from
  what it sniffed earlier. Correct: every TSN and tag means the same to script
  and kernel, prepared chunks are accepted, the ABORT at the end clears the
  association.
- *Two hundred small functions that must agree.* Every struct of a system call is
  declared, parsed, evaluated, handed over, compared and freed in six places;
  every SCTP chunk is built, flagged where it is left open, and compared flag by
  flag. Correct: what passes matches and what matches passes, and everything
  allocated is freed once.
- *Globals that outlive a script.* Several scripts run in one process.
  Correct: cleanup commands run, for the right script.

## 2. The modules

Composition: `SyscallThread` implements `SerialCalls` and `WireProtocol`
implements `SequentialScript` (both by `INSTANCE ... WITH`); a `*Proofs` module
extends the module it is about. The modules cut the program by question, each
leaving to the others what it does not ask about: `SyscallThread` has threads
and no times, `EventTiming` times and one abstract call, `WireProtocol` two
machines and only the outcome of a packet event, `TcpSocket` the inside of a
packet event, `TcpTimestamps` its options, `SctpAssociation` and `SctpChunks` the
same for SCTP, one with the numbers and one with the fields; `SyscallHandlers` has
the steps of each call and treats its arguments as right or wrong, `StructArguments`
(over the tables of `ExpressionTables` and `OptionTables`) has the arguments.

Operators named `x_something` that a comment calls a mutant are variants of the
operator `x` with a plausible bug. No specification uses them; replacing `x` by
one of them must break the property that `PROJECT.json` names with it.

### SyscallThread

An atomic step is a stretch of code between two operations on the mutex or on a
condition variable. `mpc` and `spc` say where the two threads are: `mpc` follows
`run_script`, `enqueue_system_call`, `await_idle_thread`, `syscalls_free` and
`state_free`; `spc` follows `system_call_thread`, `invoke_system_call`,
`begin_syscall` and `end_syscall`. `sstate`, `sysEvent` and `liveEnd` are the
fields of `struct syscalls`, `event` is `state->event`, `waiting` the condition
variables somebody waits on. A waiter may wake up spuriously (`idle_wake` and its
kin), must reacquire the mutex (`*_relock`), and after a timeout reacquires it
with ETIMEDOUT. `act_on_cancel` lets a cancelled thread end at its next
cancellation point. `is_thread_sleeping` is nondeterministic where /proc can say
either. The history variables `issued`, `verified` and `closes` record what the
properties speak about. Every way out is there: an error that frees the state
first, `die` on either thread, a signal.

`SerialCalls` is the promise: calls are made one at a time, in script order, and
a test passes only when all of them came back as expected.

### WireProtocol

The client (`cpc`) and the server thread (`spc`) with two FIFO channels of whole
messages. All scripts up to `MaxEvents` events over inbound packets, outbound
packets and local events are explored. Actions are named after the functions of
`wire_client.c` and `wire_server.c`; a batch of packet events is announced by
WIRE_PACKETS_START and answered by WIRE_PACKETS_DONE, and both sides count. Either
side may die at any step (`client_killed`, a bad script, a late packet, SIGPIPE),
after which the peer still reads what was sent and then gets an error.

`SequentialScript` is the promise: the events happen one after the other, and a
pass means all of them happened.

### TcpSocket

The list of `struct socket` with state, initial sequence numbers and last
headers; the system calls that create and change sockets; and the packet events
from choosing the socket to mapping the header. `mode` is local or wire server,
`role` active or passive. A script is any sequence of events that is right for a
TCP endpoint: the module picks the live packet that the author means, writes it
down as the comment in `socket.h` says (`InboundScript`, `OutboundScript`), plainly, with an absolute
sequence number (`1:1(0)!`) or, in an outbound packet, with an open one (`...(0)`; in an inbound packet that is the
number 0), lets
the program map it, and keeps what was meant (`want`) and what the program made
of it (`got`). The kernel is external, a minimal endpoint that says what it
sends and which reset it accepts. `SeqMod` stands for 2^32.

### ScriptLifecycle

`main` over up to `NumScripts` scripts, each with or without init and cleanup
command, with or without `--init_scripts` and `--dry_run`. Most ways to fail, those of the
parser included, run through `die`, which runs the cleanup command; a syntax error and
a failing init command are plain exits. A signal may come at any
point. `cleanups[s]` lists whose cleanup command ran during script `s`.

### EventTiming

The interpreter loop seen through a clock (local mode). `get_next_event`
draws any event that the grammar accepts, checks it and adjusts its times;
`wait_for_event` and `check_event_time` guard the events packetdrill runs itself;
`verify_outbound_live_packet` compares an outbound packet with the oldest one
in the queue of the packet socket, where the kernel put it with its own time
stamp; `end_syscall` verifies the end of a blocking call. `event.at` is when the
event really happened, `latest` a history variable. A time unit is not a
microsecond: only order and sums matter.

### TcpTimestamps

The part of a packet event that concerns TCP options, for one socket. `hash_map_*`
is the hash map as the code has it, buckets that double and among which the nodes are
linked again; `socket` holds it and the baseline. A bucket is the set of the nodes of
its list: `hash_map_set` inserts a key only if it is not there, so a list has no two
nodes of one key and the order in it cannot matter. The hash function, the starts of the
kernel's clock and of the script's numbering, the initial sequence numbers and the SACK
blocks come from sets that are constants (`Hashes`, `Lives`, `Scripts`, `Isns`, `Peers`,
`Sacks`); values wrap at `W`.
An outbound packet of the script may have a timestamp, `TS val ...`, none, or `<...>`
for all options; an inbound one may echo any value, absolute (`!`) or not. The
product of drift and tick length is computed as an int of the scaled width.

### SctpAssociation

The socket under test, a kernel with at most one association and with cookies that
contain what it needs to set one up, and a script that may start the handshake
again (`MaxHandshakes`), from either side, before or after the first is done.
Actions: each handshake chunk in each direction, COOKIE_ECHO both filled in and with a value
of the script, which the kernel does not take, data and acknowledging chunks
with every kind of number (`InboundSpace` and its counterpart say which initial TSN
a number is relative to, chunk by chunk), heartbeats, the end of the test. `seen`
records what the last mapped packet carried and whether the kernel, or the script,
understands it as meant.

### SctpChunks

One packet at a time: the script writes up to `MaxChunks` chunks of the 22 kinds, with
every parameter or cause that fits, at most `MaxOpen` fields open; the
constructors store it with NOCHECK flags; `new_sctp_packet` refuses or accepts it; for
an outbound packet the kernel then sends something that differs in at most
`MaxOff` places, list lengths and types included, or that is cut off: a chunk,
parameter or cause that reaches beyond its packet (`PARTIAL`), one whose length field does not cover
its own header (`TOO_SHORT`, `whole`), a chunk that ends before the numbers of its struct (`short`). The
walk of `do_outbound_script_packet` over the chunks (`WalkChunks`), that of `map_outbound_live_sctp_packet`
over the parameters and `verify_sctp` come to a verdict; "dies" is an assert that fails. A
verdict is a set: reading memory behind a chunk can give more than one.

### ExpressionTables, OptionTables, StructArguments

The tables have one operator for each struct declaration, `evaluate_*_expression`,
case of `free_expression`, `check_*`, `setsockopt_*`, `parse_expression_to_*` and
`getsockopt_*`, as the list of members in the order of the code. `StructArguments`
executes them: it evaluates a copy node by node, hands it to the kernel or
compares it with the kernel's answer, and frees it. One node of the tree may be
odd: open, another value, a symbol, an expression, not evaluable. Widths are scaled
(1, 2 and 3 bits for 8, 16 and 32), so that truncation is visible.

### SyscallHandlers

The 37 handlers as sequences of steps (check of arguments, lookup of the
descriptor, allocation, `begin_syscall`, the call, `end_syscall`, check of the
results, tracking of the socket) with the memory that each error exit frees. Any step
may fail. The kernel reuses descriptors, lowest first, and the script gives them its
own numbers; at the end `close_all_sockets` and `socket_free` run. `meaning` is what the script
has under a number. `close` may fail, and has then given the descriptor back all the same, while
the handler marks the struct closed only after a success; `accept` does not check the number the script
chose. `doubtful` collects the numbers for which that has happened. What a call returned
through its arguments is compared with what the script says, value by value (`Check`), where the
argument holds what the call wrote, the handler's own value, or anything (`Holds`). Control messages
are lists: `cmsg_new` (`MsghdrNew`) refuses open levels and types and is not prepared
for an entry that is no control message; the kernel returns as many as fit into the space of the script's
structs; `check_cmsghdr` compares them one by one.

## 3. The runs

| Run | Instance | Shows |
|---|---|---|
| `SyscallThread_threads` | 3 events, timeouts, signals | Asserts hold; the thread that waits on `state->event` waits for its own event; calls are serial; a pass is earned; sockets are closed after the thread has ended; refinement of `SerialCalls`; every wait for the idle thread ends, also for a call that never returns; if calls return, packets arrive and the thread is not cancelled, the test ends |
| `WireProtocol_script` | all scripts of up to 4 events | Never out of step; an error is what the client reports; after a pass the server has nothing left to write, inject or sniff; refinement of `SequentialScript`; the client ends unless the server sniffs for ever |
| `TcpSocket_connection` | 4 setups, `SeqMod` 8, remote ISNs 0, 5, 7, any local ISN, plain, absolute and open numbers, 6 packets | Packets are mapped as written, the named case excepted; none is missed; accept() finds its socket; the reset is accepted where the program can know what the kernel has received |
| `ScriptLifecycle_scripts` | 3 scripts, every command line | A script with a cleanup command runs it when its events have begun, no other, and not before its init command; the exceptions are named |
| `EventTiming_schedule` | tolerance 1, times 0 and 3, 4 events, 2 packets, clock up to 3 | Relative times are distances; consecutive events happen in order; absolute times cannot go backward unnoticed; calls last as long as written |
| `TcpTimestamps_options` | `W` 16, 3 stamped packets, 4 ticks, at most 2 buckets, a hash with collisions and one without, tick lengths 0, 1 and 3 with tolerance 2 | The echo of an injected packet is the kernel's; the options pass exactly if they are what the script says |
| `StructArguments_check` | all 56 structs, one odd node | Freed once; the verdict on a returned struct is right both ways; the kernel gets what the script says; an option that is set and read back passes |
| `SyscallHandlers_calls` | 2 descriptors on each side, 3 sockets, 2 waiting connections, 2 control messages | Calls reach the socket the script means; the tracked sockets are the script's descriptors; no assert fails, nothing is closed or freed twice and no list is overrun; nothing is left behind; the verdict on a call is right both ways |
| `SctpAssociation_mapping` | `W` 3, 2 handshakes, the script's TSNs 0 and 2, the kernel's 1 | TSNs and tags mean the same to both sides; filled-in chunks are accepted; the ABORT clears |
| `SctpChunks_verify` | 22 kinds of chunks, bundles of 2, 2 open fields, 1 difference, chunks and items cut off | The verdict of `verify_sctp` is right both ways, and defined; numbers of inbound packets are written |
| `SyscallThread_hang`, `WireProtocol_sigpipe` | 1 and 2 events | Counterexamples, see section 6 |

Why the bounds are enough:

- `NumEvents = 3`: a call in progress, the call that waits for it and an event
  after that; back-to-back calls, a timeout on either and teardown with or
  without a call in progress all occur. The safety properties are proved for
  every length.
- `MaxEvents = 4` (wire): two batches separated by a local event, batches at the
  start and at the end, and batches of more than one packet. Safety and refinement
  are proved for every length.
- `SeqMod = 8` with ISNs next to the wrap: a connection of 6 packets crosses it in
  both directions. More than one byte of payload per packet would not add a case
  because lengths are only added. Proved for every modulus and every number of packets.
- `NumScripts = 3`: a script between two others; proved for any number.
- `EventTiming`: four events are the least that let absolute times go backward
  over a relative one (0, 3, +0, 0), two packets the least that can be sniffed out
  of the order of the program; 3 is more than twice the tolerance, so that a violation
  cannot hide in it. `StartOffset = 0` is the start of every system but Linux, where
  the start lies 250 microseconds ahead; the proofs cover every value.
- `TcpTimestamps`: three values make the hash map grow and then reach its largest
  size (2 buckets stand for 2^30); with `W = 16` a drift of 3 ticks of 3 microseconds does
  not fit an int, one of 2 does. Clocks and sequence numbers start next to the wrap. Proved
  for every `W` that is even, and every hash function, limit, start, tick and tolerance.
- `StructArguments`: a handler looks at one member at a time and none depends on the
  value of another (the one exception, `sctp_sendv_spa`, has its own cases), so one odd
  node shows every path.
- `SyscallHandlers`: two descriptors are the least that can be confused; three
  sockets let a number be given out again twice; two connections that wait are the least of which
  `accept` can take the wrong one; two control messages, with structs of two sizes, are the least
  among which one more small message may take the room of a large one. Calls that do not change the
  tracked sockets are made with up to two of them (`MaxPlain`); how they find theirs is what the other
  calls, made with three, do as well. Proved for any descriptors, any
  number of sockets, of connections that wait and of control messages.
- `SctpAssociation`: `W = 3` has the values 0, which stands for "not set", 1 and
  2; a larger modulus adds no case since numbers are only shifted and compared. For the same reason
  it is enough that the TSNs of one side vary. Two handshakes are a first and its repetition. The proofs confirm both: they hold for every
  modulus above 2 and any number of handshakes.
- `SctpChunks`: chunks are verified one by one, so bundles matter only for their
  number and order, which two short chunks show; two open fields let one flag hide
  another; one difference is enough to ask whether it is noticed. Proved for any number of
  each.

Deadlock checking is off because every model has an end: the process exits or
the bound of the run is reached (`SctpChunks` has no end and keeps the check). That nobody gets stuck before is stated as
`TestEnds`, `AwaitIdleEnds` and `ClientEnds`.

Restrictions that a property states itself, each because the property does not
hold without it:

- `SocketsOutliveThread` excepts the signal handler, which calls `close_all_sockets`
  under a running call, and is proved without signals.
- `AsWritten` excepts packets without SYN to a child of a listening socket, in local mode,
  when the SYN had a number other than 0 (`IsnForgotten`); section 6 says why.
- `PassedTestSparesDaemon` excepts a server whose final reset or abort cannot be sent
  (`Spared`): `close_all_sockets` then calls `die`.
- `ResetClears` speaks of runs whose last packet was sniffed, or in which nothing
  was sniffed yet: after data that was injected later, the saved header is stale
  and the reset lies outside what the kernel accepts.
- `OptionsVerdict` excepts a drift whose product with the tick length overflows, and
  `TS val ...`, which is compared as 0 and, in the first packet, taken for the
  baseline.
- `IntendedSocket` and `NamesAgree` except the numbers in `doubtful`: given to `accept` while the
  script uses them, or left open by a `close` that failed. `NothingBroken` allows that such a
  socket is closed once more at the end.
- `OnlyMatchesPass` and `VerdictDefined` except live chunks, parameters and causes shorter than their
  header or struct (`ReadBehind`, `TooShort`).
- `VerdictIsRight`, `VerdictDefined`, `NothingBroken`, `NumbersAsWritten`,
  `EchoesAccepted` and `InboundNumbersWritten` name their exceptions in operators of
  their own (`Truncated`, `CheckedThoughOpen`, `OpenPad`, `PeeledOff`, ...), each of which is
  needed; section 6 lists them.
- `CleanupIsOwn` speaks of scripts that have a cleanup command, from the moment the
  parser has stored it (`Parsed`); `CleanupMatchesInit` excepts a script for which
  `init_cmd_exists` was left set (`FlagKept`) and, for the order of the two commands, what
  dies before `run_script` (`Entered`).
- `TestEnds` excludes a cancelled thread (section 6); `ClientEnds` excepts a server
  that sniffs for a packet that never comes, because `netdev_receive` has no
  timeout.

## 4. Fairness

- `SyscallThread`: strong fairness of the progress of each thread. A thread that
  can run is scheduled, and one that finds the mutex free again and again gets it
  in the end: the main thread yields between two polls and a futex does not
  starve a waiter. Spurious wakeups are possible but get no fairness. That the
  one second of `pthread_cond_timedwait` passes (`idle_timeout`) and that a cancelled
  thread reaches a cancellation point (`act_on_cancel`) do not depend on the
  program. What the main thread runs itself (`run_event`) and the blocking call of the other
  thread get no fairness: a call or a command may never return, and `netdev_receive` waits for a
  packet without a timeout. That they end is the premise `EventsComplete` of
  `TestEnds` and nowhere else assumed.
- `WireProtocol`: weak fairness of the steps of the client and of the server,
  each a single thread that nothing but its own reads can block; the one step
  without it is a sniff, since the packet may never come.

## 5. The proofs

All theorems hold for every value of the constants that the named assumptions
allow: scripts of any length, any number of scripts and of handshakes, sequence
numbers, timestamps, tags and TSNs of every width, any hash function, any tolerance, any set of times that are
natural numbers and contain 0, any descriptors and any number of sockets, bundles of any number of chunks. Where a theorem has an assumption of its own, it says
so; each module has `Invariance` (its `IInv` always holds) and `TypeCorrect`.

`SyscallThreadProofs`. None of the properties is inductive. `IInv` adds to the type
invariant which stretches of code hold the mutex (`MutexInv`), which state of
`struct syscalls` belongs to which stretch of either thread (`HandoverInv`), which
calls may be unfinished in which state (`CallsInv`), and what is known while the
state is being freed (`FreeInv`). `HandoverInv` carries the argument: while the
state is SYSCALL_ENQUEUED the main thread cannot leave `enqueue_system_call`, so
`state->event` is the system call thread's own event until `begin_syscall`. Theorems:
`TypeCorrect`, `AssertsNeverFail`, `WaitsForOwnEvent`, `CallsAreSerial`, `PassIsEarned`,
`SocketsClosedLast` (assuming `SignalsOccur = FALSE`) and `Refinement`
(`Spec => Serial!Spec`: the initial state maps to the initial state, every step to
a step of `SerialCalls` or to a stutter).

Its second part is about `StructArguments`, for any set of structs. `CopyFreedOnce` (`FreedOnce`): `evaluate()`
and `free_expression()` walk the same tree, in which every node is reached from one parent
only; the inductive invariant says that what `evaluate()` has still to visit lies outside what it has
copied, and the same of what is freed. So every node that was allocated is freed once, also after
an evaluation that fails half-way.

`EventTimingProofs`. `IInv` adds that packets wait in the order in which they were
sent and are not older than what was sniffed before (`QueueInv`); how the adjusted
times of the current event lie to the event before and to the clock
(`TimeInv`); and that the start and the end of a blocking call were moved by the same
amount (`CallInv`). What `verify_time` establishes is stated once (`VerifiedTime`,
`NotEarly`). The bounds are tight in this sense: two events verified against the
same time may each be off by the tolerance, in opposite directions, hence
twice the tolerance in `OrderKept` and `NoBackwardTimes`; a call that packetdrill
starts itself is never early, hence once at the upper end of `CallDuration`.
Theorems: `Invariance`, `TypeCorrect`, `RelativeDistance`, `ScriptOrder`,
`TimesDoNotGoBackward`, `CallLasts`.

`WireProtocolProofs`. `IInv` says where the two processes can be together while
the script runs, by the batch of packets the client is in: in none (`Between`); in one
that the server has not read the start of (`Requested`); both in it (`InBatch`); in one that
the server has finished (`Finished`); or the server is gone (`Alone`). For each place it says
what both channels hold, how far the log of events has come and that only packets, or no
packets, lie between the two positions. `ToServerInv` and `BeforeInv` do the same for the
setup. The argument: the positions are compared at the ends of batches only, and both sides
agree on where a batch ends because they look at the same script. Theorems:
`InStep` (`NeverOutOfStep`), `ErrorsArrive` (`ErrorNotOvertaken`), `PassSparesDaemon`
(`PassedTestSparesDaemon`), `Refinement` (`Spec => Sequential!Spec`).

`ScriptLifecycleProofs`. The globals outlive a script, so `IInv` says what `cleanup_cmd`,
`init_cmd_exists` and `init_cmd_exed` still mean when the next script has come
(`GlobalsInv`), when the signal handler and the state exist (`ProcessInv`) and
which commands were run for the scripts so far (`HistoryInv`). Theorems: `CleanupsAreOwn`
and `CleanupsMatchInits`, on every command line.

`TcpSocketProofs`. `IInv` has one predicate for each state of the kernel's connection
(`ClosedInv`, `ListenInv`, `SynSentInv`, `SynReceivedInv`, `EstablishedInv`), which says what
`struct socket` may look like then and which of its initial sequence numbers are
those of the kernel and of the script; `LastOutboundInv` relates the saved header to
what the kernel has sent and received. From these, mapping a number is
subtracting one base and adding another, modulo any `SeqMod`. Theorems: `MappedAsWritten`
(`AsWritten`), `SocketFollows` (`SocketFollowsKernel`), `ResetsClear` (`ResetClears`). The case
that `AsWritten` excepts, `IsnForgotten`, is part of the induction (`InboundForgotten`): the kernel and the
script are then out of step (`PeerInStep`), yet no packet is missed and the reset is accepted.

`SctpAssociationProofs`. `IInv` has one predicate for each
role (`PassiveInv`, `ActiveInv`), by the state of the tracked socket, and others for the packet under way
(`InitAckInv`), heartbeats (`HeartbeatInv`) and the peer (`RemoteInv`): which of the stored tags and TSNs are those of the
kernel's association, of the cookie it has prepared, or of the script. It is needed because
a restart replaces the numbers of the socket before the kernel has replaced its own, and because a COOKIE_ECHO
that the script wrote moves a socket that has learnt nothing (`Blank`). Theorems: `NumbersMapped`
(`NumbersAsWritten`), `EchoesFilled` (`EchoesAccepted`), `AbortsClear` (`AbortClears`), for any `W`
above 2 and any number of handshakes.

Its second part is about `SctpChunks`, for any number of open fields, of fields in which the sniffed
chunk deviates, and of chunks in a packet. The inductive invariants are small: the stored chunks are what the
constructors make of the written ones (`ChunkInv`), a packet made for comparison has no value shorter
than its length, and a verdict is what `verify_sctp` returns for the sniffed packet (`VerdictInv`). The
work lies in the operators. `NumbersOfInboundPackets` (`InboundNumbersWritten`): an open number leaves its
flag whatever constructor stores it (`OpenNumbersFlagged`), and `new_sctp_packet` looks at every flag of
a number that is shifted (`OpenNumbersRefused`); for a chunk given by its bytes the flag is that of the length. `VerdictsRight` (`VerdictIsRight`) and `VerdictsDefined`
(`VerdictDefined`) come from one argument in three storeys, for both contents of the memory behind the chunks at
once. A stored parameter or cause is a string of bytes, a row of numbers with a flag each, or the generic request
that matches nothing (`StoredItems`), and for each of the three the comparison is what the script
means (`ItemRight`). A list is then judged rightly by its items (`ListsJudged`), a chunk by its fields, blocks and
list (`ChunkRight`, one lemma for each kind of chunk; `BlocksAt` shows that the offsets into the one array of a SACK find
the blocks of each list), and a packet by its chunks (`ChunksJudged`). Each exception in the
properties comes in with one such lemma, about the parameter or the chunk it speaks of.
The parameters and causes are those that the run enumerates, nested lists included: a list has at most two entries, and a
nested one has one, or two whose length is open, so that the sums the code forms over them need no induction; `Kinds` are the 22 chunks of the
grammar (`BoundsAssumption`), and "..." is told apart from types and bytes (`MarkersAssumption`).

`SyscallHandlersProofs`. The 37 handlers are not treated one by one. `TableShape` says of
each what `TableFacts` needs of all: preparation comes before `begin_syscall`, then the
call, then `end_syscall`, then checks, and the tracking of the socket last; what is
allocated has its free behind it. So `CallInv` can say what a call in progress has done by
the steps it has passed. `TrackedInv` says that script, tracked sockets and
kernel agree on the numbers that are not doubtful (`Sure`), but for the one descriptor the call has made or closed and
not yet tracked, and that the struct a call has looked up is the first open one with its number
(`Found`) until it returns. It would not be inductive alone: a doubtful struct may carry the
descriptor of another socket. `KernelInv` therefore says, doubtful or not, that every
open descriptor of the kernel has an open struct, so that closing one descriptor
makes every number that still leads to it doubtful; `AcceptInv` that every connection that waits has its socket and that these lie in the order in which
the kernel returns them, newest first. The last is why the assert of `run_syscall_accept` needs
two waiting connections, or a struct copied by `run_syscall_sctp_peeloff`, to fail. Theorems:
`CallsIntendedSocket` (`IntendedSocket`), `NamesAlwaysAgree` (`NamesAgree`), `NothingBreaks`
(`NothingBroken`), `VerdictsAreRight` (`VerdictIsRight`), `NothingStaysBehind`
(`NothingLeftBehind`). Control messages are lists of any length: `check_cmsghdr` returns at the first
message that differs (`FirstBad`), so it passes exactly the lists that agree (`CmsgVerdict`), and it does not read
past the script's list (`NoOverrun`): if it came to a message too many, all before it would have the types of the
script's structs, and together they would not fit into the space of those.

`TcpTimestampsProofs`. Values modulo `W` are reduced to a congruence (`Same`), since a clock
may wrap any number of times: the difference of two mapped values is congruent to the
difference of the ticks that passed (`DriftIs`), hence equal to it while it is below half the
range, and so are its products as int. For the hash map `Holds(map, h)` says that every bucket
is the set of the nodes of the function `h` whose hash belongs there; `GrowHolds`, `LinkHolds` and
`SetHolds` show that growing keeps `h` and setting changes it at one key, `GetIs` that a lookup is
an application of `h`. `IInv` then needs two facts that relate steps: `h` is the history `heard`, and the baseline
is that of the first packet in which both sides have a timestamp (`BaselineOK`). Theorems:
`EchoesAreKernels` (`EchoIsKernels`), `VerdictsAreRight` (`OptionsVerdict`). Not covered: that
`& bucket_mask` is `% num_buckets`, which is so because the number of buckets starts at 1 and doubles.

Only model-checked: the liveness properties `TestEnds`, `AwaitIdleEnds` and `ClientEnds` (the
prover does not do fairness or ENABLED), and of `StructArguments` the properties `KernelGetsScript`,
`RoundTrip` and `VerdictIsRight`: its one parameter is the set of structs, the run has all 56 of them, so a theorem would
say no more than the run. What the lists of `SctpChunks` add up to when they are longer
would need an induction. `StructArguments` and `SctpChunks` state their
types (`ArgTypeOK`, `ChunkTypeOK`); TLC finds them invariant, but no run is spent on them.

## 6. Where code and comments disagree

Two of them are runs that end with a counterexample; the quotations are in
`PROJECT.json`.

1. `SyscallThread_hang` (`run_system_call.c:7367`): the cancelled thread may end while
   it holds the mutex, and the main thread hangs.
2. `WireProtocol_sigpipe` (`wire_server.c:211`): a client that has gone away ends the
   daemon by SIGPIPE.

The models contain the following too. No run of its own shows them; where a
property would otherwise fail, it excepts them by name.

Threads, processes, the wire:

- A timeout that races with the end of the call makes `syscalls_free` read a null
  event (`run_system_call.c:7361`, against the comment above it).
- A late inbound packet ends the daemon by `die` (`run.c:302`), where
  `wire_server.c:352` wants to report it to the client; so does a reset or abort that
  cannot be sent when the test is over (`run.c:132`).
- `run_script` never clears `init_cmd_exists`, but clears `init_cmd_exed` for each script: after a script
  with an init command, one with only a cleanup command does not run it (`run.c:553`, 576), against the comment at `run.c:546`,
  "we execute that no matter whether the test passes or fails" (`FlagKept`).
- A script without a cleanup command runs that of an earlier script of the command
  line (`parser.y:5951` sets the global, nothing resets it); so does a parser that
  dies, with `--dry_run` even for a script that was never run. With
  `--init_scripts` a failing init script runs the cleanup command before the
  init command; a failure in the post-processing code, or in `state_free`, runs it twice; a signal between
  two scripts finds a dangling `state`.

TCP:

- In local mode the sequence number of an injected SYN stays behind in the listening
  socket (`run_packet.c:331`), and the child made for the connection (3508) counts from 0: the packets after a SYN
  that does not start at 0 are not "relative to the first SYN" as the comment at `socket.h:281` says of "arbitrary ISNs".
  Removing `IsnForgotten` from `AsWritten` shows it in four packets.
- A connection that is still half open is not reset in local passive mode.
- A drift of the timestamps that overflows an int passes (`run_packet.c:2865`). A
  timestamp written as `...` is compared as if it were 0 when
  `--tcp_ts_tick_usecs` is given, and as the first one it becomes the baseline.

System calls:

- A successful `sctp_peeloff` copies the struct of the parent with its pointers
  (`run_system_call.c:2091`), and the end of the test frees the map twice; a failed one
  looks for descriptor -1. `accept` with several waiting connections takes the newest.
- `sctp_getpaddrs` that fails as expected frees a pointer that was never set (6844).
- `check_s32_expr` truncates to 16 bits (811), `check_sctp_assoc_value` compares 32
  bits as 16 (3026). Three members of `sctp_sendv_spa` are converted under a test of
  the first only (5516). The address of a pointer is
  passed for `sctp_hmacalgo` (4195); the test at 3622 is of a constant, so that a
  `sctp_prinfo` is read as a `sctp_default_prinfo`. Results are compared after a call that failed as
  expected (2752): with what the memory holds, or with the handler's own value (the length of `getsockopt`,
  the flags of `recvmsg`).
- `accept` takes a number that the script uses already (1979), where `socket` refuses it (1821): the
  newer socket hides the older one. `sctp_peeloff` under such a number fails an assert (2087).
- A `close` that fails, also as the script expects, leaves a struct with a descriptor that the kernel gives out again
  (2783): the next `socket` is refused as a duplicate, which "should not happen if the script is valid" (1818),
  or the end of the test closes the descriptor again and, if that fails, dies (`run.c:122`).
- `cmsg_new` takes every entry for a control message when it sums up the sizes (1098), an ellipsis too. A
  struct of another type than the one announced is compared as if it were that one. Structs that are only
  received are not filled in, so that `sendmsg` with one fails its own check (2667).

SCTP associations:

- The TSN of CWR is mapped in the wrong space of numbers (`run_packet.c:800`, `1127`);
  the duplicates of an inbound NR_SACK with nr gap blocks are not mapped (769).
- In local mode a child socket does not learn the remote tag (3508), after a restart
  the tag is that of the old association, and a tag that maps to 0 becomes 1 (930).
- Between the INIT_ACK of a restart and its COOKIE_ECHO the numbers are those of the
  new association, which the kernel does not have yet.
- The position in the list of the script's chunks is stale after a filled-in
  chunk (3347); `COOKIE_ECHO[...]` before any INIT_ACK was sniffed ends in an assert
  (3367).
- A COOKIE_ECHO with a value that the script gives moves the socket to the state in which
  `accept` finds it (3412), whatever the cookie: the kernel need not have the association
  (`EchoesAccepted` excepts it, `script.unechoed`), and an INIT_ACK that follows is not learnt.

SCTP chunks:

- Compared although left open: the TSN of DATA and I_DATA, the type of a chunk. Taken
  as open: a `cum_tsn` of 2^32 - 1 (`sctp_packet.c:1549`), and `...` for the
  parameters of RECONFIG means none. An open value inside a parameter or cause makes
  the whole of it unchecked.
- A PAD parameter of open length ends in an assert (`sctp_packet.c:2154`); generic
  chunks and parameters of open length or type may read behind the packet.
- The length fields of what the kernel sends are not checked before they are used: a chunk, parameter or cause
  below the size of its header fails an assert of the iterators (`sctp_iterator.c:79`, 139, 196), an INIT or
  INIT_ACK below that of its struct one of the verification (`run_packet.c:1837`, 1884), unless
  the socket was waiting for the INIT_ACK and refuses it first (3171; not modelled, `SctpChunks` has no socket). Other chunks
  that end before their numbers are compared with the bytes behind them if their length is left open.
- Not required in inbound packets, though mapped: the TSN of I_DATA and
  I_FORWARD_TSN, the initial TSN of INIT and INIT_ACK, the response number of a
  reconfiguration response, the bytes of a generic chunk whose length is written: `CHUNK[type=SHUTDOWN, len=8, val=...]`
  is accepted (`sctp_packet.c:3362`) and its zeroed number shifted (`run_packet.c:785`).

## 7. What is not modelled

- The clock may be set while a test runs (`gettimeofday`); `EventTiming` assumes
  that it does not go backward and that the kernel's time stamps come from it.
- Byte layout of packets and messages, formatting and printing, checksums, the
  grammar and the tables of symbols: no property depends on them. The framing of
  messages (`wire_conn.c`) is taken to deliver whole messages.
- Network devices, packet sockets and shell commands: pure input and output.
- More than one connection per script, which the comment at `run_packet.c:252`
  excludes as well.
- The comparison of IP, TCP, UDP and ICMP header fields and of payloads: one
  comparison per field, without state. UDP encapsulation.
- In the system calls: the contents of files and buffers, poll timeouts and
  `tcp_info`; the branches of the FreeBSD build stand for all, since it alone compiles
  every struct.
- The limit on the size of an SCTP packet ("SCTP packet too large").

## 8. Plan

What is left, in this order:

1. `WireConn`: framing over a byte stream cut anywhere, shown to implement the
   channels of `WireProtocol`; `Netdev`: the receive loop that skips foreign packets.
2. Pure algorithms against reference definitions: the Internet checksum and
   CRC-32c, header stacking, the comparison of IP and TCP headers.
