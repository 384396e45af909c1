--------------------------- MODULE TcpTimestamps ---------------------------
(***************************************************************************)
(* The TCP options of a packet event: how packetdrill learns which live    *)
(* timestamp value stands behind a value of the script (ts_val_map, a hash *)
(* map), puts it into the echo of an injected packet, moves SACK blocks    *)
(* between script and live sequence numbers, and compares the options of a *)
(* sniffed packet with the script (run_packet.c, hash_map.c, tcp_*.c).     *)
(*                                                                         *)
(* The kernel (external) stamps its packets with a clock that starts       *)
(* anywhere and wraps; the author of the script numbers the same ticks     *)
(* from another start.  `elapsed' counts the kernel's ticks, `tick' in a   *)
(* packet the author's, both as true numbers.                              *)
(***************************************************************************)
EXTENDS Integers, Sequences

CONSTANTS
  W,            \* values wrap here: 2^32 in the code
  MAX_BUCKETS,  \* of a hash map: 2^30 in the code
  Hashes,       \* what MurmurHash3 may be: functions of the key
  Lives,        \* where the kernel's clock may start
  Scripts,      \* where the script's timestamps may start
  Isns,         \* the kernel's initial sequence number
  Peers,        \* the peer's initial sequence number
  Sacks,        \* lists of SACK blocks, numbered as in the script
  Ticks,        \* tcp_ts_tick_usecs: microseconds per tick, 0 for no check
  Tolerance,    \* tolerance_usecs
  MaxTicks,     \* bound: ticks of the kernel's clock
  MaxPackets    \* bound: sniffed packets with a timestamp

U32 == 0..(W - 1)

ASSUME WAssumption == W \in Nat /\ W > 1 /\ W % 2 = 0
ASSUME BucketsAssumption == MAX_BUCKETS \in Nat \ {0}
ASSUME HashesAssumption == Hashes \subseteq [U32 -> Nat]
ASSUME StartsAssumption ==
  Lives \subseteq U32 /\ Scripts \subseteq U32 /\ Isns \subseteq U32 /\ Peers \subseteq U32
ASSUME SacksAssumption == Sacks \subseteq Seq([left : U32, right : U32])
ASSUME ConfigAssumption == Ticks \subseteq Nat /\ Tolerance \in Nat
ASSUME BoundsAssumption == MaxTicks \in Nat /\ MaxPackets \in Nat

VARIABLES
  config,   \* tcp_ts_tick_usecs and non_fatal_packet
  hash,     \* MurmurHash3
  start,    \* the kernel's clock, the script's and the kernel's first number, at the start
  socket,   \* struct socket: ts_val_map and the baseline of the timestamps
  elapsed,  \* ticks of the kernel's clock since the start
  packets,  \* packets sniffed with a timestamp
  heard,    \* history: script value -> the kernel's in the last packet that had it
  first,    \* history: the kernel's and the author's ticks in the baseline packet
  seen,     \* history: the last packet event and its outcome
  test      \* "running" or "failed"

vars == <<config, hash, start, socket, elapsed, packets, heard, first, seen, test>>

s32(n) == IF n % W >= W \div 2 THEN (n % W) - W ELSE n % W
Abs(n) == IF n < 0 THEN -n ELSE n

------------------------------------------------------------------------------
(* The hash map.  A bucket is the set of the nodes in its list: a key is inserted only if *)
(* it is not there, so no list has two nodes of one key, and their order does not matter.  *)
NotFound == -1
hash_map_new == [num_keys |-> 0, num_buckets |-> 1, buckets |-> [i \in {0} |-> {}]]
hash_bucket_num(map, key) == hash[key] % map.num_buckets

hash_map_link(map, node) ==
  [map EXCEPT !.buckets[hash_bucket_num(map, node.key)] = @ \cup {node}]

\* Mutant: the nodes stay in the buckets they are in.
hash_map_grow_in_place(map) ==
  [map EXCEPT !.num_buckets = 2 * @,
              !.buckets = [i \in 0..(2 * map.num_buckets - 1) |->
                             IF i < map.num_buckets THEN @[i] ELSE {}]]

(* Every node is linked again, among twice as many buckets. *)
hash_map_grow(map) ==
  LET num   == 2 * map.num_buckets
      nodes == UNION {map.buckets[i] : i \in DOMAIN map.buckets}
  IN  [map EXCEPT !.num_buckets = num,
                  !.buckets = [i \in 0..(num - 1) |-> {n \in nodes : hash[n.key] % num = i}]]

hash_map_insert(map, key, value) ==
  LET full  == map.num_keys >= map.num_buckets /\ map.num_buckets < MAX_BUCKETS
      grown == IF full THEN hash_map_grow(map) ELSE map
  IN  hash_map_link([grown EXCEPT !.num_keys = @ + 1], [key |-> key, value |-> value])

(* The node at which the search of a bucket ends, if any. *)
NodesOf(map, key) == {n \in map.buckets[hash_bucket_num(map, key)] : n.key = key}

hash_map_set(map, key, value) ==
  IF NodesOf(map, key) = {} THEN hash_map_insert(map, key, value)
  ELSE [map EXCEPT !.buckets[hash_bucket_num(map, key)] =
          (@ \ NodesOf(map, key)) \cup {[key |-> key, value |-> value]}]

hash_map_get(map, key) ==
  IF NodesOf(map, key) = {} THEN NotFound
  ELSE (CHOOSE n \in NodesOf(map, key) : TRUE).value

------------------------------------------------------------------------------
(* Options.  ts is the timestamp option or NoTs; sack the blocks; rest all else. *)
NoTs == [val |-> NotFound, ecr |-> NotFound]
HasTs(o) == o.ts # NoTs
Readable(o) == o.rest # "malformed"

offset_sack_blocks(o, offset) ==
  [o EXCEPT !.sack = [i \in DOMAIN @ |-> [left |-> (@[i].left + offset) % W,
                                         right |-> (@[i].right + offset) % W]]]

(* An inbound packet: p.o are the options of the script. *)
map_inbound_packet(p) ==
  LET o    == offset_sack_blocks(p.o, start.isn)
      live == hash_map_get(socket.ts_val_map, o.ts.ecr)
  IN  IF p.absolute \/ ~p.ack \/ ~HasTs(o) THEN [status |-> "ok", o |-> o]
      ELSE IF live = NotFound THEN [status |-> "err", o |-> o]
      ELSE [status |-> "ok", o |-> [o EXCEPT !.ts.ecr = live]]

\* Mutant: every packet is a new baseline.
Baseline_each(s, script_val, actual_val) ==
  [s EXCEPT !.found_first_tcp_ts = TRUE,
            !.first_script_ts_val = script_val, !.first_actual_ts_val = actual_val]

(* The first values of both sides that are seen together. *)
Baseline(s, script_val, actual_val) ==
  IF s.found_first_tcp_ts THEN s
  ELSE [s EXCEPT !.found_first_tcp_ts = TRUE,
                 !.first_script_ts_val = script_val, !.first_actual_ts_val = actual_val]

Remembered(s, p, actual_val) ==
  IF p.ignore THEN s
  ELSE [s EXCEPT !.ts_val_map = hash_map_set(@, p.o.ts.val, actual_val)]

(* An outbound packet: p is the packet of the script, o the options the kernel has sent. *)
map_outbound_live_packet(p, o) ==
  LET actual == offset_sack_blocks(o, 0 - start.peer)
      s      == Baseline(Remembered(socket, p, o.ts.val), p.o.ts.val, o.ts.val)
  IN  IF ~Readable(o) THEN [status |-> "err", o |-> o, s |-> socket]
      ELSE IF ~HasTs(p.o) \/ ~HasTs(o) THEN [status |-> "ok", o |-> actual, s |-> socket]
      ELSE [status |-> "ok", s |-> s,
            o |-> [actual EXCEPT !.ts.val =
                     (s.first_script_ts_val + (o.ts.val - s.first_actual_ts_val)) % W]]

(* In int, which wraps. *)
Deviates(script_val, actual_val) ==
  /\ config.tcp_ts_tick_usecs # 0
  /\ s32(s32(Abs(s32(actual_val - script_val))) * config.tcp_ts_tick_usecs) > Tolerance

verify_outbound_live_tcp_options(p, actual) ==
  \/ p.nocheck
  \/ actual = p.o
  \/ /\ HasTs(p.o) /\ HasTs(actual)
     /\ ~Deviates(p.o.ts.val, actual.ts.val)
     /\ [actual EXCEPT !.ts.val = p.o.ts.val] = p.o

------------------------------------------------------------------------------
(* What the two sides write. *)
Stamp(val) == [val |-> val, ecr |-> 0]
Options(ts, sack, rest) == [ts |-> ts, sack |-> sack, rest |-> rest]
KernelClock == (start.live + elapsed) % W
ScriptVal(tick) == (start.script + tick) % W

(* The kernel's packet; its blocks are numbered from what the peer started with. *)
KernelOptions ==
  {offset_sack_blocks(Options(ts, sack, "usual"), start.peer) :
     ts \in {NoTs, Stamp(KernelClock)}, sack \in Sacks}
    \cup {Options(Stamp(KernelClock), <<>>, rest) : rest \in {"other", "malformed"}}

(* Without a timestamp; "..." for all options; "..." for the value, stored as 0; or a value. *)
Outbound(o, tick, dots) ==
  [o |-> o, tick |-> tick, ignore |-> dots = "value", nocheck |-> dots = "options"]
OutboundScript ==
  {Outbound(Options(NoTs, sack, "usual"), 0, "none") : sack \in Sacks} \cup
  {Outbound(Options(NoTs, <<>>, "none"), 0, "options")} \cup
  {Outbound(Options(Stamp(0), <<>>, "usual"), 0, "value")} \cup
  {Outbound(Options(Stamp(ScriptVal(t)), sack, "usual"), t, "none") :
     t \in 0..MaxTicks, sack \in Sacks}

InboundScript ==
  [o : {Options(NoTs, sack, "usual") : sack \in Sacks} \cup
       {Options([val |-> 0, ecr |-> ScriptVal(t)], <<>>, "usual") : t \in 0..MaxTicks},
   ack : BOOLEAN, absolute : BOOLEAN]

Nothing == [event |-> "none"]
socket_new ==
  [ts_val_map |-> hash_map_new, found_first_tcp_ts |-> FALSE,
   first_script_ts_val |-> 0, first_actual_ts_val |-> 0]

Init ==
  /\ config \in [tcp_ts_tick_usecs : Ticks, non_fatal_packet : BOOLEAN]
  /\ hash \in Hashes
  /\ start \in [live : Lives, script : Scripts, isn : Isns, peer : Peers]
  /\ socket = socket_new
  /\ elapsed = 0 /\ packets = 0
  /\ heard = [v \in U32 |-> NotFound] /\ first = Nothing /\ seen = Nothing
  /\ test = "running"

Ready == test = "running" /\ seen = Nothing

(* The clock of the kernel under test goes on. *)
tick ==
  /\ Ready /\ elapsed < MaxTicks
  /\ elapsed' = elapsed + 1
  /\ UNCHANGED <<config, hash, start, socket, packets, heard, first, seen, test>>

inbound_packet ==
  /\ Ready
  /\ \E p \in InboundScript :
       LET live == map_inbound_packet(p) IN
       /\ seen' = [event |-> "inbound", p |-> p, o |-> live.o, status |-> live.status]
       /\ test' = IF live.status = "ok" THEN test ELSE "failed"
  /\ UNCHANGED <<config, hash, start, socket, elapsed, packets, heard, first>>

(* verify_outbound_live_packet, as far as the options go. *)
outbound_packet ==
  /\ Ready /\ packets < MaxPackets
  /\ \E p \in OutboundScript, o \in KernelOptions :
       LET actual == map_outbound_live_packet(p, o)
           ok     == verify_outbound_live_tcp_options(p, actual.o)
           both   == HasTs(p.o) /\ HasTs(o) /\ Readable(o)
           status == IF actual.status = "err" THEN "err"
                     ELSE IF ok THEN "ok"
                     ELSE IF config.non_fatal_packet THEN "warn" ELSE "err"
       IN /\ socket' = actual.s
          /\ packets' = packets + (IF both THEN 1 ELSE 0)
          /\ heard' = IF both /\ ~p.ignore THEN [heard EXCEPT ![p.o.ts.val] = o.ts.val] ELSE heard
          /\ first' = IF both /\ first = Nothing
                      THEN [event |-> "baseline", elapsed |-> elapsed, tick |-> p.tick,
                            ignore |-> p.ignore] ELSE first
          /\ seen' = [event |-> "outbound", p |-> p, o |-> o, status |-> status]
          /\ test' = IF status = "err" THEN "failed" ELSE test
  /\ UNCHANGED <<config, hash, start, elapsed>>

(* The event is over. *)
get_next_event ==
  /\ test = "running" /\ seen # Nothing
  /\ seen' = Nothing
  /\ UNCHANGED <<config, hash, start, socket, elapsed, packets, heard, first, test>>

Next == tick \/ get_next_event \/ inbound_packet \/ outbound_packet

Spec == Init /\ [][Next]_vars

------------------------------------------------------------------------------
(* Properties. *)
HashMap(num) ==
  [num_keys : Nat, num_buckets : {num},
   buckets : [0..(num - 1) -> SUBSET [key : U32, value : U32]]]

TypeOK ==
  /\ config \in [tcp_ts_tick_usecs : Ticks, non_fatal_packet : BOOLEAN]
  /\ hash \in Hashes /\ start \in [live : Lives, script : Scripts, isn : Isns, peer : Peers]
  /\ socket.ts_val_map.num_buckets \in Nat \ {0}
  /\ socket \in [ts_val_map : HashMap(socket.ts_val_map.num_buckets),
                 found_first_tcp_ts : BOOLEAN,
                 first_script_ts_val : U32, first_actual_ts_val : U32]
  /\ elapsed \in 0..MaxTicks /\ packets \in 0..MaxPackets
  /\ heard \in [U32 -> U32 \cup {NotFound}]
  /\ first = Nothing \/ first \in [event : {"baseline"}, elapsed : 0..MaxTicks,
                                   tick : 0..MaxTicks, ignore : BOOLEAN]
  /\ seen = Nothing \/ seen.event \in {"inbound", "outbound"}
  /\ test \in {"running", "failed"}

(* An injected acknowledgement echoes the timestamp that the kernel put into the last     *)
(* packet for which the script gives that value, whatever has been remembered since and   *)
(* however often the hash map has grown; and the test fails with "unable to find mapping" *)
(* only for a value that the script gives no sniffed packet (map_inbound_packet).         *)
EchoIsKernels ==
  seen.event = "inbound" /\ HasTs(seen.p.o) /\ seen.p.ack /\ ~seen.p.absolute =>
    LET live == heard[seen.p.o.ts.ecr] IN
    IF live = NotFound THEN seen.status = "err"
    ELSE seen.status = "ok" /\ seen.o.ts.ecr = live

(* Between two packets as many ticks pass in the kernel as in the script, up to the       *)
(* tolerance; the packets are this one and the baseline.                                   *)
Drift == Abs((elapsed - first.elapsed) - (seen.p.tick - first.tick)) * config.tcp_ts_tick_usecs
SameSack ==
  offset_sack_blocks(seen.p.o, start.peer).sack = seen.o.sack

(* Options the script describes: nothing is checked, or the kernel has sent the same      *)
(* options, with a timestamp that has drifted by no more than the tolerance.              *)
Fits ==
  \/ seen.p.nocheck
  \/ /\ SameSack /\ seen.p.o.rest = seen.o.rest /\ HasTs(seen.p.o) = HasTs(seen.o)
     /\ HasTs(seen.o) => \/ seen.p.ignore \/ config.tcp_ts_tick_usecs = 0
                         \/ Drift <= Tolerance

(* A product that does not fit an int; and timestamps written as "...", which are checked *)
(* as if they were 0, and spoil the baseline if they are the first.                       *)
Overflows == HasTs(seen.p.o) /\ HasTs(seen.o) /\ Drift >= W \div 2
IgnoredButUsed == HasTs(seen.p.o) /\ HasTs(seen.o) /\ (seen.p.ignore \/ first.ignore)

(* The options of a sniffed packet pass if and only if they are what the script says,     *)
(* across the wrap of the timestamps and of the sequence numbers in SACK blocks, and with *)
(* the baseline of any earlier packet (verify_outbound_live_tcp_options).                 *)
OptionsVerdict ==
  seen.event = "outbound" /\ Readable(seen.o) =>
    \/ (seen.status = "ok") <=> Fits
    \/ config.tcp_ts_tick_usecs # 0 /\ (IgnoredButUsed \/ Overflows)

------------------------------------------------------------------------------
(* For TLC: a hash without collisions and one with, no SACK block and one that wraps. *)
TwoHashes == {[k \in U32 |-> k], [k \in U32 |-> k \div 2]}
TwoSacks == {<<>>, <<[left |-> 1, right |-> W - 1]>>}
=============================================================================
