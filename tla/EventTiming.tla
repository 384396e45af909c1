---------------------------- MODULE EventTiming ----------------------------
(***************************************************************************)
(* When the events of a script happen: the interpreter loop of run_script  *)
(* (run.c) seen through its clock.  get_next_event checks the times of the *)
(* script, adjust_relative_event_times turns relative times into absolute  *)
(* ones, wait_for_event waits, and verify_time compares with what really   *)
(* happened.  Packets of the kernel wait in the packet socket, with the    *)
(* time at which they were sent, until an outbound packet event is reached.*)
(*                                                                         *)
(* The unit of time is what the properties tell apart, not a microsecond.  *)
(* now is the live time minus live_start_time_usecs, and script times are  *)
(* relative to script_start_time_usecs, which get_next_event forces to 0.  *)
(***************************************************************************)
EXTENDS Integers, Sequences

CONSTANTS
  Tolerance,    \* config->tolerance_usecs
  Time,         \* the times written in scripts
  MaxEvents,    \* bound: the events of a script
  MaxPackets,   \* bound: the packets the kernel sends
  MaxClock,     \* bound: the live time
  StartOffset   \* how far schedule_start_time_usecs lies in the future

ASSUME TimeAssumption ==
  /\ Tolerance \in Nat /\ Time \subseteq Nat /\ 0 \in Time
  /\ MaxClock \in Nat /\ StartOffset \in Nat
ASSUME BoundsAssumption == MaxEvents \in Nat \ {0} /\ MaxPackets \in Nat

NO_TIME_RANGE == -1
Absolute == {"ABSOLUTE_TIME", "ABSOLUTE_RANGE_TIME"}
Relative == {"RELATIVE_TIME", "RELATIVE_RANGE_TIME"}
Range    == {"ABSOLUTE_RANGE_TIME", "RELATIVE_RANGE_TIME"}
TimeType == Absolute \cup Relative \cup {"ANY_TIME"}

\* timed: an inbound packet, a command, code or a system call that does not
\* block; blocking: a system call with an end time; sniff: an outbound packet.
Type == {"timed", "blocking", "sniff"}

(***************************************************************************)
(* The events the grammar accepts: ranges and * only for outbound packets, *)
(* and no range that ends before it starts.  end is time_usecs_end, or     *)
(* end_usecs of a blocking call, which may be anything.                    *)
(***************************************************************************)
Parsed ==
  {e \in [type : Type, time_type : TimeType, t : Time, end : Time \cup {NO_TIME_RANGE}] :
     /\ e.type # "sniff" => e.time_type \in {"ABSOLUTE_TIME", "RELATIVE_TIME"}
     /\ e.type = "timed" => e.end = NO_TIME_RANGE
     /\ e.type = "blocking" => e.end \in Time
     /\ e.type = "sniff" /\ e.time_type \in Range => e.end >= e.t
     /\ e.type = "sniff" /\ e.time_type \notin Range => e.end = NO_TIME_RANGE
     /\ e.time_type = "ANY_TIME" => e.t = 0}

VARIABLES
  now,         \* the clock, common to the program and the kernel
  sent,        \* the times of the packets waiting in the packet socket
  packets,     \* how many packets the kernel has sent
  events,      \* how many events get_next_event has returned
  pc,          \* "next": before get_next_event; "run": the event is being run
  event,       \* state->event: its adjusted times, and when it happened
  last_event,  \* state->last_event, and when it happened
  call,        \* the last blocking call
  proc,        \* "running", "passed" or "failed"
  latest       \* history: the largest absolute time verified so far, or 0

vars == <<now, sent, packets, events, pc, event, last_event, call, proc, latest>>

\* t and end are as written, time and last are adjusted; at is when it happened.
Event ==
  [type : Type, time_type : TimeType, t : Time, end : Int, time : Int, last : Int,
   at : Int, verified : {"yes", "warned", "no"}]
LastEvent ==
  [type : Type, time_type : TimeType, at : Int, verified : {"yes", "warned", "no"}]
Call == [st : {"none", "running", "done"}, time_type : TimeType, t : Time, end : Int,
         last : Int, start : Int, ended : Int]

NoEvent ==
  [type |-> "timed", time_type |-> "ABSOLUTE_TIME", t |-> 0, end |-> 0, time |-> 0,
   last |-> 0, at |-> 0, verified |-> "no"]
NoLast ==
  [type |-> "timed", time_type |-> "ABSOLUTE_TIME", at |-> 0, verified |-> "no"]
NoCall ==
  [st |-> "none", time_type |-> "ABSOLUTE_TIME", t |-> 0, end |-> 0, last |-> 0,
   start |-> 0, ended |-> 0]

\* One type for the clock, the queue and the events.
TypeOK ==
  /\ now \in Int /\ sent \in Seq(Int) /\ packets \in 0 .. MaxPackets
  /\ events \in 0 .. MaxEvents
  /\ pc \in {"next", "run"} /\ proc \in {"running", "passed", "failed"}
  /\ event \in Event /\ last_event \in LastEvent /\ call \in Call
  /\ latest \in Time

Init ==
  /\ now = -StartOffset /\ sent = <<>> /\ packets = 0 /\ events = 0
  /\ pc = "next" /\ event = NoEvent /\ last_event = NoLast /\ call = NoCall
  /\ proc = "running" /\ latest = 0

At(l) == proc = "running" /\ pc = l
Fail == proc' = "failed"

(***************************************************************************)
(* verify_time.                                                            *)
(***************************************************************************)
\* Mutant: without the tolerance, but only for what is early.
verify_time_open_end(time_type, usecs, usecs_end, live) ==
  time_type = "ANY_TIME" \/ live >= usecs - Tolerance

verify_time(time_type, usecs, usecs_end, live) ==
  \/ time_type = "ANY_TIME"
  \/ /\ time_type \in Range
     /\ live >= usecs - Tolerance /\ live <= usecs_end + Tolerance
  \/ /\ time_type \notin Range
     /\ live >= usecs - Tolerance /\ live <= usecs + Tolerance

(***************************************************************************)
(* adjust_relative_event_times: the times of event e, which the program    *)
(* reaches now, with its end.                                              *)
(***************************************************************************)
Offset(e) == IF e.time_type \in Absolute THEN 0 ELSE now

EndIsRelative(e) ==
  \/ e.time_type = "RELATIVE_RANGE_TIME"
  \/ e.time_type = "RELATIVE_TIME" /\ e.type = "blocking"

Adjusted(e, time, last) ==
  [type |-> e.type, time_type |-> e.time_type, t |-> e.t, end |-> e.end,
   time |-> time, last |-> last, at |-> 0, verified |-> "no"]

\* Mutant: the end time of a blocking call stays as it was written.
adjust_relative_not_end(e) ==
  Adjusted(e, e.t + Offset(e), e.end + (IF e.time_type \in Range THEN Offset(e) ELSE 0))

\* Mutant: relative to the start of the script.
adjust_relative_to_start(e) == Adjusted(e, e.t, e.end)

adjust_relative_event_times(e) ==
  Adjusted(e, e.t + Offset(e), e.end + (IF EndIsRelative(e) THEN Offset(e) ELSE 0))

is_event_time_absolute(e) == e.time_type \in Absolute

(***************************************************************************)
(* The interpreter loop.                                                   *)
(***************************************************************************)
\* get_next_event finds an error in the times of the script.
FirstNotAtZero(e) == events = 0 /\ e.t # 0

\* Mutant: times may go backward.
TimeGoesBackward_never(e) == FALSE

TimeGoesBackward(e) ==
  /\ events > 0
  /\ is_event_time_absolute(event) /\ is_event_time_absolute(e)
  /\ e.t < event.time

\* A script may end after any event; this bounds its length.
MoreEvents == events < MaxEvents

get_next_event ==
  /\ At("next") /\ MoreEvents
  /\ \E e \in Parsed :
       \/ /\ FirstNotAtZero(e) \/ TimeGoesBackward(e)
          /\ Fail /\ UNCHANGED <<events, pc, event, last_event>>
       \/ /\ ~FirstNotAtZero(e) /\ ~TimeGoesBackward(e)
          /\ event' = adjust_relative_event_times(e)
          /\ last_event' = [type |-> event.type, time_type |-> event.time_type,
                            at |-> event.at, verified |-> event.verified]
          /\ events' = events + 1 /\ pc' = "run" /\ proc' = proc
  /\ UNCHANGED <<now, sent, packets, call, latest>>

\* The event has happened at the given time.
Happened(at, verified) ==
  /\ event' = [event EXCEPT !.at = at, !.verified = verified]
  /\ latest' = IF /\ verified = "yes" /\ event.time_type \in Absolute
                  /\ event.t > latest
               THEN event.t ELSE latest
  /\ pc' = "next" /\ proc' = proc

\* wait_for_event returns only when the time has come, and check_event_time
\* then finds out how late it is.
wait_for_event ==
  /\ At("run") /\ event.type # "sniff"
  /\ now >= event.time
  /\ event.type = "blocking" => call.st # "running"

InTime == verify_time(event.time_type, event.time, event.last, now)

run_event ==
  /\ wait_for_event /\ InTime /\ event.type = "timed"
  /\ Happened(now, "yes")
  /\ UNCHANGED <<now, sent, packets, events, last_event, call>>

\* The system call thread makes the call and the main thread goes on.
enqueue_system_call ==
  /\ wait_for_event /\ InTime /\ event.type = "blocking"
  /\ Happened(now, "yes")
  /\ call' = [st |-> "running", time_type |-> event.time_type, t |-> event.t,
              end |-> event.end, last |-> event.last, start |-> now, ended |-> now]
  /\ UNCHANGED <<now, sent, packets, events, last_event>>

unchangedButProc == <<now, sent, packets, events, pc, event, last_event, call, latest>>

check_event_time_failed ==
  /\ wait_for_event /\ ~InTime
  /\ Fail /\ UNCHANGED unchangedButProc

\* The one second that await_idle_thread waits for the previous call is over.
await_idle_thread_failed ==
  /\ At("run") /\ event.type = "blocking" /\ call.st = "running"
  /\ Fail /\ UNCHANGED unchangedButProc

\* end_syscall takes the time; system_call_thread checks it.
end_syscall ==
  /\ proc = "running" /\ call.st = "running"
  /\ \/ /\ verify_time(call.time_type, call.last, 0, now)
        /\ call' = [call EXCEPT !.st = "done", !.ended = now]
        /\ proc' = proc
     \/ ~verify_time(call.time_type, call.last, 0, now) /\ Fail /\ call' = call
  /\ UNCHANGED <<now, sent, packets, events, pc, event, last_event, latest>>

\* An outbound packet is compared with the oldest one in the packet socket; a
\* bad one is an error, or a warning with --non_fatal=packet.
verify_outbound_live_packet ==
  /\ At("run") /\ event.type = "sniff" /\ sent # <<>>
  /\ sent' = Tail(sent)
  /\ \/ /\ verify_time(event.time_type, event.time, event.last, Head(sent))
        /\ Happened(Head(sent), "yes")
     \/ Happened(Head(sent), "warned")
     \/ Fail /\ UNCHANGED <<pc, event, latest>>
  /\ UNCHANGED <<now, packets, events, last_event, call>>

\* state_free waits for the last call and the test is over.
run_script_end ==
  /\ At("next") /\ events > 0 /\ call.st # "running"
  /\ proc' = "passed" /\ UNCHANGED unchangedButProc

(***************************************************************************)
(* External: the kernel under test sends packets when it likes, and time   *)
(* passes.                                                                 *)
(***************************************************************************)
kernel_sends ==
  /\ proc = "running" /\ packets < MaxPackets
  /\ sent' = Append(sent, now) /\ packets' = packets + 1
  /\ UNCHANGED <<now, events, pc, event, last_event, call, proc, latest>>

tick ==
  /\ proc = "running" /\ now < MaxClock
  /\ now' = now + 1
  /\ UNCHANGED <<sent, packets, events, pc, event, last_event, call, proc, latest>>

Next ==
  \/ get_next_event \/ run_event \/ enqueue_system_call \/ check_event_time_failed
  \/ await_idle_thread_failed \/ end_syscall \/ verify_outbound_live_packet
  \/ run_script_end \/ kernel_sends \/ tick

Spec == Init /\ [][Next]_vars

(***************************************************************************)
(* Properties.                                                             *)
(***************************************************************************)
Sniff(e) == e.type = "sniff"
Verified(e) == e.verified = "yes"

\* A relative time is a distance: the event happens at least that long after
\* the event before it really happened, whatever that one's time was; a sniffed
\* packet may be early by the tolerance.
RelativeGap ==
  events > 1 /\ Verified(event) /\ event.time_type \in Relative =>
    event.at >= last_event.at + event.t - (IF Sniff(event) THEN Tolerance ELSE 0)

\* Sniffed packets are older than the event that expects them; still, two
\* consecutive events that pass happen in the order of the script, up to twice
\* the tolerance, unless the second is timed * or is an absolute time after one
\* that is not.
OrderKept ==
  /\ Verified(event) /\ Verified(last_event)
  /\ \/ event.time_type \in Relative
     \/ event.time_type \in Absolute /\ last_event.time_type \in Absolute
  => event.at >= last_event.at - 2 * Tolerance

\* get_next_event compares neighbours only; with relative times in between the
\* absolute times of a script may go backward.  A script that does so by more
\* than twice the tolerance never gets past the event that goes back, if that
\* is one that packetdrill runs itself.
NoBackwardTimes ==
  Verified(event) /\ event.time_type \in Absolute /\ ~Sniff(event) =>
    event.t >= latest - 2 * Tolerance

\* A blocking call that passes has lasted as long as the script says, up to the
\* tolerance of its start and its end, although the two are checked one by one
\* and the end of a relative call is adjusted in place.
CallDuration ==
  call.st = "done" =>
    /\ call.ended - call.start >= call.end - call.t - 2 * Tolerance
    /\ call.ended - call.start <= call.end - call.t + Tolerance

(***************************************************************************)
(* The invariant behind these properties, in named parts: the packets that *)
(* wait are in order and not older than what was sniffed before; what the  *)
(* adjusted times of the current event owe to the event before; how the    *)
(* times of a verified event and of the last call lie to the clock.        *)
(***************************************************************************)
QueueInv ==
  /\ \A k \in 1 .. Len(sent) : sent[k] <= now
  /\ \A j, k \in 1 .. Len(sent) : j <= k => sent[j] <= sent[k]
  /\ events > 0 /\ pc = "next" =>
       /\ event.at <= now
       /\ Sniff(event) => \A k \in 1 .. Len(sent) : event.at <= sent[k]
  /\ events > 1 =>
       /\ last_event.at <= now
       /\ pc = "run" /\ Sniff(last_event) =>
            \A k \in 1 .. Len(sent) : last_event.at <= sent[k]

WaitsForOne(e) == ~Sniff(e) => e.time_type \in {"ABSOLUTE_TIME", "RELATIVE_TIME"}

TimeInv ==
  /\ WaitsForOne(event) /\ WaitsForOne(last_event)
  /\ pc = "run" => events > 0 /\ event.verified = "no"
  /\ event.time_type \in Absolute => event.time = event.t
  /\ Verified(event) => events > 0
  /\ Verified(last_event) => events > 1
  /\ Verified(event) /\ event.time_type = "ABSOLUTE_TIME" =>
       event.at <= event.time + Tolerance
  /\ pc = "run" /\ events > 1 /\ event.time_type \in Relative =>
       event.time >= last_event.at + event.t
  /\ /\ pc = "run" /\ event.time_type \in Absolute
     /\ Verified(last_event) /\ last_event.time_type = "ABSOLUTE_TIME"
     => event.time >= last_event.at - Tolerance
  /\ latest = 0 \/ latest <= now + Tolerance

CallInv ==
  /\ event.type = "blocking" => event.time - event.t = event.last - event.end
  /\ call.st = "running" =>
       /\ call.time_type \in {"ABSOLUTE_TIME", "RELATIVE_TIME"}
       /\ call.start - call.t >= call.last - call.end
       /\ call.start - call.t <= call.last - call.end + Tolerance

\* The inductive invariant: the parts and the properties.
IInv ==
  /\ TypeOK /\ QueueInv /\ TimeInv /\ CallInv
  /\ RelativeGap /\ OrderKept /\ NoBackwardTimes /\ CallDuration
=============================================================================
