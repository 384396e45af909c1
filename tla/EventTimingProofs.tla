------------------------- MODULE EventTimingProofs -------------------------
(***************************************************************************)
(* The properties of EventTiming hold for every tolerance, every set of    *)
(* script times and every bound.  IInv is inductive: each action is one    *)
(* lemma, and what a verified time says is stated once, in VerifiedTime.   *)
(***************************************************************************)
EXTENDS EventTiming, TLAPS

\* What verify_time establishes for a time that is not a range (run.c).
LEMMA VerifiedTime ==
  ASSUME NEW tt \in {"ABSOLUTE_TIME", "RELATIVE_TIME"},
         NEW usecs \in Int, NEW usecs_end \in Int, NEW live \in Int,
         verify_time(tt, usecs, usecs_end, live)
  PROVE  live >= usecs - Tolerance /\ live <= usecs + Tolerance
BY TimeAssumption DEF verify_time, Range

\* What verify_time establishes for any time but *: never early by more than
\* the tolerance.
LEMMA NotEarly ==
  ASSUME NEW tt \in TimeType \ {"ANY_TIME"},
         NEW usecs \in Int, NEW usecs_end \in Int, NEW live \in Int,
         verify_time(tt, usecs, usecs_end, live)
  PROVE  live >= usecs - Tolerance
BY TimeAssumption DEF verify_time, Range, TimeType, Absolute, Relative

\* The program starts in the invariant.
LEMMA InitInv == Init => IInv
<1> SUFFICES ASSUME Init PROVE IInv
  OBVIOUS
<1> USE TimeAssumption, BoundsAssumption DEF Init
<1>1. TypeOK
  BY DEF TypeOK, Event, LastEvent, Call, NoEvent, NoLast, NoCall, Type, TimeType, Absolute, Relative
<1>2. QueueInv
  BY DEF QueueInv
<1>3. TimeInv
  BY DEF TimeInv, WaitsForOne, Sniff, Verified, NoEvent, NoLast, Absolute, Relative
<1>4. CallInv
  BY DEF CallInv, NoEvent, NoCall
<1>5. RelativeGap /\ OrderKept /\ NoBackwardTimes /\ CallDuration
  BY DEF RelativeGap, OrderKept, NoBackwardTimes, CallDuration, Verified, NoEvent, NoLast, NoCall
<1>6. QED
  BY <1>1, <1>2, <1>3, <1>4, <1>5 DEF IInv

\* The times of an event that the grammar accepts are integers.
LEMMA ParsedTypes ==
  ASSUME NEW e \in Parsed
  PROVE  /\ e.t \in Time /\ e.type \in Type /\ e.time_type \in TimeType
         /\ e.t \in Int /\ e.end \in Int
<1>1. e.t \in Time /\ e.type \in Type /\ e.time_type \in TimeType
  BY DEF Parsed
<1>2. e.end \in Time \/ e.end = NO_TIME_RANGE
  BY DEF Parsed
<1>3. NO_TIME_RANGE \in Int
  BY DEF NO_TIME_RANGE
<1>4. \A x \in Time : x \in Int
  BY TimeAssumption
<1>5. QED
  BY <1>1, <1>2, <1>3, <1>4

\* The adjusted event has the types of state->event, and its times and end are
\* moved by the same offset.
LEMMA AdjustedEvent ==
  ASSUME NEW e \in Parsed, now \in Int
  PROVE  LET a == adjust_relative_event_times(e) IN
           /\ a \in Event
           /\ a.type = e.type /\ a.time_type = e.time_type /\ a.t = e.t
           /\ a.verified = "no"
           /\ a.time = e.t + Offset(e)
           /\ a.type = "blocking" => a.time - a.t = a.last - a.end
           /\ WaitsForOne(a)
<1> USE TimeAssumption
<1>1. /\ e.t \in Time /\ e.type \in Type /\ e.time_type \in TimeType
      /\ e.t \in Int /\ e.end \in Int
  BY ParsedTypes
<1>3. Offset(e) \in Int
  BY DEF Offset
<1>4. e.type = "blocking" =>
        (IF EndIsRelative(e) THEN Offset(e) ELSE 0) = Offset(e)
  BY DEF Parsed, EndIsRelative, Offset, Absolute
<1>5. (IF EndIsRelative(e) THEN Offset(e) ELSE 0) \in Int
  BY <1>3
<1>6. WaitsForOne(adjust_relative_event_times(e))
  BY DEF WaitsForOne, Sniff, adjust_relative_event_times, Adjusted, Parsed
<1>7. QED
  BY <1>1, <1>3, <1>4, <1>5, <1>6 DEF adjust_relative_event_times, Adjusted, Event

\* get_next_event: the new event owes its times to the clock or, if both are
\* absolute, to the check that time does not go backward.
LEMMA NextEventInv == IInv /\ get_next_event => IInv'
<1> SUFFICES ASSUME IInv, get_next_event PROVE IInv'
  OBVIOUS
<1> USE TimeAssumption, BoundsAssumption DEF IInv, get_next_event, MoreEvents, At, Fail
<1>1. PICK e \in Parsed :
        \/ UNCHANGED <<events, pc, event, last_event>>
        \/ /\ ~TimeGoesBackward(e)
           /\ event' = adjust_relative_event_times(e)
           /\ last_event' = [type |-> event.type, time_type |-> event.time_type,
                             at |-> event.at, verified |-> event.verified]
           /\ events' = events + 1 /\ pc' = "run" /\ proc' = proc
  OBVIOUS
<1>2. proc' \in {"running", "passed", "failed"}
  BY DEF TypeOK
<1>3. CASE UNCHANGED <<events, pc, event, last_event>>
  BY <1>2, <1>3 DEF TypeOK, QueueInv, TimeInv, CallInv, RelativeGap, OrderKept, NoBackwardTimes,
     CallDuration, Sniff, Verified, WaitsForOne
<1>4. CASE /\ ~TimeGoesBackward(e)
           /\ event' = adjust_relative_event_times(e)
           /\ last_event' = [type |-> event.type, time_type |-> event.time_type,
                             at |-> event.at, verified |-> event.verified]
           /\ events' = events + 1 /\ pc' = "run" /\ proc' = proc
  <2> USE <1>4
  <2> now \in Int /\ event \in Event /\ events \in 0 .. MaxEvents
    BY DEF TypeOK
  <2> e.t \in Time /\ e.t \in Int
    BY ParsedTypes
  <2>1. /\ event' \in Event
        /\ event'.type = e.type /\ event'.time_type = e.time_type /\ event'.t = e.t
        /\ event'.verified = "no"
        /\ event'.time = e.t + Offset(e)
        /\ event'.type = "blocking" => event'.time - event'.t = event'.last - event'.end
        /\ WaitsForOne(event')
    BY AdjustedEvent
  <2>2. TypeOK'
    BY <2>1, <1>2 DEF TypeOK, Event, LastEvent
  <2>3. QueueInv'
    BY <2>1 DEF QueueInv, TypeOK, Sniff, Event
  <2>4. TimeInv'
    <3>1. WaitsForOne(event)' /\ WaitsForOne(last_event)'
      BY <2>1 DEF TimeInv, WaitsForOne, Sniff
    <3>2. event'.time_type \in Absolute => event'.time = event'.t
      BY <2>1 DEF Offset
    <3>3. Verified(last_event') => events' > 1
      BY DEF Verified, TimeInv
    <3>4. events' > 1 /\ event'.time_type \in Relative =>
            event'.time >= last_event'.at + event'.t
      BY <2>1 DEF Offset, Absolute, Relative, QueueInv, Event
    <3>5. /\ event'.time_type \in Absolute
          /\ Verified(last_event') /\ last_event'.time_type = "ABSOLUTE_TIME"
          => event'.time >= last_event'.at - Tolerance
      BY <2>1, <3>2 DEF TimeGoesBackward, is_event_time_absolute, TimeInv, Verified, Absolute, Event
    <3>6. (latest = 0 \/ latest <= now + Tolerance)'
      BY DEF TimeInv
    <3>7. QED
      BY <2>1, <3>1, <3>2, <3>3, <3>4, <3>5, <3>6 DEF TimeInv, Verified
  <2>5. CallInv'
    BY <2>1 DEF CallInv
  <2>6. (RelativeGap /\ OrderKept /\ NoBackwardTimes)'
    BY <2>1 DEF RelativeGap, OrderKept, NoBackwardTimes, Verified
  <2>7. CallDuration'
    BY DEF CallDuration
  <2>8. QED
    BY <2>2, <2>3, <2>4, <2>5, <2>6, <2>7
<1>5. QED
  BY <1>1, <1>3, <1>4

\* An event happens at time a: what its verified time, and the order of the
\* packets, say about the event before and about the latest absolute time.
LEMMA HappenedInv ==
  ASSUME IInv, At("run"), NEW a \in Int, NEW v \in {"yes", "warned"},
         Happened(a, v),
         UNCHANGED <<now, packets, events, last_event>>,
         a <= now,
         ~Sniff(event) => a = now /\ a >= event.time,
         v = "yes" => verify_time(event.time_type, event.time, event.last, a),
         Sniff(event) /\ Sniff(last_event) /\ events > 1 => last_event.at <= a,
         sent' \in Seq(Int),
         \A k \in 1 .. Len(sent') : sent'[k] <= now,
         \A j, k \in 1 .. Len(sent') : j <= k => sent'[j] <= sent'[k],
         Sniff(event) => \A k \in 1 .. Len(sent') : a <= sent'[k]
  PROVE  /\ event' \in Event /\ latest' \in Time
         /\ event'.type = event.type /\ event'.time = event.time /\ event'.t = event.t
         /\ event'.last = event.last /\ event'.end = event.end
         /\ QueueInv' /\ TimeInv' /\ RelativeGap' /\ OrderKept' /\ NoBackwardTimes'
<1> USE TimeAssumption, BoundsAssumption DEF IInv, At
<1> /\ now \in Int /\ event \in Event /\ events \in 0 .. MaxEvents
    /\ last_event \in LastEvent /\ latest \in Time
  BY DEF TypeOK
<1> /\ event.time \in Int /\ event.last \in Int /\ event.t \in Time
    /\ event.time_type \in TimeType /\ event.type \in Type
    /\ last_event.at \in Int /\ last_event.time_type \in TimeType
  BY DEF Event, LastEvent
<1> event.t \in Int /\ latest \in Int /\ event.t >= 0
  <2>1. \A x \in Time : x \in Int /\ x >= 0
    BY TimeAssumption
  <2>2. QED
    BY <2>1
<1>1. /\ event' \in Event
      /\ event'.type = event.type /\ event'.time = event.time /\ event'.t = event.t
      /\ event'.last = event.last /\ event'.end = event.end
      /\ event'.time_type = event.time_type
      /\ event'.at = a /\ event'.verified = v
  BY DEF Happened, Event
<1>2. pc' = "next" /\ latest' \in Time
  BY DEF Happened
<1>3. /\ v = "yes" /\ event.time_type # "ANY_TIME" => a >= event.time - Tolerance
      /\ v = "yes" /\ event.time_type \in {"ABSOLUTE_TIME", "RELATIVE_TIME"} =>
           a <= event.time + Tolerance
  BY VerifiedTime, NotEarly
<1>4. QueueInv'
  BY <1>1, <1>2 DEF QueueInv, Sniff
<1>5. TimeInv'
  <2>1. WaitsForOne(event)' /\ WaitsForOne(last_event)'
    BY <1>1 DEF TimeInv, WaitsForOne, Sniff
  <2>2. v = "yes" /\ event.time_type \in Absolute => event.t <= now + Tolerance
    BY <1>3 DEF TimeInv, Absolute
  <2>3. (latest = 0 \/ latest <= now + Tolerance)'
    BY <2>2 DEF Happened, TimeInv
  <2>4. QED
    BY <1>1, <1>2, <1>3, <2>1, <2>3 DEF TimeInv, Verified
<1>6. RelativeGap'
  BY <1>1, <1>3 DEF RelativeGap, Verified, Sniff, TimeInv, Relative
<1>7. OrderKept'
  <2> SUFFICES ASSUME v = "yes", Verified(last_event),
                      \/ event.time_type \in Relative
                      \/ event.time_type \in Absolute /\ last_event.time_type \in Absolute
               PROVE  a >= last_event.at - 2 * Tolerance
    BY <1>1 DEF OrderKept, Verified
  <2>1. events > 1 /\ last_event.at <= now
    BY DEF TimeInv, QueueInv
  <2>2. CASE ~Sniff(event)
    BY <2>1, <2>2
  <2>3. CASE Sniff(event) /\ event.time_type \in Relative
    BY <1>3, <2>1, <2>3 DEF TimeInv, Relative
  <2>4. CASE Sniff(event) /\ event.time_type \in Absolute /\ Sniff(last_event)
    BY <2>1, <2>4
  <2>5. CASE Sniff(event) /\ event.time_type \in Absolute /\ ~Sniff(last_event)
                          /\ last_event.time_type \in Absolute
    BY <1>3, <2>1, <2>5 DEF TimeInv, WaitsForOne, Absolute
  <2>6. QED
    BY <2>2, <2>3, <2>4, <2>5
<1>8. NoBackwardTimes'
  <2> SUFFICES ASSUME v = "yes", event.time_type \in Absolute, ~Sniff(event)
               PROVE  event.t >= latest' - 2 * Tolerance
    BY <1>1 DEF NoBackwardTimes, Verified, Sniff
  <2>1. event.t >= now - Tolerance
    BY <1>3 DEF TimeInv, WaitsForOne, Absolute
  <2>2. latest' = event.t \/ latest' = latest
    BY DEF Happened
  <2>3. QED
    BY <2>1, <2>2 DEF TimeInv
<1>9. QED
  BY <1>1, <1>2, <1>4, <1>5, <1>6, <1>7, <1>8

\* A bound that moves with the clock only grows.
LEMMA LaterBound ==
  ASSUME NEW a \in Int, NEW b \in Int, NEW c \in Int, NEW d \in Int, c >= b, a <= b + d
  PROVE  a <= c + d
OBVIOUS

\* A step that leaves the events alone only lets time pass or ends the process.
LEMMA QuietInv ==
  ASSUME IInv, now' \in Int, now' >= now,
         UNCHANGED <<sent, packets, events, pc, event, last_event, call, latest>>,
         proc' \in {"running", "passed", "failed"}
  PROVE  IInv'
<1> USE TimeAssumption DEF IInv
<1>a. now \in Int /\ event \in Event /\ last_event \in LastEvent /\ latest \in Int /\ sent \in Seq(Int)
  <2>1. \A x \in Time : x \in Int
    BY TimeAssumption
  <2>2. QED
    BY <2>1 DEF TypeOK
<1>b. event.at \in Int /\ last_event.at \in Int /\ \A k \in 1 .. Len(sent) : sent[k] \in Int
  BY <1>a DEF Event, LastEvent
<1>1. TypeOK'
  BY DEF TypeOK
<1>2. QueueInv'
  BY <1>a, <1>b DEF QueueInv, Sniff
<1>3. TimeInv'
  <2>1. (latest = 0 \/ latest <= now + Tolerance)'
    <3>1. latest = 0 \/ latest <= now + Tolerance
      BY DEF TimeInv
    <3>2. latest' = latest /\ Tolerance \in Int
      OBVIOUS
    <3>3. latest <= now + Tolerance => latest <= now' + Tolerance
      BY <1>a, <3>2, LaterBound
    <3>4. QED
      BY <3>1, <3>2, <3>3
  <2>2. (WaitsForOne(event) /\ WaitsForOne(last_event))'
    BY DEF TimeInv, WaitsForOne, Sniff
  <2>3. /\ (pc = "run" => events > 0 /\ event.verified = "no")'
        /\ (event.time_type \in Absolute => event.time = event.t)'
        /\ (Verified(event) => events > 0)'
        /\ (Verified(last_event) => events > 1)'
    BY DEF TimeInv, Verified
  <2>4. (Verified(event) /\ event.time_type = "ABSOLUTE_TIME" =>
           event.at <= event.time + Tolerance)'
    BY DEF TimeInv, Verified
  <2>5. (pc = "run" /\ events > 1 /\ event.time_type \in Relative =>
           event.time >= last_event.at + event.t)'
    BY DEF TimeInv
  <2>6. (/\ pc = "run" /\ event.time_type \in Absolute
         /\ Verified(last_event) /\ last_event.time_type = "ABSOLUTE_TIME"
         => event.time >= last_event.at - Tolerance)'
    BY DEF TimeInv, Verified
  <2>7. QED
    BY <2>1, <2>2, <2>3, <2>4, <2>5, <2>6 DEF TimeInv
<1>4. CallInv'
  BY DEF CallInv
<1>5. (RelativeGap /\ OrderKept /\ NoBackwardTimes /\ CallDuration)'
  BY DEF RelativeGap, OrderKept, NoBackwardTimes, CallDuration, Sniff, Verified
<1>6. QED
  BY <1>1, <1>2, <1>3, <1>4, <1>5

\* Events that wait for their time.
LEMMA WaitingInv == IInv /\ (run_event \/ enqueue_system_call) => IInv'
<1> SUFFICES ASSUME IInv, run_event \/ enqueue_system_call PROVE IInv'
  OBVIOUS
<1> USE TimeAssumption DEF run_event, enqueue_system_call, wait_for_event, InTime
<1>1. /\ now \in Int /\ event \in Event /\ sent \in Seq(Int) /\ call \in Call
      /\ QueueInv /\ CallInv /\ TimeInv /\ CallDuration
  BY DEF IInv, TypeOK
<1>2. /\ At("run") /\ ~Sniff(event) /\ now >= event.time
      /\ Happened(now, "yes") /\ UNCHANGED <<now, sent, packets, events, last_event>>
      /\ verify_time(event.time_type, event.time, event.last, now)
  BY DEF Sniff
<1>3. /\ event' \in Event /\ latest' \in Time
      /\ event'.type = event.type /\ event'.time = event.time /\ event'.t = event.t
      /\ event'.last = event.last /\ event'.end = event.end
      /\ QueueInv' /\ TimeInv' /\ RelativeGap' /\ OrderKept' /\ NoBackwardTimes'
  BY <1>1, <1>2, HappenedInv DEF QueueInv
<1>4. pc' = "next" /\ proc' = proc
  BY <1>2 DEF Happened
<1>5. /\ event.time \in Int /\ event.last \in Int /\ event.end \in Int /\ event.t \in Int
      /\ event.time_type \in TimeType /\ event.t \in Time
  <2>1. \A x \in Time : x \in Int
    OBVIOUS
  <2>2. QED
    BY <1>1, <2>1 DEF Event
<1>6. CASE run_event
  <2>1. call' = call
    BY <1>6
  <2>2. TypeOK'
    BY <1>2, <1>3, <1>4, <2>1 DEF IInv, TypeOK
  <2>3. CallInv' /\ CallDuration'
    BY <1>1, <1>3, <2>1 DEF CallInv, CallDuration
  <2>4. QED
    BY <1>3, <2>2, <2>3 DEF IInv
<1>7. CASE enqueue_system_call
  <2>1. /\ event.type = "blocking"
        /\ call' = [st |-> "running", time_type |-> event.time_type, t |-> event.t,
                    end |-> event.end, last |-> event.last, start |-> now, ended |-> now]
    BY <1>7
  <2>2. call' \in Call
    BY <1>1, <1>5, <2>1 DEF Call
  <2>3. event.time_type \in {"ABSOLUTE_TIME", "RELATIVE_TIME"}
    BY <1>1, <2>1 DEF TimeInv, WaitsForOne, Sniff
  <2>4. now <= event.time + Tolerance
    BY <1>1, <1>2, <1>5, <2>3, VerifiedTime
  <2>5. event.time - event.t = event.last - event.end
    BY <1>1, <2>1 DEF CallInv
  <2>6. CallInv'
    <3>1. now - event.t >= event.last - event.end
      BY <1>1, <1>2, <1>5, <2>5
    <3>2. now - event.t <= event.last - event.end + Tolerance
      BY <1>1, <1>5, <2>4, <2>5
    <3>3. QED
      BY <1>3, <2>1, <2>3, <2>5, <3>1, <3>2 DEF CallInv
  <2>7. CallDuration'
    BY <2>1 DEF CallDuration
  <2>8. TypeOK'
    BY <1>2, <1>3, <1>4, <2>2 DEF IInv, TypeOK
  <2>9. QED
    BY <1>3, <2>6, <2>7, <2>8 DEF IInv
<1>8. QED
  BY <1>6, <1>7

\* The end of a blocking call.
LEMMA EndSyscallInv == IInv /\ end_syscall => IInv'
<1> SUFFICES ASSUME IInv, end_syscall PROVE IInv'
  OBVIOUS
<1> USE TimeAssumption
<1>1. CASE proc' = "failed" /\ call' = call
  BY <1>1, QuietInv DEF end_syscall, IInv, TypeOK
<1>2. CASE /\ verify_time(call.time_type, call.last, 0, now)
           /\ call' = [call EXCEPT !.st = "done", !.ended = now]
           /\ proc' = proc
  <2>1. /\ now \in Int /\ call \in Call /\ call.st = "running"
        /\ UNCHANGED <<now, sent, packets, events, pc, event, last_event, latest>>
    BY DEF IInv, TypeOK, end_syscall
  <2>2. call' \in Call /\ call'.t = call.t /\ call'.end = call.end /\ call'.start = call.start
        /\ call'.ended = now /\ call'.st = "done"
    BY <1>2, <2>1 DEF Call
  <2>3. /\ call.last \in Int /\ call.end \in Int /\ call.start \in Int /\ call.t \in Int
    <3>1. \A x \in Time : x \in Int
      OBVIOUS
    <3>2. QED
      BY <2>1, <3>1 DEF Call
  <2>4. /\ call.time_type \in {"ABSOLUTE_TIME", "RELATIVE_TIME"}
        /\ call.start - call.t >= call.last - call.end
        /\ call.start - call.t <= call.last - call.end + Tolerance
    BY <2>1 DEF IInv, CallInv
  <2>5. now >= call.last - Tolerance /\ now <= call.last + Tolerance
    BY <1>2, <2>1, <2>3, <2>4, VerifiedTime
  <2>6. CallDuration'
    BY <2>1, <2>2, <2>3, <2>4, <2>5 DEF CallDuration
  <2>7. CallInv'
    BY <2>1, <2>2 DEF IInv, CallInv
  <2>8. TypeOK'
    BY <1>2, <2>1, <2>2 DEF IInv, TypeOK
  <2>9. (QueueInv /\ TimeInv /\ RelativeGap /\ OrderKept /\ NoBackwardTimes)'
    BY <2>1 DEF IInv, QueueInv, TimeInv, RelativeGap, OrderKept, NoBackwardTimes, Sniff,
       Verified, WaitsForOne
  <2>10. QED
    BY <2>6, <2>7, <2>8, <2>9 DEF IInv
<1>3. QED
  BY <1>1, <1>2 DEF end_syscall, Fail

\* An outbound packet takes the oldest packet of the queue.
LEMMA SniffInv == IInv /\ verify_outbound_live_packet => IInv'
<1> SUFFICES ASSUME IInv, verify_outbound_live_packet PROVE IInv'
  OBVIOUS
<1> DEFINE a == Head(sent)
<1>1. /\ now \in Int /\ event \in Event /\ sent \in Seq(Int) /\ sent # <<>>
      /\ At("run") /\ Sniff(event) /\ sent' = Tail(sent)
      /\ UNCHANGED <<now, packets, events, last_event, call>>
      /\ QueueInv /\ CallInv /\ TimeInv /\ CallDuration
  BY DEF IInv, TypeOK, verify_outbound_live_packet, Sniff
<1>2. /\ a \in Int /\ a = sent[1] /\ Len(sent) >= 1
      /\ sent' \in Seq(Int) /\ Len(sent') = Len(sent) - 1
      /\ \A k \in 1 .. Len(sent') : sent'[k] = sent[k + 1]
  BY <1>1
<1>3. \A k \in 1 .. Len(sent) : sent[k] \in Int
  BY <1>1
<1>4. a <= now /\ \A k \in 1 .. Len(sent) : a <= sent[k]
  BY <1>1, <1>2 DEF QueueInv
<1>5. /\ \A k \in 1 .. Len(sent') : sent'[k] <= now
      /\ \A j, k \in 1 .. Len(sent') : j <= k => sent'[j] <= sent'[k]
      /\ \A k \in 1 .. Len(sent') : a <= sent'[k]
  BY <1>1, <1>2, <1>4 DEF QueueInv
<1>6. Sniff(last_event) /\ events > 1 => last_event.at <= a
  BY <1>1, <1>2 DEF QueueInv, At
<1>7. CASE \E v \in {"yes", "warned"} :
             /\ Happened(a, v)
             /\ v = "yes" => verify_time(event.time_type, event.time, event.last, a)
  <2>1. PICK v \in {"yes", "warned"} :
             /\ Happened(a, v)
             /\ v = "yes" => verify_time(event.time_type, event.time, event.last, a)
    BY <1>7
  <2>2. /\ event' \in Event /\ latest' \in Time
        /\ event'.type = event.type /\ event'.time = event.time /\ event'.t = event.t
        /\ event'.last = event.last /\ event'.end = event.end
        /\ QueueInv' /\ TimeInv' /\ RelativeGap' /\ OrderKept' /\ NoBackwardTimes'
    BY <1>1, <1>2, <1>4, <1>5, <1>6, <2>1, HappenedInv
  <2>3. pc' = "next" /\ proc' = proc
    BY <2>1 DEF Happened
  <2>4. TypeOK'
    BY <1>1, <1>2, <2>2, <2>3 DEF IInv, TypeOK
  <2>5. CallInv' /\ CallDuration'
    BY <1>1, <2>2 DEF CallInv, CallDuration
  <2>6. QED
    BY <2>2, <2>4, <2>5 DEF IInv
<1>8. CASE proc' = "failed" /\ UNCHANGED <<pc, event, latest>>
  <2>1. TypeOK'
    BY <1>1, <1>2, <1>8 DEF IInv, TypeOK
  <2>2. QueueInv'
    <3>1. pc = "run" /\ events \in Int
      BY <1>1 DEF At, IInv, TypeOK
    <3>2. events > 1 /\ Sniff(last_event) => \A k \in 1 .. Len(sent') : last_event.at <= sent'[k]
      BY <1>1, <1>2, <3>1 DEF QueueInv
    <3>3. QED
      BY <1>1, <1>5, <1>8, <3>1, <3>2 DEF QueueInv, Sniff
  <2>3. (TimeInv /\ CallInv)'
    BY <1>1, <1>8 DEF TimeInv, CallInv, WaitsForOne, Sniff, Verified
  <2>4. (RelativeGap /\ OrderKept /\ NoBackwardTimes /\ CallDuration)'
    BY <1>1, <1>8 DEF IInv, RelativeGap, OrderKept, NoBackwardTimes, CallDuration, Sniff, Verified
  <2>5. QED
    BY <2>1, <2>2, <2>3, <2>4 DEF IInv
<1>9. QED
  BY <1>7, <1>8 DEF verify_outbound_live_packet, Fail

\* The kernel sends a packet: its time is the latest in the queue.
LEMMA KernelSendsInv == IInv /\ kernel_sends => IInv'
<1> SUFFICES ASSUME IInv, kernel_sends PROVE IInv'
  OBVIOUS
<1>1. /\ now \in Int /\ sent \in Seq(Int) /\ sent' = Append(sent, now)
      /\ UNCHANGED <<now, events, pc, event, last_event, call, proc, latest>>
      /\ QueueInv
  BY DEF IInv, TypeOK, kernel_sends
<1>2. /\ sent' \in Seq(Int) /\ Len(sent') = Len(sent) + 1
      /\ \A k \in 1 .. Len(sent) : sent'[k] = sent[k]
      /\ sent'[Len(sent) + 1] = now
      /\ Len(sent) \in Nat
  BY <1>1
<1>3. \A k \in 1 .. Len(sent') : k \in 1 .. Len(sent) \/ sent'[k] = now
  BY <1>2
<1>4. TypeOK'
  BY <1>1, <1>2, BoundsAssumption DEF IInv, TypeOK, kernel_sends
<1>5. QueueInv'
  <2>1. \A k \in 1 .. Len(sent') : sent'[k] <= now
    BY <1>1, <1>2, <1>3 DEF QueueInv
  <2>2. \A j, k \in 1 .. Len(sent') : j <= k => sent'[j] <= sent'[k]
    <3> SUFFICES ASSUME NEW j \in 1 .. Len(sent'), NEW k \in 1 .. Len(sent'), j <= k
                 PROVE  sent'[j] <= sent'[k]
      OBVIOUS
    <3>1. CASE k \in 1 .. Len(sent)
      BY <1>1, <1>2, <3>1 DEF QueueInv
    <3>2. CASE sent'[k] = now
      BY <2>1, <3>2
    <3>3. QED
      BY <1>3, <3>1, <3>2
  <2>3. events > 0 /\ pc = "next" =>
          /\ event.at <= now
          /\ Sniff(event) => \A k \in 1 .. Len(sent') : event.at <= sent'[k]
    BY <1>1, <1>2, <1>3 DEF QueueInv
  <2>4. events > 1 =>
          /\ last_event.at <= now
          /\ pc = "run" /\ Sniff(last_event) =>
               \A k \in 1 .. Len(sent') : last_event.at <= sent'[k]
    BY <1>1, <1>2, <1>3 DEF QueueInv
  <2>5. QED
    BY <1>1, <2>1, <2>2, <2>3, <2>4 DEF QueueInv, Sniff
<1>6. (TimeInv /\ CallInv /\ RelativeGap /\ OrderKept /\ NoBackwardTimes /\ CallDuration)'
  BY <1>1 DEF IInv, TimeInv, CallInv, RelativeGap, OrderKept, NoBackwardTimes, CallDuration,
     Sniff, Verified, WaitsForOne
<1>7. QED
  BY <1>4, <1>5, <1>6 DEF IInv

\* Every step preserves the invariant.
LEMMA NextInv == IInv /\ [Next]_vars => IInv'
<1> SUFFICES ASSUME IInv, [Next]_vars PROVE IInv'
  OBVIOUS
<1>1. now \in Int /\ proc \in {"running", "passed", "failed"}
  BY DEF IInv, TypeOK
<1>2. CASE check_event_time_failed \/ await_idle_thread_failed \/ run_script_end
  BY <1>1, <1>2, QuietInv
     DEF check_event_time_failed, await_idle_thread_failed, run_script_end, Fail, unchangedButProc
<1>3. CASE tick
  BY <1>1, <1>3, QuietInv DEF tick
<1>4. CASE UNCHANGED vars
  BY <1>1, <1>4, QuietInv DEF vars
<1>5. QED
  BY <1>2, <1>3, <1>4, NextEventInv, WaitingInv, EndSyscallInv, SniffInv, KernelSendsInv DEF Next

\* The parts of the invariant hold in every state of every run of the program.
THEOREM Invariance == Spec => []IInv
BY InitInv, NextInv, PTL DEF Spec

\* The clock, the queue and the events keep their types (run.c, run.h).
THEOREM TypeCorrect == Spec => []TypeOK
<1>1. IInv => TypeOK
  BY DEF IInv
<1>2. QED
  BY <1>1, Invariance, PTL

\* Relative events keep their distance from when the event before them really
\* happened (adjust_relative_event_times), for every tolerance.
THEOREM RelativeDistance == Spec => []RelativeGap
<1>1. IInv => RelativeGap
  BY DEF IInv
<1>2. QED
  BY <1>1, Invariance, PTL

\* Consecutive events that pass happen in the order of the script, up to twice
\* the tolerance, although packets are sniffed from a queue of the past.
THEOREM ScriptOrder == Spec => []OrderKept
<1>1. IInv => OrderKept
  BY DEF IInv
<1>2. QED
  BY <1>1, Invariance, PTL

\* A script whose absolute times go backward does not get past an event that
\* packetdrill runs itself (get_next_event and check_event_time together).
THEOREM TimesDoNotGoBackward == Spec => []NoBackwardTimes
<1>1. IInv => NoBackwardTimes
  BY DEF IInv
<1>2. QED
  BY <1>1, Invariance, PTL

\* A blocking call that passes lasted as long as the script says, up to the
\* tolerances of its start and its end (system_call_thread).
THEOREM CallLasts == Spec => []CallDuration
<1>1. IInv => CallDuration
  BY DEF IInv
<1>2. QED
  BY <1>1, Invariance, PTL
=============================================================================
