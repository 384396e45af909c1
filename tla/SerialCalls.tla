---------------------------- MODULE SerialCalls ----------------------------
(***************************************************************************)
(* What run_system_call.h promises a script about its blocking system      *)
(* calls: they are made one at a time, in script order, each once; a test  *)
(* passes only when every call that was started came back as expected.     *)
(***************************************************************************)
EXTENDS Naturals

CONSTANT NumEvents

VARIABLES
  call,       \* the event whose call is in progress, 0 when there is none
  issued,     \* the events whose call was started
  verified,   \* the events whose call returned as the script says
  outcome     \* "running", "passed" or "failed"

vars == <<call, issued, verified, outcome>>

Init == call = 0 /\ issued = {} /\ verified = {} /\ outcome = "running"

Start(e) ==
  /\ outcome = "running"
  /\ call = 0
  /\ \A f \in issued : f < e
  /\ call' = e
  /\ issued' = issued \cup {e}
  /\ UNCHANGED <<verified, outcome>>

Finish ==
  /\ outcome = "running"
  /\ call # 0
  /\ verified' = verified \cup {call}
  /\ call' = 0
  /\ UNCHANGED <<issued, outcome>>

Pass ==
  /\ outcome = "running"
  /\ call = 0
  /\ issued \subseteq verified
  /\ outcome' = "passed"
  /\ UNCHANGED <<call, issued, verified>>

Fail ==
  /\ outcome = "running"
  /\ outcome' = "failed"
  /\ UNCHANGED <<call, issued, verified>>

Next == (\E e \in 1 .. NumEvents : Start(e)) \/ Finish \/ Pass \/ Fail

Spec == Init /\ [][Next]_vars

=============================================================================
