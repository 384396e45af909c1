-------------------------- MODULE SequentialScript --------------------------
(***************************************************************************)
(* What a script promises however it is run: its events happen one after   *)
(* the other in the order of the script, and the test passes only when all *)
(* of them have happened as the script says.  A test that has failed may   *)
(* still have events under way; a test that has passed may not.            *)
(***************************************************************************)
EXTENDS Naturals, Sequences

VARIABLES
  script,    \* the events of the script
  log,       \* the events that have happened, by their position in the script
  verdict    \* "running", "passed" or "failed"

vars == <<script, log, verdict>>

Init == log = <<>> /\ verdict = "running"

Run ==
  /\ verdict # "passed"
  /\ Len(log) < Len(script)
  /\ log' = Append(log, Len(log) + 1)
  /\ UNCHANGED <<script, verdict>>

Pass ==
  /\ verdict = "running"
  /\ Len(log) = Len(script)
  /\ verdict' = "passed"
  /\ UNCHANGED <<script, log>>

Fail ==
  /\ verdict = "running"
  /\ verdict' = "failed"
  /\ UNCHANGED <<script, log>>

Next == Run \/ Pass \/ Fail

Spec == Init /\ [][Next]_vars
=============================================================================
