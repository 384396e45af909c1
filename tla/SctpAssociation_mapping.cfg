SPECIFICATION Spec
CONSTANTS
  W = 3
  ScriptTsns = {0, 2}
  KernelTsns = {1}
  Offsets = {1}
  MaxHandshakes = 2
INVARIANT NumbersAsWritten
INVARIANT AbortClears
INVARIANT EchoesAccepted
CHECK_DEADLOCK FALSE
