SPECIFICATION Spec
CONSTANTS
  ScriptFds = {3, 4}
  LiveFds = {5, 6}
  MaxSockets = 3
  MaxPlain = 2
  MaxPending = 2
  MaxMessages = 2
INVARIANT IntendedSocket
INVARIANT NamesAgree
INVARIANT NothingBroken
INVARIANT VerdictIsRight
INVARIANT NothingLeftBehind
CHECK_DEADLOCK FALSE
