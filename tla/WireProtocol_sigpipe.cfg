SPECIFICATION Spec
CONSTANT MaxEvents = 2
INVARIANT LostClientSparesDaemon
CHECK_DEADLOCK FALSE
