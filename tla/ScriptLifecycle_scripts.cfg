SPECIFICATION Spec
CONSTANTS
  NumScripts = 3
INVARIANT CleanupIsOwn
INVARIANT CleanupMatchesInit
CHECK_DEADLOCK FALSE
