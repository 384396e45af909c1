SPECIFICATION Spec
CONSTANTS
  W = 16
  MAX_BUCKETS = 2
  Hashes <- TwoHashes
  Lives = {0, 15}
  Scripts = {14}
  Isns = {15}
  Peers = {2}
  Sacks <- TwoSacks
  MaxTicks = 3
  MaxPackets = 3
  Ticks = {0, 1, 3}
  Tolerance = 2
INVARIANT EchoIsKernels
INVARIANT OptionsVerdict
CHECK_DEADLOCK FALSE
