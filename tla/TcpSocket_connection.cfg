SPECIFICATION Spec
CONSTANTS
  SeqMod = 8
  RemoteIsns = {0, 5, 7}
  Setups = {"local_active", "local_passive", "server_active", "server_passive"}
  MaxPackets = 6
INVARIANT AsWritten
INVARIANT SocketFollowsKernel
INVARIANT ResetClears
CHECK_DEADLOCK FALSE
