SPECIFICATION ChunkSpec
CONSTANTS
  Open = Open
  Short = Short
  MaxU32 = MaxU32
  Kinds = {"CHUNK", "DATA", "I_DATA", "INIT", "INIT_ACK", "RECONFIG", "SACK", "NR_SACK", "HEARTBEAT", "HEARTBEAT_ACK", "ABORT", "ERROR", "COOKIE_ECHO", "COOKIE_ACK", "PAD", "SHUTDOWN", "SHUTDOWN_ACK", "SHUTDOWN_COMPLETE", "ECNE", "CWR", "FORWARD_TSN", "I_FORWARD_TSN"}
  Bundled = {"SHUTDOWN", "COOKIE_ACK"}
  MaxChunks = 2
  MaxOpen = 2
  MaxOff = 1
INVARIANT InboundNumbersWritten
INVARIANT VerdictIsRight
INVARIANT VerdictDefined
