SPECIFICATION MCSpec
\* Two descriptors, so that one callback can remove what the same batch still
\* holds an event for.
CONSTANTS
  Fds = {1, 2}
  Interests = {"READ"}
  RegistrationCapacity = 2
  EventCapacity = 2
  SERIAL_MAX = 3
  IdMax = 1
  PipeMax = 1
  WakeChunk = 1
  MaxUses = 1
INVARIANTS NoForgottenTcpClient NoHiddenTlsWork NoStall NoStaleEvent ExpiryExact MemorySound
PROPERTIES CloseAdvances
CHECK_DEADLOCK FALSE
