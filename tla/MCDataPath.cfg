SPECIFICATION Spec
CONSTANTS
  NumBuffers = 3
  MaxGeneration = 3
  Clients = {p, q}
  NoClient = NoClient
  CanStop = FALSE
SYMMETRY Symmetry
INVARIANTS
  TypeOK
  NoTearOnceSettled
  NoStaleFrameOnceSettled
CHECK_DEADLOCK FALSE
