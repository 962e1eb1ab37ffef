SPECIFICATION FairSpec
CONSTANTS
  NumBuffers = 3
  MaxGeneration = 3
  Clients = {p}
  NoClient = NoClient
  CanStop = TRUE
PROPERTIES
  PostedFrameReachesSink
  DataPlaneStops
CHECK_DEADLOCK FALSE
