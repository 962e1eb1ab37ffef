SPECIFICATION FairSessionSpec
CONSTANTS
  m1 = m1
  m2 = m2
  NoId = NoId
  NoMode = NoMode
  MaxClients = 2
  ClientIds = {a, b}
  SupportedModes = {m1}
  InitialMode = m1
  Offers <- MCOneOffer
  GenModulus = 3
  AllowWrap = TRUE
  MaxStamp = 1
  ConnectOnce = TRUE
  Events = {"crash"}
  Renderers = {a}
  MaxInFlight = 1
  ServerIgnoresSigpipe = TRUE
CHECK_DEADLOCK FALSE
PROPERTIES
  LostActivationHeals
  RetryTakesFreeSlot
