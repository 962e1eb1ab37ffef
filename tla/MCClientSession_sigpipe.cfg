SPECIFICATION SessionSpec
CONSTANTS
  m1 = m1
  m2 = m2
  NoId = NoId
  NoMode = NoMode
  MaxClients = 2
  ClientIds = {a, b}
  SupportedModes = {m1}
  InitialMode = m1
  Offers <- MCOffers
  GenModulus = 4
  AllowWrap = FALSE
  MaxStamp = 1
  ConnectOnce = TRUE
  Events = {"leave", "crash", "attach", "switch", "shutdown"}
  Renderers = {a, b}
  MaxInFlight = 1
  ServerIgnoresSigpipe = FALSE
INVARIANT ServerOutlivesClients
CHECK_DEADLOCK FALSE
