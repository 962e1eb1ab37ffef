SPECIFICATION FairSpec
CONSTANTS
  m1 = m1
  m2 = m2
  m3 = m3
  NoId = NoId
  NoMode = NoMode
  MaxClients = 3
  ClientIds = {a}
  SupportedModes <- MCSupportedModes
  InitialMode = m1
  Offers <- MCOneOffer
  GenModulus = 3
  AllowWrap = TRUE
  MaxStamp = 1
  ConnectOnce = TRUE
PROPERTIES
  SwitchCarriedOut
  ImplementsArbiter
