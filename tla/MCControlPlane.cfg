SPECIFICATION Spec
CONSTANTS
  m1 = m1
  m2 = m2
  m3 = m3
  NoId = NoId
  NoMode = NoMode
  MaxClients = 3
  ClientIds = {a, b}
  SupportedModes <- MCSupportedModes
  InitialMode = m1
  Offers <- MCOffers
  GenModulus = 5
  AllowWrap = FALSE
  MaxStamp = 2
  ConnectOnce = TRUE
SYMMETRY Symmetry
INVARIANTS
  TypeOK
  SingleHolder
  ActiveSlotIsCache
  EvictingSlotIsCache
  PendingTargetIsLive
  EvictionTargetGrantable
  HolderGenerationCurrent
  FormerHoldersFenced
  DataPlaneModeFollowsHolder
  QueuePositionsAgree
PROPERTIES
  FifoGrant
  WorkConserving
