SPECIFICATION PatientSpec
CONSTANTS
  Peers = {x, y}
  Nobody = Nobody
INVARIANTS
  TypeOK
  QueryNotDangling
  WakeupMatchesQuery
  SharedStateOutlivesThreads
PROPERTIES
  QueryAnswered
  ShutdownCompletes
CHECK_DEADLOCK FALSE
