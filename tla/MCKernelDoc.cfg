CONSTANTS
  WReturn = TRUE
  WShortDesc = TRUE
  MaxLines = 8
  MaxOdd = 1
  FirstLines <- MCFirstLines
  LaterLines <- MCLaterLines
  MemberLines <- MCMemberLines
  CodeLines <- MCCodeLines
SPECIFICATION Spec
INVARIANTS
  CommentSync
  TextPlaced
  CrashOnlyIllFormed
PROPERTIES
  NothingSilent
CHECK_DEADLOCK FALSE
