CONSTANTS
  Files = {"x.h", "y.c"}
  Contents <- MCContents
  Directives <- MCDirectives
  MaxDirectives = 3
  MaxEdits = 2
SPECIFICATION Spec
INVARIANTS
  TypeOK
  ShowsWhatIsAsked
  PagesAgree
CHECK_DEADLOCK FALSE
