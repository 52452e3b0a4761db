CONSTANTS
  MaxSent = 3

SPECIFICATION FairSpec

INVARIANTS
  EofIsComplete
  OpenIsOwned

PROPERTIES
  IsPipe
  EndsTogether

\* A connection that is closed stays closed.
CHECK_DEADLOCK FALSE
