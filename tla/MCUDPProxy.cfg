CONSTANTS
  a = a
  b = b
  s1 = s1
  s2 = s2
  Src = {a, b}
  Sid = {s1, s2}
  NoSession = NoSession
  Reaping = TRUE

SPECIFICATION FairSpec

INVARIANTS
  TableIsLive
  NoOrphans

PROPERTIES
  KeepsAssociations
  IdleIsReleased
  StopLeavesNothing

\* After Close and the closing of the device there is nothing left to do.
CHECK_DEADLOCK FALSE
