CONSTANTS
  a = a
  b = b
  s1 = s1
  s2 = s2
  Src = {a}
  Sid = {s1, s2}
  NoSession = NoSession
  Reaping = TRUE

SPECIFICATION FairSpec

PROPERTIES
  StopLeavesNothing

\* After Close and the closing of the device there is nothing left to do.
CHECK_DEADLOCK FALSE
