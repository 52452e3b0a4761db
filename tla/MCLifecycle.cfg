CONSTANTS
  s5 = s5
  tcps = tcps
  stdio = stdio
  udps = udps
  udpp = udpp
  Routine = {s5, tcps, stdio, udps, udpp}
  Configurations = {{s5, tcps}, {tcps, stdio}, {udps}, {udpp}}
  Closer = {c1, c2}
  Kind <- RoutineKind
  Port <- RoutinePort
  StopDuringStart = FALSE

SPECIFICATION FairSpec

INVARIANTS
  ServeIsHonest
  ClosedMeansReleased

PROPERTIES
  SerialCloseIsHarmless
  CloseStopsServe
  DeviceEndsServe

\* The system stops when everything has been closed.
CHECK_DEADLOCK FALSE
