CONSTANTS
  a1 = a1
  a2 = a2
  Addr = {a1, a2}
  Interval = 2
  Ticks = 2
  Span = 12

SPECIFICATION Spec

SYMMETRY Symmetry

INVARIANTS
  SocketsAreReturned

PROPERTIES
  UnavailableMeansUnanswered
  OkMeansAnswered
  RecordNeverTurnsBack

\* The clock is bounded.
CHECK_DEADLOCK FALSE
