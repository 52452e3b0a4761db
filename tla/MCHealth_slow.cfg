CONSTANTS
  a1 = a1
  a2 = a2
  Addr = {a1}
  Interval = 2
  Ticks = 2
  Span = 12

SPECIFICATION Spec

PROPERTIES
  TwoSecondsAreAllowed

\* The clock is bounded.
CHECK_DEADLOCK FALSE
