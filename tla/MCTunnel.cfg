CONSTANTS
  Socket = {s1, s2, s3}
  Sender = {g1, g2}
  Nil = Nil

SPECIFICATION FairSpec

INVARIANTS
  SocketIsSingle
  UpListens

PROPERTIES
  StartedIsOpen
  ChangeEnds
  CloseReleases

\* A tunnel that failed to start, or is closed, does nothing more.
CHECK_DEADLOCK FALSE
