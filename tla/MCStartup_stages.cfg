CONSTANTS
  cert = cert
  conf = conf
  resolv = resolv
  NoPort = NoPort
  NoFile = NoFile
  Routines <- AllKinds
  Ports = {1, 2, 3, 4, 5}
  Files = {conf, cert, resolv}
  SystemFiles = {resolv}
  InfoPort = 4
  Landlock = TRUE

SPECIFICATION FairSpec

INVARIANTS
  BindBeforeServe
  SandboxFitsConfig
  SandboxIsTight

PROPERTIES
  SignalEnds

\* The process ends.
CHECK_DEADLOCK FALSE
