CONSTANTS
  Error = Error
  MaxPeers = 2

SPECIFICATION Spec

INVARIANTS
  TypeOK
  EndpointFits
  FamilyFits
  RoutedByName
  NamesStayInTunnel

\* A file that is wrong is the end of it.
CHECK_DEADLOCK FALSE
