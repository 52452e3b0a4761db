----------------------------- MODULE MCLifecycle -----------------------------
(* Instances of Lifecycle: which routines one configuration holds.          *)
EXTENDS Lifecycle, TLC

CONSTANTS s5, tcps, stdio, udps, udpp

RoutineKind ==
  s5 :> "socks5" @@ tcps :> "tcpServer" @@ stdio :> "stdio" @@
  udps :> "udpServer" @@ udpp :> "udpProxy"

\* The same port number on the host and on the netstack, for TCP and for UDP.
RoutinePort == s5 :> 1 @@ tcps :> 1 @@ stdio :> 0 @@ udps :> 1 @@ udpp :> 1

==============================================================================
