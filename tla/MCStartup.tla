----------------------------- MODULE MCStartup -----------------------------
(* Instances of Startup.                                                    *)
EXTENDS Startup

CONSTANTS cert, conf, resolv

Routine(kind, port, target, file, direct) ==
  [kind |-> kind, port |-> port, target |-> target, cert |-> file, direct |-> direct]

\* One routine for every way of using the sandbox: a listener with a
\* certificate, a listener, a forwarder to a local port, a UDP routine, a
\* proxy with TunnelDomains.
AllKinds ==
  << Routine("http", 1, NoPort, cert, FALSE),
     Routine("sni", 2, NoPort, NoFile, FALSE),
     Routine("tcpServer", 7, 3, NoFile, FALSE),
     Routine("udpProxy", 8, NoPort, NoFile, FALSE),
     Routine("socks5", 5, NoPort, NoFile, TRUE) >>

\* A proxy with TunnelDomains.
SplitRouting == << Routine("socks5", 1, NoPort, NoFile, TRUE) >>

==============================================================================
