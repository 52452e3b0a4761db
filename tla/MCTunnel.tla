------------------------------- MODULE MCTunnel -------------------------------
(* Sockets for an old and a new bind and for a Send that is late.            *)
EXTENDS Tunnel

==============================================================================
