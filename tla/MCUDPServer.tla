----------------------------- MODULE MCUDPServer -----------------------------
(* Instances of UDPServer.                                                   *)
EXTENDS UDPServer

CONSTANTS a, b, s1, s2

==============================================================================
