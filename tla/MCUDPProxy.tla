----------------------------- MODULE MCUDPProxy -----------------------------
(* Instances of UDPProxy.                                                   *)
EXTENDS UDPProxy

CONSTANTS a, b, s1, s2

==============================================================================
