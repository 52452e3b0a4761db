------------------------------- MODULE MCConfig -------------------------------
(* One peer, and more than one.                                              *)
EXTENDS Config

==============================================================================
