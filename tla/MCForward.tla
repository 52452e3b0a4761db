------------------------------ MODULE MCForward ------------------------------
(* One connection of each kind, with ends that send a few chunks.           *)
EXTENDS Forward

==============================================================================
