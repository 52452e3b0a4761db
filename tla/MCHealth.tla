------------------------------- MODULE MCHealth -------------------------------
(* Instances of Health.                                                     *)
EXTENDS Health, TLC

CONSTANTS a1, a2

\* The addresses are pinged alike and no property is one of liveness.
Symmetry == Permutations(Addr)

==============================================================================
