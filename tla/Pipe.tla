--------------------------------- MODULE Pipe ---------------------------------
(***************************************************************************)
(* What a forwarded connection promises, whichever routine forwards it:    *)
(* two streams of chunks between a client and a peer.  Chunks of a stream  *)
(* come out in the order they went in, none twice; the pipe is torn down   *)
(* only after one of its ends has ended, and then as a whole.              *)
(***************************************************************************)
EXTENDS Naturals

CONSTANT End   \* the ends of the pipe

VARIABLES
  phase,   \* "new", "refused", "up", "closing" or "down"
  sent,    \* sent[e]: chunks that end e has sent
  got,     \* got[e]: the last of them that came out at the other end
  ended,   \* whether an end has closed its stream or has gone
  lossy    \* chunks between the first and a later one were lost on the way

vars == <<phase, sent, got, ended, lossy>>

Init ==
  /\ phase = "new"
  /\ sent = [e \in End |-> 0]
  /\ got = [e \in End |-> 0]
  /\ ended = FALSE
  /\ lossy = FALSE

\* An end may also send into a pipe that is down.
Send(e) ==
  /\ sent' = [sent EXCEPT ![e] = @ + 1]
  /\ UNCHANGED <<phase, got, ended, lossy>>

\* The next chunk comes out; after a loss it need not be the next.
Pass(e) ==
  /\ phase \in {"new", "up", "closing"}
  /\ \E n \in (got[e] + 1)..sent[e] :
       /\ ~lossy => n = got[e] + 1
       /\ got' = [got EXCEPT ![e] = n]
  /\ phase' = phase \/ (phase = "new" /\ phase' = "up")
  /\ UNCHANGED <<sent, ended, lossy>>

\* Chunks are lost only while the pipe is being set up, or refused.
Lose ==
  /\ phase = "new" /\ phase' \in {"new", "refused"}
  /\ lossy' = TRUE
  /\ UNCHANGED <<sent, got, ended>>

EndEnds ==
  /\ ended' = TRUE
  /\ UNCHANGED <<phase, sent, got, lossy>>

\* The pipe is refused, or is set up; it is torn down for a reason, in two steps.
Move ==
  /\ \/ phase = "new" /\ phase' \in {"refused", "up"}
     \/ phase = "up" /\ ended /\ phase' = "closing"
     \/ phase = "closing" /\ phase' = "down"
  /\ UNCHANGED <<sent, got, ended, lossy>>

Next ==
  \/ \E e \in End : Send(e) \/ Pass(e)
  \/ Lose
  \/ EndEnds
  \/ Move

Spec == Init /\ [][Next]_vars

==============================================================================
