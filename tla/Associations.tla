---------------------------- MODULE Associations ----------------------------
(***************************************************************************)
(* What a UDP tunnel promises its sources, whichever routine tunnels: each *)
(* has at most one association at a time, which begins with a datagram of  *)
(* its own, carries no other source's, and ends only when it has failed or *)
(* has been quiet for too long.  An ended one is not found again, and the  *)
(* session object serves again only after it was let go.                   *)
(***************************************************************************)
CONSTANTS
  Src,        \* source addresses
  Sid,        \* session objects
  NoSession

VARIABLES
  table,   \* table[src]: the association of a source, or NoSession
  life,    \* "free", "live", "failed" or "over"
  home,    \* the source an association was begun for
  quiet,   \* associations of the table that have been quiet for too long
  hand     \* a datagram on its way: its source and association, or Nothing

vars == <<table, life, home, quiet, hand>>

Nothing == <<>>

Init ==
  /\ table = [src \in Src |-> NoSession]
  /\ life = [s \in Sid |-> "free"]
  /\ home \in [Sid -> Src]
  /\ quiet = {}
  /\ hand = Nothing

\* A source that has no association gets one for its datagram.
Begin(src, s) ==
  /\ hand = Nothing
  /\ table[src] = NoSession
  /\ life[s] = "free"
  /\ table' = [table EXCEPT ![src] = s]
  /\ life' = [life EXCEPT ![s] = "live"]
  /\ home' = [home EXCEPT ![s] = src]
  /\ hand' = <<src, s>>
  /\ UNCHANGED quiet

\* One that has uses it, which ends its quiet.
Use(src) ==
  /\ hand = Nothing
  /\ table[src] # NoSession
  /\ hand' = <<src, table[src]>>
  /\ quiet' = quiet \ {table[src]}
  /\ UNCHANGED <<table, life, home>>

\* The datagram leaves, and may count as a use once more.
Send ==
  /\ hand # Nothing
  /\ hand' = Nothing
  /\ quiet' \in {quiet, quiet \ {hand[2]}}
  /\ UNCHANGED <<table, life, home>>

\* An answer is a use too.
Answer(s) ==
  /\ life[s] = "live"
  /\ quiet' = quiet \ {s}
  /\ UNCHANGED <<table, life, home, hand>>

\* InactivityTimeout passes.
Rest(s) ==
  /\ table[home[s]] = s
  /\ quiet' = quiet \cup {s}
  /\ UNCHANGED <<table, life, home, hand>>

\* Reading or passing on an answer fails: the association is of no more use ...
Fail(s) ==
  /\ life[s] = "live"
  /\ life' = [life EXCEPT ![s] = "failed"]
  /\ quiet' \in {quiet, quiet \ {s}}
  /\ UNCHANGED <<table, home, hand>>

\* ... and leaves the table, where nothing else can have taken its place.
Leave(s) ==
  /\ life[s] = "failed"
  /\ table[home[s]] = s
  /\ table' = [table EXCEPT ![home[s]] = NoSession]
  /\ \E l \in {"over", "free"} : life' = [life EXCEPT ![s] = l]
  /\ quiet' = quiet \ {s}
  /\ UNCHANGED <<home, hand>>

\* Associations that are quiet, and only they, are ended together.
Retire(S) ==
  /\ table' = [src \in Src |-> IF table[src] \in S THEN NoSession ELSE table[src]]
  /\ life' = [s \in Sid |-> IF s \in S THEN "over" ELSE life[s]]
  /\ quiet' = quiet \ S
  /\ UNCHANGED <<home, hand>>

\* The session of an ended association is let go.
Release(s) ==
  /\ life[s] = "over"
  /\ life' = [life EXCEPT ![s] = "free"]
  /\ UNCHANGED <<table, home, quiet, hand>>

Next ==
  \/ \E src \in Src : Use(src) \/ \E s \in Sid : Begin(src, s)
  \/ Send
  \/ \E s \in Sid : Answer(s) \/ Rest(s) \/ Fail(s) \/ Leave(s) \/ Release(s)
  \/ \E S \in SUBSET quiet : Retire(S)

Spec == Init /\ [][Next]_vars

==============================================================================
