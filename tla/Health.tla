-------------------------------- MODULE Health --------------------------------
(***************************************************************************)
(* The health check of VirtualTun (routine.go): a goroutine pings every    *)
(* CheckAlive address and sleeps, a goroutine per ping waits for the reply *)
(* and writes its time to PingRecord, and requests for /readyz read        *)
(* PingRecord.  The writers hold PingRecordLock; the readers do not.       *)
(*                                                                         *)
(* Time is a clock of Ticks per second: PingRecord has whole seconds, the  *)
(* comparison that reads it does not.  Pinging takes no time but for the   *)
(* wait for the reply.                                                     *)
(***************************************************************************)
EXTENDS Naturals, FiniteSets

CONSTANTS
  Addr,        \* Conf.CheckAlive
  Interval,    \* Conf.CheckAliveInterval, in seconds
  Ticks,       \* ticks of the clock in a second
  Span         \* how many ticks are explored

ASSUME HealthAssumption ==
  /\ Interval \in Nat \ {0}
  /\ Ticks \in Nat \ {0}
  /\ Span \in Nat

\* The interval in ticks.
Period == Interval * Ticks

\* The clock starts when its zero is long past, at any fraction of a second.
Start == (Interval + 3) * Ticks
MaxTime == Start + Ticks + Span

VARIABLES
  now,         \* the clock
  PingRecord,  \* for every address the second of its last reply, 0 before
  wake,        \* when the pinging goroutine wakes, 0 before it is started
  pings,       \* pings[a]: pings under way, when sent and whether answered
  pongAt,      \* for every address the time of its last reply, exactly
  sockets,     \* for every address its ping sockets that are open
  failed,      \* the addresses with a ping that was not answered
  reader,      \* a request for /readyz: "idle", "marshal" or "scan"
  status,      \* the last answer to one: "none", "ok" or "unavailable"
  crashed      \* the runtime found a map read and written at once

vars == <<now, PingRecord, wake, pings, pongAt, sockets, failed, reader, status, crashed>>

Ping == [sent : Start..MaxTime, answered : BOOLEAN]

TypeOK ==
  /\ now \in Start..MaxTime
  /\ PingRecord \in [Addr -> 0..(MaxTime \div Ticks)]
  /\ wake \in Nat
  /\ pings \in [Addr -> SUBSET Ping]
  /\ pongAt \in [Addr -> 0..MaxTime]
  /\ sockets \in [Addr -> Nat]
  /\ failed \subseteq Addr
  /\ reader \in {"idle", "marshal", "scan"}
  /\ status \in {"none", "ok", "unavailable"}
  /\ crashed \in BOOLEAN

Init ==
  /\ now \in Start..(Start + Ticks - 1)
  /\ PingRecord = [a \in Addr |-> 0]
  /\ wake = 0
  /\ pings = [a \in Addr |-> {}]
  /\ pongAt = [a \in Addr |-> 0]
  /\ sockets = [a \in Addr |-> 0]
  /\ failed = {}
  /\ reader = "idle"
  /\ status = "none"
  /\ crashed = FALSE

-----------------------------------------------------------------------------
(* The pinging goroutine                                                   *)

\* Defect: the addresses start as if they had just answered.
StartPingIPs_Seeded ==
  /\ wake = 0
  /\ PingRecord' = [a \in Addr |-> now \div Ticks]
  /\ wake' = now
  /\ UNCHANGED <<now, pings, pongAt, sockets, failed, reader, status, crashed>>

\* StartPingIPs: no address has answered yet.
StartPingIPs ==
  /\ wake = 0
  /\ PingRecord' = [a \in Addr |-> 0]
  /\ wake' = now
  /\ UNCHANGED <<now, pings, pongAt, sockets, failed, reader, status, crashed>>

\* pingIPs, then the sleep: an address is pinged unless its socket cannot be
\* dialled, or written to, which leaves it open, and the ping is answered or is
\* not.
pingIPs ==
  /\ wake = now
  /\ \E dialled \in SUBSET Addr : \E sent \in SUBSET dialled :
     \E answered \in SUBSET sent :
       /\ pings' = [a \in Addr |-> IF a \in sent
                      THEN pings[a] \cup {[sent |-> now, answered |-> a \in answered]}
                      ELSE pings[a]]
       /\ sockets' = [a \in Addr |-> sockets[a] + IF a \in dialled THEN 1 ELSE 0]
       /\ failed' = failed \cup (Addr \ answered)
  /\ wake' = now + Period
  /\ UNCHANGED <<now, PingRecord, pongAt, reader, status, crashed>>

-----------------------------------------------------------------------------
(* The goroutine of a ping                                                 *)

\* Defect: a reply is entered with the time of its request.
PingReply_SentTime(a, p) ==
  /\ p \in pings[a] /\ p.answered
  /\ pings' = [pings EXCEPT ![a] = @ \ {p}]
  /\ PingRecord' = [PingRecord EXCEPT ![a] = p.sent \div Ticks]
  /\ pongAt' = [pongAt EXCEPT ![a] = now]
  /\ sockets' = [sockets EXCEPT ![a] = @ - 1]
  /\ crashed' \in {FALSE, reader # "idle"}
  /\ UNCHANGED <<now, wake, failed, reader, status>>

\* Defect: the socket is left to a path that returned before.
PingReply_KeepsSocket(a, p) ==
  /\ p \in pings[a] /\ p.answered
  /\ pings' = [pings EXCEPT ![a] = @ \ {p}]
  /\ PingRecord' = [PingRecord EXCEPT ![a] = now \div Ticks]
  /\ pongAt' = [pongAt EXCEPT ![a] = now]
  /\ crashed' \in {FALSE, reader # "idle"}
  /\ UNCHANGED <<now, wake, sockets, failed, reader, status>>

\* A valid reply: its time, in whole seconds, is written under the lock, which
\* a request in the middle of reading does not hold.  The runtime may notice.
\* Then the socket is closed.
PingReply(a, p) ==
  /\ p \in pings[a] /\ p.answered
  /\ pings' = [pings EXCEPT ![a] = @ \ {p}]
  /\ PingRecord' = [PingRecord EXCEPT ![a] = now \div Ticks]
  /\ pongAt' = [pongAt EXCEPT ![a] = now]
  /\ sockets' = [sockets EXCEPT ![a] = @ - 1]
  /\ crashed' \in {FALSE, reader # "idle"}
  /\ UNCHANGED <<now, wake, failed, reader, status>>

\* The read deadline passes, or the reply is not valid: the goroutine returns
\* before it comes to closing the socket.
PingFails(a, p) ==
  /\ p \in pings[a] /\ ~p.answered
  /\ pings' = [pings EXCEPT ![a] = @ \ {p}]
  /\ UNCHANGED <<now, PingRecord, wake, pongAt, sockets, failed, reader, status, crashed>>

-----------------------------------------------------------------------------
(* ServeHTTP, /readyz                                                      *)

\* json.Marshal begins to go through the map ...
Request ==
  /\ reader = "idle"
  /\ wake # 0
  /\ reader' = "marshal"
  /\ UNCHANGED <<now, PingRecord, wake, pings, pongAt, sockets, failed, status, crashed>>

\* ... ends, and the loop begins to.
Marshalled ==
  /\ reader = "marshal"
  /\ reader' = "scan"
  /\ UNCHANGED <<now, PingRecord, wake, pings, pongAt, sockets, failed, status, crashed>>

\* Defect: no allowance for the time a ping takes.
Stale_NoSlack(a) == now > (PingRecord[a] + Interval) * Ticks

\* time.Since(lastPong) > (CheckAliveInterval+2) seconds.
Stale(a) == now > (PingRecord[a] + Interval + 2) * Ticks

\* The loop ends and the request is answered.
Answer ==
  /\ reader = "scan"
  /\ reader' = "idle"
  /\ status' = IF \E a \in Addr : Stale(a) THEN "unavailable" ELSE "ok"
  /\ UNCHANGED <<now, PingRecord, wake, pings, pongAt, sockets, failed, crashed>>

-----------------------------------------------------------------------------
\* Time passes, but not beyond the waking of the pinging goroutine or a read
\* deadline, which is the interval: a reply that comes may take as long as that.
Tick ==
  /\ now < MaxTime
  /\ wake # now /\ wake # 0
  /\ \A a \in Addr : \A p \in pings[a] : now < p.sent + Period
  /\ now' = now + 1
  /\ UNCHANGED <<PingRecord, wake, pings, pongAt, sockets, failed, reader, status, crashed>>

Next ==
  /\ ~crashed
  /\ \/ StartPingIPs
     \/ pingIPs
     \/ \E a \in Addr : \E p \in pings[a] : PingReply(a, p) \/ PingFails(a, p)
     \/ Request
     \/ Marshalled
     \/ Answer
     \/ Tick

Spec == Init /\ [][Next]_vars

-----------------------------------------------------------------------------
(* Properties                                                              *)

\* There is a reason to call the tunnel down: an address that has not answered
\* yet, or not every ping, or whose reply is more than a time d under way.
Unanswered(d) ==
  \E a \in Addr :
    a \in failed \/ pongAt[a] = 0 \/ \E p \in pings[a] : now > p.sent + d

\* No request is answered "unavailable" while every address answers every ping
\* and no reply is more than a second under way: whenever the request comes
\* between two pings, and however the record was rounded.
UnavailableMeansUnanswered ==
  [][Answer /\ status' = "unavailable" => Unanswered(Ticks)]_vars

\* "+2 seconds to account for the time it takes to ping the IP": the same for
\* replies that are up to two seconds under way.
TwoSecondsAreAllowed ==
  [][Answer /\ status' = "unavailable" => Unanswered(2 * Ticks)]_vars

\* An address that answers every ping has no more sockets open than pings under
\* way: only a tunnel that is down uses up sockets.
SocketsAreReturned ==
  \A a \in Addr \ failed : sockets[a] <= Cardinality(pings[a])

\* A request is answered "ok" only if every address has replied within the
\* interval and the two seconds allowed: what rounding takes away makes a reply
\* older and never younger.
OkMeansAnswered ==
  [][Answer /\ status' = "ok" =>
       \A a \in Addr : pongAt[a] # 0 /\ now <= pongAt[a] + (Interval + 2) * Ticks]_vars

\* A reply that comes late, after that of a later ping, does not turn the record
\* back.
RecordNeverTurnsBack ==
  [][\A a \in Addr : PingRecord'[a] >= PingRecord[a]]_vars

==============================================================================
