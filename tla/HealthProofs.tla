----------------------------- MODULE HealthProofs -----------------------------
(***************************************************************************)
(* Proofs about the health check for any addresses, any interval and any   *)
(* resolution of the clock.                                                *)
(***************************************************************************)
EXTENDS Health, FiniteSetTheorems, TLAPS

-----------------------------------------------------------------------------
(* Whole seconds                                                           *)

LEMMA SecondBounds ==
  ASSUME NEW t \in Nat, NEW k \in Nat \ {0}
  PROVE  /\ t \div k \in Nat
         /\ (t \div k) * k <= t
         /\ t < (t \div k) * k + k
  OBVIOUS

LEMMA SecondsGrow ==
  ASSUME NEW s \in Nat, NEW t \in Nat, NEW k \in Nat \ {0}, s <= t
  PROVE  s \div k <= t \div k
  BY SecondBounds

LEMMA Bounds ==
  /\ Interval \in Nat /\ Ticks \in Nat \ {0}
  /\ Period \in Nat \ {0}
  /\ Start \in Nat \ {0} /\ MaxTime \in Nat
  /\ Start + Ticks - 1 <= MaxTime
<1>1. Period \in Nat \ {0}
  BY HealthAssumption DEF Period
<1>2. Start \in Nat \ {0}
  BY HealthAssumption DEF Start
<1> QED
  BY <1>1, <1>2, HealthAssumption DEF Period, MaxTime

-----------------------------------------------------------------------------
(* The invariant                                                           *)

\* The goroutine wakes in time, no ping waits longer than it may, and the record
\* has the time of the last reply.
ClockInv ==
  /\ wake = 0 => \A a \in Addr : pings[a] = {} /\ pongAt[a] = 0
  /\ wake # 0 => now <= wake /\ wake <= now + Period
  /\ \A a \in Addr : \A p \in pings[a] :
       /\ p.sent <= now /\ p.sent < wake
       /\ now <= p.sent + Period
  /\ \A a \in Addr : pongAt[a] <= now /\ PingRecord[a] = pongAt[a] \div Ticks

\* The ping after the one that was answered last is under way, or is the next.
ReplyInv ==
  \A a \in Addr \ failed :
    /\ \A p \in pings[a] : p.answered
    /\ pongAt[a] # 0 => \/ pongAt[a] + Period >= wake
                        \/ \E p \in pings[a] : pongAt[a] + Period >= p.sent

\* Every ping under way has a socket.
SocketInv ==
  \A a \in Addr : IsFiniteSet(pings[a]) /\ Cardinality(pings[a]) <= sockets[a]

Inv == TypeOK /\ ClockInv /\ ReplyInv /\ SocketInv /\ SocketsAreReturned

LEMMA InitInv == Init => Inv
<1> SUFFICES ASSUME Init
             PROVE  Inv
  OBVIOUS
<1>1. TypeOK
  <2>1. now \in Start..MaxTime
    <3>1. Start..(Start + Ticks - 1) \subseteq Start..MaxTime
      BY Bounds
    <3> QED
      BY <3>1 DEF Init
  <2>2. PingRecord \in [Addr -> 0..(MaxTime \div Ticks)]
    BY Bounds, SecondBounds DEF Init
  <2>3. pongAt \in [Addr -> 0..MaxTime] /\ pings \in [Addr -> SUBSET Ping]
    BY Bounds DEF Init
  <2> QED
    BY <2>1, <2>2, <2>3 DEF Init, TypeOK
<1>2. ClockInv /\ ReplyInv
  BY Bounds, SecondBounds DEF Init, ClockInv, ReplyInv
<1>3. SocketInv /\ SocketsAreReturned
  BY FS_EmptySet DEF Init, SocketInv, SocketsAreReturned
<1> QED
  BY <1>1, <1>2, <1>3 DEF Inv

\* A step that leaves clock, pings and sockets alone.
LEMMA ReaderInv ==
  ASSUME Inv, Request \/ Marshalled \/ Answer
  PROVE  Inv'
<1>1. UNCHANGED <<now, PingRecord, wake, pings, pongAt, sockets, failed, crashed>>
  BY DEF Request, Marshalled, Answer
<1>2. reader' \in {"idle", "marshal", "scan"} /\ status' \in {"none", "ok", "unavailable"}
  BY DEF Request, Marshalled, Answer, Inv, TypeOK
<1> QED
  BY <1>1, <1>2 DEF Inv, TypeOK, ClockInv, ReplyInv, SocketInv, SocketsAreReturned

LEMMA StartInv ==
  ASSUME Inv, StartPingIPs
  PROVE  Inv'
<1> USE DEF Inv, StartPingIPs
<1>1. TypeOK'
  <2>1. PingRecord' \in [Addr -> 0..(MaxTime \div Ticks)]
    BY Bounds, SecondBounds
  <2>2. wake' \in Nat
    BY Bounds DEF TypeOK
  <2> QED
    BY <2>1, <2>2 DEF TypeOK
<1>2. ClockInv'
  BY Bounds, SecondBounds DEF TypeOK, ClockInv
<1>3. ReplyInv'
  BY Bounds DEF TypeOK, ClockInv, ReplyInv
<1>4. SocketInv' /\ SocketsAreReturned'
  BY DEF SocketInv, SocketsAreReturned
<1> QED
  BY <1>1, <1>2, <1>3, <1>4

LEMMA TickInv ==
  ASSUME Inv, Tick
  PROVE  Inv'
<1> USE Bounds DEF Inv, Tick
<1>1. TypeOK'
  BY DEF TypeOK
<1>2. ClockInv'
  <2>1. \A a \in Addr : \A p \in pings[a] : p \in Ping
    BY DEF TypeOK
  <2>2. \A a \in Addr : pongAt[a] \in Nat
    BY DEF TypeOK
  <2> QED
    BY <2>1, <2>2 DEF TypeOK, ClockInv, Ping
<1>3. ReplyInv'
  BY DEF ReplyInv
<1>4. SocketInv' /\ SocketsAreReturned'
  BY DEF SocketInv, SocketsAreReturned
<1> QED
  BY <1>1, <1>2, <1>3, <1>4

LEMMA PingIPsInv ==
  ASSUME Inv, pingIPs
  PROVE  Inv'
<1> USE Bounds
<1>1. PICK dialled \in SUBSET Addr, sent \in SUBSET Addr, answered \in SUBSET Addr :
        /\ answered \subseteq sent /\ sent \subseteq dialled
        /\ pings' = [a \in Addr |-> IF a \in sent
                       THEN pings[a] \cup {[sent |-> now, answered |-> a \in answered]}
                       ELSE pings[a]]
        /\ sockets' = [a \in Addr |-> sockets[a] + IF a \in dialled THEN 1 ELSE 0]
        /\ failed' = failed \cup (Addr \ answered)
  <2>1. PICK dialled \in SUBSET Addr : \E sent \in SUBSET dialled : \E answered \in SUBSET sent :
          /\ pings' = [a \in Addr |-> IF a \in sent
                         THEN pings[a] \cup {[sent |-> now, answered |-> a \in answered]}
                         ELSE pings[a]]
          /\ sockets' = [a \in Addr |-> sockets[a] + IF a \in dialled THEN 1 ELSE 0]
          /\ failed' = failed \cup (Addr \ answered)
    BY DEF pingIPs
  <2> QED
    BY <2>1
<1>2. /\ wake = now /\ wake' = now + Period
      /\ UNCHANGED <<now, PingRecord, pongAt, reader, status, crashed>>
  BY DEF pingIPs
<1>3. now \in Start..MaxTime /\ now \in Nat \ {0}
  BY DEF Inv, TypeOK
<1> DEFINE new(a) == [sent |-> now, answered |-> a \in answered]
<1>4. \A a \in Addr : new(a) \in Ping /\ new(a).sent = now /\ new(a).answered = (a \in answered)
  BY <1>3 DEF Ping
<1>5. \A a \in Addr : pings'[a] = IF a \in sent THEN pings[a] \cup {new(a)} ELSE pings[a]
  BY <1>1
<1> HIDE DEF new
<1>6. \A a \in Addr : pings[a] \subseteq Ping /\ pings[a] \subseteq pings'[a]
  BY <1>5 DEF Inv, TypeOK
<1>7. TypeOK'
  <2>1. pings' \in [Addr -> SUBSET Ping]
    <3>1. \A a \in Addr : pings'[a] \in SUBSET Ping
      BY <1>4, <1>5, <1>6
    <3> QED
      BY <1>1, <3>1
  <2>2. sockets' \in [Addr -> Nat]
    BY <1>1 DEF Inv, TypeOK
  <2>3. failed' \subseteq Addr
    BY <1>1 DEF Inv, TypeOK
  <2>4. wake' \in Nat
    BY <1>2, <1>3
  <2> QED
    BY <1>2, <2>1, <2>2, <2>3, <2>4 DEF Inv, TypeOK
<1>8. ClockInv'
  <2>1. wake' # 0 /\ now' <= wake' /\ wake' <= now' + Period
    BY <1>2, <1>3
  <2>2. ASSUME NEW a \in Addr, NEW p \in pings'[a]
        PROVE  /\ p.sent <= now' /\ p.sent < wake'
               /\ now' <= p.sent + Period
    <3>1. CASE p \in pings[a]
      <4>1. p.sent \in Nat
        BY <1>6, <3>1 DEF Ping
      <4> QED
        BY <1>2, <1>3, <3>1, <4>1 DEF Inv, ClockInv
    <3>2. CASE p = new(a)
      BY <1>2, <1>3, <1>4, <3>2
    <3> QED
      BY <1>5, <3>1, <3>2
  <2> QED
    BY <1>2, <2>1, <2>2 DEF Inv, ClockInv
<1>9. ReplyInv'
  <2> SUFFICES ASSUME NEW a \in Addr \ failed'
               PROVE  /\ \A p \in pings'[a] : p.answered
                      /\ pongAt[a] # 0 => \E p \in pings'[a] : pongAt[a] + Period >= p.sent
    BY <1>2 DEF ReplyInv
  <2>1. a \in Addr \ failed /\ a \in answered /\ a \in sent
    BY <1>1
  <2>2. new(a) \in pings'[a] /\ new(a).sent = wake /\ new(a).answered
    BY <1>2, <1>4, <1>5, <2>1
  <2>3. \A p \in pings'[a] : p.answered
    BY <1>5, <2>1, <2>2 DEF Inv, ReplyInv
  <2>4. ASSUME pongAt[a] # 0
        PROVE  \E p \in pings'[a] : pongAt[a] + Period >= p.sent
    <3>1. \/ pongAt[a] + Period >= wake
          \/ \E p \in pings[a] : pongAt[a] + Period >= p.sent
      BY <2>1, <2>4 DEF Inv, ReplyInv
    <3>2. CASE pongAt[a] + Period >= wake
      BY <2>2, <3>2
    <3> QED
      BY <1>6, <3>1, <3>2
  <2> QED
    BY <2>3, <2>4
<1>10. ASSUME NEW a \in Addr
       PROVE  /\ IsFiniteSet(pings'[a]) /\ Cardinality(pings'[a]) <= sockets'[a]
              /\ a \notin failed' => sockets'[a] <= Cardinality(pings'[a])
  <2>1. IsFiniteSet(pings[a]) /\ Cardinality(pings[a]) <= sockets[a] /\ sockets[a] \in Nat
    BY DEF Inv, TypeOK, SocketInv
  <2>2. Cardinality(pings[a]) \in Nat
    BY <2>1, FS_CardinalityType
  <2>3. new(a) \notin pings[a]
    <3>1. \A p \in pings[a] : p.sent \in Nat /\ p.sent < now
      BY <1>2, <1>6 DEF Inv, ClockInv, Ping
    <3> QED
      BY <1>3, <1>4, <3>1
  <2>4. sockets'[a] = sockets[a] + IF a \in dialled THEN 1 ELSE 0
    BY <1>1
  <2>5. a \notin failed' => a \in sent /\ sockets[a] <= Cardinality(pings[a])
    BY <1>1 DEF Inv, SocketsAreReturned
  <2>6. CASE a \in sent
    <3>1. /\ IsFiniteSet(pings'[a])
          /\ Cardinality(pings'[a]) = Cardinality(pings[a]) + 1
      <4>1. pings'[a] = pings[a] \cup {new(a)}
        BY <1>5, <2>6
      <4>2. /\ IsFiniteSet(pings[a] \cup {new(a)})
            /\ Cardinality(pings[a] \cup {new(a)}) = Cardinality(pings[a]) + 1
        <5> HIDE Bounds
        <5>1. IsFiniteSet(pings[a])
          BY <2>1
        <5> QED
          BY <2>3, <5>1, FS_AddElement, Zenon
      <4> QED
        BY <4>1, <4>2, Zenon
    <3>2. sockets'[a] = sockets[a] + 1
      BY <1>1, <2>4, <2>6
    <3> QED
      BY <2>1, <2>2, <2>5, <3>1, <3>2
  <2>7. CASE a \notin sent
    <3>1. pings'[a] = pings[a]
      BY <1>5, <2>7
    <3> QED
      BY <2>1, <2>2, <2>4, <2>5, <2>7, <3>1
  <2> QED
    BY <2>6, <2>7
<1>11. SocketInv' /\ SocketsAreReturned'
  BY <1>10 DEF SocketInv, SocketsAreReturned
<1> QED
  BY <1>7, <1>8, <1>9, <1>11 DEF Inv

\* The goroutine of a ping ends, with a reply or without.
LEMMA PingEnds ==
  ASSUME Inv, NEW a \in Addr, NEW p \in pings[a],
         PingReply(a, p) \/ PingFails(a, p)
  PROVE  /\ pings' \in [Addr -> SUBSET Ping]
         /\ \A b \in Addr : pings'[b] \subseteq pings[b]
         /\ \A b \in Addr \ {a} : pings'[b] = pings[b]
         /\ IsFiniteSet(pings'[a])
         /\ Cardinality(pings'[a]) = Cardinality(pings[a]) - 1
         /\ Cardinality(pings[a]) \in Nat \ {0}
         /\ wake # 0 /\ UNCHANGED <<now, wake, failed, reader, status>>
<1>1. /\ pings' = [pings EXCEPT ![a] = @ \ {p}]
      /\ UNCHANGED <<now, wake, failed, reader, status>>
  BY DEF PingReply, PingFails
<1>2. pings \in [Addr -> SUBSET Ping] /\ IsFiniteSet(pings[a])
  BY DEF Inv, TypeOK, SocketInv
<1>3. pings'[a] = pings[a] \ {p} /\ \A b \in Addr \ {a} : pings'[b] = pings[b]
  BY <1>1, <1>2
<1>4. /\ IsFiniteSet(pings[a] \ {p})
      /\ Cardinality(pings[a] \ {p}) = Cardinality(pings[a]) - 1
  BY <1>2, FS_RemoveElement
<1>5. Cardinality(pings[a]) \in Nat \ {0}
  BY <1>2, FS_CardinalityType, FS_EmptySet
<1>6. wake # 0
  BY DEF Inv, ClockInv
<1>7. pings' \in [Addr -> SUBSET Ping]
  BY <1>1, <1>2
<1> QED
  BY <1>1, <1>3, <1>4, <1>5, <1>6, <1>7

LEMMA PingReplyInv ==
  ASSUME Inv, NEW a \in Addr, NEW p \in pings[a], PingReply(a, p)
  PROVE  Inv'
<1> USE Bounds
<1>1. /\ PingRecord' = [PingRecord EXCEPT ![a] = now \div Ticks]
      /\ pongAt' = [pongAt EXCEPT ![a] = now]
      /\ sockets' = [sockets EXCEPT ![a] = @ - 1]
      /\ crashed' \in BOOLEAN
      /\ p.answered
  BY DEF PingReply, Inv, TypeOK
<1>2. /\ pings' \in [Addr -> SUBSET Ping]
      /\ \A b \in Addr : pings'[b] \subseteq pings[b]
      /\ \A b \in Addr \ {a} : pings'[b] = pings[b]
      /\ IsFiniteSet(pings'[a])
      /\ Cardinality(pings'[a]) = Cardinality(pings[a]) - 1
      /\ Cardinality(pings[a]) \in Nat \ {0}
      /\ wake # 0 /\ UNCHANGED <<now, wake, failed, reader, status>>
  BY PingEnds
<1>3. now \in Start..MaxTime /\ now \in Nat \ {0} /\ wake \in Nat
  BY DEF Inv, TypeOK
<1>4. /\ sockets[a] \in Nat /\ Cardinality(pings[a]) <= sockets[a]
      /\ sockets'[a] = sockets[a] - 1
      /\ \A b \in Addr \ {a} : sockets'[b] = sockets[b]
  BY <1>1 DEF Inv, TypeOK, SocketInv
<1>5. TypeOK'
  <2>1. now \div Ticks \in 0..(MaxTime \div Ticks)
    <3>1. now \div Ticks <= MaxTime \div Ticks
      BY <1>3, SecondsGrow
    <3> QED
      BY <1>3, <3>1, SecondBounds
  <2>2. PingRecord' \in [Addr -> 0..(MaxTime \div Ticks)]
    BY <1>1, <2>1 DEF Inv, TypeOK
  <2>3. pongAt' \in [Addr -> 0..MaxTime]
    BY <1>1, <1>3 DEF Inv, TypeOK
  <2>4. sockets' \in [Addr -> Nat]
    <3>1. sockets[a] - 1 \in Nat
      BY <1>2, <1>4
    <3> QED
      BY <1>1, <3>1 DEF Inv, TypeOK
  <2> QED
    BY <1>1, <1>2, <2>2, <2>3, <2>4 DEF Inv, TypeOK
<1>6. ClockInv'
  <2>1. \A b \in Addr : pongAt'[b] <= now' /\ PingRecord'[b] = pongAt'[b] \div Ticks
    BY <1>1, <1>2, <1>3 DEF Inv, TypeOK, ClockInv
  <2> QED
    BY <1>2, <2>1 DEF Inv, ClockInv
<1>7. ReplyInv'
  <2>1. wake <= now + Period
    BY <1>2 DEF Inv, ClockInv
  <2>2. pongAt'[a] = now /\ \A b \in Addr \ {a} : pongAt'[b] = pongAt[b]
    BY <1>1 DEF Inv, TypeOK
  <2>3. pongAt'[a] + Period >= wake'
    BY <1>2, <1>3, <2>1, <2>2
  <2> QED
    BY <1>2, <2>2, <2>3 DEF Inv, ReplyInv
<1>8. SocketInv' /\ SocketsAreReturned'
  <2>1. Cardinality(pings'[a]) <= sockets'[a]
    BY <1>2, <1>4
  <2>2. a \notin failed' => sockets'[a] <= Cardinality(pings'[a])
    <3>1. a \notin failed => sockets[a] <= Cardinality(pings[a])
      BY DEF Inv, SocketsAreReturned
    <3> QED
      BY <1>2, <1>4, <3>1
  <2> QED
    BY <1>2, <1>4, <2>1, <2>2 DEF Inv, SocketInv, SocketsAreReturned
<1> QED
  BY <1>5, <1>6, <1>7, <1>8 DEF Inv

\* The socket stays open, but the address is one that failed.
LEMMA PingFailsInv ==
  ASSUME Inv, NEW a \in Addr, NEW p \in pings[a], PingFails(a, p)
  PROVE  Inv'
<1> USE Bounds
<1>1. UNCHANGED <<PingRecord, pongAt, sockets, crashed>> /\ ~p.answered
  BY DEF PingFails
<1>2. /\ pings' \in [Addr -> SUBSET Ping]
      /\ \A b \in Addr : pings'[b] \subseteq pings[b]
      /\ \A b \in Addr \ {a} : pings'[b] = pings[b]
      /\ IsFiniteSet(pings'[a])
      /\ Cardinality(pings'[a]) = Cardinality(pings[a]) - 1
      /\ Cardinality(pings[a]) \in Nat \ {0}
      /\ wake # 0 /\ UNCHANGED <<now, wake, failed, reader, status>>
  BY PingEnds
<1>3. a \in failed
  BY <1>1 DEF Inv, ReplyInv
<1>4. TypeOK'
  BY <1>1, <1>2 DEF Inv, TypeOK
<1>5. ClockInv'
  BY <1>1, <1>2 DEF Inv, ClockInv
<1>6. ReplyInv'
  BY <1>1, <1>2, <1>3 DEF Inv, ReplyInv
<1>7. SocketInv' /\ SocketsAreReturned'
  <2>1. Cardinality(pings'[a]) <= sockets'[a]
    BY <1>1, <1>2 DEF Inv, TypeOK, SocketInv
  <2> QED
    BY <1>1, <1>2, <1>3, <2>1 DEF Inv, SocketInv, SocketsAreReturned
<1> QED
  BY <1>4, <1>5, <1>6, <1>7 DEF Inv

LEMMA NextInv == Inv /\ [Next]_vars => Inv'
<1> SUFFICES ASSUME Inv, [Next]_vars
             PROVE  Inv'
  OBVIOUS
<1>1. CASE UNCHANGED vars
  BY <1>1 DEF vars, Inv, TypeOK, ClockInv, ReplyInv, SocketInv, SocketsAreReturned
<1>2. CASE Next
  BY <1>2, ReaderInv, StartInv, TickInv, PingIPsInv, PingReplyInv, PingFailsInv DEF Next
<1> QED
  BY <1>1, <1>2

-----------------------------------------------------------------------------
(* Theorems                                                                *)

LEMMA Invariance == Spec => []Inv
  BY InitInv, NextInv, PTL DEF Spec

\* The state of the health check is well typed: the record has seconds that have
\* begun, and no socket is closed that is not open (pingIPs, PingReply).
THEOREM TypeCorrect == Spec => []TypeOK
  BY Invariance, PTL DEF Inv

\* Only an address that failed to answer uses up ping sockets: the goroutine of
\* every answered ping closes its socket (routine.go, pingIPs).
THEOREM AnsweredPingsReturnSockets == Spec => []SocketsAreReturned
  BY Invariance, PTL DEF Inv

\* Replies written out of order never turn the record of an address back, for
\* the goroutine of a ping writes the time it wakes at (routine.go, pingIPs).
THEOREM RecordIsMonotonic == Spec => RecordNeverTurnsBack
<1>1. Inv /\ [Next]_vars => [\A a \in Addr : PingRecord'[a] >= PingRecord[a]]_vars
  <2> SUFFICES ASSUME Inv, Next, NEW b \in Addr
               PROVE  PingRecord'[b] >= PingRecord[b]
    OBVIOUS
  <2>1. PingRecord \in [Addr -> Nat] /\ pongAt[b] \in Nat /\ now \in Nat /\ pongAt[b] <= now
    BY Bounds, SecondBounds DEF Inv, TypeOK, ClockInv
  <2>2. PingRecord[b] = pongAt[b] \div Ticks
    BY DEF Inv, ClockInv
  <2>3. CASE StartPingIPs
    <3>1. PingRecord'[b] = 0 /\ pongAt[b] = 0
      BY <2>3 DEF StartPingIPs, Inv, ClockInv
    <3> QED
      BY <2>2, <3>1, Bounds, SecondBounds
  <2>4. ASSUME NEW a \in Addr, NEW p \in pings[a], PingReply(a, p)
        PROVE  PingRecord'[b] >= PingRecord[b]
    <3>1. PingRecord'[b] \in {PingRecord[b], now \div Ticks}
      BY <2>1, <2>4 DEF PingReply
    <3>2. now \div Ticks >= PingRecord[b]
      BY <2>1, <2>2, Bounds, SecondsGrow, SecondBounds
    <3> QED
      BY <2>1, <3>1, <3>2
  <2>5. CASE UNCHANGED PingRecord
    BY <2>1, <2>5
  <2> QED
    BY <2>3, <2>4, <2>5
       DEF Next, pingIPs, PingFails, Request, Marshalled, Answer, Tick
<1> QED
  BY <1>1, Invariance, PTL DEF Spec, RecordNeverTurnsBack

\* "ok" is answered only if every address replied within the interval and the
\* two seconds allowed, whatever the rounding of the record (routine.go,
\* ServeHTTP).
THEOREM OkIsRecent == Spec => OkMeansAnswered
<1>1. Inv /\ [Next]_vars =>
        [Answer /\ status' = "ok" =>
           \A a \in Addr : pongAt[a] # 0 /\ now <= pongAt[a] + (Interval + 2) * Ticks]_vars
  <2> SUFFICES ASSUME Inv, Answer, status' = "ok", NEW a \in Addr
               PROVE  pongAt[a] # 0 /\ now <= pongAt[a] + (Interval + 2) * Ticks
    OBVIOUS
  <2> DEFINE r == PingRecord[a]
  <2>1. pongAt[a] \in Nat /\ now \in Nat /\ now >= Start /\ r \in Nat
    BY Bounds, SecondBounds DEF Inv, TypeOK
  <2>2. r * Ticks <= pongAt[a]
    BY <2>1, Bounds, SecondBounds DEF Inv, ClockInv
  <2>3. ~ (now > (r + Interval + 2) * Ticks)
    BY DEF Answer, Stale
  <2> HIDE DEF r
  <2>4. /\ (r + Interval + 2) * Ticks = r * Ticks + (Interval + 2) * Ticks
        /\ (Interval + 3) * Ticks = (Interval + 2) * Ticks + Ticks
        /\ (Interval + 2) * Ticks \in Nat /\ r * Ticks \in Nat
    BY <2>1, Bounds
  <2>5. now <= r * Ticks + (Interval + 2) * Ticks
    BY <2>1, <2>3, <2>4
  <2>6. now <= pongAt[a] + (Interval + 2) * Ticks
    BY <2>1, <2>2, <2>4, <2>5
  <2>7. pongAt[a] # 0
    BY <2>1, <2>4, <2>6, Bounds DEF Start
  <2> QED
    BY <2>6, <2>7
<1> QED
  BY <1>1, Invariance, PTL DEF Spec, OkMeansAnswered

\* The two seconds allowed are enough while replies are at most a second under
\* way, one for the reply and one for the rounding, whatever the interval: a
\* request is answered "unavailable" only if an address failed, has not answered
\* yet, or keeps a ping waiting for longer (routine.go, ServeHTTP).
THEOREM UnavailableIsDown == Spec => UnavailableMeansUnanswered
<1>1. Inv /\ [Next]_vars =>
        [Answer /\ status' = "unavailable" => Unanswered(Ticks)]_vars
  <2> SUFFICES ASSUME Inv, Answer, status' = "unavailable", ~Unanswered(Ticks)
               PROVE  FALSE
    OBVIOUS
  <2>1. PICK a \in Addr : now > (PingRecord[a] + Interval + 2) * Ticks
    BY DEF Answer, Stale
  <2>0. /\ a \notin failed /\ pongAt[a] # 0
        /\ \A p \in pings[a] : ~ (now > p.sent + Ticks)
    BY DEF Unanswered
  <2> DEFINE r == PingRecord[a]
  <2>2. pongAt[a] \in Nat /\ now \in Nat /\ r \in Nat /\ wake \in Nat
    BY Bounds, SecondBounds DEF Inv, TypeOK
  <2>3. pongAt[a] < r * Ticks + Ticks
    BY <2>2, Bounds, SecondBounds DEF Inv, ClockInv
  <2>4. now <= pongAt[a] + Period + Ticks
    <3>1. CASE pongAt[a] + Period >= wake
      <4>1. now <= wake
        <5>1. CASE wake = 0
          BY <2>0, <5>1 DEF Inv, ClockInv
        <5> QED
          BY <5>1 DEF Inv, ClockInv
      <4> QED
        BY <2>2, <3>1, <4>1, Bounds
    <3>2. ASSUME NEW p \in pings[a], pongAt[a] + Period >= p.sent
          PROVE  now <= pongAt[a] + Period + Ticks
      <4>1. p.sent \in Nat
        BY Bounds DEF Inv, TypeOK, Ping
      <4>2. now <= p.sent + Ticks
        BY <2>0, <2>2, <4>1, Bounds
      <4> QED
        BY <2>2, <3>2, <4>1, <4>2, Bounds
    <3> QED
      BY <2>0, <3>1, <3>2 DEF Inv, ReplyInv
  <2>5. now > (r + Interval + 2) * Ticks
    BY <2>1
  <2> HIDE DEF r
  <2>6. /\ (r + Interval + 2) * Ticks = r * Ticks + Interval * Ticks + Ticks + Ticks
        /\ r * Ticks \in Nat /\ Interval * Ticks \in Nat
    BY <2>2, Bounds
  <2> QED
    BY <2>2, <2>3, <2>4, <2>5, <2>6, Bounds DEF Period
<1> QED
  BY <1>1, Invariance, PTL DEF Spec, UnavailableMeansUnanswered

=============================================================================
