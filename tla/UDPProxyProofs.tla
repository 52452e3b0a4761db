--------------------------- MODULE UDPProxyProofs ---------------------------
(***************************************************************************)
(* Proofs about the session table of UDPProxy, for any number of sources   *)
(* and sessions, and that the proxy implements Associations.               *)
(***************************************************************************)
EXTENDS UDPProxy, TLAPS

\* What the reaper took for inactive is inactive until it sweeps.
ExpiredIsIdle == expired \subseteq idle

TableInv ==
  /\ TypeOK
  /\ TableIsLive
  /\ LiveIsInTable
  /\ SocketIsOwned
  /\ ExpiredIsIdle

LEMMA InitTable == Init => TableInv
<1> SUFFICES ASSUME Init
             PROVE  TableInv
  OBVIOUS
<1>1. AnySrc \in Src
  BY SessionsAssumption DEF AnySrc
<1> QED
  BY <1>1, SessionsAssumption DEF Init, TableInv, TypeOK, TableIsLive,
     LiveIsInTable, SocketIsOwned, ExpiredIsIdle

LEMMA MainTable ==
  ASSUME TableInv,
         \/ \E src \in Src : MainRead(src)
         \/ MainReadError
         \/ MainReadClosed
         \/ DialFails
         \/ MainSend
  PROVE  TableInv'
<1>1. AnySrc \in Src
  BY SessionsAssumption DEF AnySrc
<1>2. UNCHANGED <<sessions, owner, conn, closeChan, handler>>
  BY DEF MainRead, MainReadError, MainReadClosed, DialFails, MainSend
<1>3. main # "insert"
  BY DEF MainRead, MainReadError, MainReadClosed, DialFails, MainSend
<1>4. TypeOK'
  BY <1>1 DEF TableInv, TypeOK, MainRead, MainReadError, MainReadClosed, DialFails,
              MainSend, Touch, ReadAgain, reaperVars
<1>5. (TableIsLive /\ LiveIsInTable /\ SocketIsOwned)'
  BY <1>2, <1>3 DEF TableInv, TableIsLive, LiveIsInTable, SocketIsOwned
<1>6. ExpiredIsIdle'
  BY DEF TableInv, ExpiredIsIdle, MainRead, MainReadError, MainReadClosed,
         DialFails, MainSend, Touch, reaperVars
<1> QED
  BY <1>4, <1>5, <1>6 DEF TableInv

LEMMA SessionTable ==
  ASSUME TableInv, SessionFound \/ \E s \in Sid : SessionCreated(s)
  PROVE  TableInv'
<1> USE DEF TableInv
<1>1. CASE SessionFound
  <2>1. TypeOK'
    BY <1>1 DEF TypeOK, SessionFound, Touch
  <2>2. (TableIsLive /\ LiveIsInTable /\ SocketIsOwned)'
    BY <1>1 DEF TableIsLive, LiveIsInTable, SocketIsOwned, SessionFound
  <2>3. ExpiredIsIdle'
    BY <1>1 DEF ExpiredIsIdle, SessionFound, Touch
  <2> QED
    BY <2>1, <2>2, <2>3
<1>2. ASSUME NEW s \in Sid, SessionCreated(s)
      PROVE  TableInv'
  <2> USE <1>2
  <2>1. TypeOK'
    BY SessionsAssumption DEF TypeOK, SessionCreated, Touch
  <2>2. TableIsLive'
    BY DEF TypeOK, TableIsLive, SessionCreated, Fresh, InTable
  <2>3. LiveIsInTable'
    BY SessionsAssumption DEF TypeOK, LiveIsInTable, SessionCreated, Fresh, InTable
  <2>4. (SocketIsOwned /\ ExpiredIsIdle)'
    BY DEF TypeOK, SocketIsOwned, ExpiredIsIdle, SessionCreated, Touch
  <2> QED
    BY <2>1, <2>2, <2>3, <2>4
<1> QED
  BY <1>1, <1>2

LEMMA HandlerTable ==
  ASSUME TableInv, NEW s \in Sid,
         \/ HandlerCheck(s)
         \/ HandlerTimeout(s)
         \/ HandlerData(s)
         \/ HandlerReadError(s)
  PROVE  TableInv'
<1> USE DEF TableInv
<1>1. /\ handler[s] \in {"check", "read"}
      /\ \E to \in {"check", "read", "remove"} :
            /\ handler' = [handler EXCEPT ![s] = to]
            /\ handler[s] = "check" => to # "check"
      /\ UNCHANGED <<sessions, owner, conn, closeChan, mainVars, reaper, stop, deviceUp>>
      /\ \/ UNCHANGED <<idle, expired>>
         \/ Touch(s)
  BY DEF HandlerCheck, HandlerTimeout, HandlerData, HandlerReadError, reaperVars
<1>2. TypeOK'
  BY <1>1 DEF TypeOK, Touch, mainVars
<1>3. (TableIsLive /\ LiveIsInTable)'
  BY <1>1 DEF TypeOK, TableIsLive, LiveIsInTable
<1>4. (SocketIsOwned /\ ExpiredIsIdle)'
  BY <1>1 DEF TypeOK, SocketIsOwned, ExpiredIsIdle, Touch, mainVars
<1> QED
  BY <1>2, <1>3, <1>4

LEMMA EndTable ==
  ASSUME TableInv, NEW s \in Sid, HandlerRemove(s) \/ HandlerClose(s)
  PROVE  TableInv'
<1> USE DEF TableInv, mainVars, reaperVars
<1>1. CASE HandlerRemove(s)
  <2>1. TypeOK'
    BY <1>1 DEF TypeOK, HandlerRemove, DropIfCurrent
  <2>2. TableIsLive'
    BY <1>1 DEF TypeOK, TableIsLive, HandlerRemove, DropIfCurrent
  <2>3. LiveIsInTable'
    BY <1>1 DEF TypeOK, LiveIsInTable, HandlerRemove, DropIfCurrent
  <2>4. (SocketIsOwned /\ ExpiredIsIdle)'
    BY <1>1 DEF TypeOK, SocketIsOwned, ExpiredIsIdle, HandlerRemove
  <2> QED
    BY <2>1, <2>2, <2>3, <2>4
<1>2. CASE HandlerClose(s)
  <2>1. TypeOK'
    BY <1>2 DEF TypeOK, HandlerClose
  <2>2. TableIsLive' /\ LiveIsInTable'
    BY <1>2 DEF TypeOK, TableIsLive, LiveIsInTable, HandlerClose
  <2>3. (SocketIsOwned /\ ExpiredIsIdle)'
    BY <1>2 DEF TypeOK, SocketIsOwned, ExpiredIsIdle, HandlerClose
  <2> QED
    BY <2>1, <2>2, <2>3
<1> QED
  BY <1>1, <1>2

LEMMA AroundTable == TableInv /\ Around => TableInv'
<1> SUFFICES ASSUME TableInv, Around
             PROVE  TableInv'
  OBVIOUS
<1> USE DEF TableInv, mainVars, reaperVars, processVars
<1>1. ASSUME NEW s \in Sid, GoIdle(s)
      PROVE  TableInv'
  BY <1>1 DEF TypeOK, TableIsLive, LiveIsInTable, SocketIsOwned, ExpiredIsIdle, GoIdle
<1>2. CASE ReaperWake
  BY <1>2 DEF TypeOK, TableIsLive, LiveIsInTable, SocketIsOwned, ExpiredIsIdle,
              ReaperWake
<1>3. CASE ReaperSweep
  <2>1. TypeOK'
    BY <1>3 DEF TypeOK, ReaperSweep
  <2>2. TableIsLive'
    BY <1>3, SessionsAssumption DEF TypeOK, TableIsLive, ReaperSweep, InTable
  <2>3. LiveIsInTable'
    BY <1>3 DEF TypeOK, LiveIsInTable, ReaperSweep, InTable
  <2>4. (SocketIsOwned /\ ExpiredIsIdle)'
    BY <1>3 DEF SocketIsOwned, ExpiredIsIdle, ReaperSweep
  <2> QED
    BY <2>1, <2>2, <2>3, <2>4
<1>4. CASE ReaperExit \/ CloseMark \/ CloseNext \/ DeviceClose
  <2>1. UNCHANGED <<sessions, owner, conn, closeChan, idle, handler, mainVars, expired>>
    BY <1>4 DEF ReaperExit, CloseMark, CloseNext, DeviceClose
  <2>2. TypeOK'
    BY <1>4 DEF TypeOK, ReaperExit, CloseMark, CloseNext, DeviceClose
  <2> QED
    BY <2>1, <2>2 DEF TableIsLive, LiveIsInTable, SocketIsOwned, ExpiredIsIdle
<1> QED
  BY <1>1, <1>2, <1>3, <1>4 DEF Around

LEMMA NextTable == TableInv /\ [Next]_vars => TableInv'
<1> SUFFICES ASSUME TableInv, [Next]_vars
             PROVE  TableInv'
  OBVIOUS
<1>1. CASE UNCHANGED vars
  BY <1>1 DEF vars, TableInv, TypeOK, TableIsLive, LiveIsInTable, SocketIsOwned,
              ExpiredIsIdle
<1>2. CASE Next
  BY <1>2, MainTable, SessionTable, HandlerTable, EndTable, AroundTable
     DEF Next, getOrCreateSession
<1> QED
  BY <1>1, <1>2

\* The proxy's table never holds a session that is of no use: whatever the
\* reaper, the read loop and the session goroutines do between them, what a
\* source finds has an open socket and a goroutine that has not left.
THEOREM TableStaysLive == Spec => [](TypeOK /\ TableIsLive)
<1>1. TableInv => TypeOK /\ TableIsLive
  BY DEF TableInv
<1> QED
  BY <1>1, InitTable, NextTable, PTL DEF Spec

\* No session escapes the table, and no socket its goroutine.
THEOREM NothingLeaks == Spec => []NoOrphans
<1>1. TableInv => NoOrphans
  BY DEF TableInv, NoOrphans
<1> QED
  BY <1>1, InitTable, NextTable, PTL DEF Spec

-----------------------------------------------------------------------------
(* The proxy keeps associations                                            *)

\* Until it is told to stop, a session is the one its source finds, and the read
\* loop writes a datagram to the session of the source it came from.
AssocInv ==
  /\ \A s \in Sid : handler[s] # "none" /\ closeChan[s] = "open" => sessions[owner[s]] = s
  /\ main = "send" => owner[mainSess] = mainSrc

AllInv == TableInv /\ AssocInv

LEMMA NextAssoc == AllInv /\ [Next]_vars => AssocInv'
<1> SUFFICES ASSUME TableInv, AssocInv, [Next]_vars
             PROVE  AssocInv'
  BY DEF AllInv
<1> USE DEF TableInv, mainVars, reaperVars, processVars
<1>1. ASSUME UNCHANGED <<sessions, owner, closeChan>>,
             main' = "send" => main = "send" /\ UNCHANGED <<mainSrc, mainSess>>,
             \A s \in Sid : handler[s] = "none" => handler'[s] = "none"
      PROVE  AssocInv'
  BY <1>1 DEF AssocInv
<1>2. CASE \/ \E src \in Src : MainRead(src)
           \/ MainReadError \/ MainReadClosed \/ DialFails \/ MainSend
           \/ UNCHANGED vars
  BY <1>1, <1>2 DEF MainRead, MainReadError, MainReadClosed, DialFails, MainSend,
     ReadAgain, vars
<1>3. CASE SessionFound
  BY <1>3 DEF SessionFound, AssocInv, TableIsLive, TypeOK
<1>4. ASSUME NEW s \in Sid, SessionCreated(s)
      PROVE  AssocInv'
  BY <1>4, SessionsAssumption DEF SessionCreated, Fresh, InTable, AssocInv, TypeOK
<1>5. ASSUME NEW s \in Sid, HandlerCheck(s) \/ HandlerTimeout(s) \/ HandlerData(s)
                            \/ HandlerReadError(s) \/ HandlerClose(s)
      PROVE  AssocInv'
  BY <1>1, <1>5 DEF HandlerCheck, HandlerTimeout, HandlerData, HandlerReadError,
     HandlerClose, TypeOK
<1>6. ASSUME NEW s \in Sid, HandlerRemove(s)
      PROVE  AssocInv'
  BY <1>6 DEF HandlerRemove, DropIfCurrent, AssocInv, TypeOK
<1>7. CASE ReaperSweep
  BY <1>7 DEF ReaperSweep, InTable, AssocInv, TypeOK
<1>8. CASE \/ \E s \in Sid : GoIdle(s)
           \/ ReaperWake \/ ReaperExit \/ CloseMark \/ CloseNext \/ DeviceClose
  BY <1>1, <1>8 DEF GoIdle, ReaperWake, ReaperExit, CloseMark, CloseNext, DeviceClose
<1> QED
  BY <1>2, <1>3, <1>4, <1>5, <1>6, <1>7, <1>8 DEF Next, getOrCreateSession, Around

LEMMA AllHolds == Spec => []AllInv
<1>1. Init => AllInv
  BY InitTable DEF AllInv, AssocInv, Init
<1>2. AllInv /\ [Next]_vars => AllInv'
  BY NextTable, NextAssoc DEF AllInv
<1> QED
  BY <1>1, <1>2, PTL DEF Spec

\* What is not in the table was told to stop, is of no use or has ended.
LEMMA ClosedIsOut ==
  ASSUME AllInv, NEW s \in Sid, closeChan[s] = "closed" \/ handler[s] \in {"none", "close"}
  PROVE  ~InTable(s) /\ s \notin Quiet /\ (handler[s] = "close" => closeChan[s] = "closed")
  BY SessionsAssumption DEF AllInv, AssocInv, TableInv, TypeOK, TableIsLive, InTable, Quiet

\* Steps that leave the association of every session where it is.
LEMMA Stutters ==
  ASSUME UNCHANGED <<sessions, owner>>, Quiet' = Quiet, Hand' = Hand,
         \A s \in Sid : Life'[s] = Life[s]
  PROVE  UNCHANGED Assoc!vars
<1>1. Life' = Life
  BY DEF Life
<1> QED
  BY <1>1 DEF Assoc!vars

LEMMA MainRefines ==
  ASSUME AllInv,
         \/ \E src \in Src : MainRead(src)
         \/ MainReadError
         \/ MainReadClosed
         \/ getOrCreateSession
         \/ MainSend
  PROVE  [Assoc!Next]_(Assoc!vars)
<1> USE DEF AllInv, TableInv, mainVars, reaperVars
<1>1. CASE \/ \E src \in Src : MainRead(src)
           \/ MainReadError \/ MainReadClosed \/ DialFails
  <2>1. UNCHANGED <<sessions, owner, closeChan, idle, handler>> /\ Hand' = Hand
    BY <1>1 DEF MainRead, MainReadError, MainReadClosed, DialFails, ReadAgain, Hand
  <2> QED
    BY <2>1, Stutters DEF Life, Quiet, InTable
<1>2. CASE SessionFound
  <2>1. mainSrc \in Src /\ UNCHANGED <<sessions, owner>>
    BY <1>2 DEF SessionFound, TypeOK
  <2>2. Life' = Life
    BY <1>2 DEF SessionFound, Life
  <2>3. Quiet' = Quiet \ {sessions[mainSrc]}
    BY <1>2 DEF SessionFound, Touch, Quiet, InTable
  <2>4. Hand = Assoc!Nothing /\ Hand' = <<mainSrc, sessions[mainSrc]>>
    BY <1>2 DEF SessionFound, Hand, Assoc!Nothing
  <2>5. Assoc!Use(mainSrc)
    BY <1>2, <2>1, <2>2, <2>3, <2>4 DEF SessionFound, Assoc!Use
  <2> QED
    BY <2>1, <2>5 DEF Assoc!Next
<1>3. ASSUME NEW s \in Sid, SessionCreated(s)
      PROVE  [Assoc!Next]_(Assoc!vars)
  <2>1. mainSrc \in Src /\ handler[s] = "none" /\ ~InTable(s)
    BY <1>3 DEF SessionCreated, Fresh, TypeOK
  <2>2. Life[s] = "free" /\ Life' = [Life EXCEPT ![s] = "live"]
    BY <1>3, <2>1 DEF SessionCreated, Life, TypeOK
  <2>3. Quiet' = Quiet
    <3>1. \A t \in Sid : t # s => (InTable(t)' <=> InTable(t))
      BY <1>3, <2>1, SessionsAssumption DEF SessionCreated, InTable, TypeOK
    <3> QED
      BY <1>3, <2>1, <3>1 DEF SessionCreated, Touch, Quiet, TypeOK
  <2>4. Hand = Assoc!Nothing /\ Hand' = <<mainSrc, s>>
    BY <1>3 DEF SessionCreated, Hand, Assoc!Nothing
  <2>5. Assoc!Begin(mainSrc, s)
    BY <1>3, <2>2, <2>3, <2>4 DEF SessionCreated, Assoc!Begin
  <2> QED
    BY <2>1, <2>5 DEF Assoc!Next
<1>4. CASE MainSend
  <2>1. UNCHANGED <<sessions, owner>>
    BY <1>4 DEF MainSend
  <2>2. Life' = Life
    BY <1>4 DEF MainSend, Life
  <2>3. Quiet' = Quiet \ {mainSess}
    BY <1>4 DEF MainSend, Touch, Quiet, InTable
  <2>4. Hand = <<mainSrc, mainSess>> /\ Hand' = Assoc!Nothing
    BY <1>4 DEF MainSend, ReadAgain, Hand, Assoc!Nothing
  <2>5. Assoc!Send
    BY <2>1, <2>2, <2>3, <2>4 DEF Assoc!Send, Assoc!Nothing
  <2> QED
    BY <2>5 DEF Assoc!Next
<1> QED
  BY <1>1, <1>2, <1>3, <1>4 DEF getOrCreateSession

LEMMA HandlerRefines ==
  ASSUME AllInv, NEW s \in Sid,
         HandlerCheck(s) \/ HandlerTimeout(s) \/ HandlerData(s) \/ HandlerReadError(s)
  PROVE  [Assoc!Next]_(Assoc!vars)
<1> USE DEF AllInv, TableInv
<1>1. /\ handler[s] \in {"check", "read"}
      /\ UNCHANGED <<sessions, owner, closeChan>>
      /\ Hand' = Hand
  BY DEF HandlerCheck, HandlerTimeout, HandlerData, HandlerReadError, mainVars, Hand
<1>2. PICK to \in {"check", "read", "remove"} : handler' = [handler EXCEPT ![s] = to]
  BY DEF HandlerCheck, HandlerTimeout, HandlerData, HandlerReadError
<1>3. Quiet' = Quiet \/ Quiet' = Quiet \ {s}
  BY DEF HandlerCheck, HandlerTimeout, HandlerData, HandlerReadError, Touch,
     reaperVars, Quiet, InTable
<1>4. CASE closeChan[s] = "closed"
  <2>1. Quiet' = Quiet
    BY <1>3, <1>4, ClosedIsOut
  <2>2. \A t \in Sid : Life'[t] = Life[t]
    BY <1>1, <1>2, <1>4 DEF Life, TypeOK
  <2> QED
    BY <1>1, <2>1, <2>2, Stutters
<1>5. CASE closeChan[s] = "open" /\ to = "remove"
  <2>1. Life[s] = "live" /\ Life' = [Life EXCEPT ![s] = "failed"]
    BY <1>1, <1>2, <1>5 DEF Life, TypeOK
  <2>2. Assoc!Fail(s)
    BY <1>1, <1>3, <2>1 DEF Assoc!Fail
  <2> QED
    BY <2>2 DEF Assoc!Next
<1>6. CASE closeChan[s] = "open" /\ to # "remove"
  <2>1. Life[s] = "live" /\ \A t \in Sid : Life'[t] = Life[t]
    BY <1>1, <1>2, <1>6 DEF Life, TypeOK
  <2>2. CASE Quiet' = Quiet
    BY <1>1, <2>1, <2>2, Stutters
  <2>3. CASE Quiet' = Quiet \ {s}
    <3>1. Life' = Life
      BY <2>1 DEF Life
    <3>2. Assoc!Answer(s)
      BY <1>1, <2>1, <2>3, <3>1 DEF Assoc!Answer
    <3> QED
      BY <3>2 DEF Assoc!Next
  <2> QED
    BY <1>3, <2>2, <2>3
<1> QED
  BY <1>4, <1>5, <1>6 DEF TypeOK

LEMMA EndRefines ==
  ASSUME AllInv, NEW s \in Sid, HandlerRemove(s) \/ HandlerClose(s)
  PROVE  [Assoc!Next]_(Assoc!vars)
<1> USE DEF AllInv, TableInv
<1>1. UNCHANGED <<owner, idle>> /\ Hand' = Hand
  BY DEF HandlerRemove, HandlerClose, mainVars, Hand
<1>2. CASE HandlerRemove(s) /\ closeChan[s] = "open"
  <2>1. sessions[owner[s]] = s /\ owner[s] \in Src
    BY <1>2 DEF AssocInv, HandlerRemove, TypeOK
  <2>2. /\ sessions' = [sessions EXCEPT ![owner[s]] = NoSession]
        /\ closeChan' = [closeChan EXCEPT ![s] = "closed"]
        /\ handler[s] = "remove" /\ handler' = [handler EXCEPT ![s] = "close"]
    BY <1>2, <2>1 DEF HandlerRemove, DropIfCurrent
  <2>3. Life[s] = "failed" /\ Life' = [Life EXCEPT ![s] = "over"]
    BY <1>2, <2>2 DEF Life, TypeOK
  <2>4. \A t \in Sid : InTable(t)' <=> InTable(t) /\ t # s
    BY <2>1, <2>2, SessionsAssumption DEF InTable, TypeOK, TableIsLive
  <2>5. Quiet' = Quiet \ {s}
    BY <1>1, <2>4 DEF Quiet, TypeOK
  <2>6. Assoc!Leave(s)
    BY <1>1, <2>1, <2>2, <2>3, <2>5 DEF Assoc!Leave
  <2> QED
    BY <2>6 DEF Assoc!Next
<1>3. CASE HandlerRemove(s) /\ closeChan[s] = "closed"
  <2>1. sessions[owner[s]] # s
    BY <1>3, ClosedIsOut DEF InTable, TypeOK
  <2>2. UNCHANGED <<sessions, closeChan>>
    BY <1>3, <2>1 DEF HandlerRemove, DropIfCurrent
  <2>3. \A t \in Sid : Life'[t] = Life[t]
    BY <1>3, <2>2 DEF HandlerRemove, Life, TypeOK
  <2>4. Quiet' = Quiet
    BY <1>1, <2>2 DEF Quiet, InTable
  <2> QED
    BY <1>1, <2>2, <2>3, <2>4, Stutters
<1>4. CASE HandlerClose(s)
  <2>1. closeChan[s] = "closed"
    BY <1>4, ClosedIsOut DEF HandlerClose
  <2>2. Life[s] = "over" /\ Life' = [Life EXCEPT ![s] = "free"]
    BY <1>4, <2>1 DEF HandlerClose, Life, TypeOK
  <2>3. UNCHANGED sessions /\ Quiet' = Quiet
    BY <1>1, <1>4 DEF HandlerClose, Quiet, InTable
  <2>4. Assoc!Release(s)
    BY <1>1, <2>2, <2>3 DEF Assoc!Release
  <2> QED
    BY <2>4 DEF Assoc!Next
<1> QED
  BY <1>2, <1>3, <1>4 DEF TypeOK

LEMMA AroundRefines ==
  ASSUME AllInv, Around
  PROVE  [Assoc!Next]_(Assoc!vars)
<1> USE DEF AllInv, TableInv
<1>1. UNCHANGED <<owner, handler>> /\ Hand' = Hand
  BY DEF Around, GoIdle, ReaperWake, ReaperSweep, ReaperExit, CloseMark, CloseNext,
     DeviceClose, processVars, mainVars, Hand
<1>2. ASSUME NEW s \in Sid, GoIdle(s)
      PROVE  [Assoc!Next]_(Assoc!vars)
  <2>1. sessions[owner[s]] = s
    BY <1>2, SessionsAssumption DEF GoIdle, InTable, TableIsLive
  <2>2. Quiet' = Quiet \cup {s}
    BY <1>2 DEF GoIdle, Quiet, InTable
  <2>3. UNCHANGED sessions /\ Life' = Life
    BY <1>1, <1>2 DEF GoIdle, Life
  <2>4. Assoc!Rest(s)
    BY <1>1, <2>1, <2>2, <2>3 DEF Assoc!Rest
  <2> QED
    BY <2>4 DEF Assoc!Next
<1>3. CASE ReaperSweep
  <2> DEFINE S == {s \in expired : InTable(s)}
  <2>1. S \in SUBSET Quiet
    BY DEF ExpiredIsIdle, Quiet
  <2>2. sessions' = [src \in Src |-> IF sessions[src] \in S THEN NoSession ELSE sessions[src]]
    BY <1>3 DEF ReaperSweep, InTable, TypeOK
  <2>3. \A s \in Sid : s \in S => handler[s] # "none"
    BY SessionsAssumption DEF InTable, TableIsLive
  <2>4. Life' = [s \in Sid |-> IF s \in S THEN "over" ELSE Life[s]]
    BY <1>1, <1>3, <2>3 DEF ReaperSweep, Life
  <2>5. \A s \in Sid : InTable(s)' <=> InTable(s) /\ s \notin S
    BY <1>3, SessionsAssumption DEF ReaperSweep, InTable, TypeOK
  <2>6. Quiet' = Quiet \ S
    BY <1>3, <2>5 DEF ReaperSweep, Quiet, TypeOK
  <2>7. Assoc!Retire(S)
    BY <1>1, <2>2, <2>4, <2>6 DEF Assoc!Retire
  <2> QED
    BY <2>1, <2>7 DEF Assoc!Next
<1>4. CASE ReaperWake \/ ReaperExit \/ CloseMark \/ CloseNext \/ DeviceClose
  <2>1. UNCHANGED <<sessions, closeChan, idle>>
    BY <1>4 DEF ReaperWake, ReaperExit, CloseMark, CloseNext, DeviceClose
  <2> QED
    BY <1>1, <2>1, Stutters DEF Life, Quiet, InTable
<1> QED
  BY <1>2, <1>3, <1>4 DEF Around

\* The proxy implements Associations: whatever the read loop, the reaper and the
\* session goroutines do between a lookup and the datagram that follows it, a
\* source has one association at a time, and loses it by failure or quiet only.
THEOREM ProxyKeepsAssociations == Spec => KeepsAssociations
<1>1. Init => Assoc!Init
  <2> SUFFICES ASSUME Init
               PROVE  Assoc!Init
    OBVIOUS
  <2>1. AnySrc \in Src
    BY SessionsAssumption DEF AnySrc
  <2> QED
    BY <2>1 DEF Init, Assoc!Init, Assoc!Nothing, Life, Quiet, Hand
<1>2. AllInv /\ [Next]_vars => [Assoc!Next]_(Assoc!vars)
  <2> SUFFICES ASSUME AllInv, [Next]_vars
               PROVE  [Assoc!Next]_(Assoc!vars)
    OBVIOUS
  <2>1. CASE UNCHANGED vars
    BY <2>1, Stutters DEF vars, Life, Quiet, InTable, Hand
  <2>2. CASE Next
    BY <2>2, MainRefines, HandlerRefines, EndRefines, AroundRefines DEF Next
  <2> QED
    BY <2>1, <2>2
<1> QED
  BY <1>1, <1>2, AllHolds, PTL DEF Spec, KeepsAssociations, Assoc!Spec

\* A datagram leaves by the session of the source it came from, although that
\* session may have left the table since it was looked up.
THEOREM NoDatagramStrays == Spec => [](main = "send" => owner[mainSess] = mainSrc)
<1>1. AllInv => (main = "send" => owner[mainSess] = mainSrc)
  BY DEF AllInv, AssocInv
<1> QED
  BY <1>1, AllHolds, PTL

==============================================================================
