--------------------------- MODULE UDPServerProofs ---------------------------
(***************************************************************************)
(* Proofs about the session table of UDPServer, for any number of peers    *)
(* and sessions.  The lookup and the insertion are two critical sections:  *)
(* that this is sound rests on the read loop being alone in inserting.     *)
(* It implements the same abstract specification as UDPProxy.              *)
(***************************************************************************)
EXTENDS UDPServer, TLAPS

\* What the reaper took for inactive is inactive until it sweeps.
ExpiredIsIdle == expired \subseteq idle

\* A source that had no session at the lookup has none at the insertion.
AbsentUntilInserted == main \in {"dial", "insert"} => sessions[mainSrc] = NoSession

\* The session about to be inserted is nobody else's.
PendingIsPrivate ==
  main = "insert" =>
    /\ handler[mainSess] = "none"
    /\ ~InTable(mainSess)
    /\ conn[mainSess] = "open"
    /\ closeChan[mainSess] = "open"

\* A goroutine on its way to the table has closed its socket.
ClosedBeforeRemoved == \A s \in Sid : handler[s] = "remove" => conn[s] = "closed"

TableInv ==
  /\ TypeOK
  /\ TableIsLive
  /\ LiveIsInTable
  /\ SocketIsOwned
  /\ ExpiredIsIdle
  /\ AbsentUntilInserted
  /\ PendingIsPrivate
  /\ ClosedBeforeRemoved

LEMMA InitTable == Init => TableInv
<1> SUFFICES ASSUME Init
             PROVE  TableInv
  OBVIOUS
<1>1. AnySrc \in Src
  BY SessionsAssumption DEF AnySrc
<1> QED
  BY <1>1, SessionsAssumption DEF Init, TableInv, TypeOK, TableIsLive,
     LiveIsInTable, SocketIsOwned, ExpiredIsIdle, AbsentUntilInserted,
     PendingIsPrivate, ClosedBeforeRemoved

LEMMA ReadTable ==
  ASSUME TableInv,
         \/ \E src \in Src : MainRead(src)
         \/ MainReadError
         \/ MainReadClosed
         \/ DialFails
         \/ MainSend
  PROVE  TableInv'
<1>1. AnySrc \in Src
  BY SessionsAssumption DEF AnySrc
<1>2. /\ UNCHANGED <<sessions, owner, conn, closeChan, idle, handler, expired>>
      /\ main # "insert"
      /\ main' \in {"read", "lookup", "returned"}
  BY DEF MainRead, MainReadError, MainReadClosed, DialFails, MainSend, ReadAgain,
         reaperVars
<1>3. TypeOK'
  BY <1>1 DEF TableInv, TypeOK, MainRead, MainReadError, MainReadClosed, DialFails,
              MainSend, ReadAgain, reaperVars
<1>4. (TableIsLive /\ LiveIsInTable /\ SocketIsOwned /\ ClosedBeforeRemoved)'
  BY <1>2 DEF TableInv, TableIsLive, LiveIsInTable, SocketIsOwned,
              ClosedBeforeRemoved
<1>5. (ExpiredIsIdle /\ AbsentUntilInserted /\ PendingIsPrivate)'
  BY <1>2 DEF TableInv, ExpiredIsIdle, AbsentUntilInserted, PendingIsPrivate
<1> QED
  BY <1>3, <1>4, <1>5 DEF TableInv

LEMMA LookupTable == TableInv /\ MainLookup => TableInv'
<1> SUFFICES ASSUME TableInv, MainLookup
             PROVE  TableInv'
  OBVIOUS
<1> USE DEF TableInv
<1>1. TypeOK'
  BY DEF TypeOK, MainLookup, Touch
<1>2. (TableIsLive /\ LiveIsInTable /\ SocketIsOwned /\ ClosedBeforeRemoved)'
  BY DEF TableIsLive, LiveIsInTable, SocketIsOwned, ClosedBeforeRemoved, MainLookup
<1>3. ExpiredIsIdle'
  BY DEF ExpiredIsIdle, MainLookup, Touch
<1>4. (AbsentUntilInserted /\ PendingIsPrivate)'
  BY DEF AbsentUntilInserted, PendingIsPrivate, MainLookup
<1> QED
  BY <1>1, <1>2, <1>3, <1>4

LEMMA DialTable ==
  ASSUME TableInv, NEW s \in Sid, MainDial(s)
  PROVE  TableInv'
<1> USE DEF TableInv
<1>1. TypeOK'
  BY SessionsAssumption DEF TypeOK, MainDial, Touch
<1>2. (TableIsLive /\ LiveIsInTable)'
  BY DEF TypeOK, TableIsLive, LiveIsInTable, MainDial, Fresh, InTable
<1>3. (SocketIsOwned /\ ClosedBeforeRemoved /\ ExpiredIsIdle)'
  BY DEF TypeOK, SocketIsOwned, ClosedBeforeRemoved, ExpiredIsIdle, MainDial, Fresh,
         Touch
<1>4. (AbsentUntilInserted /\ PendingIsPrivate)'
  BY DEF TypeOK, AbsentUntilInserted, PendingIsPrivate, MainDial, Fresh, InTable
<1> QED
  BY <1>1, <1>2, <1>3, <1>4

LEMMA InsertTable == TableInv /\ MainInsert => TableInv'
<1> SUFFICES ASSUME TableInv, MainInsert
             PROVE  TableInv'
  OBVIOUS
<1> USE DEF TableInv, reaperVars
<1>1. mainSess \in Sid /\ sessions[mainSrc] = NoSession
  BY DEF MainInsert, TypeOK, AbsentUntilInserted
<1>2. TypeOK'
  BY <1>1 DEF TypeOK, MainInsert
<1>3. TableIsLive'
  BY <1>1 DEF TypeOK, TableIsLive, PendingIsPrivate, MainInsert, InTable
<1>4. LiveIsInTable'
  BY <1>1, SessionsAssumption DEF TypeOK, LiveIsInTable, PendingIsPrivate,
     MainInsert, InTable
<1>5. (SocketIsOwned /\ ClosedBeforeRemoved)'
  BY <1>1 DEF TypeOK, SocketIsOwned, ClosedBeforeRemoved, MainInsert
<1>6. (ExpiredIsIdle /\ AbsentUntilInserted /\ PendingIsPrivate)'
  BY DEF ExpiredIsIdle, AbsentUntilInserted, PendingIsPrivate, MainInsert
<1> QED
  BY <1>2, <1>3, <1>4, <1>5, <1>6

LEMMA HandlerTable ==
  ASSUME TableInv, NEW s \in Sid,
         \/ HandlerCheck(s)
         \/ HandlerTimeout(s)
         \/ HandlerData(s)
         \/ HandlerReadError(s)
  PROVE  TableInv'
<1> USE DEF TableInv
<1>1. /\ handler[s] \in {"check", "read"}
      /\ \E to \in {"check", "read", "close"} :
            handler' = [handler EXCEPT ![s] = to]
      /\ UNCHANGED <<sessions, owner, conn, closeChan, mainVars, reaper, stop, deviceUp>>
      /\ \/ UNCHANGED <<idle, expired>>
         \/ Touch(s)
  BY DEF HandlerCheck, HandlerTimeout, HandlerData, HandlerReadError, reaperVars
<1>2. TypeOK'
  BY <1>1 DEF TypeOK, Touch, mainVars
<1>3. (TableIsLive /\ LiveIsInTable)'
  BY <1>1 DEF TypeOK, TableIsLive, LiveIsInTable
<1>4. (SocketIsOwned /\ ClosedBeforeRemoved /\ ExpiredIsIdle)'
  BY <1>1 DEF TypeOK, SocketIsOwned, ClosedBeforeRemoved, ExpiredIsIdle, Touch, mainVars
<1>5. (AbsentUntilInserted /\ PendingIsPrivate)'
  BY <1>1 DEF TypeOK, AbsentUntilInserted, PendingIsPrivate, InTable, mainVars
<1> QED
  BY <1>2, <1>3, <1>4, <1>5

LEMMA EndTable ==
  ASSUME TableInv, NEW s \in Sid, HandlerClose(s) \/ closeSession(s)
  PROVE  TableInv'
<1> USE DEF TableInv, mainVars, reaperVars
<1>1. CASE HandlerClose(s)
  <2>1. TypeOK'
    BY <1>1 DEF TypeOK, HandlerClose
  <2>2. TableIsLive' /\ LiveIsInTable'
    BY <1>1 DEF TypeOK, TableIsLive, LiveIsInTable, HandlerClose
  <2>3. (SocketIsOwned /\ ClosedBeforeRemoved /\ ExpiredIsIdle)'
    BY <1>1 DEF TypeOK, SocketIsOwned, ClosedBeforeRemoved, ExpiredIsIdle, HandlerClose
  <2>4. (AbsentUntilInserted /\ PendingIsPrivate)'
    BY <1>1 DEF TypeOK, AbsentUntilInserted, PendingIsPrivate, HandlerClose, InTable
  <2> QED
    BY <2>1, <2>2, <2>3, <2>4
<1>2. CASE closeSession(s)
  <2>1. TypeOK'
    BY <1>2 DEF TypeOK, closeSession, DropIfCurrent
  <2>2. TableIsLive'
    BY <1>2 DEF TypeOK, TableIsLive, closeSession, DropIfCurrent
  <2>3. LiveIsInTable'
    BY <1>2 DEF TypeOK, LiveIsInTable, closeSession, DropIfCurrent
  <2>4. conn[s] = "closed"
    BY <1>2 DEF TypeOK, ClosedBeforeRemoved, closeSession
  <2>5. (SocketIsOwned /\ ClosedBeforeRemoved /\ ExpiredIsIdle)'
    BY <1>2, <2>4 DEF TypeOK, SocketIsOwned, ClosedBeforeRemoved, ExpiredIsIdle, closeSession
  <2>6. (AbsentUntilInserted /\ PendingIsPrivate)'
    BY <1>2 DEF TypeOK, AbsentUntilInserted, PendingIsPrivate, closeSession,
                DropIfCurrent, InTable
  <2> QED
    BY <2>1, <2>2, <2>3, <2>5, <2>6
<1> QED
  BY <1>1, <1>2

LEMMA AroundTable ==
  ASSUME TableInv,
         (\E s \in Sid : GoIdle(s)) \/ Reaper \/ Close \/ DeviceClose
  PROVE  TableInv'
<1> USE DEF TableInv, mainVars, reaperVars, processVars
<1>1. CASE ReaperSweep
  <2>1. TypeOK'
    BY <1>1 DEF TypeOK, ReaperSweep
  <2>2. TableIsLive'
    BY <1>1, SessionsAssumption DEF TypeOK, TableIsLive, ReaperSweep, InTable
  <2>3. LiveIsInTable'
    BY <1>1 DEF TypeOK, LiveIsInTable, ReaperSweep, InTable
  <2>4. (SocketIsOwned /\ ClosedBeforeRemoved /\ ExpiredIsIdle)'
    BY <1>1 DEF SocketIsOwned, ClosedBeforeRemoved, ExpiredIsIdle, ReaperSweep
  <2>5. AbsentUntilInserted'
    BY <1>1 DEF TypeOK, AbsentUntilInserted, ReaperSweep
  <2>6. PendingIsPrivate'
    BY <1>1, SessionsAssumption DEF TypeOK, PendingIsPrivate, ReaperSweep, InTable
  <2> QED
    BY <2>1, <2>2, <2>3, <2>4, <2>5, <2>6
<1>2. CASE \/ \E s \in Sid : GoIdle(s)
           \/ ReaperWake \/ ReaperExit \/ Close \/ DeviceClose
  <2>1. UNCHANGED <<sessions, owner, conn, closeChan, handler, mainVars>>
    BY <1>2 DEF GoIdle, ReaperWake, ReaperExit, Close, CloseMark, CloseNext, DeviceClose
  <2>2. ExpiredIsIdle'
    BY <1>2 DEF GoIdle, ReaperWake, ReaperExit, Close, CloseMark, CloseNext,
                DeviceClose, ExpiredIsIdle
  <2>3. TypeOK'
    BY <1>2 DEF GoIdle, ReaperWake, ReaperExit, Close, CloseMark, CloseNext,
                DeviceClose, TypeOK
  <2> QED
    BY <2>1, <2>2, <2>3 DEF TableIsLive, LiveIsInTable, SocketIsOwned,
       ClosedBeforeRemoved, AbsentUntilInserted, PendingIsPrivate, InTable
<1> QED
  BY <1>1, <1>2 DEF Reaper

LEMMA NextTable == TableInv /\ [Next]_vars => TableInv'
<1> SUFFICES ASSUME TableInv, [Next]_vars
             PROVE  TableInv'
  OBVIOUS
<1>1. CASE UNCHANGED vars
  BY <1>1 DEF vars, TableInv, TypeOK, TableIsLive, LiveIsInTable, SocketIsOwned,
     ClosedBeforeRemoved, ExpiredIsIdle, AbsentUntilInserted, PendingIsPrivate, InTable
<1>2. CASE Next
  BY <1>2, ReadTable, LookupTable, DialTable, InsertTable, HandlerTable, EndTable,
     AroundTable DEF Next, MainStep
<1> QED
  BY <1>1, <1>2

\* The server's table holds no session without a goroutine, and a socket that
\* is closed only for as long as its goroutine waits for the lock.
THEOREM TableStaysLive == Spec => [](TypeOK /\ TableIsLive)
<1>1. TableInv => TypeOK /\ TableIsLive
  BY DEF TableInv
<1> QED
  BY <1>1, InitTable, NextTable, PTL DEF Spec

\* No session escapes the table, and no socket its goroutine, although the
\* session is looked up, dialled and inserted without holding the lock.
THEOREM NothingLeaks == Spec => []NoOrphans
<1>1. TableInv => NoOrphans
  BY DEF TableInv, NoOrphans
<1> QED
  BY <1>1, InitTable, NextTable, PTL DEF Spec

-----------------------------------------------------------------------------
(* The server keeps the same associations                                  *)

\* Until it is told to stop, a session is the one its source finds, and the read
\* loop writes a datagram to the session of the source it came from.  A session
\* that is not in the table yet has not begun to be inactive.
AssocInv ==
  /\ \A s \in Sid : handler[s] # "none" /\ closeChan[s] = "open" => sessions[owner[s]] = s
  /\ main = "send" => owner[mainSess] = mainSrc
  /\ main = "insert" => mainSess \notin idle

AllInv == TableInv /\ AssocInv

LEMMA NextAssoc == AllInv /\ [Next]_vars => AssocInv'
<1> SUFFICES ASSUME TableInv, AssocInv, [Next]_vars
             PROVE  AssocInv'
  BY DEF AllInv
<1> USE DEF TableInv, mainVars, reaperVars, processVars
<1>1. ASSUME UNCHANGED <<sessions, owner, closeChan>>,
             main' \in {"send", "insert"} => UNCHANGED mainVars,
             main' = "insert" => mainSess \notin idle',
             \A s \in Sid : handler[s] = "none" => handler'[s] = "none"
      PROVE  AssocInv'
  BY <1>1 DEF AssocInv
<1>2. CASE \/ \E src \in Src : MainRead(src)
           \/ MainReadError \/ MainReadClosed \/ DialFails \/ MainSend
           \/ UNCHANGED vars
  BY <1>1, <1>2 DEF MainRead, MainReadError, MainReadClosed, DialFails, MainSend,
     ReadAgain, vars, AssocInv
<1>3. CASE MainLookup
  BY <1>3 DEF MainLookup, AssocInv, TableIsLive, TypeOK
<1>4. ASSUME NEW s \in Sid, MainDial(s)
      PROVE  AssocInv'
  BY <1>4 DEF MainDial, Touch, Fresh, AssocInv, TypeOK
<1>5. CASE MainInsert
  <2>1. mainSess \in Sid /\ sessions[mainSrc] = NoSession
    BY <1>5 DEF MainInsert, TypeOK, AbsentUntilInserted
  <2> QED
    BY <1>5, <2>1, SessionsAssumption DEF MainInsert, PendingIsPrivate, InTable,
       AssocInv, TypeOK
<1>6. ASSUME NEW s \in Sid, HandlerCheck(s) \/ HandlerTimeout(s) \/ HandlerData(s)
                            \/ HandlerReadError(s) \/ HandlerClose(s)
      PROVE  AssocInv'
  BY <1>1, <1>6 DEF HandlerCheck, HandlerTimeout, HandlerData, HandlerReadError,
     HandlerClose, Touch, AssocInv, TypeOK
<1>7. ASSUME NEW s \in Sid, closeSession(s)
      PROVE  AssocInv'
  BY <1>7 DEF closeSession, DropIfCurrent, AssocInv, TypeOK
<1>8. CASE ReaperSweep
  BY <1>8 DEF ReaperSweep, InTable, AssocInv, TypeOK
<1>9. CASE \/ \E s \in Sid : GoIdle(s)
           \/ ReaperWake \/ ReaperExit \/ CloseMark \/ CloseNext \/ DeviceClose
  BY <1>1, <1>9 DEF GoIdle, ReaperWake, ReaperExit, CloseMark, CloseNext, DeviceClose,
     PendingIsPrivate, AssocInv
<1> QED
  BY <1>2, <1>3, <1>4, <1>5, <1>6, <1>7, <1>8, <1>9 DEF Next, MainStep, Reaper, Close

LEMMA AllHolds == Spec => []AllInv
<1>1. Init => AllInv
  BY InitTable DEF AllInv, AssocInv, Init
<1>2. AllInv /\ [Next]_vars => AllInv'
  BY NextTable, NextAssoc DEF AllInv
<1> QED
  BY <1>1, <1>2, PTL DEF Spec

\* A session that was told to stop, or has no goroutine, is not in the table.
LEMMA ClosedIsOut ==
  ASSUME AllInv, NEW s \in Sid, closeChan[s] = "closed" \/ handler[s] = "none"
  PROVE  ~InTable(s) /\ s \notin Quiet
  BY SessionsAssumption DEF AllInv, TableInv, TypeOK, TableIsLive, InTable, Quiet

\* Steps that leave the association of every session where it is.
LEMMA Stutters ==
  ASSUME UNCHANGED <<sessions, owner>>, Quiet' = Quiet, Hand' = Hand,
         \A s \in Sid : Life'[s] = Life[s]
  PROVE  UNCHANGED Assoc!vars
<1>1. Life' = Life
  BY DEF Life
<1> QED
  BY <1>1 DEF Assoc!vars

LEMMA MainRefines ==
  ASSUME AllInv,
         \/ \E src \in Src : MainRead(src)
         \/ MainReadError
         \/ MainReadClosed
         \/ MainStep
  PROVE  [Assoc!Next]_(Assoc!vars)
<1> USE DEF AllInv, TableInv, mainVars, reaperVars
<1>1. CASE \/ \E src \in Src : MainRead(src)
           \/ MainReadError \/ MainReadClosed \/ DialFails
           \/ MainLookup /\ sessions[mainSrc] = NoSession
  <2>1. UNCHANGED <<sessions, owner, closeChan, idle, handler>> /\ Hand' = Hand
    BY <1>1 DEF MainRead, MainReadError, MainReadClosed, DialFails, MainLookup,
       ReadAgain, Hand
  <2> QED
    BY <2>1, Stutters DEF Life, Quiet, InTable
<1>2. CASE MainLookup /\ sessions[mainSrc] # NoSession
  <2>1. mainSrc \in Src /\ UNCHANGED <<sessions, owner>>
    BY <1>2 DEF MainLookup, TypeOK
  <2>2. Life' = Life
    BY <1>2 DEF MainLookup, Life
  <2>3. Quiet' = Quiet \ {sessions[mainSrc]}
    BY <1>2 DEF MainLookup, Touch, Quiet, InTable
  <2>4. Hand = Assoc!Nothing /\ Hand' = <<mainSrc, sessions[mainSrc]>>
    BY <1>2 DEF MainLookup, Hand, Assoc!Nothing
  <2>5. Assoc!Use(mainSrc)
    BY <1>2, <2>1, <2>2, <2>3, <2>4 DEF Assoc!Use
  <2> QED
    BY <2>1, <2>5 DEF Assoc!Next
<1>3. ASSUME NEW s \in Sid, MainDial(s)
      PROVE  [Assoc!Next]_(Assoc!vars)
  <2>1. UNCHANGED <<sessions, owner, handler>> /\ handler[s] = "none" /\ ~InTable(s)
    BY <1>3 DEF MainDial, Fresh
  <2>2. \A t \in Sid : Life'[t] = Life[t]
    BY <1>3, <2>1 DEF MainDial, Life, TypeOK
  <2>3. Quiet' = Quiet
    BY <1>3, <2>1 DEF MainDial, Touch, Quiet, InTable
  <2>4. Hand' = Hand
    BY <1>3 DEF MainDial, Hand
  <2> QED
    BY <2>1, <2>2, <2>3, <2>4, Stutters
<1>4. CASE MainInsert
  <2>1. /\ mainSrc \in Src /\ mainSess \in Sid
        /\ sessions[mainSrc] = NoSession
        /\ handler[mainSess] = "none" /\ closeChan[mainSess] = "open"
        /\ ~InTable(mainSess) /\ mainSess \notin idle
    BY <1>4 DEF MainInsert, TypeOK, AbsentUntilInserted, PendingIsPrivate, AssocInv
  <2>2. Life[mainSess] = "free" /\ Life' = [Life EXCEPT ![mainSess] = "live"]
    BY <1>4, <2>1 DEF MainInsert, Life, TypeOK
  <2>3. Quiet' = Quiet
    <3>1. \A t \in Sid : t # mainSess => (InTable(t)' <=> InTable(t))
      BY <1>4, <2>1, SessionsAssumption DEF MainInsert, InTable, TypeOK
    <3> QED
      BY <1>4, <2>1, <3>1 DEF MainInsert, Quiet, TypeOK
  <2>4. Hand = Assoc!Nothing /\ Hand' = <<mainSrc, mainSess>>
    BY <1>4 DEF MainInsert, Hand, Assoc!Nothing
  <2>5. Assoc!Begin(mainSrc, mainSess)
    BY <1>4, <2>1, <2>2, <2>3, <2>4 DEF MainInsert, Assoc!Begin
  <2> QED
    BY <2>1, <2>5 DEF Assoc!Next
<1>5. CASE MainSend
  <2>1. UNCHANGED <<sessions, owner>> /\ Quiet' = Quiet
    BY <1>5 DEF MainSend, Quiet, InTable
  <2>2. Life' = Life
    BY <1>5 DEF MainSend, Life
  <2>3. Hand = <<mainSrc, mainSess>> /\ Hand' = Assoc!Nothing
    BY <1>5 DEF MainSend, ReadAgain, Hand, Assoc!Nothing
  <2>4. Assoc!Send
    BY <2>1, <2>2, <2>3 DEF Assoc!Send, Assoc!Nothing
  <2> QED
    BY <2>4 DEF Assoc!Next
<1> QED
  BY <1>1, <1>2, <1>3, <1>4, <1>5 DEF MainStep

LEMMA HandlerRefines ==
  ASSUME AllInv, NEW s \in Sid,
         HandlerCheck(s) \/ HandlerTimeout(s) \/ HandlerData(s) \/ HandlerReadError(s)
  PROVE  [Assoc!Next]_(Assoc!vars)
<1> USE DEF AllInv, TableInv
<1>1. /\ handler[s] \in {"check", "read"}
      /\ UNCHANGED <<sessions, owner, closeChan>>
      /\ Hand' = Hand
  BY DEF HandlerCheck, HandlerTimeout, HandlerData, HandlerReadError, mainVars, Hand
<1>2. PICK to \in {"check", "read", "close"} : handler' = [handler EXCEPT ![s] = to]
  BY DEF HandlerCheck, HandlerTimeout, HandlerData, HandlerReadError
<1>3. Quiet' = Quiet \/ Quiet' = Quiet \ {s}
  BY DEF HandlerCheck, HandlerTimeout, HandlerData, HandlerReadError, Touch,
     reaperVars, Quiet, InTable
<1>4. CASE closeChan[s] = "closed"
  <2>1. Quiet' = Quiet
    BY <1>3, <1>4, ClosedIsOut
  <2>2. \A t \in Sid : Life'[t] = Life[t]
    BY <1>1, <1>2, <1>4 DEF Life, TypeOK
  <2> QED
    BY <1>1, <2>1, <2>2, Stutters
<1>5. CASE closeChan[s] = "open" /\ to = "close"
  <2>1. Life[s] = "live" /\ Life' = [Life EXCEPT ![s] = "failed"]
    BY <1>1, <1>2, <1>5 DEF Life, TypeOK
  <2>2. Assoc!Fail(s)
    BY <1>1, <1>3, <2>1 DEF Assoc!Fail
  <2> QED
    BY <2>2 DEF Assoc!Next
<1>6. CASE closeChan[s] = "open" /\ to # "close"
  <2>1. Life[s] = "live" /\ \A t \in Sid : Life'[t] = Life[t]
    BY <1>1, <1>2, <1>6 DEF Life, TypeOK
  <2>2. CASE Quiet' = Quiet
    BY <1>1, <2>1, <2>2, Stutters
  <2>3. CASE Quiet' = Quiet \ {s}
    <3>1. Life' = Life
      BY <2>1 DEF Life
    <3>2. Assoc!Answer(s)
      BY <1>1, <2>1, <2>3, <3>1 DEF Assoc!Answer
    <3> QED
      BY <3>2 DEF Assoc!Next
  <2> QED
    BY <1>3, <2>2, <2>3
<1> QED
  BY <1>4, <1>5, <1>6 DEF TypeOK

LEMMA EndRefines ==
  ASSUME AllInv, NEW s \in Sid, HandlerClose(s) \/ closeSession(s)
  PROVE  [Assoc!Next]_(Assoc!vars)
<1> USE DEF AllInv, TableInv
<1>1. UNCHANGED <<owner, idle>> /\ Hand' = Hand
  BY DEF HandlerClose, closeSession, mainVars, Hand
<1>2. CASE closeSession(s) /\ closeChan[s] = "open"
  <2>1. sessions[owner[s]] = s /\ owner[s] \in Src
    BY <1>2 DEF AssocInv, closeSession, TypeOK
  <2>2. /\ sessions' = [sessions EXCEPT ![owner[s]] = NoSession]
        /\ closeChan' = [closeChan EXCEPT ![s] = "closed"]
        /\ handler[s] = "remove" /\ handler' = [handler EXCEPT ![s] = "none"]
    BY <1>2, <2>1 DEF closeSession, DropIfCurrent
  <2>3. Life[s] = "failed" /\ Life' = [Life EXCEPT ![s] = "free"]
    BY <1>2, <2>2 DEF Life, TypeOK
  <2>4. \A t \in Sid : InTable(t)' <=> InTable(t) /\ t # s
    BY <2>1, <2>2, SessionsAssumption DEF InTable, TypeOK, TableIsLive
  <2>5. Quiet' = Quiet \ {s}
    BY <1>1, <2>4 DEF Quiet, TypeOK
  <2>6. Assoc!Leave(s)
    BY <1>1, <2>1, <2>2, <2>3, <2>5 DEF Assoc!Leave
  <2> QED
    BY <2>6 DEF Assoc!Next
<1>3. CASE closeSession(s) /\ closeChan[s] = "closed"
  <2>1. sessions[owner[s]] # s
    BY <1>3, ClosedIsOut DEF InTable, TypeOK
  <2>2. UNCHANGED <<sessions, closeChan>>
    BY <1>3, <2>1 DEF closeSession, DropIfCurrent
  <2>3. Life[s] = "over" /\ Life' = [Life EXCEPT ![s] = "free"]
    BY <1>3, <2>2 DEF closeSession, Life, TypeOK
  <2>4. Quiet' = Quiet
    BY <1>1, <2>2 DEF Quiet, InTable
  <2>5. Assoc!Release(s)
    BY <1>1, <2>2, <2>3, <2>4 DEF Assoc!Release
  <2> QED
    BY <2>5 DEF Assoc!Next
<1>4. CASE HandlerClose(s)
  <2>1. UNCHANGED sessions /\ Quiet' = Quiet
    BY <1>1, <1>4 DEF HandlerClose, Quiet, InTable
  <2>2. \A t \in Sid : Life'[t] = Life[t]
    BY <1>4 DEF HandlerClose, Life, TypeOK
  <2> QED
    BY <1>1, <2>1, <2>2, Stutters
<1> QED
  BY <1>2, <1>3, <1>4 DEF TypeOK

LEMMA AroundRefines ==
  ASSUME AllInv,
         (\E s \in Sid : GoIdle(s)) \/ Reaper \/ Close \/ DeviceClose
  PROVE  [Assoc!Next]_(Assoc!vars)
<1> USE DEF AllInv, TableInv
<1>1. UNCHANGED <<owner, handler>> /\ Hand' = Hand
  BY DEF Reaper, Close, GoIdle, ReaperWake, ReaperSweep, ReaperExit, CloseMark, CloseNext,
     DeviceClose, processVars, mainVars, Hand
<1>2. ASSUME NEW s \in Sid, GoIdle(s)
      PROVE  [Assoc!Next]_(Assoc!vars)
  <2>1. sessions[owner[s]] = s
    BY <1>2, SessionsAssumption DEF GoIdle, InTable, TableIsLive
  <2>2. Quiet' = Quiet \cup {s}
    BY <1>2 DEF GoIdle, Quiet, InTable
  <2>3. UNCHANGED sessions /\ Life' = Life
    BY <1>1, <1>2 DEF GoIdle, Life
  <2>4. Assoc!Rest(s)
    BY <1>1, <2>1, <2>2, <2>3 DEF Assoc!Rest
  <2> QED
    BY <2>4 DEF Assoc!Next
<1>3. CASE ReaperSweep
  <2> DEFINE S == {s \in expired : InTable(s)}
  <2>1. S \in SUBSET Quiet
    BY DEF ExpiredIsIdle, Quiet
  <2>2. sessions' = [src \in Src |-> IF sessions[src] \in S THEN NoSession ELSE sessions[src]]
    BY <1>3 DEF ReaperSweep, InTable, TypeOK
  <2>3. \A s \in Sid : s \in S => handler[s] # "none"
    BY SessionsAssumption DEF InTable, TableIsLive
  <2>4. Life' = [s \in Sid |-> IF s \in S THEN "over" ELSE Life[s]]
    BY <1>1, <1>3, <2>3 DEF ReaperSweep, Life
  <2>5. \A s \in Sid : InTable(s)' <=> InTable(s) /\ s \notin S
    BY <1>3, SessionsAssumption DEF ReaperSweep, InTable, TypeOK
  <2>6. Quiet' = Quiet \ S
    BY <1>3, <2>5 DEF ReaperSweep, Quiet, TypeOK
  <2>7. Assoc!Retire(S)
    BY <1>1, <2>2, <2>4, <2>6 DEF Assoc!Retire
  <2> QED
    BY <2>1, <2>7 DEF Assoc!Next
<1>4. CASE ReaperWake \/ ReaperExit \/ CloseMark \/ CloseNext \/ DeviceClose
  <2>1. UNCHANGED <<sessions, closeChan, idle>>
    BY <1>4 DEF ReaperWake, ReaperExit, CloseMark, CloseNext, DeviceClose
  <2> QED
    BY <1>1, <2>1, Stutters DEF Life, Quiet, InTable
<1> QED
  BY <1>2, <1>3, <1>4 DEF Reaper, Close

\* The server implements Associations as the proxy does: the unlocked dial between
\* its two critical sections does not show, and the closed socket it leaves in the
\* table for a moment is that of an association that has failed.
THEOREM ServerKeepsAssociations == Spec => KeepsAssociations
<1>1. Init => Assoc!Init
  <2> SUFFICES ASSUME Init
               PROVE  Assoc!Init
    OBVIOUS
  <2>1. AnySrc \in Src
    BY SessionsAssumption DEF AnySrc
  <2> QED
    BY <2>1 DEF Init, Assoc!Init, Assoc!Nothing, Life, Quiet, Hand
<1>2. AllInv /\ [Next]_vars => [Assoc!Next]_(Assoc!vars)
  <2> SUFFICES ASSUME AllInv, [Next]_vars
               PROVE  [Assoc!Next]_(Assoc!vars)
    OBVIOUS
  <2>1. CASE UNCHANGED vars
    BY <2>1, Stutters DEF vars, Life, Quiet, InTable, Hand
  <2>2. CASE Next
    BY <2>2, MainRefines, HandlerRefines, EndRefines, AroundRefines DEF Next
  <2> QED
    BY <2>1, <2>2
<1> QED
  BY <1>1, <1>2, AllHolds, PTL DEF Spec, KeepsAssociations, Assoc!Spec

\* A datagram leaves by the session of the source it came from, although that
\* session may have left the table since it was looked up.
THEOREM NoDatagramStrays == Spec => [](main = "send" => owner[mainSess] = mainSrc)
<1>1. AllInv => (main = "send" => owner[mainSess] = mainSrc)
  BY DEF AllInv, AssocInv
<1> QED
  BY <1>1, AllHolds, PTL

==============================================================================
