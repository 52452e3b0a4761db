----------------------------- MODULE TunnelProofs -----------------------------
(***************************************************************************)
(* Proofs about the start of a tunnel, for any sockets and any number of   *)
(* goroutines that send: the bind has one socket and one receiver, and a   *)
(* start that succeeds hands over a device that listens.                   *)
(***************************************************************************)
EXTENDS Tunnel, TLAPS

\* Who holds which lock, and in which state of the device.
LockInv ==
  /\ step = "idle" <=> netLock = Nil
  /\ netLock # Nil => pc[netLock] \in {"ipcPort", "upBind", "undo", "closing"}
  /\ \A p \in Proc :
       /\ pc[p] \in {"upBind", "undo", "closing"} <=> stateLock = p
       /\ pc[p] = "ipcPort" => p = "start"
       /\ pc[p] = "upBind" => dev = "up"
       /\ pc[p] = "undo" => dev = "down"
       /\ pc[p] = "closing" => dev = "closed"
  /\ pc["start"] = "create" => pc["event"] = "idle" /\ pc["close"] = "idle"
  /\ dev = "closed" => pc["start"] = "ok"

\* Only while a change of the bind waits for receivers are there old ones.
OldReceiversEnd ==
  step # "wait" => \A s \in Socket : recv[s] = "read" => s = bconn

\* A device that is up listens until its bind is closed.
ListenInv ==
  dev = "up" /\ stateLock = Nil /\ step \in {"idle", "close"} =>
    \/ pc["start"] = "failed"
    \/ bconn # Nil /\ (recv[bconn] = "read" \/ bconn \in deaf)

Inv == TypeOK /\ LockInv /\ OneSocket /\ OldReceiversEnd /\ ListenInv

-----------------------------------------------------------------------------

LEMMA InitInv == Init => Inv
  BY TunnelAssumption DEF Init, Inv, TypeOK, LockInv, OneSocket, OldReceiversEnd,
     ListenInv, Proc

\* Sending and receiving change nothing of the bind.
LEMMA TrafficInv ==
  ASSUME Inv,
         \/ \E g \in Sender : SendTake(g) \/ SendWrite(g)
         \/ \E s \in Socket : ReceiverEnds(s) \/ ReceiverGivesUp(s)
  PROVE  Inv'
<1> USE TunnelAssumption DEF Inv, lockVars, bindVars
<1>1. UNCHANGED <<pc, dev, lockVars, bconn, sock>>
  BY DEF SendTake, SendWrite, ReceiverEnds, ReceiverGivesUp
<1>2. TypeOK'
  BY <1>1 DEF SendTake, SendWrite, ReceiverEnds, ReceiverGivesUp, TypeOK
<1>3. LockInv' /\ OneSocket'
  BY <1>1 DEF LockInv, OneSocket
<1>4. OldReceiversEnd'
  BY <1>1 DEF SendTake, SendWrite, ReceiverEnds, ReceiverGivesUp, TypeOK, OldReceiversEnd
<1>5. ListenInv'
  <2>1. \A s \in Socket : sock[s] = "open" <=> s = bconn
    BY DEF OneSocket
  <2>2. bconn \in Socket /\ (recv[bconn] = "read" \/ bconn \in deaf) =>
          recv'[bconn] = "read" \/ bconn \in deaf'
    BY <2>1 DEF SendTake, SendWrite, ReceiverEnds, ReceiverGivesUp, recvClosed, TypeOK
  <2> QED
    BY <1>1, <2>2 DEF ListenInv, TypeOK
<1> QED
  BY <1>2, <1>3, <1>4, <1>5

\* The start, and the goroutines that take a lock.
LEMMA StartInv ==
  ASSUME Inv,
         \/ Create \/ IpcSet \/ IpcSetPort \/ DeviceClose
         \/ \E p \in Proc : UpBegins(p) \/ UpAlready(p) \/ BindLock(p)
  PROVE  Inv'
<1> USE TunnelAssumption DEF Inv, lockVars, bindVars, Goto, Proc
<1>1. UNCHANGED <<bindVars, sendConn>>
  BY DEF Create, IpcSet, IpcSetPort, DeviceClose, UpBegins, UpAlready, BindLock
<1>2. TypeOK'
  BY <1>1 DEF Create, IpcSet, IpcSetPort, DeviceClose, UpBegins, UpAlready, BindLock, TypeOK
<1>3. LockInv'
  <2>1. CASE Create
    BY <2>1 DEF Create, TypeOK, LockInv
  <2>2. CASE IpcSet \/ IpcSetPort
    BY <2>2 DEF IpcSet, IpcSetPort, TypeOK, LockInv
  <2>3. CASE DeviceClose
    BY <2>3 DEF DeviceClose, TypeOK, LockInv
  <2>4. ASSUME NEW p \in Proc, UpBegins(p) \/ UpAlready(p) \/ BindLock(p)
        PROVE  LockInv'
    <3>1. CASE UpBegins(p)
      BY <3>1 DEF UpBegins, TypeOK, LockInv
    <3>2. CASE UpAlready(p)
      BY <3>2 DEF UpAlready, TypeOK, LockInv
    <3>3. CASE BindLock(p)
      BY <3>3 DEF BindLock, TypeOK, LockInv
    <3> QED
      BY <2>4, <3>1, <3>2, <3>3
  <2> QED
    BY <2>1, <2>2, <2>3, <2>4
<1>4. OneSocket' /\ OldReceiversEnd'
  <2>1. step' = "wait" <=> step = "wait"
    BY DEF Create, IpcSet, IpcSetPort, DeviceClose, UpBegins, UpAlready, BindLock, LockInv
  <2> QED
    BY <1>1, <2>1 DEF OneSocket, OldReceiversEnd
<1>5. ListenInv'
  <2>1. /\ dev' = "up" /\ stateLock' = Nil => dev = "up" /\ stateLock = Nil
        /\ step' \in {"idle", "close"} => step \in {"idle", "close"}
        /\ pc["start"] = "failed" => pc'["start"] = "failed"
    BY DEF Create, IpcSet, IpcSetPort, DeviceClose, UpBegins, UpAlready, BindLock, LockInv,
       TypeOK
  <2> QED
    BY <1>1, <2>1 DEF ListenInv
<1> QED
  BY <1>2, <1>3, <1>4, <1>5

\* A change of the bind.
LEMMA ChangeInv ==
  ASSUME Inv, BindUpdate
  PROVE  Inv'
<1> USE TunnelAssumption DEF Inv, lockVars, bindVars, Goto
<1>0. netLock \in Proc /\ pc[netLock] \in {"ipcPort", "upBind", "undo", "closing"}
  BY DEF BindUpdate, BindClose, BindWaited, BindOpens, BindOpenFails, LockInv, TypeOK
<1>1. CASE BindClose
  <2>1. TypeOK'
    BY <1>1 DEF BindClose, Close, TypeOK
  <2>2. LockInv' /\ OldReceiversEnd' /\ ListenInv'
    BY <1>1 DEF BindClose, Close, LockInv, OldReceiversEnd, ListenInv
  <2>3. OneSocket'
    BY <1>1 DEF BindClose, Close, OneSocket, TypeOK
  <2> QED
    BY <2>1, <2>2, <2>3
<1>2. CASE BindWaited
  <2>1. UNCHANGED <<dev, bindVars, sendConn>> /\ \A s \in Socket : recv[s] = "none"
    BY <1>2 DEF BindWaited
  <2>2. CASE dev = "up" /\ step' = "open" /\ UNCHANGED <<pc, stateLock, netLock>>
    BY <1>0, <2>1, <2>2 DEF TypeOK, LockInv, OneSocket, OldReceiversEnd, ListenInv
  <2>3. CASE dev # "up" /\ Unlock(netLock)
    <3>1. PICK l \in {"ipcRest", "failed", "done"} :
            /\ pc' = [pc EXCEPT ![netLock] = l]
            /\ netLock = "start" => l \in {"ipcRest", "failed"}
      BY <1>0, <1>2, <2>3 DEF BindWaited, AfterChange
    <3>2. TypeOK'
      BY <2>1, <2>3, <3>1 DEF Unlock, TypeOK
    <3>3. LockInv'
      BY <1>0, <2>1, <2>3, <3>1 DEF Unlock, TypeOK, LockInv, Proc
    <3> QED
      BY <2>1, <2>3, <3>2, <3>3 DEF Unlock, OneSocket, OldReceiversEnd, ListenInv
  <2> QED
    BY <1>2, <2>2, <2>3 DEF BindWaited
<1>3. ASSUME NEW s \in Socket, BindOpens(s)
      PROVE  Inv'
  <2>1. /\ Unlock(netLock) /\ UNCHANGED dev
        /\ \E l \in {"ipcRest", "ok", "done"} : pc' = [pc EXCEPT ![netLock] = l]
    BY <1>3 DEF BindOpens, AfterChange
  <2>2. TypeOK'
    BY <1>3, <2>1 DEF BindOpens, Open, Unlock, TypeOK
  <2>3. LockInv'
    BY <1>0, <1>3, <2>1 DEF BindOpens, Unlock, TypeOK, LockInv, Proc
  <2>4. OneSocket'
    BY <1>3 DEF BindOpens, Open, OneSocket, TypeOK
  <2>5. OldReceiversEnd'
    BY <1>3 DEF BindOpens, Open, OldReceiversEnd, TypeOK
  <2>6. ListenInv'
    BY <1>3 DEF BindOpens, Open, ListenInv, TypeOK
  <2> QED
    BY <2>2, <2>3, <2>4, <2>5, <2>6
<1>4. CASE BindOpenFails
  <2>1. TypeOK'
    BY <1>4 DEF BindOpenFails, TypeOK
  <2>2. LockInv'
    BY <1>0, <1>4 DEF BindOpenFails, TypeOK, LockInv, Proc
  <2>3. OneSocket' /\ OldReceiversEnd'
    BY <1>4 DEF BindOpenFails, OneSocket, OldReceiversEnd
  <2>4. ListenInv'
    BY <1>0, <1>4 DEF BindOpenFails, ListenInv, LockInv, TypeOK
  <2> QED
    BY <2>1, <2>2, <2>3, <2>4
<1> QED
  BY <1>1, <1>2, <1>3, <1>4 DEF BindUpdate

LEMMA NextInv == Inv /\ [Next]_vars => Inv'
<1> SUFFICES ASSUME Inv, [Next]_vars
             PROVE  Inv'
  OBVIOUS
<1>1. CASE UNCHANGED vars
  BY <1>1 DEF vars, Inv, TypeOK, LockInv, OneSocket, OldReceiversEnd, ListenInv
<1>2. CASE Next
  BY <1>2, TrafficInv, StartInv, ChangeInv DEF Next
<1> QED
  BY <1>1, <1>2

\* The variables of a tunnel that starts keep their types.
THEOREM TypeCorrect == Spec => []TypeOK
<1>1. Inv => TypeOK
  BY DEF Inv
<1> QED
  BY <1>1, InitInv, NextInv, PTL DEF Spec

\* However the start, the device's event and the sending goroutines interleave,
\* the bind has the one socket that is open, and only it is received from.
THEOREM BindIsSingle == Spec => []SocketIsSingle
<1>1. Inv => SocketIsSingle
  BY DEF Inv, LockInv, OldReceiversEnd, ReceiversAreCurrent, SocketIsSingle
<1> QED
  BY <1>1, InitInv, NextInv, PTL DEF Spec

\* Between changes a device that is up has an open bind and listens to it, unless
\* the receiver gave up or the start has failed.
THEOREM UpIsHeard == Spec => []UpListens
<1>1. Inv => UpListens
  BY DEF Inv, LockInv, ListenInv, UpListens
<1> QED
  BY <1>1, InitInv, NextInv, PTL DEF Spec

\* A start that succeeds hands over a tunnel with an open socket, whether it was
\* the start that brought the device up or the device's own event.
THEOREM StartIsReady == Spec => StartedIsOpen
<1>1. Inv /\ [Next]_vars =>
        [pc["start"] # "ok" /\ pc'["start"] = "ok" => bconn' # Nil]_vars
  <2> SUFFICES ASSUME Inv, Next, pc["start"] # "ok", pc'["start"] = "ok"
               PROVE  bconn' # Nil
    BY DEF vars
  <2> USE TunnelAssumption DEF Inv, Goto
  <2>1. CASE \E s \in Socket : BindOpens(s)
    BY <2>1 DEF BindOpens, Open
  <2>2. CASE UpAlready("start")
    <3>1. dev = "up" /\ stateLock = Nil /\ UNCHANGED bconn
      BY <2>2 DEF UpAlready, LockInv, bindVars
    <3>2. netLock = Nil
      BY <2>2, <3>1 DEF UpAlready, LockInv, TypeOK, Proc
    <3> QED
      BY <2>2, <3>1, <3>2 DEF UpAlready, LockInv, ListenInv
  <2>3. CASE ~UpAlready("start") /\ ~\E s \in Socket : BindOpens(s)
    <3>1. pc'["start"] # "ok"
      <4>1. CASE Create \/ IpcSet \/ IpcSetPort \/ DeviceClose
        BY <4>1 DEF Create, IpcSet, IpcSetPort, DeviceClose, TypeOK, Proc
      <4>2. CASE BindUpdate
        BY <2>3, <4>2 DEF BindUpdate, BindClose, BindWaited, BindOpenFails,
           AfterChange, TypeOK, Proc
      <4>3. CASE \E p \in Proc : UpBegins(p) \/ UpAlready(p) \/ BindLock(p)
        BY <2>3, <4>3 DEF UpBegins, UpAlready, BindLock, TypeOK, Proc
      <4>4. CASE \/ \E s \in Socket : ReceiverEnds(s) \/ ReceiverGivesUp(s)
                 \/ \E g \in Sender : SendTake(g) \/ SendWrite(g)
        BY <4>4 DEF ReceiverEnds, ReceiverGivesUp, SendTake, SendWrite
      <4> QED
        BY <4>1, <4>2, <4>3, <4>4 DEF Next
    <3> QED
      BY <3>1
  <2> QED
    BY <2>1, <2>2, <2>3
<1> QED
  BY <1>1, InitInv, NextInv, PTL DEF Spec, StartedIsOpen

-----------------------------------------------------------------------------
(* The end of a tunnel                                                     *)

\* A device that has been closed has neither socket nor receiver, and nothing
\* opens its bind again: neither an event that comes late nor a start that has
\* just returned.
ClosedIsFinal ==
  pc["close"] = "done" =>
    bconn = Nil /\ \A s \in Socket : sock[s] = "closed" /\ recv[s] = "none"

\* After the close nobody is left who could change the bind.
EndInv ==
  /\ pc["close"] \in {"idle", "closing", "done"}
  /\ pc["event"] # "closing"
  /\ step \in {"wait", "open"} => bconn = Nil
  /\ step = "open" => dev = "up"
  /\ pc["close"] # "idle" => dev = "closed"
  /\ pc["close"] = "done" =>
       netLock = Nil /\ bconn = Nil /\ \A s \in Socket : recv[s] = "none"

LEMMA NextEnd == Inv /\ EndInv /\ [Next]_vars => EndInv'
<1> SUFFICES ASSUME Inv, EndInv, [Next]_vars
             PROVE  EndInv'
  OBVIOUS
<1> USE TunnelAssumption DEF Inv, lockVars, bindVars, Goto
<1>1. CASE UNCHANGED vars
  BY <1>1 DEF vars, EndInv
<1>2. CASE Create \/ IpcSet \/ IpcSetPort \/ DeviceClose
  BY <1>2 DEF Create, IpcSet, IpcSetPort, DeviceClose, EndInv, LockInv, TypeOK, Proc
<1>3. CASE BindUpdate
  <2>0. netLock \in Proc /\ pc[netLock] \in {"ipcPort", "upBind", "undo", "closing"}
    BY <1>3 DEF BindUpdate, BindClose, BindWaited, BindOpens, BindOpenFails, LockInv,
       TypeOK
  <2>1. pc["close"] # "done"
    BY <2>0 DEF EndInv
  <2>2. CASE BindClose
    BY <2>1, <2>2 DEF BindClose, Close, EndInv
  <2>3. CASE BindWaited
    <3>1. bconn = Nil /\ UNCHANGED <<dev, bconn, recv>> /\ \A s \in Socket : recv[s] = "none"
      BY <2>3 DEF BindWaited, EndInv
    <3>2. CASE dev = "up" /\ UNCHANGED pc
      BY <2>1, <3>1, <3>2 DEF EndInv
    <3>3. CASE Unlock(netLock) /\ pc' = [pc EXCEPT ![netLock] = AfterChange(netLock, "failed")]
      <4>1. netLock = "close" => pc["close"] = "closing"
        BY <2>0 DEF EndInv
      <4>2. pc'["close"] \in {pc["close"], "done"}
        BY <2>0, <3>3, <4>1 DEF AfterChange, TypeOK, Proc
      <4>3. pc'["close"] = "done" => netLock = "close"
        BY <2>0, <2>1, <3>3 DEF TypeOK, Proc
      <4>4. netLock' = Nil /\ step' = "idle"
        BY <3>3 DEF Unlock
      <4>5. pc'["close"] # "idle" => dev' = "closed"
        BY <3>1, <4>1, <4>2, <4>3 DEF EndInv
      <4>6. pc'["close"] \in {"idle", "closing", "done"}
        BY <4>2 DEF EndInv
      <4>7. pc'["event"] # "closing"
        BY <2>0, <3>3 DEF AfterChange, EndInv, TypeOK, Proc
      <4> QED
        BY <3>1, <4>4, <4>5, <4>6, <4>7 DEF EndInv
    <3> QED
      BY <2>3, <3>2, <3>3 DEF BindWaited
  <2>4. ASSUME NEW s \in Socket, BindOpens(s)
        PROVE  EndInv'
    <3>1. netLock # "close"
      BY <2>0, <2>4 DEF BindOpens, LockInv, EndInv
    <3>2. pc'["close"] = pc["close"]
      BY <2>0, <2>4, <3>1 DEF BindOpens, TypeOK, Proc
    <3>3. step' = "idle" /\ UNCHANGED dev
      BY <2>4 DEF BindOpens, Unlock
    <3>4. pc'["event"] # "closing"
      BY <2>0, <2>4 DEF BindOpens, AfterChange, EndInv, TypeOK, Proc
    <3>5. pc'["close"] # "idle" => dev' = "closed"
      BY <3>2, <3>3 DEF EndInv
    <3>6. pc'["close"] \in {"idle", "closing"}
      BY <2>1, <3>2 DEF EndInv
    <3> QED
      BY <3>3, <3>4, <3>5, <3>6 DEF EndInv
  <2>5. CASE BindOpenFails
    BY <2>0, <2>1, <2>5 DEF BindOpenFails, EndInv, LockInv, TypeOK, Proc
  <2> QED
    BY <1>3, <2>2, <2>3, <2>4, <2>5 DEF BindUpdate
<1>4. ASSUME NEW p \in Proc, UpBegins(p) \/ UpAlready(p) \/ BindLock(p)
      PROVE  EndInv'
  <2>1. pc["close"] = "done" => pc[p] \notin {"ipcPort", "upBind", "undo", "closing"}
    BY DEF EndInv, LockInv, Proc
  <2> QED
    BY <1>4, <2>1 DEF UpBegins, UpAlready, BindLock, EndInv, TypeOK, Proc, LockInv
<1>5. CASE \/ \E s \in Socket : ReceiverEnds(s) \/ ReceiverGivesUp(s)
           \/ \E g \in Sender : SendTake(g) \/ SendWrite(g)
  BY <1>5 DEF ReceiverEnds, ReceiverGivesUp, SendTake, SendWrite, EndInv, TypeOK
<1> QED
  BY <1>1, <1>2, <1>3, <1>4, <1>5 DEF Next

\* Closing the device is final, whatever the device's event goroutine and late
\* senders still do.
THEOREM CloseIsFinal == Spec => []ClosedIsFinal
<1>1. Init => EndInv
  BY TunnelAssumption DEF Init, EndInv, Proc
<1>2. Inv /\ EndInv => ClosedIsFinal
  BY TunnelAssumption DEF Inv, EndInv, OneSocket, TypeOK, ClosedIsFinal
<1> QED
  BY <1>1, <1>2, InitInv, NextInv, NextEnd, PTL DEF Spec

=============================================================================
