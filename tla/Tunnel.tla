-------------------------------- MODULE Tunnel --------------------------------
(***************************************************************************)
(* Starting a tunnel with a single peer: StartWireguardWithLogger of       *)
(* wireguard.go, the ClientOnlyBind of clientbind.go, and the parts of the *)
(* WireGuard device (a library) that call it.                              *)
(*                                                                         *)
(* The netstack announces itself to a new device with an event, so that a  *)
(* goroutine of the device brings it up while StartWireguardWithLogger is  *)
(* still configuring it: a listen_port in the request then closes the bind *)
(* and opens it again.  The device waits for the receivers of a closed     *)
(* bind before it opens it.                                                *)
(***************************************************************************)

CONSTANTS
  Socket,   \* UDP sockets; a closed one may be allocated again
  Sender,   \* goroutines of the device that send
  Nil

\* The goroutines that bring the device up, reconfigure it or close it.
Proc == {"start", "event", "close"}

ASSUME TunnelAssumption == Nil \notin Socket \cup Proc

VARIABLES
  pc,         \* pc[p]: where such a goroutine is
  dev,        \* the device: "none", "down", "up" or "closed"
  stateLock,  \* who holds the device's state lock
  netLock,    \* who holds its net lock, which is held to change the bind
  step,       \* how far that change is: "idle", "close", "wait" or "open"
  bconn,      \* b.conn: a socket or Nil
  sock,       \* sock[s]: "open" or "closed"
  recv,       \* recv[s]: the receiver of a socket: "none" or "read"
  deaf,       \* sockets whose receiver has given up
  sendConn    \* sendConn[g]: the socket a Send has taken, or Nil

vars == <<pc, dev, stateLock, netLock, step, bconn, sock, recv, deaf, sendConn>>

bindVars == <<bconn, sock, recv, deaf>>
lockVars == <<stateLock, netLock, step>>

TypeOK ==
  /\ pc \in [Proc -> {"create", "ipc", "ipcPort", "ipcRest", "up", "upBind",
                      "undo", "ok", "failed", "idle", "closing", "done"}]
  /\ dev \in {"none", "down", "up", "closed"}
  /\ stateLock \in Proc \cup {Nil}
  /\ netLock \in Proc \cup {Nil}
  /\ step \in {"idle", "close", "wait", "open"}
  /\ bconn \in Socket \cup {Nil}
  /\ sock \in [Socket -> {"open", "closed"}]
  /\ recv \in [Socket -> {"none", "read"}]
  /\ deaf \subseteq Socket
  /\ sendConn \in [Sender -> Socket \cup {Nil}]

Init ==
  /\ pc = [p \in Proc |-> IF p = "start" THEN "create" ELSE "idle"]
  /\ dev = "none"
  /\ stateLock = Nil
  /\ netLock = Nil
  /\ step = "idle"
  /\ bconn = Nil
  /\ sock = [s \in Socket |-> "closed"]
  /\ recv = [s \in Socket |-> "none"]
  /\ deaf = {}
  /\ sendConn = [g \in Sender |-> Nil]

Goto(p, l) == pc' = [pc EXCEPT ![p] = l]

-----------------------------------------------------------------------------
(* ClientOnlyBind                                                          *)

\* A socket object nobody has in hand.
Fresh(s) ==
  sock[s] = "closed" /\ recv[s] = "none" /\ \A g \in Sender : sendConn[g] # s

\* Open dials the peer.  It fails if the bind is open, or the dial does.
Open(s) ==
  /\ bconn = Nil
  /\ Fresh(s)
  /\ bconn' = s
  /\ sock' = [sock EXCEPT ![s] = "open"]

\* Defect: the bind is marked closed and its socket is not closed.
Close_KeepsSocket ==
  /\ bconn' = Nil
  /\ UNCHANGED sock

\* Close, under the mutex; a bind that is closed stays as it is.
Close ==
  /\ sock' = IF bconn = Nil THEN sock ELSE [sock EXCEPT ![bconn] = "closed"]
  /\ bconn' = Nil

\* Send takes the socket under the mutex ...
SendTake(g) ==
  /\ dev # "none"
  /\ sendConn[g] = Nil
  /\ bconn # Nil
  /\ sendConn' = [sendConn EXCEPT ![g] = bconn]
  /\ UNCHANGED <<pc, dev, lockVars, bindVars>>

\* ... and writes without it, which a socket closed meanwhile refuses.
SendWrite(g) ==
  /\ sendConn[g] # Nil
  /\ sendConn' = [sendConn EXCEPT ![g] = Nil]
  /\ UNCHANGED <<pc, dev, lockVars, bindVars>>

\* Defect: the error of a closed socket is not passed on.
recvClosed_Never(s) == FALSE

\* The receive function reads the socket of its own Open.
recvClosed(s) == sock[s] = "closed"

-----------------------------------------------------------------------------
(* The device's receiver, one for every Open                               *)

\* net.ErrClosed ends it.
ReceiverEnds(s) ==
  /\ recv[s] = "read"
  /\ recvClosed(s)
  /\ recv' = [recv EXCEPT ![s] = "none"]
  /\ UNCHANGED <<pc, dev, lockVars, bconn, sock, deaf, sendConn>>

\* So does any error that is not temporary, as the refusal is that a connected
\* socket reports when the peer is not there.
ReceiverGivesUp(s) ==
  /\ recv[s] = "read"
  /\ sock[s] = "open"
  /\ recv' = [recv EXCEPT ![s] = "none"]
  /\ deaf' = deaf \cup {s}
  /\ UNCHANGED <<pc, dev, lockVars, bconn, sock, sendConn>>

-----------------------------------------------------------------------------
(* The device's changes of its bind                                        *)

\* changeState takes the state lock for Up ...
UpBegins(p) ==
  /\ pc[p] = "up"
  /\ stateLock = Nil
  /\ dev = "down"
  /\ dev' = "up"
  /\ stateLock' = p
  /\ Goto(p, "upBind")
  /\ UNCHANGED <<netLock, step, bindVars, sendConn>>

\* ... and has nothing to do if the device is up, or closed.
UpAlready(p) ==
  /\ pc[p] = "up"
  /\ stateLock = Nil
  /\ dev \in {"up", "closed"}
  /\ Goto(p, IF p = "start" THEN "ok" ELSE "done")
  /\ UNCHANGED <<dev, lockVars, bindVars, sendConn>>

\* Close of the device, which the application has once the start succeeded.
DeviceClose ==
  /\ pc["start"] = "ok"
  /\ pc["close"] = "idle"
  /\ stateLock = Nil
  /\ stateLock' = "close"
  /\ dev' = "closed"
  /\ Goto("close", "closing")
  /\ UNCHANGED <<netLock, step, bindVars, sendConn>>

\* BindUpdate takes the net lock ...
BindLock(p) ==
  /\ pc[p] \in {"ipcPort", "upBind", "undo", "closing"}
  /\ netLock = Nil
  /\ netLock' = p
  /\ step' = "close"
  /\ UNCHANGED <<pc, dev, stateLock, bindVars, sendConn>>

\* ... closes the bind ...
BindClose ==
  /\ step = "close"
  /\ Close
  /\ step' = "wait"
  /\ UNCHANGED <<pc, dev, stateLock, netLock, recv, deaf, sendConn>>

Unlock(p) ==
  /\ netLock' = Nil
  /\ step' = "idle"
  /\ stateLock' = IF stateLock = p THEN Nil ELSE stateLock

\* Where a goroutine goes on when its change of the bind is over.
AfterChange(p, started) ==
  IF pc[p] = "ipcPort" THEN "ipcRest" ELSE IF p = "start" THEN started ELSE "done"

\* Defect: the bind is opened again before its receivers have returned.
BindWaited_NoWait ==
  /\ step = "wait"
  /\ \/ dev = "up" /\ step' = "open" /\ UNCHANGED <<pc, stateLock, netLock>>
     \/ /\ dev # "up"
        /\ Unlock(netLock)
        /\ Goto(netLock, AfterChange(netLock, "failed"))
  /\ UNCHANGED <<dev, bindVars, sendConn>>

\* Defect: the bind is opened again whatever the state of the device.
BindWaited_Reopens ==
  /\ step = "wait"
  /\ \A s \in Socket : recv[s] = "none"
  /\ step' = "open"
  /\ UNCHANGED <<pc, stateLock, netLock, dev, bindVars, sendConn>>

\* ... waits for its receivers, and is done if the device is not up ...
BindWaited ==
  /\ step = "wait"
  /\ \A s \in Socket : recv[s] = "none"
  /\ \/ dev = "up" /\ step' = "open" /\ UNCHANGED <<pc, stateLock, netLock>>
     \/ /\ dev # "up"
        /\ Unlock(netLock)
        /\ Goto(netLock, AfterChange(netLock, "failed"))
  /\ UNCHANGED <<dev, bindVars, sendConn>>

\* ... opens it and starts a receiver ...
BindOpens(s) ==
  /\ step = "open"
  /\ Open(s)
  /\ recv' = [recv EXCEPT ![s] = "read"]
  /\ deaf' = deaf \ {s}
  /\ Unlock(netLock)
  /\ Goto(netLock, AfterChange(netLock, "ok"))
  /\ UNCHANGED <<dev, sendConn>>

\* Defect: the start goes on when IpcSet has failed.
BindOpenFails_Ignored ==
  /\ step = "open"
  /\ netLock' = Nil
  /\ step' = "idle"
  /\ \/ pc[netLock] = "ipcPort" /\ Goto(netLock, "up") /\ UNCHANGED dev
     \/ pc[netLock] = "upBind" /\ Goto(netLock, "undo") /\ dev' = "down"
  /\ UNCHANGED <<stateLock, bindVars, sendConn>>

\* ... or fails to: IpcSet fails, and Up takes the device down again.
BindOpenFails ==
  /\ step = "open"
  /\ netLock' = Nil
  /\ step' = "idle"
  /\ \/ pc[netLock] = "ipcPort" /\ Goto(netLock, "failed") /\ UNCHANGED dev
     \/ pc[netLock] = "upBind" /\ Goto(netLock, "undo") /\ dev' = "down"
  /\ UNCHANGED <<stateLock, bindVars, sendConn>>

BindUpdate == BindClose \/ BindWaited \/ BindOpenFails \/ \E s \in Socket : BindOpens(s)

-----------------------------------------------------------------------------
(* StartWireguardWithLogger                                                *)

\* CreateNetTUN, and NewDevice, whose event goroutine calls Up in its own time.
Create ==
  /\ pc["start"] = "create"
  /\ \/ Goto("start", "failed") /\ UNCHANGED dev
     \/ pc' = [pc EXCEPT !["start"] = "ipc", !["event"] = "up"] /\ dev' = "down"
  /\ UNCHANGED <<lockVars, bindVars, sendConn>>

\* Defect: the device is not brought up.
IpcSet_NoUp ==
  /\ pc["start"] \in {"ipc", "ipcRest"}
  /\ \E l \in {"ok", "failed"} : Goto("start", l)
  /\ UNCHANGED <<dev, lockVars, bindVars, sendConn>>

\* IpcSet: a line of the request is refused, or Up is next.
IpcSet ==
  /\ pc["start"] \in {"ipc", "ipcRest"}
  /\ \E l \in {"up", "failed"} : Goto("start", l)
  /\ UNCHANGED <<dev, lockVars, bindVars, sendConn>>

\* The request has a listen_port, which is set with BindUpdate.
IpcSetPort ==
  /\ pc["start"] = "ipc"
  /\ Goto("start", "ipcPort")
  /\ UNCHANGED <<dev, lockVars, bindVars, sendConn>>

Next ==
  \/ Create
  \/ IpcSet
  \/ IpcSetPort
  \/ DeviceClose
  \/ BindUpdate
  \/ \E p \in Proc : UpBegins(p) \/ UpAlready(p) \/ BindLock(p)
  \/ \E s \in Socket : ReceiverEnds(s) \/ ReceiverGivesUp(s)
  \/ \E g \in Sender : SendTake(g) \/ SendWrite(g)

Spec == Init /\ [][Next]_vars

\* Goroutines go on when they can, with locks that are handed on fairly.
Fairness ==
  /\ WF_vars(BindUpdate)
  /\ \A p \in Proc : SF_vars(BindLock(p))
  /\ \A s \in Socket : WF_vars(ReceiverEnds(s))
  /\ \A g \in Sender : WF_vars(SendWrite(g))

FairSpec == Spec /\ Fairness

-----------------------------------------------------------------------------
(* Properties                                                              *)

\* The bind has the one socket that is open: cycles of Close and Open neither
\* leave a socket behind nor close one in use, and a Send that is late finds the
\* socket it took closed or still the bind's own.
OneSocket == {s \in Socket : sock[s] = "open"} = {bconn} \ {Nil}

\* When nobody is changing the bind, packets are received from its socket and no
\* other.
ReceiversAreCurrent ==
  netLock = Nil => \A s \in Socket : recv[s] = "read" => s = bconn

\* However often the bind is opened and closed, one socket at most is open and
\* only that one is listened to.
SocketIsSingle == OneSocket /\ ReceiversAreCurrent

\* Between changes, a device that is up has an open bind and listens to it,
\* unless the receiver gave up on an error, or the change to open it failed and
\* the start with it.
UpListens ==
  dev = "up" /\ stateLock = Nil /\ netLock = Nil =>
    \/ pc["start"] = "failed"
    \/ bconn # Nil /\ (recv[bconn] = "read" \/ bconn \in deaf)

\* A start that succeeds hands over a tunnel that can send.
StartedIsOpen ==
  [][pc["start"] # "ok" /\ pc'["start"] = "ok" => bconn' # Nil]_vars

\* A change of the bind comes to its end: the receivers it waits for return.
ChangeEnds == netLock # Nil ~> netLock = Nil

\* Closing the device leaves neither socket nor receiver.
CloseReleases ==
  pc["close"] = "closing" ~>
    [](bconn = Nil /\ \A s \in Socket : sock[s] = "closed" /\ recv[s] = "none")

==============================================================================
