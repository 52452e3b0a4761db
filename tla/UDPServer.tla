------------------------------ MODULE UDPServer ------------------------------
(***************************************************************************)
(* UDPServerTunnel (udp_server_tunnel.go): datagrams that arrive on the    *)
(* WireGuard side go to a local target, each peer address with a host      *)
(* socket of its own.  Unlike UDPProxy it looks a session up and inserts   *)
(* it in two critical sections, dials between them without the lock, sets  *)
(* a read deadline only if sessions can time out, and lets go of a session *)
(* in the opposite order.                                                  *)
(***************************************************************************)
EXTENDS UDPSessions

-----------------------------------------------------------------------------
(* The read loop                                                           *)

\* ReadFrom returns a datagram; the listener is on the netstack.
MainRead(src) ==
  /\ main = "read"
  /\ stop # "closed" /\ deviceUp
  /\ main' = "lookup"
  /\ mainSrc' = src
  /\ UNCHANGED <<sessions, owner, conn, closeChan, idle, handler, mainSess,
                 reaperVars, stop, deviceUp>>

\* ReadFrom fails.  Until Close is asked for that is logged and the loop goes
\* on, which changes nothing here; for what it does with a listener that is
\* gone for good see Lifecycle.
MainReadError ==
  /\ main = "read"
  /\ stop \in {"marked", "doneClosed"}
  /\ main' = "returned"
  /\ UNCHANGED <<sessions, owner, conn, closeChan, idle, handler, mainSrc,
                 mainSess, reaperVars, stop, deviceUp>>

\* Defect: the read loop continues on every error.
MainReadClosed_Continues ==
  /\ main = "read"
  /\ stop = "closed"
  /\ UNCHANGED vars

\* The listener is closed.
MainReadClosed ==
  /\ main = "read"
  /\ stop = "closed"
  /\ main' = "returned"
  /\ UNCHANGED <<sessions, owner, conn, closeChan, idle, handler, mainSrc,
                 mainSess, reaperVars, stop, deviceUp>>

\* The first critical section.
MainLookup ==
  /\ main = "lookup"
  /\ LET s == sessions[mainSrc]
     IN IF s # NoSession
        THEN Touch(s) /\ main' = "send" /\ mainSess' = s
        ELSE UNCHANGED <<idle, expired, mainSess>> /\ main' = "dial"
  /\ UNCHANGED <<sessions, owner, conn, closeChan, handler, mainSrc, reaper, stop,
                 deviceUp>>

\* net.DialUDP, and the session that nothing refers to but this loop ...
MainDial(s) ==
  /\ main = "dial"
  /\ Fresh(s)
  /\ conn' = [conn EXCEPT ![s] = "open"]
  /\ closeChan' = [closeChan EXCEPT ![s] = "open"]
  /\ Touch(s)
  /\ main' = "insert"
  /\ mainSess' = s
  /\ UNCHANGED <<sessions, owner, handler, mainSrc, reaper, stop, deviceUp>>

\* ... or the datagram is dropped.
DialFails ==
  /\ main = "dial"
  /\ ReadAgain
  /\ UNCHANGED <<sessions, owner, conn, closeChan, idle, handler, reaperVars, stop,
                 deviceUp>>

\* Defect: the goroutine is started for a session that is not inserted.
MainInsert_NotStored ==
  /\ main = "insert"
  /\ owner' = [owner EXCEPT ![mainSess] = mainSrc]
  /\ handler' = [handler EXCEPT ![mainSess] = "check"]
  /\ main' = "send"
  /\ UNCHANGED <<sessions, conn, closeChan, idle, mainSrc, mainSess, reaperVars,
                 stop, deviceUp>>

\* The second critical section, and the goroutine.
MainInsert ==
  /\ main = "insert"
  /\ sessions' = [sessions EXCEPT ![mainSrc] = mainSess]
  /\ owner' = [owner EXCEPT ![mainSess] = mainSrc]
  /\ handler' = [handler EXCEPT ![mainSess] = "check"]
  /\ main' = "send"
  /\ UNCHANGED <<conn, closeChan, idle, mainSrc, mainSess, reaperVars, stop,
                 deviceUp>>

\* The write; whether it fails makes no difference.
MainSend ==
  /\ main = "send"
  /\ ReadAgain
  /\ UNCHANGED <<sessions, owner, conn, closeChan, idle, handler, reaperVars, stop,
                 deviceUp>>

MainStep ==
  \/ MainLookup
  \/ \E s \in Sid : MainDial(s)
  \/ DialFails
  \/ MainInsert
  \/ MainSend

-----------------------------------------------------------------------------
(* The session's goroutine                                                 *)

\* The select at the top of the loop.
HandlerCheck(s) ==
  /\ handler[s] = "check"
  /\ handler' = [handler EXCEPT ![s] = IF closeChan[s] = "closed" THEN "close"
                                       ELSE "read"]
  /\ UNCHANGED <<sessions, owner, conn, closeChan, idle, mainVars, reaperVars, stop,
                 deviceUp>>

\* Defect: no read deadline.
HandlerTimeout_Never(s) == FALSE

\* The read deadline, which is set only if sessions can time out.
HandlerTimeout(s) ==
  /\ Reaping
  /\ handler[s] = "read"
  /\ handler' = [handler EXCEPT ![s] = IF closeChan[s] = "closed" THEN "close"
                                       ELSE "check"]
  /\ UNCHANGED <<sessions, owner, conn, closeChan, idle, mainVars, reaperVars, stop,
                 deviceUp>>

\* The target answers: the session is touched and the answer passed to the
\* peer, which may fail and does once the listener is gone.
HandlerData(s) ==
  /\ handler[s] = "read"
  /\ Touch(s)
  /\ \E to \in {"check", "close"} :
       /\ to = "check" => stop # "closed" /\ deviceUp
       /\ handler' = [handler EXCEPT ![s] = to]
  /\ UNCHANGED <<sessions, owner, conn, closeChan, mainVars, reaper, stop, deviceUp>>

\* The read fails: nothing listens at the target, say.
HandlerReadError(s) ==
  /\ handler[s] = "read"
  /\ handler' = [handler EXCEPT ![s] = "close"]
  /\ UNCHANGED <<sessions, owner, conn, closeChan, idle, mainVars, reaperVars, stop,
                 deviceUp>>

\* Defect: a goroutine that ends does not close its socket.
HandlerClose_Leaks(s) ==
  /\ handler[s] = "close"
  /\ handler' = [handler EXCEPT ![s] = "remove"]
  /\ UNCHANGED <<sessions, owner, conn, closeChan, idle, mainVars, reaperVars, stop,
                 deviceUp>>

\* Deferred calls run last in, first out: the socket is closed ...
HandlerClose(s) ==
  /\ handler[s] = "close"
  /\ conn' = [conn EXCEPT ![s] = "closed"]
  /\ handler' = [handler EXCEPT ![s] = "remove"]
  /\ UNCHANGED <<sessions, owner, closeChan, idle, mainVars, reaperVars, stop,
                 deviceUp>>

\* Defect: a goroutine that ends leaves its session in the table.
closeSession_Skipped(s) ==
  /\ handler[s] = "remove"
  /\ handler' = [handler EXCEPT ![s] = "none"]
  /\ UNCHANGED <<sessions, owner, conn, closeChan, idle, mainVars, reaperVars, stop,
                 deviceUp>>

\* Defect: the deferred call waits for a lock its own goroutine holds.
closeSession_Blocks(s) == FALSE

\* ... before the session leaves the table.
closeSession(s) ==
  /\ handler[s] = "remove"
  /\ DropIfCurrent(s)
  /\ handler' = [handler EXCEPT ![s] = "none"]
  /\ UNCHANGED <<owner, conn, idle, mainVars, reaperVars, stop, deviceUp>>

-----------------------------------------------------------------------------
\* The reaper is a copy of the proxy's, as is Close.
Reaper == ReaperWake \/ ReaperSweep \/ ReaperExit
Close == CloseMark \/ CloseNext

Next ==
  \/ \E src \in Src : MainRead(src)
  \/ MainReadError
  \/ MainReadClosed
  \/ MainStep
  \/ \E s \in Sid :
       \/ HandlerCheck(s)
       \/ HandlerTimeout(s)
       \/ HandlerData(s)
       \/ HandlerReadError(s)
       \/ HandlerClose(s)
       \/ closeSession(s)
       \/ GoIdle(s)
  \/ Reaper
  \/ Close
  \/ DeviceClose

Spec == Init /\ [][Next]_vars

\* Goroutines that can go on do, and read deadlines, where there are any, pass.
Fairness ==
  /\ AroundFairness
  /\ WF_vars(MainReadClosed)
  /\ WF_vars(MainStep)
  /\ \A s \in Sid :
       /\ WF_vars(HandlerCheck(s))
       /\ WF_vars(HandlerTimeout(s))
       /\ WF_vars(HandlerClose(s))
       /\ WF_vars(closeSession(s))

FairSpec == Spec /\ Fairness

-----------------------------------------------------------------------------
\* What the table holds works, except for a goroutine that has closed its
\* socket and is on its way to the lock: a peer's datagram that finds such a
\* session is written to a closed socket.
TableIsLive ==
  \A src \in Src : LET s == sessions[src] IN s # NoSession =>
    /\ owner[s] = src
    /\ closeChan[s] = "open"
    /\ handler[s] # "none"
    /\ conn[s] = "open" \/ handler[s] = "remove"

\* A peer is not cut off: it does not find a dead session for ever.
DeadLeavesTable ==
  \A s \in Sid : InTable(s) /\ conn[s] = "closed" ~> ~InTable(s)

==============================================================================
