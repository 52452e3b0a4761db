------------------------------ MODULE UDPProxy ------------------------------
(***************************************************************************)
(* UDPProxyTunnel (udp_proxy.go): datagrams that arrive at a host socket   *)
(* leave through the tunnel, each local source with a tunnel socket of its *)
(* own.  A datagram is its source address: what it carries, and what the   *)
(* remote answers, is passed on unchanged.                                 *)
(***************************************************************************)
EXTENDS UDPSessions

-----------------------------------------------------------------------------
(* The read loop                                                           *)

\* ReadFromUDP returns a datagram.
MainRead(src) ==
  /\ main = "read"
  /\ stop # "closed"
  /\ main' = "lookup"
  /\ mainSrc' = src
  /\ UNCHANGED <<sessions, owner, conn, closeChan, idle, handler, mainSess,
                 reaperVars, stop, deviceUp>>

\* ReadFromUDP fails.  Until Close is asked for that is logged and the loop
\* goes on, which changes nothing.
MainReadError ==
  /\ main = "read"
  /\ stop \in {"marked", "doneClosed"}
  /\ main' = "returned"
  /\ UNCHANGED <<sessions, owner, conn, closeChan, idle, handler, mainSrc,
                 mainSess, reaperVars, stop, deviceUp>>

\* The listener is closed, and says so for ever.
MainReadClosed ==
  /\ main = "read"
  /\ stop = "closed"
  /\ main' = "returned"
  /\ UNCHANGED <<sessions, owner, conn, closeChan, idle, handler, mainSrc,
                 mainSess, reaperVars, stop, deviceUp>>

\* getOrCreateSession, all of it under the lock: the session exists ...
SessionFound ==
  /\ main = "lookup"
  /\ sessions[mainSrc] # NoSession
  /\ Touch(sessions[mainSrc])
  /\ main' = "send"
  /\ mainSess' = sessions[mainSrc]
  /\ UNCHANGED <<sessions, owner, conn, closeChan, handler, mainSrc, reaper, stop,
                 deviceUp>>

\* ... or is created, with its goroutine ...
SessionCreated(s) ==
  /\ main = "lookup"
  /\ sessions[mainSrc] = NoSession
  /\ deviceUp
  /\ Fresh(s)
  /\ sessions' = [sessions EXCEPT ![mainSrc] = s]
  /\ owner' = [owner EXCEPT ![s] = mainSrc]
  /\ conn' = [conn EXCEPT ![s] = "open"]
  /\ closeChan' = [closeChan EXCEPT ![s] = "open"]
  /\ handler' = [handler EXCEPT ![s] = "check"]
  /\ Touch(s)
  /\ main' = "send"
  /\ mainSess' = s
  /\ UNCHANGED <<mainSrc, reaper, stop, deviceUp>>

\* ... or the tunnel cannot be dialled, and the datagram is dropped.
DialFails ==
  /\ main = "lookup"
  /\ sessions[mainSrc] = NoSession
  /\ ReadAgain
  /\ UNCHANGED <<sessions, owner, conn, closeChan, idle, handler, reaperVars, stop,
                 deviceUp>>

getOrCreateSession ==
  \/ SessionFound
  \/ \E s \in Sid : SessionCreated(s)
  \/ DialFails

\* The second touch, without the lock, and the write; whether the write fails
\* makes no difference.
MainSend ==
  /\ main = "send"
  /\ Touch(mainSess)
  /\ ReadAgain
  /\ UNCHANGED <<sessions, owner, conn, closeChan, handler, reaper, stop, deviceUp>>

-----------------------------------------------------------------------------
(* handleRemoteToLocal                                                     *)

\* The select at the top of the loop.
HandlerCheck(s) ==
  /\ handler[s] = "check"
  /\ handler' = [handler EXCEPT ![s] = IF closeChan[s] = "closed" THEN "remove"
                                       ELSE "read"]
  /\ UNCHANGED <<sessions, owner, conn, closeChan, idle, mainVars, reaperVars, stop,
                 deviceUp>>

\* Defect: no read deadline.
HandlerTimeout_Never(s) == FALSE

\* Nothing arrives within the read deadline: the select is tried again.
HandlerTimeout(s) ==
  /\ handler[s] = "read"
  /\ deviceUp
  /\ handler' = [handler EXCEPT ![s] = IF closeChan[s] = "closed" THEN "remove"
                                       ELSE "check"]
  /\ UNCHANGED <<sessions, owner, conn, closeChan, idle, mainVars, reaperVars, stop,
                 deviceUp>>

\* An answer touches the session and is passed to the source; the write may
\* fail, and does once the listener is closed.
HandlerData(s) ==
  /\ handler[s] = "read"
  /\ deviceUp
  /\ Touch(s)
  /\ \E to \in {"check", "remove"} :
       /\ to = "check" => stop # "closed"
       /\ handler' = [handler EXCEPT ![s] = to]
  /\ UNCHANGED <<sessions, owner, conn, closeChan, mainVars, reaper, stop, deviceUp>>

\* Defect: every read error is taken for a timeout.
HandlerReadError_Retries(s) ==
  /\ handler[s] = "read"
  /\ handler' = [handler EXCEPT ![s] = "check"]
  /\ UNCHANGED <<sessions, owner, conn, closeChan, idle, mainVars, reaperVars, stop,
                 deviceUp>>

\* The read fails, as it does when the device takes its sockets along.
HandlerReadError(s) ==
  /\ handler[s] = "read"
  /\ handler' = [handler EXCEPT ![s] = "remove"]
  /\ UNCHANGED <<sessions, owner, conn, closeChan, idle, mainVars, reaperVars, stop,
                 deviceUp>>

\* Defect: a goroutine that ends leaves its session in the table.
HandlerRemove_Skipped(s) ==
  /\ handler[s] = "remove"
  /\ handler' = [handler EXCEPT ![s] = "close"]
  /\ UNCHANGED <<sessions, owner, conn, closeChan, idle, mainVars, reaperVars, stop,
                 deviceUp>>

\* The deferred function: first out of the table ...
HandlerRemove(s) ==
  /\ handler[s] = "remove"
  /\ DropIfCurrent(s)
  /\ handler' = [handler EXCEPT ![s] = "close"]
  /\ UNCHANGED <<owner, conn, idle, mainVars, reaperVars, stop, deviceUp>>

\* Defect: a goroutine that ends does not close its socket.
HandlerClose_Leaks(s) ==
  /\ handler[s] = "close"
  /\ handler' = [handler EXCEPT ![s] = "none"]
  /\ UNCHANGED <<sessions, owner, conn, closeChan, idle, mainVars, reaperVars, stop,
                 deviceUp>>

\* ... then the socket.
HandlerClose(s) ==
  /\ handler[s] = "close"
  /\ conn' = [conn EXCEPT ![s] = "closed"]
  /\ handler' = [handler EXCEPT ![s] = "none"]
  /\ UNCHANGED <<sessions, owner, closeChan, idle, mainVars, reaperVars, stop,
                 deviceUp>>

-----------------------------------------------------------------------------
Next ==
  \/ \E src \in Src : MainRead(src)
  \/ MainReadError
  \/ MainReadClosed
  \/ getOrCreateSession
  \/ MainSend
  \/ \E s \in Sid :
       \/ HandlerCheck(s)
       \/ HandlerTimeout(s)
       \/ HandlerData(s)
       \/ HandlerReadError(s)
       \/ HandlerRemove(s)
       \/ HandlerClose(s)
  \/ Around

Spec == Init /\ [][Next]_vars

\* Goroutines that can go on do, and read deadlines pass.  Nothing says that
\* datagrams arrive, or that anybody calls Close.
Fairness ==
  /\ AroundFairness
  /\ WF_vars(MainReadClosed)
  /\ WF_vars(getOrCreateSession)
  /\ WF_vars(MainSend)
  /\ \A s \in Sid :
       /\ WF_vars(HandlerCheck(s))
       /\ WF_vars(HandlerTimeout(s))
       /\ WF_vars(~deviceUp /\ HandlerReadError(s))
       /\ WF_vars(HandlerRemove(s))
       /\ WF_vars(HandlerClose(s))

FairSpec == Spec /\ Fairness

-----------------------------------------------------------------------------
\* What the table holds works: the session belongs to the source that finds it,
\* its socket is open, it was not told to stop, and its goroutine has not left.
TableIsLive ==
  \A src \in Src : LET s == sessions[src] IN s # NoSession =>
    /\ owner[s] = src
    /\ conn[s] = "open"
    /\ closeChan[s] = "open"
    /\ handler[s] \in {"check", "read", "remove"}

==============================================================================
