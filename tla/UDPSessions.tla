----------------------------- MODULE UDPSessions -----------------------------
(***************************************************************************)
(* What the two UDP routines share: a table of sessions keyed by source    *)
(* address, each with a socket of its own and a goroutine that reads from  *)
(* it, a reaper of inactive sessions, and the steps of Close.  UDPProxy    *)
(* and UDPServer add the read loop of Serve and the session goroutines,    *)
(* which differ in what they lock and in the order they let go of things.  *)
(*                                                                         *)
(* Time is abstracted to what the code asks of it: whether a session has   *)
(* been inactive for InactivityTimeout.                                    *)
(***************************************************************************)

CONSTANTS
  Src,        \* source addresses
  Sid,        \* session objects; a finished one may be allocated again
  NoSession,  \* the nil session
  Reaping     \* InactivityTimeout > 0

ASSUME SessionsAssumption ==
  /\ NoSession \notin Sid
  /\ Src # {}
  /\ Reaping \in BOOLEAN

VARIABLES
  sessions,   \* the table: sessions[src] is a session or NoSession
  owner,      \* the source address a session's goroutine was started for
  conn,       \* the session's socket: "open" or "closed"
  closeChan,  \* the session's closeChan: "open" or "closed"
  idle,       \* sessions not active for InactivityTimeout
  handler,    \* the session's goroutine
  main,       \* the read loop of Serve
  mainSrc,    \* the source of the datagram it is handling
  mainSess,   \* the session it has in hand
  reaper,     \* the reaper goroutine
  expired,    \* sessions inactive at the time the reaper took as now
  stop,       \* how far Close has come
  deviceUp    \* false once the WireGuard device has been closed

vars == <<sessions, owner, conn, closeChan, idle, handler, main, mainSrc,
          mainSess, reaper, expired, stop, deviceUp>>

mainVars    == <<main, mainSrc, mainSess>>
reaperVars  == <<reaper, expired>>
processVars == <<handler, mainVars, reaper, stop, deviceUp>>

TypeOK ==
  /\ sessions \in [Src -> Sid \cup {NoSession}]
  /\ owner \in [Sid -> Src]
  /\ conn \in [Sid -> {"open", "closed"}]
  /\ closeChan \in [Sid -> {"open", "closed"}]
  /\ idle \subseteq Sid
  /\ handler \in [Sid -> {"none", "check", "read", "remove", "close"}]
  /\ main \in {"read", "lookup", "dial", "insert", "send", "returned"}
  /\ mainSrc \in Src
  /\ mainSess \in Sid \cup {NoSession}
  /\ main \in {"insert", "send"} => mainSess # NoSession
  /\ reaper \in {"off", "wait", "sweep", "exited"}
  /\ expired \subseteq Sid
  /\ stop \in {"running", "marked", "doneClosed", "closed"}
  /\ deviceUp \in BOOLEAN

\* The value of an address nobody reads.
AnySrc == CHOOSE src \in Src : TRUE

\* Serve has just been called on a routine that is bound.
Init ==
  /\ sessions = [src \in Src |-> NoSession]
  /\ owner = [s \in Sid |-> AnySrc]
  /\ conn = [s \in Sid |-> "closed"]
  /\ closeChan = [s \in Sid |-> "closed"]
  /\ idle = {}
  /\ handler = [s \in Sid |-> "none"]
  /\ main = "read"
  /\ mainSrc = AnySrc
  /\ mainSess = NoSession
  /\ reaper = IF Reaping THEN "wait" ELSE "off"
  /\ expired = {}
  /\ stop = "running"
  /\ deviceUp = TRUE

InTable(s) == \E src \in Src : sessions[src] = s

\* A session object nobody refers to, which the next allocation may return.
Fresh(s) == handler[s] = "none" /\ ~InTable(s) /\ mainSess # s

\* The read loop goes back to its read, with nothing in hand.
ReadAgain ==
  /\ main' = "read"
  /\ mainSrc' = AnySrc
  /\ mainSess' = NoSession

-----------------------------------------------------------------------------
(* The pieces of a session's life that both routines have                  *)

\* Defect: a sweep that has begun does not see the session's new time.
Touch_NotNewer(s) ==
  /\ idle' = idle \ {s}
  /\ UNCHANGED expired

\* lastActive = time.Now().  A time the reaper took earlier is before it.
Touch(s) ==
  /\ idle' = idle \ {s}
  /\ expired' = expired \ {s}

\* InactivityTimeout passes without anything touching the session.
GoIdle(s) ==
  /\ Reaping
  /\ InTable(s)
  /\ s \notin idle
  /\ idle' = idle \cup {s}
  /\ UNCHANGED <<sessions, owner, conn, closeChan, expired, processVars>>

\* Defect: whatever session the source has now is dropped.
DropIfCurrent_Any(s) ==
  IF sessions[owner[s]] # NoSession
  THEN /\ closeChan' = [closeChan EXCEPT ![sessions[owner[s]]] = "closed"]
       /\ sessions' = [sessions EXCEPT ![owner[s]] = NoSession]
  ELSE UNCHANGED <<closeChan, sessions>>

\* removeSession and closeSession: only if the table still has this session.
DropIfCurrent(s) ==
  IF sessions[owner[s]] = s
  THEN /\ closeChan' = [closeChan EXCEPT ![s] = "closed"]
       /\ sessions' = [sessions EXCEPT ![owner[s]] = NoSession]
  ELSE UNCHANGED <<closeChan, sessions>>

-----------------------------------------------------------------------------
(* The reaper                                                              *)

\* case <-ticker.C, and now := time.Now().
ReaperWake ==
  /\ reaper = "wait"
  /\ reaper' = "sweep"
  /\ expired' = idle
  /\ UNCHANGED <<sessions, owner, conn, closeChan, idle, handler, mainVars, stop,
                 deviceUp>>

\* Defect: the reaper deletes sessions and does not tell their goroutines.
ReaperSweep_NoSignal ==
  /\ reaper = "sweep"
  /\ reaper' = "wait"
  /\ sessions' = [src \in Src |-> IF sessions[src] \in expired
                                  THEN NoSession ELSE sessions[src]]
  /\ expired' = {}
  /\ UNCHANGED <<owner, conn, closeChan, idle, handler, mainVars, stop, deviceUp>>

\* Defect: the reaper goroutine sweeps once and returns.
ReaperSweep_Once ==
  /\ reaper = "sweep"
  /\ reaper' = "exited"
  /\ closeChan' = [s \in Sid |-> IF InTable(s) /\ s \in expired
                                 THEN "closed" ELSE closeChan[s]]
  /\ sessions' = [src \in Src |-> IF sessions[src] \in expired
                                  THEN NoSession ELSE sessions[src]]
  /\ expired' = {}
  /\ UNCHANGED <<owner, conn, idle, handler, mainVars, stop, deviceUp>>

\* The loop over the table, under the lock.
ReaperSweep ==
  /\ reaper = "sweep"
  /\ reaper' = "wait"
  /\ closeChan' = [s \in Sid |-> IF InTable(s) /\ s \in expired
                                 THEN "closed" ELSE closeChan[s]]
  /\ sessions' = [src \in Src |-> IF sessions[src] \in expired
                                  THEN NoSession ELSE sessions[src]]
  /\ expired' = {}
  /\ UNCHANGED <<owner, conn, idle, handler, mainVars, stop, deviceUp>>

\* Defect: the reaper does not look at done.
ReaperExit_Never == FALSE

\* case <-conf.done.
ReaperExit ==
  /\ reaper = "wait"
  /\ stop \in {"doneClosed", "closed"}
  /\ reaper' = "exited"
  /\ UNCHANGED <<sessions, owner, conn, closeChan, idle, handler, mainVars,
                 expired, stop, deviceUp>>

-----------------------------------------------------------------------------
(* Close, called once, and the closing of the device                       *)

CloseMark ==
  /\ stop = "running"
  /\ stop' = "marked"
  /\ UNCHANGED <<sessions, owner, conn, closeChan, idle, handler, mainVars,
                 reaperVars, deviceUp>>

\* close(conf.done), then the listener.
CloseNext ==
  /\ stop \in {"marked", "doneClosed"}
  /\ stop' = IF stop = "marked" THEN "doneClosed" ELSE "closed"
  /\ UNCHANGED <<sessions, owner, conn, closeChan, idle, handler, mainVars,
                 reaperVars, deviceUp>>

DeviceClose ==
  /\ deviceUp
  /\ deviceUp' = FALSE
  /\ UNCHANGED <<sessions, owner, conn, closeChan, idle, handler, mainVars,
                 reaperVars, stop>>

\* The steps that neither the read loop nor a session's goroutine takes.
Around ==
  \/ \E s \in Sid : GoIdle(s)
  \/ ReaperWake
  \/ ReaperSweep
  \/ ReaperExit
  \/ CloseMark
  \/ CloseNext
  \/ DeviceClose

\* The ticker ticks, an unlocked mutex is acquired, Close once called goes on.
\* The select of the reaper chooses at random among the ready cases, so that
\* it does not choose the ticker for ever once done is closed.
AroundFairness ==
  /\ WF_vars(ReaperWake)
  /\ WF_vars(ReaperSweep)
  /\ SF_vars(ReaperExit)
  /\ WF_vars(CloseNext)

-----------------------------------------------------------------------------
(* Properties of both routines                                             *)

\* No orphan: a session whose goroutine is at work and was not told to stop is
\* the one its source finds in the table.  One that is not there would be out
\* of the reaper's reach for good, and its source would have a second socket.
LiveIsInTable ==
  \A s \in Sid :
    handler[s] \in {"check", "read"} /\ closeChan[s] = "open"
      => sessions[owner[s]] = s

\* A socket is open only while a goroutine is there to close it, or Serve is
\* about to start one.
SocketIsOwned ==
  \A s \in Sid : conn[s] = "open" =>
    handler[s] # "none" \/ (main = "insert" /\ mainSess = s)

\* Nothing is left behind that nobody would end.
NoOrphans == LiveIsInTable /\ SocketIsOwned

\* How far the life of a session as an association has come.
Life ==
  [s \in Sid |->
     IF handler[s] = "none" THEN "free"
     ELSE IF closeChan[s] = "closed" THEN "over"
     ELSE IF handler[s] \in {"check", "read"} THEN "live"
     ELSE "failed"]

\* Sessions of the table the next sweep will find inactive.
Quiet == {s \in idle : InTable(s)}

\* The datagram the read loop is about to write, and the session it looked up.
Hand == IF main = "send" THEN <<mainSrc, mainSess>> ELSE <<>>

Assoc == INSTANCE Associations
  WITH table <- sessions, life <- Life, home <- owner, quiet <- Quiet, hand <- Hand

\* The routine keeps associations as Associations promises, though a lookup, the
\* datagram that follows it, the sweep, and the end of a session's goroutine are
\* steps of different goroutines with others in between.
KeepsAssociations == Assoc!Spec

\* A session that is told to stop lets go of its socket.
DroppedIsReleased ==
  \A s \in Sid : conn[s] = "open" /\ closeChan[s] = "closed" ~> conn[s] = "closed"

\* An inactive session is dropped, unless it is used again or Serve is stopped.
IdleIsReaped ==
  \A s \in Sid :
    InTable(s) /\ s \in idle ~> ~InTable(s) \/ s \notin idle \/ stop # "running"

\* Inactivity ends with the socket closed: the reaper drops the session, and
\* what is dropped is released.
IdleIsReleased == IdleIsReaped /\ DroppedIsReleased

\* Close ends the read loop and the reaper.
CloseStopsServe ==
  stop = "closed" ~> main = "returned" /\ reaper \in {"off", "exited"}

\* Close leaves neither read loop nor reaper, and once the device is gone too, no
\* goroutine and no socket of a session.
StopLeavesNothing ==
  /\ CloseStopsServe
  /\ stop = "closed" /\ ~deviceUp ~>
       \A s \in Sid : handler[s] = "none" /\ conn[s] = "closed"

==============================================================================
