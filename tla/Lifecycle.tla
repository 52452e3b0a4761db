------------------------------ MODULE Lifecycle ------------------------------
(***************************************************************************)
(* The RoutineSpawner contract of routine.go: every tunnel or proxy of a   *)
(* configuration is started with Bind, runs in Serve and is stopped with   *)
(* Close.  The application calls Bind and Serve; Close may be called from  *)
(* other goroutines, on paths that overlap.  What a routine does with the  *)
(* connections it accepts is the subject of other modules: accepting one   *)
(* changes nothing here.                                                   *)
(***************************************************************************)

CONSTANTS
  Routine,          \* routines
  Configurations,   \* which of them one Configuration may have
  Closer,           \* the Close calls that may overlap on one routine
  Kind,             \* Kind[r]: which RoutineSpawner implementation r is
  Port,             \* Port[r]: the port r listens on
  StopDuringStart   \* whether Close may overlap or precede Bind

Kinds == {"socks5", "http", "sni", "tcpClient", "stdio",
          "tcpServer", "udpServer", "udpProxy"}

\* Listeners that belong to the tunnel's netstack; the others are host sockets.
OnNetstack == {"tcpServer", "udpServer"}

\* Routines with a done channel, and with a read loop that survives errors.
UDPKinds == {"udpServer", "udpProxy"}

ASSUME LifecycleAssumption ==
  /\ Kind \in [Routine -> Kinds]
  /\ Configurations \subseteq SUBSET Routine
  /\ StopDuringStart \in BOOLEAN

VARIABLES
  bind,      \* progress or result of Bind; "absent" if not configured
  sock,      \* the socket Bind acquired: "none", "open" or "closed"
  listener,  \* whether the listener field of the config is set
  done,      \* the done channel: "nil", "open" or "closed"
  closed,    \* shutdown.closed
  serve,     \* progress or result of Serve
  close,     \* close[r][c]: progress of the Close call c on r
  closeRes,  \* how Close calls on r have ended: "nil", "error", "panic"
  together,  \* together[r]: Close calls on r that have overlapped another
  deviceUp,  \* false once the WireGuard device has been closed
  faulted,   \* routines whose Accept failed with the listener still open
  spun       \* UDP routines that went on reading from a dead socket

vars == <<bind, sock, listener, done, closed, serve, close, closeRes,
          together, deviceUp, faulted, spun>>

bindVars  == <<bind, sock, listener, done>>
closeVars == <<closed, close, closeRes, together>>
serveVars == <<serve, faulted, spun>>

TypeOK ==
  /\ bind \in [Routine -> {"absent", "idle", "acquired", "stored", "ok", "error"}]
  /\ sock \in [Routine -> {"none", "open", "closed"}]
  /\ listener \in [Routine -> BOOLEAN]
  /\ done \in [Routine -> {"nil", "open", "closed"}]
  /\ closed \in [Routine -> BOOLEAN]
  /\ serve \in [Routine -> {"idle", "accept", "nil", "error", "unbound"}]
  /\ close \in [Routine -> [Closer ->
                  {"idle", "checkDone", "closeDone", "closeListener"}]]
  /\ closeRes \in [Routine -> SUBSET {"nil", "error", "panic"}]
  /\ together \in [Routine -> SUBSET Closer]
  /\ deviceUp \in BOOLEAN
  /\ faulted \subseteq Routine
  /\ spun \subseteq Routine

Init ==
  /\ \E configured \in Configurations :
       bind = [r \in Routine |-> IF r \in configured THEN "idle" ELSE "absent"]
  /\ sock = [r \in Routine |-> "none"]
  /\ listener = [r \in Routine |-> FALSE]
  /\ done = [r \in Routine |-> "nil"]
  /\ closed = [r \in Routine |-> FALSE]
  /\ serve = [r \in Routine |-> "idle"]
  /\ close = [r \in Routine |-> [c \in Closer |-> "idle"]]
  /\ closeRes = [r \in Routine |-> {}]
  /\ together = [r \in Routine |-> {}]
  /\ deviceUp = TRUE
  /\ faulted = {}
  /\ spun = {}

\* A panic in any goroutine ends the process.
Crashed == \E r \in Routine : "panic" \in closeRes[r]

-----------------------------------------------------------------------------
(* Bind                                                                    *)

SameEndpoint(q, r) ==
  /\ Port[q] = Port[r]
  /\ Kind[q] \in OnNetstack <=> Kind[r] \in OnNetstack
  /\ Kind[q] \in UDPKinds <=> Kind[r] \in UDPKinds

PortTaken(r) == \E q \in Routine \ {r} : sock[q] = "open" /\ SameEndpoint(q, r)

\* The application binds nothing to a device it has closed and, unless
\* StopDuringStart, nothing that it has closed itself.
MayBind(r) == bind[r] = "idle" /\ deviceUp /\ (StopDuringStart \/ ~closed[r])

\* A target that is not host:port, an address that does not resolve, a
\* certificate that does not load, or a port that is in use, by a routine of
\* this configuration or by another process: any Bind may fail.
BindFails(r) ==
  /\ MayBind(r)
  /\ bind' = [bind EXCEPT ![r] = "error"]
  /\ UNCHANGED <<sock, listener, done, closeVars, serveVars, deviceUp>>

\* The stdio tunnel only parses its target.
BindStdio(r) ==
  /\ MayBind(r)
  /\ Kind[r] = "stdio"
  /\ bind' = [bind EXCEPT ![r] = "ok"]
  /\ UNCHANGED <<sock, listener, done, closeVars, serveVars, deviceUp>>

\* net.Listen and its variants: the socket exists, nothing refers to it yet.
BindListen(r) ==
  /\ MayBind(r)
  /\ Kind[r] # "stdio" /\ ~PortTaken(r)
  /\ bind' = [bind EXCEPT ![r] = "acquired"]
  /\ sock' = [sock EXCEPT ![r] = "open"]
  /\ UNCHANGED <<listener, done, closeVars, serveVars, deviceUp>>

\* conf.listener = listener, after which a TCP routine is bound.
BindStoreListener(r) ==
  /\ bind[r] = "acquired"
  /\ listener' = [listener EXCEPT ![r] = TRUE]
  /\ bind' = [bind EXCEPT ![r] = IF Kind[r] \in UDPKinds THEN "stored" ELSE "ok"]
  /\ UNCHANGED <<sock, done, closeVars, serveVars, deviceUp>>

\* conf.done = make(chan struct{}), in the UDP routines.
BindStoreDone(r) ==
  /\ bind[r] = "stored"
  /\ done' = [done EXCEPT ![r] = "open"]
  /\ bind' = [bind EXCEPT ![r] = "ok"]
  /\ UNCHANGED <<sock, listener, closeVars, serveVars, deviceUp>>

Bind(r) ==
  \/ BindFails(r)
  \/ BindStdio(r)
  \/ BindListen(r)
  \/ BindStoreListener(r)
  \/ BindStoreDone(r)

-----------------------------------------------------------------------------
(* Serve                                                                   *)

\* What a closed listener reports depends on who owns it.
ClosedError(r) == IF Kind[r] \in OnNetstack THEN "InvalidState" ELSE "ErrClosed"

\* Defect: shutdown judged by the error value alone, as before the rework.
closedByUs_ByErrorOnly(r, err) == err = "ErrClosed"

\* Defect: every error of Accept taken for a shutdown.
closedByUs_AnyError(r, err) == TRUE

\* Whether an error is the ordinary consequence of Close.
closedByUs(r, err) == closed[r] \/ err = "ErrClosed"

Bound(r) == IF Kind[r] = "stdio" THEN bind[r] = "ok" ELSE listener[r]

\* Serve is refused before Bind; the stdio tunnel returns at once.
Serve(r) ==
  /\ serve[r] = "idle"
  /\ bind[r] \in {"idle", "ok", "error"}
  /\ serve' = [serve EXCEPT ![r] = IF ~Bound(r) THEN "unbound"
                                   ELSE IF Kind[r] = "stdio" THEN "nil"
                                   ELSE "accept"]
  /\ UNCHANGED <<bindVars, closeVars, faulted, spun, deviceUp>>

\* Defect: the loop takes the error of a closed listener for a passing one.
ServeListenerClosed_GoesOn(r) ==
  /\ serve[r] = "accept"
  /\ sock[r] = "closed"
  /\ spun' = spun \cup {r}
  /\ UNCHANGED <<bindVars, closeVars, serve, faulted, deviceUp>>

\* Defect: the loop waits for packets on a listener that is closed.
ServeListenerClosed_Waits(r) ==
  /\ serve[r] = "accept"
  /\ sock[r] = "closed"
  /\ Kind[r] \notin UDPKinds
  /\ serve' = [serve EXCEPT ![r] = IF closedByUs(r, ClosedError(r)) THEN "nil" ELSE "error"]
  /\ UNCHANGED <<bindVars, closeVars, faulted, spun, deviceUp>>

\* Accept or ReadFrom reports that the listener is closed.
ServeListenerClosed(r) ==
  /\ serve[r] = "accept"
  /\ sock[r] = "closed"
  /\ \/ /\ closedByUs(r, ClosedError(r))
        /\ serve' = [serve EXCEPT ![r] = "nil"]
        /\ UNCHANGED spun
     \/ /\ ~closedByUs(r, ClosedError(r))
        /\ Kind[r] \notin UDPKinds
        /\ serve' = [serve EXCEPT ![r] = "error"]
        /\ UNCHANGED spun
     \/ /\ ~closedByUs(r, ClosedError(r))
        /\ Kind[r] \in UDPKinds
        /\ spun' = spun \cup {r}
        /\ UNCHANGED serve
  /\ UNCHANGED <<bindVars, closeVars, faulted, deviceUp>>

\* Accept fails although the listener is open (no descriptors left, say).  A
\* UDP read loop logs such an error and goes on, which changes nothing.
ServeAcceptFault(r) ==
  /\ serve[r] = "accept"
  /\ sock[r] = "open"
  /\ Kind[r] \notin UDPKinds
  /\ faulted' = faulted \cup {r}
  /\ serve' = [serve EXCEPT ![r] = IF closedByUs(r, "other") THEN "nil" ELSE "error"]
  /\ UNCHANGED <<bindVars, closeVars, spun, deviceUp>>

-----------------------------------------------------------------------------
(* Close                                                                   *)

\* Unless StopDuringStart, Close does not overlap Bind on the same routine.
MayClose(r) ==
  /\ bind[r] # "absent"
  /\ StopDuringStart \/ bind[r] \in {"idle", "ok", "error"}

\* The Close calls under way on r besides c.
OtherCalls(r, c) == {d \in Closer \ {c} : close[r][d] # "idle"}

\* The stdio tunnel's Close does nothing; the others record the intent first.
CloseMark(r, c) ==
  /\ close[r][c] = "idle"
  /\ MayClose(r)
  /\ Kind[r] # "stdio"
  /\ closed' = [closed EXCEPT ![r] = TRUE]
  /\ close' = [close EXCEPT ![r][c] =
                 IF Kind[r] \in UDPKinds THEN "checkDone" ELSE "closeListener"]
  /\ together' = [together EXCEPT ![r] =
                    IF OtherCalls(r, c) = {} THEN @ \ {c}
                    ELSE @ \cup {c} \cup OtherCalls(r, c)]
  /\ UNCHANGED <<bindVars, closeRes, serveVars, deviceUp>>

CloseStdio(r) ==
  /\ Kind[r] = "stdio"
  /\ MayClose(r)
  /\ closeRes' = [closeRes EXCEPT ![r] = @ \cup {"nil"}]
  /\ UNCHANGED <<bindVars, closed, close, together, serveVars, deviceUp>>

\* Defect: Close closes done without looking whether it is closed.
CloseCheckDone_NoSelect(r, c) ==
  /\ close[r][c] = "checkDone"
  /\ close' = [close EXCEPT ![r][c] = IF done[r] = "nil" THEN "closeListener" ELSE "closeDone"]
  /\ UNCHANGED <<bindVars, closed, closeRes, together, serveVars, deviceUp>>

\* if conf.done != nil, the select: its default branch is taken when the
\* channel is open, and the channel is closed in a later step.
CloseCheckDone(r, c) ==
  /\ close[r][c] = "checkDone"
  /\ close' = [close EXCEPT ![r][c] =
                 IF done[r] = "open" THEN "closeDone" ELSE "closeListener"]
  /\ UNCHANGED <<bindVars, closed, closeRes, together, serveVars, deviceUp>>

\* close(conf.done) panics when another Close got there first.
CloseDone(r, c) ==
  /\ close[r][c] = "closeDone"
  /\ \/ /\ done[r] = "open"
        /\ done' = [done EXCEPT ![r] = "closed"]
        /\ close' = [close EXCEPT ![r][c] = "closeListener"]
        /\ UNCHANGED closeRes
     \/ /\ done[r] = "closed"
        /\ closeRes' = [closeRes EXCEPT ![r] = @ \cup {"panic"}]
        /\ close' = [close EXCEPT ![r][c] = "idle"]
        /\ UNCHANGED done
  /\ UNCHANGED <<bind, sock, listener, closed, together, serveVars, deviceUp>>

\* Defect: a second close is reported as the failure the listener says it is.
CloseResults_SecondErrors(r) == IF sock[r] = "closed" THEN {"error"} ELSE {"nil"}

\* What closeListener returns.  A second close is tolerated whoever owns the
\* listener.  The UDP proxy's field is a *net.UDPConn, so that nil in it is not
\* a nil io.Closer: closing it panics or reports EINVAL.
CloseResults(r) ==
  IF Kind[r] = "udpProxy" /\ ~listener[r] THEN {"error", "panic"} ELSE {"nil"}

\* Defect: only a routine whose Serve is running has its listener closed.
closeListener_OnlyServing(r, c) ==
  /\ close[r][c] = "closeListener"
  /\ sock' = [sock EXCEPT ![r] = IF serve[r] = "accept" THEN "closed" ELSE @]
  /\ closeRes' = [closeRes EXCEPT ![r] = @ \cup {"nil"}]
  /\ close' = [close EXCEPT ![r][c] = "idle"]
  /\ UNCHANGED <<bind, listener, done, closed, together, serveVars, deviceUp>>

closeListener(r, c) ==
  /\ close[r][c] = "closeListener"
  /\ sock' = [sock EXCEPT ![r] = IF listener[r] THEN "closed" ELSE @]
  /\ \E res \in CloseResults(r) :
       closeRes' = [closeRes EXCEPT ![r] = @ \cup {res}]
  /\ close' = [close EXCEPT ![r][c] = "idle"]
  /\ UNCHANGED <<bind, listener, done, closed, together, serveVars, deviceUp>>

\* The steps of a Close call after its first.
CloseStep(r, c) ==
  \/ CloseCheckDone(r, c)
  \/ CloseDone(r, c)
  \/ closeListener(r, c)

-----------------------------------------------------------------------------
(* The device: closing it closes every listener on the netstack.  A host   *)
(* that failed partway through its start closes it with routines it never  *)
(* bound.                                                                  *)

DeviceClose ==
  /\ deviceUp
  /\ \A r \in Routine : bind[r] \notin {"acquired", "stored"}
  /\ deviceUp' = FALSE
  /\ sock' = [r \in Routine |-> IF Kind[r] \in OnNetstack /\ sock[r] = "open"
                                THEN "closed" ELSE sock[r]]
  /\ UNCHANGED <<bind, listener, done, closeVars, serveVars>>

Next ==
  /\ ~Crashed
  /\ \/ \E r \in Routine :
          \/ Bind(r)
          \/ Serve(r)
          \/ ServeListenerClosed(r)
          \/ ServeAcceptFault(r)
          \/ CloseStdio(r)
          \/ \E c \in Closer : CloseMark(r, c) \/ CloseStep(r, c)
     \/ DeviceClose

Spec == Init /\ [][Next]_vars

\* A goroutine that has started goes on; nobody has to call anything, and
\* neither faults nor the closing of the device need happen.
Fairness ==
  /\ \A r \in Routine : WF_vars(~Crashed /\ ServeListenerClosed(r))
  /\ \A r \in Routine, c \in Closer : WF_vars(~Crashed /\ CloseStep(r, c))

FairSpec == Spec /\ Fairness

-----------------------------------------------------------------------------
(* Properties                                                              *)

\* Serve reports an error only for a fault: while nothing but Close takes a
\* listener away, stopping a routine never looks like a failure, whichever
\* error its listener reports and however Close and Serve interleave.
ErrorMeansFault ==
  \A r \in Routine : serve[r] = "error" =>
    r \in faulted \/ (~deviceUp /\ Kind[r] \in OnNetstack)

\* Serve of a routine with a listener returns nil only if Close was asked for:
\* a routine that stops by itself is never taken for a deliberate shutdown.
NilMeansAsked ==
  \A r \in Routine : serve[r] = "nil" /\ Kind[r] # "stdio" => closed[r]

\* How a Serve ended tells why it did, so that the application can act on it:
\* an error is a fault, nil is a shutdown somebody asked for.
ServeIsHonest == ErrorMeansFault /\ NilMeansAsked

\* Close gives the port back: once it was asked for, a socket is open only
\* while some Close call on that routine is still on its way to closing it.
ClosedMeansReleased ==
  \A r \in Routine : closed[r] /\ sock[r] = "open" =>
    \E c \in Closer : close[r][c] # "idle"

\* Close is idempotent: a call that overlaps no other returns nil, whether it is
\* the first or the tenth, comes before, during or after Serve, and whether or
\* not the device has closed the listener before it.  It does so before Bind
\* too, but for the UDP proxy.
SerialCloseIsHarmless ==
  [][\A r \in Routine, c \in Closer :
       /\ close[r][c] # "idle" /\ close'[r][c] = "idle"
       /\ c \notin together[r]
       /\ bind[r] = "ok" \/ Kind[r] # "udpProxy"
       => closeRes'[r] \subseteq closeRes[r] \cup {"nil"}]_vars

\* Close is harmless on r: no call panics and none fails.
Harmless(r) == closeRes[r] \subseteq {"nil"}


\* Close makes a running Serve return nil.
CloseStopsServe ==
  \A r \in Routine :
    closed[r] /\ serve[r] = "accept" ~> serve[r] = "nil" \/ Crashed

\* Serve returns "an error for anything else": a TCP tunnel on the netstack whose
\* device is closed does not go on waiting for connections that cannot come.
DeviceEndsServe ==
  \A r \in Routine : Kind[r] = "tcpServer" =>
    (~deviceUp /\ serve[r] = "accept" ~> serve[r] \in {"nil", "error"} \/ Crashed)

==============================================================================
