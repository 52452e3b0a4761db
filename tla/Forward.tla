------------------------------- MODULE Forward -------------------------------
(***************************************************************************)
(* One connection of a routine that forwards TCP: a TCP client tunnel, a   *)
(* TCP server tunnel, the stdio tunnel (routine.go), the HTTP proxy        *)
(* (http.go) or the SNI proxy (sni.go).  A goroutine sets the connection   *)
(* up and dials the peer, then two goroutines copy, one in each direction, *)
(* until one of them ends and closes both sides.                           *)
(*                                                                         *)
(* What an end sends is numbered in chunks.  The first chunk of a client   *)
(* of the HTTP proxy is its request, the first of one of the SNI proxy its *)
(* ClientHello.                                                            *)
(***************************************************************************)
EXTENDS Naturals

CONSTANT MaxSent   \* how many chunks each end may send

ASSUME ForwardAssumption == MaxSent \in Nat

Kinds == {"tcpClient", "tcpServer", "stdio", "http", "sni"}
End   == {"client", "peer"}

\* What the goroutines read from, write to and close.  Only the stdio tunnel
\* writes to something ("out") other than what it reads from ("client").
Conn == {"client", "out", "peer"}

VARIABLES
  kind,     \* which routine forwards the connection
  stage,    \* how far it is set up: "read", "resolve", "dial", "connected",
            \* "relay", or "failed"
  request,  \* the request an HTTP client has sent
  conn,     \* conn[c]: "none", "open" or "closed" on our side
  remote,   \* remote[c]: the other side is "open", has sent "eof", is "gone"
  sent,     \* sent[e]: chunks that end e has sent
  taken,    \* taken[e]: chunks that were read from the connection to e
  peeked,   \* chunks the set-up goroutine took from the client
  deadline, \* whether a read deadline is set on the client's connection
  pump,     \* pump[e]: the goroutine that copies from e to the other end
  held,     \* held[e]: the chunk it has read
  got       \* got[e]: the last chunk of e that went out to the other end

vars == <<kind, stage, request, conn, remote, sent, taken, peeked, deadline,
          pump, held, got>>

setupVars == <<kind, stage, request, peeked, deadline>>

\* The header of a request that has to do with authentication.
Auths == {"absent", "notBase64", "noColon", "wrong", "right"}

NoRequest == [method |-> "none", auth |-> "absent"]

TypeOK ==
  /\ kind \in Kinds
  /\ stage \in {"read", "resolve", "dial", "connected", "relay", "failed"}
  /\ request \in [method : {"none", "CONNECT", "GET", "other"}, auth : Auths]
  /\ conn \in [Conn -> {"none", "open", "closed"}]
  /\ remote \in [Conn -> {"open", "eof", "gone"}]
  /\ sent \in [End -> 0..MaxSent]
  /\ taken \in [End -> 0..MaxSent]
  /\ peeked \in 0..MaxSent
  /\ deadline \in BOOLEAN
  /\ pump \in [End -> {"off", "read", "write", "close", "close2", "done"}]
  /\ held \in [End -> 0..MaxSent]
  /\ got \in [End -> 0..MaxSent]

\* The connection has been accepted; the stdio tunnel has its two files.
Init ==
  /\ kind \in Kinds
  /\ stage = IF kind \in {"http", "sni"} THEN "read" ELSE "resolve"
  /\ request = NoRequest
  /\ conn = [c \in Conn |->
               IF c = "client" \/ (c = "out" /\ kind = "stdio") THEN "open" ELSE "none"]
  /\ remote = [c \in Conn |-> "open"]
  /\ sent = [e \in End |-> 0]
  /\ taken = [e \in End |-> 0]
  /\ peeked = 0
  /\ deadline = (kind = "sni")
  /\ pump = [e \in End |-> "off"]
  /\ held = [e \in End |-> 0]
  /\ got = [e \in End |-> 0]

-----------------------------------------------------------------------------
(* The ends                                                                *)

Send(e) ==
  /\ conn[e] = "open" /\ remote[e] = "open"
  /\ sent[e] < MaxSent
  /\ sent' = [sent EXCEPT ![e] = @ + 1]
  /\ UNCHANGED <<setupVars, conn, remote, taken, pump, held, got>>

\* An end sends no more but may still receive.
SendEof(e) ==
  /\ conn[e] = "open" /\ remote[e] = "open"
  /\ remote' = [remote EXCEPT ![e] = "eof"]
  /\ UNCHANGED <<setupVars, conn, sent, taken, pump, held, got>>

\* A side goes away: a reset, an interface that goes down, a reader of the
\* standard output that ends, a device that is closed.
Vanish(c) ==
  /\ conn[c] = "open" /\ remote[c] # "gone"
  /\ remote' = [remote EXCEPT ![c] = "gone"]
  /\ UNCHANGED <<setupVars, conn, sent, taken, pump, held, got>>

-----------------------------------------------------------------------------
(* Setting up                                                              *)

\* resolveToAddrPort of the TCP tunnels.
Resolve ==
  /\ stage = "resolve"
  /\ stage' \in {"dial", "failed"}
  /\ UNCHANGED <<kind, request, conn, remote, sent, taken, peeked, deadline, pump,
                 held, got>>

\* Defect: the SNI proxy leaves the connection it gives up.
Fail_LeavesOpen ==
  /\ stage' = "failed"
  /\ UNCHANGED conn

\* The goroutine gives up.  Only sniServe closes the client's connection.
Fail ==
  /\ stage' = "failed"
  /\ conn' = IF kind = "sni" THEN [conn EXCEPT !["client"] = "closed"] ELSE conn

\* The client's first chunk has been read, and what came with it.
Peek(n) ==
  /\ stage = "read"
  /\ n \in 1..sent["client"]
  /\ taken' = [taken EXCEPT !["client"] = n]
  /\ peeked' = n

\* authenticate: the status that refuses a request, or 0.
authenticate(required, auth) ==
  IF ~required THEN 0 ELSE
  CASE auth = "absent"     -> 407
    [] auth = "notBase64"  -> 406
    [] auth = "noColon"    -> 411
    [] auth = "wrong"      -> 401
    [] auth = "right"      -> 0

\* serve: the request is refused with a reply, or the peer is to be dialled.
ReadRequest(n, req, required) ==
  /\ kind = "http"
  /\ Peek(n)
  /\ request' = req
  /\ \/ /\ authenticate(required, req.auth) # 0 \/ req.method = "other"
        /\ Fail
     \/ /\ authenticate(required, req.auth) = 0 /\ req.method # "other"
        /\ stage' = "dial"
        /\ UNCHANGED conn
  /\ UNCHANGED <<kind, remote, sent, deadline, pump, held, got>>

\* Defect: the deadline is left on.
PeekClientHello_Deadline(n) ==
  /\ kind = "sni"
  /\ Peek(n)
  /\ stage' = "dial"
  /\ UNCHANGED <<kind, request, conn, remote, sent, deadline, pump, held, got>>

\* sniProxyForward: peekClientHello finds a host name.
PeekClientHello(n) ==
  /\ kind = "sni"
  /\ Peek(n)
  /\ stage' = "dial"
  /\ deadline' = FALSE
  /\ UNCHANGED <<kind, request, conn, remote, sent, pump, held, got>>

\* What was read is not a request, or no ClientHello with a host name; or the
\* client ends or is gone; or, in the SNI proxy, five seconds have passed.
ReadFails ==
  /\ stage = "read"
  /\ sent["client"] > 0 \/ remote["client"] # "open" \/ deadline
  /\ Fail
  /\ UNCHANGED <<kind, request, remote, sent, taken, peeked, deadline, pump, held, got>>

DialFails ==
  /\ stage = "dial"
  /\ Fail
  /\ UNCHANGED <<kind, request, remote, sent, taken, peeked, deadline, pump, held, got>>

StartPumps ==
  /\ stage' = "relay"
  /\ pump' = [e \in End |-> "read"]

\* The peer is dialled, and the HTTP proxy has something to write first.
Dial ==
  /\ stage = "dial"
  /\ conn' = [conn EXCEPT !["peer"] = "open"]
  /\ \/ kind = "http" /\ stage' = "connected" /\ UNCHANGED pump
     \/ kind # "http" /\ StartPumps
  /\ UNCHANGED <<kind, request, remote, sent, taken, peeked, deadline, held, got>>

\* Where the HTTP proxy writes then: handleConn answers the client, handle
\* passes the request on.
FirstWrite == IF request.method = "CONNECT" THEN "client" ELSE "peer"

\* Either way the request has been dealt with.
Connected ==
  /\ stage = "connected"
  /\ remote[FirstWrite] # "gone"
  /\ StartPumps
  /\ got' = [got EXCEPT !["client"] = 1]
  /\ UNCHANGED <<kind, request, conn, remote, sent, taken, peeked, deadline, held>>

\* Defect: a peer that was dialled in vain is left open.
ConnectedFails_Leaks ==
  /\ stage = "connected"
  /\ remote[FirstWrite] # "open"
  /\ stage' = "failed"
  /\ UNCHANGED <<kind, request, conn, remote, sent, taken, peeked, deadline, pump, held,
                 got>>

\* The write fails: the peer is closed, the client is not.
ConnectedFails ==
  /\ stage = "connected"
  /\ remote[FirstWrite] # "open"
  /\ stage' = "failed"
  /\ conn' = [conn EXCEPT !["peer"] = "closed"]
  /\ UNCHANGED <<kind, request, remote, sent, taken, peeked, deadline, pump, held, got>>

-----------------------------------------------------------------------------
(* Copying: connForward, and the two goroutines of the HTTP proxy          *)

Sink(e) == IF e = "client" THEN "peer" ELSE IF kind = "stdio" THEN "out" ELSE "client"

\* Defect: the SNI proxy relays the connection and not what wraps it.
Replays_Raw(e) == FALSE

\* The reader of wrappedConn: first the bytes that were peeked at.
Replays(e) == kind = "sni" /\ e = "client" /\ got[e] < peeked

\* Defect: a chunk that comes with the end of the stream is not looked at.
PumpRead_ErrorFirst(e) ==
  /\ pump[e] = "read"
  /\ ~Replays(e)
  /\ conn[e] = "open" /\ taken[e] < sent[e]
  /\ taken' = [taken EXCEPT ![e] = @ + 1]
  /\ held' = [held EXCEPT ![e] = taken[e] + 1]
  /\ pump' = [pump EXCEPT ![e] =
       IF remote[e] = "eof" /\ taken[e] + 1 = sent[e] THEN "close" ELSE "write"]
  /\ UNCHANGED <<setupVars, conn, remote, sent, got>>

PumpRead(e) ==
  /\ pump[e] = "read"
  /\ \/ /\ Replays(e)
        /\ held' = [held EXCEPT ![e] = got[e] + 1]
        /\ UNCHANGED taken
     \/ /\ ~Replays(e)
        /\ conn[e] = "open" /\ taken[e] < sent[e]
        /\ held' = [held EXCEPT ![e] = taken[e] + 1]
        /\ taken' = [taken EXCEPT ![e] = @ + 1]
  /\ pump' = [pump EXCEPT ![e] = "write"]
  /\ UNCHANGED <<setupVars, conn, remote, sent, got>>

PumpEof(e) ==
  /\ pump[e] = "read"
  /\ ~Replays(e)
  /\ conn[e] = "open" /\ taken[e] = sent[e] /\ remote[e] = "eof"
  /\ pump' = [pump EXCEPT ![e] = "close"]
  /\ UNCHANGED <<setupVars, conn, remote, sent, taken, held, got>>

\* The other goroutine has closed the connection, or the end is gone.
PumpReadFails(e) ==
  /\ pump[e] = "read"
  /\ ~Replays(e)
  /\ conn[e] = "closed" \/ remote[e] = "gone" \/ (e = "client" /\ deadline)
  /\ pump' = [pump EXCEPT ![e] = "close"]
  /\ UNCHANGED <<setupVars, conn, remote, sent, taken, held, got>>

PumpWrite(e) ==
  /\ pump[e] = "write"
  /\ conn[Sink(e)] = "open" /\ remote[Sink(e)] # "gone"
  /\ got' = [got EXCEPT ![e] = held[e]]
  /\ pump' = [pump EXCEPT ![e] = "read"]
  /\ UNCHANGED <<setupVars, conn, remote, sent, taken, held>>

\* Defect: a write that fails is tried again.
PumpWriteFails_Retries(e) ==
  /\ pump[e] = "write"
  /\ conn[Sink(e)] = "closed" \/ remote[Sink(e)] # "open"
  /\ UNCHANGED vars

PumpWriteFails(e) ==
  /\ pump[e] = "write"
  /\ conn[Sink(e)] = "closed" \/ remote[Sink(e)] # "open"
  /\ pump' = [pump EXCEPT ![e] = "close"]
  /\ UNCHANGED <<setupVars, conn, remote, sent, taken, held, got>>

\* Defect: a goroutine closes what it wrote to, and leaves the rest.
Closing_OnlySink(e) == Sink(e)

\* The deferred calls run last to first: connForward closes what it wrote to
\* and then what it read from, the HTTP proxy the peer and then the client.
Closing(e) ==
  LET first  == IF kind = "http" THEN "peer" ELSE Sink(e)
      second == IF first = e THEN Sink(e) ELSE e
  IN IF pump[e] = "close" THEN first ELSE second

PumpClose(e) ==
  /\ pump[e] \in {"close", "close2"}
  /\ conn' = [conn EXCEPT ![Closing(e)] = "closed"]
  /\ pump' = [pump EXCEPT ![e] = IF @ = "close" THEN "close2" ELSE "done"]
  /\ UNCHANGED <<setupVars, remote, sent, taken, held, got>>

Pump(e) ==
  \/ PumpRead(e)
  \/ PumpEof(e)
  \/ PumpReadFails(e)
  \/ PumpWrite(e)
  \/ PumpWriteFails(e)
  \/ PumpClose(e)

-----------------------------------------------------------------------------
Next ==
  \/ \E e \in End : Send(e) \/ SendEof(e) \/ Pump(e)
  \/ \E c \in Conn : Vanish(c)
  \/ Resolve
  \/ \E n \in 1..MaxSent :
       \/ PeekClientHello(n)
       \/ \E m \in {"CONNECT", "GET", "other"}, a \in Auths, required \in BOOLEAN :
            ReadRequest(n, [method |-> m, auth |-> a], required)
  \/ ReadFails
  \/ DialFails
  \/ Dial
  \/ Connected
  \/ ConnectedFails

Spec == Init /\ [][Next]_vars

\* A goroutine that can go on does.  Ends need not do anything.
FairSpec == Spec /\ \A e \in End : WF_vars(Pump(e))

-----------------------------------------------------------------------------
(* Properties                                                              *)

\* Every side of the relay that its goroutines close.  The standard input is
\* left to the goroutine that reads it.
AllClosed == conn["peer"] = "closed" /\ conn[Sink("peer")] = "closed"

\* The reader of the HTTP request took more than the request from the client.
Buffered == kind = "http" /\ peeked > 1

Phase ==
  CASE stage = "failed" -> "refused"
    [] stage = "relay"  -> IF AllClosed THEN "down"
                           ELSE IF \E c \in Conn : conn[c] = "closed" THEN "closing"
                           ELSE "up"
    [] OTHER            -> "new"

P == INSTANCE Pipe WITH phase <- Phase, lossy <- Buffered,
       ended <- \E c \in Conn : remote[c] # "open"

\* Whatever the routine, what it does with a connection is a pipe: the chunks
\* the SNI proxy peeked at come first and once, no chunk overtakes another, only
\* what a client of the HTTP proxy sends together with its request is lost, and
\* a connection that was established is closed only after an end has ended, not
\* because of a deadline left over from setting up.
IsPipe == P!Spec

\* If a stream ends before anything else goes wrong, all of it has gone out
\* before the goroutine that copies it closes anything.
EofIsComplete ==
  \A e \in End :
    /\ pump[e] = "close" /\ remote[e] = "eof" /\ ~Buffered
    /\ \A c \in Conn : remote[c] # "gone" /\ conn[c] # "closed"
    /\ \A c \in Conn \ {e} : remote[c] = "open"
    => got[e] = sent[e]

\* The peer's connection is open only while somebody is there to close it; a
\* client whose connection could not be forwarded is left open by the TCP
\* tunnels and the HTTP proxy, never by the SNI proxy.
OpenIsOwned ==
  \A c \in Conn : conn[c] = "open" =>
    \/ stage \notin {"relay", "failed"}
    \/ stage = "failed" /\ c # "peer" /\ kind # "sni"
    \/ \E e \in End : pump[e] \notin {"off", "done"} /\ c \in {e, Sink(e)}

\* When one direction ends, both sides are closed and both goroutines end; the
\* goroutine that waits for standard input goes on waiting.
EndsTogether ==
  (\E e \in End : pump[e] = "close") ~>
    /\ AllClosed
    /\ pump["peer"] = "done"
    /\ kind # "stdio" => conn["client"] = "closed" /\ pump["client"] = "done"

==============================================================================
