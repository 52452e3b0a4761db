---------------------------- MODULE ForwardProofs ----------------------------
(***************************************************************************)
(* Proofs that a forwarded connection is a pipe, for every routine and any *)
(* number of chunks: Forward implements Pipe, whole streams go out before  *)
(* they are closed, and no connection is left without a goroutine that     *)
(* closes it.                                                              *)
(***************************************************************************)
EXTENDS Forward, TLAPS

Opening == {"read", "resolve", "dial", "connected"}

\* An end has ended its stream or has gone.
Ended == \E c \in Conn : remote[c] # "open"

\* Before the goroutines start nothing has gone out or been closed.
SetupInv ==
  /\ stage \in Opening =>
       /\ \A e \in End : got[e] = 0
       /\ taken["peer"] = 0 /\ taken["client"] = peeked
       /\ \A c \in Conn : conn[c] # "closed"
       /\ stage # "connected" => conn["peer"] = "none"
  /\ stage = "read" => peeked = 0
  /\ stage = "resolve" => kind \notin {"http", "sni"}
  /\ stage = "connected" => kind = "http"
  /\ stage \in {"dial", "connected"} /\ kind = "http" => peeked >= 1
  /\ kind \notin {"http", "sni"} => peeked = 0
  /\ kind # "stdio" => conn["out"] = "none"
  /\ deadline => kind = "sni" /\ stage \in {"read", "failed"}
  /\ \A e \in End : pump[e] = "off" <=> stage # "relay"

\* Chunk n is the last one that has been read, or one the SNI proxy replays.
Track(e, n) ==
  \/ Buffered
  \/ taken[e] = n
  \/ kind = "sni" /\ e = "client" /\ n < peeked /\ taken[e] = peeked

\* How far a goroutine is in its stream.
CountInv ==
  /\ peeked <= taken["client"]
  /\ \A e \in End :
       /\ got[e] <= taken[e] /\ taken[e] <= sent[e]
       /\ pump[e] = "read" => Track(e, got[e])
       /\ pump[e] = "write" => /\ got[e] < held[e] /\ held[e] <= taken[e]
                               /\ ~Buffered => held[e] = got[e] + 1
                               /\ Track(e, held[e])

First(e) == IF kind = "http" THEN "peer" ELSE Sink(e)

\* Nothing is closed without a reason, and who has closed has closed both.
CloseInv ==
  /\ stage = "relay" => \A c \in Conn : conn[c] = "closed" => Ended
  /\ \A e \in End :
       /\ pump[e] \in {"close", "close2", "done"} => Ended
       /\ pump[e] = "close2" => conn[First(e)] = "closed"
       /\ pump[e] = "done" => conn[e] = "closed" /\ conn[Sink(e)] = "closed"
  /\ stage = "failed" => /\ conn["peer"] # "open"
                         /\ kind = "sni" => conn["client"] = "closed"

Inv == TypeOK /\ SetupInv /\ CountInv /\ CloseInv

-----------------------------------------------------------------------------

LEMMA InitInv == Init => Inv
<1> SUFFICES ASSUME Init
             PROVE  Inv
  OBVIOUS
<1>1. TypeOK
  BY ForwardAssumption DEF Init, TypeOK, Kinds, End, NoRequest, Auths
<1>2. SetupInv
  BY DEF Init, SetupInv, Opening, Kinds, End, Conn
<1>3. CountInv
  BY DEF Init, CountInv, End
<1>4. CloseInv
  BY DEF Init, CloseInv
<1> QED
  BY <1>1, <1>2, <1>3, <1>4 DEF Inv

LEMMA EndsInv ==
  ASSUME Inv, NEW e \in Conn,
         \/ e \in End /\ (Send(e) \/ SendEof(e))
         \/ Vanish(e)
  PROVE  Inv'
<1> USE ForwardAssumption DEF Inv, setupVars, End, Conn
<1>1. UNCHANGED <<setupVars, conn, taken, pump, held, got>>
  BY DEF Send, SendEof, Vanish
<1>2. TypeOK'
  <2>1. remote' \in [Conn -> {"open", "eof", "gone"}]
    BY DEF Send, SendEof, Vanish, TypeOK
  <2>2. sent' \in [End -> 0..MaxSent]
    BY DEF Send, SendEof, Vanish, TypeOK
  <2> QED
    BY <1>1, <2>1, <2>2 DEF TypeOK
<1>3. SetupInv'
  BY <1>1 DEF SetupInv
<1>4. CountInv'
  <2>1. \A d \in End : sent'[d] >= sent[d]
    BY DEF Send, SendEof, Vanish, TypeOK
  <2> QED
    BY <1>1, <1>2, <2>1 DEF CountInv, Track, Buffered, TypeOK
<1>5. CloseInv'
  <2>1. Ended => Ended'
    BY DEF Send, SendEof, Vanish, TypeOK, Ended
  <2> QED
    BY <1>1, <2>1 DEF CloseInv, First, Sink
<1> QED
  BY <1>2, <1>3, <1>4, <1>5

\* Giving up before the goroutines start.
LEMMA FailInv ==
  ASSUME Inv, Resolve \/ ReadFails \/ DialFails \/ ConnectedFails
  PROVE  Inv'
<1> USE DEF Inv
<1>1. /\ stage \in Opening
      /\ UNCHANGED <<kind, request, remote, sent, taken, peeked, deadline, pump, held, got>>
  BY DEF Resolve, ReadFails, DialFails, ConnectedFails, Opening
<1>2. \/ stage' = "failed"
      \/ Resolve /\ stage' = "dial" /\ UNCHANGED conn
  BY DEF Resolve, ReadFails, DialFails, ConnectedFails, Fail
<1>3. /\ conn' \in [Conn -> {"none", "open", "closed"}]
      /\ UNCHANGED (conn["out"])
      /\ stage' = "failed" =>
           /\ conn'["peer"] # "open"
           /\ kind = "sni" => conn'["client"] = "closed"
  <2>1. CASE Resolve
    BY <2>1 DEF Resolve, TypeOK, SetupInv, Opening
  <2>2. CASE ReadFails \/ DialFails
    <3>1. conn["peer"] = "none" /\ Fail
      BY <1>1, <2>2 DEF ReadFails, DialFails, SetupInv
    <3>2. CASE kind = "sni"
      BY <3>1, <3>2 DEF Fail, TypeOK, Conn
    <3>3. CASE kind # "sni"
      BY <3>1, <3>3 DEF Fail, TypeOK
    <3> QED
      BY <3>2, <3>3
  <2>3. CASE ConnectedFails
    BY <2>3 DEF ConnectedFails, TypeOK, SetupInv, Conn
  <2> QED
    BY <2>1, <2>2, <2>3
<1>4. TypeOK'
  BY <1>1, <1>2, <1>3 DEF TypeOK
<1>5. SetupInv'
  <2>1. CASE stage' = "failed"
    BY <1>1, <1>3, <2>1 DEF SetupInv, Opening
  <2>2. CASE Resolve /\ stage' = "dial" /\ UNCHANGED conn
    BY <1>1, <2>2 DEF SetupInv, Opening, Resolve
  <2> QED
    BY <1>2, <2>1, <2>2
<1>6. CountInv'
  BY <1>1 DEF CountInv, Track, Buffered
<1>7. CloseInv'
  BY <1>1, <1>2, <1>3 DEF CloseInv, SetupInv, Opening, Ended
<1> QED
  BY <1>4, <1>5, <1>6, <1>7

\* Reading what comes first from the client.
LEMMA PeekInv ==
  ASSUME Inv, NEW n \in 1..MaxSent,
         \/ PeekClientHello(n)
         \/ \E m \in {"CONNECT", "GET", "other"}, a \in Auths, required \in BOOLEAN :
              ReadRequest(n, [method |-> m, auth |-> a], required)
  PROVE  Inv'
<1> USE ForwardAssumption DEF Inv
<1>1. /\ stage = "read" /\ kind \in {"http", "sni"}
      /\ n <= sent["client"] /\ peeked' = n
      /\ taken' = [taken EXCEPT !["client"] = n]
      /\ stage' \in {"dial", "failed"}
      /\ UNCHANGED <<kind, remote, sent, pump, held, got>>
  BY DEF PeekClientHello, ReadRequest, Peek, Fail, TypeOK, End
<1>2. /\ request' \in [method : {"none", "CONNECT", "GET", "other"}, auth : Auths]
      /\ deadline' = FALSE
  <2>1. CASE PeekClientHello(n)
    BY <2>1 DEF PeekClientHello, TypeOK
  <2>2. ASSUME NEW m \in {"CONNECT", "GET", "other"}, NEW a \in Auths,
               NEW required \in BOOLEAN,
               ReadRequest(n, [method |-> m, auth |-> a], required)
        PROVE  /\ request' \in [method : {"none", "CONNECT", "GET", "other"}, auth : Auths]
               /\ deadline' = FALSE
    <3>1. request' = [method |-> m, auth |-> a] /\ kind = "http" /\ deadline' = deadline
      BY <2>2 DEF ReadRequest
    <3>2. deadline \in BOOLEAN /\ ~deadline
      BY <3>1 DEF TypeOK, SetupInv
    <3> QED
      BY <3>1, <3>2
  <2> QED
    BY <2>1, <2>2
<1>3. /\ UNCHANGED conn
      /\ stage' = "failed" => kind # "sni"
  BY DEF PeekClientHello, ReadRequest, Fail
<1>4. /\ taken'["client"] = n /\ taken'["peer"] = taken["peer"]
      /\ taken' \in [End -> 0..MaxSent]
  BY <1>1 DEF TypeOK, End
<1>5. TypeOK'
  <2>1. peeked' \in 0..MaxSent
    BY <1>1
  <2>3. deadline' \in BOOLEAN
    BY <1>2
  <2>2. stage' \in {"read", "resolve", "dial", "connected", "relay", "failed"}
    BY <1>1
  <2> QED
    BY <1>1, <1>2, <1>3, <1>4, <2>1, <2>2, <2>3 DEF TypeOK
<1>6. SetupInv'
  BY <1>1, <1>2, <1>3, <1>4 DEF SetupInv, Opening, TypeOK
<1>7. CountInv'
  <2>1. \A e \in End : got[e] = 0 /\ pump[e] = "off"
    BY <1>1 DEF SetupInv, Opening
  <2>2. taken'["peer"] = 0
    BY <1>1, <1>4 DEF SetupInv, Opening
  <2> QED
    BY <1>1, <1>4, <2>1, <2>2 DEF CountInv, TypeOK, End
<1>8. CloseInv'
  BY <1>1, <1>3 DEF CloseInv, SetupInv, Opening, Ended
<1> QED
  BY <1>5, <1>6, <1>7, <1>8

\* Dialling the peer, and what the HTTP proxy writes first.
LEMMA DialInv ==
  ASSUME Inv, Dial \/ Connected
  PROVE  Inv'
<1> USE ForwardAssumption DEF Inv
<1>1. CASE Dial /\ kind = "http"
  <2>1. /\ stage = "dial" /\ stage' = "connected"
        /\ conn' = [conn EXCEPT !["peer"] = "open"]
        /\ UNCHANGED <<kind, request, remote, sent, taken, peeked, deadline, pump, held,
                       got>>
    BY <1>1 DEF Dial
  <2>2. TypeOK'
    BY <2>1 DEF TypeOK
  <2>3. SetupInv'
    BY <1>1, <2>1 DEF SetupInv, Opening, TypeOK, Conn
  <2>4. CountInv'
    BY <2>1 DEF CountInv, Track, Buffered
  <2>5. CloseInv'
    BY <2>1 DEF CloseInv, SetupInv
  <2> QED
    BY <2>2, <2>3, <2>4, <2>5
<1>2. CASE (Dial /\ kind # "http") \/ Connected
  <2>1. /\ stage \in {"dial", "connected"} /\ stage' = "relay"
        /\ pump' = [e \in End |-> "read"]
        /\ UNCHANGED <<kind, request, remote, sent, taken, peeked, deadline, held>>
    BY <1>2 DEF Dial, Connected, StartPumps
  <2>2. /\ conn' \in [Conn -> {"none", "open", "closed"}]
        /\ \A c \in Conn : conn'[c] # "closed"
        /\ conn'["out"] = conn["out"]
    BY <1>2 DEF Dial, Connected, TypeOK, SetupInv, Opening, Conn
  <2>3. /\ got' \in [End -> 0..MaxSent]
        /\ got'["peer"] = 0
        /\ \/ got'["client"] = 0 /\ kind # "http"
           \/ got'["client"] = 1 /\ kind = "http" /\ peeked >= 1
    <3>1. \A e \in End : got[e] = 0
      BY <2>1 DEF SetupInv, Opening
    <3>2. CASE Dial /\ kind # "http"
      BY <3>1, <3>2 DEF Dial, TypeOK, End
    <3>3. CASE Connected
      <4>1. kind = "http" /\ peeked >= 1 /\ MaxSent >= 1
        BY <3>3 DEF Connected, SetupInv, TypeOK
      <4> QED
        BY <3>1, <3>3, <4>1 DEF Connected, TypeOK, End
    <3> QED
      BY <1>2, <3>2, <3>3
  <2>4. taken["peer"] = 0 /\ taken["client"] = peeked
    BY <2>1 DEF SetupInv, Opening
  <2>5. TypeOK'
    BY <2>1, <2>2, <2>3 DEF TypeOK
  <2>6. SetupInv'
    BY <2>1, <2>2 DEF SetupInv, Opening
  <2>7. CountInv'
    BY <2>1, <2>3, <2>4 DEF CountInv, Track, Buffered, SetupInv, TypeOK, End
  <2>8. CloseInv'
    BY <2>1, <2>2 DEF CloseInv
  <2> QED
    BY <2>5, <2>6, <2>7, <2>8
<1> QED
  BY <1>1, <1>2

\* Copying a chunk, or finding that there is none.
LEMMA CopyInv ==
  ASSUME Inv, NEW e \in End,
         PumpRead(e) \/ PumpEof(e) \/ PumpReadFails(e) \/ PumpWrite(e) \/ PumpWriteFails(e)
  PROVE  Inv'
<1> USE ForwardAssumption DEF Inv, setupVars
<1>1. /\ stage = "relay" /\ pump[e] \in {"read", "write"}
      /\ UNCHANGED <<setupVars, conn, remote, sent>>
      /\ \E l \in {"read", "write", "close"} : pump' = [pump EXCEPT ![e] = l]
  BY DEF PumpRead, PumpEof, PumpReadFails, PumpWrite, PumpWriteFails, SetupInv
<1>2. TypeOK'
  <2>1. pump' \in [End -> {"off", "read", "write", "close", "close2", "done"}]
    BY <1>1 DEF TypeOK
  <2>2. held' \in [End -> 0..MaxSent] /\ taken' \in [End -> 0..MaxSent]
    <3>1. CASE PumpRead(e)
      BY <3>1 DEF PumpRead, Replays, TypeOK
    <3>2. CASE ~PumpRead(e)
      BY <3>2 DEF PumpEof, PumpReadFails, PumpWrite, PumpWriteFails, TypeOK
    <3> QED
      BY <3>1, <3>2
  <2>3. got' \in [End -> 0..MaxSent]
    BY DEF PumpRead, PumpEof, PumpReadFails, PumpWrite, PumpWriteFails, TypeOK
  <2> QED
    BY <1>1, <2>1, <2>2, <2>3 DEF TypeOK
<1>3. SetupInv'
  BY <1>1 DEF SetupInv, Opening, TypeOK
<1>4. CountInv'
  <2>1. CASE PumpRead(e) /\ Replays(e)
    BY <1>1, <2>1 DEF PumpRead, Replays, CountInv, Track, Buffered, TypeOK, End
  <2>2. CASE PumpRead(e) /\ ~Replays(e)
    BY <1>1, <2>2 DEF PumpRead, Replays, CountInv, Track, Buffered, TypeOK, End
  <2>3. CASE PumpEof(e) \/ PumpReadFails(e) \/ PumpWriteFails(e)
    BY <1>1, <2>3 DEF PumpEof, PumpReadFails, PumpWriteFails, CountInv, Track, Buffered, TypeOK
  <2>4. CASE PumpWrite(e)
    BY <1>1, <2>4 DEF PumpWrite, CountInv, Track, Buffered, TypeOK
  <2> QED
    BY <2>1, <2>2, <2>3, <2>4
<1>5. CloseInv'
  <2>1. pump'[e] = "close" => Ended
    BY <1>1 DEF PumpRead, PumpEof, PumpReadFails, PumpWrite, PumpWriteFails, CloseInv,
       SetupInv, TypeOK, Ended, Sink, End, Conn
  <2>2. /\ pump'[e] \notin {"close2", "done"}
        /\ \A d \in End \ {e} : pump'[d] = pump[d]
    BY <1>1 DEF TypeOK
  <2> QED
    BY <1>1, <2>1, <2>2 DEF CloseInv, Ended, First, Sink
<1> QED
  BY <1>2, <1>3, <1>4, <1>5

\* Closing what the goroutine wrote to and read from.
LEMMA PumpCloseInv ==
  ASSUME Inv, NEW e \in End, PumpClose(e)
  PROVE  Inv'
<1> USE DEF Inv, setupVars
<1>1. /\ stage = "relay" /\ pump[e] \in {"close", "close2"}
      /\ UNCHANGED <<setupVars, remote, sent, taken, held, got>>
      /\ pump' = [pump EXCEPT ![e] = IF pump[e] = "close" THEN "close2" ELSE "done"]
      /\ conn' = [conn EXCEPT ![Closing(e)] = "closed"]
  BY DEF PumpClose, SetupInv
<1>2. /\ Closing(e) \in Conn
      /\ Closing(e) = "out" => kind = "stdio"
      /\ pump[e] = "close" => Closing(e) = First(e)
      /\ pump[e] = "close2" => {First(e), Closing(e)} = {e, Sink(e)}
  BY <1>1 DEF Closing, First, Sink, Conn, End
<1>3. TypeOK'
  BY <1>1, <1>2 DEF TypeOK
<1>4. SetupInv'
  BY <1>1, <1>2 DEF SetupInv, Opening, TypeOK, Conn
<1>5. CountInv'
  BY <1>1 DEF CountInv, Track, Buffered, TypeOK
<1>6. CloseInv'
  <2>1. Ended /\ Ended'
    BY <1>1 DEF CloseInv, Ended
  <2>2. \A c \in Conn : conn[c] = "closed" => conn'[c] = "closed"
    BY <1>1 DEF TypeOK
  <2>3. conn'[Closing(e)] = "closed"
    BY <1>1, <1>2 DEF TypeOK
  <2>4. \A d \in End : First(d) \in Conn /\ Sink(d) \in Conn /\ d \in Conn
    BY DEF First, Sink, End, Conn
  <2>5. First(e)' = First(e) /\ \A d \in End : First(d)' = First(d) /\ Sink(d)' = Sink(d)
    BY <1>1 DEF First, Sink
  <2>6. pump'[e] = "close2" => conn'[First(e)] = "closed"
    BY <1>1, <1>2, <2>3 DEF TypeOK
  <2>7. pump'[e] = "done" => conn'[e] = "closed" /\ conn'[Sink(e)] = "closed"
    <3>1. SUFFICES ASSUME pump[e] = "close2"
                   PROVE  conn'[e] = "closed" /\ conn'[Sink(e)] = "closed"
      BY <1>1 DEF TypeOK
    <3>2. conn'[First(e)] = "closed"
      BY <2>2, <2>4, <3>1 DEF CloseInv
    <3> QED
      BY <1>2, <2>3, <3>1, <3>2
  <2>8. \A d \in End \ {e} : pump'[d] = pump[d]
    BY <1>1 DEF TypeOK
  <2> QED
    BY <1>1, <2>1, <2>2, <2>4, <2>5, <2>6, <2>7, <2>8 DEF CloseInv
<1> QED
  BY <1>3, <1>4, <1>5, <1>6

LEMMA NextInv == Inv /\ [Next]_vars => Inv'
<1> SUFFICES ASSUME Inv, [Next]_vars
             PROVE  Inv'
  OBVIOUS
<1>1. CASE UNCHANGED vars
  BY <1>1 DEF vars, Inv, TypeOK, SetupInv, CountInv, CloseInv, Track, Buffered, Ended,
     First, Sink
<1>2. CASE Next
  BY <1>2, EndsInv, FailInv, PeekInv, DialInv, CopyInv, PumpCloseInv
     DEF Next, Pump, End, Conn
<1> QED
  BY <1>1, <1>2

\* The variables of a connection keep their types, whatever its ends do.
THEOREM TypeCorrect == Spec => []TypeOK
<1>1. Inv => TypeOK
  BY DEF Inv
<1> QED
  BY <1>1, InitInv, NextInv, PTL DEF Spec

\* A connection is open only while a goroutine is there that closes it, but for
\* the client of a connection the TCP tunnels or the HTTP proxy gave up.
THEOREM NothingIsForgotten == Spec => []OpenIsOwned
<1>1. Inv => OpenIsOwned
  <2> SUFFICES ASSUME Inv, NEW c \in Conn, conn[c] = "open",
                      stage \in {"relay", "failed"}
               PROVE  \/ stage = "failed" /\ c # "peer" /\ kind # "sni"
                      \/ \E e \in End : pump[e] \notin {"off", "done"} /\ c \in {e, Sink(e)}
    BY DEF OpenIsOwned
  <2>1. CASE stage = "failed"
    BY <2>1 DEF Inv, CloseInv, SetupInv, Conn
  <2>2. CASE stage = "relay"
    <3>1. c = "out" => kind = "stdio"
      BY DEF Inv, SetupInv
    <3>2. PICK e \in End : c \in {e, Sink(e)}
      BY <3>1 DEF Conn, End, Sink
    <3> QED
      BY <2>2, <3>2 DEF Inv, SetupInv, CloseInv
  <2> QED
    BY <2>1, <2>2
<1> QED
  BY <1>1, InitInv, NextInv, PTL DEF Spec

-----------------------------------------------------------------------------
(* A stream that ends has gone out whole                                   *)

LEMMA EofStep == Inv /\ EofIsComplete /\ [Next]_vars => EofIsComplete'
<1> SUFFICES ASSUME Inv, EofIsComplete, [Next]_vars, NEW e \in End,
                    pump'[e] = "close", remote'[e] = "eof", ~Buffered',
                    \A c \in Conn : remote'[c] # "gone" /\ conn'[c] # "closed",
                    \A c \in Conn \ {e} : remote'[c] = "open"
             PROVE  got'[e] = sent'[e]
  BY DEF EofIsComplete
<1> USE DEF Inv, End, Conn
<1>1. CASE UNCHANGED vars
  BY <1>1 DEF vars, EofIsComplete, Buffered
<1>2. ASSUME NEW d \in Conn, \/ d \in End /\ (Send(d) \/ SendEof(d))
                             \/ Vanish(d)
      PROVE  got'[e] = sent'[e]
  <2>1. UNCHANGED <<setupVars, conn, taken, pump, held, got>>
    BY <1>2 DEF Send, SendEof, Vanish
  <2>2. \A c \in Conn : remote[c] = "open" \/ remote[c] = remote'[c]
    BY <1>2 DEF Send, SendEof, Vanish, TypeOK
  <2>3. Ended
    BY <2>1 DEF CloseInv
  <2>4. remote[e] = "eof" /\ \A c \in Conn \ {e} : remote[c] = "open"
    BY <2>2, <2>3 DEF Ended, TypeOK
  <2>5. got[e] = sent[e]
    BY <2>1, <2>4 DEF EofIsComplete, Buffered, setupVars
  <2>6. sent'[e] = sent[e]
    BY <1>2, <2>4 DEF Send, SendEof, Vanish, TypeOK
  <2> QED
    BY <2>1, <2>5, <2>6
<1>3. ASSUME NEW d \in End, Pump(d)
      PROVE  got'[e] = sent'[e]
  <2>1. UNCHANGED <<setupVars, remote, sent>>
    BY <1>3 DEF Pump, PumpRead, PumpEof, PumpReadFails, PumpWrite, PumpWriteFails, PumpClose
  <2>2. CASE PumpEof(d) /\ d = e
    BY <2>1, <2>2 DEF PumpEof, CountInv, Track, Replays, Buffered, setupVars, TypeOK
  <2>3. CASE (PumpReadFails(d) \/ PumpWriteFails(d)) /\ d = e
    <3>1. conn[e] # "closed" /\ conn[Sink(e)] # "closed" /\ Sink(e) \in Conn \ {e}
      BY <2>3 DEF PumpReadFails, PumpWriteFails, Sink
    <3>2. ~deadline /\ remote[e] = "eof" /\ remote[Sink(e)] = "open"
      BY <2>1, <2>3, <3>1 DEF SetupInv, PumpReadFails, PumpWriteFails
    <3> QED
      BY <2>3, <3>1, <3>2 DEF PumpReadFails, PumpWriteFails
  <2>4. CASE PumpClose(d)
    <3>1. Closing(d) \in Conn /\ conn' = [conn EXCEPT ![Closing(d)] = "closed"]
      BY <2>4 DEF PumpClose, Closing, Sink
    <3> QED
      BY <3>1 DEF TypeOK
  <2>5. CASE (PumpRead(d) \/ PumpWrite(d)) /\ d = e
    BY <2>5 DEF PumpRead, PumpWrite, TypeOK
  <2>6. CASE d # e /\ ~PumpClose(d)
    <3>1. pump[e] = "close" /\ got'[e] = got[e] /\ UNCHANGED conn
      BY <1>3, <2>6 DEF Pump, PumpRead, PumpEof, PumpReadFails, PumpWrite, PumpWriteFails,
         TypeOK
    <3> QED
      BY <2>1, <3>1 DEF EofIsComplete, Buffered, setupVars
  <2> QED
    BY <1>3, <2>2, <2>3, <2>4, <2>5, <2>6 DEF Pump
<1>4. CASE Resolve \/ ReadFails \/ DialFails \/ ConnectedFails
  BY <1>4 DEF Resolve, ReadFails, DialFails, ConnectedFails, SetupInv
<1>5. CASE Dial \/ Connected
  BY <1>5 DEF Dial, Connected, StartPumps, SetupInv
<1>6. ASSUME NEW n \in 1..MaxSent,
             \/ PeekClientHello(n)
             \/ \E m \in {"CONNECT", "GET", "other"}, a \in Auths, required \in BOOLEAN :
                  ReadRequest(n, [method |-> m, auth |-> a], required)
      PROVE  got'[e] = sent'[e]
  BY <1>6 DEF PeekClientHello, ReadRequest, Peek, SetupInv
<1> QED
  BY <1>1, <1>2, <1>3, <1>4, <1>5, <1>6 DEF Next

\* A stream that ends before anything else goes wrong has gone out whole before
\* the goroutine that copies it closes anything.
THEOREM StreamsAreWhole == Spec => []EofIsComplete
<1>1. Init => EofIsComplete
  BY DEF Init, EofIsComplete
<1> QED
  BY <1>1, InitInv, NextInv, EofStep, PTL DEF Spec

-----------------------------------------------------------------------------
(* Forward implements Pipe                                                 *)

\* What the ends do is what the ends of a pipe do.
LEMMA EndsRefine ==
  ASSUME Inv, NEW e \in Conn,
         \/ e \in End /\ (Send(e) \/ SendEof(e))
         \/ Vanish(e)
  PROVE  [P!Next]_(P!vars)
<1> USE DEF Inv, setupVars, Conn, End
<1>1. Phase' = Phase /\ got' = got /\ Buffered' = Buffered
  BY DEF Send, SendEof, Vanish, Phase, AllClosed, Sink, Buffered
<1>2. CASE e \in End /\ Send(e)
  <2>1. sent' = [sent EXCEPT ![e] = @ + 1] /\ UNCHANGED remote
    BY <1>2 DEF Send
  <2> QED
    BY <1>1, <1>2, <2>1 DEF P!Next, P!Send
<1>3. CASE (e \in End /\ SendEof(e)) \/ Vanish(e)
  <2>1. UNCHANGED sent /\ \E c \in Conn : remote'[c] # "open"
    BY <1>3 DEF SendEof, Vanish, TypeOK
  <2>2. P!EndEnds
    BY <1>1, <2>1 DEF P!EndEnds
  <2> QED
    BY <2>2 DEF P!Next
<1> QED
  BY <1>2, <1>3

\* Setting up a connection sets up a pipe, refuses it, or loses chunks.
LEMMA SetupRefines ==
  ASSUME Inv, Inv',
         \/ Resolve \/ ReadFails \/ DialFails \/ ConnectedFails \/ Dial \/ Connected
         \/ \E n \in 1..MaxSent :
              \/ PeekClientHello(n)
              \/ \E m \in {"CONNECT", "GET", "other"}, a \in Auths, required \in BOOLEAN :
                   ReadRequest(n, [method |-> m, auth |-> a], required)
  PROVE  [P!Next]_(P!vars)
<1> USE DEF Inv
<1>1. stage \in Opening /\ stage' \in Opening \cup {"failed", "relay"}
      /\ UNCHANGED <<kind, remote, sent>>
  BY DEF Resolve, ReadFails, DialFails, ConnectedFails, Dial, Connected, PeekClientHello,
     ReadRequest, Peek, Fail, StartPumps, Opening
<1>2. Phase = "new"
  BY <1>1 DEF Phase, Opening
<1>3. Phase' = CASE stage' = "failed" -> "refused"
                 [] stage' = "relay"  -> "up"
                 [] OTHER             -> "new"
  <2>1. stage' = "relay" => \A c \in Conn : conn'[c] # "closed"
    BY <1>1 DEF Resolve, ReadFails, DialFails, ConnectedFails, Dial, Connected,
       PeekClientHello, ReadRequest, Fail, StartPumps, SetupInv, TypeOK, Conn
  <2> QED
    BY <1>1, <2>1 DEF Phase, AllClosed, Sink, Conn, Opening
<1>4. CASE Connected
  <2>1. /\ Phase' = "up" /\ UNCHANGED peeked /\ got["client"] = 0 /\ sent["client"] >= 1
        /\ got' = [got EXCEPT !["client"] = 1]
    BY <1>3, <1>4 DEF Connected, StartPumps, SetupInv, CountInv, Opening, TypeOK, End
  <2>2. Buffered' = Buffered
    BY <1>1, <2>1 DEF Buffered
  <2>3. 1 \in (got["client"] + 1)..sent["client"] /\ 1 = got["client"] + 1
    BY <2>1 DEF TypeOK, End
  <2>4. P!Pass("client")
    BY <1>1, <1>2, <2>1, <2>2, <2>3 DEF P!Pass
  <2> QED
    BY <2>4 DEF P!Next, End
<1>5. CASE ~Connected
  <2>1. UNCHANGED got
    BY <1>5 DEF Resolve, ReadFails, DialFails, ConnectedFails, Dial, PeekClientHello,
       ReadRequest
  <2>2. CASE Buffered' = Buffered
    <3>1. Phase' = "new" => UNCHANGED P!vars
      BY <1>1, <1>2, <2>1, <2>2 DEF P!vars
    <3>2. Phase' \in {"refused", "up"} => P!Move
      BY <1>1, <1>2, <2>1, <2>2 DEF P!Move
    <3> QED
      BY <1>3, <3>1, <3>2 DEF P!Next
  <2>3. CASE Buffered' # Buffered
    <3>1. peeked' # peeked
      BY <1>1, <2>3 DEF Buffered
    <3>2. stage = "read" /\ stage' # "relay"
      BY <1>5, <3>1 DEF Resolve, ReadFails, DialFails, ConnectedFails, Dial,
         PeekClientHello, ReadRequest, Peek, Fail
    <3>3. ~Buffered
      BY <3>2 DEF Buffered, SetupInv
    <3>4. Buffered' = TRUE
      BY <2>3, <3>3 DEF Buffered
    <3>5. Phase' \in {"new", "refused"}
      BY <1>3, <3>2
    <3> QED
      BY <1>1, <1>2, <2>1, <3>4, <3>5 DEF P!Next, P!Lose
  <2> QED
    BY <2>2, <2>3
<1> QED
  BY <1>4, <1>5

\* Copying passes chunks on, and the first to end tears the pipe down.
LEMMA PumpRefines ==
  ASSUME Inv, Inv', NEW e \in End, Pump(e)
  PROVE  [P!Next]_(P!vars)
<1> USE DEF Inv, setupVars
<1>1. stage = "relay" /\ UNCHANGED <<setupVars, remote, sent>>
  BY DEF Pump, PumpRead, PumpEof, PumpReadFails, PumpWrite, PumpWriteFails, PumpClose, SetupInv
<1>2. Buffered' = Buffered
  BY <1>1 DEF Buffered
<1>3. CASE PumpRead(e) \/ PumpEof(e) \/ PumpReadFails(e) \/ PumpWriteFails(e)
  <2>1. UNCHANGED <<got, conn>>
    BY <1>3 DEF PumpRead, PumpEof, PumpReadFails, PumpWriteFails
  <2>2. Phase' = Phase
    BY <1>1, <2>1 DEF Phase, AllClosed, Sink
  <2> QED
    BY <1>1, <1>2, <2>1, <2>2 DEF P!vars
<1>4. CASE PumpWrite(e)
  <2>1. /\ UNCHANGED conn /\ conn[Sink(e)] = "open"
        /\ got' = [got EXCEPT ![e] = held[e]]
        /\ held[e] \in (got[e] + 1)..sent[e]
        /\ ~Buffered => held[e] = got[e] + 1
    BY <1>4 DEF PumpWrite, CountInv, TypeOK
  <2>2. Phase' = Phase /\ Phase \in {"up", "closing"}
    BY <1>1, <2>1 DEF Phase, AllClosed, Sink, End
  <2>3. P!Pass(e)
    BY <1>1, <1>2, <2>1, <2>2 DEF P!Pass
  <2> QED
    BY <2>3 DEF P!Next
<1>5. CASE PumpClose(e)
  <2>1. /\ conn' = [conn EXCEPT ![Closing(e)] = "closed"] /\ Closing(e) \in Conn
        /\ UNCHANGED got /\ Ended
    BY <1>5 DEF PumpClose, Closing, Sink, End, Conn, CloseInv
  <2>2. /\ \A c \in Conn : conn[c] = "closed" => conn'[c] = "closed"
        /\ \A c \in Conn : conn'[c] = "closed" => conn[c] = "closed" \/ c = Closing(e)
        /\ conn'[Closing(e)] = "closed"
    BY <2>1 DEF TypeOK
  <2>3. Phase' = IF AllClosed' THEN "down" ELSE "closing"
    BY <1>1, <2>1, <2>2 DEF Phase
  <2>4. CASE Phase = "up"
    <3>1. Phase' = "closing"
      BY <1>1, <2>2, <2>3, <2>4 DEF Phase, AllClosed, Sink, Conn
    <3> QED
      BY <1>1, <1>2, <2>1, <2>4, <3>1 DEF P!Next, P!Move, Ended
  <2>5. CASE Phase = "closing"
    <3>1. Phase' = "closing" => UNCHANGED P!vars
      BY <1>1, <1>2, <2>1, <2>5 DEF P!vars
    <3>2. Phase' = "down" => P!Move
      BY <1>1, <1>2, <2>1, <2>5 DEF P!Move
    <3> QED
      BY <2>3, <3>1, <3>2 DEF P!Next
  <2>6. CASE Phase = "down"
    <3>1. Phase' = "down"
      BY <1>1, <2>2, <2>3, <2>6 DEF Phase, AllClosed, Sink, Conn
    <3> QED
      BY <1>1, <1>2, <2>1, <2>6, <3>1 DEF P!vars
  <2> QED
    BY <1>1, <2>4, <2>5, <2>6 DEF Phase
<1> QED
  BY <1>3, <1>4, <1>5 DEF Pump

\* Whatever routine forwards a connection, and however many chunks its ends send,
\* what it does is a pipe.
THEOREM ForwardIsPipe == Spec => IsPipe
<1>1. Init => P!Init
  <2> SUFFICES ASSUME Init
               PROVE  P!Init
    OBVIOUS
  <2>1. Phase = "new"
    BY DEF Init, Phase
  <2> QED
    BY <2>1 DEF Init, P!Init, Buffered, Conn
<1>2. Inv /\ Inv' /\ [Next]_vars => [P!Next]_(P!vars)
  <2> SUFFICES ASSUME Inv, Inv', [Next]_vars
               PROVE  [P!Next]_(P!vars)
    OBVIOUS
  <2>1. CASE UNCHANGED vars
    BY <2>1 DEF vars, P!vars, Phase, AllClosed, Sink, Buffered
  <2>2. CASE Next
    BY <2>2, EndsRefine, SetupRefines, PumpRefines DEF Next, End, Conn
  <2> QED
    BY <2>1, <2>2
<1> QED
  BY <1>1, <1>2, InitInv, NextInv, PTL DEF Spec, IsPipe, P!Spec

=============================================================================
