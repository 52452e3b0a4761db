--------------------------- MODULE LifecycleProofs ---------------------------
(***************************************************************************)
(* Proofs that the properties of Lifecycle hold for every set of routines, *)
(* whatever their kinds, and any number of overlapping Close calls.        *)
(***************************************************************************)
EXTENDS Lifecycle, TLAPS

\* A Close call that is under way has recorded the intent.
CloseRecorded == \A r \in Routine, c \in Closer : close[r][c] # "idle" => closed[r]

\* A listener is closed by Close, or by the device it belongs to.
ClosedByCloseOrDevice ==
  \A r \in Routine : sock[r] = "closed" =>
    closed[r] \/ (Kind[r] \in OnNetstack /\ ~deviceUp)

\* What tells a shutdown from a fault: no single conjunct is inductive.
IntentInv ==
  /\ TypeOK
  /\ CloseRecorded
  /\ ClosedByCloseOrDevice
  /\ ErrorMeansFault
  /\ NilMeansAsked

\* Bind has no socket before it starts, and lets go of none it acquired.
SocketIsKept ==
  \A r \in Routine :
    /\ sock[r] = "open" => listener[r] \/ bind[r] = "acquired"
    /\ done[r] # "nil" => listener[r]

\* The listener field is set in the course of Bind.
BoundBeforeListener ==
  \A r \in Routine : /\ bind[r] = "idle" => ~listener[r]
                     /\ bind[r] = "stored" => listener[r]

\* The application does not bind what it has closed, nor close what it is binding.
NotClosedWhileBinding ==
  \A r \in Routine : bind[r] \in {"acquired", "stored"} => ~closed[r]

\* Whoever closed the done channel goes on to close the listener.
DoneThenListener ==
  \A r \in Routine : done[r] = "closed" /\ sock[r] = "open" =>
    \E c \in Closer : close[r][c] = "closeListener"

ReleaseInv ==
  /\ SocketIsKept
  /\ BoundBeforeListener
  /\ NotClosedWhileBinding
  /\ DoneThenListener
  /\ ClosedMeansReleased

-----------------------------------------------------------------------------
(* Intent: types, and who may be held responsible for Serve's result       *)

LEMMA InitIntent == Init => IntentInv
  BY LifecycleAssumption DEF Init, IntentInv, TypeOK, CloseRecorded,
     ClosedByCloseOrDevice, ErrorMeansFault, NilMeansAsked

LEMMA BindIntent ==
  ASSUME IntentInv, NEW r \in Routine, Bind(r)
  PROVE  IntentInv'
<1> USE DEF IntentInv, bindVars, closeVars, serveVars
<1>1. TypeOK'
  <2>1. CASE BindFails(r)
    BY <2>1 DEF BindFails, TypeOK
  <2>2. CASE BindStdio(r)
    BY <2>2 DEF BindStdio, TypeOK
  <2>3. CASE BindListen(r)
    BY <2>3 DEF BindListen, TypeOK
  <2>4. CASE BindStoreListener(r)
    BY <2>4 DEF BindStoreListener, TypeOK
  <2>5. CASE BindStoreDone(r)
    BY <2>5 DEF BindStoreDone, TypeOK
  <2> QED
    BY <2>1, <2>2, <2>3, <2>4, <2>5 DEF Bind
<1>2. UNCHANGED <<closeVars, serveVars, deviceUp>>
  BY DEF Bind, BindFails, BindStdio, BindListen, BindStoreListener, BindStoreDone
<1>3. \A q \in Routine : sock'[q] = "closed" => sock[q] = "closed"
  BY DEF Bind, BindFails, BindStdio, BindListen, BindStoreListener, BindStoreDone,
         TypeOK
<1>4. CloseRecorded' /\ ClosedByCloseOrDevice'
  BY <1>2, <1>3 DEF CloseRecorded, ClosedByCloseOrDevice
<1>5. ErrorMeansFault' /\ NilMeansAsked'
  BY <1>2 DEF ErrorMeansFault, NilMeansAsked
<1> QED
  BY <1>1, <1>4, <1>5

LEMMA ServeIntent ==
  ASSUME IntentInv, NEW r \in Routine,
         Serve(r) \/ ServeListenerClosed(r) \/ ServeAcceptFault(r)
  PROVE  IntentInv'
<1> USE DEF IntentInv, bindVars, closeVars
<1>1. TypeOK'
  BY DEF Serve, ServeListenerClosed, ServeAcceptFault, TypeOK
<1>2. UNCHANGED <<bindVars, closeVars, deviceUp>>
  BY DEF Serve, ServeListenerClosed, ServeAcceptFault
<1>3. CloseRecorded' /\ ClosedByCloseOrDevice'
  BY <1>2 DEF CloseRecorded, ClosedByCloseOrDevice
<1>4. ErrorMeansFault'
  <2>1. CASE Serve(r)
    BY <2>1 DEF Serve, ErrorMeansFault, TypeOK
  <2>2. CASE ServeListenerClosed(r)
    BY <2>2 DEF ServeListenerClosed, ErrorMeansFault, TypeOK, closedByUs,
                ClosedError, ClosedByCloseOrDevice
  <2>3. CASE ServeAcceptFault(r)
    BY <2>3 DEF ServeAcceptFault, ErrorMeansFault, TypeOK
  <2> QED
    BY <2>1, <2>2, <2>3
<1>5. NilMeansAsked'
  <2>1. CASE Serve(r)
    BY <2>1 DEF Serve, NilMeansAsked, TypeOK
  <2>2. CASE ServeListenerClosed(r)
    BY <2>2 DEF ServeListenerClosed, NilMeansAsked, TypeOK, closedByUs,
                ClosedError, ClosedByCloseOrDevice
  <2>3. CASE ServeAcceptFault(r)
    BY <2>3 DEF ServeAcceptFault, NilMeansAsked, TypeOK, closedByUs
  <2> QED
    BY <2>1, <2>2, <2>3
<1> QED
  BY <1>1, <1>3, <1>4, <1>5

LEMMA CloseIntent ==
  ASSUME IntentInv, NEW r \in Routine,
         \/ CloseStdio(r)
         \/ \E c \in Closer : CloseMark(r, c) \/ CloseStep(r, c)
  PROVE  IntentInv'
<1> USE DEF IntentInv, bindVars, closeVars, serveVars
<1>1. CASE CloseStdio(r)
  BY <1>1 DEF CloseStdio, TypeOK, CloseRecorded, ClosedByCloseOrDevice,
              ErrorMeansFault, NilMeansAsked
<1>2. ASSUME NEW c \in Closer, CloseMark(r, c)
      PROVE  IntentInv'
  <2>1. TypeOK'
    <3>1. \E S \in SUBSET Closer : together' = [together EXCEPT ![r] = S]
      BY <1>2 DEF CloseMark, OtherCalls, TypeOK
    <3>2. together' \in [Routine -> SUBSET Closer]
      BY <3>1 DEF TypeOK
    <3>3. \E to \in {"checkDone", "closeListener"} : close' = [close EXCEPT ![r][c] = to]
      BY <1>2 DEF CloseMark
    <3>4. close' \in [Routine -> [Closer ->
                      {"idle", "checkDone", "closeDone", "closeListener"}]]
      BY <3>3 DEF TypeOK
    <3> QED
      BY <1>2, <3>2, <3>4 DEF CloseMark, TypeOK
  <2>2. CloseRecorded'
    BY <1>2 DEF CloseMark, TypeOK, CloseRecorded
  <2>3. (ClosedByCloseOrDevice /\ ErrorMeansFault /\ NilMeansAsked)'
    BY <1>2 DEF CloseMark, TypeOK, ClosedByCloseOrDevice, ErrorMeansFault,
                NilMeansAsked
  <2> QED
    BY <2>1, <2>2, <2>3
<1>3. ASSUME NEW c \in Closer, CloseCheckDone(r, c)
      PROVE  IntentInv'
  BY <1>3 DEF CloseCheckDone, TypeOK, CloseRecorded, ClosedByCloseOrDevice,
              ErrorMeansFault, NilMeansAsked
<1>4. ASSUME NEW c \in Closer, CloseDone(r, c)
      PROVE  IntentInv'
  <2>1. TypeOK'
    <3>1. \/ UNCHANGED closeRes
          \/ closeRes' = [closeRes EXCEPT ![r] = @ \cup {"panic"}]
      BY <1>4 DEF CloseDone
    <3>2. closeRes' \in [Routine -> SUBSET {"nil", "error", "panic"}]
      BY <3>1 DEF TypeOK
    <3>3. done' \in [Routine -> {"nil", "open", "closed"}]
      BY <1>4 DEF CloseDone, TypeOK
    <3>4. \E to \in {"idle", "closeListener"} : close' = [close EXCEPT ![r][c] = to]
      BY <1>4 DEF CloseDone
    <3>5. close' \in [Routine -> [Closer ->
                      {"idle", "checkDone", "closeDone", "closeListener"}]]
      BY <3>4 DEF TypeOK
    <3> QED
      BY <1>4, <3>2, <3>3, <3>5 DEF CloseDone, TypeOK
  <2>2. CloseRecorded'
    <3>1. UNCHANGED closed /\ close[r][c] = "closeDone"
      BY <1>4 DEF CloseDone
    <3>2. \A q \in Routine, d \in Closer : q # r \/ d # c => close'[q][d] = close[q][d]
      BY <1>4 DEF CloseDone, TypeOK
    <3> QED
      BY <3>1, <3>2 DEF CloseRecorded
  <2>3. (ClosedByCloseOrDevice /\ ErrorMeansFault /\ NilMeansAsked)'
    BY <1>4 DEF CloseDone, TypeOK, ClosedByCloseOrDevice, ErrorMeansFault,
                NilMeansAsked
  <2> QED
    BY <2>1, <2>2, <2>3
<1>5. ASSUME NEW c \in Closer, closeListener(r, c)
      PROVE  IntentInv'
  <2>1. closed[r]
    BY <1>5 DEF closeListener, CloseRecorded
  <2>2. TypeOK'
    BY <1>5 DEF closeListener, CloseResults, TypeOK
  <2>3. CloseRecorded'
    BY <1>5 DEF closeListener, TypeOK, CloseRecorded
  <2>4. (ClosedByCloseOrDevice /\ ErrorMeansFault /\ NilMeansAsked)'
    BY <1>5, <2>1 DEF closeListener, TypeOK, ClosedByCloseOrDevice,
                      ErrorMeansFault, NilMeansAsked
  <2> QED
    BY <2>2, <2>3, <2>4
<1> QED
  BY <1>1, <1>2, <1>3, <1>4, <1>5 DEF CloseStep

LEMMA DeviceIntent == IntentInv /\ DeviceClose => IntentInv'
<1> SUFFICES ASSUME IntentInv, DeviceClose
             PROVE  IntentInv'
  OBVIOUS
<1> USE DEF IntentInv, DeviceClose, closeVars, serveVars
<1>1. TypeOK'
  BY DEF TypeOK
<1>2. CloseRecorded'
  BY DEF CloseRecorded
<1>3. ClosedByCloseOrDevice'
  BY DEF ClosedByCloseOrDevice, TypeOK
<1>4. (ErrorMeansFault /\ NilMeansAsked)'
  BY DEF ErrorMeansFault, NilMeansAsked
<1> QED
  BY <1>1, <1>2, <1>3, <1>4

LEMMA NextIntent == IntentInv /\ [Next]_vars => IntentInv'
<1> SUFFICES ASSUME IntentInv, [Next]_vars
             PROVE  IntentInv'
  OBVIOUS
<1>1. CASE UNCHANGED vars
  BY <1>1 DEF vars, IntentInv, TypeOK, CloseRecorded, ClosedByCloseOrDevice,
              ErrorMeansFault, NilMeansAsked
<1>2. CASE Next
  BY <1>2, BindIntent, ServeIntent, CloseIntent, DeviceIntent DEF Next
<1> QED
  BY <1>1, <1>2

\* Every variable of a routine keeps its type, whatever the configuration.
THEOREM TypeCorrect == Spec => []TypeOK
<1>1. IntentInv => TypeOK
  BY DEF IntentInv
<1> QED
  BY <1>1, InitIntent, NextIntent, PTL DEF Spec

\* shutdown.closedByUs tells the truth: Serve fails only for a fault, and
\* returns nil only when Close was asked for.
THEOREM IntentDecides == Spec => []ServeIsHonest
<1>1. IntentInv => ServeIsHonest
  BY DEF IntentInv, ServeIsHonest
<1> QED
  BY <1>1, InitIntent, NextIntent, PTL DEF Spec

-----------------------------------------------------------------------------
(* Release: Close leaves no socket behind                                  *)

LEMMA BindRelease ==
  ASSUME ~StopDuringStart, IntentInv, ReleaseInv, NEW r \in Routine, Bind(r)
  PROVE  ReleaseInv'
<1> USE DEF IntentInv, ReleaseInv, bindVars, closeVars, serveVars
<1>1. SocketIsKept' /\ BoundBeforeListener'
  <2> USE DEF MayBind, TypeOK, SocketIsKept, BoundBeforeListener
  <2>1. CASE BindFails(r) \/ BindStdio(r)
    BY <2>1 DEF BindFails, BindStdio
  <2>2. CASE BindListen(r)
    BY <2>2 DEF BindListen
  <2>3. CASE BindStoreListener(r)
    BY <2>3 DEF BindStoreListener
  <2>4. CASE BindStoreDone(r)
    BY <2>4 DEF BindStoreDone
  <2> QED
    BY <2>1, <2>2, <2>3, <2>4 DEF Bind
<1>2. NotClosedWhileBinding'
  BY DEF Bind, BindFails, BindStdio, BindListen, BindStoreListener, BindStoreDone,
         MayBind, TypeOK, NotClosedWhileBinding
<1>3. DoneThenListener'
  <2>1. CASE BindListen(r) /\ done[r] = "closed"
    BY <2>1 DEF BindListen, MayBind, TypeOK, SocketIsKept, BoundBeforeListener
  <2>2. CASE BindStoreDone(r)
    <3>1. /\ done' = [done EXCEPT ![r] = "open"]
          /\ UNCHANGED <<sock, close>>
      BY <2>2 DEF BindStoreDone
    <3> QED
      BY <3>1 DEF TypeOK, DoneThenListener
  <2>3. CASE BindListen(r) /\ done[r] # "closed"
    BY <2>3 DEF BindListen, TypeOK, DoneThenListener
  <2>4. CASE BindFails(r) \/ BindStdio(r) \/ BindStoreListener(r)
    BY <2>4 DEF BindFails, BindStdio, BindStoreListener, DoneThenListener
  <2> QED
    BY <2>1, <2>2, <2>3, <2>4 DEF Bind
<1>4. ClosedMeansReleased'
  BY DEF Bind, BindFails, BindStdio, BindListen, BindStoreListener, BindStoreDone,
         MayBind, TypeOK, ClosedMeansReleased
<1> QED
  BY <1>1, <1>2, <1>3, <1>4

LEMMA CloseRelease ==
  ASSUME ~StopDuringStart, IntentInv, ReleaseInv, NEW r \in Routine,
         \/ CloseStdio(r)
         \/ \E c \in Closer : CloseMark(r, c) \/ CloseStep(r, c)
  PROVE  ReleaseInv'
<1> USE DEF IntentInv, ReleaseInv, bindVars, closeVars, serveVars
<1>1. CASE CloseStdio(r)
  BY <1>1 DEF CloseStdio, SocketIsKept, BoundBeforeListener, NotClosedWhileBinding, DoneThenListener,
              ClosedMeansReleased
<1>2. ASSUME NEW c \in Closer, CloseMark(r, c)
      PROVE  ReleaseInv'
  <2>1. (SocketIsKept /\ BoundBeforeListener /\ NotClosedWhileBinding)'
    BY <1>2 DEF CloseMark, MayClose, TypeOK, SocketIsKept, NotClosedWhileBinding,
            BoundBeforeListener
  <2>2. DoneThenListener'
    BY <1>2 DEF CloseMark, TypeOK, DoneThenListener
  <2>3. ClosedMeansReleased'
    BY <1>2 DEF CloseMark, TypeOK, ClosedMeansReleased
  <2> QED
    BY <2>1, <2>2, <2>3
<1>3. ASSUME NEW c \in Closer, CloseCheckDone(r, c)
      PROVE  ReleaseInv'
  <2>1. (SocketIsKept /\ BoundBeforeListener /\ NotClosedWhileBinding)'
    BY <1>3 DEF CloseCheckDone, SocketIsKept, NotClosedWhileBinding,
            BoundBeforeListener
  <2>2. DoneThenListener' /\ ClosedMeansReleased'
    BY <1>3 DEF CloseCheckDone, TypeOK, DoneThenListener, ClosedMeansReleased
  <2> QED
    BY <2>1, <2>2
<1>4. ASSUME NEW c \in Closer, CloseDone(r, c)
      PROVE  ReleaseInv'
  <2>1. (SocketIsKept /\ BoundBeforeListener /\ NotClosedWhileBinding)'
    BY <1>4 DEF CloseDone, TypeOK, SocketIsKept, NotClosedWhileBinding,
            BoundBeforeListener
  <2>2. DoneThenListener'
    <3>1. CASE done[r] = "open"
      <4>1. /\ close' = [close EXCEPT ![r][c] = "closeListener"]
            /\ done' = [done EXCEPT ![r] = "closed"]
            /\ UNCHANGED sock
        BY <1>4, <3>1 DEF CloseDone
      <4> QED
        BY <4>1 DEF TypeOK, DoneThenListener
    <3>2. CASE done[r] = "closed"
      <4>1. /\ close' = [close EXCEPT ![r][c] = "idle"]
            /\ close[r][c] = "closeDone"
            /\ UNCHANGED <<sock, done>>
        BY <1>4, <3>2 DEF CloseDone
      <4> QED
        BY <4>1 DEF TypeOK, DoneThenListener
    <3> QED
      BY <1>4, <3>1, <3>2 DEF CloseDone
  <2>3. CASE done[r] = "open"
    <3>1. /\ close' = [close EXCEPT ![r][c] = "closeListener"]
          /\ UNCHANGED <<sock, closed>>
      BY <1>4, <2>3 DEF CloseDone
    <3>2. ClosedMeansReleased'
      BY <3>1 DEF TypeOK, ClosedMeansReleased
    <3> QED
      BY <2>1, <2>2, <3>2
  <2>4. CASE done[r] = "closed"
    <3>1. /\ close' = [close EXCEPT ![r][c] = "idle"]
          /\ close[r][c] = "closeDone"
          /\ UNCHANGED <<sock, closed>>
      BY <1>4, <2>4 DEF CloseDone
    <3>2. ClosedMeansReleased'
      BY <2>4, <3>1 DEF TypeOK, DoneThenListener, ClosedMeansReleased
    <3> QED
      BY <2>1, <2>2, <3>2
  <2> QED
    BY <1>4, <2>3, <2>4 DEF CloseDone
<1>5. ASSUME NEW c \in Closer, closeListener(r, c)
      PROVE  ReleaseInv'
  <2>1. closed[r] /\ bind[r] # "acquired"
    BY <1>5 DEF closeListener, CloseRecorded, NotClosedWhileBinding
  <2>2. sock'[r] # "open"
    BY <1>5, <2>1 DEF closeListener, TypeOK, SocketIsKept
  <2>3. (SocketIsKept /\ BoundBeforeListener /\ NotClosedWhileBinding)'
    BY <1>5 DEF closeListener, TypeOK, SocketIsKept, NotClosedWhileBinding,
            BoundBeforeListener
  <2>4. DoneThenListener' /\ ClosedMeansReleased'
    BY <1>5, <2>2 DEF closeListener, TypeOK, DoneThenListener, ClosedMeansReleased
  <2> QED
    BY <2>3, <2>4
<1> QED
  BY <1>1, <1>2, <1>3, <1>4, <1>5 DEF CloseStep

LEMMA NextRelease ==
  ASSUME ~StopDuringStart
  PROVE  IntentInv /\ ReleaseInv /\ [Next]_vars => ReleaseInv'
<1> SUFFICES ASSUME IntentInv, ReleaseInv, [Next]_vars
             PROVE  ReleaseInv'
  OBVIOUS
<1>1. CASE UNCHANGED vars
  BY <1>1 DEF vars, ReleaseInv, SocketIsKept, NotClosedWhileBinding,
              DoneThenListener, ClosedMeansReleased, BoundBeforeListener
<1>2. CASE DeviceClose
  BY <1>2 DEF DeviceClose, ReleaseInv, IntentInv, TypeOK, SocketIsKept,
     NotClosedWhileBinding, DoneThenListener, ClosedMeansReleased, closeVars,
     serveVars, BoundBeforeListener
<1>3. ASSUME NEW r \in Routine,
             Serve(r) \/ ServeListenerClosed(r) \/ ServeAcceptFault(r)
      PROVE  ReleaseInv'
  BY <1>3 DEF Serve, ServeListenerClosed, ServeAcceptFault, bindVars, closeVars,
     ReleaseInv, SocketIsKept, NotClosedWhileBinding, DoneThenListener,
     ClosedMeansReleased, BoundBeforeListener
<1>4. CASE Next
  BY <1>2, <1>3, <1>4, BindRelease, CloseRelease DEF Next
<1> QED
  BY <1>1, <1>4

\* Close gives the port back, to whatever depth Close calls overlap, as long as
\* the application does not close a routine it is still binding: only a Close
\* call that has not finished stands between the request and a free port.
THEOREM PortIsReleased ==
  ASSUME ~StopDuringStart
  PROVE  Spec => []ClosedMeansReleased
<1>1. Init => ReleaseInv
  BY DEF Init, ReleaseInv, SocketIsKept, NotClosedWhileBinding, DoneThenListener,
         ClosedMeansReleased, BoundBeforeListener
<1>2. ReleaseInv => ClosedMeansReleased
  BY DEF ReleaseInv
<1> QED
  BY <1>1, <1>2, InitIntent, NextIntent, NextRelease, PTL DEF Spec

-----------------------------------------------------------------------------
(* Close calls that do not overlap                                         *)

\* Whatever Bind has finished with has its listener, which nothing takes away.
OkHasListener ==
  \A r \in Routine : /\ bind[r] = "stored" => listener[r]
                     /\ bind[r] = "ok" => listener[r] \/ Kind[r] = "stdio"

\* A call that has overlapped no other is the only one under way.
AloneIsAlone ==
  \A r \in Routine : \A c, d \in Closer :
    close[r][c] # "idle" /\ c \notin together[r] /\ d # c => close[r][d] = "idle"

\* Such a call finds the done channel as it has seen it.
DoneStaysOpen ==
  \A r \in Routine, c \in Closer :
    close[r][c] = "closeDone" /\ c \notin together[r] => done[r] = "open"

SerialInv == OkHasListener /\ AloneIsAlone /\ DoneStaysOpen

LEMMA BindSerial ==
  ASSUME IntentInv, SerialInv, NEW r \in Routine, Bind(r)
  PROVE  SerialInv'
<1> USE DEF IntentInv, SerialInv, closeVars
<1>1. UNCHANGED <<close, together>>
  BY DEF Bind, BindFails, BindStdio, BindListen, BindStoreListener, BindStoreDone
<1>2. \A q \in Routine : done'[q] = done[q] \/ done'[q] = "open"
  BY DEF Bind, BindFails, BindStdio, BindListen, BindStoreListener, BindStoreDone,
         TypeOK
<1>3. AloneIsAlone' /\ DoneStaysOpen'
  BY <1>1, <1>2 DEF AloneIsAlone, DoneStaysOpen
<1>4. OkHasListener'
  <2> USE DEF TypeOK, OkHasListener
  <2>1. CASE BindFails(r) \/ BindStdio(r)
    BY <2>1 DEF BindFails, BindStdio
  <2>2. CASE BindListen(r)
    BY <2>2 DEF BindListen
  <2>3. CASE BindStoreListener(r)
    BY <2>3 DEF BindStoreListener
  <2>4. CASE BindStoreDone(r)
    BY <2>4 DEF BindStoreDone
  <2> QED
    BY <2>1, <2>2, <2>3, <2>4 DEF Bind
<1> QED
  BY <1>3, <1>4

LEMMA CloseSerial ==
  ASSUME IntentInv, SerialInv, NEW r \in Routine, NEW c \in Closer,
         CloseMark(r, c) \/ CloseStep(r, c)
  PROVE  SerialInv'
<1> USE DEF IntentInv, SerialInv, bindVars
<1>1. OkHasListener'
  BY DEF CloseMark, CloseStep, CloseCheckDone, CloseDone, closeListener, OkHasListener
<1>2. CASE CloseMark(r, c)
  <2>1. \A q \in Routine, d \in Closer : q # r \/ d # c => close'[q][d] = close[q][d]
    BY <1>2 DEF CloseMark, TypeOK
  <2>2. \A q \in Routine : q # r => together'[q] = together[q]
    BY <1>2 DEF CloseMark, TypeOK
  <2>3. close[r][c] = "idle" /\ close'[r][c] \in {"checkDone", "closeListener"}
    BY <1>2 DEF CloseMark, TypeOK
  <2>4. CASE OtherCalls(r, c) = {}
    <3>1. \A d \in Closer : d # c => close[r][d] = "idle"
      BY <2>4 DEF OtherCalls
    <3> QED
      BY <1>1, <1>2, <2>1, <2>2, <2>3, <3>1 DEF CloseMark, AloneIsAlone, DoneStaysOpen
  <2>5. CASE OtherCalls(r, c) # {}
    <3>1. together'[r] = together[r] \cup {c} \cup OtherCalls(r, c)
      BY <1>2, <2>5 DEF CloseMark, TypeOK
    <3>2. \A d \in Closer : close'[r][d] # "idle" => d \in together'[r]
      BY <2>1, <3>1 DEF OtherCalls
    <3> QED
      BY <1>1, <1>2, <2>1, <2>2, <3>2 DEF CloseMark, AloneIsAlone, DoneStaysOpen
  <2> QED
    BY <2>4, <2>5
<1>3. CASE CloseCheckDone(r, c)
  BY <1>1, <1>3 DEF CloseCheckDone, TypeOK, AloneIsAlone, DoneStaysOpen
<1>4. CASE CloseDone(r, c)
  <2>1. UNCHANGED together /\ close[r][c] = "closeDone"
    BY <1>4 DEF CloseDone
  <2>2. \A q \in Routine, d \in Closer : q # r \/ d # c => close'[q][d] = close[q][d]
    BY <1>4 DEF CloseDone, TypeOK
  <2>3. AloneIsAlone'
    BY <2>1, <2>2 DEF AloneIsAlone
  <2>4. \A d \in Closer : d # c /\ close[r][d] # "idle" => d \in together[r]
    BY <2>1 DEF AloneIsAlone
  <2>5. close'[r][c] # "closeDone"
    BY <1>4 DEF CloseDone, TypeOK
  <2>6. \A q \in Routine : q # r => done'[q] = done[q]
    BY <1>4 DEF CloseDone, TypeOK
  <2>7. DoneStaysOpen'
    BY <2>1, <2>2, <2>4, <2>5, <2>6 DEF DoneStaysOpen
  <2> QED
    BY <1>1, <2>3, <2>7
<1>5. CASE closeListener(r, c)
  BY <1>1, <1>5 DEF closeListener, TypeOK, AloneIsAlone, DoneStaysOpen
<1> QED
  BY <1>2, <1>3, <1>4, <1>5 DEF CloseStep

LEMMA NextSerial == IntentInv /\ SerialInv /\ [Next]_vars => SerialInv'
<1> SUFFICES ASSUME IntentInv, SerialInv, [Next]_vars
             PROVE  SerialInv'
  OBVIOUS
<1>1. ASSUME UNCHANGED <<bind, listener, done, close, together>>
      PROVE  SerialInv'
  BY <1>1 DEF SerialInv, OkHasListener, AloneIsAlone, DoneStaysOpen
<1>2. CASE DeviceClose \/ UNCHANGED vars
  BY <1>1, <1>2 DEF DeviceClose, closeVars, vars
<1>3. ASSUME NEW r \in Routine,
             Serve(r) \/ ServeListenerClosed(r) \/ ServeAcceptFault(r) \/ CloseStdio(r)
      PROVE  SerialInv'
  BY <1>1, <1>3 DEF Serve, ServeListenerClosed, ServeAcceptFault, CloseStdio,
     bindVars, closeVars
<1> QED
  BY <1>2, <1>3, BindSerial, CloseSerial DEF Next

\* What the two last steps of a call that overlaps no other report.
LEMMA SerialResult ==
  ASSUME IntentInv, SerialInv, NEW r \in Routine, NEW c \in Closer, Next,
         close[r][c] # "idle", close'[r][c] = "idle", c \notin together[r],
         bind[r] = "ok" \/ Kind[r] # "udpProxy"
  PROVE  closeRes'[r] \subseteq closeRes[r] \cup {"nil"}
<1> USE DEF IntentInv, SerialInv
<1>1. ASSUME NEW q \in Routine, NEW d \in Closer, closeListener(q, d)
      PROVE  closeRes'[r] \subseteq closeRes[r] \cup {"nil"}
  <2>1. CASE q # r
    BY <1>1, <2>1 DEF closeListener, TypeOK
  <2>2. CASE q = r
    <3>1. Kind[r] = "udpProxy" => listener[r]
      BY DEF OkHasListener
    <3> QED
      BY <1>1, <2>2, <3>1 DEF closeListener, CloseResults, TypeOK
  <2> QED
    BY <2>1, <2>2
<1>2. ASSUME NEW q \in Routine, NEW d \in Closer, CloseDone(q, d)
      PROVE  closeRes'[r] \subseteq closeRes[r] \cup {"nil"}
  <2>1. CASE q # r
    BY <1>2, <2>1 DEF CloseDone, TypeOK
  <2>2. CASE q = r /\ d = c
    <3>1. done[r] = "open"
      BY <1>2, <2>2 DEF CloseDone, DoneStaysOpen
    <3> QED
      BY <1>2, <2>2, <3>1 DEF CloseDone
  <2>3. CASE q = r /\ d # c
    BY <1>2, <2>3 DEF CloseDone, AloneIsAlone
  <2> QED
    BY <2>1, <2>2, <2>3
<1>3. ASSUME NEW q \in Routine, CloseStdio(q)
      PROVE  closeRes'[r] \subseteq closeRes[r] \cup {"nil"}
  BY <1>3 DEF CloseStdio, TypeOK
<1>4. ASSUME UNCHANGED closeRes
      PROVE  closeRes'[r] \subseteq closeRes[r] \cup {"nil"}
  BY <1>4
<1>5. \/ UNCHANGED closeRes
      \/ \E q \in Routine : CloseStdio(q)
      \/ \E q \in Routine, d \in Closer : CloseDone(q, d) \/ closeListener(q, d)
  BY DEF Next, Bind, BindFails, BindStdio, BindListen, BindStoreListener,
     BindStoreDone, Serve, ServeListenerClosed, ServeAcceptFault, CloseMark,
     CloseStep, CloseCheckDone, DeviceClose, closeVars
<1> QED
  BY <1>1, <1>2, <1>3, <1>4, <1>5

\* The panic of overlapping Close calls and the failing Close of a UDP proxy that
\* was never bound have no third beside them: a call that overlaps no other
\* returns nil, however many came before it and whatever the device has done.
THEOREM CloseIsIdempotent == Spec => SerialCloseIsHarmless
<1>1. Init => SerialInv
  BY DEF Init, SerialInv, OkHasListener, AloneIsAlone, DoneStaysOpen
<1>2. IntentInv /\ SerialInv /\ [Next]_vars =>
        [\A r \in Routine, c \in Closer :
           /\ close[r][c] # "idle" /\ close'[r][c] = "idle"
           /\ c \notin together[r]
           /\ bind[r] = "ok" \/ Kind[r] # "udpProxy"
           => closeRes'[r] \subseteq closeRes[r] \cup {"nil"}]_vars
  BY SerialResult
<1> QED
  BY <1>1, <1>2, InitIntent, NextIntent, NextSerial, PTL DEF Spec, SerialCloseIsHarmless

-----------------------------------------------------------------------------
\* A step that makes a read loop go round on a dead socket is taken only after
\* the device has closed a netstack listener, and before Close is asked for.
SpinNeedsDevice ==
  [][\A r \in spun' \ spun : ~deviceUp /\ ~closed[r] /\ Kind[r] \in OnNetstack]_vars

\* A UDP read loop goes round on a dead socket only once the device has closed
\* a netstack listener nobody asked to close.
THEOREM SpinIsExplained == Spec => SpinNeedsDevice
<1>1. IntentInv /\ [Next]_vars =>
        [\A r \in spun' \ spun :
           ~deviceUp /\ ~closed[r] /\ Kind[r] \in OnNetstack]_vars
  <2> SUFFICES ASSUME IntentInv, Next, NEW r \in spun' \ spun
               PROVE  ~deviceUp /\ ~closed[r] /\ Kind[r] \in OnNetstack
    BY DEF vars
  <2>1. PICK q \in Routine : ServeListenerClosed(q) /\ spun' = spun \cup {q}
    BY DEF Next, Bind, BindFails, BindStdio, BindListen, BindStoreListener,
       BindStoreDone, Serve, ServeListenerClosed, ServeAcceptFault, CloseStdio,
       CloseMark, CloseStep, CloseCheckDone, CloseDone, closeListener, DeviceClose,
       serveVars
  <2>2. q = r
    BY <2>1
  <2> QED
    BY <2>1, <2>2 DEF ServeListenerClosed, closedByUs, ClosedError, IntentInv,
       ClosedByCloseOrDevice
<1> QED
  BY <1>1, InitIntent, NextIntent, PTL DEF Spec, SpinNeedsDevice

=============================================================================
