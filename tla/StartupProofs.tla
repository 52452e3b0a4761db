---------------------------- MODULE StartupProofs ----------------------------
(***************************************************************************)
(* Proofs about the command-line program for any list of routines, any     *)
(* options, with Landlock or without.                                      *)
(***************************************************************************)
EXTENDS Startup, TLAPS

\* The sandbox never lacks what the configuration names, in the parent of a
\* daemon or in the daemon.
RulesInv ==
  /\ bindRules \subseteq bindPorts
  /\ connectRules \subseteq connectPorts
  /\ SystemFiles \cup tlsFilePaths \subseteq files

\* Binding ends before serving begins.
StageInv ==
  /\ pc \in {"serve", "wait"} => bound = Index
  /\ pc \notin {"serve", "wait"} => serving = {}

\* lockNetwork leaves no more than the rules, whatever stage comes after it.
TightInv ==
  Landlock /\ pc \in {"spawn", "ready", "tunnel", "bind", "serve", "wait"} =>
    bindPorts \subseteq bindRules /\ connectPorts \subseteq connectRules

Inv == TypeOK /\ RulesInv /\ StageInv /\ TightInv /\ SandboxIsTight

-----------------------------------------------------------------------------
\* What the configuration names is there to be left.
LEMMA RulesExist ==
  ASSUME opts \in Options
  PROVE  /\ bindRules \subseteq Ports
         /\ connectRules \subseteq Ports
         /\ SystemFiles \cup tlsFilePaths \subseteq Files
<1>1. bindRules \subseteq Ports
  BY StartupAssumption DEF bindRules, Options
<1>2. connectRules \subseteq Ports
  BY StartupAssumption DEF connectRules
<1>3. SystemFiles \cup tlsFilePaths \subseteq Files
  BY StartupAssumption DEF tlsFilePaths
<1> QED
  BY <1>1, <1>2, <1>3

LEMMA InitInv == Init => Inv
<1> SUFFICES ASSUME Init
             PROVE  Inv
  OBVIOUS
<1>1. TypeOK
  BY DEF Init, TypeOK, Stages
<1>2. RulesInv
  BY RulesExist DEF Init, RulesInv
<1>3. StageInv /\ TightInv /\ SandboxIsTight
  BY DEF Init, StageInv, TightInv, SandboxIsTight
<1> QED
  BY <1>1, <1>2, <1>3 DEF Inv

\* The rules are those of the options, and no step changes the options.
LEMMA RulesAreFixed ==
  ASSUME opts' = opts
  PROVE  bindRules' = bindRules
  BY DEF bindRules

\* A step that tightens nothing and moves main to a stage before the sandbox is
\* closed, or within those after it, or not at all.
LEMMA QuietInv ==
  ASSUME Inv, UNCHANGED <<opts, sandbox>>,
         TypeOK', StageInv',
         \/ pc' = pc
         \/ pc' \in {"boot", "args", "config", "network"}
         \/ pc \in {"tunnel", "bind", "serve", "wait"}
  PROVE  Inv'
<1>1. UNCHANGED <<files, bindPorts, connectPorts>>
  BY DEF sandbox
<1>2. RulesInv'
  BY <1>1, RulesAreFixed DEF Inv, RulesInv
<1>3. TightInv' /\ SandboxIsTight'
  BY <1>1, RulesAreFixed DEF Inv, TightInv, SandboxIsTight
<1> QED
  BY <1>2, <1>3 DEF Inv

LEMMA ExitInv ==
  ASSUME Inv, NEW how \in {"ok", "fatal", "panic"}, Exit(how)
  PROVE  Inv'
<1>1. UNCHANGED <<opts, pc, daemonProcess, sandbox, bound, serving, infoState, refused, signalled>>
  BY DEF Exit, network
<1>2. TypeOK'
  BY <1>1 DEF Inv, TypeOK, Exit, sandbox
<1>3. StageInv'
  BY <1>1 DEF Inv, StageInv
<1> QED
  BY <1>1, <1>2, <1>3, QuietInv

LEMMA lockNetworkInv ==
  ASSUME Inv, lockNetwork
  PROVE  Inv'
<1>1. CASE Exit("panic") \/ Exit("fatal")
  BY <1>1, ExitInv
<1>2. CASE /\ GoTo(IF opts.daemon /\ ~daemonProcess THEN "spawn" ELSE "ready")
           /\ bindPorts' = IF Landlock THEN bindPorts \cap bindRules ELSE bindPorts
           /\ connectPorts' = IF Landlock THEN connectPorts \cap connectRules
                              ELSE connectPorts
           /\ UNCHANGED <<files, network>>
  <2>1. /\ pc = "network" /\ pc' \in {"spawn", "ready"}
        /\ UNCHANGED <<opts, daemonProcess, signalled, exit, files, bound, serving, infoState, refused>>
    BY <1>2 DEF lockNetwork, GoTo, network
  <2>2. TypeOK'
    BY <1>2, <2>1 DEF Inv, TypeOK, Stages
  <2>3. RulesInv'
    BY <1>2, <2>1, RulesAreFixed DEF Inv, RulesInv
  <2>4. StageInv' /\ SandboxIsTight'
    BY <2>1 DEF Inv, StageInv, SandboxIsTight
  <2>5. TightInv'
    BY <1>2, <2>1, RulesAreFixed DEF TightInv
  <2> QED
    BY <2>2, <2>3, <2>4, <2>5 DEF Inv
<1> QED
  BY <1>1, <1>2 DEF lockNetwork, SandboxFails

LEMMA LockReadyInv ==
  ASSUME Inv, LockReady, ~Exit("fatal")
  PROVE  Inv'
<1>1. /\ pc = "ready" /\ pc' = "tunnel"
      /\ files' = IF Landlock THEN files \cap (SystemFiles \cup tlsFilePaths) ELSE files
      /\ UNCHANGED <<opts, daemonProcess, signalled, exit, bindPorts, connectPorts,
                     bound, serving, infoState, refused>>
  BY DEF LockReady, SandboxFails, GoTo, network
<1>2. TypeOK'
  BY <1>1 DEF Inv, TypeOK, Stages
<1>3. RulesInv'
  BY <1>1, RulesAreFixed DEF Inv, RulesInv
<1>4. StageInv'
  BY <1>1 DEF Inv, StageInv
<1>5. TightInv' /\ SandboxIsTight'
  BY <1>1, RulesAreFixed DEF Inv, TightInv, SandboxIsTight
<1> QED
  BY <1>2, <1>3, <1>4, <1>5 DEF Inv

LEMMA MainInv ==
  ASSUME Inv, Main
  PROVE  Inv'
<1> USE DEF sandbox, network
<1>1. CASE LockBoot
  BY <1>1, ExitInv, QuietInv DEF LockBoot, SandboxFails, GoTo, Inv, TypeOK, StageInv, Stages
<1>2. CASE ParseArgs
  BY <1>2, ExitInv, QuietInv DEF ParseArgs, GoTo, Inv, TypeOK, StageInv, Stages
<1>3. CASE ReadConfig
  BY <1>3, ExitInv, QuietInv DEF ReadConfig, GoTo, Inv, TypeOK, StageInv, Stages
<1>4. CASE lockNetwork
  BY <1>4, lockNetworkInv
<1>5. CASE SpawnDaemon
  BY <1>5, ExitInv, QuietInv DEF SpawnDaemon, Inv, TypeOK, StageInv, Stages
<1>6. CASE LockReady
  BY <1>6, ExitInv, LockReadyInv
<1>7. CASE StartWireguard
  BY <1>7, ExitInv, QuietInv DEF StartWireguard, GoTo, Inv, TypeOK, StageInv, Stages
<1>8. ASSUME NEW i \in Index, BindRoutine(i)
      PROVE  Inv'
  BY <1>8, ExitInv, QuietInv DEF BindRoutine, Inv, TypeOK, StageInv
<1>9. ASSUME NEW i \in Index, ServeRoutine(i)
      PROVE  Inv'
  BY <1>9, QuietInv DEF ServeRoutine, Inv, TypeOK, StageInv
<1>10. CASE BindDone
  BY <1>10, QuietInv DEF BindDone, GoTo, Inv, TypeOK, StageInv, Stages
<1>11. CASE StartInfo
  BY <1>11, QuietInv DEF StartInfo, GoTo, Inv, TypeOK, StageInv, Stages
<1>12. CASE Wait
  BY <1>12, ExitInv DEF Wait
<1> QED
  BY <1>1, <1>2, <1>3, <1>4, <1>5, <1>6, <1>7, <1>8, <1>9, <1>10, <1>11, <1>12 DEF Main

LEMMA NextInv == Inv /\ [Next]_vars => Inv'
<1> SUFFICES ASSUME Inv, [Next]_vars
             PROVE  Inv'
  OBVIOUS
<1> USE DEF sandbox, network
<1>1. CASE Main
  BY <1>1, MainInv
<1>2. CASE InfoListen
  BY <1>2, ExitInv, QuietInv DEF InfoListen, Inv, TypeOK, StageInv
<1>3. ASSUME NEW i \in Index, ServeFails(i)
      PROVE  Inv'
  BY <1>3, ExitInv DEF ServeFails
<1>4. ASSUME NEW i \in Index, NEW port \in Ports, DirectDial(i, port)
      PROVE  Inv'
  BY <1>4, QuietInv DEF DirectDial, Inv, TypeOK, StageInv
<1>5. CASE Signal
  BY <1>5, QuietInv DEF Signal, Inv, TypeOK, StageInv
<1>6. CASE UNCHANGED vars
  BY <1>6, QuietInv DEF vars, Inv, TypeOK, StageInv
<1> QED
  BY <1>1, <1>2, <1>3, <1>4, <1>5, <1>6 DEF Next

LEMMA Invariance == Spec => []Inv
  BY InitInv, NextInv, PTL DEF Spec

-----------------------------------------------------------------------------
(* Theorems                                                                *)

\* The state of the program is well typed through every stage of main.
THEOREM TypeCorrect == Spec => []TypeOK
  BY Invariance, PTL DEF Inv

\* No Serve goroutine is started before the last Bind has succeeded, in the
\* process that main began in or in the daemon.
THEOREM ServeComesLast == Spec => []BindBeforeServe
<1>1. Inv => BindBeforeServe
  BY DEF Inv, StageInv, BindBeforeServe
<1> QED
  BY <1>1, Invariance, PTL

\* lockNetwork and lock("ready") leave every listener, forwarding target and
\* certificate of any configuration usable, though applied twice in a daemon.
THEOREM SandboxFits == Spec => []SandboxFitsConfig
<1>1. Inv => SandboxFitsConfig
  <2> SUFFICES ASSUME Inv, NEW i \in Index
               PROVE  /\ MayBind(i)
                      /\ Routines[i].kind = "tcpServer" => Routines[i].target \in connectPorts
                      /\ opts.info # NoPort => opts.info \in bindPorts
    BY DEF SandboxFitsConfig, Inv, RulesInv, bindRules
  <2>1. MayBind(i)
    BY DEF Inv, RulesInv, bindRules, tlsFilePaths, MayBind
  <2>2. Routines[i].kind = "tcpServer" => Routines[i].target \in connectPorts
    BY DEF Inv, RulesInv, connectRules
  <2>3. opts.info # NoPort => opts.info \in bindPorts
    BY DEF Inv, RulesInv, bindRules
  <2> QED
    BY <2>1, <2>2, <2>3
<1> QED
  BY <1>1, Invariance, PTL

\* From lock("ready") on the process reads system files and certificates only, and
\* has no TCP port but those of its listeners and forwarding targets: none for the
\* direct dials of a proxy that routes by domain either.
THEOREM SandboxIsNoWider == Spec => []SandboxIsTight
  BY Invariance, PTL DEF Inv

==============================================================================
