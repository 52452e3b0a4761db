------------------------------ MODULE Startup ------------------------------
(***************************************************************************)
(* The command-line program (cmd/wireproxy/main.go): the stages of main,   *)
(* the sandbox they tighten one after the other, the daemon that starts    *)
(* the program again inside the sandbox of the first, and the goroutines   *)
(* any of which may end the process.  The sandbox is Linux's: sets of      *)
(* files and of TCP ports, which can only shrink and which a child         *)
(* inherits.                                                               *)
(***************************************************************************)
EXTENDS Naturals, Sequences

CONSTANTS
  Routines,    \* conf.Routines: records with kind, port, target, cert, direct
  Ports,       \* TCP ports of the host and of the hosts it connects to
  Files,       \* files the program may want to read
  SystemFiles, \* those the last stage of the sandbox leaves readable
  InfoPort,    \* the port that -i may name
  NoPort,
  NoFile,
  Landlock     \* whether the kernel and the build have Landlock

Index == 1..Len(Routines)

\* Which routines listen on a TCP port of the host.
HostListeners == {"http", "tcpClient", "socks5", "sni"}

ASSUME StartupAssumption ==
  /\ SystemFiles \subseteq Files
  /\ InfoPort \in Ports
  /\ NoPort \notin Ports /\ NoFile \notin Files
  /\ Landlock \in BOOLEAN
  /\ \A i \in Index :
       /\ Routines[i].kind \in HostListeners => Routines[i].port \in Ports
       /\ Routines[i].kind = "tcpServer" => Routines[i].target \in Ports
       /\ Routines[i].cert \in Files \cup {NoFile}

VARIABLES
  opts,          \* the options -d, -n and -i, which a daemon is given again
  pc,            \* the stage main has reached
  daemonProcess, \* whether this is the process that -d started
  files,         \* the files the sandbox lets the process read
  bindPorts,     \* the TCP ports it may bind
  connectPorts,  \* the TCP ports it may connect to
  bound,         \* routines whose Bind has succeeded
  serving,       \* routines whose Serve was started
  infoState,     \* the health listener: "none", "starting" or "listening"
  refused,       \* routines that were refused a direct connection
  signalled,     \* whether SIGINT or SIGQUIT has arrived
  exit           \* how the process ended: "none", "ok", "fatal" or "panic"

vars == <<opts, pc, daemonProcess, files, bindPorts, connectPorts, bound, serving,
          infoState, refused, signalled, exit>>

Options == [daemon : BOOLEAN, configTest : BOOLEAN, info : {InfoPort, NoPort}]

sandbox == <<files, bindPorts, connectPorts>>
network == <<bound, serving, infoState, refused>>

Stages == {"boot", "args", "config", "network", "spawn", "ready", "tunnel", "bind",
           "serve", "wait"}

TypeOK ==
  /\ opts \in Options
  /\ pc \in Stages
  /\ daemonProcess \in BOOLEAN
  /\ files \subseteq Files
  /\ bindPorts \subseteq Ports
  /\ connectPorts \subseteq Ports
  /\ bound \subseteq Index
  /\ serving \subseteq Index
  /\ infoState \in {"none", "starting", "listening"}
  /\ refused \subseteq Index
  /\ signalled \in BOOLEAN
  /\ exit \in {"none", "ok", "fatal", "panic"}

Init ==
  /\ opts \in Options
  /\ pc = "boot"
  /\ daemonProcess = FALSE
  /\ files = Files
  /\ bindPorts = Ports
  /\ connectPorts = Ports
  /\ bound = {}
  /\ serving = {}
  /\ infoState = "none"
  /\ refused = {}
  /\ signalled = FALSE
  /\ exit = "none"

Running == exit = "none"

-----------------------------------------------------------------------------
(* The stages of main                                                      *)

\* A stage that ends the process.
Exit(how) ==
  /\ exit' = how
  /\ UNCHANGED <<opts, pc, daemonProcess, sandbox, network, signalled>>

\* A stage after which main goes on.
GoTo(stage) ==
  /\ pc' = stage
  /\ UNCHANGED <<opts, daemonProcess, signalled, exit>>

\* panicIfError: a sandbox that cannot be set up ends the process.
SandboxFails == Landlock /\ Exit("fatal")

\* lock("boot"): the whole file system is left readable.
LockBoot ==
  /\ pc = "boot"
  /\ \/ SandboxFails
     \/ GoTo("args") /\ UNCHANGED <<sandbox, network>>

\* Wrong arguments, -v, or no configuration file to be found: main returns.
ParseArgs ==
  /\ pc = "args"
  /\ \/ Exit("ok")
     \/ GoTo("config") /\ UNCHANGED <<sandbox, network>>

\* ParseConfig; the configuration test ends here.
ReadConfig ==
  /\ pc = "config"
  /\ \/ Exit("fatal")
     \/ opts.configTest /\ Exit("ok")
     \/ ~opts.configTest /\ GoTo("network") /\ UNCHANGED <<sandbox, network>>

\* Defect: the newest kind of routine is missing from the type switch.
bindRules_NoSNI ==
  {Routines[i].port : i \in {j \in Index : Routines[j].kind \in HostListeners \ {"sni"}}}
    \cup ({opts.info} \ {NoPort})

bindRules ==
  {Routines[i].port : i \in {j \in Index : Routines[j].kind \in HostListeners}}
    \cup ({opts.info} \ {NoPort})

connectRules ==
  {Routines[i].target : i \in {j \in Index : Routines[j].kind = "tcpServer"}}

\* extractPort panics on an address without a numeric port.
lockNetwork ==
  /\ pc = "network"
  /\ \/ Exit("panic")
     \/ SandboxFails
     \/ /\ GoTo(IF opts.daemon /\ ~daemonProcess THEN "spawn" ELSE "ready")
        /\ bindPorts' = IF Landlock THEN bindPorts \cap bindRules ELSE bindPorts
        /\ connectPorts' = IF Landlock THEN connectPorts \cap connectRules
                           ELSE connectPorts
        /\ UNCHANGED <<files, network>>

\* -d: the program is started again, in the sandbox of its parent, which
\* returns whether or not that succeeds.
SpawnDaemon ==
  /\ pc = "spawn"
  /\ \/ Exit("ok")
     \/ /\ daemonProcess' = TRUE
        /\ pc' = "boot"
        /\ signalled' = FALSE
        /\ UNCHANGED <<opts, sandbox, network, exit>>

tlsFilePaths == {Routines[i].cert : i \in Index} \ {NoFile}

\* Defect: the last stage of the sandbox is forgotten.
LockReady_Open ==
  /\ pc = "ready"
  /\ GoTo("tunnel")
  /\ UNCHANGED <<sandbox, network>>

\* lock("ready"): from here on only networking.
LockReady ==
  /\ pc = "ready"
  /\ \/ SandboxFails
     \/ /\ files' = IF Landlock THEN files \cap (SystemFiles \cup tlsFilePaths) ELSE files
        /\ GoTo("tunnel")
        /\ UNCHANGED <<bindPorts, connectPorts, network>>

StartWireguard ==
  /\ pc = "tunnel"
  /\ \/ Exit("fatal")
     \/ GoTo("bind") /\ UNCHANGED <<sandbox, network>>

\* What the sandbox must leave to a routine for its Bind.
MayBind(i) ==
  /\ Routines[i].kind \in HostListeners => Routines[i].port \in bindPorts
  /\ Routines[i].cert # NoFile => Routines[i].cert \in files

\* Bind, one routine after the other: the first that fails is fatal.
BindRoutine(i) ==
  /\ pc = "bind"
  /\ i \notin bound /\ \A j \in Index : j < i => j \in bound
  /\ \/ Exit("fatal")
     \/ /\ MayBind(i)
        /\ bound' = bound \cup {i}
        /\ UNCHANGED <<opts, pc, daemonProcess, sandbox, serving, infoState, refused,
                       signalled, exit>>

\* Defect: serving begins with the first routine that is bound.
BindDone_Early ==
  /\ pc = "bind"
  /\ bound # {}
  /\ GoTo("serve")
  /\ UNCHANGED <<sandbox, network>>

BindDone ==
  /\ pc = "bind"
  /\ bound = Index
  /\ GoTo("serve")
  /\ UNCHANGED <<sandbox, network>>

\* A goroutine for every routine.
ServeRoutine(i) ==
  /\ pc = "serve"
  /\ i \notin serving /\ \A j \in Index : j < i => j \in serving
  /\ serving' = serving \cup {i}
  /\ UNCHANGED <<opts, pc, daemonProcess, sandbox, bound, infoState, refused, signalled,
                 exit>>

\* StartPingIPs, and the goroutine for the health listener.
StartInfo ==
  /\ pc = "serve"
  /\ serving = Index
  /\ GoTo("wait")
  /\ infoState' = IF opts.info = NoPort THEN "none" ELSE "starting"
  /\ UNCHANGED <<sandbox, bound, serving, refused>>

\* Defect: main waits for the routines and not for the signal.
Wait_Deaf ==
  /\ pc = "wait"
  /\ signalled
  /\ UNCHANGED vars

\* <-ctx.Done(): main returns.
Wait ==
  /\ pc = "wait"
  /\ signalled
  /\ Exit("ok")

Main ==
  \/ LockBoot
  \/ ParseArgs
  \/ ReadConfig
  \/ lockNetwork
  \/ SpawnDaemon
  \/ LockReady
  \/ StartWireguard
  \/ \E i \in Index : BindRoutine(i) \/ ServeRoutine(i)
  \/ BindDone
  \/ StartInfo
  \/ Wait

-----------------------------------------------------------------------------
(* The goroutines and the outside                                          *)

\* http.ListenAndServe, whose error is a panic.
InfoListen ==
  /\ infoState = "starting"
  /\ \/ Exit("panic")
     \/ /\ opts.info \in bindPorts
        /\ infoState' = "listening"
        /\ UNCHANGED <<opts, pc, daemonProcess, sandbox, bound, serving, refused, signalled,
                       exit>>

\* An error of Serve is fatal to the process.
ServeFails(i) ==
  /\ i \in serving
  /\ Exit("fatal")

\* RoutedDial and routedSocks5Dial connect to a host that is not whitelisted
\* directly, to whatever port the client asked for.
DirectDial(i, port) ==
  /\ i \in serving
  /\ Routines[i].direct
  /\ refused' = IF port \in connectPorts THEN refused ELSE refused \cup {i}
  /\ UNCHANGED <<opts, pc, daemonProcess, sandbox, bound, serving, infoState, signalled,
                 exit>>

\* The signal goroutine, which main starts first, cancels the context.
Signal ==
  /\ ~signalled
  /\ signalled' = TRUE
  /\ UNCHANGED <<opts, pc, daemonProcess, sandbox, network, exit>>

Next ==
  /\ Running
  /\ \/ Main
     \/ InfoListen
     \/ \E i \in Index : ServeFails(i) \/ \E port \in Ports : DirectDial(i, port)
     \/ Signal

Spec == Init /\ [][Next]_vars

\* main and the health goroutine go on; signals and failures need not come.
FairSpec == Spec /\ WF_vars(Running /\ Main) /\ WF_vars(Running /\ InfoListen)

-----------------------------------------------------------------------------
(* Properties                                                              *)

\* No routine serves while another could still fail to bind.
BindBeforeServe == serving # {} => bound = Index

\* The sandbox fits the configuration: once it is closed, through however many
\* stages and processes, every listener, certificate and forwarding target the
\* configuration names is still within it.
SandboxFitsConfig ==
  pc \in {"tunnel", "bind", "serve", "wait"} =>
    /\ \A i \in Index :
         /\ MayBind(i)
         /\ Routines[i].kind = "tcpServer" => Routines[i].target \in connectPorts
    /\ opts.info # NoPort => opts.info \in bindPorts

\* Nor is it wider than that: once the tunnel starts, the process can read nothing
\* but system files and certificates, neither its configuration nor anything else,
\* and can bind and connect to no port that no routine and no option names.
SandboxIsTight ==
  Landlock /\ pc \in {"tunnel", "bind", "serve", "wait"} =>
    /\ files \subseteq SystemFiles \cup tlsFilePaths
    /\ bindPorts \subseteq bindRules
    /\ connectPorts \subseteq connectRules

\* A signal ends the process whenever it arrives, however early; one that is
\* sent to the parent of a daemon is the parent's.
SignalEnds == signalled ~> ~Running \/ ~signalled

\* A host that is not whitelisted can be dialled directly.
DirectIsReachable == refused = {}

==============================================================================
