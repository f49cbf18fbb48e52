-------------------------- MODULE VaultManagerMain --------------------------
(***************************************************************************)
(* The process around VaultManager: vault_manager_main.cc in its four      *)
(* builds, with its options, the handlers of signals, console events or    *)
(* service controls and the promise they set, composed with the config     *)
(* file and the vault processes that may outlive a manager.  How a vault   *)
(* is stopped, restarted or given up is ProcessManager's business: here a  *)
(* vault and its process go in one step.                                   *)
(***************************************************************************)
EXTENDS ConfigFile, Integers

CONSTANTS
  PortOptions   \* values given to --port

VARIABLES
  build,     \* MAIDSAFE_WIN32 and TESTING
  main,      \* where main is
  handled,   \* events that have ShutDownVaultManager as their handler
  status,    \* what the service has told the control manager
  asked,     \* a handled event has come
  promise,   \* g_shutdown_promise is set
  code,      \* what main returns, or is about to
  exit,      \* how the last process ended
  procs      \* vault processes, each with the start that launched it

processVars == <<handled, status, asked, promise, code>>
mainVars == <<vars, build, main, processVars, exit, procs>>

Windows == {"console", "service"}
testing == build \in {"unix test", "console"}

\* CtrlHandler takes no CTRL_BREAK_EVENT; the service registers its controls.
Signals == {"SIGINT", "SIGTERM"}
Events == CASE build = "console" -> {"CTRL_C_EVENT", "CTRL_BREAK_EVENT"}
            [] build = "service" -> {"SERVICE_CONTROL_STOP", "SERVICE_CONTROL_SHUTDOWN"}
            [] OTHER -> Signals
NoProcess == main = "down"
Ours == Labels \X {starts}   \* the last manager's vaults

MainInit ==
  /\ Init
  /\ build \in {"unix", "unix test"} \cup Windows
  /\ main = "down" /\ handled = {} /\ status = "none"
  /\ asked = FALSE /\ promise = FALSE
  /\ code = 0 /\ exit = "none" /\ procs = {}

\* The manager's state goes with it; the vaults it launched do not.
Gone == manager' = "down" /\ vaults' = {} /\ listed' = {} /\ UNCHANGED <<key, starts>>

\* The process ends without returning from main.
Dies(how) ==
  /\ main' = "down" /\ exit' = how
  /\ Gone
  /\ UNCHANGED <<build, processVars, procs>>

\* main returns value.
Returns(value) ==
  /\ main' = "down" /\ exit' = "returned" /\ code' = value
  /\ Gone
  /\ UNCHANGED <<file, build, handled, status, asked, promise, procs>>

\* What the catch clauses of main return.
Caught == IF build = "console" THEN -4 ELSE -5

-----------------------------------------------------------------------------
(* Start *)

Launch ==
  /\ NoProcess /\ starts < MaxStarts
  /\ main' = IF build = "service" THEN "dispatching" ELSE "options"
  /\ handled' = {} /\ status' = "none" /\ asked' = FALSE /\ promise' = FALSE
  /\ code' = 0
  /\ UNCHANGED <<vars, build, exit, procs>>

\* --help throws as well.  Only a test build looks at the port and the root
\* directory, which SetEnvironment wants to exist.
OptionsAccepted(help, port, rootDir) ==
  /\ ~help
  /\ testing => port \in 1025 .. 65535 /\ rootDir

HandleProgramOptions(help, port, rootDir) ==
  /\ main = "options"
  /\ \/ /\ OptionsAccepted(help, port, rootDir)
        /\ main' = IF build = "console" THEN "console" ELSE "constructor"
        /\ UNCHANGED <<vars, build, processVars, exit, procs>>
     \/ /\ ~OptionsAccepted(help, port, rootDir)
        /\ Returns(Caught)

\* The handler is there before the manager, or the process returns -3.
SetConsoleCtrlHandler(ok) ==
  /\ main = "console"
  /\ \/ /\ ok
        /\ handled' = {"CTRL_C_EVENT"} /\ main' = "constructor"
        /\ UNCHANGED <<vars, build, status, asked, promise, code, exit, procs>>
     \/ /\ ~ok
        /\ Returns(-3)

\* The dispatcher calls it on a thread of its own; it reads no options.
ServiceMain ==
  /\ main = "dispatching"
  /\ handled' = Events /\ main' = "constructor"
  /\ UNCHANGED <<vars, build, status, asked, promise, code, exit, procs>>

\* The dispatcher cannot reach the control manager; its result is not looked at.
DispatcherFails ==
  /\ main = "dispatching"
  /\ Returns(0)

\* An exception out of the constructor of VaultManager.
ConstructorThrows ==
  /\ main = "constructor" /\ build # "service"
  /\ Returns(Caught)

\* The same in the service: ServiceMain tells the control manager of an error and
\* returns.
ServiceMainCatches ==
  /\ main = "constructor" /\ build = "service"
  /\ main' = "served" /\ status' = "SERVICE_STOPPED"
  /\ Gone
  /\ UNCHANGED <<file, build, handled, asked, promise, code, exit, procs>>

ConstructConfigFileHandler ==
  /\ main = "constructor"
  /\ OpenConfigFile
  /\ UNCHANGED <<build, main, processVars, exit, procs>>

\* A test build starts no first vault.
StartNoVault ==
  /\ manager = "starting"
  /\ manager' = "running"
  /\ listed' = file.vaults
  /\ vaults' = ReadConfigFile
  /\ UNCHANGED <<file, key, starts>>

ConstructVaultManager ==
  /\ main = "constructor"
  /\ IF testing THEN StartNoVault ELSE StartVaults
  /\ main' = IF build \in Windows THEN "waiting" ELSE "installing"
  /\ status' = IF build = "service" THEN "SERVICE_RUNNING" ELSE status
  /\ procs' = procs \cup (vaults' \X {starts})
  /\ UNCHANGED <<build, handled, asked, promise, code, exit>>

Signal(sig) ==
  /\ main = "installing" /\ sig = (IF handled = {} THEN "SIGINT" ELSE "SIGTERM")
  /\ handled' = handled \cup {sig}
  /\ main' = IF handled' = Signals THEN "waiting" ELSE main
  /\ UNCHANGED <<vars, build, status, asked, promise, code, exit, procs>>

\* A client's request, handled on the io_service's thread meanwhile; one that was
\* read before the connections were closed also during the destructor.
HandleStartVaultRequest(l) ==
  /\ main \in {"installing", "waiting", "destructor"}
  /\ AddVault(l)
  /\ procs' = procs \cup {<<l, starts>>}
  /\ UNCHANGED <<build, main, processVars, exit>>

-----------------------------------------------------------------------------
(* Stop *)

\* Mutant: the handler writes its line and leaves the promise alone.
OnlyReportsStop ==
  UNCHANGED <<vars, build, main, handled, promise, code, exit, procs>>

\* A second set_value throws: out of a destructor, or on another thread than
\* main's (on Windows always), that is the end of the process; else main's catch
\* clause sees it.
ShutDownVaultManager ==
  \/ /\ ~promise
     /\ promise' = TRUE
     /\ UNCHANGED <<vars, build, main, handled, code, exit, procs>>
  \/ /\ promise /\ main = "waiting" /\ build \notin Windows
     /\ main' = "destructor" /\ code' = Caught
     /\ UNCHANGED <<vars, build, handled, promise, exit, procs>>
  \/ /\ promise
     /\ main' = "down" /\ exit' = "aborted"
     /\ Gone
     /\ UNCHANGED <<file, build, handled, promise, code, procs>>

HandledSignal(sig) ==
  /\ ~NoProcess /\ build # "service" /\ sig \in handled
  /\ asked' = TRUE
  /\ ShutDownVaultManager
  /\ UNCHANGED status

\* The control manager sends a control to a service it believes to be running,
\* and is told that the service has stopped before the vaults have.
ControlHandler(request) ==
  /\ status = "SERVICE_RUNNING" /\ ~NoProcess /\ request \in handled
  /\ asked' = TRUE
  /\ ShutDownVaultManager
  /\ status' = "SERVICE_STOPPED"

\* Without a handler the default action ends the process.
DefaultSignal(sig) ==
  /\ ~NoProcess /\ build # "service" /\ sig \notin handled
  /\ Dies("killed")
  /\ UNCHANGED file

\* The process crashes, also in the middle of a write to the config file, in
\* the destructor (a vault that is still starting has a null connection), or
\* because a connection is accepted before new_connections_ is constructed.
Crash ==
  /\ ~NoProcess
  /\ Dies("crashed")
  /\ file' \in {file} \cup (IF manager = "down" THEN {} ELSE {Cut})

StopService == status' = IF build = "service" THEN "SERVICE_STOPPED" ELSE status

\* get() returns; the service reports its end before the destructor runs.
Wake ==
  /\ main = "waiting" /\ promise
  /\ main' = "destructor"
  /\ StopService
  /\ UNCHANGED <<vars, build, handled, asked, promise, code, exit, procs>>

\* The dispatcher returns to main when the service is said to have stopped, and
\* main returns zero, be ServiceMain still in the destructor or not and whatever
\* the control manager was told.
DispatcherReturns ==
  /\ status = "SERVICE_STOPPED" /\ ~NoProcess
  /\ Returns(0)

\* One of the vaults StopAll has told to stop, or one started since, is no more.
StopVault(l) ==
  /\ main = "destructor" /\ l \in vaults
  /\ vaults' = vaults \ {l}
  /\ procs' = procs \ {<<l, starts>>}
  /\ UNCHANGED <<file, manager, key, listed, starts, build, main, processVars, exit>>

\* ServiceMain returns to the dispatcher.
ServiceMainReturns ==
  /\ main' = "served"
  /\ Gone
  /\ UNCHANGED <<file, build, processVars, exit, procs>>

\* Mutant: the io_service is stopped with its handlers still waiting.
StopWithoutDraining ==
  /\ main = "destructor"
  /\ IF build = "service" THEN ServiceMainReturns ELSE Returns(code)

\* AsioService::Stop returns when the io_service is out of work: a child's timer
\* or connection is work, so there is no child left.
DestructorEnds ==
  /\ main = "destructor" /\ vaults = {}
  /\ IF build = "service" THEN ServiceMainReturns ELSE Returns(code)

\* A vault whose manager is gone sees its connection close and exits (see
\* VaultInterface).
OrphanExits(p) ==
  /\ manager = "down" \/ p \notin Ours
  /\ procs' = procs \ {p}
  /\ UNCHANGED <<vars, build, main, processVars, exit>>

-----------------------------------------------------------------------------
Constructor ==
  \/ ConstructorThrows \/ ServiceMainCatches
  \/ ConstructConfigFileHandler \/ ConstructVaultManager

MainNext ==
  \/ Launch
  \/ \E help, rootDir \in BOOLEAN, port \in PortOptions :
       HandleProgramOptions(help, port, rootDir)
  \/ \E ok \in BOOLEAN : SetConsoleCtrlHandler(ok)
  \/ ServiceMain \/ DispatcherFails
  \/ Constructor
  \/ \E sig \in Signals : Signal(sig)
  \/ \E e \in Events : HandledSignal(e) \/ DefaultSignal(e) \/ ControlHandler(e)
  \/ \E l \in Labels : HandleStartVaultRequest(l) \/ StopVault(l)
  \/ Crash
  \/ Wake
  \/ DestructorEnds
  \/ DispatcherReturns
  \/ \E p \in procs : OrphanExits(p)

(* Fairness: the constructor waits for nothing and main goes on once it is *)
(* woken.  That the destructor ends is not assumed: it waits for the       *)
(* io_service to run out of work.                                          *)
MainFairness ==
  /\ WF_mainVars(Constructor)
  /\ WF_mainVars(\E sig \in Signals : Signal(sig))
  /\ WF_mainVars(Wake)

MainSpec == MainInit /\ [][MainNext]_mainVars /\ MainFairness

-----------------------------------------------------------------------------
\* Outside the service, main returns zero only when the manager was told to stop
\* and no vault it launched runs any more, also one that a request started while
\* the destructor was waiting, whichever signals and failures came before.  (The
\* service's main returns zero on every way out, its vaults stopped or not.)
ZeroMeansStopped ==
  NoProcess /\ exit = "returned" /\ code = 0 /\ build # "service"
    => asked /\ procs \cap Ours = {}

\* A manager that has taken a signal, a console event or a control begins to stop
\* its vaults, or its process is at an end: also when the event comes between the
\* two calls of signal(), before the manager is there, or again meanwhile.
AskedManagerStops == asked ~> main \in {"destructor", "served", "down"}

=============================================================================
