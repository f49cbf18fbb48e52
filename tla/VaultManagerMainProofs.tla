----------------------- MODULE VaultManagerMainProofs -----------------------
(* The process around the manager, in each of its builds, for any labels,  *)
(* keys, number of starts and values of --port.                            *)
EXTENDS VaultManagerMain, ConfigFileProofs

-----------------------------------------------------------------------------
(* The key of the config file *)

SameKey == [file.state = "ok" /\ file'.state = "ok" => file'.key = file.key]_vars

\* The end of a process, by whatever way, touches neither the file nor the key.
LEMMA EndKeepsKey ==
  ASSUME KeyInv, manager' = "down", vaults' = {}, UNCHANGED <<file, key>>
  PROVE  KeyInv' /\ SameKey
  BY DEF KeyInv, SameKey, Files

\* KeyInv, proved of the config file alone, survives the test builds' constructor
\* and every end of the process as well.
LEMMA MainKeyStep ==
  ASSUME KeyInv, [MainNext]_mainVars
  PROVE  KeyInv' /\ SameKey
<1>1. ASSUME UNCHANGED vars
      PROVE  KeyInv' /\ SameKey
  BY <1>1, KeyInvStep DEF SameKey
<1>2. ASSUME Gone, UNCHANGED file
      PROVE  KeyInv' /\ SameKey
  BY <1>2, EndKeepsKey DEF Gone
<1>3. CASE Launch \/ ServiceMain \/ Wake
  BY <1>1, <1>3 DEF Launch, ServiceMain, Wake
<1>4. ASSUME NEW help, NEW port, NEW dir, HandleProgramOptions(help, port, dir)
      PROVE  KeyInv' /\ SameKey
  BY <1>1, <1>2, <1>4 DEF HandleProgramOptions, Returns
<1>5. ASSUME NEW ok, SetConsoleCtrlHandler(ok)
      PROVE  KeyInv' /\ SameKey
  BY <1>1, <1>2, <1>5 DEF SetConsoleCtrlHandler, Returns
<1>6. CASE ConstructorThrows \/ ServiceMainCatches \/ DispatcherReturns \/ DispatcherFails
  BY <1>2, <1>6 DEF ConstructorThrows, ServiceMainCatches, DispatcherReturns, DispatcherFails,
                    Returns
<1>7. CASE ConstructConfigFileHandler
  BY <1>7, KeyInvStep DEF ConstructConfigFileHandler, SameKey, Next
<1>8. CASE ConstructVaultManager
  <2>1. CASE testing
    <3>1. StartNoVault
      BY <1>8, <2>1 DEF ConstructVaultManager
    <3>2. vaults' = {}
      BY <3>1 DEF StartNoVault, ReadConfigFile, Load
    <3> QED
      BY <3>1, <3>2 DEF StartNoVault, KeyInv, SameKey, Files
  <2>2. CASE ~testing
    BY <1>8, <2>2, KeyInvStep DEF ConstructVaultManager, SameKey, Next
  <2> QED
    BY <2>1, <2>2
<1>9. ASSUME NEW sig, Signal(sig)
      PROVE  KeyInv' /\ SameKey
  BY <1>1, <1>9 DEF Signal
<1>10. ASSUME ShutDownVaultManager
       PROVE  KeyInv' /\ SameKey
  BY <1>1, <1>2, <1>10 DEF ShutDownVaultManager
<1>11. ASSUME NEW e, HandledSignal(e) \/ ControlHandler(e) \/ DefaultSignal(e)
       PROVE  KeyInv' /\ SameKey
  BY <1>2, <1>10, <1>11 DEF HandledSignal, ControlHandler, DefaultSignal, Dies
<1>12. ASSUME NEW l \in Labels, HandleStartVaultRequest(l)
       PROVE  KeyInv' /\ SameKey
  BY <1>12, KeyInvStep DEF HandleStartVaultRequest, SameKey, Next
<1>13. CASE Crash
  <2>1. CASE UNCHANGED file
    BY <1>2, <1>13, <2>1 DEF Crash, Dies
  <2>2. CASE file' = Cut
    BY <1>13, <2>2 DEF Crash, Dies, Gone, KeyInv, SameKey, Files, Cut
  <2> QED
    BY <1>13, <2>1, <2>2 DEF Crash
<1>14. CASE DestructorEnds
  BY <1>2, <1>14 DEF DestructorEnds, Returns, ServiceMainReturns
<1>15. ASSUME NEW p, OrphanExits(p)
       PROVE  KeyInv' /\ SameKey
  BY <1>1, <1>15 DEF OrphanExits
<1>17. ASSUME NEW l, StopVault(l)
       PROVE  KeyInv' /\ SameKey
  BY <1>17 DEF StopVault, KeyInv, SameKey
<1>16. CASE UNCHANGED mainVars
  BY <1>1, <1>16 DEF mainVars
<1> QED
  BY <1>3, <1>4, <1>5, <1>6, <1>7, <1>8, <1>9, <1>11, <1>12, <1>13, <1>14, <1>15, <1>16,
     <1>17
     DEF MainNext, Constructor

\* The key survives every way a manager of any build starts and ends, not only
\* those of the config file's own specification.
THEOREM MainKeepsKey == MainSpec => KeyKept
<1>1. MainInit => KeyInv
  BY DEF MainInit, Init, KeyInv, Files
<1> QED
  BY <1>1, MainKeyStep, PTL DEF MainSpec, KeyKept, SameKey

-----------------------------------------------------------------------------
(* What the return value of main says *)

\* Only the service has a dispatcher and reports to a control manager.
ServiceOnly == main = "dispatching" \/ status # "none" => build = "service"

\* The promise is set, and main on its way out, only after an event that asks for
\* it.  Every process of the last manager is one of its vaults, and those of
\* earlier ones have a lower number.
StopInv ==
  /\ promise => asked
  /\ main = "destructor" => asked
  /\ ServiceOnly
  /\ main \in {"installing", "waiting", "destructor"} => manager = "running"
  /\ manager # "running" => vaults = {}
  /\ starts \in Nat
  /\ procs \subseteq Labels \X (0 .. starts)
  /\ manager # "down" => \A l \in Labels : <<l, starts>> \in procs => l \in vaults
  /\ ZeroMeansStopped

\* Between launch and end, a step that leaves the config file's variables and the
\* vaults' processes alone keeps the invariant if it respects the promise.
LEMMA QuietStep ==
  ASSUME StopInv, UNCHANGED <<manager, vaults, starts, procs>>, main' # "down",
         main' \in {"installing", "waiting", "destructor"} => manager = "running",
         promise' => asked', main' = "destructor" => asked', ServiceOnly'
  PROVE  StopInv'
  BY DEF StopInv, ZeroMeansStopped, NoProcess

\* An end that is not a return of zero by a build other than the service's.
LEMMA EndStep ==
  ASSUME StopInv, Gone, UNCHANGED procs, main' \in {"down", "served"},
         promise' => asked', ServiceOnly',
         main' = "down" /\ exit' = "returned" /\ code' = 0 => build' = "service"
  PROVE  StopInv'
  BY DEF StopInv, ZeroMeansStopped, NoProcess, Gone

\* Every step of main, of its handlers and of the vaults keeps StopInv.
LEMMA StopInvNext == StopInv /\ KeyInv /\ KeyInv' /\ [MainNext]_mainVars => StopInv'
<1> SUFFICES ASSUME StopInv, KeyInv, KeyInv', [MainNext]_mainVars
             PROVE  StopInv'
  OBVIOUS
<1> USE DEF processVars, NoProcess, vars, ServiceOnly
<1>0. (promise => asked) /\ (main = "destructor" => asked) /\ ServiceOnly
  BY DEF StopInv
<1>1. CASE Launch
  BY <1>1, QuietStep DEF Launch
<1>2. ASSUME NEW help, NEW port, NEW dir, HandleProgramOptions(help, port, dir)
      PROVE  StopInv'
  BY <1>0, <1>2, QuietStep, EndStep DEF HandleProgramOptions, Returns, Caught
<1>3. ASSUME NEW ok, SetConsoleCtrlHandler(ok)
      PROVE  StopInv'
  BY <1>0, <1>3, QuietStep, EndStep DEF SetConsoleCtrlHandler, Returns
<1>4. CASE ServiceMain
  BY <1>0, <1>4, QuietStep DEF ServiceMain
<1>5. CASE ConstructorThrows
  BY <1>0, <1>5, EndStep DEF ConstructorThrows, Returns, Caught
<1>6. CASE ServiceMainCatches
  BY <1>0, <1>6, EndStep DEF ServiceMainCatches
<1>7. CASE DispatcherFails \/ DispatcherReturns
  <2>1. build = "service"
    BY <1>0, <1>7 DEF DispatcherFails, DispatcherReturns
  <2> QED
    BY <1>0, <1>7, <2>1, EndStep DEF DispatcherFails, DispatcherReturns, Returns
<1>8. CASE ConstructConfigFileHandler
  <2>1. starts \in Nat /\ starts' = starts + 1 /\ manager = "down" /\ manager' = "starting"
        /\ UNCHANGED <<vaults, build, main, processVars, exit, procs>>
    BY <1>8 DEF ConstructConfigFileHandler, OpenConfigFile, StopInv
  <2>2. procs \subseteq Labels \X (0 .. starts')
    BY <2>1 DEF StopInv
  <2>3. \A l \in Labels : <<l, starts'>> \notin procs
    BY <2>1 DEF StopInv
  <2>4. main = "constructor"
    BY <1>8 DEF ConstructConfigFileHandler
  <2> QED
    BY <2>1, <2>2, <2>3, <2>4 DEF StopInv, ZeroMeansStopped
<1>9. CASE ConstructVaultManager
  <2>1. /\ manager = "starting" /\ manager' = "running" /\ UNCHANGED starts
        /\ starts \in Nat
    BY <1>9 DEF ConstructVaultManager, StartNoVault, StartVaults, StopInv
  <2>2. vaults' \subseteq Labels /\ procs' = procs \cup (vaults' \X {starts})
    BY <1>9 DEF ConstructVaultManager, KeyInv
  <2>3. procs' \subseteq Labels \X (0 .. starts')
    BY <2>1, <2>2 DEF StopInv
  <2>4. \A l \in Labels : <<l, starts'>> \in procs' => l \in vaults'
    BY <2>1, <2>2 DEF StopInv
  <2>5. /\ main' \in {"waiting", "installing"} /\ ServiceOnly'
        /\ UNCHANGED <<promise, asked>>
    BY <1>0, <1>9 DEF ConstructVaultManager
  <2> QED
    BY <1>0, <2>1, <2>3, <2>4, <2>5 DEF StopInv, ZeroMeansStopped
<1>10. ASSUME NEW sig, Signal(sig)
       PROVE  StopInv'
  <2>1. manager = "running"
    BY <1>10 DEF Signal, StopInv
  <2> QED
    BY <1>0, <1>10, <2>1, QuietStep DEF Signal
<1>11. ASSUME NEW e, HandledSignal(e) \/ ControlHandler(e)
       PROVE  StopInv'
  <2>1. ServiceOnly' /\ ~NoProcess /\ asked' = TRUE /\ ShutDownVaultManager
    BY <1>0, <1>11 DEF HandledSignal, ControlHandler, ShutDownVaultManager
  <2>2. main \in {"installing", "waiting", "destructor"} => manager = "running"
    BY DEF StopInv
  <2>3. CASE ~promise /\ promise' = TRUE
             /\ UNCHANGED <<vars, build, main, handled, code, exit, procs>>
    BY <2>1, <2>2, <2>3, QuietStep
  <2>4. CASE main = "waiting" /\ main' = "destructor"
             /\ UNCHANGED <<vars, build, handled, promise, exit, procs>>
    BY <2>1, <2>2, <2>4, QuietStep
  <2>5. CASE main' = "down" /\ exit' = "aborted" /\ Gone
             /\ UNCHANGED <<file, build, handled, promise, code, procs>>
    BY <2>1, <2>5, EndStep
  <2> QED
    BY <2>1, <2>3, <2>4, <2>5 DEF ShutDownVaultManager
<1>12. ASSUME NEW e, DefaultSignal(e)
       PROVE  StopInv'
  BY <1>0, <1>12, EndStep DEF DefaultSignal, Dies
<1>13. ASSUME NEW l \in Labels, HandleStartVaultRequest(l)
       PROVE  StopInv'
  <2>1. /\ manager = "running" /\ starts \in Nat /\ vaults' = vaults \cup {l}
        /\ procs' = procs \cup {<<l, starts>>} /\ UNCHANGED <<manager, starts>>
        /\ UNCHANGED <<build, main, processVars, exit>> /\ main # "down"
    BY <1>13 DEF HandleStartVaultRequest, AddVault, StopInv
  <2>3. procs' \subseteq Labels \X (0 .. starts')
    BY <2>1 DEF StopInv
  <2>4. \A k \in Labels : <<k, starts'>> \in procs' => k \in vaults'
    BY <2>1 DEF StopInv
  <2> QED
    BY <1>0, <2>1, <2>3, <2>4 DEF StopInv, ZeroMeansStopped
<1>14. CASE Crash
  BY <1>0, <1>14, EndStep DEF Crash, Dies
<1>15. CASE Wake
  <2>1. manager = "running" /\ ServiceOnly'
    BY <1>0, <1>15 DEF Wake, StopService, StopInv
  <2> QED
    BY <1>0, <1>15, <2>1, QuietStep DEF Wake
<1>16. ASSUME NEW l \in Labels, StopVault(l)
       PROVE  StopInv'
  <2>1. /\ vaults' = vaults \ {l} /\ procs' = procs \ {<<l, starts>>} /\ main = "destructor"
        /\ UNCHANGED <<manager, starts, build, main, processVars, exit>>
    BY <1>16 DEF StopVault
  <2>2. \A k \in Labels : <<k, starts'>> \in procs' => k \in vaults' \/ manager = "down"
    BY <2>1 DEF StopInv
  <2> QED
    BY <1>0, <2>1, <2>2 DEF StopInv, ZeroMeansStopped
<1>17. CASE DestructorEnds
  <2>1. manager = "running" /\ vaults = {} /\ asked
    BY <1>17 DEF DestructorEnds, StopInv
  <2>2. procs \cap Ours = {}
    BY <2>1 DEF StopInv, Ours
  <2>3. CASE ServiceMainReturns
    BY <1>0, <2>3, EndStep DEF ServiceMainReturns
  <2>4. CASE Returns(code)
    <3>1. ZeroMeansStopped'
      BY <2>1, <2>2, <2>4 DEF Returns, Gone, ZeroMeansStopped, Ours
    <3> QED
      BY <1>0, <2>4, <3>1 DEF Returns, Gone, StopInv
  <2> QED
    BY <1>17, <2>3, <2>4 DEF DestructorEnds
<1>18. ASSUME NEW p, OrphanExits(p)
       PROVE  StopInv'
  <2>1. procs' \subseteq procs /\ UNCHANGED <<vars, build, main, processVars, exit>>
    BY <1>18 DEF OrphanExits
  <2> QED
    BY <2>1 DEF StopInv, ZeroMeansStopped, Ours
<1>19. CASE UNCHANGED mainVars
  BY <1>19 DEF mainVars, StopInv, ZeroMeansStopped, Ours
<1> QED
  BY <1>1, <1>2, <1>3, <1>4, <1>5, <1>6, <1>7, <1>8, <1>9, <1>10, <1>11, <1>12, <1>13,
     <1>14, <1>15, <1>16, <1>17, <1>18, <1>19 DEF MainNext, Constructor

\* In the builds other than the service's, main returns zero only when the manager
\* was told to stop and every vault it launched is gone, in whatever order signals,
\* failures of the constructor, late requests and earlier managers' orphans come.
THEOREM ZeroReturned == MainSpec => []ZeroMeansStopped
<1>1. MainInit => StopInv
  <2> SUFFICES ASSUME MainInit
               PROVE  StopInv
    OBVIOUS
  <2>1. ZeroMeansStopped /\ ServiceOnly
    BY DEF MainInit, ServiceOnly, ZeroMeansStopped
  <2>2. starts \in Nat /\ procs = {} /\ vaults = {} /\ manager = "down" /\ main = "down"
    BY DEF MainInit, Init
  <2>3. ~promise
    BY DEF MainInit
  <2> QED
    BY <2>1, <2>2, <2>3 DEF StopInv
<1>2. MainInit => KeyInv
  BY DEF MainInit, Init, KeyInv, Files
<1>3. KeyInv /\ [MainNext]_mainVars => KeyInv'
  BY MainKeyStep
<1>4. StopInv => ZeroMeansStopped
  BY DEF StopInv
<1> QED
  BY <1>1, <1>2, <1>3, <1>4, StopInvNext, PTL DEF MainSpec

=============================================================================
