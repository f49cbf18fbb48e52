---------------------------- MODULE StartNetwork ----------------------------
(***************************************************************************)
(* What the wizard's last command does: start a network with the help of   *)
(* two zero-state routing nodes on a thread of their own, start vaults of  *)
(* an existing network, or connect to a running VaultManager.  The main    *)
(* thread and the zero-state thread wait for each other's promise.  How a  *)
(* vault starts is ProcessManager's and ClientInterface's business: here   *)
(* the future of StartVault has a value or throws.                         *)
(***************************************************************************)
EXTENDS LocalNetworkController

VARIABLES
  stage,      \* where the main thread is in the action
  zero,       \* zero_state_launcher's thread
  started,    \* zero_state_nodes_started
  finished,   \* finished_with_zero_state_nodes is set
  pending,    \* the exception on its way out of StartNetwork
  next,       \* pmid list index of the next vault
  vaults,     \* indices whose future had a value
  stored,     \* every PublicPmid was stored and verified
  stable      \* network_stable_ of the manager

wizard == <<command, script, entered, choices, disk, process>>
zeroState == <<zero, started, finished>>
network == <<stage, zeroState, pending, next, vaults, stored, stable>>

kLivePort == 5483
Outcomes ==   \* of StartVault and its future; "threw" is before there is one
  {"ok", "timed_out", "failed", "threw"}
InTry ==      \* in the try block of StartNetwork
  command = "StartNetwork" /\ stage \in {"joining", "manager", "client", "first two"}

NetworkInit ==
  /\ WizardInit
  /\ stage = "start" /\ zero = "none" /\ started = "unset" /\ finished = FALSE
  /\ pending = "none" /\ next = 0 /\ vaults = {} /\ stored = FALSE /\ stable = FALSE

Reset ==
  /\ stage' = "start" /\ zero' = "none" /\ started' = "unset" /\ finished' = FALSE
  /\ pending' = "none" /\ next' = 0 /\ vaults' = {} /\ stored' = FALSE /\ stable' = FALSE

Kill == command # "none" /\ Crash("killed") /\ Reset

\* Mutant: the catch clause joins the thread and leaves its promise alone.
CatchOnlyJoins(error) ==
  /\ stage' = "unwind" /\ pending' = error
  /\ UNCHANGED <<wizard, zeroState, next, vaults, stored, stable>>

\* The catch clause of StartNetwork, up to the join.
Catch(error) ==
  /\ stage' = "unwind" /\ pending' = error
  /\ finished' = TRUE
  /\ UNCHANGED <<wizard, zero, started, next, vaults, stored, stable>>

Raise(error) == IF InTry THEN Catch(error) ELSE Throw(error) /\ Reset

-----------------------------------------------------------------------------
(* The zero-state thread *)

\* Both nodes join, or an exception is passed on.
StartZeroStateRoutingNodes(joined) ==
  /\ zero = "joining"
  /\ zero' = IF joined THEN "serving" ELSE "ended"
  /\ started' = IF joined THEN "set" ELSE "thrown"
  /\ UNCHANGED <<wizard, stage, finished, pending, next, vaults, stored, stable>>

ShutDownZeroStateNodes ==
  /\ zero = "serving" /\ finished
  /\ zero' = "ended"
  /\ UNCHANGED <<wizard, stage, started, finished, pending, next, vaults, stored, stable>>

-----------------------------------------------------------------------------
(* The manager and its client *)

\* Mutant: 0 is not replaced.
PortAsCast == vaultManagerPort % 65536

\* The port is cast to 16 bits, and then 0 stands for no port chosen.
GetInitialListeningPort ==
  LET port == vaultManagerPort % 65536
  IN IF port = 0 THEN kLivePort + 100 ELSE port

\* vault_manager, which writes its config file in the root directory.
MakeVaultManager(ok) ==
  /\ stage = "manager"
  /\ \/ /\ ok
        /\ manager' = GetInitialListeningPort
        /\ dirs' = [dirs EXCEPT ![rootDir] = "full"]
        /\ stage' = "client"
        /\ UNCHANGED <<command, script, entered, choices, files, bootstrapFile, vlogging,
                       launches, exit, zeroState, pending, next, vaults, stored, stable>>
     \/ ~ok /\ Raise("failed")

\* client_interface, whose constructor may time out.
MakeClientInterface(outcome) ==
  /\ stage = "client"
  /\ \/ /\ outcome = "ok"
        /\ stage' = IF newNetwork THEN "first two" ELSE "vaults"
        /\ next' = IF newNetwork THEN 2 ELSE 0
        /\ UNCHANGED <<wizard, zeroState, pending, vaults, stored, stable>>
     \/ outcome # "ok" /\ Raise(outcome)

\* MarkNetworkAsStable sends a message, and the wizard goes on.
MarkNetworkAsStable ==
  /\ Goto("ChooseTest") /\ stage' = "marked"
  /\ UNCHANGED <<choices, disk, process, zeroState, pending, next, vaults, stored, stable>>

HandleSetNetworkAsStable ==
  /\ stage = "marked" /\ manager # NoManager
  /\ stable' = TRUE /\ stage' = "start"
  /\ UNCHANGED <<wizard, zeroState, pending, next, vaults, stored>>

-----------------------------------------------------------------------------
(* StartNetwork *)

\* SetTestEnvironment, which throws unless the root directory is one, then the
\* thread.
LaunchZeroState ==
  /\ command = "StartNetwork" /\ stage = "start"
  /\ \/ /\ IsDirectory(rootDir)
        /\ stage' = "joining" /\ zero' = "joining"
        /\ UNCHANGED <<wizard, started, finished, pending, next, vaults, stored, stable>>
     \/ ~IsDirectory(rootDir) /\ Raise("failed")

WaitForZeroState ==
  /\ stage = "joining" /\ started # "unset"
  /\ \/ /\ started = "set"
        /\ stage' = "manager"
        /\ UNCHANGED <<wizard, zeroState, pending, next, vaults, stored, stable>>
     \/ started = "thrown" /\ Raise("failed")

\* Mutant: the zero-state nodes are let go with the first vault.
FinishAtFirstVault(outcome) ==
  /\ stage = "first two" /\ next < 4
  /\ vaults' = IF outcome = "ok" THEN vaults \cup {next} ELSE vaults
  /\ next' = next + 1
  /\ finished' = TRUE
  /\ UNCHANGED <<wizard, stage, zero, started, pending, stored, stable>>

\* What the future throws is logged, and no more.
StartFirstTwoVaults(outcome) ==
  /\ stage = "first two" /\ next < 4
  /\ \/ /\ outcome # "threw"
        /\ vaults' = IF outcome = "ok" THEN vaults \cup {next} ELSE vaults
        /\ next' = next + 1
        /\ UNCHANGED <<wizard, stage, zeroState, pending, stored, stable>>
     \/ outcome = "threw" /\ Raise("failed")

FinishZeroState ==
  /\ stage = "first two" /\ next = 4
  /\ finished' = TRUE /\ stage' = "join"
  /\ UNCHANGED <<wizard, zero, started, pending, next, vaults, stored, stable>>

\* zero_state_launcher.join() in the try block, and WriteLocalNetworkBootstrapFile,
\* which may throw.
JoinZeroState(written) ==
  /\ stage = "join" /\ zero = "ended"
  /\ \/ /\ written
        /\ bootstrapFile' = launches /\ stage' = "written"
        /\ UNCHANGED <<command, script, entered, choices, dirs, files, process, zeroState,
                       pending, next, vaults, stored, stable>>
     \/ ~written /\ Raise("failed")

PrepareBootstrapFile(prepared) ==
  /\ stage = "written"
  /\ \/ /\ prepared
        /\ stage' = "remaining"
        /\ UNCHANGED <<wizard, zeroState, pending, next, vaults, stored, stable>>
     \/ ~prepared /\ Raise("failed")

\* The join in the catch clause, and the exception goes on.
Rethrow == stage = "unwind" /\ zero = "ended" /\ Throw(pending) /\ Reset

\* Mutant: the loop stops at vault_count.
StartVaultsToCount(outcome) ==
  /\ stage = "remaining" /\ next < vaultCount + 2
  /\ \/ /\ outcome = "ok"
        /\ vaults' = vaults \cup {next}
        /\ next' = IF next + 1 < vaultCount THEN next + 1 ELSE vaultCount + 2
        /\ UNCHANGED <<wizard, stage, zeroState, pending, stored, stable>>
     \/ outcome # "ok" /\ Raise(outcome)

StartRemainingVaults(outcome) ==
  /\ stage = "remaining" /\ next < vaultCount + 2
  /\ \/ /\ outcome = "ok"
        /\ vaults' = vaults \cup {next} /\ next' = next + 1
        /\ UNCHANGED <<wizard, stage, zeroState, pending, stored, stable>>
     \/ outcome # "ok" /\ Raise(outcome)

\* PublicPmidStorer: every key is tried, and one failure is enough to throw.
StorePublicPmids(failures) ==
  /\ stage = "remaining" /\ next = vaultCount + 2
  /\ \/ /\ failures = 0
        /\ stored' = TRUE /\ stage' = "stored"
        /\ UNCHANGED <<wizard, zeroState, pending, next, vaults, stable>>
     \/ failures > 0 /\ Raise("failed")

NetworkSetUp == stage = "stored" /\ MarkNetworkAsStable

-----------------------------------------------------------------------------
(* ConnectToNetwork and ConnectToVaultManager *)

\* PrepareBootstrapFile may throw as well.
ConnectToNetwork(prepared) ==
  /\ command = "ConnectToNetwork" /\ stage = "start"
  /\ \/ /\ IsDirectory(rootDir) /\ prepared
        /\ stage' = "manager"
        /\ UNCHANGED <<wizard, zeroState, pending, next, vaults, stored, stable>>
     \/ ~(IsDirectory(rootDir) /\ prepared) /\ Raise("failed")

StartVaults(outcome) ==
  /\ stage = "vaults" /\ next < vaultCount
  /\ \/ /\ outcome = "ok"
        /\ vaults' = vaults \cup {next} /\ next' = next + 1
        /\ UNCHANGED <<wizard, stage, zeroState, pending, stored, stable>>
     \/ outcome # "ok" /\ Raise(outcome)

VaultsStarted == stage = "vaults" /\ next = vaultCount /\ MarkNetworkAsStable

ConnectToVaultManager(outcome) ==
  /\ command = "ConnectToVaultManager"
  /\ \/ /\ IsDirectory(kTestEnvRootDir) /\ outcome = "ok"
        /\ Goto("ChooseTest")
        /\ UNCHANGED <<choices, disk, process, network>>
     \/ IsDirectory(kTestEnvRootDir) /\ outcome # "ok" /\ Raise(outcome)
     \/ ~IsDirectory(kTestEnvRootDir) /\ Raise("failed")

-----------------------------------------------------------------------------
ZeroStateThread ==
  (\E joined \in BOOLEAN : StartZeroStateRoutingNodes(joined)) \/ ShutDownZeroStateNodes

MainThread ==
  \/ LaunchZeroState \/ WaitForZeroState \/ FinishZeroState \/ Rethrow
  \/ NetworkSetUp \/ VaultsStarted
  \/ \E ok \in BOOLEAN : \/ MakeVaultManager(ok) \/ ConnectToNetwork(ok)
                         \/ JoinZeroState(ok) \/ PrepareBootstrapFile(ok)
  \/ \E failures \in 0 .. 1 : StorePublicPmids(failures)
  \/ \E outcome \in Outcomes :
       \/ MakeClientInterface(outcome) \/ StartFirstTwoVaults(outcome)
       \/ StartRemainingVaults(outcome) \/ StartVaults(outcome)
       \/ ConnectToVaultManager(outcome)

-----------------------------------------------------------------------------
\* The zero-state nodes run while the first two vaults start.  Before the others
\* do, those nodes are down and the bootstrap file the others join by is there,
\* written by this tool and not left by an earlier one.
FirstTwoServed ==
  /\ stage = "first two" => zero = "serving"
  /\ stage \in {"written", "remaining", "stored"} => zero = "ended" /\ bootstrapFile = launches

\* A manager is told that its network is stable only after every vault but the
\* first two is known to run and every key could be read back.
StableMeansComplete ==
  stable => IF newNetwork THEN stored /\ 4 .. vaultCount + 1 \subseteq vaults
                          ELSE 0 .. vaultCount - 1 \subseteq vaults

=============================================================================
