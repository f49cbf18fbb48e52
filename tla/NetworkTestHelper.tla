------------------------- MODULE NetworkTestHelper -------------------------
(***************************************************************************)
(* network_test_helper, which tests run to have a local network: it looks  *)
(* for a manager, starts the local network tool with its script if there   *)
(* is none, and waits until the manager says the network is stable.  It is *)
(* composed with the tool, which a user may run by hand as well.           *)
(***************************************************************************)
EXTENDS StartNetwork

VARIABLES
  helper,     \* where the helper's main is
  attempts,   \* of its last loop
  linked      \* the launch whose manager it is connected to

helping == <<helper, attempts, linked>>
vars == <<wizard, network, helping>>

kMaxRangeAboveDefaultPort == 10
kAttempts == 5

\* network_test_helper.script
Script == <<[for |-> "Begin", line |-> "1"],
            [for |-> "ChooseTestRootDir", line |-> ""],
            [for |-> "ClearTestRootDir", line |-> ""],
            [for |-> "ChoosePathToVault", line |-> ""],
            [for |-> "ChooseVaultManagerPort", line |-> "5583"],
            [for |-> "ChooseVaultCount", line |-> ""]>>

Init ==
  /\ NetworkInit
  /\ helper = "idle" /\ attempts = 0 /\ linked = 0

-----------------------------------------------------------------------------
\* The ports ClientInterface tries, in 16 bits; the helper chose none.
SearchedPorts ==
  {(kLivePort + 100 + i) % 65536 : i \in 0 .. kMaxRangeAboveDefaultPort}

Connects == manager \in SearchedPorts

\* WaitForStableNetwork up to its get().  The constructor of ClientInterface may
\* time out, and that ends the helper.
WaitForStableNetwork(outcome) ==
  /\ Connects
  /\ helper' = IF outcome = "ok" THEN "waiting" ELSE "error"
  /\ linked' = launches
  /\ UNCHANGED <<wizard, network, attempts>>

\* The first attempt.
LookForNetwork(outcome) ==
  /\ helper = "idle"
  /\ \/ WaitForStableNetwork(outcome)
     \/ /\ ~Connects
        /\ helper' = "starting"
        /\ UNCHANGED <<wizard, network, attempts, linked>>

\* Mutant: an empty root directory is left empty.
RootDirAsItIs ==
  dirs' = IF kTestEnvRootDir \in DOMAIN dirs THEN dirs ELSE MakeDir(kTestEnvRootDir, "empty")

\* The root directory is made to have contents, so that the tool asks whether to
\* clear it.
FillRootDir == dirs' = MakeDir(kTestEnvRootDir, "full")

\* Neither the tool nor the script may be missing, nor the root be a file.
StartTool(installed) ==
  /\ helper = "starting" /\ command = "none" /\ launches < MaxLaunches
  /\ \/ /\ installed
        /\ kTestEnvRootDir \in DOMAIN dirs => IsDirectory(kTestEnvRootDir)
        /\ FillRootDir
        /\ launches' = launches + 1
        /\ command' = "Begin" /\ script' = Script /\ exit' = "running"
        /\ helper' = "attempting"
        /\ UNCHANGED <<vlogging, entered, choices, files, bootstrapFile, manager, network,
                       attempts, linked>>
     \/ /\ ~installed \/ (kTestEnvRootDir \in DOMAIN dirs /\ ~IsDirectory(kTestEnvRootDir))
        /\ helper' = "error"
        /\ UNCHANGED <<wizard, network, attempts, linked>>

\* One of the last attempts, which follow each other at once.
Attempt(outcome) ==
  /\ helper = "attempting"
  /\ \/ WaitForStableNetwork(outcome)
     \/ /\ ~Connects
        /\ attempts' = attempts + 1
        /\ helper' = IF attempts' = kAttempts THEN "error" ELSE helper
        /\ UNCHANGED <<wizard, network, linked>>

\* The manager answers, now or when it is told.  If its process ended, nothing
\* wakes the helper.
HandleNetworkStableResponse ==
  /\ helper = "waiting" /\ stable /\ linked = launches
  /\ helper' = "done"
  /\ UNCHANGED <<wizard, network, attempts, linked>>

-----------------------------------------------------------------------------
UserLaunch == Launch(<<>>) /\ UNCHANGED <<network, helping>>

Wizard(line) ==
  /\ WizardNext(line)
  /\ IF command' = "none" THEN Reset ELSE UNCHANGED network
  /\ UNCHANGED helping

Answers == {"", "q"} \cup Lines(command) \cup {Script[i].line : i \in DOMAIN Script}

Tool == MainThread /\ UNCHANGED helping
ZeroState == ZeroStateThread /\ UNCHANGED helping
Manager == HandleSetNetworkAsStable /\ UNCHANGED helping

Next ==
  \/ UserLaunch
  \/ \E line \in Answers : Wizard(line)
  \/ Tool
  \/ ZeroState
  \/ Manager
  \/ Kill /\ UNCHANGED helping
  \/ \E outcome \in Outcomes : LookForNetwork(outcome) \/ Attempt(outcome)
  \/ \E installed \in BOOLEAN : StartTool(installed)
  \/ HandleNetworkStableResponse

(* Fairness: the tool's threads go on, a future of StartVault becomes      *)
(* ready (FuturesReady of ClientInterface), and ZeroStateJoin returns.     *)
(* The wizard goes on by itself only while it has a script.                *)
Fairness ==
  /\ WF_vars(Tool)
  /\ WF_vars(ZeroState)
  /\ WF_vars(script # <<>> /\ \E line \in Answers : Wizard(line))

Spec == Init /\ [][Next]_vars /\ Fairness

-----------------------------------------------------------------------------
\* Each answer of the helper's script is read by the command it was written for,
\* whatever the root directory was like.  (With USE_VLOGGING the script lacks an
\* answer.)
ScriptInSync == ~vlogging /\ script # <<>> => command = Head(script).for

\* Started by the helper, the tool needs nobody at its console until the network
\* is there or the tool has given up.
ScriptNeedsNobody ==
  ~vlogging /\ script # <<>> ~> command \in {"ChooseTest", "none"}

\* Whatever fails while a network starts, the two threads do not wait for each
\* other forever.
StartNetworkEnds == command = "StartNetwork" ~> command # "StartNetwork"

\* The tool makes its manager in a directory it has just found or made empty, by
\* whichever way through the questions: no config file of an earlier network.
StartsOnEmptyRoot ==
  [][manager = NoManager /\ manager' # NoManager => dirs[rootDir] = "empty"]_vars

UnprivilegedPorts == 1025 .. 65535

\* Every port the wizard lets through has the manager listen on a port that needs
\* no privilege, also the one beyond 16 bits.
PortUsable == manager # NoManager => manager \in UnprivilegedPorts

=============================================================================
