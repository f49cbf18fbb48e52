------------------------- MODULE NetworkToolProofs -------------------------
(* Safety of the local network tool and of the helper that runs it, for    *)
(* any number of launches and whatever is typed at the wizard's questions. *)
EXTENDS NetworkTestHelper, SequenceTheorems, TLAPS

\* Commands that ask for the network's settings; ChooseTest comes after them.
Questions ==
  {"Begin", "ChooseExistingNetwork", "ChoosePathToBootstrap", "ChooseTestRootDir",
   "ClearTestRootDir", "CreateTestRootDir", "ChoosePathToVault", "ChooseRunningPort",
   "ChooseVaultManagerPort", "EnterVlogSessionId", "ChooseToRevealHostname",
   "ChooseVaultCount"}

Commands == Questions \cup
  {"none", "ChooseTest", "StartNetwork", "ConnectToNetwork", "ConnectToVaultManager"}

\* Nothing of a network is there yet.
Idle ==
  /\ stage = "start" /\ zero = "none" /\ started = "unset" /\ ~finished
  /\ next = 0 /\ vaults = {} /\ ~stored /\ ~stable

\* The main thread is in the action of the command that it shows.
StageInv ==
  /\ command \in Commands
  /\ command \notin {"StartNetwork", "ConnectToNetwork", "ChooseTest"} => Idle
  /\ command \in {"StartNetwork", "ConnectToNetwork"} => ~stable
  /\ command \in {"StartNetwork", "ConnectToNetwork"} /\ stage = "start" => Idle
  /\ command = "StartNetwork" =>
       /\ newNetwork
       /\ stage \in {"start", "joining", "manager", "client", "first two", "join",
                     "written", "remaining", "stored", "unwind"}
  /\ command = "ConnectToNetwork" =>
       ~newNetwork /\ stage \in {"start", "manager", "client", "vaults"}
  /\ command = "ChooseTest" => stage \in {"start", "marked"}

\* The zero-state thread is not let go before both vaults were started, and the
\* main thread goes on only with what that thread has promised; it waits for the
\* thread's end only after letting it go.  Once that is over this launch's bootstrap
\* file is there.
ZeroInv ==
  command = "StartNetwork" =>
    /\ stage = "joining" =>
         /\ ~finished
         /\ \/ zero = "joining" /\ started = "unset"
            \/ zero = "serving" /\ started = "set"
            \/ zero = "ended" /\ started = "thrown"
    /\ stage \in {"manager", "client", "first two"} => zero = "serving" /\ ~finished
    /\ stage \in {"written", "remaining", "stored"} =>
         zero = "ended" /\ bootstrapFile = launches
    /\ stage \in {"join", "unwind"} => finished /\ zero \in {"joining", "serving", "ended"}

\* Every vault the network is said to have.
Complete ==
  IF newNetwork THEN stored /\ 4 .. vaultCount + 1 \subseteq vaults
                ELSE 0 .. vaultCount - 1 \subseteq vaults

\* A loop has started every vault below the next one; what follows the loop has
\* them all.
CountInv ==
  /\ next \in Nat /\ vaultCount \in Nat
  /\ stage \in {"join", "written"} => next = 4
  /\ stage = "remaining" => 4 .. next - 1 \subseteq vaults
  /\ stage = "stored" => stored /\ 4 .. vaultCount + 1 \subseteq vaults
  /\ stage = "vaults" => 0 .. next - 1 \subseteq vaults
  /\ stage = "marked" \/ stable => Complete

AfterPort == {"EnterVlogSessionId", "ChooseToRevealHostname", "ChooseVaultCount",
              "StartNetwork", "ConnectToNetwork"}

\* The port is one the wizard let through.
UserPorts == 1025 .. 65536
PortChosen == command \in AfterPort => vaultManagerPort \in UserPorts

PortInv ==
  /\ PortChosen
  /\ PortUsable

\* Where the manager's port does not change.
LEMMA UsableKept ==
  ASSUME PortUsable, manager' = manager
  PROVE  PortUsable'
  BY DEF PortUsable

\* Where neither the command nor a port changes.
LEMMA PortKept ==
  ASSUME PortInv, UNCHANGED <<command, vaultManagerPort, manager>>
  PROVE  PortInv'
<1>1. PortChosen'
  BY DEF PortInv, PortChosen
<1>2. PortUsable'
  BY UsableKept DEF PortInv
<1> QED
  BY <1>1, <1>2 DEF PortInv

AfterRoot == AfterPort \cup {"ChoosePathToVault", "ChooseVaultManagerPort"}

\* From the question on that follows the root directory's, until the manager is
\* there, the directory is empty if it is one.
RootInv ==
  /\ dirs \in [DOMAIN dirs -> Contents]
  /\ command \in AfterRoot /\ stage \in {"start", "joining", "manager"}
       /\ IsDirectory(rootDir) => dirs[rootDir] = "empty"
  /\ stage \in {"joining", "manager"} => IsDirectory(rootDir)

\* The helper's script from its i-th answer on.
Rest(i) == SubSeq(Script, i, 6)

\* What is left of the helper's script begins with the answer for the command that
\* is shown, and the root directory is full until the question of clearing it.
ScriptInv ==
  ~vlogging /\ script # <<>> =>
    \E i \in 1 .. 6 :
      /\ script = Rest(i) /\ command = Script[i].for
      /\ i \in {1, 2} => kTestEnvRootDir \in DOMAIN dirs /\ dirs[kTestEnvRootDir] = "full"

ToolInv == StageInv /\ ZeroInv /\ CountInv /\ PortInv /\ RootInv /\ ScriptInv

-----------------------------------------------------------------------------
(* The ends of the tool *)

\* The process is gone and the network with it.
LEMMA EndStep ==
  ASSUME ToolInv, NEW how, Gone(how), Reset, dirs' \in [DOMAIN dirs' -> Contents]
  PROVE  ToolInv'
<1>1. Idle' /\ command' = "none" /\ stage' = "start" /\ script' = <<>>
  BY DEF Idle, Gone, Reset
<1>2. manager' = NoManager
  BY DEF Gone
<1>3. next' = 0 /\ vaultCount' = 0 /\ stable' = FALSE
  BY DEF Gone, Reset
<1>4. StageInv' /\ ZeroInv'
  BY <1>1 DEF StageInv, ZeroInv, Commands
<1>5. PortInv'
  BY <1>1, <1>2 DEF PortInv, PortChosen, PortUsable, AfterPort
<1>6. CountInv'
  BY <1>1, <1>3 DEF CountInv
<1>7. RootInv'
  BY <1>1 DEF RootInv, AfterRoot, AfterPort
<1>9. ScriptInv'
  BY <1>1 DEF ScriptInv
<1> QED
  BY <1>4, <1>5, <1>6, <1>7, <1>9 DEF ToolInv

\* An end of main leaves the directories as they are.
LEMMA ExitStep ==
  ASSUME ToolInv, NEW how, Exit(how) \/ Crash(how), Reset
  PROVE  ToolInv'
<1>1. Gone(how) /\ dirs' = dirs
  BY DEF Exit, Crash, disk
<1>2. dirs' \in [DOMAIN dirs' -> Contents]
  BY <1>1 DEF ToolInv, RootInv
<1> QED
  BY <1>1, <1>2, EndStep

\* An exception out of HandleChoice ends the tool, in order or by a crash.
LEMMA ThrowStep ==
  ASSUME ToolInv, NEW error, Throw(error), Reset
  PROVE  ToolInv'
  BY ExitStep DEF Throw

\* An exception out of an action: caught by StartNetwork, or out of HandleChoice.
LEMMA RaiseStep ==
  ASSUME ToolInv, command # "none", NEW error, Raise(error)
  PROVE  ToolInv'
<1>1. CASE InTry
  <2>1. /\ Catch(error) /\ command = "StartNetwork"
        /\ UNCHANGED <<command, script, entered, newNetwork, rootDir, vaultManagerPort,
                       vaultCount, dirs, files, bootstrapFile, vlogging, launches,
                       manager, exit, zero, started, next, vaults, stored, stable>>
        /\ stage' = "unwind" /\ finished' = TRUE
        /\ stage \in {"joining", "manager", "client", "first two"}
    BY <1>1 DEF Raise, InTry, Catch, wizard, choices, disk, process
  <2>2. StageInv' /\ ZeroInv' /\ CountInv'
    BY <2>1 DEF ToolInv, StageInv, ZeroInv, CountInv
  <2>3. PortInv'
    <3>1. UNCHANGED <<command, vaultManagerPort, manager>>
      BY <2>1
    <3> QED
      BY <3>1, PortKept DEF ToolInv
  <2>5. RootInv'
    BY <2>1 DEF ToolInv, RootInv, IsDirectory
  <2>4. ScriptInv'
    BY <2>1 DEF ToolInv, ScriptInv
  <2> QED
    BY <2>2, <2>3, <2>4, <2>5 DEF ToolInv
<1>2. CASE ~InTry
  BY <1>2, ThrowStep DEF Raise
<1> QED
  BY <1>1, <1>2

-----------------------------------------------------------------------------
(* The wizard *)

\* A line that is a number is a natural one.
LEMMA StoiValues ==
  /\ \A line : Stoi(line) \subseteq Nat
  /\ \A n \in Stoi("1") : n = 1
  /\ \A n \in Stoi("5583") : n = 5583
<1>1. \A line : Stoi(line) \subseteq Nat
  BY DEF Stoi
<1>2. \A n \in Stoi("1") : n = 1
  BY DEF Stoi
<1>3. \A n \in Stoi("5583") : n = 5583
  BY DEF Stoi
<1> QED
  BY <1>1, <1>2, <1>3

\* The answers of the script, one at a time.
LEMMA RestOfScript ==
  /\ Rest(1) = Script /\ Rest(7) = <<>>
  /\ \A i \in 1 .. 6 : Head(Rest(i)) = Script[i] /\ Tail(Rest(i)) = Rest(i + 1)
<1>1. PICK S : Script \in Seq(S) /\ Len(Script) = 6
  <2>1. \A a, b, c, d, e, f : /\ <<a, b, c, d, e, f>> \in Seq({a, b, c, d, e, f})
                              /\ Len(<<a, b, c, d, e, f>>) = 6
    OBVIOUS
  <2> QED
    BY <2>1 DEF Script
<1>2. Rest(1) = Script
  BY <1>1, SubSeqFull DEF Rest
<1>3. Rest(7) = <<>>
  BY <1>1, SubSeqEmpty DEF Rest
<1>4. ASSUME NEW i \in 1 .. 6
      PROVE  Head(Rest(i)) = Script[i] /\ Tail(Rest(i)) = Rest(i + 1)
  <2>1. i \in 1 .. Len(Script) /\ 6 \in i .. Len(Script)
    BY <1>1
  <2> QED
    BY <1>1, <2>1, HeadTailOfSubSeq DEF Rest
<1> QED
  BY <1>2, <1>3, <1>4

\* Its answers, each with the command it is for.
LEMMA ScriptEntries ==
  /\ Script[1].for = "Begin" /\ Script[1].line = "1"
  /\ Script[2].for = "ChooseTestRootDir" /\ Script[2].line = ""
  /\ Script[3].for = "ClearTestRootDir" /\ Script[3].line = ""
  /\ Script[4].for = "ChoosePathToVault" /\ Script[4].line = ""
  /\ Script[5].for = "ChooseVaultManagerPort" /\ Script[5].line = "5583"
  /\ Script[6].for = "ChooseVaultCount" /\ Script[6].line = ""
  BY DEF Script

RootFull == kTestEnvRootDir \in DOMAIN dirs /\ dirs[kTestEnvRootDir] = "full"

\* With the helper's script the answer read is the one written for the command.
LEMMA ScriptLine ==
  ASSUME ScriptInv, ~vlogging, script # <<>>, NEW line, GetLine(line)
  PROVE  \/ script = Rest(1) /\ command = "Begin" /\ line = "1" /\ RootFull
         \/ script = Rest(2) /\ command = "ChooseTestRootDir" /\ line = "" /\ RootFull
         \/ script = Rest(3) /\ command = "ClearTestRootDir" /\ line = ""
         \/ script = Rest(4) /\ command = "ChoosePathToVault" /\ line = ""
         \/ script = Rest(5) /\ command = "ChooseVaultManagerPort" /\ line = "5583"
         \/ script = Rest(6) /\ command = "ChooseVaultCount" /\ line = ""
<1>1. PICK i \in 1 .. 6 :
        script = Rest(i) /\ command = Script[i].for /\ (i \in {1, 2} => RootFull)
  BY DEF ScriptInv, RootFull
<1>2. line = Script[i].line
  BY <1>1, RestOfScript DEF GetLine
<1>3. CASE i = 1
  BY <1>1, <1>2, <1>3, ScriptEntries
<1>4. CASE i = 2
  BY <1>1, <1>2, <1>4, ScriptEntries
<1>5. CASE i = 3
  BY <1>1, <1>2, <1>5, ScriptEntries
<1>6. CASE i = 4
  BY <1>1, <1>2, <1>6, ScriptEntries
<1>7. CASE i = 5
  BY <1>1, <1>2, <1>7, ScriptEntries
<1>8. CASE i = 6
  BY <1>1, <1>2, <1>8, ScriptEntries
<1>9. i = 1 \/ i = 2 \/ i = 3 \/ i = 4 \/ i = 5 \/ i = 6
  OBVIOUS
<1> QED
  BY <1>3, <1>4, <1>5, <1>6, <1>7, <1>8, <1>9

\* The command an answer leads to is the one the script's next answer is for.
ScriptFollows(cmd) ==
  ~vlogging /\ script # <<>> =>
    \/ script = Rest(1) /\ cmd = "ChooseTestRootDir" /\ RootFull'
    \/ script = Rest(2) /\ cmd = "ClearTestRootDir"
    \/ script = Rest(3) /\ cmd = "ChoosePathToVault"
    \/ script = Rest(4) /\ cmd = "ChooseVaultManagerPort"
    \/ script = Rest(5) /\ cmd = "ChooseVaultCount"
    \/ script = Rest(6)

\* Then the script stays in step.
LEMMA ScriptStep ==
  ASSUME NEW cmd, Goto(cmd), ScriptFollows(cmd), vlogging' = vlogging
  PROVE  ScriptInv'
<1> SUFFICES ASSUME ~vlogging, script' # <<>>
             PROVE  \E i \in 1 .. 6 :
                      /\ script' = Rest(i) /\ command' = Script[i].for
                      /\ i \in {1, 2} => RootFull'
  BY DEF ScriptInv, RootFull
<1>1. script # <<>> /\ script' = Tail(script) /\ command' = cmd
  BY DEF Goto
<1>2. CASE script = Rest(1) /\ cmd = "ChooseTestRootDir" /\ RootFull'
  <2>1. Tail(Rest(1)) = Rest(2)
    BY RestOfScript, 1 + 1 = 2
  <2>2. script' = Rest(2)
    BY <1>1, <1>2, <2>1
  <2>3. command' = Script[2].for
    BY <1>1, <1>2, ScriptEntries
  <2> QED
    BY <1>2, <2>2, <2>3
<1>3. CASE script = Rest(2) /\ cmd = "ClearTestRootDir"
  <2>1. Tail(Rest(2)) = Rest(3)
    BY RestOfScript, 2 + 1 = 3
  <2>2. script' = Rest(3)
    BY <1>1, <1>3, <2>1
  <2>3. command' = Script[3].for
    BY <1>1, <1>3, ScriptEntries
  <2> QED
    BY <2>2, <2>3
<1>4. CASE script = Rest(3) /\ cmd = "ChoosePathToVault"
  <2>1. Tail(Rest(3)) = Rest(4)
    BY RestOfScript, 3 + 1 = 4
  <2>2. script' = Rest(4)
    BY <1>1, <1>4, <2>1
  <2>3. command' = Script[4].for
    BY <1>1, <1>4, ScriptEntries
  <2> QED
    BY <2>2, <2>3
<1>5. CASE script = Rest(4) /\ cmd = "ChooseVaultManagerPort"
  <2>1. Tail(Rest(4)) = Rest(5)
    BY RestOfScript, 4 + 1 = 5
  <2>2. script' = Rest(5)
    BY <1>1, <1>5, <2>1
  <2>3. command' = Script[5].for
    BY <1>1, <1>5, ScriptEntries
  <2> QED
    BY <2>2, <2>3
<1>6. CASE script = Rest(5) /\ cmd = "ChooseVaultCount"
  <2>1. Tail(Rest(5)) = Rest(6)
    BY RestOfScript, 5 + 1 = 6
  <2>2. script' = Rest(6)
    BY <1>1, <1>6, <2>1
  <2>3. command' = Script[6].for
    BY <1>1, <1>6, ScriptEntries
  <2> QED
    BY <2>2, <2>3
<1>7. script # Rest(6)
  BY <1>1, RestOfScript
<1> QED
  BY <1>1, <1>2, <1>3, <1>4, <1>5, <1>6, <1>7 DEF ScriptFollows

\* The same question again, or ChooseTest's: nothing else changes.
LEMMA AgainStep ==
  ASSUME ToolInv, command # "none", script = <<>> \/ vlogging, Goto(command),
         UNCHANGED <<choices, disk, process, network>>
  PROVE  ToolInv'
<1>1. command' = command /\ entered' = TRUE /\ (script = <<>> => script' = <<>>)
  BY DEF Goto
<1>2. UNCHANGED <<newNetwork, rootDir, vaultManagerPort, vaultCount, dirs, files,
                  bootstrapFile, vlogging, launches, manager, exit>>
  BY DEF choices, disk, process
<1>3. UNCHANGED <<stage, zero, started, finished, pending, next, vaults, stored, stable>>
  BY DEF network, zeroState
<1>4. StageInv' /\ ZeroInv'
  BY <1>1, <1>2, <1>3 DEF ToolInv, StageInv, ZeroInv, Idle
<1>5. CountInv'
  BY <1>1, <1>2, <1>3 DEF ToolInv, CountInv, Complete
<1>6. PortInv'
  BY <1>1, <1>2, PortKept DEF ToolInv
<1>7. RootInv'
  BY <1>1, <1>2, <1>3 DEF ToolInv, RootInv, IsDirectory
<1>9. ScriptInv'
  BY <1>1, <1>2 DEF ScriptInv
<1> QED
  BY <1>4, <1>5, <1>6, <1>7, <1>9 DEF ToolInv

\* The reset of the network when the tool ends, which Wizard adds to a command.
Follow == IF command' = "none" THEN Reset ELSE UNCHANGED network

\* "q" and a refused answer, for every command.
LEMMA RefusedStep ==
  ASSUME ToolInv, command # "none", NEW line, NEW values, Follow,
         CheckForExitCommand(line) \/ RefuseChoice(line, values)
  PROVE  ToolInv'
<1>1. CASE CheckForExitCommand(line)
  <2>1. Exit("success") /\ command' = "none"
    BY <1>1 DEF CheckForExitCommand, Exit, Gone
  <2> QED
    BY <2>1, ExitStep DEF Follow
<1>2. CASE Gone("failed") /\ UNCHANGED <<dirs, files>>
  <2>1. command' = "none" /\ dirs' = dirs
    BY <1>2 DEF Gone
  <2>2. dirs' \in [DOMAIN dirs' -> Contents]
    BY <2>1 DEF ToolInv, RootInv
  <2> QED
    BY <1>2, <2>1, <2>2, EndStep DEF Follow
<1>3. CASE script = <<>> /\ Goto(command) /\ UNCHANGED <<choices, disk, process>>
  <2>1. UNCHANGED network
    BY <1>3 DEF Goto, Follow
  <2> QED
    BY <1>3, <2>1, AgainStep
<1> QED
  BY <1>1, <1>2, <1>3 DEF RefuseChoice

\* What an answer must see to, when it leads from one question to another command.
LEMMA AnswerStep ==
  ASSUME ToolInv, command \in Questions, NEW cmd \in Commands \ {"none", "ChooseTest"},
         Goto(cmd), Follow,
         UNCHANGED process,
         cmd = "StartNetwork" => newNetwork', cmd = "ConnectToNetwork" => ~newNetwork',
         vaultCount' \in Nat, PortChosen',
         dirs' \in [DOMAIN dirs' -> Contents],
         cmd \in AfterRoot /\ IsDirectory(rootDir)' => dirs'[rootDir'] = "empty",
         ScriptFollows(cmd)
  PROVE  ToolInv'
<1>1. command' = cmd /\ entered' = TRUE
  BY DEF Goto
<1>2. UNCHANGED <<vlogging, manager>>
  BY DEF process
<1>3. UNCHANGED <<stage, zero, started, finished, pending, next, vaults, stored, stable>>
  BY <1>1 DEF Follow, network, zeroState
<1>4. Idle /\ Idle'
  BY <1>3 DEF ToolInv, StageInv, Questions, Idle
<1>5. StageInv' /\ ZeroInv'
  BY <1>1, <1>4 DEF StageInv, ZeroInv, Idle
<1>6. CountInv'
  <2>1. next' = 0 /\ stage' = "start" /\ ~stable'
    BY <1>4 DEF Idle
  <2> QED
    BY <2>1 DEF CountInv
<1>7. PortInv'
  <2>1. PortUsable'
    BY <1>2, UsableKept DEF ToolInv, PortInv
  <2> QED
    BY <2>1 DEF PortInv
<1>8. RootInv'
  <2>1. stage' = "start"
    BY <1>4 DEF Idle
  <2> QED
    BY <1>1, <2>1 DEF RootInv
<1>10. ScriptInv'
  BY <1>2, ScriptStep
<1> QED
  BY <1>5, <1>6, <1>7, <1>8, <1>10 DEF ToolInv

\* The settings an answer leaves alone hold what AnswerStep asks for.
LEMMA Settings ==
  ASSUME ToolInv, command \in Questions, UNCHANGED dirs
  PROVE  /\ dirs' \in [DOMAIN dirs' -> Contents]
         /\ vaultCount' = vaultCount => vaultCount' \in Nat
         /\ command \in AfterRoot /\ rootDir' = rootDir /\ IsDirectory(rootDir)'
              => dirs'[rootDir'] = "empty"
<1>1. stage = "start"
  BY DEF ToolInv, StageInv, Questions, Idle
<1> QED
  BY <1>1 DEF ToolInv, RootInv, CountInv, IsDirectory

\* The numbers a command lets through.
LEMMA IntChoice ==
  ASSUME NEW line, NEW default \in SUBSET Nat, NEW min \in Nat, NEW max \in Nat,
         NEW n \in ConvertInt(line, default, min, max)
  PROVE  /\ n \in min .. max
         /\ line = "" => n \in default
         /\ line # "" => n \in Stoi(line)
<1>1. line = "" => n \in default
  BY DEF ConvertInt
<1>2. line # "" => n \in Stoi(line)
  BY DEF ConvertInt
<1>3. n \in Nat
  BY <1>1, <1>2, StoiValues
<1>4. min <= n /\ n <= max
  BY DEF ConvertInt
<1>5. n \in min .. max
  BY <1>3, <1>4
<1> QED
  BY <1>1, <1>2, <1>5

\* A menu's numbers, one by one: the cases of the provers.
LEMMA SmallChoices ==
  /\ \A n \in 1 .. 2 : n = 1 \/ n = 2
  /\ \A n \in 1 .. 3 : n = 1 \/ n = 2 \/ n = 3
  OBVIOUS

\* The first question.
LEMMA BeginStep ==
  ASSUME ToolInv, NEW line, Follow, Begin(line)
  PROVE  ToolInv'
<1>1. command = "Begin" /\ GetLine(line)
  BY DEF Begin, Ask
<1>2. ASSUME NEW choice \in ConvertInt(line, {}, 1, 3), HandleBegin(choice)
      PROVE  ToolInv'
  <2>1. choice \in 1 .. 3 /\ (line # "" => choice \in Stoi(line))
    BY <1>2, IntChoice
  <2>7. line = "1" => choice = 1
    BY <2>1, StoiValues
  <2> DEFINE cmd == <<"ChooseTestRootDir", "ChooseRunningPort", "ChooseExistingNetwork">>[choice]
  <2>8. Goto(cmd)
    BY <1>2 DEF HandleBegin
  <2>9. /\ cmd \in {"ChooseTestRootDir", "ChooseRunningPort", "ChooseExistingNetwork"}
        /\ choice = 1 => cmd = "ChooseTestRootDir"
    <3>1. choice = 1 \/ choice = 2 \/ choice = 3
      BY <2>1, SmallChoices
    <3> QED
      BY <3>1
  <2> HIDE DEF cmd
  <2>2. /\ cmd \in {"ChooseTestRootDir", "ChooseRunningPort", "ChooseExistingNetwork"}
        /\ Goto(cmd) /\ (choice = 1 => cmd = "ChooseTestRootDir")
    BY <2>8, <2>9
  <2>3. UNCHANGED <<vaultCount, dirs, files, bootstrapFile, process>>
    BY <1>2 DEF HandleBegin, disk
  <2>4. ScriptFollows(cmd)
    BY <1>1, <2>7, <2>2, <2>3, ScriptLine DEF ToolInv, ScriptFollows, RootFull
  <2>5. PortChosen'
    BY <2>2 DEF PortChosen, AfterPort, Goto
  <2>6. /\ command \in Questions /\ cmd \in Commands \ {"none", "ChooseTest"}
        /\ cmd \notin AfterRoot /\ cmd # "StartNetwork" /\ cmd # "ConnectToNetwork"
    BY <1>1, <2>2 DEF Commands, Questions, AfterRoot, AfterPort
  <2> QED
    BY <2>2, <2>3, <2>4, <2>5, <2>6, AnswerStep, Settings
<1> QED
  BY <1>1, <1>2, RefusedStep DEF Begin, Ask

\* A question that the script has no answer for is put only without the script.
LEMMA NoScriptFor ==
  ASSUME ToolInv, NEW line, GetLine(line),
         command \notin {"Begin", "ChooseTestRootDir", "ClearTestRootDir",
                         "ChoosePathToVault", "ChooseVaultManagerPort", "ChooseVaultCount"}
  PROVE  script = <<>> \/ vlogging
  BY ScriptLine DEF ToolInv

\* Whether to join a network or to connect to a manager that runs.
LEMMA ExistingNetworkStep ==
  ASSUME ToolInv, NEW line, Follow, ChooseExistingNetwork(line)
  PROVE  ToolInv'
<1>1. command = "ChooseExistingNetwork" /\ GetLine(line)
  BY DEF ChooseExistingNetwork, Ask
<1>2. ASSUME NEW choice \in ConvertInt(line, {}, 1, 2), HandleExistingNetwork(choice)
      PROVE  ToolInv'
  <2>1. choice \in 1 .. 2
    BY <1>2, IntChoice
  <2>2. choice = 1 \/ choice = 2
    BY <2>1, SmallChoices
  <2> DEFINE cmd == <<"ChooseTestRootDir", "ChoosePathToBootstrap">>[choice]
  <2>3. Goto(cmd)
    BY <1>2 DEF HandleExistingNetwork
  <2>4. cmd \in {"ChooseTestRootDir", "ChoosePathToBootstrap"}
    BY <2>2
  <2> HIDE DEF cmd
  <2>5. UNCHANGED <<vaultCount, dirs, files, bootstrapFile, process>>
    BY <1>2 DEF HandleExistingNetwork, disk, choices
  <2>6. ScriptFollows(cmd)
    BY <1>1, NoScriptFor DEF ScriptFollows
  <2>7. PortChosen'
    BY <2>3, <2>4 DEF PortChosen, AfterPort, Goto
  <2>8. /\ command \in Questions /\ cmd \in Commands \ {"none", "ChooseTest"}
        /\ cmd \notin AfterRoot /\ cmd # "StartNetwork" /\ cmd # "ConnectToNetwork"
    BY <1>1, <2>4 DEF Commands, Questions, AfterRoot, AfterPort
  <2> QED
    BY <2>3, <2>5, <2>6, <2>7, <2>8, AnswerStep, Settings
<1> QED
  BY <1>1, <1>2, RefusedStep DEF ChooseExistingNetwork, Ask

\* The bootstrap file of an existing network.
LEMMA PathToBootstrapStep ==
  ASSUME ToolInv, NEW line, Follow, ChoosePathToBootstrap(line)
  PROVE  ToolInv'
<1>1. command = "ChoosePathToBootstrap" /\ GetLine(line)
  BY DEF ChoosePathToBootstrap, Ask
<1>2. ASSUME NEW path, HandlePathToBootstrap(path)
      PROVE  ToolInv'
  <2> DEFINE cmd == "ChooseTestRootDir"
  <2>1. Goto(cmd) /\ UNCHANGED <<vaultCount, dirs, files, bootstrapFile, process>>
    BY <1>2 DEF HandlePathToBootstrap, disk, choices
  <2>2. ScriptFollows(cmd)
    BY <1>1, NoScriptFor DEF ScriptFollows
  <2>3. PortChosen'
    BY <2>1 DEF PortChosen, AfterPort, Goto
  <2>4. /\ command \in Questions /\ cmd \in Commands \ {"none", "ChooseTest"}
        /\ cmd \notin AfterRoot /\ cmd # "StartNetwork" /\ cmd # "ConnectToNetwork"
    BY <1>1 DEF Commands, Questions, AfterRoot, AfterPort
  <2> QED
    BY <2>1, <2>2, <2>3, <2>4, AnswerStep, Settings
<1> QED
  BY <1>1, <1>2, RefusedStep DEF ChoosePathToBootstrap, Ask

\* The root directory: made, cleared or already empty, by what is there.
LEMMA TestRootDirStep ==
  ASSUME ToolInv, NEW line, Follow, ChooseTestRootDir(line)
  PROVE  ToolInv'
<1>1. command = "ChooseTestRootDir" /\ GetLine(line)
  BY DEF ChooseTestRootDir, Ask
<1>2. ASSUME NEW path \in ConvertPath(line, kTestEnvRootDir, FALSE), HandleTestRootDir(path)
      PROVE  ToolInv'
  <2> DEFINE cmd == CASE ~Exists(path) -> "CreateTestRootDir"
                      [] Exists(path) /\ ~IsEmpty(path) -> "ClearTestRootDir"
                      [] OTHER -> "ChoosePathToVault"
  <2>1. Goto(cmd) /\ rootDir' = path
    BY <1>2 DEF HandleTestRootDir
  <2>2. UNCHANGED <<vaultCount, dirs, files, bootstrapFile, process>>
    BY <1>2 DEF HandleTestRootDir, disk
  <2>3. /\ cmd \in {"CreateTestRootDir", "ClearTestRootDir", "ChoosePathToVault"}
        /\ cmd = "ChoosePathToVault" => IsEmpty(path)
        /\ Exists(path) /\ ~IsEmpty(path) => cmd = "ClearTestRootDir"
    OBVIOUS
  <2> HIDE DEF cmd
  <2>4. cmd \in AfterRoot /\ IsDirectory(rootDir)' => dirs'[rootDir'] = "empty"
    <3>1. IsDirectory(rootDir)' => dirs[path] \in {"empty", "full"}
      BY <2>1, <2>2 DEF IsDirectory
    <3>2. cmd \in AfterRoot => cmd = "ChoosePathToVault"
      BY <2>3 DEF AfterRoot, AfterPort
    <3>3. IsEmpty(path) => dirs[path] \in {"empty", "file"}
      BY DEF IsEmpty
    <3> QED
      BY <2>1, <2>2, <2>3, <3>1, <3>2, <3>3
  <2>5. ScriptFollows(cmd)
    <3> SUFFICES ASSUME ~vlogging, script # <<>>
                 PROVE  script = Rest(2) /\ cmd = "ClearTestRootDir"
      BY DEF ScriptFollows
    <3>1. script = Rest(2) /\ line = "" /\ RootFull
      BY <1>1, ScriptLine DEF ToolInv
    <3>2. path = kTestEnvRootDir
      BY <1>2, <3>1 DEF ConvertPath
    <3> QED
      BY <2>3, <3>1, <3>2 DEF RootFull, Exists, IsEmpty
  <2>6. PortChosen'
    BY <2>1, <2>3 DEF PortChosen, AfterPort, Goto
  <2>7. /\ command \in Questions /\ cmd \in Commands \ {"none", "ChooseTest"}
        /\ cmd # "StartNetwork" /\ cmd # "ConnectToNetwork"
    BY <1>1, <2>3 DEF Commands, Questions
  <2> QED
    BY <2>1, <2>2, <2>4, <2>5, <2>6, <2>7, AnswerStep, Settings
<1> QED
  BY <1>1, <1>2, RefusedStep DEF ChooseTestRootDir, Ask

\* An empty line takes a yes-or-no question's default.
LEMMA BoolChoice ==
  ASSUME NEW line, NEW default \in BOOLEAN, NEW b \in ConvertBool(line, default)
  PROVE  b \in BOOLEAN /\ (line = "" => b = default)
  BY DEF ConvertBool

\* A root directory that is not empty is cleared, or asked for again.
LEMMA ClearStep ==
  ASSUME ToolInv, NEW line, Follow, ClearTestRootDir(line)
  PROVE  ToolInv'
<1>1. command = "ClearTestRootDir" /\ GetLine(line)
  BY DEF ClearTestRootDir, Ask
<1>2. ASSUME NEW clear \in ConvertBool(line, TRUE), HandleClearTestRootDir(clear)
      PROVE  ToolInv'
  <2> DEFINE cmd == IF clear THEN "ChoosePathToVault" ELSE "ChooseTestRootDir"
  <2>0. clear \in BOOLEAN /\ (line = "" => clear)
    BY <1>2, BoolChoice
  <2>1. CASE /\ Goto(cmd)
             /\ dirs' = IF clear THEN MakeDir(rootDir, "empty") ELSE dirs
             /\ UNCHANGED <<choices, process>>
    <3>1. UNCHANGED <<rootDir, vaultCount>>
      BY <2>1 DEF choices
    <3>3. /\ cmd \in {"ChooseTestRootDir", "ChoosePathToVault"}
          /\ cmd = "ChoosePathToVault" <=> clear
      BY <2>0
    <3> HIDE DEF cmd
    <3>4. /\ dirs' \in [DOMAIN dirs' -> Contents]
          /\ clear => dirs'[rootDir] = "empty"
      BY <2>1 DEF ToolInv, RootInv, MakeDir, Contents
    <3>5. cmd \in AfterRoot /\ IsDirectory(rootDir)' => dirs'[rootDir'] = "empty"
      BY <3>1, <3>3, <3>4 DEF AfterRoot, AfterPort
    <3>6. ScriptFollows(cmd)
      BY <1>1, <2>0, <3>3, ScriptLine DEF ToolInv, ScriptFollows
    <3>7. PortChosen'
      BY <2>1, <3>3 DEF PortChosen, AfterPort, Goto
    <3>8. /\ command \in Questions /\ cmd \in Commands \ {"none", "ChooseTest"}
          /\ cmd # "StartNetwork" /\ cmd # "ConnectToNetwork"
      BY <1>1, <3>3 DEF Commands, Questions
    <3>9. vaultCount' \in Nat
      BY <3>1 DEF ToolInv, CountInv
    <3> QED
      BY <2>1, <3>4, <3>5, <3>6, <3>7, <3>8, <3>9, AnswerStep
  <2>2. CASE Gone("failed") /\ (dirs' = dirs \/ dirs' = RemoveDir(rootDir))
    <3>1. dirs' \in [DOMAIN dirs' -> Contents]
      BY <2>2 DEF ToolInv, RootInv, RemoveDir
    <3>2. Reset
      BY <2>2 DEF Follow, Gone
    <3> QED
      BY <2>2, <3>1, <3>2, EndStep
  <2> QED
    BY <1>2, <2>1, <2>2 DEF HandleClearTestRootDir
<1> QED
  BY <1>1, <1>2, RefusedStep DEF ClearTestRootDir, Ask

\* A root directory that is not there is made, or asked for again.
LEMMA CreateStep ==
  ASSUME ToolInv, NEW line, Follow, CreateTestRootDir(line)
  PROVE  ToolInv'
<1>1. command = "CreateTestRootDir" /\ GetLine(line)
  BY DEF CreateTestRootDir, Ask
<1>2. ASSUME NEW create \in ConvertBool(line, TRUE), HandleCreateTestRootDir(create)
      PROVE  ToolInv'
  <2> DEFINE cmd == IF create THEN "ChoosePathToVault" ELSE "ChooseTestRootDir"
  <2>0. create \in BOOLEAN
    BY <1>2, BoolChoice
  <2>1. CASE /\ Goto(cmd)
             /\ dirs' = IF create THEN MakeDir(rootDir, "empty") ELSE dirs
             /\ rootDir' = IF create THEN rootDir ELSE ""
             /\ UNCHANGED <<vaultCount, process>>
    <3>3. /\ cmd \in {"ChooseTestRootDir", "ChoosePathToVault"}
          /\ cmd = "ChoosePathToVault" <=> create
      BY <2>0
    <3> HIDE DEF cmd
    <3>4. /\ dirs' \in [DOMAIN dirs' -> Contents]
          /\ create => dirs'[rootDir] = "empty"
      BY <2>1 DEF ToolInv, RootInv, MakeDir, Contents
    <3>5. cmd \in AfterRoot /\ IsDirectory(rootDir)' => dirs'[rootDir'] = "empty"
      BY <2>1, <3>3, <3>4 DEF AfterRoot, AfterPort
    <3>6. ScriptFollows(cmd)
      BY <1>1, NoScriptFor DEF ScriptFollows
    <3>7. PortChosen'
      BY <2>1, <3>3 DEF PortChosen, AfterPort, Goto
    <3>8. /\ command \in Questions /\ cmd \in Commands \ {"none", "ChooseTest"}
          /\ cmd # "StartNetwork" /\ cmd # "ConnectToNetwork"
      BY <1>1, <3>3 DEF Commands, Questions
    <3>9. vaultCount' \in Nat
      BY <2>1 DEF ToolInv, CountInv
    <3> QED
      BY <2>1, <3>4, <3>5, <3>6, <3>7, <3>8, <3>9, AnswerStep
  <2>2. CASE Throw("failed")
    <3>1. Reset
      BY <2>2 DEF Follow, Throw, Crash, Exit, Gone
    <3> QED
      BY <2>2, <3>1, ThrowStep
  <2> QED
    BY <1>2, <2>1, <2>2 DEF HandleCreateTestRootDir
<1> QED
  BY <1>1, <1>2, RefusedStep DEF CreateTestRootDir, Ask

\* The vault's executable.
LEMMA PathToVaultStep ==
  ASSUME ToolInv, NEW line, Follow, ChoosePathToVault(line)
  PROVE  ToolInv'
<1>1. command = "ChoosePathToVault" /\ GetLine(line)
  BY DEF ChoosePathToVault, Ask
<1>2. ASSUME NEW path, HandlePathToVault(path)
      PROVE  ToolInv'
  <2> DEFINE cmd == "ChooseVaultManagerPort"
  <2>1. /\ Goto(cmd)
        /\ UNCHANGED <<rootDir, vaultCount, dirs, files, bootstrapFile, process>>
    BY <1>2 DEF HandlePathToVault, disk, choices
  <2>2. ScriptFollows(cmd)
    BY <1>1, ScriptLine DEF ToolInv, ScriptFollows
  <2>3. PortChosen'
    BY <2>1 DEF PortChosen, AfterPort, Goto
  <2>4. /\ command \in Questions /\ cmd \in Commands \ {"none", "ChooseTest"}
        /\ command \in AfterRoot /\ cmd # "StartNetwork" /\ cmd # "ConnectToNetwork"
    BY <1>1 DEF Commands, Questions, AfterRoot, AfterPort
  <2> QED
    BY <2>1, <2>2, <2>3, <2>4, AnswerStep, Settings
<1> QED
  BY <1>1, <1>2, RefusedStep DEF ChoosePathToVault, Ask

\* The ports that the question lets through.
Ports(line) == ConvertInt(line, {kVaultManagerPort}, 1025, 65536)

\* The question for the port lets only ports of users through, and 65536.
LEMMA PortChoice ==
  /\ \A line : Ports(line) \subseteq UserPorts
  /\ \A line : ChooseVaultManagerPort(line) <=>
       \E asked \in {"ChooseRunningPort", "ChooseVaultManagerPort"} :
         Ask(asked, line, Ports(line), HandleVaultManagerPort)
<1>1. \A line : Ports(line) \subseteq UserPorts
  <2> DEFINE default == {kVaultManagerPort}
             min == 1025
             max == 65536
  <2>1. default \in SUBSET Nat /\ min \in Nat /\ max \in Nat
    BY SMT DEF kVaultManagerPort
  <2>2. \A line : Ports(line) = ConvertInt(line, default, min, max)
    BY SMT DEF Ports
  <2>3. UserPorts = min .. max
    BY SMT DEF UserPorts
  <2> HIDE DEF default, min, max
  <2> QED
    BY <2>1, <2>2, <2>3, IntChoice
<1>2. \A line : ChooseVaultManagerPort(line) <=>
       \E asked \in {"ChooseRunningPort", "ChooseVaultManagerPort"} :
         Ask(asked, line, Ports(line), HandleVaultManagerPort)
  BY SMT DEF ChooseVaultManagerPort, Ports
<1> QED
  BY <1>1, <1>2

\* The port, of a manager that runs or of the one to be made.
LEMMA PortStep ==
  ASSUME ToolInv, NEW line, Follow, ChooseVaultManagerPort(line)
  PROVE  ToolInv'
<1>1. PICK asked \in {"ChooseRunningPort", "ChooseVaultManagerPort"} :
        Ask(asked, line, Ports(line), HandleVaultManagerPort)
  BY PortChoice
<1>2. command = asked /\ GetLine(line)
  BY <1>1 DEF Ask
<1>3. ASSUME NEW port \in Ports(line), HandleVaultManagerPort(port)
      PROVE  ToolInv'
  <2> DEFINE cmd == CASE command = "ChooseRunningPort" -> "ConnectToVaultManager"
                      [] command # "ChooseRunningPort" /\ vlogging -> "EnterVlogSessionId"
                      [] OTHER -> "ChooseVaultCount"
  <2>1. Goto(cmd) /\ vaultManagerPort' = port
    BY <1>3 DEF HandleVaultManagerPort
  <2>2. UNCHANGED <<rootDir, vaultCount, dirs, files, bootstrapFile, process>>
    BY <1>3 DEF HandleVaultManagerPort, disk
  <2>3. /\ cmd \in {"ConnectToVaultManager", "EnterVlogSessionId", "ChooseVaultCount"}
        /\ command = "ChooseRunningPort" => cmd = "ConnectToVaultManager"
        /\ command # "ChooseRunningPort" /\ ~vlogging => cmd = "ChooseVaultCount"
    OBVIOUS
  <2> HIDE DEF cmd
  <2>4. PortChosen'
    BY <1>3, <2>1, PortChoice DEF PortChosen
  <2>5. cmd \in AfterRoot => command \in AfterRoot
    BY <1>2, <2>3 DEF AfterRoot, AfterPort
  <2>6. ScriptFollows(cmd)
    <3> SUFFICES ASSUME ~vlogging, script # <<>>
                 PROVE  script = Rest(5) /\ cmd = "ChooseVaultCount"
      BY DEF ScriptFollows
    <3>1. script = Rest(5) /\ command = "ChooseVaultManagerPort"
      BY <1>2, ScriptLine DEF ToolInv
    <3> QED
      BY <2>3, <3>1
  <2>7. /\ command \in Questions /\ cmd \in Commands \ {"none", "ChooseTest"}
        /\ cmd # "StartNetwork" /\ cmd # "ConnectToNetwork"
    BY <1>2, <2>3 DEF Commands, Questions
  <2> QED
    BY <2>1, <2>2, <2>4, <2>5, <2>6, <2>7, AnswerStep, Settings
<1>4. command # "none"
  BY <1>2
<1> QED
  BY <1>1, <1>3, <1>4, RefusedStep DEF Ask

\* The question that only builds with USE_VLOGGING ask.
LEMMA VlogSessionIdStep ==
  ASSUME ToolInv, NEW line, Follow, EnterVlogSessionId(line)
  PROVE  ToolInv'
<1>1. command = "EnterVlogSessionId" /\ GetLine(line)
  BY DEF EnterVlogSessionId, Ask
<1>2. ASSUME NEW id, HandleVlogSessionId(id)
      PROVE  ToolInv'
  <2> DEFINE cmd == IF id = "" THEN "ChooseVaultCount" ELSE "ChooseToRevealHostname"
  <2>1. /\ Goto(cmd)
        /\ UNCHANGED <<rootDir, vaultManagerPort, vaultCount, dirs, files, bootstrapFile,
                       process>>
    BY <1>2 DEF HandleVlogSessionId, disk, choices
  <2>2. cmd \in {"ChooseVaultCount", "ChooseToRevealHostname"}
    OBVIOUS
  <2> HIDE DEF cmd
  <2>3. ScriptFollows(cmd)
    BY <1>1, NoScriptFor DEF ScriptFollows
  <2>4. PortChosen'
    BY <1>1, <2>1 DEF ToolInv, PortInv, PortChosen, AfterPort
  <2>5. /\ command \in Questions /\ cmd \in Commands \ {"none", "ChooseTest"}
        /\ command \in AfterRoot /\ cmd # "StartNetwork" /\ cmd # "ConnectToNetwork"
    BY <1>1, <2>2 DEF Commands, Questions, AfterRoot, AfterPort
  <2> QED
    BY <2>1, <2>3, <2>4, <2>5, AnswerStep, Settings
<1> QED
  BY <1>1, <1>2, RefusedStep DEF EnterVlogSessionId, Ask

\* It asks this one after a session id.
LEMMA HostnameStep ==
  ASSUME ToolInv, NEW line, Follow, ChooseToRevealHostname(line)
  PROVE  ToolInv'
<1>1. command = "ChooseToRevealHostname" /\ GetLine(line)
  BY DEF ChooseToRevealHostname, Ask
<1>2. ASSUME NEW reveal, HandleToRevealHostname(reveal)
      PROVE  ToolInv'
  <2> DEFINE cmd == "ChooseVaultCount"
  <2>1. /\ Goto(cmd)
        /\ UNCHANGED <<rootDir, vaultManagerPort, vaultCount, dirs, files, bootstrapFile,
                       process>>
    BY <1>2 DEF HandleToRevealHostname, disk, choices
  <2>2. ScriptFollows(cmd)
    BY <1>1, NoScriptFor DEF ScriptFollows
  <2>3. PortChosen'
    BY <1>1, <2>1 DEF ToolInv, PortInv, PortChosen, AfterPort
  <2>4. /\ command \in Questions /\ cmd \in Commands \ {"none", "ChooseTest"}
        /\ command \in AfterRoot /\ cmd # "StartNetwork" /\ cmd # "ConnectToNetwork"
    BY <1>1 DEF Commands, Questions, AfterRoot, AfterPort
  <2> QED
    BY <2>1, <2>2, <2>3, <2>4, AnswerStep, Settings
<1> QED
  BY <1>1, <1>2, RefusedStep DEF ChooseToRevealHostname, Ask

\* The vault counts that the question lets through.
Counts(line) ==
  ConvertInt(line, {IF newNetwork THEN kVaultCountNewNetwork ELSE kVaultCount},
             IF newNetwork THEN kVaultCountNewNetwork ELSE 1, 2147483647)

\* The number of vaults is a natural number.
LEMMA CountChoice ==
  /\ \A line : Counts(line) \subseteq Nat
  /\ \A line : ChooseVaultCount(line) <=>
                 Ask("ChooseVaultCount", line, Counts(line), HandleVaultCount)
<1>1. \A line : Counts(line) \subseteq Nat
  <2> DEFINE default == {IF newNetwork THEN kVaultCountNewNetwork ELSE kVaultCount}
             min == IF newNetwork THEN kVaultCountNewNetwork ELSE 1
             max == 2147483647
  <2>1. default \in SUBSET Nat /\ min \in Nat /\ max \in Nat
    BY SMT DEF kVaultCountNewNetwork, kVaultCount
  <2>2. \A line : Counts(line) = ConvertInt(line, default, min, max)
    BY SMT DEF Counts
  <2> HIDE DEF default, min, max
  <2>3. min .. max \subseteq Nat
    BY <2>1
  <2> QED
    BY <2>1, <2>2, <2>3, IntChoice
<1>2. \A line : ChooseVaultCount(line) <=>
                  Ask("ChooseVaultCount", line, Counts(line), HandleVaultCount)
  BY SMT DEF ChooseVaultCount, Counts
<1> QED
  BY <1>1, <1>2

\* The last question: the action that follows is that of the network chosen.
LEMMA VaultCountStep ==
  ASSUME ToolInv, NEW line, Follow, ChooseVaultCount(line)
  PROVE  ToolInv'
<1>1. Ask("ChooseVaultCount", line, Counts(line), HandleVaultCount)
  BY CountChoice
<1>3. command = "ChooseVaultCount" /\ GetLine(line)
  BY <1>1 DEF Ask
<1>4. ASSUME NEW count \in Counts(line), HandleVaultCount(count)
      PROVE  ToolInv'
  <2> DEFINE cmd == IF newNetwork THEN "StartNetwork" ELSE "ConnectToNetwork"
  <2>1. /\ Goto(cmd) /\ vaultCount' = count
        /\ UNCHANGED <<newNetwork, rootDir, vaultManagerPort, dirs, files, bootstrapFile,
                       process>>
    BY <1>4 DEF HandleVaultCount, disk
  <2>2. /\ cmd \in {"StartNetwork", "ConnectToNetwork"}
        /\ cmd = "StartNetwork" => newNetwork
        /\ cmd = "ConnectToNetwork" => ~newNetwork
    OBVIOUS
  <2> HIDE DEF cmd
  <2>3. ScriptFollows(cmd)
    BY <1>3, ScriptLine DEF ToolInv, ScriptFollows
  <2>4. PortChosen'
    BY <1>3, <2>1 DEF ToolInv, PortInv, PortChosen, AfterPort
  <2>5. vaultCount' \in Nat
    BY <1>4, <2>1, CountChoice
  <2>6. /\ command \in Questions /\ cmd \in Commands \ {"none", "ChooseTest"}
        /\ command \in AfterRoot
    BY <1>3, <2>2 DEF Commands, Questions, AfterRoot, AfterPort
  <2> QED
    BY <2>1, <2>2, <2>3, <2>4, <2>5, <2>6, AnswerStep, Settings
<1>5. command # "none"
  BY <1>3
<1> QED
  BY <1>1, <1>4, <1>5, RefusedStep DEF Ask

\* ChooseTest ends the tool or asks again, whatever its destroyed member reads as.
LEMMA TestStep ==
  ASSUME ToolInv, NEW line, Follow, ChooseTest(line)
  PROVE  ToolInv'
<1>1. command = "ChooseTest" /\ GetLine(line)
  BY DEF ChooseTest, Ask
<1>2. ASSUME NEW error, Throw(error)
      PROVE  ToolInv'
  <2>1. command' = "none"
    BY <1>2 DEF Throw, Crash, Exit, Gone
  <2> QED
    BY <1>1, <1>2, <2>1, ThrowStep DEF Follow
<1>3. CASE Goto("ChooseTest") /\ UNCHANGED <<choices, disk, process>>
  <2>1. Goto(command) /\ UNCHANGED network
    BY <1>1, <1>3 DEF Follow, Goto
  <2>2. script = <<>> \/ vlogging
    BY <1>1, NoScriptFor
  <2>3. command # "none"
    BY <1>1
  <2>4. UNCHANGED <<choices, disk, process, network>>
    BY <1>3, <2>1
  <2> QED
    BY <2>1, <2>2, <2>3, <2>4, AgainStep
<1> QED
  BY <1>1, <1>2, <1>3, RefusedStep DEF ChooseTest, Ask, HandleTest

\* A line that cannot be read ends the tool.
LEMMA ReadFailsStep ==
  ASSUME ToolInv, Follow, ReadFails
  PROVE  ToolInv'
<1>1. Exit("failed") /\ Reset
  BY DEF ReadFails, Follow, Exit, Gone
<1> QED
  BY <1>1, ExitStep

\* An answer at the wizard, whatever the question and the line.
LEMMA WizardStep ==
  ASSUME ToolInv, NEW line, Wizard(line)
  PROVE  ToolInv'
<1>1. WizardNext(line) /\ Follow
  BY DEF Wizard, Follow
<1> QED
  BY <1>1, BeginStep, ExistingNetworkStep, PathToBootstrapStep, TestRootDirStep, ClearStep,
     CreateStep, PathToVaultStep, PortStep, VlogSessionIdStep, HostnameStep,
     VaultCountStep, TestStep, ReadFailsStep DEF WizardNext

-----------------------------------------------------------------------------
(* The main thread, the zero-state thread and the manager *)

\* While a network is started the script is used up.
LEMMA NoScriptNow ==
  ASSUME ToolInv, command \in {"StartNetwork", "ConnectToNetwork", "ConnectToVaultManager"}
  PROVE  script = <<>> \/ vlogging
<1> SUFFICES ASSUME ~vlogging, script # <<>> PROVE FALSE
  OBVIOUS
<1>1. PICK i \in 1 .. 6 : command = Script[i].for
  BY DEF ToolInv, ScriptInv
<1>2. i = 1 \/ i = 2 \/ i = 3 \/ i = 4 \/ i = 5 \/ i = 6
  OBVIOUS
<1> QED
  BY <1>1, <1>2, ScriptEntries

\* A step of a thread that leaves the wizard's part alone.
LEMMA ThreadStep ==
  ASSUME ToolInv, UNCHANGED wizard, StageInv', ZeroInv', CountInv',
         command \in AfterRoot /\ stage' \in {"start", "joining", "manager"} =>
           stage \in {"start", "joining", "manager"},
         stage' \in {"joining", "manager"} => IsDirectory(rootDir)
  PROVE  ToolInv'
<1>1. UNCHANGED <<command, script, entered, newNetwork, rootDir, vaultManagerPort,
                  vaultCount, dirs, files, bootstrapFile, vlogging, launches, manager, exit>>
  BY DEF wizard, choices, disk, process
<1>2. PortInv'
  BY <1>1, PortKept DEF ToolInv
<1>3. RootInv'
  BY <1>1 DEF ToolInv, RootInv, IsDirectory
<1>5. ScriptInv'
  BY <1>1 DEF ToolInv, ScriptInv
<1> QED
  BY <1>2, <1>3, <1>5 DEF ToolInv

\* Which command the main thread is in, by its stage.
LEMMA StageCommand ==
  ASSUME ToolInv
  PROVE  /\ stage \in {"joining", "first two", "join", "written", "remaining", "stored",
                       "unwind"} =>
              command = "StartNetwork"
         /\ stage = "vaults" => command = "ConnectToNetwork"
         /\ stage \in {"manager", "client"} => command \in {"StartNetwork", "ConnectToNetwork"}
         /\ stage = "marked" => command = "ChooseTest"
  BY DEF ToolInv, StageInv, Idle

\* StartNetwork starts its second thread.
LEMMA LaunchZeroStateStep ==
  ASSUME ToolInv, LaunchZeroState
  PROVE  ToolInv'
<1>1. CASE ~IsDirectory(rootDir) /\ Raise("failed")
  BY <1>1, RaiseStep DEF LaunchZeroState
<1>2. CASE /\ IsDirectory(rootDir) /\ stage' = "joining" /\ zero' = "joining"
           /\ UNCHANGED <<wizard, started, finished, pending, next, vaults, stored, stable>>
  <2>1. command = "StartNetwork" /\ stage = "start" /\ Idle /\ newNetwork
    BY DEF LaunchZeroState, ToolInv, StageInv
  <2>2. command' = command /\ newNetwork' = newNetwork /\ vaultCount' = vaultCount
    BY <1>2 DEF wizard, choices
  <2>3. StageInv' /\ ZeroInv'
    BY <1>2, <2>1, <2>2 DEF StageInv, ZeroInv, Idle, Commands
  <2>4. next' = next /\ stage' = "joining" /\ ~stable'
    BY <1>2, <2>1 DEF Idle
  <2>5. CountInv'
    BY <2>2, <2>4 DEF ToolInv, CountInv
  <2> QED
    BY <1>2, <2>1, <2>3, <2>5, ThreadStep
<1> QED
  BY <1>1, <1>2 DEF LaunchZeroState

\* The main thread goes on with what the zero-state thread has promised.
LEMMA WaitForZeroStateStep ==
  ASSUME ToolInv, WaitForZeroState
  PROVE  ToolInv'
<1>1. command = "StartNetwork" /\ stage = "joining"
  BY StageCommand DEF WaitForZeroState
<1>2. CASE started = "thrown" /\ Raise("failed")
  BY <1>1, <1>2, RaiseStep
<1>3. CASE /\ started = "set" /\ stage' = "manager"
           /\ UNCHANGED <<wizard, zeroState, pending, next, vaults, stored, stable>>
  <2>1. UNCHANGED <<command, newNetwork, vaultCount, zero, started, finished, next, stable>>
    BY <1>3 DEF wizard, choices, zeroState
  <2>2. StageInv' /\ ZeroInv'
    BY <1>1, <1>3, <2>1 DEF ToolInv, StageInv, ZeroInv
  <2>3. CountInv'
    <3>1. ~stable'
      BY <1>1, <2>1 DEF ToolInv, StageInv
    <3> QED
      BY <1>3, <2>1, <3>1 DEF ToolInv, CountInv
  <2>4. IsDirectory(rootDir)
    BY <1>1 DEF ToolInv, RootInv
  <2> QED
    BY <1>1, <1>3, <2>2, <2>3, <2>4, ThreadStep
<1> QED
  BY <1>2, <1>3 DEF WaitForZeroState

\* A port of the user's range is one of the manager's after the cast.
LEMMA CastPort ==
  ASSUME NEW p \in Int, 1025 <= p, p <= 65536
  PROVE  p % 65536 = 0 \/ (1025 <= p % 65536 /\ p % 65536 <= 65535)
<1>1. CASE p = 65536
  <2>1. 65536 % 65536 = 0
    BY SMT
  <2> QED
    BY <1>1, <2>1, SMT
<1>2. CASE p < 65536
  <2>1. p % 65536 = p
    BY <1>2, SMT
  <2> QED
    BY <1>2, <2>1, SMT
<1> QED
  BY <1>1, <1>2, SMT

\* So the manager listens on a port that needs no privilege.
LEMMA ListeningPort ==
  ASSUME vaultManagerPort \in UserPorts, manager' = GetInitialListeningPort
  PROVE  PortUsable'
<1> DEFINE port == vaultManagerPort % 65536
<1>1. vaultManagerPort \in Int /\ 1025 <= vaultManagerPort /\ vaultManagerPort <= 65536
  BY SMT DEF UserPorts
<1>2. port \in Int
  BY <1>1, SMT
<1>3. port = 0 \/ (1025 <= port /\ port <= 65535)
  BY <1>1, CastPort, SMT
<1>4. manager' = IF port = 0 THEN kLivePort + 100 ELSE port
  BY SMT DEF GetInitialListeningPort
<1> HIDE DEF port
<1>5. manager' \in 1025 .. 65535
  BY <1>2, <1>3, <1>4, SMT DEF kLivePort
<1>6. manager' \in UnprivilegedPorts
  BY <1>5, SMT DEF UnprivilegedPorts
<1> QED
  BY <1>6 DEF PortUsable

\* The manager is made in the root directory, or its constructor throws.
LEMMA MakeVaultManagerStep ==
  ASSUME ToolInv, NEW ok, MakeVaultManager(ok)
  PROVE  ToolInv'
<1>1. stage = "manager" /\ command \in {"StartNetwork", "ConnectToNetwork"}
  BY StageCommand DEF MakeVaultManager
<1>2. CASE Raise("failed")
  BY <1>1, <1>2, RaiseStep
<1>3. CASE /\ manager' = GetInitialListeningPort
           /\ dirs' = [dirs EXCEPT ![rootDir] = "full"] /\ stage' = "client"
           /\ UNCHANGED <<command, script, entered, choices, files, bootstrapFile, vlogging,
                          launches, exit, zeroState, pending, next, vaults, stored, stable>>
  <2>1. UNCHANGED <<command, script, entered, newNetwork, rootDir, vaultManagerPort,
                    vaultCount, bootstrapFile, vlogging, launches, exit, zero, started,
                    finished, next, vaults, stored, stable>>
    BY <1>3 DEF choices, zeroState
  <2>2. StageInv' /\ ZeroInv'
    BY <1>1, <1>3, <2>1 DEF ToolInv, StageInv, ZeroInv
  <2>3. CountInv'
    <3>1. ~stable'
      BY <1>1, <2>1 DEF ToolInv, StageInv
    <3> QED
      BY <1>3, <2>1, <3>1 DEF ToolInv, CountInv
  <2>4. PortInv'
    <3>1. vaultManagerPort \in UserPorts
      BY <1>1 DEF ToolInv, PortInv, PortChosen, AfterPort
    <3>3. PortUsable'
      BY <1>3, <3>1, ListeningPort, Zenon
    <3>4. PortChosen'
      BY <2>1, <3>1 DEF PortChosen
    <3> QED
      BY <3>3, <3>4 DEF PortInv
  <2>5. RootInv'
    <3>1. dirs' \in [DOMAIN dirs' -> Contents]
      BY <1>3 DEF ToolInv, RootInv, Contents
    <3> QED
      BY <1>3, <3>1 DEF RootInv
  <2>7. ScriptInv'
    BY <1>1, <2>1, NoScriptNow DEF ScriptInv
  <2> QED
    BY <2>2, <2>3, <2>4, <2>5, <2>7 DEF ToolInv
<1> QED
  BY <1>2, <1>3 DEF MakeVaultManager

\* The client connects to it, or throws.
LEMMA MakeClientInterfaceStep ==
  ASSUME ToolInv, NEW outcome, MakeClientInterface(outcome)
  PROVE  ToolInv'
<1>1. stage = "client" /\ command \in {"StartNetwork", "ConnectToNetwork"}
  BY StageCommand DEF MakeClientInterface
<1>2. CASE Raise(outcome)
  BY <1>1, <1>2, RaiseStep
<1>3. CASE /\ stage' = IF newNetwork THEN "first two" ELSE "vaults"
           /\ next' = IF newNetwork THEN 2 ELSE 0
           /\ UNCHANGED <<wizard, zeroState, pending, vaults, stored, stable>>
  <2>1. UNCHANGED <<command, newNetwork, vaultCount, zero, started, finished, vaults, stable>>
    BY <1>3 DEF wizard, choices, zeroState
  <2>5. /\ newNetwork => stage' = "first two"
        /\ ~newNetwork => stage' = "vaults"
    BY <1>3
  <2>2. StageInv' /\ ZeroInv'
    BY <1>1, <2>1, <2>5 DEF ToolInv, StageInv, ZeroInv
  <2>3. CountInv'
    <3>1. ~stable'
      BY <1>1, <2>1 DEF ToolInv, StageInv
    <3>2. next' \in Nat /\ (stage' = "vaults" => next' = 0)
      BY <1>3
    <3>3. stage' \in {"first two", "vaults"}
      BY <1>3
    <3>4. 0 .. 0 - 1 \subseteq vaults'
      OBVIOUS
    <3> QED
      BY <2>1, <3>1, <3>2, <3>3, <3>4 DEF ToolInv, CountInv
  <2>4. stage' \notin {"start", "joining", "manager"}
    BY <1>3
  <2> QED
    BY <1>3, <2>2, <2>3, <2>4, ThreadStep
<1> QED
  BY <1>2, <1>3 DEF MakeClientInterface

\* All the arithmetic that the loops need.
LEMMA Successor == \A n \in Nat : n + 1 \in Nat
  OBVIOUS

\* One more vault has been started, in a loop or not.
LEMMA OneMore ==
  ASSUME NEW low \in Nat, NEW n \in Nat, NEW S, low .. n - 1 \subseteq S
  PROVE  low .. (n + 1) - 1 \subseteq S \cup {n}
  OBVIOUS

\* A step of a loop: the index goes on, and nothing else but the vaults.
Advance ==
  /\ next' = next + 1
  /\ stage # "first two" => vaults' = vaults \cup {next}
  /\ UNCHANGED <<wizard, stage, zeroState, pending, stored, stable>>

\* Any of the three loops goes on to its next vault, with those before it started.
LEMMA LoopStep ==
  ASSUME ToolInv, stage \in {"first two", "remaining", "vaults"}, Advance
  PROVE  ToolInv'
<1>1. UNCHANGED <<command, newNetwork, vaultCount, stage, zero, started, finished, stored,
                  stable, bootstrapFile, launches>>
  BY DEF Advance, wizard, choices, zeroState, disk, process
<1>2. command \in {"StartNetwork", "ConnectToNetwork"} /\ ~stable
  BY StageCommand DEF ToolInv, StageInv
<1>3. StageInv' /\ ZeroInv'
  BY <1>1, <1>2 DEF ToolInv, StageInv, ZeroInv
<1>4. CountInv'
  <2>1. next \in Nat /\ vaultCount' \in Nat
    BY <1>1 DEF ToolInv, CountInv
  <2>2. next' = next + 1
    BY DEF Advance
  <2>3. next' \in Nat
    BY <2>1, <2>2, Successor
  <2>4. stage = "remaining" => 4 .. (next + 1) - 1 \subseteq vaults'
    <3>1. stage = "remaining" => 4 .. next - 1 \subseteq vaults
      BY DEF ToolInv, CountInv
    <3>2. stage = "remaining" => vaults' = vaults \cup {next}
      BY DEF Advance
    <3> QED
      BY <2>1, <3>1, <3>2, OneMore
  <2>5. stage = "vaults" => 0 .. (next + 1) - 1 \subseteq vaults'
    <3>1. stage = "vaults" => 0 .. next - 1 \subseteq vaults
      BY DEF ToolInv, CountInv
    <3>2. stage = "vaults" => vaults' = vaults \cup {next}
      BY DEF Advance
    <3> QED
      BY <2>1, <3>1, <3>2, OneMore
  <2> QED
    BY <1>1, <1>2, <2>1, <2>2, <2>3, <2>4, <2>5 DEF CountInv
<1>5. stage' \notin {"start", "joining", "manager"} /\ UNCHANGED wizard
  BY <1>1 DEF Advance
<1> QED
  BY <1>3, <1>4, <1>5, ThreadStep

\* The loop beside the zero-state nodes.
LEMMA StartFirstTwoVaultsStep ==
  ASSUME ToolInv, NEW outcome, StartFirstTwoVaults(outcome)
  PROVE  ToolInv'
<1>1. stage = "first two" /\ command = "StartNetwork"
  BY StageCommand DEF StartFirstTwoVaults
<1>2. CASE Raise("failed")
  BY <1>1, <1>2, RaiseStep
<1>3. CASE next' = next + 1 /\ UNCHANGED <<wizard, stage, zeroState, pending, stored, stable>>
  BY <1>1, <1>3, LoopStep DEF Advance
<1> QED
  BY <1>2, <1>3 DEF StartFirstTwoVaults

\* The loop after them.
LEMMA StartRemainingVaultsStep ==
  ASSUME ToolInv, NEW outcome, StartRemainingVaults(outcome)
  PROVE  ToolInv'
<1>1. stage = "remaining" /\ command = "StartNetwork"
  BY StageCommand DEF StartRemainingVaults
<1>2. CASE Raise(outcome)
  BY <1>1, <1>2, RaiseStep
<1>3. CASE /\ vaults' = vaults \cup {next} /\ next' = next + 1
           /\ UNCHANGED <<wizard, stage, zeroState, pending, stored, stable>>
  BY <1>1, <1>3, LoopStep DEF Advance
<1> QED
  BY <1>2, <1>3 DEF StartRemainingVaults

\* The loop for an existing network.
LEMMA StartVaultsStep ==
  ASSUME ToolInv, NEW outcome, StartVaults(outcome)
  PROVE  ToolInv'
<1>1. stage = "vaults" /\ command = "ConnectToNetwork"
  BY StageCommand DEF StartVaults
<1>2. CASE Raise(outcome)
  BY <1>1, <1>2, RaiseStep
<1>3. CASE /\ vaults' = vaults \cup {next} /\ next' = next + 1
           /\ UNCHANGED <<wizard, stage, zeroState, pending, stored, stable>>
  BY <1>1, <1>3, LoopStep DEF Advance
<1> QED
  BY <1>2, <1>3 DEF StartVaults

\* The first two vaults run: the zero-state thread is let go.
LEMMA FinishZeroStateStep ==
  ASSUME ToolInv, FinishZeroState
  PROVE  ToolInv'
<1>1. stage = "first two" /\ command = "StartNetwork" /\ next = 4
  BY StageCommand DEF FinishZeroState
<1>2. /\ stage' = "join" /\ finished' = TRUE /\ UNCHANGED wizard
      /\ UNCHANGED <<command, newNetwork, vaultCount, zero, started, next, stable>>
  BY DEF FinishZeroState, wizard, choices
<1>3. StageInv' /\ ZeroInv'
  BY <1>1, <1>2 DEF ToolInv, StageInv, ZeroInv
<1>4. ~stable'
  BY <1>1, <1>2 DEF ToolInv, StageInv
<1>5. CountInv'
  BY <1>1, <1>2, <1>4 DEF ToolInv, CountInv
<1> QED
  BY <1>2, <1>3, <1>5, ThreadStep

\* The bootstrap file is written once the zero-state thread has ended.
LEMMA JoinZeroStateStep ==
  ASSUME ToolInv, NEW written, JoinZeroState(written)
  PROVE  ToolInv'
<1>1. stage = "join" /\ zero = "ended" /\ command = "StartNetwork"
  BY StageCommand DEF JoinZeroState
<1>2. CASE Raise("failed")
  BY <1>1, <1>2, RaiseStep
<1>3. CASE /\ bootstrapFile' = launches /\ stage' = "written"
           /\ UNCHANGED <<command, script, entered, choices, dirs, files, process, zeroState,
                          pending, next, vaults, stored, stable>>
  <2>1. UNCHANGED <<command, script, newNetwork, rootDir, vaultManagerPort, vaultCount, dirs,
                    vlogging, launches, manager, zero, next, stable>>
    BY <1>3 DEF choices, process, zeroState
  <2>2. StageInv' /\ ZeroInv'
    BY <1>1, <1>3, <2>1 DEF ToolInv, StageInv, ZeroInv
  <2>3. ~stable'
    BY <1>1, <2>1 DEF ToolInv, StageInv
  <2>4. CountInv'
    BY <1>1, <1>3, <2>1, <2>3 DEF ToolInv, CountInv
  <2>5. PortInv'
    BY <2>1, PortKept DEF ToolInv
  <2>6. RootInv'
    BY <1>3, <2>1 DEF ToolInv, RootInv
  <2>7. ScriptInv'
    BY <2>1 DEF ToolInv, ScriptInv
  <2> QED
    BY <2>2, <2>4, <2>5, <2>6, <2>7 DEF ToolInv
<1> QED
  BY <1>2, <1>3 DEF JoinZeroState

\* The other vaults' bootstrap file is prepared from it.
LEMMA PrepareBootstrapFileStep ==
  ASSUME ToolInv, NEW prepared, PrepareBootstrapFile(prepared)
  PROVE  ToolInv'
<1>1. stage = "written" /\ command = "StartNetwork"
  BY StageCommand DEF PrepareBootstrapFile
<1>2. CASE Raise("failed")
  BY <1>1, <1>2, RaiseStep
<1>3. CASE /\ stage' = "remaining"
           /\ UNCHANGED <<wizard, zeroState, pending, next, vaults, stored, stable>>
  <2>1. UNCHANGED <<command, newNetwork, vaultCount, zero, started, finished, next, stable,
                    bootstrapFile, launches>>
    BY <1>3 DEF wizard, choices, zeroState, disk, process
  <2>2. StageInv' /\ ZeroInv'
    BY <1>1, <1>3, <2>1 DEF ToolInv, StageInv, ZeroInv
  <2>3. CountInv'
    <3>1. ~stable'
      BY <1>1, <2>1 DEF ToolInv, StageInv
    <3>2. next = 4 /\ 4 .. 4 - 1 \subseteq vaults'
      BY <1>1 DEF ToolInv, CountInv
    <3> QED
      BY <1>3, <2>1, <3>1, <3>2 DEF ToolInv, CountInv
  <2>4. stage' \notin {"start", "joining", "manager"}
    BY <1>3
  <2> QED
    BY <1>3, <2>2, <2>3, <2>4, ThreadStep
<1> QED
  BY <1>2, <1>3 DEF PrepareBootstrapFile

\* The keys are stored when all the vaults run.
LEMMA StorePublicPmidsStep ==
  ASSUME ToolInv, NEW failures, StorePublicPmids(failures)
  PROVE  ToolInv'
<1>1. stage = "remaining" /\ command = "StartNetwork" /\ next = vaultCount + 2
  BY StageCommand DEF StorePublicPmids
<1>2. CASE Raise("failed")
  BY <1>1, <1>2, RaiseStep
<1>3. CASE /\ stored' = TRUE /\ stage' = "stored"
           /\ UNCHANGED <<wizard, zeroState, pending, next, vaults, stable>>
  <2>1. UNCHANGED <<command, newNetwork, vaultCount, zero, started, finished, next, vaults,
                    stable, bootstrapFile, launches>>
    BY <1>3 DEF wizard, choices, zeroState, disk, process
  <2>2. StageInv' /\ ZeroInv'
    BY <1>1, <1>3, <2>1 DEF ToolInv, StageInv, ZeroInv
  <2>3. CountInv'
    <3>1. ~stable'
      BY <1>1, <2>1 DEF ToolInv, StageInv
    <3>2. vaultCount \in Nat /\ next \in Nat /\ 4 .. next - 1 \subseteq vaults
      BY <1>1 DEF ToolInv, CountInv
    <3>3. 4 .. vaultCount + 1 \subseteq vaults
      BY <1>1, <3>2
    <3> QED
      BY <1>3, <2>1, <3>1, <3>2, <3>3 DEF CountInv
  <2>4. stage' \notin {"start", "joining", "manager"}
    BY <1>3
  <2> QED
    BY <1>3, <2>2, <2>3, <2>4, ThreadStep
<1> QED
  BY <1>2, <1>3 DEF StorePublicPmids

\* MarkNetworkAsStable, once the network is complete.
LEMMA MarkStep ==
  ASSUME ToolInv, command \in {"StartNetwork", "ConnectToNetwork"}, Complete,
         MarkNetworkAsStable
  PROVE  ToolInv'
<1>1. /\ command' = "ChooseTest" /\ stage' = "marked" /\ entered' = TRUE
      /\ script = <<>> => script' = <<>>
  BY DEF MarkNetworkAsStable, Goto
<1>2. UNCHANGED <<newNetwork, rootDir, vaultManagerPort, vaultCount, dirs, bootstrapFile,
                  vlogging, launches, manager, exit, next, vaults, stored, stable>>
  BY DEF MarkNetworkAsStable, choices, disk, process
<1>3. StageInv' /\ ZeroInv'
  BY <1>1 DEF StageInv, ZeroInv, Commands
<1>4. CountInv'
  BY <1>1, <1>2 DEF ToolInv, CountInv, Complete
<1>5. PortInv'
  <2>1. PortUsable'
    BY <1>2, UsableKept DEF ToolInv, PortInv
  <2>2. PortChosen'
    BY <1>1 DEF PortChosen, AfterPort
  <2> QED
    BY <2>1, <2>2 DEF PortInv
<1>6. RootInv'
  BY <1>1, <1>2 DEF ToolInv, RootInv, AfterRoot, AfterPort
<1>8. ScriptInv'
  BY <1>1, <1>2, NoScriptNow DEF ScriptInv
<1> QED
  BY <1>3, <1>4, <1>5, <1>6, <1>8 DEF ToolInv

\* A new network is marked as stable.
LEMMA NetworkSetUpStep ==
  ASSUME ToolInv, NetworkSetUp
  PROVE  ToolInv'
<1>1. stage = "stored" /\ command = "StartNetwork"
  BY StageCommand DEF NetworkSetUp
<1>2. Complete
  BY <1>1 DEF ToolInv, StageInv, CountInv, Complete
<1> QED
  BY <1>1, <1>2, MarkStep DEF NetworkSetUp

\* The vaults of an existing network are marked as stable.
LEMMA VaultsStartedStep ==
  ASSUME ToolInv, VaultsStarted
  PROVE  ToolInv'
<1>1. stage = "vaults" /\ command = "ConnectToNetwork" /\ next = vaultCount
  BY StageCommand DEF VaultsStarted
<1>2. Complete
  BY <1>1 DEF ToolInv, StageInv, CountInv, Complete
<1> QED
  BY <1>1, <1>2, MarkStep DEF VaultsStarted

\* For an existing network the manager is made without a second thread.
LEMMA ConnectToNetworkStep ==
  ASSUME ToolInv, NEW prepared, ConnectToNetwork(prepared)
  PROVE  ToolInv'
<1>1. command = "ConnectToNetwork" /\ stage = "start" /\ Idle
  BY DEF ConnectToNetwork, ToolInv, StageInv
<1>2. CASE Raise("failed")
  BY <1>1, <1>2, RaiseStep
<1>3. CASE /\ IsDirectory(rootDir) /\ stage' = "manager"
           /\ UNCHANGED <<wizard, zeroState, pending, next, vaults, stored, stable>>
  <2>1. UNCHANGED <<command, newNetwork, vaultCount, next, stable>>
    BY <1>3 DEF wizard, choices
  <2>2. StageInv' /\ ZeroInv'
    BY <1>1, <1>3, <2>1 DEF ToolInv, StageInv, ZeroInv, Idle
  <2>3. CountInv'
    <3>1. ~stable' /\ stage' = "manager"
      BY <1>1, <1>3, <2>1 DEF Idle
    <3> QED
      BY <2>1, <3>1 DEF ToolInv, CountInv
  <2> QED
    BY <1>1, <1>3, <2>2, <2>3, ThreadStep
<1> QED
  BY <1>2, <1>3 DEF ConnectToNetwork

\* A manager that runs already gets a client only.
LEMMA ConnectToVaultManagerStep ==
  ASSUME ToolInv, NEW outcome, ConnectToVaultManager(outcome)
  PROVE  ToolInv'
<1>1. command = "ConnectToVaultManager" /\ Idle
  BY DEF ConnectToVaultManager, ToolInv, StageInv
<1>2. ASSUME NEW error, Raise(error)
      PROVE  ToolInv'
  BY <1>1, <1>2, RaiseStep
<1>3. CASE Goto("ChooseTest") /\ UNCHANGED <<choices, disk, process, network>>
  <2>1. command' = "ChooseTest" /\ entered' = TRUE /\ (script = <<>> => script' = <<>>)
    BY <1>3 DEF Goto
  <2>2. UNCHANGED <<newNetwork, rootDir, vaultManagerPort, vaultCount, dirs, bootstrapFile,
                    vlogging, launches, manager, exit>>
    BY <1>3 DEF choices, disk, process
  <2>3. UNCHANGED <<stage, next, stable>>
    BY <1>3 DEF network
  <2>4. StageInv' /\ ZeroInv'
    BY <1>1, <2>1, <2>3 DEF StageInv, ZeroInv, Commands, Idle
  <2>5. CountInv'
    <3>1. ~stable' /\ stage' = "start"
      BY <1>1, <2>3 DEF Idle
    <3> QED
      BY <2>2, <2>3, <3>1 DEF ToolInv, CountInv
  <2>6. PortInv'
    <3>1. PortUsable'
      BY <2>2, UsableKept DEF ToolInv, PortInv
    <3>2. PortChosen'
      BY <2>1 DEF PortChosen, AfterPort
    <3> QED
      BY <3>1, <3>2 DEF PortInv
  <2>7. RootInv'
    <3>1. stage' = "start"
      BY <1>1, <2>3 DEF Idle
    <3> QED
      BY <2>1, <2>2, <3>1 DEF ToolInv, RootInv, AfterRoot, AfterPort
  <2>9. ScriptInv'
    BY <1>1, <2>1, <2>2, NoScriptNow DEF ScriptInv
  <2> QED
    BY <2>4, <2>5, <2>6, <2>7, <2>9 DEF ToolInv
<1> QED
  BY <1>2, <1>3 DEF ConnectToVaultManager

\* StartNetwork's catch clause has let the second thread go, and throws on.
LEMMA RethrowStep ==
  ASSUME ToolInv, Rethrow
  PROVE  ToolInv'
<1>1. command = "StartNetwork"
  BY StageCommand DEF Rethrow
<1> QED
  BY <1>1, ThrowStep DEF Rethrow

\* So every step of an action of the wizard keeps the invariant.
LEMMA MainThreadStep ==
  ASSUME ToolInv, MainThread
  PROVE  ToolInv'
  BY LaunchZeroStateStep, WaitForZeroStateStep, MakeVaultManagerStep,
     MakeClientInterfaceStep, StartFirstTwoVaultsStep, FinishZeroStateStep,
     JoinZeroStateStep, PrepareBootstrapFileStep, RethrowStep, StartRemainingVaultsStep,
     StorePublicPmidsStep, NetworkSetUpStep, ConnectToNetworkStep, StartVaultsStep, VaultsStartedStep,
     ConnectToVaultManagerStep DEF MainThread

\* The zero-state thread promises once, and ends only when it is let go.
LEMMA ZeroStateStep ==
  ASSUME ToolInv, ZeroStateThread
  PROVE  ToolInv'
<1>1. /\ UNCHANGED <<wizard, stage, finished, pending, next, vaults, stored, stable>>
      /\ \/ zero = "joining" /\ zero' = "serving" /\ started' = "set"
         \/ zero = "joining" /\ zero' = "ended" /\ started' = "thrown"
         \/ zero = "serving" /\ finished /\ zero' = "ended" /\ started' = started
  BY DEF ZeroStateThread, StartZeroStateRoutingNodes, ShutDownZeroStateNodes
<1>2. UNCHANGED <<command, newNetwork, vaultCount>>
  BY <1>1 DEF wizard, choices
<1>3. StageInv' /\ ZeroInv'
  BY <1>1, <1>2 DEF ToolInv, StageInv, ZeroInv, Idle
<1>4. CountInv'
  BY <1>1, <1>2 DEF ToolInv, CountInv, Complete
<1>5. stage' \in {"joining", "manager"} => IsDirectory(rootDir)
  BY <1>1 DEF ToolInv, RootInv
<1> QED
  BY <1>1, <1>3, <1>4, <1>5, ThreadStep

\* The manager takes the network for stable: it is complete by then.
LEMMA ManagerStep ==
  ASSUME ToolInv, HandleSetNetworkAsStable
  PROVE  ToolInv'
<1>1. stage = "marked" /\ command = "ChooseTest" /\ Complete
  BY StageCommand DEF HandleSetNetworkAsStable, ToolInv, CountInv
<1>2. /\ stage' = "start" /\ UNCHANGED wizard
      /\ UNCHANGED <<command, newNetwork, vaultCount, next, vaults, stored>>
  BY DEF HandleSetNetworkAsStable, wizard, choices
<1>3. StageInv' /\ ZeroInv'
  BY <1>1, <1>2 DEF ToolInv, StageInv, ZeroInv
<1>4. CountInv'
  <2>1. Complete'
    BY <1>1, <1>2 DEF Complete
  <2> QED
    BY <1>2, <2>1 DEF ToolInv, CountInv
<1>5. command \notin AfterRoot
  BY <1>1 DEF AfterRoot, AfterPort
<1> QED
  BY <1>2, <1>3, <1>4, <1>5, ThreadStep

\* A new process of the tool.
LEMMA LaunchStep ==
  ASSUME ToolInv, command = "none", command' = "Begin",
         UNCHANGED <<vlogging, choices, manager, network>>,
         dirs' \in [DOMAIN dirs' -> Contents], ScriptInv'
  PROVE  ToolInv'
<1>1. UNCHANGED <<vaultCount, stage, zero, started, finished, next, vaults, stored, stable>>
  BY DEF choices, network, zeroState
<1>2. Idle /\ Idle' /\ stage' = "start" /\ ~stable'
  BY <1>1 DEF ToolInv, StageInv, Idle
<1>3. StageInv' /\ ZeroInv'
  BY <1>2 DEF StageInv, ZeroInv, Commands, Questions
<1>4. CountInv'
  BY <1>1, <1>2 DEF ToolInv, CountInv
<1>5. PortInv'
  <2>1. PortUsable'
    BY UsableKept DEF ToolInv, PortInv
  <2>2. PortChosen'
    BY DEF PortChosen, AfterPort
  <2> QED
    BY <2>1, <2>2 DEF PortInv
<1>6. RootInv'
  BY <1>2 DEF RootInv, AfterRoot, AfterPort
<1> QED
  BY <1>3, <1>4, <1>5, <1>6 DEF ToolInv

\* A user's tool has no script.
LEMMA UserLaunchStep ==
  ASSUME ToolInv, UserLaunch
  PROVE  ToolInv'
<1>1. /\ command = "none" /\ command' = "Begin" /\ script' = <<>>
      /\ UNCHANGED <<vlogging, choices, dirs, manager, network>>
  BY DEF UserLaunch, Launch, disk
<1>2. dirs' \in [DOMAIN dirs' -> Contents]
  BY <1>1 DEF ToolInv, RootInv
<1>3. ScriptInv'
  BY <1>1 DEF ScriptInv
<1> QED
  BY <1>1, <1>2, <1>3, LaunchStep

\* Nothing of the tool changes.
LEMMA NoToolStep ==
  ASSUME ToolInv, UNCHANGED <<wizard, network>>
  PROVE  ToolInv'
<1>1. UNCHANGED <<command, newNetwork, rootDir, vaultCount, dirs, stage, zero, started,
                  finished, next, vaults, stored, stable, bootstrapFile, launches>>
  BY DEF wizard, choices, disk, process, network, zeroState
<1>2. StageInv' /\ ZeroInv'
  BY <1>1 DEF ToolInv, StageInv, ZeroInv, Idle
<1>3. CountInv'
  BY <1>1 DEF ToolInv, CountInv, Complete
<1>4. stage' \in {"joining", "manager"} => IsDirectory(rootDir)
  BY <1>1 DEF ToolInv, RootInv
<1> QED
  BY <1>1, <1>2, <1>3, <1>4, ThreadStep

\* The helper's launch, with its script and a full root directory.
LEMMA StartToolStep ==
  ASSUME ToolInv, NEW installed, StartTool(installed)
  PROVE  ToolInv'
<1>1. CASE UNCHANGED <<wizard, network>>
  BY <1>1, NoToolStep
<1>2. CASE /\ FillRootDir /\ launches' = launches + 1
           /\ command' = "Begin" /\ script' = Script /\ exit' = "running"
           /\ UNCHANGED <<vlogging, entered, choices, files, bootstrapFile, manager,
                          network, attempts, linked>>
  <2>1. command = "none"
    BY DEF StartTool
  <2>2. dirs' \in [DOMAIN dirs' -> Contents] /\ RootFull'
    <3>1. dirs' = MakeDir(kTestEnvRootDir, "full")
      BY <1>2 DEF FillRootDir
    <3> HIDE DEF kTestEnvRootDir
    <3> QED
      BY <3>1 DEF ToolInv, RootInv, MakeDir, RootFull, Contents
  <2>3. ScriptInv'
    <3>1. script' = Rest(1) /\ command' = Script[1].for
      BY <1>2, RestOfScript, ScriptEntries
    <3>2. 1 \in 1 .. 6
      OBVIOUS
    <3> QED
      BY <2>2, <3>1, <3>2 DEF ScriptInv, RootFull
  <2> QED
    BY <1>2, <2>1, <2>2, <2>3, LaunchStep
<1> QED
  BY <1>1, <1>2 DEF StartTool

\* The helper's other steps only look at the tool.
LEMMA HelperStep ==
  ASSUME ToolInv, NEW outcome,
         LookForNetwork(outcome) \/ Attempt(outcome) \/ HandleNetworkStableResponse
  PROVE  ToolInv'
<1>1. UNCHANGED <<wizard, network>>
  BY DEF LookForNetwork, Attempt, WaitForStableNetwork, HandleNetworkStableResponse
<1> QED
  BY <1>1, NoToolStep

\* A tool that is killed.
LEMMA KillStep ==
  ASSUME ToolInv, Kill
  PROVE  ToolInv'
<1>1. Crash("killed") /\ Reset
  BY DEF Kill
<1> QED
  BY <1>1, ExitStep

\* No tool has run yet.
LEMMA ToolInvInit ==
  ASSUME Init
  PROVE  ToolInv
<1>1. Idle /\ command = "none" /\ script = <<>> /\ stage = "start"
  BY DEF Init, NetworkInit, WizardInit, Idle
<1>2. next = 0 /\ vaultCount = 0 /\ ~stable
  BY DEF Init, NetworkInit, WizardInit
<1>3. StageInv /\ ZeroInv
  BY <1>1 DEF StageInv, ZeroInv, Commands
<1>4. CountInv
  BY <1>1, <1>2 DEF CountInv
<1>5. PortInv
  <2>1. manager = NoManager
    BY DEF Init, NetworkInit, WizardInit
  <2> QED
    BY <1>1, <2>1 DEF PortInv, PortChosen, PortUsable, AfterPort
<1>6. RootInv
  <2>1. dirs \in [DOMAIN dirs -> Contents]
    BY DEF Init, NetworkInit, WizardInit
  <2> QED
    BY <1>1, <2>1 DEF RootInv, AfterRoot, AfterPort
<1>8. ScriptInv
  BY <1>1 DEF ScriptInv
<1> QED
  BY <1>3, <1>4, <1>5, <1>6, <1>8 DEF ToolInv

\* Every step of the helper, of the tool's two threads and of its manager keeps ToolInv.
LEMMA ToolInvNext ==
  ASSUME ToolInv, [Next]_vars
  PROVE  ToolInv'
<1>1. CASE UNCHANGED vars
  <2>1. UNCHANGED <<wizard, network>>
    BY <1>1 DEF vars
  <2> QED
    BY <2>1, NoToolStep
<1>2. CASE Next
  <2>1. ASSUME NEW outcome \in Outcomes, LookForNetwork(outcome) \/ Attempt(outcome)
        PROVE  ToolInv'
    BY <2>1, HelperStep
  <2>2. CASE HandleNetworkStableResponse
    BY <2>2, HelperStep
  <2> QED
    BY <1>2, <2>1, <2>2, UserLaunchStep, WizardStep, MainThreadStep, ZeroStateStep,
       ManagerStep, KillStep, StartToolStep DEF Next, Tool, ZeroState, Manager
<1> QED
  BY <1>1, <1>2

-----------------------------------------------------------------------------
\* What holds in every state of the tool and the helper.
THEOREM ToolSafety == Spec => []ToolInv
  BY ToolInvInit, ToolInvNext, PTL DEF Spec

\* Each answer of the helper's script is read by the command it was written for,
\* however often the tool was run before and whatever the root directory was like.
THEOREM ScriptStaysInSync == Spec => []ScriptInSync
<1>1. ToolInv => ScriptInSync
  <2> SUFFICES ASSUME ToolInv, ~vlogging, script # <<>>
               PROVE  command = Head(script).for
    BY DEF ScriptInSync
  <2>1. PICK i \in 1 .. 6 : script = Rest(i) /\ command = Script[i].for
    BY DEF ToolInv, ScriptInv
  <2> QED
    BY <2>1, RestOfScript
<1> QED
  BY <1>1, ToolSafety, PTL

\* The zero-state nodes serve the first two vaults; they are down, and this tool's
\* bootstrap file is written, before the other vaults start.
THEOREM ZeroStateServes == Spec => []FirstTwoServed
<1>1. ToolInv => FirstTwoServed
  <2>1. ASSUME ToolInv PROVE FirstTwoServed
    BY <2>1, StageCommand DEF ToolInv, ZeroInv, FirstTwoServed
  <2> QED
    BY <2>1
<1> QED
  BY <1>1, ToolSafety, PTL

\* The main thread waits for the first promise only while the other thread is still
\* to set it or has set it, and for that thread's end only after letting it go.
WaitsAreServed ==
  /\ stage = "joining" => zero = "joining" \/ started # "unset"
  /\ stage \in {"join", "unwind"} => zero \in {"joining", "serving", "ended"} /\ finished

\* StartNetwork's two threads never wait for each other, also when a vault, the
\* manager or a zero-state node has failed: the safety half of StartNetworkEnds.
THEOREM ThreadsNeverStuck == Spec => []WaitsAreServed
<1>1. ToolInv => WaitsAreServed
  BY StageCommand DEF ToolInv, ZeroInv, WaitsAreServed
<1> QED
  BY <1>1, ToolSafety, PTL

\* In a network that its manager takes for stable every vault but the two started
\* beside the zero-state nodes had an answer, for each count that the wizard lets
\* through, and the keys of a new network are stored.
THEOREM StableNetworkComplete == Spec => []StableMeansComplete
<1>1. ToolInv => StableMeansComplete
  BY DEF ToolInv, CountInv, Complete, StableMeansComplete
<1> QED
  BY <1>1, ToolSafety, PTL

\* Whatever port the wizard let through, the manager listens on one that needs no
\* privilege.
THEOREM ManagerPortUsable == Spec => []PortUsable
<1>1. ToolInv => PortUsable
  BY DEF ToolInv, PortInv
<1> QED
  BY <1>1, ToolSafety, PTL

-----------------------------------------------------------------------------
(* The manager is made in one step only, and there RootInv says what its   *)
(* directory is like.                                                      *)

NotMade == manager' \in {manager, NoManager}

\* An exception makes no manager.
LEMMA RaiseMakesNone ==
  ASSUME NEW error, Throw(error) \/ Raise(error)
  PROVE  NotMade
<1>1. ASSUME NEW how, Gone(how) PROVE NotMade
  BY <1>1 DEF Gone, NotMade
<1>2. CASE Throw(error)
  <2>1. \E how : Gone(how)
    BY <1>2 DEF Throw, Crash, Exit
  <2> QED
    BY <1>1, <2>1
<1>3. CASE Catch(error)
  BY <1>3 DEF Catch, wizard, process, NotMade
<1> QED
  BY <1>2, <1>3 DEF Raise

\* Neither does a refused line.
LEMMA RefusedMakesNone ==
  ASSUME NEW line, NEW values, CheckForExitCommand(line) \/ RefuseChoice(line, values)
  PROVE  NotMade
  BY DEF CheckForExitCommand, RefuseChoice, Exit, Gone, process, NotMade

\* The questions make no manager.
LEMMA WizardMakesNone ==
  ASSUME NEW line, WizardNext(line)
  PROVE  NotMade
<1>1. ASSUME UNCHANGED process PROVE NotMade
  BY <1>1 DEF process, NotMade
<1>2. CASE Begin(line)
  BY <1>1, <1>2, RefusedMakesNone DEF Begin, Ask, HandleBegin
<1>3. CASE ChooseExistingNetwork(line)
  BY <1>1, <1>3, RefusedMakesNone DEF ChooseExistingNetwork, Ask, HandleExistingNetwork
<1>4. CASE ChoosePathToBootstrap(line)
  BY <1>1, <1>4, RefusedMakesNone DEF ChoosePathToBootstrap, Ask, HandlePathToBootstrap
<1>5. CASE ChooseTestRootDir(line)
  BY <1>1, <1>5, RefusedMakesNone DEF ChooseTestRootDir, Ask, HandleTestRootDir
<1>6. CASE ClearTestRootDir(line)
  BY <1>1, <1>6, RefusedMakesNone
     DEF ClearTestRootDir, Ask, HandleClearTestRootDir, Gone, NotMade
<1>7. CASE CreateTestRootDir(line)
  BY <1>1, <1>7, RefusedMakesNone, RaiseMakesNone
     DEF CreateTestRootDir, Ask, HandleCreateTestRootDir
<1>8. CASE ChoosePathToVault(line)
  BY <1>1, <1>8, RefusedMakesNone DEF ChoosePathToVault, Ask, HandlePathToVault
<1>9. CASE EnterVlogSessionId(line)
  BY <1>1, <1>9, RefusedMakesNone DEF EnterVlogSessionId, Ask, HandleVlogSessionId
<1>10. CASE ChooseToRevealHostname(line)
  BY <1>1, <1>10, RefusedMakesNone DEF ChooseToRevealHostname, Ask, HandleToRevealHostname
<1>11. CASE ChooseVaultManagerPort(line)
  <2>1. PICK asked : Ask(asked, line, Ports(line), HandleVaultManagerPort)
    BY <1>11, PortChoice
  <2> QED
    BY <1>1, <2>1, RefusedMakesNone DEF Ask, HandleVaultManagerPort
<1>12. CASE ChooseVaultCount(line)
  <2>1. Ask("ChooseVaultCount", line, Counts(line), HandleVaultCount)
    BY <1>12, CountChoice
  <2> QED
    BY <1>1, <2>1, RefusedMakesNone DEF Ask, HandleVaultCount
<1>13. CASE ChooseTest(line)
  BY <1>1, <1>13, RefusedMakesNone, RaiseMakesNone DEF ChooseTest, Ask, HandleTest
<1>14. CASE ReadFails
  BY <1>14 DEF ReadFails, Exit, Gone, NotMade
<1> QED
  BY <1>2, <1>3, <1>4, <1>5, <1>6, <1>7, <1>8, <1>9, <1>10, <1>11, <1>12, <1>13, <1>14
     DEF WizardNext

\* Of the actions only MakeVaultManager makes one.
LEMMA ThreadMakesNone ==
  ASSUME MainThread, \A ok \in BOOLEAN : ~MakeVaultManager(ok)
  PROVE  NotMade
<1>1. ASSUME UNCHANGED process \/ UNCHANGED wizard PROVE NotMade
  BY <1>1 DEF wizard, process, NotMade
<1>2. CASE LaunchZeroState \/ WaitForZeroState \/ FinishZeroState \/ Rethrow
  BY <1>1, <1>2, RaiseMakesNone
     DEF LaunchZeroState, WaitForZeroState, FinishZeroState, Rethrow
<1>3. CASE NetworkSetUp \/ VaultsStarted
  BY <1>1, <1>3 DEF NetworkSetUp, VaultsStarted, MarkNetworkAsStable
<1>4. ASSUME NEW ok, ConnectToNetwork(ok) \/ JoinZeroState(ok) \/ PrepareBootstrapFile(ok)
      PROVE  NotMade
  BY <1>1, <1>4, RaiseMakesNone DEF ConnectToNetwork, JoinZeroState, PrepareBootstrapFile
<1>5. ASSUME NEW failures, StorePublicPmids(failures) PROVE NotMade
  BY <1>1, <1>5, RaiseMakesNone DEF StorePublicPmids
<1>6. ASSUME NEW outcome,
             \/ MakeClientInterface(outcome) \/ StartFirstTwoVaults(outcome)
             \/ StartRemainingVaults(outcome) \/ StartVaults(outcome)
             \/ ConnectToVaultManager(outcome)
      PROVE  NotMade
  BY <1>1, <1>6, RaiseMakesNone
     DEF MakeClientInterface, StartFirstTwoVaults, StartRemainingVaults, StartVaults,
         ConnectToVaultManager
<1> QED
  BY <1>2, <1>3, <1>4, <1>5, <1>6 DEF MainThread

\* The tool makes its manager in a directory that is empty, by whichever way
\* through the questions, however often it was run there before.
THEOREM ManagerOnEmptyRoot == Spec => StartsOnEmptyRoot
<1>1. ASSUME ToolInv, [Next]_vars, manager = NoManager, manager' # NoManager
      PROVE  dirs[rootDir] = "empty"
  <2>1. ~NotMade
    BY <1>1 DEF NotMade
  <2>2. ASSUME UNCHANGED process \/ UNCHANGED wizard \/ UNCHANGED manager PROVE FALSE
    BY <2>1, <2>2 DEF wizard, process, NotMade
  <2>3. Next
    BY <1>1, <2>2 DEF vars
  <2>4. ~UserLaunch /\ ~ZeroState /\ ~Manager /\ ~HandleNetworkStableResponse
    BY <2>2 DEF UserLaunch, Launch, ZeroState, ZeroStateThread, StartZeroStateRoutingNodes,
       ShutDownZeroStateNodes, Manager, HandleSetNetworkAsStable,
       HandleNetworkStableResponse
  <2>5. \A outcome : ~LookForNetwork(outcome) /\ ~Attempt(outcome)
    BY <2>2 DEF LookForNetwork, Attempt, WaitForStableNetwork
  <2>6. \A installed : ~StartTool(installed)
    BY <2>2 DEF StartTool
  <2>7. ~Kill
    BY <2>1 DEF Kill, Crash, Gone, NotMade
  <2>8. PICK ok \in BOOLEAN : MakeVaultManager(ok)
    BY <2>1, <2>3, <2>4, <2>5, <2>6, <2>7, WizardMakesNone, ThreadMakesNone
       DEF Next, Wizard, Tool
  <2>9. stage = "manager"
    BY <2>8 DEF MakeVaultManager
  <2>10. command \in AfterRoot
    BY <1>1, <2>9, StageCommand DEF AfterRoot, AfterPort
  <2> QED
    BY <1>1, <2>9, <2>10 DEF ToolInv, RootInv
<1> QED
  BY <1>1, ToolSafety, PTL DEF Spec, StartsOnEmptyRoot

=============================================================================
