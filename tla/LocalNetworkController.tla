----------------------- MODULE LocalNetworkController -----------------------
(***************************************************************************)
(* The wizard of the local network tool: tools/main.cc shows one command   *)
(* at a time, reads its answer from the script or else from standard       *)
(* input, and the command picks the next one.  What the last command       *)
(* starts (a network, vaults, a connection) is in StartNetwork.            *)
(***************************************************************************)
EXTENDS Integers, Sequences

CONSTANTS
  Lines(_),     \* what a user may type at a command, besides "" and "q"
  MaxLaunches   \* bound on tool processes, one at a time

VARIABLES
  vlogging,        \* the build has USE_VLOGGING defined
  command,         \* current_command, or the action it is busy with
  script,          \* script_commands: each line with the command it is for
  entered,         \* entered_commands has a line
  newNetwork,      \* new_network
  rootDir,         \* test_env_root_dir
  vaultManagerPort,
  vaultCount,
  dirs,            \* what is where a root directory may be (Contents)
  files,           \* which of the vault and the bootstrap file exist
  bootstrapFile,   \* the launch that wrote local_network_bootstrap.dat, or 0
  launches,        \* tool processes so far
  manager,         \* the port vault_manager listens on
  exit             \* how the last tool process ended

choices == <<newNetwork, rootDir, vaultManagerPort, vaultCount>>
disk == <<dirs, files, bootstrapFile>>
process == <<vlogging, launches, manager, exit>>

NoManager == -1
kVaultManagerPort == 44444
kVaultCountNewNetwork == 16
kVaultCount == 1
kTestEnvRootDir == "default"

\* A directory without and with contents, a file without and with contents.
Contents == {"empty", "full", "file", "data"}

Exists(path) == path \in DOMAIN dirs \cup files

IsDirectory(path) == path \in DOMAIN dirs /\ dirs[path] \in {"empty", "full"}

\* fs::is_empty of what exists; the vault and the bootstrap file are not.
IsEmpty(path) == path \in DOMAIN dirs /\ dirs[path] \in {"empty", "file"}

\* The directories once path is one, with these contents.
MakeDir(path, contents) ==
  [p \in DOMAIN dirs \cup {path} |-> IF p = path THEN contents ELSE dirs[p]]

RemoveDir(path) == [p \in DOMAIN dirs \ {path} |-> dirs[p]]

-----------------------------------------------------------------------------
(* Answers *)

\* std::stoi on the lines that hold a number, none for the others.
Stoi(line) ==
  {p[2] : p \in {q \in {<<"1", 1>>, <<"2", 2>>, <<"3", 3>>, <<"100", 100>>,
                        <<"101", 101>>, <<"1024", 1024>>, <<"5583", 5583>>,
                        <<"65536", 65536>>} : q[1] = line}}

\* The ConvertAndValidateChoice functions: the value of a line, none if it is
\* refused.  A default is a set with one value or none.
ConvertInt(line, default, min, max) ==
  {n \in IF line = "" THEN default ELSE Stoi(line) : min <= n /\ n <= max}

ConvertPath(line, default, mustExist) ==
  {p \in {IF line = "" THEN default ELSE line} : mustExist => Exists(p)}

ConvertBool(line, default) ==
  CASE line = "" -> {default}
    [] line \in {"y", "Y"} -> {TRUE}
    [] line \in {"n", "N"} -> {FALSE}
    [] OTHER -> {}

ConvertString(line) == {line}   \* no command has a default

\* Command::GetLine.  Script lines that start with "### " are skipped: here
\* they are the command each answer is for.
GetLine(line) ==
  IF script # <<>> THEN line = Head(script).line
                   ELSE line \in Lines(command) \cup {"", "q"}

\* The next command, once an answer was taken.
Goto(cmd) ==
  /\ command' = cmd
  /\ script' = IF script # <<>> THEN Tail(script) ELSE <<>>
  /\ entered' = TRUE

-----------------------------------------------------------------------------
(* The ends of main *)

\* ~LocalNetworkController, which does nothing if no line was entered, and
\* ignores it if the file cannot be removed.
RemoveBootstrapFile(anything) ==
  bootstrapFile' \in IF anything THEN {0, bootstrapFile} ELSE {bootstrapFile}

\* The process is gone, and vault_manager with it.
Gone(how) ==
  /\ command' = "none" /\ exit' = how /\ manager' = NoManager
  /\ script' = <<>> /\ entered' = FALSE
  /\ newNetwork' = FALSE /\ rootDir' = "" /\ vaultManagerPort' = 0 /\ vaultCount' = 0
  /\ UNCHANGED <<vlogging, launches>>

Exit(how) == Gone(how) /\ RemoveBootstrapFile(entered) /\ UNCHANGED <<dirs, files>>

Crash(how) == Gone(how) /\ UNCHANGED disk

\* An exception out of HandleChoice.  timed_out is taken for the request to tear
\* the vaults down, also where vault_manager is null.
Throw(error) ==
  IF error = "timed_out" /\ manager = NoManager
  THEN Crash("crashed")
  ELSE Exit(IF error \in {"timed_out", "success"} THEN "success" ELSE "failed")

\* A success is thrown out of GetLine, before the line is entered.
CheckForExitCommand(line) ==
  /\ line = "q"
  /\ Exit("success")

\* DoGetChoice without a valid choice: if the script has the line the exception
\* goes on, else the question is asked again.
RefuseChoice(line, values) ==
  /\ line # "q" /\ values = {}
  /\ \/ /\ script # <<>>
        /\ Gone("failed")
        /\ RemoveBootstrapFile(TRUE) /\ UNCHANGED <<dirs, files>>
     \/ /\ script = <<>>
        /\ Goto(command)
        /\ UNCHANGED <<choices, disk, process>>

-----------------------------------------------------------------------------
(* The commands *)

\* GetChoice and HandleChoice of a command.
Ask(cmd, line, values, HandleChoice(_)) ==
  /\ command = cmd
  /\ GetLine(line)
  /\ \/ CheckForExitCommand(line)
     \/ RefuseChoice(line, values)
     \/ /\ line # "q"
        /\ \E v \in values : HandleChoice(v)

HandleBegin(choice) ==
  /\ Goto(<<"ChooseTestRootDir", "ChooseRunningPort", "ChooseExistingNetwork">>[choice])
  /\ newNetwork' = (newNetwork \/ choice = 1)
  /\ UNCHANGED <<rootDir, vaultManagerPort, vaultCount, disk, process>>

Begin(line) == Ask("Begin", line, ConvertInt(line, {}, 1, 3), HandleBegin)

HandleExistingNetwork(choice) ==
  /\ Goto(<<"ChooseTestRootDir", "ChoosePathToBootstrap">>[choice])
  /\ UNCHANGED <<choices, disk, process>>

ChooseExistingNetwork(line) ==
  Ask("ChooseExistingNetwork", line, ConvertInt(line, {}, 1, 2), HandleExistingNetwork)

HandlePathToBootstrap(path) ==
  /\ Goto("ChooseTestRootDir")
  /\ UNCHANGED <<choices, disk, process>>

ChoosePathToBootstrap(line) ==
  Ask("ChoosePathToBootstrap", line, ConvertPath(line, "bootstrap", TRUE),
      HandlePathToBootstrap)

HandleTestRootDir(path) ==
  /\ rootDir' = path
  /\ Goto(CASE ~Exists(path) -> "CreateTestRootDir"
            [] Exists(path) /\ ~IsEmpty(path) -> "ClearTestRootDir"
            [] OTHER -> "ChoosePathToVault")
  /\ UNCHANGED <<newNetwork, vaultManagerPort, vaultCount, disk, process>>

ChooseTestRootDir(line) ==
  Ask("ChooseTestRootDir", line, ConvertPath(line, kTestEnvRootDir, FALSE),
      HandleTestRootDir)

\* Mutant: the contents stay.
HandleClearKeeps(clear) ==
  /\ Goto(IF clear THEN "ChoosePathToVault" ELSE "ChooseTestRootDir")
  /\ UNCHANGED <<choices, disk, process>>

\* remove_all may throw, leaving contents, and so may create_directories.
HandleClearTestRootDir(clear) ==
  \/ /\ Goto(IF clear THEN "ChoosePathToVault" ELSE "ChooseTestRootDir")
     /\ dirs' = IF clear THEN MakeDir(rootDir, "empty") ELSE dirs
     /\ files' = IF clear THEN files \ {rootDir} ELSE files
     /\ UNCHANGED <<choices, bootstrapFile, process>>
  \/ /\ clear
     /\ \/ UNCHANGED <<dirs, files>>
        \/ dirs' = RemoveDir(rootDir) /\ files' = files \ {rootDir}
     /\ Gone("failed") /\ RemoveBootstrapFile(TRUE)

ClearTestRootDir(line) ==
  Ask("ClearTestRootDir", line, ConvertBool(line, TRUE), HandleClearTestRootDir)

HandleCreateTestRootDir(create) ==
  \/ /\ Goto(IF create THEN "ChoosePathToVault" ELSE "ChooseTestRootDir")
     /\ dirs' = IF create THEN MakeDir(rootDir, "empty") ELSE dirs
     /\ rootDir' = IF create THEN rootDir ELSE ""
     /\ UNCHANGED <<newNetwork, vaultManagerPort, vaultCount, files, bootstrapFile, process>>
  \/ create /\ Throw("failed")   \* create_directories

CreateTestRootDir(line) ==
  Ask("CreateTestRootDir", line, ConvertBool(line, TRUE), HandleCreateTestRootDir)

HandlePathToVault(path) ==
  /\ Goto("ChooseVaultManagerPort")
  /\ UNCHANGED <<choices, disk, process>>

ChoosePathToVault(line) ==
  Ask("ChoosePathToVault", line, ConvertPath(line, "vault", TRUE), HandlePathToVault)

\* Mutant: the session is asked for in every build.
AlwaysAskForSession(port) ==
  /\ vaultManagerPort' = port
  /\ Goto(IF command = "ChooseRunningPort" THEN "ConnectToVaultManager"
                                           ELSE "EnterVlogSessionId")
  /\ UNCHANGED <<newNetwork, rootDir, vaultCount, disk, process>>

\* The constructor's connect_to_running is in the name of the command.
HandleVaultManagerPort(port) ==
  /\ vaultManagerPort' = port
  /\ Goto(CASE command = "ChooseRunningPort" -> "ConnectToVaultManager"
            [] command # "ChooseRunningPort" /\ vlogging -> "EnterVlogSessionId"
            [] OTHER -> "ChooseVaultCount")
  /\ UNCHANGED <<newNetwork, rootDir, vaultCount, disk, process>>

ChooseVaultManagerPort(line) ==
  \E cmd \in {"ChooseRunningPort", "ChooseVaultManagerPort"} :
    Ask(cmd, line, ConvertInt(line, {kVaultManagerPort}, 1025, 65536),
        HandleVaultManagerPort)

HandleVlogSessionId(id) ==
  /\ Goto(IF id = "" THEN "ChooseVaultCount" ELSE "ChooseToRevealHostname")
  /\ UNCHANGED <<choices, disk, process>>

EnterVlogSessionId(line) ==
  Ask("EnterVlogSessionId", line, ConvertString(line), HandleVlogSessionId)

HandleToRevealHostname(reveal) ==
  /\ Goto("ChooseVaultCount")
  /\ UNCHANGED <<choices, disk, process>>

ChooseToRevealHostname(line) ==
  Ask("ChooseToRevealHostname", line, ConvertBool(line, FALSE), HandleToRevealHostname)

HandleVaultCount(count) ==
  /\ vaultCount' = count
  /\ Goto(IF newNetwork THEN "StartNetwork" ELSE "ConnectToNetwork")
  /\ UNCHANGED <<newNetwork, rootDir, vaultManagerPort, disk, process>>

ChooseVaultCount(line) ==
  LET default == IF newNetwork THEN kVaultCountNewNetwork ELSE kVaultCount
      min == IF newNetwork THEN kVaultCountNewNetwork ELSE 1
  IN Ask("ChooseVaultCount", line, ConvertInt(line, {default}, min, 2147483647),
         HandleVaultCount)

\* The command is replaced, and so destroyed, before choice_ is read: the value
\* may be gone, and then the question is asked again.
HandleTest(choice) ==
  \/ choice = 101 /\ Throw("timed_out")
  \/ choice = 100 /\ Throw("success")
  \/ Goto("ChooseTest") /\ UNCHANGED <<choices, disk, process>>

ChooseTest(line) == Ask("ChooseTest", line, ConvertInt(line, {}, 100, 101), HandleTest)

\* GetLine throws when std::cin has failed otherwise than by its end.
ReadFails ==
  /\ command \notin {"none", "StartNetwork", "ConnectToNetwork", "ConnectToVaultManager"}
  /\ script = <<>>
  /\ Exit("failed")

-----------------------------------------------------------------------------
\* main and the constructor of LocalNetworkController, with a script or none.
Launch(commands) ==
  /\ command = "none" /\ launches < MaxLaunches
  /\ launches' = launches + 1
  /\ command' = "Begin" /\ script' = commands /\ exit' = "running"
  /\ UNCHANGED <<vlogging, entered, choices, disk, manager>>

WizardInit ==
  /\ vlogging \in BOOLEAN
  /\ command = "none" /\ script = <<>> /\ entered = FALSE
  /\ newNetwork = FALSE /\ rootDir = "" /\ vaultManagerPort = 0 /\ vaultCount = 0
  /\ dirs \in UNION {[present -> Contents] : present \in SUBSET {kTestEnvRootDir}}
  /\ files \in SUBSET {"vault", "bootstrap"}
  /\ bootstrapFile = 0 /\ launches = 0 /\ manager = NoManager /\ exit = "none"

WizardNext(line) ==
  \/ Begin(line) \/ ChooseExistingNetwork(line) \/ ChoosePathToBootstrap(line)
  \/ ChooseTestRootDir(line) \/ ClearTestRootDir(line) \/ CreateTestRootDir(line)
  \/ ChoosePathToVault(line) \/ ChooseVaultManagerPort(line)
  \/ EnterVlogSessionId(line) \/ ChooseToRevealHostname(line)
  \/ ChooseVaultCount(line) \/ ChooseTest(line)
  \/ ReadFails

=============================================================================
