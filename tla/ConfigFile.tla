----------------------------- MODULE ConfigFile -----------------------------
(***************************************************************************)
(* The config file across starts of VaultManager: ConfigFileHandler        *)
(* (config_file_handler.cc), the conversions of ConfigFile (config_file.h) *)
(* and the constructor of VaultManager that reads the file.  The manager   *)
(* may stop or crash between any two steps and in the middle of a write.   *)
(***************************************************************************)
EXTENDS Naturals

CONSTANTS
  Labels,      \* vaults, by label
  Keys,        \* symmetric keys
  MaxStarts    \* bound on the starts of the manager

ASSUME MaxStartsAssumption == MaxStarts \in Nat

VARIABLES
  file,      \* the config file
  manager,   \* the manager's process
  key,       \* kSymmKeyAndIV_ of the last manager
  vaults,    \* labels of ProcessManager's children
  listed,    \* labels that were in the file when the constructor read it
  starts     \* starts so far

vars == <<file, manager, key, vaults, listed, starts>>

Init ==
  /\ file = [state |-> "absent"]
  /\ manager = "down"
  /\ key \in Keys
  /\ vaults = {} /\ listed = {}
  /\ starts = 0

\* ConfigFile::save, through WriteFile.
Save(k, ls) == [state |-> "ok", key |-> k, vaults |-> ls]

\* ConfigFile::load reads each record into a local VaultInfo and drops it.
Load(f) == [key |-> f.key, vaults |-> {}]

\* Mutant: a new key at each start.
AlwaysRandomKey == file.state # "cut" /\ key' \in Keys

\* A new key only for a new file; a file cut off by a crash makes Parse throw.
InitialiseKeyAndIv ==
  \/ file.state = "absent" /\ key' \in Keys
  \/ file.state = "ok" /\ key' = Load(file).key

\* The constructor of ConfigFileHandler.
OpenConfigFile ==
  /\ manager = "down" /\ starts < MaxStarts
  /\ starts' = starts + 1
  /\ InitialiseKeyAndIv
  /\ file' = IF file.state = "absent" THEN Save(key', {}) ELSE file
  /\ manager' = "starting"
  /\ UNCHANGED <<vaults, listed>>

ReadConfigFile == Load(file).vaults

\* The constructor of VaultManager: it starts the vaults it reads, or if there
\* are none a new one, and writes the file for the new one only.
StartVaults ==
  LET read == ReadConfigFile
  IN  /\ manager = "starting"
      /\ manager' = "running"
      /\ listed' = file.vaults
      /\ vaults' \in IF read = {}
                     THEN {{l} : l \in Labels \ file.vaults}   \* GenerateLabel
                     ELSE {read}
      /\ file' = IF read = {} THEN Save(key, vaults') ELSE file
      /\ UNCHANGED <<key, starts>>

Cut == [state |-> "cut"]

\* HandleStartVaultRequest: AddProcess, then WriteConfigFile, which may fail with
\* the old file in place or cut off; the vault runs all the same.
AddVault(l) ==
  /\ manager = "running" /\ l \notin vaults
  /\ vaults' = vaults \cup {l}
  /\ file' \in {Save(key, vaults'), file, Cut}
  /\ UNCHANGED <<manager, key, listed, starts>>

\* The manager ends, in order or not.
ManagerEnds ==
  /\ manager # "down"
  /\ manager' = "down"
  /\ vaults' = {} /\ listed' = {}
  /\ UNCHANGED <<file, key, starts>>

\* It ends while WriteFile overwrites the file in place.
CrashInWrite ==
  /\ manager # "down"
  /\ manager' = "down"
  /\ file' = Cut
  /\ vaults' = {} /\ listed' = {}
  /\ UNCHANGED <<key, starts>>

Next ==
  \/ OpenConfigFile
  \/ StartVaults
  \/ \E l \in Labels : AddVault(l)
  \/ ManagerEnds
  \/ CrashInWrite

Spec == Init /\ [][Next]_vars

-----------------------------------------------------------------------------
\* The file keeps the key its vaults' credentials were first encrypted with
\* through every stop and start: each manager takes the key over from the file,
\* as the assertion in ReadConfigFile expects.
KeyKept ==
  [][file.state = "ok" /\ file'.state = "ok" => file'.key = file.key]_vars

\* The header of VaultManager: "Reads config file on startup and restarts
\* vaults listed in file."
RestartsListedVaults == manager = "running" => listed \subseteq vaults

=============================================================================
