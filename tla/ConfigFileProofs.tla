-------------------------- MODULE ConfigFileProofs --------------------------
(* The config file keeps its key, for any labels, keys and number of starts. *)
EXTENDS ConfigFile, TLAPS

Files == {[state |-> "absent"], [state |-> "cut"]}
         \cup [state : {"ok"}, key : Keys, vaults : SUBSET Labels]

\* A manager that is up holds the key of the file it opened, intact or not since.
KeyInv ==
  /\ file \in Files
  /\ key \in Keys
  /\ vaults \subseteq Labels
  /\ manager \in {"down", "starting", "running"}
  /\ manager = "starting" => file.state = "ok"
  /\ manager # "down" /\ file.state = "ok" => file.key = key

\* KeyInv is inductive, and a step from it keeps the key of an intact file.
LEMMA KeyInvStep ==
  ASSUME KeyInv, [Next]_vars
  PROVE  /\ KeyInv'
         /\ [file.state = "ok" /\ file'.state = "ok" => file'.key = file.key]_vars
<1> USE DEF KeyInv, Files, Save, Load, Cut
<1>1. CASE OpenConfigFile
  BY <1>1 DEF OpenConfigFile, InitialiseKeyAndIv
<1>2. CASE StartVaults
  BY <1>2 DEF StartVaults, ReadConfigFile
<1>3. ASSUME NEW l \in Labels, AddVault(l)
      PROVE  /\ KeyInv'
             /\ file.state = "ok" /\ file'.state = "ok" => file'.key = file.key
  BY <1>3 DEF AddVault
<1>4. CASE ManagerEnds
  BY <1>4 DEF ManagerEnds
<1>5. CASE CrashInWrite
  BY <1>5 DEF CrashInWrite
<1>6. CASE UNCHANGED vars
  BY <1>6 DEF vars
<1> QED
  BY <1>1, <1>2, <1>3, <1>4, <1>5, <1>6 DEF Next

\* Through any sequence of starts, stops and crashes the key of the config file
\* does not change while the file is intact.
THEOREM KeyIsKept == Spec => KeyKept
<1>1. Init => KeyInv
  BY DEF Init, KeyInv, Files
<1> QED
  BY <1>1, KeyInvStep, PTL DEF Spec, KeyKept

=============================================================================
