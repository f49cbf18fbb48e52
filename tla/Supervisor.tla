----------------------------- MODULE Supervisor -----------------------------
(***************************************************************************)
(* What ProcessManager promises of each vault, whatever timers, signals,   *)
(* sockets and threads do underneath: a vault appears because a client     *)
(* asked for it, because it ended unasked and its restart was promised, or *)
(* in the place of one that was told to move; a vault that ended when told *)
(* to stop is not promised a restart, and none is promised more than       *)
(* MaxRestarts in a row.                                                   *)
(***************************************************************************)
EXTENDS Naturals

CONSTANTS
  Labels,       \* vaults, by label
  MaxRestarts   \* restarts of one vault in a row

VARIABLES
  state,      \* state of each vault
  restarts,   \* how often the present vault was restarted
  promised    \* promised[l]: numbers of the restarts that are to come

vars == <<state, restarts, promised>>

Init ==
  /\ state = [l \in Labels |-> "absent"]
  /\ restarts = [l \in Labels |-> 0]
  /\ promised = [l \in Labels |-> {}]

Appear(l, n) ==
  /\ state' = [state EXCEPT ![l] = "kStarting"]
  /\ restarts' = [restarts EXCEPT ![l] = n]

Disappear(l) ==
  /\ state' = [state EXCEPT ![l] = "absent"]
  /\ restarts' = [restarts EXCEPT ![l] = 0]

\* A client asks for a new vault.
Start(l) ==
  /\ state[l] = "absent"
  /\ Appear(l, 0)
  /\ UNCHANGED promised

\* The vault says that it runs; it may say so after it was told to stop.
Run(l) ==
  /\ state[l] # "absent"
  /\ state' = [state EXCEPT ![l] = "kRunning"]
  /\ UNCHANGED <<restarts, promised>>

\* Some of the vaults are told to stop.
Stop(ls) ==
  /\ \A l \in ls : state[l] # "absent"
  /\ state' = [l \in Labels |-> IF l \in ls THEN "kStopping" ELSE state[l]]
  /\ UNCHANGED <<restarts, promised>>

PromiseRestart(l) ==
  promised' = IF state[l] # "kStopping" /\ restarts[l] < MaxRestarts
              THEN [promised EXCEPT ![l] = @ \cup {restarts[l] + 1}]
              ELSE promised

\* The vault ends, or is replaced by one in another directory.
End(l) ==
  /\ state[l] # "absent"
  /\ Disappear(l) \/ Appear(l, 0)
  /\ PromiseRestart(l)

\* A promise is kept, or broken when the vault cannot be added.  Two promises
\* may have the same number, if the label was given to a new vault meanwhile.
Restart(l, n) ==
  /\ n \in promised[l]
  /\ promised' \in {promised, [promised EXCEPT ![l] = @ \ {n}]}
  /\ \/ state[l] = "absent" /\ Appear(l, n)
     \/ UNCHANGED <<state, restarts>>

Next ==
  \/ \E ls \in SUBSET Labels : Stop(ls)
  \/ \E l \in Labels : Start(l) \/ Run(l) \/ End(l)
  \/ \E l \in Labels, n \in 1 .. MaxRestarts : Restart(l, n)

Spec == Init /\ [][Next]_vars

=============================================================================
