------------------------ MODULE ConnectionLifecycle ------------------------
(***************************************************************************)
(* What VaultManager promises of each connection: it identifies itself     *)
(* once, as a client that must then be validated or as a vault, and never  *)
(* changes its role.  A client's connection that is gone never returns; a  *)
(* vault's may be captured by a directory change and carried by the child  *)
(* that replaces it, and is gone for good once nothing refers to it.       *)
(***************************************************************************)
CONSTANT Conns

VARIABLE place   \* what the manager takes each connection for

Successors ==
  [unused      |-> {"new"},
   new         |-> {"unvalidated", "vault", "gone"},
   unvalidated |-> {"client", "gone"},
   client      |-> {"gone"},
   vault       |-> {"carried", "captured", "gone"},
   carried     |-> {"captured", "gone"},
   captured    |-> {"carried", "gone"},
   gone        |-> {}]

Init == place = [c \in Conns |-> "unused"]

\* One handler may move several connections, each along its own way: VaultStarted
\* makes one the vault's and drops the one the vault had.
Next ==
  /\ place' \in [Conns -> DOMAIN Successors]
  /\ \A c \in Conns : place'[c] \in Successors[place[c]] \cup {place[c]}

Spec == Init /\ [][Next]_place

=============================================================================
