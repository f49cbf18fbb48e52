------------------------ MODULE VaultInterfaceProofs ------------------------
(* The vault's end of the connection, for any number of waiting threads:   *)
(* the safety half of the two liveness properties that are model-checked.  *)
EXTENDS VaultInterface, TLAPS

\* A lost connection has its exit code, so WaitForExit can return.
LostIsNoted == connection = "lost" => exit # None

\* A constructor that waits for its configuration has a timer, or the handler of
\* one in the queue.
ConstructorWatched ==
  /\ ctor = "connected" => config = "pending" /\ response = "none" /\ timer = "off"
  /\ ctor = "registered" => response = "none"
  /\ ctor \in {"registered", "waiting"} /\ config = "pending" => timer # "off"

VaultInv == LostIsNoted /\ ConstructorWatched

\* Every handler and every step of the constructor keeps both.
LEMMA VaultInvStep ==
  ASSUME VaultInv, [Next]_vars
  PROVE  VaultInv'
<1> USE WaitersAssumption DEF VaultInv, LostIsNoted, ConstructorWatched, Resolved
<1>1. CASE SetResponseCallback \/ SendVaultStarted \/ ManagerResponds
  BY <1>1 DEF SetResponseCallback, SendVaultStarted, ManagerResponds
<1>2. CASE HandleVaultStartedResponse
  BY <1>2 DEF HandleVaultStartedResponse
<1>3. CASE TimerExpires \/ TimerHandler
  BY <1>3 DEF TimerExpires, TimerHandler
<1>4. CASE ConstructorEnds
  BY <1>4 DEF ConstructorEnds
<1>5. CASE HandleVaultShutdownRequest \/ OnConnectionClosed
  BY <1>5 DEF HandleVaultShutdownRequest, OnConnectionClosed, SetExit
<1>6. ASSUME NEW w \in Waiters, WaitForExit(w) \/ WaitReturns(w)
      PROVE  VaultInv'
  BY <1>6 DEF WaitForExit, WaitReturns
<1>7. CASE UNCHANGED vars
  BY <1>7 DEF vars
<1> QED
  BY <1>1, <1>2, <1>3, <1>4, <1>5, <1>6, <1>7 DEF Next

\* No connection is lost and nothing has come at the start.
LEMMA VaultInvInit == Init => VaultInv
  BY DEF Init, VaultInv, LostIsNoted, ConstructorWatched

\* No vault is left waiting for an exit code after its manager has gone, nor in
\* its constructor without a timer.
THEOREM VaultNeverStranded == Spec => [](LostIsNoted /\ ConstructorWatched)
<1>1. VaultInv /\ [Next]_vars => VaultInv'
  BY VaultInvStep
<1>2. VaultInv => LostIsNoted /\ ConstructorWatched
  BY DEF VaultInv
<1> QED
  BY <1>1, <1>2, VaultInvInit, PTL DEF Spec

=============================================================================
