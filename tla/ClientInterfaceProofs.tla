----------------------- MODULE ClientInterfaceProofs -----------------------
(* Safety of the client's requests, for any requests and labels.           *)
EXTENDS ClientInterface, TLAPS

\* A request that has not returned is untouched; one that has returned and
\* waits is watched by its timer.
RequestWatched ==
  \A r \in Requests :
    /\ call[r] # "returned" => promise[r] = "pending" /\ timer[r] = "off"
    /\ call[r] = "returned" /\ promise[r] = "pending" => timer[r] # "off"

\* The map holds requests that have returned and wait, under their own label.
MapSound ==
  \A l \in Labels : ongoing[l] # None =>
    /\ call[ongoing[l]] = "returned"
    /\ promise[ongoing[l]] = "pending"
    /\ LabelOf[ongoing[l]] = l

\* A waiting request that shares its label with no other one is in the map.
SoleInMap ==
  \A r \in Requests :
    Alone(r) /\ call[r] = "returned" /\ promise[r] = "pending"
      => ongoing[LabelOf[r]] = r

ClientInv ==
  /\ TypeOK
  /\ RequestWatched
  /\ MapSound
  /\ SoleInMap

\* No request is made, and nothing set, at the start.
LEMMA ClientInvInit == Init => ClientInv
<1> SUFFICES ASSUME Init
             PROVE  ClientInv
  OBVIOUS
<1>1. /\ challenge \in BOOLEAN /\ callback \in BOOLEAN
      /\ stable \in BOOLEAN /\ crashed \in BOOLEAN
  BY DEF Init
<1>2. TypeOK
  BY <1>1 DEF Init, TypeOK, Outcome, TimerState
<1>3. RequestWatched /\ MapSound /\ SoleInMap
  BY LabelsAssumption
  DEF Init, RequestWatched, MapSound, SoleInMap, Alone
<1> QED
  BY <1>2, <1>3 DEF ClientInv

\* A step keeps the invariant and no outcome that is set.
LEMMA ClientInvNext ==
  ASSUME ClientInv, [Next]_vars
  PROVE  /\ ClientInv'
         /\ \A r \in Requests : promise[r] # "pending" => promise'[r] = promise[r]
<1> DEFINE Goal == /\ ClientInv'
                   /\ \A r \in Requests :
                        promise[r] # "pending" => promise'[r] = promise[r]
<1> USE LabelsAssumption DEF ClientInv, TypeOK, Outcome, TimerState, RequestWatched,
        MapSound, SoleInMap, ctorVars, requestVars
<1>1. CASE \/ SendValidateConnectionRequest \/ ManagerChallenges
           \/ SetResponseCallback \/ StartRpcTimer \/ HandleChallenge
           \/ UnlockedCallbackRace
           \/ RpcTimerExpires \/ RpcTimerHandler \/ ConstructorEnds
           \/ HandleNetworkStableResponse \/ Destructor \/ DestructorEnds
  <2>1. UNCHANGED requestVars
    BY <1>1 DEF SendValidateConnectionRequest, ManagerChallenges, SetResponseCallback,
       StartRpcTimer, HandleChallenge, UnlockedCallbackRace, RpcTimerExpires,
        RpcTimerHandler,
       ConstructorEnds, HandleNetworkStableResponse, Destructor, DestructorEnds
  <2>2. /\ ctor' \in {"connected", "validating", "registering", "waiting", "ready",
                       "closing", "failed", "destroyed"}
        /\ rpc' \in Outcome /\ rpcTimer' \in TimerState
    BY <1>1
    DEF SendValidateConnectionRequest, ManagerChallenges, SetResponseCallback,
        StartRpcTimer, HandleChallenge, UnlockedCallbackRace, RpcTimerExpires,
        RpcTimerHandler,
        ConstructorEnds, HandleNetworkStableResponse, Destructor, DestructorEnds,
        Resolved, Cancelled
  <2>3. /\ challenge' \in BOOLEAN /\ callback' \in BOOLEAN
        /\ stable' \in BOOLEAN /\ crashed' \in BOOLEAN
    BY <1>1
    DEF SendValidateConnectionRequest, ManagerChallenges, SetResponseCallback,
        StartRpcTimer, HandleChallenge, UnlockedCallbackRace, RpcTimerExpires,
        RpcTimerHandler,
        ConstructorEnds, HandleNetworkStableResponse, Destructor, DestructorEnds
  <2> QED
    BY <2>1, <2>2, <2>3 DEF Alone
<1>2. ASSUME NEW r \in Requests, SendVaultRequest(r)
      PROVE  Goal
  BY <1>2 DEF SendVaultRequest, Alone
<1>3. ASSUME NEW r \in Requests, AddVaultRequest(r)
      PROVE  Goal
  BY <1>3 DEF AddVaultRequest, Alone
<1>4. ASSUME NEW l \in Labels, ManagerAnswers(l)
      PROVE  Goal
  BY <1>4 DEF ManagerAnswers, Alone
<1>5. ASSUME NEW l \in Labels, HandleVaultRunningResponse(l)
      PROVE  Goal
  <2>1. CASE ongoing[l] = None
    BY <1>5, <2>1 DEF HandleVaultRunningResponse, Alone
  <2>2. CASE ongoing[l] # None
    BY <1>5, <2>2 DEF HandleVaultRunningResponse, Resolved, Cancelled, Alone
  <2> QED
    BY <2>1, <2>2
<1>6. ASSUME NEW r \in Requests, TimerExpires(r)
      PROVE  Goal
  BY <1>6 DEF TimerExpires, Alone
<1>7. ASSUME NEW r \in Requests, TimerHandler(r)
      PROVE  Goal
  BY <1>7 DEF TimerHandler, Resolved, Alone
<1>8. CASE UNCHANGED vars
  BY <1>8 DEF vars, Alone
<1> QED
  BY <1>1, <1>2, <1>3, <1>4, <1>5, <1>6, <1>7, <1>8 DEF Next

\* In every run of a ClientInterface the map holds waiting requests only, a
\* request with a label of its own can be found by its answer, and a waiting
\* request always has its timer.
THEOREM ClientSafety ==
  Spec => [](/\ TypeOK /\ OngoingUnresolved /\ SoleRequestFindable
             /\ RequestWatched)
<1>1. ClientInv => /\ TypeOK /\ OngoingUnresolved /\ SoleRequestFindable
                   /\ RequestWatched
  BY DEF ClientInv, OngoingUnresolved, SoleRequestFindable, MapSound, SoleInMap
<1> QED
  BY ClientInvInit, ClientInvNext, <1>1, PTL DEF Spec

\* ongoing_vault_requests_ never holds a request whose future has its outcome.
THEOREM OngoingAreUnresolved == Spec => []OngoingUnresolved
  BY ClientSafety, PTL

\* An answer, a queued time-out and the destructor never set a future twice.
THEOREM OutcomesSetOnce == Spec => OutcomeSetOnce
<1>1. ClientInv /\ [Next]_vars =>
        [\A r \in Requests : promise[r] # "pending" => promise'[r] = promise[r]]_vars
  BY ClientInvNext
<1> QED
  BY ClientInvInit, ClientInvNext, <1>1, PTL DEF Spec, OutcomeSetOnce

=============================================================================
