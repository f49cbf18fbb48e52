------------------------ MODULE VaultRequestsProofs ------------------------
(* A client and the manager composed, for any requests, labels and owners. *)
EXTENDS VaultRequests, ClientInterfaceProofs

Vault == [state : {"absent", "starting", "running", "moving"},
          owner : {"us", "other", "none"}]

\* The manager's vaults are vaults, and it has validated no client whose
\* constructor has not got the challenge: with it the manager's answers begin
\* where ClientInterface expects them.
ManagerInv ==
  /\ vault \in [Labels -> Vault]
  /\ standing = "validated" => ctor \in {"ready", "closing", "destroyed"}

\* A client that is past its constructor stays so.
LEMMA ClientStaysReady ==
  ASSUME [Next]_vars, ctor \in {"ready", "closing", "destroyed"}
  PROVE  ctor' \in {"ready", "closing", "destroyed"}
<1> USE DEF ctorVars
<1>1. CASE \/ SendValidateConnectionRequest \/ ManagerChallenges
           \/ SetResponseCallback \/ StartRpcTimer \/ HandleChallenge
           \/ UnlockedCallbackRace
  BY <1>1 DEF SendValidateConnectionRequest, ManagerChallenges, SetResponseCallback,
              StartRpcTimer, HandleChallenge, UnlockedCallbackRace
<1>2. CASE \/ RpcTimerExpires \/ RpcTimerHandler \/ ConstructorEnds
           \/ HandleNetworkStableResponse \/ Destructor \/ DestructorEnds
  BY <1>2 DEF RpcTimerExpires, RpcTimerHandler, ConstructorEnds,
              HandleNetworkStableResponse, Destructor, DestructorEnds
<1>3. ASSUME NEW r \in Requests,
             SendVaultRequest(r) \/ AddVaultRequest(r) \/ TimerExpires(r) \/ TimerHandler(r)
      PROVE  ctor' = ctor
  BY <1>3 DEF SendVaultRequest, AddVaultRequest, TimerExpires, TimerHandler
<1>4. ASSUME NEW l \in Labels, ManagerAnswers(l) \/ HandleVaultRunningResponse(l)
      PROVE  ctor' = ctor
  BY <1>4 DEF ManagerAnswers, HandleVaultRunningResponse
<1>5. CASE UNCHANGED vars
  BY <1>5 DEF vars
<1> QED
  BY <1>1, <1>2, <1>3, <1>4, <1>5 DEF Next

\* A response is an answer ClientInterface allows for, or changes nothing there:
\* one with a label goes out to a validated client only.
LEMMA RespondStep ==
  ASSUME ManagerInv, NEW kind, NEW label \in Labels \cup {None}, Respond(kind, label),
         label # None => FindValidated
  PROVE  [Next]_vars /\ ctor' = ctor
<1> USE DEF Respond, ctorVars, vars
<1>1. CASE answers' = answers
  BY <1>1
<1>2. CASE answers' # answers
  <2>1. Running /\ label \in Labels /\ label \notin answers /\ answers' = answers \cup {label}
    BY <1>2
  <2>2. ctor = "ready"
    BY <1>2, <2>1 DEF ManagerInv, FindValidated, Running
  <2>3. ManagerAnswers(label)
    BY <2>1, <2>2 DEF ManagerAnswers
  <2> QED
    BY <2>1, <2>3 DEF Next
<1> QED
  BY <1>1, <1>2

\* What a step of the composition shows: it is a step of the client, and it keeps
\* the manager's invariant.
StepGoal ==
  /\ ManagerInv'
  /\ [Next]_vars

\* A step in which the manager answers nothing and moves the client's connection only
\* within the rules.
LEMMA QuietStep ==
  ASSUME ManagerInv, [Next]_vars, vault' \in [Labels -> Vault],
         \/ standing' \in {standing, "unvalidated", "gone"}
         \/ ctor = "ready"
  PROVE  StepGoal
<1>1. standing' = "validated" => ctor' \in {"ready", "closing", "destroyed"}
  BY ClientStaysReady DEF ManagerInv
<1> QED
  BY <1>1 DEF StepGoal, ManagerInv

\* A response leaves the connection alone.
LEMMA AnswerStep ==
  ASSUME ManagerInv, NEW kind, NEW label \in Labels \cup {None}, Respond(kind, label),
         label # None => FindValidated, standing' = standing, vault' \in [Labels -> Vault]
  PROVE  StepGoal
<1>1. [Next]_vars /\ ctor' = ctor
  BY RespondStep
<1> QED
  BY <1>1 DEF StepGoal, ManagerInv, FindValidated

\* Every step of the client and of the manager's handlers.
LEMMA RequestsStep ==
  ASSUME ManagerInv, RequestsNext
  PROVE  StepGoal
<1>1. vault \in [Labels -> Vault]
  BY DEF ManagerInv
<1>2. CASE ClientSteps /\ sent' = Nothing /\ UNCHANGED managerVars
  <2>1. Next
    BY <1>2 DEF ClientSteps, Next
  <2> QED
    BY <1>1, <1>2, <2>1, QuietStep DEF managerVars
<1>3. CASE HandleValidateConnectionRequest
  BY <1>1, <1>3, QuietStep DEF HandleValidateConnectionRequest, Next
<1>4. ASSUME NEW valid \in BOOLEAN, HandleChallengeResponse(valid)
      PROVE  StepGoal
  BY <1>1, <1>4, QuietStep DEF HandleChallengeResponse
<1>5. CASE ConnectionLost
  BY <1>1, <1>5, QuietStep DEF ConnectionLost
<1>6. ASSUME NEW r \in Requests, SendRequest(r)
      PROVE  StepGoal
  BY <1>1, <1>6, QuietStep DEF SendRequest, Next
<1>7. ASSUME NEW r \in Requests, HandleStartVaultRequest(r)
      PROVE  StepGoal
  <2> DEFINE l == LabelOf[r]
  <2>1. l \in Labels /\ standing' = standing
    BY <1>7, LabelsAssumption DEF HandleStartVaultRequest, Receive
  <2>2. CASE Respond("error", None) /\ UNCHANGED vault
    BY <1>1, <2>1, <2>2, AnswerStep
  <2>3. CASE FindValidated /\ Respond("error", l) /\ UNCHANGED vault
    BY <1>1, <2>1, <2>3, AnswerStep
  <2>4. CASE /\ vault' = [vault EXCEPT ![l] = [state |-> "starting", owner |-> "us"]]
             /\ UNCHANGED vars \/ Respond("error", None)
    <3>1. vault' \in [Labels -> Vault]
      BY <1>1, <2>1, <2>4 DEF Vault
    <3>2. CASE UNCHANGED vars
      BY <2>1, <3>1, <3>2, QuietStep
    <3>3. CASE Respond("error", None)
      BY <2>1, <3>1, <3>3, AnswerStep
    <3> QED
      BY <2>4, <3>2, <3>3
  <2> QED
    BY <1>7, <2>2, <2>3, <2>4 DEF HandleStartVaultRequest
<1>8. ASSUME NEW r \in Requests, HandleTakeOwnershipRequest(r)
      PROVE  StepGoal
  <2> DEFINE l == LabelOf[r]
  <2>1. l \in Labels /\ standing' = standing
    BY <1>8, LabelsAssumption DEF HandleTakeOwnershipRequest, Receive
  <2>2. CASE Respond("error", None) /\ UNCHANGED vault
    BY <1>1, <2>1, <2>2, AnswerStep
  <2>3. CASE /\ FindValidated
             /\ vault' = [vault EXCEPT ![l].owner = "us"]
             /\ Respond("keys", l) \/ Respond("error", None)
    <3>1. vault' \in [Labels -> Vault]
      BY <1>1, <2>1, <2>3 DEF Vault
    <3>2. CASE Respond("keys", l)
      BY <2>1, <2>3, <3>1, <3>2, AnswerStep
    <3>3. CASE Respond("error", None)
      BY <2>1, <3>1, <3>3, AnswerStep
    <3> QED
      BY <2>3, <3>2, <3>3
  <2>4. CASE vault' = [vault EXCEPT ![l].state = "moving"] /\ sent' = Nothing /\ UNCHANGED vars
    <3>1. vault' \in [Labels -> Vault]
      BY <1>1, <2>1, <2>4 DEF Vault
    <3> QED
      BY <2>1, <2>4, <3>1, QuietStep
  <2> QED
    BY <1>8, <2>2, <2>3, <2>4 DEF HandleTakeOwnershipRequest
<1>9. ASSUME NEW l \in Labels, HandleVaultStarted(l)
      PROVE  StepGoal
  <2>1. /\ vault' = [vault EXCEPT ![l].state = "running"] /\ standing' = standing
        /\ vault' \in [Labels -> Vault]
    BY <1>1, <1>9 DEF HandleVaultStarted, Vault
  <2>2. CASE FindValidated /\ OwnerIsClient(l) /\ Respond("keys", l)
    BY <2>1, <2>2, AnswerStep
  <2>3. CASE sent' = Nothing /\ UNCHANGED vars
    BY <2>1, <2>3, QuietStep
  <2> QED
    BY <1>9, <2>2, <2>3 DEF HandleVaultStarted
<1>10. ASSUME NEW l \in Labels, ForwardLogMessage(l)
       PROVE  StepGoal
  BY <1>10 DEF ForwardLogMessage, FindValidated, OwnerIsClient, StepGoal, ManagerInv, vars
<1>11. ASSUME NEW l \in Labels, VaultEnds(l)
       PROVE  StepGoal
  <2>1. [vault EXCEPT ![l] = Absent] \in [Labels -> Vault]
    BY <1>1 DEF Absent, Vault
  <2>2. [vault EXCEPT ![l].state = "starting",
                      ![l].owner = IF vault[l].state = "moving" THEN "us" ELSE @]
          \in [Labels -> Vault]
    BY <1>1 DEF Vault
  <2> QED
    BY <1>11, <2>1, <2>2, QuietStep DEF VaultEnds
<1>12. ASSUME NEW l \in Labels, OtherTakesOwnership(l)
       PROVE  StepGoal
  <2>1. vault' \in [Labels -> Vault]
    BY <1>1, <1>12 DEF OtherTakesOwnership, Vault
  <2> QED
    BY <1>12, <2>1, QuietStep DEF OtherTakesOwnership
<1> QED
  BY <1>2, <1>3, <1>4, <1>5, <1>6, <1>7, <1>8, <1>9, <1>10, <1>11, <1>12 DEF RequestsNext

\* ManagerInv holds of every composed run, which is also one of the client.
LEMMA RequestsRun ==
  RequestsSpec => []ManagerInv /\ Spec
<1>1. RequestsInit => ManagerInv /\ Init
  <2> SUFFICES ASSUME RequestsInit
               PROVE  ManagerInv
    BY DEF RequestsInit
  <2>1. {Absent} \cup [state : {"running"}, owner : {"us", "other", "none"}] \subseteq Vault
    BY DEF Absent, Vault
  <2> QED
    BY <2>1 DEF RequestsInit, ManagerInv
<1>2. ManagerInv /\ [RequestsNext]_allVars => ManagerInv' /\ [Next]_vars
  <2>1. CASE UNCHANGED allVars
    BY <2>1 DEF allVars, vars, ManagerInv
  <2> QED
    BY <2>1, RequestsStep DEF StepGoal
<1> QED
  BY <1>1, <1>2, PTL DEF RequestsSpec, Spec

\* The manager has not handled the request.
Unhandled(r) == r \in mail \/ call[r] = "idle"

\* The vault of an unhandled StartVault does not exist, so nobody has anything to
\* answer for its label, nor has anybody answered.
StartInv ==
  /\ \A r \in mail : r \in Requests /\ call[r] # "idle"
  /\ \A r \in Starting : Unhandled(r) =>
       /\ ~Present(LabelOf[r])
       /\ LabelOf[r] \notin answers
       /\ promise[r] # "value"

\* A step of the client brings no answer, and a value only to the request under
\* whose label an answer came.
LEMMA ClientKeepsOthers ==
  ASSUME ClientInv, ClientSteps, NEW r \in Requests, LabelOf[r] \notin answers
  PROVE  /\ answers' \subseteq answers
         /\ promise'[r] = "value" => promise[r] = "value"
         /\ (call'[r] = "idle") <=> (call[r] = "idle")
<1> DEFINE Goal == /\ answers' \subseteq answers
                   /\ promise'[r] = "value" => promise[r] = "value"
                   /\ (call'[r] = "idle") <=> (call[r] = "idle")
<1> USE DEF requestVars, ClientInv, TypeOK
<1>1. CASE \/ SendValidateConnectionRequest \/ SetResponseCallback \/ StartRpcTimer
           \/ HandleChallenge \/ UnlockedCallbackRace \/ RpcTimerExpires
           \/ RpcTimerHandler \/ ConstructorEnds \/ HandleNetworkStableResponse
           \/ Destructor \/ DestructorEnds
  <2>1. UNCHANGED requestVars
    BY <1>1 DEF SendValidateConnectionRequest, SetResponseCallback, StartRpcTimer,
       HandleChallenge, UnlockedCallbackRace, RpcTimerExpires, RpcTimerHandler,
       ConstructorEnds, HandleNetworkStableResponse, Destructor, DestructorEnds
  <2> QED
    BY <2>1
<1>2. ASSUME NEW q \in Requests,
             AddVaultRequest(q) \/ TimerExpires(q) \/ TimerHandler(q)
      PROVE  Goal
  BY <1>2 DEF AddVaultRequest, TimerExpires, TimerHandler, Resolved
<1>3. ASSUME NEW l \in Labels, HandleVaultRunningResponse(l)
      PROVE  Goal
  <2>1. l # LabelOf[r] /\ (ongoing[l] # None => LabelOf[ongoing[l]] = l)
    BY <1>3 DEF HandleVaultRunningResponse, MapSound
  <2>2. ongoing[l] # r
    BY <2>1, LabelsAssumption
  <2> QED
    BY <1>3, <2>2 DEF HandleVaultRunningResponse
<1> QED
  BY <1>1, <1>2, <1>3 DEF ClientSteps

\* A step of the manager concerns the vault of one label, and changes no future.
LEMMA ManagerKeepsOthers ==
  ASSUME StartInv, NEW r \in Starting, Unhandled(r), NEW l, l # LabelOf[r],
         vault[LabelOf[r]] = vault'[LabelOf[r]], answers' \subseteq answers \cup {l},
         promise' = promise
  PROVE  /\ ~Present(LabelOf[r])'
         /\ LabelOf[r] \notin answers'
         /\ promise'[r] # "value"
  BY DEF StartInv, Present

\* A response touches no request of the client but by its answer.
LEMMA RespondAnswers ==
  ASSUME NEW kind, NEW label, Respond(kind, label)
  PROVE  /\ answers' = answers \/ (label # None /\ answers' = answers \cup {label})
         /\ UNCHANGED <<call, promise>>
  BY DEF Respond

\* Every step keeps the requests of StartVault apart.
LEMMA StartStep ==
  ASSUME ClientInv, ManagerInv, StartInv, RequestsNext
  PROVE  StartInv'
<1> DEFINE Fresh(r) == /\ ~Present(LabelOf[r])'
                       /\ LabelOf[r] \notin answers'
                       /\ promise'[r] # "value"
<1> DEFINE Known == \A r \in mail' : r \in Requests /\ call'[r] # "idle"
<1> DEFINE Goal == Known /\ \A r \in Starting : Unhandled(r)' => Fresh(r)
<1> SUFFICES Goal
  BY DEF StartInv, Unhandled
<1>0. /\ Starting \subseteq Requests
      /\ \A r \in Requests : LabelOf[r] \in Labels
      /\ call \in [Requests -> {"idle", "sent", "returned"}]
      /\ vault \in [Labels -> Vault]
  BY StartingAssumption, LabelsAssumption DEF ClientInv, TypeOK, ManagerInv
<1>2. CASE ClientSteps /\ UNCHANGED managerVars
  <2>1. \A q \in Requests : (call'[q] = "idle") => (call[q] = "idle")
    <3>1. ASSUME NEW q \in Requests, AddVaultRequest(q)
          PROVE  \A p \in Requests : (call'[p] = "idle") => (call[p] = "idle")
      BY <1>0, <3>1 DEF AddVaultRequest
    <3>2. CASE call' = call
      BY <3>2
    <3> QED
      BY <1>2, <3>1, <3>2 DEF ClientSteps, SendValidateConnectionRequest,
         SetResponseCallback, StartRpcTimer, HandleChallenge, UnlockedCallbackRace,
         RpcTimerExpires, RpcTimerHandler, ConstructorEnds, TimerExpires, TimerHandler,
         HandleVaultRunningResponse, HandleNetworkStableResponse, Destructor,
         DestructorEnds, requestVars
  <2>2. Known
    BY <1>2, <2>1 DEF managerVars, StartInv
  <2>3. ASSUME NEW r \in Starting, Unhandled(r)'
        PROVE  Fresh(r)
    <3>1. r \in Requests /\ mail' = mail /\ vault' = vault
      BY <1>0, <1>2 DEF managerVars
    <3>2. r \in mail \/ call'[r] = "idle"
      BY <2>3, <3>1 DEF Unhandled
    <3>3. Unhandled(r)
      BY <2>1, <3>1, <3>2 DEF Unhandled
    <3>4. ~Present(LabelOf[r]) /\ LabelOf[r] \notin answers /\ promise[r] # "value"
      BY <3>3 DEF StartInv
    <3> QED
      BY <1>2, <3>1, <3>4, ClientKeepsOthers DEF Present
  <2> QED
    BY <2>2, <2>3
<1>3. CASE /\ UNCHANGED <<mail, vault>>
           /\ UNCHANGED <<call, promise, answers>>
  BY <1>3 DEF StartInv, Unhandled, Present
<1>4. CASE \/ HandleValidateConnectionRequest \/ ConnectionLost
           \/ \E valid \in BOOLEAN : HandleChallengeResponse(valid)
           \/ \E l \in Labels : ForwardLogMessage(l)
  BY <1>3, <1>4 DEF HandleValidateConnectionRequest, ConnectionLost, ManagerChallenges,
     HandleChallengeResponse, ForwardLogMessage, vars, requestVars
<1>5. ASSUME NEW q \in Requests, SendRequest(q)
      PROVE  Goal
  <2>1. /\ mail' = mail \cup {q} /\ vault' = vault /\ call[q] = "idle"
        /\ call' = [call EXCEPT ![q] = "sent"] /\ UNCHANGED <<promise, answers>>
    BY <1>5 DEF SendRequest, SendVaultRequest
  <2>2. Known
    BY <1>0, <2>1 DEF StartInv
  <2>3. ASSUME NEW r \in Starting, Unhandled(r)'
        PROVE  Unhandled(r)
    BY <1>0, <2>1, <2>3 DEF Unhandled
  <2> QED
    BY <2>1, <2>2, <2>3 DEF StartInv, Present
<1>6. ASSUME NEW q \in Requests, NEW l, l = LabelOf[q], Receive(q), call' = call,
             promise' = promise, answers' \subseteq answers \cup {l},
             \A k \in Labels : k # l => vault'[k] = vault[k],
             q \in Starting \/ Present(l) \/ UNCHANGED <<vault, answers>>
      PROVE  Goal
  <2>1. q \in mail /\ mail' = mail \ {q}
    BY <1>6 DEF Receive
  <2>2. Known
    BY <1>6, <2>1 DEF StartInv
  <2>3. ASSUME NEW r \in Starting, Unhandled(r)'
        PROVE  Fresh(r)
    <3>1. r \in Requests /\ LabelOf[r] \in Labels
      BY <1>0
    <3>2. Unhandled(r) /\ r # q
      BY <1>6, <2>1, <2>3 DEF Unhandled, StartInv
    <3>3. CASE UNCHANGED <<vault, answers>>
      BY <1>6, <3>2, <3>3 DEF StartInv, Present
    <3>4. CASE q \in Starting \/ Present(l)
      <4>1. l # LabelOf[r]
        BY <1>6, <3>2, <3>4, StartingAssumption DEF StartInv
      <4> QED
        BY <1>6, <3>1, <3>2, <4>1, ManagerKeepsOthers
    <3> QED
      BY <1>6, <3>3, <3>4
  <2> QED
    BY <2>2, <2>3
<1>7. ASSUME NEW q \in Requests, HandleStartVaultRequest(q)
      PROVE  Goal
  <2> DEFINE l == LabelOf[q]
  <2>1. q \in Starting /\ Receive(q)
    BY <1>7 DEF HandleStartVaultRequest
  <2>2. \A k \in Labels : k # l => vault'[k] = vault[k]
    BY <1>0, <1>7 DEF HandleStartVaultRequest
  <2>3. /\ call' = call /\ promise' = promise /\ answers' \subseteq answers \cup {l}
    BY <1>7, RespondAnswers DEF HandleStartVaultRequest, vars
  <2> QED
    BY <2>1, <2>2, <2>3, <1>6
<1>8. ASSUME NEW q \in Requests, HandleTakeOwnershipRequest(q)
      PROVE  Goal
  <2> DEFINE l == LabelOf[q]
  <2>1. Receive(q)
    BY <1>8 DEF HandleTakeOwnershipRequest
  <2>2. \A k \in Labels : k # l => vault'[k] = vault[k]
    BY <1>0, <1>8 DEF HandleTakeOwnershipRequest
  <2>3. /\ call' = call /\ promise' = promise /\ answers' \subseteq answers \cup {l}
        /\ Present(l) \/ UNCHANGED <<vault, answers>>
    BY <1>8, RespondAnswers DEF HandleTakeOwnershipRequest, vars
  <2> QED
    BY <2>1, <2>2, <2>3, <1>6
<1>9. ASSUME NEW l \in Labels, Present(l), UNCHANGED <<mail, call, promise>>,
             answers' \subseteq answers \cup {l},
             \A k \in Labels : k # l => vault'[k] = vault[k]
      PROVE  Goal
  <2>1. Known
    BY <1>9 DEF StartInv
  <2>2. ASSUME NEW r \in Starting, Unhandled(r)'
        PROVE  Fresh(r)
    <3>1. Unhandled(r) /\ LabelOf[r] \in Labels
      BY <1>0, <1>9, <2>2 DEF Unhandled
    <3>2. l # LabelOf[r]
      BY <1>9, <3>1 DEF StartInv
    <3> QED
      BY <1>9, <3>1, <3>2, ManagerKeepsOthers
  <2> QED
    BY <2>1, <2>2
<1>10. ASSUME NEW l \in Labels, HandleVaultStarted(l)
       PROVE  Goal
  <2>1. Present(l) /\ mail' = mail
    BY <1>10 DEF HandleVaultStarted, Present
  <2>2. \A k \in Labels : k # l => vault'[k] = vault[k]
    BY <1>0, <1>10 DEF HandleVaultStarted
  <2>3. UNCHANGED <<call, promise>> /\ answers' \subseteq answers \cup {l}
    BY <1>10, RespondAnswers DEF HandleVaultStarted, vars
  <2> QED
    BY <1>9, <2>1, <2>2, <2>3
<1>11. ASSUME NEW l \in Labels, VaultEnds(l) \/ OtherTakesOwnership(l)
       PROVE  Goal
  <2>1. Present(l) /\ mail' = mail /\ UNCHANGED <<call, promise, answers>>
    BY <1>11 DEF VaultEnds, OtherTakesOwnership, vars
  <2>2. \A k \in Labels : k # l => vault'[k] = vault[k]
    BY <1>0, <1>11 DEF VaultEnds, OtherTakesOwnership
  <2> QED
    BY <1>9, <2>1, <2>2
<1> QED
  BY <1>2, <1>4, <1>5, <1>7, <1>8, <1>10, <1>11 DEF RequestsNext

\* A StartVault future has a value only when the manager has handled the request,
\* for any number of requests, vaults, other clients and restarts.
THEOREM StartIsAnswered == RequestsSpec => []StartAnswered
<1>1. RequestsInit => StartInv
  BY LabelsAssumption, StartingAssumption
  DEF RequestsInit, Init, StartInv, Unhandled, Present, Absent
<1>2. ClientInv /\ ManagerInv /\ StartInv /\ [RequestsNext]_allVars => StartInv'
  <2>1. CASE UNCHANGED allVars
    BY <2>1 DEF allVars, vars, StartInv, Unhandled, Present
  <2> QED
    BY <2>1, StartStep
<1>3. ClientInv /\ StartInv => StartAnswered
  <2> SUFFICES ASSUME ClientInv, StartInv, NEW r \in Starting, promise[r] = "value"
               PROVE  call[r] = "returned" /\ r \notin mail
    BY DEF StartAnswered
  <2>1. r \in Requests
    BY StartingAssumption
  <2> QED
    BY <2>1 DEF ClientInv, RequestWatched, StartInv, Unhandled
<1>4. Spec => []ClientInv
  BY ClientInvInit, ClientInvNext, PTL DEF Spec
<1> QED
  BY RequestsRun, <1>1, <1>2, <1>3, <1>4, PTL DEF RequestsSpec

\* The manager's handlers answer as ClientInterface's environment may.
THEOREM ManagerImplementsEnvironment == RequestsSpec => ImplementsClient
  BY RequestsRun, PTL DEF ImplementsClient

\* So what was proved of a client alone, with any answers at any time, holds of
\* the client at this manager.
THEOREM ComposedClientSafety ==
  RequestsSpec => [](OngoingUnresolved /\ SoleRequestFindable) /\ OutcomeSetOnce
  BY RequestsRun, ClientSafety, OutcomesSetOnce, PTL

=============================================================================
