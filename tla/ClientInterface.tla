-------------------------- MODULE ClientInterface --------------------------
(***************************************************************************)
(* A client of the vault manager: class ClientInterface                    *)
(* (client_interface.cc) and the promise-and-timer pairs of rpc_helper.h.  *)
(* The user's threads call it; messages and timers are handled on the one  *)
(* thread of its io_service.  The vault manager at the other end answers   *)
(* when it likes, twice or not at all.                                     *)
(***************************************************************************)
EXTENDS Naturals

CONSTANTS
  Requests,   \* calls of StartVault and TakeOwnership
  Labels,     \* vault labels
  LabelOf,    \* the label of each request; StartVault's are unique
  None        \* empty callback, absent map entry

ASSUME LabelsAssumption == LabelOf \in [Requests -> Labels] /\ None \notin Requests

VARIABLES
  ctor,        \* progress of the constructor, then the object's life
  challenge,   \* Challenge messages on their way
  callback,    \* on_challenge_ is set
  rpc,         \* promise of the challenge
  rpcTimer,    \* its timer
  call,        \* progress of each request's call
  ongoing,     \* ongoing_vault_requests_
  promise,     \* promise of each request
  timer,       \* timer of each request
  answers,     \* labels of the VaultRunningResponses on their way
  stable,      \* network_stable_ is set
  crashed      \* outcome of an unlocked access to on_challenge_

ctorVars == <<ctor, challenge, callback, rpc, rpcTimer>>
requestVars == <<call, ongoing, promise, timer, answers>>
vars == <<ctor, challenge, callback, rpc, rpcTimer, call, ongoing, promise,
          timer, answers, stable, crashed>>

Outcome == {"pending", "value", "timed_out"}
TimerState == {"off", "armed", "due"}   \* due: handler queued with success

TypeOK ==
  /\ ctor \in {"connected", "validating", "registering", "waiting", "ready",
              "closing", "failed", "destroyed"}
  /\ challenge \in BOOLEAN /\ callback \in BOOLEAN
  /\ rpc \in Outcome /\ rpcTimer \in TimerState
  /\ call \in [Requests -> {"idle", "sent", "returned"}]
  /\ ongoing \in [Labels -> Requests \cup {None}]
  /\ promise \in [Requests -> Outcome]
  /\ timer \in [Requests -> TimerState]
  /\ answers \subseteq Labels
  /\ stable \in BOOLEAN /\ crashed \in BOOLEAN

Init ==
  /\ ctor = "connected" /\ challenge = FALSE /\ callback = FALSE
  /\ rpc = "pending" /\ rpcTimer = "off"
  /\ call = [r \in Requests |-> "idle"]
  /\ ongoing = [l \in Labels |-> None]
  /\ promise = [r \in Requests |-> "pending"]
  /\ timer = [r \in Requests |-> "off"]
  /\ answers = {} /\ stable = FALSE /\ crashed = FALSE

\* The io_service runs: after a constructor that throws, and after the
\* destructor, it is stopped.
Running == ~crashed /\ ctor \notin {"failed", "destroyed"}

\* PromiseAndTimer sets its promise once, whoever comes first.
Resolved(p, outcome) == IF p = "pending" THEN outcome ELSE p

\* Cancelling a timer does not call back a handler that is already queued.
Cancelled(t) == IF t = "armed" THEN "off" ELSE t

-----------------------------------------------------------------------------
(* The constructor and the challenge *)

SendValidateConnectionRequest ==
  /\ Running /\ ctor = "connected"
  /\ ctor' = "validating"
  /\ UNCHANGED <<challenge, callback, rpc, rpcTimer, requestVars, stable, crashed>>

\* The vault manager answers.
ManagerChallenges ==
  /\ Running /\ ctor \in {"validating", "registering", "waiting"} /\ ~challenge
  /\ challenge' = TRUE
  /\ UNCHANGED <<ctor, callback, rpc, rpcTimer, requestVars, stable, crashed>>

\* SetResponseCallback, after the request was sent: the callback ...
SetResponseCallback ==
  /\ Running /\ ctor = "validating"
  /\ ctor' = "registering"
  /\ callback' = TRUE
  /\ UNCHANGED <<challenge, rpc, rpcTimer, requestVars, stable, crashed>>

\* Mutant: no wait for the timer.
NoTimer ==
  /\ Running /\ ctor = "registering"
  /\ ctor' = "waiting"
  /\ UNCHANGED <<challenge, callback, rpc, rpcTimer, requestVars, stable, crashed>>

\* ... then the wait for the timer, also when the challenge has come meanwhile
\* and cancelled in vain.
StartRpcTimer ==
  /\ Running /\ ctor = "registering"
  /\ ctor' = "waiting"
  /\ rpcTimer' = "armed"
  /\ UNCHANGED <<challenge, callback, rpc, requestVars, stable, crashed>>

\* A challenge that comes before the callback is logged and lost.
HandleChallenge ==
  /\ Running /\ challenge
  /\ challenge' = FALSE
  /\ rpc' = IF callback THEN Resolved(rpc, "value") ELSE rpc
  /\ rpcTimer' = IF callback THEN Cancelled(rpcTimer) ELSE rpcTimer
  /\ UNCHANGED <<ctor, callback, requestVars, stable, crashed>>

\* InvokeCallBack reads on_challenge_ without the mutex under which
\* SetResponseCallback assigns it: here the read meets the assignment.
UnlockedCallbackRace ==
  /\ Running /\ challenge /\ ctor = "validating"
  /\ crashed' = TRUE
  /\ UNCHANGED <<ctorVars, requestVars, stable>>

RpcTimerExpires ==
  /\ Running /\ rpcTimer = "armed"
  /\ rpcTimer' = "due"
  /\ UNCHANGED <<ctor, challenge, callback, rpc, requestVars, stable, crashed>>

RpcTimerHandler ==
  /\ Running /\ rpcTimer = "due"
  /\ rpcTimer' = "off"
  /\ callback' = FALSE
  /\ rpc' = Resolved(rpc, "timed_out")
  /\ UNCHANGED <<ctor, challenge, requestVars, stable, crashed>>

\* The future is ready: the response is sent, or get() throws and the members
\* are destroyed.
ConstructorEnds ==
  /\ Running /\ ctor = "waiting" /\ rpc # "pending"
  /\ ctor' = IF rpc = "value" THEN "ready" ELSE "failed"
  /\ UNCHANGED <<challenge, callback, rpc, rpcTimer, requestVars, stable, crashed>>

-----------------------------------------------------------------------------
(* Vault requests *)

\* StartVault and TakeOwnership send first ...
SendVaultRequest(r) ==
  /\ Running /\ ctor = "ready" /\ call[r] = "idle"
  /\ call' = [call EXCEPT ![r] = "sent"]
  /\ UNCHANGED <<ctorVars, ongoing, promise, timer, answers, stable, crashed>>

\* ... and register then; insert() leaves an entry of the same label alone.  The
\* timer (30 s) does not expire while the call is under way.
AddVaultRequest(r) ==
  /\ Running /\ call[r] = "sent"
  /\ call' = [call EXCEPT ![r] = "returned"]
  /\ timer' = [timer EXCEPT ![r] = "armed"]
  /\ ongoing' = IF ongoing[LabelOf[r]] = None
                THEN [ongoing EXCEPT ![LabelOf[r]] = r] ELSE ongoing
  /\ UNCHANGED <<ctorVars, promise, answers, stable, crashed>>

\* The manager answers a request, and again, asked or not, whenever the vault
\* is restarted.
ManagerAnswers(l) ==
  /\ Running /\ ctor = "ready" /\ l \notin answers
  /\ answers' = answers \cup {l}
  /\ UNCHANGED <<ctorVars, call, ongoing, promise, timer, stable, crashed>>

\* Mutant: the answered request stays in the map.
AnswerKeepsEntry(l) ==
  /\ Running /\ l \in answers
  /\ answers' = answers \ {l}
  /\ LET r == ongoing[l]
     IN  IF r = None THEN UNCHANGED <<promise, timer>>
         ELSE /\ promise' = [promise EXCEPT ![r] = Resolved(@, "value")]
              /\ timer' = [timer EXCEPT ![r] = Cancelled(@)]
  /\ UNCHANGED <<ctorVars, call, ongoing, stable, crashed>>

\* Mutant: the answer goes to any request that waits.
AnswerAnyRequest(l) ==
  /\ Running /\ l \in answers
  /\ answers' = answers \ {l}
  /\ IF \A k \in Labels : ongoing[k] = None THEN UNCHANGED <<ongoing, promise, timer>>
     ELSE \E k \in Labels :
            /\ ongoing[k] # None
            /\ promise' = [promise EXCEPT ![ongoing[k]] = Resolved(@, "value")]
            /\ timer' = [timer EXCEPT ![ongoing[k]] = Cancelled(@)]
            /\ ongoing' = [ongoing EXCEPT ![k] = None]
  /\ UNCHANGED <<ctorVars, call, stable, crashed>>

\* The answer, keys or an error, goes to the request in the map; without one it
\* is logged and dropped.
HandleVaultRunningResponse(l) ==
  /\ Running /\ l \in answers
  /\ answers' = answers \ {l}
  /\ LET r == ongoing[l]
     IN  IF r = None THEN UNCHANGED <<ongoing, promise, timer>>
         ELSE /\ promise' = [promise EXCEPT ![r] = Resolved(@, "value")]
              /\ timer' = [timer EXCEPT ![r] = Cancelled(@)]
              /\ ongoing' = [ongoing EXCEPT ![l] = None]
  /\ UNCHANGED <<ctorVars, call, stable, crashed>>

TimerExpires(r) ==
  /\ Running /\ timer[r] = "armed"
  /\ timer' = [timer EXCEPT ![r] = "due"]
  /\ UNCHANGED <<ctorVars, call, ongoing, promise, answers, stable, crashed>>

\* Mutant: the outcome is set without the once flag.
TimerOverwrites(r) ==
  /\ Running /\ timer[r] = "due"
  /\ timer' = [timer EXCEPT ![r] = "off"]
  /\ promise' = [promise EXCEPT ![r] = "timed_out"]
  /\ ongoing' = [ongoing EXCEPT ![LabelOf[r]] = None]
  /\ UNCHANGED <<ctorVars, call, answers, stable, crashed>>

\* Mutant: only the request in the map is timed out.
TimerLooksUpLabel(r) ==
  /\ Running /\ timer[r] = "due"
  /\ timer' = [timer EXCEPT ![r] = "off"]
  /\ promise' = IF ongoing[LabelOf[r]] = None THEN promise
                ELSE [promise EXCEPT ![ongoing[LabelOf[r]]] = Resolved(@, "timed_out")]
  /\ ongoing' = [ongoing EXCEPT ![LabelOf[r]] = None]
  /\ UNCHANGED <<ctorVars, call, answers, stable, crashed>>

\* Mutant: the handler clears the map.
TimerClearsMap(r) ==
  /\ Running /\ timer[r] = "due"
  /\ timer' = [timer EXCEPT ![r] = "off"]
  /\ promise' = [promise EXCEPT ![r] = Resolved(@, "timed_out")]
  /\ ongoing' = [l \in Labels |-> None]
  /\ UNCHANGED <<ctorVars, call, answers, stable, crashed>>

\* The handler erases its label's entry, whichever request that is.
TimerHandler(r) ==
  /\ Running /\ timer[r] = "due"
  /\ timer' = [timer EXCEPT ![r] = "off"]
  /\ promise' = [promise EXCEPT ![r] = Resolved(@, "timed_out")]
  /\ ongoing' = [ongoing EXCEPT ![LabelOf[r]] = None]
  /\ UNCHANGED <<ctorVars, call, answers, stable, crashed>>

-----------------------------------------------------------------------------
(* Network-stable response, destructor *)

\* For the client's own request and for each MarkNetworkAsStable of another
\* client, which the manager also sends to clients it has not validated: the
\* response may come in the constructor and beside the destructor.  call_once
\* sets the promise the first time.
HandleNetworkStableResponse ==
  /\ Running /\ ctor # "connected"
  /\ stable' = TRUE
  /\ UNCHANGED <<ctorVars, requestVars, crashed>>

\* The body, then connection_closer_; no call is under way.
Destructor ==
  /\ Running /\ ctor = "ready" /\ \A r \in Requests : call[r] # "sent"
  /\ ctor' = "closing"
  /\ stable' = TRUE
  /\ UNCHANGED <<challenge, callback, rpc, rpcTimer, requestVars, crashed>>

\* The destructor of asio_service_ waits for the timers.
DestructorEnds ==
  /\ Running /\ ctor = "closing"
  /\ rpcTimer = "off" /\ \A r \in Requests : timer[r] = "off"
  /\ ctor' = "destroyed"
  /\ UNCHANGED <<challenge, callback, rpc, rpcTimer, requestVars, stable, crashed>>

-----------------------------------------------------------------------------
Next ==
  \/ SendValidateConnectionRequest
  \/ ManagerChallenges
  \/ SetResponseCallback
  \/ StartRpcTimer
  \/ HandleChallenge
  \/ UnlockedCallbackRace
  \/ RpcTimerExpires
  \/ RpcTimerHandler
  \/ ConstructorEnds
  \/ \E r \in Requests : SendVaultRequest(r)
  \/ \E r \in Requests : AddVaultRequest(r)
  \/ \E l \in Labels : ManagerAnswers(l)
  \/ \E l \in Labels : HandleVaultRunningResponse(l)
  \/ \E r \in Requests : TimerExpires(r)
  \/ \E r \in Requests : TimerHandler(r)
  \/ HandleNetworkStableResponse
  \/ Destructor
  \/ DestructorEnds

Spec == Init /\ [][Next]_vars

(* Fairness: the threads in the constructor, the destructor and            *)
(* AddVaultRequest go on, timers expire and their handlers run.  The       *)
(* manager need not answer.                                                *)
Fairness ==
  /\ WF_vars(SendValidateConnectionRequest)
  /\ WF_vars(SetResponseCallback)
  /\ WF_vars(StartRpcTimer)
  /\ WF_vars(ConstructorEnds)
  /\ WF_vars(RpcTimerExpires)
  /\ WF_vars(RpcTimerHandler)
  /\ WF_vars(DestructorEnds)
  /\ \A r \in Requests : /\ WF_vars(AddVaultRequest(r))
                         /\ WF_vars(TimerExpires(r))
                         /\ WF_vars(TimerHandler(r))

FairSpec == Spec /\ Fairness

-----------------------------------------------------------------------------
\* A request in the map still waits for its answer.  An entry whose future is
\* ready would take the answers meant for later requests of its label.
OngoingUnresolved ==
  Running => \A l \in Labels : ongoing[l] # None =>
    promise[ongoing[l]] = "pending" /\ LabelOf[ongoing[l]] = l

Alone(r) == \A s \in Requests : LabelOf[s] = LabelOf[r] => s = r

\* While it waits, a request with a label of its own - one of StartVault - is in
\* the map, so the answer finds it; no other request's time-out removes it.
SoleRequestFindable ==
  Running => \A r \in Requests :
    Alone(r) /\ call[r] = "returned" /\ promise[r] = "pending"
      => ongoing[LabelOf[r]] = r

\* The outcome of a future never changes, when an answer, a queued time-out
\* and the destructor meet: std::promise would throw in a handler.
OutcomeSetOnce ==
  [][\A r \in Requests : promise[r] # "pending" => promise'[r] = promise[r]]_vars

\* Every future StartVault or TakeOwnership returns becomes ready, also when
\* requests share a label and one of them takes the other out of the map.
FuturesReady == \A r \in Requests :
  (call[r] = "returned") ~> (crashed \/ promise[r] # "pending")

\* The constructor returns or throws, also when the challenge is lost.
ConstructorReturns ==
  <>(crashed \/ ctor \notin {"connected", "validating", "registering", "waiting"})

=============================================================================
