--------------------------- MODULE VaultRequests ---------------------------
(***************************************************************************)
(* A client and the vault manager composed: the requests of one            *)
(* ClientInterface, and the handlers of VaultManager that answer them.     *)
(* Other clients may own or take over the same vaults, and a second        *)
(* connection of the same maid may receive this client's answers.          *)
(***************************************************************************)
EXTENDS ClientInterface

CONSTANTS
  Starting    \* requests made by StartVault; the others are TakeOwnership's

\* GenerateLabel gives every StartVault a label of its own.
ASSUME StartingAssumption ==
  /\ Starting \subseteq Requests
  /\ \A r, s \in Starting : LabelOf[r] = LabelOf[s] => r = s

VARIABLES
  mail,       \* requests on their way to the manager
  standing,   \* the client's connection in the manager's tables
  vault,      \* the manager's vaults
  sent        \* what the manager sent to the client in the last step

managerVars == <<mail, standing, vault>>
allVars == <<vars, mail, standing, vault, sent>>

Nothing == [kind |-> "nothing", label |-> None]
Absent == [state |-> "absent", owner |-> "none"]

RequestsInit ==
  /\ Init
  /\ mail = {} /\ standing = "new" /\ sent = Nothing
  /\ vault \in [Labels -> {Absent} \cup
                          [state : {"running"}, owner : {"us", "other", "none"}]]
  /\ \A r \in Starting : vault[LabelOf[r]] = Absent   \* GenerateLabel

Present(l) == vault[l].state # "absent"
Connected == standing # "gone"

-----------------------------------------------------------------------------
(* The connection *)

HandleValidateConnectionRequest ==
  /\ ManagerChallenges
  /\ standing = "new" /\ standing' = "unvalidated"
  /\ sent' = Nothing
  /\ UNCHANGED <<mail, vault>>

\* Validate: the constructor has sent the signature, good or bad.
HandleChallengeResponse(valid) ==
  /\ ctor = "ready" /\ standing = "unvalidated"
  /\ standing' = IF valid THEN "validated" ELSE "gone"
  /\ sent' = Nothing
  /\ UNCHANGED <<vars, mail, vault>>

\* The connection is lost; the client does not notice.
ConnectionLost ==
  /\ Connected
  /\ standing' = "gone"
  /\ sent' = Nothing
  /\ UNCHANGED <<vars, mail, vault>>

-----------------------------------------------------------------------------
(* Requests *)

SendRequest(r) ==
  /\ SendVaultRequest(r)
  /\ mail' = mail \cup {r}
  /\ sent' = Nothing
  /\ UNCHANGED <<standing, vault>>

\* Mutant: a connection that is found, validated or not.
FindAny == standing \in {"unvalidated", "validated"}

FindValidated == standing = "validated"

\* The request is handled after the signature, which was sent before it.
Receive(r) ==
  /\ Running /\ r \in mail /\ standing # "unvalidated"
  /\ mail' = mail \ {r}
  /\ UNCHANGED standing

\* A response reaches the client unless the connection is gone; one without a
\* label (never set, or moved from) finds no request there.
Respond(kind, label) ==
  /\ sent' = [kind |-> kind, label |-> label]
  /\ answers' = IF Connected /\ Running /\ ctor # "closing" /\ label # None
                THEN answers \cup {label} ELSE answers
  /\ UNCHANGED <<ctorVars, call, ongoing, promise, timer, stable, crashed>>

\* vault_info.label is not yet set when FindValidated throws, is there when the
\* keys or the directory cannot be had, and was moved from when AddProcess throws,
\* or WriteConfigFile after it: then the vault runs although an error is sent.
HandleStartVaultRequest(r) ==
  LET l == LabelOf[r]
  IN  /\ r \in Starting /\ Receive(r)
      /\ \/ ~FindValidated /\ Respond("error", None) /\ UNCHANGED vault
         \/ FindValidated /\ Respond("error", l) /\ UNCHANGED vault
         \/ FindValidated /\ Respond("error", None) /\ UNCHANGED vault
         \/ /\ FindValidated /\ ~Present(l)
            /\ vault' = [vault EXCEPT ![l] = [state |-> "starting", owner |-> "us"]]
            /\ \/ sent' = Nothing /\ UNCHANGED vars
               \/ Respond("error", None)

\* The vault_info that the error response uses is hidden by the one in the try
\* block and stays empty.  WriteConfigFile may throw when the owner has changed.
HandleTakeOwnershipRequest(r) ==
  LET l == LabelOf[r]
  IN  /\ r \notin Starting /\ Receive(r)
      /\ \/ /\ ~(FindValidated /\ Present(l))
            /\ Respond("error", None)
            /\ UNCHANGED vault
         \/ /\ FindValidated /\ Present(l)   \* the same directory
            /\ vault' = [vault EXCEPT ![l].owner = "us"]
            /\ Respond("keys", l) \/ Respond("error", None)
         \/ /\ FindValidated /\ Present(l)   \* ChangeChunkstorePath
            /\ vault' = [vault EXCEPT ![l].state = "moving"]
            /\ sent' = Nothing
            /\ UNCHANGED vars

-----------------------------------------------------------------------------
(* Vaults and other clients *)

\* FindValidated(owner_name): a connection of the owner is found.
OwnerIsClient(l) == vault[l].owner = "us"

\* HandleVaultStarted: the owner is told, on one of its connections.
HandleVaultStarted(l) ==
  /\ vault[l].state = "starting"
  /\ vault' = [vault EXCEPT ![l].state = "running"]
  /\ \/ /\ FindValidated
        /\ OwnerIsClient(l)
        /\ Respond("keys", l)
     \/ /\ sent' = Nothing   \* not the owner, or another connection of it
        /\ UNCHANGED vars
  /\ UNCHANGED <<mail, standing>>

\* HandleJoinedNetwork and HandleLogMessage: a line for the owner's log.
ForwardLogMessage(l) ==
  /\ vault[l].state = "running"
  /\ FindValidated
  /\ OwnerIsClient(l)
  /\ sent' = [kind |-> "log", label |-> l]
  /\ UNCHANGED <<vars, mail, standing, vault>>

\* A vault ends and is restarted, or not; one told to move comes back as ours.
VaultEnds(l) ==
  /\ Present(l)
  /\ vault' \in {[vault EXCEPT ![l] = Absent],
                 [vault EXCEPT ![l].state = "starting",
                               ![l].owner = IF vault[l].state = "moving" THEN "us" ELSE @]}
  /\ sent' = Nothing
  /\ UNCHANGED <<vars, mail, standing>>

OtherTakesOwnership(l) ==
  /\ Present(l) /\ vault[l].owner # "other"
  /\ vault' = [vault EXCEPT ![l].owner = "other"]
  /\ sent' = Nothing
  /\ UNCHANGED <<vars, mail, standing>>

-----------------------------------------------------------------------------
ClientSteps ==
  \/ SendValidateConnectionRequest
  \/ SetResponseCallback
  \/ StartRpcTimer
  \/ HandleChallenge
  \/ UnlockedCallbackRace
  \/ RpcTimerExpires
  \/ RpcTimerHandler
  \/ ConstructorEnds
  \/ \E r \in Requests : AddVaultRequest(r) \/ TimerExpires(r) \/ TimerHandler(r)
  \/ \E l \in Labels : HandleVaultRunningResponse(l)
  \/ HandleNetworkStableResponse
  \/ Destructor
  \/ DestructorEnds

RequestsNext ==
  \/ ClientSteps /\ sent' = Nothing /\ UNCHANGED managerVars
  \/ HandleValidateConnectionRequest
  \/ \E valid \in BOOLEAN : HandleChallengeResponse(valid)
  \/ ConnectionLost
  \/ \E r \in Requests : \/ SendRequest(r)
                         \/ HandleStartVaultRequest(r)
                         \/ HandleTakeOwnershipRequest(r)
  \/ \E l \in Labels : \/ HandleVaultStarted(l)
                       \/ ForwardLogMessage(l)
                       \/ VaultEnds(l)
                       \/ OtherTakesOwnership(l)

RequestsSpec == RequestsInit /\ [][RequestsNext]_allVars /\ Fairness

-----------------------------------------------------------------------------
\* A StartVault future gets its keys, or the manager's error, from the outcome
\* of its own request: while the manager has not handled it, no answer meant for
\* another request, and none for a vault that is restarted unasked, reaches it.
StartAnswered ==
  \A r \in Starting : promise[r] = "value" => call[r] = "returned" /\ r \notin mail

\* The manager is an environment ClientInterface was specified for - it sends no
\* answer before the hand-shake is over - so what is proved of the client for
\* arbitrary answers holds with this manager.
ImplementsClient == Spec

\* The header of VaultManager: it "responds to client and vault requests".  The
\* error response to a validated client has the label of its request.
RefusalsNamed ==
  sent.kind = "error" /\ standing = "validated" => sent.label # None

=============================================================================
