--------------------------- MODULE VaultInterface ---------------------------
(***************************************************************************)
(* A vault process's end of its connection to the vault manager: class     *)
(* VaultInterface (vault_interface.cc), with SetResponseCallback of        *)
(* rpc_helper.h.  The vault's main thread runs the constructor and         *)
(* WaitForExit; messages, the timer and the close notification are handled *)
(* on the one thread of the io_service.                                    *)
(***************************************************************************)
CONSTANTS
  Waiters,   \* threads that call WaitForExit
  None       \* exit code not set

ASSUME WaitersAssumption == None \notin {"success", "connection_aborted"}

VARIABLES
  ctor,         \* progress of the constructor
  response,     \* the manager's VaultStartedResponse
  callback,     \* on_vault_started_response_ is set
  config,       \* promise of the configuration
  timer,        \* its timer
  connection,   \* state of the TCP connection
  exit,         \* exit_code_promise_
  wait,         \* each thread's call of WaitForExit
  asserted,     \* assert(false) of HandleVaultStartedResponse was reached
  crashed       \* outcome of locking a mutex that is gone

vars == <<ctor, response, callback, config, timer, connection, exit, wait,
          asserted, crashed>>

Init ==
  /\ ctor = "connected" /\ response = "none" /\ callback = FALSE
  /\ config = "pending" /\ timer = "off"
  /\ connection = "open" /\ exit = None
  /\ wait = [w \in Waiters |-> "no"]
  /\ asserted = FALSE /\ crashed = FALSE

\* The io_service runs; a constructor that throws stops it.
Running == ~crashed /\ ctor # "failed"

\* PromiseAndTimer sets its promise once.
Resolved(p, outcome) == IF p = "pending" THEN outcome ELSE p

-----------------------------------------------------------------------------
(* The constructor and the configuration *)

\* Mutant: no timer.
CallbackWithoutTimer ==
  /\ Running /\ ctor = "connected"
  /\ ctor' = "registered"
  /\ callback' = TRUE
  /\ UNCHANGED <<response, config, timer, connection, exit, wait, asserted, crashed>>

\* Before the request is sent, unlike in ClientInterface.
SetResponseCallback ==
  /\ Running /\ ctor = "connected"
  /\ ctor' = "registered"
  /\ callback' = TRUE
  /\ timer' = "armed"
  /\ UNCHANGED <<response, config, connection, exit, wait, asserted, crashed>>

SendVaultStarted ==
  /\ Running /\ ctor = "registered"
  /\ ctor' = "waiting"
  /\ UNCHANGED <<response, callback, config, timer, connection, exit, wait,
                 asserted, crashed>>

\* The manager answers VaultStarted, once and if it knows the process.
ManagerResponds ==
  /\ Running /\ ctor = "waiting" /\ response = "none" /\ connection = "open"
  /\ response' = "sent"
  /\ UNCHANGED <<ctor, callback, config, timer, connection, exit, wait, asserted, crashed>>

\* A time-out may have removed the callback.
HandleVaultStartedResponse ==
  /\ Running /\ response = "sent"
  /\ response' = "handled"
  /\ IF callback
     THEN /\ config' = Resolved(config, "value")
          /\ timer' = IF timer = "armed" THEN "off" ELSE timer
          /\ UNCHANGED asserted
     ELSE asserted' = TRUE /\ UNCHANGED <<config, timer>>
  /\ UNCHANGED <<ctor, callback, connection, exit, wait, crashed>>

TimerExpires ==
  /\ Running /\ timer = "armed"
  /\ timer' = "due"
  /\ UNCHANGED <<ctor, response, callback, config, connection, exit, wait,
                 asserted, crashed>>

\* The handler locks the constructor's local mutex, which is gone if the
\* response overtook it and the constructor has returned.
TimerHandler ==
  /\ Running /\ timer = "due"
  /\ timer' = "off"
  /\ callback' = FALSE
  /\ config' = Resolved(config, "timed_out")
  /\ crashed' \in {FALSE, ctor = "ready"}
  /\ UNCHANGED <<ctor, response, connection, exit, wait, asserted>>

\* The future is ready: get() returns or throws.
ConstructorEnds ==
  /\ Running /\ ctor = "waiting" /\ config # "pending"
  /\ ctor' = IF config = "value" THEN "ready" ELSE "failed"
  /\ UNCHANGED <<response, callback, config, timer, connection, exit, wait,
                 asserted, crashed>>

-----------------------------------------------------------------------------
(* The end of the vault *)

\* call_once with exit_code_flag_.
SetExit(code) == exit' = IF exit = None THEN code ELSE exit

\* The manager knows the connection from VaultStarted on, and may send the request
\* before its response, once or more; one that was read is handled also after the
\* close notification.
HandleVaultShutdownRequest ==
  /\ Running /\ ctor \in {"waiting", "ready"}
  /\ SetExit("success")
  /\ UNCHANGED <<ctor, response, callback, config, timer, connection, wait,
                 asserted, crashed>>

\* Mutant: the loss of the connection is only logged.
ClosedOnlyLogged ==
  /\ Running /\ connection = "open"
  /\ connection' = "lost"
  /\ UNCHANGED <<ctor, response, callback, config, timer, exit, wait, asserted, crashed>>

\* The manager closed the connection or is gone.
OnConnectionClosed ==
  /\ Running /\ connection = "open"
  /\ connection' = "lost"
  /\ SetExit("connection_aborted")
  /\ UNCHANGED <<ctor, response, callback, config, timer, wait, asserted, crashed>>

\* get_future() succeeds for the first caller and throws for every other one.
WaitForExit(w) ==
  /\ Running /\ ctor = "ready" /\ wait[w] = "no"
  /\ wait' = [wait EXCEPT ![w] = IF \A v \in Waiters : wait[v] = "no"
                                 THEN "waiting" ELSE "threw"]
  /\ UNCHANGED <<ctor, response, callback, config, timer, connection, exit,
                 asserted, crashed>>

WaitReturns(w) ==
  /\ Running /\ wait[w] = "waiting" /\ exit # None
  /\ wait' = [wait EXCEPT ![w] = "returned"]
  /\ UNCHANGED <<ctor, response, callback, config, timer, connection, exit,
                 asserted, crashed>>

-----------------------------------------------------------------------------
Next ==
  \/ SetResponseCallback
  \/ SendVaultStarted
  \/ ManagerResponds
  \/ HandleVaultStartedResponse
  \/ TimerExpires
  \/ TimerHandler
  \/ ConstructorEnds
  \/ HandleVaultShutdownRequest
  \/ OnConnectionClosed
  \/ \E w \in Waiters : WaitForExit(w)
  \/ \E w \in Waiters : WaitReturns(w)

Spec == Init /\ [][Next]_vars

(* Fairness: the vault's main thread and its io_service go on, the timer   *)
(* expires.  Nothing is assumed of the manager.                            *)
Fairness ==
  /\ WF_vars(SetResponseCallback)
  /\ WF_vars(SendVaultStarted)
  /\ WF_vars(ConstructorEnds)
  /\ WF_vars(TimerExpires)
  /\ WF_vars(TimerHandler)
  /\ WF_vars(HandleVaultStartedResponse)
  /\ \A w \in Waiters : WF_vars(WaitReturns(w))

FairSpec == Spec /\ Fairness

-----------------------------------------------------------------------------
\* A vault whose manager is gone does not wait for its exit forever.
LostConnectionEndsWait == \A w \in Waiters :
  (connection = "lost" /\ wait[w] = "waiting") ~> (crashed \/ wait[w] = "returned")

\* The constructor returns or throws, whether or not the manager answers.
ConstructorReturns == <>(crashed \/ ctor \in {"ready", "failed"})

\* assert(false) with the comment "already received vault configuration": no
\* response finds the callback gone.
ResponseFindsCallback == ~asserted

=============================================================================
