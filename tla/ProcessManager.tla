--------------------------- MODULE ProcessManager ---------------------------
(***************************************************************************)
(* The supervisor of the vault processes: class ProcessManager             *)
(* (process_manager.cc) driven by the handlers of VaultManager             *)
(* (vault_manager.cc) that call it.  The manager's io_service has one      *)
(* thread, so a handler is one atomic step; what interleaves is the order  *)
(* in which message, timer, signal, posted and connection-closed handlers  *)
(* run, and the processes and sockets outside the manager.                 *)
(***************************************************************************)
EXTENDS Naturals, FiniteSets

CONSTANTS
  Labels,             \* vault labels (VaultInfo::label)
  Dirs,               \* chunkstore directories (VaultInfo::vault_dir)
  Pmids,              \* vault identities (VaultInfo::pmid_and_signer)
  Owners,             \* names of validated clients (VaultInfo::owner_name)
  Pids,               \* process ids the operating system hands out
  Conns,              \* TCP connection objects
  MaxVaultRestarts,   \* kMaxVaultRestarts
  MaxRequests,        \* bound on the client requests the manager handles
  None                \* null connection, uninitialised owner, empty functor

ASSUME ConstantsAssumption ==
  /\ MaxVaultRestarts \in Nat
  /\ MaxRequests \in Nat
  /\ None \notin Labels \cup Dirs \cup Pmids \cup Owners \cup Pids \cup Conns
  /\ None \notin {"start", "stop"}   \* a timer's kind
  /\ IsFiniteSet(Pids)

VARIABLES
  vaults,       \* vaults_: the set of child records
  posts,        \* restarts posted to the io_service and not yet run
  expired,      \* timer handlers queued with success: cancelling is too late
  config,       \* labels in the config file as last written; None: the write failed
  proc,         \* state of each process id
  conn,         \* state of each connection object
  peer,         \* the process at the other end of a connection
  hello,        \* connections in new_connections_ whose VaultStarted is due
  sigPending,   \* the kernel holds an undelivered SIGCHLD
  undelivered,  \* SIGCHLDs caught by asio while no async_wait was outstanding
  sigWait,      \* the async_wait of signal_set_
  stop,         \* progress of the shutdown
  tear,         \* connections StopAllWithInterval has still to stop
  requests,     \* client requests handled so far
  crashed       \* a null connection was dereferenced

supVars == <<vaults, posts, expired, config>>
sigVars == <<sigPending, undelivered, sigWait>>
stopVars == <<stop, tear, requests>>
vars == <<vaults, posts, expired, config, proc, conn, peer, hello, sigPending,
          undelivered, sigWait, stop, tear, requests, crashed>>

-----------------------------------------------------------------------------
(* Records *)

VaultInfo == [label : Labels, dir : Dirs, pmid : Pmids,
              owner : Owners \cup {None}, conn : Conns \cup {None}]

ProcessStatus == {"kStarting", "kRunning", "kStopping"}

TimerKind == {"start", "stop"}

\* on_exit is empty or the functor of ChangeChunkstorePath, which is
\* determined by the VaultInfo it captures.
Child == [info : VaultInfo, restarts : Nat, status : ProcessStatus, pid : Pids,
          timer : TimerKind \cup {None}, on_exit : VaultInfo \cup {None}]

Live == {"launched", "linked"}   \* process runs, before / after it connected

TypeOK ==
  /\ vaults \subseteq Child
  /\ posts \subseteq [info : VaultInfo, restarts : Nat]
  /\ expired \subseteq Labels \X TimerKind
  /\ config \in (SUBSET Labels) \cup {None}
  /\ proc \in [Pids -> Live \cup {"free", "zombie"}]
  /\ conn \in [Conns -> {"idle", "open", "closing"}]
  /\ peer \in [Conns -> Pids \cup {None}]
  /\ hello \subseteq Conns
  /\ sigPending \in BOOLEAN
  /\ undelivered \in Nat
  /\ sigWait \in {"waiting", "queued", "cancelled"}
  /\ stop \in {"running", "closing", "stopping", "stopped"}
  /\ tear \subseteq Conns \cup {None}
  /\ requests \in 0 .. MaxRequests
  /\ crashed \in BOOLEAN

Init ==
  /\ vaults = {} /\ posts = {} /\ expired = {} /\ config = {}
  /\ proc = [p \in Pids |-> "free"]
  /\ conn = [c \in Conns |-> "idle"]
  /\ peer = [c \in Conns |-> None]
  /\ hello = {}
  /\ sigPending = FALSE /\ undelivered = 0 /\ sigWait = "waiting"
  /\ stop = "running" /\ tear = {} /\ requests = 0
  /\ crashed = FALSE

-----------------------------------------------------------------------------
(* Connections and processes as the operating system sees them *)

\* Close() queues one close notification; on a closed connection it is a no-op.
Close(cn, c) == IF c \in Conns /\ cn[c] = "open"
                THEN [cn EXCEPT ![c] = "closing"] ELSE cn

\* The io_service runs handlers in the order they were queued, so the handler of
\* an event it has not noticed yet runs after every restart already posted.
Notice == ~crashed /\ posts = {}

\* The death of process p closes its socket.
Hangup(cn, p) == [c \in Conns |-> IF cn[c] = "open" /\ peer[c] = p
                                  THEN "closing" ELSE cn[c]]

-----------------------------------------------------------------------------
(* AddProcess *)

GetAll(vs) == {v.info.label : v \in vs}

\* WriteConfigFile may throw: what changed before it stays.
WriteConfigFile(vs) == config' \in {GetAll(vs), None}

\* Mutant: a null connection is taken to differ from every other one.
CheckIgnoresNullConnections(new, existing) ==
  /\ new.pmid # existing.pmid
  /\ new.dir # existing.dir
  /\ new.label # existing.label
  /\ new.conn # existing.conn \/ new.conn = None

\* Two null connections compare equal (ConnectionsEqual).
CheckNewVaultDoesntConflict(new, existing) ==
  /\ new.pmid # existing.pmid
  /\ new.dir # existing.dir
  /\ new.label # existing.label
  /\ new.conn # existing.conn

CanAdd(info, restarts, vs) ==
  /\ restarts <= MaxVaultRestarts
  /\ \A v \in vs : CheckNewVaultDoesntConflict(info, v.info)

NewChild(info, restarts, p) ==
  [info |-> info, restarts |-> restarts, status |-> "kStarting", pid |-> p,
   timer |-> "start", on_exit |-> None]

\* The operating system gives out p: pids wrap around too slowly for one to come
\* back while a connection of its former process is still open.
PidFree(pr, p) == pr[p] = "free" /\ \A c \in Conns : peer[c] # p

\* The vault joins vs and its process is launched with the start timer armed.
AddProcess(info, restarts, vs, pr) ==
  /\ CanAdd(info, restarts, vs)
  /\ \E p \in Pids :
       /\ PidFree(pr, p)
       /\ vaults' = vs \cup {NewChild(info, restarts, p)}
       /\ proc' = [pr EXCEPT ![p] = "launched"]

\* AddProcess throws - a conflict, or bp::execute fails - and leaves vs as it was.
AddProcessFails(vs, pr) ==
  /\ vaults' = vs
  /\ proc' = pr

-----------------------------------------------------------------------------
(* OnProcessExit *)

\* The functor of ChangeChunkstorePath: AddProcess, then WriteConfigFile.
InvokeOnExitFunctor(on_exit, vs, pr) ==
  \/ /\ on_exit = None
     /\ vaults' = vs /\ proc' = pr
     /\ UNCHANGED config
  \/ /\ on_exit # None
     /\ AddProcess(on_exit, 0, vs, pr)
     /\ WriteConfigFile(vaults')
  \/ /\ on_exit # None
     /\ AddProcessFails(vs, pr)
     /\ UNCHANGED config

\* Mutant: the restart does not count.
RestartForever(v) ==
  posts' = IF v.status # "kStopping" /\ v.restarts < MaxVaultRestarts
           THEN posts \cup {[info |-> [v.info EXCEPT !.conn = None],
                             restarts |-> v.restarts]}
           ELSE posts

\* Mutant: a vault that was told to stop is restarted too.
RestartAlsoStopped(v) ==
  posts' = IF v.restarts < MaxVaultRestarts
           THEN posts \cup {[info |-> [v.info EXCEPT !.conn = None],
                             restarts |-> v.restarts + 1]}
           ELSE posts

RestartIfRequired(v) ==
  posts' = IF v.status # "kStopping" /\ v.restarts < MaxVaultRestarts
           THEN posts \cup {[info |-> [v.info EXCEPT !.conn = None],
                             restarts |-> v.restarts + 1]}
           ELSE posts

\* Mutant: the child is erased without terminating its process.
ExitWithoutTerminate(v, terminate, pr, cn) ==
  /\ conn' = Close(cn, v.info.conn)
  /\ UNCHANGED sigPending
  /\ InvokeOnExitFunctor(v.on_exit, vaults \ {v}, pr)
  /\ RestartIfRequired(v)

\* pr and cn are the processes and connections when the handler gets here.
OnProcessExit(v, terminate, pr, cn) ==
  LET kill == terminate /\ pr[v.pid] \in Live
      pr1  == IF kill THEN [pr EXCEPT ![v.pid] = "zombie"] ELSE pr
      cn1  == IF kill THEN Hangup(cn, v.pid) ELSE cn
  IN  /\ conn' = Close(cn1, v.info.conn)
      /\ sigPending' = (sigPending \/ kill)
      /\ InvokeOnExitFunctor(v.on_exit, vaults \ {v}, pr1)
      /\ RestartIfRequired(v)

NoProcessExit(pr, cn) ==
  /\ proc' = pr /\ conn' = cn
  /\ UNCHANGED <<vaults, posts, config, sigPending>>

-----------------------------------------------------------------------------
(* Handlers of client requests *)

\* A request may come at any time: one that was read before the shutdown closed
\* the client's connection is handled after it.
HandleRequest ==
  /\ ~crashed /\ requests < MaxRequests
  /\ requests' = requests + 1

\* HandleStartVaultRequest.  A request that throws in AddProcess or earlier changes
\* nothing; after it the vault runs, and the client is sent an error.
HandleStartVaultRequest(l, d, m, o) ==
  LET info == [label |-> l, dir |-> d, pmid |-> m, owner |-> o, conn |-> None]
  IN  /\ HandleRequest
      /\ AddProcess(info, 0, vaults, proc)
      /\ WriteConfigFile(vaults')
      /\ UNCHANGED <<posts, expired, conn, peer, hello, sigVars, stop, tear, crashed>>

\* The constructor of VaultManager, when it read no vault from the config file
\* (here: one not yet written): it starts a vault without an owner.  A write that
\* throws ends the manager with its constructor.
CreateFirstVault(l, d, m) ==
  LET info == [label |-> l, dir |-> d, pmid |-> m, owner |-> None, conn |-> None]
  IN  /\ ~crashed /\ stop = "running" /\ config = {}
      /\ AddProcess(info, 0, vaults, proc)
      /\ config' = GetAll(vaults')
      /\ UNCHANGED <<posts, expired, conn, peer, hello, sigVars, stopVars, crashed>>

\* Mutant: the stop timer is not armed.
StoppedWithoutTimer(v, on_exit) ==
  [v EXCEPT !.on_exit = on_exit, !.status = "kStopping", !.timer = None]

\* v after StopProcess: the shutdown request is sent and the stop timer armed.
Stopped(v, on_exit) ==
  [v EXCEPT !.on_exit = on_exit, !.status = "kStopping", !.timer = "stop"]

\* HandleTakeOwnershipRequest with another directory: ChangeChunkstorePath.
\* The functor keeps the connection of the vault that is about to stop.
ChangeChunkstorePath(v, d, o) ==
  /\ HandleRequest
  /\ v.info.dir # d
  /\ IF v.info.conn = None
     THEN crashed' = TRUE /\ UNCHANGED vaults
     ELSE /\ vaults' = (vaults \ {v})
                       \cup {Stopped(v, [v.info EXCEPT !.dir = d, !.owner = o])}
          /\ UNCHANGED crashed
  /\ UNCHANGED <<posts, expired, config, proc, conn, peer, hello, sigVars, stop, tear>>

\* HandleTakeOwnershipRequest with the same directory.  A changed disk usage
\* is sent to the vault first, through a connection that may be null.
AssignOwner(v, o, usageChanged) ==
  /\ HandleRequest
  /\ IF usageChanged /\ v.info.conn = None
     THEN crashed' = TRUE /\ UNCHANGED <<vaults, config>>
     ELSE /\ vaults' = (vaults \ {v}) \cup {[v EXCEPT !.info.owner = o]}
          /\ WriteConfigFile(vaults')
          /\ UNCHANGED crashed
  /\ UNCHANGED <<posts, expired, proc, conn, peer, hello, sigVars, stop, tear>>

-----------------------------------------------------------------------------
(* Handlers of a vault's connection *)

\* Mutant: the start timer is cancelled and the status left as it was.
StartedWithoutStatus(c) ==
  /\ ~crashed /\ c \in hello
  /\ hello' = hello \ {c}
  /\ \E v \in vaults :
       /\ v.pid = peer[c]
       /\ vaults' = (vaults \ {v}) \cup {[v EXCEPT !.timer = None, !.info.conn = c]}
  /\ UNCHANGED <<posts, expired, config, proc, conn, peer, sigVars, stopVars, crashed>>

\* VaultStarted names a child by pid; without one the handler throws, and the
\* connection is in no table any more.
HandleVaultStarted(c) ==
  /\ ~crashed /\ c \in hello
  /\ hello' = hello \ {c}
  /\ \/ \E v \in vaults :
          /\ v.pid = peer[c]
          /\ vaults' = (vaults \ {v})
                       \cup {[v EXCEPT !.timer = None, !.info.conn = c,
                                       !.status = "kRunning"]}
     \/ /\ \A v \in vaults : v.pid # peer[c]
        /\ UNCHANGED vaults
  /\ UNCHANGED <<posts, expired, config, proc, conn, peer, sigVars, stopVars, crashed>>

\* Mutant: the exit is left to SIGCHLD.
ClosedLeftToSignal(c) ==
  /\ ~crashed /\ conn[c] = "closing"
  /\ hello' = hello \ {c}
  /\ peer' = [peer EXCEPT ![c] = None]
  /\ NoProcessExit(proc, [conn EXCEPT ![c] = "idle"])
  /\ UNCHANGED <<expired, undelivered, sigWait, stopVars, crashed>>

\* The one close notification of c.
HandleConnectionClosed(c) ==
  LET cn == [conn EXCEPT ![c] = "idle"]
  IN  /\ ~crashed /\ conn[c] = "closing"
      /\ hello' = hello \ {c}
      /\ peer' = [peer EXCEPT ![c] = None]
      /\ \/ \E v \in vaults : v.info.conn = c /\ OnProcessExit(v, TRUE, proc, cn)
         \/ /\ \A v \in vaults : v.info.conn # c
            /\ NoProcessExit(proc, cn)
      /\ UNCHANGED <<expired, undelivered, sigWait, stopVars, crashed>>

-----------------------------------------------------------------------------
(* Handlers of timers, of posted restarts and of SIGCHLD *)

\* A timer's deadline passes: its handler is queued with success.
TimerExpires(v) ==
  /\ Notice /\ v.timer # None
  /\ vaults' = (vaults \ {v}) \cup {[v EXCEPT !.timer = None]}
  /\ expired' = expired \cup {<<v.info.label, v.timer>>}
  /\ UNCHANGED <<posts, config, proc, conn, peer, hello, sigVars, stopVars, crashed>>

\* The handler captured the label only: it ends whichever vault has it now.
TimerHandler(l, kind) ==
  /\ ~crashed /\ <<l, kind>> \in expired
  /\ expired' = expired \ {<<l, kind>>}
  /\ \/ \E v \in vaults : v.info.label = l /\ OnProcessExit(v, TRUE, proc, conn)
     \/ /\ \A v \in vaults : v.info.label # l
        /\ NoProcessExit(proc, conn)
  /\ UNCHANGED <<peer, hello, undelivered, sigWait, stopVars, crashed>>

\* A restart that conflicts is logged and dropped.
RunRestart(r) ==
  /\ ~crashed /\ r \in posts
  /\ posts' = posts \ {r}
  /\ \/ AddProcess(r.info, r.restarts, vaults, proc)
     \/ AddProcessFails(vaults, proc)
  /\ UNCHANGED <<expired, config, conn, peer, hello, sigVars, stopVars, crashed>>

\* Mutant: a signal caught meanwhile is reported and still counted.
SignalStaysCounted ==
  /\ sigWait' = IF undelivered > 0 THEN "queued" ELSE "waiting"
  /\ UNCHANGED undelivered

\* Mutant: the count is taken down without looking whether there is a signal.
SignalCountUnderflows ==
  /\ sigWait' = IF undelivered > 0 THEN "queued" ELSE "waiting"
  /\ undelivered' = undelivered - 1

\* async_wait completes at once when a signal was caught meanwhile.
InitSignalHandler ==
  /\ sigWait' = IF undelivered > 0 THEN "queued" ELSE "waiting"
  /\ undelivered' = IF undelivered > 0 THEN undelivered - 1 ELSE 0

\* Mutant: the zombie is reaped and its child left to its connection.
ReapOnly(p) ==
  /\ ~crashed /\ sigWait = "queued" /\ proc[p] = "zombie"
  /\ NoProcessExit([proc EXCEPT ![p] = "free"], conn)
  /\ InitSignalHandler
  /\ UNCHANGED <<expired, peer, hello, stopVars, crashed>>

\* wait() reaps some zombie; its child, if there still is one, has exited.
SignalHandler(p) ==
  LET pr == [proc EXCEPT ![p] = "free"]
  IN  /\ ~crashed /\ sigWait = "queued" /\ proc[p] = "zombie"
      /\ \/ \E v \in vaults : v.pid = p /\ OnProcessExit(v, FALSE, pr, conn)
         \/ /\ \A v \in vaults : v.pid # p
            /\ NoProcessExit(pr, conn)
      /\ InitSignalHandler
      /\ UNCHANGED <<expired, peer, hello, stopVars, crashed>>

\* asio's C signal handler.
DeliverSignal ==
  /\ Notice /\ sigPending
  /\ sigPending' = FALSE
  /\ IF sigWait = "waiting"
     THEN sigWait' = "queued" /\ UNCHANGED undelivered
     ELSE undelivered' = undelivered + 1 /\ UNCHANGED sigWait
  /\ UNCHANGED <<supVars, proc, conn, peer, hello, stopVars, crashed>>

-----------------------------------------------------------------------------
(* Shutdown *)

\* cancel() aborts an outstanding wait, not a handler that is already queued.
CancelSignals == sigWait' = IF sigWait = "waiting" THEN "cancelled" ELSE sigWait

CloseNewConnections == conn' = [c \in Conns |-> IF c \in hello /\ conn[c] = "open"
                                                THEN "closing" ELSE conn[c]]

\* The handler ~VaultManager posts: no more listening, the new connections are
\* closed, StopProcess for every vault, the signals are cancelled.
StopAll ==
  /\ ~crashed /\ stop = "running"
  /\ stop' = "stopped"
  /\ CloseNewConnections
  /\ IF \E v \in vaults : v.info.conn = None
     THEN crashed' = TRUE /\ UNCHANGED <<vaults, sigWait>>
     ELSE /\ vaults' = {Stopped(v, None) : v \in vaults}
          /\ CancelSignals
          /\ UNCHANGED crashed
  /\ UNCHANGED <<posts, expired, config, proc, peer, hello, sigPending,
                 undelivered, tear, requests>>

\* TearDownWithInterval runs on a thread of its own, five seconds a vault.
TearDownWithInterval ==
  /\ ~crashed /\ stop = "running"
  /\ stop' = "closing"
  /\ CloseNewConnections
  /\ UNCHANGED <<supVars, proc, peer, hello, sigVars, tear, requests, crashed>>

StopAllWithInterval ==
  /\ ~crashed /\ stop = "closing"
  /\ stop' = "stopping"
  /\ tear' = {v.info.conn : v \in vaults}
  /\ UNCHANGED <<supVars, proc, conn, peer, hello, sigVars, requests, crashed>>

\* StopProcess for the next connection of the snapshot.
StopProcess(c) ==
  /\ ~crashed /\ c \in tear
  /\ tear' = tear \ {c}
  /\ \/ \E v \in vaults :
          /\ v.info.conn = c
          /\ IF c = None
             THEN crashed' = TRUE /\ UNCHANGED vaults
             ELSE /\ vaults' = (vaults \ {v}) \cup {Stopped(v, None)}
                  /\ UNCHANGED crashed
     \/ /\ \A v \in vaults : v.info.conn # c
        /\ UNCHANGED <<vaults, crashed>>
  /\ UNCHANGED <<posts, expired, config, proc, conn, peer, hello, sigVars, stop, requests>>

StopAllWithIntervalEnds ==
  /\ ~crashed /\ stop = "stopping" /\ tear = {}
  /\ stop' = "stopped"
  /\ CancelSignals
  /\ UNCHANGED <<supVars, proc, conn, peer, hello, sigPending, undelivered,
                 tear, requests, crashed>>

\* That thread shares vaults_ with the io_service's thread without a lock; the
\* steps above are the orders the race resolves to, and this one the crash.
UnlockedVaultsRace ==
  /\ ~crashed /\ stop \in {"closing", "stopping"}
  /\ vaults # {}
  /\ crashed' = TRUE
  /\ UNCHANGED <<supVars, proc, conn, peer, hello, sigVars, stopVars>>

-----------------------------------------------------------------------------
(* Vault processes and the network (external) *)

Referenced(c) ==
  \/ c \in tear
  \/ \E v \in vaults : v.info.conn = c \/ (v.on_exit # None /\ v.on_exit.conn = c)

\* A launched vault connects to the listener; VaultStarted follows.
VaultConnects(p, c) ==
  /\ Notice /\ stop = "running"
  /\ proc[p] = "launched" /\ conn[c] = "idle" /\ ~Referenced(c)
  /\ proc' = [proc EXCEPT ![p] = "linked"]
  /\ conn' = [conn EXCEPT ![c] = "open"]
  /\ peer' = [peer EXCEPT ![c] = p]
  /\ hello' = hello \cup {c}
  /\ UNCHANGED <<supVars, sigVars, stopVars, crashed>>

\* A vault exits, asked to or not.
VaultExits(p) ==
  /\ ~crashed /\ proc[p] \in Live
  /\ proc' = [proc EXCEPT ![p] = "zombie"]
  /\ conn' = Hangup(conn, p)
  /\ sigPending' = TRUE
  /\ UNCHANGED <<supVars, peer, hello, undelivered, sigWait, stopVars, crashed>>

\* A connection is lost, or the timer of NewConnections closes it.
ConnectionLost(c) ==
  /\ Notice /\ conn[c] = "open"
  /\ conn' = [conn EXCEPT ![c] = "closing"]
  /\ UNCHANGED <<supVars, proc, peer, hello, sigVars, stopVars, crashed>>

-----------------------------------------------------------------------------
TakeOwnership ==
  \E v \in vaults, o \in Owners :
    \/ \E d \in Dirs : ChangeChunkstorePath(v, d, o)
    \/ \E usageChanged \in BOOLEAN : AssignOwner(v, o, usageChanged)

Next ==
  \/ \E l \in Labels, d \in Dirs, m \in Pmids :
       \/ CreateFirstVault(l, d, m)
       \/ \E o \in Owners : HandleStartVaultRequest(l, d, m, o)
  \/ TakeOwnership
  \/ \E c \in Conns : HandleVaultStarted(c)
  \/ \E c \in Conns : HandleConnectionClosed(c)
  \/ \E v \in vaults : TimerExpires(v)
  \/ \E l \in Labels, kind \in TimerKind : TimerHandler(l, kind)
  \/ \E r \in posts : RunRestart(r)
  \/ \E p \in Pids : SignalHandler(p)
  \/ DeliverSignal
  \/ StopAll
  \/ TearDownWithInterval
  \/ StopAllWithInterval
  \/ \E c \in Conns \cup {None} : StopProcess(c)
  \/ StopAllWithIntervalEnds
  \/ UnlockedVaultsRace
  \/ \E p \in Pids, c \in Conns : VaultConnects(p, c)
  \/ \E p \in Pids : VaultExits(p)
  \/ \E c \in Conns : ConnectionLost(c)

Spec == Init /\ [][Next]_vars

(* Fairness: the io_service runs every queued handler, an armed timer      *)
(* reaches its deadline, the kernel delivers a pending signal, and the     *)
(* thread of TearDownWithInterval goes on.  Nothing is assumed of the      *)
(* vaults, the clients or the network.                                     *)
Fairness ==
  /\ \A c \in Conns : WF_vars(HandleConnectionClosed(c))
  /\ \A l \in Labels :
       WF_vars(\E v \in vaults : v.info.label = l /\ TimerExpires(v))
  /\ \A l \in Labels, kind \in TimerKind : WF_vars(TimerHandler(l, kind))
  /\ WF_vars(\E r \in posts : RunRestart(r))
  /\ WF_vars(DeliverSignal)
  /\ WF_vars(\E p \in Pids : SignalHandler(p))
  /\ WF_vars(StopAllWithInterval)
  /\ WF_vars(\E c \in Conns \cup {None} : StopProcess(c))
  /\ WF_vars(StopAllWithIntervalEnds)

FairSpec == Spec /\ Fairness

-----------------------------------------------------------------------------
(* Safety *)

\* No two vaults share a label, an identity, a directory or a connection - so
\* at most one of them is unconnected - whatever restarts, ownership changes and
\* late VaultStarted messages interleave; DoFind's first match is the only one.
NoConflict ==
  \A v, w \in vaults :
    v # w => /\ v.info.label # w.info.label
             /\ v.info.pmid # w.info.pmid
             /\ v.info.dir # w.info.dir
             /\ v.info.conn # w.info.conn

\* A child's pid is its own and has not been reaped, so TerminateProcess and
\* VaultStarted never act on a recycled pid.
PidsOurs ==
  /\ \A v \in vaults : proc[v.pid] # "free"
  /\ \A v, w \in vaults : v.pid = w.pid => v = w

\* Every vault process that is running is some child's: whichever handler
\* erases the child has terminated the process or seen its exit.
NoOrphans ==
  \A p \in Pids : proc[p] \in Live => \E v \in vaults : v.pid = p

Zombies == {p \in Pids : proc[p] = "zombie"}

Signals == undelivered + (IF sigPending THEN 1 ELSE 0)
                       + (IF sigWait = "queued" THEN 1 ELSE 0)

\* Each SIGCHLD still to be handled has a zombie to reap, so the blocking
\* wait() in the signal handler returns at once and never stalls the one
\* thread that runs all the handlers.
WaitNeverBlocks == Signals <= Cardinality(Zombies)

\* Every vault is watched by something that ends it: while it starts or stops
\* by its timer or that timer's queued handler, while it runs by a connection
\* whose close notification is still to come.
EveryVaultWatched ==
  \A v \in vaults :
    IF v.status = "kRunning"
    THEN v.info.conn # None /\ conn[v.info.conn] # "idle"
    ELSE v.timer # None \/ \E kind \in TimerKind : <<v.info.label, kind>> \in expired

\* The header of VaultManager: "Writes details of all vaults to config file."
\* Every vault the manager supervises is listed in the file.
ConfigListsEveryVault == config # None => GetAll(vaults) \subseteq config

-----------------------------------------------------------------------------
(* Liveness *)

InStatus(l, status) == \E v \in vaults : v.info.label = l /\ v.status = status

\* A vault that does not connect, or does not stop, is not waited for forever.
TransitionEnds == \A l \in Labels, status \in {"kStarting", "kStopping"} :
  InStatus(l, status) ~> (crashed \/ ~InStatus(l, status))

DeadVault(l) == \E v \in vaults : v.info.label = l /\ proc[v.pid] = "zombie"

\* The exit of a vault is noticed even when its SIGCHLD is merged into another
\* one or the signals are already cancelled.
DeadVaultNoticed == \A l \in Labels : DeadVault(l) ~> (crashed \/ ~DeadVault(l))

\* After a shutdown no vault is left and none comes back, restarts already
\* posted and requests already read included: ~ProcessManager asserts that
\* vaults_ is empty.
ShutdownDrains ==
  (stop = "stopped") ~> [](crashed \/ (vaults = {} /\ posts = {}))

-----------------------------------------------------------------------------
(* The abstract supervisor *)

Labelled(l) == {v \in vaults : v.info.label = l}

StateOf(l) == IF Labelled(l) = {} THEN "absent"
              ELSE (CHOOSE v \in Labelled(l) : TRUE).status

RestartsOf(l) == IF Labelled(l) = {} THEN 0
                 ELSE (CHOOSE v \in Labelled(l) : TRUE).restarts

Abstract == INSTANCE Supervisor WITH
  MaxRestarts <- MaxVaultRestarts,
  state <- [l \in Labels |-> StateOf(l)],
  restarts <- [l \in Labels |-> RestartsOf(l)],
  promised <- [l \in Labels |->
                 {r.restarts : r \in {q \in posts : q.info.label = l}}]

\* The manager keeps the supervisor's promises: whichever of SIGCHLD, closed
\* connection, time-out and shutdown ends a vault, it is promised one restart
\* unless it was told to stop or has had kMaxVaultRestarts, and a vault starts
\* only on a request, on a promise or in place of one that moved.
ImplementsSupervisor == Abstract!Spec

=============================================================================
