# The MaidSafe vault manager in TLA+

This project specifies MaidSafe-Private's *vault manager*: the daemon that
starts, supervises and stops vault processes, its clients' library, the library
inside each vault, and the tool and test helper that set up a local network. The
specifications are checked with TLC on small instances; the safety properties and
the refinements are also proved with TLAPS for every value of the constants.

All source paths below are relative to `src/src/maidsafe/vault_manager/`.

## 1. Inventory

| Component | State | Operations | What is hard |
|---|---|---|---|
| `ProcessManager` (`process_manager.cc`) | `vaults_` (children: info, status, pid, timer, `on_exit`, restart count), `signal_set_`, posted restarts | `AddProcess`, `HandleVaultStarted`, `AssignOwner`, `StopProcess`, `HandleConnectionClosed`, `OnProcessExit`, signal handler, `StopAll`, `StopAllWithInterval` | four sources report the same exit (SIGCHLD, closed connection, time-out, stop); queued timer handlers survive `cancel()`; SIGCHLDs merge; one thread that a blocking `wait()` could stall; `StopAllWithInterval` runs on a second thread without a lock |
| `VaultManager` (`vault_manager.cc`) | the parts below, `network_stable_` | one handler per message, `HandleNewConnection`, `HandleConnectionClosed`, `TearDownWithInterval`, destructor | handlers see connections, children and clients that have gone meanwhile; requests fail half-way |
| `NewConnections`, `ClientConnections` | connection tables with a timer per unidentified entry | `Add`, `Remove`, `Validate`, `FindValidated`, `GetAll`, `CloseAll` | a connection moves between four tables while timers, closes and a shutdown race |
| `ConfigFile`, `ConfigFileHandler` | the file, `kSymmKeyAndIV_` | create, read, write; `save`, `load` | stops and crashes between and inside writes |
| `vault_manager_main.cc` | `g_shutdown_promise`, handlers, exit code, service status | options, constructor, `signal`, `ShutDownVaultManager`; on Windows console events and the service | signals before, between and after the handlers are installed; a promise set twice |
| `ClientInterface` (`client_interface.cc`, `rpc_helper.h`) | `on_challenge_`, `ongoing_vault_requests_`, promises, timers, `network_stable_` | constructor, `StartVault`, `TakeOwnership`, `WaitForStableNetwork`, `MarkNetworkAsStable`, message handlers, destructor | send before register; answers against queued time-outs; equal labels; user threads against the io thread |
| `VaultInterface` (`vault_interface.cc`) | `on_vault_started_response_`, `exit_code_promise_` | constructor, `WaitForExit`, message handlers | a time-out against a late response; two events set one promise |
| `LocalNetworkController`, `Command`s (`tools/`) | the current command, `script_commands`, `entered_commands`, the choices made | one command per question; quit; exceptions out of `HandleChoice` | which question follows depends on the disk and the build; every exception is a way out; 65536 in 16 bits |
| `StartNetwork`, `ConnectToNetwork`, `ConnectToVaultManager` (`tools/actions/`) | two promises shared by two threads, the vaults started, the keys stored | zero-state nodes, first two vaults, remaining vaults, key storage, `MarkNetworkAsStable` | two threads that wait for each other; one of many vaults or keys fails |
| `network_test_helper.cc` | attempts, its connection | look for a manager, fill the root directory, run the tool with a script, wait until stable | the script must match the questions |
| `utils.cc`, `config.cc`, `vault_config.cc`, `messages/` | constants, environment | paths, ports, serialisation | little: data and set-up |

How they interact. A client connects over TCP, is challenged and validated
(`NewConnections`, then `ClientConnections`), and asks `VaultManager` to start
a vault or to take one over. `VaultManager` calls `ProcessManager::AddProcess`,
which launches a process with a start timer, and writes the config file. The
process connects back, says `VaultStarted` with its pid, leaves
`NewConnections` and becomes a running child; the owner, if connected, is told.
When the process dies, its connection closes or a timer fires, `OnProcessExit`
erases the child and posts a restart, up to `kMaxVaultRestarts`. The tool makes a
`VaultManager` and a `ClientInterface` in its own process; the helper runs the
tool and connects to the manager inside it.

Concurrency. Every asio service has one thread, so a handler is atomic with
respect to the others of its service. What interleaves is the order of the
handlers, the outside world (processes, sockets, signals, clients) and the few
other threads: `TearDownWithInterval`'s, a client's callers, a vault's main
thread, the tool's zero-state thread.

## 2. Modules

| Module | Models | Used by |
|---|---|---|
| `Supervisor` | abstract: what is promised of each vault | `ProcessManager` implements it |
| `ProcessManager` | the supervisor and the `VaultManager` handlers that drive it, processes, sockets and signals | `MCProcessManager`, `ProcessManagerProofs` |
| `ConnectionLifecycle` | abstract: what is promised of each connection | `Connections` implements it |
| `Connections` | the connection tables and the `VaultManager` handlers that move connections | `ConnectionsProofs` |
| `ConfigFile` | the config file across starts of the manager | `VaultManagerMain`, `ConfigFileProofs` |
| `VaultManagerMain` | `main`, its signals and its ends, composed with `ConfigFile` and the vault processes | `VaultManagerMainProofs` |
| `ClientInterface` | a client's hand-shake, requests, promises and timers | `VaultRequests`, `MCClientInterface`, `ClientInterfaceProofs` |
| `VaultRequests` | a client composed with the handlers that answer it | `MCVaultRequests`, `VaultRequestsProofs` |
| `VaultInterface` | a vault's end of the connection | `VaultInterfaceProofs` |
| `LocalNetworkController` | the tool's `main` and commands | `StartNetwork` |
| `StartNetwork` | what the last command does | `NetworkTestHelper` |
| `NetworkTestHelper` | the helper, composed with the tool | `MCNetworkTool`, `NetworkToolProofs` |

`PROJECT.json` maps each definition to the lines it models. Operators whose
comment starts with "Mutant:" are plausible slips in that code; no
specification uses them, and each breaks one property when it takes the place
of the definition it varies.

### ProcessManager and Supervisor

`vaults` is `vaults_` as a set of child records; `posts` the restarts posted to
the io_service; `expired` the timer handlers that are queued with success, which
`cancel()` cannot call back and which know their vault by label only; `config`
the labels last written to the config file, `None` when the write failed: the
request then failed too, but its vault runs, or has its new owner. `proc` and
`conn` are the operating system's processes and sockets, `hello` the connections
in `new_connections_` of processes whose `VaultStarted` is still to come. A
SIGCHLD is pending in the kernel (`sigPending`, where signals merge), counted in
asio (`undelivered`) or queued as a handler (`sigWait = "queued"`).

One action per handler: `HandleStartVaultRequest`, `CreateFirstVault`,
`ChangeChunkstorePath` and `AssignOwner` (take ownership), `HandleVaultStarted`,
`HandleConnectionClosed`, `TimerHandler`, `RunRestart`, `SignalHandler`,
`StopAll`, and the steps of `TearDownWithInterval`'s thread. `OnProcessExit` is
the whole of the method: terminate, close, erase, `on_exit`, post the restart.

`Supervisor` knows nothing of timers, signals and sockets: a vault appears
because a client asked, because a restart was promised, or in the place of one
that was told to move; one that ended when told to stop is promised no restart,
and none more than `MaxRestarts` in a row. `ImplementsSupervisor` maps each
label to the status and restart count of its child, and `promised` to the posted
restarts.

Decisions:

- The handlers' queues are sets, so any order is possible, except that a restart
  already posted runs before the handler of an event noticed after it
  (`Notice`): the io_service is a queue.
- `Send` through a null connection and the data race of
  `StopAllWithInterval` are undefined behaviour: the model goes to `crashed`
  as one of the outcomes and stays there.
- `tcp::Connection::Close` (outside `src/`) is taken to close asynchronously
  and to notify once. A synchronous notification would re-enter
  `OnProcessExit` with an iterator in hand.
- A process id is not handed out again while a connection of its former process
  is open (`PidFree`), and SIGCHLD is sent on exit only.
- The vault's reaction to a shutdown request is abstracted: it may exit at any
  time, or never. The time-out of an unidentified connection is a case of
  `ConnectionLost`.
- Not in the model: the Windows branch, `max_disk_usage` other than whether
  it changed, process arguments, logging.

### Connections and ConnectionLifecycle

The four places a connection can be in (`new`, `unvalidated`, `clients`,
`vaults`), the timers of the first two (`armed`, and `due` when the handler is
queued), and the network-stable exchange. `on_exit` holds the functors of
`ChangeChunkstorePath`, each with the connection that its copy of `VaultInfo`
has: when the child ends, the functor adds its successor with that connection,
closed or not, and the successor keeps it (`stale`) until its own
`VaultStarted`. A message is handled at any time, even after the close
notification of its connection, so nothing rests on the order in which the TCP
layer delivers messages and closes; the one assumption on peers is that a client
sends `ValidateConnectionRequest` before `NetworkStableRequest`, as its
constructor does. `CloseAll` is three steps (new, unvalidated, validated)
because `TearDownWithInterval` runs it beside the handlers. `ProcessManager` is
seen through the set of its children's connections; `tear` is the snapshot of
them that `StopAllWithInterval` works through. No connection is accepted after
`StopListening`.

`ConnectionLifecycle` is the order a reader of the headers expects: new, then
unvalidated and client, or vault, then gone for good; and beside it what a
directory change does: a vault's connection may be *captured* by the functor and
*carried* by the successor, and is gone for good only when neither has it. One
handler may move several connections, each along its own way. `ImplementsLifecycle`
shows that no late message or close brings a connection back or changes its role,
and that a directory change puts back no connection but the one its vault had.

### ConfigFile and VaultManagerMain

`Save` and `Load` are what `ConfigFile::save` and `load` do; `Load` returns no
vaults because the code drops each record. The manager stops or crashes between
any two steps, and `WriteFile` (outside `src/`) is taken to overwrite in
place, so that a crash or a failure inside it leaves a cut file that no later start
can parse.

`VaultManagerMain` puts `main` around it, in its four builds (Unix or Windows,
`TESTING` or not): options, construction, the installation of handlers, the wait
on the promise, the destructor and the exit code. On Unix the two calls of
`signal` follow the construction, and a signal that has no handler yet kills the
process; on a Windows console the handler is there first; the service registers
its own. A second handled event sets the promise again, whose exception either
reaches `main`'s catch clause or ends the process, depending on the thread that
takes it. `procs` holds the vault processes, each with the start that launched
it: they outlive a manager that dies, until they notice. The destructor's vaults
go one by one (`StopVault`), beside a request that was read before, and
`AsioService::Stop` returns when none is left; whether it ever does is not
assumed, because of the re-armed signal set (`process_manager.cc:315`). Of Windows
(outside `src/`) it is assumed that controls are sent to a service that reported
`SERVICE_RUNNING`, and that the dispatcher returns once it reported
`SERVICE_STOPPED`, or at once when it cannot reach the control manager. The
service's `main` returns zero on each of these ways, also after an exception in
`ServiceMain` and with vaults left, since the stop is reported before the
destructor has run; `ZeroMeansStopped` is therefore about the other three builds.

### ClientInterface, VaultInterface

Both rest on `PromiseAndTimer`: a promise set once, and a timer whose handler
may already be queued when it is cancelled. In `ClientInterface` the request
is sent before the callback or map entry exists, so `ManagerChallenges` and
`ManagerAnswers` may come first; in `VaultInterface` the callback is set
first. The manager answers late, repeatedly (a restarted vault is announced
again) or never; a network-stable response may come while the constructor still
waits. A vault's shutdown request may be handled after the close of its connection.
The 30-second timer does not expire while the call that
creates it is still running. `AsioService`'s destructor (outside `src/`) waits
for pending timers, as the comment in `client_interface.h` implies.

### VaultRequests

`ClientInterface` with its arbitrary environment replaced by the manager's
handlers: `HandleValidateConnectionRequest`, `HandleChallengeResponse`,
`HandleStartVaultRequest`, `HandleTakeOwnershipRequest`, `HandleVaultStarted` and
the forwarding of log lines, with a connection that may be lost, vaults that end
and come back, and other clients that take them over. A request may also fail after
`AddProcess` or `AssignOwner` has done its work: the vault runs, or has its new
owner, and the client is sent an error. `sent` is what the manager sent in the last
step. A response has the label the code puts there: the
request's, or none where `vault_info` was not filled in or had been moved from.
`ImplementsClient` shows that this manager is one of the environments
`ClientInterface` allows, so that what is proved there holds here. `StartAnswered`
is about the composition only: a `StartVault` future is not set by an answer to
another request, nor by the announcement of a vault that was restarted unasked.

### LocalNetworkController, StartNetwork, NetworkTestHelper

The wizard is the variable `command`; each command is one action, `Ask`, which
takes a line from the script or from the user, converts and validates it, and
hands the value to the command's `HandleChoice`. The busy commands
(`StartNetwork`, `ConnectToNetwork`, `ConnectToVaultManager`) run in steps
(`stage`) beside the zero-state thread (`zero`), and each way a step can throw
leads through the catch clause of `StartNetwork` to `main`'s. The helper looks
for a manager, launches the tool with `Script`, and tries again.

Decisions:

- Tool processes run one at a time, and no other manager is on the machine: the
  helper starts no tool beside a user's (`StartTool`), and the manager gets the
  first port it tries (`MakeVaultManager`).
- The lines of a user come from a small set per command (`MCLines`) with valid
  and refused ones. Titles and instructions are left out.
- A vault start is the outcome of its future: a value, a time-out, another
  error, or an exception before there is a future. `WriteLocalNetworkBootstrapFile`,
  `PrepareBootstrapFile`, `ZeroStateJoin`, key storage, `remove_all`,
  `create_directories` and reading from a failed `std::cin` succeed or throw; the
  removal of the bootstrap file in the destructor may fail unnoticed.
- `timed_out` out of any `HandleChoice` is taken by `main` for the request to tear
  down; if there is no manager that is a null dereference, and the process
  crashes.
- `ChooseTest::HandleChoice` reads its member after it has replaced, and so
  destroyed, itself: the value read may be the choice or something else.
- `stage = "marked"` is the time between `MarkNetworkAsStable`'s message and its
  handling.
- The file system is what the commands look at: whether the root directory
  exists, is a directory or a file, has contents or not (`fs::is_empty` tells the
  same of both, so that a file with contents is cleared like a directory), and
  whether the two files exist.

## 3. Runs

| Run | Checks | Shows |
|---|---|---|
| `pm_safety` | `TypeOK`, `NoConflict`, `PidsOurs`, `NoOrphans`, `WaitNeverBlocks`, `EveryVaultWatched`; `ImplementsSupervisor` | whatever order timers, signals, closes, restarts, directory changes and shutdown take, two vaults never share label, identity, directory or connection (two null connections count as equal), a child's pid is its own and unreaped, no running process is without a child, `wait()` has a zombie for each signal, each child has something that will end it, and vaults appear and come back only as `Supervisor` allows |
| `pm_liveness` | `TransitionEnds`, `DeadVaultNoticed`, `ShutdownDrains` | nothing is waited for forever; a merged or cancelled SIGCHLD does not hide an exit; after a shutdown the supervisor empties and stays empty |
| `pm_config_file` (violation) | `ConfigListsEveryVault` | a file written while a vault waits for its restart omits that vault until the next write |
| `connections` | `TablesDisjoint`, `ClosedForgotten`, `UnidentifiedWatched`, `ShutdownClosesAll`, `StableClientsTold`; `EventuallyIdentified`, `TablesEmptied`, `ImplementsLifecycle` | the tables stay consistent through every move, late message and shutdown; no connection stays unidentified; none is kept when closed, but for the one the successor of a moved vault carries; the destructors' assertions hold in the end; every connection keeps to its life cycle |
| `vault_manager_main` | `ZeroMeansStopped`; `KeyKept`, `AskedManagerStops` | outside the service zero is returned only after an orderly stop, a manager that was told to stop begins to, and the file's key survives stops and crashes |
| `config_restart` (violation) | `RestartsListedVaults` | listed vaults are not restarted |
| `client` | `OngoingUnresolved`, `SoleRequestFindable`; `OutcomeSetOnce`, `FuturesReady`, `ConstructorReturns` | outcomes are set once; the map holds waiting requests only; no caller waits forever |
| `vault_requests` | `StartAnswered`; `ImplementsClient` | a `StartVault` future is set by its own request's outcome only, and the manager is an environment the client was specified for |
| `error_answers` (violation) | `RefusalsNamed` | a refused request is answered without its label, so its future waits for the time-out |
| `vault_side` | `LostConnectionEndsWait`, `ConstructorReturns` | the vault's constructor ends, and so does its wait once the manager is lost |
| `vault_assert` (violation) | `ResponseFindsCallback` | a late response reaches `assert(false)` |
| `network_tool` | `ScriptInSync`, `FirstTwoServed`, `StableMeansComplete`, `PortUsable`; `StartsOnEmptyRoot`, `StartNetworkEnds`, `ScriptNeedsNobody` | a network is called stable only when every vault after the first two runs and the keys are stored, `StartNetwork`'s threads never wait for each other forever, the script stays in step with the questions, and every way through the questions ends on an empty root and a usable port |

Deadlock is not checked: a manager that has shut down, a client that was
destroyed, a crashed process and a tool that has ended have nothing left to do.

### Bounds

- `pm_safety`: two labels, directories, identities, pids and connections, one
  restart and two client requests. With one label in use every hazard about
  "the vault that has this label now" is about successive processes of one
  vault; with both, a restart or a directory change of one vault meets an
  unconnected other one. Two pids let a restarted process live beside its
  unreaped predecessor, two connections let an old one close after the new one
  opened. Interchangeable values are treated as symmetric; the run has no
  liveness property.
- `pm_liveness`: one label, one connection object and one request, without
  symmetry.
- `MaxRequests` bounds client requests only; timers, exits, lost connections and
  signals are not bounded, restarts by `MaxVaultRestarts` as in the code
  (5 there, 1 here).
- `connections`: two connections, so that one moves while the other is closed
  or told; the invariants treat connections one at a time, and `TablesSafety`
  proves them for any number.
- `config_restart`, `vault_manager_main`: three starts, so that a third one meets
  what the second left of the first; two keys; ports at both ends of the accepted
  range.
- `client`: two requests with one label (`TakeOwnership` twice) and one
  with its own (`StartVault`). `vault_requests` and `error_answers`: one request of
  each kind; the vault to take over may exist already and belong to anybody.
- `vault_side`: two callers of `WaitForExit`; `vault_assert`: one.
- `network_tool`: two tool processes, so that the second meets the directory and
  the bootstrap file of the first; the code's own 16 vaults for a new network and
  1 or 2 for an existing one; the default port, 5583 (the script's), 1024
  (refused) and 65536.

### Fairness

Weak fairness for what the program or the operating system surely does: queued
handlers run, armed timers expire, a pending signal is delivered, a thread
inside a constructor (none waits for a peer without a timer), `AddVaultRequest`,
`TearDownWithInterval` or `main` goes on, the tool's two threads go on. The last
takes from elsewhere that the future of a vault start becomes ready
(`FuturesReady`) and that `ZeroStateJoin` (outside `src/`) returns; the tool's
end stands for leaving the loop of its `main`. That the destructor of
`VaultManager` ends is assumed nowhere: `ShutdownDrains` empties the supervisor,
but the io_service may keep its signal set. Of `main` only the constructor, the
calls of `signal` and the return from `get()` are fair. The wizard is fair only
while it has a script. None for peers and users: vaults need not connect, answer
or exit, clients need not identify themselves, the manager need not answer,
nobody need type or send a signal.

## 4. Theorems

Every safety invariant, action property and refinement that a passing run checks
on a small instance is proved for every value of the constants; the property is in
brackets where the theorem states one.

| Theorem | Says |
|---|---|
| `ProcessManagerProofs!SupervisorSafety` | `Spec => [](TypeOK /\ NoConflict /\ PidsOurs /\ NoOrphans /\ EveryVaultWatched)` |
| `SupervisorTypes`, `PidsAreOurs`, `NoOrphanedProcess`, `VaultsAreWatched` | its parts, each as a theorem (`TypeOK`, `PidsOurs`, `NoOrphans`, `EveryVaultWatched`) |
| `WaitSafety` (`WaitNeverBlocks`) | there is a zombie for every SIGCHLD still to be handled |
| `SupervisorImplemented` (`ImplementsSupervisor`) | the manager implements `Supervisor` |
| `ConnectionsProofs!TablesSafety` | `Spec => []` of `TypeOK` and the five invariants of `connections` |
| `OneTableAtMost`, `ClosedStaysForgotten`, `UnidentifiedIsWatched`, `AskedClientsTold` | its parts (`TablesDisjoint`, `ClosedForgotten`, `UnidentifiedWatched`, `StableClientsTold`) |
| `TablesImplementLifecycle` (`ImplementsLifecycle`) | the tables implement `ConnectionLifecycle` |
| `ConfigFileProofs!KeyIsKept` (`KeyKept`) | the key of an intact file does not change |
| `VaultManagerMainProofs!ZeroReturned` (`ZeroMeansStopped`) | outside the service, zero is returned only after an orderly stop |
| `MainKeepsKey` (`KeyKept`) | the key is kept under `main` too |
| `ClientInterfaceProofs!ClientSafety` | `Spec => []` of `TypeOK`, the two invariants of `client`, and that a waiting request has its timer |
| `OngoingAreUnresolved` (`OngoingUnresolved`) | one of its parts |
| `OutcomesSetOnce` (`OutcomeSetOnce`) | no future is set twice |
| `VaultRequestsProofs!StartIsAnswered` (`StartAnswered`) | a `StartVault` future gets an answer only after its own request was handled |
| `ManagerImplementsEnvironment` (`ImplementsClient`) | the manager's handlers are an environment `ClientInterface` allows |
| `ComposedClientSafety` | so the client's theorems hold of the client at this manager |
| `VaultInterfaceProofs!VaultNeverStranded` | a lost connection has set the exit code, and a constructor that waits has its timer |
| `NetworkToolProofs!ToolSafety` | `Spec => []ToolInv`, from which the next six follow |
| `ScriptStaysInSync` (`ScriptInSync`) | each line of the script is read by the command it was written for |
| `ZeroStateServes` (`FirstTwoServed`) | the zero-state nodes are up while the first two vaults start; they are down, and this launch's bootstrap file is there, before the others do |
| `ThreadsNeverStuck` | neither thread of `StartNetwork` waits for a promise that the other can no longer set |
| `StableNetworkComplete` (`StableMeansComplete`) | stable means that every vault but the first two runs and the keys are stored, for each count the wizard lets through |
| `ManagerPortUsable` (`PortUsable`) | the cast to 16 bits gives a port that needs no privilege |
| `ManagerOnEmptyRoot` (`StartsOnEmptyRoot`) | the manager is made only in an empty directory |

Assumptions used: `ConstantsAssumption` (natural bounds, `None` outside the
other sets, finitely many pids), `MaxStartsAssumption` (a natural bound),
`LabelsAssumption` (requests have labels, and `None` is no request),
`StartingAssumption` (no two `StartVault` requests have one label: the client
generates it at random) and `WaitersAssumption` (`None` is no exit code);
nothing else. TLC evaluates them on the runs.

**The supervisor.** The inductive invariant `SupInv` adds two facts to the stated
ones: a connection that waits for `VaultStarted` is not yet a child's, in the table
or in a functor (`HelloFresh`), and a posted restart carries no connection
(`PostsUnconnected`). The first is needed because `HandleVaultStarted` gives a
child a connection that no other child may have; the second because a restart
may only conflict through null. The proof first shows what `AddProcess`,
`OnProcessExit` and the replacement of a child do to the set of children
(`AddProcessSound`, `OnProcessExitSound`, `ReplaceSound`), and then treats each
action as one of these steps. `WaitSafety` counts: each step that adds a signal
adds a zombie, and the signal handler takes one of each (`ExitZombies`,
`SignalCount`).

**Its refinement.** `ImplementsSupervisor` maps a label to *the* child that has
it, so it rests on `NoConflict`: in a table without conflicts, rewriting, adding
or removing a child is seen at its own label only (`ReplaceSeen`, `AddSeen`,
`RemoveSeen`). `RefInv` adds what `SupInv` does not say: the functor of
`ChangeChunkstorePath` keeps the label of its vault, or else a vault would end
at one label and appear at another in one step, and the count of a posted
restart is between 1 and `MaxVaultRestarts`, or else it would keep a promise
that was never made. Each handler is then one of six abstract steps:
`RequestSeen` (a client asks), `RewriteSeen` (runs, or is told to stop),
`ExitSeen`, `RestartSeen`, `StopAllSeen`, or a stutter. When two posts have the
same label and count, running one of them leaves the promise: `RestartSeen` has
both cases.

**The tables.** `ShutdownClosesAll` is not inductive: `PassedClosed` says that
each table the shutdown has passed is without open connections, which holds
because connections only move from tables closed earlier to tables closed later.
`StableClientsTold` needs `AskedIdentified`: no connection still in
`new_connections_` has asked. The directory change adds `CapturedWereVaults`: a
functor belongs to a child and holds a connection that once was a vault's:
without it the successor could carry a client's connection, which would then be
in two tables. `TablesImplementLifecycle` uses the same invariant: a
connection's place is a function of the tables and functors, and each step moves
every connection to a successor of its place or leaves it.

**`main`.** `StopInv`: the promise is set, and the destructor reached, only
after an event that asks for it, and every process of the last manager is one of
its vaults, so that none is left when the destructor's wait ends. `KeyInv`, that
a running manager holds the key of the file, is inductive for `ConfigFile` alone
and for `main` around it.

**The client and the manager's answers.** `ClientInv` says that map entries have
returned and wait under their own label, that a request not yet registered is
untouched, and that a waiting one has its timer, the safety half of
`FuturesReady`. `ManagerInv` says that the manager has validated only a client
whose constructor got the challenge; with it each response is one
`ClientInterface` allows, so the composition refines the client, and its theorems
carry over. `StartAnswered` needs `StartInv`: before the manager has handled a
`StartVault` request no vault has its label and no answer with it is on the way.

**The vault.** `VaultInv` is the conjunction that `VaultNeverStranded` states: the
safety half of the two liveness properties of `vault_side`.

**The tool.** `ToolInv` has six parts: the thread's `stage` fits the command
(`StageInv`); the zero-state thread is let go only after both vaults were
started or something failed, and joined only after it was let go (`ZeroInv`);
the loops have started every vault below the next one (`CountInv`, without which
completeness is not inductive); the port was let through by the question, so
that only 65536 wraps (`PortInv`); the root directory is empty from its question
until the manager is made (`RootInv`); and the lines left of the script are
those for the commands to come (`ScriptInv`). One lemma per command and per step
of an action shows that it keeps `ToolInv`.

**Only model-checked:** liveness - `TransitionEnds`, `DeadVaultNoticed`,
`ShutdownDrains`, `EventuallyIdentified`, `TablesEmptied`, `AskedManagerStops`,
`FuturesReady`, `ConstructorReturns`, `LostConnectionEndsWait`,
`StartNetworkEnds` and `ScriptNeedsNobody` - since the prover has no `ENABLED`
and so no fairness. Of several of them the safety half is proved: something is
armed, queued or set that will end the wait (`VaultsAreWatched`,
`UnidentifiedIsWatched`, `ClientSafety`, `VaultNeverStranded`,
`ThreadsNeverStuck`). The violated properties of section 5 have their
counterexamples only.

Worth proving next: the safety halves of `ShutdownDrains` and
`AskedManagerStops`; that a vault restarted `MaxVaultRestarts` times in a row is
not promised another restart, as a theorem of `Supervisor` carried over by
`SupervisorImplemented`.

## 5. Findings

1. `config_file.h:64`: `load` drops every record, so no listed vault is ever
   restarted and the list is overwritten at the next start
   (`vault_manager.h:51` says otherwise). Run `config_restart`.
2. `process_manager.cc:521`: a restart does not write the config file, which may
   have been written without the vault meanwhile (`vault_manager.h:52`). Run
   `pm_config_file`.
3. `vault_interface.cc:98`: a response after the time-out reaches
   `assert(false)`. Run `vault_assert`.
4. `vault_manager.cc:292` and `328`: the error response to a request has the
   label of a `vault_info` that was moved from, or of one that another hides, so
   the client cannot match it (`vault_manager.h:53`: "responds to client and
   vault requests"). Run `error_answers`.

Smaller disagreements and oddities, without a run of their own:

- `vault_interface.cc:63`: `WaitForExit` throws when it is called a second time;
  `vault_interface.h:56` says "Doesn't throw."
- `tools/main.cc:44`: every `timed_out` error is taken for the request to quit with
  an interval, and `vault_manager` is null after "connect to running".
- `tools/commands/choose_test.cc:47`: the command reads a member after destroying
  itself.
- `network_test_helper.cc:117`: five attempts follow each other at once, though
  the comment says that the manager "won't be immediately available".
- `client_interface.cc:77`: a lost connection is not noticed (a FIXME), so the
  helper waits forever if the tool ends first.
- The helper's script has no answer for the question that a `USE_VLOGGING` build
  asks; `ScriptInSync` is stated for builds without it.
- `client_interface.cc:72`: the port search compares a 16-bit port with the
  largest 16-bit value and wraps instead of stopping.
- `tools/local_network_controller.cc:92`: the removal of the bootstrap file may fail
  ("not a problem if it fails") and the tool still returns success, while
  `tools/actions/start_network.cc:277` says "This file is deleted if the tool exits
  normally." `FirstTwoServed` shows that a later tool does not use the file left.
- `vault_manager_main.cc:205`: the service's `main` does not look at what
  `StartServiceCtrlDispatcher` returns, and returns zero on every way out.
- `process_manager.cc:315`: a SIGCHLD handler that runs after `StopAll` waits for
  signals again, so that the io_service may never run out of work.
- `vault_manager.cc:335`: the functor of a directory change starts the vault with its
  predecessor's connection, whose close then ends the new vault.
- `vault_manager_main.cc:76` and `111`: the service reports that it has stopped
  before the manager's destructor has stopped the vaults.
- `vault_manager.cc:101`: the listener accepts before `new_connections_` is
  constructed.
- `process_manager.cc:243`: `VaultStarted` of an unknown process throws after the
  connection has left `new_connections_`: it stays open in no table.
- `tools/` is commented out of the build, and `start_network.cc:65` does not
  compile as it stands; the model takes the evident reading.

## 6. Not modelled

- Windows in `ProcessManager`: the process handle in place of SIGCHLD.
- `messages/`: field-by-field serialisation without control; a message is the
  input of its handler.
- The three functions for tests in `VaultInterface`, and paths, key files and the
  vault's test configuration in `utils.cc`, `config.cc` and `vault_config.cc`:
  data without shared state.
- A second `WaitForStableNetwork` on one `ClientInterface`, which throws.
- The look-up of an owner by name among several connections of one client
  (`client_connections.cc:118`).
- A second manager or tool on the same machine, or anybody else who changes the root
  directory between its question and its use, end of file on the tool's
  standard input, and a `vault_count` close to the largest integer.
- Routing, the zero-state nodes' protocol and key storage: outside `src/`.
- One module with all of `VaultManager`: its handlers are split by the state they
  touch (`ProcessManager`, `Connections`, `VaultRequests`), because the product is
  out of TLC's reach.
