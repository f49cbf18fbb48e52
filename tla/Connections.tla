---------------------------- MODULE Connections ----------------------------
(***************************************************************************)
(* The tables in which VaultManager keeps its TCP connections: a           *)
(* connection starts in NewConnections, and a message moves it to the      *)
(* unvalidated and then the validated clients of ClientConnections, or to  *)
(* a child of ProcessManager.  Handlers run one at a time on the           *)
(* io_service's thread; TearDownWithInterval closes the tables from        *)
(* another thread.  A message is handled at any time after its connection  *)
(* was accepted, also after the connection's close notification.           *)
(***************************************************************************)
CONSTANT Conns   \* TCP connection objects, each used once

VARIABLES
  socket,        \* state of each connection
  new,           \* NewConnections::connections_
  unvalidated,   \* ClientConnections::unvalidated_clients_
  clients,       \* ClientConnections::clients_
  vaults,        \* connections of ProcessManager's children
  on_exit,       \* <<c, d>>: the child with c has ChangeChunkstorePath's functor,
                 \*         whose VaultInfo was copied when the child had d
  stale,         \* connections of children such a functor added
  tear,          \* connections StopAllWithInterval has still to stop
  armed,         \* connections whose table entry has a running timer
  due,           \* connections with an expired timer's handler in the queue
  stable,        \* network_stable_
  asked,         \* connections whose NetworkStableRequest was handled
  told,          \* connections NetworkStableResponse was sent to
  phase,         \* progress of the shutdown
  crashed        \* outcome of the unlocked access to a table

children == <<vaults, on_exit, stale>>
tables == <<new, unvalidated, clients, children>>
timers == <<armed, due>>
stability == <<stable, asked, told>>
shutdown == <<phase, tear>>
vars == <<socket, tables, timers, stability, shutdown, crashed>>

Phases == {"running", "first", "second", "third", "fourth", "done"}

TypeOK ==
  /\ socket \in [Conns -> {"unused", "open", "closing", "closed"}]
  /\ new \subseteq Conns /\ unvalidated \subseteq Conns
  /\ clients \subseteq Conns /\ vaults \subseteq Conns
  /\ on_exit \subseteq Conns \X Conns /\ stale \subseteq Conns /\ tear \subseteq Conns
  /\ armed \subseteq Conns /\ due \subseteq Conns
  /\ stable \in BOOLEAN /\ asked \subseteq Conns /\ told \subseteq Conns
  /\ phase \in Phases /\ crashed \in BOOLEAN

Init ==
  /\ socket = [c \in Conns |-> "unused"]
  /\ new = {} /\ unvalidated = {} /\ clients = {} /\ vaults = {}
  /\ on_exit = {} /\ stale = {} /\ tear = {}
  /\ armed = {} /\ due = {}
  /\ stable = FALSE /\ asked = {} /\ told = {}
  /\ phase = "running" /\ crashed = FALSE

\* Close() on every open connection of cs; its one close notification follows.
Close(cs) == socket' = [c \in Conns |-> IF c \in cs /\ socket[c] = "open"
                                        THEN "closing" ELSE socket[c]]

-----------------------------------------------------------------------------
(* New connections *)

\* NewConnections::Add, with a timer.
AddNew(c) ==
  /\ new' = new \cup {c}
  /\ armed' = armed \cup {c}

\* Add, then Start.
HandleNewConnection(c) ==
  /\ ~crashed /\ phase = "running" /\ socket[c] = "unused"
  /\ socket' = [socket EXCEPT ![c] = "open"]
  /\ AddNew(c)
  /\ UNCHANGED <<unvalidated, clients, children, due, stability, shutdown, crashed>>

\* A message of c is handled.
Received(c) == ~crashed /\ socket[c] # "unused"

\* Mutant: a connection that is not in the table is passed over in silence.
RemoveIfPresent(c) == new' = new \ {c}

\* RemoveFromNewConnections throws unless c is there: then nothing changes.
RemoveFromNewConnections(c) ==
  /\ c \in new
  /\ new' = new \ {c}

\* Mutant: the entry of unvalidated_clients_ has no timer.
ValidateWithoutTimer(c) ==
  /\ Received(c)
  /\ RemoveFromNewConnections(c)
  /\ unvalidated' = unvalidated \cup {c}
  /\ armed' = armed \ {c}
  /\ UNCHANGED <<socket, clients, children, due, stability, shutdown, crashed>>

\* ClientConnections::Add.  Erasing the entry of connections_ destroyed its
\* timer, and the new entry has one of its own.
HandleValidateConnectionRequest(c) ==
  /\ Received(c)
  /\ RemoveFromNewConnections(c)
  /\ unvalidated' = unvalidated \cup {c}
  /\ armed' = armed \cup {c}
  /\ UNCHANGED <<socket, clients, children, due, stability, shutdown, crashed>>

\* Validate: a good signature moves the entry, a bad one closes the connection
\* and leaves the entry to the close notification.
HandleChallengeResponse(c, valid) ==
  /\ Received(c) /\ c \in unvalidated
  /\ IF valid
     THEN /\ clients' = clients \cup {c}
          /\ unvalidated' = unvalidated \ {c}
          /\ armed' = armed \ {c}
          /\ UNCHANGED socket
     ELSE Close({c}) /\ UNCHANGED <<clients, unvalidated, armed>>
  /\ UNCHANGED <<new, children, due, stability, shutdown, crashed>>

\* ProcessManager::HandleVaultStarted.  The child with the pid had no connection,
\* or has had old, which c replaces; its functor stays.  Without such a child it
\* throws, and c is in no table any more.
SetConnection(c) ==
  \/ UNCHANGED children
  \/ vaults' = vaults \cup {c} /\ UNCHANGED <<on_exit, stale>>
  \/ \E old \in vaults :
       /\ vaults' = (vaults \ {old}) \cup {c}
       /\ on_exit' = {<<IF f[1] = old THEN c ELSE f[1], f[2]>> : f \in on_exit}
       /\ stale' = stale \ {old}

\* Mutant: the connection is not taken out of new_connections_.
StartedKeepsEntry(c) ==
  /\ Received(c) /\ c \in new
  /\ SetConnection(c)
  /\ UNCHANGED <<socket, new, unvalidated, clients, timers, stability, shutdown, crashed>>

HandleVaultStarted(c) ==
  /\ Received(c)
  /\ RemoveFromNewConnections(c)
  /\ armed' = armed \ {c}
  /\ SetConnection(c)
  /\ UNCHANGED <<socket, unvalidated, clients, due, stability, shutdown, crashed>>

\* HandleTakeOwnershipRequest with another directory: StopProcess for the vault,
\* with a functor that keeps its VaultInfo.
ChangeChunkstorePath(c) ==
  /\ ~crashed /\ c \in vaults
  /\ on_exit' = {f \in on_exit : f[1] # c} \cup {<<c, c>>}
  /\ UNCHANGED <<socket, new, unvalidated, clients, vaults, stale, timers, stability,
                 shutdown, crashed>>

-----------------------------------------------------------------------------
(* Network-stable messages *)

\* Mutant: validated clients only.
GetAllValidated == clients

GetAll == clients \cup unvalidated

\* Sent by the test tool.
HandleSetNetworkAsStable ==
  /\ ~crashed
  /\ told' = told \cup GetAll
  /\ stable' = TRUE
  /\ UNCHANGED <<socket, tables, timers, asked, shutdown, crashed>>

\* Only a client asks, and its constructor sent ValidateConnectionRequest first.
HandleNetworkStableRequest(c) ==
  /\ Received(c) /\ c \notin new \cup vaults
  /\ asked' = asked \cup {c}
  /\ told' = IF stable THEN told \cup {c} ELSE told
  /\ UNCHANGED <<socket, tables, timers, stable, shutdown, crashed>>

-----------------------------------------------------------------------------
(* Ends of connections *)

\* The peer goes away or the network fails.
ConnectionLost(c) ==
  /\ ~crashed /\ socket[c] = "open"
  /\ Close({c})
  /\ UNCHANGED <<tables, timers, stability, shutdown, crashed>>

\* vaults_.erase for the child with c, and its functor: AddProcess starts a child
\* with the captured connection, unless another child has it; or it throws.
EraseChild(c) ==
  /\ on_exit' = {f \in on_exit : f[1] # c}
  /\ \/ vaults' = vaults \ {c} /\ stale' = stale \ {c}
     \/ \E d \in Conns :
          /\ <<c, d>> \in on_exit /\ d \notin vaults \ {c}
          /\ vaults' = (vaults \ {c}) \cup {d}
          /\ stale' = (stale \ {c}) \cup {d}

\* Mutant: the clients are not asked once ProcessManager had no such child.
ClosedSkipsClients(c) ==
  /\ ~crashed /\ socket[c] = "closing"
  /\ socket' = [socket EXCEPT ![c] = "closed"]
  /\ IF c \in vaults THEN EraseChild(c) ELSE UNCHANGED children
  /\ new' = new \ {c}
  /\ armed' = armed \ {c}
  /\ UNCHANGED <<clients, unvalidated, due, stability, shutdown, crashed>>

\* ClientConnections::Remove: a client, or else one that is not yet validated.
RemoveClient(c) ==
  /\ clients' = clients \ {c}
  /\ unvalidated' = IF c \in clients THEN unvalidated ELSE unvalidated \ {c}

\* The first table that has c erases it and no other is asked.
HandleConnectionClosed(c) ==
  /\ ~crashed /\ socket[c] = "closing"
  /\ socket' = [socket EXCEPT ![c] = "closed"]
  /\ IF c \in vaults
     THEN EraseChild(c) /\ UNCHANGED <<clients, unvalidated>>
     ELSE RemoveClient(c) /\ UNCHANGED children
  /\ new' = IF c \in vaults \cup clients \cup unvalidated THEN new ELSE new \ {c}
  /\ armed' = armed \cap (new' \cup unvalidated')
  /\ UNCHANGED <<due, stability, shutdown, crashed>>

\* OnProcessExit for a reason of ProcessManager's own: SIGCHLD or a timer.
OnProcessExit(c) ==
  /\ ~crashed /\ c \in vaults
  /\ Close({c})
  /\ EraseChild(c)
  /\ UNCHANGED <<new, unvalidated, clients, timers, stability, shutdown, crashed>>

\* The deadline passes: destroying the timer no longer stops its handler.
TimerExpires(c) ==
  /\ ~crashed /\ c \in armed
  /\ armed' = armed \ {c}
  /\ due' = due \cup {c}
  /\ UNCHANGED <<socket, tables, stability, shutdown, crashed>>

\* Mutant: the handler only writes its warning.
TimerOnlyLogs(c) ==
  /\ ~crashed /\ c \in due
  /\ due' = due \ {c}
  /\ UNCHANGED <<socket, tables, armed, stability, shutdown, crashed>>

\* The handler closes its connection whatever table that is in by now.
TimerHandler(c) ==
  /\ ~crashed /\ c \in due
  /\ due' = due \ {c}
  /\ Close({c})
  /\ UNCHANGED <<tables, armed, stability, shutdown, crashed>>

-----------------------------------------------------------------------------
(* Shutdown *)

\* Mutant: the validated clients are left open.
StopAllKeepsClients ==
  /\ ~crashed /\ phase = "running"
  /\ phase' = "done"
  /\ Close(new \cup unvalidated)
  /\ on_exit' = {}
  /\ UNCHANGED <<new, unvalidated, clients, vaults, stale, timers, stability, tear, crashed>>

\* The handler posted by ~VaultManager.  StopProcess takes every child's functor.
StopAll ==
  /\ ~crashed /\ phase = "running"
  /\ phase' = "done"
  /\ Close(new \cup unvalidated \cup clients)
  /\ on_exit' = {}
  /\ UNCHANGED <<new, unvalidated, clients, vaults, stale, timers, stability, tear, crashed>>

\* TearDownWithInterval's thread stops listening first.
TearDownWithInterval ==
  /\ ~crashed /\ phase = "running"
  /\ phase' = "first"
  /\ UNCHANGED <<socket, tables, timers, stability, tear, crashed>>

\* Mutant: the clients are closed before the new connections.
ClientsFirst(p) == CASE p = "first" -> clients
                     [] p = "second" -> unvalidated
                     [] OTHER -> new

\* NewConnections::CloseAll, then the two loops of ClientConnections::CloseAll.
CloseAllOf(p) == CASE p = "first" -> new
                   [] p = "second" -> unvalidated
                   [] OTHER -> clients

CloseAll ==
  /\ ~crashed /\ phase \in {"first", "second", "third"}
  /\ Close(CloseAllOf(phase))
  /\ phase' = CASE phase = "first" -> "second"
                [] phase = "second" -> "third"
                [] OTHER -> "fourth"
  /\ UNCHANGED <<tables, timers, stability, tear, crashed>>

\* The snapshot of the connections is taken, then one child after the other is
\* stopped; one whose connection is no child's any more is passed over.
StopAllWithInterval ==
  /\ ~crashed /\ phase = "fourth"
  /\ phase' = "done"
  /\ tear' = vaults
  /\ UNCHANGED <<socket, tables, timers, stability, crashed>>

StopProcess(c) ==
  /\ ~crashed /\ c \in tear
  /\ tear' = tear \ {c}
  /\ on_exit' = {f \in on_exit : f[1] # c}
  /\ UNCHANGED <<socket, new, unvalidated, clients, vaults, stale, timers, stability,
                 phase, crashed>>

\* The loops of CloseAll and the handlers share the tables without a lock; the
\* steps above are the orders the race resolves to, and this one the crash.
UnlockedTablesRace ==
  /\ ~crashed /\ phase \in {"first", "second", "third"}
  /\ CloseAllOf(phase) # {}
  /\ crashed' = TRUE
  /\ UNCHANGED <<socket, tables, timers, stability, shutdown>>

-----------------------------------------------------------------------------
Next ==
  \/ \E c \in Conns :
       \/ HandleNewConnection(c)
       \/ HandleValidateConnectionRequest(c)
       \/ \E valid \in BOOLEAN : HandleChallengeResponse(c, valid)
       \/ HandleVaultStarted(c)
       \/ ChangeChunkstorePath(c)
       \/ HandleNetworkStableRequest(c)
       \/ ConnectionLost(c)
       \/ HandleConnectionClosed(c)
       \/ OnProcessExit(c)
       \/ TimerExpires(c)
       \/ TimerHandler(c)
       \/ StopProcess(c)
  \/ HandleSetNetworkAsStable
  \/ StopAll
  \/ TearDownWithInterval
  \/ CloseAll
  \/ StopAllWithInterval
  \/ UnlockedTablesRace

Spec == Init /\ [][Next]_vars

(* Fairness: queued handlers run, armed timers expire, the thread of       *)
(* TearDownWithInterval goes on.  Nothing is assumed of the peers.         *)
Fairness ==
  /\ \A c \in Conns : /\ WF_vars(HandleConnectionClosed(c))
                      /\ WF_vars(TimerExpires(c))
                      /\ WF_vars(TimerHandler(c))
  /\ WF_vars(CloseAll)

FairSpec == Spec /\ Fairness

-----------------------------------------------------------------------------
(* Safety *)

\* A connection is in one table at most.  HandleConnectionClosed stops at the
\* first table that has it, so an entry in a second one would never go.
TablesDisjoint ==
  /\ new \cap (unvalidated \cup clients \cup vaults) = {}
  /\ unvalidated \cap (clients \cup vaults) = {}
  /\ clients \cap vaults = {}

\* Once its close notification was handled a connection is in no table, and no
\* message handled later brings it back.  The one exception is the child that a
\* directory change started: it has its predecessor's connection, closed or not,
\* until its own VaultStarted.
ClosedForgotten ==
  \A c \in new \cup unvalidated \cup clients \cup (vaults \ stale) :
    socket[c] \in {"open", "closing"}

\* A connection that has not identified or validated itself is watched by a
\* timer, by that timer's queued handler or by its close notification.
UnidentifiedWatched ==
  \A c \in new \cup unvalidated : c \in armed \cup due \/ socket[c] = "closing"

\* When CloseAll is through with the tables they hold no open connection, in
\* whichever order messages moved connections between them meanwhile.
ShutdownClosesAll ==
  phase \in {"fourth", "done"} => \A c \in new \cup unvalidated \cup clients : socket[c] # "open"

\* The comment in HandleNetworkStableRequest: a client that asked before the
\* network was stable "gets notified once stable anyway", validated or not.
StableClientsTold ==
  stable => asked \cap (unvalidated \cup clients) \subseteq told

-----------------------------------------------------------------------------
(* Liveness *)

\* No connection stays unidentified or unvalidated forever.
EventuallyIdentified == \A c \in Conns :
  (c \in new \cup unvalidated) ~> (crashed \/ c \notin new \cup unvalidated)

\* After a shutdown the tables empty for good: the destructors of NewConnections
\* and ClientConnections assert that theirs are empty.
TablesEmptied ==
  (phase = "done") ~> [](crashed \/ new \cup unvalidated \cup clients = {})

-----------------------------------------------------------------------------
(* The abstract life cycle *)

PlaceOf(c) == CASE socket[c] = "unused" -> "unused"
                [] c \in new -> "new"
                [] c \in unvalidated -> "unvalidated"
                [] c \in clients -> "client"
                [] c \in stale -> "carried"
                [] c \in vaults \ stale -> "vault"
                [] c \notin vaults /\ \E f \in on_exit : f[2] = c -> "captured"
                [] OTHER -> "gone"

Lifecycle == INSTANCE ConnectionLifecycle WITH
  place <- [c \in Conns |-> PlaceOf(c)]

\* A connection has one role and loses it once: a ValidateConnectionRequest or
\* VaultStarted that comes twice, or after the connection was closed and erased,
\* does not put it back into a table, and a directory change puts back no
\* connection but the one its vault had.
ImplementsLifecycle == Lifecycle!Spec

=============================================================================
