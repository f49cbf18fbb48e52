------------------------- MODULE ConnectionsProofs -------------------------
(* Safety of the connection tables, for any set of connections.            *)
EXTENDS Connections, TLAPS

\* A table that CloseAll has passed holds no open connection: connections move
\* only from tables closed earlier to tables closed later.
PassedClosed ==
  /\ phase \in {"second", "third", "fourth", "done"} => \A c \in new : socket[c] # "open"
  /\ phase \in {"third", "fourth", "done"} => \A c \in unvalidated : socket[c] # "open"
  /\ phase \in {"fourth", "done"} => \A c \in clients : socket[c] # "open"

\* Only a connection that has identified itself has asked.
AskedIdentified == \A c \in asked : socket[c] # "unused" /\ c \notin new

\* A functor belongs to a child with a connection and captured one that was a
\* vault's: no other table has that.
CapturedWereVaults ==
  /\ stale \subseteq vaults
  /\ \A c \in vaults : socket[c] # "unused"
  /\ \A f \in on_exit : /\ f[1] \in vaults
                        /\ socket[f[2]] # "unused"
                        /\ f[2] \notin new \cup unvalidated \cup clients

ConnInv ==
  /\ TypeOK
  /\ TablesDisjoint
  /\ ClosedForgotten
  /\ UnidentifiedWatched
  /\ PassedClosed
  /\ StableClientsTold
  /\ AskedIdentified
  /\ CapturedWereVaults

\* The tables are empty and no connection is used at the start.
LEMMA ConnInvInit == Init => ConnInv
  BY DEF Init, ConnInv, TypeOK, Phases, TablesDisjoint, ClosedForgotten,
         UnidentifiedWatched, PassedClosed, StableClientsTold, AskedIdentified,
         CapturedWereVaults

\* Close touches nothing but open connections, which it leaves closing.
LEMMA CloseEffect ==
  ASSUME TypeOK, NEW cs, Close(cs)
  PROVE  /\ socket' \in [Conns -> {"unused", "open", "closing", "closed"}]
         /\ \A c \in Conns : /\ socket'[c] = "open" <=> socket[c] = "open" /\ c \notin cs
                             /\ socket'[c] = "unused" <=> socket[c] = "unused"
                             /\ socket'[c] = "closed" <=> socket[c] = "closed"
                             /\ socket[c] = "closing" => socket'[c] = "closing"
  BY DEF TypeOK, Close

\* What HandleVaultStarted leaves of the children: c may join them, no other
\* connection does, and every functor is one that was there or was a child's
\* whose connection c replaces.
LEMMA SetConnectionEffect ==
  ASSUME TypeOK, CapturedWereVaults, NEW c \in Conns, SetConnection(c)
  PROVE  /\ vaults' \subseteq vaults \cup {c} /\ stale' \subseteq stale \cap vaults'
         /\ vaults' \ stale' \subseteq (vaults \ stale) \cup {c}
         /\ on_exit' \subseteq Conns \X Conns
         /\ \A f \in on_exit' : /\ f[1] \in vaults'
                                /\ \E g \in on_exit : g[2] = f[2]
<1>1. CASE UNCHANGED children
  BY <1>1 DEF children, TypeOK, CapturedWereVaults
<1>2. CASE vaults' = vaults \cup {c} /\ UNCHANGED <<on_exit, stale>>
  BY <1>2 DEF TypeOK, CapturedWereVaults
<1>3. ASSUME NEW old \in vaults,
             vaults' = (vaults \ {old}) \cup {c},
             on_exit' = {<<IF f[1] = old THEN c ELSE f[1], f[2]>> : f \in on_exit},
             stale' = stale \ {old}
      PROVE  /\ vaults' \subseteq vaults \cup {c} /\ stale' \subseteq stale \cap vaults'
             /\ vaults' \ stale' \subseteq (vaults \ stale) \cup {c}
             /\ on_exit' \subseteq Conns \X Conns
             /\ \A f \in on_exit' : /\ f[1] \in vaults'
                                    /\ \E g \in on_exit : g[2] = f[2]
  <2>1. ASSUME NEW f \in on_exit'
        PROVE  /\ f \in Conns \X Conns /\ f[1] \in vaults'
               /\ \E g \in on_exit : g[2] = f[2]
    <3>1. PICK g \in on_exit : f = <<IF g[1] = old THEN c ELSE g[1], g[2]>>
      BY <1>3, <2>1
    <3>2. g[1] \in Conns /\ g[2] \in Conns /\ g[1] \in vaults
      BY <3>1 DEF TypeOK, CapturedWereVaults
    <3> QED
      BY <1>3, <3>1, <3>2
  <2> QED
    BY <1>3, <2>1 DEF TypeOK, CapturedWereVaults
<1> QED
  BY <1>1, <1>2, <1>3 DEF SetConnection

\* What the end of the child with c leaves of the children: c goes, or the captured
\* connection comes in its place as a stale one.
LEMMA EraseChildEffect ==
  ASSUME TypeOK, CapturedWereVaults, NEW c \in vaults, EraseChild(c)
  PROVE  /\ stale' \subseteq vaults' /\ vaults' \subseteq Conns
         /\ vaults' \ stale' \subseteq vaults \ (stale \cup {c})
         /\ on_exit' = {f \in on_exit : f[1] # c}
         /\ \A f \in on_exit' : f[1] \in vaults'
         /\ \/ vaults' = vaults \ {c} /\ stale' = stale \ {c}
            \/ \E f \in on_exit : /\ f[2] \in Conns /\ f[2] \notin vaults \ {c}
                                  /\ vaults' = (vaults \ {c}) \cup {f[2]}
                                  /\ stale' = (stale \ {c}) \cup {f[2]}
<1>1. CASE vaults' = vaults \ {c} /\ stale' = stale \ {c}
  BY <1>1 DEF EraseChild, TypeOK, CapturedWereVaults
<1>2. ASSUME NEW d \in Conns, <<c, d>> \in on_exit, d \notin vaults \ {c},
             vaults' = (vaults \ {c}) \cup {d}, stale' = (stale \ {c}) \cup {d}
      PROVE  /\ stale' \subseteq vaults' /\ vaults' \subseteq Conns
             /\ vaults' \ stale' \subseteq vaults \ (stale \cup {c})
             /\ \A f \in {g \in on_exit : g[1] # c} : f[1] \in vaults'
             /\ \E f \in on_exit : /\ f[2] \in Conns /\ f[2] \notin vaults \ {c}
                                   /\ vaults' = (vaults \ {c}) \cup {f[2]}
                                   /\ stale' = (stale \ {c}) \cup {f[2]}
  <2>1. <<c, d>>[2] = d
    OBVIOUS
  <2> QED
    BY <1>2, <2>1 DEF TypeOK, CapturedWereVaults
<1> QED
  BY <1>1, <1>2 DEF EraseChild

\* Every handler, and every step of the shutdown, keeps the invariant.
LEMMA ConnInvNext == ConnInv /\ [Next]_vars => ConnInv'
<1> SUFFICES ASSUME ConnInv, [Next]_vars
             PROVE  ConnInv'
  OBVIOUS
<1> USE DEF ConnInv, TypeOK, Phases, TablesDisjoint, ClosedForgotten,
            UnidentifiedWatched, PassedClosed, StableClientsTold, AskedIdentified,
            CapturedWereVaults, children, tables, timers, stability, shutdown
<1>1. ASSUME NEW c \in Conns, HandleNewConnection(c)
      PROVE  ConnInv'
  BY <1>1 DEF HandleNewConnection, AddNew
<1>2. ASSUME NEW c \in Conns, HandleValidateConnectionRequest(c)
      PROVE  ConnInv'
  BY <1>2 DEF HandleValidateConnectionRequest, Received, RemoveFromNewConnections
<1>3. ASSUME NEW c \in Conns, NEW valid \in BOOLEAN, HandleChallengeResponse(c, valid)
      PROVE  ConnInv'
  <2>1. CASE valid
    BY <1>3, <2>1 DEF HandleChallengeResponse, Received
  <2>2. CASE ~valid
    BY <1>3, <2>2, CloseEffect DEF HandleChallengeResponse, Received
  <2> QED
    BY <1>3, <2>1, <2>2
<1>4. ASSUME NEW c \in Conns, HandleVaultStarted(c)
      PROVE  ConnInv'
  BY <1>4, SetConnectionEffect DEF HandleVaultStarted, Received, RemoveFromNewConnections
<1>5. ASSUME NEW c \in Conns, HandleNetworkStableRequest(c)
      PROVE  ConnInv'
  BY <1>5 DEF HandleNetworkStableRequest, Received
<1>6. ASSUME NEW c \in Conns, ConnectionLost(c)
      PROVE  ConnInv'
  BY <1>6, CloseEffect DEF ConnectionLost
<1>7. ASSUME NEW c \in Conns, HandleConnectionClosed(c)
      PROVE  ConnInv'
  <2>1. CASE c \in vaults
    BY <1>7, <2>1, EraseChildEffect DEF HandleConnectionClosed
  <2>2. CASE c \notin vaults
    BY <1>7, <2>2 DEF HandleConnectionClosed, RemoveClient
  <2> QED
    BY <2>1, <2>2
<1>8. ASSUME NEW c \in Conns, OnProcessExit(c)
      PROVE  ConnInv'
  BY <1>8, CloseEffect, EraseChildEffect DEF OnProcessExit
<1>9. ASSUME NEW c \in Conns, TimerExpires(c)
      PROVE  ConnInv'
  BY <1>9 DEF TimerExpires
<1>10. ASSUME NEW c \in Conns, TimerHandler(c)
       PROVE  ConnInv'
  BY <1>10, CloseEffect DEF TimerHandler
<1>11. CASE HandleSetNetworkAsStable
  BY <1>11 DEF HandleSetNetworkAsStable, GetAll
<1>12. CASE StopAll
  BY <1>12, CloseEffect DEF StopAll
<1>13. CASE TearDownWithInterval
  BY <1>13 DEF TearDownWithInterval
<1>14. CASE CloseAll
  BY <1>14, CloseEffect DEF CloseAll, CloseAllOf
<1>15. CASE UnlockedTablesRace
  BY <1>15 DEF UnlockedTablesRace
<1>17. ASSUME NEW c \in Conns, ChangeChunkstorePath(c)
       PROVE  ConnInv'
  BY <1>17 DEF ChangeChunkstorePath
<1>18. CASE StopAllWithInterval
  BY <1>18 DEF StopAllWithInterval
<1>19. ASSUME NEW c \in Conns, StopProcess(c)
       PROVE  ConnInv'
  BY <1>19 DEF StopProcess
<1>16. CASE UNCHANGED vars
  BY <1>16 DEF vars
<1> QED
  BY <1>1, <1>2, <1>3, <1>4, <1>5, <1>6, <1>7, <1>8, <1>9, <1>10, <1>11, <1>12,
     <1>13, <1>14, <1>15, <1>16, <1>17, <1>18, <1>19 DEF Next

\* In every run of VaultManager's handlers a connection is in one table at most,
\* is gone from it once closed unless a directory change has put it back as a
\* vault's, is watched until it has identified itself, is closed by the shutdown,
\* and hears that the network is stable if it asked.
THEOREM TablesSafety ==
  Spec => [](/\ TypeOK /\ TablesDisjoint /\ ClosedForgotten
             /\ UnidentifiedWatched /\ ShutdownClosesAll /\ StableClientsTold)
<1>1. ConnInv => /\ TypeOK /\ TablesDisjoint /\ ClosedForgotten
                 /\ UnidentifiedWatched /\ ShutdownClosesAll /\ StableClientsTold
  BY DEF ConnInv, PassedClosed, ShutdownClosesAll
<1> QED
  BY ConnInvInit, ConnInvNext, <1>1, PTL DEF Spec

\* HandleConnectionClosed, which stops at the first table that has its connection,
\* leaves no entry in another one.
THEOREM OneTableAtMost == Spec => []TablesDisjoint
  BY TablesSafety, PTL

\* No message that is handled late puts a closed connection back into a table, and
\* the functor of a directory change puts it back as a stale one only.
THEOREM ClosedStaysForgotten == Spec => []ClosedForgotten
  BY TablesSafety, PTL

\* No connection is left unidentified without a timer or a close notification.
THEOREM UnidentifiedIsWatched == Spec => []UnidentifiedWatched
  BY TablesSafety, PTL

\* A client that asked is told, whichever of its request, its validation and
\* SetNetworkAsStable is handled first.
THEOREM AskedClientsTold == Spec => []StableClientsTold
  BY TablesSafety, PTL

-----------------------------------------------------------------------------
(* The tables implement the life cycle of a connection. *)

Captured(c) == \E f \in on_exit : f[2] = c

\* Where a connection is, by the table that has it: with disjoint tables the
\* order of PlaceOf's cases does not matter.
Place(c) ==
  /\ PlaceOf(c) = "unused" <=> socket[c] = "unused"
  /\ PlaceOf(c) = "new" <=> c \in new
  /\ PlaceOf(c) = "unvalidated" <=> c \in unvalidated
  /\ PlaceOf(c) = "client" <=> c \in clients
  /\ PlaceOf(c) = "carried" <=> c \in stale
  /\ PlaceOf(c) = "vault" <=> c \in vaults \ stale
  /\ PlaceOf(c) = "captured" <=> Captured(c) /\ c \notin vaults
  /\ PlaceOf(c) \in DOMAIN Lifecycle!Successors

PlacesByTable == \A c \in Conns : Place(c)

\* Each table excludes those after it.
Exclusive(c) ==
  /\ socket[c] = "unused" => c \notin new \cup unvalidated \cup clients \cup vaults \cup stale
                               /\ ~Captured(c)
  /\ c \in new => c \notin unvalidated \cup clients \cup vaults \cup stale /\ ~Captured(c)
  /\ c \in unvalidated => c \notin clients \cup vaults \cup stale /\ ~Captured(c)
  /\ c \in clients => c \notin vaults \cup stale /\ ~Captured(c)
  /\ c \in stale => c \in vaults

\* The invariant makes the places those of the tables, before and after a step.
LEMMA Places ==
  /\ ConnInv => PlacesByTable
  /\ ConnInv' => PlacesByTable'
<1>1. ASSUME ConnInv PROVE PlacesByTable
  <2> SUFFICES ASSUME NEW c \in Conns
               PROVE  Place(c)
    BY DEF PlacesByTable
  <2>1. Exclusive(c)
    BY <1>1 DEF Exclusive, ConnInv, TypeOK, TablesDisjoint, ClosedForgotten,
              CapturedWereVaults, Captured
  <2>2. ASSUME socket[c] = "unused" PROVE PlaceOf(c) = "unused"
    BY <2>1, <2>2 DEF Exclusive, PlaceOf, Captured
  <2>3. ASSUME c \in new PROVE PlaceOf(c) = "new"
    BY <2>1, <2>3 DEF Exclusive, PlaceOf, Captured
  <2>4. ASSUME c \in unvalidated PROVE PlaceOf(c) = "unvalidated"
    BY <2>1, <2>4 DEF Exclusive, PlaceOf, Captured
  <2>5. ASSUME c \in clients PROVE PlaceOf(c) = "client"
    BY <2>1, <2>5 DEF Exclusive, PlaceOf, Captured
  <2>6. ASSUME c \in stale PROVE PlaceOf(c) = "carried"
    BY <2>1, <2>6 DEF Exclusive, PlaceOf, Captured
  <2>7. ASSUME c \in vaults \ stale PROVE PlaceOf(c) = "vault"
    BY <2>1, <2>7 DEF Exclusive, PlaceOf, Captured
  <2>8. ASSUME (Captured(c) /\ c \notin vaults) PROVE PlaceOf(c) = "captured"
    BY <2>1, <2>8 DEF Exclusive, PlaceOf, Captured
  <2>9. ASSUME ~Captured(c) /\ c \notin new \cup unvalidated \cup clients \cup vaults
              /\ socket[c] # "unused" PROVE PlaceOf(c) = "gone"
    BY <2>1, <2>9 DEF Exclusive, PlaceOf, Captured
  <2> QED
    BY <2>1, <2>2, <2>3, <2>4, <2>5, <2>6, <2>7, <2>8, <2>9
       DEF Exclusive, Place, Lifecycle!Successors
<1>2. ASSUME ConnInv' PROVE PlacesByTable'
  <2> SUFFICES ASSUME NEW c \in Conns
               PROVE  Place(c)'
    BY DEF PlacesByTable
  <2>1. Exclusive(c)'
    BY <1>2 DEF Exclusive, ConnInv, TypeOK, TablesDisjoint, ClosedForgotten,
              CapturedWereVaults, Captured
  <2>2. ASSUME socket'[c] = "unused" PROVE PlaceOf(c)' = "unused"
    BY <2>1, <2>2 DEF Exclusive, PlaceOf, Captured
  <2>3. ASSUME c \in new' PROVE PlaceOf(c)' = "new"
    BY <2>1, <2>3 DEF Exclusive, PlaceOf, Captured
  <2>4. ASSUME c \in unvalidated' PROVE PlaceOf(c)' = "unvalidated"
    BY <2>1, <2>4 DEF Exclusive, PlaceOf, Captured
  <2>5. ASSUME c \in clients' PROVE PlaceOf(c)' = "client"
    BY <2>1, <2>5 DEF Exclusive, PlaceOf, Captured
  <2>6. ASSUME c \in stale' PROVE PlaceOf(c)' = "carried"
    BY <2>1, <2>6 DEF Exclusive, PlaceOf, Captured
  <2>7. ASSUME c \in vaults' \ stale' PROVE PlaceOf(c)' = "vault"
    BY <2>1, <2>7 DEF Exclusive, PlaceOf, Captured
  <2>8. ASSUME (Captured(c) /\ c \notin vaults)' PROVE PlaceOf(c)' = "captured"
    BY <2>1, <2>8 DEF Exclusive, PlaceOf, Captured
  <2>9. ASSUME ~Captured(c)' /\ c \notin new' \cup unvalidated' \cup clients' \cup vaults'
              /\ socket'[c] # "unused" PROVE PlaceOf(c)' = "gone"
    BY <2>1, <2>9 DEF Exclusive, PlaceOf, Captured
  <2> QED
    BY <2>1, <2>2, <2>3, <2>4, <2>5, <2>6, <2>7, <2>8, <2>9
       DEF Exclusive, Place, Lifecycle!Successors
<1> QED
  BY <1>1, <1>2

\* c stays where it is or goes to a place its own leads to.
Goes(c) == PlaceOf(c)' \in Lifecycle!Successors[PlaceOf(c)] \cup {PlaceOf(c)}

\* A step that leaves the tables alone moves nothing.
LEMMA SameTables ==
  ASSUME ConnInv, ConnInv', NEW c \in Conns,
         UNCHANGED <<new, unvalidated, clients, vaults, stale>>,
         socket'[c] = "unused" <=> socket[c] = "unused",
         c \notin vaults => (Captured(c)' <=> Captured(c))
  PROVE  PlaceOf(c)' = PlaceOf(c)
<1>1. PlacesByTable /\ PlacesByTable'
  BY Places
<1> QED
  BY <1>1 DEF PlacesByTable, Place, Lifecycle!Successors

\* A connection that is no child's and is not captured, and that no table of new
\* connections or clients changes, stays where it is whatever the children do.
LEMMA OtherTables ==
  ASSUME ConnInv, ConnInv', NEW c \in Conns,
         c \in new' <=> c \in new, c \in unvalidated' <=> c \in unvalidated,
         c \in clients' <=> c \in clients,
         socket'[c] = "unused" <=> socket[c] = "unused",
         c \notin vaults /\ c \in vaults' => Captured(c) /\ c \in stale',
         c \in stale => c \in stale' \/ c \notin vaults',
         Captured(c)' => Captured(c)
  PROVE  Goes(c)
<1>1. /\ PlacesByTable /\ PlacesByTable'
      /\ stale \subseteq vaults /\ stale' \subseteq vaults'
  BY Places DEF ConnInv, CapturedWereVaults
<1> DEFINE p == PlaceOf(c)
           q == PlaceOf(c)'
<1>2. /\ q = "unused" <=> p = "unused"
      /\ q = "new" <=> p = "new"
      /\ q = "unvalidated" <=> p = "unvalidated"
      /\ q = "client" <=> p = "client"
  BY <1>1 DEF PlacesByTable, Place
<1>3. /\ q = "vault" => p = "vault"
      /\ q = "carried" => p \in {"vault", "carried", "captured"}
      /\ q = "captured" => p \in {"vault", "carried", "captured"}
  BY <1>1 DEF PlacesByTable, Place
<1>4. p \in DOMAIN Lifecycle!Successors /\ q \in DOMAIN Lifecycle!Successors
  BY <1>1 DEF PlacesByTable, Place
<1> HIDE DEF p, q
<1>5. q \in Lifecycle!Successors[p] \cup {p}
  BY <1>2, <1>3, <1>4 DEF Lifecycle!Successors
<1> QED
  BY <1>5 DEF p, q, Goes

\* Whatever the step, every connection stays or goes to a successor of its place.
LEMMA PlaceStep ==
  ASSUME ConnInv, ConnInv', [Next]_vars
  PROVE  \A e \in Conns : Goes(e)
<1>1. /\ TypeOK /\ TypeOK' /\ PlacesByTable /\ PlacesByTable'
      /\ CapturedWereVaults /\ CapturedWereVaults' /\ TablesDisjoint
  BY Places DEF ConnInv
<1> SUFFICES ASSUME NEW e \in Conns
             PROVE  Goes(e)
  OBVIOUS
<1>2. ASSUME UNCHANGED tables, socket'[e] = "unused" <=> socket[e] = "unused"
      PROVE  Goes(e)
  BY <1>2, SameTables DEF tables, children, Captured, Goes
<1>3. \A cs : Close(cs) => (socket'[e] = "unused" <=> socket[e] = "unused")
  BY <1>1, CloseEffect
<1>4. ASSUME NEW c \in Conns, HandleNewConnection(c)
      PROVE  Goes(e)
  <2>1. CASE e = c
    BY <1>1, <1>4, <2>1 DEF HandleNewConnection, AddNew, TypeOK, PlacesByTable, Place,
                            Lifecycle!Successors, Goes
  <2>2. CASE e # c
    BY <1>1, <1>4, <2>2, OtherTables
       DEF HandleNewConnection, AddNew, TypeOK, children, Captured, CapturedWereVaults
  <2> QED
    BY <2>1, <2>2
<1>5. ASSUME NEW c \in Conns, HandleValidateConnectionRequest(c)
      PROVE  Goes(e)
  <2>1. CASE e = c
    BY <1>1, <1>5, <2>1 DEF HandleValidateConnectionRequest, RemoveFromNewConnections,
                            TypeOK, PlacesByTable, Place, Place, Lifecycle!Successors, Goes
  <2>2. CASE e # c
    BY <1>1, <1>5, <2>2, OtherTables
       DEF HandleValidateConnectionRequest, RemoveFromNewConnections, TypeOK, children,
           Captured, CapturedWereVaults
  <2> QED
    BY <2>1, <2>2
<1>6. ASSUME NEW c \in Conns, NEW valid \in BOOLEAN, HandleChallengeResponse(c, valid)
      PROVE  Goes(e)
  <2>1. CASE valid /\ e = c
    BY <1>1, <1>6, <2>1 DEF HandleChallengeResponse, TypeOK, PlacesByTable, Place,
                            Lifecycle!Successors, Goes
  <2>2. CASE valid /\ e # c
    BY <1>1, <1>6, <2>2, OtherTables
       DEF HandleChallengeResponse, TypeOK, children, Captured, CapturedWereVaults
  <2>3. CASE ~valid
    BY <1>2, <1>3, <1>6, <2>3 DEF HandleChallengeResponse, tables, children
  <2> QED
    BY <1>6, <2>1, <2>2, <2>3
<1>7. ASSUME NEW c \in Conns, HandleVaultStarted(c)
      PROVE  Goes(e)
  <2>1. c \in new /\ c \notin new' /\ SetConnection(c) /\ c \notin stale
    BY <1>1, <1>7 DEF HandleVaultStarted, RemoveFromNewConnections, TablesDisjoint,
                      CapturedWereVaults
  <2>2. CASE e = c
    <3>1. c \notin stale' /\ socket'[c] # "unused" /\ ~Captured(c)
      BY <1>1, <1>7, <2>1, SetConnectionEffect
         DEF HandleVaultStarted, PlacesByTable, Place, CapturedWereVaults, Captured
    <3>2. ~Captured(c)'
      BY <1>1, <2>1, <3>1, SetConnectionEffect DEF Captured
    <3>3. c \notin unvalidated' \cup clients'
      BY <1>1, <1>7, <2>1 DEF HandleVaultStarted, TablesDisjoint
    <3>4. PlaceOf(c) = "new" /\ PlaceOf(c)' \in {"vault", "gone"}
      BY <1>1, <2>1, <3>1, <3>2, <3>3 DEF PlacesByTable, Place, Lifecycle!Successors
    <3> QED
      BY <2>2, <3>4 DEF Goes, Lifecycle!Successors
  <2>3. CASE e # c
    <3>1. /\ e \in new' <=> e \in new /\ UNCHANGED <<socket, unvalidated, clients>>
      BY <1>7, <2>3 DEF HandleVaultStarted, RemoveFromNewConnections
    <3>2. /\ e \in vaults' => e \in vaults
          /\ e \in stale => e \in stale' \/ e \notin vaults'
          /\ Captured(e)' => Captured(e)
      BY <1>1, <2>1, <2>3, SetConnectionEffect DEF Captured, CapturedWereVaults
    <3> QED
      BY <1>7, <2>3, <3>1, <3>2, OtherTables DEF HandleVaultStarted, RemoveFromNewConnections
  <2> QED
    BY <2>2, <2>3
<1>8. ASSUME NEW c \in vaults, EraseChild(c), UNCHANGED <<new, unvalidated, clients>>,
             socket'[e] = "unused" <=> socket[e] = "unused"
      PROVE  Goes(e)
  <2>1. /\ e \notin vaults /\ e \in vaults' => Captured(e) /\ e \in stale'
        /\ Captured(e)' => Captured(e)
        /\ e \in stale => e \in stale' \/ e \notin vaults'
    BY <1>1, <1>8, EraseChildEffect DEF Captured, CapturedWereVaults
  <2> QED
    BY <1>8, <2>1, OtherTables
<1>9. ASSUME NEW c \in Conns, HandleConnectionClosed(c)
      PROVE  Goes(e)
  <2>1. socket'[e] = "unused" <=> socket[e] = "unused"
    BY <1>1, <1>9 DEF HandleConnectionClosed, TypeOK
  <2>2. CASE c \in vaults
    BY <1>8, <1>9, <2>1, <2>2 DEF HandleConnectionClosed
  <2>3. CASE c \notin vaults /\ e = c
    <3>1. /\ c \notin new' \cup unvalidated' \cup clients' \cup vaults'
          /\ socket[c] = "closing" /\ socket'[c] = "closed" /\ UNCHANGED <<vaults, stale, on_exit>>
      BY <1>1, <1>9, <2>3 DEF HandleConnectionClosed, RemoveClient, TablesDisjoint, TypeOK,
                              children
    <3>2. Captured(c)' <=> Captured(c)
      BY <3>1 DEF Captured
    <3>3. /\ Captured(c) => PlaceOf(c) = "captured" /\ PlaceOf(c)' = "captured"
          /\ ~Captured(c) => PlaceOf(c)' = "gone" /\ PlaceOf(c) # "unused"
      BY <1>1, <2>3, <3>1, <3>2 DEF PlacesByTable, Place, CapturedWereVaults, Lifecycle!Successors
    <3> QED
      BY <1>1, <2>3, <3>3 DEF Goes, PlacesByTable, Place, Lifecycle!Successors
  <2>4. CASE c \notin vaults /\ e # c
    BY <1>1, <1>9, <2>1, <2>4, OtherTables
       DEF HandleConnectionClosed, RemoveClient, children, Captured, CapturedWereVaults
  <2> QED
    BY <2>2, <2>3, <2>4
<1>10. ASSUME NEW c \in Conns, OnProcessExit(c)
       PROVE  Goes(e)
  BY <1>3, <1>8, <1>10 DEF OnProcessExit
<1>11. ASSUME NEW c \in Conns,
              \/ HandleNetworkStableRequest(c) \/ ConnectionLost(c)
              \/ TimerExpires(c) \/ TimerHandler(c)
       PROVE  Goes(e)
  BY <1>2, <1>3, <1>11 DEF HandleNetworkStableRequest, ConnectionLost, TimerExpires, TimerHandler
<1>12. CASE \/ HandleSetNetworkAsStable \/ TearDownWithInterval \/ StopAllWithInterval
            \/ CloseAll \/ UnlockedTablesRace \/ UNCHANGED vars
  BY <1>2, <1>3, <1>12 DEF HandleSetNetworkAsStable, TearDownWithInterval, StopAllWithInterval,
                           CloseAll, UnlockedTablesRace, vars
<1>13. ASSUME NEW c \in Conns, ChangeChunkstorePath(c)
       PROVE  Goes(e)
  <2>1. e \notin vaults => (Captured(e)' => Captured(e))
    <3> SUFFICES ASSUME e \notin vaults, NEW f \in on_exit', f[2] = e
                 PROVE  f \in on_exit
      BY DEF Captured
    <3>1. f # <<c, c>>
      BY <1>13 DEF ChangeChunkstorePath
    <3> QED
      BY <1>13, <3>1 DEF ChangeChunkstorePath
  <2>2. e \in vaults => PlaceOf(e)' = PlaceOf(e)
    BY <1>13, SameTables DEF ChangeChunkstorePath
  <2>3. CASE e \notin vaults
    BY <1>13, <2>1, <2>3, OtherTables DEF ChangeChunkstorePath
  <2> QED
    BY <2>2, <2>3 DEF Goes
<1>14. CASE StopAll
  BY <1>1, <1>3, <1>14, OtherTables DEF StopAll, Captured
<1>15. ASSUME NEW c \in Conns, StopProcess(c)
       PROVE  Goes(e)
  BY <1>1, <1>15, OtherTables DEF StopProcess, Captured
<1> QED
  BY <1>4, <1>5, <1>6, <1>7, <1>9, <1>10, <1>11, <1>12, <1>13, <1>14, <1>15 DEF Next

\* What VaultManager does to its tables is what ConnectionLifecycle allows: each
\* connection has one role, and only a vault's can come back, by a directory change.
THEOREM TablesImplementLifecycle == Spec => ImplementsLifecycle
<1> DEFINE place == [c \in Conns |-> PlaceOf(c)]
<1>1. Init => Lifecycle!Init
  BY DEF Init, Lifecycle!Init, PlaceOf
<1>2. ConnInv /\ ConnInv' /\ [Next]_vars => [Lifecycle!Next]_place
  <2> SUFFICES ASSUME ConnInv, ConnInv', [Next]_vars
               PROVE  Lifecycle!Next
    OBVIOUS
  <2>1. \A c \in Conns : PlaceOf(c)' \in DOMAIN Lifecycle!Successors
    BY Places DEF PlacesByTable, Place
  <2>2. \A c \in Conns : Goes(c)
    BY PlaceStep
  <2> QED
    BY <2>1, <2>2 DEF Lifecycle!Next, Goes
<1> QED
  BY <1>1, <1>2, ConnInvInit, ConnInvNext, PTL DEF Spec, ImplementsLifecycle, Lifecycle!Spec

=============================================================================
