------------------------ MODULE ProcessManagerProofs ------------------------
(***************************************************************************)
(* Proofs that the supervisor keeps its safety invariants for any number   *)
(* of vaults, processes, connections, restarts and requests.               *)
(***************************************************************************)
EXTENDS ProcessManager, FiniteSetTheorems, TLAPS

-----------------------------------------------------------------------------
(* The invariants as predicates of a table vs and of process states pr:    *)
(* OnProcessExit passes through tables that are no state of the manager.   *)

ProcType == [Pids -> Live \cup {"free", "zombie"}]
ConnType == [Conns -> {"idle", "open", "closing"}]

Distinct(vs) ==
  \A v, w \in vs :
    v # w => /\ v.info.label # w.info.label
             /\ v.info.pmid # w.info.pmid
             /\ v.info.dir # w.info.dir
             /\ v.info.conn # w.info.conn

Owned(vs, pr) ==
  /\ \A v \in vs : pr[v.pid] # "free"
  /\ \A v, w \in vs : v.pid = w.pid => v = w

Covered(vs, pr) ==
  \A p \in Pids : pr[p] \in Live => \E v \in vs : v.pid = p

Sound(vs, pr) == /\ vs \subseteq Child /\ pr \in ProcType
                 /\ Distinct(vs) /\ Owned(vs, pr) /\ Covered(vs, pr)

\* A connection whose VaultStarted is still due is open to no vault: neither in
\* the table nor captured by an on_exit functor.
HelloFresh ==
  \A c \in hello :
    /\ conn[c] # "idle"
    /\ \A v \in vaults :
         v.info.conn # c /\ (v.on_exit # None => v.on_exit.conn # c)

PostsUnconnected == \A r \in posts : r.info.conn = None

SupInv == /\ TypeOK /\ NoConflict /\ PidsOurs /\ NoOrphans
          /\ EveryVaultWatched /\ HelloFresh /\ PostsUnconnected

\* AddProcess keeps a sound table sound: the conflict check covers every field,
\* and the pid it is given was free.
LEMMA AddProcessSound ==
  ASSUME NEW info \in VaultInfo, NEW n \in Nat, NEW vs, NEW pr,
         Sound(vs, pr), AddProcess(info, n, vs, pr)
  PROVE  /\ Sound(vaults', proc')
         /\ \E p \in Pids : vaults' = vs \cup {NewChild(info, n, p)}
<1>1. PICK p \in Pids : /\ pr[p] = "free"
                        /\ vaults' = vs \cup {NewChild(info, n, p)}
                        /\ proc' = [pr EXCEPT ![p] = "launched"]
  BY DEF AddProcess, PidFree
<1> DEFINE k == NewChild(info, n, p)
<1>2. k \in Child /\ k.info = info /\ k.pid = p
  BY DEF NewChild, Child, ProcessStatus, TimerKind
<1>3. \A v \in vs : /\ v.info.label # info.label /\ v.info.pmid # info.pmid
                    /\ v.info.dir # info.dir /\ v.info.conn # info.conn
  BY DEF AddProcess, CanAdd, CheckNewVaultDoesntConflict
<1>4. \A v \in vs : v.pid \in Pids /\ v.pid # p
  BY <1>1 DEF Sound, Owned, Child
<1> HIDE DEF k
<1>5. vaults' \subseteq Child /\ proc' \in ProcType
  BY <1>1, <1>2 DEF Sound, ProcType, Live, k
<1>6. Distinct(vaults')
  BY <1>1, <1>2, <1>3 DEF Sound, Distinct, k
<1>7. Owned(vaults', proc')
  BY <1>1, <1>2, <1>4 DEF Sound, Owned, ProcType, k
<1>8. Covered(vaults', proc')
  BY <1>1, <1>2, <1>4 DEF Sound, Covered, ProcType, k
<1> QED BY <1>1, <1>5, <1>6, <1>7, <1>8 DEF Sound

\* What every handler that ends vault v relies on: OnProcessExit leaves a sound
\* table, holding the other vaults and at most one new vault, built from v's
\* functor; it marks no connection as closed; and it posts an unconnected vault.
LEMMA OnProcessExitSound ==
  ASSUME NEW v \in vaults, NEW terminate \in BOOLEAN, NEW pr \in ProcType,
         NEW cn \in ConnType, TypeOK, NoConflict, PidsOurs, PostsUnconnected,
         \A w \in vaults \ {v} : pr[w.pid] # "free",
         Covered(vaults, pr),
         terminate \/ pr[v.pid] \notin Live,
         OnProcessExit(v, terminate, pr, cn)
  PROVE  /\ Sound(vaults', proc')
         /\ \/ vaults' = vaults \ {v}
            \/ /\ v.on_exit # None
               /\ \E p \in Pids :
                    vaults' = (vaults \ {v}) \cup {NewChild(v.on_exit, 0, p)}
         /\ conn' \in ConnType
         /\ \A c \in Conns : cn[c] # "idle" => conn'[c] # "idle"
         /\ sigPending' \in BOOLEAN
         /\ posts' \subseteq [info : VaultInfo, restarts : Nat]
         /\ PostsUnconnected'
         /\ config' \in (SUBSET Labels) \cup {None}
<1> DEFINE kill == terminate /\ pr[v.pid] \in Live
           pr1  == IF kill THEN [pr EXCEPT ![v.pid] = "zombie"] ELSE pr
           cn1  == IF kill THEN Hangup(cn, v.pid) ELSE cn
           vs   == vaults \ {v}
<1>1. /\ conn' = Close(cn1, v.info.conn)
      /\ sigPending' = (sigPending \/ kill)
      /\ InvokeOnExitFunctor(v.on_exit, vs, pr1)
      /\ RestartIfRequired(v)
  BY DEF OnProcessExit
<1>2. /\ v \in Child /\ vs \subseteq Child
      /\ v.pid \in Pids /\ v.info \in VaultInfo /\ v.restarts \in Nat
      /\ v.on_exit \in VaultInfo \cup {None}
  BY DEF TypeOK, Child
<1>3. /\ pr1 \in ProcType /\ pr1[v.pid] \notin Live
      /\ \A p \in Pids \ {v.pid} : pr1[p] = pr[p]
  BY <1>2 DEF ProcType, Live
<1>4. \A w \in vs : w.pid \in Pids /\ w.pid # v.pid
  BY <1>2 DEF PidsOurs, Child
<1>5. Sound(vs, pr1)
  <2>1. Distinct(vs)
    BY DEF Distinct, NoConflict
  <2>2. Owned(vs, pr1)
    BY <1>3, <1>4 DEF Owned, PidsOurs
  <2>3. Covered(vs, pr1)
    BY <1>3, <1>4 DEF Covered
  <2> QED BY <1>2, <1>3, <2>1, <2>2, <2>3 DEF Sound
<1>6. /\ cn1 \in ConnType
      /\ \A c \in Conns : cn[c] # "idle" => cn1[c] # "idle"
  BY DEF ConnType, Hangup
<1>7. /\ conn' \in ConnType
      /\ \A c \in Conns : cn[c] # "idle" => conn'[c] # "idle"
  <2> HIDE DEF cn1
  <2> QED BY <1>1, <1>6 DEF ConnType, Close
<1>8. sigPending' \in BOOLEAN
  BY <1>1 DEF TypeOK
<1>9. /\ posts' \subseteq [info : VaultInfo, restarts : Nat]
      /\ PostsUnconnected'
  <2> DEFINE r == [info |-> [v.info EXCEPT !.conn = None],
                   restarts |-> v.restarts + 1]
  <2>1. posts' = posts \/ posts' = posts \cup {r}
    BY <1>1 DEF RestartIfRequired
  <2>2. r \in [info : VaultInfo, restarts : Nat] /\ r.info.conn = None
    BY <1>2 DEF VaultInfo
  <2> HIDE DEF r
  <2> QED BY <2>1, <2>2 DEF TypeOK, PostsUnconnected
<1> HIDE DEF pr1, vs, kill, cn1
<1>10. CASE vaults' = vs /\ proc' = pr1 /\ config' = config
  BY <1>5, <1>7, <1>8, <1>9, <1>10 DEF TypeOK, vs
<1>11. CASE /\ v.on_exit # None
            /\ AddProcess(v.on_exit, 0, vs, pr1)
            /\ WriteConfigFile(vaults')
  <2>1. /\ Sound(vaults', proc')
        /\ \E p \in Pids : vaults' = vs \cup {NewChild(v.on_exit, 0, p)}
    BY <1>2, <1>5, <1>11, AddProcessSound
  <2>2. config' \in (SUBSET Labels) \cup {None}
    BY <1>11, <2>1 DEF WriteConfigFile, GetAll, Sound, Child, VaultInfo
  <2> QED BY <1>7, <1>8, <1>9, <1>11, <2>1, <2>2 DEF vs
<1> QED BY <1>1, <1>10, <1>11 DEF InvokeOnExitFunctor, AddProcessFails

\* A handler that rewrites one child in place, and gives it no connection another
\* vault has, keeps the table sound.
LEMMA ReplaceSound ==
  ASSUME SupInv, NEW v \in vaults, NEW w \in Child,
         w.pid = v.pid, w.info.label = v.info.label,
         w.info.pmid = v.info.pmid, w.info.dir = v.info.dir,
         w.info.conn = v.info.conn \/ \A u \in vaults : u.info.conn # w.info.conn,
         vaults' = (vaults \ {v}) \cup {w}, proc' = proc
  PROVE  Sound(vaults', proc')
<1>1. vaults' \subseteq Child /\ proc' \in ProcType
  BY DEF SupInv, TypeOK, ProcType
<1>2. Distinct(vaults')
  BY DEF SupInv, NoConflict, Distinct
<1>3. Owned(vaults', proc')
  BY DEF SupInv, PidsOurs, Owned
<1>4. Covered(vaults', proc')
  BY DEF SupInv, NoOrphans, Covered
<1> QED BY <1>1, <1>2, <1>3, <1>4 DEF Sound

\* Soundness of the manager's own table is the four invariants about it.
LEMMA SoundIsInv ==
  /\ SupInv => Sound(vaults, proc)
  /\ Sound(vaults', proc') =>
       /\ vaults' \subseteq Child /\ proc' \in ProcType
       /\ NoConflict' /\ PidsOurs' /\ NoOrphans'
BY DEF SupInv, TypeOK, ProcType, Sound, Distinct, Owned, Covered, NoConflict,
       PidsOurs, NoOrphans

\* The other vaults stay watched when a handler ends vault v, whatever else it
\* does: nothing it touches is theirs, and a new vault has its start timer.
LEMMA ExitWatched ==
  ASSUME SupInv, NEW v \in vaults, NEW gone \in SUBSET Conns,
         \/ vaults' = vaults \ {v}
         \/ /\ v.on_exit # None
            /\ \E p \in Pids :
                 vaults' = (vaults \ {v}) \cup {NewChild(v.on_exit, 0, p)},
         \A c \in Conns \ gone : conn[c] # "idle" => conn'[c] # "idle",
         \A c \in gone : v.info.conn = c /\ c \notin hello',
         hello' \subseteq hello,
         \A l \in Labels, kind \in TimerKind :
           <<l, kind>> \in expired => <<l, kind>> \in expired' \/ l = v.info.label
  PROVE  EveryVaultWatched' /\ HelloFresh'
<1>1. v \in Child /\ vaults \subseteq Child /\ hello \subseteq Conns
  BY DEF SupInv, TypeOK
<1>2. \A w \in vaults' :
        \/ w \in vaults /\ w # v
        \/ /\ v.on_exit # None /\ w.info = v.on_exit /\ w.on_exit = None
           /\ w.status = "kStarting" /\ w.timer = "start"
  BY DEF NewChild
<1>3. ASSUME NEW w \in vaults'
      PROVE  IF w.status = "kRunning"
             THEN w.info.conn # None /\ conn'[w.info.conn] # "idle"
             ELSE w.timer # None
                  \/ \E kind \in TimerKind : <<w.info.label, kind>> \in expired'
  <2>1. CASE w \in vaults /\ w # v
    <3>1. /\ w.info.label \in Labels /\ w.info.conn \in Conns \cup {None}
          /\ w.info.label # v.info.label /\ w.info.conn # v.info.conn
      BY <1>1, <2>1 DEF SupInv, NoConflict, Child, VaultInfo
    <3> QED BY <2>1, <3>1 DEF SupInv, EveryVaultWatched
  <2>2. CASE w.status = "kStarting" /\ w.timer = "start"
    BY <2>2, ConstantsAssumption DEF TimerKind
  <2> QED BY <1>2, <2>1, <2>2
<1>4. HelloFresh'
  <2> SUFFICES ASSUME NEW c \in hello'
               PROVE  /\ conn'[c] # "idle"
                      /\ \A w \in vaults' :
                           /\ w.info.conn # c
                           /\ w.on_exit # None => w.on_exit.conn # c
    BY DEF HelloFresh
  <2>1. c \in Conns /\ c \notin gone /\ c \in hello
    BY <1>1
  <2>2. /\ conn[c] # "idle"
        /\ \A w \in vaults :
             /\ w.info.conn # c
             /\ w.on_exit # None => w.on_exit.conn # c
    BY <2>1 DEF SupInv, HelloFresh
  <2>3. conn'[c] # "idle"
    BY <2>1, <2>2
  <2>4. ASSUME NEW w \in vaults'
        PROVE  w.info.conn # c /\ (w.on_exit # None => w.on_exit.conn # c)
    BY <1>2, <2>2
  <2> QED BY <2>3, <2>4
<1> QED BY <1>3, <1>4 DEF EveryVaultWatched

-----------------------------------------------------------------------------
(* One lemma per group of actions. *)

RestType ==
  /\ posts \subseteq [info : VaultInfo, restarts : Nat]
  /\ expired \subseteq Labels \X TimerKind
  /\ config \in (SUBSET Labels) \cup {None}
  /\ conn \in ConnType
  /\ peer \in [Conns -> Pids \cup {None}]
  /\ hello \subseteq Conns
  /\ sigPending \in BOOLEAN
  /\ undelivered \in Nat
  /\ sigWait \in {"waiting", "queued", "cancelled"}
  /\ stop \in {"running", "closing", "stopping", "stopped"}
  /\ tear \subseteq Conns \cup {None}
  /\ requests \in 0 .. MaxRequests
  /\ crashed \in BOOLEAN

\* An action is checked in two parts: the table with its processes, and the rest.
LEMMA Compose ==
  /\ SupInv => RestType
  /\ /\ Sound(vaults', proc') /\ RestType'
     /\ EveryVaultWatched' /\ HelloFresh' /\ PostsUnconnected'
     => SupInv'
<1>1. SupInv => RestType
  BY DEF SupInv, TypeOK, RestType, ConnType
<1>2. vaults' \subseteq Child /\ proc' \in ProcType /\ RestType' => TypeOK'
  BY DEF TypeOK, RestType, ProcType, ConnType
<1> QED BY <1>1, <1>2, SoundIsInv DEF SupInv

\* A new vault, from a client's request, the constructor or a posted restart, has
\* no connection and its start timer armed.
LEMMA AddStep ==
  ASSUME SupInv, NEW info \in VaultInfo, NEW n \in Nat, info.conn = None,
         AddProcess(info, n, vaults, proc), RestType', PostsUnconnected',
         UNCHANGED <<expired, conn, hello>>
  PROVE  SupInv'
<1>1. PICK p \in Pids : vaults' = vaults \cup {NewChild(info, n, p)}
  BY SoundIsInv, AddProcessSound
<1>2. Sound(vaults', proc')
  BY SoundIsInv, AddProcessSound
<1>3. \A w \in vaults' :
        \/ w \in vaults
        \/ /\ w.info.conn = None /\ w.on_exit = None
           /\ w.status = "kStarting" /\ w.timer = "start"
  BY <1>1 DEF NewChild
<1>4. EveryVaultWatched'
  BY <1>3, ConstantsAssumption DEF SupInv, EveryVaultWatched
<1>5. HelloFresh'
  BY <1>3, ConstantsAssumption DEF SupInv, TypeOK, HelloFresh
<1> QED BY <1>2, <1>4, <1>5, Compose

\* The steps that leave the table and the processes alone.
LEMMA SameVaultsStep ==
  ASSUME SupInv, RestType', UNCHANGED <<vaults, proc>>, PostsUnconnected',
         expired \subseteq expired', hello' \subseteq hello,
         \A c \in Conns : conn[c] # "idle" => conn'[c] # "idle"
  PROVE  SupInv'
<1>1. Sound(vaults', proc')
  BY SoundIsInv
<1>2. EveryVaultWatched'
  BY DEF SupInv, TypeOK, Child, VaultInfo, EveryVaultWatched
<1>3. HelloFresh'
  BY DEF SupInv, TypeOK, HelloFresh
<1> QED BY <1>1, <1>2, <1>3, Compose

\* The steps that end vault v.
LEMMA ExitStep ==
  ASSUME SupInv, NEW v \in vaults, NEW terminate \in BOOLEAN,
         NEW pr \in ProcType, NEW cn \in ConnType, NEW gone \in SUBSET Conns,
         OnProcessExit(v, terminate, pr, cn),
         \A w \in vaults \ {v} : pr[w.pid] # "free",
         Covered(vaults, pr),
         terminate \/ pr[v.pid] \notin Live,
         \A c \in Conns \ gone : cn[c] = conn[c],
         \A c \in gone : v.info.conn = c /\ c \notin hello',
         hello' \subseteq hello, expired' \subseteq expired,
         \A l \in Labels, kind \in TimerKind :
           <<l, kind>> \in expired => <<l, kind>> \in expired' \/ l = v.info.label,
         peer' \in [Conns -> Pids \cup {None}], undelivered' \in Nat,
         sigWait' \in {"waiting", "queued", "cancelled"},
         UNCHANGED <<stopVars, crashed>>
  PROVE  SupInv'
<1>1. TypeOK /\ NoConflict /\ PidsOurs /\ PostsUnconnected
  BY DEF SupInv
<1>2. /\ Sound(vaults', proc')
      /\ \/ vaults' = vaults \ {v}
         \/ /\ v.on_exit # None
            /\ \E p \in Pids :
                 vaults' = (vaults \ {v}) \cup {NewChild(v.on_exit, 0, p)}
      /\ conn' \in ConnType
      /\ \A c \in Conns : cn[c] # "idle" => conn'[c] # "idle"
      /\ sigPending' \in BOOLEAN
      /\ posts' \subseteq [info : VaultInfo, restarts : Nat]
      /\ PostsUnconnected'
      /\ config' \in (SUBSET Labels) \cup {None}
  BY <1>1, OnProcessExitSound
<1>3. EveryVaultWatched' /\ HelloFresh'
  <2>1. \A c \in Conns \ gone : conn[c] # "idle" => conn'[c] # "idle"
    BY <1>2
  <2> QED BY <1>2, <2>1, ExitWatched
<1>4. RestType'
  <2>1. hello' \subseteq Conns /\ expired' \subseteq Labels \X TimerKind
    BY <1>1 DEF TypeOK
  <2>2. /\ stop' \in {"running", "closing", "stopping", "stopped"}
        /\ tear' \subseteq Conns \cup {None}
        /\ requests' \in 0 .. MaxRequests
        /\ crashed' \in BOOLEAN
    BY <1>1 DEF TypeOK, stopVars
  <2> QED BY <1>2, <2>1, <2>2 DEF RestType
<1> QED BY <1>2, <1>3, <1>4, Compose

\* The steps that rewrite vault v in place.
LEMMA ReplaceStep ==
  ASSUME SupInv, NEW v \in vaults, NEW w \in Child, RestType',
         vaults' = (vaults \ {v}) \cup {w}, UNCHANGED <<posts, proc, conn>>,
         w.pid = v.pid, w.info.label = v.info.label,
         w.info.pmid = v.info.pmid, w.info.dir = v.info.dir,
         w.info.conn = v.info.conn \/ \A u \in vaults : u.info.conn # w.info.conn,
         w.info.conn \notin hello', w.on_exit # None => w.on_exit.conn \notin hello',
         expired \subseteq expired', hello' \subseteq hello,
         IF w.status = "kRunning"
         THEN w.info.conn # None /\ conn[w.info.conn] # "idle"
         ELSE w.timer # None
              \/ \E kind \in TimerKind : <<w.info.label, kind>> \in expired'
  PROVE  SupInv'
<1>1. Sound(vaults', proc')
  BY ReplaceSound
<1>2. EveryVaultWatched'
  BY DEF SupInv, EveryVaultWatched
<1>3. HelloFresh'
  BY DEF SupInv, HelloFresh
<1>4. PostsUnconnected'
  BY DEF SupInv, PostsUnconnected
<1> QED BY <1>1, <1>2, <1>3, <1>4, Compose

-----------------------------------------------------------------------------
\* A manager that has just been constructed satisfies the invariant.
LEMMA SupInvInit == Init => SupInv
<1> SUFFICES ASSUME Init PROVE SupInv
  OBVIOUS
<1>1. TypeOK
  <2>1. /\ vaults \subseteq Child /\ hello \subseteq Conns
        /\ posts \subseteq [info : VaultInfo, restarts : Nat]
        /\ expired \subseteq Labels \X TimerKind
        /\ config \in (SUBSET Labels) \cup {None}
        /\ tear \subseteq Conns \cup {None}
    BY DEF Init
  <2>2. /\ proc \in [Pids -> Live \cup {"free", "zombie"}]
        /\ conn \in [Conns -> {"idle", "open", "closing"}]
        /\ peer \in [Conns -> Pids \cup {None}]
    BY DEF Init
  <2>3. /\ undelivered \in Nat
        /\ sigWait \in {"waiting", "queued", "cancelled"}
        /\ stop \in {"running", "closing", "stopping", "stopped"}
        /\ requests \in 0 .. MaxRequests
    BY ConstantsAssumption DEF Init
  <2>4. sigPending \in BOOLEAN /\ crashed \in BOOLEAN
    BY DEF Init
  <2> QED BY <2>1, <2>2, <2>3, <2>4 DEF TypeOK
<1>2. NoConflict /\ PidsOurs /\ NoOrphans
  BY DEF Init, NoConflict, PidsOurs, NoOrphans, Live
<1>3. EveryVaultWatched /\ HelloFresh /\ PostsUnconnected
  BY DEF Init, EveryVaultWatched, HelloFresh, PostsUnconnected
<1> QED BY <1>1, <1>2, <1>3 DEF SupInv

\* Every handler and every step of the environment keeps the invariant.
LEMMA SupInvNext == SupInv /\ [Next]_vars => SupInv'
<1> SUFFICES ASSUME SupInv, [Next]_vars PROVE SupInv'
  OBVIOUS
<1>0. /\ TypeOK /\ RestType /\ NoConflict /\ PidsOurs /\ NoOrphans
      /\ EveryVaultWatched /\ HelloFresh /\ PostsUnconnected
  BY Compose DEF SupInv
<1>1. ASSUME NEW l \in Labels, NEW d \in Dirs, NEW m \in Pmids, NEW o \in Owners,
             HandleStartVaultRequest(l, d, m, o)
      PROVE  SupInv'
  <2> DEFINE info == [label |-> l, dir |-> d, pmid |-> m, owner |-> o, conn |-> None]
  <2>1. info \in VaultInfo /\ info.conn = None
    BY DEF VaultInfo
  <2>2. /\ AddProcess(info, 0, vaults, proc) /\ WriteConfigFile(vaults')
        /\ requests < MaxRequests /\ requests' = requests + 1
        /\ UNCHANGED <<posts, expired, conn, peer, hello, sigVars, stop, tear, crashed>>
    BY <1>1 DEF HandleStartVaultRequest, HandleRequest
  <2> HIDE DEF info
  <2>3. config' \in (SUBSET Labels) \cup {None}
    <3>1. vaults' \subseteq Child
      BY <2>1, <2>2, SoundIsInv, AddProcessSound
    <3> QED BY <2>2, <3>1 DEF WriteConfigFile, GetAll, Child, VaultInfo
  <2>4. RestType' /\ PostsUnconnected'
    BY <1>0, <2>2, <2>3, ConstantsAssumption DEF RestType, sigVars, PostsUnconnected
  <2> QED BY <2>1, <2>2, <2>4, AddStep
<1>2. ASSUME NEW l \in Labels, NEW d \in Dirs, NEW m \in Pmids,
             CreateFirstVault(l, d, m)
      PROVE  SupInv'
  <2> DEFINE info == [label |-> l, dir |-> d, pmid |-> m, owner |-> None, conn |-> None]
  <2>1. info \in VaultInfo /\ info.conn = None
    BY DEF VaultInfo
  <2>2. /\ AddProcess(info, 0, vaults, proc) /\ config' = GetAll(vaults')
        /\ UNCHANGED <<posts, expired, conn, peer, hello, sigVars, stopVars, crashed>>
    BY <1>2 DEF CreateFirstVault
  <2> HIDE DEF info
  <2>3. config' \in (SUBSET Labels) \cup {None}
    <3>1. vaults' \subseteq Child
      BY <2>1, <2>2, SoundIsInv, AddProcessSound
    <3> QED BY <2>2, <3>1 DEF GetAll, Child, VaultInfo
  <2>4. RestType' /\ PostsUnconnected'
    BY <1>0, <2>2, <2>3 DEF RestType, sigVars, stopVars, PostsUnconnected
  <2> QED BY <2>1, <2>2, <2>4, AddStep
<1>3. ASSUME NEW v \in vaults, NEW o \in Owners, NEW d \in Dirs,
             ChangeChunkstorePath(v, d, o)
      PROVE  SupInv'
  <2> DEFINE w == Stopped(v, [v.info EXCEPT !.dir = d, !.owner = o])
  <2>1. /\ requests < MaxRequests /\ requests' = requests + 1
        /\ UNCHANGED <<posts, expired, config, proc, conn, peer, hello, sigVars, stop, tear>>
    BY <1>3 DEF ChangeChunkstorePath, HandleRequest
  <2>2. CASE crashed' = TRUE /\ UNCHANGED vaults
    <3>1. RestType' /\ PostsUnconnected'
      BY <1>0, <2>1, <2>2, ConstantsAssumption DEF RestType, sigVars, PostsUnconnected
    <3> QED BY <2>1, <2>2, <3>1, SameVaultsStep
  <2>3. CASE vaults' = (vaults \ {v}) \cup {w} /\ UNCHANGED crashed
    <3>1. RestType'
      BY <1>0, <2>1, <2>3, ConstantsAssumption DEF RestType, sigVars
    <3>2. v \in Child /\ v.info.conn \notin hello
      BY <1>0 DEF TypeOK, HelloFresh
    <3>3. /\ w \in Child /\ w.pid = v.pid /\ w.info = v.info
          /\ w.on_exit.conn = v.info.conn
          /\ w.status = "kStopping" /\ w.timer = "stop"
      BY <3>2 DEF Stopped, Child, VaultInfo, ProcessStatus, TimerKind
    <3> HIDE DEF w
    <3> QED BY <2>1, <2>3, <3>1, <3>2, <3>3, ReplaceStep, ConstantsAssumption
  <2> QED BY <1>3, <2>2, <2>3 DEF ChangeChunkstorePath
<1>4. ASSUME NEW v \in vaults, NEW o \in Owners, NEW usageChanged \in BOOLEAN,
             AssignOwner(v, o, usageChanged)
      PROVE  SupInv'
  <2> DEFINE w == [v EXCEPT !.info.owner = o]
  <2>1. /\ requests < MaxRequests /\ requests' = requests + 1
        /\ UNCHANGED <<posts, expired, proc, conn, peer, hello, sigVars, stop, tear>>
    BY <1>4 DEF AssignOwner, HandleRequest
  <2>2. CASE crashed' = TRUE /\ UNCHANGED <<vaults, config>>
    <3>1. RestType' /\ PostsUnconnected'
      BY <1>0, <2>1, <2>2, ConstantsAssumption DEF RestType, sigVars, PostsUnconnected
    <3> QED BY <2>1, <2>2, <3>1, SameVaultsStep
  <2>3. CASE /\ vaults' = (vaults \ {v}) \cup {w} /\ WriteConfigFile(vaults')
             /\ UNCHANGED crashed
    <3>1. v \in Child /\ v.info.conn \notin hello
          /\ (v.on_exit # None => v.on_exit.conn \notin hello)
      BY <1>0 DEF TypeOK, HelloFresh
    <3>2. /\ w \in Child /\ w.pid = v.pid /\ w.info.label = v.info.label
          /\ w.info.pmid = v.info.pmid /\ w.info.dir = v.info.dir
          /\ w.info.conn = v.info.conn /\ w.on_exit = v.on_exit
          /\ w.status = v.status /\ w.timer = v.timer
      BY <3>1 DEF Child, VaultInfo
    <3> HIDE DEF w
    <3>3. config' \in (SUBSET Labels) \cup {None}
      <4>1. vaults' \subseteq Child
        BY <1>0, <2>3, <3>2 DEF TypeOK
      <4> QED BY <2>3, <4>1 DEF WriteConfigFile, GetAll, Child, VaultInfo
    <3>4. RestType'
      <4>1. requests' \in 0 .. MaxRequests
        BY <1>0, <2>1, ConstantsAssumption DEF RestType
      <4> QED BY <1>0, <2>1, <2>3, <3>3, <4>1 DEF RestType, sigVars
    <3>5. IF w.status = "kRunning"
          THEN w.info.conn # None /\ conn[w.info.conn] # "idle"
          ELSE w.timer # None
               \/ \E kind \in TimerKind : <<w.info.label, kind>> \in expired'
      BY <1>0, <2>1, <3>2 DEF EveryVaultWatched
    <3> QED BY <2>1, <2>3, <3>1, <3>2, <3>4, <3>5, ReplaceStep
  <2> QED BY <1>4, <2>2, <2>3 DEF AssignOwner
<1>5. ASSUME NEW c \in Conns, HandleVaultStarted(c)
      PROVE  SupInv'
  <2>1. /\ c \in hello /\ hello' = hello \ {c}
        /\ UNCHANGED <<posts, expired, config, proc, conn, peer, sigVars, stopVars, crashed>>
    BY <1>5 DEF HandleVaultStarted
  <2>2. RestType' /\ PostsUnconnected'
    BY <1>0, <2>1 DEF RestType, sigVars, stopVars, PostsUnconnected
  <2>3. CASE UNCHANGED vaults
    BY <2>1, <2>2, <2>3, SameVaultsStep
  <2>4. ASSUME NEW v \in vaults,
               vaults' = (vaults \ {v}) \cup {[v EXCEPT !.timer = None, !.info.conn = c,
                                                       !.status = "kRunning"]}
        PROVE  SupInv'
    <3> DEFINE w == [v EXCEPT !.timer = None, !.info.conn = c, !.status = "kRunning"]
    <3>1. /\ v \in Child /\ conn[c] # "idle"
          /\ \A u \in vaults : u.info.conn # c
          /\ (v.on_exit # None => v.on_exit.conn \notin hello)
      BY <1>0, <2>1 DEF TypeOK, HelloFresh
    <3>2. /\ w \in Child /\ w.pid = v.pid /\ w.info.label = v.info.label
          /\ w.info.pmid = v.info.pmid /\ w.info.dir = v.info.dir
          /\ w.info.conn = c /\ w.on_exit = v.on_exit /\ w.status = "kRunning"
      BY <3>1 DEF Child, VaultInfo, ProcessStatus, TimerKind
    <3> HIDE DEF w
    <3>3. vaults' = (vaults \ {v}) \cup {w}
      BY <2>4 DEF w
    <3> QED BY <2>1, <2>2, <3>1, <3>2, <3>3, ReplaceStep, ConstantsAssumption
  <2> QED BY <1>5, <2>3, <2>4 DEF HandleVaultStarted
<1>6. ASSUME NEW c \in Conns, HandleConnectionClosed(c)
      PROVE  SupInv'
  <2> DEFINE cn == [conn EXCEPT ![c] = "idle"]
  <2>1. /\ conn[c] = "closing" /\ hello' = hello \ {c}
        /\ peer' = [peer EXCEPT ![c] = None]
        /\ UNCHANGED <<expired, undelivered, sigWait, stopVars, crashed>>
    BY <1>6 DEF HandleConnectionClosed
  <2>2. /\ \A b \in Conns \ {c} : cn[b] = conn[b]
        /\ peer' \in [Conns -> Pids \cup {None}]
        /\ undelivered' \in Nat /\ sigWait' \in {"waiting", "queued", "cancelled"}
    BY <1>0, <2>1 DEF TypeOK, ConnType, ProcType
  <2>3. cn \in ConnType /\ proc \in ProcType
    BY <1>0 DEF TypeOK, ConnType, ProcType
  <2>4. ASSUME NEW v \in vaults, v.info.conn = c, OnProcessExit(v, TRUE, proc, cn)
        PROVE  SupInv'
    <3>1. \A w \in vaults \ {v} : proc[w.pid] # "free"
      BY <1>0 DEF PidsOurs
    <3>2. Covered(vaults, proc)
      BY <1>0 DEF NoOrphans, Covered
    <3> DEFINE gone == {c}
    <3>3. /\ gone \in SUBSET Conns /\ \A b \in Conns \ gone : cn[b] = conn[b]
          /\ \A b \in gone : v.info.conn = b /\ b \notin hello'
      BY <2>1, <2>2, <2>4
    <3> HIDE DEF gone, cn
    <3> QED BY <2>1, <2>2, <2>3, <2>4, <3>1, <3>2, <3>3, ExitStep
  <2>5. ASSUME \A v \in vaults : v.info.conn # c, NoProcessExit(proc, cn)
        PROVE  SupInv'
    <3>1. /\ vaults' = vaults /\ proc' = proc /\ conn' = cn
          /\ UNCHANGED <<posts, config, sigPending>>
      BY <2>5 DEF NoProcessExit
    <3>2. RestType' /\ PostsUnconnected'
      BY <1>0, <2>1, <2>2, <2>3, <3>1 DEF RestType, stopVars, PostsUnconnected
    <3>3. EveryVaultWatched'
      BY <1>0, <2>1, <2>2, <2>5, <3>1 DEF EveryVaultWatched, TypeOK, Child, VaultInfo
    <3>4. HelloFresh'
      BY <1>0, <2>1, <2>2, <3>1 DEF HelloFresh, TypeOK
    <3> QED BY <3>1, <3>2, <3>3, <3>4, SoundIsInv, Compose
  <2> QED BY <1>6, <2>4, <2>5 DEF HandleConnectionClosed
<1>7. ASSUME NEW v \in vaults, TimerExpires(v)
      PROVE  SupInv'
  <2> DEFINE w == [v EXCEPT !.timer = None]
  <2>1. /\ v.timer # None /\ vaults' = (vaults \ {v}) \cup {w}
        /\ expired' = expired \cup {<<v.info.label, v.timer>>}
        /\ UNCHANGED <<posts, config, proc, conn, peer, hello, sigVars, stopVars, crashed>>
    BY <1>7 DEF TimerExpires
  <2>2. /\ v \in Child /\ v.info.label \in Labels /\ v.timer \in TimerKind
        /\ v.info.conn \notin hello
        /\ (v.on_exit # None => v.on_exit.conn \notin hello)
    BY <1>0, <2>1 DEF TypeOK, Child, VaultInfo, HelloFresh
  <2>3. /\ w \in Child /\ w.pid = v.pid /\ w.info = v.info
        /\ w.on_exit = v.on_exit /\ w.status = v.status
    BY <2>2 DEF Child, TimerKind
  <2> HIDE DEF w
  <2>4. RestType'
    BY <1>0, <2>1, <2>2 DEF RestType, sigVars, stopVars
  <2>5. IF w.status = "kRunning"
        THEN w.info.conn # None /\ conn[w.info.conn] # "idle"
        ELSE w.timer # None
             \/ \E kind \in TimerKind : <<w.info.label, kind>> \in expired'
    BY <1>0, <2>1, <2>2, <2>3 DEF EveryVaultWatched
  <2> QED BY <2>1, <2>2, <2>3, <2>4, <2>5, ReplaceStep
<1>8. ASSUME NEW l \in Labels, NEW kind \in TimerKind, TimerHandler(l, kind)
      PROVE  SupInv'
  <2>1. /\ expired' = expired \ {<<l, kind>>}
        /\ UNCHANGED <<peer, hello, undelivered, sigWait, stopVars, crashed>>
    BY <1>8 DEF TimerHandler
  <2>2. /\ conn \in ConnType /\ proc \in ProcType
        /\ peer' \in [Conns -> Pids \cup {None}]
        /\ undelivered' \in Nat /\ sigWait' \in {"waiting", "queued", "cancelled"}
    BY <1>0, <2>1 DEF TypeOK, ConnType, ProcType
  <2>3. ASSUME NEW v \in vaults, v.info.label = l, OnProcessExit(v, TRUE, proc, conn)
        PROVE  SupInv'
    <3>1. \A w \in vaults \ {v} : proc[w.pid] # "free"
      BY <1>0 DEF PidsOurs
    <3>2. Covered(vaults, proc)
      BY <1>0 DEF NoOrphans, Covered
    <3>3. \A k \in Labels, kk \in TimerKind :
            <<k, kk>> \in expired => <<k, kk>> \in expired' \/ k = v.info.label
      BY <2>1, <2>3
    <3> DEFINE gone == {}
    <3>4. /\ gone \in SUBSET Conns /\ \A b \in Conns \ gone : conn[b] = conn[b]
          /\ \A b \in gone : v.info.conn = b /\ b \notin hello'
      OBVIOUS
    <3> HIDE DEF gone
    <3> QED BY <2>1, <2>2, <2>3, <3>1, <3>2, <3>3, <3>4, ExitStep
  <2>4. ASSUME \A v \in vaults : v.info.label # l, NoProcessExit(proc, conn)
        PROVE  SupInv'
    <3>1. /\ vaults' = vaults /\ proc' = proc /\ conn' = conn
          /\ UNCHANGED <<posts, config, sigPending>>
      BY <2>4 DEF NoProcessExit
    <3>2. RestType' /\ PostsUnconnected'
      BY <1>0, <2>1, <3>1 DEF RestType, stopVars, PostsUnconnected
    <3>3. EveryVaultWatched'
      BY <1>0, <2>1, <2>4, <3>1 DEF EveryVaultWatched
    <3>4. HelloFresh'
      BY <1>0, <2>1, <3>1 DEF HelloFresh
    <3> QED BY <3>1, <3>2, <3>3, <3>4, SoundIsInv, Compose
  <2> QED BY <1>8, <2>3, <2>4 DEF TimerHandler
<1>9. ASSUME NEW r \in posts, RunRestart(r)
      PROVE  SupInv'
  <2>1. /\ posts' = posts \ {r}
        /\ UNCHANGED <<expired, config, conn, peer, hello, sigVars, stopVars, crashed>>
    BY <1>9 DEF RunRestart
  <2>2. RestType' /\ PostsUnconnected'
    BY <1>0, <2>1 DEF RestType, sigVars, stopVars, PostsUnconnected
  <2>3. r.info \in VaultInfo /\ r.restarts \in Nat /\ r.info.conn = None
    BY <1>0 DEF TypeOK, PostsUnconnected
  <2>4. CASE AddProcess(r.info, r.restarts, vaults, proc)
    BY <2>1, <2>2, <2>3, <2>4, AddStep
  <2>5. CASE AddProcessFails(vaults, proc)
    BY <2>1, <2>2, <2>5, SameVaultsStep DEF AddProcessFails
  <2> QED BY <1>9, <2>4, <2>5 DEF RunRestart
<1>10. ASSUME NEW p \in Pids, SignalHandler(p)
       PROVE  SupInv'
  <2> DEFINE pr == [proc EXCEPT ![p] = "free"]
  <2>1. /\ proc[p] = "zombie" /\ InitSignalHandler
        /\ UNCHANGED <<expired, peer, hello, stopVars, crashed>>
    BY <1>10 DEF SignalHandler
  <2>2. /\ conn \in ConnType /\ pr \in ProcType /\ pr[p] = "free"
        /\ \A q \in Pids \ {p} : pr[q] = proc[q]
        /\ peer' \in [Conns -> Pids \cup {None}]
    BY <1>0, <2>1 DEF TypeOK, ConnType, ProcType
  <2>3. undelivered' \in Nat /\ sigWait' \in {"waiting", "queued", "cancelled"}
    BY <1>0, <2>1 DEF TypeOK, InitSignalHandler
  <2>4. Covered(vaults, pr)
    BY <1>0, <2>2 DEF NoOrphans, Covered, Live
  <2>5. \A v \in vaults : v.pid \in Pids /\ (v.pid # p => pr[v.pid] # "free")
    BY <1>0, <2>2 DEF PidsOurs, TypeOK, Child
  <2> HIDE DEF pr
  <2>6. ASSUME NEW v \in vaults, v.pid = p, OnProcessExit(v, FALSE, pr, conn)
        PROVE  SupInv'
    <3>1. \A w \in vaults \ {v} : pr[w.pid] # "free"
      BY <1>0, <2>5, <2>6 DEF PidsOurs
    <3>2. pr[v.pid] \notin Live
      BY <2>2, <2>6 DEF Live
    <3> DEFINE gone == {}
    <3>3. /\ gone \in SUBSET Conns /\ \A b \in Conns \ gone : conn[b] = conn[b]
          /\ \A b \in gone : v.info.conn = b /\ b \notin hello'
      OBVIOUS
    <3> HIDE DEF gone
    <3> QED BY <2>1, <2>2, <2>3, <2>4, <2>6, <3>1, <3>2, <3>3, ExitStep
  <2>7. ASSUME \A v \in vaults : v.pid # p, NoProcessExit(pr, conn)
        PROVE  SupInv'
    <3>1. /\ vaults' = vaults /\ proc' = pr /\ conn' = conn
          /\ UNCHANGED <<posts, config, sigPending>>
      BY <2>7 DEF NoProcessExit
    <3>2. Sound(vaults', proc')
      BY <1>0, <2>2, <2>4, <2>5, <2>7, <3>1
         DEF Sound, TypeOK, NoConflict, PidsOurs, Distinct, Owned
    <3>3. RestType' /\ PostsUnconnected'
      BY <1>0, <2>1, <2>3, <3>1 DEF RestType, stopVars, PostsUnconnected
    <3>4. EveryVaultWatched' /\ HelloFresh'
      BY <1>0, <2>1, <3>1 DEF EveryVaultWatched, HelloFresh
    <3> QED BY <3>2, <3>3, <3>4, Compose
  <2> QED BY <1>10, <2>6, <2>7 DEF SignalHandler, pr
<1>11. ASSUME DeliverSignal
       PROVE  SupInv'
  <2>1. UNCHANGED <<supVars, proc, conn, peer, hello, stopVars, crashed>>
    BY <1>11 DEF DeliverSignal
  <2>2. /\ undelivered' \in Nat
        /\ sigWait' \in {"waiting", "queued", "cancelled"}
    BY <1>0, <1>11 DEF DeliverSignal, TypeOK
  <2>4. sigPending' \in BOOLEAN
    BY <1>11 DEF DeliverSignal
  <2>3. RestType' /\ PostsUnconnected'
    BY <1>0, <2>1, <2>2, <2>4 DEF RestType, supVars, stopVars, PostsUnconnected
  <2> QED BY <2>1, <2>3, SameVaultsStep DEF supVars
<1>12. ASSUME StopAll
       PROVE  SupInv'
  <2>1. /\ stop' = "stopped" /\ CloseNewConnections
        /\ UNCHANGED <<posts, expired, config, proc, peer, hello, sigPending,
                       undelivered, tear, requests>>
    BY <1>12 DEF StopAll
  <2>2. /\ conn' \in ConnType
        /\ \A c \in Conns : conn[c] # "idle" => conn'[c] # "idle"
    BY <1>0, <2>1 DEF CloseNewConnections, ConnType, TypeOK
  <2>3. /\ sigWait' \in {"waiting", "queued", "cancelled"}
        /\ crashed' \in BOOLEAN
    BY <1>0, <1>12 DEF StopAll, CancelSignals, TypeOK
  <2>4. RestType' /\ PostsUnconnected'
    BY <1>0, <2>1, <2>2, <2>3 DEF RestType, PostsUnconnected
  <2>5. CASE UNCHANGED vaults
    BY <2>1, <2>2, <2>4, <2>5, SameVaultsStep
  <2>6. CASE vaults' = {Stopped(v, None) : v \in vaults}
    <3>1. \A v \in vaults :
            /\ Stopped(v, None) \in Child
            /\ Stopped(v, None).info = v.info /\ Stopped(v, None).pid = v.pid
            /\ Stopped(v, None).on_exit = None
            /\ Stopped(v, None).status = "kStopping"
            /\ Stopped(v, None).timer = "stop"
      BY <1>0 DEF TypeOK, Stopped, Child, ProcessStatus, TimerKind
    <3>2. /\ \A w \in vaults' :
               /\ w \in Child /\ w.on_exit = None
               /\ w.status = "kStopping" /\ w.timer = "stop"
               /\ \E v \in vaults :
                    /\ w = Stopped(v, None)
                    /\ w.info = v.info /\ w.pid = v.pid
          /\ \A v \in vaults : \E w \in vaults' : w.pid = v.pid
      BY <2>6, <3>1
    <3>3. Distinct(vaults')
      BY <1>0, <3>2 DEF NoConflict, Distinct
    <3>4. Owned(vaults', proc')
      BY <1>0, <2>1, <3>2 DEF PidsOurs, Owned
    <3>5. Covered(vaults', proc')
      BY <1>0, <2>1, <3>2 DEF NoOrphans, Covered
    <3>6. Sound(vaults', proc')
      BY <1>0, <2>1, <3>2, <3>3, <3>4, <3>5 DEF Sound, TypeOK, ProcType
    <3>7. EveryVaultWatched'
      BY <3>2, ConstantsAssumption DEF EveryVaultWatched
    <3>8. HelloFresh'
      BY <1>0, <2>1, <2>2, <3>2 DEF HelloFresh, TypeOK
    <3> QED BY <2>4, <3>6, <3>7, <3>8, Compose
  <2> QED BY <1>12, <2>5, <2>6 DEF StopAll
<1>13. ASSUME TearDownWithInterval
       PROVE  SupInv'
  <2>1. /\ stop' = "closing" /\ CloseNewConnections
        /\ UNCHANGED <<supVars, proc, peer, hello, sigVars, tear, requests, crashed>>
    BY <1>13 DEF TearDownWithInterval
  <2>2. /\ conn' \in ConnType
        /\ \A c \in Conns : conn[c] # "idle" => conn'[c] # "idle"
    BY <1>0, <2>1 DEF CloseNewConnections, ConnType, TypeOK
  <2>3. RestType' /\ PostsUnconnected'
    BY <1>0, <2>1, <2>2 DEF RestType, supVars, sigVars, PostsUnconnected
  <2> QED BY <2>1, <2>2, <2>3, SameVaultsStep DEF supVars
<1>14. ASSUME StopAllWithInterval
       PROVE  SupInv'
  <2>1. /\ stop' = "stopping" /\ tear' = {v.info.conn : v \in vaults}
        /\ UNCHANGED <<supVars, proc, conn, peer, hello, sigVars, requests, crashed>>
    BY <1>14 DEF StopAllWithInterval
  <2>2. tear' \subseteq Conns \cup {None}
    BY <1>0, <2>1 DEF TypeOK, Child, VaultInfo
  <2>3. RestType' /\ PostsUnconnected'
    BY <1>0, <2>1, <2>2 DEF RestType, supVars, sigVars, PostsUnconnected
  <2> QED BY <2>1, <2>3, SameVaultsStep DEF supVars
<1>15. ASSUME NEW c \in Conns \cup {None}, StopProcess(c)
       PROVE  SupInv'
  <2>1. /\ tear' = tear \ {c}
        /\ UNCHANGED <<posts, expired, config, proc, conn, peer, hello, sigVars,
                       stop, requests>>
    BY <1>15 DEF StopProcess
  <2>2. RestType' /\ PostsUnconnected'
    <3>1. crashed' \in BOOLEAN
      BY <1>0, <1>15 DEF StopProcess, TypeOK
    <3> QED BY <1>0, <2>1, <3>1 DEF RestType, sigVars, PostsUnconnected
  <2>3. CASE UNCHANGED vaults
    BY <2>1, <2>2, <2>3, SameVaultsStep
  <2>4. ASSUME NEW v \in vaults, vaults' = (vaults \ {v}) \cup {Stopped(v, None)}
        PROVE  SupInv'
    <3> DEFINE w == Stopped(v, None)
    <3>1. v \in Child /\ v.info.conn \notin hello
      BY <1>0 DEF TypeOK, HelloFresh
    <3>2. /\ w \in Child /\ w.pid = v.pid /\ w.info = v.info
          /\ w.on_exit = None /\ w.status = "kStopping" /\ w.timer = "stop"
      BY <3>1 DEF Stopped, Child, ProcessStatus, TimerKind
    <3>3. vaults' = (vaults \ {v}) \cup {w}
      BY <2>4
    <3> HIDE DEF w
    <3> QED BY <2>1, <2>2, <3>1, <3>2, <3>3, ReplaceStep, ConstantsAssumption
  <2> QED BY <1>15, <2>3, <2>4 DEF StopProcess
<1>16. ASSUME StopAllWithIntervalEnds \/ UnlockedVaultsRace
       PROVE  SupInv'
  <2>1. UNCHANGED <<supVars, proc, conn, peer, hello, sigPending, undelivered,
                    tear, requests>>
    BY <1>16 DEF StopAllWithIntervalEnds, UnlockedVaultsRace, sigVars, stopVars
  <2>2. /\ stop' \in {"running", "closing", "stopping", "stopped"}
        /\ sigWait' \in {"waiting", "queued", "cancelled"}
        /\ crashed' \in BOOLEAN
    BY <1>0, <1>16 DEF StopAllWithIntervalEnds, UnlockedVaultsRace, CancelSignals,
                       TypeOK, sigVars, stopVars
  <2>3. RestType' /\ PostsUnconnected'
    BY <1>0, <2>1, <2>2 DEF RestType, supVars, PostsUnconnected
  <2> QED BY <2>1, <2>3, SameVaultsStep DEF supVars
<1>17. ASSUME NEW p \in Pids, NEW c \in Conns, VaultConnects(p, c)
       PROVE  SupInv'
  <2>1. /\ conn[c] = "idle" /\ ~Referenced(c)
        /\ proc[p] = "launched" /\ proc' = [proc EXCEPT ![p] = "linked"]
        /\ conn' = [conn EXCEPT ![c] = "open"]
        /\ peer' = [peer EXCEPT ![c] = p]
        /\ hello' = hello \cup {c}
        /\ UNCHANGED <<supVars, sigVars, stopVars, crashed>>
    BY <1>17 DEF VaultConnects
  <2>2. /\ conn' \in ConnType /\ conn'[c] = "open"
        /\ \A b \in Conns \ {c} : conn'[b] = conn[b]
    BY <1>0, <2>1 DEF TypeOK, ConnType
  <2>3. /\ proc' \in ProcType /\ proc'[p] = "linked"
        /\ \A q \in Pids \ {p} : proc'[q] = proc[q]
    BY <1>0, <2>1 DEF TypeOK, ProcType, Live
  <2>4. peer' \in [Conns -> Pids \cup {None}]
    BY <1>0, <2>1 DEF TypeOK
  <2>5. RestType' /\ PostsUnconnected'
    BY <1>0, <2>1, <2>2, <2>4 DEF RestType, supVars, sigVars, stopVars, PostsUnconnected
  <2>6. Sound(vaults', proc')
    <3>1. vaults' = vaults /\ vaults \subseteq Child
      BY <1>0, <2>1 DEF supVars, TypeOK
    <3>2. Distinct(vaults')
      BY <1>0, <3>1 DEF NoConflict, Distinct
    <3>3. Owned(vaults', proc')
      BY <1>0, <2>3, <3>1 DEF PidsOurs, Owned, Child
    <3>4. Covered(vaults', proc')
      BY <1>0, <2>1, <2>3, <3>1 DEF NoOrphans, Covered, Live
    <3> QED BY <2>3, <3>1, <3>2, <3>3, <3>4 DEF Sound
  <2>7. EveryVaultWatched'
    BY <1>0, <2>1, <2>2 DEF EveryVaultWatched, supVars, TypeOK, Child, VaultInfo
  <2>8. HelloFresh'
    BY <1>0, <2>1, <2>2 DEF HelloFresh, supVars, Referenced, TypeOK
  <2> QED BY <2>5, <2>6, <2>7, <2>8, Compose
<1>18. ASSUME NEW p \in Pids, VaultExits(p)
       PROVE  SupInv'
  <2>1. /\ proc[p] \in Live /\ proc' = [proc EXCEPT ![p] = "zombie"]
        /\ conn' = Hangup(conn, p) /\ sigPending' = TRUE
        /\ UNCHANGED <<supVars, peer, hello, undelivered, sigWait, stopVars, crashed>>
    BY <1>18 DEF VaultExits
  <2>2. /\ conn' \in ConnType
        /\ \A c \in Conns : conn[c] # "idle" => conn'[c] # "idle"
    BY <1>0, <2>1 DEF TypeOK, ConnType, Hangup
  <2>3. /\ proc' \in ProcType /\ proc'[p] = "zombie"
        /\ \A q \in Pids \ {p} : proc'[q] = proc[q]
    BY <1>0, <2>1 DEF TypeOK, ProcType
  <2>4. RestType' /\ PostsUnconnected'
    BY <1>0, <2>1, <2>2 DEF RestType, supVars, stopVars, PostsUnconnected
  <2>5. Sound(vaults', proc')
    <3>1. vaults' = vaults /\ vaults \subseteq Child
      BY <1>0, <2>1 DEF supVars, TypeOK
    <3>2. Distinct(vaults')
      BY <1>0, <3>1 DEF NoConflict, Distinct
    <3>3. Owned(vaults', proc')
      BY <1>0, <2>3, <3>1 DEF PidsOurs, Owned, Child
    <3>4. Covered(vaults', proc')
      BY <1>0, <2>3, <3>1 DEF NoOrphans, Covered, Live
    <3> QED BY <2>3, <3>1, <3>2, <3>3, <3>4 DEF Sound
  <2>6. EveryVaultWatched' /\ HelloFresh'
    BY <1>0, <2>1, <2>2 DEF EveryVaultWatched, HelloFresh, supVars, TypeOK, Child, VaultInfo
  <2> QED BY <2>4, <2>5, <2>6, Compose
<1>19. ASSUME NEW c \in Conns, ConnectionLost(c)
       PROVE  SupInv'
  <2>1. /\ conn' = [conn EXCEPT ![c] = "closing"]
        /\ UNCHANGED <<supVars, proc, peer, hello, sigVars, stopVars, crashed>>
    BY <1>19 DEF ConnectionLost
  <2>2. /\ conn' \in ConnType
        /\ \A b \in Conns : conn[b] # "idle" => conn'[b] # "idle"
    BY <1>0, <2>1 DEF TypeOK, ConnType
  <2>3. RestType' /\ PostsUnconnected'
    BY <1>0, <2>1, <2>2 DEF RestType, supVars, sigVars, stopVars, PostsUnconnected
  <2> QED BY <2>1, <2>2, <2>3, SameVaultsStep DEF supVars
<1>20. CASE UNCHANGED vars
  <2>1. RestType' /\ PostsUnconnected'
    BY <1>0, <1>20 DEF RestType, vars, PostsUnconnected
  <2> QED BY <1>20, <2>1, SameVaultsStep DEF vars
<1> QED
  BY <1>1, <1>2, <1>3, <1>4, <1>5, <1>6, <1>7, <1>8, <1>9, <1>10, <1>11, <1>12, <1>13,
     <1>14, <1>15, <1>16, <1>17, <1>18, <1>19, <1>20 DEF Next, TakeOwnership

\* For any number of vaults, processes, connections, restarts and requests: the
\* variables keep their types; no two vaults share a label, identity, directory
\* or connection; every pid in the table is the vault's own, unreaped process;
\* no vault process runs unsupervised; and every vault is watched by a timer or
\* a connection that will end it.
THEOREM SupervisorSafety ==
  Spec => [](TypeOK /\ NoConflict /\ PidsOurs /\ NoOrphans /\ EveryVaultWatched)
<1>1. SupInv => TypeOK /\ NoConflict /\ PidsOurs /\ NoOrphans /\ EveryVaultWatched
  BY DEF SupInv
<1> QED BY <1>1, SupInvInit, SupInvNext, PTL DEF Spec

\* Every handler leaves the supervisor's tables, and the processes, sockets and
\* signals it deals with, in states of their kind.
THEOREM SupervisorTypes == Spec => []TypeOK
  BY SupervisorSafety, PTL

\* No child has a pid that was reaped or that is another child's: a recycled pid
\* is never terminated.
THEOREM PidsAreOurs == Spec => []PidsOurs
  BY SupervisorSafety, PTL

\* No handler erases a child and leaves its process running.
THEOREM NoOrphanedProcess == Spec => []NoOrphans
  BY SupervisorSafety, PTL

\* No child is left without a timer, a queued time-out or a connection that will
\* end it.
THEOREM VaultsAreWatched == Spec => []EveryVaultWatched
  BY SupervisorSafety, PTL

-----------------------------------------------------------------------------
(* The signals still to be handled never outnumber the zombies. *)

ZombiesOf(pr) == {p \in Pids : pr[p] = "zombie"}

\* Ending a vault makes at most one zombie, and raises SIGCHLD only with it.
LEMMA ExitZombies ==
  ASSUME TypeOK, NEW v \in vaults, NEW terminate \in BOOLEAN, NEW pr \in ProcType,
         NEW cn, OnProcessExit(v, terminate, pr, cn)
  PROVE  \/ ZombiesOf(proc') = ZombiesOf(pr) /\ sigPending' = sigPending
         \/ \E q \in Pids : /\ q \notin ZombiesOf(pr)
                            /\ ZombiesOf(proc') = ZombiesOf(pr) \cup {q}
<1> DEFINE kill == terminate /\ pr[v.pid] \in Live
           pr1  == IF kill THEN [pr EXCEPT ![v.pid] = "zombie"] ELSE pr
           vs   == vaults \ {v}
<1>1. sigPending' = (sigPending \/ kill) /\ InvokeOnExitFunctor(v.on_exit, vs, pr1)
  BY DEF OnProcessExit
<1>2. v.pid \in Pids /\ pr1 \in ProcType
  BY DEF TypeOK, Child, ProcType
<1>3. ZombiesOf(proc') = ZombiesOf(pr1)
  <2> HIDE DEF pr1, vs
  <2>1. CASE proc' = pr1
    BY <2>1
  <2>2. ASSUME NEW p \in Pids, pr1[p] = "free", proc' = [pr1 EXCEPT ![p] = "launched"]
        PROVE  ZombiesOf(proc') = ZombiesOf(pr1)
    BY <1>2, <2>2 DEF ZombiesOf, ProcType
  <2> QED BY <1>1, <2>1, <2>2 DEF InvokeOnExitFunctor, AddProcess, AddProcessFails, PidFree
<1>4. CASE kill
  <2>1. v.pid \notin ZombiesOf(pr) /\ ZombiesOf(pr1) = ZombiesOf(pr) \cup {v.pid}
    BY <1>2, <1>4 DEF ZombiesOf, ProcType, Live
  <2> QED BY <1>2, <1>3, <2>1
<1>5. CASE ~kill
  <2>1. pr1 = pr
    BY <1>5
  <2>2. sigPending' = sigPending
    BY <1>1, <1>5 DEF TypeOK
  <2> QED BY <1>3, <2>1, <2>2
<1> QED BY <1>4, <1>5

\* The number of signals is a number.
LEMMA SignalsType == TypeOK => Signals \in Nat
<1> DEFINE a == IF sigPending THEN 1 ELSE 0
           b == IF sigWait = "queued" THEN 1 ELSE 0
<1>1. a \in Nat /\ b \in Nat
  OBVIOUS
<1>2. Signals = undelivered + a + b
  BY DEF Signals
<1>3. TypeOK => undelivered \in Nat
  BY DEF TypeOK
<1> HIDE DEF a, b
<1> QED BY <1>1, <1>2, <1>3

\* How the three kinds of step move the two counts.
LEMMA SignalCount ==
  ASSUME TypeOK, TypeOK', WaitNeverBlocks,
         \/ Zombies' = Zombies /\ Signals' <= Signals
         \/ \E q \in Pids : /\ q \notin Zombies /\ Zombies' = Zombies \cup {q}
                            /\ Signals' <= Signals + 1
         \/ \E q \in Pids : /\ q \in Zombies /\ Zombies' = Zombies \ {q}
                            /\ Signals' + 1 <= Signals
  PROVE  WaitNeverBlocks'
<1>1. IsFiniteSet(Zombies) /\ Cardinality(Zombies) \in Nat
  BY ConstantsAssumption, FS_Subset, FS_CardinalityType DEF Zombies
<1>2. Signals \in Nat /\ Signals' \in Nat
  <2>1. (TypeOK => Signals \in Nat)'
    BY SignalsType, PTL
  <2> QED BY <2>1, SignalsType
<1>3. CASE Zombies' = Zombies /\ Signals' <= Signals
  BY <1>1, <1>2, <1>3 DEF WaitNeverBlocks
<1>4. ASSUME NEW q \in Pids, q \notin Zombies, Zombies' = Zombies \cup {q},
             Signals' <= Signals + 1
      PROVE  WaitNeverBlocks'
  <2>1. Cardinality(Zombies') = Cardinality(Zombies) + 1
    BY <1>1, <1>4, FS_AddElement
  <2> QED BY <1>1, <1>2, <1>4, <2>1 DEF WaitNeverBlocks
<1>5. ASSUME NEW q \in Pids, q \in Zombies, Zombies' = Zombies \ {q},
             Signals' + 1 <= Signals
      PROVE  WaitNeverBlocks'
  <2>1. IsFiniteSet(Zombies') /\ Cardinality(Zombies') \in Nat
    BY <1>1, <1>5, FS_RemoveElement, FS_CardinalityType
  <2>2. q \notin Zombies' /\ Zombies = Zombies' \cup {q}
    BY <1>5
  <2>3. Cardinality(Zombies) = Cardinality(Zombies') + 1
    BY <2>1, <2>2, FS_AddElement
  <2>4. \A i, j, k, m \in Nat : i + 1 <= j /\ j <= k /\ k = m + 1 => i <= m
    OBVIOUS
  <2>5. Signals <= Cardinality(Zombies)
    BY DEF WaitNeverBlocks
  <2>6. Signals' <= Cardinality(Zombies')
    BY <1>1, <1>2, <1>5, <2>1, <2>3, <2>4, <2>5
  <2> QED BY <2>6 DEF WaitNeverBlocks
<1> QED BY <1>3, <1>4, <1>5

\* Launching a process makes no zombie.
LEMMA AddZombies ==
  ASSUME TypeOK, NEW info, NEW n, AddProcess(info, n, vaults, proc)
  PROVE  Zombies' = Zombies
<1>1. PICK p \in Pids : proc[p] = "free" /\ proc' = [proc EXCEPT ![p] = "launched"]
  BY DEF AddProcess, PidFree
<1> QED BY <1>1 DEF Zombies, TypeOK

\* The SIGCHLD handler always finds a zombie: its wait() never blocks the thread
\* that runs every other handler, however the exits and kills of vaults, merged
\* signals, shutdown and restarts interleave.
THEOREM WaitSafety == Spec => []WaitNeverBlocks
<1>1. Init => WaitNeverBlocks
  <2> SUFFICES ASSUME Init PROVE WaitNeverBlocks
    OBVIOUS
  <2>1. Zombies = {}
    BY DEF Init, Zombies
  <2>2. Signals = 0
    BY DEF Init, Signals
  <2> QED BY <2>1, <2>2, FS_EmptySet DEF WaitNeverBlocks
<1>2. TypeOK /\ TypeOK' /\ WaitNeverBlocks /\ [Next]_vars => WaitNeverBlocks'
  <2> SUFFICES ASSUME TypeOK, TypeOK', WaitNeverBlocks, [Next]_vars
               PROVE  WaitNeverBlocks'
    OBVIOUS
  <2> DEFINE Same == Zombies' = Zombies /\ Signals' <= Signals
             More == \E q \in Pids : /\ q \notin Zombies /\ Zombies' = Zombies \cup {q}
                                     /\ Signals' <= Signals + 1
             Less == \E q \in Pids : /\ q \in Zombies /\ Zombies' = Zombies \ {q}
                                     /\ Signals' + 1 <= Signals
  <2>1. proc \in ProcType /\ Zombies = ZombiesOf(proc) /\ Zombies' = ZombiesOf(proc')
    BY DEF TypeOK, ProcType, Zombies, ZombiesOf
  <2>2. Signals \in Nat /\ Signals' \in Nat
    <3>1. (TypeOK => Signals \in Nat)'
      BY SignalsType, PTL
    <3> QED BY <3>1, SignalsType
  <2>3. ASSUME UNCHANGED <<proc, sigVars>> PROVE Same
    BY <2>2, <2>3 DEF Zombies, Signals, sigVars
  <2>4. ASSUME NEW info, NEW n, AddProcess(info, n, vaults, proc), UNCHANGED sigVars
        PROVE  Same
    BY <2>2, <2>4, AddZombies DEF Signals, sigVars
  <2>5. ASSUME NEW v \in vaults, NEW cn, OnProcessExit(v, TRUE, proc, cn),
               UNCHANGED <<undelivered, sigWait>>
        PROVE  Same \/ More
    <3>1. \/ Zombies' = Zombies /\ sigPending' = sigPending
          \/ \E q \in Pids : q \notin Zombies /\ Zombies' = Zombies \cup {q}
      BY <2>1, <2>5, ExitZombies
    <3>2. Signals' <= Signals + 1
      BY <2>5 DEF Signals, TypeOK
    <3>3. sigPending' = sigPending => Signals' <= Signals
      BY <2>2, <2>5 DEF Signals
    <3> QED BY <3>1, <3>2, <3>3
  <2>6. ASSUME NEW cn, NoProcessExit(proc, cn), UNCHANGED <<undelivered, sigWait>>
        PROVE  Same
    BY <2>2, <2>6 DEF NoProcessExit, Zombies, Signals
  <2>7. ASSUME NEW p \in Pids, SignalHandler(p) PROVE Less
    <3> DEFINE pr == [proc EXCEPT ![p] = "free"]
    <3>1. /\ pr \in ProcType /\ p \in Zombies
          /\ ZombiesOf(pr) = Zombies \ {p} /\ pr[p] \notin Live
      BY <2>1, <2>7 DEF SignalHandler, ZombiesOf, ProcType, Live
    <3>2. Zombies' = Zombies \ {p} /\ sigPending' = sigPending
      <4>1. ASSUME NEW v \in vaults, v.pid = p, OnProcessExit(v, FALSE, pr, conn)
            PROVE  Zombies' = Zombies \ {p} /\ sigPending' = sigPending
        <5>1. /\ InvokeOnExitFunctor(v.on_exit, vaults \ {v}, pr)
              /\ sigPending' = sigPending
          BY <4>1 DEF OnProcessExit, TypeOK
        <5> HIDE DEF pr
        <5>2. ASSUME NEW q \in Pids, pr[q] = "free", proc' = [pr EXCEPT ![q] = "launched"]
              PROVE  ZombiesOf(proc') = ZombiesOf(pr)
          BY <3>1, <5>2 DEF ZombiesOf, ProcType
        <5>3. ZombiesOf(proc') = ZombiesOf(pr)
          BY <5>1, <5>2 DEF InvokeOnExitFunctor, AddProcess, AddProcessFails, PidFree
        <5> QED BY <2>1, <3>1, <5>1, <5>3
      <4>2. ASSUME NoProcessExit(pr, conn)
            PROVE  Zombies' = Zombies \ {p} /\ sigPending' = sigPending
        BY <2>1, <3>1, <4>2 DEF NoProcessExit
      <4> QED BY <2>7, <4>1, <4>2 DEF SignalHandler
    <3>3. sigWait = "queued" /\ InitSignalHandler
      BY <2>7 DEF SignalHandler
    <3>4. Signals' + 1 <= Signals
      BY <3>2, <3>3 DEF Signals, InitSignalHandler, TypeOK
    <3> QED BY <3>1, <3>2, <3>4
  <2>8. ASSUME DeliverSignal PROVE Same
    <3>1. UNCHANGED proc /\ sigPending /\ sigPending' = FALSE
      BY <2>8 DEF DeliverSignal
    <3>2. undelivered \in Nat
      BY DEF TypeOK
    <3>3. \/ sigWait = "waiting" /\ sigWait' = "queued" /\ undelivered' = undelivered
          \/ sigWait' = sigWait /\ undelivered' = undelivered + 1
      BY <2>8 DEF DeliverSignal
    <3>4. Signals' <= Signals
      BY <3>1, <3>2, <3>3 DEF Signals
    <3> QED BY <3>1, <3>4 DEF Zombies
  <2>9. ASSUME UNCHANGED <<proc, sigPending, undelivered>>, CancelSignals PROVE Same
    BY <2>2, <2>9 DEF Zombies, Signals, CancelSignals
  <2>10. ASSUME NEW p \in Pids, VaultExits(p) PROVE More
    <3>1. p \notin Zombies /\ Zombies' = Zombies \cup {p}
      BY <2>10 DEF VaultExits, Zombies, TypeOK, Live
    <3>2. Signals' <= Signals + 1
      BY <2>10 DEF VaultExits, Signals, TypeOK
    <3> QED BY <3>1, <3>2
  <2>11. ASSUME NEW p \in Pids, NEW c \in Conns, VaultConnects(p, c) PROVE Same
    <3>1. Zombies' = Zombies
      BY <2>11 DEF VaultConnects, Zombies, TypeOK
    <3>2. Signals' = Signals
      BY <2>11 DEF VaultConnects, Signals, sigVars
    <3> QED BY <2>2, <3>1, <3>2
  <2>12. Same \/ More \/ Less
    <3> HIDE DEF Same, More, Less
    <3>1. CASE UNCHANGED vars
      BY <2>3, <3>1 DEF vars, sigVars
    <3>2. CASE \E l \in Labels, d \in Dirs, m \in Pmids :
                 \/ CreateFirstVault(l, d, m)
                 \/ \E o \in Owners : HandleStartVaultRequest(l, d, m, o)
      BY <2>4, <3>2 DEF CreateFirstVault, HandleStartVaultRequest
    <3>3. CASE TakeOwnership
      BY <2>3, <3>3 DEF TakeOwnership, ChangeChunkstorePath, AssignOwner
    <3>4. CASE \E c \in Conns : HandleVaultStarted(c)
      BY <2>3, <3>4 DEF HandleVaultStarted
    <3>5. CASE \E c \in Conns : HandleConnectionClosed(c)
      BY <2>5, <2>6, <3>5 DEF HandleConnectionClosed
    <3>6. CASE \E v \in vaults : TimerExpires(v)
      BY <2>3, <3>6 DEF TimerExpires
    <3>7. CASE \E l \in Labels, kind \in TimerKind : TimerHandler(l, kind)
      BY <2>5, <2>6, <3>7 DEF TimerHandler
    <3>8. CASE \E r \in posts : RunRestart(r)
      BY <2>3, <2>4, <3>8 DEF RunRestart, AddProcessFails
    <3>9. CASE StopAll
      <4>1. CASE UNCHANGED sigWait
        BY <2>3, <3>9, <4>1 DEF StopAll, sigVars
      <4>2. CASE CancelSignals
        BY <2>9, <3>9, <4>2 DEF StopAll
      <4> QED BY <3>9, <4>1, <4>2 DEF StopAll
    <3>10. CASE TearDownWithInterval \/ StopAllWithInterval \/ UnlockedVaultsRace
      BY <2>3, <3>10 DEF TearDownWithInterval, StopAllWithInterval, UnlockedVaultsRace
    <3>11. CASE \E c \in Conns \cup {None} : StopProcess(c)
      BY <2>3, <3>11 DEF StopProcess
    <3>12. CASE StopAllWithIntervalEnds
      BY <2>9, <3>12 DEF StopAllWithIntervalEnds
    <3>13. CASE \E c \in Conns : ConnectionLost(c)
      BY <2>3, <3>13 DEF ConnectionLost
    <3> QED BY <2>7, <2>8, <2>10, <2>11, <3>1, <3>2, <3>3, <3>4, <3>5, <3>6, <3>7, <3>8,
               <3>9, <3>10, <3>11, <3>12, <3>13 DEF Next
  <2> QED BY <2>12, SignalCount
<1>3. Spec => []TypeOK
  BY SupervisorSafety, PTL
<1> QED BY <1>1, <1>2, <1>3, PTL DEF Spec

-----------------------------------------------------------------------------
(* The manager implements the abstract supervisor. *)

\* A functor that moves a vault keeps its label, and a restart that was posted is
\* one of the first kMaxVaultRestarts.
ExitKeepsLabel ==
  \A v \in vaults : v.on_exit # None => v.on_exit.label = v.info.label

PostsCounted == \A r \in posts : r.restarts \in 1 .. MaxVaultRestarts

PromisedOf(l) == {r.restarts : r \in {q \in posts : q.info.label = l}}

\* The children of a table that have a label, and what the abstract supervisor
\* sees of them.
In(vs, l) == {v \in vs : v.info.label = l}
StatusIn(vs, l) ==
  IF In(vs, l) = {} THEN "absent" ELSE (CHOOSE v \in In(vs, l) : TRUE).status
RestartsIn(vs, l) ==
  IF In(vs, l) = {} THEN 0 ELSE (CHOOSE v \in In(vs, l) : TRUE).restarts

\* The refinement mapping, as a function of the table before and after a step.
LEMMA SeenIn ==
  /\ \A l : StateOf(l) = StatusIn(vaults, l) /\ RestartsOf(l) = RestartsIn(vaults, l)
  /\ \A l : StateOf(l)' = StatusIn(vaults', l) /\ RestartsOf(l)' = RestartsIn(vaults', l)
  BY DEF StateOf, RestartsOf, Labelled, StatusIn, RestartsIn, In

\* In a table without conflicts a label stands for one child.
LEMMA OnlyOne ==
  ASSUME NEW vs, Distinct(vs), NEW v \in vs
  PROVE  /\ StatusIn(vs, v.info.label) = v.status
         /\ RestartsIn(vs, v.info.label) = v.restarts
<1>1. In(vs, v.info.label) = {v}
  BY DEF Distinct, In
<1>2. (CHOOSE w \in {v} : TRUE) = v
  OBVIOUS
<1> QED
  BY <1>1, <1>2 DEF StatusIn, RestartsIn

\* A label without a child is absent.
LEMMA NoneThere ==
  ASSUME NEW vs, NEW l, \A v \in vs : v.info.label # l
  PROVE  StatusIn(vs, l) = "absent" /\ RestartsIn(vs, l) = 0
<1>1. In(vs, l) = {}
  BY DEF In
<1> QED
  BY <1>1 DEF StatusIn, RestartsIn

\* A label whose children are the same in two tables looks the same.
LEMMA SameThere ==
  ASSUME NEW vs, NEW ws, NEW l, In(vs, l) = In(ws, l)
  PROVE  StatusIn(vs, l) = StatusIn(ws, l) /\ RestartsIn(vs, l) = RestartsIn(ws, l)
  BY DEF StatusIn, RestartsIn

\* What a step does to the vaults with other labels than l.
OthersKept(l) ==
  \A k \in Labels \ {l} : StateOf(k)' = StateOf(k) /\ RestartsOf(k)' = RestartsOf(k)

\* The steps of the abstract supervisor, label by label.
LEMMA AbstractStart ==
  ASSUME NEW l \in Labels, StateOf(l) = "absent", StateOf(l)' = "kStarting",
         RestartsOf(l)' = 0, OthersKept(l), UNCHANGED posts
  PROVE  Abstract!Next
<1>1. Abstract!Start(l)
  BY DEF Abstract!Start, Abstract!Appear, OthersKept
<1> QED
  BY <1>1 DEF Abstract!Next

\* The vault says that it runs.
LEMMA AbstractRun ==
  ASSUME NEW l \in Labels, StateOf(l) # "absent", StateOf(l)' = "kRunning",
         RestartsOf(l)' = RestartsOf(l), OthersKept(l), UNCHANGED posts
  PROVE  Abstract!Next
<1>1. Abstract!Run(l)
  BY DEF Abstract!Run, OthersKept
<1> QED
  BY <1>1 DEF Abstract!Next

\* Vaults are told to stop.
LEMMA AbstractStop ==
  ASSUME NEW ls \in SUBSET Labels, UNCHANGED posts,
         \A l \in ls : StateOf(l) # "absent" /\ StateOf(l)' = "kStopping",
         \A l \in Labels \ ls : StateOf(l)' = StateOf(l),
         \A l \in Labels : RestartsOf(l)' = RestartsOf(l)
  PROVE  Abstract!Next
<1>1. Abstract!Stop(ls)
  BY DEF Abstract!Stop
<1> QED
  BY <1>1 DEF Abstract!Next

\* A vault ends, and its restart is promised unless it may not have one.
LEMMA AbstractEnd ==
  ASSUME NEW l \in Labels, StateOf(l) # "absent", StateOf(l)' \in {"absent", "kStarting"},
         RestartsOf(l)' = 0, OthersKept(l),
         \A k \in Labels : PromisedOf(k)' =
           IF k = l /\ StateOf(l) # "kStopping" /\ RestartsOf(l) < MaxVaultRestarts
           THEN PromisedOf(l) \cup {RestartsOf(l) + 1} ELSE PromisedOf(k)
  PROVE  Abstract!Next
<1>1. Abstract!End(l)
  BY DEF Abstract!End, Abstract!Appear, Abstract!Disappear, Abstract!PromiseRestart,
         OthersKept, PromisedOf
<1> QED
  BY <1>1 DEF Abstract!Next

\* A promise is kept or broken.
LEMMA AbstractRestart ==
  ASSUME NEW l \in Labels, NEW n \in 1 .. MaxVaultRestarts, n \in PromisedOf(l),
         OthersKept(l),
         \/ StateOf(l) = "absent" /\ StateOf(l)' = "kStarting" /\ RestartsOf(l)' = n
         \/ StateOf(l)' = StateOf(l) /\ RestartsOf(l)' = RestartsOf(l),
         PromisedOf(l)' \in {PromisedOf(l), PromisedOf(l) \ {n}},
         \A k \in Labels \ {l} : PromisedOf(k)' = PromisedOf(k)
  PROVE  Abstract!Next
<1> DEFINE state == [k \in Labels |-> StateOf(k)]
           restarts == [k \in Labels |-> RestartsOf(k)]
           promised == [k \in Labels |-> PromisedOf(k)]
<1>2. promised' \in {promised, [promised EXCEPT ![l] = @ \ {n}]}
  <2>1. CASE PromisedOf(l)' = PromisedOf(l)
    BY <2>1
  <2>2. CASE PromisedOf(l)' = PromisedOf(l) \ {n}
    <3>1. promised' = [promised EXCEPT ![l] = @ \ {n}]
      BY <2>2
    <3> QED
      BY <3>1
  <2> QED
    BY <2>1, <2>2
<1>3. \/ /\ state[l] = "absent" /\ state' = [state EXCEPT ![l] = "kStarting"]
         /\ restarts' = [restarts EXCEPT ![l] = n]
      \/ state' = state /\ restarts' = restarts
  <2>1. CASE StateOf(l) = "absent" /\ StateOf(l)' = "kStarting" /\ RestartsOf(l)' = n
    BY <2>1 DEF OthersKept
  <2>2. CASE StateOf(l)' = StateOf(l) /\ RestartsOf(l)' = RestartsOf(l)
    BY <2>2 DEF OthersKept
  <2> QED
    BY <2>1, <2>2
<1>4. n \in promised[l]
  OBVIOUS
<1>1. Abstract!Restart(l, n)
  BY <1>2, <1>3, <1>4 DEF Abstract!Restart, Abstract!Appear, PromisedOf
<1> QED
  BY <1>1 DEF Abstract!Next

\* Nothing the abstract supervisor sees has changed.
LEMMA AbstractStutter ==
  ASSUME UNCHANGED posts,
         \A l \in Labels : StateOf(l)' = StateOf(l) /\ RestartsOf(l)' = RestartsOf(l)
  PROVE  UNCHANGED Abstract!vars
  BY DEF Abstract!vars

RefInv == ExitKeepsLabel /\ PostsCounted

Simulated == Abstract!Next \/ UNCHANGED Abstract!vars

\* What the refinement takes from SupInv.
LEMMA Tables ==
  /\ SupInv => Distinct(vaults) /\ vaults \subseteq Child
  /\ SupInv' => Distinct(vaults') /\ vaults' \subseteq Child
  BY DEF SupInv, TypeOK, NoConflict, Distinct

\* A child is rewritten in place, added or removed: only its label is concerned.
LEMMA ReplaceSeen ==
  ASSUME Distinct(vaults), Distinct(vaults'), NEW v \in vaults, NEW w,
         w.info.label = v.info.label, vaults' = (vaults \ {v}) \cup {w}
  PROVE  /\ OthersKept(v.info.label)
         /\ StateOf(v.info.label) = v.status /\ RestartsOf(v.info.label) = v.restarts
         /\ StateOf(v.info.label)' = w.status /\ RestartsOf(v.info.label)' = w.restarts
<1>1. ASSUME NEW k \in Labels \ {v.info.label} PROVE In(vaults', k) = In(vaults, k)
  BY <1>1 DEF In
<1>2. OthersKept(v.info.label)
  BY <1>1, SameThere, SeenIn DEF OthersKept
<1>3. w \in vaults'
  OBVIOUS
<1>4. /\ StatusIn(vaults', v.info.label) = w.status
      /\ RestartsIn(vaults', v.info.label) = w.restarts
  BY <1>3, OnlyOne
<1> QED
  BY <1>2, <1>4, OnlyOne, SeenIn

\* A child with a new label appears.
LEMMA AddSeen ==
  ASSUME Distinct(vaults'), NEW w, \A u \in vaults : u.info.label # w.info.label,
         vaults' = vaults \cup {w}
  PROVE  /\ OthersKept(w.info.label)
         /\ StateOf(w.info.label) = "absent" /\ RestartsOf(w.info.label) = 0
         /\ StateOf(w.info.label)' = w.status /\ RestartsOf(w.info.label)' = w.restarts
<1>1. ASSUME NEW k \in Labels \ {w.info.label} PROVE In(vaults', k) = In(vaults, k)
  BY <1>1 DEF In
<1>2. OthersKept(w.info.label)
  BY <1>1, SameThere, SeenIn DEF OthersKept
<1>3. w \in vaults'
  OBVIOUS
<1> QED
  BY <1>2, <1>3, OnlyOne, NoneThere, SeenIn

\* A child disappears.
LEMMA RemoveSeen ==
  ASSUME Distinct(vaults), NEW v \in vaults, vaults' = vaults \ {v}
  PROVE  /\ OthersKept(v.info.label)
         /\ StateOf(v.info.label) = v.status /\ RestartsOf(v.info.label) = v.restarts
         /\ StateOf(v.info.label)' = "absent" /\ RestartsOf(v.info.label)' = 0
<1>1. ASSUME NEW k \in Labels \ {v.info.label} PROVE In(vaults', k) = In(vaults, k)
  BY <1>1 DEF In
<1>2. OthersKept(v.info.label)
  BY <1>1, SameThere, SeenIn DEF OthersKept
<1>3. \A u \in vaults' : u.info.label # v.info.label
  BY DEF Distinct
<1> QED
  BY <1>2, <1>3, OnlyOne, NoneThere, SeenIn

\* Steps that leave every child's label, status and count alone.
LEMMA SameVaultsSeen ==
  ASSUME RefInv, UNCHANGED <<vaults, posts>>
  PROVE  RefInv' /\ Simulated
<1>1. \A l \in Labels : StateOf(l)' = StateOf(l) /\ RestartsOf(l)' = RestartsOf(l)
  BY SeenIn
<1> QED
  BY <1>1, AbstractStutter DEF RefInv, ExitKeepsLabel, PostsCounted, Simulated

\* A child is rewritten: what it is told or says is a step of the abstract vault.
LEMMA RewriteSeen ==
  ASSUME SupInv, SupInv', RefInv, NEW v \in vaults, NEW w, UNCHANGED posts,
         w.info.label = v.info.label, vaults' = (vaults \ {v}) \cup {w},
         w.restarts = v.restarts, w.status \in {v.status, "kRunning", "kStopping"},
         w.on_exit # None => w.on_exit.label = w.info.label
  PROVE  RefInv' /\ Simulated
<1> DEFINE l == v.info.label
<1>1. /\ OthersKept(l) /\ StateOf(l) = v.status /\ RestartsOf(l) = v.restarts
      /\ StateOf(l)' = w.status /\ RestartsOf(l)' = w.restarts
  BY Tables, ReplaceSeen
<1>2. l \in Labels /\ v.status # "absent"
  BY Tables DEF Child, VaultInfo, ProcessStatus
<1> HIDE DEF l
<1>3. RefInv'
  BY DEF RefInv, ExitKeepsLabel, PostsCounted
<1>4. CASE w.status = v.status
  <2>1. \A k \in Labels : StateOf(k)' = StateOf(k) /\ RestartsOf(k)' = RestartsOf(k)
    BY <1>1, <1>4 DEF OthersKept
  <2> QED
    BY <1>3, <2>1, AbstractStutter DEF Simulated
<1>5. CASE w.status = "kRunning"
  BY <1>1, <1>2, <1>3, <1>5, AbstractRun DEF Simulated
<1>6. CASE w.status = "kStopping"
  <2> DEFINE ls == {l}
  <2>1. /\ ls \in SUBSET Labels
        /\ \A k \in ls : StateOf(k) # "absent" /\ StateOf(k)' = "kStopping"
        /\ \A k \in Labels \ ls : StateOf(k)' = StateOf(k)
        /\ \A k \in Labels : RestartsOf(k)' = RestartsOf(k)
    BY <1>1, <1>2, <1>6 DEF OthersKept
  <2> HIDE DEF ls
  <2> QED
    BY <1>3, <2>1, AbstractStop DEF Simulated
<1> QED
  BY <1>4, <1>5, <1>6

\* A client asks for a vault.
LEMMA RequestSeen ==
  ASSUME SupInv, SupInv', RefInv, NEW info \in VaultInfo, UNCHANGED posts,
         AddProcess(info, 0, vaults, proc)
  PROVE  RefInv' /\ Simulated
<1>1. PICK p \in Pids : vaults' = vaults \cup {NewChild(info, 0, p)}
  BY DEF AddProcess
<1> DEFINE w == NewChild(info, 0, p)
<1>2. /\ w.info = info /\ w.status = "kStarting" /\ w.restarts = 0 /\ w.on_exit = None
      /\ w.info.label \in Labels
  BY DEF NewChild, VaultInfo
<1>3. \A u \in vaults : u.info.label # w.info.label
  BY <1>2 DEF AddProcess, CanAdd, CheckNewVaultDoesntConflict
<1>4. vaults' = vaults \cup {w}
  BY <1>1
<1> HIDE DEF w
<1>5. RefInv'
  BY <1>2, <1>4 DEF RefInv, ExitKeepsLabel, PostsCounted
<1>6. Abstract!Next
  BY <1>2, <1>3, <1>4, Tables, AddSeen, AbstractStart
<1> QED
  BY <1>5, <1>6 DEF Simulated

\* A vault ends, whoever reports it: the functor may put another in its place, and
\* a restart may be promised.
LEMMA ExitSeen ==
  ASSUME SupInv, SupInv', RefInv, NEW v \in vaults, NEW terminate, NEW pr, NEW cn,
         OnProcessExit(v, terminate, pr, cn)
  PROVE  RefInv' /\ Simulated
<1> DEFINE l == v.info.label
           again == v.status # "kStopping" /\ v.restarts < MaxVaultRestarts
           r == [info |-> [v.info EXCEPT !.conn = None], restarts |-> v.restarts + 1]
<1>1. /\ v \in Child /\ v.info \in VaultInfo /\ l \in Labels /\ v.restarts \in Nat
      /\ v.status # "absent"
  BY Tables DEF Child, VaultInfo, ProcessStatus
<1>2. /\ \/ vaults' = vaults \ {v}
         \/ v.on_exit # None /\ \E p \in Pids :
              vaults' = (vaults \ {v}) \cup {NewChild(v.on_exit, 0, p)}
      /\ posts' = IF again THEN posts \cup {r} ELSE posts
  BY DEF OnProcessExit, InvokeOnExitFunctor, AddProcess, AddProcessFails, RestartIfRequired
<1>3. r.info.label = l /\ r.restarts = v.restarts + 1
  BY <1>1 DEF VaultInfo
<1>4. again => v.restarts + 1 \in 1 .. MaxVaultRestarts
  BY <1>1, ConstantsAssumption
<1>5. PostsCounted'
  <2> HIDE DEF r, again
  <2> QED
    BY <1>2, <1>3, <1>4 DEF RefInv, PostsCounted
<1>6. /\ ExitKeepsLabel' /\ OthersKept(l) /\ RestartsOf(l)' = 0
      /\ StateOf(l) = v.status /\ RestartsOf(l) = v.restarts
      /\ StateOf(l)' \in {"absent", "kStarting"}
  <2>1. CASE vaults' = vaults \ {v}
    BY <2>1, Tables, RemoveSeen DEF RefInv, ExitKeepsLabel
  <2>2. ASSUME v.on_exit # None, NEW p \in Pids,
               vaults' = (vaults \ {v}) \cup {NewChild(v.on_exit, 0, p)}
        PROVE  /\ ExitKeepsLabel' /\ OthersKept(l) /\ RestartsOf(l)' = 0
               /\ StateOf(l) = v.status /\ RestartsOf(l) = v.restarts
               /\ StateOf(l)' \in {"absent", "kStarting"}
    <3> DEFINE w == NewChild(v.on_exit, 0, p)
    <3>1. /\ w.info.label = v.info.label /\ w.status = "kStarting" /\ w.restarts = 0
          /\ w.on_exit = None
      BY <2>2 DEF NewChild, RefInv, ExitKeepsLabel
    <3>2. vaults' = (vaults \ {v}) \cup {w}
      BY <2>2
    <3> HIDE DEF w
    <3>3. ExitKeepsLabel'
      BY <3>1, <3>2 DEF RefInv, ExitKeepsLabel
    <3> QED
      BY <3>1, <3>2, <3>3, Tables, ReplaceSeen
  <2> QED
    BY <1>2, <2>1, <2>2
<1>7. \A k \in Labels : PromisedOf(k)' =
        IF k = l /\ StateOf(l) # "kStopping" /\ RestartsOf(l) < MaxVaultRestarts
        THEN PromisedOf(l) \cup {RestartsOf(l) + 1} ELSE PromisedOf(k)
  <2>1. again <=> StateOf(l) # "kStopping" /\ RestartsOf(l) < MaxVaultRestarts
    BY <1>6
  <2> HIDE DEF r, again, l
  <2>2. CASE ~again
    BY <1>2, <2>1, <2>2 DEF PromisedOf
  <2>3. CASE again
    <3>1. PromisedOf(l)' = PromisedOf(l) \cup {v.restarts + 1}
      BY <1>2, <1>3, <2>3 DEF PromisedOf
    <3>2. \A k \in Labels \ {l} : PromisedOf(k)' = PromisedOf(k)
      BY <1>2, <1>3, <2>3 DEF PromisedOf
    <3> QED
      BY <1>6, <2>1, <2>3, <3>1, <3>2
  <2> QED
    BY <2>2, <2>3
<1> HIDE DEF l, r, again
<1>8. Abstract!Next
  BY <1>1, <1>6, <1>7, AbstractEnd
<1> QED
  BY <1>5, <1>6, <1>8 DEF RefInv, Simulated

\* A posted restart runs: it is kept, or dropped when the vault cannot be added.
\* Another post may have its number, and then the promise stays.
LEMMA RestartSeen ==
  ASSUME SupInv, SupInv', RefInv, NEW r \in posts, posts' = posts \ {r},
         AddProcess(r.info, r.restarts, vaults, proc) \/ AddProcessFails(vaults, proc)
  PROVE  RefInv' /\ Simulated
<1> DEFINE l == r.info.label
           n == r.restarts
<1>1. l \in Labels /\ n \in 1 .. MaxVaultRestarts
  BY DEF SupInv, TypeOK, VaultInfo, RefInv, PostsCounted
<1>2. n \in PromisedOf(l)
  BY DEF PromisedOf
<1>3. PromisedOf(l)' \in {PromisedOf(l), PromisedOf(l) \ {n}}
  <2>1. CASE \E q \in posts \ {r} : q.info.label = l /\ q.restarts = n
    <3>1. PromisedOf(l)' = PromisedOf(l)
      BY <2>1 DEF PromisedOf
    <3> QED
      BY <3>1
  <2>2. CASE \A q \in posts \ {r} : q.info.label = l => q.restarts # n
    <3>1. PromisedOf(l)' = PromisedOf(l) \ {n}
      BY <2>2 DEF PromisedOf
    <3> QED
      BY <3>1
  <2> QED
    BY <2>1, <2>2
<1>4. \A k \in Labels \ {l} : PromisedOf(k)' = PromisedOf(k)
  BY DEF PromisedOf
<1>5. PostsCounted'
  BY DEF RefInv, PostsCounted
<1>6. /\ ExitKeepsLabel' /\ OthersKept(l)
      /\ \/ StateOf(l) = "absent" /\ StateOf(l)' = "kStarting" /\ RestartsOf(l)' = n
         \/ StateOf(l)' = StateOf(l) /\ RestartsOf(l)' = RestartsOf(l)
  <2>1. CASE AddProcessFails(vaults, proc)
    <3>1. vaults' = vaults
      BY <2>1 DEF AddProcessFails
    <3>2. \A k : StateOf(k)' = StateOf(k) /\ RestartsOf(k)' = RestartsOf(k)
      BY <3>1, SeenIn
    <3> QED
      BY <3>1, <3>2 DEF RefInv, ExitKeepsLabel, OthersKept
  <2>2. CASE AddProcess(r.info, n, vaults, proc)
    <3>1. PICK p \in Pids : vaults' = vaults \cup {NewChild(r.info, n, p)}
      BY <2>2 DEF AddProcess
    <3> DEFINE w == NewChild(r.info, n, p)
    <3>2. /\ w.info.label = l /\ w.status = "kStarting" /\ w.restarts = n
          /\ w.on_exit = None
      BY DEF NewChild
    <3>3. \A u \in vaults : u.info.label # w.info.label
      BY <2>2, <3>2 DEF AddProcess, CanAdd, CheckNewVaultDoesntConflict
    <3>4. vaults' = vaults \cup {w}
      BY <3>1
    <3> HIDE DEF w, l, n
    <3>5. ExitKeepsLabel'
      BY <3>2, <3>4 DEF RefInv, ExitKeepsLabel
    <3> QED
      BY <3>2, <3>3, <3>4, <3>5, Tables, AddSeen
  <2> QED
    BY <2>1, <2>2
<1> HIDE DEF l, n
<1>7. Abstract!Next
  BY <1>1, <1>2, <1>3, <1>4, <1>6, AbstractRestart
<1> QED
  BY <1>5, <1>6, <1>7 DEF RefInv, Simulated

\* StopProcess changes status, timer and functor of a child, and nothing else.
LEMMA StoppedFields ==
  ASSUME NEW v \in Child
  PROVE  /\ v.info.label \in Labels /\ v.status # "absent"
         /\ Stopped(v, None).info = v.info /\ Stopped(v, None).on_exit = None
         /\ Stopped(v, None).status = "kStopping"
         /\ Stopped(v, None).restarts = v.restarts
<1>1. v.info.label \in Labels /\ v.status # "absent"
  BY DEF Child, VaultInfo, ProcessStatus
<1>2. Stopped(v, None).info = v.info /\ Stopped(v, None).restarts = v.restarts
  BY DEF Child, Stopped
<1>3. Stopped(v, None).on_exit = None /\ Stopped(v, None).status = "kStopping"
  BY DEF Child, Stopped
<1> QED
  BY <1>1, <1>2, <1>3

\* ~VaultManager tells every vault to stop.
LEMMA StopAllSeen ==
  ASSUME SupInv, SupInv', RefInv, UNCHANGED posts,
         vaults' = {Stopped(v, None) : v \in vaults}
  PROVE  RefInv' /\ Simulated
<1>1. ASSUME NEW v \in vaults
      PROVE  /\ v \in Child /\ v.info.label \in Labels /\ v.status # "absent"
             /\ Stopped(v, None).info = v.info /\ Stopped(v, None).on_exit = None
             /\ Stopped(v, None).status = "kStopping"
             /\ Stopped(v, None).restarts = v.restarts
  BY Tables, StoppedFields
<1>2. ASSUME NEW v \in vaults
      PROVE  /\ StateOf(v.info.label) # "absent" /\ StateOf(v.info.label)' = "kStopping"
             /\ RestartsOf(v.info.label)' = RestartsOf(v.info.label)
  <2> DEFINE w == Stopped(v, None)
  <2>1. w \in vaults'
    OBVIOUS
  <2>2. w.info = v.info /\ w.status = "kStopping" /\ w.restarts = v.restarts
    BY <1>1
  <2> HIDE DEF w
  <2>3. /\ StatusIn(vaults', w.info.label) = w.status
        /\ RestartsIn(vaults', w.info.label) = w.restarts
    BY <2>1, Tables, OnlyOne
  <2>4. /\ StatusIn(vaults, v.info.label) = v.status
        /\ RestartsIn(vaults, v.info.label) = v.restarts
    BY Tables, OnlyOne
  <2> QED
    BY <1>1, <2>2, <2>3, <2>4, SeenIn
<1>3. ASSUME NEW k \in Labels \ GetAll(vaults)
      PROVE  StateOf(k)' = StateOf(k) /\ RestartsOf(k)' = RestartsOf(k)
  <2>1. \A v \in vaults : v.info.label # k
    BY DEF GetAll
  <2>2. \A w \in vaults' : w.info.label # k
    BY <1>1, <2>1
  <2> QED
    BY <2>1, <2>2, NoneThere, SeenIn
<1>4. /\ GetAll(vaults) \in SUBSET Labels
      /\ \A k \in GetAll(vaults) : /\ StateOf(k) # "absent" /\ StateOf(k)' = "kStopping"
                                   /\ RestartsOf(k)' = RestartsOf(k)
  BY <1>1, <1>2 DEF GetAll
<1>5. Abstract!Next
  <2> DEFINE ls == GetAll(vaults)
  <2>1. /\ ls \in SUBSET Labels
        /\ \A k \in ls : StateOf(k) # "absent" /\ StateOf(k)' = "kStopping"
        /\ \A k \in Labels \ ls : StateOf(k)' = StateOf(k)
        /\ \A k \in Labels : RestartsOf(k)' = RestartsOf(k)
    BY <1>3, <1>4
  <2> HIDE DEF ls
  <2> QED
    BY <2>1, AbstractStop
<1>6. RefInv'
  BY <1>1 DEF RefInv, ExitKeepsLabel, PostsCounted
<1> QED
  BY <1>5, <1>6 DEF Simulated

\* There is no vault and no post at the start.
LEMMA RefInvInit == Init => RefInv
  BY DEF Init, RefInv, ExitKeepsLabel, PostsCounted

\* Every action is a step of the abstract supervisor, or none.
LEMMA RefInvNext ==
  ASSUME SupInv, SupInv', RefInv, [Next]_vars
  PROVE  RefInv' /\ Simulated
<1>1. CASE UNCHANGED <<vaults, posts>>
  BY <1>1, SameVaultsSeen
<1>2. ASSUME NEW v \in vaults, NEW terminate, NEW pr, NEW cn,
             OnProcessExit(v, terminate, pr, cn)
      PROVE  RefInv' /\ Simulated
  BY <1>2, ExitSeen
<1>3. ASSUME NEW l \in Labels, NEW d \in Dirs, NEW m \in Pmids,
             NEW o \in Owners \cup {None}, UNCHANGED posts,
             AddProcess([label |-> l, dir |-> d, pmid |-> m, owner |-> o, conn |-> None],
                        0, vaults, proc)
      PROVE  RefInv' /\ Simulated
  <2>1. [label |-> l, dir |-> d, pmid |-> m, owner |-> o, conn |-> None] \in VaultInfo
    BY DEF VaultInfo
  <2> QED
    BY <1>3, <2>1, RequestSeen
<1>4. ASSUME NEW l \in Labels, NEW d \in Dirs, NEW m \in Pmids, CreateFirstVault(l, d, m)
      PROVE  RefInv' /\ Simulated
  BY <1>3, <1>4 DEF CreateFirstVault
<1>5. ASSUME NEW l \in Labels, NEW d \in Dirs, NEW m \in Pmids, NEW o \in Owners,
             HandleStartVaultRequest(l, d, m, o)
      PROVE  RefInv' /\ Simulated
  BY <1>3, <1>5 DEF HandleStartVaultRequest
<1>6. ASSUME NEW v \in vaults, NEW d \in Dirs, NEW o \in Owners,
             ChangeChunkstorePath(v, d, o)
      PROVE  RefInv' /\ Simulated
  <2>1. CASE v.info.conn = None
    BY <1>1, <1>6, <2>1 DEF ChangeChunkstorePath
  <2>2. CASE v.info.conn # None
    <3> DEFINE i == [v.info EXCEPT !.dir = d, !.owner = o]
               w == Stopped(v, i)
    <3>1. v \in Child /\ v.info \in VaultInfo
      BY Tables DEF Child
    <3>2. i.label = v.info.label
      BY <3>1 DEF VaultInfo
    <3> HIDE DEF i
    <3>3. w.info = v.info /\ w.restarts = v.restarts /\ w.status = "kStopping" /\ w.on_exit = i
      BY <3>1 DEF Child, Stopped
    <3>4. vaults' = (vaults \ {v}) \cup {w} /\ UNCHANGED posts
      BY <1>6, <2>2 DEF ChangeChunkstorePath, i
    <3> HIDE DEF w
    <3> QED
      BY <3>2, <3>3, <3>4, RewriteSeen
  <2> QED
    BY <2>1, <2>2
<1>7. ASSUME NEW v \in vaults, NEW o \in Owners, NEW usageChanged \in BOOLEAN,
             AssignOwner(v, o, usageChanged)
      PROVE  RefInv' /\ Simulated
  <2>1. CASE usageChanged /\ v.info.conn = None
    BY <1>1, <1>7, <2>1 DEF AssignOwner
  <2>2. CASE ~(usageChanged /\ v.info.conn = None)
    <3> DEFINE w == [v EXCEPT !.info.owner = o]
    <3>1. v \in Child /\ v.info \in VaultInfo
      BY Tables DEF Child
    <3>2. /\ w.info.label = v.info.label /\ w.restarts = v.restarts
          /\ w.status = v.status /\ w.on_exit = v.on_exit
      BY <3>1 DEF Child, VaultInfo
    <3>3. vaults' = (vaults \ {v}) \cup {w} /\ UNCHANGED posts
      BY <1>7, <2>2 DEF AssignOwner
    <3>4. v.on_exit # None => v.on_exit.label = v.info.label
      BY DEF RefInv, ExitKeepsLabel
    <3> HIDE DEF w
    <3> QED
      BY <3>2, <3>3, <3>4, RewriteSeen
  <2> QED
    BY <2>1, <2>2
<1>8. ASSUME NEW c \in Conns, HandleVaultStarted(c)
      PROVE  RefInv' /\ Simulated
  <2>0. UNCHANGED posts
    BY <1>8, Zenon DEF HandleVaultStarted
  <2>1. CASE UNCHANGED vaults
    BY <1>1, <2>0, <2>1
  <2>2. ASSUME NEW v \in vaults,
               vaults' = (vaults \ {v}) \cup {[v EXCEPT !.timer = None, !.info.conn = c,
                                                        !.status = "kRunning"]}
        PROVE  RefInv' /\ Simulated
    <3> DEFINE w == [v EXCEPT !.timer = None, !.info.conn = c, !.status = "kRunning"]
    <3>1. v \in Child /\ v.info \in VaultInfo
      BY Tables DEF Child
    <3>2. /\ w.info.label = v.info.label /\ w.restarts = v.restarts
          /\ w.status = "kRunning" /\ w.on_exit = v.on_exit
      BY <3>1 DEF Child, VaultInfo
    <3>3. vaults' = (vaults \ {v}) \cup {w} /\ UNCHANGED posts
      BY <2>0, <2>2
    <3>4. v.on_exit # None => v.on_exit.label = v.info.label
      BY DEF RefInv, ExitKeepsLabel
    <3> HIDE DEF w
    <3> QED
      BY <3>2, <3>3, <3>4, RewriteSeen
  <2> QED
    BY <1>8, <2>1, <2>2, Zenon DEF HandleVaultStarted
<1>9. ASSUME NEW c \in Conns, HandleConnectionClosed(c)
      PROVE  RefInv' /\ Simulated
  BY <1>1, <1>2, <1>9 DEF HandleConnectionClosed, NoProcessExit
<1>10. ASSUME NEW v \in vaults, TimerExpires(v)
       PROVE  RefInv' /\ Simulated
  <2> DEFINE w == [v EXCEPT !.timer = None]
  <2>1. v \in Child
    BY Tables
  <2>2. /\ w.info = v.info /\ w.restarts = v.restarts
        /\ w.status = v.status /\ w.on_exit = v.on_exit
    BY <2>1 DEF Child
  <2>3. vaults' = (vaults \ {v}) \cup {w} /\ UNCHANGED posts
    BY <1>10 DEF TimerExpires
  <2>4. v.on_exit # None => v.on_exit.label = v.info.label
    BY DEF RefInv, ExitKeepsLabel
  <2> HIDE DEF w
  <2> QED
    BY <2>2, <2>3, <2>4, RewriteSeen
<1>11. ASSUME NEW l \in Labels, NEW kind \in TimerKind, TimerHandler(l, kind)
       PROVE  RefInv' /\ Simulated
  BY <1>1, <1>2, <1>11 DEF TimerHandler, NoProcessExit
<1>12. ASSUME NEW r \in posts, RunRestart(r)
       PROVE  RefInv' /\ Simulated
  BY <1>12, RestartSeen DEF RunRestart
<1>13. ASSUME NEW p \in Pids, SignalHandler(p)
       PROVE  RefInv' /\ Simulated
  BY <1>1, <1>2, <1>13 DEF SignalHandler, NoProcessExit
<1>14. CASE StopAll
  BY <1>1, <1>14, StopAllSeen DEF StopAll
<1>15. ASSUME NEW c \in Conns \cup {None}, StopProcess(c)
       PROVE  RefInv' /\ Simulated
  <2>1. CASE UNCHANGED vaults
    BY <1>1, <1>15, <2>1 DEF StopProcess
  <2>2. ASSUME NEW v \in vaults, vaults' = (vaults \ {v}) \cup {Stopped(v, None)}
        PROVE  RefInv' /\ Simulated
    <3> DEFINE w == Stopped(v, None)
    <3>1. /\ w.info = v.info /\ w.restarts = v.restarts
          /\ w.status = "kStopping" /\ w.on_exit = None
      BY Tables, StoppedFields
    <3>2. vaults' = (vaults \ {v}) \cup {w} /\ UNCHANGED posts
      BY <1>15, <2>2 DEF StopProcess
    <3> HIDE DEF w
    <3> QED
      BY <3>1, <3>2, RewriteSeen
  <2> QED
    BY <1>15, <2>1, <2>2 DEF StopProcess
<1>16. CASE \/ DeliverSignal \/ TearDownWithInterval \/ StopAllWithInterval
            \/ StopAllWithIntervalEnds \/ UnlockedVaultsRace
            \/ \E p \in Pids, c \in Conns : VaultConnects(p, c)
            \/ \E p \in Pids : VaultExits(p)
            \/ \E c \in Conns : ConnectionLost(c)
  BY <1>1, <1>16 DEF DeliverSignal, TearDownWithInterval, StopAllWithInterval,
     StopAllWithIntervalEnds, UnlockedVaultsRace, VaultConnects, VaultExits,
     ConnectionLost, supVars
<1>17. CASE UNCHANGED vars
  BY <1>1, <1>17 DEF vars
<1> QED
  BY <1>4, <1>5, <1>6, <1>7, <1>8, <1>9, <1>10, <1>11, <1>12, <1>13, <1>14, <1>15,
     <1>16, <1>17 DEF Next, TakeOwnership

\* Every step of the manager is a step of the abstract supervisor or none: however
\* SIGCHLD, closed connections, time-outs, requests and the shutdown interleave, a
\* vault ends with one promise of a restart unless it was told to stop or has had
\* kMaxVaultRestarts, and starts only on a request, on a promise or in the place
\* of one that moved (OnProcessExit, RestartIfRequired, AddProcess).
THEOREM SupervisorImplemented == Spec => ImplementsSupervisor
<1>1. Init => Abstract!Init
  BY DEF Init, Abstract!Init, StateOf, RestartsOf, Labelled
<1>2. SupInv /\ SupInv' /\ RefInv /\ [Next]_vars => RefInv' /\ [Abstract!Next]_(Abstract!vars)
  BY RefInvNext DEF Simulated
<1> QED
  BY <1>1, <1>2, RefInvInit, SupInvInit, SupInvNext, PTL
  DEF Spec, ImplementsSupervisor, Abstract!Spec

=============================================================================
