---------------------------- MODULE RuntimeAdmin ----------------------------
(***************************************************************************)
(* The runtime configuration: admin writes of namespaces and of the data   *)
(* authentication, and the requests that take a snapshot of both.          *)
(*                                                                         *)
(* The runtime and the data authentication have a read-write lock each; a  *)
(* mutex lets one admin write in at a time.  A write awaits the mutex,     *)
(* reads what it depends on, awaits the discovery of its upstreams, then   *)
(* awaits the write locks and commits; its connection may be lost at each  *)
(* await.  A request awaits both read locks, the runtime's first.          *)
(***************************************************************************)
EXTENDS Naturals, FiniteSets

CONSTANTS
    Namespaces, DataAuth, Writes, Initial, NoRevision,  \* see AdminCas
    NoWrite,        \* nobody holds the lock
    Readers         \* the requests to consider

ASSUME NamesAssumption ==
    /\ DataAuth \notin Namespaces
    /\ Initial \notin Writes /\ NoRevision \notin Writes \cup {Initial}
    /\ NoWrite \notin Writes

VARIABLES
    mode,           \* RuntimeDataAuthState.access
    current,        \* the revisions, of namespaces and of the data authentication
    config,         \* RuntimeNamespaceState.config
    builtUnder,     \* builtUnder[n]: the data auth revision its upstreams were resolved with
    adminLock,      \* admin_update_lock: the write that holds it
    runtimeLock,    \* the write that holds the runtime's write lock
    writePhase,     \* writePhase[w]: where write w stands
    target, expected, payload,      \* the request of write w
    seenAuth,                       \* the data authentication it read
    seenCurrent, seenConfig,        \* and the namespaces
    reader,         \* reader[r]: where request r stands
    ctxMode, ctxAuth, ctxLoaded, ctxConfig, ctxBuilt    \* RequestAuthContext

liveVars == <<mode, current, config, builtUnder>>
lockVars == <<adminLock, runtimeLock>>
writeVars == <<target, expected, payload>>
seenVars == <<seenAuth, seenCurrent, seenConfig>>
ctxVars == <<ctxMode, ctxAuth, ctxLoaded, ctxConfig, ctxBuilt>>
adminVars == <<liveVars, lockVars, writePhase, writeVars, seenVars, reader, ctxVars>>

WritePhases == {"idle", "lock", "access", "runtime", "build", "commit", "apply",
           "applied", "refused"}
\* Phases in which a write holds the admin mutex.
Locked == {"access", "runtime", "build", "commit", "apply"}

Outcome(p) == CASE p \in {"idle", "applied", "refused"} -> p
                [] OTHER -> "pending"

Cas == INSTANCE AdminCas WITH outcome <- [w \in Writes |-> Outcome(writePhase[w])]

Loaded == Cas!Loaded
Allowed(m) == Cas!Allowed(m)

AdminTypeOK ==
    /\ mode \in Cas!Modes
    /\ current \in [Cas!Targets -> Cas!Revisions \cup {NoRevision}]
    /\ config \in [Namespaces -> Cas!Configs]
    /\ builtUnder \in [Namespaces -> Cas!Revisions]
    /\ adminLock \in Writes \cup {NoWrite}
    /\ runtimeLock \in Writes \cup {NoWrite}
    /\ writePhase \in [Writes -> WritePhases]
    /\ target \in [Writes -> Cas!Targets]
    /\ expected \in [Writes -> Cas!Revisions \cup {NoRevision}]
    /\ payload \in [Writes -> Cas!Configs \cup Cas!Modes]
    /\ seenAuth \in [Writes -> Cas!Revisions \cup {NoRevision}]
    /\ seenCurrent \in [Writes -> [Cas!Targets -> Cas!Revisions \cup {NoRevision}]]
    /\ seenConfig \in [Writes -> [Namespaces -> Cas!Configs]]
    /\ reader \in [Readers -> {"idle", "runtime", "authorized", "rejected"}]
    /\ ctxMode \in [Readers -> Cas!Modes]
    /\ ctxAuth \in [Readers -> Cas!Revisions \cup {NoRevision}]
    /\ ctxLoaded \in [Readers -> SUBSET Namespaces]
    /\ ctxConfig \in [Readers -> [Namespaces -> Cas!Configs]]
    /\ ctxBuilt \in [Readers -> [Namespaces -> Cas!Revisions]]

\* Startup resolves the default namespace's upstreams under the startup data auth.
AdminInit ==
    /\ writePhase = [w \in Writes |-> "idle"]
    /\ Cas!Init
    /\ builtUnder = [n \in Namespaces |-> Initial]
    /\ adminLock = NoWrite
    /\ runtimeLock = NoWrite
    /\ seenAuth = [w \in Writes |-> Initial]
    /\ seenCurrent = [w \in Writes |-> current]
    /\ seenConfig = [w \in Writes |-> config]
    /\ reader = [r \in Readers |-> "idle"]
    /\ ctxMode = [r \in Readers |-> mode]
    /\ ctxAuth = [r \in Readers |-> Initial]
    /\ ctxLoaded = [r \in Readers |-> {}]
    /\ ctxConfig = [r \in Readers |-> config]
    /\ ctxBuilt = [r \in Readers |-> builtUnder]

-----------------------------------------------------------------------------
(* An admin write *)

WriteGoesTo(w, p) == writePhase' = [writePhase EXCEPT ![w] = p]

\* Mutant: a refusal forgets the admin mutex.
LeaveLocked(w, how) ==
    /\ WriteGoesTo(w, how)
    /\ adminLock' = IF adminLock = w /\ how = "applied" THEN NoWrite ELSE adminLock
    /\ runtimeLock' = IF runtimeLock = w THEN NoWrite ELSE runtimeLock

\* The handler returns or is dropped: its guards release what it holds.
Leave(w, how) ==
    /\ WriteGoesTo(w, how)
    /\ adminLock' = IF adminLock = w THEN NoWrite ELSE adminLock
    /\ runtimeLock' = IF runtimeLock = w THEN NoWrite ELSE runtimeLock

\* validate_admin_cas_precondition
Precondition(now, ifRevision) == now = ifRevision

Readable == runtimeLock = NoWrite

\* The payload was parsed and is a configuration or a mode of its own right. Its
\* if_revision is absent, or what the administrator last read.
Submit(w) ==
    /\ writePhase[w] = "idle"
    /\ WriteGoesTo(w, "lock")
    /\ \E what \in Cas!Targets :
          /\ target' = [target EXCEPT ![w] = what]
          /\ \E ifRevision \in {NoRevision, current[what]} :
                expected' = [expected EXCEPT ![w] = ifRevision]
          /\ \E new \in IF what = DataAuth THEN Cas!Modes \ {"unconfigured"} ELSE Cas!Configs :
                payload' = [payload EXCEPT ![w] = new]
    /\ UNCHANGED <<liveVars, lockVars, seenVars, reader, ctxVars>>

\* Mutant: the data-auth handler and the namespace handler have a mutex each.
TakeAdminLockOfTarget(w) ==
    /\ writePhase[w] = "lock"
    /\ \A v \in Writes : adminLock = v => target[v] # target[w]
    /\ adminLock' = w
    /\ WriteGoesTo(w, "access")
    /\ UNCHANGED <<liveVars, runtimeLock, writeVars, seenVars, reader, ctxVars>>

TakeAdminLock(w) ==
    /\ writePhase[w] = "lock"
    /\ adminLock = NoWrite
    /\ adminLock' = w
    /\ WriteGoesTo(w, "access")
    /\ UNCHANGED <<liveVars, runtimeLock, writeVars, seenVars, reader, ctxVars>>

\* The data authentication is read: a write of it checks its precondition, a
\* write of a namespace validates its configuration under it.
ReadAccess(w) ==
    /\ writePhase[w] = "access"
    /\ seenAuth' = [seenAuth EXCEPT ![w] = current[DataAuth]]
    /\ IF IF target[w] = DataAuth THEN Precondition(current[DataAuth], expected[w])
                                  ELSE payload[w] \in Allowed(mode)
       THEN WriteGoesTo(w, "runtime") /\ UNCHANGED lockVars
       ELSE Leave(w, "refused")
    /\ UNCHANGED <<liveVars, writeVars, seenCurrent, seenConfig, reader, ctxVars>>

\* The runtime is read: a write of a namespace checks its precondition, a write
\* of the data authentication copies every namespace's configuration.
ReadRuntime(w) ==
    /\ writePhase[w] = "runtime"
    /\ Readable
    /\ seenCurrent' = [seenCurrent EXCEPT ![w] = current]
    /\ seenConfig' = [seenConfig EXCEPT ![w] = config]
    /\ IF target[w] = DataAuth \/ Precondition(current[target[w]], expected[w])
       THEN WriteGoesTo(w, "build") /\ UNCHANGED lockVars
       ELSE Leave(w, "refused")
    /\ UNCHANGED <<liveVars, writeVars, seenAuth, reader, ctxVars>>

\* The namespaces a write has copied.
Copied(w) == {n \in Namespaces : seenCurrent[w][n] # NoRevision}

\* Mutant: the namespaces are rebuilt under the mode that is about to go.
BuildUnderOldMode(w) ==
    /\ writePhase[w] = "build"
    /\ \/ /\ target[w] = DataAuth => \A n \in Copied(w) : seenConfig[w][n] \in Allowed(mode)
          /\ WriteGoesTo(w, "commit")
          /\ UNCHANGED lockVars
       \/ Leave(w, "refused")
    /\ UNCHANGED <<liveVars, writeVars, seenVars, reader, ctxVars>>

\* The upstreams are resolved and discovered. A write of the data authentication
\* does it for every namespace it copied, under its own mode; one that fails
\* (the mode does not allow it, a variable is not set) fails the write.
BuildUpstreams(w) ==
    /\ writePhase[w] = "build"
    /\ \/ /\ target[w] = DataAuth => \A n \in Copied(w) : seenConfig[w][n] \in Allowed(payload[w])
          /\ WriteGoesTo(w, "commit")
          /\ UNCHANGED lockVars
       \/ Leave(w, "refused")
    /\ UNCHANGED <<liveVars, writeVars, seenVars, reader, ctxVars>>

\* No request is between its two read locks.
NoReaders == \A r \in Readers : reader[r] # "runtime"

\* The runtime's write lock; a write of a namespace commits under it.
CommitNamespace(w) ==
    /\ writePhase[w] = "commit"
    /\ target[w] # DataAuth
    /\ Readable /\ NoReaders
    /\ IF Precondition(current[target[w]], expected[w])
       THEN /\ Leave(w, "applied")
            /\ current' = [current EXCEPT ![target[w]] = w]
            /\ config' = [config EXCEPT ![target[w]] = payload[w]]
            /\ builtUnder' = [builtUnder EXCEPT ![target[w]] = seenAuth[w]]
       ELSE /\ Leave(w, "refused")
            /\ UNCHANGED <<current, config, builtUnder>>
    /\ UNCHANGED <<mode, writeVars, seenVars, reader, ctxVars>>

\* A write of the data authentication holds it while it awaits the second lock.
TakeRuntimeLock(w) ==
    /\ writePhase[w] = "commit"
    /\ target[w] = DataAuth
    /\ Readable /\ NoReaders
    /\ runtimeLock' = w
    /\ WriteGoesTo(w, "apply")
    /\ UNCHANGED <<liveVars, adminLock, writeVars, seenVars, reader, ctxVars>>

\* All namespaces are replaced by what was rebuilt from the copies, and the data
\* authentication with them.
CommitDataAuth(w) ==
    /\ writePhase[w] = "apply"
    /\ IF Precondition(current[DataAuth], expected[w])
       THEN /\ Leave(w, "applied")
            /\ current' = [seenCurrent[w] EXCEPT ![DataAuth] = w]
            /\ config' = seenConfig[w]
            /\ builtUnder' = [n \in Namespaces |-> w]
            /\ mode' = payload[w]
       ELSE /\ Leave(w, "refused")
            /\ UNCHANGED liveVars
    /\ UNCHANGED <<writeVars, seenVars, reader, ctxVars>>

\* The administrator's connection is lost while the handler awaits something.
Abandon(w) ==
    /\ writePhase[w] \in Locked \cup {"lock"}
    /\ Leave(w, "refused")
    /\ UNCHANGED <<liveVars, writeVars, seenVars, reader, ctxVars>>

-----------------------------------------------------------------------------
(* A request *)

\* request_auth_context_for_headers takes the runtime's read lock, keeps it
StartAuthorization(r) ==
    /\ reader[r] = "idle"
    /\ Readable
    /\ reader' = [reader EXCEPT ![r] = "runtime"]
    /\ UNCHANGED <<liveVars, lockVars, writePhase, writeVars, seenVars, ctxVars>>

\* while it awaits the data authentication's, and clones both.
Authorize(r) ==
    /\ reader[r] = "runtime"
    /\ \/ /\ mode # "unconfigured"
          /\ reader' = [reader EXCEPT ![r] = "authorized"]
          /\ ctxMode' = [ctxMode EXCEPT ![r] = mode]
          /\ ctxAuth' = [ctxAuth EXCEPT ![r] = current[DataAuth]]
          /\ ctxLoaded' = [ctxLoaded EXCEPT ![r] = Loaded]
          /\ ctxConfig' = [ctxConfig EXCEPT ![r] = config]
          /\ ctxBuilt' = [ctxBuilt EXCEPT ![r] = builtUnder]
       \/ /\ reader' = [reader EXCEPT ![r] = "rejected"]     \* no or a wrong credential
          /\ UNCHANGED ctxVars
    /\ UNCHANGED <<liveVars, lockVars, writePhase, writeVars, seenVars>>

\* The client goes away while its request waits for the second lock.
AbandonRequest(r) ==
    /\ reader[r] = "runtime"
    /\ reader' = [reader EXCEPT ![r] = "rejected"]
    /\ UNCHANGED <<liveVars, lockVars, writePhase, writeVars, seenVars, ctxVars>>

-----------------------------------------------------------------------------
\* What a write does once it has been submitted and is not interrupted.
WriteStep(w) ==
    \/ TakeAdminLock(w)
    \/ ReadAccess(w)
    \/ ReadRuntime(w)
    \/ BuildUpstreams(w)
    \/ CommitNamespace(w)
    \/ TakeRuntimeLock(w)
    \/ CommitDataAuth(w)

AdminNext ==
    \/ \E w \in Writes : Submit(w) \/ WriteStep(w) \/ Abandon(w)
    \/ \E r \in Readers : StartAuthorization(r) \/ Authorize(r) \/ AbandonRequest(r)

\* Tokio's mutex and read-write lock serve their waiters in order, and discovery
\* has a timeout.
AdminFairness ==
    /\ \A w \in Writes : SF_adminVars(WriteStep(w))
    /\ \A r \in Readers : WF_adminVars(Authorize(r))

AdminSpec == AdminInit /\ [][AdminNext]_adminVars
FairAdminSpec == AdminSpec /\ AdminFairness

-----------------------------------------------------------------------------
(* Properties *)

\* The admin API is one compare-and-swap object: however writes interleave, are
\* refused or abandoned, each takes effect in one step, on the revision its
\* author named, and under a mode that allows every configuration.
ImplementsCas == Cas!Spec

\* A request is served from one configuration: the namespaces in its context were
\* resolved under the data authentication that authorized it, and that mode
\* allows them. No request is let in by client credentials and then sent with a
\* provider key of the server, or the other way round.
ContextIsOneConfiguration ==
    \A r \in Readers : reader[r] = "authorized" =>
        \A n \in ctxLoaded[r] :
            /\ ctxBuilt[r][n] = ctxAuth[r]
            /\ ctxConfig[r][n] \in Allowed(ctxMode[r])

\* A compare-and-swap has one winner: of all writes of a target that name the
\* same revision at most one is applied.
OneWinner ==
    \A v, w \in Writes :
        /\ v # w /\ writePhase[v] = "applied" /\ writePhase[w] = "applied"
        /\ target[v] = target[w]
        => expected[v] # expected[w]

\* Every write is answered: no two of the locks wait for each other, and a writer
\* that is gone holds none.
EveryWriteAnswered ==
    \A w \in Writes : writePhase[w] = "lock" ~> writePhase[w] \in {"applied", "refused"}
=============================================================================
