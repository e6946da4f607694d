----------------------------- MODULE SessionManager -----------------------------
(***************************************************************************)
(* BrowserSessionManager (src/browser/session-manager.ts): session slots,  *)
(* persistent-profile locks, absolute session TTLs, workspaces with their  *)
(* tenant, retention and control state, and the asynchronous calls that    *)
(* change them.  Each await of a method is a point where other calls run:  *)
(* a method is one action up to its first await and one per continuation.  *)
(*                                                                         *)
(* A BrowserSession is seen as the manager sees it: a state, a control     *)
(* lease, and promises that resolve or reject.  Its inside is the subject  *)
(* of module BrowserSession.  A session owns one workspace, so a workspace *)
(* is named by its session.                                                *)
(***************************************************************************)
EXTENDS Naturals, FiniteSets, Sequences, SequencesExt

CONSTANTS
    Ids,           \* session ids: each is used by one start call
    Profiles,      \* saved profiles
    Tenants,       \* tenants a session may belong to
    None,          \* no profile, no tenant argument, no owner
    Requests,      \* the start options offered: records of StartOptions
    MaxSessions,   \* maxSessions
    MaxClosed,     \* maxClosedStatuses
    SessionTtl,    \* sessionTtlMs
    WorkspaceTtl,  \* workspaceTtlMs
    HandoffTtl,    \* handoffTtlMs
    MaxTime        \* bound: last instant of the clock with no timer to come

\* handoffs: bound on how often this session is handed off.
StartOptions == [profile : Profiles \cup {None}, tenant : Tenants,
                 retention : {"destroy", "retain"}, handoffs : Nat]

ASSUME RequestsAssumption == Requests \subseteq StartOptions
ASSUME IdsAssumption == IsFiniteSet(Ids) /\ None \notin Ids \cup Profiles \cup Tenants
ASSUME LimitsAssumption ==
    /\ MaxSessions \in Nat \ {0}
    /\ MaxClosed \in Nat /\ MaxClosed >= MaxSessions   \* at least 16 * maxSessions
    /\ SessionTtl \in Nat \ {0} /\ WorkspaceTtl \in Nat \ {0} /\ HandoffTtl \in Nat \ {0}
    /\ MaxTime \in Nat

VARIABLES
    now,
    options,       \* what each start call asked for
    startPc,       \* where each start call is
    sessions,      \* the sessions map: the slots in use
    owners,        \* persistentProfileOwners
    expiryTimers,  \* deadline of each session's TTL timer, 0 when absent
    expired,       \* expiredSessionIds, oldest first
    closed,        \* keys of closedStatuses, oldest first
    workspaces,    \* the workspace of each session
    wsTimers,      \* workspaceExpiryTimers: deadline, 0 when absent
    wsLeases,      \* workspaceLeases: token and deadline, NoLease when absent
    browser,       \* _state of each BrowserSession
    alive,         \* the browser process of the session is running
    lease,         \* the session's control lease: token and deadline
    handoffs,      \* handoffs granted to each session
    stoppers,      \* stop calls awaiting session.stop()
    call,          \* the control call each session is executing
    shutdown,      \* shutdownSessions: its phase and the sessions it captured
    deadline       \* history: absolute deadline given to each session

managerVars == <<sessions, owners, expiryTimers, expired, closed>>
workspaceVars == <<workspaces, wsTimers, wsLeases>>
sessionVars == <<browser, alive, lease, handoffs>>
callVars == <<options, startPc, stoppers, call, shutdown>>
vars == <<now, managerVars, workspaceVars, sessionVars, callVars, deadline>>

NoLease == [token |-> 0, expiresAt |-> 0]
NoWorkspace == [control |-> "ABSENT", expiresAt |-> 0]

SessionStates == {"NONE", "STARTING", "READY", "PAUSED_CHALLENGE", "USER_CONTROLLED",
                  "STOPPING", "STOPPED", "ERROR"}
Controls == {"ABSENT", "AGENT_CONTROLLED", "USER_CONTROLLED", "INACTIVE"}
Calls == {"idle", "handoff", "granted", "takeover", "returned"}
LeaseRecords == [token : Nat, expiresAt : Nat]

TypeOK ==
    /\ now \in Nat
    /\ options \in [Ids -> StartOptions]
    /\ startPc \in [Ids -> {"unused", "reading", "launching", "launched", "done", "failed"}]
    /\ sessions \subseteq Ids
    /\ owners \in [Profiles -> Ids \cup {None}]
    /\ expiryTimers \in [Ids -> Nat]
    /\ \A list \in {expired, closed} :
         list \in Seq(Ids) /\ Len(list) <= MaxClosed /\ IsInjective(list)
    /\ workspaces \in [Ids -> [control : Controls, expiresAt : Nat]]
    /\ wsTimers \in [Ids -> Nat]
    /\ wsLeases \in [Ids -> LeaseRecords]
    /\ browser \in [Ids -> SessionStates]
    /\ alive \in [Ids -> BOOLEAN]
    /\ lease \in [Ids -> LeaseRecords]
    /\ handoffs \in [Ids -> Nat]
    /\ stoppers \subseteq Ids \X {"stop", "expiry"}
    /\ call \in [Ids -> Calls]
    /\ shutdown \in [phase : {"idle", "waiting", "done"}, list : SUBSET Ids]
    /\ deadline \in [Ids -> Nat]

-----------------------------------------------------------------------------
(* Bounded insertion-ordered collections: rememberClosed, rememberExpired *)

Forget(list, id) == RemoveFirst(list, id)

\* What is left of a list when the oldest beyond the limit are evicted.
Newest(list) ==
    IF Len(list) > MaxClosed THEN SubSeq(list, Len(list) - MaxClosed + 1, Len(list)) ELSE list

\* The id moves to the end.
Remember(list, id) == Newest(Append(Forget(list, id), id))

\* The elements of kept come in the order they have in list.
InOrderOf(kept, list) ==
    \A m, n \in DOMAIN list, a, b \in DOMAIN kept :
        m < n /\ kept[a] = list[m] /\ kept[b] = list[n] => a < b

\* The lists that remembering the ids of a set one after the other can leave: the
\* ids move to the end in some order, behind those of the list that stay.
RememberAll(list, ids) ==
    {Newest(kept \o order) :
        kept \in {k \in SetToSeqs(ToSet(list) \ ids) : InOrderOf(k, list)},
        order \in SetToSeqs(ids)}

-----------------------------------------------------------------------------
(* Lookups *)

Exists(id) == workspaces[id].control # "ABSENT"

\* assertSessionTenant, skipped when the caller gives no tenant: a session whose
\* workspace record is gone belongs to nobody.
TenantMayAccess(id, tenant) ==
    \/ tenant = None
    \/ Exists(id) /\ options[id].tenant = tenant

\* Callers learn a session id from the start call that returned it.
Known(id) == startPc[id] = "done"

TimerDue(id) == expiryTimers[id] # 0 /\ now >= expiryTimers[id]

\* Mutant: get trusts the timer and does not compare the deadline.
Mutant_CanGet_noLazyExpiry(id, tenant) ==
    /\ ~Contains(expired, id)
    /\ id \in sessions
    /\ TenantMayAccess(id, tenant)

\* get returns the session.
CanGet(id, tenant) ==
    /\ ~Contains(expired, id)
    /\ ~TimerDue(id)
    /\ id \in sessions
    /\ TenantMayAccess(id, tenant)

-----------------------------------------------------------------------------
(* Workspace records *)

\* deleteWorkspace for every session of a set.
DeleteWorkspaces(ids) ==
    /\ workspaces' = [i \in Ids |-> IF i \in ids THEN NoWorkspace ELSE workspaces[i]]
    /\ wsTimers' = [i \in Ids |-> IF i \in ids THEN 0 ELSE wsTimers[i]]
    /\ wsLeases' = [i \in Ids |-> IF i \in ids THEN NoLease ELSE wsLeases[i]]

\* Mutant: pruning ignores that the session is still in use.
Mutant_Lapsed_anyControl ==
    {i \in Ids : workspaces[i].expiresAt # 0 /\ workspaces[i].expiresAt <= now}

\* The records pruneWorkspaces deletes: inactive and past their retention.
Lapsed ==
    {i \in Ids : /\ workspaces[i].control = "INACTIVE"
                 /\ workspaces[i].expiresAt # 0
                 /\ workspaces[i].expiresAt <= now}

\* deactivateWorkspace deletes the record now rather than retaining it.
DiesWithSession(id) ==
    \/ options[id].retention = "destroy"
    \/ workspaces[id].expiresAt # 0 /\ workspaces[id].expiresAt <= now

\* Mutant: a retained record loses its timer with its session.
Mutant_DeactivateWorkspaces_noTimer(ids) ==
    LET bound == {i \in ids : Exists(i)}
        dying == {i \in bound : DiesWithSession(i)}
    IN  /\ workspaces' = [i \in Ids |->
             IF i \in dying THEN NoWorkspace
             ELSE IF i \in bound THEN [workspaces[i] EXCEPT !.control = "INACTIVE"]
             ELSE workspaces[i]]
        /\ wsTimers' = [i \in Ids |-> IF i \in bound THEN 0 ELSE wsTimers[i]]
        /\ wsLeases' = [i \in Ids |-> IF i \in bound THEN NoLease ELSE wsLeases[i]]

\* deactivateWorkspace for every session of a set.
DeactivateWorkspaces(ids) ==
    LET bound == {i \in ids : Exists(i)}
        dying == {i \in bound : DiesWithSession(i)}
    IN  /\ workspaces' = [i \in Ids |->
             IF i \in dying THEN NoWorkspace
             ELSE IF i \in bound THEN [workspaces[i] EXCEPT !.control = "INACTIVE"]
             ELSE workspaces[i]]
        /\ wsTimers' = [i \in Ids |-> IF i \in dying THEN 0 ELSE wsTimers[i]]
        /\ wsLeases' = [i \in Ids |-> IF i \in bound THEN NoLease ELSE wsLeases[i]]

\* releasePersistentProfile for every session of a set.
ReleaseProfiles(ids) ==
    owners' = [p \in Profiles |-> IF owners[p] \in ids THEN None ELSE owners[p]]

-----------------------------------------------------------------------------
(* start *)

Init ==
    /\ now = 0
    /\ options \in [Ids -> Requests]
    /\ startPc = [i \in Ids |-> "unused"]
    /\ sessions = {}
    /\ owners = [p \in Profiles |-> None]
    /\ expiryTimers = [i \in Ids |-> 0]
    /\ expired = <<>> /\ closed = <<>>
    /\ workspaces = [i \in Ids |-> NoWorkspace]
    /\ wsTimers = [i \in Ids |-> 0]
    /\ wsLeases = [i \in Ids |-> NoLease]
    /\ browser = [i \in Ids |-> "NONE"]
    /\ alive = [i \in Ids |-> FALSE]
    /\ lease = [i \in Ids |-> NoLease]
    /\ handoffs = [i \in Ids |-> 0]
    /\ stoppers = {}
    /\ call = [i \in Ids |-> "idle"]
    /\ shutdown = [phase |-> "idle", list |-> {}]
    /\ deadline = [i \in Ids |-> 0]

\* The synchronous block that locks the profile, takes the slot and calls
\* session.start().
Register(id) ==
    /\ owners' = [p \in Profiles |-> IF p = options[id].profile THEN id ELSE owners[p]]
    /\ expired' = Forget(expired, id)
    /\ sessions' = sessions \cup {id}
    /\ browser' = [browser EXCEPT ![id] = "STARTING"]
    /\ startPc' = [startPc EXCEPT ![id] = "launching"]
    /\ UNCHANGED <<now, expiryTimers, closed, workspaceVars, alive, lease, handoffs,
                   options, stoppers, call, shutdown, deadline>>

\* start without a profile: no await before the slot is taken.
StartFresh(id) ==
    /\ startPc[id] = "unused"
    /\ options[id].profile = None
    /\ Cardinality(sessions) < MaxSessions
    /\ Register(id)

\* start with a profile: the limit is checked, then the profile store is read.
StartWithProfile(id) ==
    /\ startPc[id] = "unused"
    /\ options[id].profile # None
    /\ Cardinality(sessions) < MaxSessions
    /\ startPc' = [startPc EXCEPT ![id] = "reading"]
    /\ UNCHANGED <<now, managerVars, workspaceVars, sessionVars, options, stoppers,
                   call, shutdown, deadline>>

\* Mutant: the profile lock is taken without looking at it.
Mutant_ProfileRead_noCheck(id) ==
    /\ startPc[id] = "reading"
    /\ Register(id)

\* The profile, its cookies and its extensions are read; the limit is not
\* checked again.
ProfileRead(id) ==
    /\ startPc[id] = "reading"
    /\ owners[options[id].profile] = None
    /\ Register(id)

\* The profile does not exist, an extension cannot be resolved, or the profile
\* is already in use.
ProfileRefused(id) ==
    /\ startPc[id] = "reading"
    /\ startPc' = [startPc EXCEPT ![id] = "failed"]
    /\ UNCHANGED <<now, managerVars, workspaceVars, sessionVars, options, stoppers,
                   call, shutdown, deadline>>

\* session.start() resolves; its first scan may already have paused it.
LaunchSucceeds(id) ==
    /\ startPc[id] = "launching"
    /\ startPc' = [startPc EXCEPT ![id] = "launched"]
    /\ \E s \in {"READY", "PAUSED_CHALLENGE"} : browser' = [browser EXCEPT ![id] = s]
    /\ alive' = [alive EXCEPT ![id] = TRUE]
    /\ UNCHANGED <<now, managerVars, workspaceVars, lease, handoffs, options, stoppers,
                   call, shutdown, deadline>>

\* session.start() rejects; start gives the slot and the profile back.
LaunchFails(id) ==
    /\ startPc[id] = "launching"
    /\ startPc' = [startPc EXCEPT ![id] = "failed"]
    /\ browser' = [browser EXCEPT ![id] = "ERROR"]
    /\ sessions' = sessions \ {id}
    /\ expiryTimers' = [expiryTimers EXCEPT ![id] = 0]
    /\ ReleaseProfiles({id})
    /\ UNCHANGED <<now, expired, closed, workspaceVars, alive, lease, handoffs, options,
                   stoppers, call, shutdown, deadline>>

\* The continuation of start: the TTL timer and the workspace.
StartReturns(id) ==
    LET expiresAt == IF options[id].retention = "destroy" THEN 0 ELSE now + WorkspaceTtl
    IN  /\ startPc[id] = "launched"
        /\ startPc' = [startPc EXCEPT ![id] = "done"]
        /\ expiryTimers' = [expiryTimers EXCEPT ![id] = now + SessionTtl]
        /\ deadline' = [deadline EXCEPT ![id] = now + SessionTtl]
        /\ workspaces' = [workspaces EXCEPT ![id] = [control |-> "AGENT_CONTROLLED",
                                                     expiresAt |-> expiresAt]]
        /\ wsTimers' = [wsTimers EXCEPT ![id] = expiresAt]
        /\ UNCHANGED <<now, sessions, owners, expired, closed, wsLeases, sessionVars,
                       options, stoppers, call, shutdown>>

-----------------------------------------------------------------------------
(* stop and expiry *)

\* session.stop() is called for every session of a set: one that is starting
\* waits for its launch, one already stopped answers at once.
CallStop(ids) ==
    browser' = [i \in Ids |->
        IF i \in ids /\ browser[i] \notin {"NONE", "STARTING", "STOPPED"}
          THEN "STOPPING" ELSE browser[i]]

\* stop up to its await.
BeginStop(id, kind) ==
    /\ expiryTimers' = [expiryTimers EXCEPT ![id] = 0]
    /\ stoppers' = stoppers \cup {<<id, kind>>}
    /\ CallStop({id})

Stop(id, tenant) ==
    /\ Known(id)
    /\ id \in sessions
    /\ TenantMayAccess(id, tenant)
    /\ BeginStop(id, "stop")
    /\ UNCHANGED <<now, sessions, owners, expired, closed, workspaceVars, alive, lease,
                   handoffs, options, startPc, call, shutdown, deadline>>

\* The sessions whose session.stop() somebody awaits.
Awaited == {st[1] : st \in stoppers}
               \cup (IF shutdown.phase = "waiting" THEN shutdown.list ELSE {})

\* BrowserSession.stop() was waiting for the launch to settle.
StopAfterLaunch(id) ==
    /\ id \in Awaited
    /\ browser[id] \in {"READY", "PAUSED_CHALLENGE", "ERROR"}
    /\ browser' = [browser EXCEPT ![id] = "STOPPING"]
    /\ UNCHANGED <<now, managerVars, workspaceVars, alive, lease, handoffs, callVars,
                   deadline>>

\* BrowserSession.stop() finishes.  Closing the browser may fail, which it
\* ignores.  The continuation of a start that has just resolved runs first: it
\* is a microtask and closing a browser is not.
SessionStopped(id, closes) ==
    /\ browser[id] = "STOPPING"
    /\ startPc[id] # "launched"
    /\ browser' = [browser EXCEPT ![id] = "STOPPED"]
    /\ alive' = [alive EXCEPT ![id] = alive[id] /\ ~closes]
    /\ lease' = [lease EXCEPT ![id] = NoLease]
    /\ UNCHANGED <<now, managerVars, workspaceVars, handoffs, callVars, deadline>>

\* The continuation of stop.  The path for a rejected session.stop() (its final
\* audit failed) does the same to the maps, and so does expireSession after it:
\* the session it looks for in order to retry is already gone.
StopReturns(id, kind) ==
    /\ <<id, kind>> \in stoppers
    /\ browser[id] = "STOPPED"
    /\ stoppers' = stoppers \ {<<id, kind>>}
    /\ sessions' = sessions \ {id}
    /\ ReleaseProfiles({id})
    /\ DeactivateWorkspaces({id})
    /\ closed' = Remember(closed, id)
    /\ UNCHANGED <<now, expiryTimers, expired, sessionVars, options, startPc, call,
                   shutdown, deadline>>

\* expireSession up to the await in the stop it calls.
ExpireSession(id) ==
    IF id \in sessions
      THEN expired' = Remember(expired, id) /\ BeginStop(id, "expiry")
      ELSE /\ expiryTimers' = [expiryTimers EXCEPT ![id] = 0]
           /\ UNCHANGED <<expired, stoppers, browser>>

\* The TTL timer; one that fires early is scheduled again for the same deadline.
SessionTimerFires(id) ==
    /\ TimerDue(id)
    /\ ExpireSession(id)
    /\ UNCHANGED <<now, sessions, owners, closed, workspaceVars, alive, lease, handoffs,
                   options, startPc, call, shutdown, deadline>>

\* get of a session whose deadline has passed before the timer ran.
LookupExpires(id) ==
    /\ TimerDue(id)
    /\ expired' = Remember(expired, id)
    /\ IF id \in sessions THEN BeginStop(id, "expiry")
       ELSE /\ expiryTimers' = [expiryTimers EXCEPT ![id] = 0]
            /\ UNCHANGED <<stoppers, browser>>
    /\ UNCHANGED <<now, sessions, owners, closed, workspaceVars, alive, lease, handoffs,
                   options, startPc, call, shutdown, deadline>>

-----------------------------------------------------------------------------
(* Workspaces: pruning and retention *)

\* listWorkspaces, getWorkspace, getWorkspaceForSession.
PruneWorkspaces ==
    /\ DeleteWorkspaces(Lapsed)
    /\ UNCHANGED <<now, managerVars, sessionVars, callVars, deadline>>

\* The retention timer of a workspace: it finds the record inactive and lapsed,
\* or leaves it to deactivateWorkspace.
WorkspaceTimerFires(id) ==
    /\ wsTimers[id] # 0 /\ now >= wsTimers[id]
    /\ IF id \in Lapsed THEN DeleteWorkspaces({id})
       ELSE wsTimers' = [wsTimers EXCEPT ![id] = 0] /\ UNCHANGED <<workspaces, wsLeases>>
    /\ UNCHANGED <<now, managerVars, sessionVars, callVars, deadline>>

-----------------------------------------------------------------------------
(* Handoff and takeover *)

Unresolved == UNCHANGED <<now, managerVars, options, startPc, stoppers, shutdown, deadline>>

\* handoff, and workspaceHandoff, which also requires the workspace record and
\* refuses one that is already user controlled.
Handoff(id, tenant, viaWorkspace) ==
    /\ Known(id)
    /\ CanGet(id, tenant)
    /\ call[id] = "idle"
    /\ handoffs[id] < options[id].handoffs
    /\ browser[id] \in {"READY", "PAUSED_CHALLENGE"}
    /\ viaWorkspace => workspaces[id].control \in {"AGENT_CONTROLLED", "INACTIVE"}
    /\ IF viaWorkspace THEN DeleteWorkspaces(Lapsed) ELSE UNCHANGED workspaceVars
    /\ call' = [call EXCEPT ![id] = "handoff"]
    /\ UNCHANGED sessionVars
    /\ Unresolved

\* Inside the session: the lease is granted and the user is in control.  The
\* session still scans and audits before its promise resolves.
HandoffGranted(id) ==
    /\ call[id] = "handoff"
    /\ browser[id] \in {"READY", "PAUSED_CHALLENGE"}
    /\ browser' = [browser EXCEPT ![id] = "USER_CONTROLLED"]
    /\ handoffs' = [handoffs EXCEPT ![id] = @ + 1]
    /\ lease' = [lease EXCEPT ![id] = [token |-> handoffs[id] + 1, expiresAt |-> now + HandoffTtl]]
    /\ call' = [call EXCEPT ![id] = "granted"]
    /\ UNCHANGED <<workspaceVars, alive>>
    /\ Unresolved

\* The promise resolves with the token: updateWorkspaceControl, and the second
\* write of the same lease by workspaceHandoff.
HandoffReturns(id) ==
    /\ call[id] = "granted"
    /\ browser[id] = "USER_CONTROLLED"
    /\ call' = [call EXCEPT ![id] = "idle"]
    /\ workspaces' = [workspaces EXCEPT ![id].control = "USER_CONTROLLED"]
    /\ wsLeases' = [wsLeases EXCEPT ![id] = lease[id]]
    /\ UNCHANGED <<wsTimers, sessionVars>>
    /\ Unresolved

\* takeover; the session refuses it unless the user is in control.
BeginTakeover(id, tenant) ==
    /\ Known(id)
    /\ CanGet(id, tenant)
    /\ call[id] = "idle"
    /\ browser[id] = "USER_CONTROLLED"
    /\ call' = [call EXCEPT ![id] = "takeover"]
    /\ UNCHANGED sessionVars
    /\ Unresolved

Takeover(id, tenant) ==
    /\ BeginTakeover(id, tenant)
    /\ UNCHANGED workspaceVars

\* workspaceResume with the right token.
WorkspaceResume(id, tenant) ==
    /\ workspaces[id].control = "USER_CONTROLLED"
    /\ wsLeases[id] # NoLease
    /\ wsLeases[id].expiresAt > now
    /\ BeginTakeover(id, tenant)
    /\ DeleteWorkspaces(Lapsed)

\* workspaceResume after the deadline: the lease is dropped.
WorkspaceResumeTooLate(id, tenant) ==
    /\ Exists(id) /\ (tenant = None \/ tenant = options[id].tenant)
    /\ workspaces[id].control = "USER_CONTROLLED"
    /\ wsLeases[id] # NoLease
    /\ wsLeases[id].expiresAt <= now
    /\ LET kept == {i \in Ids : i \notin Lapsed}
       IN  /\ workspaces' = [i \in Ids |-> IF i \in kept THEN workspaces[i] ELSE NoWorkspace]
           /\ wsTimers' = [i \in Ids |-> IF i \in kept THEN wsTimers[i] ELSE 0]
           /\ wsLeases' = [i \in Ids |-> IF i \in kept \ {id} THEN wsLeases[i] ELSE NoLease]
    /\ UNCHANGED <<sessionVars, call>>
    /\ Unresolved

\* Inside the session: the lease is released and the agent resumed; the scan
\* that follows may pause the session again.
TakeoverDone(id) ==
    /\ call[id] = "takeover"
    /\ browser[id] = "USER_CONTROLLED"
    /\ lease[id].expiresAt > now
    /\ \E s \in {"READY", "PAUSED_CHALLENGE"} :
         /\ browser' = [browser EXCEPT ![id] = s]
         /\ call' = [call EXCEPT ![id] = IF s = "READY" THEN "returned" ELSE "idle"]
    /\ lease' = [lease EXCEPT ![id] = NoLease]
    /\ UNCHANGED <<workspaceVars, alive, handoffs>>
    /\ Unresolved

\* The promise resolves: updateWorkspaceControl gives the workspace back.  The
\* record of a session that is not being stopped is there (RecordOutlivesUse).
TakeoverReturns(id) ==
    /\ call[id] = "returned"
    /\ browser[id] \in {"READY", "PAUSED_CHALLENGE"}
    /\ call' = [call EXCEPT ![id] = "idle"]
    /\ workspaces' = [workspaces EXCEPT ![id].control = "AGENT_CONTROLLED"]
    /\ wsLeases' = [wsLeases EXCEPT ![id] = NoLease]
    /\ UNCHANGED <<wsTimers, sessionVars>>
    /\ Unresolved

\* The control call rejects: refused lease, timeout, abort by a stop or by a
\* challenge, failed audit.  What the session already did stays done.
CallRejects(id) ==
    /\ call[id] # "idle"
    /\ call' = [call EXCEPT ![id] = "idle"]
    /\ UNCHANGED <<workspaceVars, sessionVars>>
    /\ Unresolved

\* A page event's scan finds a challenge in an idle session, or resume clears it.
ChallengeAppears(id) ==
    /\ browser[id] = "READY"
    /\ browser' = [browser EXCEPT ![id] = "PAUSED_CHALLENGE"]
    /\ UNCHANGED <<now, managerVars, workspaceVars, alive, lease, handoffs, callVars,
                   deadline>>

Resume(id, tenant) ==
    /\ Known(id)
    /\ CanGet(id, tenant)
    /\ call[id] = "idle"
    /\ browser[id] = "PAUSED_CHALLENGE"
    /\ browser' = [browser EXCEPT ![id] = "READY"]
    /\ UNCHANGED <<now, managerVars, workspaceVars, alive, lease, handoffs, callVars,
                   deadline>>

-----------------------------------------------------------------------------
(* shutdownSessions *)

\* With no session to stop it is over within the same microtask queue.
ShutdownBegins ==
    /\ shutdown.phase = "idle"
    /\ shutdown' = [phase |-> IF sessions = {} THEN "done" ELSE "waiting", list |-> sessions]
    /\ expiryTimers' = [i \in Ids |-> 0]
    /\ CallStop(sessions)
    /\ UNCHANGED <<now, sessions, owners, expired, closed, workspaceVars, alive, lease,
                   handoffs, options, startPc, stoppers, call, deadline>>

\* Every captured session has settled; the map is cleared, with whatever was
\* added to it since.
ShutdownReturns ==
    /\ shutdown.phase = "waiting"
    /\ \A i \in shutdown.list : browser[i] = "STOPPED"
    /\ shutdown' = [shutdown EXCEPT !.phase = "done"]
    /\ ReleaseProfiles(shutdown.list)
    /\ DeactivateWorkspaces(shutdown.list)
    /\ closed' \in RememberAll(closed, shutdown.list)
    /\ sessions' = {}
    /\ UNCHANGED <<now, expiryTimers, expired, sessionVars, options, startPc, stoppers,
                   call, deadline>>

\* Beyond the bound the clock only runs towards timers that are still to fire.
Tick ==
    /\ now < MaxTime \/ \E id \in Ids : expiryTimers[id] > now \/ wsTimers[id] > now
    /\ now' = now + 1
    /\ UNCHANGED <<managerVars, workspaceVars, sessionVars, callVars, deadline>>

-----------------------------------------------------------------------------

Kinds == {"stop", "expiry"}
Callers == Tenants \cup {None}

Next ==
    \/ \E id \in Ids :
         \/ StartFresh(id) \/ StartWithProfile(id)
         \/ ProfileRead(id) \/ ProfileRefused(id)
         \/ LaunchSucceeds(id) \/ LaunchFails(id) \/ StartReturns(id)
         \/ StopAfterLaunch(id)
         \/ \E closes \in BOOLEAN : SessionStopped(id, closes)
         \/ \E kind \in Kinds : StopReturns(id, kind)
         \/ SessionTimerFires(id) \/ LookupExpires(id)
         \/ WorkspaceTimerFires(id)
         \/ HandoffGranted(id) \/ HandoffReturns(id)
         \/ TakeoverDone(id) \/ TakeoverReturns(id)
         \/ CallRejects(id) \/ ChallengeAppears(id)
    \/ \E id \in Ids, tenant \in Callers :
         \/ Stop(id, tenant)
         \/ \E via \in BOOLEAN : Handoff(id, tenant, via)
         \/ Takeover(id, tenant) \/ WorkspaceResume(id, tenant)
         \/ WorkspaceResumeTooLate(id, tenant) \/ Resume(id, tenant)
    \/ PruneWorkspaces
    \/ ShutdownBegins \/ ShutdownReturns
    \/ Tick

Spec == Init /\ [][Next]_vars

-----------------------------------------------------------------------------
(* Properties *)

\* A session that is opening or has opened a browser on its profile and has not
\* finished closing it.
Active(id) ==
    \/ startPc[id] = "launching"
    \/ alive[id] /\ browser[id] # "STOPPED"

\* A persistent profile is never given to two active sessions at once, although
\* start reads the profile store between its checks and several stops,
\* expiries and a shutdown may release the lock (README, "Profile").
ProfileExclusive ==
    \A i, j \in Ids :
        /\ i # j /\ Active(i) /\ Active(j)
        /\ options[i].profile # None
        => options[i].profile # options[j].profile

\* The slots, locks and tombstones are well formed and the locks exclusive.
SlotsSound == TypeOK /\ ProfileExclusive

\* get never returns a usable session after its absolute deadline, whether or
\* not the TTL timer has run; one that the TTL is closing is not returned at all
\* while its cleanup drains, unless the bounded set of expired ids was full and
\* had to forget it (get, expireSession, rememberExpired).
ExpiredFailsClosed ==
    \A id \in Ids :
        CanGet(id, None) /\ startPc[id] = "done" =>
            /\ now < deadline[id] \/ browser[id] \in {"STOPPING", "STOPPED"}
            /\ <<id, "expiry">> \in stoppers => Len(expired) = MaxClosed

\* A retained workspace record whose session is gone is reclaimed.
WorkspaceReclaimed ==
    \A id \in Ids : workspaces[id].control = "INACTIVE" ~> ~Exists(id)

\* Every session gives its slot back: by stop, by shutdown or by its TTL, which
\* nothing extends.
SlotReturned == \A id \in Ids : id \in sessions ~> id \notin sessions

\* The workspace record, which carries the tenant every lookup is checked
\* against, is there as long as its session can be used: neither pruning nor the
\* retention timer nor the stop of another session removes it.
RecordOutlivesUse ==
    \A id \in Ids :
        Known(id) /\ browser[id] \in {"READY", "PAUSED_CHALLENGE", "USER_CONTROLLED"}
        => workspaces[id].control \in {"AGENT_CONTROLLED", "USER_CONTROLLED"}

\* The digest of a workspace lease is kept only while the workspace is with the
\* user: taking over, stopping, expiring and pruning all erase it.
LeaseOnlyWithUser ==
    \A id \in Ids : wsLeases[id] # NoLease => workspaces[id].control = "USER_CONTROLLED"

\* The workspace record outlives every use of its session, and keeps the digest of
\* a lease only while the workspace is with the user.
WorkspaceGuarded == RecordOutlivesUse /\ LeaseOnlyWithUser

=============================================================================
