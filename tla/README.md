# TLA+ models of antigravity-browser

TLA+ specifications of the stateful parts of this repository, the TLC
configurations that check them, and TLAPS proofs of the results that matter most.
Paths below are relative to the repository root; `browser-session.ts:1787` is a
line of `src/browser/browser-session.ts`, and so on. `PROJECT.json` maps every
definition to the lines it models and lists the runs, mutants, hazards and
theorems.

## 1. The system

antigravity-browser drives real browsers for agents and lets a human take a
browser over. Everything runs in Node processes: between two `await`s a piece of
code is atomic, at an `await` anything else may run. The concurrency of this code
is therefore the interleaving of continuations, timers, socket and page events,
and, in the distributed part, of several processes over one Redis.

### Components

| Component | State | Operations | What makes it correct |
|---|---|---|---|
| Control lease (`browser/control-lease.ts`) | owner, control state, hand-off state, token digest, deadline, timer | requestHandoff, takeover, release, resume, recoverExpired, agent and user write guards, dispose, timer callback | the agent never gets the pen back without the user's consent; nobody acts on a lapsed lease; a hand-off ends |
| Session manager (`browser/session-manager.ts`) | sessions, reserved profiles, TTL timers, tombstones, workspaces with tenant, retention and control | start, stop, status, handoff, takeover, resume, workspace variants, expiry, pruning, shutdown | one browser per persistent profile; slots come back; expired sessions fail closed; a workspace record outlives its use |
| Browser session (`browser/browser-session.ts`) | session state, serial queue, browser context, running task | start, queued actions, resume, headed relaunch, handoff, takeover, scans, page crash, stop | one writer at a time; BUSY means a running write; a challenge pause is lifted only by a human; stop terminates |
| Workflow engine (`browser/workflow.ts`, `workflow-runner.ts`, and `workflow()`, `runIdempotentWrite` of the session) | reservation token, action cache, step, deadline, reports | normalizeWorkflow, run, one step after the other, final observation | an action id acts once; the first write begins at the page revision its caller named; nobody acts between a workflow's steps; reports tell what was done; a workflow returns |
| Tabs, target registry, snapshot history (`browser-session.ts`, `target-registry.ts`, `snapshot-history.ts`) | tabs, revision, references with generations, retained snapshots and tombstones | open, switch, close, popup admission, relaunch and restore, snapshot, resolve, diff, expiry | no page escapes the session; a reference acts only on the element that was seen; differences are exact |
| Task queue (`distributed/redis-adapter.ts`) | task records, pending and processing sets, seen URLs | enqueue, dequeue with reclaim, update, renew, claim/release/mark URL (Lua scripts) | fencing: only the lease holder writes; an open task is queued or leased |
| Scheduler and workers (`distributed/scheduler.ts`, `worker-daemon.ts`) | submissions, jobs, renewals, recovery timers, stop state | submit with compensation, cancel, retry, dequeue, run, persist, recover, stop | bounded retries, completed stays completed, every task resolves |
| RPA service (`rpa/service.ts`) | workflows, tasks, timers, write chain, state file | createWorkflow, deleteWorkflow, run, cancel, execute, periodic re-run, load, persist, shutdown | a task runs at most once, no browser is left behind, a queued task has a timer, workflows survive a restart |
| Atomic file storage (`storage/atomic-file.ts`) | file, backup, temporary file | atomicWriteFile, readJsonWithBackup | a reader sees a complete version whatever dies when |
| Browser pool and bridge (`control-plane/browser-pool.ts`) | instances, site bindings, extension sockets, pending requests, metadata file | add, start, configure, stop, remove, bind, unbind, attach or auto-register a bridge, bridgeCall, socket events, load | bindings resolve; no request outlives its connection; no connection is lost or leaked |
| Studio stores (`proxy/pool-store.ts`, `team/access-store.ts`, `extension/managed-extension-store.ts`) | records in memory, one file each, the chain of writes, extension directories | create, update, delete, revoke, authenticate, check a proxy, import and launch an extension | what was acknowledged survives failed writes and a crash; a revoked key stays out; only whole extensions are launched, but for one deleted while it is checked |
| Profiles (`profile/profile-store.ts`, `migration/local-browser-importer.ts`, profile routes of `api/server.ts`) | directories, recycle bin, profileSessionMap | create, clone, update, cookies, delete, restore, purge, import, start and stop of sessions, batches | no acknowledged profile is lost; a running session is the one the map names |
| Synchronizer and automation socket (`synchronizer/index.ts`, `api/server.ts`) | capture, chains of broadcasts and of requests, screencast timer | start and stop of a capture, broadcast, layout; request, answer, frame, close | followers and answers keep the order; windows tile the screen |
| HTTP gate (`api/server.ts`) | members, keys, owner cookies, requests, sockets | authenticate, authorise, upgrade, the groups of handlers, stop | nothing is begun for a key the owner was told is out; every request is answered unless the process ends |
| Tool calls (`mcp/server.ts`, `runtime-guard.ts`, `auth/tenant-auth.ts`, `audit.ts`) | calls under way, token bucket, metrics, audit chain | handleToolCall with audit, tenant, guard, target and session | nothing unrecorded or unauthorised is done; the rate holds |
| URL policy and fetcher (`policy/url-policy.ts`, `fetcher/http-client.ts`) | DNS cache, hop of a fetch | assertAllowed, resolve and pin, redirect, read the body | no connection to a protected network, whatever names resolve to later |
| Input scheduler (`input/scheduler.ts`) | step of an action, pointer, signal | click, hover, type, select, scroll | no input after the abort; no success without all of it |
| Raw CDP connection (`browser/raw-cdp-connection.ts`, `chromium-launcher.ts`) | connection, commands under way, paused workers | connect, send, answer, close, name and release a service worker | a worker runs under its identity; a held worker is let go |
| Memory queue, challenge heuristics, fingerprints, launchers, extraction, configuration | | | not modelled, section 8 |

### Interactions

The front ends call the session manager, the browser pool, the stores and the RPA
service. The pool and the RPA service start and stop sessions through the manager.
The manager owns one `BrowserSession` per slot and mirrors its control state in a
workspace record. Each session owns a control lease, its tabs with their
registries and histories, and one serial queue that single actions and workflows
share. The scheduler and the workers meet only in Redis. The RPA service and the
Studio stores keep their state in atomically replaced files, the pool in one that
is rewritten in place, profiles in directories that are renamed.

### What is hard

* Checks before an await and use after it: the session limit, the profile lock,
  the pool's records, the admission of a queued action, the identity of a request,
  the address of a name, the page a reference was read from.
* Timers that race the calls they guard: lease deadline, session TTL, workspace
  retention, request timeouts, workflow deadlines, recovery retries.
* Events outside every queue: page crash, background scan, socket close, popups.
* Two records of one fact: manager and session each keep who is in control;
  Redis and the worker each keep the state of a task; memory, file and directory
  each keep a profile or an extension.
* Lost replies, lapsed task leases, crashes of a worker or of the Studio process
  between two writes, overlapping saves.

`PROJECT.json` "hazards" lists them at their lines.

## 2. Modules

| Module | Models | Notes |
|---|---|---|
| `ControlOwnership` | abstract protocol: who holds the pen, and whether the user consented | refined by `ControlLease` |
| `ControlLease` | `control-lease.ts`, complete | clock, late and early timer callbacks; a token is the number of its generation |
| `BrowserSession` | `browser-session.ts`: state, queue, context, control, scans, stop | page, launcher and challenge detector are free choices |
| `ControlProofs`, `SessionManagerProofs` | | proofs about lease, browser session and its pages; about the manager |
| `SessionManager`, `SessionManagerMC` | `session-manager.ts` | a method is one action up to its first await and one per continuation; a session is what the manager sees of it |
| `Control`, `ControlMC` | the three levels of control together | extends `ControlLease` and `BrowserSession`, instantiates `SessionManager` |
| `WorkflowLanguage` | the combinations of fields `normalizeWorkflow` accepts | pure; `Meaning` is the reference it is compared with |
| `Workflow`, `WorkflowMC` | executor, runner, reservation, serial queue and action cache | extends `WorkflowLanguage`; the page may never answer |
| `WorkflowProofs` | | proofs about language and engine |
| `TargetRegistry`, `SnapshotHistory` | references; retention, eviction and differences of snapshots | operators on a record; the difference is compared with its definition by sets |
| `PageState`, `PageStateMC` | tabs, popups, relaunch, snapshots and references of a session | extends both; one serial operation against a browser that does not wait |
| `RedisQueue` | the Lua scripts of `redis-adapter.ts` | each script is atomic; one tenant and shard |
| `WorkerCluster`, `WorkerClusterMC` | `scheduler.ts`, `worker-daemon.ts` over `RedisQueue` (EXTENDS) | a queue call may fail before or after it took effect |
| `WorkerClusterProofs` | | proofs about queue and cluster |
| `AtomicFile` | `atomic-file.ts` | contents are whole values; temporary, backup and main file |
| `RpaService` | `rpa/service.ts` over `AtomicFile` (EXTENDS) | crash, exit and restart of the process |
| `RpaServiceProofs` | | proofs |
| `StudioStores` | the three record stores over `AtomicFile` (EXTENDS) | one machine; a behaviour runs one store |
| `ProfileDesk` | profile store, importer and profile routes | a directory is a number that a rename keeps |
| `Synchronizer`, `AutomationSocket` | their files | chains of promises as sequences |
| `Studio`, `StudioMC` | the four parts above under one server | a behaviour runs one part: they share no state |
| `StudioProofs` | | proofs about the four parts of `Studio` |
| `StudioGate` | `handleRequest` and the upgrade of `api/server.ts` | a route is the shape of its handler |
| `ToolGateway` | `handleToolCall` with guard, tenants and audit | the session is what its status says |
| `AddressClasses`, `PageFetch` | URL policy and fetcher | the prefix tests are compared with ranges; addresses are sequences of numbers, names of labels |
| `InputScheduler`, `CdpConnection` | their files | an input action is the sequence of its steps |
| `Gateway`, `GatewayMC` | the five parts above | a behaviour runs one part |
| `GatewayProofs` | | proofs about the parts of `Gateway` |
| `BrowserPool` | `browser-pool.ts` | suspended calls remember whether the object they captured is still in the map |
| `BrowserPoolProofs` | | proofs |

An action is named after the method or callback it models; continuations are named
for what has happened (`ProfileRead`, `StartReturns`, `Stopped`, `LeaseGranted`).
Values no property distinguishes are model values or absent. `Mutant_…` operators
are faulty variants of the definition that follows them; with one in place of the
original, TLC violates the property `PROJECT.json` pairs it with.

How state corresponds to the code, where the names do not say it:

* In `SessionManager`, `startPc`, `stoppers`, `call` and `shutdown` say where each
  asynchronous method is suspended. Timers may run any time after their deadline; the
  clock stops at `MaxTime` unless a timer is still to come.
* `BrowserSession.queue` holds kinds of actions, not payloads; `op` is the running one
  and the await it has reached, `startPc` and `stopPc` the same for start and stop.
* In `Workflow`, `call` holds one record per method call with its place in the
  executor; `effects` is what really happened to the page and is history.
* `PageState.admissions` is the chain `popupAdmissionTail`; `late` counts the pages
  registered without a look at the tab limit. Records of the registry carry, as
  history, the revision the page had when the node was read.
* `WorkerCluster.job` is the local copy of a record in a worker, with the lease
  number it was handed out under; `recovery` is the set of retryTimers and
  lateRecoveryWork.
* `RpaService.writes` is the promise chain of `persist()`; each element remembers
  who awaits it. `live` counts browsers per task and is history, as is `starts`.
* In `StudioStores`, `promised` is what callers were told; in `ProfileDesk`, `kept`
  and `removed` likewise. `early`, `overlap` and `mistaken` are set where the code is
  known to race or to go wrong (section 7) and are excluded from the property by name.
  A launch of extensions goes from id to id and from file to file, as the hashing does;
  a removal takes the files one by one.
* A directory in `ProfileDesk` has the profile its metadata names (`names`), which an
  update writes to, beside the place it is in.
* In `StudioGate` a place that is `Lost` belongs to a request the process left
  unanswered when it ended.
* `BrowserPool.conn` is the socket seen from `ws`: after `close()` messages still
  arrive until the close event, so a replaced socket is "closing", not gone.
  `disk` holds what `load()` keeps: mode, context and bindings.

## 3. Plan

Done, in this order: control lease with its abstract protocol and proofs; session
manager; browser session; Redis queue and cluster; RPA service on the atomic file;
browser pool and its proofs; workflow engine; tabs, references and snapshots; the
Studio's stores, profiles, synchronizer and sockets; the gate, tool calls, policy,
input and CDP connection; the composition of the control levels.

Proofs of session manager, browser session, queue and cluster, RPA service, workflow
engine, of gate, tool calls, policy, fetcher and CDP connection, and of the Studio's
stores, profiles, synchronizer and socket, and of the pages followed. Left:
`InputScheduler` InputStops, which needs the lengths of flattened plans, and
HistoryExact, which needs sums over entries and counts over nodes (section 6).

Abstract specifications worth stating beyond `ControlOwnership`: an at-least-once
task queue with fencing, for `RedisQueue` and the memory queue, and an atomic
register, for `AtomicFile`.

## 4. Runs

| Run | Instance | Shows |
|---|---|---|
| Control | lease: TTL up to 2, timers up to 1 tick early, 2 generations, 6 ticks. Session: queue of 2, 3 launches, 1 crash, 1 failing close. Manager: 1 session, 2 hand-offs, retention 1, TTL 2 | the lease manager's fields agree and its timers are not leaked, consent, no use of a lapsed lease, every hand-off ends, refinement of `ControlOwnership`; one writer unless a page crashed, BUSY, no context lost by a relaunch, pauses, stop terminates; slot and workspace record return |
| SessionLifecycle | 2 session ids, two for one profile or one without, 2 slots, either retention, 1 hand-off, TTLs of 1 | two live browsers never share a persistent profile; a session past its TTL fails closed even before its timer runs, and one that is being closed for it while the list of expired ids has room; a workspace record outlives its use and keeps a lease only while the workspace is with the user |
| Workflow | 8 pairs of calls (workflows, writes, a hand-off, malformed ones, repetitions), 2 steps, queue of 2, cache of 1, 1 navigation, 1 interrupt, 1 expiry of the lease | an action id acts once unless the cache dropped it; the operation of the first write begins at the revision its caller named; reports agree with the page; nobody acts between what a workflow does and its observation; every workflow returns although the page may hang |
| PageState | 6 scenarios: relaunch, closing, end, references, two tabs, history; 3 tabs, 2 references, 2 snapshots | no page escapes, the guard follows the active tab, references, exact differences under eviction and expiry, popups settle |
| ClusterSafety | 1 task, 2 workers, 1 retry, 2 faults, 1 crash, 1 stop, 1 operator request | no stranded task, bounded retries, completed is final, only the lease holder writes |
| ClusterProgress | 2 tasks of one URL, 2 workers, 1 crash, 1 fault | a URL claim has a submission behind it unless the claim's own reply was lost; every queued task resolves |
| RpaService | 2 tasks (a run and its periodic successor), 1 workflow, 1 step, 1 restart, 1 write error | at most one execution per task, no orphan browser, a queued task has a timer |
| BrowserPool | 1 instance, 3 sockets, 2 overlapping calls, 2 requests, 1 host, 1 context, 1 failed write, 1 restart | bindings, requests, sockets, sessions |
| Studio | 2 requests at a time; 3 calls, 1 failed write and 1 crash per store, and two extensions under a launch and a removal; profile ids of which one begins like the other, 1 trouble; 2 followers, 3 actions, up to 14 windows; 4 socket requests | acknowledged records and profiles survive; revoked keys stay out; launched extensions are whole but for one deleted meanwhile; running sessions of profiles are in the map; order; tiling; every request ends |
| Gateway | 14 kinds of routes, 2 requests; 3 tool calls, burst 1; 3 names, 4 answers of DNS, 5 policies, every edge of every protected range; 5 kinds of input; 2 service workers, 2 failures | what is done was allowed and recorded, rate, networks, input stops, workers are named first, everything ends unless the process does |
| BrowserSingleWriter, RpaDurable | smallest instances | disagreements between the code and its documentation, section 7 |

Why the bounds are enough to be of interest: every guard that compares two holders
of something (lease, profile, task, socket, request) needs two of them, and every
"late" event needs an old and a new generation. Two of each are in the instances,
three sockets so that a replaced connection can be replaced again, three tabs so
that the limit is reached by a popup beside the two tabs of a switch. Caches and
histories hold one or two entries so that they overflow. A counter bound
(`MaxTime`, `MaxFaults`, `MaxRestarts`, ...) is a guard of the action it limits and
is named in the module; `PageState`'s bounds are fields of a scenario because the
cases do not need each other. Where a run has only one task or instance, its
properties speak of one at a time; for every part with a theorem the proofs of
section 5 cover any number. Deadlock is not checked where a bounded model simply runs out of events.

`Control`, `Studio` and `Gateway` explore parts that share no variable: a behaviour
starts in one part and stays in it, which shows the same as a run per part. Their
fairness conditions therefore speak only of the steps of the part that runs.

### Fairness

* `ControlLease`: the clock advances and a due timer is run eventually (the event
  loop is not blocked for ever). Callers are not fair.
* `SessionManager`: time passes, timers run, and awaited promises of launches,
  profile reads and stops settle; stop and close are bounded by timeouts in
  `browser-session.ts`. No fairness for users and tenants.
* `BrowserSession`: only the steps of `stop()` itself: its drain timer fires, the
  close settles. The running task need not make progress.
* `Workflow`: the executor's own continuations and its deadline timers. Nothing of
  the page or the task: a step may hang for ever, and the workflow still returns.
* `PageState`: the admission of popups, whose lookups have time limits of their own.
* `WorkerCluster`: a live worker polls, runs and persists, recovery timers fire, and
  leases lapse in real time. In ClusterProgress no worker is stopped by an operator
  and at most one crashes.
* `Studio`: file operations, browser calls with their timeouts and chained promises
  settle; a process that died is restarted. `Gateway`: the same for audit writes,
  name lookups, pauses and commands, each of which has a timeout, and the aborted
  or closed connection rejects what waits on it. No request has to arrive.

## 5. Proofs

Eight modules hold theorems. They are checked by TLAPS for every value of the
constants, under the `ASSUME`s of the modules, which say no more than what the code
has: TTL, slack, limits and bounds are naturals (limits of a queue or of steps at
least 1), the sets of session ids and of concurrent tool calls are finite, and the
value for "nothing" is none of the others. `RequestAssumption` and `FetchAssumption`
say what the inputs are: the fields of a request have their types, a url names a host
or holds an address, resolvers answer with addresses. `RouteAssumption` is the one fact
taken from the routing table: the routes that change members or keys are under
`/api/team`. The bounds of TLC's counters are constants like the others, so a theorem
speaks of every number of crashes, faults and restarts. `StoresAssumption`,
`DeskAssumption` and `SyncAssumption` say the same of `Studio`: a store is one of the
three, a team has a member, the profile that may be there at the beginning is one of the
profiles, the followers are finitely many. `PageAssumption` is that there may be three
tabs (every policy allows five), `ScenarioAssumption` that pages show sequences of nodes.
Every inductive invariant was an invariant of a TLC run before it was proved.

**ControlProofs, the lease.** The inductive invariant is `LeaseInv == TypeOK /\ StateAgrees
/\ TimerHygiene /\ ConsentTracksPhase`. AgentNeedsConsent alone is not inductive:
`resume()` reads the hand-off phase and not the history, so the invariant has to
tie the phase to the recorded consent (`ConsentTracksPhase`), and the phase to
owner and lease (`StateAgrees`). `TimerHygiene` is needed because a callback acts on
the lease it belongs to. From it follow `TypeCorrect`, `FieldsAgree`,
`TimersAreClean` and their conjunction `RecordCoherent` (LeaseCoherent of the run
Control), `NoReclaim` (AgentNeedsConsent), the action properties
`UserWritesFenced` and `TakeoverTimely`, together `LapsedLeaseUnused` (LeaseTimely),
and `ImplementsOwnership`: every step of the lease manager is a step or a stutter of
`ControlOwnership`. `Control` extends `ControlLease` and `BrowserSession`, so the run
checks the formulas the theorems of both are about.

**BrowserPoolProofs.** `IndInv` is the type invariant and the three state
properties with three facts about the implementation: the metadata file resolves
its own bindings (`DiskResolves`, what a restart relies on), a suspended call that
still owns its object finds it in the map (`CapturedExists`, what the continuation
of `start()` and `stop()` relies on), and the listeners of an attached socket belong
to the instance it serves (`SocketBound`, what the close event relies on). Each
action has a lemma. They share `RecordSet` (an update of one record removes no
instance) and `PersistResolves` (the file resolves whether or not the write
worked). Results: `TypeCorrect`, `BindingsAlwaysResolve`, `StoppedIsEmpty` and their
conjunction `ListingCoherent` (PoolCoherent), `RequestsHaveSocket`, and, as an action
property, `ConnectionsKept`.

**ControlProofs, the browser session.** SingleWriterUnlessCrash compares the running write with the
lease and is not inductive: a write that was admitted before a hand-off, or an action
queued behind one, could still run. `LeaseFreezesAgent` says what the queue and the
gates of `enqueue` achieve: while a person holds the lease and no page has crashed,
the state stays `USER_CONTROLLED` or `STOPPING` and the running action is one of the
few that cannot change it. `BeforeCallers` (nobody has the session before `start()`
returned) and `LaunchAfterClose` (`launchContext` finds the field empty) complete
the invariant. Results: `OneWriter` (SingleWriterUnlessCrash), `SessionIsSettled`
(SessionSettled), and the action property `PauseIsLiftedByHand` (PauseNeedsHuman),
which needs no invariant. That the theorem excepts crashed pages is not a weakness
of the proof: the run BrowserSingleWriter shows the code without the exception.

**ControlProofs, the pages.** TabsManaged relates four things that change at different
times: the list of tabs, the pages the browser has open, the chain of admissions and the
operation that is suspended. `PageInv` adds what each of them relies on while another
moves. `JobSound` says what a suspended operation still finds after its await: the tab
being closed and its replacement, which is another tab (`CloseSound`), the tab of a
snapshot at a revision no earlier than the one remembered (`SnapshotSound`), the page of
a relaunch (`RelaunchSound`), the reference that was accepted (`ResolveSound`).
`RoomLeft` counts the tabs a relaunch has yet to restore together with those there are,
and keeps a place for the page whose address is being looked up: the limit is checked
before that await and not after it. RefNamesSeenElement needs of a registry that
every reference was registered under a revision no later than the one its node was read
on (`RefsSound`), and that no navigation leaves references behind: a reference that
carries the session's generation was then read on this very revision. Its second half is
that a node is among those its own description matches. Histories have no part in it and
are left untyped. `RegisterKeepsTidy`, `Removed`, `RegisterMeans` and `EscapesMoved` are
the lemmas most actions share. Results: `TabsAreManaged` (TabsManaged) and
`RefsNameSeenElements` (RefNamesSeenElement), both from `PagesKeepOrder`.

**SessionManagerProofs.** ProfileExclusive is about two sessions, and `start()` looks
at the profile's owner before it awaits the profile store and sets it after. The
invariant replaces the comparison by the lock: `LockHeld`, a session that is active
on a profile is its owner on record. `LaunchPhases` ties where each `start()` is
suspended to its session, `TimerIsDeadline` the TTL timer to the deadline, and
`ExpiryRecorded` the running expiries to the list of expired ids. The lemmas about
that list (`ForgetDistinct`, `NewestDistinct` and their use for a set of ids) say
that deleting, appending and evicting keep it without duplicates and within its
limit. Results: `ProfilesExclusive` (SlotsSound), `DeadlineEnforced`
(ExpiredFailsClosed), `WorkspacesGuarded` (WorkspaceGuarded). The proof corrected a
property: that `get` refuses every session its TTL is closing is not so when
`maxClosedStatuses` others expire while its cleanup drains, because `rememberExpired`
then evicts its id, its timer is gone and it is still in the map. What `get` returns
then is `STOPPING` or `STOPPED`, never usable, which is the first conjunct; the
second now names the full list.

**WorkerClusterProofs.** Two levels. Each step of a worker, of the recovery work or of
an operator does to the queue one of the few things of `QueueStep`, one per accepted
Lua script; that these preserve `QueueInv` (`RecordShape`: how a record's fields and
the two sorted sets go together; `RunsPaid`: each handing out is paid for by a retry)
and what they can do to one task (`TaskStep`) is shown once. The second level is what
others remember of the queue: the lease number of a job, of recovery work or of a
request is one that was issued, and *if the record still carries it* the retries
remembered are still those that pay for the run (`JobHeld`, `WorkHeld`,
`RequestHeld`). The condition is the fence: a worker that lost its lease may
remember anything, because no script accepts it. Results: `NothingStranded`
(QueueSound), `AttemptsBounded` (RetriesBounded), the action property `Fenced`
(LeaseFences), `ClaimsOwned` (ClaimHasOwner).

**RpaServiceProofs.** What a restart finds is the state as it was when the last
completed write *began*, so that a task has at most one browser is a statement about
every copy of the state that can still be loaded. `Durable` says that once a task's
execution is past its first `persist()` neither the file, nor the write under way,
nor the contents `load()` has opened have it queued, and that the write its own
execution waits for at the head of the chain does not either. `Schedule` says that
the timer, the `run()` that waits for its write and the `next` of another task's
execution exclude each other and an execution (otherwise a task could be started
twice), `Awaiting` that the chain of writes holds at most one waiter per execution
(lemmas `ChainGrows` and `ChainShrinks`), `Placed` that contents being loaded and
memory have no task in common. A step that touches one task passes the others by
(`Kept`); each action has a lemma on top of `CallKeeps`, `ExecutionMoves` or
`WriteOver`. Results: `OneBrowserPerTask` (AtMostOnce), `TasksLookedAfter`
(TasksAttended).

**WorkflowProofs.** A task outlives the wait for it: when a step's deadline passes, the
executor reports and goes on or ends, while the task it queued may still be waiting in
the serial queue, or act later. "Each step acts once" and "the first write began at the
revision its caller named" therefore cannot be read off the executor's place.
`IInv == TypeInv /\ CallersInv /\ DeedsInv /\ TasksInv /\ SharedInv /\ CacheInv` ties
every queued task and every effect on the page to a position, a step and the call within
it: what was done lies at or before the place of its workflow, no position is queued or
done twice, and a task that has not acted has no effect at its position (`TaskFits`,
`DeedFits`, `SamePlace`). `CacheInv` says that a call that ran is the one the cache knows
under its action id, or that the id was evicted: without it the second call of an id
could act. `SharedInv` is the promise such a second call awaits.
Uninterrupted speaks of the order in which calls have acted (`acts`), and the
reservation alone does not give it: a task that a deadline left behind may belong to a
workflow that has returned. `Holders` says that a workflow under way has the reservation,
`GivenUp` that what it leaves in the queue carries a raised signal before it gives the
reservation up, `Turns` and `Lasting` that whoever is in the middle of its deeds was the
last to act. Results: `WritesAreGuarded` (WritesGuarded), `ResultsAreTruthful`
(ResultTruthful), `DeedsAreUninterrupted` (Uninterrupted), and `AcceptedMeans`: every step
that `normalizeWorkflow` accepts, not only those of the run, has a meaning.

**GatewayProofs.** One invariant per part; a step of one part leaves the variables of the
others alone, so their conjunction `GatewayInv` is inductive.

* *Addresses.* `ClassesAgree`: for every IPv4 and IPv6 address, the mapped and embedded
  ones included, the prefix and octet tests of `classifyIpv4` and `classifyIpv6` give
  "public" exactly when the address is in no protected range, and "metadata" exactly for
  the metadata addresses. TLC only sees the edges of the ranges.
* *Fetcher.* FetchStaysOut speaks of the connection; between the check and the connection
  lie the cache, which is filled under one answer of DNS and read under another, and the
  redirects. `FetchInv` says that everything pinned, cached or connected is permitted by
  the policy in force. Result: `FetchesStayOut` (FetchStaysOut).
* *Rate.* A bound on the admitted calls alone is not inductive, because what a bucket will
  still admit depends on its tokens and on the time since the last refill, and the wall
  clock may be set back. `BucketInv` is the balance `tokens + admitted * Cost + Rate * gap
  <= Burst * Cost + Rate * elapsed` with `gap <= elapsed`, where the gap is the time that
  the next refill will pay for. Result: `RateIsBounded` (RateBounded).
* *Tool calls.* `NotesFit`: each audit record that is still to be written belongs to a
  call that waits for it, and to one such record only, so no call is settled twice;
  `Footing`: a call past its checks is recorded and entitled; `Tallied`: the metrics and
  the calls under way add up to the calls received, and the successes and the calls past
  their checks do not exceed the admitted ones.
* *Gate.* `Team`: who was told to be out has a revoked key or is a suspended member;
  `Rightful`: a request under way was not of those when it came, and one that changes
  members or keys is an owner's; `Service`: an open socket of a barred key is a
  bridge's; `Link`: the bootstrap link gives one cookie at most. With the tool calls: `CallsAreGuarded` (CallsGuarded).
* *CDP.* `Attended`: a held worker exists, is being looked after, and was named before it
  is released or runs. Result: `WorkersAreNamed`, the half of InputAndIdentity that is
  about identities.

**StudioProofs.** The parts share no variable, so `StudioInv` is again one invariant per
part.

* *Stores.* A call is answered when the write it asked for is done, but a write takes the
  whole memory, so what others are doing is written with it, and a crash or a failed write
  goes back to an older version. `Settled` says for every id on which no call is under way
  what its caller was told is in the file, in the version being written and in memory, and
  `Undrawn` that an id nobody has drawn is in none of them. `Chained` (whoever waits for a
  write waits for one, once) makes the two hold when the write ends; `Phases` holds apart
  the moments before the file is read; `Packages` relates an extension's directory to
  its record, and `LaunchInv` what a launch has verified to what is still there, unless
  its record has gone. Result: `StoresKeepWord` (StoresKeepTheirWord). `early` stays an exception:
  there the code does lose a record (section 7).
* *Profiles.* "Exactly one place" is not inductive: a copy that goes to the recycle bin
  could meet its like there. `Unlike` says that all directories, in their places and in
  the bin, have different numbers, `Lives` that a new one has a number none of them has,
  `There` that an acknowledged one is somewhere with its metadata. Every request step then
  is one of five things to the disk: a file is written, a directory is discarded,
  restored, erased, or nothing (`FileWritten`, `Discarded`, `Restored`, `Erased`,
  `DiskUntouched`). `Placed` is what a purge needs: it has listed what begins like its
  profile.
* *Sessions.* The map is written when a launch ends and cleared by several calls, among
  them ones that began for an earlier session. `Owned` (the manager knows a session until
  it has stopped, and one per profile), `Launches` (each launching request has a session
  of its own) and `Aside` (a session leaves the manager while its stop is still awaited
  only if a second stop was answered at once, which `overlap` records) make `Mapped`
  inductive. Result, with the disk: `ProfilesAreSound` (ProfilesSound).
* *Order.* For the synchronizer the counters have to account for every action and follower:
  `Missed` is the set of pairs that were tried in vain, and its size is the counter. For
  the socket, answers and chain together are the numbers received. The layout needs that
  quotient and remainder of a window's number determine it (`Places`, `Products`).
  Result: `OrderIsKept` (OrderKept).

The proofs also found fault with the models. A TLA+ `CASE` whose guards overlap may take
either branch, TLC takes the first: the verdicts of `Workflow`, `classifyIpv4`,
`classifyIpv6` and `requiredRole` were written so, and are now the chains of
IF that the code's early returns are.

## 6. Only model-checked

Liveness (HandoffEnds, StopTerminates, ResourcesReturned, WorkflowReturns,
PopupSettles, TaskResolves, RequestsAnswered, GatewayQuiesces): the prover does not
handle fairness.

The half of InputAndIdentity that is about input (InputStops): an action's plan is a
flattened sequence of steps, and how long it is needs induction over data. For the same
reason HistoryExact stays with TLC, and what `SnapshotHistory` and `WorkflowLanguage`
compute beyond `AcceptedMeans` is compared with reference definitions over the inputs of
their runs only. WorkflowsPersist is violated (section 7).

## 7. Where code and documentation disagree

Two runs are expected to find a violation:

* **BrowserSingleWriter**: `docs/architecture.md:195` promises one writer. A page crash
  under user control sets ERROR (1637); a scan that finds a challenge turns ERROR into
  PAUSED_CHALLENGE (`browser-session.ts` 1784-1788), which ends neither the lease nor the
  user's control; a `resume()` confirmed by a person, with a clean scan, sets READY
  (847-855), and agent writes are admitted beside the user's lease.
* **RpaDurable**: a Studio that is shut down before it served an RPA request saves
  empty maps over the stored workflows (`rpa/service.ts:184`).

Seen while modelling, described here only:

* Session manager: `docs/prd.md:200` bounds the concurrent sessions, but `start()`
  checks the limit (255) before it awaits the profile (274) and takes the slot at 396,
  so concurrent starts exceed it. The comment at 848-849 says a slot stays occupied
  until a retry of a failed expiry succeeds, but `BrowserSession.stop` swallows the
  close error and the slot is freed. A second stop by the tenant after a destroying
  stop is refused (591-595) though `docs/technical-design.md:320` calls it idempotent.
  A takeover that fails after the lease was returned leaves the workspace
  USER_CONTROLLED (666-670). A start in flight during `shutdownSessions` is forgotten
  (780-790).
* Browser session: a task that outlives the drain of `stop()` sets READY after STOPPED
  (853) or opens a browser after the stop (797-806, 933-938). A hand-off that fails
  after the grant loses the token (944-951). After a lease expiry no call leads back to
  user control (927-931; `docs/architecture.md:436`).
* Workflows: the revision a caller named is compared when the operation of the first
  write begins (`browser-session.ts` 990, 1144, 1170, 1211); then come `assertUrlAllowed`
  or the resolving of the target and the path of the pointer, and the page may navigate
  before the act (`seen` and `rev` of an effect in `Workflow`). `type` with `clearFirst`
  empties the field before it looks at an abort (1177).
  `runIdempotentWrite` caches rejected promises, so a repetition answers the
  old error. The fingerprint of a workflow omits `stopOn` and
  `definition.expectedPageRevision`, and `definition.actionId` is ignored. `page_open`
  does not look at an abort before `goto`. A hand-off is refused while a workflow holds
  the reservation. An audit failure turns a finished workflow into an error. A popup
  followed by a dialog, with a `stopOn` without dialogs, does not stop the workflow,
  though `README.md:326,335` and `workflow.ts:993` say a popup always does.
* Tabs: a popup is announced by two events and admitted twice; at the last free slot
  the second admission closes the page while its tab stays registered. The limit and
  the state are not looked at again after the URL check, nor by the restoring of tabs
  and the replacement of a closed one (`late` in `PageState`). A late admission can
  register a page of a closed context. `isMain` is lost with the main tab.
  `recordWithDiff` may evict its own base (comment at `snapshot-history.ts` 434-437).
  `resolve` does not look at the generation again after its awaits.
* Cluster: a clean stop with a dequeue in flight leaves the task leased until it lapses
  (`worker-daemon.ts` 161-164, 246-250). An operator's retry of a FAILED task is refused
  because its leaseId is kept (`scheduler.ts` 250-265); so is the cancel of a requeued
  task (235-248). Compensation after a lost enqueue reply releases the claim of a queued
  URL (329-344). The claim itself is awaited outside the `try` (91): when its reply is
  lost the submission fails and the URL stays claimed with nothing behind it.
  `worker-daemon.ts:392-394` says a completed task must advance URL de-duplication; when the reply of the update is lost, its retry is refused
  (`redis-adapter.ts` 248-251) and the mark is never written.
* RPA: a cancel during the session start or between two steps ends SUCCEEDED and the
  periodic run goes on (212, 225). Deleting a periodic workflow during its run makes
  `run()` throw inside the uncaught `execute()`. A crash during a periodic run ends the
  chain, since a RUNNING task becomes FAILED and has no successor.
* Browser pool: a second `start()`, or a `stop()` or `remove()` during a start, leaves
  a session that no instance refers to (131-132, 177-181, 190). `start()` on a connected
  bridge shows AWAITING_BRIDGE (119-121), and a late ready message of a stopped socket
  shows READY without a connection (438-443). A message over the size limit closes the
  current socket also when a replaced one sent it (430).
* Stores: the proxy pool's `load()` marks itself loaded before it has read the file, so
  a call in that moment works on nothing (`early`). A proxy's check writes back the
  record it read before the probe, and an update keeps the old verdict. A rejection of
  `authenticate`'s `void persist()` is unhandled. Two imports of one package make two
  records; a failed delete of an extension leaves memory and file apart; assigning and
  deleting an extension race. A launch reads the files of its extensions one after the
  other (`managed-extension-store.ts` 144-157, 222-228), so one that is deleted while
  they are hashed (138-139) may be handed out with files already gone.
* Profiles: purge and restore look for the prefix `id--`, which also fits `id--x`: a
  purge of `p` destroys what was deleted as `p--x` (`mistaken`), and a restore of `p` may
  put it in the place of `p`. Its metadata still names `p--x`, and the update that follows
  is written to the directory of that name (`profile-store.ts` 171, 189, 335), which it
  makes if need be. `POST /browser/start` (478-496) starts a session that only its id
  leads to. The initial cookies of a session are read for the id in the metadata
  (`session-manager.ts:296`).
  Saving cookies, updating or starting a session after a delete makes the directory
  again and blocks the restore. A batch delete, and a delete during a launch, leave the
  session running. A batch stop keeps the map entry when the stop throws; a stop that
  waits for its audit record drops the entry of a newer session (`overlap`). Two imports
  can share a directory, and one that fails removes the other's. A create that fails
  after `mkdir` leaves a bare directory.
* Synchronizer and socket: starting a capture during the shutdown leaks it; queued
  broadcasts go on after `stopCapture`; a screencast queued behind the closing of its
  socket leaves a timer (`behind`). One window gets a grid of two by two. The JSON
  value `null` as a message gets no answer: reading its id (`server.ts:1524`) throws
  outside the inner `try`, and the catch at the end of the chain drops the error.
* HTTP gate: who asks is settled when a request arrives, so a request of a member that
  was suspended or demoted meanwhile still takes effect, and automation sockets stay
  open. What is thrown before the `try` of `handleRequest` is caught nowhere (72-74): a
  host or path that makes no url (158), a cookie or an id in the path with a broken escape
  (1443, 1616-1619); nor is it in the upgrade listener (80, 96, 1443). The request gets no
  answer, and in the Studio (`scripts/start-studio.ts` installs no handler) the process
  ends, with the other requests unanswered. Under `src/index.ts` `onFatal` (135-145) shuts
  down in order instead, where `server.close` waits for the client of the unanswered
  request to give up. The upgrade to `/ws/bridge` (81-92) asks nobody who they are. The
  broadcast route goes on after its 400 (`server.ts` 1274-1276) and answers
  twice; the rejection ends the process. A failing CSV import leaves the rows before.
* Tool calls: browser_resume, browser_handoff, browser_takeover, browser_reopen_headed
  and the workspace variants require "read" as tools and "submit" as methods. The
  agents' WebSocket messages are not chained. The browser's own navigation is checked
  by `assertAllowed` and not pinned to the checked address.
* Input and CDP: `hover` does not look at the signal after its pointer path, and the
  pointer's position is not updated after an aborted move. A failed
  `runIfWaitingForDebugger` leaves a service worker paused.

## 8. Not modelled

* The memory queue (`distributed/queue-adapter.ts`), a stand-in for Redis in
  development; schemas, configuration, wording and layout of answers: validation and
  formatting over the components above, reduced to whether a request is sound.
* Launch options, fingerprint scripts, GeoIP, extraction, challenge heuristics, cookie
  and proxy parsing, the pages of the Studio: data and I/O without a protocol; their
  outcomes are free choices of the models.
* Sessions started by the RPA service (`rpa/service.ts:208`) and by tool calls: they are in
  `RpaService` and `SessionManager`, not in the map of `ProfileDesk`.
* Session manager: the server-wide persistent profile without a profile id; the calls
  it passes through to a session.
* Browser session: what an action does to the page; screenshots and diagnostics.
* Redis: more than one tenant or shard, worker heartbeats; the claim TTL. Redis itself
  does not lose data.
* RPA: `updateWorkflow` (contents only), the truncation of the task list to 500 entries,
  step validation and interpolation. The read of the state file is one step at its
  opening.
* Profiles: the migration write of an old record, the partial removal of a purge, two
  deletions in one millisecond.
* Browser pool: names, ports, endpoints, tabs, payload validation; the URL policy is
  awaited before anything of the pool is read, so a request starts after it.

## 9. Running

```
tlc -config Control.cfg ControlMC
tlc -config SessionLifecycle.cfg SessionManagerMC
tlc -config BrowserSingleWriter.cfg BrowserSession
tlc -config Workflow.cfg WorkflowMC
tlc -config PageState.cfg PageStateMC
tlc -config ClusterSafety.cfg WorkerClusterMC          # and ClusterProgress.cfg
tlc -config RpaService.cfg RpaService                  # and RpaDurable.cfg
tlc -config BrowserPool.cfg BrowserPool
tlc -config Studio.cfg StudioMC
tlc -config Gateway.cfg GatewayMC
tlapm ControlProofs.tla
tlapm SessionManagerProofs.tla
tlapm WorkerClusterProofs.tla
tlapm RpaServiceProofs.tla
tlapm BrowserPoolProofs.tla
tlapm WorkflowProofs.tla
tlapm GatewayProofs.tla
tlapm StudioProofs.tla
```

With two workers every run ends within three minutes; the runs have between a few
thousand and 3.1 million distinct states (RpaService).
