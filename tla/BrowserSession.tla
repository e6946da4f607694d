----------------------------- MODULE BrowserSession -----------------------------
(***************************************************************************)
(* BrowserSession (src/browser/browser-session.ts): the session state      *)
(* _state, the serial action queue of enqueue, the browser contexts that   *)
(* start, reopenHeaded and handoff launch, the challenge scans that run    *)
(* inside actions and beside them, page crashes, and stop, which waits for *)
(* the running action only for a while.                                    *)
(*                                                                         *)
(* Node runs one piece of code at a time, up to its next await: an action  *)
(* below is such a piece.  The page is outside: what a scan finds, whether *)
(* a launch or a close succeeds and how long they take are free choices.   *)
(* The control lease is the one of module ControlLease reduced to who has  *)
(* control.                                                                *)
(***************************************************************************)
EXTENDS Naturals, Sequences, FiniteSets

CONSTANTS
    MaxQueue,          \* maxQueue: actions waiting or running
    MaxLaunches,       \* bound: browsers launched for the session
    MaxCrashes,        \* bound: crashes of the active page
    MaxCloseFailures   \* bound: browsers whose close() rejects

ASSUME SessionAssumption ==
    /\ MaxQueue \in Nat \ {0} /\ MaxLaunches \in Nat \ {0}
    /\ MaxCrashes \in Nat /\ MaxCloseFailures \in Nat

VARIABLES
    state,          \* _state
    startPc,        \* where start() is
    queue,          \* kinds of the actions behind the running one
    op,             \* the running action, NoOp between two
    lease,          \* controlLease: who has control
    holder,         \* the caller of handoff received the token of the lease
    headless,       \* currentHeadless
    context,        \* this.context: the number of its launch, 0 when undefined
    live,           \* the browsers running
    launches,       \* browsers launched so far
    stopPc,         \* where stop() is
    crashes,        \* crashes so far
    closeFailures   \* rejected close() calls so far

browserVars == <<headless, context, live, launches, closeFailures>>
grantVars == <<lease, holder>>
sessionVars == <<state, startPc, queue, op, grantVars, browserVars, stopPc, crashes>>

States == {"STOPPED", "STARTING", "READY", "BUSY", "PAUSED_CHALLENGE", "HUMAN_TAKEOVER",
           "USER_CONTROLLED", "STOPPING", "ERROR"}

\* write: page_open, click, type, select, scroll, switch and close tab.
\* read: snapshot, extract, screenshot, wait, list tabs, diagnostics and the
\* direct mouse, keyboard and scroll input of the studio, enqueued alike.
Kinds == {"write", "read", "resume", "reopen", "handoff", "takeover"}
Pcs == {"scan", "body", "launch", "restore", "settle"}

NoOp == [kind |-> "none", pc |-> "none", prior |-> "STOPPED", aborted |-> FALSE]

SessionTypeOK ==
    /\ state \in States
    /\ startPc \in {"none", "launching", "opened", "scanning", "done", "failed"}
    /\ queue \in Seq(Kinds)
    /\ Len(queue) + (IF op = NoOp THEN 0 ELSE 1) <= MaxQueue
    /\ op \in [kind : Kinds, pc : Pcs, prior : States, aborted : BOOLEAN] \cup {NoOp}
    /\ lease \in {"AGENT", "USER", "EXPIRED"}
    /\ holder \in BOOLEAN
    /\ headless \in BOOLEAN
    /\ launches \in 0..MaxLaunches
    /\ context \in 0..launches
    /\ live \subseteq 1..launches
    /\ stopPc \in {"none", "draining", "closing", "cleaning", "done"}
    /\ crashes \in 0..MaxCrashes
    /\ closeFailures \in 0..MaxCloseFailures

Running == op # NoOp

-----------------------------------------------------------------------------
(* Challenge scans *)

Paused == {"PAUSED_CHALLENGE", "HUMAN_TAKEOVER", "USER_CONTROLLED"}

\* A detection that pauses: not while a person has the browser, not while
\* stopping.  ERROR and STARTING do not protect the state.
ScanPauses(found, preserve) ==
    /\ found
    /\ ~preserve
    /\ state \notin {"HUMAN_TAKEOVER", "USER_CONTROLLED", "STOPPING", "STOPPED"}

\* The state scanChallenge leaves.
AfterScan(found, preserve) ==
    IF ScanPauses(found, preserve) THEN "PAUSED_CHALLENGE" ELSE state

\* A scan from a page observer or from challengeStatus.
BackgroundScan ==
    /\ launches > 0
    /\ ScanPauses(TRUE, FALSE)
    /\ state' = "PAUSED_CHALLENGE"
    /\ op' = IF Running THEN [op EXCEPT !.aborted = TRUE] ELSE op
    /\ UNCHANGED <<startPc, queue, grantVars, browserVars, stopPc, crashes>>

-----------------------------------------------------------------------------
(* Browser contexts *)

Unlaunched == UNCHANGED <<headless, launches>>

\* closeContext whose context.close() resolves: the field is undefined first.
ContextCloses ==
    /\ context' = 0
    /\ live' = live \ {context}
    /\ UNCHANGED closeFailures
    /\ Unlaunched

\* closeContext whose context.close() rejects: the browser is still there.
ContextStays ==
    /\ context \in live
    /\ closeFailures < MaxCloseFailures
    /\ context' = 0
    /\ closeFailures' = closeFailures + 1
    /\ UNCHANGED live
    /\ Unlaunched

\* launchContext up to the assignment of the field.
ContextLaunched(isHeadless) ==
    /\ launches < MaxLaunches
    /\ launches' = launches + 1
    /\ context' = launches + 1
    /\ live' = live \cup {launches + 1}
    /\ headless' = isHeadless
    /\ UNCHANGED closeFailures

-----------------------------------------------------------------------------
(* start *)

SessionInit ==
    /\ state = "STOPPED"
    /\ startPc = "none"
    /\ queue = <<>> /\ op = NoOp
    /\ lease = "AGENT" /\ holder = FALSE
    /\ headless \in BOOLEAN
    /\ context = 0 /\ live = {} /\ launches = 0
    /\ stopPc = "none"
    /\ crashes = 0 /\ closeFailures = 0

\* The session manager starts a session once.
Start ==
    /\ startPc = "none"
    /\ startPc' = "launching"
    /\ state' = "STARTING"
    /\ UNCHANGED <<queue, op, grantVars, browserVars, stopPc, crashes>>

StartLaunched ==
    /\ startPc = "launching"
    /\ startPc' = "opened"
    /\ ContextLaunched(headless)
    /\ UNCHANGED <<state, queue, op, grantVars, stopPc, crashes>>

\* The rest of launchContext and the initial cookies are done.
StartReady ==
    /\ startPc = "opened"
    /\ startPc' = "scanning"
    /\ state' = "READY"
    /\ UNCHANGED <<queue, op, grantVars, browserVars, stopPc, crashes>>

\* The first scan and the audit record are done.
StartReturns(found) ==
    /\ startPc = "scanning"
    /\ startPc' = "done"
    /\ state' = AfterScan(found, FALSE)
    /\ UNCHANGED <<queue, op, grantVars, browserVars, stopPc, crashes>>

\* Anything start awaits may reject; the catch block closes the context.
StartFails ==
    /\ startPc \in {"launching", "opened", "scanning"}
    /\ startPc' = "failed"
    /\ state' = "ERROR"
    /\ ContextCloses \/ ContextStays
    /\ UNCHANGED <<queue, op, grantVars, stopPc, crashes>>

-----------------------------------------------------------------------------
(* enqueue: the options of each action, submission, start and end of a task *)

AllowUserControl(kind) == kind \in {"read", "takeover"}
AllowPaused(kind) == kind # "write"
RequireReady(kind) == kind = "write"

\* handoff is offered from these states only.
HandoffAllowed == state \in {"READY", "PAUSED_CHALLENGE"}

\* What each public method checks before it enqueues.
MethodAllows(kind) ==
    CASE kind = "resume"   -> state \in {"HUMAN_TAKEOVER", "PAUSED_CHALLENGE"}
      [] kind = "reopen"   -> state = "PAUSED_CHALLENGE"
      [] kind = "handoff"  -> HandoffAllowed
      [] kind = "takeover" -> state = "USER_CONTROLLED"
      [] OTHER             -> TRUE

\* Callers reach the session through the manager: once start has returned it and
\* until stop has.
Submit(kind) ==
    /\ startPc = "done" /\ stopPc # "done"
    /\ MethodAllows(kind)
    /\ state = "USER_CONTROLLED" => AllowUserControl(kind)
    /\ Len(queue) + (IF Running THEN 1 ELSE 0) < MaxQueue
    /\ queue' = Append(queue, kind)
    /\ UNCHANGED <<state, startPc, op, grantVars, browserVars, stopPc, crashes>>

\* Mutant: user control is checked at submission only.
Mutant_Admits_atSubmitOnly(kind) ==
    /\ RequireReady(kind) => state \in {"READY", "USER_CONTROLLED"}
    /\ state = "PAUSED_CHALLENGE" => AllowPaused(kind)
    /\ state \notin {"ERROR", "STOPPED", "STOPPING"}

\* The gates a task passes when its turn comes.
Admits(kind) ==
    /\ state = "USER_CONTROLLED" => AllowUserControl(kind)
    /\ RequireReady(kind) => state = "READY"
    /\ state = "PAUSED_CHALLENGE" => AllowPaused(kind)
    /\ state \notin {"ERROR", "STOPPED", "STOPPING"}

TaskStarts ==
    /\ ~Running /\ queue # <<>>
    /\ LET kind == Head(queue)
       IN  /\ Admits(kind)
           /\ op' = [kind |-> kind, pc |-> "scan", prior |-> state, aborted |-> FALSE]
           /\ state' = IF RequireReady(kind) THEN "BUSY" ELSE state
    /\ queue' = Tail(queue)
    /\ UNCHANGED <<startPc, grantVars, browserVars, stopPc, crashes>>

\* The task throws: a gate, the caller's abort signal or a workflow that has
\* reserved the session.
TaskRefused ==
    /\ ~Running /\ queue # <<>>
    /\ queue' = Tail(queue)
    /\ UNCHANGED <<state, startPc, op, grantVars, browserVars, stopPc, crashes>>

\* Mutant: the finally block does not look at the state.
Mutant_AfterTask_always(s) == IF RequireReady(op.kind) THEN "READY" ELSE s

\* Mutant: an action that fails leaves the session busy.
Mutant_AfterTask_keepsBusy(s) == s

\* The state the finally block of a task leaves behind state s.
AfterTask(s) == IF s = "BUSY" /\ (RequireReady(op.kind) \/ op.prior = "READY")
                  THEN "READY" ELSE s

\* The task ends, with the session in state s.
TaskEnds(s) ==
    /\ state' = AfterTask(s)
    /\ op' = NoOp

\* The scan at the start of a task.  A write it pauses throws; any other action
\* goes on, with its abort signal raised.
EntryScan(found) ==
    /\ op.pc = "scan"
    /\ LET preserve == /\ AllowPaused(op.kind) /\ ~RequireReady(op.kind)
                       /\ op.prior \in Paused
           after == AfterScan(found, preserve)
           aborts == ScanPauses(found, preserve)
       IN  IF RequireReady(op.kind) /\ after = "PAUSED_CHALLENGE"
             THEN TaskEnds(after)
             ELSE /\ state' = after
                  /\ op' = [op EXCEPT !.pc = "body", !.aborted = @ \/ aborts]
    /\ UNCHANGED <<startPc, queue, grantVars, browserVars, stopPc, crashes>>

\* The timeout of the operation, or the caller's signal, aborts the controller.
\* The operation notices at its next check, if it has one.
TaskTimesOut ==
    /\ Running /\ op.pc # "scan"
    /\ ~op.aborted
    /\ op' = [op EXCEPT !.aborted = TRUE]
    /\ UNCHANGED <<state, startPc, queue, grantVars, browserVars, stopPc, crashes>>

\* Something the task awaits rejects: a page call, a launch, an audit record.
TaskFails ==
    /\ Running
    /\ TaskEnds(state)
    /\ UNCHANGED <<startPc, queue, grantVars, browserVars, stopPc, crashes>>

\* A write or a read comes to its end; a write scans once more.
BodyEnds(found) ==
    /\ op.kind \in {"write", "read"} /\ op.pc = "body"
    /\ TaskEnds(AfterScan(found, op.kind = "read"))
    /\ UNCHANGED <<startPc, queue, grantVars, browserVars, stopPc, crashes>>

-----------------------------------------------------------------------------
(* resume, reopenHeaded, handoff, takeover *)

\* resume: its scan has answered.
Resumes(found) ==
    /\ op.kind = "resume" /\ op.pc = "body"
    /\ TaskEnds(IF found THEN "PAUSED_CHALLENGE" ELSE "READY")
    /\ UNCHANGED <<startPc, queue, grantVars, browserVars, stopPc, crashes>>

\* reopenHeaded, and handoff of a headless browser: closeContext.
Relaunches ==
    /\ op.pc = "body"
    /\ op.kind = "reopen" \/ (op.kind = "handoff" /\ headless)
    /\ \/ ContextCloses /\ op' = [op EXCEPT !.pc = "launch"] /\ UNCHANGED state
       \/ ContextStays /\ TaskEnds(state)
    /\ UNCHANGED <<startPc, queue, grantVars, stopPc, crashes>>

\* launchContext(false) has its browser.
HeadedLaunched ==
    /\ op.pc = "launch"
    /\ ContextLaunched(FALSE)
    /\ op' = [op EXCEPT !.pc = "restore"]
    /\ UNCHANGED <<state, startPc, queue, grantVars, stopPc, crashes>>

\* The tabs are restored and reopenHeaded gives the browser to a person.
Reopened ==
    /\ op.kind = "reopen" /\ op.pc = "restore"
    /\ state' = "HUMAN_TAKEOVER"
    /\ op' = [op EXCEPT !.pc = "settle"]
    /\ UNCHANGED <<startPc, queue, grantVars, browserVars, stopPc, crashes>>

\* The scan and the audit record of reopenHeaded.
ReopenReturns(found) ==
    /\ op.kind = "reopen" /\ op.pc = "settle"
    /\ TaskEnds(IF found THEN "HUMAN_TAKEOVER" ELSE state)
    /\ UNCHANGED <<startPc, queue, grantVars, browserVars, stopPc, crashes>>

\* handoff on the control lease and takeover with its token: refused only while
\* a lease is active (an expired or disposed one may be handed off again).
LeaseGranted ==
    /\ op.kind = "handoff"
    /\ op.pc = "restore" \/ (op.pc = "body" /\ ~headless)
    /\ lease # "USER"
    /\ lease' = "USER" /\ holder' = FALSE
    /\ state' = "USER_CONTROLLED"
    /\ op' = [op EXCEPT !.pc = "settle"]
    /\ UNCHANGED <<startPc, queue, browserVars, stopPc, crashes>>

\* The scan and the audit record of handoff; enqueue gives the token to the
\* caller unless the signal was raised meanwhile.
HandoffReturns ==
    /\ op.kind = "handoff" /\ op.pc = "settle"
    /\ TaskEnds(state)
    /\ holder' = (holder \/ (lease = "USER" /\ ~op.aborted))
    /\ UNCHANGED <<startPc, queue, lease, browserVars, stopPc, crashes>>

\* takeover: the URL is allowed, the lease is released with its token and the
\* agent resumed.
LeaseReturned ==
    /\ op.kind = "takeover" /\ op.pc = "body"
    /\ lease = "USER" /\ holder
    /\ lease' = "AGENT" /\ holder' = FALSE
    /\ state' = "READY"
    /\ op' = [op EXCEPT !.pc = "settle"]
    /\ UNCHANGED <<startPc, queue, browserVars, stopPc, crashes>>

\* The scan of takeover, which may pause the session again.
TakeoverReturns(found) ==
    /\ op.kind = "takeover" /\ op.pc = "settle"
    /\ TaskEnds(AfterScan(found, FALSE))
    /\ UNCHANGED <<startPc, queue, grantVars, browserVars, stopPc, crashes>>

-----------------------------------------------------------------------------
(* What happens to the session: expiry of the lease, crashes *)

\* The lease expires.  Nobody tells the session.
LeaseExpires ==
    /\ lease = "USER"
    /\ lease' = "EXPIRED" /\ holder' = FALSE
    /\ UNCHANGED <<state, startPc, queue, op, browserVars, stopPc, crashes>>

\* The crash observer of the active tab.
PageCrashes ==
    /\ crashes < MaxCrashes
    /\ context \in live
    /\ crashes' = crashes + 1
    /\ state' = "ERROR"
    /\ op' = IF Running THEN [op EXCEPT !.aborted = TRUE] ELSE op
    /\ UNCHANGED <<startPc, queue, grantVars, browserVars, stopPc>>

-----------------------------------------------------------------------------
(* stop *)

\* One stop() is ever executed: later calls return its promise.
Stop ==
    /\ stopPc = "none"
    /\ state \notin {"STOPPED", "STARTING"}
    /\ stopPc' = "draining"
    /\ state' = "STOPPING"
    /\ op' = IF Running THEN [op EXCEPT !.aborted = TRUE] ELSE op
    /\ UNCHANGED <<startPc, queue, grantVars, browserVars, crashes>>

\* The queue has settled.
StopDrained ==
    /\ stopPc = "draining"
    /\ ~Running /\ queue = <<>>
    /\ stopPc' = "closing"
    /\ UNCHANGED <<state, startPc, queue, op, grantVars, browserVars, crashes>>

\* Mutant: the drain has no timeout.
Mutant_StopDrainTimeout_never ==
    /\ stopPc = "draining" /\ ~Running
    /\ stopPc' = "closing"
    /\ UNCHANGED <<state, startPc, queue, op, grantVars, browserVars, crashes>>

\* STOP_DRAIN_TIMEOUT_MS have passed.
StopDrainTimeout ==
    /\ stopPc = "draining"
    /\ stopPc' = "closing"
    /\ UNCHANGED <<state, startPc, queue, op, grantVars, browserVars, crashes>>

\* The cookies are saved and the context closed, failures ignored.
StopCloses ==
    /\ stopPc = "closing"
    /\ stopPc' = "cleaning"
    /\ ContextCloses \/ ContextStays
    /\ UNCHANGED <<state, startPc, queue, op, grantVars, crashes>>

\* The directories are removed, the lease disposed.
StopFinishes ==
    /\ stopPc = "cleaning"
    /\ stopPc' = "done"
    /\ state' = "STOPPED"
    /\ lease' = "EXPIRED" /\ holder' = FALSE
    /\ UNCHANGED <<startPc, queue, op, browserVars, crashes>>

-----------------------------------------------------------------------------
SessionNext ==
    \/ Start \/ StartLaunched \/ StartReady \/ StartFails
    \/ \E found \in BOOLEAN :
         \/ StartReturns(found) \/ EntryScan(found) \/ BodyEnds(found)
         \/ Resumes(found) \/ ReopenReturns(found) \/ TakeoverReturns(found)
    \/ \E kind \in Kinds : Submit(kind)
    \/ TaskStarts \/ TaskRefused \/ TaskTimesOut \/ TaskFails
    \/ Relaunches \/ HeadedLaunched \/ Reopened
    \/ LeaseGranted \/ HandoffReturns \/ LeaseReturned
    \/ BackgroundScan \/ LeaseExpires \/ PageCrashes
    \/ Stop \/ StopDrained \/ StopDrainTimeout \/ StopCloses \/ StopFinishes

SessionSpec == SessionInit /\ [][SessionNext]_sessionVars

-----------------------------------------------------------------------------
(* Properties *)

\* A write of the agent is acting on a page.
AgentWriting == op.kind = "write" /\ op.pc = "body" /\ context # 0

\* Unless the active page has crashed, no automation write (enqueue with
\* requireReady) is acting on the page while a person holds the control lease,
\* however submissions, handoff, expiry and stop interleave.
SingleWriterUnlessCrash == crashes = 0 => ~(AgentWriting /\ lease = "USER")

\* BUSY never outlives the write that set it: when no write is running the
\* finally block of enqueue, a pause, a crash or stop has replaced it.
BusyIsAWrite == state = "BUSY" => op.kind = "write"

\* A challenge pause is lifted only by a confirmed resume whose scan was clean,
\* by the return of a manual lease, or by start going on; the end of an action
\* that was running when the pause came never lifts it.
PauseNeedsHuman ==
    [][(state = "PAUSED_CHALLENGE" /\ state' \in {"READY", "BUSY"})
         => \/ op.kind \in {"resume", "takeover"} /\ op.pc = "body"
            \/ startPc = "opened"]_sessionVars

\* Until stop closes the context, a browser other than the current one is running
\* only if its close() was rejected: start and the relaunches of reopenHeaded and
\* handoff, failing at any await, lose no browser.
RelaunchLosesNone ==
    stopPc \in {"none", "draining"} => Cardinality(live \ {context}) <= closeFailures

\* Every field keeps its type, BUSY never outlives its write and a relaunch that
\* fails half way loses no browser.
SessionSettled == SessionTypeOK /\ BusyIsAWrite /\ RelaunchLosesNone

\* stop ends even if the running action never does.
StopTerminates == (stopPc = "draining") ~> (stopPc = "done")

\* docs/architecture.md 6.1: at any time there is at most one writer, the agent's
\* automation or the operator.  What enqueue guards is _state, not the lease.
SingleWriter == ~(AgentWriting /\ lease = "USER")

=============================================================================
