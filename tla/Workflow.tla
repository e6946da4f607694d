------------------------------- MODULE Workflow -------------------------------
(***************************************************************************)
(* Workflows on a session: BrowserSession.workflow and the idempotent      *)
(* writes of src/browser/browser-session.ts, WorkflowRunner                *)
(* (src/browser/workflow-runner.ts) and WorkflowExecutor                   *)
(* (src/browser/workflow.ts).                                              *)
(*                                                                         *)
(* A workflow reserves the session with a token, runs its steps one by one *)
(* through the session's serial queue, reads the session's status after    *)
(* each and stops at the first trouble.  A step that outlives the deadline *)
(* is only signalled: it stays in the queue, or goes on running.  Other    *)
(* callers write, hand the browser to the user or repeat a call with the   *)
(* same action id; the page navigates, crashes and shows dialogs, popups   *)
(* and challenges whenever it likes.                                       *)
(***************************************************************************)
EXTENDS WorkflowLanguage

CONSTANTS
    Callers,         \* calls of the session's methods
    Batches,         \* what they ask for: functions from Callers to requests
    None,
    MaxQueue,        \* maxQueue
    MaxActionCache,  \* MAX_ACTION_CACHE
    MaxNavigations, MaxInterrupts, MaxExpiries   \* bounds on the environment

ASSUME WorkflowAssumption ==
    /\ None \notin Callers
    /\ MaxQueue \in Nat \ {0} /\ MaxActionCache \in Nat \ {0}
    /\ MaxNavigations \in Nat /\ MaxInterrupts \in Nat /\ MaxExpiries \in Nat

VARIABLES
    call,        \* per caller: its request and how far it has come
    token,       \* activeWorkflowToken: the workflow that reserved the session
    queue,       \* the tasks chained on queueTail, the running one first
    running,     \* phase of the first task
    cache,       \* actionCache, oldest first
    state,       \* _state
    rev,         \* pageGeneration
    interrupts,  \* types of the interrupts recorded
    effects,     \* history: what each caller did to the page, in order
    acts,        \* history: who acted on the page, in order
    forgotten    \* history: action ids the cache has dropped

sessionVars == <<state, rev, interrupts>>
vars == <<call, token, queue, running, cache, sessionVars, effects, acts, forgotten>>

\* kind: workflow, write or handoff.  A write has one step.  expect: the caller
\* requires page revision 0.  room: how many steps and details of steps a
\* result may hold.
Kinds == {"workflow", "write", "handoff"}

\* Why a workflow ended, and how a task or a call without a report did.
StopReasons == {"none", "completed", "timeout", "challenge", "revision_mismatch", "error", "interrupt",
                "navigation"}
Codes == {"ok", "SESSION_BUSY", "USER_CONTROL_HARD_STOP", "RESOURCE_EXHAUSTED", "ACTION_TIMEOUT",
          "SESSION_PAUSED_CHALLENGE", "INVALID_STATE", "PAGE_REVISION_MISMATCH", "INTERNAL",
          "TAKEOVER_UNAVAILABLE", "ACTION_ID_CONFLICT", "INVALID_ARGUMENT"}

\* What a call returns; a call that has not returned has None.
Results == [ok : BOOLEAN, stop : StopReasons \cup Codes, steps : Nat, details : Nat, truncated : BOOLEAN]

\* A request passed the schema of its tool: fields have their types.
ASSUME RequestAssumption ==
    /\ None \notin Results
    /\ \A batch \in Batches : \A c \in Callers :
          LET r == batch[c]
          IN  /\ r.kind \in Kinds
              /\ r.steps \in Seq([op : STRING, has : SUBSET STRING, bad : SUBSET STRING,
                                  agree : BOOLEAN, target : SUBSET STRING, n : Nat])
              /\ r.kind = "write" => Len(r.steps) = 1
              /\ r.expect \in BOOLEAN
              /\ r.room \in Nat

Fresh(r) == [req |-> r, pc |-> "idle", at |-> 1, sub |-> 1, before |-> None,
             raw |-> 0, reports |-> <<>>, stop |-> "none", of |-> None, result |-> None]

Step(c) == call[c].req.steps[call[c].at]

TypeOK ==
    /\ \A c \in Callers :
          /\ call[c].req.kind \in Kinds
          /\ call[c].pc \in {"idle", "shared", "init", "next", "value", "await", "after",
                             "stopped", "observe", "done"}
          /\ call[c].at \in 1..(Len(call[c].req.steps) + 1)
          /\ call[c].pc = "done" <=> call[c].result # None
    /\ token \in Callers \cup {None}
    /\ Len(queue) <= MaxQueue
    /\ running \in {"none", "begun", "checked", "acted"}
    /\ running # "none" => queue # <<>>
    /\ Len(cache) <= MaxActionCache
    /\ state \in {"READY", "BUSY", "PAUSED_CHALLENGE", "USER_CONTROLLED", "ERROR"}
    /\ rev \in 0..MaxNavigations

Init ==
    /\ \E batch \in Batches : call = [c \in Callers |-> Fresh(batch[c])]
    /\ token = None /\ queue = <<>> /\ running = "none" /\ cache = <<>>
    /\ state = "READY" /\ rev = 0 /\ interrupts = <<>>
    /\ effects = [c \in Callers |-> <<>>] /\ acts = <<>> /\ forgotten = {}

-----------------------------------------------------------------------------
(* boundResult *)

Least(S) == CHOOSE n \in S : \A m \in S : n <= m
Greatest(S) == CHOOSE n \in S : \A m \in S : n >= m

\* Mutant: the last shape is not replaced when it is still too large.
Mutant_BoundResult_keepsOne(n, room) ==
    IF 2 * n <= room THEN [steps |-> n, details |-> n, truncated |-> FALSE]
    ELSE IF n <= room THEN [steps |-> n, details |-> room - n, truncated |-> TRUE]
    ELSE [steps |-> Greatest({1} \cup {k \in 1..n : k <= room}), details |-> 0, truncated |-> TRUE]

\* A report is one unit and its optional fields another.  Details go first,
\* then steps from the end while there is more than one, then all of them.
BoundResult(n, room) ==
    IF 2 * n <= room THEN [steps |-> n, details |-> n, truncated |-> FALSE]
    ELSE IF n <= room THEN [steps |-> n, details |-> room - n, truncated |-> TRUE]
    ELSE IF room >= 1
    THEN [steps |-> Greatest({k \in 1..n : k <= room}), details |-> 0, truncated |-> TRUE]
    ELSE [steps |-> 0, details |-> 0, truncated |-> FALSE]

-----------------------------------------------------------------------------
(* enqueue *)

RequireReady(op) == op \notin {"wait", "snapshot", "handoff"}
AllowUserControl(op) == op \in {"wait", "snapshot"}

\* What enqueue answers at once to caller c; "ok" puts the task in the queue.
\* q: the queue.
EnqueueVerdict(c, op, q) ==
    IF token \notin {None, c} THEN "SESSION_BUSY"
    ELSE IF state = "USER_CONTROLLED" /\ ~AllowUserControl(op) THEN "USER_CONTROL_HARD_STOP"
    ELSE IF Len(q) >= MaxQueue THEN "RESOURCE_EXHAUSTED"
    ELSE "ok"

\* seen: the page's revision when the operation began, its turn and its scan over.
Task(c, step, sub, op, guard) ==
    [call |-> c, step |-> step, sub |-> sub, op |-> op, guard |-> guard, aborted |-> FALSE, seen |-> 0]

\* The gates a task passes when its turn comes.
StartVerdict(t) ==
    IF t.aborted THEN "ACTION_TIMEOUT"
    ELSE IF token \notin {None, t.call} THEN "SESSION_BUSY"
    ELSE IF state = "USER_CONTROLLED" /\ ~AllowUserControl(t.op) THEN "USER_CONTROL_HARD_STOP"
    ELSE IF state = "PAUSED_CHALLENGE" /\ RequireReady(t.op) THEN "SESSION_PAUSED_CHALLENGE"
    ELSE IF state = "ERROR" THEN "INVALID_STATE"
    ELSE "ok"

\* An abort is reported as the pause that raised it, else as a timeout.
Mapped(t, code) ==
    IF ~t.aborted THEN code
    ELSE IF state = "PAUSED_CHALLENGE" THEN "SESSION_PAUSED_CHALLENGE" ELSE "ACTION_TIMEOUT"

\* classifyFailure
FailureReason(code) ==
    CASE code \in {"ACTION_TIMEOUT", "WORKFLOW_TIMEOUT"} -> "timeout"
      [] code = "SESSION_PAUSED_CHALLENGE"               -> "challenge"
      [] code = "PAGE_REVISION_MISMATCH"                 -> "revision_mismatch"
      [] OTHER                                           -> "error"

Settled(r, result) == [r EXCEPT !.pc = "done", !.result = result, !.before = None]

Failure(code) == [ok |-> FALSE, stop |-> code, steps |-> 0, details |-> 0, truncated |-> FALSE]

\* What a workflow returns, within its limit.
Report(r, ok) ==
    LET kept == BoundResult(Len(r.reports), r.req.room)
    IN  [ok |-> ok, stop |-> r.stop, steps |-> kept.steps, details |-> kept.details,
         truncated |-> kept.truncated]

\* The loop ends: a completed workflow has its result, a stopped one is first
\* observed by the runner.
Left(r, stop, reports) ==
    LET done == stop = "completed" /\ Len(reports) = Len(r.req.steps)
        left == [r EXCEPT !.stop = stop, !.reports = reports, !.before = None]
    IN  IF done THEN Settled(left, Report(left, TRUE)) ELSE [left EXCEPT !.pc = "stopped"]

\* A step fails: its report is the last.
FailedStep(r, code) == Left(r, FailureReason(code), Append(r.reports, "error"))

\* Mutant: the reservation ends with the loop and not with the observation.
Mutant_Release_early(c, r) == token' = IF r.pc \in {"stopped", "done"} /\ token = c THEN None ELSE token

\* The token of a workflow that has returned is released.
Release(c, r) == token' = IF r.pc = "done" /\ token = c THEN None ELSE token

\* The promise of task t settles with code: the caller goes on, unless it has
\* given up waiting.
Delivered(t, code) ==
    LET r == call[t.call]
        awaited == /\ r.pc = "await" /\ r.at = t.step /\ r.sub = t.sub
        next == IF r.req.kind # "workflow"
                THEN Settled(r, IF code = "ok" THEN [Failure("ok") EXCEPT !.ok = TRUE] ELSE Failure(code))
                ELSE IF code # "ok" THEN FailedStep(r, code)
                ELSE IF r.sub < Calls(Step(t.call)) THEN [r EXCEPT !.pc = "value", !.sub = @ + 1]
                ELSE [r EXCEPT !.pc = "after", !.raw = rev]
        seen == IF r.pc = "observe" /\ t.step = 0
                THEN Settled(r, Report(r, FALSE))
                ELSE r
    IN  IF awaited THEN next ELSE seen

\* Caller t.call gets code from task t, which leaves the queue.
TaskSettles(t, code) ==
    LET r == Delivered(t, code)
    IN  /\ call' = [call EXCEPT ![t.call] = r]
        /\ Release(t.call, r)
        /\ queue' = Tail(queue)
        /\ running' = "none"

\* The turn of a task comes: a gate refuses it or it begins with its scan.
TaskBegins ==
    /\ running = "none" /\ queue # <<>>
    /\ LET t == Head(queue)
           code == StartVerdict(t)
       IN  IF code # "ok"
           THEN TaskSettles(t, Mapped(t, code)) /\ UNCHANGED state
           ELSE /\ running' = "begun"
                /\ state' = IF RequireReady(t.op) THEN "BUSY" ELSE state
                /\ UNCHANGED <<call, token, queue>>
    /\ UNCHANGED <<cache, rev, interrupts, effects, acts, forgotten>>

\* The state the finally block leaves behind.
AfterTask(s) == IF s = "BUSY" THEN "READY" ELSE s

\* assertExpectedPageRevision
GuardHolds(t) == t.guard => rev = 0

\* The operation begins: a write that the scan has paused does not, nor one whose
\* revision is gone.
TaskChecks ==
    /\ running = "begun"
    /\ LET t == Head(queue)
           paused == RequireReady(t.op) /\ state = "PAUSED_CHALLENGE"
       IN  IF ~paused /\ GuardHolds(t)
           THEN /\ running' = "checked"
                /\ queue' = [queue EXCEPT ![1].seen = rev]
                /\ UNCHANGED <<call, token, state>>
           ELSE /\ TaskSettles(t, Mapped(t, IF paused THEN "SESSION_PAUSED_CHALLENGE"
                                                     ELSE "PAGE_REVISION_MISMATCH"))
                /\ state' = AfterTask(state)
    /\ UNCHANGED <<cache, rev, interrupts, effects, acts, forgotten>>

\* The scheduler looks at the abort signal before it touches the page.  page_open
\* and the reads do not look, nor does page_type before it clears the field.
HeedsSignal(t) ==
    \/ t.op \in {"click", "select", "scroll"}
    \/ t.op = "type" /\ call[t.call].req.steps[t.step].has \cap {"clear", "clearFirst"} = {}

\* The target is resolved, the address looked up, the pointer moved: the
\* operation reaches the page, which may have navigated since the check.
\* opens: the page navigates with it.
TaskActs(opens) ==
    /\ running = "checked"
    /\ LET t == Head(queue)
       IN  /\ ~(t.aborted /\ HeedsSignal(t))
           /\ opens => t.op = "open" /\ rev < MaxNavigations
           /\ rev' = IF opens THEN rev + 1 ELSE rev
           /\ effects' = [effects EXCEPT ![t.call] =
                              Append(@, [step |-> t.step, sub |-> t.sub, op |-> t.op,
                                         seen |-> t.seen, rev |-> rev])]
           /\ acts' = Append(acts, t.call)
           /\ state' = IF t.op = "handoff" THEN "USER_CONTROLLED" ELSE state
    /\ running' = "acted"
    /\ UNCHANGED <<call, token, queue, cache, interrupts, forgotten>>

\* Or it ends before: no such target, a forbidden address, the signal.
TaskFails ==
    /\ running = "checked"
    /\ LET t == Head(queue) IN TaskSettles(t, Mapped(t, "INTERNAL"))
    /\ state' = AfterTask(state)
    /\ UNCHANGED <<cache, rev, interrupts, effects, acts, forgotten>>

\* The operation ends: well, with an error of its own, or aborted.
TaskReturns(ok) ==
    /\ running = "acted"
    /\ LET t == Head(queue)
       IN  /\ TaskSettles(t, IF t.aborted THEN Mapped(t, "ok") ELSE IF ok THEN "ok" ELSE "INTERNAL")
           /\ state' = AfterTask(state)
    /\ UNCHANGED <<cache, rev, interrupts, effects, acts, forgotten>>

AbortRunning == IF running = "none" THEN queue ELSE [queue EXCEPT ![1].aborted = TRUE]

\* The task's own time limit passes.
TaskTimesOut ==
    /\ running # "none" /\ ~Head(queue).aborted
    /\ queue' = AbortRunning
    /\ UNCHANGED <<call, token, running, cache, sessionVars, effects, acts, forgotten>>

-----------------------------------------------------------------------------
(* runIdempotentWrite *)

\* The digest of the arguments: stopOn is not part of it.
Fingerprint(r) == [kind |-> r.kind, steps |-> r.steps, expect |-> r.expect, room |-> r.room]

Entries(id) == {i \in 1..Len(cache) : cache[i].id = id}

\* actionCache.get
Cached(id) == Entries(id)

\* Mutant: a call is not remembered when it is made.
Mutant_Remember_later(c) == UNCHANGED <<cache, forgotten>>

\* actionCache.set, of an id that is not in it, and the eviction of the oldest.
Remember(c) ==
    LET id == call[c].req.id
        added == Append(cache, [id |-> id, call |-> c])
    IN  IF id = None THEN UNCHANGED <<cache, forgotten>>
        ELSE IF Len(added) > MaxActionCache
        THEN /\ cache' = Tail(added)
             /\ forgotten' = forgotten \cup {Head(added).id}
        ELSE cache' = added /\ UNCHANGED forgotten

\* The call is answered without being run.
Answer(c, code) ==
    /\ call' = [call EXCEPT ![c] = Settled(@, Failure(code))]
    /\ UNCHANGED <<token, queue, cache, forgotten>>

\* workflow(): the reservation, after the checks it makes before it.
ReserveSession(c) ==
    LET r == call[c].req
        code == IF token # None THEN "SESSION_BUSY"
                ELSE IF r.expect /\ rev # 0 THEN "PAGE_REVISION_MISMATCH"
                ELSE IF ~ValidWorkflow(r.steps, r.stopOn) THEN "INVALID_ARGUMENT" ELSE "ok"
    IN  /\ token' = IF code = "ok" THEN c ELSE token
        /\ call' = [call EXCEPT ![c] = IF code = "ok" THEN [@ EXCEPT !.pc = "init"]
                                       ELSE Settled(@, Failure(code))]
        /\ UNCHANGED queue

\* A write or a handoff, which has checks of its own, goes to the queue.
SubmitTask(c) ==
    LET r == call[c].req
        op == IF r.kind = "handoff" THEN "handoff" ELSE r.steps[1].op
        code == IF op = "handoff" /\ state \notin {"READY", "PAUSED_CHALLENGE"}
                THEN "TAKEOVER_UNAVAILABLE" ELSE EnqueueVerdict(c, op, queue)
    IN  /\ queue' = IF code = "ok" THEN Append(queue, Task(c, 1, 1, op, r.expect)) ELSE queue
        /\ call' = [call EXCEPT ![c] = IF code = "ok" THEN [@ EXCEPT !.pc = "await"]
                                       ELSE Settled(@, Failure(code))]
        /\ UNCHANGED token

\* A caller calls.
Submit(c) ==
    /\ call[c].pc = "idle"
    /\ LET r == call[c].req
           hits == IF r.id = None THEN {} ELSE Cached(r.id)
       IN  IF state = "USER_CONTROLLED"
           THEN Answer(c, "USER_CONTROL_HARD_STOP")
           ELSE IF hits # {}
           THEN LET owner == cache[Least(hits)].call
                IN  IF Fingerprint(call[owner].req) # Fingerprint(r)
                    THEN Answer(c, "ACTION_ID_CONFLICT")
                    ELSE /\ call' = [call EXCEPT ![c].pc = "shared", ![c].of = owner]
                         /\ UNCHANGED <<token, queue, cache, forgotten>>
           ELSE /\ Remember(c)
                /\ IF r.kind = "workflow" THEN ReserveSession(c) ELSE SubmitTask(c)
    /\ UNCHANGED <<running, sessionVars, effects, acts>>

\* A repeated call gets the answer of the first, whatever it is.
SharedAnswer(c) ==
    /\ call[c].pc = "shared"
    /\ call[call[c].of].pc = "done"
    /\ call' = [call EXCEPT ![c] = Settled(@, call[call[c].of].result)]
    /\ UNCHANGED <<token, queue, running, cache, sessionVars, effects, acts, forgotten>>

\* Ten minutes pass and the oldest entry is pruned, whether its call has been
\* answered or still waits in the queue.
CacheExpires ==
    /\ cache # <<>>
    /\ Cardinality(forgotten) < MaxExpiries
    /\ forgotten' = forgotten \cup {Head(cache).id}
    /\ cache' = Tail(cache)
    /\ UNCHANGED <<call, token, queue, running, sessionVars, effects, acts>>

-----------------------------------------------------------------------------
(* WorkflowExecutor.runUncached *)

\* readStatus: the session's status, or None when it cannot be had in time.
Status == [challenge |-> state = "PAUSED_CHALLENGE", state |-> state, rev |-> rev, n |-> Len(interrupts)]
Statuses == {Status, None}

\* A step of the executor that touches neither the queue nor the page.
Continues(c, r) ==
    /\ call' = [call EXCEPT ![c] = r]
    /\ Release(c, r)
    /\ UNCHANGED <<queue, running, cache, sessionVars, effects, acts, forgotten>>

ReadInitialStatus(c) ==
    /\ call[c].pc = "init"
    /\ \E s \in Statuses :
          Continues(c, IF s = None THEN [call[c] EXCEPT !.pc = "next"]
                       ELSE IF call[c].req.expect /\ s.rev # 0
                       THEN Left(call[c], "revision_mismatch", <<>>)
                       ELSE IF s.challenge THEN Left(call[c], "challenge", <<>>)
                       ELSE [call[c] EXCEPT !.pc = "next", !.before = s])

FirstWrite(r) == LET W == {i \in 1..Len(r.steps) : IsWrite(r.steps[i])}
                 IN  IF W = {} THEN 0 ELSE Least(W)

\* The preconditions go to the first write and, in a multiple select, to its
\* first value.
Guarded(c) ==
    call[c].req.expect /\ call[c].at = FirstWrite(call[c].req) /\ call[c].sub = 1

\* The adapter call of the step: it is queued or refused at once.
Invoke(c) ==
    LET code == EnqueueVerdict(c, Step(c).op, queue)
        t == Task(c, call[c].at, call[c].sub, Step(c).op, Guarded(c))
        r == IF code = "ok" THEN [call[c] EXCEPT !.pc = "await"] ELSE FailedStep(call[c], code)
    IN  /\ call' = [call EXCEPT ![c] = r]
        /\ Release(c, r)
        /\ queue' = IF code = "ok" THEN Append(queue, t) ELSE queue
        /\ UNCHANGED <<running, cache, sessionVars, effects, acts, forgotten>>

\* The loop: the next step, or its end, by the number of steps or by the
\* deadline, which may have passed at any time before.
NextStep(c) ==
    /\ call[c].pc = "next"
    /\ IF call[c].at > Len(call[c].req.steps)
       THEN Continues(c, Left(call[c], "completed", call[c].reports))
       ELSE \/ Continues(c, Left(call[c], "timeout", call[c].reports))
            \/ Invoke(c)

\* The next value of a multiple select, inside the same step.
NextValue(c) == call[c].pc = "value" /\ Invoke(c)

\* Mutant: the deadline only raises the signal.
Mutant_StepTimesOut_onlySignals(c) ==
    /\ call[c].pc = "await" /\ call[c].req.kind = "workflow"
    /\ \E i \in 1..Len(queue) : queue[i].call = c /\ ~queue[i].aborted
    /\ queue' = [i \in 1..Len(queue) |->
                    IF queue[i].call = c THEN [queue[i] EXCEPT !.aborted = TRUE] ELSE queue[i]]
    /\ UNCHANGED <<call, token, running, cache, sessionVars, effects, acts, forgotten>>

\* The deadline of the step passes: its signal is raised and the loop ends.
StepTimesOut(c) ==
    /\ call[c].pc = "await" /\ call[c].req.kind = "workflow"
    /\ LET r == FailedStep(call[c], "WORKFLOW_TIMEOUT")
       IN  call' = [call EXCEPT ![c] = r] /\ Release(c, r)
    /\ queue' = [i \in 1..Len(queue) |->
                    IF queue[i].call = c THEN [queue[i] EXCEPT !.aborted = TRUE] ELSE queue[i]]
    /\ UNCHANGED <<running, cache, sessionVars, effects, acts, forgotten>>

\* statusStopReason: a new challenge, a person or a crash, or a new interrupt,
\* judged by the type of the last one.
StopReason(before, after, stopOn) ==
    LET last == interrupts[after.n]
    IN  IF after = None THEN "none"
        ELSE IF after.challenge /\ (before = None \/ ~before.challenge) THEN "challenge"
        ELSE IF after.state \in {"HUMAN_TAKEOVER", "ERROR"} THEN "interrupt"
        ELSE IF before = None \/ after.n <= before.n THEN "none"
        ELSE IF last = "DIALOG_BLOCKED" /\ stopOn # {} /\ stopOn \cap {"dialog", "interrupt"} = {} THEN "none"
        ELSE IF last = "DOWNLOAD_BLOCKED" /\ stopOn # {} /\ stopOn \cap {"download", "interrupt"} = {} THEN "none"
        ELSE "interrupt"

\* navigationDetected
Navigated(before, after, raw) ==
    before # None /\ before.rev # (IF after = None THEN raw ELSE after.rev)

\* The step succeeded; the status read after it decides whether the next follows.
StepDone(c) ==
    /\ call[c].pc = "after"
    /\ \E s \in Statuses :
          LET r == call[c]
              reports == Append(r.reports, "success")
              stop == StopReason(r.before, s, r.req.stopOn)
          IN  Continues(c,
                  IF stop # "none" THEN Left(r, stop, reports)
                  ELSE IF "navigation" \in r.req.stopOn /\ Navigated(r.before, s, r.raw)
                  THEN Left(r, "navigation", reports)
                  ELSE [r EXCEPT !.pc = "next", !.at = @ + 1, !.sub = 1, !.reports = reports,
                                 !.before = IF s = None THEN @ ELSE s])

-----------------------------------------------------------------------------
(* WorkflowRunner.run after a stop *)

\* The observation is queued like any snapshot, or refused.
Observe(c) ==
    /\ call[c].pc = "stopped"
    /\ LET code == EnqueueVerdict(c, "snapshot", queue)
           r == IF code = "ok" THEN [call[c] EXCEPT !.pc = "observe"]
                ELSE Settled(call[c], Report(call[c], FALSE))
       IN  /\ call' = [call EXCEPT ![c] = r]
           /\ Release(c, r)
           /\ queue' = IF code = "ok" THEN Append(queue, Task(c, 0, 1, "snapshot", FALSE)) ELSE queue
    /\ UNCHANGED <<running, cache, sessionVars, effects, acts, forgotten>>

\* What is left of the budget runs out first: the runner returns without it.
ObserveTimesOut(c) ==
    /\ call[c].pc = "observe"
    /\ LET r == Settled(call[c], Report(call[c], FALSE))
       IN  call' = [call EXCEPT ![c] = r] /\ Release(c, r)
    /\ queue' = [i \in 1..Len(queue) |->
                    IF queue[i].call = c /\ queue[i].step = 0
                    THEN [queue[i] EXCEPT !.aborted = TRUE] ELSE queue[i]]
    /\ UNCHANGED <<running, cache, sessionVars, effects, acts, forgotten>>

-----------------------------------------------------------------------------
(* The page *)

Navigates ==
    /\ rev < MaxNavigations
    /\ rev' = rev + 1
    /\ UNCHANGED <<call, token, queue, running, cache, state, interrupts, effects, acts, forgotten>>

\* A dialog or a popup is blocked, or the active page crashes.
Interrupt(type) ==
    /\ Len(interrupts) < MaxInterrupts
    /\ interrupts' = Append(interrupts, type)
    /\ state' = IF type = "PAGE_CRASHED" THEN "ERROR" ELSE state
    /\ queue' = IF type = "PAGE_CRASHED" THEN AbortRunning ELSE queue
    /\ UNCHANGED <<call, token, running, cache, rev, effects, acts, forgotten>>

\* A scan finds a challenge and pauses the session.
ChallengeFound ==
    /\ Len(interrupts) < MaxInterrupts
    /\ state \in {"READY", "BUSY"}
    /\ state' = "PAUSED_CHALLENGE"
    /\ queue' = AbortRunning
    /\ UNCHANGED <<call, token, running, cache, rev, interrupts, effects, acts, forgotten>>

ExecutorStep(c) ==
    \/ ReadInitialStatus(c) \/ NextStep(c) \/ NextValue(c) \/ StepDone(c) \/ Observe(c)
    \/ SharedAnswer(c)

Timer(c) == StepTimesOut(c) \/ ObserveTimesOut(c)

Next ==
    \/ \E c \in Callers : Submit(c) \/ ExecutorStep(c) \/ Timer(c)
    \/ TaskBegins
    \/ TaskChecks
    \/ \E opens \in BOOLEAN : TaskActs(opens)
    \/ TaskFails
    \/ \E ok \in BOOLEAN : TaskReturns(ok)
    \/ TaskTimesOut
    \/ CacheExpires
    \/ Navigates
    \/ \E type \in {"DIALOG_BLOCKED", "POPUP_BLOCKED", "PAGE_CRASHED"} : Interrupt(type)
    \/ ChallengeFound

Spec == Init /\ [][Next]_vars

\* The executor's own steps follow each other without waiting for anything, and
\* the timers of Node fire.  Nothing is assumed of the page: a task may hang.
FairSpec == Spec /\ \A c \in Callers : WF_vars(ExecutorStep(c)) /\ WF_vars(Timer(c))

-----------------------------------------------------------------------------
(* Properties *)

IsWorkflow(c) == call[c].req.kind = "workflow"
ActionId(c) == call[c].req.id

\* What a workflow does to the page and the observation it ends with follow each
\* other: nobody else acts in between, neither a task that was queued before the
\* reservation nor one let in before the workflow has returned, and nothing of
\* the workflow itself comes later, when a deadline has left it in the queue.
Uninterrupted ==
    \A i, k \in 1..Len(acts) :
        IsWorkflow(acts[i]) /\ acts[i] = acts[k] => \A j \in i..k : acts[j] = acts[i]

\* Two calls with the same action id do not both act on the page, unless the
\* cache has dropped the id in between: a retry of a call that is still waiting
\* or running shares it.
AtMostOnce ==
    \A c, d \in Callers :
        c # d /\ ActionId(c) # None /\ ActionId(c) = ActionId(d)
        /\ effects[c] # <<>> /\ effects[d] # <<>>
        => ActionId(c) \in forgotten

\* The first write of a call that named a page revision meets it when its own
\* operation begins, however long it waited behind other tasks or behind steps
\* that only look.  What it acts on (rev) may be newer: the page may navigate
\* while the operation resolves its target, and nothing looks again.
FirstWriteGuarded ==
    \A c \in Callers :
        LET writes == {i \in 1..Len(effects[c]) : RequireReady(effects[c][i].op)}
        IN  call[c].req.expect /\ writes # {} => effects[c][Least(writes)].seen = 0

\* A call acts on the page at most once, and begins where its caller looked.
WritesGuarded == TypeOK /\ AtMostOnce /\ FirstWriteGuarded

\* The reports tell what happened to the page: a step is acted on once, in
\* order, and only when all the steps before it were reported as successes; a
\* step reported as a success was acted on; ok means all of them; what is
\* returned fits the caller's limit; and every step that ran was one the
\* language gives a single meaning.
ResultTruthful ==
    \A c \in {d \in Callers : IsWorkflow(d)} :
        LET r == call[c]
            good == {k \in 1..Len(r.reports) : r.reports[k] = "success"}
            done == [i \in 1..Len(effects[c]) |-> <<effects[c][i].step, effects[c][i].sub>>]
            acted == {done[i] : i \in {j \in DOMAIN done : done[j][1] > 0}}
        IN  /\ \A i, j \in DOMAIN done : done[i] = done[j] => i = j
            /\ \A a \in acted : 1..(a[1] - 1) \subseteq good /\ Meaning(r.req.steps[a[1]])
            /\ \A k \in good : \A v \in 1..Calls(r.req.steps[k]) : <<k, v>> \in acted
            /\ r.pc = "done" /\ r.result.ok /\ r.of = None => good = 1..Len(r.req.steps)
            /\ r.pc = "done" => r.result.steps + r.result.details <= r.req.room

\* Every workflow returns, and so does every repetition of it, even if the
\* browser never answers a step: the deadline ends the wait.
WorkflowReturns ==
    \A c \in Callers : IsWorkflow(c) /\ call[c].pc # "idle" ~> call[c].pc = "done"

=============================================================================
