----------------------------- MODULE RpaService ------------------------------
(* Declarative RPA of the Studio, src/rpa/service.ts: tasks that run a workflow *)
(* in a browser session of their own, at once, later or periodically, kept in   *)
(* one state file.  An action is what one call does between two awaits; the     *)
(* state file is the one of AtomicFile.                                         *)
(*                                                                              *)
(* Time is left out: a timer fires some time after it was set.  The steps of a  *)
(* workflow, loops and branches unrolled, are MaxSteps steps that succeed or    *)
(* fail.  execute() is called without a catch, so an error that leaves it is an *)
(* unhandled rejection and ends the process, as any crash does.                 *)
EXTENDS AtomicFile, Sequences

CONSTANTS
    Tasks,          \* the task ids randomUUID draws
    Workflows,      \* the workflow ids it draws
    MaxSteps,       \* steps a workflow executes
    MaxRuns,        \* bound on the run() calls of the API
    MaxRestarts,    \* bound on the restarts of the process
    MaxWriteErrors, \* bound on the errors of the file system
    None

ASSUME RpaAssumption ==
    /\ MaxSteps \in Nat \ {0}
    /\ MaxRuns \in Nat
    /\ MaxRestarts \in Nat
    /\ MaxWriteErrors \in Nat
    /\ None \notin Tasks \cup Workflows

VARIABLES
    phase,      \* the process: "up", then shutdown(): "stopping", "saving", "exiting"; "down"
    loaded,     \* this.loaded
    reading,    \* the contents load() has opened, until it applies them
    workflows,  \* this.workflows
    tasks,      \* this.tasks
    timers,     \* this.timers
    writes,     \* the chain of persist() calls: who awaits each of them
    exec,       \* per task, the await at which execute() is suspended
    next,       \* per task, the next run its execution has created, or None
    session,    \* per task, whether task.sessionId is set
    live,       \* per task, the number of its browser sessions that run
    cancels,    \* tasks whose cancel() awaits manager.stop
    doomed,     \* the RUNNING tasks shutdown() has still to cancel
    shutting,   \* the task whose cancel() shutdown() awaits, or None
    drawn,      \* ids drawn so far; randomUUID does not repeat itself
    deleted,    \* history: the workflows that deleteWorkflow() removed
    starts,     \* history: per task, how often manager.start opened a browser
    runs, restarts, writeErrors

execVars == <<exec, next, session, live>>
stopVars == <<phase, cancels, doomed, shutting>>
historyVars == <<drawn, deleted, starts, runs>>
memoryVars == <<loaded, reading, workflows, tasks, timers, writes, execVars, cancels, doomed,
                shutting>>
vars == <<fileVars, memoryVars, phase, historyVars, restarts, writeErrors>>

Terminal == {"SUCCEEDED", "FAILED", "CANCELLED"}
TaskRecords == [workflow : Workflows, state : {"QUEUED", "RUNNING"} \cup Terminal,
                recurring : BOOLEAN, steps : 0 .. MaxSteps]
NoTask == [state |-> "NONE"]
NoRead == [kind |-> "none"]
Snapshots == [workflows : SUBSET Workflows, tasks : [Tasks -> TaskRecords \cup {NoTask}]]

\* Who awaits a persist().
Waiters == {<<kind, t>> : kind \in {"run", "exec", "next", "cancel"}, t \in Tasks}
             \cup {<<"edit", None>>, <<"shutdown", None>>}

TypeOK ==
    /\ FileTypeOK(Snapshots)
    /\ phase \in {"up", "stopping", "saving", "exiting", "down"}
    /\ loaded \in BOOLEAN
    /\ reading = NoRead \/ IsContents(reading, Snapshots)
    /\ workflows \subseteq Workflows
    /\ tasks \in [Tasks -> TaskRecords \cup {NoTask}]
    /\ timers \subseteq Tasks
    /\ writes \in Seq(Waiters)
    /\ exec \in [Tasks -> {"none", "marking", "starting", "step", "stepSaving", "stopping",
                           "failing", "ending", "rescheduling", "noting"}]
    /\ next \in [Tasks -> Tasks \cup {None}]
    /\ session \in [Tasks -> BOOLEAN]
    /\ live \in [Tasks -> Nat]
    /\ cancels \subseteq Tasks
    /\ doomed \subseteq Tasks
    /\ shutting \in Tasks \cup {None}
    /\ drawn \subseteq Tasks \cup Workflows
    /\ deleted \subseteq Workflows
    /\ starts \in [Tasks -> Nat]
    /\ runs \in 0 .. MaxRuns
    /\ restarts \in 0 .. MaxRestarts
    /\ writeErrors \in 0 .. MaxWriteErrors

-----------------------------------------------------------------------------
(* The process *)

\* The memory of a new process.
Fresh ==
    /\ loaded' = FALSE
    /\ reading' = NoRead
    /\ workflows' = {}
    /\ tasks' = [t \in Tasks |-> NoTask]
    /\ timers' = {}
    /\ writes' = <<>>
    /\ exec' = [t \in Tasks |-> "none"]
    /\ next' = [t \in Tasks |-> None]
    /\ session' = [t \in Tasks |-> FALSE]
    /\ live' = [t \in Tasks |-> 0]
    /\ cancels' = {}
    /\ doomed' = {}
    /\ shutting' = None

Init ==
    /\ FileInit
    /\ phase = "up"
    /\ loaded = FALSE
    /\ reading = NoRead
    /\ workflows = {}
    /\ tasks = [t \in Tasks |-> NoTask]
    /\ timers = {}
    /\ writes = <<>>
    /\ exec = [t \in Tasks |-> "none"]
    /\ next = [t \in Tasks |-> None]
    /\ session = [t \in Tasks |-> FALSE]
    /\ live = [t \in Tasks |-> 0]
    /\ cancels = {}
    /\ doomed = {}
    /\ shutting = None
    /\ drawn = {}
    /\ deleted = {}
    /\ starts = [t \in Tasks |-> 0]
    /\ runs = 0
    /\ restarts = 0
    /\ writeErrors = 0

\* The process ends, and its browsers with it.
Dies ==
    /\ phase' = "down"
    /\ Fresh
    /\ \E ok \in BOOLEAN : WriteAbandoned(ok)

Crash ==
    /\ phase # "down"
    /\ Dies
    /\ UNCHANGED <<restarts, writeErrors, historyVars>>

Exit ==
    /\ phase = "exiting"
    /\ Dies
    /\ UNCHANGED <<restarts, writeErrors, historyVars>>

Restart ==
    /\ phase = "down"
    /\ restarts < MaxRestarts
    /\ restarts' = restarts + 1
    /\ phase' = "up"
    /\ UNCHANGED <<fileVars, memoryVars, writeErrors, historyVars>>

\* loaded is set before the file is read, so that a second call does not wait.
\* The file is opened before anything that call writes can be renamed to it.
LoadBegins ==
    /\ phase # "down"
    /\ ~loaded
    /\ loaded' = TRUE
    /\ reading' = IF file = Absent THEN NoRead ELSE ReadJson
    /\ UNCHANGED <<fileVars, workflows, tasks, timers, writes, restarts, writeErrors,
                   historyVars, stopVars, execVars>>

\* Mutant: an interrupted task is queued again.
Mutant_Restored_requeues(r) == IF r.state = "RUNNING" THEN [r EXCEPT !.state = "QUEUED"] ELSE r

\* What load() makes of a stored task: one that was running has failed.
Restored(r) == IF r.state = "RUNNING" THEN [r EXCEPT !.state = "FAILED"] ELSE r

\* The stored workflows and tasks enter the maps.
Applies(stored) ==
    /\ workflows' = workflows \cup reading.data.workflows
    /\ tasks' = [t \in Tasks |-> IF t \in stored THEN Restored(reading.data.tasks[t]) ELSE tasks[t]]
    /\ reading' = NoRead
    /\ UNCHANGED <<fileVars, loaded, writes, restarts, writeErrors, historyVars, stopVars, execVars>>

\* Mutant: the queued tasks are not scheduled again.
Mutant_LoadEnds_noSchedule ==
    /\ reading.kind = "whole"
    /\ Applies({t \in Tasks : reading.data.tasks[t] # NoTask})
    /\ UNCHANGED timers

LoadEnds ==
    /\ reading.kind = "whole"
    /\ LET stored == {t \in Tasks : reading.data.tasks[t] # NoTask}
       IN  /\ Applies(stored)
           /\ timers' = timers \cup {t \in stored : Restored(reading.data.tasks[t]).state = "QUEUED"}

\* The conjuncts the calls below share.
Serving == phase # "down" /\ loaded
Persist(waiter) == writes' = Append(writes, waiter)
Unseen == UNCHANGED <<fileVars, loaded, reading, restarts, writeErrors>>

-----------------------------------------------------------------------------
(* The calls of the API *)

CreateWorkflow(w) ==
    /\ Serving
    /\ w \notin drawn
    /\ drawn' = drawn \cup {w}
    /\ workflows' = workflows \cup {w}
    /\ Persist(<<"edit", None>>)
    /\ UNCHANGED <<tasks, timers, starts, runs, deleted, stopVars, execVars>>
    /\ Unseen

DeleteWorkflow(w) ==
    /\ Serving
    /\ w \in workflows
    /\ workflows' = workflows \ {w}
    /\ deleted' = deleted \cup {w}
    /\ Persist(<<"edit", None>>)
    /\ UNCHANGED <<tasks, timers, drawn, starts, runs, stopVars, execVars>>
    /\ Unseen

\* The task run() adds; it is scheduled when the file has it.
NewTask(t, w, recurring) ==
    /\ w \in workflows
    /\ t \notin drawn
    /\ drawn' = drawn \cup {t}
    /\ tasks' = [tasks EXCEPT ![t] = [workflow |-> w, state |-> "QUEUED",
                                      recurring |-> recurring, steps |-> 0]]

Run(t, w, recurring) ==
    /\ Serving
    /\ runs < MaxRuns
    /\ runs' = runs + 1
    /\ NewTask(t, w, recurring)
    /\ Persist(<<"run", t>>)
    /\ UNCHANGED <<workflows, timers, starts, deleted, stopVars, execVars>>
    /\ Unseen

\* cancel() of a task that is not over, up to its first await.
CancelBegins(t) ==
    /\ tasks[t].state \in {"QUEUED", "RUNNING"}
    /\ tasks' = [tasks EXCEPT ![t].state = "CANCELLED"]
    /\ timers' = timers \ {t}
    /\ IF session[t]
         THEN cancels' = cancels \cup {t} /\ UNCHANGED writes
         ELSE Persist(<<"cancel", t>>) /\ UNCHANGED cancels

Cancel(t) ==
    /\ Serving
    /\ CancelBegins(t)
    /\ UNCHANGED <<phase, workflows, doomed, shutting, historyVars, execVars>>
    /\ Unseen

CancelStopped(t) ==
    /\ t \in cancels
    /\ cancels' = cancels \ {t}
    /\ live' = [live EXCEPT ![t] = 0]
    /\ Persist(<<"cancel", t>>)
    /\ UNCHANGED <<phase, workflows, tasks, timers, exec, next, session, doomed, shutting,
                   historyVars>>
    /\ Unseen

Shutdown ==
    /\ phase = "up"
    /\ phase' = "stopping"
    /\ timers' = {}
    /\ doomed' = {t \in Tasks : tasks[t].state = "RUNNING"}
    /\ UNCHANGED <<workflows, tasks, writes, cancels, shutting, historyVars, execVars>>
    /\ Unseen

\* The tasks are cancelled one after the other; one that has ended meanwhile is
\* left as it is.
ShutdownCancels(t) ==
    /\ phase = "stopping" /\ shutting = None
    /\ t \in doomed
    /\ doomed' = doomed \ {t}
    /\ IF tasks[t].state \in Terminal
         THEN UNCHANGED <<tasks, timers, cancels, writes, shutting>>
         ELSE CancelBegins(t) /\ shutting' = t
    /\ UNCHANGED <<phase, workflows, historyVars, execVars>>
    /\ Unseen

ShutdownSaves ==
    /\ phase = "stopping" /\ shutting = None /\ doomed = {}
    /\ phase' = "saving"
    /\ Persist(<<"shutdown", None>>)
    /\ UNCHANGED <<workflows, tasks, timers, cancels, doomed, shutting, historyVars,
                   execVars>>
    /\ Unseen

-----------------------------------------------------------------------------
(* Executing a task *)

\* The timer callback and execute() up to the first await.
TimerFires(t) ==
    /\ t \in timers
    /\ timers' = timers \ {t}
    /\ IF tasks[t].workflow \notin workflows \/ tasks[t].state = "CANCELLED"
         THEN UNCHANGED <<tasks, exec, writes>>
         ELSE /\ tasks' = [tasks EXCEPT ![t].state = "RUNNING"]
              /\ exec' = [exec EXCEPT ![t] = "marking"]
              /\ Persist(<<"exec", t>>)
    /\ UNCHANGED <<workflows, next, session, live, historyVars, stopVars>>
    /\ Unseen

\* The head of the loop in executeSteps, with r the task's record.
AtStep(r) == IF r.state = "CANCELLED" \/ r.steps = MaxSteps THEN "stopping" ELSE "step"

SessionStarts(t) ==
    /\ exec[t] = "starting"
    /\ starts' = [starts EXCEPT ![t] = @ + 1]
    /\ live' = [live EXCEPT ![t] = @ + 1]
    /\ session' = [session EXCEPT ![t] = TRUE]
    /\ exec' = [exec EXCEPT ![t] = AtStep(tasks[t])]
    /\ UNCHANGED <<workflows, tasks, timers, writes, next, drawn, runs, deleted, stopVars>>
    /\ Unseen

\* The end of a step that succeeded, or that failed and has onError 'continue'.
StepCounts(t) ==
    /\ tasks' = [tasks EXCEPT ![t].steps = @ + 1]
    /\ exec' = [exec EXCEPT ![t] = "stepSaving"]
    /\ Persist(<<"exec", t>>)

\* A step needs its session: after a cancel() has stopped it the step fails.
StepEnds(t, ok, onError) ==
    /\ exec[t] = "step"
    /\ ok => live[t] > 0
    /\ IF ok \/ onError = "continue"
         THEN StepCounts(t)
         ELSE exec' = [exec EXCEPT ![t] = "failing"] /\ UNCHANGED <<tasks, writes>>
    /\ UNCHANGED <<workflows, timers, next, session, live, historyVars, stopVars>>
    /\ Unseen

\* The task's last state, and the persist() after the try statement.
Ends(t, state) ==
    /\ tasks' = [tasks EXCEPT ![t].state = state]
    /\ session' = [session EXCEPT ![t] = FALSE]
    /\ live' = [live EXCEPT ![t] = 0]
    /\ exec' = [exec EXCEPT ![t] = "ending"]
    /\ Persist(<<"exec", t>>)

\* manager.stop after the last step, or after the loop saw the cancellation; when
\* it rejects, the catch clause stops the session again.
SessionStops(t, ok) ==
    /\ exec[t] = "stopping"
    /\ IF ok THEN Ends(t, "SUCCEEDED")
       ELSE /\ exec' = [exec EXCEPT ![t] = "failing"]
            /\ UNCHANGED <<tasks, session, live, writes>>
    /\ UNCHANGED <<workflows, timers, next, historyVars, stopVars>>
    /\ Unseen

\* The catch clause, which a rejected manager.start reaches without a session.
ExecutionFails(t) ==
    /\ exec[t] \in {"starting", "failing"}
    /\ Ends(t, IF tasks[t].state = "CANCELLED" THEN "CANCELLED" ELSE "FAILED")
    /\ UNCHANGED <<workflows, timers, next, historyVars, stopVars>>
    /\ Unseen

\* run() for the next period.  Its workflow may have been deleted.
Reschedule(t, nt) ==
    /\ exec[t] = "rescheduling"
    /\ NewTask(nt, tasks[t].workflow, TRUE)
    /\ next' = [next EXCEPT ![t] = nt]
    /\ exec' = [exec EXCEPT ![t] = "noting"]
    /\ Persist(<<"next", t>>)
    /\ UNCHANGED <<workflows, timers, session, live, deleted, starts, runs, stopVars>>
    /\ Unseen

RescheduleThrows(t) ==
    /\ exec[t] = "rescheduling"
    /\ tasks[t].workflow \notin workflows
    /\ Dies
    /\ UNCHANGED <<restarts, writeErrors, historyVars>>

-----------------------------------------------------------------------------
(* persist(): one write after the other, each of the state it finds *)

WriteBegins ==
    /\ writes # <<>>
    /\ WriteStarts([workflows |-> workflows, tasks |-> tasks])
    /\ UNCHANGED <<memoryVars, phase, restarts, writeErrors, historyVars>>

\* How execute() goes on when the persist() it awaits has been carried out.
AfterSave(t) ==
    CASE exec[t] = "marking" -> "starting"
      [] exec[t] = "stepSaving" -> AtStep(tasks[t])
      [] exec[t] = "ending" /\ tasks[t].recurring /\ tasks[t].state # "CANCELLED" -> "rescheduling"
      [] OTHER -> "none"

WriteEnds ==
    /\ \/ WriteCommits(TRUE) /\ UNCHANGED writeErrors
       \/ /\ WriteCommits(FALSE)
          /\ writeErrors < MaxWriteErrors
          /\ writeErrors' = writeErrors + 1
    /\ LET kind == Head(writes)[1]
           t == Head(writes)[2]
       IN  /\ timers' = timers \cup (IF kind = "run" THEN {t} ELSE
                                     IF kind = "next" THEN {next[t]} ELSE {})
           /\ exec' = IF kind = "exec" THEN [exec EXCEPT ![t] = AfterSave(t)] ELSE exec
           /\ writes' = IF kind = "next" THEN Append(Tail(writes), <<"exec", t>>) ELSE Tail(writes)
           /\ next' = IF kind = "next" THEN [next EXCEPT ![t] = None] ELSE next
           /\ shutting' = IF kind = "cancel" /\ t = shutting THEN None ELSE shutting
           /\ phase' = IF kind = "shutdown" THEN "exiting" ELSE phase
    /\ UNCHANGED <<loaded, reading, workflows, tasks, session, live, cancels, doomed,
                   restarts, historyVars>>

\* The write rejects and with it its caller: run() leaves a task without a timer,
\* a step fails, shutdown() gives up, and anywhere else execute() is left by it.
WriteFails ==
    /\ writes # <<>>
    /\ writeErrors < MaxWriteErrors
    /\ writeErrors' = writeErrors + 1
    /\ LET kind == Head(writes)[1]
           t == Head(writes)[2]
       IN  IF kind = "next" \/ (kind = "exec" /\ exec[t] # "stepSaving")
             THEN tmp # Absent /\ Dies
             ELSE /\ WriteRejects
                  /\ writes' = Tail(writes)
                  /\ exec' = IF kind = "exec" THEN [exec EXCEPT ![t] = "failing"] ELSE exec
                  /\ phase' = IF kind = "shutdown" \/ (kind = "cancel" /\ t = shutting)
                                THEN "exiting" ELSE phase
                  /\ UNCHANGED <<loaded, reading, workflows, tasks, timers, next, session, live,
                                 cancels, doomed, shutting>>
    /\ UNCHANGED <<restarts, historyVars>>

-----------------------------------------------------------------------------
Executes(t) ==
    \/ SessionStarts(t)
    \/ \E ok \in BOOLEAN, onError \in {"stop", "continue"} : StepEnds(t, ok, onError)
    \/ \E ok \in BOOLEAN : SessionStops(t, ok)
    \/ ExecutionFails(t)

Persists == WriteBegins \/ WriteEnds

Next ==
    \/ Crash \/ Exit \/ Restart
    \/ LoadBegins \/ LoadEnds
    \/ \E w \in Workflows : CreateWorkflow(w) \/ DeleteWorkflow(w)
    \/ \E t \in Tasks, w \in Workflows, recurring \in BOOLEAN : Run(t, w, recurring)
    \/ \E t \in Tasks : \/ Cancel(t) \/ CancelStopped(t) \/ ShutdownCancels(t)
                        \/ TimerFires(t) \/ Executes(t) \/ RescheduleThrows(t)
    \/ \E t, nt \in Tasks : Reschedule(t, nt)
    \/ Shutdown \/ ShutdownSaves
    \/ Persists \/ WriteFails

Spec == Init /\ [][Next]_vars

-----------------------------------------------------------------------------
(* Properties *)

\* A task opens at most one browser, whatever the process dies of and whenever:
\* the file says RUNNING before manager.start is called, and load() never runs
\* such a task again.
AtMostOnce == \A t \in Tasks : starts[t] <= 1

\* No browser is left behind: as long as one runs, the execution that opened it
\* has its stop still ahead, also when cancel() came while the session started or
\* between two steps.
NoOrphanBrowser ==
    \A t \in Tasks : live[t] > 0 => exec[t] \in {"step", "stepSaving", "stopping", "failing"}

\* A queued task is not forgotten: while its workflow exists it has a timer, or the
\* run() that added it has yet to set one, also after a crash and a restart.  (A
\* run() whose write was rejected has reported an error.)
QueuedHasTimer ==
    phase = "up" /\ writeErrors = 0 =>
        \A t \in Tasks :
            tasks[t].state = "QUEUED" /\ tasks[t].workflow \in workflows
            => \/ t \in timers
               \/ \E i \in DOMAIN writes : writes[i] = <<"run", t>>
               \/ \E u \in Tasks : next[u] = t

\* Every browser has an execution that will stop it, and every queued task a timer
\* that will run it.
TasksAttended == TypeOK /\ NoOrphanBrowser /\ QueuedHasTimer

\* tests/unit/rpa-service.test.ts: a workflow is there after a shutdown and a new
\* load.  The file loses a workflow only by deleteWorkflow().
InFile(w) == file.kind = "whole" /\ w \in file.data.workflows

WorkflowsPersist == [][\A w \in Workflows : InFile(w) /\ ~InFile(w)' => w \in deleted]_vars
=============================================================================
