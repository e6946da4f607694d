----------------------------- MODULE WorkerCluster ------------------------------
(***************************************************************************)
(* The distributed scheduler (src/distributed/scheduler.ts) and its worker *)
(* daemons (src/distributed/worker-daemon.ts) over the queue of module     *)
(* RedisQueue: submission with its URL claim, the life of a leased task in *)
(* a worker, lease renewal, recovery of failed queue writes, cancellation  *)
(* and retry by an operator, graceful stop and crashes.                    *)
(*                                                                         *)
(* A queue call may fail in two ways: "error", the command never reached   *)
(* Redis, and "lost", it was executed and its reply did not come back.     *)
(* A worker executes one task at a time (its concurrency is another        *)
(* worker here).                                                           *)
(***************************************************************************)
EXTENDS RedisQueue

CONSTANTS
    MaxFaults,     \* bound: failed queue calls
    MaxCrashes,    \* bound: worker processes that die
    MaxStops,      \* bound: workers stopped
    MaxRequests    \* bound: cancel and retry requests of operators

ASSUME ClusterBoundsAssumption ==
    MaxFaults \in Nat /\ MaxCrashes \in Nat /\ MaxStops \in Nat /\ MaxRequests \in Nat

VARIABLES
    submission,    \* where the submission of each task is
    job,           \* the task each worker executes
    recovery,      \* retryTimers and lateRecoveryWork of each worker
    phase,         \* life of each worker
    flushFailed,   \* workers whose stop collected an error
    request,       \* the operator's cancel or retry: the record it has read
    requests,      \* operator requests so far
    faults,        \* failed queue calls so far, by kind
    crashes

workerVars == <<job, recovery, phase, flushFailed, crashes>>
operatorVars == <<request, requests>>
vars == <<queueVars, submission, workerVars, operatorVars, faults>>

NoJob == [pc |-> "idle"]
NoRequest == [kind |-> "none"]

Pcs == {"claiming", "running", "complete", "mark", "nack", "fail", "requeue"}
Jobs == [pc : Pcs, task : Tasks, lease : Nat, retries : 0..MaxRetries]
Works == [kind : {"enqueue", "persist", "marking"}, state : {"PENDING", "COMPLETED", "FAILED"},
          task : Tasks, lease : Nat, retries : 0..MaxRetries]

SubmissionStates ==
    {"new", "claimed", "queued", "releasing", "failed", "unanswered", "unreleased"}

TypeOK ==
    /\ QueueTypeOK
    /\ submission \in [Tasks -> SubmissionStates]
    /\ job \in [Workers -> Jobs \cup {NoJob}]
    /\ recovery \in [Workers -> SUBSET Works]
    /\ phase \in [Workers -> {"running", "stopping", "closed", "closedWithErrors"}]
    /\ flushFailed \subseteq Workers
    /\ request \in [kind : {"cancel", "retry"}, task : Tasks, rec : Records] \cup {NoRequest}
    /\ requests \in 0..MaxRequests
    /\ faults \in [error : 0..MaxFaults, lost : 0..MaxFaults]
    /\ crashes \in 0..MaxCrashes

Init ==
    /\ QueueInit
    /\ submission = [t \in Tasks |-> "new"]
    /\ job = [w \in Workers |-> NoJob]
    /\ recovery = [w \in Workers |-> {}]
    /\ phase = [w \in Workers |-> "running"]
    /\ flushFailed = {}
    /\ request = NoRequest /\ requests = 0
    /\ faults = [error |-> 0, lost |-> 0]
    /\ crashes = 0

-----------------------------------------------------------------------------
(* Queue calls *)

Outcomes == {"ok", "error", "lost"}

Outcome(f) ==
    IF f = "ok" THEN UNCHANGED faults
    ELSE faults.error + faults.lost < MaxFaults /\ faults' = [faults EXCEPT ![f] = @ + 1]

\* updateTask with outcome f.
UpdateTask(t, r, f) ==
    /\ Outcome(f)
    /\ IF f # "error" /\ UpdateAccepted(t, r) THEN UpdateScript(t, r) ELSE UNCHANGED queueVars

\* enqueueTask of a worker with outcome f.
EnqueueTask(t, r, f) ==
    /\ Outcome(f)
    /\ IF f # "error" /\ EnqueueAccepted(t, r)
         THEN EnqueueScript(t, r) /\ UNCHANGED runs ELSE UNCHANGED queueVars

\* markUrlSeen with outcome f.
MarkUrlSeen(t, f) ==
    /\ Outcome(f)
    /\ marked' = IF f = "error" THEN marked ELSE marked \cup {UrlOf[t]}
    /\ UNCHANGED <<record, pending, processing, claimed, leases, runs>>

-----------------------------------------------------------------------------
(* submitTask *)

\* A URL that was seen is refused.  The claim is awaited outside the try of the
\* enqueue: when it fails, so does the submission, and nobody gives back what a claim
\* whose reply was lost has taken.
ClaimUrl(t, f) ==
    /\ submission[t] = "new"
    /\ UrlOf[t] \notin Seen
    /\ Outcome(f)
    /\ claimed' = IF f = "error" THEN claimed ELSE claimed \cup {UrlOf[t]}
    /\ submission' = [submission EXCEPT ![t] =
           IF f = "ok" THEN "claimed" ELSE IF f = "error" THEN "failed" ELSE "unanswered"]
    /\ UNCHANGED <<record, pending, processing, marked, leases, runs, workerVars, operatorVars>>

EnqueueNew(t, f) ==
    LET r == [NoRecord EXCEPT !.state = "PENDING"]
    IN  /\ submission[t] = "claimed"
        /\ Outcome(f)
        /\ IF f = "error" THEN UNCHANGED queueVars
           ELSE EnqueueScript(t, r) /\ runs' = [runs EXCEPT ![t] = 0]
        /\ submission' = [submission EXCEPT ![t] = IF f = "ok" THEN "queued" ELSE "releasing"]
        /\ UNCHANGED <<workerVars, operatorVars>>

\* Mutant: a failed enqueue keeps the claim.
Mutant_ReleaseUrl_forgets(t, f) ==
    /\ submission[t] = "releasing"
    /\ Outcome(f)
    /\ submission' = [submission EXCEPT ![t] = "failed"]
    /\ UNCHANGED <<queueVars, workerVars, operatorVars>>

\* compensateUrlClaim: one set holds claims and marks, and gives up both.
ReleaseUrl(t, f) ==
    /\ submission[t] = "releasing"
    /\ Outcome(f)
    /\ IF f = "error" THEN UNCHANGED <<claimed, marked>>
       ELSE claimed' = claimed \ {UrlOf[t]} /\ marked' = marked \ {UrlOf[t]}
    /\ submission' = [submission EXCEPT ![t] = IF f = "error" THEN "unreleased" ELSE "failed"]
    /\ UNCHANGED <<record, pending, processing, leases, runs, workerVars, operatorVars>>

-----------------------------------------------------------------------------
(* pollLoop and executeTask *)

Quiet == UNCHANGED <<submission, operatorVars>>
SetJob(w, j) == job' = [job EXCEPT ![w] = j]

\* dequeueTask.  The pass over the partitions goes on when stop has been called.
Dequeue(w, f) ==
    /\ phase[w] \in {"running", "stopping"}
    /\ job[w] = NoJob
    /\ f # "error" /\ Outcome(f)
    /\ DequeueScript(w)
    /\ IF f = "ok" /\ leases' # leases
         THEN \E t \in Tasks :
                /\ record'[t].lease = leases'
                /\ SetJob(w, [pc |-> "claiming", task |-> t, lease |-> leases',
                              retries |-> record'[t].retries])
         ELSE UNCHANGED job
    /\ UNCHANGED <<recovery, phase, flushFailed, crashes>>
    /\ Quiet

\* The reply arrives: from here the task counts as active.
JobStarts(w) ==
    /\ job[w].pc = "claiming"
    /\ SetJob(w, [job[w] EXCEPT !.pc = "running"])
    /\ UNCHANGED <<queueVars, recovery, phase, flushFailed, crashes, faults>>
    /\ Quiet

JobSucceeds(w) ==
    /\ job[w].pc = "running"
    /\ SetJob(w, [job[w] EXCEPT !.pc = "complete"])
    /\ UNCHANGED <<queueVars, recovery, phase, flushFailed, crashes, faults>>
    /\ Quiet

\* The task throws, times out or is aborted.
JobFails(w) ==
    /\ job[w].pc = "running"
    /\ SetJob(w, IF job[w].retries < MaxRetries
                   THEN [job[w] EXCEPT !.pc = "nack", !.retries = @ + 1]
                   ELSE [job[w] EXCEPT !.pc = "fail"])
    /\ UNCHANGED <<queueVars, recovery, phase, flushFailed, crashes, faults>>
    /\ Quiet

\* The record worker w writes for j.
Written(w, j, state) ==
    [state |-> state, retries |-> j.retries, worker |-> w, lease |-> j.lease]

Work(j, kind, state) ==
    [kind |-> kind, state |-> state, task |-> j.task, lease |-> j.lease, retries |-> j.retries]

\* scheduleRecovery of the job's task, which ends the job.
Recover(w, kind, state) ==
    /\ recovery' = [recovery EXCEPT ![w] = @ \cup {Work(job[w], kind, state)}]
    /\ SetJob(w, NoJob)

\* persistTask of a completed or failed task: the first write of either.
PersistResult(w, f) ==
    LET j == job[w]
        state == IF j.pc = "complete" THEN "COMPLETED" ELSE "FAILED"
        r == Written(w, j, state)
    IN  /\ j.pc \in {"complete", "fail"}
        /\ UpdateTask(j.task, r, f)
        /\ IF f # "ok" THEN Recover(w, "persist", state)
           ELSE /\ SetJob(w, IF UpdateAccepted(j.task, r) /\ j.pc = "complete"
                               THEN [j EXCEPT !.pc = "mark"] ELSE NoJob)
                /\ UNCHANGED recovery
        /\ UNCHANGED <<phase, flushFailed, crashes>>
        /\ Quiet

\* The second write of a completed task.
PersistMark(w, f) ==
    /\ job[w].pc = "mark"
    /\ MarkUrlSeen(job[w].task, f)
    /\ IF f # "ok" THEN Recover(w, "persist", "COMPLETED")
       ELSE SetJob(w, NoJob) /\ UNCHANGED recovery
    /\ UNCHANGED <<phase, flushFailed, crashes>>
    /\ Quiet

\* The RETRYING status write; unless the lease is lost, the requeue follows: at
\* once when the worker is stopping, after a delay otherwise.
PersistRetry(w, f) ==
    LET j == job[w]
        r == Written(w, j, "RETRYING")
        lost == f = "ok" /\ ~UpdateAccepted(j.task, r)
    IN  /\ j.pc = "nack"
        /\ UpdateTask(j.task, r, f)
        /\ IF lost THEN SetJob(w, NoJob) /\ UNCHANGED recovery
           ELSE IF phase[w] = "running" THEN Recover(w, "enqueue", "PENDING")
           ELSE SetJob(w, [j EXCEPT !.pc = "requeue"]) /\ UNCHANGED recovery
        /\ UNCHANGED <<phase, flushFailed, crashes>>
        /\ Quiet

\* requeueTask while stopping.
Requeue(w, f) ==
    /\ job[w].pc = "requeue"
    /\ EnqueueTask(job[w].task, Written(w, job[w], "PENDING"), f)
    /\ IF f # "ok" THEN Recover(w, "enqueue", "PENDING")
       ELSE SetJob(w, NoJob) /\ UNCHANGED recovery
    /\ UNCHANGED <<phase, flushFailed, crashes>>
    /\ Quiet

\* startLeaseRenewal, when it arrives after the deadline.  A refused renewal only
\* aborts the execution, which JobFails covers.
RenewLease(w) ==
    /\ job[w].pc \in Pcs \ {"claiming"}
    /\ processing[job[w].task] = "expired"
    /\ RenewAccepted(job[w].task, w, job[w].lease)
    /\ RenewScript(job[w].task)
    /\ UNCHANGED <<workerVars, faults>>
    /\ Quiet

-----------------------------------------------------------------------------
(* Recovery *)

\* The work left after an attempt that failed: it is scheduled again, or, when the
\* worker is stopping, given up with an error that stop reports.
AttemptFails(w, work) ==
    IF phase[w] = "running"
      THEN /\ recovery' = [recovery EXCEPT ![w] = (@ \ {work}) \cup
                             {[work EXCEPT !.kind = IF @ = "marking" THEN "persist" ELSE @]}]
           /\ UNCHANGED flushFailed
      ELSE /\ recovery' = [recovery EXCEPT ![w] = @ \ {work}]
           /\ flushFailed' = flushFailed \cup {w}

WorkDone(w, work) ==
    /\ recovery' = [recovery EXCEPT ![w] = @ \ {work}]
    /\ UNCHANGED flushFailed

\* flushRecovery: a lease that is lost ends the work silently; a completed record
\* that was written is followed by its URL mark.
RecoveryRuns(w, work, f) ==
    LET r == Written(w, work, work.state)
    IN  /\ work \in recovery[w]
        /\ \/ /\ work.kind = "enqueue"
              /\ EnqueueTask(work.task, r, f)
              /\ IF f = "ok" THEN WorkDone(w, work) ELSE AttemptFails(w, work)
           \/ /\ work.kind = "persist"
              /\ UpdateTask(work.task, r, f)
              /\ IF f # "ok" THEN AttemptFails(w, work)
                 ELSE IF UpdateAccepted(work.task, r) /\ work.state = "COMPLETED"
                 THEN /\ recovery' = [recovery EXCEPT ![w] =
                             (@ \ {work}) \cup {[work EXCEPT !.kind = "marking"]}]
                      /\ UNCHANGED flushFailed
                 ELSE WorkDone(w, work)
           \/ /\ work.kind = "marking"
              /\ MarkUrlSeen(work.task, f)
              /\ IF f = "ok" THEN WorkDone(w, work) ELSE AttemptFails(w, work)
        /\ UNCHANGED <<job, phase, crashes>>
        /\ Quiet

-----------------------------------------------------------------------------
(* Stop and crash of a worker *)

StopWorker(w) ==
    /\ phase[w] = "running"
    /\ Cardinality({v \in Workers : phase[v] # "running"}) < MaxStops
    /\ phase' = [phase EXCEPT ![w] = "stopping"]
    /\ UNCHANGED <<queueVars, job, recovery, flushFailed, crashes, faults>>
    /\ Quiet

\* The recovery work is flushed and the adapter closed.  An active task that
\* outlasted the wait is an error; one whose dequeue has not been answered is not
\* counted.
CloseWorker(w) ==
    /\ phase[w] = "stopping"
    /\ recovery[w] = {}
    /\ phase' = [phase EXCEPT ![w] =
                   IF w \in flushFailed \/ job[w].pc \notin {"idle", "claiming"}
                     THEN "closedWithErrors" ELSE "closed"]
    /\ SetJob(w, NoJob)
    /\ UNCHANGED <<queueVars, recovery, flushFailed, crashes, faults>>
    /\ Quiet

\* The process dies and is started again.
WorkerCrashes(w) ==
    /\ crashes < MaxCrashes
    /\ phase[w] = "running"
    /\ job[w] # NoJob \/ recovery[w] # {}
    /\ crashes' = crashes + 1
    /\ SetJob(w, NoJob)
    /\ recovery' = [recovery EXCEPT ![w] = {}]
    /\ UNCHANGED <<queueVars, phase, flushFailed, faults>>
    /\ Quiet

-----------------------------------------------------------------------------
(* cancelTask and retryTask *)

OperatorReads(kind, t) ==
    /\ request = NoRequest /\ requests < MaxRequests
    /\ record[t].state # "ABSENT"
    /\ IF kind = "cancel" THEN record[t].state \notin {"RUNNING", "CANCELLED"}
       ELSE record[t].state \in {"FAILED", "CANCELLED"}
    /\ request' = [kind |-> kind, task |-> t, rec |-> record[t]]
    /\ requests' = requests + 1
    /\ UNCHANGED <<queueVars, submission, workerVars, faults>>

\* The record the operator's request writes.
RequestRecord ==
    IF request.kind = "cancel" THEN [request.rec EXCEPT !.state = "CANCELLED"]
    ELSE [request.rec EXCEPT !.state = "RETRYING", !.retries = 0]

RequestAccepted ==
    IF request.kind = "cancel" THEN UpdateAccepted(request.task, RequestRecord)
    ELSE EnqueueAccepted(request.task, RequestRecord)

OperatorWrites ==
    /\ request # NoRequest
    /\ IF ~RequestAccepted THEN UNCHANGED queueVars
       ELSE IF request.kind = "cancel" THEN UpdateScript(request.task, RequestRecord)
       ELSE /\ EnqueueScript(request.task, RequestRecord)
            /\ runs' = [runs EXCEPT ![request.task] = 0]
    /\ request' = NoRequest
    /\ UNCHANGED <<submission, workerVars, requests, faults>>

-----------------------------------------------------------------------------
LeaseExpires(t) == DeadlinePasses(t) /\ UNCHANGED <<submission, workerVars, operatorVars, faults>>

Submits(t, f) == ClaimUrl(t, f) \/ EnqueueNew(t, f) \/ ReleaseUrl(t, f)
Executes(w) == JobSucceeds(w) \/ JobFails(w)
Writes(w, f) == PersistResult(w, f) \/ PersistMark(w, f) \/ PersistRetry(w, f) \/ Requeue(w, f)
Recovers(w, f) == \E work \in recovery[w] : RecoveryRuns(w, work, f)

Next ==
    \/ \E t \in Tasks, f \in Outcomes : Submits(t, f)
    \/ \E t \in Tasks : LeaseExpires(t)
    \/ \E w \in Workers, f \in Outcomes : Dequeue(w, f) \/ Writes(w, f) \/ Recovers(w, f)
    \/ \E w \in Workers : \/ JobStarts(w) \/ Executes(w) \/ RenewLease(w)
                          \/ StopWorker(w) \/ CloseWorker(w) \/ WorkerCrashes(w)
    \/ \E kind \in {"cancel", "retry"}, t \in Tasks : OperatorReads(kind, t)
    \/ OperatorWrites

Spec == Init /\ [][Next]_vars

\* Workers poll, executions end (every task has a timeout), queue calls are
\* answered one way or the other, recovery timers fire and deadlines pass.
Fairness ==
    /\ \A w \in Workers :
         /\ WF_vars(\E f \in Outcomes : Dequeue(w, f))
         /\ WF_vars(JobStarts(w))
         /\ WF_vars(Executes(w))
         /\ WF_vars(\E f \in Outcomes : Writes(w, f))
         /\ WF_vars(\E f \in Outcomes : Recovers(w, f))
    /\ \A t \in Tasks : WF_vars(LeaseExpires(t))

FairSpec == Spec /\ Fairness

-----------------------------------------------------------------------------
(* Properties *)

\* However a worker fails, dies or stops between two queue calls, a task that is
\* not finished stays within reach of dequeueTask: it is pending, or its lease is
\* registered and will be reclaimed.
NoTaskStranded ==
    \A t \in Tasks : record[t].state \in Open => t \in pending \/ processing[t] # "absent"

\* The queue's records are well formed and none is out of reach.
QueueSound == TypeOK /\ NoTaskStranded

\* A task is handed out at most maxRetries + 1 times between a submission or an
\* operator's retry and the next, whether an attempt ends by an error, by an
\* expired lease or with its worker.
RetriesBounded == \A t \in Tasks : runs[t] <= MaxRetries + 1

\* The lease is a fence: a completed record is never overwritten, by a worker that
\* lost its lease, by a recovered write or by an operator acting on a stale read.
CompletedIsFinal ==
    [][\A t \in Tasks : record[t].state = "COMPLETED" => record'[t] = record[t]]_vars

\* Only a worker that is told so loses the task: the record of a leased task
\* changes hands only after its deadline has passed.
LeaseRespected ==
    [][\A t \in Tasks :
         (record[t].state = "RUNNING" /\ processing[t] = "valid" /\ record'[t] # record[t])
            => /\ record'[t].worker = record[t].worker
               /\ record'[t].lease = record[t].lease]_vars

\* The fence holds on both sides: nothing is taken from a worker within its lease
\* or written over what it completed.
LeaseFences == CompletedIsFinal /\ LeaseRespected

\* A URL is not claimed for nothing, however many calls fail: behind a claim there is
\* a submission that is under way or was queued.  Two exceptions: the reply of the claim
\* itself was lost ("unanswered"), or the call that was to give it back never arrived
\* ("unreleased").
ClaimHasOwner ==
    \A url \in claimed : \E t \in Tasks :
        /\ UrlOf[t] = url
        /\ submission[t] \in {"claimed", "queued", "releasing", "unanswered", "unreleased"}

\* Every task that was queued ends: completed, failed or cancelled, as long as one
\* worker is not stopped.
TaskResolves ==
    \A t \in Tasks :
        submission[t] = "queued"
            ~> (record[t].state \in Terminal \/ \A w \in Workers : phase[w] # "running")

=============================================================================
