-------------------------- MODULE WorkerClusterProofs ---------------------------
(***************************************************************************)
(* Proofs, for every set of tasks and workers and every number of retries, *)
(* faults, crashes, stops and operator requests, that the distributed      *)
(* queue strands no task, hands a task out at most maxRetries + 1 times,   *)
(* never overwrites a completed record and takes nothing from a worker     *)
(* within its lease.                                                       *)
(*                                                                         *)
(* The argument has two levels.  A step of the cluster does to the queue   *)
(* one of the few things of QueueStep, one per Lua script; what those      *)
(* preserve is shown once (the first part).  The rest is about what the    *)
(* workers, the recovery work and the operator remember of the queue.      *)
(***************************************************************************)
EXTENDS WorkerCluster, TLAPS

-----------------------------------------------------------------------------
(* The queue *)

\* What the fields of a record say about each other and about the two sorted sets.
RecordShape(t) ==
    /\ record[t].lease <= leases
    /\ record[t].state \in {"RUNNING", "COMPLETED"} => record[t].lease # 0
    /\ record[t].state = "COMPLETED" => processing[t] = "absent"
    /\ record[t].state \in Open => record[t].retries <= MaxRetries
    /\ record[t].state = "ABSENT" => record[t] = NoRecord
    /\ t \in pending => record[t].state \in Queued
    /\ record[t].state \in Open => t \in pending \/ processing[t] # "absent"

\* Every handing out of a task is paid for by a retry, the last one by the limit.
RunsPaid(t) ==
    /\ runs[t] <= MaxRetries + 1
    /\ record[t].state \in Queued => runs[t] <= record[t].retries
    /\ record[t].state = "RUNNING" => runs[t] <= record[t].retries + 1

QueueInv == QueueTypeOK /\ \A t \in Tasks : RecordShape(t) /\ RunsPaid(t)

\* updateTask that is accepted: a result, a retry paid for, or a cancellation.
Updates(t, r) ==
    /\ record[t].state # "ABSENT"
    /\ UpdateAccepted(t, r) /\ UpdateScript(t, r)
    /\ r.state \in {"COMPLETED", "FAILED", "CANCELLED", "RETRYING"}
    /\ r.state = "COMPLETED" => r.lease # 0
    /\ r.state = "RETRYING" => r.lease # 0 /\ r.retries <= MaxRetries /\ runs[t] <= r.retries

\* enqueueTask that is accepted: a worker's requeue, paid for, or an operator's retry.
Enqueues(t, r) ==
    /\ record[t].state # "ABSENT"
    /\ EnqueueAccepted(t, r) /\ EnqueueScript(t, r)
    /\ r.state \in Queued /\ r.retries <= MaxRetries
    /\ \/ UNCHANGED runs /\ r.lease # 0 /\ runs[t] <= r.retries
       \/ runs' = [runs EXCEPT ![t] = 0]

\* enqueueTask of a submission.
EnqueuesNew(t) ==
    /\ record[t].state = "ABSENT"
    /\ EnqueueScript(t, [NoRecord EXCEPT !.state = "PENDING"])
    /\ runs' = [runs EXCEPT ![t] = 0]

\* Claims and marks of URLs, and steps that do not reach the queue.
LeavesTasks ==
    /\ UNCHANGED <<record, pending, processing, leases, runs>>
    /\ claimed' \subseteq Urls /\ marked' \subseteq Urls

QueueStep ==
    \/ \E w \in Workers : DequeueScript(w)
    \/ \E t \in Tasks, r \in Records : Updates(t, r) \/ Enqueues(t, r)
    \/ \E t \in Tasks : \/ DeadlinePasses(t)
                        \/ record[t].state = "RUNNING" /\ RenewScript(t)
    \/ LeavesTasks

\* What a step may do to one task: it forgets no record, changes neither a completed
\* one nor one that is leased, and a holder of an earlier lease who still finds it
\* on the record finds no more runs than before.
TaskStep(t) ==
    /\ record[t].state # "ABSENT" => record'[t].state # "ABSENT"
    /\ record[t].state = "COMPLETED" => record'[t] = record[t]
    /\ record[t].state = "RUNNING" /\ processing[t] = "valid" /\ record'[t] # record[t]
         => record'[t].worker = record[t].worker /\ record'[t].lease = record[t].lease
    /\ \A l \in 1..leases : record'[t].lease = l => record[t].lease = l /\ runs'[t] <= runs[t]

\* A record that leaves its deadline behind is paid for and keeps the shape of its
\* state.
LEMMA ReclaimedRecord ==
  ASSUME QueueInv, NEW t \in Tasks
  PROVE  /\ Reclaimed(t) \in Records
         /\ record[t].state = "RUNNING" =>
              /\ Reclaimed(t).lease = 0
              /\ Reclaimed(t).retries = record[t].retries + 1
              /\ Reclaimed(t).state = IF record[t].retries + 1 <= MaxRetries THEN "PENDING"
                                      ELSE "FAILED"
         /\ record[t].state \in Queued =>
              /\ Reclaimed(t).lease = 0 /\ Reclaimed(t).retries = record[t].retries
              /\ Reclaimed(t).state = record[t].state
         /\ record[t].state \notin Queued \cup {"RUNNING"} => Reclaimed(t) = record[t]
  <1> USE TasksAssumption DEF QueueInv, QueueTypeOK, RecordShape, Open, Queued, Terminal
  <1>1. record[t] \in Records
    OBVIOUS
  <1>2. CASE record[t].state = "RUNNING"
    <2>1. /\ record[t].retries \in Nat /\ MaxRetries \in Nat
          /\ record[t].retries <= MaxRetries
      BY <1>1, <1>2 DEF Records
    <2> DEFINE state == IF record[t].retries + 1 <= MaxRetries THEN "PENDING" ELSE "FAILED"
    <2>2. Reclaimed(t) = [state |-> state, retries |-> record[t].retries + 1,
                          worker |-> NoWorker, lease |-> 0]
      BY <1>1, <1>2 DEF Reclaimed, Records
    <2>3. state \in {"PENDING", "FAILED"} /\ record[t].retries + 1 \in 0..(MaxRetries + 1)
      BY <2>1
    <2>4. Reclaimed(t) \in Records
      BY <2>2, <2>3 DEF Records
    <2> QED
      BY <1>2, <2>2, <2>4
  <1>3. CASE record[t].state \in Queued
    BY <1>1, <1>3 DEF Reclaimed, Records
  <1>4. CASE record[t].state \notin Queued \cup {"RUNNING"}
    BY <1>1, <1>4 DEF Reclaimed
  <1> QED
    BY <1>2, <1>3, <1>4

\* dequeueTask: every expired lease is reclaimed and paid for, and the task that is
\* handed out has a retry left to pay for it.
LEMMA DequeueKeeps ==
  ASSUME QueueInv, NEW w \in Workers, DequeueScript(w)
  PROVE  /\ QueueInv'
         /\ leases' \in {leases, leases + 1}
         /\ \A t \in Tasks : /\ TaskStep(t)
                             /\ record[t].state = "ABSENT" => record'[t] = record[t]
         /\ leases' # leases =>
              \A t \in Tasks : record'[t].lease = leases' => record'[t].state = "RUNNING"
  <1> DEFINE lapsed == {t \in Tasks : processing[t] = "expired"}
             recs == [t \in Tasks |-> IF t \in lapsed THEN Reclaimed(t) ELSE record[t]]
             pend == pending \cup {t \in lapsed : recs[t].state \in Queued}
             kept == [t \in Tasks |-> IF t \in lapsed THEN "absent" ELSE processing[t]]
             Swept(t) ==
                 /\ recs[t] \in Records
                 /\ recs[t].lease \in {0, record[t].lease}
                 /\ recs[t].state \in {"RUNNING", "COMPLETED"} =>
                      recs[t] = record[t] /\ (t \notin lapsed \/ recs[t].state = "COMPLETED")
                 /\ recs[t].state = "COMPLETED" => kept[t] = "absent"
                 /\ recs[t].state \in Open => recs[t].retries <= MaxRetries
                 /\ record[t].state = "ABSENT" => recs[t] = record[t]
                 /\ recs[t].state = "ABSENT" => recs[t] = NoRecord /\ record[t].state = "ABSENT"
                 /\ t \in pend => recs[t].state \in Queued
                 /\ recs[t].state \in Open => t \in pend \/ kept[t] # "absent"
                 /\ recs[t].state \in Queued => runs[t] <= recs[t].retries
                 /\ record[t].state = "COMPLETED" => recs[t] = record[t]
                 /\ processing[t] = "valid" => recs[t] = record[t]
  <1>1. /\ recs \in [Tasks -> Records] /\ pend \subseteq Tasks
        /\ kept \in [Tasks -> {"absent", "valid", "expired"}]
        /\ leases \in Nat /\ MaxRetries \in Nat /\ runs \in [Tasks -> Nat]
        /\ record \in [Tasks -> Records]
    BY ReclaimedRecord, TasksAssumption DEF QueueInv, QueueTypeOK
  <1>2. ASSUME NEW t \in Tasks
        PROVE  Swept(t)
    <2>0. /\ record[t] \in Records /\ record[t].retries \in Nat /\ record[t].lease \in Nat
          /\ RecordShape(t) /\ RunsPaid(t) /\ runs[t] \in Nat
      BY <1>1 DEF QueueInv, Records
    <2>1. CASE t \notin lapsed
      BY <1>1, <2>0, <2>1 DEF RecordShape, RunsPaid, Open, Queued
    <2>2. CASE t \in lapsed
      <3>0. recs[t] = Reclaimed(t) /\ kept[t] = "absent" /\ processing[t] = "expired"
        BY <2>2
      <3>1. CASE record[t].state = "RUNNING"
        BY <1>1, <2>0, <2>2, <3>0, <3>1, ReclaimedRecord DEF RecordShape, RunsPaid, Open, Queued
      <3>2. CASE record[t].state \in Queued
        BY <1>1, <2>0, <2>2, <3>0, <3>2, ReclaimedRecord DEF RecordShape, RunsPaid, Open, Queued
      <3>3. CASE record[t].state \notin Queued \cup {"RUNNING"}
        BY <1>1, <2>0, <2>2, <3>0, <3>3, ReclaimedRecord DEF RecordShape, RunsPaid, Open, Queued
      <3> QED
        BY <3>1, <3>2, <3>3
    <2> QED
      BY <2>1, <2>2
  <1>3. CASE /\ record' = recs /\ pending' = pend /\ processing' = kept
             /\ UNCHANGED <<leases, runs, claimed, marked>>
    <2>1. QueueTypeOK'
      BY <1>1, <1>3 DEF QueueInv, QueueTypeOK
    <2>2. ASSUME NEW t \in Tasks
          PROVE  RecordShape(t)' /\ RunsPaid(t)' /\ TaskStep(t)
                   /\ (record[t].state = "ABSENT" => record'[t] = record[t])
      <3>1. Swept(t) /\ RecordShape(t) /\ RunsPaid(t) /\ record[t].lease \in Nat /\ runs[t] \in Nat
        BY <1>1, <1>2 DEF QueueInv, Records
      <3>2. record'[t] = recs[t] /\ processing'[t] = kept[t] /\ pending' = pend
            /\ leases' = leases /\ runs'[t] = runs[t]
        BY <1>3
      <3> HIDE DEF recs, kept, pend, lapsed
      <3> QED
        BY <1>1, <3>1, <3>2 DEF RecordShape, RunsPaid, TaskStep, Queued
    <2> QED
      BY <1>1, <1>3, <2>1, <2>2 DEF QueueInv
  <1>4. ASSUME NEW x \in pend, pending' = pend \ {x}, recs[x].state \in Queued,
               record' = [recs EXCEPT ![x].state = "RUNNING", ![x].worker = w,
                                      ![x].lease = leases + 1],
               processing' = [kept EXCEPT ![x] = "valid"],
               leases' = leases + 1, runs' = [runs EXCEPT ![x] = @ + 1],
               UNCHANGED <<claimed, marked>>
        PROVE  /\ QueueInv'
               /\ \A t \in Tasks : /\ TaskStep(t)
                                   /\ record[t].state = "ABSENT" => record'[t] = record[t]
                                   /\ record'[t].lease = leases' => record'[t].state = "RUNNING"
    <2>1. /\ x \in Tasks /\ Swept(x) /\ recs[x].retries \in Nat /\ runs[x] \in Nat
          /\ record'[x] = [state |-> "RUNNING", retries |-> recs[x].retries,
                           worker |-> w, lease |-> leases + 1]
          /\ runs'[x] = runs[x] + 1 /\ processing'[x] = "valid"
      <3>1. x \in Tasks /\ Swept(x)
        BY <1>1, <1>2
      <3>2. recs[x] \in Records /\ recs[x].retries \in Nat /\ runs[x] \in Nat
        BY <1>1, <3>1 DEF Records
      <3> HIDE DEF recs, kept, pend, lapsed
      <3>3. record'[x] = [recs[x] EXCEPT !.state = "RUNNING", !.worker = w, !.lease = leases + 1]
        BY <1>1, <1>4, <3>1, <3>2
      <3>4. record'[x] = [state |-> "RUNNING", retries |-> recs[x].retries,
                          worker |-> w, lease |-> leases + 1]
        BY <3>2, <3>3 DEF Records
      <3>5. runs'[x] = runs[x] + 1 /\ processing'[x] = "valid"
        BY <1>1, <1>4, <3>1
      <3> QED
        BY <3>1, <3>2, <3>4, <3>5
    <2>2. ASSUME NEW t \in Tasks, t # x
          PROVE  record'[t] = recs[t] /\ processing'[t] = kept[t] /\ runs'[t] = runs[t]
      BY <1>1, <1>4, <2>2
    <2> DEFINE taken == [state |-> "RUNNING", retries |-> recs[x].retries,
                         worker |-> w, lease |-> leases + 1]
    <2>3. taken \in Records
      BY <1>1, <2>1 DEF Records, Open
    <2>4. record' = [recs EXCEPT ![x] = taken]
      BY <1>1, <1>4, <2>1 DEF Records
    <2>5. QueueTypeOK'
      <3> HIDE DEF recs, kept, pend, lapsed, taken
      <3>1. record' \in [Tasks -> Records]
        BY <1>1, <2>1, <2>3, <2>4
      <3>2. /\ pending' \subseteq Tasks /\ runs' \in [Tasks -> Nat]
            /\ processing' \in [Tasks -> {"absent", "valid", "expired"}]
        BY <1>1, <1>4, <2>1
      <3> QED
        BY <1>1, <1>4, <3>1, <3>2 DEF QueueInv, QueueTypeOK
    <2>6. RecordShape(x)' /\ RunsPaid(x)' /\ TaskStep(x) /\ record[x].state # "ABSENT"
      <3> HIDE DEF recs, kept, pend, lapsed
      <3>1. RecordShape(x) /\ x \notin pending'
        BY <1>4, <2>1 DEF QueueInv
      <3> QED
        BY <1>1, <1>4, <2>1, <3>1 DEF RecordShape, RunsPaid, TaskStep, Queued, Open
    <2>7. ASSUME NEW t \in Tasks, t # x
          PROVE  RecordShape(t)' /\ RunsPaid(t)' /\ TaskStep(t)
                   /\ (record[t].state = "ABSENT" => record'[t] = record[t])
                   /\ record'[t].lease # leases'
      <3>1. Swept(t) /\ RecordShape(t) /\ RunsPaid(t) /\ record[t].lease \in Nat /\ runs[t] \in Nat
        BY <1>1, <1>2 DEF QueueInv, Records
      <3>2. t \in pending' <=> t \in pend
        BY <1>4, <2>7
      <3> HIDE DEF recs, kept, pend, lapsed
      <3> QED
        BY <1>1, <1>4, <2>2, <2>7, <3>1, <3>2 DEF RecordShape, RunsPaid, TaskStep, Queued
    <2> QED
      BY <2>1, <2>5, <2>6, <2>7 DEF QueueInv
  <1>5. \/ /\ record' = recs /\ pending' = pend /\ processing' = kept
           /\ UNCHANGED <<leases, runs, claimed, marked>>
        \/ \E x \in pend :
             /\ pending' = pend \ {x} /\ recs[x].state \in Queued
             /\ record' = [recs EXCEPT ![x].state = "RUNNING", ![x].worker = w,
                                       ![x].lease = leases + 1]
             /\ processing' = [kept EXCEPT ![x] = "valid"]
             /\ leases' = leases + 1 /\ runs' = [runs EXCEPT ![x] = @ + 1]
             /\ UNCHANGED <<claimed, marked>>
    <2>1. \A x \in pend : recs[x].state \in Queued
      BY <1>1, <1>2
    <2> QED
      BY <2>1 DEF DequeueScript
  <1> QED
    BY <1>1, <1>3, <1>4, <1>5

\* A script that writes one task and issues no lease keeps the queue when that task
\* is left in order.
LEMMA OneTaskWritten ==
  ASSUME QueueInv, NEW x \in Tasks, NEW r \in Records, NEW p \in {"absent", "valid", "expired"},
         record' = [record EXCEPT ![x] = r],
         processing' = [processing EXCEPT ![x] = p],
         pending' \in {pending, pending \cup {x}, pending \ {x}},
         runs' \in {runs, [runs EXCEPT ![x] = 0]},
         UNCHANGED <<claimed, marked, leases>>,
         RecordShape(x)', RunsPaid(x)', TaskStep(x)
  PROVE  /\ QueueInv' /\ leases' = leases
         /\ \A t \in Tasks : TaskStep(t) /\ (t # x => record'[t] = record[t])
  <1>1. QueueTypeOK'
    BY DEF QueueInv, QueueTypeOK
  <1>2. ASSUME NEW t \in Tasks, t # x
        PROVE  /\ record'[t] = record[t] /\ processing'[t] = processing[t] /\ runs'[t] = runs[t]
               /\ t \in pending' <=> t \in pending
    BY <1>2 DEF QueueInv, QueueTypeOK
  <1>3. ASSUME NEW t \in Tasks, t # x
        PROVE  RecordShape(t)' /\ RunsPaid(t)' /\ TaskStep(t) /\ record'[t] = record[t]
    <2>1. RecordShape(t) /\ RunsPaid(t) /\ runs[t] \in Nat
      BY DEF QueueInv, QueueTypeOK
    <2> QED
      BY <1>2, <1>3, <2>1 DEF RecordShape, RunsPaid, TaskStep
  <1> QED
    BY <1>1, <1>3 DEF QueueInv

\* updateTask.
LEMMA UpdateKeeps ==
  ASSUME QueueInv, NEW x \in Tasks, NEW r \in Records, Updates(x, r)
  PROVE  /\ QueueInv' /\ leases' = leases
         /\ \A t \in Tasks : TaskStep(t) /\ (record[t].state = "ABSENT" => record'[t] = record[t])
  <1> DEFINE p == IF r.state = "RUNNING" \/ (r.state \in Queued /\ r.lease # 0)
                    THEN "valid" ELSE "absent"
  <1>1. /\ record' = [record EXCEPT ![x] = r] /\ processing' = [processing EXCEPT ![x] = p]
        /\ pending' = IF r.state \in Terminal THEN pending \ {x} ELSE pending
        /\ UNCHANGED <<claimed, marked, leases, runs>>
    BY DEF Updates, UpdateScript
  <1>2. /\ record[x] \in Records /\ runs[x] \in Nat /\ leases \in Nat /\ MaxRetries \in Nat
        /\ r.lease \in Nat /\ r.retries \in Nat /\ record[x].lease \in Nat
        /\ RecordShape(x) /\ RunsPaid(x)
    BY TasksAssumption DEF QueueInv, QueueTypeOK, Records
  <1>3. record'[x] = r /\ processing'[x] = p /\ runs'[x] = runs[x] /\ leases' = leases
    BY <1>1 DEF QueueInv, QueueTypeOK
  <1>4. r.lease = record[x].lease /\ (r.lease # 0 => r.worker = record[x].worker)
        /\ (r.lease # 0 => processing[x] = "valid")
    BY DEF Updates, UpdateAccepted
  <1>5. r.state = "RETRYING" => p = "valid"
    BY DEF Updates, Queued
  <1>6. r.state \in Terminal => x \notin pending'
    BY <1>1
  <1>7. RecordShape(x)' /\ RunsPaid(x)'
    BY <1>2, <1>3, <1>4, <1>5, <1>6 DEF Updates, RecordShape, RunsPaid, Open, Queued, Terminal
  <1>8. TaskStep(x)
    BY <1>2, <1>3, <1>4 DEF Updates, TaskStep, RecordShape
  <1> HIDE DEF p
  <1>9. p \in {"absent", "valid", "expired"} /\ pending' \in {pending, pending \cup {x}, pending \ {x}}
    BY <1>1 DEF p
  <1> QED
    BY <1>1, <1>7, <1>8, <1>9, OneTaskWritten DEF Updates

\* enqueueTask of a task that has a record.
LEMMA EnqueueKeeps ==
  ASSUME QueueInv, NEW x \in Tasks, NEW r \in Records, Enqueues(x, r)
  PROVE  /\ QueueInv' /\ leases' = leases
         /\ \A t \in Tasks : TaskStep(t) /\ (record[t].state = "ABSENT" => record'[t] = record[t])
  <1>1. /\ record' = [record EXCEPT ![x] = r] /\ processing' = [processing EXCEPT ![x] = "absent"]
        /\ pending' = pending \cup {x} /\ UNCHANGED <<claimed, marked, leases>>
        /\ runs' \in {runs, [runs EXCEPT ![x] = 0]}
    BY DEF Enqueues, EnqueueScript
  <1>2. /\ record[x] \in Records /\ runs[x] \in Nat /\ leases \in Nat /\ MaxRetries \in Nat
        /\ r.lease \in Nat /\ r.retries \in Nat /\ record[x].lease \in Nat
        /\ RecordShape(x) /\ RunsPaid(x)
    BY TasksAssumption DEF QueueInv, QueueTypeOK, Records
  <1>3. /\ record'[x] = r /\ processing'[x] = "absent" /\ leases' = leases /\ x \in pending'
        /\ runs'[x] <= runs[x] /\ runs'[x] <= r.retries /\ runs'[x] \in Nat
    BY <1>1, <1>2 DEF QueueInv, QueueTypeOK, Enqueues
  <1>4. r.lease = record[x].lease /\ (r.lease # 0 => r.worker = record[x].worker)
        /\ record[x].state # "COMPLETED"
    BY <1>2 DEF Enqueues, EnqueueAccepted, RecordShape, Open
  <1>5. RecordShape(x)' /\ RunsPaid(x)'
    BY <1>2, <1>3, <1>4 DEF Enqueues, RecordShape, RunsPaid, Open, Queued
  <1>6. TaskStep(x)
    BY <1>2, <1>3, <1>4 DEF Enqueues, TaskStep, Queued, RecordShape
  <1> QED
    BY <1>1, <1>5, <1>6, OneTaskWritten DEF Enqueues

\* enqueueTask of a submission: the only step that makes a record.
LEMMA EnqueueNewKeeps ==
  ASSUME QueueInv, NEW x \in Tasks, EnqueuesNew(x)
  PROVE  /\ QueueInv' /\ leases' = leases
         /\ \A t \in Tasks : TaskStep(t) /\ (t # x => record'[t] = record[t])
  <1> DEFINE r == [NoRecord EXCEPT !.state = "PENDING"]
  <1>1. /\ record' = [record EXCEPT ![x] = r] /\ processing' = [processing EXCEPT ![x] = "absent"]
        /\ pending' = pending \cup {x} /\ UNCHANGED <<claimed, marked, leases>>
        /\ runs' = [runs EXCEPT ![x] = 0]
    BY DEF EnqueuesNew, EnqueueScript
  <1>2. r = [state |-> "PENDING", retries |-> 0, worker |-> NoWorker, lease |-> 0]
    BY DEF NoRecord
  <1>3. r \in Records /\ MaxRetries \in Nat /\ leases \in Nat
    BY <1>2, TasksAssumption DEF Records, Open, QueueInv, QueueTypeOK
  <1>4. /\ record'[x] = r /\ processing'[x] = "absent" /\ leases' = leases /\ x \in pending'
        /\ runs'[x] = 0 /\ runs[x] \in Nat
    BY <1>1 DEF QueueInv, QueueTypeOK
  <1>5. RecordShape(x)' /\ RunsPaid(x)'
    BY <1>2, <1>3, <1>4 DEF RecordShape, RunsPaid, Open, Queued
  <1>6. TaskStep(x)
    BY <1>2, <1>3, <1>4 DEF EnqueuesNew, TaskStep
  <1> HIDE DEF r
  <1> QED
    BY <1>1, <1>3, <1>5, <1>6, OneTaskWritten

\* A deadline that passes, or is put off.
LEMMA DeadlineKeeps ==
  ASSUME QueueInv, NEW x \in Tasks,
         DeadlinePasses(x) \/ (record[x].state = "RUNNING" /\ RenewScript(x))
  PROVE  /\ QueueInv' /\ leases' = leases /\ record' = record
         /\ \A t \in Tasks : TaskStep(t)
  <1>1. PICK p \in {"valid", "expired"} :
          /\ processing' = [processing EXCEPT ![x] = p]
          /\ UNCHANGED <<record, pending, claimed, marked, leases, runs>>
    BY DEF DeadlinePasses, RenewScript
  <1>2. record[x].state # "COMPLETED"
    BY DEF DeadlinePasses, QueueInv, RecordShape
  <1>3. QueueTypeOK'
    BY <1>1 DEF QueueInv, QueueTypeOK
  <1>4. ASSUME NEW t \in Tasks
        PROVE  RecordShape(t)' /\ RunsPaid(t)' /\ TaskStep(t)
    <2>1. RecordShape(t) /\ RunsPaid(t) /\ runs[t] \in Nat /\ record' = record /\ pending' = pending
          /\ leases' = leases /\ runs' = runs
      BY <1>1 DEF QueueInv, QueueTypeOK
    <2>2. IF t = x THEN processing'[t] = p ELSE processing'[t] = processing[t]
      BY <1>1 DEF QueueInv, QueueTypeOK
    <2> QED
      BY <1>2, <2>1, <2>2 DEF RecordShape, RunsPaid, TaskStep
  <1> QED
    BY <1>1, <1>3, <1>4 DEF QueueInv

\* Steps that do not reach the tasks.
LEMMA LeavesTasksKeeps ==
  ASSUME QueueInv, LeavesTasks
  PROVE  /\ QueueInv' /\ leases' = leases /\ record' = record
         /\ \A t \in Tasks : TaskStep(t)
  <1>1. QueueTypeOK'
    BY DEF QueueInv, QueueTypeOK, LeavesTasks
  <1>2. ASSUME NEW t \in Tasks
        PROVE  RecordShape(t)' /\ RunsPaid(t)' /\ TaskStep(t)
    <2>1. RecordShape(t) /\ RunsPaid(t) /\ runs[t] \in Nat
      BY DEF QueueInv, QueueTypeOK
    <2> QED
      BY <2>1 DEF RecordShape, RunsPaid, TaskStep, LeavesTasks
  <1> QED
    BY <1>1, <1>2 DEF QueueInv, LeavesTasks

\* What every step of the queue keeps.
LEMMA QueueStepKeeps ==
  ASSUME QueueInv, QueueStep
  PROVE  /\ QueueInv' /\ leases' \in {leases, leases + 1}
         /\ \A t \in Tasks : TaskStep(t) /\ (record[t].state = "ABSENT" => record'[t] = record[t])
  BY DequeueKeeps, UpdateKeeps, EnqueueKeeps, DeadlineKeeps, LeavesTasksKeeps DEF QueueStep

-----------------------------------------------------------------------------
(* What the workers, the recovery work and the operator remember *)

\* A job knows an issued lease; while the record still carries it, the task has been
\* handed out no more often than the job's retries pay for.
JobHeld(j) ==
    /\ j.lease \in 1..leases
    /\ record[j.task].lease = j.lease =>
         runs[j.task] <= j.retries + (IF j.pc \in {"nack", "requeue"} THEN 0 ELSE 1)

WorkHeld(work) ==
    /\ work.lease \in 1..leases
    /\ work.kind = "enqueue" <=> work.state = "PENDING"
    /\ work.kind = "enqueue" /\ record[work.task].lease = work.lease =>
         runs[work.task] <= work.retries

JobsHeld ==
    /\ job \in [Workers -> Jobs \cup {NoJob}]
    /\ \A w \in Workers : job[w] # NoJob => JobHeld(job[w])

WorksHeld ==
    /\ recovery \in [Workers -> SUBSET Works]
    /\ \A w \in Workers : \A work \in recovery[w] : WorkHeld(work)

RequestHeld ==
    /\ request \in [kind : {"cancel", "retry"}, task : Tasks, rec : Records] \cup {NoRequest}
    /\ request # NoRequest => record[request.task].state # "ABSENT"

Submissions ==
    /\ submission \in [Tasks -> SubmissionStates]
    /\ faults \in [error : 0..MaxFaults, lost : 0..MaxFaults]
    /\ \A t \in Tasks : submission[t] \in {"new", "claimed"} => record[t].state = "ABSENT"
    /\ ClaimHasOwner

Lives ==
    /\ phase \in [Workers -> {"running", "stopping", "closed", "closedWithErrors"}]
    /\ flushFailed \subseteq Workers
    /\ requests \in 0..MaxRequests
    /\ crashes \in 0..MaxCrashes

IndInv == QueueInv /\ JobsHeld /\ WorksHeld /\ RequestHeld /\ Submissions /\ Lives

\* What a step does to the queue, for those who remember it.
QueueMoves ==
    /\ QueueInv' /\ leases' \in {leases, leases + 1}
    /\ \A t \in Tasks : TaskStep(t)

\* A step of a worker: a queue call with some outcome.
WorkerStep ==
    /\ QueueStep /\ claimed' = claimed
    /\ \E f \in Outcomes : Outcome(f)
    /\ Quiet

\* A failed queue call is counted.
LEMMA OutcomeCounts ==
  ASSUME faults \in [error : 0..MaxFaults, lost : 0..MaxFaults], NEW f \in Outcomes, Outcome(f)
  PROVE  /\ faults' \in [error : 0..MaxFaults, lost : 0..MaxFaults]
         /\ faults'.error + faults'.lost =
              faults.error + faults.lost + (IF f = "ok" THEN 0 ELSE 1)
         /\ faults.error + faults.lost \in Nat
  <1> USE ClusterBoundsAssumption
  <1>0. faults.error \in 0..MaxFaults /\ faults.lost \in 0..MaxFaults
    OBVIOUS
  <1>1. CASE f = "ok"
    BY <1>0, <1>1 DEF Outcome
  <1>2. CASE f = "error"
    <2>1. faults.error + faults.lost < MaxFaults /\ faults' = [faults EXCEPT !.error = @ + 1]
      BY <1>2 DEF Outcome
    <2>2. faults' = [error |-> faults.error + 1, lost |-> faults.lost]
      BY <2>1
    <2> QED
      BY <1>0, <1>2, <2>1, <2>2
  <1>3. CASE f = "lost"
    <2>1. faults.error + faults.lost < MaxFaults /\ faults' = [faults EXCEPT !.lost = @ + 1]
      BY <1>3 DEF Outcome
    <2>2. faults' = [error |-> faults.error, lost |-> faults.lost + 1]
      BY <2>1
    <2> QED
      BY <1>0, <1>3, <2>1, <2>2
  <1> QED
    BY <1>1, <1>2, <1>3 DEF Outcomes

\* What a job or a piece of work remembers stays true, whatever others do to its task.
LEMMA HeldStaysHeld ==
  ASSUME QueueInv, QueueMoves
  PROVE  /\ \A j \in Jobs : JobHeld(j) => JobHeld(j)'
         /\ \A work \in Works : WorkHeld(work) => WorkHeld(work)'
  <1>0. leases \in Nat /\ leases' \in Nat /\ leases <= leases'
    BY DEF QueueInv, QueueTypeOK, QueueMoves
  <1>1. ASSUME NEW t \in Tasks, NEW l \in 1..leases, record'[t].lease = l
        PROVE  record[t].lease = l /\ runs'[t] <= runs[t]
    BY <1>1 DEF QueueMoves, TaskStep
  <1>2. \A t \in Tasks : runs[t] \in Nat /\ runs'[t] \in Nat
    BY DEF QueueMoves, QueueInv, QueueTypeOK
  <1>3. ASSUME NEW j \in Jobs, JobHeld(j)
        PROVE  JobHeld(j)'
    <2>1. j.task \in Tasks /\ j.lease \in 1..leases /\ j.retries \in Nat
      BY <1>3 DEF Jobs, JobHeld
    <2> QED
      BY <1>0, <1>1, <1>2, <1>3, <2>1 DEF JobHeld
  <1>4. ASSUME NEW work \in Works, WorkHeld(work)
        PROVE  WorkHeld(work)'
    <2>1. work.task \in Tasks /\ work.lease \in 1..leases /\ work.retries \in Nat
      BY <1>4 DEF Works, WorkHeld
    <2> QED
      BY <1>0, <1>1, <1>2, <1>4, <2>1 DEF WorkHeld
  <1> QED
    BY <1>3, <1>4

\* The jobs, when one worker's changes.
LEMMA JobReplaced ==
  ASSUME IndInv, QueueMoves, NEW w \in Workers, NEW j \in Jobs \cup {NoJob},
         j # NoJob => JobHeld(j)', job' = [job EXCEPT ![w] = j]
  PROVE  JobsHeld'
  <1>1. job' \in [Workers -> Jobs \cup {NoJob}]
    BY DEF IndInv, JobsHeld
  <1>2. ASSUME NEW v \in Workers, job'[v] # NoJob
        PROVE  JobHeld(job[v])'
    <2>1. CASE v = w
      BY <1>2, <2>1 DEF IndInv, JobsHeld, JobHeld
    <2>2. CASE v # w
      <3>1. job'[v] = job[v] /\ job[v] \in Jobs /\ JobHeld(job[v])
        BY <1>2, <2>2 DEF IndInv, JobsHeld
      <3>2. QueueInv
        BY DEF IndInv
      <3>3. \A k \in Jobs : JobHeld(k) => JobHeld(k)'
        BY <3>2, HeldStaysHeld
      <3> QED
        BY <3>1, <3>3 DEF JobHeld
    <2> QED
      BY <2>1, <2>2
  <1> QED
    BY <1>1, <1>2 DEF JobsHeld

\* The recovery work, when one worker's changes.
LEMMA WorksReplaced ==
  ASSUME IndInv, QueueMoves, NEW w \in Workers, NEW left \in SUBSET Works,
         \A work \in left : work \in recovery[w] \/ WorkHeld(work)',
         recovery' = [recovery EXCEPT ![w] = left]
  PROVE  WorksHeld'
  <1>1. recovery' \in [Workers -> SUBSET Works]
    BY DEF IndInv, WorksHeld
  <1>2. QueueInv
    BY DEF IndInv
  <1>3. \A work \in Works : WorkHeld(work) => WorkHeld(work)'
    BY <1>2, HeldStaysHeld
  <1>4. \A v \in Workers : \A work \in recovery[v] : work \in Works /\ WorkHeld(work)
    BY DEF IndInv, WorksHeld
  <1>5. ASSUME NEW v \in Workers, NEW work \in recovery'[v]
        PROVE  WorkHeld(work)'
    <2>1. work \in recovery[v] \/ (v = w /\ work \in left)
      BY <1>5 DEF IndInv, WorksHeld
    <2>2. work \in recovery[v] \/ WorkHeld(work)'
      BY <2>1
    <2> QED
      BY <1>3, <1>4, <2>2
  <1> QED
    BY <1>1, <1>5 DEF WorksHeld

LEMMA JobsUnchanged ==
  ASSUME IndInv, QueueMoves, UNCHANGED job
  PROVE  JobsHeld'
  <1>1. QueueInv
    BY DEF IndInv
  <1>2. \A k \in Jobs : JobHeld(k) => JobHeld(k)'
    BY <1>1, HeldStaysHeld
  <1>3. ASSUME NEW v \in Workers, job'[v] # NoJob
        PROVE  JobHeld(job[v])'
    <2>1. job'[v] = job[v] /\ job[v] \in Jobs /\ JobHeld(job[v])
      BY <1>3 DEF IndInv, JobsHeld
    <2> QED
      BY <1>2, <2>1 DEF JobHeld
  <1> QED
    BY <1>3 DEF IndInv, JobsHeld

LEMMA WorksUnchanged ==
  ASSUME IndInv, QueueMoves, UNCHANGED recovery
  PROVE  WorksHeld'
  <1>1. QueueInv
    BY DEF IndInv
  <1>2. \A work \in Works : WorkHeld(work) => WorkHeld(work)'
    BY <1>1, HeldStaysHeld
  <1> QED
    BY <1>2 DEF IndInv, WorksHeld

\* What a worker does leaves submissions and requests as they are.
LEMMA WorkerStepKeeps ==
  ASSUME IndInv, WorkerStep
  PROVE  QueueMoves /\ RequestHeld' /\ Submissions'
  <1>1. /\ QueueInv' /\ leases' \in {leases, leases + 1}
        /\ \A t \in Tasks : TaskStep(t) /\ (record[t].state = "ABSENT" => record'[t] = record[t])
    BY QueueStepKeeps DEF IndInv, WorkerStep
  <1>2. PICK f \in Outcomes : Outcome(f)
    BY DEF WorkerStep
  <1>3. UNCHANGED <<submission, request, claimed>>
    BY DEF WorkerStep, Quiet, operatorVars
  <1>4. faults' \in [error : 0..MaxFaults, lost : 0..MaxFaults]
    BY <1>2, OutcomeCounts DEF IndInv, Submissions
  <1>5. RequestHeld'
    BY <1>1, <1>3 DEF IndInv, RequestHeld, TaskStep
  <1>6. ClaimHasOwner'
    BY <1>3 DEF IndInv, Submissions, ClaimHasOwner
  <1>7. ASSUME NEW t \in Tasks
        PROVE  submission'[t] \in {"new", "claimed"} => record'[t].state = "ABSENT"
    BY <1>1, <1>3 DEF IndInv, Submissions
  <1> QED
    BY <1>1, <1>3, <1>4, <1>5, <1>6, <1>7 DEF QueueMoves, IndInv, Submissions

-----------------------------------------------------------------------------
(* The workers *)

LEMMA WrittenRecord ==
  ASSUME NEW w \in Workers, NEW j \in Jobs \cup Works,
         NEW state \in {"COMPLETED", "FAILED", "RETRYING", "PENDING"}
  PROVE  /\ Written(w, j, state) \in Records
         /\ Written(w, j, state).state = state
         /\ Written(w, j, state).lease = j.lease
         /\ Written(w, j, state).retries = j.retries /\ j.retries <= MaxRetries
         /\ j.task \in Tasks
  <1>1. j.retries \in 0..MaxRetries /\ j.lease \in Nat /\ j.task \in Tasks
    BY DEF Jobs, Works
  <1> QED
    BY <1>1, TasksAssumption DEF Written, Records, Open, Terminal

\* updateTask of a worker.
LEMMA WorkerUpdates ==
  ASSUME IndInv, NEW t \in Tasks, NEW r \in Records, NEW f \in Outcomes, UpdateTask(t, r, f),
         r.lease # 0, r.state \in {"COMPLETED", "FAILED", "RETRYING"},
         r.state = "RETRYING" /\ record[t].lease = r.lease =>
           r.retries <= MaxRetries /\ runs[t] <= r.retries
  PROVE  QueueStep /\ claimed' = claimed /\ \E g \in Outcomes : Outcome(g)
  <1>1. CASE f # "error" /\ UpdateAccepted(t, r)
    <2>1. UpdateScript(t, r) /\ record[t].lease = r.lease
      BY <1>1 DEF UpdateTask, UpdateAccepted
    <2>2. record[t].state # "ABSENT"
      BY <2>1 DEF IndInv, QueueInv, RecordShape, NoRecord
    <2>3. Updates(t, r)
      BY <1>1, <2>1, <2>2 DEF Updates
    <2> QED
      BY <2>1, <2>3 DEF QueueStep, UpdateTask, UpdateScript
  <1>2. CASE ~(f # "error" /\ UpdateAccepted(t, r))
    BY <1>2 DEF UpdateTask, queueVars, QueueStep, LeavesTasks, IndInv, QueueInv, QueueTypeOK
  <1> QED
    BY <1>1, <1>2

\* enqueueTask of a worker.
LEMMA WorkerEnqueues ==
  ASSUME IndInv, NEW t \in Tasks, NEW r \in Records, NEW f \in Outcomes, EnqueueTask(t, r, f),
         r.lease # 0, r.state = "PENDING", r.retries <= MaxRetries,
         record[t].lease = r.lease => runs[t] <= r.retries
  PROVE  QueueStep /\ claimed' = claimed /\ \E g \in Outcomes : Outcome(g)
  <1>1. CASE f # "error" /\ EnqueueAccepted(t, r)
    <2>1. EnqueueScript(t, r) /\ UNCHANGED runs /\ record[t].lease = r.lease
      BY <1>1 DEF EnqueueTask, EnqueueAccepted
    <2>2. record[t].state # "ABSENT"
      BY <2>1 DEF IndInv, QueueInv, RecordShape, NoRecord
    <2>3. Enqueues(t, r)
      BY <1>1, <2>1, <2>2 DEF Enqueues, Queued
    <2> QED
      BY <2>1, <2>3 DEF QueueStep, EnqueueTask, EnqueueScript
  <1>2. CASE ~(f # "error" /\ EnqueueAccepted(t, r))
    BY <1>2 DEF EnqueueTask, queueVars, QueueStep, LeavesTasks, IndInv, QueueInv, QueueTypeOK
  <1> QED
    BY <1>1, <1>2

\* markUrlSeen.
LEMMA WorkerMarks ==
  ASSUME IndInv, NEW t \in Tasks, NEW f \in Outcomes, MarkUrlSeen(t, f)
  PROVE  QueueStep /\ claimed' = claimed /\ \E g \in Outcomes : Outcome(g)
  BY TasksAssumption DEF MarkUrlSeen, QueueStep, LeavesTasks, IndInv, QueueInv, QueueTypeOK

LEMMA QueueUntouched ==
  ASSUME IndInv, UNCHANGED queueVars, UNCHANGED faults
  PROVE  QueueStep /\ claimed' = claimed /\ \E g \in Outcomes : Outcome(g)
  BY DEF queueVars, QueueStep, LeavesTasks, IndInv, QueueInv, QueueTypeOK, Outcome, Outcomes

\* scheduleRecovery of a job.
LEMMA RecoverKeeps ==
  ASSUME IndInv, QueueMoves, NEW w \in Workers, job[w] \in Jobs, JobHeld(job[w]),
         NEW kind \in {"enqueue", "persist"}, NEW state \in {"PENDING", "COMPLETED", "FAILED"},
         kind = "enqueue" <=> state = "PENDING",
         kind = "enqueue" => job[w].pc \in {"nack", "requeue"},
         Recover(w, kind, state)
  PROVE  JobsHeld' /\ WorksHeld'
  <1> DEFINE work == Work(job[w], kind, state)
  <1>1. JobsHeld'
    BY JobReplaced DEF Recover, SetJob
  <1>2. PICK j \in Jobs : j = job[w]
    OBVIOUS
  <1>3. JobHeld(j)'
    <2>1. QueueInv
      BY DEF IndInv
    <2> QED
      BY <1>2, <2>1, HeldStaysHeld
  <1>4. j.task \in Tasks /\ j.lease \in Nat /\ j.retries \in 0..MaxRetries
    BY DEF Jobs
  <1>5. work = [kind |-> kind, state |-> state, task |-> j.task, lease |-> j.lease,
                retries |-> j.retries]
    BY <1>2 DEF Work
  <1>6. PICK v \in Works : v = work
    BY <1>4, <1>5 DEF Works
  <1>7. WorkHeld(v)'
    <2>1. runs'[j.task] \in Nat
      BY <1>4 DEF QueueMoves, QueueInv, QueueTypeOK
    <2> QED
      BY <1>2, <1>3, <1>4, <1>5, <1>6, <2>1 DEF WorkHeld, JobHeld
  <1> DEFINE left == recovery[w] \cup {v}
  <1>8. /\ recovery' = [recovery EXCEPT ![w] = left] /\ left \in SUBSET Works
        /\ \A u \in left : u \in recovery[w] \/ u = v
    BY <1>6 DEF Recover, IndInv, WorksHeld
  <1> HIDE DEF left
  <1>9. WorksHeld'
    <2>1. ASSUME NEW u \in left
          PROVE  u \in recovery[w] \/ WorkHeld(u)'
      BY <1>7, <1>8
    <2> QED
      BY <1>8, <2>1, WorksReplaced
  <1> QED
    BY <1>1, <1>9

\* A job that only moves on within its worker.
LEMMA JobAdvances ==
  ASSUME IndInv, QueueMoves, NEW w \in Workers, NEW j \in Jobs, JobHeld(j),
         SetJob(w, j), UNCHANGED recovery
  PROVE  JobsHeld' /\ WorksHeld'
  <1>1. JobHeld(j)'
    <2>1. QueueInv
      BY DEF IndInv
    <2> QED
      BY <2>1, HeldStaysHeld
  <1> QED
    BY <1>1, JobReplaced, WorksUnchanged DEF SetJob

LEMMA JobEnds ==
  ASSUME IndInv, QueueMoves, NEW w \in Workers, SetJob(w, NoJob), UNCHANGED recovery
  PROVE  JobsHeld' /\ WorksHeld'
  BY JobReplaced, WorksUnchanged DEF SetJob

\* A worker with a job, and what its changes of step leave of it.
LEMMA JobInHand ==
  ASSUME IndInv, NEW w \in Workers, job[w].pc \in Pcs
  PROVE  /\ job[w] \in Jobs /\ JobHeld(job[w]) /\ job[w].lease # 0
         /\ job[w].task \in Tasks /\ job[w].retries \in 0..MaxRetries
         /\ \A pc \in Pcs : (pc \in {"nack", "requeue"} <=> job[w].pc \in {"nack", "requeue"}) =>
              [job[w] EXCEPT !.pc = pc] \in Jobs /\ JobHeld([job[w] EXCEPT !.pc = pc])
  <1>1. job[w] \in Jobs
    BY DEF IndInv, JobsHeld, NoJob, Pcs
  <1>2. JobHeld(job[w])
    BY <1>1 DEF IndInv, JobsHeld, Jobs, NoJob, Pcs
  <1>3. job[w].task \in Tasks /\ job[w].retries \in 0..MaxRetries /\ job[w].lease \in Nat
    BY <1>1 DEF Jobs
  <1>4. ASSUME NEW pc \in Pcs, pc \in {"nack", "requeue"} <=> job[w].pc \in {"nack", "requeue"}
        PROVE  [job[w] EXCEPT !.pc = pc] \in Jobs /\ JobHeld([job[w] EXCEPT !.pc = pc])
    <2>1. [job[w] EXCEPT !.pc = pc] = [pc |-> pc, task |-> job[w].task, lease |-> job[w].lease,
                                       retries |-> job[w].retries]
      BY <1>1 DEF Jobs
    <2> QED
      BY <1>2, <1>3, <1>4, <2>1 DEF Jobs, JobHeld
  <1> QED
    BY <1>1, <1>2, <1>3, <1>4 DEF JobHeld

\* dequeueTask: the job's lease is the one just issued.
LEMMA DequeueStep ==
  ASSUME IndInv, NEW w \in Workers, NEW f \in Outcomes, Dequeue(w, f)
  PROVE  WorkerStep /\ JobsHeld' /\ WorksHeld' /\ Lives'
  <1>1. WorkerStep
    BY DEF Dequeue, WorkerStep, QueueStep, DequeueScript
  <1>2. QueueMoves
    BY <1>1, WorkerStepKeeps
  <1>3. Lives' /\ UNCHANGED recovery
    BY DEF Dequeue, IndInv, Lives, Quiet, operatorVars
  <1>4. WorksHeld'
    BY <1>2, <1>3, WorksUnchanged
  <1>5. CASE f = "ok" /\ leases' # leases
    <2>1. PICK t \in Tasks :
            /\ record'[t].lease = leases'
            /\ SetJob(w, [pc |-> "claiming", task |-> t, lease |-> leases',
                          retries |-> record'[t].retries])
      BY <1>5 DEF Dequeue
    <2>2. record'[t].state = "RUNNING"
      <3>1. QueueInv /\ DequeueScript(w)
        BY DEF IndInv, Dequeue
      <3> QED
        BY <1>5, <2>1, <3>1, DequeueKeeps
    <2>3. /\ record'[t].retries \in 0..MaxRetries /\ leases' \in Nat /\ leases' # 0
          /\ runs'[t] \in Nat /\ runs'[t] <= record'[t].retries + 1
      BY <1>2, <1>5, <2>1, <2>2, TasksAssumption
         DEF QueueMoves, QueueInv, QueueTypeOK, RecordShape, RunsPaid, Records, Open, IndInv
    <2> DEFINE j == [pc |-> "claiming", task |-> t, lease |-> leases',
                     retries |-> record'[t].retries]
    <2>4. PICK k \in Jobs : k = j
      BY <2>3 DEF Jobs, Pcs
    <2>5. JobHeld(k)'
      BY <2>3, <2>4 DEF JobHeld
    <2>6. job' = [job EXCEPT ![w] = k]
      BY <2>1, <2>4 DEF SetJob
    <2>7. JobsHeld'
      BY <1>2, <2>5, <2>6, JobReplaced
    <2> QED
      BY <1>1, <1>3, <1>4, <2>7
  <1>6. CASE ~(f = "ok" /\ leases' # leases)
    <2>1. UNCHANGED job
      BY <1>6 DEF Dequeue
    <2> QED
      BY <1>1, <1>2, <1>3, <1>4, <2>1, JobsUnchanged
  <1> QED
    BY <1>5, <1>6

\* The steps of an execution that do not call the queue.
LEMMA ExecutionStep ==
  ASSUME IndInv, NEW w \in Workers, JobStarts(w) \/ JobSucceeds(w) \/ JobFails(w)
  PROVE  WorkerStep /\ JobsHeld' /\ WorksHeld' /\ Lives'
  <1>1. WorkerStep
    BY QueueUntouched DEF JobStarts, JobSucceeds, JobFails, WorkerStep
  <1>2. QueueMoves
    BY <1>1, WorkerStepKeeps
  <1>3. Lives' /\ UNCHANGED recovery
    BY DEF JobStarts, JobSucceeds, JobFails, IndInv, Lives, Quiet, operatorVars
  <1>4. job[w].pc \in {"claiming", "running"} /\ job[w].pc \in Pcs
    BY DEF JobStarts, JobSucceeds, JobFails, Pcs
  <1>5. /\ job[w] \in Jobs /\ JobHeld(job[w])
        /\ job[w].task \in Tasks /\ job[w].retries \in 0..MaxRetries
        /\ \A pc \in Pcs \ {"nack", "requeue"} :
             [job[w] EXCEPT !.pc = pc] \in Jobs /\ JobHeld([job[w] EXCEPT !.pc = pc])
    BY <1>4, JobInHand
  <1>6. CASE JobFails(w) /\ job[w].retries < MaxRetries
    <2> DEFINE j == [job[w] EXCEPT !.pc = "nack", !.retries = @ + 1]
    <2>1. j = [pc |-> "nack", task |-> job[w].task, lease |-> job[w].lease,
               retries |-> job[w].retries + 1]
      <3>1. PICK n \in Nat : n = job[w].retries + 1
        BY <1>5
      <3>2. j = [job[w] EXCEPT !.pc = "nack", !.retries = n]
        BY <1>5, <3>1 DEF Jobs
      <3> HIDE DEF j
      <3> QED
        BY <1>5, <3>1, <3>2 DEF Jobs
    <2>2. job[w].retries + 1 \in 0..MaxRetries /\ job[w].lease \in Nat /\ job[w].retries \in Nat
      BY <1>5, <1>6, TasksAssumption DEF Jobs
    <2>3. j \in Jobs
      BY <1>5, <2>1, <2>2 DEF Jobs, Pcs
    <2>4. JobHeld(j)
      BY <1>4, <1>5, <2>1, <2>2 DEF JobHeld, IndInv, QueueInv, QueueTypeOK
    <2>5. SetJob(w, j)
      BY <1>6 DEF JobFails
    <2> HIDE DEF j
    <2> QED
      BY <1>1, <1>2, <1>3, <2>3, <2>4, <2>5, JobAdvances
  <1>7. CASE ~(JobFails(w) /\ job[w].retries < MaxRetries)
    <2>1. PICK pc \in {"running", "complete", "fail"} : SetJob(w, [job[w] EXCEPT !.pc = pc])
      BY <1>7 DEF JobStarts, JobSucceeds, JobFails
    <2>2. pc \in Pcs \ {"nack", "requeue"}
      BY DEF Pcs
    <2> QED
      BY <1>1, <1>2, <1>3, <1>5, <2>1, <2>2, JobAdvances
  <1> QED
    BY <1>6, <1>7

\* persistTask of a result.
LEMMA PersistResultStep ==
  ASSUME IndInv, NEW w \in Workers, NEW f \in Outcomes, PersistResult(w, f)
  PROVE  WorkerStep /\ JobsHeld' /\ WorksHeld' /\ Lives'
  <1> DEFINE j == job[w]
             state == IF j.pc = "complete" THEN "COMPLETED" ELSE "FAILED"
             r == Written(w, j, state)
  <1>1. j.pc \in {"complete", "fail"} /\ j.pc \in Pcs /\ UpdateTask(j.task, r, f) /\ Quiet
    BY DEF PersistResult, Pcs
  <1>2. /\ j \in Jobs /\ JobHeld(j) /\ j.lease # 0 /\ j.task \in Tasks
        /\ [j EXCEPT !.pc = "mark"] \in Jobs /\ JobHeld([j EXCEPT !.pc = "mark"])
    BY <1>1, JobInHand DEF Pcs
  <1>3. state \in {"COMPLETED", "FAILED"}
    OBVIOUS
  <1>4. r \in Records /\ r.state = state /\ r.lease = j.lease
    BY <1>2, <1>3, WrittenRecord
  <1>5. WorkerStep
    <2> HIDE DEF r, state, j
    <2>1. QueueStep /\ claimed' = claimed /\ \E g \in Outcomes : Outcome(g)
      BY <1>1, <1>2, <1>3, <1>4, WorkerUpdates
    <2> QED
      BY <1>1, <2>1 DEF WorkerStep
  <1>6. QueueMoves
    BY <1>5, WorkerStepKeeps
  <1>7. Lives'
    BY DEF PersistResult, IndInv, Lives, Quiet, operatorVars
  <1>8. CASE f # "ok"
    <2>1. Recover(w, "persist", state)
      BY <1>8 DEF PersistResult
    <2> HIDE DEF state
    <2> QED
      BY <1>2, <1>3, <1>5, <1>6, <1>7, <2>1, RecoverKeeps
  <1>9. CASE f = "ok"
    <2>1. /\ SetJob(w, [j EXCEPT !.pc = "mark"]) \/ SetJob(w, NoJob)
          /\ UNCHANGED recovery
      BY <1>9 DEF PersistResult
    <2> QED
      BY <1>2, <1>5, <1>6, <1>7, <2>1, JobAdvances, JobEnds
  <1> QED
    BY <1>8, <1>9

\* The URL mark of a completed task.
LEMMA PersistMarkStep ==
  ASSUME IndInv, NEW w \in Workers, NEW f \in Outcomes, PersistMark(w, f)
  PROVE  WorkerStep /\ JobsHeld' /\ WorksHeld' /\ Lives'
  <1>1. job[w].pc = "mark" /\ job[w].pc \in Pcs /\ MarkUrlSeen(job[w].task, f) /\ Quiet
    BY DEF PersistMark, Pcs
  <1>2. job[w] \in Jobs /\ JobHeld(job[w]) /\ job[w].task \in Tasks
    BY <1>1, JobInHand
  <1>3. WorkerStep
    BY <1>1, <1>2, WorkerMarks DEF WorkerStep
  <1>4. QueueMoves
    BY <1>3, WorkerStepKeeps
  <1>5. Lives'
    BY DEF PersistMark, IndInv, Lives, Quiet, operatorVars
  <1>6. Recover(w, "persist", "COMPLETED") \/ (SetJob(w, NoJob) /\ UNCHANGED recovery)
    BY DEF PersistMark
  <1> QED
    BY <1>2, <1>3, <1>4, <1>5, <1>6, RecoverKeeps, JobEnds

\* The RETRYING status write: what the job has paid for is what it writes.
LEMMA PersistRetryStep ==
  ASSUME IndInv, NEW w \in Workers, NEW f \in Outcomes, PersistRetry(w, f)
  PROVE  WorkerStep /\ JobsHeld' /\ WorksHeld' /\ Lives'
  <1> DEFINE j == job[w]
             r == Written(w, j, "RETRYING")
  <1>1. j.pc = "nack" /\ j.pc \in Pcs /\ UpdateTask(j.task, r, f) /\ Quiet
    BY DEF PersistRetry, Pcs
  <1>2. /\ j \in Jobs /\ JobHeld(j) /\ j.lease # 0 /\ j.task \in Tasks /\ j.retries \in 0..MaxRetries
        /\ [j EXCEPT !.pc = "requeue"] \in Jobs /\ JobHeld([j EXCEPT !.pc = "requeue"])
    BY <1>1, JobInHand DEF Pcs
  <1>3. r \in Records /\ r.state = "RETRYING" /\ r.lease = j.lease /\ r.retries = j.retries
        /\ r.retries <= MaxRetries
    BY <1>2, WrittenRecord
  <1>4. record[j.task].lease = r.lease => runs[j.task] <= r.retries
    BY <1>1, <1>2, <1>3 DEF JobHeld
  <1>5. WorkerStep
    <2> HIDE DEF r, j
    <2>1. QueueStep /\ claimed' = claimed /\ \E g \in Outcomes : Outcome(g)
      BY <1>1, <1>2, <1>3, <1>4, WorkerUpdates
    <2> QED
      BY <1>1, <2>1 DEF WorkerStep
  <1>6. QueueMoves
    BY <1>5, WorkerStepKeeps
  <1>7. Lives'
    BY DEF PersistRetry, IndInv, Lives, Quiet, operatorVars
  <1>8. \/ SetJob(w, NoJob) /\ UNCHANGED recovery
        \/ Recover(w, "enqueue", "PENDING")
        \/ SetJob(w, [j EXCEPT !.pc = "requeue"]) /\ UNCHANGED recovery
    BY DEF PersistRetry
  <1>9. CASE Recover(w, "enqueue", "PENDING")
    BY <1>1, <1>2, <1>5, <1>6, <1>7, <1>9, RecoverKeeps
  <1>10. CASE SetJob(w, [j EXCEPT !.pc = "requeue"]) /\ UNCHANGED recovery
    BY <1>2, <1>5, <1>6, <1>7, <1>10, JobAdvances
  <1>11. CASE SetJob(w, NoJob) /\ UNCHANGED recovery
    BY <1>5, <1>6, <1>7, <1>11, JobEnds
  <1> QED
    BY <1>8, <1>9, <1>10, <1>11

\* requeueTask while stopping.
LEMMA RequeueStep ==
  ASSUME IndInv, NEW w \in Workers, NEW f \in Outcomes, Requeue(w, f)
  PROVE  WorkerStep /\ JobsHeld' /\ WorksHeld' /\ Lives'
  <1> DEFINE j == job[w]
             r == Written(w, j, "PENDING")
  <1>1. j.pc = "requeue" /\ j.pc \in Pcs /\ EnqueueTask(j.task, r, f) /\ Quiet
    BY DEF Requeue, Pcs
  <1>2. j \in Jobs /\ JobHeld(j) /\ j.lease # 0 /\ j.task \in Tasks /\ j.retries \in 0..MaxRetries
    BY <1>1, JobInHand
  <1>3. r \in Records /\ r.state = "PENDING" /\ r.lease = j.lease /\ r.retries = j.retries
        /\ r.retries <= MaxRetries
    BY <1>2, WrittenRecord
  <1>4. record[j.task].lease = r.lease => runs[j.task] <= r.retries
    BY <1>1, <1>2, <1>3 DEF JobHeld
  <1>5. WorkerStep
    <2> HIDE DEF r, j
    <2>1. QueueStep /\ claimed' = claimed /\ \E g \in Outcomes : Outcome(g)
      BY <1>1, <1>2, <1>3, <1>4, WorkerEnqueues
    <2> QED
      BY <1>1, <2>1 DEF WorkerStep
  <1>6. QueueMoves
    BY <1>5, WorkerStepKeeps
  <1>7. Lives'
    BY DEF Requeue, IndInv, Lives, Quiet, operatorVars
  <1>8. Recover(w, "enqueue", "PENDING") \/ (SetJob(w, NoJob) /\ UNCHANGED recovery)
    BY DEF Requeue
  <1> QED
    BY <1>1, <1>2, <1>5, <1>6, <1>7, <1>8, RecoverKeeps, JobEnds

\* startLeaseRenewal.
LEMMA RenewLeaseStep ==
  ASSUME IndInv, NEW w \in Workers, RenewLease(w)
  PROVE  WorkerStep /\ JobsHeld' /\ WorksHeld' /\ Lives'
  <1>1. job[w].task \in Tasks
    BY JobInHand DEF RenewLease, Pcs
  <1>2. WorkerStep
    BY <1>1 DEF RenewLease, RenewAccepted, RenewScript, WorkerStep, QueueStep, Outcome, Outcomes
  <1>3. QueueMoves
    BY <1>2, WorkerStepKeeps
  <1>4. Lives' /\ UNCHANGED <<job, recovery>>
    BY DEF RenewLease, workerVars, IndInv, Lives, Quiet, operatorVars
  <1> QED
    BY <1>2, <1>3, <1>4, JobsUnchanged, WorksUnchanged

\* An attempt at a piece of recovery work leaves it, drops it or moves it on.
LEMMA RecoveryLeft ==
  ASSUME IndInv, QueueMoves, NEW w \in Workers, NEW work \in recovery[w], Lives, UNCHANGED phase,
         UNCHANGED crashes, UNCHANGED requests,
         \/ AttemptFails(w, work)
         \/ WorkDone(w, work)
         \/ /\ work.kind = "persist"
            /\ recovery' = [recovery EXCEPT ![w] =
                              (@ \ {work}) \cup {[work EXCEPT !.kind = "marking"]}]
            /\ UNCHANGED flushFailed
  PROVE  WorksHeld' /\ Lives'
  <1>1. /\ recovery[w] \in SUBSET Works /\ work \in Works /\ WorkHeld(work)
        /\ recovery \in [Workers -> SUBSET Works]
    BY DEF IndInv, WorksHeld
  <1>2. Lives'
    BY DEF AttemptFails, WorkDone, Lives
  <1>3. \/ recovery' = [recovery EXCEPT ![w] = recovery[w] \ {work}]
        \/ \E kind \in {work.kind, "persist", "marking"} :
             /\ kind = work.kind \/ work.kind \in {"persist", "marking"}
             /\ recovery' = [recovery EXCEPT ![w] =
                               (recovery[w] \ {work}) \cup {[work EXCEPT !.kind = kind]}]
    BY <1>1 DEF AttemptFails, WorkDone
  <1>4. CASE recovery' = [recovery EXCEPT ![w] = recovery[w] \ {work}]
    <2> DEFINE left == recovery[w] \ {work}
    <2>1. left \in SUBSET Works /\ \A u \in left : u \in recovery[w] \/ WorkHeld(u)'
      BY <1>1
    <2> QED
      BY <1>2, <1>4, <2>1, WorksReplaced
  <1>5. ASSUME NEW kind \in {work.kind, "persist", "marking"},
               kind = work.kind \/ work.kind \in {"persist", "marking"},
               recovery' = [recovery EXCEPT ![w] =
                              (recovery[w] \ {work}) \cup {[work EXCEPT !.kind = kind]}]
        PROVE  WorksHeld'
    <2>1. [work EXCEPT !.kind = kind] = [kind |-> kind, state |-> work.state, task |-> work.task,
                                         lease |-> work.lease, retries |-> work.retries]
      BY <1>1 DEF Works
    <2>2. PICK v \in Works : v = [work EXCEPT !.kind = kind]
      BY <1>1, <1>5, <2>1 DEF Works
    <2>3. WorkHeld(v)
      BY <1>1, <1>5, <2>1, <2>2 DEF WorkHeld, Works
    <2>4. WorkHeld(v)'
      <3>1. QueueInv
        BY DEF IndInv
      <3> QED
        BY <2>3, <3>1, HeldStaysHeld
    <2> DEFINE left == (recovery[w] \ {work}) \cup {v}
    <2>5. left \in SUBSET Works /\ \A u \in left : u \in recovery[w] \/ u = v
      BY <1>1
    <2>6. recovery' = [recovery EXCEPT ![w] = left]
      BY <1>5, <2>2
    <2> HIDE DEF left
    <2>7. ASSUME NEW u \in left
          PROVE  u \in recovery[w] \/ WorkHeld(u)'
      BY <2>4, <2>5
    <2> QED
      BY <2>5, <2>6, <2>7, WorksReplaced
  <1> QED
    BY <1>2, <1>3, <1>4, <1>5

\* flushRecovery.
LEMMA RecoveryStep ==
  ASSUME IndInv, NEW w \in Workers, NEW work \in recovery[w], NEW f \in Outcomes,
         RecoveryRuns(w, work, f)
  PROVE  WorkerStep /\ JobsHeld' /\ WorksHeld' /\ Lives'
  <1> DEFINE r == Written(w, work, work.state)
  <1>1. /\ work \in Works /\ WorkHeld(work) /\ work.task \in Tasks /\ work.lease # 0
        /\ work.kind \in {"enqueue", "persist", "marking"}
        /\ work.state \in {"PENDING", "COMPLETED", "FAILED"}
    BY DEF IndInv, WorksHeld, Works, WorkHeld
  <1>2. r \in Records /\ r.state = work.state /\ r.lease = work.lease /\ r.retries = work.retries
        /\ r.retries <= MaxRetries
    BY <1>1, WrittenRecord
  <1>3. UNCHANGED <<job, phase, crashes>> /\ Quiet
    BY DEF RecoveryRuns
  <1>4. QueueStep /\ claimed' = claimed /\ \E g \in Outcomes : Outcome(g)
    <2>1. CASE work.kind = "enqueue"
      <3>1. EnqueueTask(work.task, r, f)
        BY <2>1 DEF RecoveryRuns
      <3>2. record[work.task].lease = r.lease => runs[work.task] <= r.retries
        BY <1>1, <1>2, <2>1 DEF WorkHeld
      <3>3. r.state = "PENDING" /\ r.lease # 0
        BY <1>1, <1>2, <2>1 DEF WorkHeld
      <3> HIDE DEF r
      <3> QED
        BY <1>1, <1>2, <3>1, <3>2, <3>3, WorkerEnqueues
    <2>2. CASE work.kind = "persist"
      <3>1. UpdateTask(work.task, r, f)
        BY <2>2 DEF RecoveryRuns
      <3>2. r.state \in {"COMPLETED", "FAILED"} /\ r.lease # 0
        BY <1>1, <1>2, <2>2 DEF WorkHeld
      <3> HIDE DEF r
      <3> QED
        BY <1>1, <1>2, <3>1, <3>2, WorkerUpdates
    <2>3. CASE work.kind = "marking"
      <3>1. MarkUrlSeen(work.task, f)
        BY <2>3 DEF RecoveryRuns
      <3> QED
        BY <1>1, <3>1, WorkerMarks
    <2> QED
      BY <1>1, <2>1, <2>2, <2>3
  <1>5. WorkerStep
    BY <1>3, <1>4 DEF WorkerStep
  <1>6. QueueMoves
    BY <1>5, WorkerStepKeeps
  <1>7. JobsHeld'
    BY <1>3, <1>6, JobsUnchanged
  <1>8. WorksHeld' /\ Lives'
    <2>1. Lives /\ UNCHANGED requests
      BY <1>3 DEF IndInv, Quiet, operatorVars
    <2>2. \/ AttemptFails(w, work)
          \/ WorkDone(w, work)
          \/ /\ work.kind = "persist"
             /\ recovery' = [recovery EXCEPT ![w] =
                               (@ \ {work}) \cup {[work EXCEPT !.kind = "marking"]}]
             /\ UNCHANGED flushFailed
      BY DEF RecoveryRuns
    <2> QED
      BY <1>3, <1>6, <2>1, <2>2, RecoveryLeft
  <1> QED
    BY <1>5, <1>7, <1>8

\* stop and crash.
LEMMA LifeStep ==
  ASSUME IndInv, NEW w \in Workers, StopWorker(w) \/ CloseWorker(w) \/ WorkerCrashes(w)
  PROVE  WorkerStep /\ JobsHeld' /\ WorksHeld' /\ Lives'
  <1>1. WorkerStep
    BY QueueUntouched DEF StopWorker, CloseWorker, WorkerCrashes, WorkerStep
  <1>2. QueueMoves
    BY <1>1, WorkerStepKeeps
  <1>3. CASE StopWorker(w)
    <2>1. Lives' /\ UNCHANGED <<job, recovery>>
      BY <1>3 DEF StopWorker, IndInv, Lives, Quiet, operatorVars
    <2> QED
      BY <1>1, <1>2, <2>1, JobsUnchanged, WorksUnchanged
  <1>4. CASE CloseWorker(w)
    <2>1. Lives' /\ SetJob(w, NoJob) /\ UNCHANGED recovery
      BY <1>4 DEF CloseWorker, IndInv, Lives, Quiet, operatorVars
    <2> QED
      BY <1>1, <1>2, <2>1, JobEnds
  <1>5. CASE WorkerCrashes(w)
    <2>1. Lives' /\ job' = [job EXCEPT ![w] = NoJob] /\ recovery' = [recovery EXCEPT ![w] = {}]
      BY <1>5, ClusterBoundsAssumption
         DEF WorkerCrashes, SetJob, IndInv, Lives, Quiet, operatorVars
    <2>2. JobsHeld'
      BY <1>2, <2>1, JobReplaced
    <2>3. WorksHeld'
      <3>1. PICK left \in SUBSET Works : left = {}
        OBVIOUS
      <3>2. recovery' = [recovery EXCEPT ![w] = left] /\ \A u \in left : FALSE
        BY <2>1, <3>1
      <3> QED
        BY <1>2, <3>2, WorksReplaced
    <2> QED
      BY <1>1, <2>1, <2>2, <2>3
  <1> QED
    BY <1>3, <1>4, <1>5

-----------------------------------------------------------------------------
(* Submissions, deadlines and the operator *)

\* Steps that keep the jobs and the recovery work only have to keep the queue.
LEMMA BystandersKeep ==
  ASSUME IndInv, QueueMoves, UNCHANGED workerVars, UNCHANGED requests
  PROVE  JobsHeld' /\ WorksHeld' /\ Lives'
  <1>1. UNCHANGED <<job, recovery, phase, flushFailed, crashes>>
    BY DEF workerVars
  <1> QED
    BY <1>1, JobsUnchanged, WorksUnchanged DEF IndInv, Lives

LEMMA ClaimUrlStep ==
  ASSUME IndInv, NEW t \in Tasks, NEW f \in Outcomes, ClaimUrl(t, f)
  PROVE  IndInv' /\ \A u \in Tasks : TaskStep(u)
  <1>0. /\ submission[t] = "new" /\ Outcome(f)
        /\ f = "ok" \/ f = "error" \/ f = "lost"
        /\ claimed' = IF f = "error" THEN claimed ELSE claimed \cup {UrlOf[t]}
        /\ submission' = [submission EXCEPT ![t] =
              IF f = "ok" THEN "claimed" ELSE IF f = "error" THEN "failed" ELSE "unanswered"]
        /\ UNCHANGED <<workerVars, operatorVars>>
    BY DEF ClaimUrl, Outcomes
  <1>1. LeavesTasks /\ record' = record
    BY <1>0, TasksAssumption DEF ClaimUrl, LeavesTasks, IndInv, QueueInv, QueueTypeOK
  <1>2. QueueMoves
    BY <1>1, LeavesTasksKeeps DEF IndInv, QueueMoves
  <1>3. JobsHeld' /\ WorksHeld' /\ Lives'
    BY <1>0, <1>2, BystandersKeep DEF operatorVars
  <1>4. RequestHeld'
    BY <1>0, <1>1 DEF operatorVars, IndInv, RequestHeld
  <1>5. faults' \in [error : 0..MaxFaults, lost : 0..MaxFaults]
    BY <1>0, OutcomeCounts DEF IndInv, Submissions
  <1>6. /\ submission' \in [Tasks -> SubmissionStates]
        /\ \A u \in Tasks : u # t => submission'[u] = submission[u]
        /\ f # "error" => submission'[t] \in {"claimed", "unanswered"}
    BY <1>0 DEF IndInv, Submissions, SubmissionStates
  <1>7. ClaimHasOwner'
    <2>1. SUFFICES ASSUME NEW url \in claimed'
                   PROVE  \E u \in Tasks : /\ UrlOf[u] = url
                                          /\ submission'[u] \in {"claimed", "queued", "releasing",
                                                                "unanswered", "unreleased"}
      BY DEF ClaimHasOwner
    <2>2. CASE url \in claimed
      <3>1. PICK u \in Tasks : /\ UrlOf[u] = url
                              /\ submission[u] \in {"claimed", "queued", "releasing",
                                                   "unanswered", "unreleased"}
        BY <2>2 DEF IndInv, Submissions, ClaimHasOwner
      <3> QED
        BY <1>0, <1>6, <3>1
    <2>3. CASE url \notin claimed
      <3>1. f # "error" /\ url = UrlOf[t]
        BY <1>0, <2>1, <2>3
      <3> QED
        BY <1>6, <3>1
    <2> QED
      BY <2>2, <2>3
  <1>8. ASSUME NEW u \in Tasks
        PROVE  submission'[u] \in {"new", "claimed"} => record'[u].state = "ABSENT"
    BY <1>0, <1>1, <1>6 DEF IndInv, Submissions
  <1> QED
    BY <1>2, <1>3, <1>4, <1>5, <1>6, <1>7, <1>8 DEF IndInv, QueueMoves, Submissions

LEMMA EnqueueNewStep ==
  ASSUME IndInv, NEW t \in Tasks, NEW f \in Outcomes, EnqueueNew(t, f)
  PROVE  IndInv' /\ \A u \in Tasks : TaskStep(u)
  <1>0. /\ submission[t] = "claimed" /\ record[t].state = "ABSENT" /\ Outcome(f)
        /\ submission' = [submission EXCEPT ![t] = IF f = "ok" THEN "queued" ELSE "releasing"]
        /\ UNCHANGED <<workerVars, operatorVars>>
    BY DEF EnqueueNew, IndInv, Submissions
  <1>1. /\ QueueInv' /\ leases' = leases /\ claimed' = claimed
        /\ \A u \in Tasks : TaskStep(u) /\ (u # t => record'[u] = record[u])
    <2>1. CASE f = "error"
      <3>1. LeavesTasks /\ UNCHANGED <<record, claimed>>
        BY <2>1 DEF EnqueueNew, queueVars, LeavesTasks, IndInv, QueueInv, QueueTypeOK
      <3> QED
        BY <3>1, LeavesTasksKeeps DEF IndInv
    <2>2. CASE f # "error"
      <3>1. EnqueuesNew(t) /\ claimed' = claimed
        BY <1>0, <2>2 DEF EnqueueNew, EnqueuesNew, EnqueueScript
      <3> QED
        BY <3>1, EnqueueNewKeeps DEF IndInv
    <2> QED
      BY <2>1, <2>2
  <1>2. QueueMoves
    BY <1>1 DEF QueueMoves
  <1>3. JobsHeld' /\ WorksHeld' /\ Lives'
    BY <1>0, <1>2, BystandersKeep DEF operatorVars
  <1>4. RequestHeld'
    BY <1>0, <1>1 DEF operatorVars, IndInv, RequestHeld, TaskStep
  <1>5. faults' \in [error : 0..MaxFaults, lost : 0..MaxFaults]
    BY <1>0, OutcomeCounts DEF IndInv, Submissions
  <1>6. Submissions'
    <2>1. /\ submission'[t] \in {"queued", "releasing"}
          /\ \A u \in Tasks : u # t => submission'[u] = submission[u]
          /\ submission' \in [Tasks -> SubmissionStates]
      BY <1>0 DEF IndInv, Submissions, SubmissionStates
    <2>2. ClaimHasOwner'
      BY <1>1, <2>1 DEF IndInv, Submissions, ClaimHasOwner
    <2>3. ASSUME NEW u \in Tasks
          PROVE  submission'[u] \in {"new", "claimed"} => record'[u].state = "ABSENT"
      BY <1>1, <2>1 DEF IndInv, Submissions
    <2> QED
      BY <1>5, <2>1, <2>2, <2>3 DEF Submissions
  <1> QED
    BY <1>1, <1>3, <1>4, <1>6 DEF IndInv

\* compensateUrlClaim: the URL is free, or the release never arrived.
LEMMA ReleaseUrlStep ==
  ASSUME IndInv, NEW t \in Tasks, NEW f \in Outcomes, ReleaseUrl(t, f)
  PROVE  IndInv' /\ \A u \in Tasks : TaskStep(u)
  <1>0. /\ submission[t] = "releasing" /\ Outcome(f)
        /\ submission' = [submission EXCEPT ![t] = IF f = "error" THEN "unreleased" ELSE "failed"]
        /\ UNCHANGED <<workerVars, operatorVars>>
        /\ IF f = "error" THEN claimed' = claimed ELSE claimed' = claimed \ {UrlOf[t]}
    BY DEF ReleaseUrl
  <1>1. LeavesTasks /\ record' = record
    BY DEF ReleaseUrl, LeavesTasks, IndInv, QueueInv, QueueTypeOK
  <1>2. QueueMoves
    BY <1>1, LeavesTasksKeeps DEF IndInv, QueueMoves
  <1>3. JobsHeld' /\ WorksHeld' /\ Lives'
    BY <1>0, <1>2, BystandersKeep DEF operatorVars
  <1>4. RequestHeld'
    BY <1>0, <1>1 DEF operatorVars, IndInv, RequestHeld
  <1>5. faults' \in [error : 0..MaxFaults, lost : 0..MaxFaults]
    BY <1>0, OutcomeCounts DEF IndInv, Submissions
  <1>6. /\ submission'[t] \in {"unreleased", "failed"}
        /\ f = "error" => submission'[t] = "unreleased"
        /\ \A u \in Tasks : u # t => submission'[u] = submission[u]
        /\ submission' \in [Tasks -> SubmissionStates]
    BY <1>0 DEF IndInv, Submissions, SubmissionStates
  <1>7. ClaimHasOwner'
    <2>1. SUFFICES ASSUME NEW url \in claimed'
                   PROVE  \E u \in Tasks : /\ UrlOf[u] = url
                                          /\ submission'[u] \in {"claimed", "queued", "releasing",
                                                                "unanswered", "unreleased"}
      BY DEF ClaimHasOwner
    <2>2. url \in claimed /\ (f # "error" => url # UrlOf[t])
      BY <1>0, <2>1
    <2>3. PICK u \in Tasks : /\ UrlOf[u] = url
                            /\ submission[u] \in {"claimed", "queued", "releasing",
                                                 "unanswered", "unreleased"}
      BY <2>2 DEF IndInv, Submissions, ClaimHasOwner
    <2> QED
      BY <1>6, <2>2, <2>3
  <1>8. ASSUME NEW u \in Tasks
        PROVE  submission'[u] \in {"new", "claimed"} => record'[u].state = "ABSENT"
    BY <1>1, <1>6 DEF IndInv, Submissions
  <1> QED
    BY <1>2, <1>3, <1>4, <1>5, <1>6, <1>7, <1>8 DEF IndInv, QueueMoves, Submissions

\* Submissions stay in order when neither they nor the faults change.
LEMMA SubmissionsUnchanged ==
  ASSUME IndInv, UNCHANGED <<submission, faults, claimed>>,
         \A t \in Tasks : record[t].state = "ABSENT" => record'[t] = record[t]
  PROVE  Submissions'
  <1>1. ClaimHasOwner'
    BY DEF IndInv, Submissions, ClaimHasOwner
  <1> QED
    BY <1>1 DEF IndInv, Submissions

LEMMA LeaseExpiresStep ==
  ASSUME IndInv, NEW t \in Tasks, LeaseExpires(t)
  PROVE  IndInv' /\ \A u \in Tasks : TaskStep(u)
  <1>1. /\ QueueInv' /\ leases' = leases /\ record' = record
        /\ \A u \in Tasks : TaskStep(u)
    BY DeadlineKeeps DEF LeaseExpires, IndInv
  <1>2. QueueMoves
    BY <1>1 DEF QueueMoves
  <1>3. /\ UNCHANGED <<submission, faults, claimed>>
        /\ UNCHANGED workerVars /\ UNCHANGED <<request, requests>>
    BY DEF LeaseExpires, DeadlinePasses, operatorVars
  <1>4. JobsHeld' /\ WorksHeld' /\ Lives'
    BY <1>2, <1>3, BystandersKeep
  <1>5. RequestHeld' /\ Submissions'
    BY <1>1, <1>3, SubmissionsUnchanged DEF IndInv, RequestHeld
  <1> QED
    BY <1>1, <1>4, <1>5 DEF IndInv

LEMMA OperatorReadsStep ==
  ASSUME IndInv, NEW kind \in {"cancel", "retry"}, NEW t \in Tasks, OperatorReads(kind, t)
  PROVE  IndInv' /\ \A u \in Tasks : TaskStep(u)
  <1>1. LeavesTasks /\ record' = record
    BY DEF OperatorReads, queueVars, LeavesTasks, IndInv, QueueInv, QueueTypeOK
  <1>2. QueueMoves
    BY <1>1, LeavesTasksKeeps DEF IndInv, QueueMoves
  <1>3. UNCHANGED <<submission, faults, claimed>> /\ UNCHANGED workerVars
    BY DEF OperatorReads, queueVars
  <1>4. JobsHeld' /\ WorksHeld' /\ Submissions'
    BY <1>1, <1>2, <1>3, JobsUnchanged, WorksUnchanged, SubmissionsUnchanged DEF workerVars
  <1>5. Lives'
    BY <1>3, ClusterBoundsAssumption DEF workerVars, OperatorReads, IndInv, Lives
  <1>6. RequestHeld'
    <2>1. record[t] \in Records /\ record[t].state # "ABSENT"
          /\ request' = [kind |-> kind, task |-> t, rec |-> record[t]]
      BY DEF OperatorReads, IndInv, QueueInv, QueueTypeOK
    <2> QED
      BY <1>1, <2>1 DEF RequestHeld
  <1> QED
    BY <1>2, <1>4, <1>5, <1>6 DEF IndInv, QueueMoves

\* cancelTask and retryTask: a stale read is refused by the lease on the record, or
\* writes what the record allows.
LEMMA OperatorWritesStep ==
  ASSUME IndInv, OperatorWrites
  PROVE  IndInv' /\ \A u \in Tasks : TaskStep(u)
  <1> DEFINE t == request.task
             r == RequestRecord
  <1>1. /\ request \in [kind : {"cancel", "retry"}, task : Tasks, rec : Records]
        /\ t \in Tasks /\ request.rec \in Records /\ request.kind \in {"cancel", "retry"}
        /\ record[t].state # "ABSENT"
    BY DEF OperatorWrites, IndInv, RequestHeld
  <1>2. /\ UNCHANGED <<submission, faults, requests>> /\ UNCHANGED workerVars
        /\ request' = NoRequest
    BY DEF OperatorWrites
  <1>3. QueueStep /\ claimed' = claimed
    <2>1. CASE ~RequestAccepted
      BY <2>1 DEF OperatorWrites, queueVars, QueueStep, LeavesTasks, IndInv, QueueInv, QueueTypeOK
    <2>2. CASE RequestAccepted /\ request.kind = "cancel"
      <3>1. r = [request.rec EXCEPT !.state = "CANCELLED"]
        BY <2>2 DEF RequestRecord
      <3>2. r \in Records /\ r.state = "CANCELLED"
        BY <1>1, <3>1 DEF Records, Terminal
      <3>3. UpdateAccepted(t, r) /\ UpdateScript(t, r)
        BY <2>2 DEF OperatorWrites, RequestAccepted
      <3> HIDE DEF r, t
      <3>4. Updates(t, r)
        BY <1>1, <3>2, <3>3 DEF Updates
      <3> QED
        BY <1>1, <3>2, <3>3, <3>4 DEF QueueStep, UpdateScript
    <2>3. CASE RequestAccepted /\ request.kind = "retry"
      <3>1. r = [request.rec EXCEPT !.state = "RETRYING", !.retries = 0]
        BY <2>3 DEF RequestRecord
      <3>2. r \in Records /\ r.state = "RETRYING" /\ r.retries = 0
        <4>1. r = [state |-> "RETRYING", retries |-> 0, worker |-> request.rec.worker,
                   lease |-> request.rec.lease]
          BY <1>1, <3>1 DEF Records
        <4>2. 0 \in 0..(MaxRetries + 1) /\ request.rec.lease \in Nat
              /\ request.rec.worker \in Workers \cup {NoWorker}
          BY <1>1, TasksAssumption DEF Records
        <4> QED
          BY <4>1, <4>2 DEF Records, Open
      <3>3. /\ EnqueueAccepted(t, r) /\ EnqueueScript(t, r)
            /\ runs' = [runs EXCEPT ![t] = 0]
        BY <2>3 DEF OperatorWrites, RequestAccepted
      <3> HIDE DEF r, t
      <3>4. Enqueues(t, r)
        BY <1>1, <3>2, <3>3, TasksAssumption DEF Enqueues, Queued
      <3> QED
        BY <1>1, <3>2, <3>3, <3>4 DEF QueueStep, EnqueueScript
    <2> QED
      BY <1>1, <2>1, <2>2, <2>3
  <1>4. /\ QueueInv' /\ leases' \in {leases, leases + 1}
        /\ \A u \in Tasks : TaskStep(u) /\ (record[u].state = "ABSENT" => record'[u] = record[u])
    BY <1>3, QueueStepKeeps DEF IndInv
  <1>5. QueueMoves
    BY <1>4 DEF QueueMoves
  <1>6. JobsHeld' /\ WorksHeld' /\ Lives'
    BY <1>2, <1>5, BystandersKeep
  <1>7. Submissions' /\ RequestHeld'
    BY <1>2, <1>3, <1>4, SubmissionsUnchanged DEF RequestHeld
  <1> QED
    BY <1>4, <1>6, <1>7 DEF IndInv

-----------------------------------------------------------------------------
(* Theorems *)

LEMMA InitEstablishes == Init => IndInv
  <1> SUFFICES ASSUME Init
               PROVE  IndInv
    OBVIOUS
  <1> USE TasksAssumption, ClusterBoundsAssumption DEF Init, QueueInit
  <1>0. NoRecord \in Records
    BY DEF NoRecord, Records
  <1>1. QueueInv
    <2>1. QueueTypeOK
      BY <1>0 DEF QueueTypeOK
    <2>2. \A t \in Tasks : RecordShape(t) /\ RunsPaid(t)
      BY DEF RecordShape, RunsPaid, NoRecord, Open, Queued
    <2> QED
      BY <2>1, <2>2 DEF QueueInv
  <1>2. JobsHeld /\ WorksHeld /\ RequestHeld
    BY DEF JobsHeld, WorksHeld, RequestHeld
  <1>3. Submissions
    BY DEF Submissions, SubmissionStates, ClaimHasOwner, NoRecord
  <1>4. Lives
    BY DEF Lives
  <1> QED
    BY <1>1, <1>2, <1>3, <1>4 DEF IndInv

\* The step of a worker keeps everything.
LEMMA WorkerStepPreserves ==
  ASSUME IndInv, NEW w \in Workers, NEW f \in Outcomes,
         \/ Dequeue(w, f) \/ Writes(w, f) \/ Recovers(w, f)
         \/ JobStarts(w) \/ Executes(w) \/ RenewLease(w)
         \/ StopWorker(w) \/ CloseWorker(w) \/ WorkerCrashes(w)
  PROVE  IndInv' /\ \A t \in Tasks : TaskStep(t)
  <1>1. WorkerStep /\ JobsHeld' /\ WorksHeld' /\ Lives'
    <2>1. CASE Dequeue(w, f)
      BY <2>1, DequeueStep
    <2>2. CASE Writes(w, f)
      BY <2>2, PersistResultStep, PersistMarkStep, PersistRetryStep, RequeueStep DEF Writes
    <2>3. CASE Recovers(w, f)
      BY <2>3, RecoveryStep DEF Recovers
    <2>4. CASE JobStarts(w) \/ Executes(w)
      BY <2>4, ExecutionStep DEF Executes
    <2>5. CASE RenewLease(w)
      BY <2>5, RenewLeaseStep
    <2>6. CASE StopWorker(w) \/ CloseWorker(w) \/ WorkerCrashes(w)
      BY <2>6, LifeStep
    <2> QED
      BY <2>1, <2>2, <2>3, <2>4, <2>5, <2>6
  <1>2. QueueMoves /\ RequestHeld' /\ Submissions'
    BY <1>1, WorkerStepKeeps
  <1> QED
    BY <1>1, <1>2 DEF IndInv, QueueMoves

\* One step of the cluster.
LEMMA StepPreserves ==
  ASSUME IndInv, [Next]_vars
  PROVE  IndInv' /\ \A t \in Tasks : TaskStep(t)
  <1>1. ASSUME NEW t \in Tasks, NEW f \in Outcomes, Submits(t, f)
        PROVE  IndInv' /\ \A u \in Tasks : TaskStep(u)
    BY <1>1, ClaimUrlStep, EnqueueNewStep, ReleaseUrlStep DEF Submits
  <1>2. ASSUME NEW t \in Tasks, LeaseExpires(t)
        PROVE  IndInv' /\ \A u \in Tasks : TaskStep(u)
    BY <1>2, LeaseExpiresStep
  <1>3. ASSUME NEW w \in Workers, NEW f \in Outcomes,
               Dequeue(w, f) \/ Writes(w, f) \/ Recovers(w, f)
        PROVE  IndInv' /\ \A t \in Tasks : TaskStep(t)
    BY <1>3, WorkerStepPreserves
  <1>4. ASSUME NEW w \in Workers,
               \/ JobStarts(w) \/ Executes(w) \/ RenewLease(w)
               \/ StopWorker(w) \/ CloseWorker(w) \/ WorkerCrashes(w)
        PROVE  IndInv' /\ \A t \in Tasks : TaskStep(t)
    <2>1. PICK f \in Outcomes : TRUE
      BY DEF Outcomes
    <2> QED
      BY <1>4, WorkerStepPreserves
  <1>5. ASSUME NEW kind \in {"cancel", "retry"}, NEW t \in Tasks, OperatorReads(kind, t)
        PROVE  IndInv' /\ \A u \in Tasks : TaskStep(u)
    BY <1>5, OperatorReadsStep
  <1>6. CASE OperatorWrites
    BY <1>6, OperatorWritesStep
  <1>7. CASE UNCHANGED vars
    <2>1. LeavesTasks /\ UNCHANGED <<record, claimed, submission, faults, request, requests>>
          /\ UNCHANGED workerVars
      BY <1>7 DEF vars, queueVars, operatorVars, LeavesTasks, IndInv, QueueInv, QueueTypeOK
    <2>2. QueueMoves
      BY <2>1, LeavesTasksKeeps DEF IndInv, QueueMoves
    <2>3. JobsHeld' /\ WorksHeld' /\ Lives'
      BY <2>1, <2>2, BystandersKeep
    <2>4. Submissions' /\ RequestHeld'
      BY <2>1, SubmissionsUnchanged DEF IndInv, RequestHeld
    <2> QED
      BY <2>2, <2>3, <2>4 DEF IndInv, QueueMoves
  <1> QED
    BY <1>1, <1>2, <1>3, <1>4, <1>5, <1>6, <1>7 DEF Next

\* The inductive invariant: the queue's records are well formed and paid for, and
\* whoever remembers a lease of a task remembers it rightly.
THEOREM Invariance == Spec => []IndInv
  <1>1. Init => IndInv
    BY InitEstablishes
  <1>2. IndInv /\ [Next]_vars => IndInv'
    BY StepPreserves
  <1> QED
    BY <1>1, <1>2, PTL DEF Spec

\* However workers fail, die or stop and queue calls get lost, a task that is not
\* finished stays within reach of dequeueTask (redis-adapter.ts).
THEOREM NothingStranded == Spec => []QueueSound
  <1>1. IndInv => QueueSound
    BY DEF IndInv, QueueInv, RecordShape, JobsHeld, WorksHeld, RequestHeld, Submissions, Lives,
           QueueSound, TypeOK, NoTaskStranded
  <1> QED
    BY <1>1, Invariance, PTL

\* A task is handed out at most maxRetries + 1 times between a submission or an
\* operator's retry and the next.
THEOREM AttemptsBounded == Spec => []RetriesBounded
  <1>1. IndInv => RetriesBounded
    BY DEF IndInv, QueueInv, RunsPaid, RetriesBounded
  <1> QED
    BY <1>1, Invariance, PTL

\* The lease is a fence: no step overwrites a completed record or takes a task from
\* a worker within its lease.
THEOREM Fenced == Spec => LeaseFences
  <1>1. IndInv /\ [Next]_vars =>
          [\A t \in Tasks : record[t].state = "COMPLETED" => record'[t] = record[t]]_vars
    BY StepPreserves DEF TaskStep
  <1>2. IndInv /\ [Next]_vars =>
          [\A t \in Tasks :
             (record[t].state = "RUNNING" /\ processing[t] = "valid" /\ record'[t] # record[t])
                => /\ record'[t].worker = record[t].worker
                   /\ record'[t].lease = record[t].lease]_vars
    BY StepPreserves DEF TaskStep
  <1> QED
    BY <1>1, <1>2, Invariance, PTL DEF Spec, LeaseFences, CompletedIsFinal, LeaseRespected

\* A URL is not claimed for nothing: after a failed enqueue the claim is given up,
\* unless the release is lost to a second fault.
THEOREM ClaimsOwned == Spec => []ClaimHasOwner
  <1>1. IndInv => ClaimHasOwner
    BY DEF IndInv, Submissions
  <1> QED
    BY <1>1, Invariance, PTL

=============================================================================
