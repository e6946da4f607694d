------------------------------- MODULE RedisQueue -------------------------------
(***************************************************************************)
(* RedisQueueAdapter (src/distributed/redis-adapter.ts): one tenant and    *)
(* one shard of the task queue.  A task has a record; the sorted set       *)
(* "pending" orders the tasks to hand out, the sorted set "processing"     *)
(* holds the deadline of every lease; the sorted set "seen_urls" the URLs  *)
(* claimed by a submission or marked by a completion.                      *)
(*                                                                         *)
(* Every Lua script is one atomic action.  A lease deadline is reduced to  *)
(* whether it has passed, which may happen at any time.                    *)
(***************************************************************************)
EXTENDS Naturals, FiniteSets

CONSTANTS
    Tasks, Workers,
    NoWorker,     \* no workerId
    Urls,
    UrlOf,        \* the URL of each task
    Score,        \* the order of the tasks in "pending": priority, then creation
    MaxRetries    \* maxRetries of every task

ASSUME TasksAssumption ==
    /\ IsFiniteSet(Tasks) /\ NoWorker \notin Workers
    /\ UrlOf \in [Tasks -> Urls]
    /\ Score \in [Tasks -> Nat]
    /\ \A t, u \in Tasks : Score[t] = Score[u] => t = u
    /\ MaxRetries \in Nat

VARIABLES
    record,       \* the record of each task
    pending,      \* members of the sorted set "pending"
    processing,   \* each task's deadline in the sorted set "processing"
    claimed,      \* URLs a submission has claimed
    marked,       \* URLs a completed task has marked as seen
    leases,       \* lease ids issued so far
    runs          \* history: leases issued to a task since it was submitted or retried

queueVars == <<record, pending, processing, claimed, marked, leases, runs>>

Open == {"PENDING", "RUNNING", "RETRYING"}
Terminal == {"COMPLETED", "FAILED", "CANCELLED"}
Queued == {"PENDING", "RETRYING"}

NoRecord == [state |-> "ABSENT", retries |-> 0, worker |-> NoWorker, lease |-> 0]

Records == [state : Open \cup Terminal \cup {"ABSENT"}, retries : 0..(MaxRetries + 1),
            worker : Workers \cup {NoWorker}, lease : Nat]

QueueTypeOK ==
    /\ record \in [Tasks -> Records]
    /\ pending \subseteq Tasks
    /\ processing \in [Tasks -> {"absent", "valid", "expired"}]
    /\ claimed \subseteq Urls
    /\ marked \subseteq Urls
    /\ leases \in Nat
    /\ runs \in [Tasks -> Nat]

QueueInit ==
    /\ record = [t \in Tasks |-> NoRecord]
    /\ pending = {}
    /\ processing = [t \in Tasks |-> "absent"]
    /\ claimed = {} /\ marked = {}
    /\ leases = 0
    /\ runs = [t \in Tasks |-> 0]

Seen == claimed \cup marked

-----------------------------------------------------------------------------
(* dequeueTask *)

\* Mutant: reclaiming an expired lease does not count as a retry.
Mutant_Reclaimed_free(t) ==
    LET r == record[t]
    IN  IF r.state \in Open
          THEN [r EXCEPT !.state = IF @ = "RUNNING" THEN "PENDING" ELSE @,
                         !.worker = NoWorker, !.lease = 0]
          ELSE r

\* The record of a task whose lease has expired, after the script reclaimed it.
Reclaimed(t) ==
    LET r == record[t]
        free == [r EXCEPT !.worker = NoWorker, !.lease = 0]
    IN  CASE r.state = "RUNNING" ->
               [free EXCEPT !.retries = @ + 1,
                            !.state = IF r.retries + 1 <= MaxRetries THEN "PENDING"
                                      ELSE "FAILED"]
          [] r.state \in Queued -> free
          [] OTHER -> r

\* The whole script: reclaim every expired lease, pop the first pending task and
\* lease it.  A popped task that is not queued is dropped from both sets.
DequeueScript(w) ==
    LET lapsed == {t \in Tasks : processing[t] = "expired"}
        recs == [t \in Tasks |-> IF t \in lapsed THEN Reclaimed(t) ELSE record[t]]
        pend == pending \cup {t \in lapsed : recs[t].state \in Queued}
        kept == [t \in Tasks |-> IF t \in lapsed THEN "absent" ELSE processing[t]]
    IN  /\ UNCHANGED <<claimed, marked>>
        /\ \/ /\ pend = {} /\ lapsed # {}
              /\ record' = recs /\ pending' = pend /\ processing' = kept
              /\ UNCHANGED <<leases, runs>>
           \/ \E t \in pend :
                /\ \A u \in pend : Score[t] <= Score[u]
                /\ pending' = pend \ {t}
                /\ IF recs[t].state \in Queued
                     THEN /\ record' = [recs EXCEPT ![t].state = "RUNNING",
                                                    ![t].worker = w,
                                                    ![t].lease = leases + 1]
                          /\ processing' = [kept EXCEPT ![t] = "valid"]
                          /\ leases' = leases + 1
                          /\ runs' = [runs EXCEPT ![t] = @ + 1]
                     ELSE /\ record' = recs
                          /\ processing' = [kept EXCEPT ![t] = "absent"]
                          /\ UNCHANGED <<leases, runs>>

-----------------------------------------------------------------------------
(* updateTask, enqueueTask, renewTaskLease *)

\* Mutant: the deadline of the lease is not compared, and the lease id neither.
Mutant_UpdateAccepted_noFence(t, r) ==
    record[t].state # "ABSENT" /\ (r.lease = 0 => record[t].lease = 0)

\* updateTask of record r is accepted: the lease in it is current and has not
\* expired, or neither record has one.
UpdateAccepted(t, r) ==
    IF r.lease # 0
      THEN /\ record[t].lease = r.lease /\ record[t].worker = r.worker
           /\ processing[t] = "valid"
      ELSE record[t].lease = 0

\* Mutant: a retry handed back by its worker leaves the processing set.
Mutant_UpdateScript_dropsLease(t, r) ==
    /\ record' = [record EXCEPT ![t] = r]
    /\ processing' = [processing EXCEPT ![t] = IF r.state = "RUNNING" THEN "valid" ELSE "absent"]
    /\ pending' = IF r.state \in Terminal THEN pending \ {t} ELSE pending
    /\ UNCHANGED <<claimed, marked, leases, runs>>

\* The writes of updateTask.
UpdateScript(t, r) ==
    /\ record' = [record EXCEPT ![t] = r]
    /\ processing' = [processing EXCEPT ![t] =
                        IF r.state = "RUNNING" \/ (r.state \in Queued /\ r.lease # 0)
                          THEN "valid" ELSE "absent"]
    /\ pending' = IF r.state \in Terminal THEN pending \ {t} ELSE pending
    /\ UNCHANGED <<claimed, marked, leases, runs>>

\* enqueueOwnedTask for a record with a lease, enqueueUnownedBatch for one without.
EnqueueAccepted(t, r) ==
    IF r.lease # 0
      THEN /\ record[t].lease = r.lease /\ record[t].worker = r.worker
           /\ record[t].state \in Open
           /\ processing[t] # "expired"
      ELSE record[t].lease = 0

\* Their writes; a record that is not queued is refused by its callers.
EnqueueScript(t, r) ==
    /\ record' = [record EXCEPT ![t] = r]
    /\ pending' = pending \cup {t}
    /\ processing' = [processing EXCEPT ![t] = "absent"]
    /\ UNCHANGED <<claimed, marked, leases>>

\* renewTaskLease: the deadline itself is not compared.
RenewAccepted(t, w, lease) ==
    record[t].state = "RUNNING" /\ record[t].worker = w /\ record[t].lease = lease

RenewScript(t) ==
    /\ processing' = [processing EXCEPT ![t] = "valid"]
    /\ UNCHANGED <<record, pending, claimed, marked, leases, runs>>

\* The deadline of a lease passes.
DeadlinePasses(t) ==
    /\ processing[t] = "valid"
    /\ processing' = [processing EXCEPT ![t] = "expired"]
    /\ UNCHANGED <<record, pending, claimed, marked, leases, runs>>

=============================================================================
