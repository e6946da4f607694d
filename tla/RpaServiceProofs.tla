--------------------------- MODULE RpaServiceProofs ----------------------------
(***************************************************************************)
(* Proofs, for every set of tasks and workflows and every number of steps, *)
(* runs, restarts and file system errors, that an RPA task opens at most   *)
(* one browser whatever the process dies of and whenever, that no browser  *)
(* is left without an execution that stops it, and that no queued task is  *)
(* forgotten.                                                              *)
(*                                                                         *)
(* The state a restart begins with is what the last write put into the     *)
(* file, and a write is of the state it found when it began, which others  *)
(* have changed since.  The invariant therefore says of the file, of the   *)
(* write under way and of the contents load() has opened that a task that  *)
(* may have a browser is not queued there (Durable), and follows each task *)
(* through the one place at a time from which it can be scheduled or go    *)
(* on (Scheduled, Awaiting).                                               *)
(***************************************************************************)
EXTENDS RpaService, SequenceTheorems, TLAPS

-----------------------------------------------------------------------------
(* The chain of writes *)

\* Waiters of which the chain holds at most one.
Once == {"run", "exec", "next"}

Awaited(s) == {s[i] : i \in DOMAIN s}
Distinct(s) == \A i, j \in DOMAIN s : s[i] = s[j] /\ s[i][1] \in Once => i = j

LEMMA ChainGrows ==
  ASSUME NEW s \in Seq(Waiters), NEW k \in Waiters
  PROVE  /\ Append(s, k) \in Seq(Waiters) /\ Append(s, k) # <<>>
         /\ \A x : x \in Awaited(Append(s, k)) <=> x \in Awaited(s) \/ x = k
         /\ Distinct(s) /\ (k[1] \notin Once \/ k \notin Awaited(s)) => Distinct(Append(s, k))
         /\ s # <<>> => Head(Append(s, k)) = Head(s)
         /\ s = <<>> => Head(Append(s, k)) = k
  <1> DEFINE u == Append(s, k)
  <1>1. /\ u \in Seq(Waiters) /\ Len(u) = Len(s) + 1 /\ Len(s) \in Nat
        /\ \A i \in 1..Len(s) : u[i] = s[i]
        /\ u[Len(s) + 1] = k
    OBVIOUS
  <1>2. DOMAIN u = 1..(Len(s) + 1) /\ DOMAIN s = 1..Len(s)
    BY <1>1
  <1> HIDE DEF u
  <1>3. ASSUME NEW x
        PROVE  x \in Awaited(u) <=> x \in Awaited(s) \/ x = k
    BY <1>1, <1>2 DEF Awaited
  <1>4. ASSUME Distinct(s), k[1] \notin Once \/ k \notin Awaited(s)
        PROVE  Distinct(u)
    <2>1. SUFFICES ASSUME NEW i \in 1..(Len(s) + 1), NEW j \in 1..(Len(s) + 1),
                          u[i] = u[j], u[i][1] \in Once, i < j
                   PROVE  FALSE
      BY <1>1, <1>2 DEF Distinct
    <2>2. i \in 1..Len(s) /\ u[i] = s[i] /\ s[i] \in Awaited(s)
      BY <1>1, <1>2, <2>1 DEF Awaited
    <2>3. CASE j = Len(s) + 1
      BY <1>1, <1>4, <2>1, <2>2, <2>3
    <2>4. CASE j \in 1..Len(s)
      <3>1. s[i] = s[j] /\ s[i][1] \in Once /\ i \in DOMAIN s /\ j \in DOMAIN s
        BY <1>1, <1>2, <2>1, <2>2, <2>4
      <3>2. i = j
        BY <1>4, <3>1 DEF Distinct
      <3> QED
        BY <2>1, <3>2
    <2> QED
      BY <1>1, <2>3, <2>4
  <1>5. u # <<>> /\ (s # <<>> => Head(u) = Head(s)) /\ (s = <<>> => Head(u) = k)
    BY <1>1
  <1> QED
    BY <1>1, <1>3, <1>4, <1>5 DEF u

LEMMA ChainShrinks ==
  ASSUME NEW s \in Seq(Waiters), s # <<>>, Distinct(s)
  PROVE  /\ Tail(s) \in Seq(Waiters) /\ Distinct(Tail(s))
         /\ Head(s) \in Waiters /\ Head(s) \in Awaited(s)
         /\ \A x : x \in Awaited(Tail(s)) => x \in Awaited(s)
         /\ \A x : x \in Awaited(s) => x \in Awaited(Tail(s)) \/ x = Head(s)
         /\ Head(s)[1] \in Once => Head(s) \notin Awaited(Tail(s))
  <1> DEFINE u == Tail(s)
  <1>1. /\ u \in Seq(Waiters) /\ Len(u) = Len(s) - 1 /\ Len(s) \in Nat /\ Len(s) >= 1
        /\ \A i \in 1..Len(u) : u[i] = s[i + 1]
        /\ Head(s) = s[1]
    OBVIOUS
  <1>2. DOMAIN u = 1..(Len(s) - 1) /\ DOMAIN s = 1..Len(s)
    BY <1>1
  <1> HIDE DEF u
  <1>3. \A i \in 1..(Len(s) - 1) : u[i] = s[i + 1] /\ i + 1 \in 1..Len(s) /\ i + 1 # 1
    BY <1>1
  <1>4. Distinct(u)
    <2>1. SUFFICES ASSUME NEW i \in 1..(Len(s) - 1), NEW j \in 1..(Len(s) - 1),
                          u[i] = u[j], u[i][1] \in Once
                   PROVE  i = j
      BY <1>2 DEF Distinct
    <2>2. i + 1 = j + 1
      BY <1>2, <1>3, <2>1 DEF Distinct
    <2> QED
      BY <2>2
  <1>5. ASSUME NEW x \in Awaited(u)
        PROVE  x \in Awaited(s)
    BY <1>2, <1>3 DEF Awaited
  <1>6. ASSUME NEW x \in Awaited(s)
        PROVE  x \in Awaited(u) \/ x = Head(s)
    <2>1. PICK i \in 1..Len(s) : x = s[i]
      BY <1>2 DEF Awaited
    <2>2. CASE i = 1
      BY <1>1, <2>1, <2>2
    <2>3. CASE i # 1
      <3>1. i - 1 \in 1..(Len(s) - 1) /\ u[i - 1] = s[i]
        BY <1>1, <2>3
      <3> QED
        BY <1>2, <2>1, <3>1 DEF Awaited
    <2> QED
      BY <2>2, <2>3
  <1>7. ASSUME Head(s)[1] \in Once, Head(s) \in Awaited(u)
        PROVE  FALSE
    <2>1. PICK i \in 1..(Len(s) - 1) : u[i] = Head(s)
      BY <1>2, <1>7 DEF Awaited
    <2>2. s[i + 1] = s[1] /\ i + 1 \in 1..Len(s) /\ 1 \in 1..Len(s)
      BY <1>1, <1>3, <2>1
    <2>3. i + 1 = 1
      BY <1>1, <1>2, <1>7, <2>2 DEF Distinct
    <2> QED
      BY <2>3
  <1>8. Head(s) \in Waiters /\ Head(s) \in Awaited(s)
    BY <1>1, <1>2 DEF Awaited
  <1> QED
    BY <1>1, <1>4, <1>5, <1>6, <1>7, <1>8 DEF u

-----------------------------------------------------------------------------
(* The inductive invariant *)

\* Contents of the file in which task t does not wait to be run.
NotQueued(c, t) == c.kind = "whole" => c.data.tasks[t].state # "QUEUED"

\* Contents that hold only ids that were drawn.
Known(c) ==
    c.kind = "whole" =>
        /\ c.data.workflows \subseteq drawn
        /\ \A t \in Tasks : c.data.tasks[t] # NoTask =>
             t \in drawn /\ c.data.tasks[t].workflow \in drawn

Files ==
    /\ file.kind # "torn" /\ tmp.kind # "torn" /\ reading.kind \in {"none", "whole"}
    /\ Known(file) /\ Known(tmp) /\ Known(reading)
    /\ tmp # Absent => writes # <<>>

\* Before it is loaded the memory is empty; what load() reads is not in it yet.
Memory ==
    /\ workflows \subseteq drawn
    /\ ~loaded => /\ workflows = {} /\ timers = {} /\ reading = NoRead
                  /\ \A t \in Tasks : tasks[t] = NoTask
    /\ phase = "down" => ~loaded /\ writes = <<>> /\ cancels = {}
    /\ reading.kind = "whole" => workflows \cap reading.data.workflows = {}
    /\ Distinct(writes)
    /\ \A t, u \in Tasks : next[t] = next[u] /\ next[t] # None => t = u

\* Where a task's ids come from.
Placed(t) ==
    /\ tasks[t] # NoTask => t \in drawn /\ tasks[t].workflow \in drawn
    /\ starts[t] > 0 => t \in drawn
    /\ reading.kind = "whole" /\ tasks[t] # NoTask =>
         /\ reading.data.tasks[t] = NoTask
         /\ tasks[t].workflow \notin reading.data.workflows

\* Who waits for a write on behalf of the task's execution.
Awaiting(t) ==
    /\ <<"exec", t>> \in Awaited(writes) =>
         exec[t] \in {"marking", "stepSaving", "ending", "noting"} /\ next[t] = None
    /\ <<"next", t>> \in Awaited(writes) <=> next[t] # None
    /\ next[t] # None => exec[t] = "noting"

\* The three places from which a task is run, of which it has at most one.
Scheduled(t) == t \in timers \/ <<"run", t>> \in Awaited(writes) \/ \E u \in Tasks : next[u] = t

Schedule(t) ==
    /\ Scheduled(t) =>
         tasks[t].state \in {"QUEUED", "CANCELLED"} /\ exec[t] = "none" /\ starts[t] = 0
    /\ t \in timers => <<"run", t>> \notin Awaited(writes) /\ \A u \in Tasks : next[u] # t
    /\ <<"run", t>> \in Awaited(writes) => \A u \in Tasks : next[u] # t

\* How far its execution is.
Execution(t) ==
    /\ exec[t] # "none" => tasks[t].state \notin {"QUEUED", "NONE"}
    /\ exec[t] \in {"marking", "starting"} => starts[t] = 0
    /\ exec[t] = "step" => tasks[t].steps < MaxSteps
    /\ starts[t] <= 1
    /\ starts[t] > 0 => tasks[t].state # "QUEUED"
    /\ live[t] > 0 => exec[t] \in {"step", "stepSaving", "stopping", "failing"}

\* A queued task has something that will run it.
Attended(t) ==
    phase = "up" /\ writeErrors = 0 /\ tasks[t].state = "QUEUED" /\ tasks[t].workflow \in workflows
      => Scheduled(t)

TaskInv(t) == Placed(t) /\ Awaiting(t) /\ Schedule(t) /\ Execution(t) /\ Attended(t)

\* Once a browser may have been opened for t, no version of the state that can be
\* loaded has it queued; before, its own write sees to it.
Durable(t) ==
    /\ starts[t] > 0 \/ exec[t] \notin {"none", "marking"} =>
         NotQueued(file, t) /\ NotQueued(tmp, t) /\ NotQueued(reading, t)
    /\ exec[t] = "marking" /\ writes # <<>> /\ Head(writes) = <<"exec", t>> => NotQueued(tmp, t)

IndInv == TypeOK /\ Files /\ Memory /\ \A t \in Tasks : TaskInv(t) /\ Durable(t)

\* A step that passes task t by.
Kept(t) ==
    /\ tasks'[t] = tasks[t] /\ exec'[t] = exec[t] /\ starts'[t] = starts[t]
    /\ live'[t] \in {0, live[t]}
    /\ next'[t] = next[t] /\ \A u \in Tasks : next'[u] = t <=> next[u] = t
    /\ t \in timers' => t \in timers
    /\ phase' = "up" => phase = "up" /\ (t \in timers => t \in timers')
    /\ \A k \in Once : <<k, t>> \in Awaited(writes') <=> <<k, t>> \in Awaited(writes)
    /\ writeErrors' = 0 => writeErrors = 0
    /\ drawn \subseteq drawn'
    /\ tasks[t] # NoTask /\ tasks[t].workflow \in workflows' => tasks[t].workflow \in workflows

LEMMA KeptTask ==
  ASSUME IndInv, NEW t \in Tasks, Kept(t), reading' \in {reading, NoRead}
  PROVE  TaskInv(t)'
  <1>1. TaskInv(t)
    BY DEF IndInv
  <1>2. <<"exec", t>> \in Awaited(writes') <=> <<"exec", t>> \in Awaited(writes)
    BY DEF Kept, Once
  <1>3. <<"next", t>> \in Awaited(writes') <=> <<"next", t>> \in Awaited(writes)
    BY DEF Kept, Once
  <1>4. <<"run", t>> \in Awaited(writes') <=> <<"run", t>> \in Awaited(writes)
    BY DEF Kept, Once
  <1>5. Placed(t)'
    BY <1>1 DEF TaskInv, Placed, Kept, NoRead
  <1>6. Awaiting(t)'
    BY <1>1, <1>2, <1>3 DEF TaskInv, Awaiting, Kept
  <1>7. (Scheduled(t)' => Scheduled(t)) /\ (phase' = "up" /\ Scheduled(t) => Scheduled(t)')
    BY <1>4 DEF Scheduled, Kept
  <1>8. Schedule(t)'
    BY <1>1, <1>4, <1>7 DEF TaskInv, Schedule, Kept
  <1>9. live[t] \in Nat
    BY DEF IndInv, TypeOK
  <1>10. Execution(t)'
    BY <1>1, <1>9 DEF TaskInv, Execution, Kept
  <1>11. Attended(t)'
    <2>1. tasks[t].state = "QUEUED" => tasks[t] # NoTask
      BY DEF NoTask
    <2> QED
      BY <1>1, <1>7, <2>1 DEF TaskInv, Attended, Kept
  <1> QED
    BY <1>5, <1>6, <1>8, <1>10, <1>11 DEF TaskInv

\* The files do not change, and the write under way stays the head of the chain.
LEMMA KeptDurable ==
  ASSUME IndInv, NEW t \in Tasks, starts'[t] = starts[t], exec'[t] = exec[t],
         UNCHANGED <<file, tmp>>, reading' \in {reading, NoRead},
         writes' # <<>> /\ Head(writes') = <<"exec", t>> /\ tmp # Absent =>
           writes # <<>> /\ Head(writes) = <<"exec", t>>
  PROVE  Durable(t)'
  BY DEF IndInv, Durable, NotQueued, NoRead, Absent

\* The files, when nothing is read or written.
LEMMA KeptFiles ==
  ASSUME IndInv, UNCHANGED <<file, tmp>>, reading' \in {reading, NoRead}, drawn \subseteq drawn',
         writes # <<>> => writes' # <<>>
  PROVE  Files'
  BY DEF IndInv, Files, Known, NoRead

\* A call that adds a write to the chain, or none.
Chained(k) == writes' = Append(writes, k) \/ UNCHANGED writes

LEMMA ChainedKeeps ==
  ASSUME IndInv, NEW k \in Waiters, Chained(k), k[1] \notin Once \/ k \notin Awaited(writes)
  PROVE  /\ writes' \in Seq(Waiters) /\ Distinct(writes')
         /\ writes # <<>> => writes' # <<>>
         /\ \A x : x # k => (x \in Awaited(writes') <=> x \in Awaited(writes))
         /\ \A x : writes' # <<>> /\ Head(writes') = x /\ tmp # Absent =>
              writes # <<>> /\ Head(writes) = x
  <1>1. writes \in Seq(Waiters) /\ Distinct(writes) /\ (tmp # Absent => writes # <<>>)
    BY DEF IndInv, TypeOK, Memory, Files
  <1>2. CASE UNCHANGED writes
    BY <1>1, <1>2
  <1>3. CASE writes' = Append(writes, k)
    <2>1. /\ writes' \in Seq(Waiters) /\ writes' # <<>>
          /\ \A x : x \in Awaited(writes') <=> x \in Awaited(writes) \/ x = k
          /\ Distinct(writes) /\ (k[1] \notin Once \/ k \notin Awaited(writes)) => Distinct(writes')
          /\ writes # <<>> => Head(writes') = Head(writes)
      BY <1>1, <1>3, ChainGrows
    <2> QED
      BY <1>1, <2>1
  <1> QED
    BY <1>2, <1>3 DEF Chained

\* A call adds at most one write to the chain; what is left to show is its effect on
\* the tasks it touches.
LEMMA CallKeeps ==
  ASSUME IndInv, TypeOK', NEW k \in Waiters, Chained(k), NEW X \in SUBSET Tasks,
         k[1] \notin Once \/ k \notin Awaited(writes), k[1] \notin Once \/ k[2] \in X,
         UNCHANGED <<file, tmp, reading, writeErrors, loaded>>, drawn \subseteq drawn',
         phase' = "up" => phase = "up", phase' # "down",
         loaded \/ (timers' \subseteq timers /\ UNCHANGED <<workflows, tasks>>),
         workflows' \subseteq drawn',
         reading.kind = "whole" => workflows' \cap reading.data.workflows = {},
         \A t, u \in Tasks : next'[t] = next'[u] /\ next'[t] # None => t = u,
         \A t \in Tasks \ X :
           /\ tasks'[t] = tasks[t] /\ exec'[t] = exec[t] /\ starts'[t] = starts[t]
           /\ live'[t] \in {0, live[t]} /\ next'[t] = next[t]
           /\ \A u \in Tasks : next'[u] = t <=> next[u] = t
           /\ t \in timers' => t \in timers
           /\ phase' = "up" => (t \in timers => t \in timers')
           /\ tasks[t] # NoTask /\ tasks[t].workflow \in workflows' =>
                tasks[t].workflow \in workflows,
         \A t \in X : TaskInv(t)' /\ Durable(t)'
  PROVE  IndInv'
  <1>1. /\ Distinct(writes') /\ (writes # <<>> => writes' # <<>>)
        /\ \A x : x # k => (x \in Awaited(writes') <=> x \in Awaited(writes))
        /\ \A x : writes' # <<>> /\ Head(writes') = x /\ tmp # Absent =>
             writes # <<>> /\ Head(writes) = x
    BY ChainedKeeps
  <1>2. Files'
    BY <1>1, KeptFiles
  <1>3. Memory'
    BY <1>1 DEF IndInv, Memory
  <1>4. ASSUME NEW t \in Tasks \ X
        PROVE  TaskInv(t)' /\ Durable(t)'
    <2>1. \A n \in Once : <<n, t>> # k
      OBVIOUS
    <2>2. Kept(t)
      BY <1>1, <2>1 DEF Kept
    <2>3. TaskInv(t)'
      BY <2>2, KeptTask
    <2>4. writes' # <<>> /\ Head(writes') = <<"exec", t>> /\ tmp # Absent =>
            writes # <<>> /\ Head(writes) = <<"exec", t>>
      BY <1>1
    <2>5. Durable(t)'
      BY <2>4, KeptDurable
    <2> QED
      BY <2>3, <2>5
  <1> QED
    BY <1>2, <1>3, <1>4 DEF IndInv

LEMMA WorkflowStep ==
  ASSUME IndInv, NEW w \in Workflows, CreateWorkflow(w) \/ DeleteWorkflow(w)
  PROVE  IndInv'
  <1>1. <<"edit", None>> \in Waiters /\ Chained(<<"edit", None>>)
        /\ <<"edit", None>>[1] \notin Once
    BY DEF CreateWorkflow, DeleteWorkflow, Persist, Chained, Waiters, Once
  <1>2. /\ writes' \in Seq(Waiters)
    BY <1>1, ChainedKeeps
  <1>3. /\ UNCHANGED <<file, bak, tmp, reading, writeErrors, restarts, loaded>>
        /\ UNCHANGED <<phase, cancels, doomed, shutting>> /\ UNCHANGED <<exec, next, session, live>>
        /\ UNCHANGED <<tasks, timers, starts, runs>> /\ phase # "down" /\ loaded
    BY DEF CreateWorkflow, DeleteWorkflow, Unseen, fileVars, stopVars, execVars, Serving
  <1>4. /\ workflows' \subseteq drawn' /\ drawn \subseteq drawn'
        /\ drawn' \subseteq Tasks \cup Workflows /\ workflows' \subseteq Workflows
        /\ deleted' \subseteq Workflows
        /\ reading.kind = "whole" => workflows' \cap reading.data.workflows = {}
    BY DEF CreateWorkflow, DeleteWorkflow, IndInv, TypeOK, Memory, Files, Known
  <1>5. TypeOK'
    BY <1>2, <1>3, <1>4 DEF IndInv, TypeOK, FileTypeOK
  <1>6. ASSUME NEW t \in Tasks
        PROVE  tasks[t] # NoTask /\ tasks[t].workflow \in workflows' => tasks[t].workflow \in workflows
    BY DEF CreateWorkflow, DeleteWorkflow, IndInv, TaskInv, Placed
  <1>7. \A t, u \in Tasks : next'[t] = next'[u] /\ next'[t] # None => t = u
    BY <1>3 DEF IndInv, Memory
  <1> QED
    BY <1>1, <1>3, <1>4, <1>5, <1>6, <1>7, CallKeeps, Zenon

\* run(): a task of a new id, scheduled by the write it awaits.
LEMMA RunStep ==
  ASSUME IndInv, NEW x \in Tasks, NEW w \in Workflows, NEW recurring \in BOOLEAN,
         Run(x, w, recurring)
  PROVE  IndInv'
  <1> DEFINE k == <<"run", x>>
             r == [workflow |-> w, state |-> "QUEUED", recurring |-> recurring, steps |-> 0]
  <1>0. /\ TaskInv(x) /\ Durable(x) /\ x \notin drawn /\ tasks \in [Tasks -> TaskRecords \cup {NoTask}]
        /\ starts[x] \in Nat /\ w \in workflows /\ loaded /\ phase # "down" /\ w \in drawn
        /\ live[x] \in Nat
    BY DEF IndInv, Run, NewTask, Serving, Memory, TypeOK
  <1>1. /\ tasks[x] = NoTask /\ tasks[x].state = "NONE" /\ starts[x] = 0 /\ ~Scheduled(x)
        /\ exec[x] = "none"
    BY <1>0 DEF TaskInv, Placed, Schedule, Execution, NoTask
  <1>2. k \in Waiters /\ k \notin Awaited(writes) /\ writes' = Append(writes, k)
    BY <1>1 DEF Run, Persist, Waiters, Scheduled
  <1>3. /\ writes' \in Seq(Waiters) /\ writes' # <<>>
        /\ \A y : y \in Awaited(writes') <=> y \in Awaited(writes) \/ y = k
    BY <1>2, ChainGrows DEF IndInv, TypeOK
  <1>4. /\ UNCHANGED <<file, bak, tmp, reading, writeErrors, restarts, loaded, workflows, timers>>
        /\ UNCHANGED <<phase, cancels, doomed, shutting, exec, next, session, live, starts, deleted>>
        /\ drawn' = drawn \cup {x} /\ tasks' = [tasks EXCEPT ![x] = r] /\ runs' \in 0 .. MaxRuns
    BY RpaAssumption DEF Run, NewTask, Unseen, fileVars, stopVars, execVars, IndInv, TypeOK
  <1>5. r \in TaskRecords
    BY RpaAssumption DEF TaskRecords
  <1>6. TypeOK'
    <2>1. tasks' \in [Tasks -> TaskRecords \cup {NoTask}] /\ drawn' \subseteq Tasks \cup Workflows
      BY <1>0, <1>4, <1>5 DEF IndInv, TypeOK
    <2> QED
      BY <1>3, <1>4, <2>1 DEF IndInv, TypeOK, FileTypeOK
  <1>7. tasks'[x] = r /\ \A t \in Tasks : t # x => tasks'[t] = tasks[t]
    BY <1>0, <1>4
  <1>8. TaskInv(x)'
    <2>1. reading.kind = "whole" => reading.data.tasks[x] = NoTask /\ w \notin reading.data.workflows
      BY <1>0 DEF IndInv, Files, Known, Memory
    <2>2. Placed(x)'
      BY <1>0, <1>1, <1>4, <1>7, <2>1 DEF Placed
    <2>3. Awaiting(x)' /\ Execution(x)'
      BY <1>0, <1>1, <1>3, <1>4, <1>7 DEF TaskInv, Awaiting, Execution
    <2>4. Scheduled(x)' /\ x \notin timers' /\ \A u \in Tasks : next'[u] # x
      BY <1>1, <1>3, <1>4 DEF Scheduled
    <2>5. Schedule(x)' /\ Attended(x)'
      BY <1>1, <1>4, <1>7, <2>4 DEF Schedule, Attended
    <2> QED
      BY <2>2, <2>3, <2>5 DEF TaskInv
  <1>9. Durable(x)'
    BY <1>1, <1>4 DEF Durable
  <1>10. \A t, u \in Tasks : next'[t] = next'[u] /\ next'[t] # None => t = u
    BY <1>4 DEF IndInv, Memory
  <1>11. Chained(k) /\ k[2] \in {x} /\ {x} \in SUBSET Tasks
    BY <1>2 DEF Chained
  <1>12. /\ workflows' \subseteq drawn'
         /\ reading.kind = "whole" => workflows' \cap reading.data.workflows = {}
    BY <1>4 DEF IndInv, Memory
  <1> HIDE DEF k
  <1>13. \A t \in Tasks \ {x} :
           /\ tasks'[t] = tasks[t] /\ exec'[t] = exec[t] /\ starts'[t] = starts[t]
           /\ live'[t] \in {0, live[t]} /\ next'[t] = next[t]
           /\ \A u \in Tasks : next'[u] = t <=> next[u] = t
           /\ t \in timers' => t \in timers
           /\ phase' = "up" => (t \in timers => t \in timers')
           /\ tasks[t] # NoTask /\ tasks[t].workflow \in workflows' =>
                tasks[t].workflow \in workflows
    BY <1>4, <1>7
  <1>14. \A t \in {x} : TaskInv(t)' /\ Durable(t)'
    BY <1>8, <1>9
  <1>15. PICK X \in SUBSET Tasks : X = {x}
    OBVIOUS
  <1>16. /\ k \notin Awaited(writes) /\ k[2] \in X
         /\ drawn \subseteq drawn' /\ phase' # "down" /\ (phase' = "up" => phase = "up")
         /\ UNCHANGED <<file, tmp, reading, writeErrors, loaded>>
    BY <1>0, <1>2, <1>4, <1>11, <1>15
  <1> HIDE DEF r
  <1> QED
    BY <1>0, <1>2, <1>6, <1>10, <1>11, <1>12, <1>13, <1>14, <1>15, <1>16, CallKeeps

\* cancel() up to its first await, from the API or from shutdown().
LEMMA CancelStep ==
  ASSUME IndInv, NEW x \in Tasks, CancelBegins(x), UNCHANGED <<phase, workflows>>,
         shutting' \in Tasks \cup {None}, doomed' \subseteq Tasks,
         UNCHANGED historyVars, UNCHANGED execVars, Unseen
  PROVE  IndInv'
  <1> DEFINE k == <<"cancel", x>>
             r == [tasks[x] EXCEPT !.state = "CANCELLED"]
  <1>0. /\ TaskInv(x) /\ Durable(x) /\ tasks \in [Tasks -> TaskRecords \cup {NoTask}]
        /\ tasks[x].state \in {"QUEUED", "RUNNING"} /\ starts[x] \in Nat
    BY DEF IndInv, CancelBegins, TypeOK
  <1>1. tasks[x] \in TaskRecords /\ tasks[x] # NoTask /\ loaded /\ phase # "down"
    BY <1>0 DEF NoTask, IndInv, Memory
  <1>2. k \in Waiters /\ Chained(k) /\ k[1] \notin Once
    BY DEF CancelBegins, Persist, Chained, Waiters, Once
  <1>3. /\ writes' \in Seq(Waiters)
        /\ \A y : y # k => (y \in Awaited(writes') <=> y \in Awaited(writes))
        /\ \A y : writes' # <<>> /\ Head(writes') = y /\ tmp # Absent =>
             writes # <<>> /\ Head(writes) = y
    BY <1>2, ChainedKeeps
  <1>4. /\ UNCHANGED <<file, bak, tmp, reading, writeErrors, restarts, loaded, workflows, phase>>
        /\ UNCHANGED <<exec, next, session, live, starts, deleted, runs, drawn>>
        /\ timers' = timers \ {x} /\ tasks' = [tasks EXCEPT ![x] = r]
        /\ cancels' \subseteq Tasks
    BY <1>0 DEF CancelBegins, Unseen, fileVars, historyVars, execVars, IndInv, TypeOK
  <1>5. /\ r \in TaskRecords /\ r # NoTask /\ r.state = "CANCELLED"
        /\ r.workflow = tasks[x].workflow /\ r.steps = tasks[x].steps
    BY <1>1 DEF TaskRecords, Terminal, NoTask
  <1>6. TypeOK'
    <2>1. tasks' \in [Tasks -> TaskRecords \cup {NoTask}] /\ timers' \subseteq Tasks
      BY <1>0, <1>4, <1>5 DEF IndInv, TypeOK
    <2> QED
      BY <1>3, <1>4, <2>1 DEF IndInv, TypeOK, FileTypeOK
  <1>7. tasks'[x] = r /\ \A t \in Tasks : t # x => tasks'[t] = tasks[t]
    BY <1>0, <1>4
  <1>8. \A n \in Once : <<n, x>> \in Awaited(writes') <=> <<n, x>> \in Awaited(writes)
    BY <1>3 DEF Once
  <1> HIDE DEF r, k
  <1>9. TaskInv(x)'
    <2>0. /\ <<"exec", x>> \in Awaited(writes') <=> <<"exec", x>> \in Awaited(writes)
          /\ <<"next", x>> \in Awaited(writes') <=> <<"next", x>> \in Awaited(writes)
          /\ <<"run", x>> \in Awaited(writes') <=> <<"run", x>> \in Awaited(writes)
      BY <1>8 DEF Once
    <2>2. Placed(x)'
      BY <1>0, <1>1, <1>4, <1>5, <1>7 DEF TaskInv, Placed
    <2>3. Awaiting(x)'
      BY <1>0, <1>4, <2>0 DEF TaskInv, Awaiting
    <2>4. Execution(x)'
      BY <1>0, <1>4, <1>5, <1>7 DEF TaskInv, Execution
    <2>5. Scheduled(x)' => Scheduled(x)
      BY <1>4, <2>0 DEF Scheduled
    <2>6. Schedule(x)'
      BY <1>0, <1>4, <1>5, <1>7, <2>0, <2>5 DEF TaskInv, Schedule
    <2>7. Attended(x)'
      BY <1>5, <1>7 DEF Attended
    <2> QED
      BY <2>2, <2>3, <2>4, <2>6, <2>7 DEF TaskInv
  <1>10. Durable(x)'
    BY <1>3, <1>4, KeptDurable
  <1>11. \A t, u \in Tasks : next'[t] = next'[u] /\ next'[t] # None => t = u
    BY <1>4 DEF IndInv, Memory
  <1>12. /\ workflows' \subseteq drawn'
         /\ reading.kind = "whole" => workflows' \cap reading.data.workflows = {}
    BY <1>4 DEF IndInv, Memory
  <1>13. \A t \in Tasks \ {x} :
           /\ tasks'[t] = tasks[t] /\ exec'[t] = exec[t] /\ starts'[t] = starts[t]
           /\ live'[t] \in {0, live[t]} /\ next'[t] = next[t]
           /\ \A u \in Tasks : next'[u] = t <=> next[u] = t
           /\ t \in timers' => t \in timers
           /\ phase' = "up" => (t \in timers => t \in timers')
           /\ tasks[t] # NoTask /\ tasks[t].workflow \in workflows' =>
                tasks[t].workflow \in workflows
    BY <1>4, <1>7
  <1>14. {x} \in SUBSET Tasks /\ \A t \in {x} : TaskInv(t)' /\ Durable(t)'
    BY <1>9, <1>10
  <1> QED
    BY <1>1, <1>2, <1>4, <1>6, <1>11, <1>12, <1>13, <1>14, CallKeeps

\* manager.stop of a cancelled task returns.
LEMMA CancelStoppedStep ==
  ASSUME IndInv, NEW x \in Tasks, CancelStopped(x)
  PROVE  IndInv'
  <1> DEFINE k == <<"cancel", x>>
  <1>1. k \in Waiters /\ Chained(k) /\ k[1] \notin Once
    BY DEF CancelStopped, Persist, Chained, Waiters, Once
  <1>2. writes' \in Seq(Waiters)
    BY <1>1, ChainedKeeps
  <1>3. /\ UNCHANGED <<file, bak, tmp, reading, writeErrors, restarts, loaded, workflows, timers>>
        /\ UNCHANGED <<phase, doomed, shutting, exec, next, session, starts, deleted, drawn, runs>>
        /\ UNCHANGED tasks /\ cancels' = cancels \ {x} /\ live' = [live EXCEPT ![x] = 0]
    BY DEF CancelStopped, Unseen, fileVars, historyVars
  <1>4. TypeOK'
    BY <1>2, <1>3 DEF IndInv, TypeOK, FileTypeOK
  <1>5. \A t \in Tasks : live'[t] \in {0, live[t]}
    BY <1>3 DEF IndInv, TypeOK
  <1>6. phase # "down" /\ (phase = "down" => ~loaded)
    BY DEF CancelStopped, IndInv, Memory
  <1>7. \A t, u \in Tasks : next'[t] = next'[u] /\ next'[t] # None => t = u
    BY <1>3 DEF IndInv, Memory
  <1>8. /\ workflows' \subseteq drawn'
        /\ reading.kind = "whole" => workflows' \cap reading.data.workflows = {}
    BY <1>3 DEF IndInv, Memory
  <1>9. \A t \in Tasks :
           /\ tasks'[t] = tasks[t] /\ exec'[t] = exec[t] /\ starts'[t] = starts[t]
           /\ live'[t] \in {0, live[t]} /\ next'[t] = next[t]
           /\ \A u \in Tasks : next'[u] = t <=> next[u] = t
           /\ t \in timers' => t \in timers
           /\ phase' = "up" => (t \in timers => t \in timers')
           /\ tasks[t] # NoTask /\ tasks[t].workflow \in workflows' =>
                tasks[t].workflow \in workflows
    BY <1>3, <1>5
  <1>10. PICK X \in SUBSET Tasks : X = {}
    OBVIOUS
  <1>11. loaded \/ (timers' \subseteq timers /\ UNCHANGED <<workflows, tasks>>)
    BY <1>3
  <1> QED
    BY <1>1, <1>3, <1>4, <1>6, <1>7, <1>8, <1>9, <1>10, <1>11, CallKeeps

\* shutdown() clears the timers, and saves when every task has been cancelled.
LEMMA ShutdownStep ==
  ASSUME IndInv, Shutdown \/ ShutdownSaves
  PROVE  IndInv'
  <1> DEFINE k == <<"shutdown", None>>
  <1>1. k \in Waiters /\ Chained(k) /\ k[1] \notin Once
    BY DEF Shutdown, ShutdownSaves, Persist, Chained, Waiters, Once
  <1>2. writes' \in Seq(Waiters)
    BY <1>1, ChainedKeeps
  <1>3. /\ UNCHANGED <<file, bak, tmp, reading, writeErrors, restarts, loaded, workflows, live>>
        /\ UNCHANGED <<cancels, shutting, exec, next, session, starts, deleted, drawn, runs>>
        /\ UNCHANGED tasks /\ phase' \in {"stopping", "saving"} /\ timers' \subseteq timers
    BY DEF Shutdown, ShutdownSaves, Unseen, fileVars, historyVars, execVars
  <1>4. doomed' \subseteq Tasks
    BY DEF Shutdown, ShutdownSaves, IndInv, TypeOK
  <1>5. TypeOK'
    BY <1>2, <1>3, <1>4 DEF IndInv, TypeOK, FileTypeOK
  <1>6. phase' # "up" /\ phase' # "down"
    BY <1>3
  <1>7. \A t, u \in Tasks : next'[t] = next'[u] /\ next'[t] # None => t = u
    BY <1>3 DEF IndInv, Memory
  <1>8. /\ workflows' \subseteq drawn'
        /\ reading.kind = "whole" => workflows' \cap reading.data.workflows = {}
    BY <1>3 DEF IndInv, Memory
  <1>9. \A t \in Tasks :
           /\ tasks'[t] = tasks[t] /\ exec'[t] = exec[t] /\ starts'[t] = starts[t]
           /\ live'[t] \in {0, live[t]} /\ next'[t] = next[t]
           /\ \A u \in Tasks : next'[u] = t <=> next[u] = t
           /\ t \in timers' => t \in timers
           /\ phase' = "up" => (t \in timers => t \in timers')
           /\ tasks[t] # NoTask /\ tasks[t].workflow \in workflows' =>
                tasks[t].workflow \in workflows
    BY <1>3
  <1>10. PICK X \in SUBSET Tasks : X = {}
    OBVIOUS
  <1>11. loaded \/ (timers' \subseteq timers /\ UNCHANGED <<workflows, tasks>>)
    BY <1>3
  <1> QED
    BY <1>1, <1>3, <1>5, <1>6, <1>7, <1>8, <1>9, <1>10, <1>11, CallKeeps

-----------------------------------------------------------------------------
(* Executions *)

\* An execution that has passed its first write: it goes from one await to another,
\* with record r, n browsers opened and l of them running.
ExecMoves(x, r, e, n, l) ==
    /\ tasks' = [tasks EXCEPT ![x] = r]
    /\ exec' = [exec EXCEPT ![x] = e]
    /\ starts' = [starts EXCEPT ![x] = n]
    /\ live' = [live EXCEPT ![x] = l]
    /\ IF e \in {"stepSaving", "ending"} THEN Persist(<<"exec", x>>) ELSE UNCHANGED writes
    /\ session' \in [Tasks -> BOOLEAN]
    /\ UNCHANGED <<workflows, timers, next, drawn, runs, deleted, stopVars>>
    /\ Unseen

LEMMA ExecutionMoves ==
  ASSUME IndInv, NEW x \in Tasks, exec[x] \in {"starting", "step", "stopping", "failing"},
         NEW r \in TaskRecords, NEW e \in {"step", "stepSaving", "stopping", "failing", "ending"},
         NEW n \in {0, 1}, NEW l \in Nat, ExecMoves(x, r, e, n, l),
         r.state # "QUEUED", r.workflow = tasks[x].workflow,
         e = "step" => r.steps < MaxSteps, l > 0 => e # "ending"
  PROVE  IndInv'
  <1> DEFINE k == <<"exec", x>>
  <1>0. /\ TaskInv(x) /\ Durable(x) /\ tasks \in [Tasks -> TaskRecords \cup {NoTask}]
        /\ starts \in [Tasks -> Nat] /\ live \in [Tasks -> Nat]
        /\ tasks[x] # NoTask
    BY DEF IndInv, TypeOK, TaskInv, Execution, NoTask
  <1>1. loaded /\ phase # "down" /\ ~Scheduled(x) /\ next[x] = None /\ k \notin Awaited(writes)
        /\ x \in drawn
    BY <1>0 DEF IndInv, Memory, TaskInv, Schedule, Awaiting, Placed
  <1>2. k \in Waiters /\ Chained(k)
    BY DEF ExecMoves, Persist, Chained, Waiters
  <1>3. /\ writes' \in Seq(Waiters)
        /\ \A y : y # k => (y \in Awaited(writes') <=> y \in Awaited(writes))
        /\ \A y : writes' # <<>> /\ Head(writes') = y /\ tmp # Absent =>
             writes # <<>> /\ Head(writes) = y
    BY <1>1, <1>2, ChainedKeeps
  <1>4. /\ UNCHANGED <<file, bak, tmp, reading, writeErrors, restarts, loaded, workflows, timers>>
        /\ UNCHANGED <<phase, cancels, doomed, shutting, next, deleted, drawn, runs>>
    BY DEF ExecMoves, Unseen, fileVars, stopVars
  <1>5. /\ tasks' \in [Tasks -> TaskRecords \cup {NoTask}] /\ starts' \in [Tasks -> Nat]
        /\ exec' = [exec EXCEPT ![x] = e] /\ session' \in [Tasks -> BOOLEAN]
        /\ live' \in [Tasks -> Nat]
        /\ tasks'[x] = r /\ starts'[x] = n /\ live'[x] = l
    BY <1>0 DEF ExecMoves
  <1>6. /\ exec'[x] = e
        /\ exec' \in [Tasks -> {"none", "marking", "starting", "step", "stepSaving", "stopping",
                                "failing", "ending", "rescheduling", "noting"}]
    BY <1>5 DEF IndInv, TypeOK
  <1>7. TypeOK'
    BY <1>3, <1>4, <1>5, <1>6 DEF IndInv, TypeOK, FileTypeOK
  <1>8. \A t \in Tasks : t # x => /\ tasks'[t] = tasks[t] /\ exec'[t] = exec[t]
                                  /\ starts'[t] = starts[t] /\ live'[t] = live[t]
    BY <1>0, <1>5 DEF ExecMoves, IndInv, TypeOK
  <1>9. k \in Awaited(writes') => e \in {"stepSaving", "ending"}
    BY <1>1 DEF ExecMoves
  <1>10. TaskInv(x)'
    <2>1. Placed(x)'
      BY <1>0, <1>1, <1>4, <1>5 DEF TaskInv, Placed
    <2>2. <<"next", x>> # k /\ <<"run", x>> # k
      OBVIOUS
    <2>3. Awaiting(x)'
      BY <1>0, <1>1, <1>3, <1>4, <1>6, <1>9, <2>2 DEF TaskInv, Awaiting
    <2>4. ~Scheduled(x)'
      BY <1>1, <1>3, <1>4, <2>2 DEF Scheduled
    <2>5. Schedule(x)' /\ Attended(x)'
      BY <1>5, <2>4 DEF Schedule, Attended, Scheduled
    <2>6. r.state # "NONE"
      BY DEF TaskRecords, Terminal
    <2>7. Execution(x)'
      BY <1>0, <1>5, <1>6, <2>6 DEF TaskInv, Execution
    <2> QED
      BY <2>1, <2>3, <2>5, <2>7 DEF TaskInv
  <1>11. Durable(x)'
    BY <1>0, <1>4, <1>6 DEF Durable
  <1>12. \A t, u \in Tasks : next'[t] = next'[u] /\ next'[t] # None => t = u
    BY <1>4 DEF IndInv, Memory
  <1>13. /\ workflows' \subseteq drawn'
         /\ reading.kind = "whole" => workflows' \cap reading.data.workflows = {}
    BY <1>4 DEF IndInv, Memory
  <1>14. \A t \in Tasks \ {x} :
           /\ tasks'[t] = tasks[t] /\ exec'[t] = exec[t] /\ starts'[t] = starts[t]
           /\ live'[t] \in {0, live[t]} /\ next'[t] = next[t]
           /\ \A u \in Tasks : next'[u] = t <=> next[u] = t
           /\ t \in timers' => t \in timers
           /\ phase' = "up" => (t \in timers => t \in timers')
           /\ tasks[t] # NoTask /\ tasks[t].workflow \in workflows' =>
                tasks[t].workflow \in workflows
    BY <1>4, <1>8
  <1>15. PICK X \in SUBSET Tasks : X = {x}
    OBVIOUS
  <1>16. /\ k \notin Awaited(writes) /\ k[2] \in X
         /\ drawn \subseteq drawn' /\ phase' # "down" /\ (phase' = "up" => phase = "up")
         /\ UNCHANGED <<file, tmp, reading, writeErrors, loaded>>
    BY <1>1, <1>4, <1>15
  <1> HIDE DEF k
  <1> QED
    BY <1>1, <1>2, <1>7, <1>10, <1>11, <1>12, <1>13, <1>14, <1>15, <1>16, CallKeeps

\* The record of a task in execution, with another state or one more step.
LEMMA RecordInHand ==
  ASSUME IndInv, NEW x \in Tasks, exec[x] # "none"
  PROVE  /\ tasks[x] \in TaskRecords /\ tasks[x].state # "QUEUED"
         /\ tasks = [tasks EXCEPT ![x] = tasks[x]]
         /\ starts = [starts EXCEPT ![x] = starts[x]] /\ live = [live EXCEPT ![x] = live[x]]
         /\ starts[x] \in {0, 1} /\ live[x] \in Nat
         /\ session \in [Tasks -> BOOLEAN]
         /\ \A state \in Terminal :
              /\ [tasks[x] EXCEPT !.state = state] \in TaskRecords
              /\ [tasks[x] EXCEPT !.state = state].state = state
              /\ [tasks[x] EXCEPT !.state = state].workflow = tasks[x].workflow
  <1>1. /\ tasks \in [Tasks -> TaskRecords \cup {NoTask}] /\ starts \in [Tasks -> Nat]
        /\ live \in [Tasks -> Nat] /\ TaskInv(x) /\ session \in [Tasks -> BOOLEAN]
    BY DEF IndInv, TypeOK
  <1>2. tasks[x].state \notin {"QUEUED", "NONE"} /\ starts[x] <= 1
    BY <1>1 DEF TaskInv, Execution
  <1>3. tasks[x] \in TaskRecords
    BY <1>1, <1>2 DEF NoTask
  <1>4. starts[x] \in {0, 1}
    BY <1>1, <1>2
  <1>5. ASSUME NEW state \in Terminal
        PROVE  /\ [tasks[x] EXCEPT !.state = state] \in TaskRecords
               /\ [tasks[x] EXCEPT !.state = state].state = state
               /\ [tasks[x] EXCEPT !.state = state].workflow = tasks[x].workflow
    BY <1>3 DEF TaskRecords
  <1> QED
    BY <1>1, <1>2, <1>3, <1>4, <1>5

LEMMA SessionStartsStep ==
  ASSUME IndInv, NEW x \in Tasks, SessionStarts(x)
  PROVE  IndInv'
  <1> DEFINE e == AtStep(tasks[x])
  <1>1. exec[x] = "starting" /\ starts[x] = 0
    BY DEF SessionStarts, IndInv, TaskInv, Execution
  <1>2. /\ tasks[x] \in TaskRecords /\ tasks[x].state # "QUEUED"
        /\ tasks = [tasks EXCEPT ![x] = tasks[x]] /\ live[x] \in Nat
        /\ session \in [Tasks -> BOOLEAN]
    BY <1>1, RecordInHand
  <1>3. e \in {"step", "stopping"} /\ (e = "step" => tasks[x].steps < MaxSteps)
    BY <1>2, RpaAssumption DEF AtStep, TaskRecords
  <1>4. ExecMoves(x, tasks[x], e, 1, live[x] + 1)
    <2>1. starts' = [starts EXCEPT ![x] = 1]
      BY <1>1 DEF SessionStarts
    <2>2. session' \in [Tasks -> BOOLEAN]
      BY <1>2 DEF SessionStarts
    <2> QED
      BY <1>2, <1>3, <2>1, <2>2 DEF SessionStarts, ExecMoves
  <1> HIDE DEF e
  <1> QED
    BY <1>1, <1>2, <1>3, <1>4, ExecutionMoves

LEMMA StepEndsStep ==
  ASSUME IndInv, NEW x \in Tasks, NEW ok \in BOOLEAN, NEW onError \in {"stop", "continue"},
         StepEnds(x, ok, onError)
  PROVE  IndInv'
  <1>1. exec[x] = "step" /\ tasks[x].steps < MaxSteps
    BY DEF StepEnds, IndInv, TaskInv, Execution
  <1>2. /\ tasks[x] \in TaskRecords /\ tasks[x].state # "QUEUED"
        /\ tasks = [tasks EXCEPT ![x] = tasks[x]] /\ live[x] \in Nat /\ starts[x] \in {0, 1}
        /\ starts = [starts EXCEPT ![x] = starts[x]] /\ live = [live EXCEPT ![x] = live[x]]
        /\ session \in [Tasks -> BOOLEAN]
    BY <1>1, RecordInHand
  <1>3. /\ UNCHANGED <<workflows, timers, next, session, live, drawn, deleted, starts, runs, stopVars>>
        /\ Unseen
    BY DEF StepEnds, historyVars
  <1>4. CASE StepCounts(x)
    <2> DEFINE r == [tasks[x] EXCEPT !.steps = tasks[x].steps + 1]
    <2>1. /\ r \in TaskRecords /\ r.state = tasks[x].state /\ r.workflow = tasks[x].workflow
      BY <1>1, <1>2, RpaAssumption DEF TaskRecords
    <2>2. tasks' = [tasks EXCEPT ![x] = r]
      BY <1>4 DEF StepCounts
    <2>3. ExecMoves(x, r, "stepSaving", starts[x], live[x])
      BY <1>2, <1>3, <1>4, <2>2 DEF StepCounts, ExecMoves
    <2> HIDE DEF r
    <2> QED
      BY <1>1, <1>2, <2>1, <2>3, ExecutionMoves
  <1>5. CASE exec' = [exec EXCEPT ![x] = "failing"] /\ UNCHANGED <<tasks, writes>>
    <2>1. ExecMoves(x, tasks[x], "failing", starts[x], live[x])
      BY <1>2, <1>3, <1>5 DEF ExecMoves
    <2> QED
      BY <1>1, <1>2, <2>1, ExecutionMoves
  <1> QED
    BY <1>4, <1>5 DEF StepEnds

\* The end of an execution: manager.stop returns or the catch clause is left.
LEMMA EndsStep ==
  ASSUME IndInv, NEW x \in Tasks, exec[x] \in {"starting", "stopping", "failing"},
         NEW state \in Terminal, Ends(x, state),
         UNCHANGED <<workflows, timers, next, historyVars, stopVars>>, Unseen
  PROVE  IndInv'
  <1>1. /\ tasks[x] \in TaskRecords /\ starts[x] \in {0, 1}
        /\ starts = [starts EXCEPT ![x] = starts[x]] /\ session \in [Tasks -> BOOLEAN]
        /\ [tasks[x] EXCEPT !.state = state] \in TaskRecords
        /\ [tasks[x] EXCEPT !.state = state].state = state
        /\ [tasks[x] EXCEPT !.state = state].workflow = tasks[x].workflow
    BY RecordInHand
  <1> DEFINE r == [tasks[x] EXCEPT !.state = state]
  <1>2. ExecMoves(x, r, "ending", starts[x], 0)
    BY <1>1 DEF Ends, ExecMoves, historyVars
  <1>3. r \in TaskRecords /\ r.state # "QUEUED" /\ r.workflow = tasks[x].workflow
    BY <1>1 DEF Terminal
  <1> HIDE DEF r
  <1> QED
    BY <1>1, <1>2, <1>3, ExecutionMoves

LEMMA SessionStopsStep ==
  ASSUME IndInv, NEW x \in Tasks, NEW ok \in BOOLEAN, SessionStops(x, ok)
  PROVE  IndInv'
  <1>1. exec[x] = "stopping"
    BY DEF SessionStops
  <1>2. CASE Ends(x, "SUCCEEDED")
    BY <1>1, <1>2, EndsStep DEF SessionStops, Terminal
  <1>3. CASE exec' = [exec EXCEPT ![x] = "failing"] /\ UNCHANGED <<tasks, session, live, writes>>
    <2>1. /\ tasks[x] \in TaskRecords /\ tasks[x].state # "QUEUED"
          /\ tasks = [tasks EXCEPT ![x] = tasks[x]] /\ live[x] \in Nat /\ starts[x] \in {0, 1}
          /\ starts = [starts EXCEPT ![x] = starts[x]] /\ live = [live EXCEPT ![x] = live[x]]
          /\ session \in [Tasks -> BOOLEAN]
      BY <1>1, RecordInHand
    <2>2. ExecMoves(x, tasks[x], "failing", starts[x], live[x])
      BY <1>3, <2>1 DEF SessionStops, ExecMoves, historyVars
    <2> QED
      BY <1>1, <2>1, <2>2, ExecutionMoves
  <1> QED
    BY <1>2, <1>3 DEF SessionStops

LEMMA ExecutionFailsStep ==
  ASSUME IndInv, NEW x \in Tasks, ExecutionFails(x)
  PROVE  IndInv'
  <1>1. PICK state \in Terminal : Ends(x, state)
    BY DEF ExecutionFails, Terminal
  <1> QED
    BY <1>1, EndsStep DEF ExecutionFails

\* The timer callback: the execution begins with the write that says RUNNING.
LEMMA TimerFiresStep ==
  ASSUME IndInv, NEW x \in Tasks, TimerFires(x)
  PROVE  IndInv'
  <1> DEFINE k == <<"exec", x>>
  <1>0. /\ TaskInv(x) /\ Durable(x) /\ tasks \in [Tasks -> TaskRecords \cup {NoTask}]
        /\ x \in timers /\ starts[x] \in Nat /\ live[x] \in Nat
        /\ timers' = timers \ {x}
    BY DEF IndInv, TypeOK, TimerFires
  <1>1. /\ tasks[x].state \in {"QUEUED", "CANCELLED"} /\ exec[x] = "none" /\ starts[x] = 0
        /\ <<"run", x>> \notin Awaited(writes) /\ \A u \in Tasks : next[u] # x
        /\ k \notin Awaited(writes) /\ next[x] = None
    BY <1>0 DEF TaskInv, Schedule, Scheduled, Awaiting
  <1>2. tasks[x] \in TaskRecords /\ tasks[x] # NoTask /\ loaded /\ phase # "down"
    BY <1>0, <1>1 DEF NoTask, IndInv, Memory
  <1>3. k \in Waiters /\ Chained(k)
    BY DEF TimerFires, Persist, Chained, Waiters
  <1>4. /\ writes' \in Seq(Waiters)
        /\ \A y : y # k => (y \in Awaited(writes') <=> y \in Awaited(writes))
        /\ \A y : writes' # <<>> /\ Head(writes') = y /\ tmp # Absent =>
             writes # <<>> /\ Head(writes) = y
    BY <1>1, <1>3, ChainedKeeps
  <1>5. /\ UNCHANGED <<file, bak, tmp, reading, writeErrors, restarts, loaded, workflows>>
        /\ UNCHANGED <<phase, cancels, doomed, shutting, next, session, live>>
        /\ UNCHANGED <<deleted, drawn, runs, starts>>
    BY DEF TimerFires, Unseen, fileVars, historyVars, stopVars
  <1>6. <<"next", x>> # k /\ <<"run", x>> # k
    OBVIOUS
  <1>7. ~Scheduled(x)'
    BY <1>0, <1>1, <1>4, <1>5, <1>6 DEF Scheduled
  <1>8. Schedule(x)'
    BY <1>7 DEF Schedule, Scheduled
  <1>9. /\ TypeOK' /\ TaskInv(x)' /\ Durable(x)'
        /\ \A t \in Tasks : t # x => tasks'[t] = tasks[t] /\ exec'[t] = exec[t]
    <2>1. CASE /\ tasks[x].workflow \notin workflows \/ tasks[x].state = "CANCELLED"
               /\ UNCHANGED <<tasks, exec, writes>>
      <3>1. TypeOK'
        BY <1>0, <1>4, <1>5, <2>1 DEF IndInv, TypeOK, FileTypeOK
      <3>2. TaskInv(x)'
        <4>1. Attended(x)'
          BY <1>5, <2>1 DEF Attended
        <4>2. Placed(x)' /\ Awaiting(x)' /\ Execution(x)'
          BY <1>0, <1>5, <2>1 DEF TaskInv, Placed, Awaiting, Execution
        <4> QED
          BY <1>8, <4>1, <4>2 DEF TaskInv
      <3>3. Durable(x)'
        BY <1>0, <1>5, <2>1 DEF Durable
      <3> QED
        BY <2>1, <3>1, <3>2, <3>3
    <2>2. CASE /\ tasks' = [tasks EXCEPT ![x].state = "RUNNING"]
               /\ exec' = [exec EXCEPT ![x] = "marking"]
               /\ Persist(k)
      <3> DEFINE r == [tasks[x] EXCEPT !.state = "RUNNING"]
      <3>1. /\ r \in TaskRecords /\ r.state = "RUNNING" /\ r.workflow = tasks[x].workflow
            /\ r # NoTask
        BY <1>2 DEF TaskRecords, NoTask
      <3>2. tasks' = [tasks EXCEPT ![x] = r]
        BY <2>2
      <3> HIDE DEF r
      <3>3. /\ tasks' \in [Tasks -> TaskRecords \cup {NoTask}] /\ tasks'[x] = r
            /\ exec' \in [Tasks -> {"none", "marking", "starting", "step", "stepSaving", "stopping",
                                    "failing", "ending", "rescheduling", "noting"}]
            /\ exec'[x] = "marking"
            /\ \A t \in Tasks : t # x => tasks'[t] = tasks[t] /\ exec'[t] = exec[t]
        BY <1>0, <2>2, <3>1, <3>2 DEF IndInv, TypeOK
      <3>4. TypeOK'
        BY <1>0, <1>4, <1>5, <3>3 DEF IndInv, TypeOK, FileTypeOK
      <3>5. Placed(x)'
        BY <1>0, <1>2, <1>5, <3>1, <3>3 DEF TaskInv, Placed
      <3>6. Awaiting(x)'
        BY <1>0, <1>1, <1>4, <1>5, <1>6, <3>3 DEF TaskInv, Awaiting
      <3>7. Execution(x)' /\ Attended(x)'
        BY <1>0, <1>1, <1>5, <3>1, <3>3 DEF TaskInv, Execution, Attended
      <3>8. Durable(x)'
        <4>1. ASSUME writes' # <<>>, Head(writes') = k
              PROVE  tmp = Absent
          <5>1. SUFFICES ASSUME tmp # Absent
                         PROVE  FALSE
            OBVIOUS
          <5>2. writes # <<>> /\ Head(writes) = k
            BY <1>4, <4>1, <5>1
          <5>3. Head(writes) \in Awaited(writes)
            BY <5>2, ChainShrinks DEF IndInv, TypeOK, Memory
          <5> QED
            BY <1>1, <5>2, <5>3
        <4>2. NotQueued(Absent, x)
          BY DEF NotQueued, Absent
        <4> QED
          BY <1>1, <1>5, <3>3, <4>1, <4>2 DEF Durable
      <3> QED
        BY <1>8, <3>3, <3>4, <3>5, <3>6, <3>7, <3>8 DEF TaskInv
    <2> QED
      BY <2>1, <2>2 DEF TimerFires
  <1>12. \A t, u \in Tasks : next'[t] = next'[u] /\ next'[t] # None => t = u
    BY <1>5 DEF IndInv, Memory
  <1>13. /\ workflows' \subseteq drawn'
         /\ reading.kind = "whole" => workflows' \cap reading.data.workflows = {}
    BY <1>5 DEF IndInv, Memory
  <1>15. PICK X \in SUBSET Tasks : X = {x}
    OBVIOUS
  <1>14. \A t \in Tasks \ X :
           /\ tasks'[t] = tasks[t] /\ exec'[t] = exec[t] /\ starts'[t] = starts[t]
           /\ live'[t] \in {0, live[t]} /\ next'[t] = next[t]
           /\ \A u \in Tasks : next'[u] = t <=> next[u] = t
           /\ t \in timers' => t \in timers
           /\ phase' = "up" => (t \in timers => t \in timers')
           /\ tasks[t] # NoTask /\ tasks[t].workflow \in workflows' =>
                tasks[t].workflow \in workflows
    BY <1>0, <1>5, <1>9, <1>15
  <1>16. /\ k \notin Awaited(writes) /\ k[2] \in X
         /\ drawn \subseteq drawn' /\ phase' # "down" /\ (phase' = "up" => phase = "up")
         /\ UNCHANGED <<file, tmp, reading, writeErrors, loaded>>
         /\ \A t \in X : TaskInv(t)' /\ Durable(t)'
    BY <1>1, <1>2, <1>5, <1>9, <1>15
  <1> HIDE DEF k
  <1> QED
    BY <1>2, <1>3, <1>9, <1>12, <1>13, <1>14, <1>15, <1>16, CallKeeps

\* run() for the next period: the new task is scheduled by the write it awaits.
LEMMA RescheduleStep ==
  ASSUME IndInv, NEW x \in Tasks, NEW nt \in Tasks, Reschedule(x, nt)
  PROVE  IndInv'
  <1> DEFINE k == <<"next", x>>
             w == tasks[x].workflow
             r == [workflow |-> w, state |-> "QUEUED", recurring |-> TRUE, steps |-> 0]
  <1>0. /\ TaskInv(x) /\ Durable(x) /\ TaskInv(nt) /\ Durable(nt) /\ nt \notin drawn
        /\ tasks \in [Tasks -> TaskRecords \cup {NoTask}]
        /\ starts[nt] \in Nat /\ live[nt] \in Nat /\ w \in workflows /\ w \in drawn
        /\ w \in Workflows /\ exec[x] = "rescheduling"
        /\ exec \in [Tasks -> {"none", "marking", "starting", "step", "stepSaving", "stopping",
                               "failing", "ending", "rescheduling", "noting"}]
        /\ next \in [Tasks -> Tasks \cup {None}]
    BY DEF IndInv, Reschedule, NewTask, Memory, TypeOK
  <1>1. /\ tasks[nt] = NoTask /\ tasks[nt].state = "NONE" /\ starts[nt] = 0 /\ ~Scheduled(nt)
        /\ exec[nt] = "none" /\ next[nt] = None
    BY <1>0 DEF TaskInv, Placed, Schedule, Execution, NoTask, Awaiting
  <1>2. /\ tasks[x].state \notin {"QUEUED", "NONE"} /\ tasks[x] # NoTask /\ x \in drawn /\ x # nt
        /\ next[x] = None /\ k \notin Awaited(writes) /\ ~Scheduled(x) /\ loaded /\ phase # "down"
        /\ <<"exec", x>> \notin Awaited(writes)
    BY <1>0 DEF TaskInv, Execution, Placed, Awaiting, Schedule, NoTask, IndInv, Memory
  <1>3. k \in Waiters /\ Chained(k) /\ writes' = Append(writes, k)
    BY DEF Reschedule, Persist, Waiters, Chained
  <1>4. /\ writes' \in Seq(Waiters)
        /\ \A y : y # k => (y \in Awaited(writes') <=> y \in Awaited(writes))
        /\ \A y : writes' # <<>> /\ Head(writes') = y /\ tmp # Absent =>
             writes # <<>> /\ Head(writes) = y
        /\ k \in Awaited(writes')
    <2>1. k \in Awaited(Append(writes, k))
      BY <1>3, ChainGrows DEF IndInv, TypeOK
    <2>2. k \in Awaited(writes')
      BY <1>3, <2>1
    <2> HIDE DEF k
    <2> QED
      BY <1>2, <1>3, <2>2, ChainedKeeps
  <1>5. /\ UNCHANGED <<file, bak, tmp, reading, writeErrors, restarts, loaded, workflows, timers>>
        /\ UNCHANGED <<phase, cancels, doomed, shutting, session, live, starts, deleted, runs>>
        /\ drawn' = drawn \cup {nt} /\ tasks' = [tasks EXCEPT ![nt] = r]
        /\ next' = [next EXCEPT ![x] = nt] /\ exec' = [exec EXCEPT ![x] = "noting"]
    BY DEF Reschedule, NewTask, Unseen, fileVars, stopVars
  <1>6. r \in TaskRecords /\ r # NoTask /\ r.state = "QUEUED" /\ r.workflow = w
    BY <1>0, RpaAssumption DEF TaskRecords, NoTask
  <1> HIDE DEF r
  <1>7. /\ tasks' \in [Tasks -> TaskRecords \cup {NoTask}] /\ next' \in [Tasks -> Tasks \cup {None}]
        /\ exec' \in [Tasks -> {"none", "marking", "starting", "step", "stepSaving", "stopping",
                                "failing", "ending", "rescheduling", "noting"}]
        /\ tasks'[nt] = r /\ next'[x] = nt /\ exec'[x] = "noting"
        /\ \A t \in Tasks : t # nt => tasks'[t] = tasks[t]
        /\ \A t \in Tasks : t # x => next'[t] = next[t] /\ exec'[t] = exec[t]
    BY <1>0, <1>5, <1>6
  <1>8. TypeOK'
    <2>1. drawn' \subseteq Tasks \cup Workflows
      BY <1>5 DEF IndInv, TypeOK
    <2> QED
      BY <1>4, <1>5, <1>7, <2>1 DEF IndInv, TypeOK, FileTypeOK
  <1>9. nt # None /\ \A u \in Tasks : next'[u] = nt <=> u = x
    BY <1>1, <1>7, RpaAssumption DEF Scheduled
  <1>10. TaskInv(nt)' /\ Durable(nt)'
    <2>1. <<"run", nt>> # k /\ <<"exec", nt>> # k /\ <<"next", nt>> # k
      BY <1>2
    <2>2. reading.kind = "whole" => reading.data.tasks[nt] = NoTask /\ w \notin reading.data.workflows
      BY <1>0 DEF IndInv, Files, Known, Memory
    <2>3. Placed(nt)'
      BY <1>0, <1>1, <1>5, <1>6, <1>7, <2>2 DEF Placed
    <2>4. Awaiting(nt)' /\ Execution(nt)'
      BY <1>0, <1>1, <1>2, <1>4, <1>5, <1>6, <1>7, <2>1 DEF TaskInv, Awaiting, Execution
    <2>5. Scheduled(nt)' /\ nt \notin timers' /\ <<"run", nt>> \notin Awaited(writes')
      BY <1>1, <1>4, <1>5, <1>9, <2>1 DEF Scheduled
    <2>6. Schedule(nt)' /\ Attended(nt)'
      BY <1>1, <1>2, <1>5, <1>6, <1>7, <2>5 DEF Schedule, Attended
    <2>7. Durable(nt)'
      BY <1>1, <1>2, <1>5, <1>7 DEF Durable
    <2> QED
      BY <2>3, <2>4, <2>6, <2>7 DEF TaskInv
  <1>11. TaskInv(x)' /\ Durable(x)'
    <2>1. <<"run", x>> # k /\ <<"exec", x>> # k
      OBVIOUS
    <2>2. Placed(x)' /\ Execution(x)' /\ Attended(x)'
      BY <1>0, <1>2, <1>5, <1>7 DEF TaskInv, Placed, Execution, Attended
    <2>3. Awaiting(x)'
      BY <1>2, <1>4, <1>7, <1>9, <2>1 DEF Awaiting
    <2>4. ~Scheduled(x)'
      BY <1>2, <1>4, <1>5, <1>7, <1>9, <2>1 DEF Scheduled
    <2>5. Schedule(x)'
      BY <2>4 DEF Schedule, Scheduled
    <2>6. Durable(x)'
      BY <1>0, <1>5, <1>7 DEF Durable
    <2> QED
      BY <2>2, <2>3, <2>5, <2>6 DEF TaskInv
  <1>12. \A t, u \in Tasks : next'[t] = next'[u] /\ next'[t] # None => t = u
    BY <1>7, <1>9 DEF IndInv, Memory
  <1>13. /\ workflows' \subseteq drawn'
         /\ reading.kind = "whole" => workflows' \cap reading.data.workflows = {}
    BY <1>5 DEF IndInv, Memory
  <1>15. PICK X \in SUBSET Tasks : X = {x, nt}
    OBVIOUS
  <1>14. \A t \in Tasks \ X :
           /\ tasks'[t] = tasks[t] /\ exec'[t] = exec[t] /\ starts'[t] = starts[t]
           /\ live'[t] \in {0, live[t]} /\ next'[t] = next[t]
           /\ \A u \in Tasks : next'[u] = t <=> next[u] = t
           /\ t \in timers' => t \in timers
           /\ phase' = "up" => (t \in timers => t \in timers')
           /\ tasks[t] # NoTask /\ tasks[t].workflow \in workflows' =>
                tasks[t].workflow \in workflows
    <2>1. SUFFICES ASSUME NEW t \in Tasks, t # x, t # nt
                   PROVE  /\ tasks'[t] = tasks[t] /\ exec'[t] = exec[t] /\ next'[t] = next[t]
                          /\ \A u \in Tasks : next'[u] = t <=> next[u] = t
      BY <1>5, <1>15
    <2>2. t # None
      BY RpaAssumption
    <2> QED
      BY <1>2, <1>7, <2>1, <2>2
  <1>16. /\ k \notin Awaited(writes) /\ k[2] \in X
         /\ drawn \subseteq drawn' /\ phase' # "down" /\ (phase' = "up" => phase = "up")
         /\ UNCHANGED <<file, tmp, reading, writeErrors, loaded>>
         /\ \A t \in X : TaskInv(t)' /\ Durable(t)'
    BY <1>2, <1>5, <1>10, <1>11, <1>15
  <1> HIDE DEF k, w
  <1> QED
    BY <1>2, <1>3, <1>8, <1>12, <1>13, <1>14, <1>15, <1>16, CallKeeps

-----------------------------------------------------------------------------
(* The process *)

\* The process dies: what is left is the file.
LEMMA DiesStep ==
  ASSUME IndInv, Dies, UNCHANGED restarts, writeErrors' \in 0 .. MaxWriteErrors,
         UNCHANGED historyVars
  PROVE  IndInv'
  <1>1. /\ UNCHANGED <<file, drawn, deleted, starts, runs>> /\ tmp' = Absent /\ phase' = "down"
        /\ IsContents(bak', Snapshots)
    BY DEF Dies, WriteAbandoned, Copied, historyVars, IndInv, TypeOK, FileTypeOK
  <1>2. /\ loaded' = FALSE /\ reading' = NoRead /\ workflows' = {} /\ timers' = {} /\ writes' = <<>>
        /\ tasks' = [t \in Tasks |-> NoTask] /\ exec' = [t \in Tasks |-> "none"]
        /\ next' = [t \in Tasks |-> None] /\ session' = [t \in Tasks |-> FALSE]
        /\ live' = [t \in Tasks |-> 0] /\ cancels' = {} /\ doomed' = {} /\ shutting' = None
    BY DEF Dies, Fresh
  <1>3. <<>> \in Seq(Waiters) /\ Awaited(<<>>) = {} /\ Distinct(<<>>)
    BY DEF Awaited, Distinct
  <1>4. TypeOK'
    BY <1>1, <1>2, <1>3 DEF IndInv, TypeOK, FileTypeOK, IsContents
  <1>5. Files'
    BY <1>1, <1>2 DEF IndInv, Files, Known, NoRead, Absent
  <1>6. Memory'
    BY <1>1, <1>2, <1>3 DEF Memory, NoRead
  <1>7. ASSUME NEW t \in Tasks
        PROVE  TaskInv(t)' /\ Durable(t)'
    <2>1. TaskInv(t) /\ Durable(t) /\ starts[t] \in Nat
      BY DEF IndInv, TypeOK
    <2>2. /\ tasks'[t] = NoTask /\ NoTask.state = "NONE" /\ exec'[t] = "none" /\ next'[t] = None
          /\ live'[t] = 0 /\ starts'[t] = starts[t] /\ \A u \in Tasks : next'[u] # t
      BY <1>1, <1>2, RpaAssumption DEF NoTask
    <2>3. ~Scheduled(t)'
      BY <1>2, <1>3, <2>2 DEF Scheduled
    <2>4. Placed(t)' /\ Awaiting(t)'
      BY <1>1, <1>2, <1>3, <2>1, <2>2 DEF TaskInv, Placed, Awaiting
    <2>5. Schedule(t)' /\ Execution(t)' /\ Attended(t)'
      BY <2>1, <2>2, <2>3 DEF TaskInv, Schedule, Execution, Attended, Scheduled
    <2>6. Durable(t)'
      BY <1>1, <1>2, <2>1, <2>2 DEF Durable, NotQueued, Absent, NoRead
    <2> QED
      BY <2>4, <2>5, <2>6 DEF TaskInv
  <1> QED
    BY <1>4, <1>5, <1>6, <1>7 DEF IndInv

LEMMA RestartStep ==
  ASSUME IndInv, Restart
  PROVE  IndInv'
  <1>1. /\ UNCHANGED <<file, bak, tmp, loaded, reading, workflows, tasks, timers, writes>>
        /\ UNCHANGED <<exec, next, session, live, cancels, doomed, shutting>>
        /\ UNCHANGED <<writeErrors, drawn, deleted, starts, runs>>
        /\ phase = "down" /\ phase' = "up" /\ restarts' \in 0 .. MaxRestarts
    BY RpaAssumption
       DEF Restart, fileVars, memoryVars, execVars, historyVars, IndInv, TypeOK
  <1>2. TypeOK'
    BY <1>1 DEF IndInv, TypeOK, FileTypeOK
  <1>3. Files' /\ Memory'
    BY <1>1 DEF IndInv, Files, Memory, Known
  <1>4. ASSUME NEW t \in Tasks
        PROVE  TaskInv(t)' /\ Durable(t)'
    <2>1. TaskInv(t) /\ Durable(t) /\ tasks[t].state = "NONE"
      BY <1>1 DEF IndInv, Memory, NoTask
    <2>2. Placed(t)' /\ Awaiting(t)' /\ Schedule(t)' /\ Execution(t)' /\ Durable(t)'
      BY <1>1, <2>1 DEF TaskInv, Placed, Awaiting, Schedule, Scheduled, Execution, Durable, NotQueued
    <2>3. Attended(t)'
      BY <1>1, <2>1 DEF Attended
    <2> QED
      BY <2>2, <2>3 DEF TaskInv
  <1> QED
    BY <1>2, <1>3, <1>4 DEF IndInv

LEMMA LoadBeginsStep ==
  ASSUME IndInv, LoadBegins
  PROVE  IndInv'
  <1>1. /\ UNCHANGED <<file, bak, tmp, workflows, tasks, timers, writes, restarts, writeErrors>>
        /\ UNCHANGED <<drawn, deleted, starts, runs, phase, cancels, doomed, shutting>>
        /\ UNCHANGED <<exec, next, session, live>> /\ phase # "down" /\ ~loaded /\ loaded' = TRUE
    BY DEF LoadBegins, fileVars, historyVars, stopVars, execVars
  <1>2. reading = NoRead /\ workflows = {} /\ \A t \in Tasks : tasks[t] = NoTask
    BY <1>1 DEF IndInv, Memory
  <1>3. IsContents(file, Snapshots) /\ file.kind # "torn"
    BY DEF IndInv, TypeOK, FileTypeOK, Files
  <1>4. reading' = NoRead \/ (reading' = file /\ file.kind = "whole")
    BY <1>3 DEF LoadBegins, ReadJson, IsContents, Absent, Torn
  <1>5. TypeOK'
    BY <1>1, <1>3, <1>4 DEF IndInv, TypeOK, FileTypeOK
  <1>6. Files'
    BY <1>1, <1>4 DEF IndInv, Files, Known, NoRead
  <1>7. Memory'
    BY <1>1, <1>2 DEF IndInv, Memory
  <1>8. ASSUME NEW t \in Tasks
        PROVE  TaskInv(t)' /\ Durable(t)'
    <2>1. TaskInv(t) /\ Durable(t)
      BY DEF IndInv
    <2>2. Placed(t)'
      BY <1>1, <1>2, <2>1 DEF TaskInv, Placed
    <2>3. Awaiting(t)' /\ Schedule(t)' /\ Execution(t)' /\ Attended(t)'
      BY <1>1, <2>1 DEF TaskInv, Awaiting, Schedule, Scheduled, Execution, Attended
    <2>4. Durable(t)'
      BY <1>1, <1>4, <2>1 DEF Durable, NotQueued, NoRead
    <2> QED
      BY <2>2, <2>3, <2>4 DEF TaskInv
  <1> QED
    BY <1>5, <1>6, <1>7, <1>8 DEF IndInv

\* load() applies what it has read: none of it is in memory yet, and a task with a
\* browser behind it is not queued.
LEMMA LoadEndsStep ==
  ASSUME IndInv, LoadEnds
  PROVE  IndInv'
  <1> DEFINE D == reading.data
             stored == {t \in Tasks : D.tasks[t] # NoTask}
  <1>1. /\ UNCHANGED <<file, bak, tmp, loaded, writes, restarts, writeErrors>>
        /\ UNCHANGED <<drawn, deleted, starts, runs, phase, cancels, doomed, shutting>>
        /\ UNCHANGED <<exec, next, session, live>> /\ reading.kind = "whole" /\ reading' = NoRead
    BY DEF LoadEnds, Applies, fileVars, historyVars, stopVars, execVars
  <1>2. /\ workflows' = workflows \cup D.workflows
        /\ tasks' = [t \in Tasks |-> IF t \in stored THEN Restored(D.tasks[t]) ELSE tasks[t]]
        /\ timers' = timers \cup {t \in stored : Restored(D.tasks[t]).state = "QUEUED"}
    BY DEF LoadEnds, Applies
  <1>3. /\ D \in Snapshots /\ D.workflows \subseteq Workflows /\ D.workflows \subseteq drawn
        /\ D.tasks \in [Tasks -> TaskRecords \cup {NoTask}]
        /\ \A t \in stored : t \in drawn /\ D.tasks[t].workflow \in drawn
    BY <1>1 DEF IndInv, TypeOK, IsContents, NoRead, Absent, Torn, Snapshots, Files, Known
  <1>4. loaded /\ phase # "down"
    BY <1>1 DEF IndInv, Memory, NoRead
  <1>5. ASSUME NEW t \in stored
        PROVE  LET r == Restored(D.tasks[t])
               IN  /\ r \in TaskRecords /\ r # NoTask /\ r.workflow = D.tasks[t].workflow
                   /\ r.state = "QUEUED" => D.tasks[t].state = "QUEUED"
    <2>1. D.tasks[t] \in TaskRecords
      BY <1>3
    <2> QED
      BY <2>1 DEF Restored, TaskRecords, NoTask, Terminal
  <1> HIDE DEF D
  <1>6. tasks' \in [Tasks -> TaskRecords \cup {NoTask}] /\ timers' \subseteq Tasks
        /\ workflows' \subseteq Workflows
    BY <1>2, <1>3, <1>5 DEF IndInv, TypeOK
  <1>7. TypeOK'
    BY <1>1, <1>6 DEF IndInv, TypeOK, FileTypeOK
  <1>8. Files'
    BY <1>1, KeptFiles
  <1>9. Memory'
    BY <1>1, <1>2, <1>3, <1>4 DEF IndInv, Memory, NoRead
  <1>10. ASSUME NEW t \in Tasks
         PROVE  Durable(t)'
    BY <1>1, KeptDurable
  <1>11. ASSUME NEW t \in Tasks, t \notin stored
         PROVE  TaskInv(t)'
    <2>1. tasks[t] # NoTask /\ tasks[t].workflow \in workflows' => tasks[t].workflow \in workflows
      BY <1>1, <1>2 DEF IndInv, TaskInv, Placed, D
    <2>2. Kept(t)
      BY <1>1, <1>2, <1>11, <2>1 DEF Kept, IndInv, TypeOK
    <2> QED
      BY <1>1, <2>2, KeptTask
  <1>12. ASSUME NEW t \in stored
         PROVE  TaskInv(t)'
    <2> DEFINE r == Restored(D.tasks[t])
    <2>1. /\ TaskInv(t) /\ Durable(t) /\ tasks[t] = NoTask /\ tasks[t].state = "NONE"
          /\ starts[t] \in Nat /\ live[t] \in Nat
      BY <1>1 DEF IndInv, TypeOK, TaskInv, Placed, NoTask, D
    <2>2. exec[t] = "none" /\ ~Scheduled(t) /\ next[t] = None
      BY <2>1 DEF TaskInv, Execution, Schedule, Awaiting
    <2>3. /\ tasks'[t] = r /\ r \in TaskRecords /\ r # NoTask /\ r.workflow \in drawn
          /\ r.state = "QUEUED" => D.tasks[t].state = "QUEUED"
          /\ t \in timers' <=> r.state = "QUEUED"
      BY <1>2, <1>3, <1>5, <2>2 DEF Scheduled
    <2>4. r.state = "QUEUED" => starts[t] = 0
      BY <1>1, <2>1, <2>3 DEF Durable, NotQueued, D
    <2> HIDE DEF r
    <2>5. Placed(t)'
      BY <1>1, <1>3, <2>3 DEF Placed, NoRead
    <2>6. Awaiting(t)'
      BY <1>1, <2>1 DEF TaskInv, Awaiting
    <2>7. /\ Scheduled(t)' <=> r.state = "QUEUED"
          /\ <<"run", t>> \notin Awaited(writes') /\ \A u \in Tasks : next'[u] # t
      BY <1>1, <2>2, <2>3 DEF Scheduled
    <2>8. Schedule(t)' /\ Attended(t)'
      BY <1>1, <2>2, <2>3, <2>4, <2>7 DEF Schedule, Attended
    <2>9. Execution(t)'
      BY <1>1, <2>1, <2>2, <2>3, <2>4 DEF TaskInv, Execution
    <2> QED
      BY <2>5, <2>6, <2>8, <2>9 DEF TaskInv
  <1> QED
    BY <1>7, <1>8, <1>9, <1>10, <1>11, <1>12 DEF IndInv

-----------------------------------------------------------------------------
(* The writes *)

\* A write begins with the state it finds.
LEMMA WriteBeginsStep ==
  ASSUME IndInv, WriteBegins
  PROVE  IndInv'
  <1> DEFINE v == [workflows |-> workflows, tasks |-> tasks]
  <1>1. /\ UNCHANGED <<loaded, reading, workflows, tasks, timers, writes, phase, restarts>>
        /\ UNCHANGED <<exec, next, session, live, cancels, doomed, shutting, writeErrors>>
        /\ UNCHANGED <<drawn, deleted, starts, runs, file>>
        /\ writes # <<>> /\ tmp' = Whole(v) /\ bak' \in {bak, Torn}
    BY DEF WriteBegins, WriteStarts, memoryVars, execVars, historyVars
  <1>2. v \in Snapshots /\ Whole(v).kind = "whole" /\ Whole(v).data = v
    BY DEF Whole, Snapshots, IndInv, TypeOK
  <1>3. IsContents(Whole(v), Snapshots) /\ IsContents(bak', Snapshots)
    BY <1>1, <1>2 DEF IsContents, IndInv, TypeOK, FileTypeOK
  <1>4. TypeOK'
    BY <1>1, <1>3 DEF IndInv, TypeOK, FileTypeOK
  <1>5. Memory'
    BY <1>1 DEF IndInv, Memory
  <1>6. Files'
    <2>1. Known(Whole(v))
      BY <1>2 DEF IndInv, Memory, TaskInv, Placed, Known
    <2> QED
      BY <1>1, <1>2, <2>1 DEF IndInv, Files, Known
  <1>7. ASSUME NEW t \in Tasks
        PROVE  TaskInv(t)' /\ Durable(t)'
    <2>1. TaskInv(t) /\ Durable(t) /\ starts[t] \in Nat
      BY DEF IndInv, TypeOK
    <2>2. TaskInv(t)'
      BY <1>1, <2>1
         DEF TaskInv, Placed, Awaiting, Schedule, Scheduled, Execution, Attended
    <2>3. starts[t] > 0 \/ exec[t] # "none" => NotQueued(Whole(v), t)
      BY <1>2, <2>1 DEF TaskInv, Execution, NotQueued
    <2>4. Durable(t)'
      <3> HIDE DEF v
      <3> QED
        BY <1>1, <2>1, <2>3 DEF Durable
    <2> QED
      BY <2>2, <2>4
  <1> QED
    BY <1>4, <1>5, <1>6, <1>7 DEF IndInv

\* Who awaits the write at the head of the chain.
LEMMA HeadAwaits ==
  ASSUME IndInv, writes # <<>>
  PROVE  /\ \/ \E x \in Tasks : Head(writes) \in {<<"run", x>>, <<"exec", x>>, <<"next", x>>,
                                                  <<"cancel", x>>}
            \/ Head(writes) \in {<<"edit", None>>, <<"shutdown", None>>}
         /\ Head(writes) \in Awaited(writes) /\ Head(writes) \in Waiters
         /\ Tail(writes) \in Seq(Waiters) /\ Distinct(Tail(writes)) /\ phase # "down"
         /\ \A y : y \in Awaited(Tail(writes)) => y \in Awaited(writes)
         /\ \A y : y \in Awaited(writes) => y \in Awaited(Tail(writes)) \/ y = Head(writes)
         /\ Head(writes)[1] \in Once => Head(writes) \notin Awaited(Tail(writes))
  <1>1. /\ Head(writes) \in Awaited(writes) /\ Head(writes) \in Waiters
        /\ Tail(writes) \in Seq(Waiters) /\ Distinct(Tail(writes)) /\ phase # "down"
        /\ \A y : y \in Awaited(Tail(writes)) => y \in Awaited(writes)
        /\ \A y : y \in Awaited(writes) => y \in Awaited(Tail(writes)) \/ y = Head(writes)
        /\ Head(writes)[1] \in Once => Head(writes) \notin Awaited(Tail(writes))
    BY ChainShrinks DEF IndInv, TypeOK, Memory
  <1> HIDE DEF Once
  <1>2. \/ \E x \in Tasks : Head(writes) \in {<<"run", x>>, <<"exec", x>>, <<"next", x>>,
                                              <<"cancel", x>>}
        \/ Head(writes) \in {<<"edit", None>>, <<"shutdown", None>>}
    BY <1>1 DEF Waiters
  <1> QED
    BY <1>1, <1>2

\* The write under way ends, with its file in place or not, and those who do not
\* await it are passed by.
LEMMA WriteOver ==
  ASSUME IndInv, tmp # Absent, tmp' = Absent, file' \in {file, tmp}, IsContents(bak', Snapshots),
         UNCHANGED <<loaded, reading, workflows, tasks, restarts, session, live, cancels, doomed>>,
         UNCHANGED historyVars, writeErrors' \in 0 .. MaxWriteErrors,
         timers' \subseteq Tasks, writes' \in Seq(Waiters), Distinct(writes'),
         exec' \in [Tasks -> {"none", "marking", "starting", "step", "stepSaving", "stopping",
                              "failing", "ending", "rescheduling", "noting"}],
         next' \in [Tasks -> Tasks \cup {None}],
         \A t, u \in Tasks : next'[t] = next'[u] /\ next'[t] # None => t = u,
         shutting' \in Tasks \cup {None}, phase' \in {phase, "exiting"}, loaded \/ timers' = {},
         NEW X \in SUBSET Tasks,
         \A t \in Tasks \ X : Kept(t),
         \A t \in X : TaskInv(t)' /\ Durable(t)'
  PROVE  IndInv'
  <1>0. writes # <<>> /\ phase # "down" /\ phase' # "down"
    BY DEF IndInv, Files, Memory
  <1>1. UNCHANGED <<drawn, deleted, starts, runs>>
    BY DEF historyVars
  <1>2. IsContents(file', Snapshots) /\ IsContents(tmp', Snapshots)
    BY DEF IndInv, TypeOK, FileTypeOK, IsContents
  <1>3. phase' \in {"up", "stopping", "saving", "exiting", "down"}
    BY DEF IndInv, TypeOK
  <1>4. TypeOK'
    BY <1>1, <1>2, <1>3 DEF IndInv, TypeOK, FileTypeOK
  <1>5. Files'
    BY <1>1 DEF IndInv, Files, Known, Absent
  <1>6. Memory'
    BY <1>0, <1>1 DEF IndInv, Memory
  <1>7. ASSUME NEW t \in Tasks \ X
        PROVE  TaskInv(t)' /\ Durable(t)'
    <2>1. Kept(t)
      OBVIOUS
    <2>2. TaskInv(t)'
      BY <2>1, KeptTask
    <2>3. Durable(t) /\ exec'[t] = exec[t] /\ starts'[t] = starts[t]
      BY <2>1 DEF IndInv, Kept
    <2>4. NotQueued(Absent, t)
      BY DEF NotQueued, Absent
    <2>5. Durable(t)'
      BY <2>3, <2>4 DEF Durable
    <2> QED
      BY <2>2, <2>5
  <1> QED
    BY <1>4, <1>5, <1>6, <1>7 DEF IndInv

\* What a write that commits does for the one who awaits it.
LEMMA WriteEndsStep ==
  ASSUME IndInv, WriteEnds
  PROVE  IndInv'
  <1> DEFINE kind == Head(writes)[1]
             who == Head(writes)[2]
  <1>1. /\ tmp # Absent /\ tmp' = Absent /\ file' = tmp /\ bak' \in {bak, file}
        /\ writeErrors' \in 0 .. MaxWriteErrors /\ (writeErrors' = 0 => writeErrors = 0)
    BY RpaAssumption DEF WriteEnds, WriteCommits, Copied, IndInv, TypeOK
  <1>2. /\ timers' = timers \cup (IF kind = "run" THEN {who} ELSE
                                  IF kind = "next" THEN {next[who]} ELSE {})
        /\ exec' = IF kind = "exec" THEN [exec EXCEPT ![who] = AfterSave(who)] ELSE exec
        /\ writes' = IF kind = "next" THEN Append(Tail(writes), <<"exec", who>>) ELSE Tail(writes)
        /\ next' = IF kind = "next" THEN [next EXCEPT ![who] = None] ELSE next
        /\ shutting' = IF kind = "cancel" /\ who = shutting THEN None ELSE shutting
        /\ phase' = IF kind = "shutdown" THEN "exiting" ELSE phase
    BY DEF WriteEnds
  <1>3. /\ UNCHANGED <<loaded, reading, workflows, tasks, restarts, session, live, cancels, doomed>>
        /\ UNCHANGED <<drawn, deleted, starts, runs>> /\ UNCHANGED historyVars
    BY DEF WriteEnds, historyVars
  <1>4. IsContents(bak', Snapshots)
    BY <1>1 DEF IndInv, TypeOK, FileTypeOK
  <1>5. /\ writes # <<>>
        /\ \/ \E y \in Tasks : Head(writes) \in {<<"run", y>>, <<"exec", y>>, <<"next", y>>,
                                                 <<"cancel", y>>}
           \/ Head(writes) \in {<<"edit", None>>, <<"shutdown", None>>}
        /\ Head(writes) \in Awaited(writes)
        /\ Tail(writes) \in Seq(Waiters) /\ Distinct(Tail(writes)) /\ phase # "down"
        /\ \A y : y \in Awaited(Tail(writes)) => y \in Awaited(writes)
        /\ \A y : y \in Awaited(writes) => y \in Awaited(Tail(writes)) \/ y = Head(writes)
        /\ Head(writes)[1] \in Once => Head(writes) \notin Awaited(Tail(writes))
    BY <1>1, HeadAwaits DEF IndInv, Files
  <1>6. /\ exec \in [Tasks -> {"none", "marking", "starting", "step", "stepSaving", "stopping",
                               "failing", "ending", "rescheduling", "noting"}]
        /\ next \in [Tasks -> Tasks \cup {None}] /\ timers \subseteq Tasks
        /\ shutting' \in Tasks \cup {None} /\ phase' \in {phase, "exiting"}
        /\ \A t, u \in Tasks : next[t] = next[u] /\ next[t] # None => t = u
        /\ \A t \in Tasks : tasks[t] # NoTask => loaded
        /\ loaded \/ timers = {}
    BY <1>2 DEF IndInv, TypeOK, Memory
  <1>7. CASE kind \in {"cancel", "edit", "shutdown"}
    <2>1. /\ timers' = timers /\ exec' = exec /\ writes' = Tail(writes) /\ next' = next
          /\ kind \notin Once
      BY <1>2, <1>7 DEF Once
    <2>2. ASSUME NEW t \in Tasks
          PROVE  Kept(t)
      <3>1. \A k \in Once : <<k, t>> # Head(writes)
        BY <2>1
      <3> QED
        BY <1>1, <1>3, <1>5, <1>6, <2>1, <3>1 DEF Kept
    <2>3. PICK X \in SUBSET Tasks : X = {}
      OBVIOUS
    <2> QED
      BY <1>1, <1>3, <1>4, <1>5, <1>6, <2>1, <2>2, <2>3, WriteOver
  <1>8. ASSUME NEW x \in Tasks, Head(writes) = <<"run", x>>
        PROVE  IndInv'
    <2>1. /\ timers' = timers \cup {x} /\ exec' = exec /\ writes' = Tail(writes) /\ next' = next
          /\ phase' = phase
      BY <1>2, <1>8
    <2>2. x \in Tasks /\ Head(writes) = <<"run", x>>
      BY <1>8
    <2>3. /\ Scheduled(x) /\ TaskInv(x) /\ Durable(x) /\ <<"run", x>> \in Awaited(writes)
          /\ <<"run", x>> \notin Awaited(writes') /\ starts[x] \in Nat /\ live[x] \in Nat
      <3>1. Head(writes)[1] \in Once
        BY <2>2 DEF Once
      <3>2. <<"run", x>> \in Awaited(writes) /\ <<"run", x>> \notin Awaited(writes')
        BY <1>5, <2>1, <2>2, <3>1
      <3> QED
        BY <3>2 DEF Scheduled, IndInv, TypeOK
    <2>4. /\ tasks[x].state \in {"QUEUED", "CANCELLED"} /\ exec[x] = "none" /\ starts[x] = 0
          /\ \A u \in Tasks : next[u] # x
      BY <2>3 DEF TaskInv, Schedule
    <2>5. ASSUME NEW t \in Tasks, t # x
          PROVE  Kept(t)
      <3>1. \A k \in Once : <<k, t>> # Head(writes)
        BY <2>2, <2>5
      <3> QED
        BY <1>1, <1>3, <1>5, <1>6, <2>1, <2>5, <3>1 DEF Kept
    <2>6. TaskInv(x)'
      <3>0. /\ <<"exec", x>> \in Awaited(writes') <=> <<"exec", x>> \in Awaited(writes)
            /\ <<"next", x>> \in Awaited(writes') <=> <<"next", x>> \in Awaited(writes)
        BY <1>5, <2>1, <2>2
      <3>1. Placed(x)' /\ Awaiting(x)' /\ Execution(x)'
        BY <1>3, <2>1, <2>3, <3>0 DEF TaskInv, Placed, Awaiting, Execution
      <3>2. Scheduled(x)'
        BY <2>1 DEF Scheduled
      <3>3. Schedule(x)' /\ Attended(x)'
        BY <1>3, <2>1, <2>3, <2>4, <3>2 DEF Schedule, Attended
      <3> QED
        BY <3>1, <3>3 DEF TaskInv
    <2>7. Durable(x)'
      BY <1>3, <2>1, <2>4 DEF Durable
    <2>8. loaded
      BY <1>6, <2>2, <2>4 DEF NoTask
    <2>9. PICK X \in SUBSET Tasks : X = {x}
      BY <2>2
    <2>10. /\ timers' \subseteq Tasks
           /\ \A t \in Tasks \ X : Kept(t)
           /\ \A t \in X : TaskInv(t)' /\ Durable(t)'
      BY <1>6, <2>1, <2>2, <2>5, <2>6, <2>7, <2>9
    <2> QED
      BY <1>1, <1>3, <1>4, <1>5, <1>6, <2>1, <2>8, <2>10, WriteOver
  <1>9. ASSUME NEW x \in Tasks, Head(writes) = <<"exec", x>>
        PROVE  IndInv'
    <2>1. /\ timers' = timers /\ exec' = [exec EXCEPT ![x] = AfterSave(x)]
          /\ writes' = Tail(writes) /\ next' = next /\ phase' = phase
      <3>1. kind = "exec" /\ who = x
        BY <1>9
      <3> HIDE DEF kind, who
      <3>2. exec' = [exec EXCEPT ![who] = AfterSave(who)]
        BY <1>2, <3>1
      <3> QED
        BY <1>2, <3>1, <3>2
    <2>2. x \in Tasks /\ Head(writes) = <<"exec", x>>
      BY <1>9
    <2>3. /\ TaskInv(x) /\ Durable(x) /\ <<"exec", x>> \in Awaited(writes)
          /\ <<"exec", x>> \notin Awaited(writes') /\ starts[x] \in Nat /\ live[x] \in Nat
          /\ tasks[x] \in TaskRecords \cup {NoTask}
      <3>1. Head(writes)[1] \in Once
        BY <2>2 DEF Once
      <3>2. <<"exec", x>> \in Awaited(writes) /\ <<"exec", x>> \notin Awaited(writes')
        BY <1>5, <2>1, <2>2, <3>1
      <3> QED
        BY <3>2 DEF IndInv, TypeOK
    <2>4. /\ exec[x] \in {"marking", "stepSaving", "ending", "noting"} /\ next[x] = None
          /\ ~Scheduled(x) /\ tasks[x].state \notin {"QUEUED", "NONE"}
      BY <2>3 DEF TaskInv, Awaiting, Schedule, Execution
    <2>5. tasks[x] \in TaskRecords /\ tasks[x] # NoTask /\ loaded
      BY <1>6, <2>2, <2>3, <2>4 DEF NoTask
    <2> DEFINE e == AfterSave(x)
    <2>6. /\ e \in {"none", "starting", "step", "stopping", "rescheduling"}
          /\ e = "starting" => exec[x] = "marking"
          /\ e \in {"step", "stopping"} => exec[x] = "stepSaving"
          /\ e = "step" => tasks[x].steps < MaxSteps
          /\ e \in {"none", "rescheduling"} => exec[x] \in {"ending", "noting"}
      <3>1. AtStep(tasks[x]) \in {"step", "stopping"}
            /\ (AtStep(tasks[x]) = "step" => tasks[x].steps < MaxSteps)
        BY <2>5, RpaAssumption DEF AtStep, TaskRecords
      <3> HIDE DEF AtStep
      <3> QED
        BY <2>4, <3>1 DEF AfterSave
    <2> HIDE DEF e
    <2>7. /\ exec'[x] = e /\ \A t \in Tasks : t # x => exec'[t] = exec[t]
          /\ exec' \in [Tasks -> {"none", "marking", "starting", "step", "stepSaving", "stopping",
                                  "failing", "ending", "rescheduling", "noting"}]
      BY <1>6, <2>1, <2>2, <2>6 DEF e
    <2>8. ASSUME NEW t \in Tasks, t # x
          PROVE  Kept(t)
      <3>1. \A k \in Once : <<k, t>> # Head(writes)
        BY <2>2, <2>8
      <3> QED
        BY <1>1, <1>3, <1>5, <1>6, <2>1, <2>7, <2>8, <3>1 DEF Kept
    <2>9. TaskInv(x)'
      <3>0. /\ <<"run", x>> \in Awaited(writes') <=> <<"run", x>> \in Awaited(writes)
            /\ <<"next", x>> \in Awaited(writes') <=> <<"next", x>> \in Awaited(writes)
        BY <1>5, <2>1, <2>2
      <3>1. Placed(x)'
        BY <1>3, <2>3 DEF TaskInv, Placed
      <3>2. Awaiting(x)'
        BY <2>1, <2>3, <2>4, <3>0 DEF TaskInv, Awaiting
      <3>3. ~Scheduled(x)'
        BY <2>1, <2>4, <3>0 DEF Scheduled
      <3>4. Schedule(x)' /\ Attended(x)'
        BY <1>3, <2>4, <3>3 DEF Schedule, Attended, Scheduled
      <3>5. Execution(x)'
        BY <1>3, <2>3, <2>4, <2>6, <2>7 DEF TaskInv, Execution
      <3> QED
        BY <3>1, <3>2, <3>4, <3>5 DEF TaskInv
    <2>10. Durable(x)'
      <3>1. NotQueued(tmp, x) /\ NotQueued(reading, x)
        <4>1. CASE exec[x] = "marking"
          <5>1. NotQueued(tmp, x)
            BY <1>5, <2>2, <2>3, <4>1 DEF Durable
          <5>2. reading.kind = "whole" => reading.data.tasks[x] = NoTask
            BY <2>3, <2>5 DEF TaskInv, Placed
          <5> QED
            BY <5>1, <5>2 DEF NotQueued, NoTask
        <4>2. CASE exec[x] # "marking"
          BY <2>3, <2>4, <4>2 DEF Durable
        <4> QED
          BY <4>1, <4>2
      <3>2. NotQueued(Absent, x)
        BY DEF NotQueued, Absent
      <3> QED
        BY <1>1, <1>3, <3>1, <3>2 DEF Durable
    <2>11. PICK X \in SUBSET Tasks : X = {x}
      BY <2>2
    <2>12. /\ timers' \subseteq Tasks
           /\ \A t \in Tasks \ X : Kept(t)
           /\ \A t \in X : TaskInv(t)' /\ Durable(t)'
      BY <1>6, <2>1, <2>2, <2>8, <2>9, <2>10, <2>11
    <2>13. writes' \in Seq(Waiters) /\ Distinct(writes')
           /\ \A t, u \in Tasks : next'[t] = next'[u] /\ next'[t] # None => t = u
      BY <1>5, <1>6, <2>1
    <2>14. next' \in [Tasks -> Tasks \cup {None}] /\ file' \in {file, tmp}
      BY <1>1, <1>6, <2>1
    <2> QED
      BY <1>1, <1>3, <1>4, <1>6, <2>5, <2>7, <2>12, <2>13, <2>14, WriteOver
  <1>10. ASSUME NEW x \in Tasks, Head(writes) = <<"next", x>>
         PROVE  IndInv'
    <2>0. PICK nt \in Tasks \cup {None} : nt = next[x]
      BY <1>6
    <2> DEFINE k == <<"exec", x>>
    <2>1. /\ timers' = timers \cup {nt} /\ exec' = exec /\ phase' = phase
          /\ writes' = Append(Tail(writes), k) /\ next' = [next EXCEPT ![x] = None]
      <3>1. kind = "next" /\ who = x
        BY <1>10
      <3> HIDE DEF kind, who, k
      <3> QED
        BY <1>2, <2>0, <3>1 DEF k
    <2>2. x \in Tasks /\ Head(writes) = <<"next", x>>
      BY <1>10
    <2>3. /\ TaskInv(x) /\ Durable(x) /\ <<"next", x>> \in Awaited(writes)
          /\ <<"next", x>> \notin Awaited(Tail(writes))
      BY <1>5, <2>2 DEF Once, IndInv
    <2>4. /\ nt # None /\ nt \in Tasks /\ exec[x] = "noting" /\ k \notin Awaited(writes)
      BY <1>6, <2>0, <2>2, <2>3 DEF TaskInv, Awaiting
    <2>5. /\ TaskInv(nt) /\ Durable(nt) /\ Scheduled(nt) /\ starts[nt] \in Nat /\ live[nt] \in Nat
      BY <2>0, <2>2, <2>4 DEF IndInv, Scheduled, TypeOK
    <2>6. /\ tasks[nt].state \in {"QUEUED", "CANCELLED"} /\ exec[nt] = "none" /\ starts[nt] = 0
          /\ <<"run", nt>> \notin Awaited(writes) /\ nt # x
      BY <2>0, <2>2, <2>4, <2>5 DEF TaskInv, Schedule
    <2>7. /\ k \in Waiters /\ k \notin Awaited(Tail(writes))
      BY <1>5, <2>2, <2>4 DEF Waiters
    <2>8. /\ writes' \in Seq(Waiters) /\ Distinct(writes')
          /\ \A y : y \in Awaited(writes') <=> y \in Awaited(Tail(writes)) \/ y = k
      <3> HIDE DEF k
      <3> QED
        BY <1>5, <2>1, <2>7, ChainGrows
    <2>9. \A y : y # k /\ y # <<"next", x>> => (y \in Awaited(writes') <=> y \in Awaited(writes))
      BY <1>5, <2>2, <2>8
    <2>10. /\ next'[x] = None /\ \A t \in Tasks : t # x => next'[t] = next[t]
           /\ next' \in [Tasks -> Tasks \cup {None}]
           /\ \A u \in Tasks : next'[u] # nt
           /\ \A t \in Tasks : t # nt => \A u \in Tasks : next'[u] = t <=> next[u] = t
           /\ \A t, u \in Tasks : next'[t] = next'[u] /\ next'[t] # None => t = u
      <3>1. /\ next'[x] = None /\ \A t \in Tasks : t # x => next'[t] = next[t]
            /\ next' \in [Tasks -> Tasks \cup {None}]
        BY <1>6, <2>1, <2>2
      <3>2. None \notin Tasks
        BY RpaAssumption
      <3> QED
        BY <1>6, <2>0, <2>2, <2>4, <3>1, <3>2
    <2>11. ASSUME NEW t \in Tasks, t # x, t # nt
           PROVE  Kept(t)
      <3>1. \A n \in Once : <<n, t>> # k /\ <<n, t>> # <<"next", x>>
        BY <2>11
      <3>2. t \in timers' <=> t \in timers
        BY <2>1, <2>11
      <3> HIDE DEF k
      <3> QED
        BY <1>1, <1>3, <2>1, <2>9, <2>10, <2>11, <3>1, <3>2 DEF Kept
    <2>12. TaskInv(nt)' /\ Durable(nt)'
      <3>0. /\ <<"exec", nt>> \in Awaited(writes') <=> <<"exec", nt>> \in Awaited(writes)
            /\ <<"next", nt>> \in Awaited(writes') <=> <<"next", nt>> \in Awaited(writes)
            /\ <<"run", nt>> \notin Awaited(writes')
        BY <2>6, <2>9
      <3>1. Placed(nt)' /\ Awaiting(nt)' /\ Execution(nt)'
        BY <1>3, <2>1, <2>4, <2>5, <2>6, <2>10, <3>0 DEF TaskInv, Placed, Awaiting, Execution
      <3>2. Scheduled(nt)'
        BY <2>1 DEF Scheduled
      <3>3. Schedule(nt)' /\ Attended(nt)'
        BY <1>3, <2>1, <2>4, <2>6, <2>10, <3>0, <3>2 DEF Schedule, Attended
      <3>4. Durable(nt)'
        BY <1>3, <2>1, <2>6 DEF Durable
      <3> QED
        BY <3>1, <3>3, <3>4 DEF TaskInv
    <2>13. TaskInv(x)' /\ Durable(x)'
      <3>0. /\ <<"next", x>> \notin Awaited(writes')
            /\ <<"run", x>> \in Awaited(writes') <=> <<"run", x>> \in Awaited(writes)
        BY <2>3, <2>8, <2>9
      <3>1. ~Scheduled(x) /\ tasks[x].state \notin {"QUEUED", "NONE"}
        BY <2>3, <2>4 DEF TaskInv, Schedule, Execution
      <3>2. ~Scheduled(x)'
        BY <2>1, <2>2, <2>6, <2>10, <3>0, <3>1 DEF Scheduled
      <3>3. Placed(x)' /\ Awaiting(x)' /\ Execution(x)'
        BY <1>3, <2>1, <2>3, <2>4, <2>10, <3>0 DEF TaskInv, Placed, Awaiting, Execution
      <3>4. Schedule(x)' /\ Attended(x)'
        BY <1>3, <3>1, <3>2 DEF Schedule, Attended, Scheduled
      <3>5. Durable(x)'
        <4>1. NotQueued(Absent, x)
          BY DEF NotQueued, Absent
        <4> QED
          BY <1>1, <1>3, <2>1, <2>3, <2>4, <4>1 DEF Durable
      <3> QED
        BY <3>3, <3>4, <3>5 DEF TaskInv
    <2>14. loaded
      BY <1>6, <2>4, <2>6 DEF NoTask
    <2>15. PICK X \in SUBSET Tasks : X = {x, nt}
      BY <2>2, <2>4
    <2>16. /\ timers' \subseteq Tasks
           /\ \A t \in Tasks \ X : Kept(t)
           /\ \A t \in X : TaskInv(t)' /\ Durable(t)'
      BY <1>6, <2>1, <2>2, <2>4, <2>11, <2>12, <2>13, <2>15
    <2>17. file' \in {file, tmp} /\ exec' = exec
      BY <1>1, <2>1
    <2> HIDE DEF k
    <2> QED
      BY <1>1, <1>3, <1>4, <1>6, <2>8, <2>10, <2>14, <2>16, <2>17, WriteOver
  <1> QED
    BY <1>5, <1>7, <1>8, <1>9, <1>10

\* A write that is rejected: run() leaves its task without a timer, a step fails,
\* shutdown() gives up, and anyone else's error ends the process.
LEMMA WriteFailsStep ==
  ASSUME IndInv, WriteFails
  PROVE  IndInv'
  <1> DEFINE kind == Head(writes)[1]
             who == Head(writes)[2]
             fatal == kind = "next" \/ (kind = "exec" /\ exec[who] # "stepSaving")
  <1>1. /\ writeErrors' \in 0 .. MaxWriteErrors /\ writeErrors' # 0 /\ writes # <<>>
        /\ UNCHANGED restarts /\ UNCHANGED historyVars
    BY RpaAssumption DEF WriteFails, IndInv, TypeOK
  <1>2. CASE fatal
    <2>1. Dies
      BY <1>2 DEF WriteFails
    <2> QED
      BY <1>1, <2>1, DiesStep
  <1>3. CASE ~fatal
    <2>1. /\ WriteRejects /\ writes' = Tail(writes)
          /\ exec' = IF kind = "exec" THEN [exec EXCEPT ![who] = "failing"] ELSE exec
          /\ phase' = IF kind = "shutdown" \/ (kind = "cancel" /\ who = shutting)
                        THEN "exiting" ELSE phase
          /\ UNCHANGED <<loaded, reading, workflows, tasks, timers, next, session, live,
                         cancels, doomed, shutting>>
      BY <1>3 DEF WriteFails
    <2>2. /\ tmp # Absent /\ tmp' = Absent /\ file' = file /\ IsContents(bak', Snapshots)
      BY <2>1 DEF WriteRejects, Copied, IndInv, TypeOK, FileTypeOK
    <2>3. /\ \/ \E y \in Tasks : Head(writes) \in {<<"run", y>>, <<"exec", y>>, <<"next", y>>,
                                                   <<"cancel", y>>}
             \/ Head(writes) \in {<<"edit", None>>, <<"shutdown", None>>}
          /\ Head(writes) \in Awaited(writes)
          /\ Tail(writes) \in Seq(Waiters) /\ Distinct(Tail(writes)) /\ phase # "down"
          /\ \A y : y \in Awaited(Tail(writes)) => y \in Awaited(writes)
          /\ \A y : y \in Awaited(writes) => y \in Awaited(Tail(writes)) \/ y = Head(writes)
          /\ Head(writes)[1] \in Once => Head(writes) \notin Awaited(Tail(writes))
      BY <1>1, HeadAwaits
    <2>4. /\ exec \in [Tasks -> {"none", "marking", "starting", "step", "stepSaving", "stopping",
                                 "failing", "ending", "rescheduling", "noting"}]
          /\ next' \in [Tasks -> Tasks \cup {None}] /\ timers' \subseteq Tasks
          /\ shutting' \in Tasks \cup {None} /\ phase' \in {phase, "exiting"}
          /\ \A t, u \in Tasks : next'[t] = next'[u] /\ next'[t] # None => t = u
          /\ loaded \/ timers' = {}
      BY <2>1 DEF IndInv, TypeOK, Memory
    <2>5. UNCHANGED <<drawn, deleted, starts, runs>>
      BY <1>1 DEF historyVars
    <2>6. CASE kind \in {"cancel", "edit", "shutdown"}
      <3>1. exec' = exec /\ kind \notin Once
        BY <2>1, <2>6 DEF Once
      <3>2. ASSUME NEW t \in Tasks
            PROVE  Kept(t)
        <4>1. \A k \in Once : <<k, t>> # Head(writes)
          BY <3>1
        <4> QED
          BY <1>1, <2>1, <2>3, <2>4, <2>5, <3>1, <4>1 DEF Kept
      <3>3. PICK X \in SUBSET Tasks : X = {}
        OBVIOUS
      <3> QED
        BY <1>1, <2>1, <2>2, <2>3, <2>4, <3>1, <3>2, <3>3, WriteOver
    <2>7. ASSUME NEW x \in Tasks, Head(writes) = <<"run", x>>
          PROVE  IndInv'
      <3>1. exec' = exec /\ kind \in Once
        BY <2>1, <2>7 DEF Once
      <3>2. /\ <<"run", x>> \in Awaited(writes) /\ <<"run", x>> \notin Awaited(writes')
            /\ <<"exec", x>> \in Awaited(writes') <=> <<"exec", x>> \in Awaited(writes)
            /\ <<"next", x>> \in Awaited(writes') <=> <<"next", x>> \in Awaited(writes)
        <4>1. <<"run", x>> \in Awaited(writes) /\ <<"run", x>> \notin Awaited(writes')
          BY <2>1, <2>3, <2>7, <3>1
        <4> HIDE DEF kind, who
        <4>2. \A y : y # <<"run", x>> => (y \in Awaited(writes') <=> y \in Awaited(writes))
          BY <2>1, <2>3, <2>7
        <4> QED
          BY <4>1, <4>2
      <3>3. /\ TaskInv(x) /\ Durable(x) /\ Scheduled(x)
            /\ starts[x] \in Nat /\ live[x] \in Nat
        BY <3>2 DEF Scheduled, IndInv, TypeOK
      <3>4. /\ exec[x] = "none" /\ starts[x] = 0 /\ x \notin timers /\ \A u \in Tasks : next[u] # x
        BY <3>2, <3>3 DEF TaskInv, Schedule
      <3>5. ~Scheduled(x)' /\ x \notin timers' /\ <<"run", x>> \notin Awaited(writes')
        BY <2>1, <3>2, <3>4 DEF Scheduled
      <3>6. Placed(x)' /\ Awaiting(x)' /\ Execution(x)'
        BY <2>1, <2>5, <3>1, <3>2, <3>3 DEF TaskInv, Placed, Awaiting, Execution
      <3>7. Schedule(x)' /\ Attended(x)'
        BY <1>1, <3>5 DEF Schedule, Attended
      <3>8. Durable(x)'
        BY <2>5, <3>1, <3>4 DEF Durable
      <3>9. ASSUME NEW t \in Tasks, t # x
            PROVE  Kept(t)
        <4>1. \A k \in Once : <<k, t>> # Head(writes)
          BY <2>7, <3>9
        <4> QED
          BY <1>1, <2>1, <2>3, <2>4, <2>5, <3>1, <4>1 DEF Kept
      <3>10. PICK X \in SUBSET Tasks : X = {x}
        OBVIOUS
      <3>11. /\ \A t \in Tasks \ X : Kept(t)
             /\ \A t \in X : TaskInv(t)' /\ Durable(t)'
        BY <3>6, <3>7, <3>8, <3>9, <3>10 DEF TaskInv
      <3> QED
        BY <1>1, <2>1, <2>2, <2>3, <2>4, <3>1, <3>11, WriteOver
    <2>8. ASSUME NEW x \in Tasks, Head(writes) = <<"exec", x>>
          PROVE  IndInv'
      <3>1. kind = "exec" /\ who = x /\ kind \in Once
        BY <2>8 DEF Once
      <3>2. exec[x] = "stepSaving"
        BY <1>3, <3>1
      <3>3. exec' = [exec EXCEPT ![x] = "failing"]
        BY <2>1, <3>1
      <3>4. /\ exec'[x] = "failing" /\ \A t \in Tasks : t # x => exec'[t] = exec[t]
            /\ exec' \in [Tasks -> {"none", "marking", "starting", "step", "stepSaving", "stopping",
                                    "failing", "ending", "rescheduling", "noting"}]
        BY <2>4, <3>3
      <3>5. /\ <<"exec", x>> \in Awaited(writes) /\ <<"exec", x>> \notin Awaited(writes')
            /\ \A n \in {"run", "next"} : <<n, x>> \in Awaited(writes') <=> <<n, x>> \in Awaited(writes)
        BY <2>1, <2>3, <2>8, <3>1
      <3> HIDE DEF kind, who
      <3>6. TaskInv(x) /\ Durable(x) /\ starts[x] \in Nat /\ live[x] \in Nat
        BY DEF IndInv, TypeOK
      <3>7. next[x] = None /\ ~Scheduled(x) /\ tasks[x].state \notin {"QUEUED", "NONE"}
        BY <3>2, <3>5, <3>6 DEF TaskInv, Awaiting, Schedule, Execution
      <3>8. ~Scheduled(x)'
        BY <2>1, <3>5, <3>7 DEF Scheduled
      <3>9. Placed(x)' /\ Awaiting(x)' /\ Execution(x)'
        BY <2>1, <2>5, <3>2, <3>4, <3>5, <3>6, <3>7 DEF TaskInv, Placed, Awaiting, Execution
      <3>10. Schedule(x)' /\ Attended(x)'
        BY <1>1, <3>8 DEF Schedule, Attended, Scheduled
      <3>11. Durable(x)'
        <4>1. NotQueued(Absent, x)
          BY DEF NotQueued, Absent
        <4>2. NotQueued(file, x) /\ NotQueued(reading, x)
          BY <3>2, <3>6 DEF Durable
        <4> QED
          BY <2>1, <2>2, <3>4, <4>1, <4>2 DEF Durable
      <3>12. ASSUME NEW t \in Tasks, t # x
             PROVE  Kept(t)
        <4>1. \A k \in Once : <<k, t>> # Head(writes)
          BY <2>8, <3>12
        <4> QED
          BY <1>1, <2>1, <2>3, <2>4, <2>5, <3>4, <3>12, <4>1 DEF Kept
      <3>13. PICK X \in SUBSET Tasks : X = {x}
        OBVIOUS
      <3>14. /\ \A t \in Tasks \ X : Kept(t)
             /\ \A t \in X : TaskInv(t)' /\ Durable(t)'
        BY <3>9, <3>10, <3>11, <3>12, <3>13 DEF TaskInv
      <3>15. writes' \in Seq(Waiters) /\ Distinct(writes') /\ file' \in {file, tmp}
        BY <2>1, <2>2, <2>3
      <3>16. UNCHANGED <<loaded, reading, workflows, tasks, restarts, session, live, cancels, doomed>>
        BY <1>1, <2>1
      <3> QED
        BY <1>1, <2>2, <2>4, <3>4, <3>14, <3>15, <3>16, WriteOver
    <2> QED
      BY <1>3, <2>3, <2>6, <2>7, <2>8
  <1> QED
    BY <1>2, <1>3

\* A step of shutdown() that finds its task over only forgets it.
LEMMA ShutdownCancelsStep ==
  ASSUME IndInv, NEW x \in Tasks, ShutdownCancels(x)
  PROVE  IndInv'
  <1>1. /\ UNCHANGED <<phase, workflows>> /\ UNCHANGED historyVars /\ UNCHANGED execVars /\ Unseen
        /\ doomed' = doomed \ {x}
    BY DEF ShutdownCancels
  <1>2. CASE tasks[x].state \in Terminal
    <2>1. UNCHANGED <<tasks, timers, cancels, writes, shutting>>
      BY <1>2 DEF ShutdownCancels
    <2>2. /\ UNCHANGED <<file, bak, tmp, loaded, reading, restarts, writeErrors, phase, workflows>>
          /\ UNCHANGED <<tasks, timers, cancels, writes, shutting, exec, next, session, live>>
          /\ UNCHANGED <<drawn, deleted, starts, runs>>
      BY <1>1, <2>1 DEF Unseen, fileVars, historyVars, execVars
    <2>3. TypeOK'
      BY <1>1, <2>2 DEF IndInv, TypeOK, FileTypeOK
    <2>4. Files' /\ Memory'
      BY <2>2 DEF IndInv, Files, Known, Memory
    <2>5. ASSUME NEW t \in Tasks
          PROVE  TaskInv(t)' /\ Durable(t)'
      BY <2>2 DEF IndInv, TaskInv, Placed, Awaiting, Schedule, Scheduled, Execution, Attended,
                  Durable, NotQueued
    <2> QED
      BY <2>3, <2>4, <2>5 DEF IndInv
  <1>3. CASE tasks[x].state \notin Terminal
    <2>1. CancelBegins(x) /\ shutting' = x
      BY <1>3 DEF ShutdownCancels
    <2>2. shutting' \in Tasks \cup {None} /\ doomed' \subseteq Tasks
      BY <1>1, <2>1 DEF IndInv, TypeOK
    <2> QED
      BY <1>1, <2>1, <2>2, CancelStep
  <1> QED
    BY <1>2, <1>3

-----------------------------------------------------------------------------
(* The theorems *)

LEMMA InitEstablishes ==
  ASSUME Init
  PROVE  IndInv
  <1>1. /\ file = Absent /\ bak = Absent /\ tmp = Absent /\ reading = NoRead /\ writes = <<>>
        /\ \A t \in Tasks : /\ tasks[t] = NoTask /\ exec[t] = "none" /\ next[t] = None
                            /\ starts[t] = 0 /\ live[t] = 0
        /\ timers = {} /\ workflows = {}
    BY DEF Init, FileInit
  <1>2. TypeOK
    <2>1. writes \in Seq(Waiters)
      BY <1>1
    <2>2. FileTypeOK(Snapshots)
      BY <1>1 DEF FileTypeOK, IsContents
    <2>3. session \in [Tasks -> BOOLEAN] /\ loaded \in BOOLEAN
      BY DEF Init
    <2>4. /\ workflows \subseteq Workflows /\ tasks \in [Tasks -> TaskRecords \cup {NoTask}]
          /\ exec \in [Tasks -> {"none", "marking", "starting", "step", "stepSaving", "stopping",
                                 "failing", "ending", "rescheduling", "noting"}]
          /\ next \in [Tasks -> Tasks \cup {None}] /\ live \in [Tasks -> Nat]
          /\ starts \in [Tasks -> Nat]
      BY DEF Init
    <2>5. /\ phase \in {"up", "stopping", "saving", "exiting", "down"} /\ timers \subseteq Tasks
          /\ cancels \subseteq Tasks /\ doomed \subseteq Tasks /\ shutting \in Tasks \cup {None}
          /\ drawn \subseteq Tasks \cup Workflows /\ deleted \subseteq Workflows
      BY DEF Init
    <2>6. runs \in 0 .. MaxRuns /\ restarts \in 0 .. MaxRestarts /\ writeErrors \in 0 .. MaxWriteErrors
      BY RpaAssumption DEF Init
    <2> QED
      BY <1>1, <2>1, <2>2, <2>3, <2>4, <2>5, <2>6 DEF TypeOK
  <1>3. Awaited(writes) = {} /\ Distinct(writes)
    BY <1>1 DEF Awaited, Distinct
  <1>4. None \notin Tasks
    BY RpaAssumption
  <1>5. Files
    BY <1>1 DEF Files, Known, Absent, NoRead
  <1>6. Memory
    BY <1>1, <1>3 DEF Init, Memory, NoRead
  <1>7. ASSUME NEW t \in Tasks
        PROVE  TaskInv(t) /\ Durable(t)
    <2>1. Placed(t) /\ Awaiting(t) /\ ~Scheduled(t)
      BY <1>1, <1>3, <1>4 DEF Placed, Awaiting, Scheduled
    <2>2. Schedule(t) /\ Execution(t) /\ Attended(t) /\ Durable(t)
      BY <1>1, <2>1 DEF Schedule, Scheduled, Execution, Attended, Durable, NoTask
    <2> QED
      BY <2>1, <2>2 DEF TaskInv
  <1> QED
    BY <1>2, <1>5, <1>6, <1>7 DEF IndInv

LEMMA StepPreserves ==
  ASSUME IndInv, [Next]_vars
  PROVE  IndInv'
  <1>1. CASE Crash \/ Exit \/ \E t \in Tasks : RescheduleThrows(t)
    <2>1. /\ Dies /\ UNCHANGED restarts /\ UNCHANGED historyVars
          /\ writeErrors' \in 0 .. MaxWriteErrors
      BY <1>1 DEF Crash, Exit, RescheduleThrows, IndInv, TypeOK
    <2> QED
      BY <2>1, DiesStep
  <1>2. CASE Restart
    BY <1>2, RestartStep
  <1>3. CASE LoadBegins
    BY <1>3, LoadBeginsStep
  <1>4. CASE LoadEnds
    BY <1>4, LoadEndsStep
  <1>5. CASE \E w \in Workflows : CreateWorkflow(w) \/ DeleteWorkflow(w)
    BY <1>5, WorkflowStep
  <1>6. CASE \E t \in Tasks, w \in Workflows, recurring \in BOOLEAN : Run(t, w, recurring)
    BY <1>6, RunStep
  <1>7. ASSUME NEW t \in Tasks, Cancel(t)
        PROVE  IndInv'
    <2>1. /\ CancelBegins(t) /\ UNCHANGED <<phase, workflows>> /\ UNCHANGED historyVars
          /\ UNCHANGED execVars /\ Unseen
          /\ shutting' \in Tasks \cup {None} /\ doomed' \subseteq Tasks
      BY <1>7 DEF Cancel, IndInv, TypeOK
    <2> QED
      BY <2>1, CancelStep
  <1>8. CASE \E t \in Tasks : CancelStopped(t) \/ ShutdownCancels(t) \/ TimerFires(t)
    BY <1>8, CancelStoppedStep, ShutdownCancelsStep, TimerFiresStep
  <1>9. ASSUME NEW t \in Tasks, Executes(t)
        PROVE  IndInv'
    <2>1. CASE SessionStarts(t)
      BY <2>1, SessionStartsStep
    <2>2. CASE \E ok \in BOOLEAN, onError \in {"stop", "continue"} : StepEnds(t, ok, onError)
      BY <2>2, StepEndsStep
    <2>3. CASE \E ok \in BOOLEAN : SessionStops(t, ok)
      BY <2>3, SessionStopsStep
    <2>4. CASE ExecutionFails(t)
      BY <2>4, ExecutionFailsStep
    <2> QED
      BY <1>9, <2>1, <2>2, <2>3, <2>4 DEF Executes
  <1>10. CASE \E t, nt \in Tasks : Reschedule(t, nt)
    BY <1>10, RescheduleStep
  <1>11. CASE Shutdown \/ ShutdownSaves
    BY <1>11, ShutdownStep
  <1>12. CASE WriteBegins
    BY <1>12, WriteBeginsStep
  <1>13. CASE WriteEnds
    BY <1>13, WriteEndsStep
  <1>14. CASE WriteFails
    BY <1>14, WriteFailsStep
  <1>15. CASE UNCHANGED vars
    <2>1. /\ UNCHANGED <<file, bak, tmp, loaded, reading, restarts, writeErrors, phase, workflows>>
          /\ UNCHANGED <<tasks, timers, cancels, doomed, writes, shutting>>
          /\ UNCHANGED <<exec, next, session, live, drawn, deleted, starts, runs>>
      BY <1>15 DEF vars, fileVars, memoryVars, historyVars, execVars
    <2>2. TypeOK'
      BY <2>1 DEF IndInv, TypeOK, FileTypeOK
    <2>3. Files' /\ Memory'
      BY <2>1 DEF IndInv, Files, Known, Memory
    <2>4. ASSUME NEW t \in Tasks
          PROVE  TaskInv(t)' /\ Durable(t)'
      BY <2>1 DEF IndInv, TaskInv, Placed, Awaiting, Schedule, Scheduled, Execution, Attended,
                  Durable, NotQueued
    <2> QED
      BY <2>2, <2>3, <2>4 DEF IndInv
  <1> QED
    BY <1>1, <1>2, <1>3, <1>4, <1>5, <1>6, <1>7, <1>8, <1>9, <1>10, <1>11, <1>12, <1>13, <1>14,
       <1>15
       DEF Next, Persists

\* The invariant above holds in every reachable state of the RPA service.
THEOREM Invariance == Spec => []IndInv
  <1>1. Init => IndInv
    BY InitEstablishes
  <1>2. IndInv /\ [Next]_vars => IndInv'
    BY StepPreserves
  <1> QED
    BY <1>1, <1>2, PTL DEF Spec

\* execute() opens at most one browser for a task, however often the process dies,
\* in the middle of a write too, and load() reads the file again.
THEOREM OneBrowserPerTask == Spec => []AtMostOnce
  <1>1. IndInv => AtMostOnce
    BY DEF IndInv, TaskInv, Execution, AtMostOnce
  <1> QED
    BY <1>1, Invariance, PTL

\* Every browser that runs has an execution that will stop it, and while nothing
\* was lost every queued task whose workflow exists has a timer, or the call that
\* will set one.
THEOREM TasksLookedAfter == Spec => []TasksAttended
  <1>1. IndInv => TypeOK /\ NoOrphanBrowser
    BY DEF IndInv, TaskInv, Execution, NoOrphanBrowser
  <1>2. IndInv => QueuedHasTimer
    <2>1. SUFFICES ASSUME IndInv, phase = "up", writeErrors = 0, NEW t \in Tasks,
                          tasks[t].state = "QUEUED", tasks[t].workflow \in workflows
                   PROVE  \/ t \in timers
                          \/ \E i \in DOMAIN writes : writes[i] = <<"run", t>>
                          \/ \E u \in Tasks : next[u] = t
      BY DEF QueuedHasTimer
    <2>2. Scheduled(t)
      BY <2>1 DEF IndInv, TaskInv, Attended
    <2> QED
      BY <2>2 DEF Scheduled, Awaited
  <1> QED
    BY <1>1, <1>2, Invariance, PTL DEF TasksAttended

=============================================================================
