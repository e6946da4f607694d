---------------------------- MODULE WorkflowProofs -----------------------------
(***************************************************************************)
(* Proofs, for every set of callers and requests, every length of the      *)
(* queue and of the action cache and however often the page changes, that  *)
(* a call acts on the page at most once and begins its first write at the  *)
(* revision it named, that the reports of a workflow tell what happened to *)
(* the page, and that nobody else acts between what a workflow does to the *)
(* page and its observation.                                               *)
(*                                                                         *)
(* A task outlives the wait for it: after a deadline it stays in the queue *)
(* or goes on running while its workflow observes and returns.  The        *)
(* invariant therefore ties every task in the queue and everything done to *)
(* the page to a position in its workflow, <<step, call of the step>>: all *)
(* positions before the current one have been acted on, no position of a   *)
(* task that has not acted has been, and no position is queued twice.      *)
(***************************************************************************)
EXTENDS Workflow, WellFoundedInduction, SequenceTheorems, FiniteSetTheorems, TLAPS

States == {"READY", "BUSY", "PAUSED_CHALLENGE", "USER_CONTROLLED", "ERROR"}
Asked == {batch[c] : batch \in Batches, c \in Callers}
Looping == {"init", "next", "value", "await", "after"}
Live == Looping \cup {"stopped", "observe"}
Early == {"idle", "shared", "init", "next", "value"}

CallRecords ==
    [req : Asked,
     pc : Live \cup {"idle", "shared", "done"},
     at : Nat, sub : Nat,
     before : [challenge : BOOLEAN, state : States, rev : Nat, n : Nat] \cup {None},
     raw : Nat,
     reports : Seq({"success", "error"}),
     stop : StopReasons,
     of : Callers \cup {None},
     result : Results \cup {None}]

OpNames == STRING \cup {"handoff", "snapshot"}
Tasks == [call : Callers, step : Nat, sub : Nat, op : OpNames, guard : BOOLEAN, aborted : BOOLEAN,
          seen : Nat]
Deeds == [step : Nat, sub : Nat, op : OpNames, seen : Nat, rev : Nat]
CacheEntries == [id : {r.id : r \in Asked}, call : Callers]
Types == {"DIALOG_BLOCKED", "POPUP_BLOCKED", "PAGE_CRASHED"}

TypeInv ==
    /\ call \in [Callers -> CallRecords]
    /\ token \in Callers \cup {None}
    /\ queue \in Seq(Tasks) /\ Len(queue) <= MaxQueue
    /\ running \in {"none", "begun", "checked", "acted"} /\ (running # "none" => queue # <<>>)
    /\ cache \in Seq(CacheEntries) /\ Len(cache) <= MaxActionCache
    /\ state \in States
    /\ rev \in 0..MaxNavigations
    /\ interrupts \in Seq(Types)
    /\ effects \in [Callers -> Seq(Deeds)]
    /\ acts \in Seq(Callers)

-----------------------------------------------------------------------------
(* The inductive invariant *)

\* What a call knows about itself.
Sound(r) ==
    /\ r.at \in 1..(Len(r.req.steps) + 1) /\ r.sub >= 1
    /\ r.pc = "done" <=> r.result # None
    /\ r.pc \in {"value", "await", "after"} /\ r.req.kind = "workflow" => r.at <= Len(r.req.steps)
    /\ r.req.kind # "workflow" => r.pc \in {"idle", "shared", "await", "done"} /\ r.at = 1 /\ r.sub = 1
    /\ r.pc \in {"idle", "shared", "init"} => r.at = 1
    /\ r.pc \in {"idle", "shared", "init", "next"} => r.sub = 1
    /\ r.pc \in Looping \cup {"idle", "shared"} => Len(r.reports) = r.at - 1
    /\ \A k \in 1..(r.at - 1) : k <= Len(r.reports) /\ r.reports[k] = "success"
    /\ r.pc \in Live /\ r.req.kind = "workflow" => ValidWorkflow(r.req.steps, r.req.stopOn)
    /\ r.pc \notin {"shared", "done"} => r.of = None
    /\ r.pc = "done" => r.result.steps + r.result.details <= r.req.room
    /\ r.pc = "done" /\ r.result.ok /\ r.of = None /\ r.req.kind = "workflow" =>
          /\ Len(r.reports) = Len(r.req.steps)
          /\ \A k \in 1..Len(r.reports) : r.reports[k] = "success"

\* Where in its workflow something done to the page was done.
DeedFits(r, e) ==
    /\ r.req.kind = "workflow" =>
        /\ ValidWorkflow(r.req.steps, r.req.stopOn)
        /\ e.step = 0 => e.op = "snapshot" /\ r.pc \in {"observe", "done"}
        /\ e.step > 0 =>
              /\ e.step <= Len(r.req.steps) /\ e.op = r.req.steps[e.step].op
              /\ e.step < r.at \/ (e.step = r.at /\ e.sub <= r.sub)
              /\ r.pc \in Early => e.step < r.at \/ e.sub < r.sub
    /\ r.req.kind # "workflow" => r.pc \in {"await", "done"}

\* Which place of its workflow a task in the queue has.
TaskFits(r, t) ==
    /\ r.req.kind = "workflow" =>
        /\ ValidWorkflow(r.req.steps, r.req.stopOn)
        /\ t.step = 0 => t.sub = 1 /\ t.op = "snapshot" /\ r.pc \in {"observe", "done"}
        /\ t.step > 0 =>
              /\ t.step = r.at /\ t.sub = r.sub /\ r.at <= Len(r.req.steps)
              /\ t.op = r.req.steps[r.at].op
              /\ t.guard = (r.req.expect /\ r.at = FirstWrite(r.req) /\ r.sub = 1)
              /\ r.pc \in {"await", "stopped", "observe", "done"}
    /\ r.req.kind # "workflow" =>
        t.step = 1 /\ t.sub = 1 /\ t.guard = r.req.expect /\ r.pc \in {"await", "done"}

\* Something was done at <<k, v>> of a sequence of deeds.
Done(s, k, v) == \E i \in 1..Len(s) : s[i].step = k /\ s[i].sub = v

\* What the reports and the position claim was done.
ClaimsFit(r, s) ==
    r.req.kind = "workflow" =>
        /\ \A k \in 1..Len(r.reports) : r.reports[k] = "success" =>
              \A v \in 1..Calls(r.req.steps[k]) : Done(s, k, v)
        /\ \A v \in 1..(r.sub - 1) : Done(s, r.at, v)
        /\ r.pc = "after" => \A v \in 1..Calls(r.req.steps[r.at]) : Done(s, r.at, v)

DoneOnce(s) == \A i, j \in 1..Len(s) : s[i].step = s[j].step /\ s[i].sub = s[j].sub => i = j

\* The first write, or one after it.
WriteFits(r, s) ==
    r.req.expect => \A i \in 1..Len(s) : RequireReady(s[i].op) =>
                        s[i].seen = 0 \/ \E j \in 1..(i - 1) : RequireReady(s[j].op)

SamePlace(t, u) == t.call = u.call /\ t.step = u.step /\ t.sub = u.sub

CallersInv == \A c \in Callers : Sound(call[c])

DeedsInv ==
    \A c \in Callers :
        /\ \A i \in 1..Len(effects[c]) : DeedFits(call[c], effects[c][i])
        /\ ClaimsFit(call[c], effects[c])
        /\ DoneOnce(effects[c])
        /\ WriteFits(call[c], effects[c])

\* A guarded operation has begun at the revision its caller named.
Heeded == running = "checked" => (queue[1].guard => queue[1].seen = 0)

TasksInv ==
    /\ Heeded
    /\ \A i \in 1..Len(queue) : TaskFits(call[queue[i].call], queue[i])
    /\ \A i, j \in 1..Len(queue) : SamePlace(queue[i], queue[j]) => i = j
    /\ \A i \in 1..Len(queue) : i # 1 \/ running # "acted" =>
          ~Done(effects[queue[i].call], queue[i].step, queue[i].sub)
    /\ running = "acted" => Done(effects[queue[1].call], queue[1].step, queue[1].sub)

SharedInv ==
    \A c \in Callers : call[c].pc = "shared" =>
        call[c].of \in Callers /\ Fingerprint(call[call[c].of].req) = Fingerprint(call[c].req)

Ran(c) == call[c].pc \in Live \/ effects[c] # <<>> \/ \E i \in 1..Len(queue) : queue[i].call = c

Known(c) ==
    \/ ActionId(c) = None \/ ActionId(c) \in forgotten
    \/ \E i \in 1..Len(cache) : cache[i].id = ActionId(c) /\ cache[i].call = c

CacheInv ==
    /\ \A c \in Callers : Ran(c) => Known(c)
    /\ \A i, j \in 1..Len(cache) : cache[i].id = cache[j].id => i = j

IInv == TypeInv /\ CallersInv /\ DeedsInv /\ TasksInv /\ SharedInv /\ CacheInv

-----------------------------------------------------------------------------
(* Operators of the model *)

\* A nonempty set of numbers has a least one.
LEMMA LeastIs ==
  ASSUME NEW S \in SUBSET Nat, S # {}
  PROVE  Least(S) \in S /\ \A m \in S : Least(S) <= m
  <1> DEFINE R == {ss \in Nat \X Nat : ss[1] < ss[2]}
  <1>0. IsWellFoundedOn(R, Nat)
    BY NatLessThanWellFounded, Zenon DEF OpToRel
  <1>1. PICK x \in S : \A y \in S : ~(<<y, x>> \in R)
    BY <1>0, WFMin, Zenon
  <1>2. ASSUME NEW m \in S
        PROVE  x <= m
    <2>1. ~(<<m, x>> \in R)
      BY <1>1
    <2>2. m \in Nat /\ x \in Nat
      OBVIOUS
    <2> QED
      BY <2>1, <2>2
  <1> QED
    BY <1>2 DEF Least

\* boundResult: what is returned fits the limit.
LEMMA BoundFits ==
  ASSUME NEW n \in Nat, NEW room \in Nat
  PROVE  /\ BoundResult(n, room).steps \in Nat /\ BoundResult(n, room).details \in Nat
         /\ BoundResult(n, room).truncated \in BOOLEAN
         /\ BoundResult(n, room).steps + BoundResult(n, room).details <= room
  <1>1. CASE 2 * n <= room
    BY <1>1 DEF BoundResult
  <1>2. CASE ~(2 * n <= room) /\ n <= room
    BY <1>2 DEF BoundResult
  <1>3. CASE ~(2 * n <= room) /\ ~(n <= room) /\ room >= 1
    <2> DEFINE S == {k \in 1..n : k <= room}
    <2>1. room \in S /\ \A m \in S : room >= m
      BY <1>3
    <2>2. Greatest(S) \in S
      BY <2>1 DEF Greatest
    <2>3. Greatest(S) \in Nat /\ Greatest(S) <= room
      BY <2>2
    <2> HIDE DEF S
    <2>4. BoundResult(n, room) = [steps |-> Greatest(S), details |-> 0, truncated |-> TRUE]
      BY <1>3 DEF BoundResult, S
    <2> QED
      BY <2>3, <2>4
  <1>4. CASE ~(2 * n <= room) /\ ~(n <= room) /\ ~(room >= 1)
    BY <1>4 DEF BoundResult
  <1> QED
    BY <1>1, <1>2, <1>3, <1>4

\* A request is well typed.
LEMMA AskedTyped ==
  ASSUME NEW r \in Asked
  PROVE  /\ r.kind \in Kinds /\ r.expect \in BOOLEAN /\ r.room \in Nat
         /\ r.steps \in Seq([op : STRING, has : SUBSET STRING, bad : SUBSET STRING,
                             agree : BOOLEAN, target : SUBSET STRING, n : Nat])
         /\ r.kind = "write" => Len(r.steps) = 1
         /\ Len(r.steps) \in Nat
         /\ \A i \in 1..Len(r.steps) : r.steps[i].op \in STRING /\ r.steps[i].n \in Nat
  <1>1. PICK batch \in Batches, c \in Callers : r = batch[c]
    BY DEF Asked
  <1>2. /\ r.kind \in Kinds /\ r.expect \in BOOLEAN /\ r.room \in Nat
        /\ r.steps \in Seq([op : STRING, has : SUBSET STRING, bad : SUBSET STRING,
                             agree : BOOLEAN, target : SUBSET STRING, n : Nat])
        /\ r.kind = "write" => Len(r.steps) = 1
    BY <1>1, RequestAssumption
  <1>0. ASSUME NEW S, NEW q \in Seq(S)
        PROVE  Len(q) \in Nat /\ \A i \in 1..Len(q) : q[i] \in S
    OBVIOUS
  <1>3. /\ Len(r.steps) \in Nat
        /\ \A i \in 1..Len(r.steps) : r.steps[i] \in [op : STRING, has : SUBSET STRING, bad : SUBSET STRING,
                                                     agree : BOOLEAN, target : SUBSET STRING, n : Nat]
    BY <1>0, <1>2, Zenon
  <1>4. \A i \in 1..Len(r.steps) : r.steps[i].op \in STRING /\ r.steps[i].n \in Nat
    BY <1>3
  <1> QED
    BY <1>2, <1>3, <1>4

\* What is reported fits the caller's limit.
LEMMA ReportFits ==
  ASSUME NEW r \in CallRecords, NEW ok \in BOOLEAN
  PROVE  /\ Report(r, ok) \in Results /\ Report(r, ok).ok = ok
         /\ Report(r, ok).steps + Report(r, ok).details <= r.req.room
  <1> DEFINE b == BoundResult(Len(r.reports), r.req.room)
  <1>1. r.req \in Asked /\ Len(r.reports) \in Nat /\ r.stop \in StopReasons
    BY DEF CallRecords
  <1>2. b.steps \in Nat /\ b.details \in Nat /\ b.truncated \in BOOLEAN /\ b.steps + b.details <= r.req.room
    BY <1>1, AskedTyped, BoundFits
  <1>3. Report(r, ok) = [ok |-> ok, stop |-> r.stop, steps |-> b.steps, details |-> b.details,
                         truncated |-> b.truncated]
    BY DEF Report
  <1> HIDE DEF b
  <1> QED
    BY <1>1, <1>2, <1>3 DEF Results

LEMMA FailureFits ==
  ASSUME NEW code \in Codes
  PROVE  /\ Failure(code) \in Results /\ Failure(code).ok = FALSE
         /\ Failure(code).steps + Failure(code).details = 0
         /\ [Failure(code) EXCEPT !.ok = TRUE] \in Results
         /\ [Failure(code) EXCEPT !.ok = TRUE].steps + [Failure(code) EXCEPT !.ok = TRUE].details = 0
  <1>1. ASSUME NEW f \in Results
        PROVE  /\ [f EXCEPT !.ok = TRUE] \in Results
               /\ [f EXCEPT !.ok = TRUE].steps = f.steps
               /\ [f EXCEPT !.ok = TRUE].details = f.details
    BY DEF Results
  <1>2. Failure(code) \in Results /\ Failure(code).ok = FALSE
        /\ Failure(code).steps + Failure(code).details = 0
    BY DEF Failure, Results
  <1> QED
    BY <1>1, <1>2

\* A call with its answer.
LEMMA SettledIs ==
  ASSUME NEW r \in CallRecords, NEW result \in Results
  PROVE  /\ Settled(r, result) \in CallRecords
         /\ Settled(r, result).req = r.req /\ Settled(r, result).pc = "done"
         /\ Settled(r, result).at = r.at /\ Settled(r, result).sub = r.sub
         /\ Settled(r, result).reports = r.reports /\ Settled(r, result).of = r.of
         /\ Settled(r, result).result = result /\ result # None
  BY RequestAssumption DEF Settled, CallRecords

LEMMA FailureReasonIs ==
  ASSUME NEW code
  PROVE  FailureReason(code) \in StopReasons /\ FailureReason(code) # "completed"
  <1>1. FailureReason(code) \in {"timeout", "challenge", "revision_mismatch", "error"}
    BY Zenon DEF FailureReason
  <1> QED
    BY <1>1 DEF StopReasons

\* The end of the loop.
LEMMA LeftIs ==
  ASSUME NEW r \in CallRecords, NEW stop \in StopReasons, NEW reports \in Seq({"success", "error"})
  PROVE  LET l == Left(r, stop, reports)
         IN  /\ l \in CallRecords /\ l.req = r.req /\ l.at = r.at /\ l.sub = r.sub
             /\ l.of = r.of /\ l.reports = reports
             /\ \/ l.pc = "stopped" /\ l.result = r.result
                \/ /\ l.pc = "done" /\ stop = "completed" /\ Len(reports) = Len(r.req.steps)
                   /\ l.result \in Results /\ l.result.steps + l.result.details <= r.req.room
  <1> DEFINE left == [r EXCEPT !.stop = stop, !.reports = reports, !.before = None]
             done == stop = "completed" /\ Len(reports) = Len(r.req.steps)
  <1>1. /\ left \in CallRecords /\ left.req = r.req /\ left.at = r.at /\ left.sub = r.sub
        /\ left.of = r.of /\ left.reports = reports /\ left.result = r.result
    BY DEF CallRecords
  <1>2. Left(r, stop, reports) = IF done THEN Settled(left, Report(left, TRUE)) ELSE [left EXCEPT !.pc = "stopped"]
    BY DEF Left
  <1> HIDE DEF left
  <1>3. CASE done
    <2>1. Report(left, TRUE) \in Results
          /\ Report(left, TRUE).steps + Report(left, TRUE).details <= r.req.room
      BY <1>1, ReportFits
    <2> DEFINE result == Report(left, TRUE)
    <2> HIDE DEF result
    <2>2. /\ Settled(left, result) \in CallRecords
          /\ Settled(left, result).req = left.req /\ Settled(left, result).pc = "done"
          /\ Settled(left, result).at = left.at /\ Settled(left, result).sub = left.sub
          /\ Settled(left, result).reports = left.reports /\ Settled(left, result).of = left.of
          /\ Settled(left, result).result = result
      BY <1>1, <2>1, SettledIs DEF result
    <2> DEFINE l == Settled(left, result)
    <2>3. Left(r, stop, reports) = l
      BY <1>2, <1>3 DEF result
    <2> HIDE DEF l, done
    <2>4. stop = "completed" /\ Len(reports) = Len(r.req.steps)
      BY <1>3 DEF done
    <2> QED
      BY <1>1, <2>1, <2>2, <2>3, <2>4 DEF l, result
  <1>4. CASE ~done
    <2> DEFINE l == [left EXCEPT !.pc = "stopped"]
    <2>1. /\ l \in CallRecords /\ l.req = left.req /\ l.at = left.at /\ l.sub = left.sub
          /\ l.of = left.of /\ l.reports = left.reports /\ l.result = left.result /\ l.pc = "stopped"
      BY <1>1 DEF CallRecords, Live
    <2>2. Left(r, stop, reports) = l
      BY <1>2, <1>4
    <2> HIDE DEF l
    <2> QED
      BY <1>1, <2>1, <2>2
  <1> QED
    BY <1>3, <1>4

-----------------------------------------------------------------------------
(* Steps of one call *)

\* Whatever was done and is queued for r is so for l.
DeedsFollow(r, l) ==
    /\ l.req = r.req
    /\ \A e \in Deeds : DeedFits(r, e) => DeedFits(l, e)
    /\ \A s : ClaimsFit(r, s) => ClaimsFit(l, s)
TasksFollow(r, l) == \A t : TaskFits(r, t) => TaskFits(l, t)
LiveFollows(r, l) == l.pc \in Live => r.pc \in Live

\* A call that shares another's answer asked for the same.
SharedRight(l) ==
    l.pc = "shared" => l.of \in Callers /\ Fingerprint(call[l.of].req) = Fingerprint(l.req)

Follows(r, l) ==
    /\ l \in CallRecords /\ Sound(l) /\ SharedRight(l)
    /\ DeedsFollow(r, l) /\ TasksFollow(r, l) /\ LiveFollows(r, l)

\* A call is answered.
LEMMA SettledFollows ==
  ASSUME NEW r \in CallRecords, Sound(r), NEW result \in Results,
         result.steps + result.details <= r.req.room,
         result.ok => r.of # None \/ r.req.kind # "workflow"
  PROVE  Follows(r, Settled(r, result))
  <1> DEFINE l == Settled(r, result)
  <1>1. /\ l \in CallRecords /\ l.req = r.req /\ l.pc = "done" /\ l.at = r.at /\ l.sub = r.sub
        /\ l.reports = r.reports /\ l.of = r.of /\ l.result = result /\ result # None
    BY SettledIs
  <1> HIDE DEF l
  <1>2. Sound(l)
    BY <1>1 DEF Sound, Live, Looping
  <1>3. DeedsFollow(r, l)
    BY <1>1 DEF DeedsFollow, DeedFits, ClaimsFit, Early
  <1>4. TasksFollow(r, l)
    BY <1>1 DEF TasksFollow, TaskFits
  <1> QED
    BY <1>1, <1>2, <1>3, <1>4 DEF Follows, SharedRight, LiveFollows, Live, Looping, l

\* The loop ends with the reports so far, or with one more.
LEMMA LeftFollows ==
  ASSUME NEW r \in CallRecords, Sound(r), r.req.kind = "workflow", r.pc \in Looping,
         NEW stop \in StopReasons, NEW reports \in Seq({"success", "error"}),
         \/ reports = r.reports
         \/ reports = Append(r.reports, "error")
         \/ reports = Append(r.reports, "success") /\ r.pc = "after",
         stop = "completed" => reports = r.reports
  PROVE  Follows(r, Left(r, stop, reports))
  <1> DEFINE l == Left(r, stop, reports)
  <1>1. /\ l \in CallRecords /\ l.req = r.req /\ l.at = r.at /\ l.sub = r.sub
        /\ l.of = r.of /\ l.reports = reports
        /\ \/ l.pc = "stopped" /\ l.result = r.result
           \/ /\ l.pc = "done" /\ stop = "completed" /\ Len(reports) = Len(r.req.steps)
              /\ l.result \in Results /\ l.result.steps + l.result.details <= r.req.room
    BY LeftIs
  <1> HIDE DEF l
  <1>2. r.reports \in Seq({"success", "error"}) /\ r.at \in Nat /\ r.req \in Asked
    BY DEF CallRecords
  <1>3. Len(r.req.steps) \in Nat
    BY <1>2, AskedTyped
  <1>4. Len(r.reports) = r.at - 1 /\ r.at \in Nat /\ r.at >= 1
    BY <1>2, <1>3 DEF Sound
  <1>5. /\ \A k \in 1..(r.at - 1) : k <= Len(reports) /\ reports[k] = r.reports[k]
        /\ Len(reports) \in {r.at - 1, r.at}
        /\ Len(reports) = r.at => reports[r.at] = "error" \/ r.pc = "after"
    <2>1. CASE reports = r.reports
      BY <1>2, <1>4, <2>1
    <2>2. CASE reports = Append(r.reports, "error")
      BY <1>2, <1>4, <2>2
    <2>3. CASE reports = Append(r.reports, "success") /\ r.pc = "after"
      BY <1>2, <1>4, <2>3
    <2> QED
      BY <2>1, <2>2, <2>3
  <1>6. \A k \in 1..(r.at - 1) : reports[k] = "success"
    BY <1>4, <1>5 DEF Sound
  <1>7. stop = "completed" => Len(reports) = r.at - 1
    BY <1>4
  <1>8. r.result = None /\ ValidWorkflow(r.req.steps, r.req.stopOn) /\ r.of = None
    BY DEF Sound, Looping, Live
  <1>9. None \notin Results
    BY RequestAssumption
  <1>10. Sound(l)
    <2>1. CASE l.pc = "stopped" /\ l.result = r.result
      BY <1>1, <1>5, <1>6, <1>8, <2>1 DEF Sound, Looping, Live
    <2>2. CASE l.pc = "done" /\ stop = "completed" /\ Len(reports) = Len(r.req.steps)
               /\ l.result \in Results /\ l.result.steps + l.result.details <= r.req.room
      <3>1. \A k \in 1..Len(reports) : reports[k] = "success"
        BY <1>6, <1>7, <2>2
      <3> QED
        BY <1>1, <1>5, <1>6, <1>8, <1>9, <2>2, <3>1 DEF Sound, Looping, Live
    <2> QED
      BY <1>1, <2>1, <2>2
  <1>11. l.pc \in {"stopped", "done"}
    BY <1>1
  <1>12. ASSUME NEW s, ClaimsFit(r, s)
         PROVE  ClaimsFit(l, s)
    <2>1. ASSUME NEW k \in 1..Len(reports), reports[k] = "success", NEW v \in 1..Calls(r.req.steps[k])
          PROVE  Done(s, k, v)
      <3>1. CASE k \in 1..(r.at - 1)
        BY <1>4, <1>5, <1>12, <2>1, <3>1 DEF ClaimsFit
      <3>2. CASE k = r.at
        BY <1>4, <1>5, <1>12, <2>1, <3>2 DEF ClaimsFit
      <3> QED
        BY <1>4, <1>5, <3>1, <3>2
    <2> QED
      BY <1>1, <1>11, <1>12, <2>1 DEF ClaimsFit
  <1>13. DeedsFollow(r, l)
    BY <1>1, <1>11, <1>12 DEF DeedsFollow, DeedFits, Early, Looping
  <1>14. TasksFollow(r, l)
    BY <1>1, <1>11 DEF TasksFollow, TaskFits, Looping
  <1> QED
    BY <1>1, <1>10, <1>11, <1>13, <1>14 DEF Follows, SharedRight, LiveFollows, Live, Looping, l

\* A step fails.
LEMMA FailedFollows ==
  ASSUME NEW r \in CallRecords, Sound(r), r.req.kind = "workflow", r.pc \in Looping, NEW code
  PROVE  Follows(r, FailedStep(r, code))
  <1> DEFINE reports == Append(r.reports, "error")
  <1>1. r.reports \in Seq({"success", "error"}) /\ reports \in Seq({"success", "error"})
    BY DEF CallRecords
  <1>2. FailureReason(code) \in StopReasons /\ FailureReason(code) # "completed"
    BY FailureReasonIs
  <1>3. FailedStep(r, code) = Left(r, FailureReason(code), reports)
    BY DEF FailedStep
  <1> QED
    BY <1>1, <1>2, <1>3, LeftFollows

\* Steps from one place to the next that leave the position and the reports.
Moves == {<<"idle", "init">>, <<"idle", "await">>, <<"init", "next">>, <<"next", "await">>,
          <<"value", "await">>, <<"stopped", "observe">>}

LEMMA MoveFollows ==
  ASSUME NEW r \in CallRecords, Sound(r), NEW l \in CallRecords,
         l.req = r.req /\ l.at = r.at /\ l.sub = r.sub /\ l.reports = r.reports /\ l.of = r.of
         /\ l.result = r.result,
         <<r.pc, l.pc>> \in Moves,
         r.pc = "idle" /\ l.pc = "init" =>
            r.req.kind = "workflow" /\ ValidWorkflow(r.req.steps, r.req.stopOn),
         r.pc = "idle" /\ l.pc = "await" => r.req.kind # "workflow",
         r.pc = "next" /\ l.pc = "await" => r.at <= Len(r.req.steps)
  PROVE  /\ Sound(l) /\ DeedsFollow(r, l) /\ TasksFollow(r, l) /\ l.pc # "shared"
         /\ r.pc # "idle" => Follows(r, l)
  <1>1. Sound(l)
    BY DEF Sound, Moves, Looping, Live
  <1>2. DeedsFollow(r, l)
    BY DEF DeedsFollow, DeedFits, ClaimsFit, Moves, Early
  <1>3. TasksFollow(r, l)
    BY DEF TasksFollow, TaskFits, Moves
  <1>4. l.pc # "shared"
    BY DEF Moves
  <1>5. r.pc # "idle" => LiveFollows(r, l)
    BY DEF Moves, LiveFollows, Live, Looping
  <1> QED
    BY <1>1, <1>2, <1>3, <1>4, <1>5 DEF Follows, SharedRight

\* A step is reported as a success and the loop goes on with the next.
LEMMA AdvanceFollows ==
  ASSUME NEW r \in CallRecords, Sound(r), r.pc = "after", NEW l \in CallRecords,
         l.req = r.req /\ l.of = r.of /\ l.result = r.result,
         l.pc = "next" /\ l.at = r.at + 1 /\ l.sub = 1 /\ l.reports = Append(r.reports, "success")
  PROVE  Follows(r, l)
  <1>1. r.reports \in Seq({"success", "error"}) /\ r.at \in Nat /\ r.req \in Asked
    BY DEF CallRecords
  <1>2. Len(r.req.steps) \in Nat
    BY <1>1, AskedTyped
  <1>3. /\ Len(r.reports) = r.at - 1 /\ r.at >= 1 /\ r.req.kind = "workflow"
        /\ r.at <= Len(r.req.steps)
    BY <1>1, <1>2 DEF Sound, Looping
  <1>4. /\ Len(l.reports) = r.at /\ l.reports[r.at] = "success"
        /\ \A k \in 1..(r.at - 1) : l.reports[k] = r.reports[k]
    BY <1>1, <1>3
  <1>5. \A k \in 1..(l.at - 1) : k <= Len(l.reports) /\ l.reports[k] = "success"
    BY <1>1, <1>3, <1>4 DEF Sound
  <1>6. Sound(l)
    BY <1>1, <1>2, <1>3, <1>4, <1>5 DEF Sound, Looping, Live
  <1>7. ASSUME NEW s, ClaimsFit(r, s)
        PROVE  ClaimsFit(l, s)
    <2>1. ASSUME NEW k \in 1..Len(l.reports), l.reports[k] = "success", NEW v \in 1..Calls(r.req.steps[k])
          PROVE  Done(s, k, v)
      <3>1. CASE k \in 1..(r.at - 1)
        BY <1>3, <1>4, <1>7, <2>1, <3>1 DEF ClaimsFit
      <3>2. CASE k = r.at
        BY <1>3, <1>4, <1>7, <2>1, <3>2 DEF ClaimsFit
      <3> QED
        BY <1>1, <1>3, <1>4, <3>1, <3>2
    <2> QED
      BY <1>3, <2>1 DEF ClaimsFit
  <1>8. ASSUME NEW e \in Deeds, DeedFits(r, e)
        PROVE  DeedFits(l, e)
    BY <1>1, <1>3, <1>8 DEF DeedFits, Deeds, Early
  <1>9. TasksFollow(r, l)
    BY DEF TasksFollow, TaskFits
  <1> QED
    BY <1>6, <1>7, <1>8, <1>9 DEF Follows, SharedRight, DeedsFollow, LiveFollows, Live, Looping

-----------------------------------------------------------------------------
(* Steps of the callers and the queue *)

LEMMA CallMoves ==
  ASSUME call \in [Callers -> CallRecords], effects \in [Callers -> Seq(Deeds)],
         CallersInv, DeedsInv, SharedInv,
         NEW c \in Callers, NEW l \in CallRecords, Sound(l), l.req = call[c].req,
         \A e \in Deeds : DeedFits(call[c], e) => DeedFits(l, e),
         ClaimsFit(call[c], effects[c]) => ClaimsFit(l, effects[c]),
         SharedRight(l),
         call' = [call EXCEPT ![c] = l], effects' = effects
  PROVE  /\ call' \in [Callers -> CallRecords] /\ CallersInv' /\ DeedsInv' /\ SharedInv'
         /\ call'[c] = l /\ \A d \in Callers : d # c => call'[d] = call[d]
         /\ \A d \in Callers : call'[d].req = call[d].req
  <1>1. /\ call' \in [Callers -> CallRecords]
        /\ call'[c] = l /\ \A d \in Callers : d # c => call'[d] = call[d]
    OBVIOUS
  <1>2. \A d \in Callers : call'[d].req = call[d].req
    BY <1>1
  <1>3. CallersInv'
    BY <1>1 DEF CallersInv
  <1>4. ASSUME NEW d \in Callers
        PROVE  /\ \A i \in 1..Len(effects[d]) : DeedFits(call'[d], effects[d][i])
               /\ ClaimsFit(call'[d], effects[d])
               /\ DoneOnce(effects[d])
               /\ WriteFits(call'[d], effects[d])
    <2>1. CASE d = c
      <3>1. \A i \in 1..Len(effects[c]) : effects[c][i] \in Deeds
        OBVIOUS
      <3> QED
        BY <1>1, <1>2, <2>1, <3>1 DEF DeedsInv, WriteFits
    <2>2. CASE d # c
      BY <1>1, <2>2 DEF DeedsInv
    <2> QED
      BY <2>1, <2>2
  <1>5. DeedsInv'
    BY <1>4 DEF DeedsInv
  <1>6. ASSUME NEW d \in Callers, call'[d].pc = "shared"
        PROVE  call'[d].of \in Callers /\ Fingerprint(call'[call'[d].of].req) = Fingerprint(call'[d].req)
    <2>1. call'[d].of \in Callers /\ Fingerprint(call[call'[d].of].req) = Fingerprint(call[d].req)
      <3>1. CASE d = c
        BY <1>1, <1>2, <1>6, <3>1 DEF SharedRight
      <3>2. CASE d # c
        BY <1>1, <1>6, <3>2 DEF SharedInv
      <3> QED
        BY <3>1, <3>2
    <2> QED
      BY <1>2, <2>1
  <1>7. SharedInv'
    BY <1>6 DEF SharedInv
  <1> QED
    BY <1>1, <1>2, <1>3, <1>5, <1>7

\* The queue keeps its tasks, some of them aborted.
SamePlaces(p, q) ==
    /\ q \in Seq(Tasks) /\ Len(q) = Len(p)
    /\ \A i \in 1..Len(p) : /\ q[i].call = p[i].call /\ q[i].step = p[i].step /\ q[i].sub = p[i].sub
                            /\ q[i].op = p[i].op /\ q[i].guard = p[i].guard
SameTasks(p, q) == SamePlaces(p, q) /\ \A i \in 1..Len(p) : q[i].seen = p[i].seen

LEMMA TaskTyped ==
  ASSUME NEW q \in Seq(Tasks)
  PROVE  /\ Len(q) \in Nat
         /\ \A i \in 1..Len(q) : /\ q[i] \in Tasks /\ q[i].call \in Callers
                                 /\ q[i].step \in Nat /\ q[i].sub \in Nat
  <1>1. Len(q) \in Nat /\ \A i \in 1..Len(q) : q[i] \in Tasks
    OBVIOUS
  <1> QED
    BY <1>1 DEF Tasks

\* AbortRunning and the signals of the timers.
LEMMA AbortSame ==
  ASSUME queue \in Seq(Tasks), running # "none" => queue # <<>>, NEW P \in SUBSET Nat
  PROVE  /\ SameTasks(queue, queue)
         /\ SameTasks(queue, AbortRunning)
         /\ SameTasks(queue, [i \in 1..Len(queue) |->
                IF i \in P THEN [queue[i] EXCEPT !.aborted = TRUE] ELSE queue[i]])
  <1>1. Len(queue) \in Nat /\ \A i \in 1..Len(queue) : queue[i] \in Tasks
    OBVIOUS
  <1>2. \A t \in Tasks : LET u == [t EXCEPT !.aborted = TRUE]
                         IN  /\ u \in Tasks /\ u.call = t.call /\ u.step = t.step /\ u.sub = t.sub
                             /\ u.op = t.op /\ u.guard = t.guard /\ u.seen = t.seen
    BY DEF Tasks
  <1>3. ASSUME NEW q, q = [i \in 1..Len(queue) |->
                              IF i \in P THEN [queue[i] EXCEPT !.aborted = TRUE] ELSE queue[i]]
        PROVE  SameTasks(queue, q)
    <2>1. \A i \in 1..Len(queue) : /\ q[i] \in Tasks
                                   /\ q[i].call = queue[i].call /\ q[i].step = queue[i].step
                                   /\ q[i].sub = queue[i].sub /\ q[i].op = queue[i].op
                                   /\ q[i].guard = queue[i].guard /\ q[i].seen = queue[i].seen
      BY <1>1, <1>2, <1>3
    <2>2. q \in Seq(Tasks) /\ Len(q) = Len(queue)
      BY <1>1, <1>3, <2>1
    <2> QED
      BY <2>1, <2>2 DEF SameTasks, SamePlaces
  <1>4. SameTasks(queue, queue)
    BY <1>1 DEF SameTasks, SamePlaces
  <1>5. SameTasks(queue, AbortRunning)
    <2>1. CASE running = "none"
      BY <1>4, <2>1 DEF AbortRunning
    <2>2. CASE running # "none"
      <3> DEFINE u == [queue[1] EXCEPT !.aborted = TRUE]
      <3>1. queue[1] \in Tasks /\ 1 \in 1..Len(queue)
        BY <2>2, <1>1
      <3>2. /\ u \in Tasks /\ u.call = queue[1].call /\ u.step = queue[1].step
            /\ u.sub = queue[1].sub /\ u.op = queue[1].op /\ u.guard = queue[1].guard
            /\ u.seen = queue[1].seen
        BY <1>2, <3>1
      <3>3. AbortRunning = [queue EXCEPT ![1] = u]
        BY <2>2 DEF AbortRunning
      <3> HIDE DEF u
      <3>4. [queue EXCEPT ![1] = u] \in Seq(Tasks) /\ Len([queue EXCEPT ![1] = u]) = Len(queue)
        BY <3>1, <3>2
      <3>5. \A i \in 1..Len(queue) : [queue EXCEPT ![1] = u][i] = IF i = 1 THEN u ELSE queue[i]
        BY <3>1
      <3> QED
        BY <3>2, <3>3, <3>4, <3>5 DEF SameTasks, SamePlaces
    <2> QED
      BY <2>1, <2>2
  <1> QED
    BY <1>3, <1>4, <1>5

\* What fits the call fits it after the step.
LEMMA TasksKept ==
  ASSUME queue \in Seq(Tasks), TasksInv, effects' = effects, running' = "acted" <=> running = "acted",
         running # "none" => queue # <<>>,
         \A d \in Callers : TasksFollow(call[d], call'[d]),
         SamePlaces(queue, queue'), Heeded'
  PROVE  TasksInv'
  <1>1. Len(queue) \in Nat /\ \A i \in 1..Len(queue) : queue[i].call \in Callers
    BY TaskTyped
  <1>2. Len(queue') = Len(queue)
    BY DEF SamePlaces
  <1>3. ASSUME NEW i \in 1..Len(queue)
        PROVE  TaskFits(call'[queue'[i].call], queue'[i])
    <2>1. TaskFits(call'[queue[i].call], queue[i])
      BY <1>1 DEF TasksInv, TasksFollow
    <2>2. queue'[i].call = queue[i].call /\ queue'[i].step = queue[i].step /\ queue'[i].sub = queue[i].sub
          /\ queue'[i].op = queue[i].op /\ queue'[i].guard = queue[i].guard
      BY DEF SamePlaces
    <2> QED
      BY <2>1, <2>2 DEF TaskFits
  <1>4. ASSUME NEW i \in 1..Len(queue), NEW j \in 1..Len(queue), SamePlace(queue'[i], queue'[j])
        PROVE  i = j
    <2>1. SamePlace(queue[i], queue[j])
      BY <1>4 DEF SamePlaces, SamePlace
    <2> QED
      BY <2>1 DEF TasksInv
  <1>5. ASSUME NEW i \in 1..Len(queue), i # 1 \/ running' # "acted"
        PROVE  ~Done(effects'[queue'[i].call], queue'[i].step, queue'[i].sub)
    BY <1>5 DEF TasksInv, SamePlaces
  <1>6. ASSUME running' = "acted"
        PROVE  Done(effects'[queue'[1].call], queue'[1].step, queue'[1].sub)
    <2>1. 1 \in 1..Len(queue)
      BY <1>1, <1>6
    <2> QED
      BY <1>6, <2>1 DEF TasksInv, SamePlaces
  <1> QED
    BY <1>2, <1>3, <1>4, <1>5, <1>6 DEF TasksInv

\* A task is put into the queue, at a place of its own where nothing was done.
LEMMA TasksGrow ==
  ASSUME queue \in Seq(Tasks), TasksInv, effects' = effects, running' = running,
         running # "none" => queue # <<>>,
         \A d \in Callers : TasksFollow(call[d], call'[d]),
         NEW t \in Tasks, queue' = Append(queue, t),
         TaskFits(call'[t.call], t),
         \A i \in 1..Len(queue) : ~SamePlace(queue[i], t),
         ~Done(effects[t.call], t.step, t.sub)
  PROVE  TasksInv'
  <1>1. Len(queue) \in Nat /\ \A i \in 1..Len(queue) : queue[i].call \in Callers
    BY TaskTyped
  <1>2. /\ Len(queue') = Len(queue) + 1 /\ queue'[Len(queue) + 1] = t
        /\ \A i \in 1..Len(queue) : queue'[i] = queue[i]
    OBVIOUS
  <1>3. \A i \in 1..Len(queue') : i \in 1..Len(queue) \/ i = Len(queue) + 1
    BY <1>1, <1>2
  <1>4. ASSUME NEW i \in 1..Len(queue')
        PROVE  TaskFits(call'[queue'[i].call], queue'[i])
    <2>1. CASE i \in 1..Len(queue)
      BY <1>1, <1>2, <2>1 DEF TasksInv, TasksFollow
    <2>2. CASE i = Len(queue) + 1
      BY <1>2, <2>2
    <2> QED
      BY <1>3, <2>1, <2>2
  <1>5. ASSUME NEW i \in 1..Len(queue'), NEW j \in 1..Len(queue'), SamePlace(queue'[i], queue'[j])
        PROVE  i = j
    <2>1. \A u, v : SamePlace(u, v) <=> SamePlace(v, u)
      BY DEF SamePlace
    <2>2. CASE i \in 1..Len(queue) /\ j \in 1..Len(queue)
      BY <1>2, <1>5, <2>2 DEF TasksInv
    <2>3. CASE i = Len(queue) + 1 /\ j \in 1..Len(queue)
      BY <1>2, <1>5, <2>1, <2>3
    <2>4. CASE i \in 1..Len(queue) /\ j = Len(queue) + 1
      BY <1>2, <1>5, <2>4
    <2> QED
      BY <1>3, <2>2, <2>3, <2>4
  <1>6. ASSUME NEW i \in 1..Len(queue'), i # 1 \/ running' # "acted"
        PROVE  ~Done(effects'[queue'[i].call], queue'[i].step, queue'[i].sub)
    <2>1. CASE i \in 1..Len(queue)
      BY <1>2, <1>6, <2>1 DEF TasksInv
    <2>2. CASE i = Len(queue) + 1
      BY <1>2, <2>2
    <2> QED
      BY <1>3, <2>1, <2>2
  <1>7. ASSUME running' = "acted"
        PROVE  Done(effects'[queue'[1].call], queue'[1].step, queue'[1].sub)
    <2>1. 1 \in 1..Len(queue)
      BY <1>1, <1>7
    <2> QED
      BY <1>2, <1>7, <2>1 DEF TasksInv
  <1>8. Heeded'
    <2>1. running' = "checked" => 1 \in 1..Len(queue)
      BY <1>1
    <2> QED
      BY <1>2, <2>1 DEF TasksInv, Heeded
  <1> QED
    BY <1>4, <1>5, <1>6, <1>7, <1>8 DEF TasksInv

\* The first task leaves the queue.
LEMMA TasksShrink ==
  ASSUME queue \in Seq(Tasks), queue # <<>>, TasksInv, effects' = effects, running' = "none",
         queue' = Tail(queue),
         \A i \in 2..Len(queue) : TaskFits(call'[queue[i].call], queue[i])
  PROVE  TasksInv'
  <1>1. Len(queue) \in Nat /\ Len(queue) >= 1
    OBVIOUS
  <1>2. /\ Len(queue') = Len(queue) - 1
        /\ \A i \in 1..Len(queue') : queue'[i] = queue[i + 1] /\ i + 1 \in 2..Len(queue)
                                     /\ i + 1 \in 1..Len(queue)
    OBVIOUS
  <1>3. ASSUME NEW i \in 1..Len(queue')
        PROVE  TaskFits(call'[queue'[i].call], queue'[i])
    BY <1>2
  <1>4. ASSUME NEW i \in 1..Len(queue'), NEW j \in 1..Len(queue'), SamePlace(queue'[i], queue'[j])
        PROVE  i = j
    <2>1. i + 1 = j + 1
      BY <1>2, <1>4 DEF TasksInv
    <2> QED
      BY <1>1, <1>2, <2>1
  <1>5. ASSUME NEW i \in 1..Len(queue')
        PROVE  ~Done(effects'[queue'[i].call], queue'[i].step, queue'[i].sub)
    <2>1. i + 1 # 1 /\ i + 1 \in 1..Len(queue)
      BY <1>1, <1>2
    <2> QED
      BY <1>2, <2>1 DEF TasksInv
  <1> QED
    BY <1>3, <1>4, <1>5 DEF TasksInv, Heeded

\* The action cache, when nobody new has run.
LEMMA CacheKept ==
  ASSUME CacheInv, cache' = cache, forgotten' = forgotten,
         \A d \in Callers : call'[d].req = call[d].req /\ (Ran(d)' => Ran(d))
  PROVE  CacheInv'
  <1>1. ASSUME NEW d \in Callers, Ran(d)'
        PROVE  Known(d)'
    BY <1>1 DEF CacheInv, Known, ActionId
  <1> QED
    BY <1>1 DEF CacheInv

\* Nobody new has run when tasks are kept or dropped.
LEMMA RanKept ==
  ASSUME call \in [Callers -> CallRecords], queue \in Seq(Tasks), queue' \in Seq(Tasks),
         NEW c \in Callers, NEW l, call' = [call EXCEPT ![c] = l], effects' = effects,
         Ran(c) \/ ~(l.pc \in Live),
         \A i \in 1..Len(queue') : queue'[i].call = c \/ \E j \in 1..Len(queue) : queue'[i].call = queue[j].call,
         Ran(c) \/ \A i \in 1..Len(queue') : \E j \in 1..Len(queue) : queue'[i].call = queue[j].call
  PROVE  \A d \in Callers : Ran(d)' => Ran(d)
  <1>1. SUFFICES ASSUME NEW d \in Callers, Ran(d)' PROVE Ran(d)
    OBVIOUS
  <1>2. call'[d] = IF d = c THEN l ELSE call[d]
    OBVIOUS
  <1>3. CASE call'[d].pc \in Live
    BY <1>2, <1>3 DEF Ran
  <1>4. CASE effects'[d] # <<>>
    BY <1>4 DEF Ran
  <1>5. CASE \E i \in 1..Len(queue') : queue'[i].call = d
    BY <1>5 DEF Ran
  <1> QED
    BY <1>1, <1>3, <1>4, <1>5 DEF Ran

\* One call takes a step; the queue keeps its tasks.
LEMMA CallStep ==
  ASSUME IInv, NEW c \in Callers, NEW l, Follows(call[c], l),
         call' = [call EXCEPT ![c] = l], token' \in {token, None}, SameTasks(queue, queue'),
         UNCHANGED <<running, cache, sessionVars, effects, acts, forgotten>>
  PROVE  IInv'
  <1>1. TypeInv /\ CallersInv /\ DeedsInv /\ TasksInv /\ SharedInv /\ CacheInv
    BY DEF IInv
  <1>2. /\ call \in [Callers -> CallRecords] /\ effects \in [Callers -> Seq(Deeds)]
        /\ queue \in Seq(Tasks) /\ (running # "none" => queue # <<>>) /\ Len(queue) <= MaxQueue
        /\ effects' = effects /\ running' = running /\ cache' = cache /\ forgotten' = forgotten
    BY <1>1 DEF TypeInv
  <1>3. /\ l \in CallRecords /\ Sound(l) /\ SharedRight(l) /\ DeedsFollow(call[c], l)
        /\ TasksFollow(call[c], l) /\ LiveFollows(call[c], l)
    BY DEF Follows
  <1>4. /\ call' \in [Callers -> CallRecords] /\ CallersInv' /\ DeedsInv' /\ SharedInv'
        /\ call'[c] = l /\ \A d \in Callers : d # c => call'[d] = call[d]
        /\ \A d \in Callers : call'[d].req = call[d].req
    BY <1>1, <1>2, <1>3, CallMoves DEF DeedsFollow
  <1>5. \A d \in Callers : TasksFollow(call[d], call'[d])
    BY <1>3, <1>4 DEF TasksFollow
  <1>6. TasksInv'
    <2>1. SamePlaces(queue, queue')
      BY DEF SameTasks
    <2>2. Heeded'
      <3>1. running' = "checked" => 1 \in 1..Len(queue)
        BY <1>2
      <3>2. running' = "checked" => /\ queue'[1].guard = queue[1].guard
                                    /\ queue'[1].seen = queue[1].seen
        BY <3>1 DEF SameTasks, SamePlaces
      <3> QED
        BY <1>1, <1>2, <3>2 DEF TasksInv, Heeded
    <2> QED
      BY <1>1, <1>2, <1>5, <2>1, <2>2, TasksKept
  <1>7. queue' \in Seq(Tasks) /\ Len(queue') = Len(queue)
        /\ \A i \in 1..Len(queue') : \E j \in 1..Len(queue) : queue'[i].call = queue[j].call
    BY DEF SameTasks, SamePlaces
  <1>8. Ran(c) \/ ~(l.pc \in Live)
    BY <1>3 DEF LiveFollows, Ran
  <1>9. \A d \in Callers : Ran(d)' => Ran(d)
    BY <1>2, <1>7, <1>8, RanKept
  <1>10. CacheInv'
    BY <1>1, <1>2, <1>4, <1>9, CacheKept
  <1>11. (running' # "none" => queue' # <<>>)
    BY <1>2, <1>7
  <1>12. TypeInv'
    BY <1>1, <1>2, <1>4, <1>7, <1>11 DEF TypeInv, sessionVars
  <1> QED
    BY <1>4, <1>6, <1>10, <1>12 DEF IInv

\* One call takes a step and puts a task into the queue.
LEMMA QueueStep ==
  ASSUME IInv, NEW c \in Callers, NEW l, Follows(call[c], l), call[c].pc \in Live,
         call' = [call EXCEPT ![c] = l], token' \in {token, None},
         NEW t \in Tasks, t.call = c, queue' = Append(queue, t), Len(queue) < MaxQueue,
         TaskFits(l, t),
         \A i \in 1..Len(queue) : ~SamePlace(queue[i], t),
         ~Done(effects[c], t.step, t.sub),
         UNCHANGED <<running, cache, sessionVars, effects, acts, forgotten>>
  PROVE  IInv'
  <1>1. TypeInv /\ CallersInv /\ DeedsInv /\ TasksInv /\ SharedInv /\ CacheInv
    BY DEF IInv
  <1>2. /\ call \in [Callers -> CallRecords] /\ effects \in [Callers -> Seq(Deeds)]
        /\ queue \in Seq(Tasks) /\ (running # "none" => queue # <<>>) /\ Len(queue) <= MaxQueue
        /\ effects' = effects /\ running' = running /\ cache' = cache /\ forgotten' = forgotten
    BY <1>1 DEF TypeInv
  <1>3. /\ l \in CallRecords /\ Sound(l) /\ SharedRight(l) /\ DeedsFollow(call[c], l)
        /\ TasksFollow(call[c], l)
    BY DEF Follows
  <1>4. /\ call' \in [Callers -> CallRecords] /\ CallersInv' /\ DeedsInv' /\ SharedInv'
        /\ call'[c] = l /\ \A d \in Callers : d # c => call'[d] = call[d]
        /\ \A d \in Callers : call'[d].req = call[d].req
    BY <1>1, <1>2, <1>3, CallMoves DEF DeedsFollow
  <1>5. \A d \in Callers : TasksFollow(call[d], call'[d])
    BY <1>3, <1>4 DEF TasksFollow
  <1>6. TasksInv'
    BY <1>1, <1>2, <1>4, <1>5, TasksGrow
  <1>7. /\ queue' \in Seq(Tasks) /\ Len(queue') = Len(queue) + 1 /\ queue'[Len(queue) + 1] = t
        /\ \A i \in 1..Len(queue) : queue'[i] = queue[i]
        /\ Len(queue) \in Nat
    BY <1>2
  <1>8. \A i \in 1..Len(queue') : queue'[i].call = c \/ \E j \in 1..Len(queue) : queue'[i].call = queue[j].call
    BY <1>7
  <1>9. Ran(c)
    BY DEF Ran
  <1>10. \A d \in Callers : Ran(d)' => Ran(d)
    BY <1>2, <1>7, <1>8, <1>9, RanKept
  <1>11. CacheInv'
    BY <1>1, <1>2, <1>4, <1>10, CacheKept
  <1>12. Len(queue') <= MaxQueue /\ queue' # <<>>
    BY <1>7, WorkflowAssumption
  <1>13. TypeInv'
    BY <1>1, <1>2, <1>4, <1>7, <1>12 DEF TypeInv, sessionVars
  <1> QED
    BY <1>4, <1>6, <1>11, <1>13 DEF IInv

-----------------------------------------------------------------------------
(* The executor and the runner *)

LEMMA StatusTyped ==
  ASSUME TypeInv, NEW s \in Statuses
  PROVE  s \in [challenge : BOOLEAN, state : States, rev : Nat, n : Nat] \cup {None}
  <1>1. Len(interrupts) \in Nat /\ rev \in Nat /\ state \in States
    BY WorkflowAssumption DEF TypeInv
  <1>2. PICK b \in BOOLEAN : b = (state = "PAUSED_CHALLENGE")
    OBVIOUS
  <1>3. Status = [challenge |-> b, state |-> state, rev |-> rev, n |-> Len(interrupts)]
    BY <1>2 DEF Status
  <1>4. Status \in [challenge : BOOLEAN, state : States, rev : Nat, n : Nat]
    BY <1>1, <1>3
  <1> QED
    BY <1>4 DEF Statuses

\* A step of the executor is a step of its call.
LEMMA ContinuesKeeps ==
  ASSUME IInv, NEW c \in Callers, NEW l, Follows(call[c], l), Continues(c, l)
  PROVE  IInv'
  <1>1. queue \in Seq(Tasks) /\ (running # "none" => queue # <<>>)
    BY DEF IInv, TypeInv
  <1>2. SameTasks(queue, queue')
    BY <1>1, AbortSame DEF Continues
  <1>3. token' \in {token, None}
    BY DEF Continues, Release
  <1> QED
    BY <1>2, <1>3, CallStep DEF Continues

LEMMA ReadInitialStatusKeeps ==
  ASSUME IInv, NEW c \in Callers, ReadInitialStatus(c)
  PROVE  IInv'
  <1> DEFINE r == call[c]
  <1>1. TypeInv /\ r \in CallRecords /\ Sound(r) /\ r.pc = "init"
    BY DEF IInv, TypeInv, CallersInv, ReadInitialStatus
  <1>2. PICK s \in Statuses :
          Continues(c, IF s = None THEN [r EXCEPT !.pc = "next"]
                       ELSE IF r.req.expect /\ s.rev # 0
                       THEN Left(r, "revision_mismatch", <<>>)
                       ELSE IF s.challenge THEN Left(r, "challenge", <<>>)
                       ELSE [r EXCEPT !.pc = "next", !.before = s])
    BY DEF ReadInitialStatus
  <1>3. s \in [challenge : BOOLEAN, state : States, rev : Nat, n : Nat] \cup {None}
    BY <1>1, StatusTyped
  <1>4. r.reports \in Seq({"success", "error"}) /\ r.req.kind = "workflow" /\ Len(r.reports) = 0
    BY <1>1 DEF CallRecords, Sound, Looping
  <1>5. r.reports = <<>> /\ <<>> \in Seq({"success", "error"})
    BY <1>4
  <1> HIDE DEF r
  <1>6. ASSUME NEW stop \in {"revision_mismatch", "challenge"}
        PROVE  Follows(r, Left(r, stop, <<>>))
    <2>1. stop \in StopReasons /\ stop # "completed" /\ r.pc \in Looping
      BY <1>1, <1>6 DEF StopReasons, Looping
    <2> QED
      BY <1>1, <1>4, <1>5, <2>1, LeftFollows
  <1>7. ASSUME NEW l, l = [r EXCEPT !.pc = "next"] \/ l = [r EXCEPT !.pc = "next", !.before = s]
        PROVE  Follows(r, l)
    <2>1. /\ l \in CallRecords /\ l.req = r.req /\ l.at = r.at /\ l.sub = r.sub /\ l.reports = r.reports
          /\ l.of = r.of /\ l.result = r.result /\ l.pc = "next"
      <3>1. CASE l = [r EXCEPT !.pc = "next"]
        BY <1>1, <3>1 DEF CallRecords, Live, Looping
      <3>2. CASE l = [r EXCEPT !.pc = "next", !.before = s]
        BY <1>1, <1>3, <3>2 DEF CallRecords, Live, Looping
      <3> QED
        BY <1>7, <3>1, <3>2
    <2>2. <<r.pc, l.pc>> \in Moves
      BY <1>1, <2>1 DEF Moves
    <2> QED
      BY <1>1, <2>1, <2>2, MoveFollows
  <1>8. PICK l : Follows(r, l) /\ Continues(c, l)
    <2>1. CASE s = None
      BY <1>2, <1>7, <2>1
    <2>2. CASE s # None /\ r.req.expect /\ s.rev # 0
      BY <1>2, <1>6, <2>2
    <2>3. CASE s # None /\ ~(r.req.expect /\ s.rev # 0) /\ s.challenge
      BY <1>2, <1>6, <2>3
    <2>4. CASE s # None /\ ~(r.req.expect /\ s.rev # 0) /\ ~s.challenge
      BY <1>2, <1>7, <2>4
    <2> QED
      BY <2>1, <2>2, <2>3, <2>4
  <1> QED
    BY <1>8, ContinuesKeeps DEF r

\* The place of the next call of the step is free: no task is there and nothing
\* was done there.
LEMMA PlaceFree ==
  ASSUME IInv, NEW c \in Callers, call[c].req.kind = "workflow", call[c].pc \in {"next", "value"}
  PROVE  /\ \A i \in 1..Len(queue) : queue[i].call # c
         /\ ~Done(effects[c], call[c].at, call[c].sub)
  <1> DEFINE r == call[c]
  <1>1. /\ r \in CallRecords /\ Sound(r) /\ queue \in Seq(Tasks) /\ effects[c] \in Seq(Deeds)
        /\ r.at \in Nat /\ r.at >= 1 /\ r.sub \in Nat
    <2>1. r \in CallRecords /\ Sound(r) /\ queue \in Seq(Tasks) /\ effects[c] \in Seq(Deeds)
      BY DEF IInv, TypeInv, CallersInv
    <2>2. r.req \in Asked /\ r.at \in Nat /\ r.sub \in Nat
      BY <2>1 DEF CallRecords
    <2>3. Len(r.req.steps) \in Nat
      BY <2>2, AskedTyped
    <2> QED
      BY <2>1, <2>2, <2>3 DEF Sound
  <1>2. ASSUME NEW i \in 1..Len(queue), queue[i].call = c
        PROVE  FALSE
    <2>1. TaskFits(r, queue[i]) /\ queue[i].step \in Nat
      BY <1>1, <1>2, TaskTyped DEF IInv, TasksInv
    <2> QED
      BY <2>1 DEF TaskFits
  <1>3. ASSUME NEW i \in 1..Len(effects[c]), effects[c][i].step = r.at, effects[c][i].sub = r.sub
        PROVE  FALSE
    <2>1. DeedFits(r, effects[c][i])
      BY DEF IInv, DeedsInv
    <2> QED
      BY <1>1, <1>3, <2>1 DEF DeedFits, Early
  <1> QED
    BY <1>2, <1>3 DEF Done

LEMMA VerdictIs ==
  ASSUME NEW c, NEW op, queue \in Seq(Tasks)
  PROVE  /\ EnqueueVerdict(c, op, queue) \in Codes
         /\ EnqueueVerdict(c, op, queue) = "ok" => Len(queue) < MaxQueue
  <1>1. EnqueueVerdict(c, op, queue) \in {"SESSION_BUSY", "USER_CONTROL_HARD_STOP", "RESOURCE_EXHAUSTED", "ok"}
    BY Zenon DEF EnqueueVerdict
  <1>2. Len(queue) >= MaxQueue => EnqueueVerdict(c, op, queue) # "ok"
    BY DEF EnqueueVerdict
  <1>3. Len(queue) \in Nat /\ MaxQueue \in Nat
    BY WorkflowAssumption
  <1> QED
    BY <1>1, <1>2, <1>3 DEF Codes

\* The call of a step is queued or refused.
LEMMA InvokeKeeps ==
  ASSUME IInv, NEW c \in Callers, call[c].req.kind = "workflow", call[c].pc \in {"next", "value"},
         call[c].at <= Len(call[c].req.steps), Invoke(c)
  PROVE  IInv'
  <1> DEFINE r == call[c]
             op == Step(c).op
             code == EnqueueVerdict(c, op, queue)
             t == Task(c, r.at, r.sub, op, Guarded(c))
             l == IF code = "ok" THEN [r EXCEPT !.pc = "await"] ELSE FailedStep(r, code)
  <1>1. /\ call' = [call EXCEPT ![c] = l]
        /\ Release(c, l)
        /\ queue' = IF code = "ok" THEN Append(queue, t) ELSE queue
        /\ UNCHANGED <<running, cache, sessionVars, effects, acts, forgotten>>
    BY DEF Invoke
  <1>2. r \in CallRecords /\ Sound(r) /\ queue \in Seq(Tasks) /\ (running # "none" => queue # <<>>)
    BY DEF IInv, TypeInv, CallersInv
  <1>3. r.req \in Asked /\ r.at \in Nat /\ r.sub \in Nat /\ r.at >= 1 /\ r.pc \in Looping /\ r.pc \in Live
    <2>1. r.req \in Asked /\ r.at \in Nat /\ r.sub \in Nat
      BY <1>2 DEF CallRecords
    <2>2. Len(r.req.steps) \in Nat
      BY <2>1, AskedTyped
    <2> QED
      BY <1>2, <2>1, <2>2 DEF Sound, Looping, Live
  <1>4. token' \in {token, None}
    BY <1>1 DEF Release
  <1>5. CASE code = "ok"
    <2>1. /\ l \in CallRecords /\ l.req = r.req /\ l.at = r.at /\ l.sub = r.sub /\ l.reports = r.reports
          /\ l.of = r.of /\ l.result = r.result /\ l.pc = "await"
      BY <1>2, <1>5 DEF CallRecords, Live, Looping
    <2> HIDE DEF l
    <2>2. <<r.pc, l.pc>> \in Moves
      BY <2>1 DEF Moves
    <2>3. Follows(r, l)
      BY <1>2, <2>1, <2>2, MoveFollows
    <2>4. op = r.req.steps[r.at].op /\ op \in OpNames
      <3>1. r.at \in 1..Len(r.req.steps)
        BY <1>3, AskedTyped
      <3> QED
        BY <1>3, <3>1, AskedTyped DEF Step, OpNames
    <2>5. PICK g \in BOOLEAN : g = (r.req.expect /\ r.at = FirstWrite(r.req) /\ r.sub = 1)
      OBVIOUS
    <2>6. t = [call |-> c, step |-> r.at, sub |-> r.sub, op |-> op, guard |-> g, aborted |-> FALSE,
               seen |-> 0]
      BY <2>5 DEF Task, Guarded
    <2> HIDE DEF op
    <2>7. /\ t \in Tasks /\ t.call = c /\ t.step = r.at /\ t.sub = r.sub /\ t.op = op /\ t.guard = g
      BY <1>3, <2>4, <2>6 DEF Tasks
    <2> HIDE DEF t
    <2>8. TaskFits(l, t)
      <3>1. ValidWorkflow(r.req.steps, r.req.stopOn)
        BY <1>2, <1>3 DEF Sound
      <3> QED
        BY <1>3, <2>1, <2>4, <2>5, <2>7, <3>1 DEF TaskFits
    <2>9. \A i \in 1..Len(queue) : ~SamePlace(queue[i], t)
      BY <2>7, PlaceFree DEF SamePlace
    <2>10. ~Done(effects[c], t.step, t.sub)
      BY <2>7, PlaceFree
    <2>11. Len(queue) < MaxQueue
      BY <1>2, <1>5, VerdictIs
    <2>12. queue' = Append(queue, t)
      BY <1>1, <1>5
    <2> QED
      BY <1>1, <1>3, <1>4, <2>3, <2>7, <2>8, <2>9, <2>10, <2>11, <2>12, QueueStep
  <1>6. CASE code # "ok"
    <2>1. l = FailedStep(r, code)
      BY <1>6
    <2> HIDE DEF l
    <2>2. Follows(r, l)
      BY <1>2, <1>3, <2>1, FailedFollows
    <2>3. SameTasks(queue, queue')
      BY <1>1, <1>2, <1>6, AbortSame
    <2> QED
      BY <1>1, <1>4, <2>2, <2>3, CallStep
  <1> QED
    BY <1>5, <1>6

LEMMA NextStepKeeps ==
  ASSUME IInv, NEW c \in Callers, NextStep(c)
  PROVE  IInv'
  <1> DEFINE r == call[c]
  <1>1. r \in CallRecords /\ Sound(r) /\ r.pc = "next"
    BY DEF IInv, TypeInv, CallersInv, NextStep
  <1>2. r.req.kind = "workflow" /\ r.pc \in Looping /\ r.reports \in Seq({"success", "error"})
        /\ r.at \in Nat /\ r.req \in Asked
    BY <1>1 DEF CallRecords, Sound, Looping
  <1>3. ASSUME NEW stop \in {"completed", "timeout"}
        PROVE  Follows(r, Left(r, stop, r.reports))
    <2>1. stop \in StopReasons
      BY DEF StopReasons
    <2> QED
      BY <1>1, <1>2, <2>1, LeftFollows
  <1>4. CASE r.at > Len(r.req.steps)
    <2>1. Continues(c, Left(r, "completed", r.reports))
      BY <1>4 DEF NextStep
    <2> QED
      BY <1>3, <2>1, ContinuesKeeps
  <1>5. CASE ~(r.at > Len(r.req.steps))
    <2>1. Continues(c, Left(r, "timeout", r.reports)) \/ Invoke(c)
      BY <1>5 DEF NextStep
    <2>2. r.at <= Len(r.req.steps)
      BY <1>2, <1>5, AskedTyped
    <2> QED
      BY <1>1, <1>2, <1>3, <2>1, <2>2, ContinuesKeeps, InvokeKeeps
  <1> QED
    BY <1>4, <1>5

LEMMA NextValueKeeps ==
  ASSUME IInv, NEW c \in Callers, NextValue(c)
  PROVE  IInv'
  <1>1. call[c] \in CallRecords /\ Sound(call[c]) /\ call[c].pc = "value" /\ Invoke(c)
    BY DEF IInv, TypeInv, CallersInv, NextValue
  <1>2. call[c].req.kind = "workflow" /\ call[c].at <= Len(call[c].req.steps)
    BY <1>1 DEF Sound
  <1> QED
    BY <1>1, <1>2, InvokeKeeps

LEMMA StopReasonIs ==
  ASSUME NEW before, NEW after, NEW stopOn
  PROVE  StopReason(before, after, stopOn) \in {"none", "challenge", "interrupt"}
  BY Zenon DEF StopReason

LEMMA StepDoneKeeps ==
  ASSUME IInv, NEW c \in Callers, StepDone(c)
  PROVE  IInv'
  <1> DEFINE r == call[c]
             reports == Append(r.reports, "success")
  <1>1. TypeInv /\ r \in CallRecords /\ Sound(r) /\ r.pc = "after"
    BY DEF IInv, TypeInv, CallersInv, StepDone
  <1>2. PICK s \in Statuses :
          Continues(c,
             IF StopReason(r.before, s, r.req.stopOn) # "none"
             THEN Left(r, StopReason(r.before, s, r.req.stopOn), reports)
             ELSE IF "navigation" \in r.req.stopOn /\ Navigated(r.before, s, r.raw)
             THEN Left(r, "navigation", reports)
             ELSE [r EXCEPT !.pc = "next", !.at = @ + 1, !.sub = 1, !.reports = reports,
                            !.before = IF s = None THEN @ ELSE s])
    BY DEF StepDone
  <1>3. s \in [challenge : BOOLEAN, state : States, rev : Nat, n : Nat] \cup {None}
    BY <1>1, StatusTyped
  <1>4. /\ r.reports \in Seq({"success", "error"}) /\ reports \in Seq({"success", "error"})
        /\ r.req.kind = "workflow" /\ r.at \in Nat /\ r.pc \in Looping
        /\ r.before \in [challenge : BOOLEAN, state : States, rev : Nat, n : Nat] \cup {None}
    BY <1>1 DEF CallRecords, Sound, Looping
  <1> DEFINE reason == StopReason(r.before, s, r.req.stopOn)
             l == [r EXCEPT !.pc = "next", !.at = @ + 1, !.sub = 1, !.reports = reports,
                            !.before = IF s = None THEN @ ELSE s]
  <1>5. reason \in {"none", "challenge", "interrupt"}
    BY StopReasonIs
  <1>6. /\ l \in CallRecords /\ l.req = r.req /\ l.of = r.of /\ l.result = r.result
        /\ l.pc = "next" /\ l.at = r.at + 1 /\ l.sub = 1 /\ l.reports = reports
    <2> DEFINE b == IF s = None THEN r.before ELSE s
    <2>1. b \in [challenge : BOOLEAN, state : States, rev : Nat, n : Nat] \cup {None}
      BY <1>3, <1>4
    <2>2. l = [r EXCEPT !.pc = "next", !.at = r.at + 1, !.sub = 1, !.reports = reports, !.before = b]
      OBVIOUS
    <2> HIDE DEF b, l, reports
    <2>3. r.at + 1 \in Nat
      BY <1>4
    <2> QED
      BY <1>1, <1>4, <2>1, <2>2, <2>3 DEF CallRecords, Live, Looping
  <1> HIDE DEF l, reason
  <1>7. Follows(r, l)
    BY <1>1, <1>6, AdvanceFollows
  <1>8. ASSUME NEW stop \in {"challenge", "interrupt", "navigation"}
        PROVE  Follows(r, Left(r, stop, reports))
    <2>1. stop \in StopReasons /\ stop # "completed"
      BY DEF StopReasons
    <2> QED
      BY <1>1, <1>4, <2>1, LeftFollows
  <1>9. PICK k : Follows(r, k) /\ Continues(c, k)
    <2> HIDE DEF reports, r
    <2>1. CASE reason # "none"
      BY <1>2, <1>5, <1>8, <2>1 DEF reason
    <2>2. CASE reason = "none" /\ "navigation" \in r.req.stopOn /\ Navigated(r.before, s, r.raw)
      BY <1>2, <1>8, <2>2 DEF reason
    <2>3. CASE reason = "none" /\ ~("navigation" \in r.req.stopOn /\ Navigated(r.before, s, r.raw))
      BY <1>2, <1>7, <2>3 DEF reason, l
    <2> QED
      BY <2>1, <2>2, <2>3
  <1> QED
    BY <1>9, ContinuesKeeps

LEMMA ObserveKeeps ==
  ASSUME IInv, NEW c \in Callers, Observe(c)
  PROVE  IInv'
  <1> DEFINE r == call[c]
             code == EnqueueVerdict(c, "snapshot", queue)
             t == Task(c, 0, 1, "snapshot", FALSE)
             l == IF code = "ok" THEN [r EXCEPT !.pc = "observe"] ELSE Settled(r, Report(r, FALSE))
  <1>1. /\ call' = [call EXCEPT ![c] = l]
        /\ Release(c, l)
        /\ queue' = IF code = "ok" THEN Append(queue, t) ELSE queue
        /\ UNCHANGED <<running, cache, sessionVars, effects, acts, forgotten>>
    BY DEF Observe
  <1>2. /\ r \in CallRecords /\ Sound(r) /\ r.pc = "stopped"
        /\ queue \in Seq(Tasks) /\ (running # "none" => queue # <<>>)
    BY DEF IInv, TypeInv, CallersInv, Observe
  <1>3. r.req.kind = "workflow" /\ r.pc \in Live /\ ValidWorkflow(r.req.steps, r.req.stopOn)
    BY <1>2 DEF Sound, Live
  <1>4. token' \in {token, None}
    BY <1>1 DEF Release
  <1>5. CASE code = "ok"
    <2>1. /\ l \in CallRecords /\ l.req = r.req /\ l.at = r.at /\ l.sub = r.sub /\ l.reports = r.reports
          /\ l.of = r.of /\ l.result = r.result /\ l.pc = "observe"
      BY <1>2, <1>5 DEF CallRecords, Live, Looping
    <2> HIDE DEF l
    <2>2. <<r.pc, l.pc>> \in Moves
      BY <1>2, <2>1 DEF Moves
    <2>3. Follows(r, l)
      BY <1>2, <2>1, <2>2, MoveFollows
    <2>4. /\ t \in Tasks /\ t.call = c /\ t.step = 0 /\ t.sub = 1 /\ t.op = "snapshot"
      BY DEF Task, Tasks, OpNames
    <2> HIDE DEF t
    <2>5. TaskFits(l, t)
      BY <1>3, <2>1, <2>4 DEF TaskFits
    <2>6. ASSUME NEW i \in 1..Len(queue), SamePlace(queue[i], t)
          PROVE  FALSE
      <3>1. TaskFits(r, queue[i]) /\ queue[i].step = 0
        BY <2>4, <2>6 DEF IInv, TasksInv, SamePlace
      <3> QED
        BY <1>2, <1>3, <3>1 DEF TaskFits
    <2>7. ASSUME Done(effects[c], t.step, t.sub)
          PROVE  FALSE
      <3>1. PICK i \in 1..Len(effects[c]) : effects[c][i].step = 0
        BY <2>4, <2>7 DEF Done
      <3>2. DeedFits(r, effects[c][i])
        BY DEF IInv, DeedsInv
      <3> QED
        BY <1>2, <1>3, <3>1, <3>2 DEF DeedFits
    <2>8. Len(queue) < MaxQueue /\ queue' = Append(queue, t)
      BY <1>1, <1>2, <1>5, VerdictIs
    <2> QED
      BY <1>1, <1>3, <1>4, <2>3, <2>4, <2>5, <2>6, <2>7, <2>8, QueueStep
  <1>6. CASE code # "ok"
    <2>1. l = Settled(r, Report(r, FALSE))
      BY <1>6
    <2> HIDE DEF l
    <2>2. Follows(r, l)
      BY <1>2, <2>1, ReportFits, SettledFollows
    <2>3. SameTasks(queue, queue')
      BY <1>1, <1>2, <1>6, AbortSame
    <2> QED
      BY <1>1, <1>4, <2>2, <2>3, CallStep
  <1> QED
    BY <1>5, <1>6

LEMMA SharedAnswerKeeps ==
  ASSUME IInv, NEW c \in Callers, SharedAnswer(c)
  PROVE  IInv'
  <1> DEFINE r == call[c]
             o == call[call[c].of]
             l == Settled(r, o.result)
  <1>1. /\ r \in CallRecords /\ Sound(r) /\ r.pc = "shared"
        /\ queue \in Seq(Tasks) /\ (running # "none" => queue # <<>>)
    BY DEF IInv, TypeInv, CallersInv, SharedAnswer
  <1>2. r.of \in Callers /\ Fingerprint(o.req) = Fingerprint(r.req)
    BY <1>1 DEF IInv, SharedInv
  <1>3. o \in CallRecords /\ Sound(o) /\ o.pc = "done"
    BY <1>2 DEF IInv, TypeInv, CallersInv, SharedAnswer
  <1>4. o.result \in Results /\ o.result.steps + o.result.details <= o.req.room
    BY <1>3 DEF Sound, CallRecords
  <1>5. o.req.room = r.req.room
    BY <1>2 DEF Fingerprint
  <1>6. r.of # None
    BY <1>2, WorkflowAssumption
  <1>7. Follows(r, l)
    BY <1>1, <1>4, <1>5, <1>6, SettledFollows
  <1>8. call' = [call EXCEPT ![c] = l] /\ token' = token
        /\ UNCHANGED <<running, cache, sessionVars, effects, acts, forgotten>>
    BY DEF SharedAnswer
  <1>9. SameTasks(queue, queue')
    BY <1>1, AbortSame DEF SharedAnswer
  <1> QED
    BY <1>7, <1>8, <1>9, CallStep

LEMMA StepTimesOutKeeps ==
  ASSUME IInv, NEW c \in Callers, StepTimesOut(c)
  PROVE  IInv'
  <1> DEFINE r == call[c]
             l == FailedStep(r, "WORKFLOW_TIMEOUT")
             P == {i \in 1..Len(queue) : queue[i].call = c}
  <1>1. /\ r \in CallRecords /\ Sound(r) /\ r.pc = "await" /\ r.req.kind = "workflow"
        /\ queue \in Seq(Tasks) /\ (running # "none" => queue # <<>>)
    BY DEF IInv, TypeInv, CallersInv, StepTimesOut
  <1>2. Follows(r, l)
    BY <1>1, FailedFollows DEF Looping
  <1>3. /\ call' = [call EXCEPT ![c] = l] /\ Release(c, l)
        /\ UNCHANGED <<running, cache, sessionVars, effects, acts, forgotten>>
    BY DEF StepTimesOut
  <1>4. queue' = [i \in 1..Len(queue) |->
                     IF i \in P THEN [queue[i] EXCEPT !.aborted = TRUE] ELSE queue[i]]
    BY DEF StepTimesOut
  <1>5. P \in SUBSET Nat
    BY <1>1
  <1> HIDE DEF P, l
  <1>6. SameTasks(queue, queue')
    BY <1>1, <1>4, <1>5, AbortSame
  <1>7. token' \in {token, None}
    BY <1>3 DEF Release
  <1> QED
    BY <1>2, <1>3, <1>6, <1>7, CallStep

LEMMA ObserveTimesOutKeeps ==
  ASSUME IInv, NEW c \in Callers, ObserveTimesOut(c)
  PROVE  IInv'
  <1> DEFINE r == call[c]
             l == Settled(r, Report(r, FALSE))
             P == {i \in 1..Len(queue) : queue[i].call = c /\ queue[i].step = 0}
  <1>1. /\ r \in CallRecords /\ Sound(r)
        /\ queue \in Seq(Tasks) /\ (running # "none" => queue # <<>>)
    BY DEF IInv, TypeInv, CallersInv
  <1>2. Follows(r, l)
    BY <1>1, ReportFits, SettledFollows
  <1>3. /\ call' = [call EXCEPT ![c] = l] /\ Release(c, l)
        /\ UNCHANGED <<running, cache, sessionVars, effects, acts, forgotten>>
    BY DEF ObserveTimesOut
  <1>4. queue' = [i \in 1..Len(queue) |->
                     IF i \in P THEN [queue[i] EXCEPT !.aborted = TRUE] ELSE queue[i]]
    BY DEF ObserveTimesOut
  <1>5. P \in SUBSET Nat
    BY <1>1
  <1> HIDE DEF P, l
  <1>6. SameTasks(queue, queue')
    BY <1>1, <1>4, <1>5, AbortSame
  <1>7. token' \in {token, None}
    BY <1>3 DEF Release
  <1> QED
    BY <1>2, <1>3, <1>6, <1>7, CallStep

-----------------------------------------------------------------------------
(* The queue *)

\* A call goes on when the task it waits for succeeds: with the next value of the
\* step or with the status after it.
LEMMA SucceededFits ==
  ASSUME NEW r \in CallRecords, Sound(r), r.pc = "await", r.req.kind = "workflow",
         NEW s, ClaimsFit(r, s), Done(s, r.at, r.sub), NEW l \in CallRecords,
         l.req = r.req /\ l.at = r.at /\ l.of = r.of /\ l.result = r.result /\ l.reports = r.reports,
         \/ l.pc = "value" /\ l.sub = r.sub + 1 /\ r.sub < Calls(r.req.steps[r.at])
         \/ l.pc = "after" /\ l.sub = r.sub /\ ~(r.sub < Calls(r.req.steps[r.at]))
  PROVE  /\ Sound(l) /\ ClaimsFit(l, s) /\ \A e \in Deeds : DeedFits(r, e) => DeedFits(l, e)
  <1>1. r.at \in Nat /\ r.sub \in Nat /\ r.req \in Asked
    BY DEF CallRecords
  <1>2. Len(r.req.steps) \in Nat /\ r.at \in 1..Len(r.req.steps) /\ r.sub >= 1
    <2>1. Len(r.req.steps) \in Nat
      BY <1>1, AskedTyped
    <2> QED
      BY <1>1, <2>1 DEF Sound
  <1>3. Calls(r.req.steps[r.at]) \in Nat
    BY <1>1, <1>2, AskedTyped DEF Calls
  <1>4. Sound(l)
    BY <1>1, <1>2 DEF Sound, Looping, Live
  <1>5. \A v \in 1..r.sub : Done(s, r.at, v)
    <2>1. ASSUME NEW v \in 1..r.sub
          PROVE  Done(s, r.at, v)
      <3>1. CASE v = r.sub
        BY <3>1
      <3>2. CASE v \in 1..(r.sub - 1)
        BY <3>2 DEF ClaimsFit
      <3> QED
        BY <1>1, <3>1, <3>2
    <2> QED
      BY <2>1
  <1>6. ClaimsFit(l, s)
    <2>1. CASE l.pc = "value" /\ l.sub = r.sub + 1
      BY <1>1, <1>5, <2>1 DEF ClaimsFit
    <2>2. CASE l.pc = "after" /\ l.sub = r.sub /\ ~(r.sub < Calls(r.req.steps[r.at]))
      <3>1. \A v \in 1..Calls(r.req.steps[r.at]) : v \in 1..r.sub
        BY <1>1, <1>3, <2>2
      <3> QED
        BY <1>5, <2>2, <3>1 DEF ClaimsFit
    <2> QED
      BY <2>1, <2>2
  <1>7. ASSUME NEW e \in Deeds, DeedFits(r, e)
        PROVE  DeedFits(l, e)
    <2>1. e.step \in Nat /\ e.sub \in Nat
      BY DEF Deeds
    <2>2. CASE l.pc = "value" /\ l.sub = r.sub + 1
      BY <1>1, <1>7, <2>1, <2>2 DEF DeedFits, Early
    <2>3. CASE l.pc = "after" /\ l.sub = r.sub
      BY <1>1, <1>7, <2>1, <2>3 DEF DeedFits, Early
    <2> QED
      BY <2>2, <2>3
  <1> QED
    BY <1>4, <1>6, <1>7

\* The promise of the first task settles.
LEMMA SettlesKeeps ==
  ASSUME IInv, queue # <<>>, NEW t \in Tasks, t = Head(queue), NEW code \in Codes, TaskSettles(t, code),
         code = "ok" => running = "acted",
         state' \in States, rev' \in 0..MaxNavigations,
         UNCHANGED <<cache, interrupts, effects, acts, forgotten>>
  PROVE  IInv'
  <1> DEFINE c == t.call
             r == call[c]
             awaited == r.pc = "await" /\ r.at = t.step /\ r.sub = t.sub
  <1>1. TypeInv /\ CallersInv /\ DeedsInv /\ TasksInv /\ SharedInv /\ CacheInv
    BY DEF IInv
  <1>2. /\ call \in [Callers -> CallRecords] /\ effects \in [Callers -> Seq(Deeds)]
        /\ queue \in Seq(Tasks) /\ Len(queue) <= MaxQueue
        /\ effects' = effects /\ cache' = cache /\ forgotten' = forgotten
        /\ running' = "none" /\ queue' = Tail(queue)
    BY <1>1 DEF TypeInv, TaskSettles
  <1>3. /\ c \in Callers /\ r \in CallRecords /\ Sound(r) /\ 1 \in 1..Len(queue) /\ t = queue[1]
        /\ t.step \in Nat /\ t.sub \in Nat
    BY <1>1, <1>2 DEF CallersInv, Tasks
  <1>4. TaskFits(r, t) /\ ClaimsFit(r, effects[c])
    BY <1>1, <1>3 DEF TasksInv, DeedsInv
  <1>5. PICK l : l = Delivered(t, code)
    OBVIOUS
  <1>6. /\ call' = [call EXCEPT ![c] = l] /\ token' \in {token, None}
    BY <1>5 DEF TaskSettles, Release
  <1> HIDE DEF r, c
  <1>7. /\ l \in CallRecords /\ Sound(l) /\ SharedRight(l) /\ LiveFollows(r, l) /\ l.req = r.req
        /\ \A e \in Deeds : DeedFits(r, e) => DeedFits(l, e)
        /\ ClaimsFit(l, effects[c])
        /\ TasksFollow(r, l) \/ (r.req.kind = "workflow" /\ r.pc = "await" /\ awaited)
    <2>1. SUFFICES ASSUME ~Follows(r, l)
                   PROVE  /\ r.req.kind = "workflow" /\ awaited
                          /\ l \in CallRecords /\ Sound(l) /\ SharedRight(l) /\ LiveFollows(r, l)
                          /\ l.req = r.req /\ \A e \in Deeds : DeedFits(r, e) => DeedFits(l, e)
                          /\ ClaimsFit(l, effects[c])
      BY <1>4 DEF Follows, DeedsFollow
    <2>2. CASE awaited /\ r.req.kind # "workflow"
      <3> DEFINE x == IF code = "ok" THEN [Failure("ok") EXCEPT !.ok = TRUE] ELSE Failure(code)
      <3>1. x \in Results /\ x.steps + x.details = 0
        BY FailureFits DEF Codes
      <3>2. l = Settled(r, x)
        BY <1>5, <2>2 DEF Delivered, r, c
      <3>3. r.req.room \in Nat
        <4>1. r.req \in Asked
          BY <1>3 DEF CallRecords
        <4> QED
          BY <4>1, AskedTyped
      <3> HIDE DEF x
      <3>4. Follows(r, l)
        BY <1>3, <2>2, <3>1, <3>2, <3>3, SettledFollows
      <3> QED
        BY <2>1, <3>4
    <2>3. CASE awaited /\ r.req.kind = "workflow" /\ code # "ok"
      <3>1. l = FailedStep(r, code)
        BY <1>5, <2>3 DEF Delivered, r, c
      <3> QED
        BY <1>3, <2>1, <2>3, <3>1, FailedFollows DEF Looping
    <2>4. CASE awaited /\ r.req.kind = "workflow" /\ code = "ok"
      <3>1. Done(effects[c], r.at, r.sub)
        BY <1>1, <1>3, <2>4 DEF TasksInv, c
      <3>2. Step(c) = r.req.steps[r.at]
        BY DEF Step, r
      <3>3. l = IF r.sub < Calls(r.req.steps[r.at]) THEN [r EXCEPT !.pc = "value", !.sub = r.sub + 1]
                ELSE [r EXCEPT !.pc = "after", !.raw = rev]
        BY <1>5, <2>4, <3>2 DEF Delivered, r, c
      <3>4. rev \in Nat /\ r.sub + 1 \in Nat
        BY <1>1, <1>3, WorkflowAssumption DEF TypeInv, CallRecords
      <3>5. /\ l \in CallRecords /\ l.req = r.req /\ l.at = r.at /\ l.of = r.of /\ l.result = r.result
            /\ l.reports = r.reports
            /\ \/ l.pc = "value" /\ l.sub = r.sub + 1 /\ r.sub < Calls(r.req.steps[r.at])
               \/ l.pc = "after" /\ l.sub = r.sub /\ ~(r.sub < Calls(r.req.steps[r.at]))
        <4>1. CASE r.sub < Calls(r.req.steps[r.at])
          BY <1>3, <3>3, <3>4, <4>1 DEF CallRecords, Live, Looping
        <4>2. CASE ~(r.sub < Calls(r.req.steps[r.at]))
          BY <1>3, <3>3, <3>4, <4>2 DEF CallRecords, Live, Looping
        <4> QED
          BY <4>1, <4>2
      <3>6. /\ Sound(l) /\ ClaimsFit(l, effects[c]) /\ \A e \in Deeds : DeedFits(r, e) => DeedFits(l, e)
        BY <1>3, <1>4, <2>4, <3>1, <3>5, SucceededFits
      <3>7. SharedRight(l) /\ LiveFollows(r, l)
        BY <2>4, <3>5 DEF SharedRight, LiveFollows, Live, Looping
      <3> QED
        BY <2>4, <3>5, <3>6, <3>7
    <2>5. CASE ~awaited /\ r.pc = "observe" /\ t.step = 0
      <3>1. l = Settled(r, Report(r, FALSE))
        BY <1>5, <2>5 DEF Delivered, r, c
      <3> QED
        BY <1>3, <2>1, <3>1, ReportFits, SettledFollows
    <2>6. CASE ~awaited /\ ~(r.pc = "observe" /\ t.step = 0)
      <3>1. l = r
        BY <1>5, <2>6 DEF Delivered, r, c
      <3>2. r.pc # "shared"
        BY <1>3, <1>4 DEF TaskFits
      <3> QED
        BY <1>3, <2>1, <3>1, <3>2 DEF Follows, SharedRight, DeedsFollow, TasksFollow, LiveFollows
    <2> QED
      BY <2>2, <2>3, <2>4, <2>5, <2>6
  <1>8. /\ call' \in [Callers -> CallRecords] /\ CallersInv' /\ DeedsInv' /\ SharedInv'
        /\ call'[c] = l /\ \A d \in Callers : d # c => call'[d] = call[d]
        /\ \A d \in Callers : call'[d].req = call[d].req
    BY <1>1, <1>2, <1>3, <1>6, <1>7, CallMoves DEF r
  <1>9. ASSUME NEW i \in 2..Len(queue)
        PROVE  TaskFits(call'[queue[i].call], queue[i])
    <2>1. i \in 1..Len(queue) /\ i # 1
      BY <1>2, <1>9
    <2>2. TaskFits(call[queue[i].call], queue[i]) /\ queue[i].call \in Callers /\ queue[i].step \in Nat
      BY <1>1, <1>2, <2>1, TaskTyped DEF TasksInv
    <2>3. CASE queue[i].call # c
      BY <1>8, <2>2, <2>3
    <2>4. CASE queue[i].call = c /\ TasksFollow(r, l)
      BY <1>8, <2>2, <2>4 DEF TasksFollow, r
    <2>5. CASE queue[i].call = c /\ r.req.kind = "workflow" /\ r.pc = "await" /\ awaited
      <3>1. queue[i].step = r.at /\ queue[i].sub = r.sub
        BY <2>2, <2>5 DEF TaskFits, r
      <3>2. SamePlace(queue[i], queue[1])
        BY <1>3, <2>5, <3>1 DEF SamePlace, c
      <3> QED
        BY <1>1, <1>3, <2>1, <3>2 DEF TasksInv
    <2> QED
      BY <1>7, <2>3, <2>4, <2>5
  <1>10. TasksInv'
    BY <1>1, <1>2, <1>9, TasksShrink
  <1>11. /\ queue' \in Seq(Tasks) /\ Len(queue') <= MaxQueue
         /\ \A i \in 1..Len(queue') : \E j \in 1..Len(queue) : queue'[i].call = queue[j].call
    <2>1. /\ queue' \in Seq(Tasks) /\ Len(queue') = Len(queue) - 1 /\ Len(queue) \in Nat
          /\ \A i \in 1..Len(queue') : queue'[i] = queue[i + 1] /\ i + 1 \in 1..Len(queue)
      BY <1>2
    <2> QED
      BY <1>2, <2>1, WorkflowAssumption
  <1>12. Ran(c) \/ ~(l.pc \in Live)
    BY <1>7 DEF LiveFollows, Ran, r
  <1>13. \A d \in Callers : Ran(d)' => Ran(d)
    BY <1>2, <1>3, <1>6, <1>11, <1>12, RanKept
  <1>14. CacheInv'
    BY <1>1, <1>2, <1>8, <1>13, CacheKept
  <1>15. TypeInv'
    BY <1>1, <1>2, <1>6, <1>8, <1>11 DEF TypeInv
  <1> QED
    BY <1>8, <1>10, <1>14, <1>15 DEF IInv

\* The first task begins, or tasks are aborted; the callers do not notice.
LEMMA QuietStep ==
  ASSUME IInv, UNCHANGED <<call, token, cache, effects, acts, forgotten>>, SamePlaces(queue, queue'), Heeded',
         running' \in {"none", "begun", "checked", "acted"},
         running' = "acted" <=> running = "acted",
         running' # "none" => queue # <<>>,
         state' \in States, rev' \in 0..MaxNavigations, interrupts' \in Seq(Types)
  PROVE  IInv'
  <1>1. TypeInv /\ CallersInv /\ DeedsInv /\ TasksInv /\ SharedInv /\ CacheInv
    BY DEF IInv
  <1>2. /\ call' = call /\ effects' = effects /\ cache' = cache /\ forgotten' = forgotten /\ token' = token
        /\ queue \in Seq(Tasks) /\ (running # "none" => queue # <<>>) /\ Len(queue) <= MaxQueue
    BY <1>1 DEF TypeInv
  <1>3. queue' \in Seq(Tasks) /\ Len(queue') = Len(queue)
        /\ \A i \in 1..Len(queue') : \E j \in 1..Len(queue) : queue'[i].call = queue[j].call
    BY DEF SamePlaces
  <1>4. \A d \in Callers : TasksFollow(call[d], call'[d])
    BY <1>2 DEF TasksFollow
  <1>5. TasksInv'
    BY <1>1, <1>2, <1>4, TasksKept
  <1>6. \A d \in Callers : call'[d].req = call[d].req /\ (Ran(d)' => Ran(d))
    BY <1>2, <1>3 DEF Ran
  <1>7. CacheInv'
    BY <1>1, <1>2, <1>6, CacheKept
  <1>8. CallersInv' /\ DeedsInv' /\ SharedInv'
    BY <1>1, <1>2 DEF CallersInv, DeedsInv, SharedInv
  <1>9. running' # "none" => queue' # <<>>
    BY <1>2, <1>3
  <1>10. TypeInv'
    BY <1>1, <1>2, <1>3, <1>9 DEF TypeInv
  <1> QED
    BY <1>5, <1>7, <1>8, <1>10 DEF IInv

LEMMA HeededKept ==
  ASSUME TypeInv, TasksInv, SameTasks(queue, queue'), running' = running
  PROVE  SamePlaces(queue, queue') /\ Heeded'
  <1>1. SamePlaces(queue, queue')
    BY DEF SameTasks
  <1>2. ASSUME running' = "checked"
        PROVE  queue'[1].guard = queue[1].guard /\ queue'[1].seen = queue[1].seen
    <2>1. queue \in Seq(Tasks) /\ queue # <<>>
      BY <1>2 DEF TypeInv
    <2>2. 1 \in 1..Len(queue)
      BY <2>1
    <2> QED
      BY <2>2 DEF SameTasks, SamePlaces
  <1> QED
    BY <1>1, <1>2 DEF TasksInv, Heeded

LEMMA StartVerdictIs ==
  ASSUME NEW t
  PROVE  StartVerdict(t) \in Codes
  <1>1. StartVerdict(t) \in {"ACTION_TIMEOUT", "SESSION_BUSY", "USER_CONTROL_HARD_STOP",
                             "SESSION_PAUSED_CHALLENGE", "INVALID_STATE", "ok"}
    BY Zenon DEF StartVerdict
  <1> QED
    BY <1>1 DEF Codes

LEMMA MappedIs ==
  ASSUME NEW t, NEW code \in Codes
  PROVE  /\ Mapped(t, code) \in Codes
         /\ code # "ok" \/ t.aborted => Mapped(t, code) # "ok"
  BY DEF Mapped, Codes

LEMMA HeadTyped ==
  ASSUME IInv, queue # <<>>
  PROVE  Head(queue) \in Tasks /\ Head(queue) = queue[1] /\ 1 \in 1..Len(queue)
  <1>1. queue \in Seq(Tasks)
    BY DEF IInv, TypeInv
  <1> QED
    BY <1>1

LEMMA TaskBeginsKeeps ==
  ASSUME IInv, TaskBegins
  PROVE  IInv'
  <1>1. queue # <<>> /\ running = "none"
    BY DEF TaskBegins
  <1>2. PICK t \in Tasks : t = Head(queue)
    BY <1>1, HeadTyped
  <1>3. TypeInv /\ state \in States /\ rev' = rev /\ rev \in 0..MaxNavigations /\ interrupts' = interrupts
        /\ interrupts \in Seq(Types)
    BY DEF IInv, TypeInv, TaskBegins
  <1>4. CASE StartVerdict(t) # "ok"
    <2>1. PICK code \in Codes : code = Mapped(t, StartVerdict(t)) /\ code # "ok"
      BY <1>4, StartVerdictIs, MappedIs
    <2>2. TaskSettles(t, code) /\ state' = state
          /\ UNCHANGED <<cache, interrupts, effects, acts, forgotten>>
      BY <1>2, <1>4, <2>1 DEF TaskBegins
    <2> QED
      BY <1>1, <1>2, <1>3, <2>1, <2>2, SettlesKeeps
  <1>5. CASE StartVerdict(t) = "ok"
    <2>1. /\ running' = "begun" /\ state' \in {"BUSY", state}
          /\ UNCHANGED <<call, token, queue, cache, effects, acts, forgotten>>
      BY <1>2, <1>5 DEF TaskBegins
    <2>2. state' \in States
      BY <1>3, <2>1 DEF States
    <2>3. SamePlaces(queue, queue') /\ Heeded'
      BY <1>3, <2>1, AbortSame DEF TypeInv, SameTasks, Heeded
    <2> QED
      BY <1>1, <1>3, <2>1, <2>2, <2>3, QuietStep
  <1> QED
    BY <1>4, <1>5

LEMMA AfterTaskTyped ==
  ASSUME state \in States
  PROVE  AfterTask(state) \in States
  BY DEF AfterTask, States

LEMMA TaskChecksKeeps ==
  ASSUME IInv, TaskChecks
  PROVE  IInv'
  <1>1. TypeInv /\ TasksInv /\ running = "begun" /\ queue # <<>> /\ rev' = rev /\ interrupts' = interrupts
    BY DEF IInv, TypeInv, TaskChecks
  <1>2. PICK t \in Tasks : t = Head(queue) /\ t = queue[1] /\ 1 \in 1..Len(queue)
    BY <1>1, HeadTyped
  <1> DEFINE paused == RequireReady(t.op) /\ state = "PAUSED_CHALLENGE"
             raw == IF paused THEN "SESSION_PAUSED_CHALLENGE" ELSE "PAGE_REVISION_MISMATCH"
  <1>3. queue \in Seq(Tasks) /\ state \in States /\ rev \in 0..MaxNavigations /\ interrupts \in Seq(Types)
    BY <1>1 DEF TypeInv
  <1>4. CASE ~(~paused /\ GuardHolds(t))
    <2>1. PICK code \in Codes : code = Mapped(t, raw) /\ code # "ok"
      BY MappedIs DEF Codes
    <2>2. /\ TaskSettles(t, code) /\ state' = AfterTask(state)
          /\ UNCHANGED <<cache, interrupts, effects, acts, forgotten>>
      BY <1>2, <1>4, <2>1 DEF TaskChecks
    <2>3. state' \in States
      BY <1>3, <2>2, AfterTaskTyped
    <2> QED
      BY <1>1, <1>2, <1>3, <2>1, <2>2, <2>3, SettlesKeeps
  <1>5. CASE ~paused /\ GuardHolds(t)
    <2>1. /\ running' = "checked" /\ queue' = [queue EXCEPT ![1].seen = rev]
          /\ UNCHANGED <<call, token, state, cache, effects, acts, forgotten>>
      BY <1>2, <1>5 DEF TaskChecks
    <2>2. PICK u : u = [t EXCEPT !.seen = rev]
      OBVIOUS
    <2>3. rev \in Nat
      BY <1>3, WorkflowAssumption
    <2>4. /\ u \in Tasks /\ u.call = t.call /\ u.step = t.step /\ u.sub = t.sub
          /\ u.op = t.op /\ u.guard = t.guard /\ u.seen = rev
      BY <2>2, <2>3 DEF Tasks
    <2>5. queue' = [queue EXCEPT ![1] = u]
      BY <1>2, <2>1, <2>2
    <2>6. /\ queue' \in Seq(Tasks) /\ Len(queue') = Len(queue)
          /\ \A i \in 1..Len(queue) : queue'[i] = IF i = 1 THEN u ELSE queue[i]
      BY <1>2, <1>3, <2>4, <2>5
    <2>7. SamePlaces(queue, queue')
      BY <1>2, <2>4, <2>6 DEF SamePlaces
    <2>8. queue'[1] = u
      BY <1>2, <2>6
    <2>9. Heeded'
      BY <1>5, <2>4, <2>8 DEF Heeded, GuardHolds
    <2> QED
      BY <1>1, <1>3, <2>1, <2>7, <2>9, QuietStep
  <1> QED
    BY <1>4, <1>5

LEMMA TaskFailsKeeps ==
  ASSUME IInv, TaskFails
  PROVE  IInv'
  <1>1. TypeInv /\ running = "checked" /\ queue # <<>>
    BY DEF IInv, TypeInv, TaskFails
  <1>2. PICK t \in Tasks : t = Head(queue)
    BY <1>1, HeadTyped
  <1>3. PICK code \in Codes : code = Mapped(t, "INTERNAL") /\ code # "ok"
    BY MappedIs DEF Codes
  <1>4. TaskSettles(t, code) /\ state' = AfterTask(state) /\ rev' = rev
        /\ UNCHANGED <<cache, interrupts, effects, acts, forgotten>>
    BY <1>2, <1>3 DEF TaskFails
  <1>5. state' \in States /\ rev' \in 0..MaxNavigations
    BY <1>1, <1>4, AfterTaskTyped DEF TypeInv
  <1> QED
    BY <1>1, <1>2, <1>3, <1>4, <1>5, SettlesKeeps

LEMMA TaskReturnsKeeps ==
  ASSUME IInv, NEW ok \in BOOLEAN, TaskReturns(ok)
  PROVE  IInv'
  <1>1. TypeInv /\ running = "acted" /\ queue # <<>>
    BY DEF IInv, TypeInv, TaskReturns
  <1>2. PICK t \in Tasks : t = Head(queue)
    BY <1>1, HeadTyped
  <1>3. PICK code \in Codes : code = IF t.aborted THEN Mapped(t, "ok") ELSE IF ok THEN "ok" ELSE "INTERNAL"
    BY MappedIs DEF Codes
  <1>4. TaskSettles(t, code) /\ state' = AfterTask(state) /\ rev' = rev
        /\ UNCHANGED <<cache, interrupts, effects, acts, forgotten>>
    BY <1>2, <1>3 DEF TaskReturns
  <1>5. state' \in States /\ rev' \in 0..MaxNavigations
    BY <1>1, <1>4, AfterTaskTyped DEF TypeInv
  <1> QED
    BY <1>1, <1>2, <1>4, <1>5, SettlesKeeps

LEMMA TaskTimesOutKeeps ==
  ASSUME IInv, TaskTimesOut
  PROVE  IInv'
  <1>1. TypeInv /\ TasksInv
    BY DEF IInv
  <1>2. SamePlaces(queue, queue') /\ Heeded'
    <2>1. SameTasks(queue, queue') /\ running' = running
      BY <1>1, AbortSame DEF TypeInv, TaskTimesOut
    <2> QED
      BY <1>1, <2>1, HeededKept
  <1> QED
    BY <1>1, <1>2, QuietStep DEF TypeInv, TaskTimesOut, sessionVars

LEMMA NavigatesKeeps ==
  ASSUME IInv, Navigates
  PROVE  IInv'
  <1>1. TypeInv /\ TasksInv
    BY DEF IInv
  <1>2. SamePlaces(queue, queue') /\ Heeded'
    <2>1. SameTasks(queue, queue') /\ running' = running
      BY <1>1, AbortSame DEF TypeInv, Navigates
    <2> QED
      BY <1>1, <2>1, HeededKept
  <1>3. rev' \in 0..MaxNavigations
    BY <1>1, WorkflowAssumption DEF TypeInv, Navigates
  <1> QED
    BY <1>1, <1>2, <1>3, QuietStep DEF TypeInv, Navigates

LEMMA InterruptKeeps ==
  ASSUME IInv, NEW type \in Types, Interrupt(type)
  PROVE  IInv'
  <1>1. TypeInv /\ TasksInv
    BY DEF IInv
  <1>2. SamePlaces(queue, queue') /\ Heeded'
    <2>1. SameTasks(queue, queue') /\ running' = running
      BY <1>1, AbortSame DEF TypeInv, Interrupt
    <2> QED
      BY <1>1, <2>1, HeededKept
  <1>3. state' \in States
    BY <1>1 DEF TypeInv, Interrupt, States
  <1>4. interrupts' \in Seq(Types)
    BY <1>1 DEF TypeInv, Interrupt
  <1> QED
    BY <1>1, <1>2, <1>3, <1>4, QuietStep DEF TypeInv, Interrupt

LEMMA ChallengeFoundKeeps ==
  ASSUME IInv, ChallengeFound
  PROVE  IInv'
  <1>1. TypeInv /\ TasksInv
    BY DEF IInv
  <1>2. SamePlaces(queue, queue') /\ Heeded'
    <2>1. SameTasks(queue, queue') /\ running' = running
      BY <1>1, AbortSame DEF TypeInv, ChallengeFound
    <2> QED
      BY <1>1, <2>1, HeededKept
  <1>3. state' \in States
    BY DEF ChallengeFound, States
  <1> QED
    BY <1>1, <1>2, <1>3, QuietStep DEF TypeInv, ChallengeFound

-----------------------------------------------------------------------------
(* The effect of a task *)

\* An accepted step makes at least one call.
LEMMA CallsPositive ==
  ASSUME NEW step, ValidStep(step)
  PROVE  Calls(step) \in Nat /\ Calls(step) >= 1
  <1>1. CASE "values" \in step.has
    <2>1. "values" \in Allowed(step.op) /\ step.op \in Ops
      BY <1>1 DEF ValidStep
    <2>2. step.op = "select"
      BY <2>1 DEF Allowed, Ops
    <2>3. step.n \in 1..32
      BY <1>1, <2>2 DEF ValidStep, ValidSelect, Has
    <2> QED
      BY <1>1, <2>3 DEF Calls, Has
  <1>2. CASE "values" \notin step.has
    BY <1>2 DEF Calls, Has
  <1> QED
    BY <1>1, <1>2

\* What a task does to the page keeps the first write where the caller looked: it
\* is guarded, or one was made before it.
LEMMA WriteAppended ==
  ASSUME NEW r \in CallRecords, Sound(r), NEW s \in Seq(Deeds), ClaimsFit(r, s),
         \A i \in 1..Len(s) : DeedFits(r, s[i]), WriteFits(r, s),
         NEW t \in Tasks, TaskFits(r, t), NEW at \in Nat, t.guard => t.seen = 0,
         NEW e \in Deeds, e = [step |-> t.step, sub |-> t.sub, op |-> t.op, seen |-> t.seen, rev |-> at]
  PROVE  WriteFits(r, Append(s, e))
  <1>1. /\ r.at \in Nat /\ r.sub \in Nat /\ r.req \in Asked /\ r.req.expect \in BOOLEAN
        /\ t.step \in Nat /\ Len(r.req.steps) \in Nat /\ r.sub >= 1
        /\ r.at \in 1..(Len(r.req.steps) + 1)
    <2>1. r.at \in Nat /\ r.sub \in Nat /\ r.req \in Asked /\ t.step \in Nat
      BY DEF CallRecords, Tasks
    <2> QED
      BY <2>1, AskedTyped DEF Sound
  <1>2. /\ Len(Append(s, e)) = Len(s) + 1 /\ Append(s, e)[Len(s) + 1] = e /\ Len(s) \in Nat
        /\ \A i \in 1..Len(s) : Append(s, e)[i] = s[i]
    OBVIOUS
  <1>3. ASSUME r.req.expect, RequireReady(t.op), t.seen # 0
        PROVE  \E j \in 1..Len(s) : RequireReady(s[j].op)
    <2>1. /\ r.req.kind = "workflow" /\ ValidWorkflow(r.req.steps, r.req.stopOn)
          /\ t.step > 0 /\ t.op = r.req.steps[r.at].op /\ r.at \in 1..Len(r.req.steps)
          /\ ~(r.at = FirstWrite(r.req) /\ r.sub = 1)
      <3>1. ~t.guard
        BY <1>3
      <3>2. r.req.kind = "workflow"
        BY <1>3, <3>1 DEF TaskFits
      <3>3. t.step # 0 /\ t.step > 0
        BY <1>1, <1>3, <3>2 DEF TaskFits, RequireReady
      <3>4. t.guard = (r.req.expect /\ r.at = FirstWrite(r.req) /\ r.sub = 1)
        BY <3>2, <3>3 DEF TaskFits
      <3>5. ~(r.at = FirstWrite(r.req) /\ r.sub = 1)
        BY <1>3, <3>1, <3>4, Zenon
      <3> QED
        BY <1>1, <3>2, <3>3, <3>5 DEF TaskFits
    <2>2. \A i \in 1..Len(r.req.steps) : ValidStep(r.req.steps[i])
      BY <2>1 DEF ValidWorkflow
    <2>3. IsWrite(r.req.steps[r.at])
      BY <1>3, <2>1, <2>2 DEF ValidStep, Ops, RequireReady, IsWrite
    <2> DEFINE W == {i \in 1..Len(r.req.steps) : IsWrite(r.req.steps[i])}
    <2>4. W \in SUBSET Nat /\ r.at \in W
      BY <1>1, <2>1, <2>3
    <2>5. FirstWrite(r.req) = Least(W)
      BY <2>4 DEF FirstWrite
    <2>6. Least(W) \in W /\ Least(W) <= r.at
      BY <2>4, LeastIs
    <2>7. PICK f \in 1..Len(r.req.steps) : f = FirstWrite(r.req) /\ IsWrite(r.req.steps[f]) /\ f <= r.at
      BY <2>5, <2>6
    <2> HIDE DEF W
    <2>8. Done(s, f, 1)
      <3>1. CASE f = r.at
        <4>1. 1 \in 1..(r.sub - 1)
          BY <1>1, <2>1, <2>7, <3>1
        <4> QED
          BY <2>1, <3>1, <4>1 DEF ClaimsFit
      <3>2. CASE f < r.at
        <4>1. f \in 1..(r.at - 1)
          BY <1>1, <3>2
        <4>2. f <= Len(r.reports) /\ r.reports[f] = "success"
          BY <4>1 DEF Sound
        <4>3. Len(r.reports) \in Nat
          BY DEF CallRecords
        <4>4. f \in 1..Len(r.reports)
          BY <4>2, <4>3
        <4>5. 1 \in 1..Calls(r.req.steps[f])
          BY <2>2, CallsPositive
        <4> QED
          BY <2>1, <4>2, <4>4, <4>5 DEF ClaimsFit
      <3> QED
        BY <1>1, <2>7, <3>1, <3>2
    <2>9. PICK j \in 1..Len(s) : s[j].step = f /\ s[j].sub = 1
      BY <2>8 DEF Done
    <2>10. s[j].op = r.req.steps[f].op
      BY <2>1, <2>9 DEF DeedFits
    <2>11. RequireReady(s[j].op)
      BY <2>7, <2>10 DEF IsWrite, RequireReady
    <2> QED
      BY <2>11
  <1>4. e.op = t.op /\ e.seen = t.seen
    OBVIOUS
  <1>5. ASSUME r.req.expect, NEW i \in 1..(Len(s) + 1), RequireReady(Append(s, e)[i].op)
        PROVE  Append(s, e)[i].seen = 0 \/ \E j \in 1..(i - 1) : RequireReady(Append(s, e)[j].op)
    <2>1. CASE i = Len(s) + 1
      <3>1. CASE t.seen = 0
        BY <1>2, <1>4, <2>1, <3>1
      <3>2. CASE t.seen # 0
        <4>1. PICK j \in 1..Len(s) : RequireReady(s[j].op)
          BY <1>2, <1>3, <1>4, <1>5, <2>1, <3>2
        <4>2. j \in 1..(i - 1) /\ Append(s, e)[j] = s[j]
          BY <1>2, <2>1
        <4> QED
          BY <4>1, <4>2
      <3> QED
        BY <3>1, <3>2
    <2>2. CASE i \in 1..Len(s)
      <3>1. s[i].seen = 0 \/ \E j \in 1..(i - 1) : RequireReady(s[j].op)
        BY <1>2, <1>5, <2>2 DEF WriteFits
      <3>2. \A j \in 1..(i - 1) : j \in 1..Len(s)
        BY <1>2, <2>2
      <3> QED
        BY <1>2, <2>2, <3>1, <3>2
    <2> QED
      BY <1>2, <2>1, <2>2
  <1> QED
    BY <1>2, <1>5 DEF WriteFits

LEMMA DoneAppended ==
  ASSUME NEW s \in Seq(Deeds), NEW e \in Deeds
  PROVE  /\ \A k, v : Done(Append(s, e), k, v) <=> Done(s, k, v) \/ (e.step = k /\ e.sub = v)
         /\ DoneOnce(s) /\ ~Done(s, e.step, e.sub) => DoneOnce(Append(s, e))
         /\ Append(s, e) \in Seq(Deeds) /\ Append(s, e) # <<>>
         /\ \A i \in 1..Len(Append(s, e)) : (i \in 1..Len(s) /\ Append(s, e)[i] = s[i]) \/ Append(s, e)[i] = e
  <1> DEFINE u == Append(s, e)
  <1>1. /\ Len(u) = Len(s) + 1 /\ u[Len(s) + 1] = e /\ Len(s) \in Nat
        /\ \A i \in 1..Len(s) : u[i] = s[i]
        /\ u \in Seq(Deeds) /\ u # <<>>
    OBVIOUS
  <1> HIDE DEF u
  <1>2. \A i \in 1..Len(u) : i \in 1..Len(s) \/ i = Len(s) + 1
    BY <1>1
  <1>3. \A i \in 1..Len(s) : i \in 1..Len(u)
    BY <1>1
  <1>4. Len(s) + 1 \in 1..Len(u)
    BY <1>1
  <1>5. ASSUME NEW k, NEW v
        PROVE  Done(u, k, v) <=> Done(s, k, v) \/ (e.step = k /\ e.sub = v)
    BY <1>1, <1>2, <1>3, <1>4 DEF Done
  <1>6. ASSUME DoneOnce(s), ~Done(s, e.step, e.sub),
               NEW i \in 1..Len(u), NEW j \in 1..Len(u), u[i].step = u[j].step, u[i].sub = u[j].sub
        PROVE  i = j
    BY <1>1, <1>2, <1>6 DEF DoneOnce, Done
  <1> QED
    BY <1>1, <1>2, <1>5, <1>6 DEF u, DoneOnce

LEMMA TaskActsKeeps ==
  ASSUME IInv, NEW opens \in BOOLEAN, TaskActs(opens)
  PROVE  IInv'
  <1>1. TypeInv /\ CallersInv /\ DeedsInv /\ TasksInv /\ SharedInv /\ CacheInv /\ running = "checked"
    BY DEF IInv, TaskActs
  <1>2. /\ call \in [Callers -> CallRecords] /\ effects \in [Callers -> Seq(Deeds)] /\ queue # <<>>
        /\ queue \in Seq(Tasks) /\ state \in States /\ rev \in 0..MaxNavigations /\ rev \in Nat
    BY <1>1, WorkflowAssumption DEF TypeInv
  <1>3. PICK t \in Tasks : t = Head(queue) /\ t = queue[1] /\ 1 \in 1..Len(queue)
    BY <1>2, HeadTyped
  <1>4. rev' \in 0..MaxNavigations
    BY <1>2, <1>3, WorkflowAssumption DEF TaskActs
  <1>5. PICK c \in Callers : c = t.call
    BY DEF Tasks
  <1>6. PICK e \in Deeds : e = [step |-> t.step, sub |-> t.sub, op |-> t.op, seen |-> t.seen, rev |-> rev]
    BY <1>2 DEF Deeds, Tasks
  <1>7. PICK s \in Seq(Deeds) : s = effects[c]
    BY <1>2
  <1>8. /\ effects' = [effects EXCEPT ![c] = Append(s, e)]
        /\ running' = "acted" /\ state' \in {"USER_CONTROLLED", state}
        /\ acts' = Append(acts, c)
        /\ UNCHANGED <<call, token, queue, cache, interrupts, forgotten>>
    BY <1>3, <1>5, <1>6, <1>7 DEF TaskActs
  <1>9. /\ \A k, v : Done(Append(s, e), k, v) <=> Done(s, k, v) \/ (e.step = k /\ e.sub = v)
        /\ DoneOnce(s) /\ ~Done(s, e.step, e.sub) => DoneOnce(Append(s, e))
        /\ Append(s, e) \in Seq(Deeds) /\ Append(s, e) # <<>>
        /\ \A i \in 1..Len(Append(s, e)) : (i \in 1..Len(s) /\ Append(s, e)[i] = s[i]) \/ Append(s, e)[i] = e
    BY DoneAppended
  <1>10. /\ effects' \in [Callers -> Seq(Deeds)] /\ effects'[c] = Append(s, e)
        /\ \A d \in Callers : d # c => effects'[d] = effects[d]
    BY <1>2, <1>8, <1>9
  <1>11. /\ e.step = t.step /\ e.sub = t.sub /\ e.op = t.op /\ e.seen = t.seen
    BY <1>6
  <1>12. /\ TaskFits(call[c], t) /\ ~Done(s, t.step, t.sub) /\ ClaimsFit(call[c], s) /\ DoneOnce(s)
        /\ WriteFits(call[c], s) /\ \A i \in 1..Len(s) : DeedFits(call[c], s[i])
    BY <1>1, <1>3, <1>5, <1>7 DEF TasksInv, DeedsInv
  <1>13. call[c] \in CallRecords /\ Sound(call[c]) /\ t.step \in Nat /\ t.sub \in Nat
    BY <1>1, <1>2 DEF CallersInv, Tasks
  <1>14. DeedFits(call[c], e)
    BY <1>11, <1>12, <1>13 DEF DeedFits, TaskFits, Early
  <1>15. ClaimsFit(call[c], Append(s, e))
    BY <1>9, <1>12 DEF ClaimsFit
  <1>16. WriteFits(call[c], Append(s, e))
    <2>1. t.guard => t.seen = 0
      BY <1>1, <1>3 DEF TasksInv, Heeded
    <2> QED
      BY <1>2, <1>6, <1>12, <1>13, <2>1, WriteAppended
  <1>17. \A i \in 1..Len(Append(s, e)) : DeedFits(call[c], Append(s, e)[i])
    BY <1>9, <1>12, <1>14
  <1>18. DoneOnce(Append(s, e))
    BY <1>9, <1>11, <1>12
  <1>19. DeedsInv'
    <2>1. ASSUME NEW d \in Callers
          PROVE  /\ \A i \in 1..Len(effects'[d]) : DeedFits(call[d], effects'[d][i])
                 /\ ClaimsFit(call[d], effects'[d])
                 /\ DoneOnce(effects'[d])
                 /\ WriteFits(call[d], effects'[d])
      <3>1. CASE d = c
        BY <1>10, <1>15, <1>16, <1>17, <1>18, <3>1
      <3>2. CASE d # c
        BY <1>1, <1>10, <3>2 DEF DeedsInv
      <3> QED
        BY <3>1, <3>2
    <2> QED
      BY <1>8, <2>1 DEF DeedsInv
  <1>20. TasksInv'
    <2>1. ASSUME NEW i \in 1..Len(queue), i # 1
          PROVE  ~Done(effects'[queue[i].call], queue[i].step, queue[i].sub)
      <3>1. ~Done(effects[queue[i].call], queue[i].step, queue[i].sub) /\ queue[i].call \in Callers
        BY <1>1, <1>2, <2>1, TaskTyped DEF TasksInv
      <3>2. CASE queue[i].call # c
        BY <1>10, <3>1, <3>2
      <3>3. CASE queue[i].call = c
        <4>1. ~(e.step = queue[i].step /\ e.sub = queue[i].sub)
          BY <1>1, <1>3, <1>5, <1>11, <2>1, <3>3 DEF TasksInv, SamePlace
        <4>2. ~Done(s, queue[i].step, queue[i].sub)
          BY <1>7, <3>1, <3>3
        <4>3. ~Done(Append(s, e), queue[i].step, queue[i].sub)
          BY <1>9, <4>1, <4>2
        <4> QED
          BY <1>10, <3>3, <4>3
      <3> QED
        BY <3>2, <3>3
    <2>2. Done(effects'[queue[1].call], queue[1].step, queue[1].sub)
      BY <1>3, <1>5, <1>9, <1>10, <1>11
    <2> QED
      BY <1>1, <1>8, <2>1, <2>2 DEF TasksInv, Heeded
  <1>21. \A d \in Callers : Ran(d)' => Ran(d)
    <2>1. Ran(c)
      BY <1>3, <1>5 DEF Ran
    <2> QED
      BY <1>8, <1>10, <2>1 DEF Ran
  <1>22. CacheInv'
    BY <1>1, <1>8, <1>21, CacheKept
  <1>23. CallersInv' /\ SharedInv'
    BY <1>1, <1>8 DEF CallersInv, SharedInv
  <1>24. state' \in States
    BY <1>2, <1>8 DEF States
  <1>25. acts' \in Seq(Callers)
    BY <1>1, <1>8 DEF TypeInv
  <1>26. TypeInv'
    BY <1>1, <1>2, <1>4, <1>8, <1>10, <1>24, <1>25 DEF TypeInv
  <1> QED
    BY <1>19, <1>20, <1>22, <1>23, <1>26 DEF IInv

-----------------------------------------------------------------------------
(* The action cache *)

\* The oldest entry is pruned.
LEMMA CacheExpiresKeeps ==
  ASSUME IInv, CacheExpires
  PROVE  IInv'
  <1>1. TypeInv /\ CallersInv /\ DeedsInv /\ TasksInv /\ SharedInv /\ CacheInv
    BY DEF IInv
  <1>2. /\ cache # <<>> /\ cache \in Seq(CacheEntries) /\ Len(cache) <= MaxActionCache
        /\ cache' = Tail(cache) /\ forgotten' = forgotten \cup {cache[1].id}
        /\ UNCHANGED <<call, token, queue, running, sessionVars, effects, acts>>
    BY <1>1 DEF TypeInv, CacheExpires
  <1>3. /\ cache' \in Seq(CacheEntries) /\ Len(cache') = Len(cache) - 1 /\ Len(cache) \in Nat
        /\ \A i \in 1..Len(cache') : cache'[i] = cache[i + 1] /\ i + 1 \in 1..Len(cache)
    BY <1>2
  <1>4. \A i \in 1..Len(cache) : i = 1 \/ (i - 1 \in 1..Len(cache') /\ cache'[i - 1] = cache[i])
    BY <1>2, <1>3
  <1>5. ASSUME NEW d \in Callers, Ran(d)'
        PROVE  Known(d)'
    <2>1. Ran(d)
      BY <1>2, <1>5 DEF Ran
    <2>2. Known(d)
      BY <1>1, <2>1 DEF CacheInv
    <2> QED
      BY <1>2, <1>4, <2>2 DEF Known, ActionId
  <1>6. ASSUME NEW i \in 1..Len(cache'), NEW j \in 1..Len(cache'), cache'[i].id = cache'[j].id
        PROVE  i = j
    <2>1. i + 1 = j + 1
      BY <1>1, <1>3, <1>6 DEF CacheInv
    <2> QED
      BY <2>1
  <1>7. CacheInv'
    BY <1>5, <1>6 DEF CacheInv
  <1>8. Len(cache') <= MaxActionCache
    BY <1>2, <1>3, WorkflowAssumption
  <1>9. TypeInv'
    BY <1>1, <1>2, <1>3, <1>8 DEF TypeInv, sessionVars
  <1>10. CallersInv' /\ DeedsInv' /\ TasksInv' /\ SharedInv'
    BY <1>1, <1>2 DEF CallersInv, DeedsInv, TasksInv, SharedInv, Heeded
  <1> QED
    BY <1>7, <1>9, <1>10 DEF IInv

\* A new action id is remembered, and the oldest makes room.
LEMMA RememberKeeps ==
  ASSUME IInv, NEW c \in Callers, Remember(c),
         ActionId(c) # None => Entries(ActionId(c)) = {},
         \A d \in Callers : call'[d].req = call[d].req /\ (d # c => (Ran(d)' => Ran(d)))
  PROVE  CacheInv' /\ cache' \in Seq(CacheEntries) /\ Len(cache') <= MaxActionCache
  <1>1. CacheInv /\ cache \in Seq(CacheEntries) /\ Len(cache) <= MaxActionCache /\ Len(cache) \in Nat
        /\ MaxActionCache \in Nat /\ MaxActionCache >= 1
    BY WorkflowAssumption DEF IInv, TypeInv
  <1> DEFINE id == ActionId(c)
  <1>2. call[c].req \in Asked
    BY DEF IInv, TypeInv, CallRecords
  <1>3. PICK e \in CacheEntries : e = [id |-> id, call |-> c]
    BY <1>2 DEF CacheEntries, ActionId
  <1>4. e.id = id /\ e.call = c
    BY <1>3
  <1>5. CASE id = None
    <2>1. cache' = cache /\ forgotten' = forgotten
      BY <1>5 DEF Remember, ActionId
    <2>2. ASSUME NEW d \in Callers, Ran(d)'
          PROVE  Known(d)'
      <3>1. CASE d = c
        BY <1>5, <3>1 DEF Known, ActionId
      <3>2. CASE d # c
        BY <1>1, <2>1, <2>2, <3>2 DEF CacheInv, Known, ActionId
      <3> QED
        BY <3>1, <3>2
    <2> QED
      BY <1>1, <2>1, <2>2 DEF CacheInv
  <1>6. CASE id # None
    <2>0. Append(cache, e) \in Seq(CacheEntries)
      BY <1>1, AppendProperties
    <2>1. PICK added \in Seq(CacheEntries) : added = Append(cache, e)
      BY <2>0
    <2>2. /\ Len(added) = Len(cache) + 1 /\ added[Len(cache) + 1] = e
          /\ \A i \in 1..Len(cache) : added[i] = cache[i]
      BY <1>1, <2>1
    <2>3. \/ /\ Len(added) > MaxActionCache /\ cache' = Tail(added)
             /\ forgotten' = forgotten \cup {Head(added).id}
          \/ /\ Len(added) <= MaxActionCache /\ cache' = added /\ forgotten' = forgotten
      BY <1>1, <1>3, <1>6, <2>1, <2>2 DEF Remember, ActionId
    <2>4. \A i \in 1..Len(added) : i \in 1..Len(cache) \/ i = Len(cache) + 1
      BY <1>1, <2>2
    <2>5. \A i \in 1..Len(cache) : cache[i].id # id
      BY <1>6 DEF Entries
    <2>6. \A i, j \in 1..Len(added) : added[i].id = added[j].id => i = j
      BY <1>1, <1>4, <2>2, <2>4, <2>5 DEF CacheInv
    <2>7. ASSUME NEW d \in Callers, Ran(d)'
          PROVE  \/ ActionId(d) = None \/ ActionId(d) \in forgotten
                 \/ \E i \in 1..Len(added) : added[i].id = ActionId(d) /\ added[i].call = d
      <3>1. CASE d = c
        <4>1. Len(cache) + 1 \in 1..Len(added)
          BY <1>1, <2>2
        <4> QED
          BY <1>4, <2>2, <3>1, <4>1
      <3>2. CASE d # c
        <4>1. Known(d)
          BY <1>1, <2>7, <3>2 DEF CacheInv
        <4>2. \A i \in 1..Len(cache) : i \in 1..Len(added)
          BY <1>1, <2>2
        <4> QED
          BY <2>2, <4>1, <4>2 DEF Known
      <3> QED
        BY <3>1, <3>2
    <2>8. \A d \in Callers : ActionId(d)' = ActionId(d)
      BY DEF ActionId
    <2>9. CASE Len(added) <= MaxActionCache /\ cache' = added /\ forgotten' = forgotten
      BY <2>6, <2>7, <2>8, <2>9 DEF CacheInv, Known
    <2>10. CASE /\ Len(added) > MaxActionCache /\ cache' = Tail(added)
                /\ forgotten' = forgotten \cup {Head(added).id}
      <3>1. /\ cache' \in Seq(CacheEntries) /\ Len(cache') = Len(added) - 1 /\ Head(added) = added[1]
            /\ \A i \in 1..Len(cache') : cache'[i] = added[i + 1] /\ i + 1 \in 1..Len(added)
        BY <1>1, <2>2, <2>10
      <3>2. \A i \in 1..Len(added) : i = 1 \/ (i - 1 \in 1..Len(cache') /\ cache'[i - 1] = added[i])
        BY <1>1, <2>2, <3>1
      <3>3. ASSUME NEW d \in Callers, Ran(d)'
            PROVE  Known(d)'
        <4>1. CASE ActionId(d) = None \/ ActionId(d) \in forgotten
          BY <2>8, <2>10, <4>1 DEF Known
        <4>2. CASE \E i \in 1..Len(added) : added[i].id = ActionId(d) /\ added[i].call = d
          BY <2>8, <2>10, <3>1, <3>2, <4>2 DEF Known
        <4> QED
          BY <2>7, <3>3, <4>1, <4>2
      <3>4. ASSUME NEW i \in 1..Len(cache'), NEW j \in 1..Len(cache'), cache'[i].id = cache'[j].id
            PROVE  i = j
        <4>1. i + 1 = j + 1
          BY <2>6, <3>1, <3>4
        <4> QED
          BY <4>1
      <3>5. Len(cache') <= MaxActionCache
        BY <1>1, <2>2, <3>1
      <3> QED
        BY <3>1, <3>3, <3>4, <3>5 DEF CacheInv
    <2> QED
      BY <2>3, <2>9, <2>10
  <1> QED
    BY <1>5, <1>6

-----------------------------------------------------------------------------
(* A caller calls *)

LEMMA SubmitStep ==
  ASSUME IInv, NEW c \in Callers, NEW l \in CallRecords, Sound(l), DeedsFollow(call[c], l),
         TasksFollow(call[c], l), l.pc # "shared",
         call' = [call EXCEPT ![c] = l], token' \in {token, c}, Remember(c),
         ActionId(c) # None => Entries(ActionId(c)) = {},
         UNCHANGED <<running, sessionVars, effects, acts>>,
         \/ queue' = queue
         \/ \E t \in Tasks : /\ t.call = c /\ queue' = Append(queue, t) /\ Len(queue) < MaxQueue
                             /\ TaskFits(l, t)
                             /\ \A i \in 1..Len(queue) : ~SamePlace(queue[i], t)
                             /\ ~Done(effects[c], t.step, t.sub)
  PROVE  IInv'
  <1>1. TypeInv /\ CallersInv /\ DeedsInv /\ TasksInv /\ SharedInv /\ CacheInv
    BY DEF IInv
  <1>2. /\ call \in [Callers -> CallRecords] /\ effects \in [Callers -> Seq(Deeds)]
        /\ queue \in Seq(Tasks) /\ (running # "none" => queue # <<>>) /\ Len(queue) <= MaxQueue
        /\ effects' = effects /\ running' = running
    BY <1>1 DEF TypeInv
  <1>3. /\ call' \in [Callers -> CallRecords] /\ CallersInv' /\ DeedsInv' /\ SharedInv'
        /\ call'[c] = l /\ \A d \in Callers : d # c => call'[d] = call[d]
        /\ \A d \in Callers : call'[d].req = call[d].req
    BY <1>1, <1>2, CallMoves DEF DeedsFollow, SharedRight
  <1>4. \A d \in Callers : TasksFollow(call[d], call'[d])
    BY <1>3 DEF TasksFollow
  <1>5. /\ TasksInv' /\ queue' \in Seq(Tasks) /\ Len(queue') <= MaxQueue /\ (running # "none" => queue' # <<>>)
        /\ \A i \in 1..Len(queue') : queue'[i].call = c \/ \E j \in 1..Len(queue) : queue'[i].call = queue[j].call
    <2>1. CASE queue' = queue
      <3>1. SamePlaces(queue, queue') /\ Heeded'
        <4>1. SameTasks(queue, queue')
          BY <1>2, <2>1, AbortSame
        <4> QED
          BY <1>1, <1>2, <4>1, HeededKept
      <3>2. TasksInv'
        BY <1>1, <1>2, <1>4, <3>1, TasksKept
      <3> QED
        BY <1>2, <2>1, <3>2
    <2>2. CASE \E t \in Tasks : /\ t.call = c /\ queue' = Append(queue, t) /\ Len(queue) < MaxQueue
                                /\ TaskFits(l, t)
                                /\ \A i \in 1..Len(queue) : ~SamePlace(queue[i], t)
                                /\ ~Done(effects[c], t.step, t.sub)
      <3>1. PICK t \in Tasks : /\ t.call = c /\ queue' = Append(queue, t) /\ Len(queue) < MaxQueue
                               /\ TaskFits(l, t)
                               /\ \A i \in 1..Len(queue) : ~SamePlace(queue[i], t)
                               /\ ~Done(effects[c], t.step, t.sub)
        BY <2>2
      <3>2. TasksInv'
        BY <1>1, <1>2, <1>3, <1>4, <3>1, TasksGrow
      <3>3. /\ queue' \in Seq(Tasks) /\ Len(queue') = Len(queue) + 1 /\ queue'[Len(queue) + 1] = t
            /\ \A i \in 1..Len(queue) : queue'[i] = queue[i]
            /\ Len(queue) \in Nat /\ queue' # <<>>
        BY <1>2, <3>1
      <3>4. \A i \in 1..Len(queue') : i \in 1..Len(queue) \/ i = Len(queue) + 1
        BY <3>3
      <3> QED
        BY <3>1, <3>2, <3>3, <3>4, WorkflowAssumption
    <2> QED
      BY <2>1, <2>2
  <1>6. \A d \in Callers : call'[d].req = call[d].req /\ (d # c => (Ran(d)' => Ran(d)))
    <2>1. ASSUME NEW d \in Callers, d # c, Ran(d)'
          PROVE  Ran(d)
      <3>1. CASE call'[d].pc \in Live
        BY <1>3, <2>1, <3>1 DEF Ran
      <3>2. CASE effects'[d] # <<>>
        BY <1>2, <3>2 DEF Ran
      <3>3. CASE \E i \in 1..Len(queue') : queue'[i].call = d
        BY <1>5, <2>1, <3>3 DEF Ran
      <3> QED
        BY <2>1, <3>1, <3>2, <3>3 DEF Ran
    <2> QED
      BY <1>3, <2>1
  <1>7. CacheInv' /\ cache' \in Seq(CacheEntries) /\ Len(cache') <= MaxActionCache
    BY <1>6, RememberKeeps
  <1>8. TypeInv'
    BY <1>1, <1>2, <1>3, <1>5, <1>7 DEF TypeInv, sessionVars
  <1> QED
    BY <1>3, <1>5, <1>7, <1>8 DEF IInv

LEMMA SubmitKeeps ==
  ASSUME IInv, NEW c \in Callers, Submit(c)
  PROVE  IInv'
  <1> DEFINE r == call[c]
             hits == IF r.req.id = None THEN {} ELSE Cached(r.req.id)
             owner == cache[Least(hits)].call
  <1>1. /\ TypeInv /\ r \in CallRecords /\ Sound(r) /\ r.pc = "idle" /\ r.req \in Asked
        /\ queue \in Seq(Tasks) /\ (running # "none" => queue # <<>>)
    <2>1. TypeInv /\ CallersInv /\ r.pc = "idle"
      BY DEF IInv, Submit
    <2>2. r \in CallRecords
      BY <2>1 DEF TypeInv
    <2> QED
      BY <2>1, <2>2 DEF TypeInv, CallersInv, CallRecords
  <1>2. r.req.room \in Nat /\ r.req.kind \in Kinds /\ r.req.expect \in BOOLEAN
    BY <1>1, AskedTyped
  <1>3. UNCHANGED <<running, sessionVars, effects, acts>>
    BY DEF Submit
  <1>4. ASSUME NEW code \in Codes
        PROVE  Follows(r, Settled(r, Failure(code)))
    <2>1. PICK f \in Results : f = Failure(code) /\ f.ok = FALSE /\ f.steps + f.details = 0
      BY FailureFits
    <2>2. f.steps + f.details <= r.req.room
      BY <1>2, <2>1
    <2> QED
      BY <1>1, <2>1, <2>2, SettledFollows
  <1>5. ASSUME NEW code \in Codes, Answer(c, code)
        PROVE  IInv'
    <2>1. SameTasks(queue, queue') /\ token' = token /\ cache' = cache /\ forgotten' = forgotten
      BY <1>1, <1>5, AbortSame DEF Answer
    <2>2. call' = [call EXCEPT ![c] = Settled(r, Failure(code))]
      BY <1>5 DEF Answer
    <2> QED
      BY <1>3, <1>4, <2>1, <2>2, CallStep
  <1>6. CASE state = "USER_CONTROLLED"
    BY <1>5, <1>6 DEF Submit, Codes
  <1>7. CASE state # "USER_CONTROLLED" /\ hits # {}
    <2>1. hits \in SUBSET (1..Len(cache)) /\ cache \in Seq(CacheEntries)
      BY <1>1 DEF Cached, Entries, TypeInv
    <2>2. hits \in SUBSET Nat
      BY <2>1
    <2>3. Least(hits) \in 1..Len(cache)
      BY <1>7, <2>1, <2>2, LeastIs
    <2>4. owner \in Callers
      <3>1. cache[Least(hits)] \in CacheEntries
        BY <2>1, <2>3
      <3> QED
        BY <3>1 DEF CacheEntries
    <2>5. CASE Fingerprint(call[owner].req) # Fingerprint(r.req)
      <3>1. Answer(c, "ACTION_ID_CONFLICT")
        BY <1>7, <2>5 DEF Submit
      <3> QED
        BY <1>5, <3>1 DEF Codes
    <2>6. CASE Fingerprint(call[owner].req) = Fingerprint(r.req)
      <3> DEFINE l == [r EXCEPT !.pc = "shared", !.of = owner]
      <3>1. /\ call' = [call EXCEPT ![c].pc = "shared", ![c].of = owner]
            /\ UNCHANGED <<token, queue, cache, forgotten>>
        BY <1>7, <2>6 DEF Submit
      <3>2. call' = [call EXCEPT ![c] = l]
        BY <1>1, <3>1 DEF TypeInv
      <3>3. /\ l \in CallRecords /\ l.req = r.req /\ l.pc = "shared" /\ l.of = owner /\ l.at = r.at
            /\ l.sub = r.sub /\ l.reports = r.reports /\ l.result = r.result
        BY <1>1, <2>4 DEF CallRecords
      <3> HIDE DEF l, hits, owner
      <3>4. Sound(l)
        BY <1>1, <3>3 DEF Sound, Looping, Live
      <3>5. DeedsFollow(r, l)
        BY <1>1, <3>3 DEF DeedsFollow, DeedFits, ClaimsFit, Early
      <3>6. TasksFollow(r, l)
        BY <1>1, <3>3 DEF TasksFollow, TaskFits
      <3>7. LiveFollows(r, l) /\ SharedRight(l)
        BY <2>4, <2>6, <3>3 DEF LiveFollows, SharedRight, Live, Looping
      <3>8. SameTasks(queue, queue') /\ token' = token /\ cache' = cache /\ forgotten' = forgotten
        BY <1>1, <3>1, AbortSame
      <3>9. Follows(r, l)
        BY <3>3, <3>4, <3>5, <3>6, <3>7 DEF Follows
      <3> QED
        BY <1>3, <3>2, <3>8, <3>9, CallStep
    <2> QED
      BY <2>5, <2>6
  <1>8. CASE state # "USER_CONTROLLED" /\ hits = {}
    <2>1. /\ Remember(c)
          /\ r.req.kind = "workflow" => ReserveSession(c)
          /\ r.req.kind # "workflow" => SubmitTask(c)
      BY <1>8 DEF Submit
    <2>2. ActionId(c) # None => Entries(ActionId(c)) = {}
      BY <1>8 DEF ActionId, Cached
    <2> HIDE DEF hits
    <2>3. ASSUME NEW code \in Codes, call' = [call EXCEPT ![c] = Settled(r, Failure(code))],
                 token' = token, queue' = queue
          PROVE  IInv'
      <3> DEFINE l == Settled(r, Failure(code))
      <3>1. Follows(r, l)
        BY <1>4
      <3>2. l.pc = "done"
        BY <1>1, FailureFits, SettledIs
      <3> HIDE DEF l
      <3>3. /\ l \in CallRecords /\ Sound(l) /\ DeedsFollow(r, l) /\ TasksFollow(r, l) /\ l.pc # "shared"
        BY <3>1, <3>2 DEF Follows
      <3> QED
        BY <1>3, <2>1, <2>2, <2>3, <3>3, SubmitStep DEF l
    <2>4. CASE r.req.kind = "workflow"
      <3> DEFINE code == IF token # None THEN "SESSION_BUSY"
                         ELSE IF r.req.expect /\ rev # 0 THEN "PAGE_REVISION_MISMATCH"
                         ELSE IF ~ValidWorkflow(r.req.steps, r.req.stopOn) THEN "INVALID_ARGUMENT" ELSE "ok"
      <3>1. /\ token' = IF code = "ok" THEN c ELSE token
            /\ call' = [call EXCEPT ![c] = IF code = "ok" THEN [r EXCEPT !.pc = "init"]
                                           ELSE Settled(r, Failure(code))]
            /\ queue' = queue
        BY <2>1, <2>4 DEF ReserveSession
      <3>2. CASE code # "ok"
        <4>1. code \in Codes
          BY DEF Codes
        <4> HIDE DEF code
        <4> QED
          BY <2>3, <3>1, <3>2, <4>1
      <3>3. CASE code = "ok"
        <4> DEFINE l == [r EXCEPT !.pc = "init"]
        <4>1. ValidWorkflow(r.req.steps, r.req.stopOn)
          BY <3>3
        <4>2. /\ l \in CallRecords /\ l.req = r.req /\ l.at = r.at /\ l.sub = r.sub /\ l.reports = r.reports
              /\ l.of = r.of /\ l.result = r.result /\ l.pc = "init"
          BY <1>1 DEF CallRecords, Live, Looping
        <4> HIDE DEF l
        <4>3. <<r.pc, l.pc>> \in Moves
          BY <1>1, <4>2 DEF Moves
        <4>4. Sound(l) /\ DeedsFollow(r, l) /\ TasksFollow(r, l) /\ l.pc # "shared"
          BY <1>1, <2>4, <4>1, <4>2, <4>3, MoveFollows
        <4>5. call' = [call EXCEPT ![c] = l] /\ token' = c /\ queue' = queue
          BY <3>1, <3>3 DEF l
        <4> QED
          BY <1>3, <2>1, <2>2, <4>2, <4>4, <4>5, SubmitStep
      <3> QED
        BY <3>2, <3>3
    <2>5. CASE r.req.kind # "workflow"
      <3> DEFINE op == IF r.req.kind = "handoff" THEN "handoff" ELSE r.req.steps[1].op
                 code == IF op = "handoff" /\ state \notin {"READY", "PAUSED_CHALLENGE"}
                         THEN "TAKEOVER_UNAVAILABLE" ELSE EnqueueVerdict(c, op, queue)
                 t == Task(c, 1, 1, op, r.req.expect)
      <3>1. /\ queue' = IF code = "ok" THEN Append(queue, t) ELSE queue
            /\ call' = [call EXCEPT ![c] = IF code = "ok" THEN [r EXCEPT !.pc = "await"]
                                           ELSE Settled(r, Failure(code))]
            /\ token' = token
        BY <2>1, <2>5 DEF SubmitTask
      <3>2. code \in Codes /\ (code = "ok" => Len(queue) < MaxQueue)
        BY <1>1, VerdictIs DEF Codes
      <3>3. op \in OpNames
        <4>1. r.req.kind = "write" => r.req.steps[1].op \in STRING
          BY <1>1, AskedTyped
        <4> QED
          BY <1>2, <2>5, <4>1 DEF Kinds, OpNames
      <3> HIDE DEF code, op
      <3>4. CASE code # "ok"
        BY <2>3, <3>1, <3>2, <3>4
      <3>5. CASE code = "ok"
        <4> DEFINE l == [r EXCEPT !.pc = "await"]
        <4>1. /\ l \in CallRecords /\ l.req = r.req /\ l.at = r.at /\ l.sub = r.sub /\ l.reports = r.reports
              /\ l.of = r.of /\ l.result = r.result /\ l.pc = "await"
          BY <1>1 DEF CallRecords, Live, Looping
        <4>2. call' = [call EXCEPT ![c] = l] /\ token' = token /\ queue' = Append(queue, t)
          BY <3>1, <3>5
        <4> HIDE DEF l
        <4>3. <<r.pc, l.pc>> \in Moves
          BY <1>1, <4>1 DEF Moves
        <4>4. Sound(l) /\ DeedsFollow(r, l) /\ TasksFollow(r, l) /\ l.pc # "shared"
          BY <1>1, <2>5, <4>1, <4>3, MoveFollows
        <4>5. t \in Tasks /\ t.call = c /\ t.step = 1 /\ t.sub = 1 /\ t.guard = r.req.expect
          BY <1>2, <3>3 DEF Task, Tasks
        <4> HIDE DEF t
        <4>6. TaskFits(l, t)
          BY <2>5, <4>1, <4>5 DEF TaskFits
        <4>7. \A i \in 1..Len(queue) : ~SamePlace(queue[i], t)
          <5>1. ASSUME NEW i \in 1..Len(queue), queue[i].call = c
                PROVE  FALSE
            <6>1. TaskFits(r, queue[i])
              BY <5>1 DEF IInv, TasksInv
            <6> QED
              BY <1>1, <2>5, <6>1 DEF TaskFits
          <5> QED
            BY <4>5, <5>1 DEF SamePlace
        <4>8. ~Done(effects[c], t.step, t.sub)
          <5>1. ASSUME NEW i \in 1..Len(effects[c])
                PROVE  FALSE
            <6>1. DeedFits(r, effects[c][i])
              BY <5>1 DEF IInv, DeedsInv
            <6> QED
              BY <1>1, <2>5, <6>1 DEF DeedFits
          <5> QED
            BY <5>1 DEF Done
        <4> QED
          BY <1>3, <2>1, <2>2, <3>2, <3>5, <4>1, <4>2, <4>4, <4>5, <4>6, <4>7, <4>8, SubmitStep
      <3> QED
        BY <3>4, <3>5
    <2> QED
      BY <2>4, <2>5
  <1> QED
    BY <1>6, <1>7, <1>8

-----------------------------------------------------------------------------
(* The language *)

LEMMA SingletonCounts ==
  ASSUME NEW S, NEW x, S = {x}
  PROVE  ExactlyOne(S)
  BY FS_Singleton DEF ExactlyOne

LEMMA SelectMeans ==
  ASSUME NEW step, ValidSelect(step)
  PROVE  ExactlyOne(step.has \cap {"value", "label", "choice", "values"})
  <1> DEFINE S == step.has \cap {"value", "label", "choice", "values"}
  <1>1. S = {"values"} \/ S = {"choice"} \/ S = {"value"} \/ S = {"label"}
    <2>1. CASE Has(step, "values")
      BY <2>1 DEF ValidSelect, Has
    <2>2. CASE ~Has(step, "values") /\ Has(step, "choice")
      BY <2>2 DEF ValidSelect, Has
    <2>3. CASE ~Has(step, "values") /\ ~Has(step, "choice")
      <3>1. Has(step, "value") # Has(step, "label")
        BY <2>3 DEF ValidSelect
      <3>2. CASE "value" \in step.has /\ "label" \notin step.has
        BY <2>3, <3>2 DEF Has
      <3>3. CASE "value" \notin step.has /\ "label" \in step.has
        BY <2>3, <3>3 DEF Has
      <3> QED
        BY <3>1, <3>2, <3>3 DEF Has
    <2> QED
      BY <2>1, <2>2, <2>3
  <1> QED
    BY <1>1, SingletonCounts

LEMMA WaitMeans ==
  ASSUME NEW step, ValidWait(step)
  PROVE  ExactlyOne(step.has \cap {"milliseconds", "durationMs", "condition", "target"})
  <1> DEFINE S == step.has \cap {"milliseconds", "durationMs", "condition", "target"}
  <1>1. S = {"milliseconds"} \/ S = {"durationMs"} \/ S = {"condition"} \/ S = {"target"}
    BY DEF ValidWait, Has, HasBoth
  <1> QED
    BY <1>1, SingletonCounts

LEMMA TargetMeans ==
  ASSUME NEW t, ValidTarget(t), t # {"string"}
  PROVE  ExactlyOne({S \in {{"role", "name"}, {"label"}, {"testId"}, {"ref"}} : S \subseteq t})
  <1> DEFINE hasRole == "role" \in t \/ "name" \in t
             named == {f \in {"label", "testId", "ref"} : f \in t}
             strategies == named \cup (IF hasRole THEN {"role"} ELSE {})
             M == {S \in {{"role", "name"}, {"label"}, {"testId"}, {"ref"}} : S \subseteq t}
  <1>1. Cardinality(strategies) = 1 /\ (hasRole => {"role", "name"} \subseteq t)
    BY DEF ValidTarget
  <1>2. IsFiniteSet({"label", "testId", "ref", "role"})
    <2>1. IsFiniteSet({"label"})
      BY FS_Singleton
    <2>2. IsFiniteSet({"label"} \cup {"testId"})
      BY <2>1, FS_AddElement
    <2>3. IsFiniteSet(({"label"} \cup {"testId"}) \cup {"ref"})
      BY <2>2, FS_AddElement
    <2>4. IsFiniteSet((({"label"} \cup {"testId"}) \cup {"ref"}) \cup {"role"})
      BY <2>3, FS_AddElement
    <2>5. {"label", "testId", "ref", "role"} = (({"label"} \cup {"testId"}) \cup {"ref"}) \cup {"role"}
      OBVIOUS
    <2> QED
      BY <2>4, <2>5
  <1>3. strategies \subseteq {"label", "testId", "ref", "role"}
    OBVIOUS
  <1>4. IsFiniteSet(strategies)
    BY <1>2, <1>3, FS_Subset
  <1>5. PICK x : strategies = {x}
    BY <1>1, <1>4, FS_Singleton
  <1>6. /\ "label" \in t <=> x = "label" 
        /\ "testId" \in t <=> x = "testId"
        /\ "ref" \in t <=> x = "ref"
        /\ hasRole <=> x = "role"
        /\ x \in {"label", "testId", "ref", "role"}
    BY <1>3, <1>5
  <1> HIDE DEF strategies
  <1>7. M = {{"role", "name"}} \/ M = {{"label"}} \/ M = {{"testId"}} \/ M = {{"ref"}}
    <2>1. CASE x = "role"
      <3>1. {"role", "name"} \subseteq t /\ "label" \notin t /\ "testId" \notin t /\ "ref" \notin t
        BY <1>1, <1>6, <2>1
      <3> QED
        BY <3>1
    <2>2. CASE x = "label"
      <3>1. "role" \notin t /\ "label" \in t /\ "testId" \notin t /\ "ref" \notin t
        BY <1>6, <2>2
      <3> QED
        BY <3>1
    <2>3. CASE x = "testId"
      <3>1. "role" \notin t /\ "label" \notin t /\ "testId" \in t /\ "ref" \notin t
        BY <1>6, <2>3
      <3> QED
        BY <3>1
    <2>4. CASE x = "ref"
      <3>1. "role" \notin t /\ "label" \notin t /\ "testId" \notin t /\ "ref" \in t
        BY <1>6, <2>4
      <3> QED
        BY <3>1
    <2> QED
      BY <1>6, <2>1, <2>2, <2>3, <2>4
  <1> QED
    BY <1>7, SingletonCounts

\* normalizeStep: a step that is accepted has a single meaning.
THEOREM AcceptedMeans ==
  ASSUME NEW step, ValidStep(step)
  PROVE  Meaning(step)
  <1>1. step.op = "select" => ExactlyOne(step.has \cap {"value", "label", "choice", "values"})
    BY SelectMeans DEF ValidStep
  <1>2. step.op = "wait" => ExactlyOne(step.has \cap {"milliseconds", "durationMs", "condition", "target"})
    BY WaitMeans DEF ValidStep
  <1>3. Has(step, "target") =>
           \/ step.target = {"string"}
           \/ ExactlyOne({S \in {{"role", "name"}, {"label"}, {"testId"}, {"ref"}} : S \subseteq step.target})
    BY TargetMeans DEF ValidStep
  <1> QED
    BY <1>1, <1>2, <1>3 DEF Meaning

-----------------------------------------------------------------------------
(* The invariant and what follows from it *)

LEMMA InitInv == Init => IInv
  <1> SUFFICES ASSUME Init PROVE IInv
    OBVIOUS
  <1>1. PICK batch \in Batches : call = [c \in Callers |-> Fresh(batch[c])]
    BY DEF Init
  <1>2. ASSUME NEW c \in Callers
        PROVE  /\ call[c] \in CallRecords /\ Sound(call[c]) /\ call[c].pc = "idle" /\ ClaimsFit(call[c], <<>>)
    <2> DEFINE r == call[c]
               b == batch[c]
    <2>1. b \in Asked
      BY DEF Asked
    <2>2. Len(b.steps) \in Nat
      BY <2>1, AskedTyped
    <2>3. r = [req |-> b, pc |-> "idle", at |-> 1, sub |-> 1, before |-> None,
               raw |-> 0, reports |-> <<>>, stop |-> "none", of |-> None, result |-> None]
      BY <1>1 DEF Fresh
    <2> HIDE DEF r, b
    <2>4. r \in CallRecords
      BY <2>1, <2>3 DEF CallRecords, StopReasons
    <2>5. /\ r.req = b /\ r.pc = "idle" /\ r.at = 1 /\ r.sub = 1 /\ r.reports = <<>> /\ r.of = None
          /\ r.result = None
      BY <2>3
    <2>6. Sound(r)
      BY <2>2, <2>5 DEF Sound, Looping, Live
    <2>7. ClaimsFit(r, <<>>)
      BY <2>5 DEF ClaimsFit
    <2> QED
      BY <2>4, <2>5, <2>6, <2>7 DEF r
  <1>3. /\ call \in [Callers -> CallRecords] /\ effects = [c \in Callers |-> <<>>]
        /\ effects \in [Callers -> Seq(Deeds)] /\ queue = <<>> /\ cache = <<>> /\ interrupts = <<>>
        /\ token = None /\ running = "none" /\ state = "READY" /\ rev = 0 /\ acts = <<>>
    BY <1>1, <1>2 DEF Init
  <1>4. TypeInv
    BY <1>3, WorkflowAssumption DEF TypeInv, States
  <1>5. CallersInv
    BY <1>2 DEF CallersInv
  <1>6. DeedsInv
    BY <1>2, <1>3 DEF DeedsInv, DoneOnce, WriteFits
  <1>7. TasksInv /\ SharedInv
    BY <1>2, <1>3 DEF TasksInv, SharedInv, Heeded
  <1>8. CacheInv
    BY <1>2, <1>3 DEF CacheInv, Ran, Live, Looping
  <1> QED
    BY <1>4, <1>5, <1>6, <1>7, <1>8 DEF IInv

LEMMA NextInv == IInv /\ [Next]_vars => IInv'
  <1> SUFFICES ASSUME IInv, [Next]_vars PROVE IInv'
    OBVIOUS
  <1>1. ASSUME NEW c \in Callers, Submit(c) \/ ExecutorStep(c) \/ Timer(c)
        PROVE  IInv'
    BY <1>1, SubmitKeeps, ReadInitialStatusKeeps, NextStepKeeps, NextValueKeeps, StepDoneKeeps,
       ObserveKeeps, SharedAnswerKeeps, StepTimesOutKeeps, ObserveTimesOutKeeps
    DEF ExecutorStep, Timer
  <1>2. CASE TaskBegins
    BY <1>2, TaskBeginsKeeps
  <1>3. ASSUME NEW opens \in BOOLEAN, TaskActs(opens)
        PROVE  IInv'
    BY <1>3, TaskActsKeeps
  <1>11. CASE TaskChecks
    BY <1>11, TaskChecksKeeps
  <1>12. CASE TaskFails
    BY <1>12, TaskFailsKeeps
  <1>4. ASSUME NEW ok \in BOOLEAN, TaskReturns(ok)
        PROVE  IInv'
    BY <1>4, TaskReturnsKeeps
  <1>5. CASE TaskTimesOut
    BY <1>5, TaskTimesOutKeeps
  <1>6. CASE CacheExpires
    BY <1>6, CacheExpiresKeeps
  <1>7. CASE Navigates
    BY <1>7, NavigatesKeeps
  <1>8. ASSUME NEW type \in Types, Interrupt(type)
        PROVE  IInv'
    BY <1>8, InterruptKeeps
  <1>9. CASE ChallengeFound
    BY <1>9, ChallengeFoundKeeps
  <1>10. CASE UNCHANGED vars
    BY <1>10 DEF vars, sessionVars, IInv, TypeInv, CallersInv, DeedsInv, TasksInv, SharedInv, CacheInv,
                 Ran, Known, ActionId, Heeded
  <1> QED
    BY <1>1, <1>2, <1>3, <1>4, <1>5, <1>6, <1>7, <1>8, <1>9, <1>10, <1>11, <1>12 DEF Next, Types

\* Whatever is queued, running, done and reported fits together at every step of
\* every workflow.
THEOREM Invariance == Spec => []IInv
  BY InitInv, NextInv, PTL DEF Spec

LEMMA TypeFollows == IInv => TypeOK
  <1> SUFFICES ASSUME IInv PROVE TypeOK
    OBVIOUS
  <1>1. TypeInv /\ CallersInv
    BY DEF IInv
  <1>2. ASSUME NEW c \in Callers
        PROVE  /\ call[c].req.kind \in Kinds
               /\ call[c].pc \in {"idle", "shared", "init", "next", "value", "await", "after",
                                  "stopped", "observe", "done"}
               /\ call[c].at \in 1..(Len(call[c].req.steps) + 1)
               /\ call[c].pc = "done" <=> call[c].result # None
    <2>1. call[c] \in CallRecords /\ Sound(call[c])
      BY <1>1 DEF TypeInv, CallersInv
    <2>2. call[c].req \in Asked /\ call[c].pc \in Live \cup {"idle", "shared", "done"}
      BY <2>1 DEF CallRecords
    <2>3. call[c].req.kind \in Kinds
      BY <2>2, AskedTyped
    <2> QED
      BY <2>1, <2>2, <2>3 DEF Sound, Live, Looping
  <1> QED
    BY <1>1, <1>2 DEF TypeInv, TypeOK, States

LEMMA OnceFollows == IInv => AtMostOnce
  <1> SUFFICES ASSUME IInv, NEW c \in Callers, NEW d \in Callers, c # d, ActionId(c) # None,
                      ActionId(c) = ActionId(d), effects[c] # <<>>, effects[d] # <<>>
               PROVE  ActionId(c) \in forgotten
    BY DEF AtMostOnce
  <1>1. CacheInv
    BY DEF IInv
  <1>2. Known(c) /\ Known(d)
    BY <1>1 DEF CacheInv, Ran
  <1> QED
    BY <1>1, <1>2 DEF CacheInv, Known

LEMMA GuardFollows == IInv => FirstWriteGuarded
  <1> SUFFICES ASSUME IInv, NEW c \in Callers,
                      {i \in 1..Len(effects[c]) : RequireReady(effects[c][i].op)} # {},
                      call[c].req.expect
               PROVE  effects[c][Least({i \in 1..Len(effects[c]) : RequireReady(effects[c][i].op)})].seen = 0
    BY DEF FirstWriteGuarded
  <1> DEFINE writes == {i \in 1..Len(effects[c]) : RequireReady(effects[c][i].op)}
             m == Least(writes)
  <1>1. effects[c] \in Seq(Deeds) /\ WriteFits(call[c], effects[c])
    BY DEF IInv, TypeInv, DeedsInv
  <1>2. writes \in SUBSET Nat /\ writes # {} /\ Len(effects[c]) \in Nat
    BY <1>1
  <1>3. m \in writes /\ \A k \in writes : m <= k
    BY <1>2, LeastIs
  <1>4. m \in 1..Len(effects[c]) /\ RequireReady(effects[c][m].op)
    BY <1>3
  <1>5. effects[c][m].seen = 0 \/ \E j \in 1..(m - 1) : RequireReady(effects[c][j].op)
    BY <1>1, <1>4 DEF WriteFits
  <1>6. ASSUME NEW j \in 1..(m - 1), RequireReady(effects[c][j].op)
        PROVE  FALSE
    <2>1. j \in 1..Len(effects[c]) /\ ~(m <= j)
      BY <1>2, <1>4
    <2>2. j \in writes
      BY <1>6, <2>1
    <2> QED
      BY <1>3, <2>1, <2>2
  <1> QED
    BY <1>5, <1>6

\* A call acts on the page at most once, unless its id was forgotten meanwhile, and
\* the first write of a call that named a revision meets it, however long it
\* waited: runIdempotentWrite, assertExpectedPageRevision and the executor's
\* preconditions, for every number of callers, every workflow and every queue.
THEOREM WritesAreGuarded == Spec => []WritesGuarded
  <1>1. IInv => WritesGuarded
    BY TypeFollows, OnceFollows, GuardFollows DEF WritesGuarded
  <1> QED
    BY <1>1, Invariance, PTL

\* The reports of a workflow tell what happened to the page, whatever the deadline
\* left in the queue: runUncached, withDeadline and boundResult.
THEOREM ResultsAreTruthful == Spec => []ResultTruthful
  <1>1. IInv => ResultTruthful
    <2> SUFFICES ASSUME IInv, NEW c \in Callers, IsWorkflow(c)
                 PROVE
          LET r == call[c]
              good == {k \in 1..Len(r.reports) : r.reports[k] = "success"}
              done == [i \in 1..Len(effects[c]) |-> <<effects[c][i].step, effects[c][i].sub>>]
              acted == {done[i] : i \in {j \in DOMAIN done : done[j][1] > 0}}
          IN  /\ \A i, j \in DOMAIN done : done[i] = done[j] => i = j
              /\ \A a \in acted : 1..(a[1] - 1) \subseteq good /\ Meaning(r.req.steps[a[1]])
              /\ \A k \in good : \A v \in 1..Calls(r.req.steps[k]) : <<k, v>> \in acted
              /\ r.pc = "done" /\ r.result.ok /\ r.of = None => good = 1..Len(r.req.steps)
              /\ r.pc = "done" => r.result.steps + r.result.details <= r.req.room
      BY DEF ResultTruthful
    <2> DEFINE r == call[c]
               s == effects[c]
               good == {k \in 1..Len(r.reports) : r.reports[k] = "success"}
               done == [i \in 1..Len(s) |-> <<s[i].step, s[i].sub>>]
               acted == {done[i] : i \in {j \in DOMAIN done : done[j][1] > 0}}
    <2>1. /\ r \in CallRecords /\ Sound(r) /\ s \in Seq(Deeds) /\ ClaimsFit(r, s) /\ DoneOnce(s)
          /\ r.req.kind = "workflow" /\ \A i \in 1..Len(s) : DeedFits(r, s[i])
      BY DEF IInv, TypeInv, CallersInv, DeedsInv, IsWorkflow
    <2>2. /\ r.reports \in Seq({"success", "error"}) /\ r.req \in Asked /\ r.at \in Nat
          /\ Len(r.req.steps) \in Nat /\ r.at >= 1 /\ Len(r.reports) \in Nat
      <3>1. r.reports \in Seq({"success", "error"}) /\ r.req \in Asked /\ r.at \in Nat
        BY <2>1 DEF CallRecords
      <3>2. Len(r.req.steps) \in Nat
        BY <3>1, AskedTyped
      <3> QED
        BY <2>1, <3>1, <3>2 DEF Sound
    <2>3. \A i \in 1..Len(s) : s[i].step \in Nat /\ s[i].sub \in Nat
      <3>1. \A i \in 1..Len(s) : s[i] \in Deeds
        BY <2>1
      <3> QED
        BY <3>1 DEF Deeds
    <2>4. DOMAIN done = 1..Len(s) /\ \A i \in 1..Len(s) : done[i] = <<s[i].step, s[i].sub>>
      OBVIOUS
    <2> HIDE DEF r, s, done
    <2>5. ASSUME NEW i \in DOMAIN done, NEW j \in DOMAIN done, done[i] = done[j]
          PROVE  i = j
      BY <2>1, <2>4, <2>5 DEF DoneOnce
    <2>6. ASSUME NEW a \in acted
          PROVE  1..(a[1] - 1) \subseteq good /\ Meaning(r.req.steps[a[1]])
      <3>1. PICK i \in 1..Len(s) : a = done[i] /\ a[1] = s[i].step /\ s[i].step > 0
        BY <2>4
      <3>2. DeedFits(r, s[i]) /\ s[i].step \in Nat
        BY <2>1, <2>3
      <3>3. /\ ValidWorkflow(r.req.steps, r.req.stopOn) /\ s[i].step \in 1..Len(r.req.steps)
            /\ s[i].step <= r.at
        BY <2>1, <2>2, <3>1, <3>2 DEF DeedFits
      <3>4. ValidStep(r.req.steps[s[i].step])
        BY <3>3 DEF ValidWorkflow
      <3>5. \A k \in 1..(s[i].step - 1) : k \in 1..(r.at - 1)
        BY <2>2, <3>2, <3>3
      <3>6. \A k \in 1..(r.at - 1) : k \in 1..Len(r.reports) /\ r.reports[k] = "success"
        BY <2>1, <2>2 DEF Sound
      <3> QED
        BY <3>1, <3>4, <3>5, <3>6, AcceptedMeans
    <2>7. ASSUME NEW k \in good, NEW v \in 1..Calls(r.req.steps[k])
          PROVE  <<k, v>> \in acted
      <3>1. Done(s, k, v)
        BY <2>1, <2>7 DEF ClaimsFit
      <3>2. PICK i \in 1..Len(s) : s[i].step = k /\ s[i].sub = v
        BY <3>1 DEF Done
      <3>3. done[i] = <<k, v>> /\ done[i][1] > 0
        BY <2>2, <2>4, <3>2
      <3> QED
        BY <2>4, <3>3
    <2>8. ASSUME r.pc = "done", r.result.ok, r.of = None
          PROVE  good = 1..Len(r.req.steps)
      BY <2>1, <2>8 DEF Sound
    <2>9. r.pc = "done" => r.result.steps + r.result.details <= r.req.room
      BY <2>1 DEF Sound
    <2> QED
      BY <2>5, <2>6, <2>7, <2>8, <2>9 DEF r, s, done
  <1> QED
    BY <1>1, Invariance, PTL

-----------------------------------------------------------------------------
(* Nobody acts in the middle of a workflow *)

\* A workflow that is under way holds the session.
Holders == \A c \in Callers : IsWorkflow(c) /\ call[c].pc \in Live => token = c

\* A task its workflow has stopped waiting for will not begin.
Gone(r, t) ==
    r.req.kind = "workflow" =>
        /\ r.pc \in {"stopped", "observe", "done"} /\ t.step > 0 => t.aborted
        /\ r.pc = "done" => t.aborted
GivenUp == \A i \in 1..Len(queue) : Gone(call[queue[i].call], queue[i])

Acted(c) == \E i \in 1..Len(acts) : acts[i] = c

\* Who has acted has been under way.
Started == \A c \in Callers : IsWorkflow(c) /\ Acted(c) => call[c].pc \in Live \cup {"done"}

\* While a task runs, no other workflow is between two deeds of its own.
Turns ==
    running # "none" =>
        \A c \in Callers : IsWorkflow(c) /\ c # queue[1].call /\ Acted(c) => call[c].pc = "done"

\* A workflow was the last to act, or will not act again.
Lasting ==
    \A c \in Callers : IsWorkflow(c) /\ Acted(c) =>
        \/ acts[Len(acts)] = c
        \/ call[c].pc = "done" /\ (running # "none" => queue[1].call # c)

Alone == Holders /\ GivenUp /\ Started /\ Turns /\ Lasting /\ Uninterrupted

\* A call only goes on.
GoesOn ==
    \A c \in Callers : /\ call'[c].req = call[c].req
                       /\ call[c].pc = "done" => call'[c].pc = "done"
                       /\ call[c].pc \in Live => call'[c].pc \in Live \cup {"done"}

\* Nobody begins and nobody acts.
LEMMA QuietAlone ==
  ASSUME Alone, acts \in Seq(Callers), acts' = acts, GoesOn, Holders', GivenUp',
         running' # "none" => running # "none" /\ queue'[1].call = queue[1].call
  PROVE  Alone'
  <1>1. Started' /\ Turns' /\ Lasting'
    BY DEF Alone, Started, Turns, Lasting, Acted, GoesOn, IsWorkflow
  <1>2. \A i \in 1..Len(acts) : acts[i] \in Callers
    OBVIOUS
  <1>3. Uninterrupted'
    BY <1>2 DEF Alone, Uninterrupted, GoesOn, IsWorkflow
  <1> QED
    BY <1>1, <1>3 DEF Alone

\* One call takes a step.
LEMMA OneCall ==
  ASSUME call \in [Callers -> CallRecords], Holders, NEW c \in Callers, NEW l,
         call' = [call EXCEPT ![c] = l],
         l.req = call[c].req, call[c].pc = "done" => l.pc = "done",
         call[c].pc \in Live => l.pc \in Live \cup {"done"},
         IsWorkflow(c) /\ l.pc \in Live => token' = c,
         \A d \in Callers : d # c /\ token = d => token' = d
  PROVE  GoesOn /\ Holders' /\ call'[c] = l /\ \A d \in Callers : d # c => call'[d] = call[d]
  <1>1. call'[c] = l /\ \A d \in Callers : d # c => call'[d] = call[d]
    OBVIOUS
  <1>2. \A d \in Callers : d # c /\ IsWorkflow(d) /\ call[d].pc \in Live => token' = d
    BY DEF Holders
  <1>3. GoesOn
    BY <1>1 DEF GoesOn
  <1>4. \A d \in Callers : call'[d].req = call[d].req
    BY <1>1
  <1>5. Holders'
    BY <1>1, <1>2, <1>4 DEF Holders, IsWorkflow
  <1> QED
    BY <1>1, <1>3, <1>5

LEMMA ReleaseIs ==
  ASSUME Holders, NEW c \in Callers, NEW l, Release(c, l),
         IsWorkflow(c) /\ l.pc \in Live => call[c].pc \in Live
  PROVE  /\ IsWorkflow(c) /\ l.pc \in Live => token' = c
         /\ \A d \in Callers : d # c /\ token = d => token' = d
  <1>1. "done" \notin Live
    BY DEF Live, Looping
  <1> QED
    BY <1>1 DEF Holders, Release

\* A workflow at these places has no task in the queue.
LEMMA NoTask ==
  ASSUME IInv, NEW c \in Callers, call[c].pc \in Early \cup {"after"}
  PROVE  \A i \in 1..Len(queue) : queue[i].call # c
  <1>1. ASSUME NEW i \in 1..Len(queue), queue[i].call = c
        PROVE  FALSE
    <2>1. TaskFits(call[c], queue[i]) /\ queue[i].step \in Nat
      <3>1. queue \in Seq(Tasks)
        BY DEF IInv, TypeInv
      <3> QED
        BY <1>1, <3>1, TaskTyped DEF IInv, TasksInv
    <2>2. queue[i].step = 0 \/ queue[i].step > 0
      BY <2>1
    <2> QED
      BY <2>1, <2>2 DEF TaskFits, Early
  <1> QED
    BY <1>1

\* The tasks left in the queue were there, none less aborted; those of caller c
\* are given up if its call has stopped.
LEMMA GivenUpKept ==
  ASSUME IInv, GivenUp, NEW c \in Callers, \A d \in Callers : d # c => call'[d] = call[d],
         \A i \in 1..Len(queue') :
            \/ queue'[i].call = c /\ Gone(call'[c], queue'[i])
            \/ \E j \in 1..Len(queue) : /\ queue'[i].call = queue[j].call /\ queue[j].call # c
                                        /\ queue'[i].step = queue[j].step
                                        /\ queue[j].aborted => queue'[i].aborted
  PROVE  GivenUp'
  <1>1. queue \in Seq(Tasks)
    BY DEF IInv, TypeInv
  <1>2. \A j \in 1..Len(queue) : queue[j].call \in Callers
    BY <1>1, TaskTyped
  <1>3. ASSUME NEW i \in 1..Len(queue')
        PROVE  Gone(call'[queue'[i].call], queue'[i])
    <2>1. CASE queue'[i].call = c /\ Gone(call'[c], queue'[i])
      BY <2>1
    <2>2. ASSUME NEW j \in 1..Len(queue), queue'[i].call = queue[j].call, queue[j].call # c,
                 queue'[i].step = queue[j].step, queue[j].aborted => queue'[i].aborted
          PROVE  Gone(call'[queue'[i].call], queue'[i])
      <3>1. Gone(call[queue[j].call], queue[j])
        BY DEF GivenUp
      <3>2. call'[queue'[i].call] = call[queue[j].call]
        BY <1>2, <2>2
      <3> QED
        BY <2>2, <3>1, <3>2 DEF Gone
    <2> QED
      BY <2>1, <2>2
  <1> QED
    BY <1>3 DEF GivenUp

\* The same, when the queue and the calls that wait are as before.
LEMMA SameQueueGone ==
  ASSUME IInv, GivenUp, NEW c \in Callers, \A d \in Callers : d # c => call'[d] = call[d],
         queue' = queue,
         \A i \in 1..Len(queue) : queue[i].call = c => Gone(call'[c], queue[i])
  PROVE  GivenUp'
  <1>1. \A i \in 1..Len(queue') :
            \/ queue'[i].call = c /\ Gone(call'[c], queue'[i])
            \/ \E j \in 1..Len(queue) : /\ queue'[i].call = queue[j].call /\ queue[j].call # c
                                        /\ queue'[i].step = queue[j].step
                                        /\ queue[j].aborted => queue'[i].aborted
    OBVIOUS
  <1> QED
    BY <1>1, GivenUpKept

LEMMA ContinuesAlone ==
  ASSUME IInv, Alone, NEW c \in Callers, NEW l, Continues(c, l),
         l.req = call[c].req, l.pc \in Live \cup {"done"}, call[c].pc \in {"init", "next", "after", "value"}
  PROVE  Alone'
  <1>1. /\ call \in [Callers -> CallRecords] /\ acts \in Seq(Callers) /\ Holders /\ GivenUp
        /\ call' = [call EXCEPT ![c] = l] /\ Release(c, l) /\ queue' = queue /\ running' = running
        /\ acts' = acts
    BY DEF IInv, TypeInv, Alone, Continues
  <1>2. call[c].pc \in Live /\ call[c].pc # "done" /\ call[c].pc \in Early \cup {"after"}
    BY DEF Live, Looping, Early
  <1>3. /\ IsWorkflow(c) /\ l.pc \in Live => token' = c
        /\ \A d \in Callers : d # c /\ token = d => token' = d
    BY <1>1, <1>2, ReleaseIs
  <1>4. GoesOn /\ Holders' /\ call'[c] = l /\ \A d \in Callers : d # c => call'[d] = call[d]
    BY <1>1, <1>2, <1>3, OneCall
  <1>5. GivenUp'
    BY <1>1, <1>2, <1>4, NoTask, SameQueueGone
  <1> QED
    BY <1>1, <1>4, <1>5, QuietAlone

LEMMA LeftPlace ==
  ASSUME NEW r \in CallRecords, NEW stop, NEW reports
  PROVE  Left(r, stop, reports).pc \in {"stopped", "done"} /\ Left(r, stop, reports).req = r.req
  <1> DEFINE left == [r EXCEPT !.stop = stop, !.reports = reports, !.before = None]
  <1>1. left.req = r.req /\ [left EXCEPT !.pc = "stopped"].req = r.req
        /\ [left EXCEPT !.pc = "stopped"].pc = "stopped"
    BY DEF CallRecords
  <1>2. \A x : Settled(left, x).pc = "done" /\ Settled(left, x).req = r.req
    BY DEF Settled, CallRecords
  <1> HIDE DEF left
  <1> QED
    BY <1>1, <1>2 DEF Left, left

\* A step that does not complete its workflow leaves it stopped.
LEMMA StoppedPlace ==
  ASSUME NEW r \in CallRecords, NEW code, NEW reports
  PROVE  /\ FailedStep(r, code).pc = "stopped" /\ FailedStep(r, code).req = r.req
         /\ \A stop : stop # "completed" => Left(r, stop, reports).pc = "stopped"
  <1>1. ASSUME NEW stop, stop # "completed", NEW x
        PROVE  Left(r, stop, x).pc = "stopped" /\ Left(r, stop, x).req = r.req
    <2>1. Left(r, stop, x) = [[r EXCEPT !.stop = stop, !.reports = x, !.before = None] EXCEPT !.pc = "stopped"]
      BY <1>1 DEF Left
    <2> QED
      BY <2>1 DEF CallRecords
  <1>2. FailureReason(code) # "completed"
    BY DEF FailureReason
  <1> QED
    BY <1>1, <1>2 DEF FailedStep

LEMMA ReadInitialStatusAlone ==
  ASSUME IInv, Alone, NEW c \in Callers, ReadInitialStatus(c)
  PROVE  Alone'
  <1> DEFINE r == call[c]
  <1>1. r \in CallRecords /\ r.pc = "init"
    BY DEF IInv, TypeInv, ReadInitialStatus
  <1> DEFINE next(s) == IF s = None THEN [r EXCEPT !.pc = "next"]
                        ELSE IF r.req.expect /\ s.rev # 0
                        THEN Left(r, "revision_mismatch", <<>>)
                        ELSE IF s.challenge THEN Left(r, "challenge", <<>>)
                        ELSE [r EXCEPT !.pc = "next", !.before = s]
  <1>4. PICK s \in Statuses : Continues(c, next(s))
    BY DEF ReadInitialStatus
  <1>2. PICK l : Continues(c, l) /\ l = next(s)
    BY <1>4
  <1>3. \A x : /\ [r EXCEPT !.pc = "next"].pc = "next" /\ [r EXCEPT !.pc = "next"].req = r.req
               /\ [r EXCEPT !.pc = "next", !.before = x].pc = "next"
               /\ [r EXCEPT !.pc = "next", !.before = x].req = r.req
    BY <1>1 DEF CallRecords
  <1> HIDE DEF r
  <1>5. l.req = r.req /\ l.pc \in {"next", "stopped", "done"}
    BY <1>1, <1>2, <1>3, LeftPlace
  <1> QED
    BY <1>1, <1>2, <1>5, ContinuesAlone DEF r, Live, Looping

LEMMA InvokeAlone ==
  ASSUME IInv, Alone, NEW c \in Callers, call[c].pc \in {"next", "value"}, Invoke(c)
  PROVE  Alone'
  <1> DEFINE r == call[c]
             op == Step(c).op
             code == EnqueueVerdict(c, op, queue)
             t == Task(c, r.at, r.sub, op, Guarded(c))
             x == IF code = "ok" THEN [r EXCEPT !.pc = "await"] ELSE FailedStep(r, code)
  <1>1. /\ call \in [Callers -> CallRecords] /\ acts \in Seq(Callers) /\ Holders /\ GivenUp
        /\ queue \in Seq(Tasks) /\ (running # "none" => queue # <<>>)
    BY DEF IInv, TypeInv, Alone
  <1>2. PICK l : l = x
    OBVIOUS
  <1>3. /\ call' = [call EXCEPT ![c] = l] /\ Release(c, l) /\ running' = running /\ acts' = acts
        /\ queue' = IF code = "ok" THEN Append(queue, t) ELSE queue
    BY <1>2 DEF Invoke
  <1>4. r \in CallRecords
    BY <1>1
  <1>5. l.req = r.req /\ l.pc \in {"await", "stopped"}
    BY <1>2, <1>4, StoppedPlace DEF CallRecords
  <1>6. t.call = c /\ t.step = r.at /\ t.aborted = FALSE
    BY DEF Task
  <1> HIDE DEF t, x, code
  <1>7. r.pc \in Live /\ r.pc # "done" /\ r.pc \in Early \cup {"after"} /\ l.pc \in Live
    BY <1>5 DEF Live, Looping, Early
  <1>8. /\ IsWorkflow(c) /\ l.pc \in Live => token' = c
        /\ \A d \in Callers : d # c /\ token = d => token' = d
    BY <1>1, <1>3, <1>7, ReleaseIs
  <1>9. GoesOn /\ Holders' /\ call'[c] = l /\ \A d \in Callers : d # c => call'[d] = call[d]
    BY <1>1, <1>3, <1>5, <1>7, <1>8, OneCall
  <1>10. \A i \in 1..Len(queue) : queue[i].call # c
    BY <1>7, NoTask
  <1>11. GivenUp'
    <2>1. CASE code = "ok"
      <3>1. l.pc = "await"
        BY <1>2, <1>4, <2>1 DEF x, CallRecords
      <3>2. Gone(l, t)
        BY <3>1 DEF Gone
      <3>3. /\ Len(queue') = Len(queue) + 1 /\ queue'[Len(queue) + 1] = t /\ Len(queue) \in Nat
            /\ \A i \in 1..Len(queue) : queue'[i] = queue[i]
        BY <1>1, <1>3, <2>1
      <3>4. \A i \in 1..Len(queue') : i \in 1..Len(queue) \/ i = Len(queue) + 1
        BY <3>3
      <3>5. \A i \in 1..Len(queue') :
            \/ queue'[i].call = c /\ Gone(call'[c], queue'[i])
            \/ \E j \in 1..Len(queue) : /\ queue'[i].call = queue[j].call /\ queue[j].call # c
                                        /\ queue'[i].step = queue[j].step
                                        /\ queue[j].aborted => queue'[i].aborted
        BY <1>6, <1>9, <1>10, <3>2, <3>3, <3>4
      <3> QED
        BY <1>1, <1>9, <3>5, GivenUpKept
    <2>2. CASE code # "ok"
      BY <1>1, <1>3, <1>9, <1>10, <2>2, SameQueueGone
    <2> QED
      BY <2>1, <2>2
  <1>12. running # "none" => queue'[1] = queue[1]
    BY <1>1, <1>3
  <1> QED
    BY <1>1, <1>3, <1>9, <1>11, <1>12, QuietAlone

LEMMA NextStepAlone ==
  ASSUME IInv, Alone, NEW c \in Callers, NextStep(c)
  PROVE  Alone'
  <1>1. call[c] \in CallRecords /\ call[c].pc = "next"
    BY DEF IInv, TypeInv, NextStep
  <1>2. ASSUME NEW stop, Continues(c, Left(call[c], stop, call[c].reports))
        PROVE  Alone'
    <2>1. PICK l : l = Left(call[c], stop, call[c].reports)
      OBVIOUS
    <2>2. l.pc \in Live \cup {"done"} /\ l.req = call[c].req
      BY <1>1, <2>1, LeftPlace DEF Live
    <2> QED
      BY <1>1, <1>2, <2>1, <2>2, ContinuesAlone
  <1> QED
    BY <1>1, <1>2, InvokeAlone DEF NextStep

LEMMA StepDoneAlone ==
  ASSUME IInv, Alone, NEW c \in Callers, StepDone(c)
  PROVE  Alone'
  <1> DEFINE r == call[c]
             reports == Append(r.reports, "success")
             more(s) == [r EXCEPT !.pc = "next", !.at = @ + 1, !.sub = 1, !.reports = reports,
                                  !.before = IF s = None THEN @ ELSE s]
             next(s) == IF StopReason(r.before, s, r.req.stopOn) # "none"
                        THEN Left(r, StopReason(r.before, s, r.req.stopOn), reports)
                        ELSE IF "navigation" \in r.req.stopOn /\ Navigated(r.before, s, r.raw)
                        THEN Left(r, "navigation", reports)
                        ELSE more(s)
  <1>1. r \in CallRecords /\ r.pc = "after"
    BY DEF IInv, TypeInv, StepDone
  <1>2. PICK s \in Statuses : Continues(c, next(s))
    BY DEF StepDone
  <1>3. PICK l : l = next(s)
    OBVIOUS
  <1>4. more(s).pc = "next" /\ more(s).req = r.req
    BY <1>1 DEF CallRecords
  <1> HIDE DEF more
  <1>5. l.req = r.req /\ l.pc \in {"next", "stopped", "done"}
    BY <1>1, <1>3, <1>4, LeftPlace
  <1> QED
    BY <1>1, <1>2, <1>3, <1>5, ContinuesAlone DEF Live, Looping

LEMMA ObserveAlone ==
  ASSUME IInv, Alone, NEW c \in Callers, Observe(c)
  PROVE  Alone'
  <1> DEFINE r == call[c]
             code == EnqueueVerdict(c, "snapshot", queue)
             t == Task(c, 0, 1, "snapshot", FALSE)
             x == IF code = "ok" THEN [r EXCEPT !.pc = "observe"] ELSE Settled(r, Report(r, FALSE))
  <1>1. /\ call \in [Callers -> CallRecords] /\ acts \in Seq(Callers) /\ Holders /\ GivenUp
        /\ queue \in Seq(Tasks) /\ (running # "none" => queue # <<>>) /\ r.pc = "stopped"
    BY DEF IInv, TypeInv, Alone, Observe
  <1>2. PICK l : l = x
    OBVIOUS
  <1>3. /\ call' = [call EXCEPT ![c] = l] /\ Release(c, l) /\ running' = running /\ acts' = acts
        /\ queue' = IF code = "ok" THEN Append(queue, t) ELSE queue
    BY <1>2 DEF Observe
  <1>4. r \in CallRecords
    BY <1>1
  <1>5. l.req = r.req /\ (code = "ok" => l.pc = "observe") /\ l.pc \in {"observe", "done"}
    BY <1>2, <1>4 DEF CallRecords, Settled
  <1>6. t.call = c /\ t.step = 0
    BY DEF Task
  <1> HIDE DEF t, x, code
  <1>7. r.pc \in Live /\ r.pc # "done" /\ l.pc \in Live \cup {"done"}
    BY <1>1, <1>5 DEF Live
  <1>8. /\ IsWorkflow(c) /\ l.pc \in Live => token' = c
        /\ \A d \in Callers : d # c /\ token = d => token' = d
    BY <1>1, <1>3, <1>7, ReleaseIs
  <1>9. GoesOn /\ Holders' /\ call'[c] = l /\ \A d \in Callers : d # c => call'[d] = call[d]
    BY <1>1, <1>3, <1>5, <1>7, <1>8, OneCall
  <1>10. ASSUME NEW i \in 1..Len(queue), queue[i].call = c
         PROVE  Gone(l, queue[i])
    <2>1. Gone(r, queue[i]) /\ TaskFits(r, queue[i]) /\ queue[i].step \in Nat
      BY <1>1, <1>10, TaskTyped DEF GivenUp, IInv, TasksInv
    <2>2. r.req.kind = "workflow" => queue[i].aborted
      BY <1>1, <2>1 DEF TaskFits, Gone
    <2> QED
      BY <1>5, <2>2 DEF Gone
  <1>11. GivenUp'
    <2>1. CASE code = "ok"
      <3>1. Gone(l, t)
        BY <1>5, <1>6, <2>1 DEF Gone
      <3>2. /\ Len(queue') = Len(queue) + 1 /\ queue'[Len(queue) + 1] = t /\ Len(queue) \in Nat
            /\ \A i \in 1..Len(queue) : queue'[i] = queue[i]
        BY <1>1, <1>3, <2>1
      <3>3. \A i \in 1..Len(queue') : i \in 1..Len(queue) \/ i = Len(queue) + 1
        BY <3>2
      <3>4. \A i \in 1..Len(queue') :
            \/ queue'[i].call = c /\ Gone(call'[c], queue'[i])
            \/ \E j \in 1..Len(queue) : /\ queue'[i].call = queue[j].call /\ queue[j].call # c
                                        /\ queue'[i].step = queue[j].step
                                        /\ queue[j].aborted => queue'[i].aborted
        BY <1>6, <1>9, <1>10, <3>1, <3>2, <3>3
      <3> QED
        BY <1>1, <1>9, <3>4, GivenUpKept
    <2>2. CASE code # "ok"
      BY <1>1, <1>3, <1>9, <1>10, <2>2, SameQueueGone
    <2> QED
      BY <2>1, <2>2
  <1>12. running # "none" => queue'[1] = queue[1]
    BY <1>1, <1>3
  <1> QED
    BY <1>1, <1>3, <1>9, <1>11, <1>12, QuietAlone

LEMMA SharedAnswerAlone ==
  ASSUME IInv, Alone, NEW c \in Callers, SharedAnswer(c)
  PROVE  Alone'
  <1>1. /\ call \in [Callers -> CallRecords] /\ acts \in Seq(Callers) /\ Holders /\ GivenUp
        /\ call[c].pc = "shared" /\ running' = running /\ acts' = acts /\ queue' = queue /\ token' = token
    BY DEF IInv, TypeInv, Alone, SharedAnswer
  <1>2. PICK l : l = Settled(call[c], call[call[c].of].result)
    OBVIOUS
  <1>3. call' = [call EXCEPT ![c] = l] /\ l.pc = "done" /\ l.req = call[c].req
    <2>1. call[c] \in CallRecords
      BY <1>1
    <2> QED
      BY <1>2, <2>1 DEF SharedAnswer, Settled, CallRecords
  <1>4. l.pc \notin Live /\ call[c].pc \notin Live /\ call[c].pc \in Early \cup {"after"}
    BY <1>1, <1>3 DEF Live, Looping, Early
  <1>5. GoesOn /\ Holders' /\ call'[c] = l /\ \A d \in Callers : d # c => call'[d] = call[d]
    BY <1>1, <1>3, <1>4, OneCall
  <1>6. GivenUp'
    BY <1>1, <1>4, <1>5, NoTask, SameQueueGone
  <1> QED
    BY <1>1, <1>5, <1>6, QuietAlone

\* The signal of the tasks of one call is raised and the call goes on.
LEMMA SignalAlone ==
  ASSUME IInv, Alone, NEW c \in Callers, NEW l, call' = [call EXCEPT ![c] = l], Release(c, l),
         l.req = call[c].req, call[c].pc \in Live, l.pc \in Live \cup {"done"},
         running' = running, acts' = acts, Len(queue') = Len(queue),
         \A i \in 1..Len(queue) : /\ queue'[i].call = queue[i].call /\ queue'[i].step = queue[i].step
                                  /\ queue[i].aborted => queue'[i].aborted
                                  /\ queue[i].call = c => Gone(l, queue'[i])
  PROVE  Alone'
  <1>1. /\ call \in [Callers -> CallRecords] /\ acts \in Seq(Callers) /\ Holders /\ GivenUp
        /\ queue \in Seq(Tasks) /\ (running # "none" => queue # <<>>)
    BY DEF IInv, TypeInv, Alone
  <1>2. call[c].pc # "done"
    BY DEF Live, Looping
  <1>3. /\ IsWorkflow(c) /\ l.pc \in Live => token' = c
        /\ \A d \in Callers : d # c /\ token = d => token' = d
    BY <1>1, ReleaseIs
  <1>4. GoesOn /\ Holders' /\ call'[c] = l /\ \A d \in Callers : d # c => call'[d] = call[d]
    BY <1>1, <1>2, <1>3, OneCall
  <1>5. \A i \in 1..Len(queue') :
            \/ queue'[i].call = c /\ Gone(call'[c], queue'[i])
            \/ \E j \in 1..Len(queue) : /\ queue'[i].call = queue[j].call /\ queue[j].call # c
                                        /\ queue'[i].step = queue[j].step
                                        /\ queue[j].aborted => queue'[i].aborted
    BY <1>4
  <1>6. GivenUp'
    BY <1>1, <1>4, <1>5, GivenUpKept
  <1>7. running # "none" => 1 \in 1..Len(queue)
    BY <1>1
  <1> QED
    BY <1>1, <1>4, <1>6, <1>7, QuietAlone

LEMMA StepTimesOutAlone ==
  ASSUME IInv, Alone, NEW c \in Callers, StepTimesOut(c)
  PROVE  Alone'
  <1>1. /\ call[c] \in CallRecords /\ call[c].pc = "await" /\ queue \in Seq(Tasks)
        /\ running' = running /\ acts' = acts
    BY DEF IInv, TypeInv, StepTimesOut
  <1>2. PICK l : l = FailedStep(call[c], "WORKFLOW_TIMEOUT")
    OBVIOUS
  <1>3. /\ call' = [call EXCEPT ![c] = l] /\ Release(c, l)
        /\ queue' = [i \in 1..Len(queue) |->
                        IF queue[i].call = c THEN [queue[i] EXCEPT !.aborted = TRUE] ELSE queue[i]]
    BY <1>2 DEF StepTimesOut
  <1>4. l.pc = "stopped" /\ l.req = call[c].req
    BY <1>1, <1>2, StoppedPlace
  <1>5. Len(queue) \in Nat /\ \A i \in 1..Len(queue) : queue[i] \in Tasks
    BY <1>1
  <1>6. \A t \in Tasks : LET u == [t EXCEPT !.aborted = TRUE]
                         IN  u.call = t.call /\ u.step = t.step /\ u.aborted = TRUE
    BY DEF Tasks
  <1>7. ASSUME NEW i \in 1..Len(queue)
        PROVE  /\ queue'[i].call = queue[i].call /\ queue'[i].step = queue[i].step
               /\ queue[i].aborted => queue'[i].aborted
               /\ queue[i].call = c => Gone(l, queue'[i])
    BY <1>3, <1>5, <1>6 DEF Gone
  <1>8. call[c].pc \in Live /\ l.pc \in Live
    BY <1>1, <1>4 DEF Live, Looping
  <1>9. Len(queue') = Len(queue)
    BY <1>3, <1>5
  <1> QED
    BY <1>1, <1>3, <1>4, <1>7, <1>8, <1>9, SignalAlone

LEMMA ObserveTimesOutAlone ==
  ASSUME IInv, Alone, NEW c \in Callers, ObserveTimesOut(c)
  PROVE  Alone'
  <1>1. /\ call[c] \in CallRecords /\ call[c].pc = "observe" /\ queue \in Seq(Tasks) /\ GivenUp
        /\ running' = running /\ acts' = acts
    BY DEF IInv, TypeInv, ObserveTimesOut, Alone
  <1>2. PICK l : l = Settled(call[c], Report(call[c], FALSE))
    OBVIOUS
  <1>3. /\ call' = [call EXCEPT ![c] = l] /\ Release(c, l)
        /\ queue' = [i \in 1..Len(queue) |->
                        IF queue[i].call = c /\ queue[i].step = 0
                        THEN [queue[i] EXCEPT !.aborted = TRUE] ELSE queue[i]]
    BY <1>2 DEF ObserveTimesOut
  <1>4. l.pc = "done" /\ l.req = call[c].req
    BY <1>1, <1>2 DEF Settled, CallRecords
  <1>5. Len(queue) \in Nat /\ \A i \in 1..Len(queue) : queue[i] \in Tasks /\ queue[i].step \in Nat
    BY <1>1, TaskTyped
  <1>6. \A t \in Tasks : LET u == [t EXCEPT !.aborted = TRUE]
                         IN  u.call = t.call /\ u.step = t.step /\ u.aborted = TRUE
    BY DEF Tasks
  <1>7. ASSUME NEW i \in 1..Len(queue)
        PROVE  /\ queue'[i].call = queue[i].call /\ queue'[i].step = queue[i].step
               /\ queue[i].aborted => queue'[i].aborted
               /\ queue[i].call = c => Gone(l, queue'[i])
    <2>1. /\ queue'[i].call = queue[i].call /\ queue'[i].step = queue[i].step
          /\ queue[i].aborted => queue'[i].aborted
          /\ queue[i].call = c /\ queue[i].step = 0 => queue'[i].aborted
      BY <1>3, <1>5, <1>6
    <2>2. queue[i].call = c /\ call[c].req.kind = "workflow" /\ queue[i].step > 0 => queue[i].aborted
      BY <1>1 DEF GivenUp, Gone
    <2>3. queue[i].step = 0 \/ queue[i].step > 0
      BY <1>5
    <2> QED
      BY <1>4, <2>1, <2>2, <2>3 DEF Gone
  <1>8. call[c].pc \in Live
    BY <1>1 DEF Live
  <1>9. Len(queue') = Len(queue)
    BY <1>3, <1>5
  <1> QED
    BY <1>1, <1>3, <1>4, <1>7, <1>8, <1>9, SignalAlone

LEMMA DeliveredIs ==
  ASSUME NEW t \in Tasks, NEW code, NEW r, r = call[t.call], r \in CallRecords, NEW l, l = Delivered(t, code),
         r.pc \in {"await", "stopped", "observe", "done"}
  PROVE  /\ l.req = r.req /\ l.pc \in Live \cup {"done"} /\ (r.pc = "done" => l.pc = "done")
         /\ \/ l = r
            \/ r.pc = "await" /\ r.at = t.step /\ r.sub = t.sub
            \/ r.pc = "observe" /\ t.step = 0
  <1> DEFINE awaited == r.pc = "await" /\ r.at = t.step /\ r.sub = t.sub
  <1>1. \A x : Settled(r, x).req = r.req /\ Settled(r, x).pc = "done"
    BY DEF Settled, CallRecords
  <1>2. FailedStep(r, code).req = r.req /\ FailedStep(r, code).pc = "stopped"
    BY StoppedPlace
  <1>3. /\ [r EXCEPT !.pc = "value", !.sub = @ + 1].req = r.req
        /\ [r EXCEPT !.pc = "value", !.sub = @ + 1].pc = "value"
        /\ [r EXCEPT !.pc = "after", !.raw = rev].req = r.req
        /\ [r EXCEPT !.pc = "after", !.raw = rev].pc = "after"
    BY DEF CallRecords
  <1>4. CASE awaited
    <2>1. \/ l = Settled(r, IF code = "ok" THEN [Failure("ok") EXCEPT !.ok = TRUE] ELSE Failure(code))
          \/ l = FailedStep(r, code)
          \/ l = [r EXCEPT !.pc = "value", !.sub = @ + 1]
          \/ l = [r EXCEPT !.pc = "after", !.raw = rev]
      BY <1>4 DEF Delivered
    <2> DEFINE x == IF code = "ok" THEN [Failure("ok") EXCEPT !.ok = TRUE] ELSE Failure(code)
    <2>3. Settled(r, x).req = r.req /\ Settled(r, x).pc = "done"
      BY <1>1
    <2> HIDE DEF x
    <2>2. l.req = r.req /\ l.pc \in {"done", "stopped", "value", "after"}
      <3>1. CASE l = Settled(r, x)
        BY <2>3, <3>1
      <3>2. CASE l = FailedStep(r, code)
        BY <1>2, <3>2
      <3>3. CASE l = [r EXCEPT !.pc = "value", !.sub = @ + 1]
        BY <1>3, <3>3
      <3>4. CASE l = [r EXCEPT !.pc = "after", !.raw = rev]
        BY <1>3, <3>4
      <3> QED
        BY <2>1, <3>1, <3>2, <3>3, <3>4 DEF x
    <2> QED
      BY <1>4, <2>2 DEF Live, Looping
  <1>5. CASE ~awaited /\ r.pc = "observe" /\ t.step = 0
    <2>1. l = Settled(r, Report(r, FALSE))
      BY <1>5 DEF Delivered
    <2> QED
      BY <1>1, <1>5, <2>1
  <1>6. CASE ~awaited /\ ~(r.pc = "observe" /\ t.step = 0)
    <2>1. l = r
      BY <1>6 DEF Delivered
    <2> QED
      BY <2>1 DEF Live, Looping
  <1> QED
    BY <1>4, <1>5, <1>6

LEMMA SettlesAlone ==
  ASSUME IInv, Alone, queue # <<>>, NEW t \in Tasks, t = Head(queue), NEW code, TaskSettles(t, code),
         acts' = acts
  PROVE  Alone'
  <1>1. /\ call \in [Callers -> CallRecords] /\ acts \in Seq(Callers) /\ Holders /\ GivenUp
        /\ queue \in Seq(Tasks) /\ TasksInv
    BY DEF IInv, TypeInv, Alone
  <1>2. PICK c \in Callers : c = t.call
    BY DEF Tasks
  <1>3. PICK r \in CallRecords : r = call[c]
    BY <1>1
  <1>4. PICK l : l = Delivered(t, code)
    OBVIOUS
  <1>5. t = queue[1] /\ 1 \in 1..Len(queue) /\ Len(queue) \in Nat
    BY <1>1
  <1>6. TaskFits(r, t) /\ t.step \in Nat /\ r.pc \in {"await", "stopped", "observe", "done"}
    <2>1. TaskFits(r, t) /\ t.step \in Nat
      BY <1>1, <1>2, <1>3, <1>5 DEF TasksInv, Tasks
    <2>2. t.step = 0 \/ t.step > 0
      BY <2>1
    <2> QED
      BY <2>1, <2>2 DEF TaskFits
  <1>7. /\ l.req = r.req /\ l.pc \in Live \cup {"done"} /\ (r.pc = "done" => l.pc = "done")
        /\ \/ l = r
           \/ r.pc = "await" /\ r.at = t.step /\ r.sub = t.sub
           \/ r.pc = "observe" /\ t.step = 0
    BY <1>2, <1>3, <1>4, <1>6, DeliveredIs
  <1>8. /\ call' = [call EXCEPT ![c] = l] /\ Release(c, l) /\ running' = "none" /\ queue' = Tail(queue)
    BY <1>2, <1>4 DEF TaskSettles
  <1>9. r.pc \in Live \cup {"done"} /\ "done" \notin Live
    BY <1>6 DEF Live, Looping
  <1>10. /\ IsWorkflow(c) /\ l.pc \in Live => token' = c
         /\ \A d \in Callers : d # c /\ token = d => token' = d
    BY <1>1, <1>3, <1>7, <1>8, <1>9, ReleaseIs
  <1>11. GoesOn /\ Holders' /\ call'[c] = l /\ \A d \in Callers : d # c => call'[d] = call[d]
    BY <1>1, <1>3, <1>7, <1>8, <1>10, OneCall
  <1>12. ASSUME NEW j \in 1..Len(queue), j # 1, queue[j].call = c
         PROVE  Gone(l, queue[j])
    <2>1. Gone(r, queue[j]) /\ TaskFits(r, queue[j]) /\ queue[j].step \in Nat
      BY <1>1, <1>3, <1>12, TaskTyped DEF GivenUp, TasksInv
    <2>2. queue[j].step = 0 \/ queue[j].step > 0
      BY <2>1
    <2>3. ~(queue[j].step = t.step /\ queue[j].sub = t.sub)
      BY <1>1, <1>2, <1>5, <1>12 DEF TasksInv, SamePlace
    <2>4. CASE r.req.kind # "workflow"
      BY <1>7, <2>4 DEF Gone
    <2>5. CASE r.req.kind = "workflow" /\ r.pc = "await" /\ r.at = t.step /\ r.sub = t.sub
      BY <2>1, <2>2, <2>3, <2>5 DEF TaskFits
    <2>6. CASE r.req.kind = "workflow" /\ r.pc = "observe" /\ t.step = 0
      <3>1. queue[j].step > 0
        BY <1>6, <2>1, <2>2, <2>3, <2>6 DEF TaskFits
      <3>2. queue[j].aborted
        BY <2>1, <2>6, <3>1 DEF Gone
      <3> QED
        BY <3>2 DEF Gone
    <2>7. CASE l = r
      BY <2>1, <2>7
    <2> QED
      BY <1>7, <2>4, <2>5, <2>6, <2>7
  <1>13. \A i \in 1..Len(queue') : queue'[i] = queue[i + 1] /\ i + 1 \in 1..Len(queue) /\ i + 1 # 1
    BY <1>1, <1>5, <1>8
  <1>14. \A i \in 1..Len(queue') :
            \/ queue'[i].call = c /\ Gone(call'[c], queue'[i])
            \/ \E j \in 1..Len(queue) : /\ queue'[i].call = queue[j].call /\ queue[j].call # c
                                        /\ queue'[i].step = queue[j].step
                                        /\ queue[j].aborted => queue'[i].aborted
    BY <1>11, <1>12, <1>13
  <1>15. GivenUp'
    BY <1>1, <1>11, <1>14, GivenUpKept
  <1> QED
    BY <1>1, <1>8, <1>11, <1>15, QuietAlone

\* The calls and the reservation stay; signals may be raised.
LEMMA TasksAlone ==
  ASSUME IInv, Alone, call' = call, token' = token, acts' = acts, SamePlaces(queue, queue'),
         \A i \in 1..Len(queue) : queue[i].aborted => queue'[i].aborted,
         running' # "none" => running # "none"
  PROVE  Alone'
  <1>1. /\ acts \in Seq(Callers) /\ Holders /\ GivenUp /\ queue \in Seq(Tasks)
        /\ (running # "none" => queue # <<>>)
    BY DEF IInv, TypeInv, Alone
  <1>2. GoesOn /\ Holders'
    BY <1>1 DEF GoesOn, Holders, IsWorkflow
  <1>3. \A i \in 1..Len(queue') : /\ i \in 1..Len(queue)
                                  /\ queue'[i].call = queue[i].call /\ queue'[i].step = queue[i].step
    BY DEF SamePlaces
  <1>4. GivenUp'
    <2>1. ASSUME NEW i \in 1..Len(queue')
          PROVE  Gone(call'[queue'[i].call], queue'[i])
      <3>1. /\ Gone(call[queue[i].call], queue[i])
            /\ queue'[i].call = queue[i].call /\ queue'[i].step = queue[i].step
            /\ queue[i].aborted => queue'[i].aborted
        BY <1>1, <1>3 DEF GivenUp
      <3> QED
        BY <3>1 DEF Gone
    <2> QED
      BY <2>1 DEF GivenUp
  <1>5. running # "none" => 1 \in 1..Len(queue)
    BY <1>1
  <1>6. running' # "none" => running # "none" /\ queue'[1].call = queue[1].call
    BY <1>5 DEF SamePlaces
  <1> QED
    BY <1>1, <1>2, <1>4, <1>6, QuietAlone

\* The first task begins: its workflow, if it is one, holds the session and has
\* not returned, so nobody else is in the middle of one.
LEMMA TaskBeginsAlone ==
  ASSUME IInv, Alone, TaskBegins
  PROVE  Alone'
  <1>1. /\ queue # <<>> /\ running = "none" /\ queue \in Seq(Tasks) /\ acts \in Seq(Callers)
        /\ acts' = acts
    BY DEF IInv, TypeInv, TaskBegins
  <1>2. PICK t \in Tasks : t = Head(queue) /\ t = queue[1] /\ 1 \in 1..Len(queue)
    BY <1>1, HeadTyped
  <1>3. CASE StartVerdict(t) # "ok"
    <2>1. TaskSettles(t, Mapped(t, StartVerdict(t)))
      BY <1>2, <1>3 DEF TaskBegins
    <2> QED
      BY <1>1, <1>2, <2>1, SettlesAlone
  <1>4. CASE StartVerdict(t) = "ok"
    <2>1. ~t.aborted /\ token \in {None, t.call}
      BY <1>4 DEF StartVerdict
    <2>2. call' = call /\ token' = token /\ queue' = queue /\ running' = "begun"
      BY <1>2, <1>4 DEF TaskBegins
    <2>3. ASSUME NEW c \in Callers, IsWorkflow(c), Acted(c), c # t.call
          PROVE  call[c].pc = "done"
      <3>1. call[c].pc \in Live => token = c
        BY <2>3 DEF Alone, Holders
      <3>2. call[c].pc \in Live \cup {"done"}
        BY <2>3 DEF Alone, Started
      <3> QED
        BY <2>1, <2>3, <3>1, <3>2, WorkflowAssumption
    <2>4. IsWorkflow(t.call) => call[t.call].pc # "done"
      BY <1>2, <2>1 DEF Alone, GivenUp, Gone, IsWorkflow
    <2>5. Started' /\ Holders' /\ GivenUp' /\ Uninterrupted'
      BY <1>1, <2>2 DEF Alone, Started, Holders, GivenUp, Uninterrupted, Acted, IsWorkflow
    <2>6. Turns'
      BY <1>1, <1>2, <2>2, <2>3 DEF Turns, Acted, IsWorkflow
    <2>7. Lasting'
      <3>1. ASSUME NEW c \in Callers, IsWorkflow(c), Acted(c)
            PROVE  acts[Len(acts)] = c \/ (call[c].pc = "done" /\ queue[1].call # c)
        BY <1>1, <1>2, <2>4, <3>1 DEF Alone, Lasting
      <3> QED
        BY <1>1, <2>2, <3>1 DEF Lasting, Acted, IsWorkflow
    <2> QED
      BY <2>5, <2>6, <2>7 DEF Alone
  <1> QED
    BY <1>3, <1>4

LEMMA TaskChecksAlone ==
  ASSUME IInv, Alone, TaskChecks
  PROVE  Alone'
  <1>1. /\ queue # <<>> /\ running = "begun" /\ queue \in Seq(Tasks) /\ acts' = acts
    BY DEF IInv, TypeInv, TaskChecks
  <1>2. PICK t \in Tasks : t = Head(queue) /\ t = queue[1] /\ 1 \in 1..Len(queue)
    BY <1>1, HeadTyped
  <1> DEFINE paused == RequireReady(t.op) /\ state = "PAUSED_CHALLENGE"
  <1>3. CASE ~(~paused /\ GuardHolds(t))
    <2>1. PICK code : TaskSettles(t, code)
      BY <1>2, <1>3 DEF TaskChecks
    <2> QED
      BY <1>1, <1>2, <2>1, SettlesAlone
  <1>4. CASE ~paused /\ GuardHolds(t)
    <2>1. /\ running' = "checked" /\ queue' = [queue EXCEPT ![1].seen = rev]
          /\ call' = call /\ token' = token
      BY <1>2, <1>4 DEF TaskChecks
    <2>2. rev \in Nat
      BY WorkflowAssumption DEF IInv, TypeInv
    <2>3. PICK u : u = [t EXCEPT !.seen = rev]
      OBVIOUS
    <2>4. /\ u \in Tasks /\ u.call = t.call /\ u.step = t.step /\ u.sub = t.sub
          /\ u.op = t.op /\ u.guard = t.guard /\ u.aborted = t.aborted
      BY <2>2, <2>3 DEF Tasks
    <2>5. queue' = [queue EXCEPT ![1] = u]
      BY <1>2, <2>1, <2>3
    <2>6. /\ queue' \in Seq(Tasks) /\ Len(queue') = Len(queue)
          /\ \A i \in 1..Len(queue) : queue'[i] = IF i = 1 THEN u ELSE queue[i]
      BY <1>1, <1>2, <2>4, <2>5
    <2>7. SamePlaces(queue, queue') /\ \A i \in 1..Len(queue) : queue[i].aborted => queue'[i].aborted
      BY <1>2, <2>4, <2>6 DEF SamePlaces
    <2> QED
      BY <1>1, <2>1, <2>7, TasksAlone
  <1> QED
    BY <1>3, <1>4

LEMMA TaskEndsAlone ==
  ASSUME IInv, Alone, TaskFails \/ \E ok \in BOOLEAN : TaskReturns(ok)
  PROVE  Alone'
  <1>1. queue # <<>> /\ acts' = acts
    BY DEF IInv, TypeInv, TaskFails, TaskReturns
  <1>2. PICK t \in Tasks : t = Head(queue)
    BY <1>1, HeadTyped
  <1>3. PICK code : TaskSettles(t, code)
    BY <1>2 DEF TaskFails, TaskReturns
  <1> QED
    BY <1>1, <1>2, <1>3, SettlesAlone

\* The running task acts: its own workflow was the last to act, if it has acted at
\* all, and every other workflow that has acted has returned.
LEMMA TaskActsAlone ==
  ASSUME IInv, Alone, NEW opens \in BOOLEAN, TaskActs(opens)
  PROVE  Alone'
  <1>1. /\ queue # <<>> /\ running = "checked" /\ queue \in Seq(Tasks) /\ acts \in Seq(Callers)
        /\ call' = call /\ token' = token /\ queue' = queue /\ running' = "acted"
    BY DEF IInv, TypeInv, TaskActs
  <1>2. PICK t \in Tasks : t = Head(queue) /\ t = queue[1] /\ 1 \in 1..Len(queue)
    BY <1>1, HeadTyped
  <1>3. PICK c \in Callers : c = t.call
    BY DEF Tasks
  <1>4. acts' = Append(acts, c)
    BY <1>2, <1>3 DEF TaskActs
  <1>5. /\ Len(acts') = Len(acts) + 1 /\ Len(acts) \in Nat /\ acts'[Len(acts) + 1] = c
        /\ \A i \in 1..Len(acts) : acts'[i] = acts[i] /\ acts[i] \in Callers
    BY <1>1, <1>4
  <1>6. \A i \in 1..Len(acts') : i \in 1..Len(acts) \/ i = Len(acts) + 1
    BY <1>5
  <1>7. \A d \in Callers : Acted(d)' => Acted(d) \/ d = c
    BY <1>5, <1>6 DEF Acted
  <1>8. Holders' /\ GivenUp'
    BY <1>1 DEF Alone, Holders, GivenUp, IsWorkflow
  <1>9. ASSUME NEW d \in Callers, IsWorkflow(d), Acted(d), d # c
        PROVE  call[d].pc = "done"
    BY <1>1, <1>2, <1>3, <1>9 DEF Alone, Turns
  <1>10. IsWorkflow(c) => call[c].pc \in Live \cup {"done"}
    <2>1. TaskFits(call[c], t) /\ t.step \in Nat
      BY <1>2, <1>3 DEF IInv, TasksInv, Tasks
    <2>2. t.step = 0 \/ t.step > 0
      BY <2>1
    <2> QED
      BY <2>1, <2>2 DEF TaskFits, IsWorkflow, Live, Looping
  <1>11. Started'
    BY <1>1, <1>7, <1>10 DEF Alone, Started, IsWorkflow
  <1>12. Turns'
    BY <1>1, <1>2, <1>3, <1>7, <1>9 DEF Turns, IsWorkflow
  <1>13. Lasting'
    BY <1>1, <1>2, <1>3, <1>5, <1>7, <1>9 DEF Lasting, IsWorkflow
  <1>14. ASSUME NEW i \in 1..Len(acts'), NEW k \in 1..Len(acts'), NEW j \in i..k,
                IsWorkflow(acts'[i]), acts'[i] = acts'[k]
         PROVE  acts'[j] = acts'[i]
    <2>1. CASE k \in 1..Len(acts)
      <3>1. i \in 1..Len(acts) /\ j \in 1..Len(acts)
        BY <1>5, <1>6, <2>1
      <3> QED
        BY <1>5, <1>14, <2>1, <3>1 DEF Alone, Uninterrupted
    <2>2. CASE k = Len(acts) + 1 /\ i \in 1..Len(acts)
      <3>1. acts[i] = c /\ Acted(c) /\ IsWorkflow(c)
        BY <1>5, <1>14, <2>2 DEF Acted
      <3>2. acts[Len(acts)] = c
        BY <1>1, <1>2, <1>3, <3>1 DEF Alone, Lasting
      <3>3. CASE j = Len(acts) + 1
        BY <1>5, <1>14, <2>2, <3>3
      <3>4. CASE j # Len(acts) + 1
        <4>1. j \in i..Len(acts) /\ Len(acts) \in 1..Len(acts) /\ j \in 1..Len(acts)
          BY <1>5, <2>2, <3>4
        <4>2. acts[j] = acts[i]
          BY <2>2, <3>1, <3>2, <4>1 DEF Alone, Uninterrupted
        <4> QED
          BY <1>5, <2>2, <4>1, <4>2
      <3> QED
        BY <3>3, <3>4
    <2>3. CASE k = Len(acts) + 1 /\ i = Len(acts) + 1
      <3>1. j = i
        BY <1>5, <2>3
      <3> QED
        BY <3>1
    <2> QED
      BY <1>6, <2>1, <2>2, <2>3
  <1>15. Uninterrupted'
    BY <1>1, <1>14 DEF Uninterrupted, IsWorkflow
  <1> QED
    BY <1>8, <1>11, <1>12, <1>13, <1>15 DEF Alone

LEMMA PageAlone ==
  ASSUME IInv, Alone,
         \/ TaskTimesOut \/ Navigates \/ ChallengeFound \/ CacheExpires
         \/ \E type \in Types : Interrupt(type)
  PROVE  Alone'
  <1>1. queue \in Seq(Tasks) /\ (running # "none" => queue # <<>>)
    BY DEF IInv, TypeInv
  <1>2. /\ call' = call /\ token' = token /\ acts' = acts /\ running' = running
        /\ queue' \in {queue, AbortRunning}
    BY DEF TaskTimesOut, Navigates, ChallengeFound, CacheExpires, Interrupt
  <1>3. SamePlaces(queue, queue')
    BY <1>1, <1>2, AbortSame DEF SameTasks
  <1>4. \A i \in 1..Len(queue) : queue[i].aborted => queue'[i].aborted
    <2>1. CASE queue' = queue
      BY <2>1
    <2>2. CASE queue' = AbortRunning /\ running # "none"
      <3>1. queue' = [queue EXCEPT ![1] = [queue[1] EXCEPT !.aborted = TRUE]] /\ 1 \in 1..Len(queue)
        BY <1>1, <2>2 DEF AbortRunning
      <3>2. queue[1] \in Tasks
        BY <1>1, <3>1
      <3>3. [queue[1] EXCEPT !.aborted = TRUE].aborted = TRUE
        BY <3>2 DEF Tasks
      <3> QED
        BY <1>1, <3>1, <3>3
    <2> QED
      BY <1>2, <2>1, <2>2 DEF AbortRunning
  <1> QED
    BY <1>2, <1>3, <1>4, TasksAlone

\* A caller is answered at once, shares an answer, reserves the session that nobody
\* holds or puts its task behind the others.
LEMMA SubmittedAlone ==
  ASSUME IInv, Alone, NEW c \in Callers, call[c].pc = "idle", NEW l, call' = [call EXCEPT ![c] = l],
         l.req = call[c].req, acts' = acts, running' = running,
         \/ token' = token /\ queue' = queue /\ l.pc \in {"done", "shared"}
         \/ token = None /\ token' = c /\ queue' = queue
         \/ /\ token' = token /\ ~IsWorkflow(c)
            /\ \E t : t.call = c /\ queue' = Append(queue, t)
  PROVE  Alone'
  <1>1. /\ call \in [Callers -> CallRecords] /\ acts \in Seq(Callers) /\ Holders /\ GivenUp
        /\ queue \in Seq(Tasks) /\ (running # "none" => queue # <<>>) /\ Len(queue) \in Nat
    BY DEF IInv, TypeInv, Alone
  <1>2. call[c].pc \notin Live /\ call[c].pc # "done" /\ call[c].pc \in Early
        /\ "done" \notin Live /\ "shared" \notin Live
    BY DEF Live, Looping, Early
  <1>3. IsWorkflow(c) /\ l.pc \in Live => token' = c
    BY <1>2
  <1>4. \A d \in Callers : d # c /\ token = d => token' = d
    BY WorkflowAssumption
  <1>5. GoesOn /\ Holders' /\ call'[c] = l /\ \A d \in Callers : d # c => call'[d] = call[d]
    BY <1>1, <1>2, <1>3, <1>4, OneCall
  <1>6. \A i \in 1..Len(queue) : queue[i].call # c
    BY <1>2, NoTask
  <1>7. CASE queue' = queue
    <2>1. GivenUp'
      BY <1>1, <1>5, <1>6, <1>7, SameQueueGone
    <2> QED
      BY <1>1, <1>5, <1>7, <2>1, QuietAlone
  <1>8. ASSUME ~IsWorkflow(c), NEW t, t.call = c, queue' = Append(queue, t)
        PROVE  Alone'
    <2>1. /\ Len(queue') = Len(queue) + 1 /\ queue'[Len(queue) + 1] = t
          /\ \A i \in 1..Len(queue) : queue'[i] = queue[i]
      BY <1>1, <1>8
    <2>2. Gone(l, t)
      BY <1>8 DEF Gone, IsWorkflow
    <2>3. \A i \in 1..Len(queue') : i \in 1..Len(queue) \/ i = Len(queue) + 1
      BY <1>1, <2>1
    <2>4. \A i \in 1..Len(queue') :
            \/ queue'[i].call = c /\ Gone(call'[c], queue'[i])
            \/ \E j \in 1..Len(queue) : /\ queue'[i].call = queue[j].call /\ queue[j].call # c
                                        /\ queue'[i].step = queue[j].step
                                        /\ queue[j].aborted => queue'[i].aborted
      BY <1>5, <1>6, <1>8, <2>1, <2>2, <2>3
    <2>5. GivenUp'
      BY <1>1, <1>5, <2>4, GivenUpKept
    <2>6. running # "none" => queue'[1] = queue[1]
      BY <1>1, <2>1
    <2> QED
      BY <1>1, <1>5, <2>5, <2>6, QuietAlone
  <1> QED
    BY <1>7, <1>8

LEMMA SubmitAlone ==
  ASSUME IInv, Alone, NEW c \in Callers, Submit(c)
  PROVE  Alone'
  <1> DEFINE r == call[c]
             hits == IF r.req.id = None THEN {} ELSE Cached(r.req.id)
             owner == cache[Least(hits)].call
             failed(code) == Settled(r, Failure(code))
             shared == [r EXCEPT !.pc = "shared", !.of = owner]
  <1>1. /\ call \in [Callers -> CallRecords] /\ r \in CallRecords /\ r.pc = "idle"
        /\ running' = running /\ acts' = acts
    BY DEF IInv, TypeInv, Submit
  <1>2. /\ \A code : failed(code).pc = "done" /\ failed(code).req = r.req
        /\ shared.pc = "shared" /\ shared.req = r.req
        /\ \A place : [r EXCEPT !.pc = place].req = r.req
    BY <1>1 DEF Settled, CallRecords
  <1> HIDE DEF failed
  <1>3. ASSUME NEW code, call' = [call EXCEPT ![c] = failed(code)], token' = token, queue' = queue
        PROVE  Alone'
    BY <1>1, <1>2, <1>3, SubmittedAlone
  <1>4. ASSUME NEW code, Answer(c, code)
        PROVE  Alone'
    <2>1. call' = [call EXCEPT ![c] = failed(code)] /\ token' = token /\ queue' = queue
      BY <1>4 DEF Answer, failed
    <2> QED
      BY <1>3, <2>1
  <1>5. CASE state = "USER_CONTROLLED"
    BY <1>4, <1>5 DEF Submit
  <1>6. CASE state # "USER_CONTROLLED" /\ hits # {}
    <2>1. CASE Fingerprint(call[owner].req) # Fingerprint(r.req)
      BY <1>4, <1>6, <2>1 DEF Submit
    <2>2. CASE Fingerprint(call[owner].req) = Fingerprint(r.req)
      <3>1. /\ call' = [call EXCEPT ![c].pc = "shared", ![c].of = owner]
            /\ token' = token /\ queue' = queue
        BY <1>6, <2>2 DEF Submit
      <3>2. call' = [call EXCEPT ![c] = shared]
        BY <1>1, <3>1
      <3> HIDE DEF shared
      <3> QED
        BY <1>1, <1>2, <3>1, <3>2, SubmittedAlone
    <2> QED
      BY <2>1, <2>2
  <1>7. CASE state # "USER_CONTROLLED" /\ hits = {}
    <2>1. IF r.req.kind = "workflow" THEN ReserveSession(c) ELSE SubmitTask(c)
      BY <1>7 DEF Submit
    <2>2. CASE r.req.kind = "workflow"
      <3> DEFINE code == IF token # None THEN "SESSION_BUSY"
                         ELSE IF r.req.expect /\ rev # 0 THEN "PAGE_REVISION_MISMATCH"
                         ELSE IF ~ValidWorkflow(r.req.steps, r.req.stopOn) THEN "INVALID_ARGUMENT" ELSE "ok"
      <3>1. /\ token' = IF code = "ok" THEN c ELSE token
            /\ call' = [call EXCEPT ![c] = IF code = "ok" THEN [r EXCEPT !.pc = "init"] ELSE failed(code)]
            /\ queue' = queue
        BY <2>1, <2>2 DEF ReserveSession, failed
      <3>2. code = "ok" => token = None
        OBVIOUS
      <3> HIDE DEF code
      <3>3. CASE code = "ok"
        <4>1. PICK l : l = [r EXCEPT !.pc = "init"]
          OBVIOUS
        <4>2. l.req = r.req /\ call' = [call EXCEPT ![c] = l] /\ token' = c
          BY <1>2, <3>1, <3>3, <4>1
        <4> QED
          BY <1>1, <3>1, <3>2, <3>3, <4>2, SubmittedAlone
      <3> QED
        BY <1>3, <3>1, <3>3
    <2>3. CASE r.req.kind # "workflow"
      <3> DEFINE op == IF r.req.kind = "handoff" THEN "handoff" ELSE r.req.steps[1].op
                 code == IF op = "handoff" /\ state \notin {"READY", "PAUSED_CHALLENGE"}
                         THEN "TAKEOVER_UNAVAILABLE" ELSE EnqueueVerdict(c, op, queue)
                 t == Task(c, 1, 1, op, r.req.expect)
      <3>1. /\ queue' = IF code = "ok" THEN Append(queue, t) ELSE queue
            /\ call' = [call EXCEPT ![c] = IF code = "ok" THEN [r EXCEPT !.pc = "await"] ELSE failed(code)]
            /\ token' = token
        BY <2>1, <2>3 DEF SubmitTask, failed
      <3>2. t.call = c /\ ~IsWorkflow(c)
        BY <2>3 DEF Task, IsWorkflow
      <3> HIDE DEF code, t
      <3>3. CASE code = "ok"
        <4>1. PICK l : l = [r EXCEPT !.pc = "await"]
          OBVIOUS
        <4>2. l.req = r.req /\ call' = [call EXCEPT ![c] = l] /\ queue' = Append(queue, t)
          BY <1>2, <3>1, <3>3, <4>1
        <4>3. token' = token /\ ~IsWorkflow(c) /\ \E u : u.call = c /\ queue' = Append(queue, u)
          BY <3>1, <3>2, <4>2
        <4>4. l.req = r.req /\ call' = [call EXCEPT ![c] = l]
          BY <4>2
        <4> QED
          BY <1>1, <4>3, <4>4, SubmittedAlone
      <3> QED
        BY <1>3, <3>1, <3>3
    <2> QED
      BY <2>2, <2>3
  <1> QED
    BY <1>5, <1>6, <1>7

LEMMA AloneFromStart == Init => Alone
  <1> SUFFICES ASSUME Init PROVE Alone
    OBVIOUS
  <1>1. PICK batch \in Batches : call = [c \in Callers |-> Fresh(batch[c])]
    BY DEF Init
  <1>2. \A c \in Callers : call[c].pc = "idle"
    BY <1>1 DEF Fresh
  <1>3. acts = <<>> /\ queue = <<>> /\ running = "none"
    BY DEF Init
  <1> QED
    BY <1>2, <1>3 DEF Alone, Holders, GivenUp, Started, Turns, Lasting, Uninterrupted, Acted, Live, Looping

LEMMA AloneKept == IInv /\ Alone /\ [Next]_vars => Alone'
  <1> SUFFICES ASSUME IInv, Alone, [Next]_vars PROVE Alone'
    OBVIOUS
  <1>1. ASSUME NEW c \in Callers, Submit(c) \/ ExecutorStep(c) \/ Timer(c)
        PROVE  Alone'
    <2>1. CASE NextValue(c)
      BY <2>1, InvokeAlone DEF NextValue
    <2> QED
      BY <1>1, <2>1, SubmitAlone, ReadInitialStatusAlone, NextStepAlone, StepDoneAlone, ObserveAlone,
         SharedAnswerAlone, StepTimesOutAlone, ObserveTimesOutAlone
      DEF ExecutorStep, Timer
  <1>2. CASE TaskBegins \/ TaskChecks \/ TaskFails \/ \E ok \in BOOLEAN : TaskReturns(ok)
    BY <1>2, TaskBeginsAlone, TaskChecksAlone, TaskEndsAlone
  <1>3. ASSUME NEW opens \in BOOLEAN, TaskActs(opens)
        PROVE  Alone'
    BY <1>3, TaskActsAlone
  <1>4. CASE TaskTimesOut \/ CacheExpires \/ Navigates \/ ChallengeFound \/ \E type \in Types : Interrupt(type)
    BY <1>4, PageAlone
  <1>5. CASE UNCHANGED vars
    BY <1>5 DEF vars, sessionVars, Alone, Holders, GivenUp, Started, Turns, Lasting, Uninterrupted, Acted,
                IsWorkflow
  <1> QED
    BY <1>1, <1>2, <1>3, <1>4, <1>5 DEF Next, Types

\* Between two things a workflow does to the page, the observation it ends with among
\* them, nobody else acts: the reservation in enqueue, checked at submission and when
\* a task's turn comes, held until workflow() has returned, and the signal that keeps
\* what a deadline left behind from beginning.
THEOREM DeedsAreUninterrupted == Spec => []Uninterrupted
  <1>1. Alone => Uninterrupted
    BY DEF Alone
  <1> QED
    BY <1>1, Invariance, AloneFromStart, AloneKept, PTL DEF Spec

=============================================================================
