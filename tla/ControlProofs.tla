----------------------------- MODULE ControlProofs -----------------------------
(***************************************************************************)
(* Proofs, for every value of the constants, about a browser session and   *)
(* its lease.  BrowserSession never lets an automation write act while a   *)
(* person holds the lease (unless the page has crashed), never stays BUSY  *)
(* without a write, never loses a browser in a relaunch and never lifts a  *)
(* challenge pause by itself.  ControlLease keeps its fields consistent,   *)
(* never leaks a timer, never lets the agent reclaim control by itself,    *)
(* and implements ControlOwnership.  PageState loses no page, keeps its    *)
(* tabs to their limit and its generation to the active tab's, and honours *)
(* a reference only on the revision its element was read from.             *)
(***************************************************************************)
EXTENDS ControlLease, BrowserSession, PageState, FiniteSetTheorems, SequenceTheorems, TLAPS

-----------------------------------------------------------------------------
(* The browser session *)

\* Before start has returned nobody can have enqueued anything, so no lease was
\* handed out.
BeforeCallers == startPc # "done" => queue = <<>> /\ op = NoOp /\ lease # "USER"

\* The strengthening SingleWriterUnlessCrash needs: while a person holds the lease
\* and no page has crashed, the state stays one that the gates of enqueue refuse to
\* a write, and the running action is none that could change that.
LeaseFreezesAgent ==
    crashes = 0 /\ lease = "USER" =>
      /\ state \in {"USER_CONTROLLED", "STOPPING"}
      /\ \/ op.kind \in {"none", "read"}
         \/ op.kind = "takeover" /\ op.pc \in {"scan", "body"}
         \/ op.kind = "handoff" /\ op.pc = "settle"

\* launchContext is only called with the field undefined: the browser it replaces
\* has been closed, or its close() was rejected and counted.
LaunchAfterClose ==
    op.pc = "launch" \/ startPc \in {"none", "launching"} => context = 0

\* The inductive invariant.
SessionInv ==
    /\ SessionTypeOK
    /\ BeforeCallers
    /\ LeaseFreezesAgent
    /\ BusyIsAWrite
    /\ LaunchAfterClose
    /\ RelaunchLosesNone

-----------------------------------------------------------------------------
(* What each part of the invariant needs of a step *)

OpType == [kind : Kinds, pc : Pcs, prior : States, aborted : BOOLEAN]

\* Moving the running action on, or raising its abort signal, leaves it running and
\* of the same kind.
LEMMA OpMoved ==
  ASSUME NEW o \in OpType, NEW p \in Pcs, NEW q, q = [o EXCEPT !.pc = p]
  PROVE  q \in OpType /\ q # NoOp /\ q.kind = o.kind /\ q.prior = o.prior /\ q.pc = p
  BY DEF OpType, NoOp, Kinds

\* Raising an action's abort signal leaves it what it is.
LEMMA OpAborted ==
  ASSUME NEW o \in OpType, NEW q, q = [o EXCEPT !.aborted = TRUE]
  PROVE  q \in OpType /\ q # NoOp /\ q.kind = o.kind /\ q.prior = o.prior /\ q.pc = o.pc
  BY DEF OpType, NoOp, Kinds

\* The number of browsers other than the current one, under closeContext and
\* launchContext.
LEMMA StrayBrowsers ==
  ASSUME NEW n \in Nat, NEW S \in SUBSET (1..n), NEW c \in 0..n
  PROVE  /\ IsFiniteSet(S) /\ Cardinality(S) \in Nat
         /\ Cardinality(S \ {c}) \in Nat
         /\ Cardinality(S) <= Cardinality(S \ {c}) + 1
         /\ (S \ {c}) \ {0} = S \ {c}
         /\ S \ {0} = S
         /\ (S \cup {n + 1}) \ {n + 1} = S
  <1>1. IsFiniteSet(1..n)
    BY FS_Interval
  <1>2. IsFiniteSet(S)
    BY <1>1, FS_Subset
  <1>3. Cardinality(S) \in Nat
    BY <1>2, FS_CardinalityType
  <1>4. /\ IsFiniteSet(S \ {c})
        /\ Cardinality(S \ {c}) = IF c \in S THEN Cardinality(S) - 1 ELSE Cardinality(S)
    BY <1>2, FS_RemoveElement
  <1>5. Cardinality(S \ {c}) \in Nat
    BY <1>4, FS_CardinalityType
  <1>6. /\ (S \ {c}) \ {0} = S \ {c}
        /\ S \ {0} = S
        /\ (S \cup {n + 1}) \ {n + 1} = S
    OBVIOUS
  <1> QED
    BY <1>2, <1>3, <1>4, <1>5, <1>6

\* closeContext and launchContext keep the fields of the browsers well typed and
\* lose no browser, launchContext because the field was undefined.
LEMMA BrowserSteps ==
  ASSUME SessionTypeOK,
         \/ ContextCloses
         \/ ContextStays
         \/ context = 0 /\ \E h \in BOOLEAN : ContextLaunched(h)
  PROVE  /\ headless' \in BOOLEAN /\ launches' \in 0..MaxLaunches
         /\ context' \in 0..launches' /\ live' \subseteq 1..launches'
         /\ closeFailures' \in 0..MaxCloseFailures
         /\ Cardinality(live \ {context}) <= closeFailures
              => Cardinality(live' \ {context'}) <= closeFailures'
  <1> DEFINE Typed == /\ headless' \in BOOLEAN /\ launches' \in 0..MaxLaunches
                      /\ context' \in 0..launches' /\ live' \subseteq 1..launches'
                      /\ closeFailures' \in 0..MaxCloseFailures
             Lost == Cardinality(live \ {context})
  <1>1. /\ launches \in Nat /\ MaxLaunches \in Nat /\ launches <= MaxLaunches
        /\ live \in SUBSET (1..launches) /\ context \in 0..launches
        /\ closeFailures \in Nat /\ MaxCloseFailures \in Nat
        /\ closeFailures <= MaxCloseFailures /\ headless \in BOOLEAN
    BY SessionAssumption DEF SessionTypeOK
  <1>2. /\ Cardinality(live) \in Nat
        /\ Lost \in Nat
        /\ Cardinality(live) <= Lost + 1
        /\ (live \ {context}) \ {0} = live \ {context}
        /\ live \ {0} = live
        /\ (live \cup {launches + 1}) \ {launches + 1} = live
    BY <1>1, StrayBrowsers
  <1>3. CASE ContextCloses
    <2>1. live' \ {context'} = live \ {context} /\ closeFailures' = closeFailures
      BY <1>2, <1>3 DEF ContextCloses
    <2>2. Typed
      BY <1>1, <1>3 DEF ContextCloses, Unlaunched
    <2> QED
      BY <2>1, <2>2
  <1>4. CASE ContextStays
    <2>1. live' \ {context'} = live /\ closeFailures' = closeFailures + 1
      BY <1>2, <1>4 DEF ContextStays
    <2>2. Typed
      BY <1>1, <1>4 DEF ContextStays, Unlaunched
    <2>3. Cardinality(live' \ {context'}) = Cardinality(live)
      BY <2>1
    <2> QED
      BY <1>1, <1>2, <2>1, <2>2, <2>3
  <1>5. CASE context = 0 /\ \E h \in BOOLEAN : ContextLaunched(h)
    <2>1. PICK h \in BOOLEAN : ContextLaunched(h)
      BY <1>5
    <2>2. live' \ {context'} = live \ {context} /\ closeFailures' = closeFailures
      BY <1>2, <1>5, <2>1 DEF ContextLaunched
    <2>3. Typed
      BY <1>1, <2>1 DEF ContextLaunched
    <2> QED
      BY <2>2, <2>3
  <1> QED
    BY <1>3, <1>4, <1>5

-----------------------------------------------------------------------------
(* The steps *)

\* The constructor establishes the invariant.
LEMMA SessionInitially == SessionInit => SessionInv
  <1> SUFFICES ASSUME SessionInit PROVE SessionInv
    OBVIOUS
  <1>1. live \ {context} = {} /\ Cardinality({}) = 0
    BY FS_EmptySet DEF SessionInit
  <1>2. SessionTypeOK
    <2>1. live \subseteq 1..launches /\ context \in 0..launches /\ launches \in 0..MaxLaunches
      BY SessionAssumption DEF SessionInit
    <2>2. queue \in Seq(Kinds) /\ Len(queue) = 0
      BY DEF SessionInit
    <2>3. Len(queue) + (IF op = NoOp THEN 0 ELSE 1) <= MaxQueue
      BY <2>2, SessionAssumption DEF SessionInit
    <2>4. /\ op \in [kind : Kinds, pc : Pcs, prior : States, aborted : BOOLEAN] \cup {NoOp}
          /\ holder \in BOOLEAN /\ headless \in BOOLEAN
      BY DEF SessionInit
    <2>5. crashes \in 0..MaxCrashes /\ closeFailures \in 0..MaxCloseFailures
      BY SessionAssumption DEF SessionInit
    <2> QED
      BY <2>1, <2>2, <2>3, <2>4, <2>5 DEF SessionInit, SessionTypeOK, States
  <1>3. BeforeCallers /\ LeaseFreezesAgent /\ BusyIsAWrite /\ LaunchAfterClose
    BY DEF SessionInit, BeforeCallers, LeaseFreezesAgent, BusyIsAWrite, LaunchAfterClose
  <1>4. RelaunchLosesNone
    BY <1>1 DEF SessionInit, RelaunchLosesNone
  <1> QED
    BY <1>2, <1>3, <1>4 DEF SessionInv

\* Every step of start, enqueue, the operations, the observers and stop preserves it.
LEMMA SessionSteps ==
  ASSUME SessionInv, [SessionNext]_sessionVars PROVE SessionInv'
  <1> USE SessionAssumption DEF SessionInv, SessionTypeOK, BeforeCallers, LeaseFreezesAgent, BusyIsAWrite,
              LaunchAfterClose, RelaunchLosesNone, States, NoOp, grantVars, browserVars,
              Running, Kinds, Pcs
  <1>1. CASE Start
    BY <1>1 DEF Start
  <1>2. CASE StartReady
    BY <1>2 DEF StartReady
  <1>3. CASE Reopened
    BY <1>3 DEF Reopened
  <1>4. CASE LeaseGranted
    <2>1. op \in OpType
      BY <1>4 DEF LeaseGranted, OpType
    <2>2. op' \in OpType /\ op' # NoOp /\ op # NoOp /\ op'.kind = op.kind /\ op'.pc = "settle"
      BY <1>4, <2>1, OpMoved DEF LeaseGranted, Pcs, OpType
    <2>3. SessionTypeOK'
      BY <1>4, <2>2 DEF LeaseGranted, OpType
    <2>4. (BeforeCallers /\ LeaseFreezesAgent /\ BusyIsAWrite /\ LaunchAfterClose /\ RelaunchLosesNone)'
      BY <1>4, <2>2 DEF LeaseGranted
    <2> QED
      BY <2>3, <2>4
  <1>5. CASE HandoffReturns
    BY <1>5 DEF HandoffReturns, TaskEnds, AfterTask, RequireReady
  <1>6. CASE LeaseReturned
    <2>1. op \in OpType
      BY <1>6 DEF LeaseReturned, OpType
    <2>2. op' \in OpType /\ op' # NoOp /\ op # NoOp /\ op'.kind = op.kind /\ op'.pc = "settle"
      BY <1>6, <2>1, OpMoved DEF LeaseReturned, Pcs, OpType
    <2>3. SessionTypeOK'
      BY <1>6, <2>2 DEF LeaseReturned, OpType
    <2>4. (BeforeCallers /\ LeaseFreezesAgent /\ BusyIsAWrite /\ LaunchAfterClose /\ RelaunchLosesNone)'
      BY <1>6, <2>2 DEF LeaseReturned
    <2> QED
      BY <2>3, <2>4
  <1>7. CASE BackgroundScan
    BY <1>7 DEF BackgroundScan, ScanPauses
  <1>8. CASE LeaseExpires
    <2>1. SessionTypeOK'
      <3>1. UNCHANGED <<op, queue, state, startPc, headless, launches, context, live, stopPc,
                        crashes, closeFailures>>
        BY <1>8 DEF LeaseExpires
      <3>2. lease' \in {"AGENT", "USER", "EXPIRED"} /\ holder' \in BOOLEAN
        BY <1>8 DEF LeaseExpires
      <3> QED
        BY <3>1, <3>2
    <2>2. (BeforeCallers /\ LeaseFreezesAgent /\ BusyIsAWrite /\ LaunchAfterClose /\ RelaunchLosesNone)'
      BY <1>8 DEF LeaseExpires
    <2> QED
      BY <2>1, <2>2
  <1>9. CASE PageCrashes
    <2>1. op' \in OpType \cup {NoOp} /\ (op' = NoOp <=> op = NoOp)
          /\ op'.kind = op.kind /\ op'.pc = op.pc
      BY <1>9, OpAborted DEF PageCrashes, OpType
    <2>2. SessionTypeOK'
      BY <1>9, <2>1 DEF PageCrashes, OpType
    <2>3. (BeforeCallers /\ LeaseFreezesAgent /\ BusyIsAWrite /\ LaunchAfterClose /\ RelaunchLosesNone)'
      BY <1>9, <2>1 DEF PageCrashes
    <2> QED
      BY <2>2, <2>3
  <1>10. CASE Stop
    <2>1. op' \in OpType \cup {NoOp} /\ (op' = NoOp <=> op = NoOp)
          /\ op'.kind = op.kind /\ op'.pc = op.pc
      BY <1>10, OpAborted DEF Stop, OpType
    <2>2. SessionTypeOK'
      BY <1>10, <2>1 DEF Stop, OpType
    <2>3. (BeforeCallers /\ LeaseFreezesAgent /\ BusyIsAWrite /\ LaunchAfterClose /\ RelaunchLosesNone)'
      BY <1>10, <2>1 DEF Stop
    <2> QED
      BY <2>2, <2>3
  <1>11. CASE StopDrained
    BY <1>11 DEF StopDrained
  <1>12. CASE StopDrainTimeout
    BY <1>12 DEF StopDrainTimeout
  <1>13. CASE StopFinishes
    BY <1>13 DEF StopFinishes
  <1>14. CASE TaskTimesOut
    <2>1. op' \in OpType \cup {NoOp} /\ (op' = NoOp <=> op = NoOp)
          /\ op'.kind = op.kind /\ op'.pc = op.pc
      BY <1>14, OpAborted DEF TaskTimesOut, OpType
    <2>2. SessionTypeOK'
      BY <1>14, <2>1 DEF TaskTimesOut, OpType
    <2>3. (BeforeCallers /\ LeaseFreezesAgent /\ BusyIsAWrite /\ LaunchAfterClose /\ RelaunchLosesNone)'
      BY <1>14, <2>1 DEF TaskTimesOut
    <2> QED
      BY <2>2, <2>3
  <1>15. CASE TaskFails
    BY <1>15 DEF TaskFails, TaskEnds, AfterTask, RequireReady
  <1>16. CASE TaskRefused
    BY <1>16 DEF TaskRefused
  <1>17. CASE TaskStarts
    BY <1>17 DEF TaskStarts, Admits, AllowUserControl, AllowPaused, RequireReady
  <1>18. ASSUME NEW found \in BOOLEAN, StartReturns(found) PROVE SessionInv'
    BY <1>18 DEF StartReturns, AfterScan, ScanPauses
  <1>19. ASSUME NEW found \in BOOLEAN, EntryScan(found) PROVE SessionInv'
    <2> DEFINE preserve == /\ AllowPaused(op.kind) /\ ~RequireReady(op.kind)
                           /\ op.prior \in Paused
               after == AfterScan(found, preserve)
               ends == RequireReady(op.kind) /\ after = "PAUSED_CHALLENGE"
    <2>1. op \in OpType
      BY <1>19 DEF EntryScan, OpType
    <2>2. after \in {state, "PAUSED_CHALLENGE"} /\ (after = "BUSY" => op.kind = "write")
          /\ (state \in {"USER_CONTROLLED", "STOPPING"} => after = state)
      BY DEF AfterScan, ScanPauses
    <2>3. CASE ends
      <3>1. op' = NoOp /\ state' = "PAUSED_CHALLENGE"
        BY <1>19, <2>3 DEF EntryScan, TaskEnds, AfterTask
      <3> QED
        BY <1>19, <2>1, <2>2, <2>3, <3>1 DEF EntryScan, RequireReady
    <2>4. CASE ~ends
      <3>1. state' = after
            /\ op' = [op EXCEPT !.pc = "body", !.aborted = @ \/ ScanPauses(found, preserve)]
        BY <1>19, <2>4 DEF EntryScan
      <3>2. op' \in OpType /\ op' # NoOp /\ op # NoOp /\ op'.kind = op.kind /\ op'.pc = "body"
        <4> DEFINE aborts == ScanPauses(found, preserve)
        <4>1. aborts \in BOOLEAN /\ "body" \in Pcs
              /\ op' = [op EXCEPT !.pc = "body", !.aborted = @ \/ aborts]
          BY <3>1 DEF ScanPauses, Pcs
        <4> HIDE DEF aborts
        <4>2. op' \in OpType /\ op' # NoOp /\ op'.kind = op.kind /\ op'.pc = "body"
          <5> HIDE DEF SessionInv, Pcs, States
          <5> QED
            BY <2>1, <4>1 DEF OpType
        <4>3. op # NoOp
          BY <2>1 DEF OpType, Kinds, NoOp
        <4> QED
          BY <4>2, <4>3
      <3> HIDE DEF after
      <3>3. SessionTypeOK'
        BY <1>19, <2>2, <3>1, <3>2 DEF EntryScan, OpType
      <3>4. (BeforeCallers /\ LeaseFreezesAgent /\ BusyIsAWrite /\ LaunchAfterClose /\ RelaunchLosesNone)'
        BY <1>19, <2>1, <2>2, <3>1, <3>2 DEF EntryScan
      <3> QED
        BY <3>3, <3>4
    <2> QED
      BY <2>3, <2>4
  <1>20. ASSUME NEW found \in BOOLEAN, BodyEnds(found) PROVE SessionInv'
    BY <1>20 DEF BodyEnds, AfterScan, ScanPauses, TaskEnds, AfterTask, RequireReady
  <1>21. ASSUME NEW found \in BOOLEAN, Resumes(found) PROVE SessionInv'
    BY <1>21 DEF Resumes, TaskEnds, AfterTask, RequireReady
  <1>22. ASSUME NEW found \in BOOLEAN, ReopenReturns(found) PROVE SessionInv'
    BY <1>22 DEF ReopenReturns, TaskEnds, AfterTask, RequireReady
  <1>23. ASSUME NEW found \in BOOLEAN, TakeoverReturns(found) PROVE SessionInv'
    BY <1>23 DEF TakeoverReturns, AfterScan, ScanPauses, TaskEnds, AfterTask, RequireReady
  <1>24. ASSUME NEW kind \in Kinds, Submit(kind) PROVE SessionInv'
    BY <1>24 DEF Submit
  <1>25. CASE StartLaunched
    BY <1>25, BrowserSteps DEF StartLaunched
  <1>26. CASE StartFails
    BY <1>26, BrowserSteps DEF StartFails
  <1>27. CASE Relaunches
    <2>1. op \in OpType
      BY <1>27 DEF Relaunches, OpType
    <2>2. CASE ContextCloses /\ op' = [op EXCEPT !.pc = "launch"] /\ UNCHANGED state
      <3>1. op' \in OpType /\ op' # NoOp /\ op # NoOp /\ op'.kind = op.kind /\ op'.pc = "launch"
        BY <2>1, <2>2, OpMoved DEF Pcs, OpType
      <3>2. context' = 0
        BY <2>2 DEF ContextCloses
      <3>3. SessionTypeOK'
        BY <1>27, <2>2, <3>1, BrowserSteps DEF Relaunches, OpType
      <3>4. RelaunchLosesNone'
        BY <1>27, <2>2, BrowserSteps DEF Relaunches
      <3>5. (BeforeCallers /\ LeaseFreezesAgent /\ BusyIsAWrite /\ LaunchAfterClose)'
        BY <1>27, <2>2, <3>1, <3>2 DEF Relaunches
      <3> QED
        BY <3>3, <3>4, <3>5
    <2>3. CASE ContextStays /\ TaskEnds(state)
      <3>1. SessionTypeOK'
        BY <1>27, <2>1, <2>3, BrowserSteps DEF Relaunches, TaskEnds, AfterTask
      <3>2. RelaunchLosesNone'
        BY <1>27, <2>3, BrowserSteps DEF Relaunches
      <3>3. context' = 0
        BY <2>3 DEF ContextStays
      <3>4. (BeforeCallers /\ LeaseFreezesAgent /\ BusyIsAWrite /\ LaunchAfterClose)'
        BY <1>27, <2>1, <2>3, <3>3 DEF Relaunches, TaskEnds, AfterTask, RequireReady
      <3> QED
        BY <3>1, <3>2, <3>4
    <2> QED
      BY <1>27, <2>2, <2>3 DEF Relaunches
  <1>28. CASE HeadedLaunched
    <2>1. op \in OpType /\ context = 0 /\ ContextLaunched(FALSE)
      <3>1. op.pc = "launch"
        BY <1>28 DEF HeadedLaunched
      <3>2. op \in OpType /\ context = 0
        BY <3>1 DEF OpType
      <3>3. ContextLaunched(FALSE)
        BY <1>28, Zenon DEF HeadedLaunched
      <3> QED
        BY <3>2, <3>3
    <2>2. op' \in OpType /\ op' # NoOp /\ op # NoOp /\ op'.kind = op.kind /\ op'.pc = "restore"
      BY <1>28, <2>1, OpMoved DEF HeadedLaunched, Pcs, OpType
    <2>3. SessionTypeOK'
      BY <1>28, <2>1, <2>2, BrowserSteps DEF HeadedLaunched, OpType
    <2>4. RelaunchLosesNone'
      BY <1>28, <2>1, BrowserSteps DEF HeadedLaunched
    <2>5. (BeforeCallers /\ LeaseFreezesAgent /\ BusyIsAWrite /\ LaunchAfterClose)'
      BY <1>28, <2>1, <2>2 DEF HeadedLaunched
    <2> QED
      BY <2>3, <2>4, <2>5
  <1>29. CASE StopCloses
    <2>1. SessionTypeOK'
      BY <1>29, BrowserSteps DEF StopCloses
    <2>2. context' = 0
      BY <1>29 DEF StopCloses, ContextCloses, ContextStays
    <2> QED
      BY <1>29, <2>1, <2>2 DEF StopCloses
  <1>30. CASE UNCHANGED sessionVars
    BY <1>30 DEF sessionVars
  <1> QED
    BY <1>1, <1>2, <1>3, <1>4, <1>5, <1>6, <1>7, <1>8, <1>9, <1>10, <1>11, <1>12,
       <1>13, <1>14, <1>15, <1>16, <1>17, <1>18, <1>19, <1>20, <1>21, <1>22, <1>23,
       <1>24, <1>25, <1>26, <1>27, <1>28, <1>29, <1>30 DEF SessionNext

-----------------------------------------------------------------------------
(* The theorems *)

\* The strengthened invariant holds of every behaviour of a session.
THEOREM SessionInvariance == SessionSpec => []SessionInv
  <1>1. SessionInit => SessionInv
    BY SessionInitially
  <1>2. SessionInv /\ [SessionNext]_sessionVars => SessionInv'
    BY SessionSteps
  <1> QED
    BY <1>1, <1>2, PTL DEF SessionSpec

\* However submissions, handoff, expiry and stop interleave, no automation write
\* acts on the page while a person holds the lease, unless the page has crashed.
THEOREM OneWriter == SessionSpec => []SingleWriterUnlessCrash
  <1>1. SessionInv => SingleWriterUnlessCrash
    BY DEF SessionInv, LeaseFreezesAgent, SingleWriterUnlessCrash, AgentWriting
  <1> QED
    BY <1>1, SessionInvariance, PTL

\* BUSY never outlives its write (the finally block of enqueue), and start,
\* reopenHeaded and handoff, failing at any await, lose no browser.
THEOREM SessionIsSettled == SessionSpec => []SessionSettled
  <1>1. SessionInv => SessionSettled
    BY DEF SessionInv, SessionSettled
  <1> QED
    BY <1>1, SessionInvariance, PTL

\* Only a clean resume, the return of a lease or start going on lifts a pause.
THEOREM PauseIsLiftedByHand == SessionSpec => PauseNeedsHuman
  <1> DEFINE P == state = "PAUSED_CHALLENGE" /\ state' \in {"READY", "BUSY"}
                    => \/ op.kind \in {"resume", "takeover"} /\ op.pc = "body"
                       \/ startPc = "opened"
  <1>1. [SessionNext]_sessionVars => [P]_sessionVars
    <2> SUFFICES ASSUME SessionNext PROVE P
      OBVIOUS
    <2> USE DEF AfterScan, ScanPauses, TaskEnds, AfterTask, RequireReady, Admits
    <2>1. CASE \E found \in BOOLEAN :
                 \/ StartReturns(found) \/ EntryScan(found) \/ BodyEnds(found)
                 \/ Resumes(found) \/ ReopenReturns(found) \/ TakeoverReturns(found)
      BY <2>1 DEF StartReturns, EntryScan, BodyEnds, Resumes, ReopenReturns, TakeoverReturns
    <2>2. CASE \/ Start \/ StartLaunched \/ StartReady \/ StartFails
               \/ \E kind \in Kinds : Submit(kind)
      BY <2>2 DEF Start, StartLaunched, StartReady, StartFails, Submit
    <2>3. CASE \/ TaskStarts \/ TaskRefused \/ TaskTimesOut \/ TaskFails
               \/ Relaunches \/ HeadedLaunched \/ Reopened
      BY <2>3 DEF TaskStarts, TaskRefused, TaskTimesOut, TaskFails, Relaunches,
                  HeadedLaunched, Reopened
    <2>4. CASE \/ LeaseGranted \/ HandoffReturns \/ LeaseReturned
               \/ BackgroundScan \/ LeaseExpires \/ PageCrashes
      BY <2>4 DEF LeaseGranted, HandoffReturns, LeaseReturned, BackgroundScan, LeaseExpires,
                  PageCrashes
    <2>5. CASE \/ Stop \/ StopDrained \/ StopDrainTimeout \/ StopCloses \/ StopFinishes
      BY <2>5 DEF Stop, StopDrained, StopDrainTimeout, StopCloses, StopFinishes
    <2> QED
      BY <2>1, <2>2, <2>3, <2>4, <2>5 DEF SessionNext
  <1> QED
    BY <1>1, PTL DEF SessionSpec, PauseNeedsHuman

-----------------------------------------------------------------------------
(* The control lease *)

\* Consent is given exactly in the two phases in which the user holds nothing
\* back: this is the strengthening AgentNeedsConsent needs, since the step that
\* makes the agent a writer (resume) reads the phase and not the history.
ConsentTracksPhase == consent <=> handoffState \in {"NONE", "RELEASED"}

\* The inductive invariant.
LeaseInv ==
    /\ TypeOK
    /\ StateAgrees
    /\ TimerHygiene
    /\ ConsentTracksPhase

USE MaxTtlAssumption, MaxEarlyAssumption, BoundsAssumption

\* The constructor establishes the invariant.
LEMMA LeaseInitially == Init => LeaseInv
  BY DEF Init, LeaseInv, TypeOK, StateAgrees, TimerHygiene, ConsentTracksPhase,
         InHandoff, ControlStates, HandoffStates, Owners, Leases, Timers, Writes,
         NoLease, NoTimer, NoWrite

\* Every step of every method, callback and clock tick preserves it.
LEMMA LeaseSteps == LeaseInv /\ [Next]_vars => LeaseInv'
  <1> SUFFICES ASSUME LeaseInv, [Next]_vars PROVE LeaseInv'
    OBVIOUS
  <1> USE DEF LeaseInv, TypeOK, StateAgrees, TimerHygiene, ConsentTracksPhase,
              InHandoff, ControlStates, HandoffStates, Owners, Leases, Timers,
              Writes, NoLease, NoTimer, SetControl, historyVars, leaseVars
  <1>1. CASE ExpireIfDue
    BY <1>1 DEF ExpireIfDue, Expire, ClearExpiryTimer, Due
  <1>2. ASSUME NEW actor \in Actors, NEW ttl \in 1..MaxTtl, RequestHandoff(actor, ttl)
        PROVE  LeaseInv'
    <2> DEFINE handle == [generation |-> nextGeneration + 1, dueAt |-> now + ttl]
    <2>1. ttl \in Nat /\ handle \in Timers
      OBVIOUS
    <2>2. timers \ {expiryTimer} = {}
      OBVIOUS
    <2>3. timers' = {handle} /\ expiryTimer' = handle
      BY <1>2, <2>2 DEF RequestHandoff, ScheduleExpiry
    <2>4. TypeOK'
      BY <1>2, <2>1, <2>3 DEF RequestHandoff
    <2>5. (StateAgrees /\ TimerHygiene /\ ConsentTracksPhase)'
      BY <1>2, <2>1, <2>3 DEF RequestHandoff
    <2> QED
      BY <2>4, <2>5
  <1>3. ASSUME NEW actor \in Actors, NEW token \in Tokens, NEW ok \in BOOLEAN,
               Takeover(actor, token, ok)
        PROVE  LeaseInv'
    BY <1>3 DEF Takeover, Settled, Due
  <1>4. ASSUME NEW actor \in Actors, NEW token \in Tokens, NEW ok \in BOOLEAN,
               Release(actor, token, ok)
        PROVE  LeaseInv'
    BY <1>4 DEF Release, ClearExpiryTimer, Settled, Due
  <1>5. ASSUME NEW actor \in Actors, Resume(actor)
        PROVE  LeaseInv'
    BY <1>5 DEF Resume, Settled, Due
  <1>6. ASSUME NEW actor \in Actors, NEW ok \in BOOLEAN, RecoverExpired(actor, ok)
        PROVE  LeaseInv'
    BY <1>6 DEF RecoverExpired, ClearExpiryTimer, Settled, Due
  <1>7. CASE AgentWrite
    BY <1>7 DEF AgentWrite
  <1>8. ASSUME NEW token \in Tokens, UserWrite(token)
        PROVE  LeaseInv'
    BY <1>8 DEF UserWrite, Tokens
  <1>9. CASE Dispose
    BY <1>9 DEF Dispose, ClearExpiryTimer
  <1>10. CASE Tick
    BY <1>10 DEF Tick
  <1>11. ASSUME NEW handle \in timers, TimerFires(handle)
         PROVE  LeaseInv'
    <2>1. /\ handle = expiryTimer
          /\ timers = {expiryTimer}
          /\ InHandoff
      BY <1>11
    <2> QED
      BY <1>11, <2>1 DEF TimerFires, Expire
  <1>12. CASE UNCHANGED vars
    BY <1>12 DEF vars
  <1> QED
    BY <1>1, <1>2, <1>3, <1>4, <1>5, <1>6, <1>7, <1>8, <1>9, <1>10, <1>11, <1>12
       DEF Next

\* The strengthened invariant holds of every behaviour of the manager.
THEOREM LeaseInvariance == Spec => []LeaseInv
  BY LeaseInitially, LeaseSteps, PTL DEF Spec

\* Every field keeps its type.
THEOREM TypeCorrect == Spec => []TypeOK
  BY LeaseInvariance, PTL DEF LeaseInv

\* The state fields, lease record and digest never disagree.
THEOREM FieldsAgree == Spec => []StateAgrees
  BY LeaseInvariance, PTL DEF LeaseInv

\* No expiry callback is ever leaked, lost or kept for another handoff.
THEOREM TimersAreClean == Spec => []TimerHygiene
  BY LeaseInvariance, PTL DEF LeaseInv

\* The record of the lease manager is coherent.
THEOREM RecordCoherent == Spec => []LeaseCoherent
  BY TypeCorrect, FieldsAgree, TimersAreClean, PTL DEF LeaseCoherent

\* The agent is never a writer while the user has not returned control.
THEOREM NoReclaim == Spec => []AgentNeedsConsent
  <1>1. LeaseInv => AgentNeedsConsent
    BY DEF LeaseInv, AgentNeedsConsent, AgentWriteAllowed, ConsentTracksPhase
  <1> QED
    BY <1>1, LeaseInvariance, PTL

\* A user write is let through only with the newest token, in its lease.
THEOREM UserWritesFenced == Spec => UserWritesInLease
  <1> DEFINE P == lastWrite' # lastWrite /\ lastWrite'.by = "user" =>
                    /\ lastWrite'.token = nextGeneration
                    /\ now < currentLease.expiresAt
                    /\ UserControlActive
  <1>1. LeaseInv /\ [Next]_vars => [P]_vars
    <2> SUFFICES ASSUME LeaseInv, Next, lastWrite' # lastWrite, lastWrite'.by = "user"
                 PROVE  /\ lastWrite'.token = nextGeneration
                        /\ now < currentLease.expiresAt
                        /\ UserControlActive
      OBVIOUS
    <2>1. \E token \in Tokens : UserWrite(token)
      BY DEF Next, ExpireIfDue, RequestHandoff, Takeover, Release, Resume,
             RecoverExpired, AgentWrite, Dispose, Tick, TimerFires, historyVars
    <2>2. PICK token \in Tokens : UserWrite(token)
      BY <2>1
    <2> QED
      BY <2>2 DEF UserWrite, Settled, SettledControl, Due, MatchesToken, LeaseInv, TypeOK,
                  StateAgrees, InHandoff, Leases, UserControlActive, Owners
  <1> QED
    BY <1>1, LeaseInvariance, PTL DEF UserWritesInLease, Spec

\* The user obtains control only before the deadline of the pending handoff.
THEOREM TakeoverTimely == Spec => TakeoverIsTimely
  <1> DEFINE P == UserControlActive' /\ ~UserControlActive => now < currentLease.expiresAt
  <1>1. LeaseInv /\ [Next]_vars => [P]_vars
    <2> SUFFICES ASSUME LeaseInv, Next, UserControlActive', ~UserControlActive
                 PROVE  now < currentLease.expiresAt
      OBVIOUS
    <2>1. PICK actor \in Actors, token \in Tokens, ok \in BOOLEAN : Takeover(actor, token, ok)
      BY DEF Next, ExpireIfDue, Expire, RequestHandoff, Release, Resume, RecoverExpired,
             AgentWrite, UserWrite, Dispose, Tick, TimerFires, SetControl, leaseVars,
             UserControlActive
    <2> QED
      BY <2>1 DEF Takeover, Settled, Due, MatchesToken, InHandoff, LeaseInv, TypeOK, Leases
  <1> QED
    BY <1>1, LeaseInvariance, PTL DEF TakeoverIsTimely, Spec

\* A lapsed lease serves neither a write nor a takeover.
THEOREM LapsedLeaseUnused == Spec => LeaseTimely
  BY UserWritesFenced, TakeoverTimely DEF LeaseTimely

\* The lease manager implements the abstract ownership protocol: whatever the
\* tokens, deadlines and timers do, control never passes from one writer to the
\* other directly, and comes back to the agent only through the user's consent.
THEOREM ImplementsOwnership == Spec => OwnershipSpec
  <1>1. Init => Ownership!Init
    BY DEF Init, Ownership!Init, Pen, AgentWriteAllowed, UserControlActive
  <1>2. LeaseInv /\ [Next]_vars => [Ownership!Next]_(Ownership!ownVars)
    <2> SUFFICES ASSUME LeaseInv, [Next]_vars
                 PROVE  Ownership!Next \/ UNCHANGED <<Pen, consent>>
      BY DEF Ownership!ownVars
    <2> USE DEF LeaseInv, TypeOK, StateAgrees, ConsentTracksPhase, InHandoff, Leases,
                ControlStates, HandoffStates, Owners, Pen, AgentWriteAllowed,
                UserControlActive, Due, SetControl, historyVars, leaseVars
    <2>1. CASE ExpireIfDue
      BY <2>1 DEF ExpireIfDue, Expire
    <2>2. ASSUME NEW actor \in Actors, NEW ttl \in 1..MaxTtl, RequestHandoff(actor, ttl)
          PROVE  Ownership!Yield
      BY <2>2 DEF RequestHandoff, Ownership!Yield
    <2>3. ASSUME NEW actor \in Actors, NEW token \in Tokens, NEW ok \in BOOLEAN,
                 Takeover(actor, token, ok)
          PROVE  Ownership!Claim
      BY <2>3 DEF Takeover, Settled, Ownership!Claim
    <2>4. ASSUME NEW actor \in Actors, NEW token \in Tokens, NEW ok \in BOOLEAN,
                 Release(actor, token, ok)
          PROVE  Ownership!Return
      BY <2>4 DEF Release, Settled, Ownership!Return
    <2>5. ASSUME NEW actor \in Actors, Resume(actor)
          PROVE  Ownership!Resume
      BY <2>5 DEF Resume, Settled, Ownership!Resume
    <2>6. ASSUME NEW actor \in Actors, NEW ok \in BOOLEAN, RecoverExpired(actor, ok)
          PROVE  Ownership!Return
      BY <2>6 DEF RecoverExpired, Settled, Ownership!Return
    <2>7. CASE AgentWrite
      BY <2>7 DEF AgentWrite
    <2>8. ASSUME NEW token \in Tokens, UserWrite(token)
          PROVE  UNCHANGED <<Pen, consent>>
      BY <2>8 DEF UserWrite
    <2>9. CASE Dispose
      BY <2>9 DEF Dispose, Ownership!Next, Ownership!Yield
    <2>10. CASE Tick
      <3>1. CASE UserControlActive /\ ~Due /\ Due'
        BY <2>10, <3>1 DEF Tick, Ownership!Next, Ownership!Lapse
      <3>2. CASE ~(UserControlActive /\ ~Due /\ Due')
        BY <2>10, <3>2 DEF Tick
      <3> QED
        BY <3>1, <3>2
    <2>11. ASSUME NEW handle \in timers, TimerFires(handle)
           PROVE  UNCHANGED <<Pen, consent>>
      <3>1. InHandoff /\ currentLease # NoLease
        BY <2>11 DEF TimerHygiene, NoLease
      <3> QED
        BY <2>11, <3>1 DEF TimerFires, Expire
    <2>12. CASE UNCHANGED vars
      BY <2>12 DEF vars
    <2> QED
      BY <2>1, <2>2, <2>3, <2>4, <2>5, <2>6, <2>7, <2>8, <2>9, <2>10, <2>11, <2>12
         DEF Next, Ownership!Next
  <1> QED
    BY <1>1, <1>2, LeaseInvariance, PTL DEF Spec, OwnershipSpec, Ownership!Spec

-----------------------------------------------------------------------------
(* The pages of a session *)

\* A registry, its records and the tab they belong to.
Record == [ref : Nat, node : Node, gen : Nat, seen : Nat]
Registry == [gen : Nat, recs : Seq(Record), seq : Nat]
Tab(histories) ==
    [id : Nat, page : Nat, main : BOOLEAN, rev : Nat, obs : Nat, reg : Registry, hist : histories]
Histories(ts) == {ts[i].hist : i \in 1..Len(ts)}

\* The tabs of the session have their types, whatever their histories hold;
TabsTyped(ts) == ts \in Seq(Tab(Histories(ts)))

\* no two of them have the same id or page, and these were all given out before;
TabsDistinct(ts) ==
    \A i, j \in 1..Len(ts) : ts[i].id = ts[j].id \/ ts[i].page = ts[j].page => i = j
TabsCounted(ts, ids, ps) ==
    \A i \in 1..Len(ts) : ts[i].id \in 1..ids /\ ts[i].page \in 1..ps

\* a registry is cleared with every generation, and its references were
\* registered under a revision no later than the one their nodes were read from,
\* each with a number of its own.
RefsSound(recs, seq, rev) ==
    /\ \A k \in 1..Len(recs) : /\ recs[k].gen <= recs[k].seen /\ recs[k].seen <= rev
                               /\ recs[k].ref <= seq
    /\ \A j, k \in 1..Len(recs) : recs[j].ref = recs[k].ref => j = k
TabSound(t) ==
    t.reg.gen = t.rev /\ Len(t.reg.recs) <= MaxRefs /\ RefsSound(t.reg.recs, t.reg.seq, t.rev)
TabsSound(ts) == \A i \in 1..Len(ts) : TabSound(ts[i])

\* The session's generation is the active tab's.
GenFollows(ts, id, g) == \A i \in 1..Len(ts) : ts[i].id = id => g = ts[i].rev

\* The tabs, and what the session notes of the active one.
Tidy ==
    /\ TabsTyped(tabs) /\ TabsDistinct(tabs) /\ TabsCounted(tabs, tabSeq, pages) /\ TabsSound(tabs)
    /\ GenFollows(tabs, active, gen)
    /\ active \in 1..tabSeq /\ gen \in Nat /\ tabSeq \in Nat

\* The browser around them: its pages, what they show, and who is announced.
BrowserTyped ==
    /\ pages \in Nat /\ open \subseteq 1..pages
    /\ content \in [1..pages -> Seq(Node)]
    /\ admissions \in Seq(1..pages)
    /\ admitting \in {"idle", "checking", "late"}
    /\ admitting # "idle" => admissions # <<>>
    /\ late \in Nat
    /\ DOMAIN lim = Limits \cup {"show"} /\ lim.show \subseteq Seq(Node)

\* The running operation: a tab being closed is there until it is removed, and so
\* is its replacement, which is another tab;
CloseSound ==
    job.kind = "close" =>
      /\ job \in [kind : {"close"}, id : Nat, new : Nat \cup {None}, page : Nat, pc : {"replace", "close"}]
      /\ Index(job.id) # {}
      /\ job.pc = "replace" =>
            /\ job.new = None /\ job.page \in 1..pages
            /\ \A i \in 1..Len(tabs) : tabs[i].id = job.id => tabs[i].page # job.page
      /\ job.pc = "close" =>
            IF job.new = None THEN Len(tabs) >= 2 ELSE job.new # job.id /\ Index(job.new) # {}

\* a snapshot's tab is there, and its nodes were read no earlier than the
\* generation was;
SnapshotSound ==
    job.kind = "snapshot" =>
      /\ job \in [kind : {"snapshot"}, id : Nat, gen : Nat, since : 1..2 \cup {None},
                  nodes : Seq(Node) \cup {None}, seen : Nat]
      /\ Index(job.id) # {}
      /\ \A i \in 1..Len(tabs) : tabs[i].id = job.id =>
            /\ job.gen <= tabs[i].rev
            /\ job.nodes # None => job.gen <= job.seen /\ job.seen <= tabs[i].rev

\* a reference that is being resolved is the last one that was accepted, on the
\* revision its node was read from;
ResolveSound ==
    job.kind = "resolve" =>
        /\ job \in [kind : {"resolve"}, id : Nat, rec : Record]
        /\ resolved = [id |-> resolved.id, rec |-> job.rec, at |-> job.rec.seen,
                       page |-> resolved.page, element |-> resolved.element]

\* a page that is being restored is registered before it navigates.
RelaunchSound ==
    job.kind = "relaunch" =>
      /\ job = [kind |-> "relaunch", pc |-> job.pc, todo |-> job.todo, which |-> job.which,
                page |-> job.page, made |-> job.made]
      /\ job.pc \in {"launch", "goto", "next", "register"} /\ job.todo \in Nat
      /\ job.pc = "goto" => IndexOfPage(tabs, job.page) # {}
      /\ job.pc = "register" => job.page \in 1..pages /\ job.todo > 0

JobSound == CloseSound /\ SnapshotSound /\ ResolveSound /\ RelaunchSound

\* How many tabs there will be when the relaunch that is running has restored them.
Expected ==
    IF job.kind # "relaunch" THEN Len(tabs)
    ELSE IF job.pc = "launch" THEN job.todo + 1 ELSE Len(tabs) + job.todo
\* How many tabs there may be.
Limit == MaxTabs + late + (IF Replacing THEN 1 ELSE 0)

\* The tabs there are and those to come keep to the limit; a page whose address is
\* being looked up still has its place.
RoomLeft ==
    /\ Len(tabs) <= Limit /\ Expected <= Limit
    /\ admitting = "checking" => Len(tabs) < Limit /\ Expected < Limit

\* Every page that is open has a tab or awaits one.
NoPageEscapes == \A p \in open : Registered(p) \/ Awaited(p)

\* The inductive invariant.
PageInv ==
    Tidy /\ BrowserTyped /\ JobSound /\ RoomLeft /\ NoPageEscapes /\ RefNamesSeenElement

-----------------------------------------------------------------------------
(* Sequences of tabs *)

\* A place in a sequence of other than one is in one of two or more.
LEMMA Two ==
  ASSUME NEW n \in Nat, NEW i \in 1..n, n # 1
  PROVE  n >= 2
  OBVIOUS

\* There is one number in the set, and that is the smallest.
LEMMA OnlySmallest ==
  ASSUME NEW n \in Nat
  PROVE  Smallest({n}) = n
  BY DEF Smallest

\* The places of the tabs with an id.
IndexOfId(ts, id) == {j \in 1..Len(ts) : ts[j].id = id}

\* A function over a sequence's own indices is a sequence.
LEMMA Sequenced ==
  ASSUME NEW S, NEW s, Len(s) \in Nat, s \in [1..Len(s) -> S]
  PROVE  s \in Seq(S)
  OBVIOUS

\* Ids and pages find their tab.
LEMMA Found ==
  ASSUME NEW ts, Len(ts) \in Nat, TabsDistinct(ts), NEW i \in 1..Len(ts)
  PROVE  /\ IndexOfId(ts, ts[i].id) = {i}
         /\ Smallest(IndexOfId(ts, ts[i].id)) = i
         /\ IndexOfPage(ts, ts[i].page) = {i}
         /\ Smallest(IndexOfPage(ts, ts[i].page)) = i
  <1>1. IndexOfId(ts, ts[i].id) = {i}
    BY DEF TabsDistinct, IndexOfId
  <1>2. IndexOfPage(ts, ts[i].page) = {i}
    BY DEF TabsDistinct, IndexOfPage
  <1>3. Smallest({i}) = i
    BY OnlySmallest
  <1> QED  BY <1>1, <1>2, <1>3

\* A sequence of tabs is typed by whatever histories they have.
LEMMA Retyped ==
  ASSUME NEW H, NEW ts \in Seq(Tab(H))
  PROVE  TabsTyped(ts)
  <1>1. Len(ts) \in Nat /\ ts \in [1..Len(ts) -> Tab(H)]
    OBVIOUS
  <1>2. \A i \in 1..Len(ts) : ts[i] \in Tab(Histories(ts))
    <2> SUFFICES ASSUME NEW i \in 1..Len(ts)  PROVE ts[i] \in Tab(Histories(ts))
      OBVIOUS
    <2>1. ts[i] \in Tab(H)
      BY <1>1
    <2>2. ts[i].hist \in Histories(ts)
      BY DEF Histories
    <2> QED  BY <2>1, <2>2 DEF Tab
  <1>3. ts \in [1..Len(ts) -> Tab(Histories(ts))]
    BY <1>1, <1>2
  <1> QED  BY <1>1, <1>3 DEF TabsTyped

\* What typed tabs are, one by one.
LEMMA TypedMeans ==
  ASSUME NEW ts, TabsTyped(ts)
  PROVE  /\ Len(ts) \in Nat /\ DOMAIN ts = 1..Len(ts)
         /\ ts \in [1..Len(ts) -> Tab(Histories(ts))]
         /\ \A i \in 1..Len(ts) : ts[i] \in Tab(Histories(ts))
  BY DEF TabsTyped

\* A function over the indices is a sequence of tabs when its values are tabs.
LEMMA MadeOf ==
  ASSUME NEW n \in Nat, NEW H, NEW us, us = [i \in 1..n |-> us[i]],
         \A i \in 1..n : us[i] \in Tab(H)
  PROVE  TabsTyped(us) /\ Len(us) = n
  <1>1. us \in [1..n -> Tab(H)]
    OBVIOUS
  <1>2. us \in Seq(Tab(H)) /\ Len(us) = n
    BY <1>1
  <1> QED  BY <1>2, Retyped

\* Tabs that keep their ids and pages stay distinct and counted.
LEMMA SamePlaces ==
  ASSUME NEW ts, NEW us, Len(us) = Len(ts), TabsDistinct(ts),
         \A i \in 1..Len(ts) : us[i].id = ts[i].id /\ us[i].page = ts[i].page
  PROVE  TabsDistinct(us) /\ \A ids, ps : TabsCounted(ts, ids, ps) => TabsCounted(us, ids, ps)
  BY DEF TabsDistinct, TabsCounted

\* A page that is registered again keeps its tab.
LEMMA RegisteredAgain ==
  ASSUME NEW ts, TabsTyped(ts), TabsDistinct(ts), TabsSound(ts), NEW id \in Nat, NEW p \in Nat,
         NEW main \in BOOLEAN, IndexOfPage(ts, p) # {}, NEW us, us = RegisterTab(ts, id, p, main)
  PROVE  /\ TabsTyped(us) /\ TabsSound(us) /\ Len(us) = Len(ts)
         /\ \A i \in 1..Len(ts) : us[i].id = ts[i].id /\ us[i].page = ts[i].page /\ us[i].rev = ts[i].rev
  <1>1. us = [i \in 1..Len(ts) |-> IF i \in IndexOfPage(ts, p)
                                   THEN [ts[i] EXCEPT !.main = @ \/ main, !.obs = @ + 1] ELSE ts[i]]
    BY DEF RegisterTab
  <1>2. \A i \in 1..Len(ts) : /\ us[i] \in Tab(Histories(ts)) /\ us[i].id = ts[i].id /\ us[i].page = ts[i].page
                              /\ us[i].rev = ts[i].rev /\ us[i].reg = ts[i].reg
    <2> SUFFICES ASSUME NEW i \in 1..Len(ts)
                 PROVE  /\ us[i] \in Tab(Histories(ts)) /\ us[i].id = ts[i].id /\ us[i].page = ts[i].page
                        /\ us[i].rev = ts[i].rev /\ us[i].reg = ts[i].reg
      OBVIOUS
    <2>1. ts[i] \in Tab(Histories(ts))
      BY TypedMeans
    <2>2. CASE i \in IndexOfPage(ts, p)
      <3>1. us[i] = [ts[i] EXCEPT !.main = @ \/ main, !.obs = @ + 1]
        BY <1>1, <2>2
      <3>2. (ts[i].main \/ main) \in BOOLEAN /\ ts[i].obs + 1 \in Nat
        BY <2>1 DEF Tab
      <3> QED  BY <2>1, <3>1, <3>2 DEF Tab
    <2>3. CASE i \notin IndexOfPage(ts, p)
      BY <1>1, <2>1, <2>3
    <2> QED  BY <2>2, <2>3
  <1>3. Len(ts) \in Nat
    BY TypedMeans
  <1>4. us = [i \in 1..Len(ts) |-> us[i]]
    BY <1>1
  <1>5. TabsTyped(us) /\ Len(us) = Len(ts)
    BY <1>2, <1>3, <1>4, MadeOf
  <1>6. TabsSound(us)
    BY <1>2, <1>5 DEF TabsSound, TabSound
  <1> QED  BY <1>2, <1>5, <1>6

\* A page that is not is the last tab, and its registry is empty.
LEMMA RegisteredNew ==
  ASSUME NEW ts, TabsTyped(ts), TabsSound(ts), NEW id \in Nat, NEW p \in Nat,
         NEW main \in BOOLEAN, IndexOfPage(ts, p) = {}, NEW us, us = RegisterTab(ts, id, p, main)
  PROVE  /\ TabsTyped(us) /\ TabsSound(us) /\ Len(us) = Len(ts) + 1
         /\ \A i \in 1..Len(ts) : us[i] = ts[i]
         /\ us[Len(us)].id = id /\ us[Len(us)].page = p /\ us[Len(us)].rev = 0
  <1> DEFINE t == [NewTab(id, p, main) EXCEPT !.obs = 1]
             H == Histories(ts) \cup {NewHistory}
  <1>1. us = Append(ts, t)
    BY DEF RegisterTab
  <1>2. /\ t \in Tab(H) /\ t.id = id /\ t.page = p /\ t.rev = 0
        /\ t.reg.gen = 0 /\ t.reg.recs = <<>>
    <2>1. <<>> \in Seq(Record)
      OBVIOUS
    <2>2. NewRegistry \in Registry
      BY <2>1 DEF NewRegistry, Registry
    <2>3. t = [id |-> id, page |-> p, main |-> main, rev |-> 0, obs |-> 1,
               reg |-> NewRegistry, hist |-> NewHistory]
      BY DEF NewTab
    <2>4. t \in Tab(H)
      BY <2>2, <2>3 DEF Tab
    <2> QED  BY <2>3, <2>4 DEF NewRegistry
  <1>3. ts \in Seq(Tab(H))
    <2>1. ts \in [1..Len(ts) -> Tab(Histories(ts))] /\ Len(ts) \in Nat
      BY TypedMeans
    <2>2. \A i \in 1..Len(ts) : ts[i] \in Tab(H)
      BY <2>1 DEF Tab
    <2>3. ts \in [1..Len(ts) -> Tab(H)]
      BY <2>1, <2>2
    <2> QED  BY <2>1, <2>3, Sequenced
  <1> HIDE DEF t, H
  <1>4. /\ us \in Seq(Tab(H)) /\ Len(us) = Len(ts) + 1 /\ us[Len(us)] = t
        /\ \A i \in 1..Len(ts) : us[i] = ts[i]
    BY <1>1, <1>2, <1>3
  <1>5. TabsTyped(us)
    BY <1>4, Retyped
  <1>6. TabSound(t)
    BY <1>2, MaxRefsAssumption DEF TabSound, RefsSound
  <1>7. TabsSound(us)
    <2>1. Len(ts) \in Nat
      BY TypedMeans
    <2> QED  BY <1>4, <1>6, <2>1 DEF TabsSound
  <1> QED  BY <1>2, <1>4, <1>5, <1>7

\* The tabs us are the tabs ts without the one at an index.
Left(ts, at, us) ==
    /\ TabsTyped(us) /\ TabsDistinct(us) /\ TabsSound(us) /\ Len(us) = Len(ts) - 1
    /\ \A i \in 1..Len(us) : us[i].id # ts[at].id /\ \E j \in 1..Len(ts) : us[i] = ts[j]
    /\ \A j \in 1..Len(ts) : j # at => \E i \in 1..Len(us) : us[i] = ts[j]

\* A tab is taken out; the others stay, in their order.
LEMMA Removed ==
  ASSUME NEW ts, TabsTyped(ts), TabsDistinct(ts), TabsSound(ts),
         NEW ids, NEW ps, TabsCounted(ts, ids, ps), NEW at \in 1..Len(ts), NEW us, us = Remove(ts, ts[at].id)
  PROVE  Left(ts, at, us) /\ TabsCounted(us, ids, ps)
  <1> DEFINE n == Len(ts) - 1
  <1>1. Len(ts) \in Nat /\ n \in Nat
    BY TypedMeans
  <1>2. IndexOfId(ts, ts[at].id) = {at} /\ Smallest(IndexOfId(ts, ts[at].id)) = at
    <2>1. Len(ts) \in Nat
      BY <1>1
    <2> QED  BY <2>1, Found
  <1>3. us = [k \in 1..n |-> IF k < at THEN ts[k] ELSE ts[k + 1]]
    <2>1. us = IF IndexOfId(ts, ts[at].id) = {} THEN ts
               ELSE [k \in 1..n |-> IF k < Smallest(IndexOfId(ts, ts[at].id)) THEN ts[k] ELSE ts[k + 1]]
      BY DEF Remove, IndexOfId
    <2> QED  BY <1>2, <2>1
  <1> HIDE DEF n
  <1>4. \A k \in 1..n : us[k] = IF k < at THEN ts[k] ELSE ts[k + 1]
    BY <1>3
  <1>n. n = Len(ts) - 1
    BY DEF n
  <1>5. \A k \in 1..n : us[k] \in Tab(Histories(ts))
    <2>1. \A i \in 1..Len(ts) : ts[i] \in Tab(Histories(ts))
      BY TypedMeans
    <2> SUFFICES ASSUME NEW k \in 1..n  PROVE us[k] \in Tab(Histories(ts))
      OBVIOUS
    <2>2. k \in 1..Len(ts) /\ k + 1 \in 1..Len(ts)
      BY <1>1, <1>n
    <2>3. ts[k] \in Tab(Histories(ts)) /\ ts[k + 1] \in Tab(Histories(ts))
      BY <2>1, <2>2
    <2>4. us[k] = ts[k] \/ us[k] = ts[k + 1]
      BY <1>4
    <2> QED  BY <2>3, <2>4
  <1>6. TabsTyped(us) /\ Len(us) = n
    BY <1>1, <1>3, <1>5, MadeOf
  <1>7. TabsDistinct(us)
    <2> SUFFICES ASSUME NEW i \in 1..n, NEW j \in 1..n, us[i].id = us[j].id \/ us[i].page = us[j].page
                 PROVE  i = j
      BY <1>6 DEF TabsDistinct
    <2> DEFINE a == IF i < at THEN i ELSE i + 1
               b == IF j < at THEN j ELSE j + 1
    <2>1. a \in 1..Len(ts) /\ b \in 1..Len(ts)
      BY <1>1, <1>n
    <2>2. us[i] = ts[a] /\ us[j] = ts[b]
      BY <1>4
    <2>3. a = b
      BY <2>1, <2>2 DEF TabsDistinct
    <2> QED  BY <2>3, <1>1, <1>n
  <1>8. TabsSound(us)
    BY <1>1, <1>4, <1>6, <1>n DEF TabsSound
  <1>9. \A i \in 1..Len(us) : us[i].id # ts[at].id /\ \E j \in 1..Len(ts) : us[i] = ts[j]
    <2> SUFFICES ASSUME NEW i \in 1..n  PROVE us[i].id # ts[at].id /\ \E j \in 1..Len(ts) : us[i] = ts[j]
      BY <1>6
    <2> DEFINE a == IF i < at THEN i ELSE i + 1
    <2>1. a \in 1..Len(ts) /\ a # at /\ us[i] = ts[a]
      BY <1>1, <1>n, <1>4
    <2> QED  BY <2>1 DEF TabsDistinct
  <1>10. \A j \in 1..Len(ts) : j # at => \E i \in 1..Len(us) : us[i] = ts[j]
    <2> SUFFICES ASSUME NEW j \in 1..Len(ts), j # at  PROVE \E i \in 1..n : us[i] = ts[j]
      BY <1>6
    <2>1. CASE j < at
      <3>1. j \in 1..n /\ us[j] = ts[j]
        BY <2>1, <1>1, <1>n, <1>4
      <3> QED  BY <3>1
    <2>2. CASE j > at
      <3>1. j - 1 \in 1..n /\ ~(j - 1 < at) /\ (j - 1) + 1 = j
        BY <2>2, <1>1, <1>n
      <3>2. us[j - 1] = ts[j]
        BY <3>1, <1>4
      <3> QED  BY <3>1, <3>2
    <2> QED  BY <2>1, <2>2
  <1>11. TabsCounted(us, ids, ps)
    BY <1>9 DEF TabsCounted
  <1> QED  BY <1>6, <1>7, <1>8, <1>9, <1>10, <1>11, <1>n DEF Left

-----------------------------------------------------------------------------
(* What the parts of the invariant need of a step *)

\* The tabs there were are still there, no earlier in their navigations.
Grown(ts, us) ==
    /\ Len(ts) <= Len(us)
    /\ \A i \in 1..Len(ts) : us[i].id = ts[i].id /\ us[i].page = ts[i].page /\ ts[i].rev <= us[i].rev

\* Spending one limit leaves the others and what pages may show.
LEMMA Spent ==
  ASSUME BrowserTyped, NEW what \in Limits, Spend(what)
  PROVE  DOMAIN lim' = Limits \cup {"show"} /\ lim'.show = lim.show /\ lim'.show \subseteq Seq(Node)
  <1>1. what # "show"
    BY DEF Limits
  <1>2. lim' = [lim EXCEPT ![what] = @ - 1]
    BY DEF Spend
  <1> QED  BY <1>1, <1>2 DEF BrowserTyped

\* The tabs are left alone.
LEMMA TidyKept ==
  ASSUME Tidy, UNCHANGED tabVars, pages \in Nat, pages' \in Nat, pages <= pages'
  PROVE  Tidy' /\ Len(tabs) \in Nat /\ Grown(tabs, tabs')
  <1>1. Len(tabs) \in Nat /\ \A i \in 1..Len(tabs) : tabs[i].rev \in Nat
    BY TypedMeans DEF Tidy, Tab
  <1>2. TabsCounted(tabs, tabSeq, pages')
    BY DEF Tidy, TabsCounted
  <1>3. TabsCounted(tabs', tabSeq', pages')
    BY <1>2 DEF tabVars
  <1>4. Tidy'
    BY <1>3 DEF Tidy, tabVars
  <1> QED  BY <1>1, <1>4 DEF Grown, tabVars

\* The operation that is running goes on as before.
LEMMA JobKept ==
  ASSUME Tidy, Tidy', JobSound, Grown(tabs, tabs'), UNCHANGED <<job, resolved>>,
         pages \in Nat, pages' \in Nat, pages <= pages'
  PROVE  JobSound'
  <1>1. Len(tabs) \in Nat /\ Len(tabs') \in Nat /\ 1..Len(tabs) \subseteq 1..Len(tabs')
    <2>1. Len(tabs) \in Nat /\ Len(tabs') \in Nat
      BY TypedMeans DEF Tidy
    <2> QED  BY <2>1 DEF Grown
  <1>2. \A id : Index(id) # {} => Index(id)' # {}
    BY <1>1 DEF Index, Grown
  <1>3. ASSUME NEW id, Index(id) # {}, NEW i \in 1..Len(tabs'), tabs'[i].id = id
        PROVE  i \in 1..Len(tabs) /\ tabs[i].id = id
    <2>1. PICK j \in 1..Len(tabs) : tabs[j].id = id
      BY <1>3 DEF Index
    <2>2. j \in 1..Len(tabs') /\ tabs'[j].id = id
      BY <1>1, <2>1 DEF Grown
    <2>3. i = j
      BY <2>2, <1>3 DEF Tidy, TabsDistinct
    <2> QED  BY <2>1, <2>3
  <1>4. CloseSound'
    <2> SUFFICES ASSUME job.kind = "close"  PROVE CloseSound'
      BY DEF CloseSound
    <2>1. /\ job \in [kind : {"close"}, id : Nat, new : Nat \cup {None}, page : Nat, pc : {"replace", "close"}]
          /\ Index(job.id) # {}
      BY DEF JobSound, CloseSound
    <2>2. job.pc = "replace" =>
            /\ job.new = None /\ job.page \in 1..pages'
            /\ \A i \in 1..Len(tabs') : tabs'[i].id = job.id => tabs'[i].page # job.page
      <3> SUFFICES ASSUME job.pc = "replace"
                   PROVE  /\ job.new = None /\ job.page \in 1..pages'
                          /\ \A i \in 1..Len(tabs') : tabs'[i].id = job.id => tabs'[i].page # job.page
        OBVIOUS
      <3>1. /\ job.new = None /\ job.page \in 1..pages
            /\ \A i \in 1..Len(tabs) : tabs[i].id = job.id => tabs[i].page # job.page
        BY DEF JobSound, CloseSound
      <3>2. \A i \in 1..Len(tabs') : tabs'[i].id = job.id => tabs'[i].page # job.page
        BY <2>1, <1>3, <3>1 DEF Grown
      <3> QED  BY <3>1, <3>2
    <2>3. job.pc = "close" => IF job.new = None THEN Len(tabs') >= 2 ELSE job.new # job.id /\ Index(job.new)' # {}
      BY <1>1, <1>2 DEF JobSound, CloseSound, Grown
    <2>4. Index(job.id)' # {}
      BY <2>1, <1>2
    <2> QED  BY <2>1, <2>2, <2>3, <2>4 DEF CloseSound
  <1>5. SnapshotSound'
    <2> SUFFICES ASSUME job.kind = "snapshot"  PROVE SnapshotSound'
      BY DEF SnapshotSound
    <2>1. /\ job \in [kind : {"snapshot"}, id : Nat, gen : Nat, since : 1..2 \cup {None},
                      nodes : Seq(Node) \cup {None}, seen : Nat]
          /\ Index(job.id) # {}
          /\ \A i \in 1..Len(tabs) : tabs[i].id = job.id =>
                /\ job.gen <= tabs[i].rev
                /\ job.nodes # None => job.gen <= job.seen /\ job.seen <= tabs[i].rev
      BY DEF JobSound, SnapshotSound
    <2>2. ASSUME NEW i \in 1..Len(tabs'), tabs'[i].id = job.id
          PROVE  /\ job.gen <= tabs'[i].rev
                 /\ job.nodes # None => job.gen <= job.seen /\ job.seen <= tabs'[i].rev
      <3>1. i \in 1..Len(tabs) /\ tabs[i].id = job.id
        BY <2>1, <2>2, <1>3
      <3>2. tabs[i].rev \in Nat /\ tabs'[i].rev \in Nat /\ tabs[i].rev <= tabs'[i].rev
        <4>1. tabs[i] \in Tab(Histories(tabs))
          BY <3>1, TypedMeans DEF Tidy
        <4>2. tabs'[i] \in Tab(Histories(tabs'))
          BY <2>2, TypedMeans DEF Tidy
        <4> QED  BY <3>1, <4>1, <4>2 DEF Tab, Grown
      <3>3. job.gen \in Nat /\ job.seen \in Nat
        BY <2>1
      <3> QED  BY <2>1, <3>1, <3>2, <3>3
    <2>3. Index(job.id)' # {}
      BY <2>1, <1>2
    <2> QED  BY <2>1, <2>2, <2>3 DEF SnapshotSound
  <1>6. ResolveSound'
    BY DEF JobSound, ResolveSound
  <1>7. RelaunchSound'
    <2>1. \A p : IndexOfPage(tabs, p) # {} => IndexOfPage(tabs', p) # {}
      BY <1>1 DEF IndexOfPage, Grown
    <2> QED  BY <2>1 DEF JobSound, RelaunchSound
  <1> QED  BY <1>4, <1>5, <1>6, <1>7 DEF JobSound

\* The pages stay numbered without a gap when one more shows something.
LEMMA OnePageMore ==
  ASSUME NEW n \in Nat, NEW S, NEW old \in [1..n -> S], NEW c \in S
  PROVE  Shows(old, n + 1, c) \in [1..(n + 1) -> S]
  <1>1. 1..n \cup {n + 1} = 1..(n + 1)
    OBVIOUS
  <1> QED  BY <1>1 DEF Shows

\* A page has opened, and waits for its admissions.
LEMMA OpenedMeans ==
  ASSUME BrowserTyped, NEW events \in Nat \ {0}, Opened(events)
  PROVE  /\ pages' = pages + 1 /\ pages \in Nat /\ pages' \in Nat
         /\ open' = open \cup {pages + 1} /\ open' \subseteq 1..pages'
         /\ content' \in [1..pages' -> Seq(Node)]
         /\ admissions' \in Seq(1..pages') /\ admissions' # <<>>
         /\ \A k \in 1..Len(admissions) : k \in 1..Len(admissions') /\ admissions'[k] = admissions[k]
         /\ \E k \in 1..Len(admissions') : admissions'[k] = pages + 1
  <1>1. pages \in Nat /\ open \subseteq 1..pages /\ content \in [1..pages -> Seq(Node)]
        /\ admissions \in Seq(1..pages) /\ lim.show \subseteq Seq(Node)
    BY DEF BrowserTyped
  <1>2. pages' = pages + 1 /\ open' = open \cup {pages + 1}
        /\ admissions' = admissions \o [k \in 1..events |-> pages + 1]
    BY DEF Opened
  <1>3. content' \in [1..pages' -> Seq(Node)]
    <2>1. PICK c \in lim.show : content' = Shows(content, pages + 1, c)
      BY DEF Opened
    <2>2. c \in Seq(Node)
      BY <1>1, <2>1
    <2> QED  BY <1>1, <1>2, <2>1, <2>2, OnePageMore
  <1> DEFINE new == [k \in 1..events |-> pages + 1]
  <1>4. admissions \in Seq(1..pages') /\ new \in Seq(1..pages') /\ Len(new) = events
    <2>1. admissions \in Seq(1..pages')
      <3>1. Len(admissions) \in Nat /\ admissions \in [1..Len(admissions) -> 1..pages]
        BY <1>1
      <3>2. admissions \in [1..Len(admissions) -> 1..pages']
        BY <1>1, <1>2, <3>1
      <3> QED  BY <3>1, <3>2, Sequenced
    <2>2. pages + 1 \in 1..pages'
      BY <1>1, <1>2
    <2>3. new \in [1..events -> 1..pages']
      BY <2>2
    <2> QED  BY <2>1, <2>3
  <1>5. \A k \in 1..events : new[k] = pages + 1
    OBVIOUS
  <1> HIDE DEF new
  <1>6. admissions' = admissions \o new
    BY <1>2 DEF new
  <1>7. /\ admissions' \in Seq(1..pages') /\ Len(admissions') = Len(admissions) + events
        /\ Len(admissions) \in Nat
        /\ \A k \in 1..Len(admissions) : admissions'[k] = admissions[k]
        /\ admissions'[Len(admissions) + 1] = new[1]
    <2>1. Len(admissions) \in Nat /\ Len(new) = events
      BY <1>1, <1>4
    <2>2. /\ admissions' \in Seq(1..pages') /\ Len(admissions') = Len(admissions) + Len(new)
          /\ \A k \in 1..(Len(admissions) + Len(new)) :
                admissions'[k] = IF k <= Len(admissions) THEN admissions[k] ELSE new[k - Len(admissions)]
      BY <1>4, <1>6, ConcatProperties
    <2> QED  BY <2>1, <2>2
  <1>8. admissions'[Len(admissions) + 1] = pages + 1 /\ Len(admissions) + 1 \in 1..Len(admissions')
    BY <1>5, <1>7
  <1>9. admissions' # <<>>
    BY <1>7, <1>8
  <1>10. \A k \in 1..Len(admissions) : k \in 1..Len(admissions')
    BY <1>7
  <1>11. open' \subseteq 1..pages' /\ pages' \in Nat
    BY <1>1, <1>2
  <1>12. \E k \in 1..Len(admissions') : admissions'[k] = pages + 1
    BY <1>8
  <1> QED  BY <1>1, <1>2, <1>3, <1>7, <1>9, <1>10, <1>11, <1>12

\* The number of tabs does not change, nor does what bounds it.
LEMMA RoomKept ==
  ASSUME RoomLeft, Len(tabs') = Len(tabs), UNCHANGED <<job, late>>,
         admitting' = "checking" => admitting = "checking"
  PROVE  RoomLeft'
  BY DEF RoomLeft, Expected, Limit, Replacing

\* Pages are announced, and none is opened otherwise.
LEMMA EscapesKept ==
  ASSUME NoPageEscapes, Len(tabs) \in Nat, Len(tabs') \in Nat, Grown(tabs, tabs'), UNCHANGED job,
         \A k \in 1..Len(admissions) : k \in 1..Len(admissions') /\ admissions'[k] = admissions[k],
         \A p \in open' \ open : \E k \in 1..Len(admissions') : admissions'[k] = p
  PROVE  NoPageEscapes'
  <1> SUFFICES ASSUME NEW p \in open'  PROVE Registered(p)' \/ Awaited(p)'
    BY DEF NoPageEscapes
  <1>1. CASE p \notin open
    BY <1>1 DEF Awaited
  <1>2. CASE p \in open /\ Registered(p)
    <2>1. PICK i \in 1..Len(tabs) : tabs[i].page = p
      BY <1>2 DEF Registered, IndexOfPage
    <2>2. i \in 1..Len(tabs') /\ tabs'[i].page = p
      BY <2>1 DEF Grown
    <2> QED  BY <2>2 DEF Registered, IndexOfPage
  <1>3. CASE p \in open /\ Awaited(p)
    BY <1>3 DEF Awaited
  <1> QED  BY <1>1, <1>2, <1>3 DEF NoPageEscapes

\* What is known of the last reference stays while the reference does.
LEMMA RefsKept ==
  ASSUME RefNamesSeenElement, UNCHANGED resolved
  PROVE  RefNamesSeenElement'
  BY DEF RefNamesSeenElement

\* The browser is left alone.
LEMMA BrowserKept ==
  ASSUME BrowserTyped, UNCHANGED <<pages, open, content, admissions, admitting, late>>,
         DOMAIN lim' = Limits \cup {"show"} /\ lim'.show \subseteq Seq(Node)
  PROVE  BrowserTyped' /\ pages \in Nat /\ pages' \in Nat /\ pages <= pages'
  BY DEF BrowserTyped

\* The parts together, for a step that leaves the operation alone.
LEMMA Together ==
  ASSUME PageInv, Tidy', Grown(tabs, tabs'), BrowserTyped', RoomLeft', NoPageEscapes',
         UNCHANGED <<job, resolved>>, pages <= pages'
  PROVE  PageInv'
  <1>1. pages \in Nat /\ pages' \in Nat
    BY DEF PageInv, BrowserTyped
  <1>2. JobSound'
    BY <1>1, JobKept DEF PageInv
  <1>3. RefNamesSeenElement'
    BY RefsKept DEF PageInv
  <1> QED  BY <1>2, <1>3 DEF PageInv

\* A page's generation moves on, and so does the session's if it is the active
\* tab's.
LEMMA Noted ==
  ASSUME Tidy, pages \in Nat, pages' \in Nat, pages <= pages', NEW i \in 1..Len(tabs), NEW n \in Nat,
         NotePageGeneration(tabs[i].id, n)
  PROVE  Tidy' /\ Grown(tabs, tabs') /\ Len(tabs') = Len(tabs) /\ Len(tabs) \in Nat
  <1>1. /\ Len(tabs) \in Nat
        /\ \A j \in 1..Len(tabs) : tabs[j] \in Tab(Histories(tabs))
    BY TypedMeans DEF Tidy
  <1>2. \A j \in 1..Len(tabs) : tabs[j].id = tabs[i].id => j = i
    BY DEF Tidy, TabsDistinct
  <1>3. Revision(tabs[i].id) = tabs[i].rev
    <2>1. Smallest(IndexOfId(tabs, tabs[i].id)) = i
      BY <1>1, Found DEF Tidy
    <2>2. Index(tabs[i].id) = IndexOfId(tabs, tabs[i].id)
      BY DEF Index, IndexOfId
    <2> QED  BY <2>1, <2>2 DEF Revision
  <1>4. /\ tabs' = [j \in 1..Len(tabs) |->
                      IF tabs[j].id # tabs[i].id THEN tabs[j]
                      ELSE [tabs[j] EXCEPT !.rev = @ + n, !.reg = SetGeneration(@, tabs[j].rev + n)]]
        /\ gen' = (IF tabs[i].id = active THEN tabs[i].rev + n ELSE gen)
        /\ active' = active /\ tabSeq' = tabSeq
    BY <1>3 DEF NotePageGeneration
  <1>5. \A j \in 1..Len(tabs) :
          /\ tabs'[j] \in Tab(Histories(tabs)) /\ tabs'[j].id = tabs[j].id /\ tabs'[j].page = tabs[j].page
          /\ tabs'[j].rev = (IF j = i THEN tabs[j].rev + n ELSE tabs[j].rev)
          /\ TabSound(tabs'[j])
    <2> SUFFICES ASSUME NEW j \in 1..Len(tabs)
                 PROVE  /\ tabs'[j] \in Tab(Histories(tabs)) /\ tabs'[j].id = tabs[j].id /\ tabs'[j].page = tabs[j].page
                        /\ tabs'[j].rev = (IF j = i THEN tabs[j].rev + n ELSE tabs[j].rev)
                        /\ TabSound(tabs'[j])
      OBVIOUS
    <2>1. tabs[j] \in Tab(Histories(tabs)) /\ TabSound(tabs[j])
      BY <1>1 DEF Tidy, TabsSound
    <2>2. CASE j # i
      <3>1. tabs'[j] = tabs[j]
        BY <1>2, <1>4, <2>2
      <3> QED  BY <2>1, <2>2, <3>1
    <2>3. CASE j = i
      <3> DEFINE r == SetGeneration(tabs[j].reg, tabs[j].rev + n)
      <3>1. tabs'[j] = [tabs[j] EXCEPT !.rev = @ + n, !.reg = r]
        BY <1>4, <2>3
      <3>2. tabs[j].rev + n \in Nat /\ tabs[j].reg \in Registry
        BY <2>1 DEF Tab
      <3>3. r \in Registry /\ r.gen = tabs[j].rev + n /\ r.recs = <<>>
        <4>1. <<>> \in Seq(Record)
          OBVIOUS
        <4> QED  BY <3>2, <4>1 DEF SetGeneration, Registry
      <3> HIDE DEF r
      <3>4. /\ tabs'[j] \in Tab(Histories(tabs)) /\ tabs'[j].id = tabs[j].id /\ tabs'[j].page = tabs[j].page
            /\ tabs'[j].rev = tabs[j].rev + n /\ tabs'[j].reg = r
        BY <2>1, <3>1, <3>2, <3>3 DEF Tab
      <3>5. TabSound(tabs'[j])
        BY <3>3, <3>4, MaxRefsAssumption DEF TabSound, RefsSound
      <3> QED  BY <2>3, <3>4, <3>5
    <2> QED  BY <2>2, <2>3
  <1>6. TabsTyped(tabs') /\ Len(tabs') = Len(tabs)
    <2>1. tabs' = [j \in 1..Len(tabs) |-> tabs'[j]]
      BY <1>4
    <2> QED  BY <1>1, <1>5, <2>1, MadeOf
  <1>7. Grown(tabs, tabs')
    BY <1>1, <1>5, <1>6 DEF Grown, Tab
  <1>8. TabsDistinct(tabs') /\ TabsCounted(tabs', tabSeq', pages')
    <2>1. TabsDistinct(tabs') /\ TabsCounted(tabs', tabSeq, pages)
      BY <1>5, <1>6, SamePlaces DEF Tidy
    <2>2. tabSeq' = tabSeq
      BY <1>4
    <2>3. 1..pages \subseteq 1..pages'
      OBVIOUS
    <2> QED  BY <2>1, <2>2, <2>3 DEF TabsCounted
  <1>9. TabsSound(tabs')
    BY <1>5, <1>6 DEF TabsSound
  <1>10. GenFollows(tabs', active', gen') /\ gen' \in Nat
    <2>1. tabs[i].rev \in Nat /\ gen \in Nat
      BY <1>1 DEF Tidy, Tab
    <2>2. GenFollows(tabs, active, gen)
      BY DEF Tidy
    <2>3. gen' \in Nat
      <3>1. gen' = tabs[i].rev + n \/ gen' = gen
        BY <1>4
      <3> QED  BY <2>1, <3>1
    <2>4. ASSUME NEW j \in 1..Len(tabs'), tabs'[j].id = active'  PROVE gen' = tabs'[j].rev
      BY <1>2, <1>4, <1>5, <1>6, <2>2, <2>4 DEF GenFollows
    <2> QED  BY <2>3, <2>4 DEF GenFollows
  <1> QED  BY <1>1, <1>4, <1>6, <1>7, <1>8, <1>9, <1>10 DEF Tidy

\* One tab has another registry.
LEMMA Reregistered ==
  ASSUME Tidy, NEW i \in 1..Len(tabs), NEW r \in Registry, NEW hs, NEW h \in hs, NEW t,
         t = [tabs[i] EXCEPT !.reg = r, !.hist = h] \/ t = [tabs[i] EXCEPT !.reg = r], TabSound(t),
         tabs' = [tabs EXCEPT ![i] = t],
         UNCHANGED <<active, gen, tabSeq, pages>>
  PROVE  Tidy' /\ Grown(tabs, tabs') /\ Len(tabs') = Len(tabs) /\ Len(tabs) \in Nat
  <1> DEFINE H == Histories(tabs) \cup hs
  <1>1. /\ Len(tabs) \in Nat /\ DOMAIN tabs = 1..Len(tabs)
        /\ \A j \in 1..Len(tabs) : tabs[j] \in Tab(Histories(tabs))
    BY TypedMeans DEF Tidy
  <1>2. t \in Tab(H) /\ t.id = tabs[i].id /\ t.page = tabs[i].page /\ t.rev = tabs[i].rev
    BY <1>1 DEF Tab
  <1>3. \A j \in 1..Len(tabs) :
          /\ tabs'[j] \in Tab(H) /\ tabs'[j].id = tabs[j].id /\ tabs'[j].page = tabs[j].page
          /\ tabs'[j].rev = tabs[j].rev /\ TabSound(tabs'[j])
    <2> SUFFICES ASSUME NEW j \in 1..Len(tabs)
                 PROVE  /\ tabs'[j] \in Tab(H) /\ tabs'[j].id = tabs[j].id /\ tabs'[j].page = tabs[j].page
                        /\ tabs'[j].rev = tabs[j].rev /\ TabSound(tabs'[j])
      OBVIOUS
    <2>1. tabs[j] \in Tab(H) /\ TabSound(tabs[j])
      BY <1>1 DEF Tidy, TabsSound, Tab
    <2>2. tabs'[j] = IF j = i THEN t ELSE tabs[j]
      BY <1>1
    <2> QED  BY <1>2, <2>1, <2>2
  <1> HIDE DEF H
  <1>4. TabsTyped(tabs') /\ Len(tabs') = Len(tabs)
    <2>1. tabs' = [j \in 1..Len(tabs) |-> tabs'[j]]
      BY <1>1
    <2> QED  BY <1>1, <1>3, <2>1, MadeOf
  <1>5. TabsDistinct(tabs') /\ TabsCounted(tabs', tabSeq', pages')
    <2>1. TabsDistinct(tabs') /\ TabsCounted(tabs', tabSeq, pages)
      BY <1>3, <1>4, SamePlaces DEF Tidy
    <2> QED  BY <2>1
  <1>6. TabsSound(tabs')
    BY <1>3, <1>4 DEF TabsSound
  <1>7. GenFollows(tabs', active', gen')
    BY <1>3, <1>4 DEF Tidy, GenFollows
  <1>8. Grown(tabs, tabs')
    BY <1>1, <1>3, <1>4 DEF Grown, Tab
  <1>9. active' \in 1..tabSeq' /\ gen' \in Nat /\ tabSeq' \in Nat
    BY DEF Tidy
  <1> QED  BY <1>1, <1>4, <1>5, <1>6, <1>7, <1>8, <1>9 DEF Tidy

-----------------------------------------------------------------------------
(* The browser *)

\* framenavigated: every observer of the page notes a generation.
LEMMA NavigatesKeeps ==
  ASSUME PageInv, NEW i \in 1..Len(tabs), Navigates(i)
  PROVE  PageInv'
  <1>1. BrowserTyped /\ Tidy /\ RoomLeft /\ NoPageEscapes
    BY DEF PageInv
  <1>2. /\ Spend("navs") /\ tabs[i].page \in open /\ NotePageGeneration(tabs[i].id, tabs[i].obs)
        /\ UNCHANGED <<open, pages, admissions, admitting, job, late, resolved>>
        /\ \E c \in lim.show : content' = [content EXCEPT ![tabs[i].page] = c]
    BY DEF Navigates, history
  <1>3. pages \in Nat /\ pages' \in Nat /\ pages <= pages'
    BY <1>1, <1>2 DEF BrowserTyped
  <1>4. tabs[i].obs \in Nat
    BY <1>1, TypedMeans DEF Tidy, Tab
  <1>5. Tidy' /\ Grown(tabs, tabs') /\ Len(tabs') = Len(tabs) /\ Len(tabs) \in Nat
    BY <1>1, <1>2, <1>3, <1>4, Noted
  <1>6. DOMAIN lim' = Limits \cup {"show"} /\ lim'.show \subseteq Seq(Node)
    BY <1>1, <1>2, Spent DEF Limits
  <1>7. content' \in [1..pages -> Seq(Node)]
    BY <1>1, <1>2 DEF BrowserTyped
  <1>8. BrowserTyped'
    BY <1>1, <1>2, <1>6, <1>7 DEF BrowserTyped
  <1>9. RoomLeft'
    BY <1>1, <1>2, <1>5, RoomKept
  <1>10. NoPageEscapes'
    BY <1>1, <1>2, <1>5, EscapesKept
  <1> QED  BY <1>2, <1>3, <1>5, <1>8, <1>9, <1>10, Together

\* Nothing the session knows changes.
LEMMA UnknownKeeps ==
  ASSUME PageInv, UNCHANGED <<tabVars, pages, open, admissions, admitting, job, late, resolved>>,
         content' \in [1..pages -> Seq(Node)],
         DOMAIN lim' = Limits \cup {"show"} /\ lim'.show \subseteq Seq(Node)
  PROVE  PageInv'
  <1>1. BrowserTyped /\ Tidy /\ RoomLeft /\ NoPageEscapes
    BY DEF PageInv
  <1>2. BrowserTyped' /\ pages \in Nat /\ pages' \in Nat /\ pages <= pages'
    BY <1>1 DEF BrowserTyped
  <1>3. Tidy' /\ Len(tabs) \in Nat /\ Grown(tabs, tabs')
    BY <1>1, <1>2, TidyKept
  <1>4. tabs' = tabs
    BY DEF tabVars
  <1>5. RoomLeft'
    BY <1>1, <1>4, RoomKept
  <1>6. NoPageEscapes'
    BY <1>1, <1>3, <1>4, EscapesKept
  <1> QED  BY <1>2, <1>3, <1>5, <1>6, Together

\* A page changes without being noticed.
LEMMA ContentChangesKeeps ==
  ASSUME PageInv, NEW p \in open, ContentChanges(p)
  PROVE  PageInv'
  <1>1. BrowserTyped
    BY DEF PageInv
  <1>2. PICK c \in lim.show : content' = [content EXCEPT ![p] = c]
    BY DEF ContentChanges
  <1>3. content' \in [1..pages -> Seq(Node)]
    BY <1>1, <1>2 DEF BrowserTyped
  <1>4. Spend("changes") /\ UNCHANGED <<tabVars, pages, open, admissions, admitting, job, late, resolved>>
    BY DEF ContentChanges, history
  <1>5. DOMAIN lim' = Limits \cup {"show"} /\ lim'.show \subseteq Seq(Node)
    BY <1>1, <1>4, Spent DEF Limits
  <1> QED  BY <1>3, <1>4, <1>5, UnknownKeeps

\* Time and a crash of the page touch neither tabs nor references.
LEMMA ClockAndCrashKeep ==
  ASSUME PageInv, Crash \/ ClockTicks
  PROVE  PageInv'
  <1>1. BrowserTyped
    BY DEF PageInv
  <1>2. PICK what \in Limits : Spend(what)
    BY DEF Crash, ClockTicks, Limits
  <1>3. UNCHANGED <<tabVars, pages, open, content, admissions, admitting, job, late, resolved>>
    BY DEF Crash, ClockTicks, openVars, history
  <1>4. DOMAIN lim' = Limits \cup {"show"} /\ lim'.show \subseteq Seq(Node)
    BY <1>1, <1>2, Spent
  <1>5. content' \in [1..pages -> Seq(Node)]
    BY <1>1, <1>3 DEF BrowserTyped
  <1> QED  BY <1>3, <1>4, <1>5, UnknownKeeps

\* A page opens another, which waits for its admission.
LEMMA PopupKeeps ==
  ASSUME PageInv, NEW i \in 1..Len(tabs), Popup(i)
  PROVE  PageInv'
  <1>1. BrowserTyped /\ Tidy /\ RoomLeft /\ NoPageEscapes
    BY DEF PageInv
  <1>2. /\ Spend("popups") /\ Opened(1 + tabs[i].obs)
        /\ UNCHANGED <<tabVars, admitting, job, late, resolved>>
    BY DEF Popup, history
  <1>3. 1 + tabs[i].obs \in Nat \ {0}
    BY <1>1, TypedMeans DEF Tidy, Tab
  <1>4. /\ pages' = pages + 1 /\ pages \in Nat /\ pages' \in Nat
        /\ open' = open \cup {pages + 1} /\ open' \subseteq 1..pages'
        /\ content' \in [1..pages' -> Seq(Node)]
        /\ admissions' \in Seq(1..pages') /\ admissions' # <<>>
        /\ \A k \in 1..Len(admissions) : k \in 1..Len(admissions') /\ admissions'[k] = admissions[k]
        /\ \E k \in 1..Len(admissions') : admissions'[k] = pages + 1
    BY <1>1, <1>2, <1>3, OpenedMeans
  <1>5. DOMAIN lim' = Limits \cup {"show"} /\ lim'.show \subseteq Seq(Node)
    BY <1>1, <1>2, Spent DEF Limits
  <1>6. pages <= pages'
    BY <1>4
  <1>7. Tidy' /\ Len(tabs) \in Nat /\ Grown(tabs, tabs')
    BY <1>1, <1>2, <1>4, <1>6, TidyKept
  <1>8. BrowserTyped'
    BY <1>1, <1>2, <1>4, <1>5 DEF BrowserTyped
  <1>9. tabs' = tabs
    BY <1>2 DEF tabVars
  <1>10. RoomLeft'
    BY <1>1, <1>2, <1>9, RoomKept
  <1>11. NoPageEscapes'
    BY <1>1, <1>2, <1>4, <1>7, <1>9, EscapesKept
  <1> QED  BY <1>2, <1>6, <1>7, <1>8, <1>10, <1>11, Together

\* The oldest reference of a tab is forgotten.
LEMMA RefExpiresKeeps ==
  ASSUME PageInv, NEW i \in 1..Len(tabs), RefExpires(i)
  PROVE  PageInv'
  <1>1. BrowserTyped /\ Tidy /\ RoomLeft /\ NoPageEscapes
    BY DEF PageInv
  <1>2. /\ Spend("expiries") /\ tabs[i].reg.recs # <<>>
        /\ tabs' = [tabs EXCEPT ![i].reg = PruneOldest(@)]
        /\ UNCHANGED <<active, gen, tabSeq, open, content, pages, admissions, admitting, job, late, resolved>>
    BY DEF RefExpires, Quiet, openVars, history
  <1>3. DOMAIN lim' = Limits \cup {"show"} /\ lim'.show \subseteq Seq(Node)
    BY <1>1, <1>2, Spent DEF Limits
  <1>4. BrowserTyped' /\ pages \in Nat /\ pages' \in Nat /\ pages <= pages'
    BY <1>1, <1>2, <1>3, BrowserKept
  <1> DEFINE r == PruneOldest(tabs[i].reg)
  <1>5. r \in Registry /\ TabSound([tabs[i] EXCEPT !.reg = r])
    <2>1. tabs[i] \in Tab(Histories(tabs)) /\ TabSound(tabs[i])
      BY <1>1, TypedMeans DEF Tidy, TabsSound
    <2> DEFINE old == tabs[i].reg.recs
    <2>2. old \in Seq(Record) /\ old # <<>> /\ tabs[i].reg \in Registry
      BY <1>2, <2>1 DEF Tab, Registry
    <2>3. /\ Tail(old) \in Seq(Record) /\ Len(Tail(old)) = Len(old) - 1 /\ Len(old) \in Nat
          /\ \A k \in 1..Len(Tail(old)) : k + 1 \in 1..Len(old) /\ Tail(old)[k] = old[k + 1]
      BY <2>2
    <2>4. r = [tabs[i].reg EXCEPT !.recs = Tail(old)]
      BY DEF PruneOldest
    <2>5. r \in Registry /\ r.recs = Tail(old) /\ r.gen = tabs[i].reg.gen /\ r.seq = tabs[i].reg.seq
      BY <2>2, <2>3, <2>4 DEF Registry
    <2> DEFINE t == [tabs[i] EXCEPT !.reg = r]
    <2>6. t.reg = r /\ t.rev = tabs[i].rev
      BY <2>1 DEF Tab
    <2>7. Len(Tail(old)) <= MaxRefs
      BY <2>1, <2>3, MaxRefsAssumption DEF TabSound
    <2>8. RefsSound(old, tabs[i].reg.seq, tabs[i].rev)
      BY <2>1 DEF TabSound
    <2>9. t.reg.gen = t.rev
      BY <2>1, <2>5, <2>6 DEF TabSound
    <2> HIDE DEF t, r, old
    <2>10. RefsSound(Tail(old), tabs[i].reg.seq, tabs[i].rev)
      BY <2>3, <2>8 DEF RefsSound
    <2>11. TabSound(t)
      BY <2>5, <2>6, <2>7, <2>9, <2>10 DEF TabSound
    <2> QED  BY <2>5, <2>11 DEF t
  <1>6. tabs' = [tabs EXCEPT ![i] = [tabs[i] EXCEPT !.reg = r]]
    BY <1>2
  <1> HIDE DEF r
  <1>7. Tidy' /\ Grown(tabs, tabs') /\ Len(tabs') = Len(tabs) /\ Len(tabs) \in Nat
    BY <1>1, <1>2, <1>5, <1>6, Reregistered
  <1>8. RoomLeft'
    BY <1>1, <1>2, <1>7, RoomKept
  <1>9. NoPageEscapes'
    BY <1>1, <1>2, <1>7, EscapesKept
  <1> QED  BY <1>2, <1>4, <1>7, <1>8, <1>9, Together

-----------------------------------------------------------------------------
(* Admissions *)

\* A page is registered: it has a tab, perhaps a new one.
LEMMA RegisterKeepsTidy ==
  ASSUME Tidy, pages \in Nat, UNCHANGED pages, NEW p \in 1..pages, NEW main \in BOOLEAN,
         tabs' = RegisterTab(tabs, tabSeq + 1, p, main),
         tabSeq' = IF IndexOfPage(tabs, p) = {} THEN tabSeq + 1 ELSE tabSeq,
         UNCHANGED <<active, gen>>
  PROVE  /\ Tidy' /\ Grown(tabs, tabs') /\ Registered(p)' /\ Len(tabs) \in Nat /\ Len(tabs') \in Nat
         /\ Len(tabs') = IF IndexOfPage(tabs, p) = {} THEN Len(tabs) + 1 ELSE Len(tabs)
         /\ IndexOfPage(tabs, p) = {} => \E k \in 1..Len(tabs') : tabs'[k].id = tabSeq + 1
  <1>1. /\ Len(tabs) \in Nat /\ tabSeq \in Nat /\ tabSeq + 1 \in Nat /\ p \in Nat
        /\ \A i \in 1..Len(tabs) : tabs[i].rev \in Nat
        /\ TabsTyped(tabs) /\ TabsDistinct(tabs) /\ TabsSound(tabs) /\ TabsCounted(tabs, tabSeq, pages)
    BY TypedMeans DEF Tidy, Tab
  <1>2. CASE IndexOfPage(tabs, p) # {}
    <2>1. /\ TabsTyped(tabs') /\ TabsSound(tabs') /\ Len(tabs') = Len(tabs)
          /\ \A i \in 1..Len(tabs) : tabs'[i].id = tabs[i].id /\ tabs'[i].page = tabs[i].page
                                     /\ tabs'[i].rev = tabs[i].rev
      BY <1>1, <1>2, RegisteredAgain
    <2>2. TabsDistinct(tabs') /\ TabsCounted(tabs', tabSeq, pages)
      BY <1>1, <2>1, SamePlaces
    <2>3. GenFollows(tabs', active', gen')
      BY <2>1 DEF Tidy, GenFollows
    <2>4. tabSeq' = tabSeq
      BY <1>2
    <2>5. Tidy'
      BY <2>1, <2>2, <2>3, <2>4 DEF Tidy
    <2>6. Grown(tabs, tabs')
      BY <1>1, <2>1 DEF Grown
    <2>7. Registered(p)'
      BY <1>2, <2>1 DEF Registered, IndexOfPage
    <2> QED  BY <1>1, <1>2, <2>1, <2>5, <2>6, <2>7
  <1>3. CASE IndexOfPage(tabs, p) = {}
    <2> DEFINE n == Len(tabs) + 1
    <2>1. /\ TabsTyped(tabs') /\ TabsSound(tabs') /\ Len(tabs') = n
          /\ \A i \in 1..Len(tabs) : tabs'[i] = tabs[i]
          /\ tabs'[n].id = tabSeq + 1 /\ tabs'[n].page = p /\ tabs'[n].rev = 0
      <3>1. PICK us, id : us = tabs' /\ id = tabSeq + 1
        OBVIOUS
      <3>2. us = RegisterTab(tabs, id, p, main) /\ id \in Nat /\ p \in Nat
        BY <1>1, <3>1
      <3>3. TabsTyped(tabs) /\ TabsSound(tabs) /\ IndexOfPage(tabs, p) = {}
        BY <1>1, <1>3
      <3>4. /\ TabsTyped(us) /\ TabsSound(us) /\ Len(us) = n
            /\ \A i \in 1..Len(tabs) : us[i] = tabs[i]
            /\ us[Len(us)].id = id /\ us[Len(us)].page = p /\ us[Len(us)].rev = 0
        BY <3>2, <3>3, RegisteredNew
      <3> QED  BY <3>1, <3>4
    <2>2. tabSeq' = tabSeq + 1
      BY <1>3
    <2>3. \A i \in 1..n : i \in 1..Len(tabs) \/ i = n
      BY <1>1
    <2>4. n \in 1..n /\ n \in Nat /\ Len(tabs) <= n
      BY <1>1
    <2> HIDE DEF n
    <2>5. \A i \in 1..Len(tabs) : tabs'[i].id \in 1..tabSeq /\ tabs'[i].page \in 1..pages /\ tabs'[i].page # p
      BY <1>1, <1>3, <2>1 DEF TabsCounted, IndexOfPage
    <2>6. TabsCounted(tabs', tabSeq', pages')
      <3> SUFFICES ASSUME NEW i \in 1..n  PROVE tabs'[i].id \in 1..(tabSeq + 1) /\ tabs'[i].page \in 1..pages
        BY <2>1, <2>2 DEF TabsCounted
      <3> QED  BY <1>1, <2>1, <2>3, <2>5
    <2>7. TabsDistinct(tabs')
      <3> SUFFICES ASSUME NEW i \in 1..n, NEW j \in 1..n,
                          tabs'[i].id = tabs'[j].id \/ tabs'[i].page = tabs'[j].page
                   PROVE  i = j
        BY <2>1 DEF TabsDistinct
      <3>1. \A k \in 1..Len(tabs) : tabs'[k].id # tabSeq + 1
        BY <1>1, <2>5
      <3>2. CASE i \in 1..Len(tabs) /\ j \in 1..Len(tabs)
        BY <1>1, <2>1, <3>2 DEF TabsDistinct
      <3>3. CASE i = n \/ j = n
        BY <2>1, <2>3, <2>5, <3>1, <3>3
      <3> QED  BY <2>3, <3>2, <3>3
    <2>8. GenFollows(tabs', active', gen')
      <3> SUFFICES ASSUME NEW i \in 1..n, tabs'[i].id = active  PROVE gen = tabs'[i].rev
        BY <2>1 DEF GenFollows
      <3>1. i \in 1..Len(tabs)
        <4>1. active # tabSeq + 1
          BY <1>1 DEF Tidy
        <4> QED  BY <2>1, <2>3, <4>1
      <3> QED  BY <2>1, <3>1 DEF Tidy, GenFollows
    <2>9. active' \in 1..tabSeq' /\ gen' \in Nat /\ tabSeq' \in Nat
      BY <1>1, <2>2 DEF Tidy
    <2>10. Tidy'
      BY <2>1, <2>6, <2>7, <2>8, <2>9 DEF Tidy
    <2>11. Grown(tabs, tabs')
      BY <1>1, <2>1, <2>4 DEF Grown
    <2>12. Registered(p)'
      BY <2>1, <2>4 DEF Registered, IndexOfPage
    <2>13. Len(tabs') = Len(tabs) + 1
      BY <2>1 DEF n
    <2>14. \E k \in 1..Len(tabs') : tabs'[k].id = tabSeq + 1
      BY <2>1, <2>4
    <2> QED  BY <1>1, <1>3, <2>10, <2>11, <2>12, <2>13, <2>14
  <1> QED  BY <1>2, <1>3

\* The first announcement is done with: its page is closed or has a tab.
LEMMA EscapesSettled ==
  ASSUME NoPageEscapes, Len(tabs) \in Nat, Len(tabs') \in Nat, Grown(tabs, tabs'), UNCHANGED job,
         NEW S, admissions \in Seq(S), admissions # <<>>, admissions' = Tail(admissions), open' \subseteq open,
         NEW first, first = Head(admissions), first \notin open' \/ Registered(first)'
  PROVE  NoPageEscapes'
  <1> SUFFICES ASSUME NEW p \in open', p # first  PROVE Registered(p)' \/ Awaited(p)'
    BY DEF NoPageEscapes
  <1>1. CASE Registered(p)
    <2>1. PICK i \in 1..Len(tabs) : tabs[i].page = p
      BY <1>1 DEF Registered, IndexOfPage
    <2>2. i \in 1..Len(tabs') /\ tabs'[i].page = p
      BY <2>1 DEF Grown
    <2> QED  BY <2>2 DEF Registered, IndexOfPage
  <1>2. CASE \E k \in 1..Len(admissions) : admissions[k] = p
    <2>1. PICK k \in 1..Len(admissions) : admissions[k] = p
      BY <1>2
    <2>2. k # 1
      BY <2>1
    <2>3. k - 1 \in 1..Len(admissions') /\ admissions'[k - 1] = p
      BY <2>1, <2>2
    <2> QED  BY <2>3 DEF Awaited
  <1>3. CASE Awaited(p) /\ ~(\E k \in 1..Len(admissions) : admissions[k] = p)
    BY <1>3 DEF Awaited
  <1> QED  BY <1>1, <1>2, <1>3 DEF NoPageEscapes

\* handlePopup: a page turned away is closed, any other keeps its place.
LEMMA AdmissionBeginsKeeps ==
  ASSUME PageInv, AdmissionBegins
  PROVE  PageInv'
  <1>1. BrowserTyped /\ Tidy /\ RoomLeft /\ NoPageEscapes
    BY DEF PageInv
  <1>2. /\ admissions # <<>> /\ admitting = "idle"
        /\ UNCHANGED <<tabVars, job, lim, late, resolved>>
    BY DEF AdmissionBegins, history
  <1>3. pages \in Nat /\ admissions \in Seq(1..pages)
    BY <1>1 DEF BrowserTyped
  <1>4. CASE AdmitVerdict(Head(admissions)) = "check"
    <2>1. /\ admitting' = IF job.kind = "relaunch" THEN "late" ELSE "checking"
          /\ UNCHANGED <<admissions, pages, open, content>>
      BY <1>4 DEF AdmissionBegins, openVars
    <2>2. Tidy' /\ Len(tabs) \in Nat /\ Grown(tabs, tabs')
      BY <1>1, <1>2, <1>3, <2>1, TidyKept
    <2>3. BrowserTyped'
      BY <1>1, <1>2, <2>1 DEF BrowserTyped
    <2>4. tabs' = tabs
      BY <1>2 DEF tabVars
    <2>5. NoPageEscapes'
      BY <1>1, <1>2, <2>1, <2>2, <2>4, EscapesKept
    <2>6. Len(tabs) < MaxTabs
      BY <1>4, <2>2, PageAssumption DEF AdmitVerdict
    <2>7. RoomLeft'
      <3>1. Len(tabs') <= Limit' /\ Expected' <= Limit' /\ Limit' = Limit /\ Expected' = Expected
        BY <1>1, <1>2, <2>4 DEF RoomLeft, Limit, Expected, Replacing
      <3>2. job.kind # "relaunch" => Expected = Len(tabs)
        BY DEF Expected
      <3>3. Len(tabs) < Limit
        BY <1>1, <2>2, <2>6, PageAssumption DEF Limit, BrowserTyped
      <3> QED  BY <2>1, <2>4, <3>1, <3>2, <3>3 DEF RoomLeft
    <2>8. pages <= pages'
      BY <1>3, <2>1
    <2> QED  BY <1>2, <2>2, <2>3, <2>5, <2>7, <2>8, Together
  <1>5. CASE AdmitVerdict(Head(admissions)) # "check"
    <2>1. /\ open' = open \ {Head(admissions)} /\ admissions' = Tail(admissions)
          /\ UNCHANGED <<admitting, pages, content>>
      BY <1>5 DEF AdmissionBegins, ClosePage
    <2>2. Tidy' /\ Len(tabs) \in Nat /\ Grown(tabs, tabs')
      BY <1>1, <1>2, <1>3, <2>1, TidyKept
    <2>3. admissions' \in Seq(1..pages')
      BY <1>2, <1>3, <2>1
    <2>4. BrowserTyped'
      BY <1>1, <1>2, <2>1, <2>3 DEF BrowserTyped
    <2>5. tabs' = tabs
      BY <1>2 DEF tabVars
    <2>6. RoomLeft'
      BY <1>1, <1>2, <2>1, <2>5, RoomKept
    <2>7. NoPageEscapes'
      BY <1>1, <1>2, <1>3, <2>1, <2>2, <2>5, EscapesSettled
    <2>8. pages <= pages'
      BY <1>3, <2>1
    <2> QED  BY <1>2, <2>2, <2>4, <2>6, <2>7, <2>8, Together
  <1> QED  BY <1>4, <1>5

\* admitPopup after its await: the page has a tab or is closed.
LEMMA AdmissionEndsKeeps ==
  ASSUME PageInv, NEW allowed \in BOOLEAN, NEW audited \in BOOLEAN, AdmissionEnds(allowed, audited)
  PROVE  PageInv'
  <1>0. PICK p : p = Head(admissions)
    OBVIOUS
  <1>1. BrowserTyped /\ Tidy /\ RoomLeft /\ NoPageEscapes
    BY DEF PageInv
  <1>2. /\ admitting \in {"checking", "late"} /\ admitting' = "idle" /\ admissions' = Tail(admissions)
        /\ UNCHANGED <<job, lim, resolved>>
    BY DEF AdmissionEnds, AdmissionSettled
  <1>3. pages \in Nat /\ admissions \in Seq(1..pages) /\ admissions # <<>> /\ late \in Nat
    BY <1>1, <1>2 DEF BrowserTyped
  <1>4. p \in 1..pages
    BY <1>0, <1>3
  <1>5. CASE allowed
    <2>1. /\ tabs' = RegisterTab(tabs, tabSeq + 1, p, FALSE)
          /\ tabSeq' = IF IndexOfPage(tabs, p) = {} THEN tabSeq + 1 ELSE tabSeq
          /\ late' = IF IndexOfPage(tabs, p) = {} /\ (admitting = "late" \/ job.kind = "relaunch")
                     THEN late + 1 ELSE late
          /\ UNCHANGED <<active, gen, pages, open, content>>
      BY <1>0, <1>5 DEF AdmissionEnds, openVars
    <2>2. /\ Tidy' /\ Grown(tabs, tabs') /\ Registered(p)' /\ Len(tabs) \in Nat /\ Len(tabs') \in Nat
          /\ Len(tabs') = IF IndexOfPage(tabs, p) = {} THEN Len(tabs) + 1 ELSE Len(tabs)
      BY <1>1, <1>3, <1>4, <2>1, RegisterKeepsTidy
    <2>3. admissions' \in Seq(1..pages') /\ late' \in Nat
      BY <1>2, <1>3, <2>1
    <2>4. BrowserTyped'
      BY <1>1, <1>2, <2>1, <2>3 DEF BrowserTyped
    <2>5. RoomLeft'
      <3> DEFINE extra == IF Replacing THEN 1 ELSE 0
      <3>1. extra \in Nat /\ extra' = extra
        BY <1>2 DEF Replacing
      <3>2. Limit = MaxTabs + late + extra /\ Limit' = MaxTabs + late' + extra'
        BY DEF Limit
      <3> HIDE DEF extra
      <3>3. job.kind = "relaunch" => job.todo \in Nat
        BY DEF PageInv, JobSound, RelaunchSound
      <3>4. CASE late' = late + 1
        <4>1. Len(tabs') <= Limit' /\ Expected' <= Limit'
          BY <1>1, <1>2, <1>3, <2>2, <3>1, <3>2, <3>3, <3>4, PageAssumption DEF RoomLeft, Expected
        <4> QED  BY <1>2, <4>1 DEF RoomLeft
      <3>5. CASE late' = late /\ IndexOfPage(tabs, p) # {}
        <4>1. Len(tabs') <= Limit' /\ Expected' <= Limit'
          BY <1>1, <1>2, <1>3, <2>2, <3>1, <3>2, <3>3, <3>5, PageAssumption DEF RoomLeft, Expected
        <4> QED  BY <1>2, <4>1 DEF RoomLeft
      <3>6. CASE late' = late /\ IndexOfPage(tabs, p) = {}
        <4>1. admitting = "checking" /\ job.kind # "relaunch"
          BY <1>2, <1>3, <2>1, <3>6
        <4>2. Len(tabs') <= Limit' /\ Expected' <= Limit'
          BY <1>1, <1>2, <1>3, <2>2, <3>1, <3>2, <3>6, <4>1, PageAssumption DEF RoomLeft, Expected
        <4> QED  BY <1>2, <4>2 DEF RoomLeft
      <3> QED  BY <2>1, <3>4, <3>5, <3>6
    <2>6. NoPageEscapes'
      BY <1>0, <1>1, <1>2, <1>3, <2>1, <2>2, EscapesSettled
    <2>7. pages <= pages'
      BY <1>3, <2>1
    <2> QED  BY <1>2, <2>2, <2>4, <2>5, <2>6, <2>7, Together
  <1>6. CASE ~allowed
    <2>1. /\ open' = open \ {p} /\ UNCHANGED <<pages, content, tabVars, late>>
      BY <1>0, <1>6 DEF AdmissionEnds, AdmissionDenied, ClosePage
    <2>2. Tidy' /\ Len(tabs) \in Nat /\ Grown(tabs, tabs')
      BY <1>1, <1>3, <2>1, TidyKept
    <2>3. admissions' \in Seq(1..pages')
      BY <1>2, <1>3, <2>1
    <2>4. BrowserTyped'
      BY <1>1, <1>2, <2>1, <2>3 DEF BrowserTyped
    <2>5. tabs' = tabs
      BY <2>1 DEF tabVars
    <2>6. RoomLeft'
      BY <1>1, <1>2, <2>1, <2>5, RoomKept
    <2>7. NoPageEscapes'
      BY <1>0, <1>1, <1>2, <1>3, <2>1, <2>2, <2>5, EscapesSettled
    <2>8. pages <= pages'
      BY <1>3, <2>1
    <2> QED  BY <1>2, <2>2, <2>4, <2>6, <2>7, <2>8, Together
  <1> QED  BY <1>5, <1>6

-----------------------------------------------------------------------------
(* Operations: switching and closing tabs *)

\* The operation that is running will register the page.
JobAwaits(p) ==
    \/ job.kind = "close" /\ job.pc = "replace" /\ job.page = p
    \/ job.kind = "relaunch" /\ job.pc = "register" /\ job.page = p

\* No page escapes when what awaited one has registered it.
LEMMA EscapesMoved ==
  ASSUME NoPageEscapes, Len(tabs) \in Nat, Len(tabs') \in Nat, Grown(tabs, tabs'),
         \A k \in 1..Len(admissions) : k \in 1..Len(admissions') /\ admissions'[k] = admissions[k],
         \A p \in open' \ open : \E k \in 1..Len(admissions') : admissions'[k] = p,
         \A p : JobAwaits(p) => Registered(p)' \/ JobAwaits(p)'
  PROVE  NoPageEscapes'
  <1> SUFFICES ASSUME NEW p \in open'  PROVE Registered(p)' \/ Awaited(p)'
    BY DEF NoPageEscapes
  <1>1. CASE p \notin open
    BY <1>1 DEF Awaited
  <1>2. CASE p \in open /\ Registered(p)
    <2>1. PICK i \in 1..Len(tabs) : tabs[i].page = p
      BY <1>2 DEF Registered, IndexOfPage
    <2>2. i \in 1..Len(tabs') /\ tabs'[i].page = p
      BY <2>1 DEF Grown
    <2> QED  BY <2>2 DEF Registered, IndexOfPage
  <1>3. CASE \E k \in 1..Len(admissions) : admissions[k] = p
    BY <1>3 DEF Awaited
  <1>4. CASE JobAwaits(p)
    BY <1>4 DEF Awaited, JobAwaits
  <1> QED  BY <1>1, <1>2, <1>3, <1>4 DEF NoPageEscapes, Awaited, JobAwaits

\* What is accepted of a reference stays when another operation begins or ends.
LEMMA ResolvedKept ==
  ASSUME PageInv, UNCHANGED resolved, job'.kind # "resolve"
  PROVE  ResolveSound' /\ RefNamesSeenElement'
  <1>1. RefNamesSeenElement'
    BY RefsKept DEF PageInv
  <1>2. ResolveSound'
    BY DEF PageInv, JobSound, ResolveSound
  <1> QED  BY <1>1, <1>2

\* An operation ends and accepts no reference.
LEMMA NoJob ==
  ASSUME PageInv, UNCHANGED resolved, job' = Idle
  PROVE  JobSound' /\ RefNamesSeenElement' /\ ~JobAwaits(None)'
  <1>1. job'.kind = "none"
    BY DEF Idle
  <1>2. ResolveSound' /\ RefNamesSeenElement'
    BY <1>1, ResolvedKept
  <1>3. CloseSound' /\ SnapshotSound' /\ RelaunchSound' /\ ~JobAwaits(None)'
    BY <1>1 DEF CloseSound, SnapshotSound, RelaunchSound, JobAwaits
  <1> QED  BY <1>2, <1>3 DEF JobSound

\* The tab that becomes active gives the session its generation.
LEMMA Activated ==
  ASSUME NEW ts, TabsTyped(ts), TabsDistinct(ts), NEW id, NEW k \in 1..Len(ts), ts[k].id = id,
         Activate(ts, id)
  PROVE  active' = id /\ gen' = ts[k].rev /\ gen' \in Nat /\ GenFollows(ts, active', gen')
  <1>1. Len(ts) \in Nat /\ ts[k] \in Tab(Histories(ts))
    BY TypedMeans
  <1>2. Smallest(IndexOfId(ts, ts[k].id)) = k
    BY <1>1, Found
  <1>3. active' = id /\ gen' = ts[Smallest(IndexOfId(ts, id))].rev
    BY DEF Activate, IndexOfId
  <1>4. gen' = ts[k].rev
    BY <1>2, <1>3
  <1>5. \A j \in 1..Len(ts) : ts[j].id = id => j = k
    BY DEF TabsDistinct
  <1> QED  BY <1>1, <1>3, <1>4, <1>5 DEF GenFollows, Tab

\* switchTab: the generation is taken from the tab switched to.
LEMMA SwitchTabKeeps ==
  ASSUME PageInv, NEW i \in 1..Len(tabs), SwitchTab(i)
  PROVE  PageInv'
  <1>1. BrowserTyped /\ Tidy /\ RoomLeft /\ NoPageEscapes
    BY DEF PageInv
  <1>2. /\ Spend("switches") /\ job = Idle /\ job' = Idle /\ Activate(tabs, tabs[i].id)
        /\ UNCHANGED <<tabs, tabSeq, open, content, pages, admissions, admitting, late, resolved>>
    BY DEF SwitchTab, Begins, Quiet, openVars, history
  <1>3. DOMAIN lim' = Limits \cup {"show"} /\ lim'.show \subseteq Seq(Node)
    BY <1>1, <1>2, Spent DEF Limits
  <1>4. BrowserTyped' /\ pages \in Nat /\ pages' \in Nat /\ pages <= pages'
    BY <1>1, <1>2, <1>3, BrowserKept
  <1>5. active' = tabs[i].id /\ gen' \in Nat /\ GenFollows(tabs, active', gen')
    BY <1>1, <1>2, Activated DEF Tidy
  <1>6. Tidy'
    BY <1>1, <1>2, <1>5 DEF Tidy, TabsCounted
  <1>7. Grown(tabs, tabs')
    <2>1. Len(tabs) \in Nat /\ \A k \in 1..Len(tabs) : tabs[k].rev \in Nat
      BY <1>1, TypedMeans DEF Tidy, Tab
    <2> QED  BY <1>2, <2>1 DEF Grown
  <1>8. RoomLeft'
    BY <1>1, <1>2, RoomKept
  <1>9. NoPageEscapes'
    <2>1. Len(tabs) \in Nat
      BY <1>1, TypedMeans DEF Tidy
    <2> QED  BY <1>1, <1>2, <1>7, <2>1, EscapesKept
  <1> QED  BY <1>2, <1>4, <1>6, <1>7, <1>8, <1>9, Together

\* closeTab: the last tab gets a replacement, whose page is announced as well.
LEMMA CloseTabBeginsKeeps ==
  ASSUME PageInv, NEW i \in 1..Len(tabs), CloseTabBegins(i)
  PROVE  PageInv'
  <1>1. BrowserTyped /\ Tidy /\ RoomLeft /\ NoPageEscapes
    BY DEF PageInv
  <1>2. /\ Spend("closes") /\ job = Idle
        /\ job' = [kind |-> "close", id |-> tabs[i].id, new |-> None, page |-> pages + 1,
                   pc |-> IF Len(tabs) = 1 THEN "replace" ELSE "close"]
        /\ UNCHANGED <<tabVars, admitting, late, resolved>>
    BY DEF CloseTabBegins, Begins, history
  <1>3. DOMAIN lim' = Limits \cup {"show"} /\ lim'.show \subseteq Seq(Node)
    BY <1>1, <1>2, Spent DEF Limits
  <1>4. /\ Len(tabs) \in Nat /\ pages \in Nat /\ tabs[i].id \in Nat
        /\ \A k \in 1..Len(tabs) : tabs[k].page \in 1..pages
    BY <1>1, TypedMeans DEF Tidy, BrowserTyped, Tab, TabsCounted
  <1>5. /\ pages' \in Nat /\ pages <= pages' /\ BrowserTyped'
        /\ \A k \in 1..Len(admissions) : k \in 1..Len(admissions') /\ admissions'[k] = admissions[k]
        /\ \A p \in open' \ open : \E k \in 1..Len(admissions') : admissions'[k] = p
        /\ Len(tabs) = 1 => pages' = pages + 1
    <2>1. CASE Len(tabs) = 1
      <3>1. Opened(1)
        BY <2>1 DEF CloseTabBegins
      <3>2. /\ pages' = pages + 1 /\ pages' \in Nat
            /\ open' = open \cup {pages + 1} /\ open' \subseteq 1..pages'
            /\ content' \in [1..pages' -> Seq(Node)]
            /\ admissions' \in Seq(1..pages') /\ admissions' # <<>>
            /\ \A k \in 1..Len(admissions) : k \in 1..Len(admissions') /\ admissions'[k] = admissions[k]
            /\ \E k \in 1..Len(admissions') : admissions'[k] = pages + 1
        BY <1>1, <3>1, OpenedMeans
      <3>3. BrowserTyped'
        BY <1>1, <1>2, <1>3, <3>2 DEF BrowserTyped
      <3>4. pages <= pages'
        BY <1>4, <3>2
      <3> QED  BY <3>2, <3>3, <3>4
    <2>2. CASE Len(tabs) # 1
      <3>1. UNCHANGED <<open, content, pages, admissions>>
        BY <2>2 DEF CloseTabBegins, openVars
      <3>2. BrowserTyped' /\ pages' \in Nat /\ pages <= pages'
        BY <1>1, <1>2, <1>3, <3>1, BrowserKept
      <3> QED  BY <2>2, <3>1, <3>2
    <2> QED  BY <2>1, <2>2
  <1>6. Tidy' /\ Grown(tabs, tabs') /\ tabs' = tabs
    BY <1>1, <1>2, <1>4, <1>5, TidyKept DEF tabVars
  <1>7. /\ job'.kind = "close" /\ job'.id = tabs[i].id /\ job'.new = None /\ job'.page = pages + 1
        /\ job'.pc = IF Len(tabs) = 1 THEN "replace" ELSE "close"
    BY <1>2
  <1>8. CloseSound'
    <2>1. job' \in [kind : {"close"}, id : Nat, new : Nat \cup {None}, page : Nat, pc : {"replace", "close"}]
      BY <1>2, <1>4
    <2>2. Index(job.id)' # {}
      BY <1>6, <1>7 DEF Index
    <2>3. ASSUME job'.pc = "replace"
          PROVE  job'.page \in 1..pages' /\ \A k \in 1..Len(tabs') : tabs'[k].page # job'.page
      <3>1. pages' = pages + 1
        BY <1>5, <1>7, <2>3
      <3>2. \A k \in 1..Len(tabs) : tabs[k].page # pages + 1
        BY <1>4
      <3> QED  BY <1>4, <1>6, <1>7, <3>1, <3>2
    <2>4. ASSUME job'.pc = "close"  PROVE Len(tabs') >= 2
      <3>1. Len(tabs) # 1
        BY <1>7, <2>4
      <3>2. Len(tabs) >= 2
        <4>1. Len(tabs) \in Nat /\ i \in 1..Len(tabs)
          BY <1>4
        <4> QED  BY <3>1, <4>1, Two
      <3> QED  BY <1>6, <3>2
    <2> QED  BY <1>7, <2>1, <2>2, <2>3, <2>4 DEF CloseSound
  <1>9. ResolveSound' /\ RefNamesSeenElement'
    BY <1>2, <1>7, ResolvedKept
  <1>10. JobSound'
    BY <1>7, <1>8, <1>9 DEF JobSound, SnapshotSound, RelaunchSound
  <1>11. RoomLeft'
    BY <1>1, <1>2, <1>6, <1>7 DEF RoomLeft, Expected, Limit, Replacing, Idle
  <1>12. NoPageEscapes'
    <2>1. \A p : ~JobAwaits(p)
      BY <1>2 DEF JobAwaits, Idle
    <2> QED  BY <1>1, <1>4, <1>5, <1>6, <2>1, EscapesMoved
  <1> QED  BY <1>5, <1>6, <1>9, <1>10, <1>11, <1>12 DEF PageInv

\* The replacement has a tab, by the operation or by an admission before it.
LEMMA CloseTabReplacesKeeps ==
  ASSUME PageInv, CloseTabReplaces
  PROVE  PageInv'
  <1>1. BrowserTyped /\ Tidy /\ RoomLeft /\ NoPageEscapes
    BY DEF PageInv
  <1>2. PICK p : p = job.page
    OBVIOUS
  <1> DEFINE known == IndexOfPage(tabs, p)
  <1>3. /\ job.kind = "close" /\ job.pc = "replace"
        /\ tabs' = IF known # {} THEN tabs ELSE RegisterTab(tabs, tabSeq + 1, p, TRUE)
        /\ tabSeq' = IF known # {} THEN tabSeq ELSE tabSeq + 1
        /\ job' = [job EXCEPT !.pc = "close",
                     !.new = IF known # {} THEN tabs[Smallest(known)].id ELSE tabSeq + 1]
        /\ UNCHANGED <<active, gen, lim, open, content, pages, admissions, admitting, late, resolved>>
    BY <1>2 DEF CloseTabReplaces, Quiet, openVars, history
  <1>4. /\ job \in [kind : {"close"}, id : Nat, new : Nat \cup {None}, page : Nat, pc : {"replace", "close"}]
        /\ Index(job.id) # {} /\ job.new = None /\ p \in 1..pages
        /\ \A k \in 1..Len(tabs) : tabs[k].id = job.id => tabs[k].page # p
    BY <1>2, <1>3 DEF PageInv, JobSound, CloseSound
  <1>5. BrowserTyped' /\ pages \in Nat /\ pages' \in Nat /\ pages <= pages'
    <2>1. DOMAIN lim' = Limits \cup {"show"} /\ lim'.show \subseteq Seq(Node)
      BY <1>1, <1>3 DEF BrowserTyped
    <2> QED  BY <1>1, <1>3, <2>1, BrowserKept
  <1>6. /\ Tidy' /\ Grown(tabs, tabs') /\ Registered(p)' /\ Len(tabs) \in Nat /\ Len(tabs') \in Nat
        /\ Len(tabs') = IF known = {} THEN Len(tabs) + 1 ELSE Len(tabs)
        /\ known = {} => \E k \in 1..Len(tabs') : tabs'[k].id = tabSeq + 1
    <2>1. CASE known = {}
      <3>1. tabs' = RegisterTab(tabs, tabSeq + 1, p, TRUE) /\ tabSeq' = tabSeq + 1
        BY <1>3, <2>1
      <3> QED  BY <1>1, <1>3, <1>4, <1>5, <2>1, <3>1, RegisterKeepsTidy
    <2>2. CASE known # {}
      <3>1. UNCHANGED tabVars
        BY <1>3, <2>2 DEF tabVars
      <3>2. Tidy' /\ Grown(tabs, tabs') /\ Len(tabs) \in Nat
        BY <1>1, <1>5, <3>1, TidyKept
      <3>3. Registered(p)'
        BY <2>2, <3>1 DEF Registered, tabVars, IndexOfPage
      <3> QED  BY <2>2, <3>1, <3>2, <3>3 DEF tabVars
    <2> QED  BY <2>1, <2>2
  <1>7. PICK n : n = IF known # {} THEN tabs[Smallest(known)].id ELSE tabSeq + 1
    OBVIOUS
  <1>8. n \in Nat /\ n # job.id /\ \E k \in 1..Len(tabs') : tabs'[k].id = n
    <2>1. CASE known = {}
      <3>1. n = tabSeq + 1 /\ tabSeq \in Nat
        BY <1>1, <1>7, <2>1 DEF Tidy
      <3>2. job.id \in 1..tabSeq
        BY <1>1, <1>4 DEF Index, Tidy, TabsCounted
      <3>3. \E k \in 1..Len(tabs') : tabs'[k].id = n
        BY <1>6, <2>1, <3>1
      <3> QED  BY <3>1, <3>2, <3>3
    <2>2. CASE known # {}
      <3>1. PICK k \in 1..Len(tabs) : tabs[k].page = p
        BY <2>2 DEF IndexOfPage
      <3>2. Smallest(IndexOfPage(tabs, tabs[k].page)) = k
        BY <1>1, <1>6, Found DEF Tidy
      <3>3. n = tabs[k].id
        BY <1>7, <2>2, <3>1, <3>2
      <3>4. n \in Nat
        BY <1>1, <3>3, TypedMeans DEF Tidy, Tab
      <3>5. tabs' = tabs
        BY <1>3, <2>2
      <3> QED  BY <1>4, <3>1, <3>3, <3>4, <3>5
    <2> QED  BY <2>1, <2>2
  <1> HIDE DEF known
  <1>9. job' = [job EXCEPT !.pc = "close", !.new = n]
    BY <1>3, <1>7
  <1>10. /\ job' \in [kind : {"close"}, id : Nat, new : Nat \cup {None}, page : Nat, pc : {"replace", "close"}]
         /\ job'.kind = "close" /\ job'.pc = "close" /\ job'.new = n /\ job'.id = job.id /\ n # None
    BY <1>4, <1>8, <1>9, ScenarioAssumption
  <1>11. CloseSound'
    <2>1. Index(job.id)' # {}
      <3>1. PICK k \in 1..Len(tabs) : tabs[k].id = job.id
        BY <1>4 DEF Index
      <3>2. k \in 1..Len(tabs') /\ tabs'[k].id = job.id
        BY <1>6, <3>1 DEF Grown
      <3> QED  BY <1>10, <3>2 DEF Index
    <2>2. Index(job.new)' # {}
      BY <1>8, <1>10 DEF Index
    <2> QED  BY <1>8, <1>10, <2>1, <2>2 DEF CloseSound
  <1>12. ResolveSound' /\ RefNamesSeenElement'
    BY <1>3, <1>10, ResolvedKept
  <1>13. JobSound'
    BY <1>10, <1>11, <1>12 DEF JobSound, SnapshotSound, RelaunchSound
  <1>14. RoomLeft'
    <2>1. Expected = Len(tabs) /\ Expected' = Len(tabs')
      BY <1>3, <1>10 DEF Expected
    <2>2. ~Replacing /\ Replacing'
      BY <1>4, <1>10 DEF Replacing
    <2>3. Limit = MaxTabs + late /\ Limit' = MaxTabs + late + 1
      <3>1. Limit = MaxTabs + late + 0
        BY <2>2 DEF Limit
      <3>2. Limit' = MaxTabs + late' + 1
        BY <2>2 DEF Limit
      <3>3. late \in Nat
        BY <1>1 DEF BrowserTyped
      <3> QED  BY <1>3, <3>1, <3>2, <3>3, PageAssumption
    <2>4. late \in Nat /\ admitting' = admitting
      BY <1>1, <1>3 DEF BrowserTyped
    <2> QED  BY <1>1, <1>6, <2>1, <2>3, <2>4, PageAssumption DEF RoomLeft
  <1>15. NoPageEscapes'
    <2>1. \A q : JobAwaits(q) => q = p
      BY <1>2, <1>3 DEF JobAwaits
    <2> QED  BY <1>1, <1>3, <1>6, <2>1, EscapesMoved
  <1> QED  BY <1>5, <1>6, <1>12, <1>13, <1>14, <1>15 DEF PageInv

\* The tabs us are the tabs ts, where they matter.
Alike(ts, us) ==
    /\ TabsTyped(us) /\ TabsDistinct(us) /\ TabsSound(us) /\ Len(us) = Len(ts)
    /\ \A i \in 1..Len(ts) : us[i].id = ts[i].id /\ us[i].page = ts[i].page /\ us[i].rev = ts[i].rev

\* The tabs ts after some of them have inherited being the main one.
Given(ts, S, b) ==
    [i \in 1..Len(ts) |-> IF i \in S THEN [ts[i] EXCEPT !.main = @ \/ b] ELSE ts[i]]

\* The tabs that are left, one of which perhaps inherits the part of the main tab.
LEMMA Inherited ==
  ASSUME NEW ts, TabsTyped(ts), TabsDistinct(ts), TabsSound(ts), NEW b \in BOOLEAN, NEW S, NEW us,
         NEW ids, NEW ps, TabsCounted(ts, ids, ps),
         us = Given(ts, S, b)
  PROVE  Alike(ts, us) /\ TabsCounted(us, ids, ps)
  <1>1. \A i \in 1..Len(ts) : /\ us[i] \in Tab(Histories(ts)) /\ us[i].id = ts[i].id /\ us[i].page = ts[i].page
                              /\ us[i].rev = ts[i].rev /\ us[i].reg = ts[i].reg
    <2> SUFFICES ASSUME NEW i \in 1..Len(ts)
                 PROVE  /\ us[i] \in Tab(Histories(ts)) /\ us[i].id = ts[i].id /\ us[i].page = ts[i].page
                        /\ us[i].rev = ts[i].rev /\ us[i].reg = ts[i].reg
      OBVIOUS
    <2>1. ts[i] \in Tab(Histories(ts))
      BY TypedMeans
    <2>2. CASE i \in S
      <3>1. us[i] = [ts[i] EXCEPT !.main = @ \/ b]
        BY <2>2 DEF Given
      <3>2. (ts[i].main \/ b) \in BOOLEAN
        BY <2>1 DEF Tab
      <3> QED  BY <2>1, <3>1, <3>2 DEF Tab
    <2>3. CASE i \notin S
      BY <2>1, <2>3 DEF Given
    <2> QED  BY <2>2, <2>3
  <1>2. Len(ts) \in Nat
    BY TypedMeans
  <1>2a. us = [i \in 1..Len(ts) |-> us[i]]
    BY DEF Given
  <1>2b. \A i \in 1..Len(ts) : us[i] \in Tab(Histories(ts))
    BY <1>1
  <1>3. TabsTyped(us) /\ Len(us) = Len(ts)
    BY <1>2, <1>2a, <1>2b, MadeOf
  <1>4. TabsDistinct(us) /\ TabsCounted(us, ids, ps)
    BY <1>1, <1>3, SamePlaces
  <1>5. TabsSound(us)
    BY <1>1, <1>3 DEF TabsSound, TabSound
  <1> QED  BY <1>1, <1>3, <1>4, <1>5 DEF Alike

\* A tab and its page are gone, and nothing else is.
LEMMA EscapesClosed ==
  ASSUME NoPageEscapes, NEW at \in 1..Len(tabs), open' = open \ {tabs[at].page}, UNCHANGED admissions,
         \A j \in 1..Len(tabs) : j # at => \E i \in 1..Len(tabs') : tabs'[i].page = tabs[j].page,
         \A p : ~JobAwaits(p)
  PROVE  NoPageEscapes'
  <1> SUFFICES ASSUME NEW p \in open'  PROVE Registered(p)' \/ Awaited(p)'
    BY DEF NoPageEscapes
  <1>1. p \in open /\ p # tabs[at].page
    OBVIOUS
  <1>2. CASE Registered(p)
    <2>1. PICK j \in 1..Len(tabs) : tabs[j].page = p
      BY <1>2 DEF Registered, IndexOfPage
    <2>2. \E i \in 1..Len(tabs') : tabs'[i].page = p
      BY <1>1, <2>1
    <2> QED  BY <2>2 DEF Registered, IndexOfPage
  <1>3. CASE Awaited(p)
    <2>1. \E k \in 1..Len(admissions) : admissions[k] = p
      BY <1>3 DEF Awaited, JobAwaits
    <2> QED  BY <2>1 DEF Awaited
  <1> QED  BY <1>1, <1>2, <1>3 DEF NoPageEscapes

\* The tab is taken out and another is active, or its replacement is taken back.
LEMMA CloseTabEndsKeeps ==
  ASSUME PageInv, NEW ok \in BOOLEAN, CloseTabEnds(ok)
  PROVE  PageInv'
  <1>1. BrowserTyped /\ Tidy /\ RoomLeft /\ NoPageEscapes
    BY DEF PageInv
  <1>2. /\ job.kind = "close" /\ job.pc = "close" /\ job' = Idle
        /\ UNCHANGED <<tabSeq, content, pages, admissions, admitting, late, lim, resolved>>
    BY DEF CloseTabEnds, history
  <1>3. /\ Index(job.id) # {}
        /\ IF job.new = None THEN Len(tabs) >= 2 ELSE job.new # job.id /\ Index(job.new) # {}
    BY <1>2 DEF PageInv, JobSound, CloseSound
  <1>4. PICK at \in 1..Len(tabs) : tabs[at].id = job.id
    BY <1>3 DEF Index
  <1>5. /\ Len(tabs) \in Nat /\ TabsTyped(tabs) /\ TabsDistinct(tabs) /\ TabsSound(tabs)
        /\ TabsCounted(tabs, tabSeq, pages) /\ GenFollows(tabs, active, gen)
        /\ active \in 1..tabSeq /\ gen \in Nat /\ tabSeq \in Nat
    BY <1>1, TypedMeans DEF Tidy
  <1>6. \A k \in 1..Len(tabs) : \A id : tabs[k].id = id => Index(id) = {k} /\ Smallest(Index(id)) = k
    <2> SUFFICES ASSUME NEW k \in 1..Len(tabs)
                 PROVE  Index(tabs[k].id) = {k} /\ Smallest(Index(tabs[k].id)) = k
      OBVIOUS
    <2>1. Index(tabs[k].id) = IndexOfId(tabs, tabs[k].id)
      BY DEF Index, IndexOfId
    <2> QED  BY <1>5, <2>1, Found
  <1>7. PICK rest : rest = Remove(tabs, tabs[at].id)
    OBVIOUS
  <1>8. /\ TabsTyped(rest) /\ TabsDistinct(rest) /\ TabsSound(rest) /\ Len(rest) = Len(tabs) - 1
        /\ \A i \in 1..Len(rest) : rest[i].id # tabs[at].id /\ \E j \in 1..Len(tabs) : rest[i] = tabs[j]
        /\ \A j \in 1..Len(tabs) : j # at => \E i \in 1..Len(rest) : rest[i] = tabs[j]
        /\ TabsCounted(rest, tabSeq, pages)
    <2>1. Left(tabs, at, rest) /\ TabsCounted(rest, tabSeq, pages)
      BY <1>5, <1>7, Removed
    <2> QED  BY <2>1 DEF Left
  <1>9. JobSound' /\ RefNamesSeenElement'
    BY <1>2, NoJob
  <1>10. \A p : ~JobAwaits(p)
    BY <1>2 DEF JobAwaits
  <1>11. /\ Expected = Len(tabs) /\ Expected' = Len(tabs') /\ ~Replacing'
         /\ Replacing <=> job.new # None
    BY <1>2 DEF Expected, Replacing, Idle
  <1>12. /\ late \in Nat /\ Limit' = MaxTabs + late
         /\ Limit = (IF job.new = None THEN MaxTabs + late ELSE MaxTabs + late + 1)
    <2>1. late \in Nat /\ late' = late
      BY <1>1, <1>2 DEF BrowserTyped
    <2>2. Limit' = MaxTabs + late' + 0
      BY <1>11 DEF Limit
    <2>3. Limit = MaxTabs + late + (IF job.new = None THEN 0 ELSE 1)
      BY <1>11 DEF Limit
    <2> QED  BY <2>1, <2>2, <2>3, PageAssumption
  <1>13. open' \subseteq open => BrowserTyped'
    BY <1>1, <1>2 DEF BrowserTyped
  <1>14. CASE ~ok /\ job.new = None
    <2>1. tabs' = tabs /\ open' = open \ Unneeded(job.new) /\ active' = active /\ gen' = gen
      BY <1>14 DEF CloseTabEnds
    <2>2. BrowserTyped'
      BY <1>13, <2>1
    <2>3. pages \in Nat /\ pages' \in Nat /\ pages <= pages'
      BY <1>1, <1>2 DEF BrowserTyped
    <2>4. Tidy' /\ Grown(tabs, tabs')
      BY <1>1, <1>2, <2>1, <2>3, TidyKept DEF tabVars
    <2>5. RoomLeft'
      BY <1>1, <1>2, <1>11, <1>12, <1>14, <2>1 DEF RoomLeft
    <2>6. NoPageEscapes'
      BY <1>1, <1>2, <1>5, <1>10, <2>1, <2>4, EscapesMoved
    <2> QED  BY <1>9, <2>2, <2>4, <2>5, <2>6 DEF PageInv
  <1>15. CASE ~ok /\ job.new # None
    <2>1. PICK k \in 1..Len(tabs) : tabs[k].id = job.new
      BY <1>3, <1>15 DEF Index
    <2>2. Unneeded(job.new) = {tabs[k].page}
      <3>1. Index(job.new) = {k}
        BY <1>6, <2>1
      <3> QED  BY <3>1 DEF Unneeded
    <2>3. /\ tabs' = Remove(tabs, tabs[k].id) /\ open' = open \ {tabs[k].page}
          /\ active' = active /\ gen' = gen
      BY <1>15, <2>1, <2>2 DEF CloseTabEnds
    <2>4. /\ TabsTyped(tabs') /\ TabsDistinct(tabs') /\ TabsSound(tabs') /\ Len(tabs') = Len(tabs) - 1
          /\ \A i \in 1..Len(tabs') : \E j \in 1..Len(tabs) : tabs'[i] = tabs[j]
          /\ \A j \in 1..Len(tabs) : j # k => \E i \in 1..Len(tabs') : tabs'[i] = tabs[j]
          /\ TabsCounted(tabs', tabSeq, pages)
      <3>1. Left(tabs, k, tabs') /\ TabsCounted(tabs', tabSeq, pages)
        BY <1>5, <2>3, Removed
      <3> QED  BY <3>1 DEF Left
    <2>5. GenFollows(tabs', active', gen')
      BY <1>5, <2>3, <2>4 DEF GenFollows
    <2>6. Tidy'
      BY <1>2, <1>5, <2>3, <2>4, <2>5 DEF Tidy
    <2>7. BrowserTyped'
      BY <1>13, <2>3
    <2>8. RoomLeft'
      BY <1>1, <1>2, <1>5, <1>11, <1>12, <1>15, <2>4, PageAssumption DEF RoomLeft
    <2>9. NoPageEscapes'
      BY <1>1, <1>2, <1>10, <2>3, <2>4, EscapesClosed
    <2> QED  BY <1>9, <2>6, <2>7, <2>8, <2>9 DEF PageInv
  <1>16. CASE ok
    <2>1. open' = open \ {tabs[at].page}
      BY <1>4, <1>6, <1>16 DEF CloseTabEnds
    <2>2. BrowserTyped'
      BY <1>13, <2>1
    <2>3. CASE job.new # None \/ active = job.id
      <3> DEFINE heir == IF job.new # None THEN job.new ELSE rest[1].id
                 S == {i \in 1..Len(rest) : rest[i].id = heir /\ job.new = None}
      <3>1. PICK given : given = Given(rest, S, tabs[at].main)
        OBVIOUS
      <3>2. tabs' = given /\ Activate(given, heir)
        <4>1. given = [i \in 1..Len(rest) |->
                         IF rest[i].id = heir /\ job.new = None
                         THEN [rest[i] EXCEPT !.main = @ \/ tabs[at].main] ELSE rest[i]]
          BY <3>1 DEF Given
        <4>2. tabs[Smallest(Index(job.id))] = tabs[at] /\ Remove(tabs, job.id) = rest
          BY <1>4, <1>6, <1>7
        <4> QED  BY <1>16, <2>3, <4>1, <4>2 DEF CloseTabEnds
      <3>3. tabs[at].main \in BOOLEAN
        BY <1>5, TypedMeans DEF Tab
      <3>4. PICK k \in 1..Len(rest) : rest[k].id = heir
        <4>1. CASE job.new = None
          <5>1. Len(rest) >= 1 /\ Len(rest) \in Nat
            BY <1>3, <1>5, <1>8, <4>1
          <5> QED  BY <4>1, <5>1
        <4>2. CASE job.new # None
          <5>1. PICK j \in 1..Len(tabs) : tabs[j].id = job.new
            BY <1>3, <4>2 DEF Index
          <5>2. j # at
            BY <1>3, <1>4, <4>2, <5>1
          <5> QED  BY <1>8, <4>2, <5>1, <5>2
        <4> QED  BY <4>1, <4>2
      <3> HIDE DEF heir, S
      <3>5. /\ TabsTyped(given) /\ TabsDistinct(given) /\ TabsSound(given) /\ Len(given) = Len(rest)
            /\ \A i \in 1..Len(rest) : given[i].id = rest[i].id /\ given[i].page = rest[i].page
            /\ TabsCounted(given, tabSeq, pages)
        <4>1. TabsTyped(rest) /\ TabsDistinct(rest) /\ TabsSound(rest) /\ TabsCounted(rest, tabSeq, pages)
          BY <1>8
        <4>2. Alike(rest, given) /\ TabsCounted(given, tabSeq, pages)
          BY <3>1, <3>3, <4>1, Inherited
        <4> QED  BY <4>2 DEF Alike
      <3>6. given[k].id = heir /\ k \in 1..Len(given)
        BY <3>4, <3>5
      <3>7. active' = heir /\ gen' \in Nat /\ GenFollows(given, active', gen')
        BY <3>2, <3>5, <3>6, Activated
      <3>8. active' \in 1..tabSeq'
        BY <1>2, <3>5, <3>6, <3>7 DEF TabsCounted
      <3>9. Tidy'
        BY <1>2, <1>5, <3>2, <3>5, <3>7, <3>8 DEF Tidy
      <3>10. RoomLeft'
        <4>1. Len(tabs') = Len(tabs) - 1
          BY <1>8, <3>2, <3>5
        <4> QED  BY <1>1, <1>2, <1>5, <1>11, <1>12, <4>1, PageAssumption DEF RoomLeft
      <3>11. \A j \in 1..Len(tabs) : j # at => \E i \in 1..Len(tabs') : tabs'[i].page = tabs[j].page
        <4> SUFFICES ASSUME NEW j \in 1..Len(tabs), j # at  PROVE \E i \in 1..Len(tabs') : tabs'[i].page = tabs[j].page
          OBVIOUS
        <4>1. PICK i \in 1..Len(rest) : rest[i] = tabs[j]
          BY <1>8
        <4>2. i \in 1..Len(given) /\ given[i].page = rest[i].page
          BY <3>5
        <4> QED  BY <3>2, <4>1, <4>2
      <3>12. NoPageEscapes'
        BY <1>1, <1>2, <1>10, <2>1, <3>11, EscapesClosed
      <3> QED  BY <1>9, <2>2, <3>9, <3>10, <3>12 DEF PageInv
    <2>4. CASE ~(job.new # None \/ active = job.id)
      <3>1. tabs' = rest /\ active' = active /\ gen' = gen
        BY <1>4, <1>7, <1>16, <2>4 DEF CloseTabEnds
      <3>2. GenFollows(tabs', active', gen')
        <4> SUFFICES ASSUME NEW i \in 1..Len(rest), rest[i].id = active  PROVE gen = rest[i].rev
          BY <3>1 DEF GenFollows
        <4>1. PICK j \in 1..Len(tabs) : rest[i] = tabs[j]
          BY <1>8
        <4> QED  BY <1>5, <4>1 DEF GenFollows
      <3>3. Tidy'
        BY <1>2, <1>5, <1>8, <3>1, <3>2 DEF Tidy
      <3>4. RoomLeft'
        BY <1>1, <1>2, <1>5, <1>8, <1>11, <1>12, <3>1, PageAssumption DEF RoomLeft
      <3>5. \A j \in 1..Len(tabs) : j # at => \E i \in 1..Len(tabs') : tabs'[i].page = tabs[j].page
        BY <1>8, <3>1
      <3>6. NoPageEscapes'
        BY <1>1, <1>2, <1>10, <2>1, <3>5, EscapesClosed
      <3> QED  BY <1>9, <2>2, <3>3, <3>4, <3>6 DEF PageInv
    <2> QED  BY <2>3, <2>4
  <1> QED  BY <1>14, <1>15, <1>16

-----------------------------------------------------------------------------
(* Operations: snapshots and references *)

\* Another operation begins, or goes on, that awaits no page: nothing else changes.
LEMMA AnotherJob ==
  ASSUME PageInv, UNCHANGED <<tabVars, pages, open, content, admissions, admitting, late>>,
         DOMAIN lim' = Limits \cup {"show"} /\ lim'.show \subseteq Seq(Node),
         job.kind \notin {"close", "relaunch"}, job'.kind \notin {"close", "relaunch"},
         JobSound', RefNamesSeenElement'
  PROVE  PageInv'
  <1>1. BrowserTyped /\ Tidy /\ RoomLeft /\ NoPageEscapes
    BY DEF PageInv
  <1>2. BrowserTyped' /\ pages \in Nat /\ pages' \in Nat /\ pages <= pages'
    BY <1>1, BrowserKept
  <1>3. Tidy' /\ Len(tabs) \in Nat /\ Grown(tabs, tabs') /\ tabs' = tabs
    BY <1>1, <1>2, TidyKept DEF tabVars
  <1>4. RoomLeft'
    BY <1>1, <1>3 DEF RoomLeft, Expected, Limit, Replacing
  <1>5. \A p : ~JobAwaits(p)
    BY DEF JobAwaits
  <1>6. NoPageEscapes'
    BY <1>1, <1>3, <1>5, EscapesMoved
  <1> QED  BY <1>2, <1>3, <1>4, <1>6 DEF PageInv

\* snapshot: the generation is remembered before anything is read.
LEMMA SnapshotBeginsKeeps ==
  ASSUME PageInv, NEW since \in 1..2 \cup {None}, SnapshotBegins(since)
  PROVE  PageInv'
  <1>1. BrowserTyped /\ Tidy
    BY DEF PageInv
  <1>2. /\ ActiveTab # {} /\ Spend("snaps") /\ job = Idle
        /\ job' = [kind |-> "snapshot", id |-> active, gen |-> gen, since |-> since, nodes |-> None, seen |-> 0]
        /\ UNCHANGED <<tabVars, open, content, pages, admissions, admitting, late, resolved>>
    BY DEF SnapshotBegins, Begins, Quiet, openVars, history
  <1>3. DOMAIN lim' = Limits \cup {"show"} /\ lim'.show \subseteq Seq(Node)
    BY <1>1, <1>2, Spent DEF Limits
  <1>4. job'.kind = "snapshot" /\ job'.id = active /\ job'.gen = gen /\ job'.nodes = None
    BY <1>2
  <1>5. SnapshotSound'
    <2>1. active \in Nat /\ gen \in Nat
      BY <1>1 DEF Tidy
    <2>2. job' \in [kind : {"snapshot"}, id : Nat, gen : Nat, since : 1..2 \cup {None},
                    nodes : Seq(Node) \cup {None}, seen : Nat]
      BY <1>2, <2>1
    <2>3. Index(job.id)' # {}
      <3>1. PICK k \in 1..Len(tabs) : tabs[k].id = active
        BY <1>2 DEF ActiveTab, Index
      <3>2. tabs' = tabs
        BY <1>2 DEF tabVars
      <3> QED  BY <1>4, <3>1, <3>2 DEF Index
    <2>4. \A i \in 1..Len(tabs') : tabs'[i].id = active => gen <= tabs'[i].rev
      BY <1>1, <1>2, <2>1 DEF Tidy, GenFollows, tabVars
    <2> QED  BY <1>4, <2>2, <2>3, <2>4 DEF SnapshotSound
  <1>6. ResolveSound' /\ RefNamesSeenElement'
    BY <1>2, <1>4, ResolvedKept
  <1>7. JobSound'
    BY <1>4, <1>5, <1>6 DEF JobSound, CloseSound, RelaunchSound
  <1>8. job.kind = "none"
    BY <1>2 DEF Idle
  <1> QED  BY <1>2, <1>3, <1>4, <1>6, <1>7, <1>8, AnotherJob

\* The tab of a snapshot, and what was known of it.
LEMMA SnapshotTab ==
  ASSUME Tidy, BrowserTyped, JobSound, job.kind = "snapshot"
  PROVE  /\ job \in [kind : {"snapshot"}, id : Nat, gen : Nat, since : 1..2 \cup {None},
                     nodes : Seq(Node) \cup {None}, seen : Nat]
         /\ \E at \in 1..Len(tabs) :
              /\ tabs[at].id = job.id /\ Smallest(Index(job.id)) = at
              /\ tabs[at] \in Tab(Histories(tabs)) /\ content[tabs[at].page] \in Seq(Node)
              /\ job.gen <= tabs[at].rev
              /\ job.nodes # None => job.gen <= job.seen /\ job.seen <= tabs[at].rev
  <1>1. /\ job \in [kind : {"snapshot"}, id : Nat, gen : Nat, since : 1..2 \cup {None},
                    nodes : Seq(Node) \cup {None}, seen : Nat]
        /\ Index(job.id) # {}
        /\ \A i \in 1..Len(tabs) : tabs[i].id = job.id =>
              /\ job.gen <= tabs[i].rev
              /\ job.nodes # None => job.gen <= job.seen /\ job.seen <= tabs[i].rev
    BY DEF JobSound, SnapshotSound
  <1>2. PICK at \in 1..Len(tabs) : tabs[at].id = job.id
    BY <1>1 DEF Index
  <1>3. Smallest(Index(job.id)) = at
    <2>1. Len(tabs) \in Nat /\ TabsDistinct(tabs)
      BY TypedMeans DEF Tidy
    <2>2. Smallest(IndexOfId(tabs, tabs[at].id)) = at
      BY <2>1, Found
    <2> QED  BY <1>2, <2>2 DEF Index, IndexOfId
  <1>4. tabs[at] \in Tab(Histories(tabs)) /\ tabs[at].page \in 1..pages
    BY TypedMeans DEF Tidy, TabsCounted
  <1>5. content[tabs[at].page] \in Seq(Node)
    BY <1>4 DEF BrowserTyped
  <1> QED  BY <1>1, <1>2, <1>3, <1>4, <1>5

\* The nodes are read on a revision no earlier than that.
LEMMA SnapshotReadsKeeps ==
  ASSUME PageInv, SnapshotReads
  PROVE  PageInv'
  <1>1. BrowserTyped /\ Tidy /\ JobSound
    BY DEF PageInv
  <1>2. /\ job.kind = "snapshot"
        /\ LET tab == tabs[Smallest(Index(job.id))]
           IN  job' = [job EXCEPT !.nodes = content[tab.page], !.seen = tab.rev]
        /\ UNCHANGED <<tabVars, open, content, pages, admissions, admitting, late, lim, resolved>>
    BY DEF SnapshotReads, Quiet, openVars, history
  <1>3. job \in [kind : {"snapshot"}, id : Nat, gen : Nat, since : 1..2 \cup {None},
                 nodes : Seq(Node) \cup {None}, seen : Nat]
    BY <1>1, <1>2, SnapshotTab
  <1>4. PICK at \in 1..Len(tabs) :
              /\ tabs[at].id = job.id /\ Smallest(Index(job.id)) = at
              /\ tabs[at] \in Tab(Histories(tabs)) /\ content[tabs[at].page] \in Seq(Node)
              /\ job.gen <= tabs[at].rev
    BY <1>1, <1>2, SnapshotTab
  <1>5. job' = [job EXCEPT !.nodes = content[tabs[at].page], !.seen = tabs[at].rev]
    BY <1>2, <1>4
  <1>6. tabs[at].rev \in Nat
    BY <1>4 DEF Tab
  <1>7. /\ job' \in [kind : {"snapshot"}, id : Nat, gen : Nat, since : 1..2 \cup {None},
                     nodes : Seq(Node) \cup {None}, seen : Nat]
        /\ job'.kind = "snapshot" /\ job'.id = job.id /\ job'.gen = job.gen /\ job'.seen = tabs[at].rev
    BY <1>3, <1>4, <1>5, <1>6
  <1>8. tabs' = tabs
    BY <1>2 DEF tabVars
  <1>9. SnapshotSound'
    <2>1. Index(job.id)' # {}
      BY <1>4, <1>7, <1>8 DEF Index
    <2>2. \A i \in 1..Len(tabs) : tabs[i].id = job.id => i = at
      BY <1>1, <1>4 DEF Tidy, TabsDistinct
    <2>3. \A i \in 1..Len(tabs') : tabs'[i].id = job'.id =>
            job'.gen <= tabs'[i].rev /\ job'.gen <= job'.seen /\ job'.seen <= tabs'[i].rev
      BY <1>4, <1>6, <1>7, <1>8, <2>2
    <2> QED  BY <1>7, <2>1, <2>3 DEF SnapshotSound
  <1>10. ResolveSound' /\ RefNamesSeenElement'
    BY <1>2, <1>7, ResolvedKept
  <1>11. JobSound'
    BY <1>7, <1>9, <1>10 DEF JobSound, CloseSound, RelaunchSound
  <1>12. DOMAIN lim' = Limits \cup {"show"} /\ lim'.show \subseteq Seq(Node)
    BY <1>1, <1>2 DEF BrowserTyped
  <1> QED  BY <1>2, <1>7, <1>10, <1>11, <1>12, AnotherJob

\* The last of a sequence are a stretch of it.
LEMMA LastOfMeans ==
  ASSUME NEW S, NEW s \in Seq(S), NEW n \in Nat \ {0}
  PROVE  /\ LastOf(s, n) \in Seq(S) /\ Len(LastOf(s, n)) <= n
         /\ \E d \in Nat : \A k \in 1..Len(LastOf(s, n)) : k + d \in 1..Len(s) /\ LastOf(s, n)[k] = s[k + d]
  <1>1. Len(s) \in Nat
    OBVIOUS
  <1>2. CASE Len(s) <= n
    <2>1. LastOf(s, n) = s
      BY <1>2 DEF LastOf
    <2>2. \A k \in 1..Len(s) : k + 0 \in 1..Len(s) /\ s[k] = s[k + 0]
      BY <1>1
    <2> QED  BY <1>2, <2>1, <2>2
  <1>3. CASE ~(Len(s) <= n)
    <2> DEFINE d == Len(s) - n
               q == SubSeq(s, d + 1, Len(s))
    <2>1. d \in Nat /\ d + n = Len(s) /\ d + 1 \in 1..(Len(s) + 1)
      BY <1>1, <1>3
    <2>2. LastOf(s, n) = q
      BY <1>3 DEF LastOf
    <2>3. \A k \in (d + 1)..Len(s) : s[k] \in S
      BY <2>1
    <2>4. /\ q \in Seq(S) /\ Len(q) = n
          /\ \A k \in 1..n : q[k] = s[d + k]
      <3>1. q = [k \in 1..n |-> s[k + (d + 1) - 1]]
        BY <1>1, <2>1
      <3>2. \A k \in 1..n : k + (d + 1) - 1 = d + k /\ d + k \in 1..Len(s)
        BY <1>1, <2>1
      <3>3. \A k \in 1..n : s[k + (d + 1) - 1] \in S
        BY <3>2
      <3> HIDE DEF q
      <3>4. q \in [1..n -> S]
        BY <3>1, <3>3
      <3>5. q \in Seq(S) /\ Len(q) = n
        BY <3>4
      <3>6. \A k \in 1..n : q[k] = s[d + k]
        BY <3>1, <3>2
      <3> QED  BY <3>5, <3>6
    <2> HIDE DEF q, d
    <2>5. \A k \in 1..n : k + d \in 1..Len(s) /\ q[k] = s[k + d]
      <3>1. \A k \in 1..n : k + d \in 1..Len(s) /\ d + k = k + d
        BY <1>1, <2>1
      <3> QED  BY <2>4, <3>1
    <2>6. \A k \in 1..Len(q) : k + d \in 1..Len(s) /\ q[k] = s[k + d]
      BY <2>4, <2>5
    <2>7. q \in Seq(S) /\ Len(q) <= n
      BY <2>4
    <2> QED  BY <2>1, <2>2, <2>6, <2>7
  <1> QED  BY <1>2, <1>3

\* The records of a snapshot are numbered on from the registry's counter.
LEMMA RecordsMean ==
  ASSUME NEW r \in Registry, NEW nodes \in Seq(Node), NEW g \in Nat, NEW seen \in Nat,
         NEW new, new = Records(r, nodes, g, seen)
  PROVE  /\ new \in Seq(Record) /\ Len(new) = Len(nodes)
         /\ \A k \in 1..Len(new) : new[k].ref = r.seq + k /\ new[k].gen = g /\ new[k].seen = seen
  <1>1. Len(nodes) \in Nat /\ r.seq \in Nat /\ \A k \in 1..Len(nodes) : nodes[k] \in Node
    BY DEF Registry
  <1>2. \A k \in 1..Len(nodes) : new[k] = [ref |-> r.seq + k, node |-> nodes[k], gen |-> g, seen |-> seen]
    BY DEF Records
  <1>3. ASSUME NEW k \in 1..Len(nodes)  PROVE new[k] \in Record
    <2>1. r.seq + k \in Nat /\ nodes[k] \in Node
      BY <1>1
    <2>2. new[k] = [ref |-> r.seq + k, node |-> nodes[k], gen |-> g, seen |-> seen]
      BY <1>2
    <2> QED  BY <2>1, <2>2 DEF Record
  <1>4. new \in [1..Len(nodes) -> Record]
    BY <1>3 DEF Records
  <1>5. new \in Seq(Record) /\ Len(new) = Len(nodes)
    BY <1>1, <1>4
  <1>6. ASSUME NEW k \in 1..Len(nodes)  PROVE new[k].ref = r.seq + k /\ new[k].gen = g /\ new[k].seen = seen
    <2>1. new[k] = [ref |-> r.seq + k, node |-> nodes[k], gen |-> g, seen |-> seen]
      BY <1>2
    <2>2. new[k].ref = r.seq + k
      BY <2>1
    <2>3. new[k].gen = g
      BY <2>1
    <2>4. new[k].seen = seen
      BY <2>1
    <2> QED  BY <2>2, <2>3, <2>4
  <1> QED  BY <1>5, <1>6

\* The sequence all is old, of length m, followed by new, of length n.
Joined(old, new, m, n, all) ==
    /\ m = Len(old) /\ n = Len(new) /\ Len(all) = m + n
    /\ \A k \in 1..m : all[k] = old[k]
    /\ \A k \in (m + 1)..(m + n) : all[k] = new[k - m]

\* The records have the next numbers, and were read and registered together.
Numbered(new, s, g, seen) ==
    \A k \in 1..Len(new) : new[k].ref = s + k /\ new[k].gen = g /\ new[k].seen = seen

\* One sequence after another.
LEMMA Concatenated ==
  ASSUME NEW S, NEW old \in Seq(S), NEW new \in Seq(S), NEW m \in Nat, m = Len(old), NEW n \in Nat, n = Len(new)
  PROVE  /\ old \o new \in Seq(S) /\ Len(old \o new) = m + n
         /\ \A k \in 1..m : (old \o new)[k] = old[k]
         /\ \A k \in (m + 1)..(m + n) : (old \o new)[k] = new[k - m]
  BY ConcatProperties

\* References with numbers of their own join others.
LEMMA RefsJoined ==
  ASSUME NEW old \in Seq(Record), NEW new \in Seq(Record), NEW m \in Nat, NEW n \in Nat,
         NEW all \in Seq(Record), Joined(old, new, m, n, all),
         NEW s \in Nat, NEW g \in Nat, NEW seen \in Nat, NEW rev \in Nat, g <= seen, seen <= rev,
         RefsSound(old, s, rev), Numbered(new, s, g, seen)
  PROVE  RefsSound(all, s + n, rev)
  <1> USE DEF Joined, Numbered
  <1>5. ASSUME NEW k \in 1..(m + n)
        PROVE  (k \in 1..m /\ all[k] = old[k]) \/ (k - m \in 1..n /\ all[k] = new[k - m])
    <2>1. k \in 1..m \/ (k \in (m + 1)..(m + n) /\ k - m \in 1..n)
      OBVIOUS
    <2> QED  BY <2>1
  <1>6. \A k \in 1..m : /\ old[k].gen <= old[k].seen /\ old[k].seen <= rev
                        /\ old[k].ref <= s /\ old[k].ref \in Nat
    <2> SUFFICES ASSUME NEW k \in 1..m
                 PROVE  /\ old[k].gen <= old[k].seen /\ old[k].seen <= rev
                        /\ old[k].ref <= s /\ old[k].ref \in Nat
      OBVIOUS
    <2>1. old[k] \in Record
      OBVIOUS
    <2> QED  BY <2>1 DEF RefsSound, Record
  <1>7. \A k \in 1..n : new[k].ref = s + k /\ new[k].gen = g /\ new[k].seen = seen
    OBVIOUS
  <1>8. ASSUME NEW k \in 1..(m + n)
        PROVE  all[k].gen <= all[k].seen /\ all[k].seen <= rev /\ all[k].ref <= s + n
    <2>1. CASE k \in 1..m /\ all[k] = old[k]
      <3>1. /\ all[k].gen <= all[k].seen /\ all[k].seen <= rev /\ all[k].ref <= s /\ all[k].ref \in Nat
        BY <1>6, <2>1
      <3> QED  BY <3>1
    <2>2. CASE k - m \in 1..n /\ all[k] = new[k - m]
      <3>1. all[k].ref = s + (k - m) /\ all[k].gen = g /\ all[k].seen = seen
        BY <1>7, <2>2
      <3> QED  BY <2>2, <3>1
    <2> QED  BY <1>5, <2>1, <2>2
  <1>9. ASSUME NEW j \in 1..(m + n), NEW k \in 1..(m + n), all[j].ref = all[k].ref
        PROVE  j = k
    <2>1. CASE j \in 1..m /\ all[j] = old[j] /\ k \in 1..m /\ all[k] = old[k]
      BY <1>9, <2>1 DEF RefsSound
    <2>2. CASE j \in 1..m /\ all[j] = old[j] /\ k - m \in 1..n /\ all[k] = new[k - m]
      <3>1. all[j].ref <= s /\ all[j].ref \in Nat
        BY <1>6, <2>2
      <3>2. all[k].ref = s + (k - m)
        BY <1>7, <2>2
      <3> QED  BY <1>9, <2>2, <3>1, <3>2
    <2>3. CASE j - m \in 1..n /\ all[j] = new[j - m] /\ k \in 1..m /\ all[k] = old[k]
      <3>1. all[k].ref <= s /\ all[k].ref \in Nat
        BY <1>6, <2>3
      <3>2. all[j].ref = s + (j - m)
        BY <1>7, <2>3
      <3> QED  BY <1>9, <2>3, <3>1, <3>2
    <2>4. CASE j - m \in 1..n /\ all[j] = new[j - m] /\ k - m \in 1..n /\ all[k] = new[k - m]
      <3>1. all[j].ref = s + (j - m) /\ all[k].ref = s + (k - m)
        BY <1>7, <2>4
      <3>2. s + (j - m) = s + (k - m)
        BY <1>9, <3>1
      <3> QED  BY <3>2
    <2> QED  BY <1>5, <2>1, <2>2, <2>3, <2>4
  <1> QED  BY <1>8, <1>9 DEF RefsSound

\* Records with the next numbers can follow those there are.
LEMMA RefsAppended ==
  ASSUME NEW old \in Seq(Record), NEW new \in Seq(Record),
         NEW s \in Nat, NEW g \in Nat, NEW seen \in Nat, NEW rev \in Nat, g <= seen, seen <= rev,
         RefsSound(old, s, rev),
         \A k \in 1..Len(new) : new[k].ref = s + k /\ new[k].gen = g /\ new[k].seen = seen
  PROVE  old \o new \in Seq(Record) /\ RefsSound(old \o new, s + Len(new), rev)
  <1>1. PICK m \in Nat : m = Len(old)
    OBVIOUS
  <1>2. PICK n \in Nat : n = Len(new)
    OBVIOUS
  <1>3. PICK all : all = old \o new
    OBVIOUS
  <1>4. /\ all \in Seq(Record) /\ Len(all) = m + n
        /\ \A k \in 1..m : all[k] = old[k]
        /\ \A k \in (m + 1)..(m + n) : all[k] = new[k - m]
    BY <1>1, <1>2, <1>3, Concatenated
  <1>5. RefsSound(all, s + n, rev)
    <2>1. Joined(old, new, m, n, all) /\ all \in Seq(Record)
      BY <1>1, <1>2, <1>4 DEF Joined
    <2>2. Numbered(new, s, g, seen)
      BY DEF Numbered
    <2> QED  BY <2>1, <2>2, RefsJoined
  <1> QED  BY <1>2, <1>3, <1>4, <1>5

\* The oldest make room.
LEMMA RefsCut ==
  ASSUME NEW all \in Seq(Record), NEW s, NEW rev, RefsSound(all, s, rev),
         NEW kept, kept = LastOf(all, MaxRefs)
  PROVE  kept \in Seq(Record) /\ Len(kept) <= MaxRefs /\ RefsSound(kept, s, rev)
  <1>1. kept \in Seq(Record) /\ Len(kept) <= MaxRefs
    BY LastOfMeans, MaxRefsAssumption
  <1>2. PICK d \in Nat : \A k \in 1..Len(kept) : k + d \in 1..Len(all) /\ kept[k] = all[k + d]
    <2>1. \E d \in Nat : \A k \in 1..Len(LastOf(all, MaxRefs)) :
             k + d \in 1..Len(all) /\ LastOf(all, MaxRefs)[k] = all[k + d]
      BY LastOfMeans, MaxRefsAssumption
    <2> QED  BY <2>1
  <1>3. ASSUME NEW k \in 1..Len(kept)
        PROVE  kept[k].gen <= kept[k].seen /\ kept[k].seen <= rev /\ kept[k].ref <= s
    <2>1. k + d \in 1..Len(all) /\ kept[k] = all[k + d]
      BY <1>2
    <2> QED  BY <2>1 DEF RefsSound
  <1>4. ASSUME NEW j \in 1..Len(kept), NEW k \in 1..Len(kept), kept[j].ref = kept[k].ref
        PROVE  j = k
    <2>1. j + d \in 1..Len(all) /\ kept[j] = all[j + d] /\ k + d \in 1..Len(all) /\ kept[k] = all[k + d]
      BY <1>2
    <2>2. j + d = k + d
      BY <1>4, <2>1 DEF RefsSound
    <2> QED  BY <2>2
  <1> QED  BY <1>1, <1>3, <1>4 DEF RefsSound

\* A registry r with other records and another counter.
Written(r, recs, seq) == [r EXCEPT !.recs = recs, !.seq = seq]

\* A registry with other records and another counter.
LEMMA Updated ==
  ASSUME NEW r \in Registry, NEW kept \in Seq(Record), NEW n \in Nat
  PROVE  /\ Written(r, kept, n) \in Registry /\ Written(r, kept, n).gen = r.gen
         /\ Written(r, kept, n).recs = kept /\ Written(r, kept, n).seq = n
  BY DEF Registry, Written

\* The references of a snapshot are registered.
LEMMA RegisterMeans ==
  ASSUME NEW r \in Registry, NEW nodes \in Seq(Node), NEW g \in Nat, NEW seen \in Nat, NEW rev \in Nat,
         g <= seen, seen <= rev, RefsSound(r.recs, r.seq, rev), NEW q, q = Register(r, nodes, g, seen)
  PROVE  /\ q \in Registry /\ q.gen = r.gen /\ Len(q.recs) <= MaxRefs
         /\ RefsSound(q.recs, q.seq, rev)
  <1>1. r.recs \in Seq(Record) /\ r.seq \in Nat /\ Len(nodes) \in Nat
    BY DEF Registry
  <1>2. PICK new : new = Records(r, nodes, g, seen)
    OBVIOUS
  <1>3. /\ new \in Seq(Record) /\ Len(new) = Len(nodes)
        /\ \A k \in 1..Len(new) : new[k].ref = r.seq + k /\ new[k].gen = g /\ new[k].seen = seen
    BY <1>2, RecordsMean
  <1>4. PICK all : all = r.recs \o new
    OBVIOUS
  <1>5. all \in Seq(Record) /\ RefsSound(all, r.seq + Len(nodes), rev)
    <2>1. RefsSound(all, r.seq + Len(new), rev) /\ all \in Seq(Record)
      BY <1>1, <1>3, <1>4, RefsAppended
    <2> QED  BY <1>3, <2>1
  <1>6. PICK kept : kept = LastOf(all, MaxRefs)
    OBVIOUS
  <1>7. kept \in Seq(Record) /\ Len(kept) <= MaxRefs /\ RefsSound(kept, r.seq + Len(nodes), rev)
    BY <1>5, <1>6, RefsCut
  <1>8. q = [r EXCEPT !.recs = kept, !.seq = r.seq + Len(nodes)]
    BY <1>2, <1>4, <1>6 DEF Register
  <1>9. q \in Registry /\ q.gen = r.gen /\ q.recs = kept /\ q.seq = r.seq + Len(nodes)
    <2>1. r.seq + Len(nodes) \in Nat
      BY <1>1
    <2>2. PICK n \in Nat : n = r.seq + Len(nodes)
      BY <2>1
    <2>3. q = Written(r, kept, n)
      BY <1>8, <2>2 DEF Written
    <2>4. q \in Registry /\ q.gen = r.gen /\ q.recs = kept /\ q.seq = n
      <3>1. kept \in Seq(Record) /\ n \in Nat
        BY <1>7, <2>2
      <3> QED  BY <2>3, <3>1, Updated
    <2> QED  BY <2>2, <2>4
  <1> QED  BY <1>7, <1>9

\* The nodes are registered under the remembered generation.
LEMMA SnapshotEndsKeeps ==
  ASSUME PageInv, SnapshotEnds
  PROVE  PageInv'
  <1>1. BrowserTyped /\ Tidy /\ JobSound /\ RoomLeft /\ NoPageEscapes
    BY DEF PageInv
  <1>2. /\ job.kind = "snapshot" /\ job.nodes # None /\ job' = Idle
        /\ UNCHANGED <<active, gen, tabSeq, open, content, pages, admissions, admitting, lim, late, resolved>>
    BY DEF SnapshotEnds, openVars
  <1>3. job \in [kind : {"snapshot"}, id : Nat, gen : Nat, since : 1..2 \cup {None},
                 nodes : Seq(Node) \cup {None}, seen : Nat]
    BY <1>1, <1>2, SnapshotTab
  <1>4. PICK at \in 1..Len(tabs) :
              /\ Smallest(Index(job.id)) = at
              /\ tabs[at] \in Tab(Histories(tabs))
              /\ job.gen <= job.seen /\ job.seen <= tabs[at].rev
    BY <1>1, <1>2, SnapshotTab
  <1>5. PICK h : tabs' = [tabs EXCEPT ![at].reg = Register(@, job.nodes, job.gen, job.seen), ![at].hist = h]
    <2> DEFINE i == Smallest(Index(job.id))
               stored == [k \in 1..Len(job.nodes) |->
                            [ref |-> tabs[i].reg.seq + k, test |-> job.nodes[k].test, role |-> job.nodes[k].role,
                             name |-> job.nodes[k].name, text |-> job.nodes[k].text]]
               done == Recorded(tabs[i].hist, stored, job.gen, job.since)
    <2>1. tabs' = [tabs EXCEPT ![i].reg = Register(@, job.nodes, job.gen, job.seen), ![i].hist = done.hist]
      BY DEF SnapshotEnds
    <2>2. i = at
      BY <1>4
    <2> HIDE DEF i, done
    <2> QED  BY <2>1, <2>2
  <1>6. PICK r : r = Register(tabs[at].reg, job.nodes, job.gen, job.seen)
    OBVIOUS
  <1>7. PICK t : t = [tabs[at] EXCEPT !.reg = r, !.hist = h]
    OBVIOUS
  <1>8. r \in Registry /\ TabSound(t)
    <2>1. TabSound(tabs[at]) /\ tabs[at].reg \in Registry /\ tabs[at].rev \in Nat
      BY <1>1, <1>4 DEF Tidy, TabsSound, Tab
    <2>2. job.nodes \in Seq(Node) /\ job.gen \in Nat /\ job.seen \in Nat
      BY <1>2, <1>3
    <2>3. RefsSound(tabs[at].reg.recs, tabs[at].reg.seq, tabs[at].rev) /\ tabs[at].reg.gen = tabs[at].rev
      BY <2>1 DEF TabSound
    <2>4. /\ r \in Registry /\ r.gen = tabs[at].reg.gen /\ Len(r.recs) <= MaxRefs
          /\ RefsSound(r.recs, r.seq, tabs[at].rev)
      BY <1>4, <1>6, <2>1, <2>2, <2>3, RegisterMeans
    <2>5. t.reg = r /\ t.rev = tabs[at].rev
      BY <1>4, <1>7 DEF Tab
    <2> QED  BY <2>3, <2>4, <2>5 DEF TabSound
  <1>9. tabs' = [tabs EXCEPT ![at] = t]
    BY <1>5, <1>6, <1>7
  <1>10. Tidy' /\ Grown(tabs, tabs') /\ Len(tabs') = Len(tabs) /\ Len(tabs) \in Nat
    <2>1. h \in {h}
      OBVIOUS
    <2> QED  BY <1>1, <1>2, <1>7, <1>8, <1>9, <2>1, Reregistered
  <1>11. JobSound' /\ RefNamesSeenElement'
    BY <1>2, NoJob
  <1>12. BrowserTyped'
    BY <1>1, <1>2 DEF BrowserTyped
  <1>13. RoomLeft'
    BY <1>1, <1>2, <1>10 DEF RoomLeft, Expected, Limit, Replacing, Idle
  <1>14. NoPageEscapes'
    <2>1. \A p : ~JobAwaits(p)
      BY <1>2 DEF JobAwaits
    <2> QED  BY <1>1, <1>2, <1>10, <2>1, EscapesMoved
  <1> QED  BY <1>10, <1>11, <1>12, <1>13, <1>14 DEF PageInv

\* A number names one reference of a registry.
LEMMA LookupFinds ==
  ASSUME NEW r, NEW rev, RefsSound(r.recs, r.seq, rev), NEW k \in 1..Len(r.recs), NEW ref, r.recs[k].ref = ref,
         Len(r.recs) \in Nat
  PROVE  Lookup(r, ref) = {k} /\ Smallest(Lookup(r, ref)) = k
  <1>1. Lookup(r, ref) = {k}
    BY DEF Lookup, RefsSound
  <1>2. Smallest({k}) = k
    BY OnlySmallest
  <1> QED  BY <1>1, <1>2

\* resolveRef: a reference of this generation was read on this very revision.
LEMMA ResolveBeginsKeeps ==
  ASSUME PageInv, NEW ref, ResolveBegins(ref)
  PROVE  PageInv'
  <1>1. BrowserTyped /\ Tidy
    BY DEF PageInv
  <1>2. /\ Spend("resolves") /\ job = Idle
        /\ UNCHANGED <<tabVars, open, content, pages, admissions, admitting, late>>
    BY DEF ResolveBegins, Begins, openVars
  <1>3. DOMAIN lim' = Limits \cup {"show"} /\ lim'.show \subseteq Seq(Node)
    BY <1>1, <1>2, Spent DEF Limits
  <1>4. job.kind = "none"
    BY <1>2 DEF Idle
  <1>5. PICK tab \in ActiveTab :
          IF ResolveVerdict(tab.reg, ref, gen) = "ok"
          THEN LET rec == tab.reg.recs[Smallest(Lookup(tab.reg, ref))]
               IN  /\ Begins([kind |-> "resolve", id |-> tab.id, rec |-> rec])
                   /\ resolved' = [id |-> tab.id, rec |-> rec, at |-> tab.rev, page |-> content[tab.page], element |-> None]
          ELSE Begins(Idle) /\ UNCHANGED resolved
    BY DEF ResolveBegins
  <1>6. CASE ResolveVerdict(tab.reg, ref, gen) # "ok"
    <2>1. job' = Idle /\ resolved' = resolved
      BY <1>5, <1>6 DEF Begins
    <2>2. JobSound' /\ RefNamesSeenElement'
      BY <2>1, NoJob
    <2>3. job'.kind = "none"
      BY <2>1 DEF Idle
    <2> QED  BY <1>2, <1>3, <1>4, <2>2, <2>3, AnotherJob
  <1>7. CASE ResolveVerdict(tab.reg, ref, gen) = "ok"
    <2>1. PICK rec : rec = tab.reg.recs[Smallest(Lookup(tab.reg, ref))]
      OBVIOUS
    <2>2. /\ job' = [kind |-> "resolve", id |-> tab.id, rec |-> rec]
          /\ resolved' = [id |-> tab.id, rec |-> rec, at |-> tab.rev, page |-> content[tab.page], element |-> None]
      BY <1>5, <1>7, <2>1 DEF Begins
    <2>3. PICK at \in 1..Len(tabs) : tabs[at].id = active /\ tab = tabs[at]
      BY DEF ActiveTab, Index
    <2>4. tab \in Tab(Histories(tabs)) /\ TabSound(tab) /\ gen = tab.rev
      BY <1>1, <2>3, TypedMeans DEF Tidy, TabsSound, GenFollows
    <2>5. tab.reg.recs \in Seq(Record) /\ tab.id \in Nat /\ tab.rev \in Nat
      BY <2>4 DEF Tab, Registry
    <2>6. PICK k \in 1..Len(tab.reg.recs) : tab.reg.recs[k].ref = ref /\ tab.reg.recs[k].gen = gen
      <3>1. \E k \in Lookup(tab.reg, ref) : tab.reg.recs[k].gen = gen
        BY <1>7 DEF ResolveVerdict
      <3> QED  BY <3>1 DEF Lookup
    <2>7. rec = tab.reg.recs[k]
      <3>1. Len(tab.reg.recs) \in Nat /\ RefsSound(tab.reg.recs, tab.reg.seq, tab.rev)
        BY <2>4, <2>5 DEF TabSound
      <3>2. Smallest(Lookup(tab.reg, ref)) = k
        BY <2>6, <3>1, LookupFinds
      <3> QED  BY <2>1, <3>2
    <2>8. rec \in Record
      BY <2>5, <2>7
    <2>9. rec.seen = tab.rev
      <3>1. rec.gen <= rec.seen /\ rec.seen <= tab.rev
        BY <2>4, <2>7 DEF TabSound, RefsSound
      <3>2. rec.gen = tab.rev /\ rec.seen \in Nat
        BY <2>4, <2>6, <2>7, <2>8 DEF Record
      <3> QED  BY <2>5, <3>1, <3>2
    <2>10. job'.kind = "resolve" /\ job'.rec = rec
      BY <2>2
    <2>11. resolved'.rec = rec /\ resolved'.at = tab.rev /\ resolved'.element = None
      BY <2>2
    <2>12. job' \in [kind : {"resolve"}, id : Nat, rec : Record]
      BY <2>2, <2>5, <2>8
    <2>13. RefNamesSeenElement'
      BY <2>9, <2>11 DEF RefNamesSeenElement
    <2>14. resolved' = [id |-> resolved'.id, rec |-> job'.rec, at |-> job'.rec.seen,
                        page |-> resolved'.page, element |-> resolved'.element]
      BY <2>2, <2>9, <2>10
    <2>15. ResolveSound'
      BY <2>12, <2>14 DEF ResolveSound
    <2>16. JobSound'
      BY <2>10, <2>15 DEF JobSound, CloseSound, SnapshotSound, RelaunchSound
    <2> QED  BY <1>2, <1>3, <1>4, <2>10, <2>13, <2>16, AnotherJob
  <1> QED  BY <1>6, <1>7

\* A node's own description finds it: if it is the only one found, it is the one.
LEMMA LocatedOnly ==
  ASSUME NEW node, NEW shown, Len(shown) \in Nat, NEW actionable,
         LocateVerdict(node, shown, actionable) = "ok", NEW k \in 1..Len(shown), shown[k] = node
  PROVE  shown[Smallest(Located(node, shown))] = node
  <1>1. Cardinality(Located(node, shown)) = 1
    BY DEF LocateVerdict
  <1>2. k \in Located(node, shown)
    BY DEF Located, Matches
  <1>3. IsFiniteSet(Located(node, shown))
    <2>1. IsFiniteSet(1..Len(shown))
      BY FS_Interval
    <2>2. Located(node, shown) \subseteq 1..Len(shown)
      BY DEF Located
    <2> QED  BY <2>1, <2>2, FS_Subset
  <1>4. Located(node, shown) = {k}
    BY <1>1, <1>2, <1>3, FS_Singleton
  <1>5. Smallest({k}) = k
    BY OnlySmallest
  <1> QED  BY <1>4, <1>5

\* The element that is acted on is the one seen, if that is still shown.
LEMMA ResolveEndsKeeps ==
  ASSUME PageInv, NEW actionable, ResolveEnds(actionable)
  PROVE  PageInv'
  <1>1. BrowserTyped /\ Tidy
    BY DEF PageInv
  <1>2. /\ job.kind = "resolve" /\ job' = Idle
        /\ UNCHANGED <<tabVars, open, content, pages, admissions, admitting, lim, late>>
    BY DEF ResolveEnds, openVars
  <1>3. DOMAIN lim' = Limits \cup {"show"} /\ lim'.show \subseteq Seq(Node)
    BY <1>1, <1>2 DEF BrowserTyped
  <1>4. job'.kind = "none"
    BY <1>2 DEF Idle
  <1>5. PICK tab \in {tabs[i] : i \in Index(job.id)} :
          resolved' = IF LocateVerdict(job.rec.node, content[tab.page], actionable) = "ok"
                      THEN [resolved EXCEPT !.page = content[tab.page],
                               !.element = content[tab.page][Smallest(Located(job.rec.node, content[tab.page]))]]
                      ELSE None
    BY DEF ResolveEnds
  <1>6. PICK shown : shown = content[tab.page]
    OBVIOUS
  <1>7. shown \in Seq(Node)
    <2>1. PICK at \in 1..Len(tabs) : tab = tabs[at]
      BY DEF Index
    <2>2. tab.page \in 1..pages
      BY <1>1, <2>1 DEF Tidy, TabsCounted
    <2> QED  BY <1>1, <1>6, <2>2 DEF BrowserTyped
  <1>8. resolved = [id |-> resolved.id, rec |-> job.rec, at |-> job.rec.seen,
                    page |-> resolved.page, element |-> resolved.element]
    BY <1>2 DEF PageInv, JobSound, ResolveSound
  <1>9. PICK found : found = shown[Smallest(Located(job.rec.node, shown))]
    OBVIOUS
  <1>10. resolved' = IF LocateVerdict(job.rec.node, shown, actionable) = "ok"
                     THEN [resolved EXCEPT !.page = shown, !.element = found] ELSE None
    BY <1>5, <1>6, <1>9
  <1>11. RefNamesSeenElement'
    <2>1. CASE LocateVerdict(job.rec.node, shown, actionable) = "ok"
      <3>1. resolved' = [resolved EXCEPT !.page = shown, !.element = found]
        BY <1>10, <2>1
      <3>2. /\ resolved'.rec = job.rec /\ resolved'.at = job.rec.seen
            /\ resolved'.page = shown /\ resolved'.element = found
        BY <1>8, <3>1
      <3>3. ASSUME NEW k \in 1..Len(shown), shown[k] = job.rec.node  PROVE found = job.rec.node
        <4>1. Len(shown) \in Nat
          BY <1>7
        <4> QED  BY <1>9, <2>1, <3>3, <4>1, LocatedOnly
      <3> QED  BY <3>2, <3>3 DEF RefNamesSeenElement
    <2>2. CASE LocateVerdict(job.rec.node, shown, actionable) # "ok"
      <3>1. resolved' = None
        BY <1>10, <2>2
      <3> QED  BY <3>1 DEF RefNamesSeenElement
    <2> QED  BY <2>1, <2>2
  <1>12. JobSound'
    BY <1>4 DEF JobSound, CloseSound, SnapshotSound, ResolveSound, RelaunchSound
  <1> QED  BY <1>2, <1>3, <1>4, <1>11, <1>12, AnotherJob

-----------------------------------------------------------------------------
(* Operations: relaunching and stopping *)

\* The smaller of two numbers.
LEMMA SmallestOfTwo ==
  ASSUME NEW m \in Nat, NEW n \in Nat
  PROVE  Smallest({m, n}) = IF m <= n THEN m ELSE n
  BY DEF Smallest

\* Without tabs and pages there is nothing to be untidy or to escape.
LEMMA EmptyIsTidy ==
  ASSUME Tidy, tabs' = <<>>, open' = {}, UNCHANGED <<active, gen, tabSeq>>
  PROVE  Tidy' /\ NoPageEscapes' /\ Len(tabs') = 0
  <1>1. <<>> \in Seq(Tab({})) /\ Len(tabs') = 0 /\ 1..0 = {}
    BY DEF Tab
  <1>2. TabsTyped(tabs')
    <2>1. TabsTyped(<<>>)
      BY <1>1, Retyped
    <2> QED  BY <2>1
  <1>3. TabsDistinct(tabs') /\ TabsCounted(tabs', tabSeq', pages') /\ TabsSound(tabs')
        /\ GenFollows(tabs', active', gen')
    BY <1>1 DEF TabsDistinct, TabsCounted, TabsSound, GenFollows
  <1> QED  BY <1>1, <1>2, <1>3 DEF Tidy, NoPageEscapes

\* As many tabs are restored as there were, and no more than the limit allows.
LEMMA CapturedMeans ==
  ASSUME Tidy, RoomLeft, late \in Nat, job = Idle
  PROVE  /\ Captured.todo \in Nat /\ Captured.todo + 1 <= MaxTabs + late
         /\ admitting = "checking" => Captured.todo + 1 < MaxTabs + late
  <1>1. Len(tabs) \in Nat /\ MaxTabs \in Nat /\ MaxTabs >= 3
    BY TypedMeans, PageAssumption DEF Tidy
  <1>2. ~Replacing /\ Limit = MaxTabs + late
    BY <1>1 DEF Replacing, Limit, Idle
  <1>3. admitting = "checking" => Len(tabs) < MaxTabs + late
    BY <1>2 DEF RoomLeft
  <1>4. PICK todo : todo = Captured.todo
    OBVIOUS
  <1>5. todo = IF tabs = <<>> THEN 0 ELSE Smallest({Len(tabs), MaxTabs}) - 1
    BY <1>4 DEF Captured
  <1>6. CASE tabs = <<>>
    <2>1. todo = 0
      BY <1>5, <1>6
    <2> QED  BY <1>1, <1>4, <2>1
  <1>7. CASE tabs # <<>>
    <2>1. Len(tabs) # 0
      BY <1>7 DEF Tidy, TabsTyped
    <2>2. todo = (IF Len(tabs) <= MaxTabs THEN Len(tabs) ELSE MaxTabs) - 1
      BY <1>1, <1>5, <1>7, SmallestOfTwo
    <2> QED  BY <1>1, <1>3, <1>4, <2>1, <2>2
  <1> QED  BY <1>6, <1>7

\* handoff: the tabs are gone, and no more will be restored than fit.
LEMMA RelaunchBeginsKeeps ==
  ASSUME PageInv, RelaunchBegins
  PROVE  PageInv'
  <1>1. BrowserTyped /\ Tidy /\ RoomLeft
    BY DEF PageInv
  <1>2. /\ Spend("relaunches") /\ job = Idle /\ tabs' = <<>> /\ open' = {}
        /\ job' = [kind |-> "relaunch", pc |-> "launch", todo |-> Captured.todo, which |-> Captured.which,
                   page |-> 0, made |-> <<>>]
        /\ UNCHANGED <<active, gen, tabSeq, content, pages, admissions, admitting, late, resolved>>
    BY DEF RelaunchBegins, Begins, history
  <1>3. DOMAIN lim' = Limits \cup {"show"} /\ lim'.show \subseteq Seq(Node)
    BY <1>1, <1>2, Spent DEF Limits
  <1>4. late \in Nat
    BY <1>1 DEF BrowserTyped
  <1>5. /\ Captured.todo \in Nat /\ Captured.todo + 1 <= MaxTabs + late
        /\ admitting = "checking" => Captured.todo + 1 < MaxTabs + late
    BY <1>1, <1>2, <1>4, CapturedMeans
  <1>6. PICK todo, which : todo = Captured.todo /\ which = Captured.which
    OBVIOUS
  <1>7. /\ job' = [kind |-> "relaunch", pc |-> "launch", todo |-> todo, which |-> which,
                   page |-> 0, made |-> <<>>]
    BY <1>2, <1>6
  <1>8. job'.kind = "relaunch" /\ job'.pc = "launch" /\ job'.todo = todo
    BY <1>7
  <1>9. Tidy' /\ NoPageEscapes' /\ Len(tabs') = 0
    BY <1>1, <1>2, EmptyIsTidy
  <1>10. BrowserTyped'
    BY <1>1, <1>2, <1>3 DEF BrowserTyped
  <1>11. RelaunchSound'
    <2>1. job' = [kind |-> "relaunch", pc |-> job'.pc, todo |-> job'.todo, which |-> job'.which,
                  page |-> job'.page, made |-> job'.made]
      BY <1>7
    <2> QED  BY <1>5, <1>6, <1>8, <2>1 DEF RelaunchSound
  <1>12. ResolveSound' /\ RefNamesSeenElement'
    BY <1>2, <1>8, ResolvedKept
  <1>13. JobSound'
    BY <1>8, <1>11, <1>12 DEF JobSound, CloseSound, SnapshotSound
  <1>14. RoomLeft'
    <2>1. ~Replacing'
      BY <1>8 DEF Replacing
    <2>2. Limit' = MaxTabs + late' + 0
      BY <2>1 DEF Limit
    <2>3. Expected' = todo + 1
      BY <1>8 DEF Expected
    <2> QED  BY <1>2, <1>4, <1>5, <1>6, <1>9, <2>2, <2>3, PageAssumption DEF RoomLeft
  <1> QED  BY <1>9, <1>10, <1>12, <1>13, <1>14 DEF PageInv

\* launchContext: the first page is the only tab, and the active one.
LEMMA LaunchedKeeps ==
  ASSUME PageInv, Launched
  PROVE  PageInv'
  <1>1. BrowserTyped /\ Tidy /\ RoomLeft
    BY DEF PageInv
  <1>2. PICK p, id : p = pages + 1 /\ id = tabSeq + 1
    OBVIOUS
  <1>3. /\ job.kind = "relaunch" /\ job.pc = "launch"
        /\ pages' = p /\ open' = {p} /\ \E c \in lim.show : content' = Shows(content, p, c)
        /\ tabs' = RegisterTab(<<>>, id, p, TRUE)
        /\ active' = id /\ gen' = 0 /\ tabSeq' = id
        /\ job' = [job EXCEPT !.pc = "goto", !.page = p, !.made = <<id>>]
        /\ UNCHANGED <<admissions, admitting, lim, late, resolved>>
    BY <1>2 DEF Launched, history
  <1>4. job = [kind |-> "relaunch", pc |-> job.pc, todo |-> job.todo, which |-> job.which,
               page |-> job.page, made |-> job.made] /\ job.todo \in Nat
    BY <1>3 DEF PageInv, JobSound, RelaunchSound
  <1>5. /\ job' = [kind |-> "relaunch", pc |-> job'.pc, todo |-> job'.todo, which |-> job'.which,
                   page |-> job'.page, made |-> job'.made]
        /\ job'.kind = "relaunch" /\ job'.pc = "goto" /\ job'.page = p /\ job'.todo = job.todo
    BY <1>3, <1>4
  <1>6. pages \in Nat /\ p \in Nat /\ id \in Nat /\ p \in 1..p /\ id \in 1..id /\ 1..pages \subseteq 1..p
    BY <1>1, <1>2 DEF BrowserTyped, Tidy
  <1>7. /\ TabsTyped(tabs') /\ TabsSound(tabs') /\ Len(tabs') = 1
        /\ tabs'[1].id = id /\ tabs'[1].page = p /\ tabs'[1].rev = 0
    <2>1. <<>> \in Seq(Tab({})) /\ Len(<<>>) = 0 /\ 1..0 = {}
      BY DEF Tab
    <2>2. TabsTyped(<<>>)
      BY <2>1, Retyped
    <2>3. TabsSound(<<>>) /\ IndexOfPage(<<>>, p) = {}
      BY <2>1 DEF TabsSound, IndexOfPage
    <2>4. PICK none : none = <<>>
      OBVIOUS
    <2>5. /\ TabsTyped(none) /\ TabsSound(none) /\ IndexOfPage(none, p) = {} /\ Len(none) = 0
          /\ tabs' = RegisterTab(none, id, p, TRUE)
      BY <1>3, <2>1, <2>2, <2>3, <2>4
    <2>6. PICK us, main : us = tabs' /\ main = TRUE
      OBVIOUS
    <2>7. /\ TabsTyped(us) /\ TabsSound(us) /\ Len(us) = Len(none) + 1
          /\ us[Len(us)].id = id /\ us[Len(us)].page = p /\ us[Len(us)].rev = 0
      <3>1. us = RegisterTab(none, id, p, main) /\ main \in BOOLEAN
        BY <2>5, <2>6
      <3>2. id \in Nat /\ p \in Nat
        BY <1>6
      <3>3. TabsTyped(none) /\ TabsSound(none) /\ IndexOfPage(none, p) = {}
        BY <2>5
      <3> QED  BY <3>1, <3>2, <3>3, RegisteredNew
    <2>8. Len(us) = 1
      BY <2>5, <2>7
    <2> QED  BY <2>6, <2>7, <2>8
  <1>8. \A i \in 1..Len(tabs') : i = 1
    BY <1>7
  <1>9. Tidy'
    <2>1. TabsDistinct(tabs')
      BY <1>8 DEF TabsDistinct
    <2>2. TabsCounted(tabs', tabSeq', pages')
      BY <1>3, <1>6, <1>7, <1>8 DEF TabsCounted
    <2>3. GenFollows(tabs', active', gen')
      BY <1>3, <1>7, <1>8 DEF GenFollows
    <2> QED  BY <1>3, <1>6, <1>7, <2>1, <2>2, <2>3 DEF Tidy
  <1>10. BrowserTyped'
    <2>1. admissions \in Seq(1..p)
      <3>1. Len(admissions) \in Nat /\ admissions \in [1..Len(admissions) -> 1..pages]
        BY <1>1 DEF BrowserTyped
      <3>2. admissions \in [1..Len(admissions) -> 1..p]
        BY <1>6, <3>1
      <3> QED  BY <3>1, <3>2, Sequenced
    <2>2. content' \in [1..p -> Seq(Node)]
      <3>1. PICK c \in lim.show : content' = Shows(content, p, c)
        BY <1>3
      <3>2. c \in Seq(Node) /\ content \in [1..pages -> Seq(Node)]
        BY <1>1, <3>1 DEF BrowserTyped
      <3> QED  BY <1>2, <1>6, <3>1, <3>2, OnePageMore
    <2>3. open' \subseteq 1..p
      BY <1>3, <1>6
    <2> QED  BY <1>1, <1>3, <1>6, <2>1, <2>2, <2>3 DEF BrowserTyped
  <1>11. RelaunchSound'
    <2>1. IndexOfPage(tabs, job.page)' # {}
      BY <1>5, <1>7 DEF IndexOfPage
    <2> QED  BY <1>4, <1>5, <2>1 DEF RelaunchSound
  <1>12. ResolveSound' /\ RefNamesSeenElement'
    BY <1>3, <1>5, ResolvedKept
  <1>13. JobSound'
    BY <1>5, <1>11, <1>12 DEF JobSound, CloseSound, SnapshotSound
  <1>14. RoomLeft'
    <2>1. Limit' = Limit
      BY <1>3, <1>5 DEF Limit, Replacing
    <2>2. Expected = job.todo + 1 /\ Expected' = 1 + job.todo /\ Len(tabs') = 1
      BY <1>3, <1>5, <1>7 DEF Expected
    <2>3. Limit \in Nat
      BY <1>1, PageAssumption DEF BrowserTyped, Limit
    <2>4. Expected <= Limit /\ (admitting = "checking" => Expected < Limit)
      BY <1>1 DEF RoomLeft
    <2>5. Expected' = Expected /\ Len(tabs') <= Expected /\ Expected \in Nat /\ Len(tabs') \in Nat
      BY <1>4, <2>2
    <2>6. Len(tabs') <= Limit /\ (admitting = "checking" => Len(tabs') < Limit)
      BY <2>3, <2>4, <2>5
    <2>7. admitting' = admitting
      BY <1>3
    <2> QED  BY <2>1, <2>4, <2>5, <2>6, <2>7 DEF RoomLeft
  <1>15. NoPageEscapes'
    <2>1. 1 \in 1..Len(tabs')
      BY <1>7
    <2>2. Registered(p)'
      BY <1>3, <1>7, <2>1 DEF Registered, IndexOfPage
    <2>3. \A q \in open' : q = p
      BY <1>3
    <2> QED  BY <2>2, <2>3 DEF NoPageEscapes
  <1> QED  BY <1>9, <1>10, <1>12, <1>13, <1>14, <1>15 DEF PageInv

\* What a relaunch that goes on keeps: only its record, and perhaps tabs and pages.
LEMMA RelaunchGoesOn ==
  ASSUME PageInv, job.kind = "relaunch", job'.kind = "relaunch", UNCHANGED resolved, RelaunchSound'
  PROVE  JobSound' /\ RefNamesSeenElement'
  <1>1. ResolveSound' /\ RefNamesSeenElement'
    BY ResolvedKept
  <1>2. CloseSound' /\ SnapshotSound'
    BY DEF CloseSound, SnapshotSound
  <1> QED  BY <1>1, <1>2 DEF JobSound

\* The record of a relaunch has its fields.
LEMMA RelaunchMeans ==
  ASSUME PageInv, job.kind = "relaunch"
  PROVE  /\ job = [kind |-> "relaunch", pc |-> job.pc, todo |-> job.todo, which |-> job.which,
                   page |-> job.page, made |-> job.made]
         /\ job.todo \in Nat
         /\ job.pc = "goto" => IndexOfPage(tabs, job.page) # {}
         /\ job.pc = "register" => job.page \in 1..pages /\ job.todo > 0
  BY DEF PageInv, JobSound, RelaunchSound

\* restoreTabStates opens a page, which is announced too.
LEMMA RestoreOpensKeeps ==
  ASSUME PageInv, RestoreOpens
  PROVE  PageInv'
  <1>1. BrowserTyped /\ Tidy /\ RoomLeft /\ NoPageEscapes
    BY DEF PageInv
  <1>2. /\ job.kind = "relaunch" /\ job.pc = "next" /\ job.todo > 0 /\ Opened(1)
        /\ job' = [job EXCEPT !.pc = "register", !.page = pages + 1]
        /\ UNCHANGED <<tabVars, admitting, lim, late, resolved>>
    BY DEF RestoreOpens, history
  <1>3. /\ pages' = pages + 1 /\ pages \in Nat /\ pages' \in Nat
        /\ open' = open \cup {pages + 1} /\ open' \subseteq 1..pages'
        /\ content' \in [1..pages' -> Seq(Node)]
        /\ admissions' \in Seq(1..pages') /\ admissions' # <<>>
        /\ \A k \in 1..Len(admissions) : k \in 1..Len(admissions') /\ admissions'[k] = admissions[k]
        /\ \E k \in 1..Len(admissions') : admissions'[k] = pages + 1
    BY <1>1, <1>2, OpenedMeans
  <1>4. pages <= pages' /\ pages + 1 \in 1..pages'
    BY <1>3
  <1>5. Tidy' /\ Len(tabs) \in Nat /\ Grown(tabs, tabs') /\ tabs' = tabs
    BY <1>1, <1>2, <1>3, <1>4, TidyKept DEF tabVars
  <1>6. BrowserTyped'
    BY <1>1, <1>2, <1>3 DEF BrowserTyped
  <1>7. /\ job' = [kind |-> "relaunch", pc |-> job'.pc, todo |-> job'.todo, which |-> job'.which,
                   page |-> job'.page, made |-> job'.made]
        /\ job'.kind = "relaunch" /\ job'.pc = "register" /\ job'.page = pages + 1 /\ job'.todo = job.todo
        /\ job.todo \in Nat
    BY <1>1, <1>2, RelaunchMeans
  <1>8. RelaunchSound'
    BY <1>2, <1>4, <1>7 DEF RelaunchSound
  <1>9. JobSound' /\ RefNamesSeenElement'
    BY <1>2, <1>7, <1>8, RelaunchGoesOn
  <1>10. RoomLeft'
    <2>1. Expected' = Expected /\ Limit' = Limit
      BY <1>2, <1>5, <1>7 DEF Expected, Limit, Replacing
    <2> QED  BY <1>1, <1>2, <1>5, <2>1 DEF RoomLeft
  <1>11. NoPageEscapes'
    <2>1. \A q : ~JobAwaits(q)
      BY <1>2 DEF JobAwaits
    <2> QED  BY <1>1, <1>3, <1>5, <2>1, EscapesMoved
  <1> QED  BY <1>5, <1>6, <1>9, <1>10, <1>11 DEF PageInv

\* The page gets a tab, unless its admission gave it one.
LEMMA RestoreRegistersKeeps ==
  ASSUME PageInv, RestoreRegisters
  PROVE  PageInv'
  <1>1. BrowserTyped /\ Tidy /\ RoomLeft /\ NoPageEscapes
    BY DEF PageInv
  <1>2. PICK p : p = job.page
    OBVIOUS
  <1>3. PICK id, main : id = tabSeq + 1 /\ main = FALSE
    OBVIOUS
  <1>4. PICK which : which = tabs'[Smallest(IndexOfPage(tabs', p))].id
    OBVIOUS
  <1>5. /\ job.kind = "relaunch" /\ job.pc = "register"
        /\ tabs' = RegisterTab(tabs, tabSeq + 1, p, FALSE)
        /\ tabSeq' = IF Len(tabs') > Len(tabs) THEN tabSeq + 1 ELSE tabSeq
        /\ job' = [job EXCEPT !.pc = "goto", !.todo = @ - 1, !.made = Append(@, which)]
        /\ UNCHANGED <<active, gen, lim, open, content, pages, admissions, admitting, late, resolved>>
    BY <1>2, <1>4 DEF RestoreRegisters, Quiet, openVars, history
  <1>6. /\ job = [kind |-> "relaunch", pc |-> job.pc, todo |-> job.todo, which |-> job.which,
                  page |-> job.page, made |-> job.made]
        /\ job.todo \in Nat /\ job.todo > 0 /\ p \in 1..pages
    BY <1>2, <1>5, RelaunchMeans
  <1>7. BrowserTyped' /\ pages \in Nat /\ pages' \in Nat /\ pages <= pages'
    <2>1. DOMAIN lim' = Limits \cup {"show"} /\ lim'.show \subseteq Seq(Node)
      BY <1>1, <1>5 DEF BrowserTyped
    <2> QED  BY <1>1, <1>5, <2>1, BrowserKept
  <1>8. Len(tabs') = IF IndexOfPage(tabs, p) = {} THEN Len(tabs) + 1 ELSE Len(tabs)
    <2>1. TabsTyped(tabs) /\ TabsDistinct(tabs) /\ TabsSound(tabs)
      BY <1>1 DEF Tidy
    <2>2. PICK us : us = tabs'
      OBVIOUS
    <2>3. us = RegisterTab(tabs, id, p, main) /\ main \in BOOLEAN
      BY <1>3, <1>5, <2>2
    <2>4. id \in Nat /\ p \in Nat
      BY <1>1, <1>3, <1>6, <1>7 DEF Tidy
    <2>5. CASE IndexOfPage(tabs, p) = {}
      <3>1. Len(us) = Len(tabs) + 1
        BY <2>1, <2>3, <2>4, <2>5, RegisteredNew
      <3> QED  BY <2>2, <2>5, <3>1
    <2>6. CASE IndexOfPage(tabs, p) # {}
      <3>1. Len(us) = Len(tabs)
        BY <2>1, <2>3, <2>4, <2>6, RegisteredAgain
      <3> QED  BY <2>2, <2>6, <3>1
    <2> QED  BY <2>5, <2>6
  <1>9. tabSeq' = IF IndexOfPage(tabs, p) = {} THEN tabSeq + 1 ELSE tabSeq
    <2>1. Len(tabs) \in Nat
      BY <1>1, TypedMeans DEF Tidy
    <2>2. CASE IndexOfPage(tabs, p) = {}
      <3>1. Len(tabs') > Len(tabs)
        BY <1>8, <2>1, <2>2
      <3> QED  BY <1>5, <2>2, <3>1
    <2>3. CASE IndexOfPage(tabs, p) # {}
      <3>1. ~(Len(tabs') > Len(tabs))
        BY <1>8, <2>1, <2>3
      <3> QED  BY <1>5, <2>3, <3>1
    <2> QED  BY <2>2, <2>3
  <1>10. Tidy' /\ Grown(tabs, tabs') /\ Registered(p)' /\ Len(tabs) \in Nat /\ Len(tabs') \in Nat
    BY <1>1, <1>5, <1>6, <1>7, <1>9, RegisterKeepsTidy
  <1>11. /\ job' = [kind |-> "relaunch", pc |-> job'.pc, todo |-> job'.todo, which |-> job'.which,
                    page |-> job'.page, made |-> job'.made]
         /\ job'.kind = "relaunch" /\ job'.pc = "goto" /\ job'.page = p /\ job'.todo = job.todo - 1
    BY <1>2, <1>5, <1>6
  <1>12. RelaunchSound'
    <2>1. job'.todo \in Nat
      BY <1>6, <1>11
    <2>2. IndexOfPage(tabs, job.page)' # {}
      BY <1>10, <1>11 DEF Registered
    <2> QED  BY <1>11, <2>1, <2>2 DEF RelaunchSound
  <1>13. JobSound' /\ RefNamesSeenElement'
    BY <1>5, <1>11, <1>12, RelaunchGoesOn
  <1>14. RoomLeft'
    <2>1. Limit' = Limit
      BY <1>5, <1>11 DEF Limit, Replacing
    <2>2. Limit \in Nat
      BY <1>1, PageAssumption DEF BrowserTyped, Limit
    <2>3. Expected = Len(tabs) + job.todo /\ Expected' = Len(tabs') + (job.todo - 1)
      BY <1>5, <1>11 DEF Expected
    <2>4. Expected' <= Expected /\ Len(tabs') <= Expected /\ Expected \in Nat /\ Expected' \in Nat
      BY <1>6, <1>8, <1>10, <2>3
    <2>5. /\ Expected <= Limit /\ (admitting = "checking" => Expected < Limit)
          /\ admitting' = admitting
      BY <1>1, <1>5 DEF RoomLeft
    <2>6. /\ Len(tabs') <= Limit /\ Expected' <= Limit
          /\ (admitting = "checking" => Len(tabs') < Limit /\ Expected' < Limit)
      BY <1>10, <2>2, <2>4, <2>5
    <2> QED  BY <2>1, <2>5, <2>6 DEF RoomLeft
  <1>15. NoPageEscapes'
    <2>1. \A q : JobAwaits(q) => q = p
      BY <1>2, <1>5 DEF JobAwaits
    <2> QED  BY <1>1, <1>5, <1>10, <2>1, EscapesMoved
  <1> QED  BY <1>7, <1>10, <1>13, <1>14, <1>15 DEF PageInv

\* restoreTabPage: the restored tab navigates, or is blank.
LEMMA RestoreNavigatesKeeps ==
  ASSUME PageInv, NEW blank \in BOOLEAN, RestoreNavigates(blank)
  PROVE  PageInv'
  <1>1. BrowserTyped /\ Tidy /\ RoomLeft /\ NoPageEscapes
    BY DEF PageInv
  <1>2. /\ job.kind = "relaunch" /\ job.pc = "goto"
        /\ IF blank
           THEN UNCHANGED <<tabs, gen, active, tabSeq>>
           ELSE LET i == Smallest(IndexOfPage(tabs, job.page)) IN NotePageGeneration(tabs[i].id, tabs[i].obs)
        /\ job' = [job EXCEPT !.pc = "next"]
        /\ UNCHANGED <<lim, open, content, pages, admissions, admitting, late, resolved>>
    BY DEF RestoreNavigates, Quiet, openVars, history
  <1>3. BrowserTyped' /\ pages \in Nat /\ pages' \in Nat /\ pages <= pages'
    <2>1. DOMAIN lim' = Limits \cup {"show"} /\ lim'.show \subseteq Seq(Node)
      BY <1>1, <1>2 DEF BrowserTyped
    <2> QED  BY <1>1, <1>2, <2>1, BrowserKept
  <1>4. Tidy' /\ Grown(tabs, tabs') /\ Len(tabs') = Len(tabs) /\ Len(tabs) \in Nat
    <2>1. CASE blank
      <3>1. UNCHANGED tabVars
        BY <1>2, <2>1 DEF tabVars
      <3>2. Tidy' /\ Len(tabs) \in Nat /\ Grown(tabs, tabs')
        BY <1>1, <1>3, <3>1, TidyKept
      <3> QED  BY <3>1, <3>2 DEF tabVars
    <2>2. CASE ~blank
      <3>1. PICK i \in 1..Len(tabs) : tabs[i].page = job.page
        BY <1>2, RelaunchMeans DEF IndexOfPage
      <3>2. Len(tabs) \in Nat /\ TabsDistinct(tabs) /\ tabs[i].obs \in Nat
        BY <1>1, TypedMeans DEF Tidy, Tab
      <3>3. Smallest(IndexOfPage(tabs, tabs[i].page)) = i
        BY <3>2, Found
      <3>4. NotePageGeneration(tabs[i].id, tabs[i].obs)
        BY <1>2, <2>2, <3>1, <3>3
      <3> QED  BY <1>1, <1>3, <3>2, <3>4, Noted
    <2> QED  BY <2>1, <2>2
  <1>5. /\ job' = [kind |-> "relaunch", pc |-> job'.pc, todo |-> job'.todo, which |-> job'.which,
                   page |-> job'.page, made |-> job'.made]
        /\ job'.kind = "relaunch" /\ job'.pc = "next" /\ job'.todo = job.todo /\ job.todo \in Nat
    BY <1>2, RelaunchMeans
  <1>6. RelaunchSound'
    BY <1>5 DEF RelaunchSound
  <1>7. JobSound' /\ RefNamesSeenElement'
    BY <1>2, <1>5, <1>6, RelaunchGoesOn
  <1>8. RoomLeft'
    <2>1. Expected' = Expected /\ Limit' = Limit
      BY <1>2, <1>4, <1>5 DEF Expected, Limit, Replacing
    <2> QED  BY <1>1, <1>2, <1>4, <2>1 DEF RoomLeft
  <1>9. NoPageEscapes'
    <2>1. \A q : ~JobAwaits(q)
      BY <1>2 DEF JobAwaits
    <2> QED  BY <1>1, <1>2, <1>4, <2>1, EscapesMoved
  <1> QED  BY <1>3, <1>4, <1>7, <1>8, <1>9 DEF PageInv

\* A relaunch ends, with the tabs that it has; the session's generation may be that
\* of another tab.
LEMMA RelaunchIsOver ==
  ASSUME PageInv, job.kind = "relaunch", job.pc # "register", job' = Idle, Tidy', UNCHANGED tabs,
         UNCHANGED <<lim, open, content, pages, admissions, admitting, late, resolved>>
  PROVE  PageInv'
  <1>1. BrowserTyped /\ Tidy /\ RoomLeft /\ NoPageEscapes
    BY DEF PageInv
  <1>2. BrowserTyped'
    BY <1>1 DEF BrowserTyped
  <1>3. JobSound' /\ RefNamesSeenElement'
    BY NoJob
  <1>4. RoomLeft'
    BY <1>1 DEF RoomLeft, Expected, Limit, Replacing, Idle
  <1>5. NoPageEscapes'
    <2>1. \A q : ~JobAwaits(q)
      BY DEF JobAwaits
    <2>2. Len(tabs) \in Nat /\ \A i \in 1..Len(tabs) : tabs[i].rev \in Nat
      BY <1>1, TypedMeans DEF Tidy, Tab
    <2>3. Grown(tabs, tabs')
      BY <2>2 DEF Grown
    <2> QED  BY <1>1, <2>1, <2>2, <2>3, EscapesMoved
  <1> QED  BY <1>2, <1>3, <1>4, <1>5 DEF PageInv

\* The tabs restored so far stay when the relaunch fails.
LEMMA RestoreFailsKeeps ==
  ASSUME PageInv, RestoreFails
  PROVE  PageInv'
  <1>1. /\ job.kind = "relaunch" /\ job.pc # "register" /\ job' = Idle
        /\ UNCHANGED <<tabVars, lim, open, content, pages, admissions, admitting, late, resolved>>
    BY DEF RestoreFails, Quiet, openVars, history
  <1>2. Tidy' /\ tabs' = tabs
    <2>1. Tidy /\ pages \in Nat
      BY DEF PageInv, BrowserTyped
    <2> QED  BY <1>1, <2>1 DEF Tidy, tabVars, TabsCounted
  <1> QED  BY <1>1, <1>2, RelaunchIsOver

\* The tab that was active is activated, if it was restored.
LEMMA RestoreEndsKeeps ==
  ASSUME PageInv, RestoreEnds
  PROVE  PageInv'
  <1>1. Tidy
    BY DEF PageInv
  <1>2. PICK id : /\ id = job.made[IF job.which \in 1..Len(job.made) THEN job.which ELSE 1]
                  /\ IF Index(id) = {} THEN UNCHANGED <<active, gen>> ELSE Activate(tabs, id)
    BY DEF RestoreEnds
  <1>3. /\ job.kind = "relaunch" /\ job.pc # "register" /\ job' = Idle
        /\ UNCHANGED <<tabs, tabSeq, lim, open, content, pages, admissions, admitting, late, resolved>>
    BY DEF RestoreEnds, Quiet, openVars, history
  <1>4. Tidy'
    <2>1. CASE Index(id) = {}
      BY <1>1, <1>2, <1>3, <2>1 DEF Tidy, TabsCounted
    <2>2. CASE Index(id) # {}
      <3>1. PICK k \in 1..Len(tabs) : tabs[k].id = id
        BY <2>2 DEF Index
      <3>2. Activate(tabs, id)
        BY <1>2, <2>2
      <3>3. active' = id /\ gen' \in Nat /\ GenFollows(tabs, active', gen')
        BY <1>1, <3>1, <3>2, Activated DEF Tidy
      <3>4. id \in 1..tabSeq
        BY <1>1, <3>1 DEF Tidy, TabsCounted
      <3> QED  BY <1>1, <1>3, <3>3, <3>4 DEF Tidy, TabsCounted
    <2> QED  BY <2>1, <2>2
  <1> QED  BY <1>3, <1>4, RelaunchIsOver

\* stop: no tab and no page is left.
LEMMA StopPagesKeeps ==
  ASSUME PageInv, StopPages
  PROVE  PageInv'
  <1>1. BrowserTyped /\ Tidy /\ RoomLeft
    BY DEF PageInv
  <1>2. /\ Spend("stops") /\ job = Idle /\ job' = Idle /\ tabs' = <<>> /\ open' = {}
        /\ UNCHANGED <<active, gen, tabSeq, content, pages, admissions, admitting, late, resolved>>
    BY DEF StopPages, history
  <1>3. DOMAIN lim' = Limits \cup {"show"} /\ lim'.show \subseteq Seq(Node)
    BY <1>1, <1>2, Spent DEF Limits
  <1>4. Tidy' /\ NoPageEscapes' /\ Len(tabs') = 0
    BY <1>1, <1>2, EmptyIsTidy
  <1>5. BrowserTyped'
    BY <1>1, <1>2, <1>3 DEF BrowserTyped
  <1>6. JobSound' /\ RefNamesSeenElement'
    BY <1>2, NoJob
  <1>7. RoomLeft'
    <2>1. Limit' = Limit /\ Limit = MaxTabs + late + 0 /\ Expected' = Len(tabs')
      BY <1>2 DEF Limit, Replacing, Expected, Idle
    <2>2. late \in Nat
      BY <1>1 DEF BrowserTyped
    <2> QED  BY <1>4, <2>1, <2>2, PageAssumption DEF RoomLeft
  <1> QED  BY <1>4, <1>5, <1>6, <1>7 DEF PageInv

-----------------------------------------------------------------------------
(* The theorems about the pages *)

\* A session that has started has one tab on one page.
LEMMA PageInitMeans ==
  ASSUME PageInit
  PROVE  PageInv
  <1>1. /\ tabs = <<[NewTab(1, 1, TRUE) EXCEPT !.obs = 1]>> /\ active = 1 /\ gen = 0 /\ tabSeq = 1
        /\ lim \in Scenarios /\ open = {1} /\ content \in [{1} -> lim.show] /\ pages = 1
        /\ admissions = <<>> /\ admitting = "idle" /\ job = Idle /\ late = 0 /\ resolved = None
    BY DEF PageInit
  <1>2. PICK us : us = tabs
    OBVIOUS
  <1>3. /\ TabsTyped(us) /\ TabsSound(us) /\ Len(us) = 1
        /\ us[1].id = 1 /\ us[1].page = 1 /\ us[1].rev = 0
    <2>1. PICK none, main : none = <<>> /\ main = TRUE
      OBVIOUS
    <2>2. <<>> \in Seq(Tab({})) /\ Len(<<>>) = 0 /\ 1..0 = {}
      BY DEF Tab
    <2>3. TabsTyped(none) /\ Len(none) = 0 /\ 1..Len(none) = {}
      BY <2>1, <2>2, Retyped
    <2>4. TabsSound(none) /\ IndexOfPage(none, 1) = {}
      BY <2>3 DEF TabsSound, IndexOfPage
    <2>5. us = RegisterTab(none, 1, 1, main) /\ main \in BOOLEAN
      <3>1. PICK t : t = [NewTab(1, 1, main) EXCEPT !.obs = 1]
        OBVIOUS
      <3>2. us = <<t>> /\ <<t>> = Append(<<>>, t)
        BY <1>1, <1>2, <2>1, <3>1
      <3>3. us = Append(none, t)
        BY <2>1, <3>2
      <3> QED  BY <2>1, <2>4, <3>1, <3>3 DEF RegisterTab
    <2>6. 1 \in Nat
      OBVIOUS
    <2>7. /\ TabsTyped(us) /\ TabsSound(us) /\ Len(us) = Len(none) + 1
          /\ us[Len(us)].id = 1 /\ us[Len(us)].page = 1 /\ us[Len(us)].rev = 0
      <3>1. TabsTyped(none) /\ TabsSound(none) /\ IndexOfPage(none, 1) = {}
        BY <2>3, <2>4
      <3> QED  BY <2>5, <2>6, <3>1, RegisteredNew
    <2>8. Len(us) = 1
      BY <2>3, <2>7
    <2> QED  BY <2>7, <2>8
  <1>4. \A i \in 1..Len(tabs) : i = 1
    BY <1>2, <1>3
  <1>5. Tidy
    <2>1. TabsDistinct(tabs)
      BY <1>4 DEF TabsDistinct
    <2>2. TabsCounted(tabs, tabSeq, pages) /\ GenFollows(tabs, active, gen)
      BY <1>1, <1>2, <1>3, <1>4 DEF TabsCounted, GenFollows
    <2> QED  BY <1>1, <1>2, <1>3, <2>1, <2>2 DEF Tidy
  <1>6. DOMAIN lim = Limits \cup {"show"} /\ lim.show \subseteq Seq(Node)
    BY <1>1, ScenarioAssumption
  <1>7. BrowserTyped
    <2>1. 1..1 = {1} /\ <<>> \in Seq(1..1) /\ 1 \in Nat /\ 0 \in Nat
      OBVIOUS
    <2>2. content \in [1..1 -> Seq(Node)]
      BY <1>1, <1>6, <2>1
    <2> QED  BY <1>1, <1>6, <2>1, <2>2 DEF BrowserTyped
  <1>8. job.kind = "none"
    BY <1>1 DEF Idle
  <1>9. JobSound /\ RefNamesSeenElement
    BY <1>1, <1>8 DEF JobSound, CloseSound, SnapshotSound, ResolveSound, RelaunchSound, RefNamesSeenElement
  <1>10. RoomLeft
    <2>1. Limit = MaxTabs + 0 + 0 /\ Expected = 1 /\ Len(tabs) = 1
      BY <1>1, <1>2, <1>3, <1>8 DEF Limit, Replacing, Expected
    <2> QED  BY <1>1, <2>1, PageAssumption DEF RoomLeft
  <1>11. NoPageEscapes
    <2>1. 1 \in 1..Len(tabs) /\ tabs[1].page = 1
      BY <1>2, <1>3
    <2> QED  BY <1>1, <2>1 DEF NoPageEscapes, Registered, IndexOfPage
  <1> QED  BY <1>5, <1>7, <1>9, <1>10, <1>11 DEF PageInv

\* Every step keeps the invariant.
LEMMA PageStep ==
  ASSUME PageInv, [PageNext]_pageVars
  PROVE  PageInv'
  <1>1. CASE UNCHANGED pageVars
    <2>1. UNCHANGED <<tabs, active, gen, tabSeq, open, content, pages, admissions, admitting, job, lim, late, resolved>>
      BY <1>1 DEF pageVars, tabVars, openVars
    <2>2. Tidy' /\ BrowserTyped'
      BY <2>1 DEF PageInv, Tidy, BrowserTyped, TabsCounted
    <2>3. JobSound'
      BY <2>1 DEF PageInv, JobSound, CloseSound, SnapshotSound, ResolveSound, RelaunchSound, Index
    <2>4. RoomLeft' /\ NoPageEscapes' /\ RefNamesSeenElement'
      BY <2>1 DEF PageInv, RoomLeft, Expected, Limit, Replacing, NoPageEscapes, Registered, Awaited,
                  RefNamesSeenElement
    <2> QED  BY <2>2, <2>3, <2>4 DEF PageInv
  <1>2. CASE Admission
    BY <1>2, AdmissionBeginsKeeps, AdmissionEndsKeeps DEF Admission
  <1>3. CASE Operation
    <2>1. ASSUME NEW i \in 1..Len(tabs), SwitchTab(i) \/ CloseTabBegins(i)  PROVE PageInv'
      BY <2>1, SwitchTabKeeps, CloseTabBeginsKeeps
    <2>2. CASE CloseTabReplaces
      BY <2>2, CloseTabReplacesKeeps
    <2>3. ASSUME NEW ok \in BOOLEAN, CloseTabEnds(ok)  PROVE PageInv'
      BY <2>3, CloseTabEndsKeeps
    <2>4. ASSUME NEW since \in 1..2 \cup {None}, SnapshotBegins(since)  PROVE PageInv'
      BY <2>4, SnapshotBeginsKeeps
    <2>5. CASE SnapshotReads \/ SnapshotEnds
      BY <2>5, SnapshotReadsKeeps, SnapshotEndsKeeps
    <2>6. ASSUME NEW ref, ResolveBegins(ref)  PROVE PageInv'
      BY <2>6, ResolveBeginsKeeps
    <2>7. ASSUME NEW actionable \in BOOLEAN, ResolveEnds(actionable)  PROVE PageInv'
      BY <2>7, ResolveEndsKeeps
    <2>8. CASE RelaunchBegins \/ Launched \/ RestoreOpens \/ RestoreRegisters \/ RestoreFails \/ RestoreEnds
      BY <2>8, RelaunchBeginsKeeps, LaunchedKeeps, RestoreOpensKeeps, RestoreRegistersKeeps,
         RestoreFailsKeeps, RestoreEndsKeeps
    <2>9. ASSUME NEW blank \in BOOLEAN, RestoreNavigates(blank)  PROVE PageInv'
      BY <2>9, RestoreNavigatesKeeps
    <2>10. CASE StopPages
      BY <2>10, StopPagesKeeps
    <2> QED  BY <1>3, <2>1, <2>2, <2>3, <2>4, <2>5, <2>6, <2>7, <2>8, <2>9, <2>10 DEF Operation
  <1>4. CASE Environment
    <2>1. ASSUME NEW i \in 1..Len(tabs), Navigates(i) \/ Popup(i) \/ RefExpires(i)  PROVE PageInv'
      BY <2>1, NavigatesKeeps, PopupKeeps, RefExpiresKeeps
    <2>2. ASSUME NEW p \in open, ContentChanges(p)  PROVE PageInv'
      BY <2>2, ContentChangesKeeps
    <2>3. CASE Crash \/ ClockTicks
      BY <2>3, ClockAndCrashKeep
    <2> QED  BY <1>4, <2>1, <2>2, <2>3 DEF Environment
  <1> QED  BY <1>1, <1>2, <1>3, <1>4 DEF PageNext

\* What the invariant says of the tabs.
LEMMA TabsFollow ==
  ASSUME PageInv
  PROVE  TabsManaged
  <1>1. Tidy /\ RoomLeft /\ NoPageEscapes /\ Len(tabs) \in Nat
    BY TypedMeans DEF PageInv, Tidy
  <1>2. ASSUME NEW i \in 1..Len(tabs), tabs[i].id = active  PROVE gen = Revision(active)
    <2>1. Smallest(IndexOfId(tabs, tabs[i].id)) = i
      BY <1>1, Found DEF Tidy
    <2>2. Revision(active) = tabs[i].rev
      BY <1>2, <2>1 DEF Revision, Index, IndexOfId
    <2> QED  BY <1>1, <1>2, <2>2 DEF Tidy, GenFollows
  <1>3. Index(active) # {} => gen = Revision(active)
    BY <1>2 DEF Index
  <1>4. \A i, j \in 1..Len(tabs) : tabs[i].id = tabs[j].id \/ tabs[i].page = tabs[j].page => i = j
    BY <1>1 DEF Tidy, TabsDistinct
  <1>5. Len(tabs) <= MaxTabs + late + (IF Replacing THEN 1 ELSE 0)
    BY <1>1 DEF RoomLeft, Limit
  <1>6. \A p \in open : Registered(p) \/ Awaited(p)
    BY <1>1 DEF NoPageEscapes
  <1>7. \A i \in 1..Len(tabs) : tabs[i].reg.gen = tabs[i].rev /\ Len(tabs[i].reg.recs) <= MaxRefs
    BY <1>1 DEF Tidy, TabsSound, TabSound
  <1> QED  BY <1>3, <1>4, <1>5, <1>6, <1>7 DEF TabsManaged

\* The invariant of the pages holds in every state.
THEOREM PagesKeepOrder == PageSpec => []PageInv
  <1>1. PageInit => PageInv
    BY PageInitMeans
  <1>2. PageInv /\ [PageNext]_pageVars => PageInv'
    BY PageStep
  <1> QED  BY <1>1, <1>2, PTL DEF PageSpec

\* browser-session.ts knows its pages: the generation it guards writes with is the
\* active tab's, no two tabs share a page, their number keeps to maxTabs but for
\* a replacement and for pages admitted around a relaunch, and no page that is
\* open is forgotten, however many tabs and pages there are.
THEOREM TabsAreManaged == PageSpec => []TabsManaged
  <1>1. PageInv => TabsManaged
    BY TabsFollow
  <1> QED  BY <1>1, PagesKeepOrder, PTL

\* target-registry.ts: a reference passes only on the revision its element was read
\* from, and then names that element or none.
THEOREM RefsNameSeenElements == PageSpec => []RefNamesSeenElement
  <1>1. PageInv => RefNamesSeenElement
    BY DEF PageInv
  <1> QED  BY <1>1, PagesKeepOrder, PTL

=============================================================================
