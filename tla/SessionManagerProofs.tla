-------------------------- MODULE SessionManagerProofs --------------------------
(***************************************************************************)
(* Proofs, for every set of sessions, profiles, tenants and start options  *)
(* and every limit, that the session manager gives a profile to one active *)
(* session at a time, never hands out a session past its deadline, and     *)
(* keeps the workspace record of every session that can be used.           *)
(***************************************************************************)
EXTENDS SessionManager, SequenceTheorems, FiniteSetTheorems, TLAPS

-----------------------------------------------------------------------------
(* The bounded insertion-ordered lists *)

\* A list of different ids.
Distinct(list) == list \in Seq(Ids) /\ IsInjective(list)

\* Set.delete on an insertion-ordered list.
LEMMA ForgetDistinct ==
  ASSUME NEW list, Distinct(list), NEW id
  PROVE  /\ Distinct(Forget(list, id))
         /\ \A k \in 1..Len(Forget(list, id)) : Forget(list, id)[k] # id
         /\ \A k \in 1..Len(Forget(list, id)) : Contains(list, Forget(list, id)[k])
         /\ Len(Forget(list, id)) \in {Len(list), Len(list) - 1}
         /\ \A i : i # id /\ Contains(list, i) => Contains(Forget(list, id), i)
         /\ ~Contains(list, id) => Forget(list, id) = list
  <1> USE DEF Distinct, IsInjective, Contains
  <1>1. CASE ~Contains(list, id)
    BY <1>1 DEF Forget, RemoveFirst
  <1>2. CASE Contains(list, id)
    <2>1. PICK k \in 1..Len(list) : list[k] = id
      BY <1>2
    <2>2. {i \in 1..Len(list) : list[i] = id} = {k}
      BY <2>1
    <2>3. Min({k}) = k
      BY DEF Min
    <2>4. Forget(list, id) = RemoveAt(list, k)
      BY <2>1, <2>2, <2>3 DEF Forget, RemoveFirst, SelectInSeq
    <2> DEFINE p == SubSeq(list, 1, k - 1)
               q == SubSeq(list, k + 1, Len(list))
               f == p \o q
    <2>5. /\ Len(list) \in Nat /\ DOMAIN list = 1..Len(list)
          /\ p \in Seq(Ids) /\ Len(p) = k - 1
          /\ \A n \in 1..(k - 1) : p[n] = list[n]
          /\ q \in Seq(Ids) /\ Len(q) = Len(list) - k
          /\ \A n \in 1..(Len(list) - k) : q[n] = list[n + k]
      BY <2>1
    <2>6. Forget(list, id) = f
      BY <2>4 DEF RemoveAt
    <2> HIDE DEF p, q
    <2>7. /\ f \in Seq(Ids) /\ Len(f) = Len(p) + Len(q)
          /\ DOMAIN f = 1..Len(f)
          /\ \A n \in 1..(Len(p) + Len(q)) : f[n] = IF n <= Len(p) THEN p[n] ELSE q[n - Len(p)]
      <3>1. p \in Seq(Ids) /\ q \in Seq(Ids)
        BY <2>5
      <3>2. /\ f \in Seq(Ids) /\ Len(f) = Len(p) + Len(q)
            /\ \A n \in 1..(Len(p) + Len(q)) : f[n] = IF n <= Len(p) THEN p[n] ELSE q[n - Len(p)]
        BY <3>1, ConcatProperties
      <3> HIDE DEF f
      <3> QED
        BY <3>2, LenProperties
    <2> HIDE DEF f
    <2>8. /\ Len(f) = Len(list) - 1
          /\ \A n \in 1..Len(f) : /\ n < k => f[n] = list[n]
                                  /\ n >= k => f[n] = list[n + 1]
      <3>1. Len(f) = Len(list) - 1
        BY <2>1, <2>5, <2>7
      <3>2. ASSUME NEW n \in 1..Len(f), n < k PROVE f[n] = list[n]
        <4>1. n \in 1..(Len(p) + Len(q)) /\ n <= Len(p) /\ n \in 1..(k - 1)
          BY <2>1, <2>5, <2>7, <3>1, <3>2
        <4> QED
          BY <2>5, <2>7, <4>1
      <3>3. ASSUME NEW n \in 1..Len(f), n >= k PROVE f[n] = list[n + 1]
        <4>1. n - (k - 1) \in 1..(Len(list) - k) /\ n > k - 1 /\ (n - (k - 1)) + k = n + 1
          BY <2>1, <2>5, <3>1, <3>3
        <4>2. f[n] = q[n - (k - 1)]
          BY <2>1, <2>5, <2>7, <4>1
        <4> QED
          BY <2>5, <4>1, <4>2
      <3> QED
        BY <3>1, <3>2, <3>3
    <2>9. \A i : i # id /\ Contains(list, i) => Contains(f, i)
      <3> SUFFICES ASSUME NEW n \in 1..Len(list), list[n] # id PROVE \E m \in 1..Len(f) : f[m] = list[n]
        OBVIOUS
      <3>1. CASE n < k
        <4>1. n \in 1..Len(f) /\ f[n] = list[n]
          BY <2>1, <2>5, <2>8, <3>1
        <4> QED
          BY <4>1
      <3>2. CASE n > k
        <4>1. n - 1 \in 1..Len(f) /\ f[n - 1] = list[(n - 1) + 1] /\ (n - 1) + 1 = n
          BY <2>1, <2>5, <2>8, <3>2
        <4> QED
          BY <4>1
      <3> QED
        BY <2>1, <2>5, <3>1, <3>2
    <2>10. ASSUME NEW n \in 1..Len(f)
          PROVE  \E m \in DOMAIN list : /\ m # k /\ f[n] = list[m]
                                        /\ n < k => m = n
                                        /\ n >= k => m = n + 1
      <3>1. CASE n < k
        <4>1. k \in Nat /\ n \in Nat /\ Len(list) \in Nat /\ n <= Len(list) - 1 /\ n >= 1
          BY <2>1, <2>5, <2>8
        <4>2. n \in DOMAIN list /\ n # k /\ ~(n >= k)
          BY <2>5, <3>1, <4>1
        <4>3. f[n] = list[n]
          BY <2>8, <3>1
        <4> QED
          BY <4>2, <4>3
      <3>2. CASE n >= k
        <4>1. n + 1 \in DOMAIN list /\ n + 1 # k /\ ~(n < k)
          <5>1. k \in Nat /\ n \in Nat /\ Len(list) \in Nat /\ n <= Len(list) - 1
            BY <2>1, <2>5, <2>8
          <5> QED
            BY <2>5, <3>2, <5>1
        <4>2. f[n] = list[n + 1]
          BY <2>8, <3>2
        <4> QED
          BY <4>1, <4>2
      <3> QED
        BY <2>1, <2>5, <2>8, <3>1, <3>2
    <2>11. Distinct(f) /\ \A n \in 1..Len(f) : f[n] # id
      <3>1. \A n \in 1..Len(f) : f[n] # id
        BY <2>1, <2>5, <2>10
      <3>2. IsInjective(f)
        <4> SUFFICES ASSUME NEW a \in 1..Len(f), NEW b \in 1..Len(f), f[a] = f[b] PROVE a = b
          BY <2>7
        <4>1. PICK m \in DOMAIN list : /\ m # k /\ f[a] = list[m]
                                       /\ a < k => m = a
                                       /\ a >= k => m = a + 1
          BY <2>10
        <4>2. PICK n \in DOMAIN list : /\ n # k /\ f[b] = list[n]
                                       /\ b < k => n = b
                                       /\ b >= k => n = b + 1
          BY <2>10
        <4>3. m = n
          BY <4>1, <4>2
        <4> QED
          BY <2>1, <2>5, <2>8, <4>1, <4>2, <4>3
      <3> QED
        BY <2>7, <3>1, <3>2
    <2>12. \A n \in 1..Len(f) : Contains(list, f[n])
      BY <2>5, <2>10
    <2> QED
      BY <1>2, <2>5, <2>6, <2>8, <2>9, <2>11, <2>12
  <1> QED
    BY <1>1, <1>2

\* The eviction loop.
LEMMA NewestDistinct ==
  ASSUME NEW list, Distinct(list)
  PROVE  /\ Distinct(Newest(list)) /\ Len(Newest(list)) <= MaxClosed
         /\ \A k \in 1..Len(Newest(list)) : Contains(list, Newest(list)[k])
         /\ Len(list) <= MaxClosed => Newest(list) = list
         /\ Len(list) > MaxClosed => Len(Newest(list)) = MaxClosed
  <1> USE LimitsAssumption DEF Distinct, IsInjective, Contains
  <1>1. CASE Len(list) <= MaxClosed
    BY <1>1 DEF Newest
  <1>2. CASE Len(list) > MaxClosed
    <2> DEFINE f == SubSeq(list, Len(list) - MaxClosed + 1, Len(list))
    <2>1. Newest(list) = f
      BY <1>2 DEF Newest
    <2>2. /\ f \in Seq(Ids) /\ Len(f) = MaxClosed
          /\ \A n \in 1..MaxClosed : f[n] = list[n + (Len(list) - MaxClosed)]
      BY <1>2
    <2>3. DOMAIN f = 1..Len(f) /\ DOMAIN list = 1..Len(list) /\ Len(list) \in Nat
      BY <2>2
    <2> HIDE DEF f
    <2>4. IsInjective(f)
      <3> SUFFICES ASSUME NEW a \in 1..MaxClosed, NEW b \in 1..MaxClosed, f[a] = f[b] PROVE a = b
        BY <2>2, <2>3
      <3> DEFINE d == Len(list) - MaxClosed
      <3>1. a + d \in DOMAIN list /\ b + d \in DOMAIN list /\ d \in Nat
        BY <1>2, <2>3
      <3>2. a + d = b + d
        BY <2>2, <3>1
      <3> QED
        BY <3>1, <3>2
    <2>5. \A n \in 1..Len(f) : Contains(list, f[n])
      <3> SUFFICES ASSUME NEW n \in 1..MaxClosed PROVE Contains(list, f[n])
        BY <2>2
      <3>1. n + (Len(list) - MaxClosed) \in 1..Len(list)
        BY <1>2, <2>3
      <3> QED
        BY <2>2, <3>1
    <2> QED
      BY <1>2, <2>1, <2>2, <2>3, <2>4, <2>5
  <1> QED
    BY <1>1, <1>2

\* rememberClosed and rememberExpired.
LEMMA RememberDistinct ==
  ASSUME NEW list, Distinct(list), NEW id \in Ids
  PROVE  /\ Distinct(Remember(list, id)) /\ Len(Remember(list, id)) <= MaxClosed
         /\ \A k \in 1..Len(Remember(list, id)) :
              Remember(list, id)[k] = id \/ Contains(list, Remember(list, id)[k])
         /\ \A i : i = id \/ Contains(list, i) =>
              Contains(Remember(list, id), i) \/ Len(Remember(list, id)) = MaxClosed
         /\ Len(list) >= MaxClosed => Len(Remember(list, id)) = MaxClosed
  <1> DEFINE f == Forget(list, id)
             a == Append(f, id)
  <1>1. /\ Distinct(f) /\ \A k \in 1..Len(f) : f[k] # id /\ Contains(list, f[k])
        /\ Len(f) \in {Len(list), Len(list) - 1}
        /\ \A i : i # id /\ Contains(list, i) => Contains(f, i)
    BY ForgetDistinct
  <1> HIDE DEF f
  <1>2. /\ a \in Seq(Ids) /\ Len(a) = Len(f) + 1 /\ a[Len(f) + 1] = id
        /\ \A k \in 1..Len(f) : a[k] = f[k]
    BY <1>1 DEF Distinct
  <1>3. Distinct(a) /\ \A i : i = id \/ Contains(list, i) => Contains(a, i)
    <2>1. /\ DOMAIN a = 1..(Len(f) + 1) /\ Len(f) \in Nat /\ DOMAIN f = 1..Len(f)
          /\ f \in Seq(Ids)
      BY <1>1, <1>2 DEF Distinct
    <2>2. IsInjective(a)
      <3> SUFFICES ASSUME NEW m \in 1..(Len(f) + 1), NEW n \in 1..(Len(f) + 1), a[m] = a[n]
                   PROVE  m = n
        BY <2>1 DEF IsInjective
      <3>1. CASE m = Len(f) + 1 \/ n = Len(f) + 1
        BY <1>1, <1>2, <2>1, <3>1
      <3>2. CASE m \in 1..Len(f) /\ n \in 1..Len(f)
        BY <1>1, <1>2, <2>1, <3>2 DEF Distinct, IsInjective
      <3> QED
        BY <2>1, <3>1, <3>2
    <2>3. Contains(a, id)
      BY <1>2, <2>1 DEF Contains
    <2>4. \A i : Contains(f, i) => Contains(a, i)
      BY <1>2, <2>1 DEF Contains
    <2> QED
      BY <1>1, <1>2, <2>2, <2>3, <2>4 DEF Distinct
  <1>4. \A k \in 1..Len(a) : a[k] = id \/ Contains(list, a[k])
    BY <1>1, <1>2 DEF Distinct
  <1>5. Remember(list, id) = Newest(a)
    BY DEF Remember, f
  <1> HIDE DEF a
  <1>6. /\ Distinct(Newest(a)) /\ Len(Newest(a)) <= MaxClosed
        /\ \A k \in 1..Len(Newest(a)) : Contains(a, Newest(a)[k])
        /\ Len(a) <= MaxClosed => Newest(a) = a
        /\ Len(a) > MaxClosed => Len(Newest(a)) = MaxClosed
    BY <1>3, NewestDistinct
  <1>7. Len(list) \in Nat /\ Len(a) \in Nat /\ Len(f) \in Nat
    BY <1>1, <1>2 DEF Distinct
  <1>8. \A k \in 1..Len(Newest(a)) : Newest(a)[k] = id \/ Contains(list, Newest(a)[k])
    BY <1>4, <1>6 DEF Contains
  <1>9. Len(list) >= MaxClosed => Len(Newest(a)) = MaxClosed
    BY <1>1, <1>2, <1>6, <1>7, LimitsAssumption
  <1>10. \A i : i = id \/ Contains(list, i) =>
            Contains(Newest(a), i) \/ Len(Newest(a)) = MaxClosed
    BY <1>3, <1>6, <1>7, LimitsAssumption
  <1> QED
    BY <1>5, <1>6, <1>8, <1>9, <1>10

\* The loop of shutdownSessions over rememberClosed.
LEMMA RememberAllDistinct ==
  ASSUME NEW list, Distinct(list), NEW ids \in SUBSET Ids, NEW result \in RememberAll(list, ids)
  PROVE  Distinct(result) /\ Len(result) <= MaxClosed
  <1> DEFINE rest == ToSet(list) \ ids
  <1>1. PICK kept \in SetToSeqs(rest), order \in SetToSeqs(ids) : result = Newest(kept \o order)
    BY DEF RememberAll
  <1>2. IsFiniteSet(ids) /\ IsFiniteSet(rest) /\ rest \subseteq Ids
    <2>1. rest \subseteq Ids
      BY DEF Distinct, ToSet
    <2> QED
      BY <2>1, FS_Subset, IdsAssumption
  <1>3. /\ kept \in [1..Cardinality(rest) -> rest] /\ Cardinality(rest) \in Nat
        /\ \A i, j \in 1..Cardinality(rest) : i # j => kept[i] # kept[j]
    BY <1>1, <1>2, FS_CardinalityType DEF SetToSeqs
  <1>4. /\ order \in [1..Cardinality(ids) -> ids] /\ Cardinality(ids) \in Nat
        /\ \A i, j \in 1..Cardinality(ids) : i # j => order[i] # order[j]
    BY <1>1, <1>2, FS_CardinalityType DEF SetToSeqs
  <1> HIDE DEF rest
  <1>5. /\ kept \in Seq(Ids) /\ Len(kept) = Cardinality(rest)
        /\ order \in Seq(Ids) /\ Len(order) = Cardinality(ids)
    BY <1>2, <1>3, <1>4
  <1> DEFINE f == kept \o order
  <1>6. /\ f \in Seq(Ids) /\ Len(f) = Len(kept) + Len(order)
        /\ \A n \in 1..(Len(kept) + Len(order)) :
             f[n] = IF n <= Len(kept) THEN kept[n] ELSE order[n - Len(kept)]
    BY <1>5, ConcatProperties
  <1> HIDE DEF f
  <1>7. IsInjective(f)
    <2> SUFFICES ASSUME NEW a \in 1..Len(f), NEW b \in 1..Len(f), a < b PROVE f[a] # f[b]
      <3>1. DOMAIN f = 1..Len(f) /\ Len(f) \in Nat
        BY <1>6
      <3> QED
        BY <3>1 DEF IsInjective
    <2>1. Len(kept) \in Nat /\ Len(order) \in Nat /\ Len(f) = Len(kept) + Len(order)
      BY <1>5, <1>6
    <2>2. CASE b <= Len(kept)
      BY <1>3, <1>5, <1>6, <2>1, <2>2
    <2>3. CASE a > Len(kept)
      <3> DEFINE m == a - Len(kept)
                 n == b - Len(kept)
      <3>1. m \in 1..Len(order) /\ n \in 1..Len(order) /\ m # n
        BY <2>1, <2>3
      <3>2. f[a] = order[m] /\ f[b] = order[n]
        BY <1>6, <2>1, <2>3
      <3> QED
        BY <1>4, <1>5, <3>1, <3>2
    <2>4. CASE a <= Len(kept) /\ b > Len(kept)
      <3>1. f[a] \in rest
        <4>1. a \in 1..Len(kept) /\ f[a] = kept[a]
          BY <1>6, <2>1, <2>4
        <4> QED
          BY <1>3, <1>5, <4>1
      <3>2. b - Len(kept) \in 1..Len(order)
        BY <2>1, <2>4
      <3>3. f[b] \in ids
        <4>1. f[b] = order[b - Len(kept)]
          BY <1>6, <2>1, <2>4
        <4> QED
          BY <1>4, <1>5, <3>2, <4>1
      <3> QED
        BY <3>1, <3>3 DEF rest
    <2> QED
      BY <2>1, <2>2, <2>3, <2>4
  <1>8. Distinct(f)
    BY <1>6, <1>7 DEF Distinct
  <1> QED
    BY <1>1, <1>8, NewestDistinct DEF f

-----------------------------------------------------------------------------
(* The invariant *)

\* TypeOK, by the groups of fields the methods write together.
ClockTyped == now \in Nat /\ deadline \in [Ids -> Nat]
ManagerTyped ==
    /\ sessions \subseteq Ids
    /\ owners \in [Profiles -> Ids \cup {None}]
    /\ expiryTimers \in [Ids -> Nat]
    /\ Distinct(expired) /\ Len(expired) <= MaxClosed
    /\ Distinct(closed) /\ Len(closed) <= MaxClosed
WorkspaceTyped ==
    /\ workspaces \in [Ids -> [control : Controls, expiresAt : Nat]]
    /\ wsTimers \in [Ids -> Nat]
    /\ wsLeases \in [Ids -> LeaseRecords]
SessionTyped ==
    /\ browser \in [Ids -> SessionStates]
    /\ alive \in [Ids -> BOOLEAN]
    /\ lease \in [Ids -> LeaseRecords]
    /\ handoffs \in [Ids -> Nat]
CallTyped ==
    /\ options \in [Ids -> StartOptions]
    /\ startPc \in [Ids -> {"unused", "reading", "launching", "launched", "done", "failed"}]
    /\ stoppers \subseteq Ids \X {"stop", "expiry"}
    /\ call \in [Ids -> Calls]
    /\ shutdown \in [phase : {"idle", "waiting", "done"}, list : SUBSET Ids]

LEMMA TypeParts ==
  TypeOK <=> ClockTyped /\ ManagerTyped /\ WorkspaceTyped /\ SessionTyped /\ CallTyped
  BY DEF TypeOK, ClockTyped, ManagerTyped, WorkspaceTyped, SessionTyped, CallTyped, Distinct

\* What the phase of a start call says about its session.
LaunchPhases ==
    \A i \in Ids :
        /\ startPc[i] \in {"unused", "reading"} => browser[i] = "NONE"
        /\ startPc[i] = "launching" => browser[i] = "STARTING"
        /\ startPc[i] \in {"launched", "done"} => browser[i] \notin {"NONE", "STARTING"}
        /\ startPc[i] = "failed" => browser[i] \in {"NONE", "ERROR", "STOPPING", "STOPPED"}
        /\ alive[i] => startPc[i] \in {"launched", "done"}
        /\ startPc[i] # "done" => /\ expiryTimers[i] = 0 /\ call[i] = "idle"
                                  /\ workspaces[i].control = "ABSENT"

\* An active session is the owner on record of its profile.  This is what makes
\* ProfileExclusive inductive: the lock of start is looked at after an await.
LockHeld ==
    \A i \in Ids : Active(i) /\ options[i].profile # None => owners[options[i].profile] = i

\* A session still in its slot has its TTL timer at its deadline, or is stopping.
TimerIsDeadline ==
    \A i \in Ids : startPc[i] = "done" =>
        /\ expiryTimers[i] \in {0, deadline[i]}
        /\ i \in sessions /\ expiryTimers[i] = 0 => browser[i] \in {"STOPPING", "STOPPED"}

\* A session that its TTL is closing is among the expired ids, unless they
\* overflowed.
ExpiryRecorded ==
    /\ \A k \in 1..Len(expired) : startPc[expired[k]] = "done"
    /\ \A i \in Ids : <<i, "expiry">> \in stoppers =>
                        Contains(expired, i) \/ Len(expired) = MaxClosed

\* The inductive invariant.
IndInv ==
    /\ ClockTyped /\ ManagerTyped /\ WorkspaceTyped /\ SessionTyped /\ CallTyped
    /\ LaunchPhases
    /\ LockHeld
    /\ TimerIsDeadline
    /\ ExpiryRecorded
    /\ WorkspaceGuarded

-----------------------------------------------------------------------------
(* The steps *)

\* The constructor establishes the invariant.
LEMMA InitEstablishes == Init => IndInv
  <1> SUFFICES ASSUME Init PROVE IndInv
    OBVIOUS
  <1>1. Distinct(<<>>) /\ Len(<<>>) = 0
    BY DEF Distinct, IsInjective
  <1>2. ClockTyped /\ ManagerTyped
    BY <1>1, LimitsAssumption DEF Init, ClockTyped, ManagerTyped
  <1>3. WorkspaceTyped /\ SessionTyped
    BY DEF Init, WorkspaceTyped, SessionTyped, NoWorkspace, NoLease, Controls, LeaseRecords,
           SessionStates
  <1>4. CallTyped
    BY RequestsAssumption DEF Init, CallTyped, Calls
  <1>5. LaunchPhases /\ LockHeld /\ TimerIsDeadline
    BY DEF Init, LaunchPhases, LockHeld, TimerIsDeadline, Active, NoWorkspace
  <1>6. ExpiryRecorded
    BY <1>1 DEF Init, ExpiryRecorded
  <1>7. WorkspaceGuarded
    BY DEF Init, WorkspaceGuarded, RecordOutlivesUse, LeaseOnlyWithUser, Known
  <1> QED
    BY <1>2, <1>3, <1>4, <1>5, <1>6, <1>7 DEF IndInv

\* The clock and the deadlines keep their types.
LEMMA ClockTypedStep == ASSUME IndInv, [Next]_vars PROVE ClockTyped'
  <1> USE DEF IndInv, ClockTyped
  <1>1. ASSUME NEW id \in Ids, StartReturns(id)
        PROVE  ClockTyped'
    BY <1>1, LimitsAssumption DEF StartReturns
  <1>2. CASE Tick
    BY <1>2 DEF Tick
  <1>3. CASE UNCHANGED <<now, deadline>>
    BY <1>3
  <1> HIDE DEF ClockTyped
  <1> QED
    BY <1>1, <1>2, <1>3
       DEF Next, vars, managerVars, workspaceVars, sessionVars, callVars, Unresolved,
           StartFresh, StartWithProfile, ProfileRead, ProfileRefused, LaunchSucceeds,
           LaunchFails, StopAfterLaunch, SessionStopped, StopReturns,
           SessionTimerFires, LookupExpires, WorkspaceTimerFires, HandoffGranted,
           HandoffReturns, TakeoverDone, TakeoverReturns, CallRejects,
           ChallengeAppears, Stop, Handoff, Takeover, WorkspaceResume,
           WorkspaceResumeTooLate, Resume, PruneWorkspaces, ShutdownBegins,
           ShutdownReturns, BeginTakeover, Register

\* The maps of the manager keep their types.
LEMMA ManagerTypedStep == ASSUME IndInv, [Next]_vars PROVE ManagerTyped'
  <1> USE DEF IndInv, ManagerTyped, ClockTyped, CallTyped, StartOptions
  <1>1. ASSUME NEW id \in Ids, StartFresh(id)
        PROVE  ManagerTyped'
    <2>1. Distinct(expired') /\ Len(expired') <= MaxClosed
      <3>1. Distinct(expired) /\ Len(expired) \in Nat
        BY DEF Distinct
      <3>2. expired' = Forget(expired, id)
        BY <1>1 DEF StartFresh, Register
      <3>3. Distinct(expired') /\ Len(expired') \in {Len(expired), Len(expired) - 1}
        BY <3>1, <3>2, ForgetDistinct
      <3> QED
        BY <3>1, <3>3, LimitsAssumption
    <2> QED
      BY <1>1, <2>1 DEF StartFresh, Register
  <1>2. ASSUME NEW id \in Ids, ProfileRead(id)
        PROVE  ManagerTyped'
    <2>1. Distinct(expired') /\ Len(expired') <= MaxClosed
      <3>1. Distinct(expired) /\ Len(expired) \in Nat
        BY DEF Distinct
      <3>2. expired' = Forget(expired, id)
        BY <1>2 DEF ProfileRead, Register
      <3>3. Distinct(expired') /\ Len(expired') \in {Len(expired), Len(expired) - 1}
        BY <3>1, <3>2, ForgetDistinct
      <3> QED
        BY <3>1, <3>3, LimitsAssumption
    <2> QED
      BY <1>2, <2>1 DEF ProfileRead, Register
  <1>3. ASSUME NEW id \in Ids, LaunchFails(id)
        PROVE  ManagerTyped'
    BY <1>3 DEF LaunchFails, ReleaseProfiles
  <1>4. ASSUME NEW id \in Ids, StartReturns(id)
        PROVE  ManagerTyped'
    BY <1>4, LimitsAssumption DEF StartReturns
  <1>5. ASSUME NEW id \in Ids, NEW kind \in Kinds, StopReturns(id, kind)
        PROVE  ManagerTyped'
    <2>1. Distinct(closed') /\ Len(closed') <= MaxClosed
      BY <1>5, RememberDistinct DEF StopReturns
    <2> QED
      BY <1>5, <2>1 DEF StopReturns, ReleaseProfiles
  <1>6. ASSUME NEW id \in Ids, SessionTimerFires(id)
        PROVE  ManagerTyped'
    <2>1. expired' = expired \/ expired' = Remember(expired, id)
      BY <1>6 DEF SessionTimerFires, ExpireSession
    <2>2. Distinct(expired') /\ Len(expired') <= MaxClosed
      BY <2>1, RememberDistinct
    <2>3. expiryTimers' = [expiryTimers EXCEPT ![id] = 0] /\ UNCHANGED <<sessions, owners, closed>>
      BY <1>6 DEF SessionTimerFires, ExpireSession, BeginStop
    <2> QED
      BY <2>2, <2>3
  <1>7. ASSUME NEW id \in Ids, LookupExpires(id)
        PROVE  ManagerTyped'
    <2>1. Distinct(expired') /\ Len(expired') <= MaxClosed
      BY <1>7, RememberDistinct DEF LookupExpires
    <2>2. expiryTimers' = [expiryTimers EXCEPT ![id] = 0] /\ UNCHANGED <<sessions, owners, closed>>
      BY <1>7 DEF LookupExpires, BeginStop
    <2> QED
      BY <2>1, <2>2
  <1>8. ASSUME NEW id \in Ids, NEW tenant \in Callers, Stop(id, tenant)
        PROVE  ManagerTyped'
    BY <1>8 DEF Stop, BeginStop, CallStop, Known
  <1>9. CASE ShutdownBegins
    BY <1>9 DEF ShutdownBegins, CallStop
  <1>10. CASE ShutdownReturns
    <2>1. Distinct(closed') /\ Len(closed') <= MaxClosed
      BY <1>10, RememberAllDistinct DEF ShutdownReturns
    <2> QED
      BY <1>10, <2>1 DEF ShutdownReturns, ReleaseProfiles
  <1>11. CASE UNCHANGED <<sessions, owners, expiryTimers, expired, closed>>
    BY <1>11
  <1> HIDE DEF ManagerTyped, ClockTyped, CallTyped
  <1> QED
    BY <1>1, <1>2, <1>3, <1>4, <1>5, <1>6, <1>7, <1>8, <1>9, <1>10, <1>11
       DEF Next, vars, managerVars, workspaceVars, sessionVars, callVars, Unresolved,
           StartWithProfile, ProfileRefused, LaunchSucceeds, StopAfterLaunch,
           SessionStopped, WorkspaceTimerFires, HandoffGranted, HandoffReturns,
           TakeoverDone, TakeoverReturns, CallRejects, ChallengeAppears, Handoff,
           Takeover, WorkspaceResume, WorkspaceResumeTooLate, Resume, PruneWorkspaces,
           Tick, BeginTakeover

\* The workspace records keep their types.
LEMMA WorkspaceTypedStep == ASSUME IndInv, [Next]_vars PROVE WorkspaceTyped'
  <1> USE DEF IndInv, WorkspaceTyped, SessionTyped, ClockTyped, Controls,
              LeaseRecords, NoLease, NoWorkspace
  <1>1. ASSUME NEW id \in Ids, StartReturns(id)
        PROVE  WorkspaceTyped'
    BY <1>1, LimitsAssumption DEF StartReturns
  <1>2. ASSUME NEW id \in Ids, NEW kind \in Kinds, StopReturns(id, kind)
        PROVE  WorkspaceTyped'
    BY <1>2 DEF StopReturns, ReleaseProfiles, DeactivateWorkspaces, Exists
  <1>3. ASSUME NEW id \in Ids, WorkspaceTimerFires(id)
        PROVE  WorkspaceTyped'
    BY <1>3 DEF WorkspaceTimerFires, DeleteWorkspaces, Lapsed
  <1>4. ASSUME NEW id \in Ids, HandoffReturns(id)
        PROVE  WorkspaceTyped'
    BY <1>4 DEF HandoffReturns, Unresolved
  <1>5. ASSUME NEW id \in Ids, TakeoverReturns(id)
        PROVE  WorkspaceTyped'
    BY <1>5 DEF TakeoverReturns, Unresolved
  <1>6. ASSUME NEW id \in Ids, NEW tenant \in Callers, NEW via \in BOOLEAN, Handoff(id, tenant, via)
        PROVE  WorkspaceTyped'
    <2>1. CASE DeleteWorkspaces(Lapsed)
      BY <2>1 DEF DeleteWorkspaces
    <2>2. CASE UNCHANGED workspaceVars
      BY <2>2 DEF workspaceVars
    <2> QED
      BY <1>6, <2>1, <2>2 DEF Handoff
  <1>7. ASSUME NEW id \in Ids, NEW tenant \in Callers, WorkspaceResume(id, tenant)
        PROVE  WorkspaceTyped'
    BY <1>7 DEF WorkspaceResume, BeginTakeover, Known, DeleteWorkspaces, Lapsed,
       Unresolved
  <1>8. ASSUME NEW id \in Ids, NEW tenant \in Callers, WorkspaceResumeTooLate(id, tenant)
        PROVE  WorkspaceTyped'
    BY <1>8 DEF WorkspaceResumeTooLate, Lapsed, Exists, Unresolved
  <1>9. CASE PruneWorkspaces
    BY <1>9 DEF PruneWorkspaces, DeleteWorkspaces, Lapsed
  <1>10. CASE ShutdownReturns
    BY <1>10 DEF ShutdownReturns, ReleaseProfiles, DeactivateWorkspaces, Exists
  <1>11. CASE UNCHANGED <<workspaces, wsTimers, wsLeases>>
    BY <1>11
  <1> HIDE DEF WorkspaceTyped, SessionTyped, ClockTyped
  <1> QED
    BY <1>1, <1>2, <1>3, <1>4, <1>5, <1>6, <1>7, <1>8, <1>9, <1>10, <1>11
       DEF Next, vars, managerVars, workspaceVars, sessionVars, callVars, Unresolved,
           StartFresh, StartWithProfile, ProfileRead, ProfileRefused, LaunchSucceeds,
           LaunchFails, StopAfterLaunch, SessionStopped, SessionTimerFires,
           LookupExpires, HandoffGranted, TakeoverDone, CallRejects, ChallengeAppears,
           Stop, Takeover, Resume, ShutdownBegins, Tick, BeginTakeover, Register

\* The sessions keep their types.
LEMMA SessionTypedStep == ASSUME IndInv, [Next]_vars PROVE SessionTyped'
  <1> USE DEF IndInv, SessionTyped, ClockTyped, SessionStates, LeaseRecords, NoLease
  <1>1. ASSUME NEW id \in Ids, StartFresh(id)
        PROVE  SessionTyped'
    BY <1>1 DEF StartFresh, Register
  <1>2. ASSUME NEW id \in Ids, ProfileRead(id)
        PROVE  SessionTyped'
    BY <1>2 DEF ProfileRead, Register
  <1>3. ASSUME NEW id \in Ids, LaunchSucceeds(id)
        PROVE  SessionTyped'
    BY <1>3 DEF LaunchSucceeds
  <1>4. ASSUME NEW id \in Ids, LaunchFails(id)
        PROVE  SessionTyped'
    BY <1>4 DEF LaunchFails, ReleaseProfiles
  <1>5. ASSUME NEW id \in Ids, StopAfterLaunch(id)
        PROVE  SessionTyped'
    BY <1>5 DEF StopAfterLaunch
  <1>6. ASSUME NEW id \in Ids, NEW closes \in BOOLEAN, SessionStopped(id, closes)
        PROVE  SessionTyped'
    BY <1>6 DEF SessionStopped
  <1>7. ASSUME NEW id \in Ids, SessionTimerFires(id)
        PROVE  SessionTyped'
    BY <1>7 DEF SessionTimerFires, ExpireSession, BeginStop, CallStop, TimerDue
  <1>8. ASSUME NEW id \in Ids, LookupExpires(id)
        PROVE  SessionTyped'
    BY <1>8 DEF LookupExpires, BeginStop, CallStop, TimerDue
  <1>9. ASSUME NEW id \in Ids, HandoffGranted(id)
        PROVE  SessionTyped'
    BY <1>9, LimitsAssumption DEF HandoffGranted
  <1>10. ASSUME NEW id \in Ids, TakeoverDone(id)
        PROVE  SessionTyped'
    BY <1>10 DEF TakeoverDone, Unresolved
  <1>11. ASSUME NEW id \in Ids, ChallengeAppears(id)
        PROVE  SessionTyped'
    BY <1>11 DEF ChallengeAppears
  <1>12. ASSUME NEW id \in Ids, NEW tenant \in Callers, Stop(id, tenant)
        PROVE  SessionTyped'
    BY <1>12 DEF Stop, BeginStop, CallStop, Known
  <1>13. ASSUME NEW id \in Ids, NEW tenant \in Callers, Resume(id, tenant)
        PROVE  SessionTyped'
    BY <1>13 DEF Resume, Known
  <1>14. CASE ShutdownBegins
    BY <1>14 DEF ShutdownBegins, CallStop
  <1>15. CASE UNCHANGED <<browser, alive, lease, handoffs>>
    BY <1>15
  <1> HIDE DEF SessionTyped, ClockTyped
  <1> QED
    BY <1>1, <1>2, <1>3, <1>4, <1>5, <1>6, <1>7, <1>8, <1>9, <1>10, <1>11, <1>12,
       <1>13, <1>14, <1>15
       DEF Next, vars, managerVars, workspaceVars, sessionVars, callVars, Unresolved,
           StartWithProfile, ProfileRefused, StartReturns, StopReturns,
           WorkspaceTimerFires, HandoffReturns, TakeoverReturns, CallRejects, Handoff,
           Takeover, WorkspaceResume, WorkspaceResumeTooLate, PruneWorkspaces,
           ShutdownReturns, Tick, BeginTakeover

\* The calls keep their types.
LEMMA CallTypedStep == ASSUME IndInv, [Next]_vars PROVE CallTyped'
  <1> USE DEF IndInv, ManagerTyped, CallTyped, Calls, Kinds
  <1>1. ASSUME NEW id \in Ids, StartFresh(id)
        PROVE  CallTyped'
    BY <1>1 DEF StartFresh, Register
  <1>2. ASSUME NEW id \in Ids, StartWithProfile(id)
        PROVE  CallTyped'
    BY <1>2 DEF StartWithProfile
  <1>3. ASSUME NEW id \in Ids, ProfileRead(id)
        PROVE  CallTyped'
    BY <1>3 DEF ProfileRead, Register
  <1>4. ASSUME NEW id \in Ids, ProfileRefused(id)
        PROVE  CallTyped'
    BY <1>4 DEF ProfileRefused
  <1>5. ASSUME NEW id \in Ids, LaunchSucceeds(id)
        PROVE  CallTyped'
    BY <1>5 DEF LaunchSucceeds
  <1>6. ASSUME NEW id \in Ids, LaunchFails(id)
        PROVE  CallTyped'
    BY <1>6 DEF LaunchFails, ReleaseProfiles
  <1>7. ASSUME NEW id \in Ids, StartReturns(id)
        PROVE  CallTyped'
    BY <1>7 DEF StartReturns
  <1>8. ASSUME NEW id \in Ids, NEW kind \in Kinds, StopReturns(id, kind)
        PROVE  CallTyped'
    BY <1>8 DEF StopReturns, ReleaseProfiles, DeactivateWorkspaces, Exists
  <1>9. ASSUME NEW id \in Ids, SessionTimerFires(id)
        PROVE  CallTyped'
    BY <1>9 DEF SessionTimerFires, ExpireSession, BeginStop, CallStop, TimerDue
  <1>10. ASSUME NEW id \in Ids, LookupExpires(id)
        PROVE  CallTyped'
    BY <1>10 DEF LookupExpires, BeginStop, CallStop, TimerDue
  <1>11. ASSUME NEW id \in Ids, HandoffGranted(id)
        PROVE  CallTyped'
    BY <1>11 DEF HandoffGranted, Unresolved
  <1>12. ASSUME NEW id \in Ids, HandoffReturns(id)
        PROVE  CallTyped'
    BY <1>12 DEF HandoffReturns, Unresolved
  <1>13. ASSUME NEW id \in Ids, TakeoverDone(id)
        PROVE  CallTyped'
    BY <1>13 DEF TakeoverDone, Unresolved
  <1>14. ASSUME NEW id \in Ids, TakeoverReturns(id)
        PROVE  CallTyped'
    BY <1>14 DEF TakeoverReturns, Unresolved
  <1>15. ASSUME NEW id \in Ids, CallRejects(id)
        PROVE  CallTyped'
    BY <1>15 DEF CallRejects, Unresolved
  <1>16. ASSUME NEW id \in Ids, NEW tenant \in Callers, Stop(id, tenant)
        PROVE  CallTyped'
    BY <1>16 DEF Stop, BeginStop, CallStop, Known
  <1>17. ASSUME NEW id \in Ids, NEW tenant \in Callers, NEW via \in BOOLEAN, Handoff(id, tenant, via)
        PROVE  CallTyped'
    BY <1>17 DEF Handoff, DeleteWorkspaces, Lapsed, Known, Unresolved, workspaceVars
  <1>18. ASSUME NEW id \in Ids, NEW tenant \in Callers, Takeover(id, tenant)
        PROVE  CallTyped'
    BY <1>18 DEF Takeover, BeginTakeover, Known, Unresolved
  <1>19. ASSUME NEW id \in Ids, NEW tenant \in Callers, WorkspaceResume(id, tenant)
        PROVE  CallTyped'
    BY <1>19 DEF WorkspaceResume, BeginTakeover, Known, DeleteWorkspaces, Lapsed,
       Unresolved
  <1>20. CASE ShutdownBegins
    BY <1>20 DEF ShutdownBegins, CallStop
  <1>21. CASE ShutdownReturns
    BY <1>21 DEF ShutdownReturns, ReleaseProfiles, DeactivateWorkspaces, Exists
  <1>22. CASE UNCHANGED <<options, startPc, stoppers, call, shutdown>>
    BY <1>22
  <1> HIDE DEF ManagerTyped, CallTyped
  <1> QED
    BY <1>1, <1>2, <1>3, <1>4, <1>5, <1>6, <1>7, <1>8, <1>9, <1>10, <1>11, <1>12,
       <1>13, <1>14, <1>15, <1>16, <1>17, <1>18, <1>19, <1>20, <1>21, <1>22
       DEF Next, vars, managerVars, workspaceVars, sessionVars, callVars, Unresolved,
           StopAfterLaunch, SessionStopped, WorkspaceTimerFires, ChallengeAppears,
           WorkspaceResumeTooLate, Resume, PruneWorkspaces, Tick

\* A start call and the browser it launches keep in step.
LEMMA LaunchPhasesStep == ASSUME IndInv, [Next]_vars PROVE LaunchPhases'
  <1> USE DEF IndInv, ManagerTyped, WorkspaceTyped, SessionTyped, CallTyped,
              LaunchPhases, NoWorkspace
  <1>1. ASSUME NEW id \in Ids, StartFresh(id)
        PROVE  LaunchPhases'
    BY <1>1 DEF StartFresh, Register, workspaceVars
  <1>2. ASSUME NEW id \in Ids, StartWithProfile(id)
        PROVE  LaunchPhases'
    BY <1>2 DEF StartWithProfile, managerVars, workspaceVars, sessionVars
  <1>3. ASSUME NEW id \in Ids, ProfileRead(id)
        PROVE  LaunchPhases'
    BY <1>3 DEF ProfileRead, Register, workspaceVars
  <1>4. ASSUME NEW id \in Ids, ProfileRefused(id)
        PROVE  LaunchPhases'
    BY <1>4 DEF ProfileRefused, managerVars, workspaceVars, sessionVars
  <1>5. ASSUME NEW id \in Ids, LaunchSucceeds(id)
        PROVE  LaunchPhases'
    BY <1>5 DEF LaunchSucceeds, managerVars, workspaceVars
  <1>6. ASSUME NEW id \in Ids, LaunchFails(id)
        PROVE  LaunchPhases'
    BY <1>6 DEF LaunchFails, ReleaseProfiles, workspaceVars
  <1>7. ASSUME NEW id \in Ids, StartReturns(id)
        PROVE  LaunchPhases'
    BY <1>7 DEF StartReturns, sessionVars
  <1>8. ASSUME NEW id \in Ids, StopAfterLaunch(id)
        PROVE  LaunchPhases'
    BY <1>8 DEF StopAfterLaunch, managerVars, workspaceVars, callVars
  <1>9. ASSUME NEW id \in Ids, NEW closes \in BOOLEAN, SessionStopped(id, closes)
        PROVE  LaunchPhases'
    BY <1>9 DEF SessionStopped, managerVars, workspaceVars, callVars
  <1>10. ASSUME NEW id \in Ids, NEW kind \in Kinds, StopReturns(id, kind)
        PROVE  LaunchPhases'
    BY <1>10 DEF StopReturns, ReleaseProfiles, DeactivateWorkspaces, Exists,
       sessionVars
  <1>11. ASSUME NEW id \in Ids, SessionTimerFires(id)
        PROVE  LaunchPhases'
    BY <1>11 DEF SessionTimerFires, ExpireSession, BeginStop, CallStop, TimerDue,
       workspaceVars
  <1>12. ASSUME NEW id \in Ids, LookupExpires(id)
        PROVE  LaunchPhases'
    BY <1>12 DEF LookupExpires, BeginStop, CallStop, TimerDue, workspaceVars
  <1>13. ASSUME NEW id \in Ids, WorkspaceTimerFires(id)
        PROVE  LaunchPhases'
    BY <1>13 DEF WorkspaceTimerFires, DeleteWorkspaces, Lapsed, managerVars,
       sessionVars, callVars
  <1>14. ASSUME NEW id \in Ids, HandoffGranted(id)
        PROVE  LaunchPhases'
    BY <1>14 DEF HandoffGranted, Unresolved, managerVars, workspaceVars
  <1>15. ASSUME NEW id \in Ids, HandoffReturns(id)
        PROVE  LaunchPhases'
    BY <1>15 DEF HandoffReturns, Unresolved, managerVars, sessionVars
  <1>16. ASSUME NEW id \in Ids, TakeoverDone(id)
        PROVE  LaunchPhases'
    BY <1>16 DEF TakeoverDone, Unresolved, managerVars, workspaceVars
  <1>17. ASSUME NEW id \in Ids, TakeoverReturns(id)
        PROVE  LaunchPhases'
    BY <1>17 DEF TakeoverReturns, Unresolved, managerVars, sessionVars
  <1>18. ASSUME NEW id \in Ids, CallRejects(id)
        PROVE  LaunchPhases'
    BY <1>18 DEF CallRejects, Unresolved, managerVars, workspaceVars, sessionVars
  <1>19. ASSUME NEW id \in Ids, ChallengeAppears(id)
        PROVE  LaunchPhases'
    BY <1>19 DEF ChallengeAppears, managerVars, workspaceVars, callVars
  <1>20. ASSUME NEW id \in Ids, NEW tenant \in Callers, Stop(id, tenant)
        PROVE  LaunchPhases'
    BY <1>20 DEF Stop, BeginStop, CallStop, Known, workspaceVars
  <1>21. ASSUME NEW id \in Ids, NEW tenant \in Callers, NEW via \in BOOLEAN, Handoff(id, tenant, via)
        PROVE  LaunchPhases'
    <2>1. DeleteWorkspaces(Lapsed) \/ UNCHANGED workspaceVars
      BY <1>21 DEF Handoff
    <2>2. \A i \in Ids : startPc[i] # "done" => workspaces'[i].control = "ABSENT"
      BY <2>1 DEF DeleteWorkspaces, workspaceVars
    <2>3. /\ startPc[id] = "done" /\ call' = [call EXCEPT ![id] = "handoff"]
          /\ UNCHANGED <<startPc, browser, alive, expiryTimers>>
      BY <1>21 DEF Handoff, Known, sessionVars, Unresolved, managerVars
    <2> QED
      BY <2>2, <2>3
  <1>22. ASSUME NEW id \in Ids, NEW tenant \in Callers, Takeover(id, tenant)
        PROVE  LaunchPhases'
    BY <1>22 DEF Takeover, BeginTakeover, Known, Unresolved, managerVars,
       workspaceVars, sessionVars
  <1>23. ASSUME NEW id \in Ids, NEW tenant \in Callers, WorkspaceResume(id, tenant)
        PROVE  LaunchPhases'
    BY <1>23 DEF WorkspaceResume, BeginTakeover, Known, DeleteWorkspaces, Lapsed,
       Unresolved, managerVars, sessionVars
  <1>24. ASSUME NEW id \in Ids, NEW tenant \in Callers, WorkspaceResumeTooLate(id, tenant)
        PROVE  LaunchPhases'
    BY <1>24 DEF WorkspaceResumeTooLate, Lapsed, Exists, Unresolved, managerVars,
       sessionVars
  <1>25. ASSUME NEW id \in Ids, NEW tenant \in Callers, Resume(id, tenant)
        PROVE  LaunchPhases'
    BY <1>25 DEF Resume, Known, managerVars, workspaceVars, callVars
  <1>26. CASE PruneWorkspaces
    BY <1>26 DEF PruneWorkspaces, DeleteWorkspaces, Lapsed, managerVars, sessionVars,
       callVars
  <1>27. CASE ShutdownBegins
    BY <1>27 DEF ShutdownBegins, CallStop, workspaceVars
  <1>28. CASE ShutdownReturns
    BY <1>28 DEF ShutdownReturns, ReleaseProfiles, DeactivateWorkspaces, Exists,
       sessionVars
  <1>29. CASE UNCHANGED <<startPc, browser, alive, expiryTimers, call, workspaces>>
    BY <1>29
  <1> HIDE DEF ManagerTyped, WorkspaceTyped, SessionTyped, CallTyped, LaunchPhases
  <1> QED
    BY <1>1, <1>2, <1>3, <1>4, <1>5, <1>6, <1>7, <1>8, <1>9, <1>10, <1>11, <1>12,
       <1>13, <1>14, <1>15, <1>16, <1>17, <1>18, <1>19, <1>20, <1>21, <1>22, <1>23,
       <1>24, <1>25, <1>26, <1>27, <1>28, <1>29
       DEF Next, vars, managerVars, workspaceVars, sessionVars, callVars, Unresolved,
           Tick

\* The owner of a profile changes only when the session that holds it is over.
LEMMA LockHeldStep == ASSUME IndInv, [Next]_vars PROVE LockHeld'
  <1> USE DEF IndInv, ManagerTyped, SessionTyped, CallTyped, LaunchPhases, LockHeld,
              Active, StartOptions
  <1>1. ASSUME NEW id \in Ids, StartFresh(id)
        PROVE  LockHeld'
    BY <1>1, IdsAssumption DEF StartFresh, Register
  <1>2. ASSUME NEW id \in Ids, StartWithProfile(id)
        PROVE  LockHeld'
    BY <1>2 DEF StartWithProfile, managerVars, sessionVars
  <1>3. ASSUME NEW id \in Ids, ProfileRead(id)
        PROVE  LockHeld'
    BY <1>3, IdsAssumption DEF ProfileRead, Register
  <1>4. ASSUME NEW id \in Ids, ProfileRefused(id)
        PROVE  LockHeld'
    BY <1>4 DEF ProfileRefused, managerVars, sessionVars
  <1>5. ASSUME NEW id \in Ids, LaunchSucceeds(id)
        PROVE  LockHeld'
    BY <1>5 DEF LaunchSucceeds, managerVars
  <1>6. ASSUME NEW id \in Ids, LaunchFails(id)
        PROVE  LockHeld'
    BY <1>6 DEF LaunchFails, ReleaseProfiles
  <1>7. ASSUME NEW id \in Ids, StartReturns(id)
        PROVE  LockHeld'
    BY <1>7 DEF StartReturns, sessionVars
  <1>8. ASSUME NEW id \in Ids, StopAfterLaunch(id)
        PROVE  LockHeld'
    BY <1>8 DEF StopAfterLaunch, managerVars, callVars
  <1>9. ASSUME NEW id \in Ids, NEW closes \in BOOLEAN, SessionStopped(id, closes)
        PROVE  LockHeld'
    BY <1>9 DEF SessionStopped, managerVars, callVars
  <1>10. ASSUME NEW id \in Ids, NEW kind \in Kinds, StopReturns(id, kind)
        PROVE  LockHeld'
    BY <1>10 DEF StopReturns, ReleaseProfiles, DeactivateWorkspaces, Exists,
       sessionVars
  <1>11. ASSUME NEW id \in Ids, SessionTimerFires(id)
        PROVE  LockHeld'
    BY <1>11 DEF SessionTimerFires, ExpireSession, BeginStop, CallStop, TimerDue
  <1>12. ASSUME NEW id \in Ids, LookupExpires(id)
        PROVE  LockHeld'
    BY <1>12 DEF LookupExpires, BeginStop, CallStop, TimerDue
  <1>13. ASSUME NEW id \in Ids, HandoffGranted(id)
        PROVE  LockHeld'
    BY <1>13 DEF HandoffGranted, Unresolved, managerVars
  <1>14. ASSUME NEW id \in Ids, TakeoverDone(id)
        PROVE  LockHeld'
    BY <1>14 DEF TakeoverDone, Unresolved, managerVars
  <1>15. ASSUME NEW id \in Ids, ChallengeAppears(id)
        PROVE  LockHeld'
    BY <1>15 DEF ChallengeAppears, managerVars, callVars
  <1>16. ASSUME NEW id \in Ids, NEW tenant \in Callers, Stop(id, tenant)
        PROVE  LockHeld'
    BY <1>16 DEF Stop, BeginStop, CallStop, Known
  <1>17. ASSUME NEW id \in Ids, NEW tenant \in Callers, Resume(id, tenant)
        PROVE  LockHeld'
    BY <1>17 DEF Resume, Known, managerVars, callVars
  <1>18. CASE ShutdownBegins
    BY <1>18 DEF ShutdownBegins, CallStop
  <1>19. CASE ShutdownReturns
    BY <1>19 DEF ShutdownReturns, ReleaseProfiles, DeactivateWorkspaces, Exists,
       sessionVars
  <1>20. CASE UNCHANGED <<options, owners, startPc, alive, browser>>
    BY <1>20
  <1> HIDE DEF ManagerTyped, SessionTyped, CallTyped, LaunchPhases, LockHeld
  <1> QED
    BY <1>1, <1>2, <1>3, <1>4, <1>5, <1>6, <1>7, <1>8, <1>9, <1>10, <1>11, <1>12,
       <1>13, <1>14, <1>15, <1>16, <1>17, <1>18, <1>19, <1>20
       DEF Next, vars, managerVars, workspaceVars, sessionVars, callVars, Unresolved,
           WorkspaceTimerFires, HandoffReturns, TakeoverReturns, CallRejects, Handoff,
           Takeover, WorkspaceResume, WorkspaceResumeTooLate, PruneWorkspaces, Tick,
           BeginTakeover

\* A TTL timer is set once, to the deadline, and cleared only by a stop.
LEMMA TimerIsDeadlineStep == ASSUME IndInv, [Next]_vars PROVE TimerIsDeadline'
  <1> USE DEF IndInv, ManagerTyped, SessionTyped, CallTyped, ClockTyped, LaunchPhases,
              TimerIsDeadline
  <1>1. ASSUME NEW id \in Ids, StartFresh(id)
        PROVE  TimerIsDeadline'
    BY <1>1 DEF StartFresh, Register
  <1>2. ASSUME NEW id \in Ids, StartWithProfile(id)
        PROVE  TimerIsDeadline'
    BY <1>2 DEF StartWithProfile, managerVars, sessionVars
  <1>3. ASSUME NEW id \in Ids, ProfileRead(id)
        PROVE  TimerIsDeadline'
    BY <1>3 DEF ProfileRead, Register
  <1>4. ASSUME NEW id \in Ids, ProfileRefused(id)
        PROVE  TimerIsDeadline'
    BY <1>4 DEF ProfileRefused, managerVars, sessionVars
  <1>5. ASSUME NEW id \in Ids, LaunchSucceeds(id)
        PROVE  TimerIsDeadline'
    BY <1>5 DEF LaunchSucceeds, managerVars
  <1>6. ASSUME NEW id \in Ids, LaunchFails(id)
        PROVE  TimerIsDeadline'
    BY <1>6 DEF LaunchFails, ReleaseProfiles
  <1>7. ASSUME NEW id \in Ids, StartReturns(id)
        PROVE  TimerIsDeadline'
    <2>1. now + SessionTtl \in Nat \ {0}
      BY LimitsAssumption
    <2>2. /\ expiryTimers' = [expiryTimers EXCEPT ![id] = now + SessionTtl]
          /\ deadline' = [deadline EXCEPT ![id] = now + SessionTtl]
          /\ startPc' = [startPc EXCEPT ![id] = "done"]
          /\ UNCHANGED <<sessions, browser>>
      BY <1>7 DEF StartReturns, sessionVars
    <2> QED
      BY <2>1, <2>2
  <1>8. ASSUME NEW id \in Ids, StopAfterLaunch(id)
        PROVE  TimerIsDeadline'
    BY <1>8 DEF StopAfterLaunch, managerVars, callVars
  <1>9. ASSUME NEW id \in Ids, NEW closes \in BOOLEAN, SessionStopped(id, closes)
        PROVE  TimerIsDeadline'
    BY <1>9 DEF SessionStopped, managerVars, callVars
  <1>10. ASSUME NEW id \in Ids, NEW kind \in Kinds, StopReturns(id, kind)
        PROVE  TimerIsDeadline'
    BY <1>10 DEF StopReturns, ReleaseProfiles, DeactivateWorkspaces, Exists,
       sessionVars
  <1>11. ASSUME NEW id \in Ids, SessionTimerFires(id)
        PROVE  TimerIsDeadline'
    BY <1>11 DEF SessionTimerFires, ExpireSession, BeginStop, CallStop, TimerDue
  <1>12. ASSUME NEW id \in Ids, LookupExpires(id)
        PROVE  TimerIsDeadline'
    BY <1>12 DEF LookupExpires, BeginStop, CallStop, TimerDue
  <1>13. ASSUME NEW id \in Ids, HandoffGranted(id)
        PROVE  TimerIsDeadline'
    BY <1>13 DEF HandoffGranted, Unresolved, managerVars
  <1>14. ASSUME NEW id \in Ids, TakeoverDone(id)
        PROVE  TimerIsDeadline'
    BY <1>14 DEF TakeoverDone, Unresolved, managerVars
  <1>15. ASSUME NEW id \in Ids, ChallengeAppears(id)
        PROVE  TimerIsDeadline'
    BY <1>15 DEF ChallengeAppears, managerVars, callVars
  <1>16. ASSUME NEW id \in Ids, NEW tenant \in Callers, Stop(id, tenant)
        PROVE  TimerIsDeadline'
    BY <1>16 DEF Stop, BeginStop, CallStop, Known
  <1>17. ASSUME NEW id \in Ids, NEW tenant \in Callers, Resume(id, tenant)
        PROVE  TimerIsDeadline'
    BY <1>17 DEF Resume, Known, managerVars, callVars
  <1>18. CASE ShutdownBegins
    BY <1>18 DEF ShutdownBegins, CallStop
  <1>19. CASE ShutdownReturns
    BY <1>19 DEF ShutdownReturns, ReleaseProfiles, DeactivateWorkspaces, Exists,
       sessionVars
  <1>20. CASE UNCHANGED <<startPc, expiryTimers, deadline, sessions, browser>>
    BY <1>20
  <1> HIDE DEF ManagerTyped, SessionTyped, CallTyped, ClockTyped, LaunchPhases,
              TimerIsDeadline
  <1> QED
    BY <1>1, <1>2, <1>3, <1>4, <1>5, <1>6, <1>7, <1>8, <1>9, <1>10, <1>11, <1>12,
       <1>13, <1>14, <1>15, <1>16, <1>17, <1>18, <1>19, <1>20
       DEF Next, vars, managerVars, workspaceVars, sessionVars, callVars, Unresolved,
           WorkspaceTimerFires, HandoffReturns, TakeoverReturns, CallRejects, Handoff,
           Takeover, WorkspaceResume, WorkspaceResumeTooLate, PruneWorkspaces, Tick,
           BeginTakeover

\* expireSession and the lookup that finds a deadline passed remember the id.
LEMMA ExpiryRemembered ==
  ASSUME ManagerTyped, ExpiryRecorded, NEW id \in Ids, startPc[id] = "done", UNCHANGED startPc,
         expired' = Remember(expired, id),
         stoppers' \subseteq stoppers \cup {<<id, "expiry">>}
  PROVE  ExpiryRecorded'
  <1> DEFINE R == Remember(expired, id)
  <1>1. /\ \A k \in 1..Len(R) : R[k] = id \/ Contains(expired, R[k])
        /\ \A i : i = id \/ Contains(expired, i) => Contains(R, i) \/ Len(R) = MaxClosed
        /\ Len(expired) >= MaxClosed => Len(R) = MaxClosed
    BY RememberDistinct DEF ManagerTyped
  <1>2. Len(expired) \in Nat /\ expired' = R
    BY DEF ManagerTyped, Distinct
  <1> HIDE DEF R
  <1>3. \A k \in 1..Len(R) : startPc'[R[k]] = "done"
    BY <1>1 DEF ExpiryRecorded, Contains
  <1>4. ASSUME NEW i \in Ids, <<i, "expiry">> \in stoppers'
        PROVE  Contains(R, i) \/ Len(R) = MaxClosed
    <2>1. i = id \/ <<i, "expiry">> \in stoppers
      BY <1>4
    <2>2. i = id \/ Contains(expired, i) \/ Len(expired) = MaxClosed
      BY <2>1 DEF ExpiryRecorded
    <2> QED
      BY <1>1, <1>2, <2>2, LimitsAssumption
  <1> QED
    BY <1>2, <1>3, <1>4 DEF ExpiryRecorded

\* A session that its TTL closes stays among the expired ids while there is room.
LEMMA ExpiryRecordedStep == ASSUME IndInv, [Next]_vars PROVE ExpiryRecorded'
  <1> USE DEF IndInv, ManagerTyped, CallTyped, LaunchPhases, ExpiryRecorded
  <1>1. ASSUME NEW id \in Ids, StartFresh(id)
        PROVE  ExpiryRecorded'
    <2>1. startPc[id] # "done" /\ UNCHANGED stoppers /\ expired' = Forget(expired, id)
          /\ startPc' = [startPc EXCEPT ![id] = "launching"]
      BY <1>1 DEF StartFresh, Register
    <2>2. ~Contains(expired, id)
      BY <2>1 DEF Contains
    <2>3. expired' = expired
      BY <2>1, <2>2, ForgetDistinct
    <2>4. \A k \in 1..Len(expired) : expired[k] # id /\ expired[k] \in Ids
      BY <2>2 DEF Contains, Distinct
    <2> QED
      BY <2>1, <2>3, <2>4 DEF Contains
  <1>2. ASSUME NEW id \in Ids, StartWithProfile(id)
        PROVE  ExpiryRecorded'
    BY <1>2 DEF StartWithProfile, managerVars
  <1>3. ASSUME NEW id \in Ids, ProfileRead(id)
        PROVE  ExpiryRecorded'
    <2>1. startPc[id] # "done" /\ UNCHANGED stoppers /\ expired' = Forget(expired, id)
          /\ startPc' = [startPc EXCEPT ![id] = "launching"]
      BY <1>3 DEF ProfileRead, Register
    <2>2. ~Contains(expired, id)
      BY <2>1 DEF Contains
    <2>3. expired' = expired
      BY <2>1, <2>2, ForgetDistinct
    <2>4. \A k \in 1..Len(expired) : expired[k] # id /\ expired[k] \in Ids
      BY <2>2 DEF Contains, Distinct
    <2> QED
      BY <2>1, <2>3, <2>4 DEF Contains
  <1>4. ASSUME NEW id \in Ids, ProfileRefused(id)
        PROVE  ExpiryRecorded'
    BY <1>4 DEF ProfileRefused, managerVars
  <1>5. ASSUME NEW id \in Ids, LaunchSucceeds(id)
        PROVE  ExpiryRecorded'
    BY <1>5 DEF LaunchSucceeds, managerVars
  <1>6. ASSUME NEW id \in Ids, LaunchFails(id)
        PROVE  ExpiryRecorded'
    BY <1>6 DEF LaunchFails, ReleaseProfiles
  <1>7. ASSUME NEW id \in Ids, StartReturns(id)
        PROVE  ExpiryRecorded'
    BY <1>7 DEF StartReturns
  <1>8. ASSUME NEW id \in Ids, NEW kind \in Kinds, StopReturns(id, kind)
        PROVE  ExpiryRecorded'
    BY <1>8 DEF StopReturns, ReleaseProfiles, DeactivateWorkspaces, Exists
  <1>9. ASSUME NEW id \in Ids, SessionTimerFires(id)
        PROVE  ExpiryRecorded'
    <2>1. startPc[id] = "done" /\ UNCHANGED startPc
      BY <1>9 DEF SessionTimerFires, TimerDue
    <2>2. CASE id \in sessions
      <3>1. expired' = Remember(expired, id) /\ stoppers' = stoppers \cup {<<id, "expiry">>}
        BY <1>9, <2>2 DEF SessionTimerFires, ExpireSession, BeginStop
      <3> QED
        BY <2>1, <3>1, ExpiryRemembered
    <2>3. CASE id \notin sessions
      <3>1. UNCHANGED <<expired, stoppers>>
        BY <1>9, <2>3 DEF SessionTimerFires, ExpireSession
      <3> QED
        BY <2>1, <3>1
    <2> QED
      BY <2>2, <2>3
  <1>10. ASSUME NEW id \in Ids, LookupExpires(id)
        PROVE  ExpiryRecorded'
    <2>1. startPc[id] = "done" /\ UNCHANGED startPc /\ expired' = Remember(expired, id)
          /\ stoppers' \subseteq stoppers \cup {<<id, "expiry">>}
      BY <1>10 DEF LookupExpires, TimerDue, BeginStop
    <2> QED
      BY <2>1, ExpiryRemembered
  <1>11. ASSUME NEW id \in Ids, NEW tenant \in Callers, Stop(id, tenant)
        PROVE  ExpiryRecorded'
    BY <1>11 DEF Stop, BeginStop, CallStop, Known
  <1>12. CASE UNCHANGED <<expired, startPc, stoppers>>
    BY <1>12
  <1> HIDE DEF ManagerTyped, CallTyped, LaunchPhases, ExpiryRecorded
  <1> QED
    BY <1>1, <1>2, <1>3, <1>4, <1>5, <1>6, <1>7, <1>8, <1>9, <1>10, <1>11, <1>12
       DEF Next, vars, managerVars, workspaceVars, sessionVars, callVars, Unresolved,
           StopAfterLaunch, SessionStopped, WorkspaceTimerFires, HandoffGranted,
           HandoffReturns, TakeoverDone, TakeoverReturns, CallRejects,
           ChallengeAppears, Handoff, Takeover, WorkspaceResume,
           WorkspaceResumeTooLate, Resume, PruneWorkspaces, ShutdownBegins,
           ShutdownReturns, Tick, BeginTakeover

\* No step removes the record of a usable session or leaves a digest behind.
LEMMA WorkspaceGuardedStep == ASSUME IndInv, [Next]_vars PROVE WorkspaceGuarded'
  <1> USE DEF IndInv, WorkspaceTyped, SessionTyped, CallTyped, LaunchPhases,
              WorkspaceGuarded, RecordOutlivesUse, LeaseOnlyWithUser, Known,
              NoWorkspace
  <1>1. ASSUME NEW id \in Ids, StartFresh(id)
        PROVE  WorkspaceGuarded'
    BY <1>1 DEF StartFresh, Register, workspaceVars
  <1>2. ASSUME NEW id \in Ids, StartWithProfile(id)
        PROVE  WorkspaceGuarded'
    BY <1>2 DEF StartWithProfile, workspaceVars, sessionVars
  <1>3. ASSUME NEW id \in Ids, ProfileRead(id)
        PROVE  WorkspaceGuarded'
    BY <1>3 DEF ProfileRead, Register, workspaceVars
  <1>4. ASSUME NEW id \in Ids, ProfileRefused(id)
        PROVE  WorkspaceGuarded'
    BY <1>4 DEF ProfileRefused, workspaceVars, sessionVars
  <1>5. ASSUME NEW id \in Ids, LaunchSucceeds(id)
        PROVE  WorkspaceGuarded'
    BY <1>5 DEF LaunchSucceeds, workspaceVars
  <1>6. ASSUME NEW id \in Ids, LaunchFails(id)
        PROVE  WorkspaceGuarded'
    BY <1>6 DEF LaunchFails, ReleaseProfiles, workspaceVars
  <1>7. ASSUME NEW id \in Ids, StartReturns(id)
        PROVE  WorkspaceGuarded'
    BY <1>7 DEF StartReturns, sessionVars
  <1>8. ASSUME NEW id \in Ids, StopAfterLaunch(id)
        PROVE  WorkspaceGuarded'
    BY <1>8 DEF StopAfterLaunch, workspaceVars, callVars
  <1>9. ASSUME NEW id \in Ids, NEW closes \in BOOLEAN, SessionStopped(id, closes)
        PROVE  WorkspaceGuarded'
    BY <1>9 DEF SessionStopped, workspaceVars, callVars
  <1>10. ASSUME NEW id \in Ids, NEW kind \in Kinds, StopReturns(id, kind)
        PROVE  WorkspaceGuarded'
    BY <1>10 DEF StopReturns, ReleaseProfiles, DeactivateWorkspaces, Exists,
       sessionVars
  <1>11. ASSUME NEW id \in Ids, SessionTimerFires(id)
        PROVE  WorkspaceGuarded'
    BY <1>11 DEF SessionTimerFires, ExpireSession, BeginStop, CallStop, TimerDue,
       workspaceVars
  <1>12. ASSUME NEW id \in Ids, LookupExpires(id)
        PROVE  WorkspaceGuarded'
    BY <1>12 DEF LookupExpires, BeginStop, CallStop, TimerDue, workspaceVars
  <1>13. ASSUME NEW id \in Ids, WorkspaceTimerFires(id)
        PROVE  WorkspaceGuarded'
    <2>1. UNCHANGED <<startPc, browser>>
      BY <1>13 DEF WorkspaceTimerFires, sessionVars, callVars
    <2>2. CASE DeleteWorkspaces({id}) /\ id \in Lapsed
      BY <2>1, <2>2 DEF DeleteWorkspaces, Lapsed
    <2>3. CASE UNCHANGED <<workspaces, wsLeases>>
      BY <2>1, <2>3
    <2> QED
      BY <1>13, <2>2, <2>3 DEF WorkspaceTimerFires
  <1>14. ASSUME NEW id \in Ids, HandoffGranted(id)
        PROVE  WorkspaceGuarded'
    BY <1>14 DEF HandoffGranted, Unresolved, workspaceVars
  <1>15. ASSUME NEW id \in Ids, HandoffReturns(id)
        PROVE  WorkspaceGuarded'
    BY <1>15 DEF HandoffReturns, Unresolved, sessionVars
  <1>16. ASSUME NEW id \in Ids, TakeoverDone(id)
        PROVE  WorkspaceGuarded'
    BY <1>16 DEF TakeoverDone, Unresolved, workspaceVars
  <1>17. ASSUME NEW id \in Ids, TakeoverReturns(id)
        PROVE  WorkspaceGuarded'
    BY <1>17 DEF TakeoverReturns, Unresolved, sessionVars
  <1>18. ASSUME NEW id \in Ids, ChallengeAppears(id)
        PROVE  WorkspaceGuarded'
    BY <1>18 DEF ChallengeAppears, workspaceVars, callVars
  <1>19. ASSUME NEW id \in Ids, NEW tenant \in Callers, Stop(id, tenant)
        PROVE  WorkspaceGuarded'
    BY <1>19 DEF Stop, BeginStop, CallStop, workspaceVars
  <1>20. ASSUME NEW id \in Ids, NEW tenant \in Callers, NEW via \in BOOLEAN, Handoff(id, tenant, via)
        PROVE  WorkspaceGuarded'
    <2>1. UNCHANGED <<startPc, browser>>
      BY <1>20 DEF Handoff, sessionVars, Unresolved
    <2>2. CASE DeleteWorkspaces(Lapsed)
      BY <2>1, <2>2 DEF DeleteWorkspaces, Lapsed
    <2>3. CASE UNCHANGED workspaceVars
      BY <2>1, <2>3 DEF workspaceVars
    <2> QED
      BY <1>20, <2>2, <2>3 DEF Handoff
  <1>21. ASSUME NEW id \in Ids, NEW tenant \in Callers, WorkspaceResume(id, tenant)
        PROVE  WorkspaceGuarded'
    BY <1>21 DEF WorkspaceResume, BeginTakeover, DeleteWorkspaces, Lapsed, Unresolved,
       sessionVars
  <1>22. ASSUME NEW id \in Ids, NEW tenant \in Callers, WorkspaceResumeTooLate(id, tenant)
        PROVE  WorkspaceGuarded'
    BY <1>22 DEF WorkspaceResumeTooLate, Lapsed, Exists, Unresolved, sessionVars
  <1>23. ASSUME NEW id \in Ids, NEW tenant \in Callers, Resume(id, tenant)
        PROVE  WorkspaceGuarded'
    BY <1>23 DEF Resume, workspaceVars, callVars
  <1>24. CASE PruneWorkspaces
    BY <1>24 DEF PruneWorkspaces, DeleteWorkspaces, Lapsed, sessionVars, callVars
  <1>25. CASE ShutdownBegins
    BY <1>25 DEF ShutdownBegins, CallStop, workspaceVars
  <1>26. CASE ShutdownReturns
    BY <1>26 DEF ShutdownReturns, ReleaseProfiles, DeactivateWorkspaces, Exists,
       sessionVars
  <1>27. CASE UNCHANGED <<startPc, browser, workspaces, wsLeases>>
    BY <1>27
  <1> HIDE DEF WorkspaceTyped, SessionTyped, CallTyped, LaunchPhases, WorkspaceGuarded
  <1> QED
    BY <1>1, <1>2, <1>3, <1>4, <1>5, <1>6, <1>7, <1>8, <1>9, <1>10, <1>11, <1>12,
       <1>13, <1>14, <1>15, <1>16, <1>17, <1>18, <1>19, <1>20, <1>21, <1>22, <1>23,
       <1>24, <1>25, <1>26, <1>27
       DEF Next, vars, managerVars, workspaceVars, sessionVars, callVars, Unresolved,
           CallRejects, Takeover, Tick, BeginTakeover

-----------------------------------------------------------------------------
(* The theorems *)

\* Every step of every method, continuation and timer preserves the invariant.
LEMMA StepPreserves == IndInv /\ [Next]_vars => IndInv'
  BY ClockTypedStep, ManagerTypedStep, WorkspaceTypedStep, SessionTypedStep, CallTypedStep,
     LaunchPhasesStep, LockHeldStep, TimerIsDeadlineStep, ExpiryRecordedStep,
     WorkspaceGuardedStep DEF IndInv

\* The strengthened invariant holds of every behaviour of the manager.
THEOREM Invariance == Spec => []IndInv
  BY InitEstablishes, StepPreserves, PTL DEF Spec

\* A persistent profile is open in at most one session, however starts, stops,
\* expiries and a shutdown interleave, and every map keeps its type and bound.
THEOREM ProfilesExclusive == Spec => []SlotsSound
  <1>1. IndInv => ProfileExclusive
    <2> SUFFICES ASSUME IndInv, NEW i \in Ids, NEW j \in Ids, i # j, Active(i), Active(j),
                        options[i].profile # None, options[i].profile = options[j].profile
                 PROVE  FALSE
      BY DEF ProfileExclusive
    <2>1. owners[options[i].profile] = i /\ owners[options[j].profile] = j
      BY DEF IndInv, LockHeld
    <2> QED
      BY <2>1
  <1>2. IndInv => SlotsSound
    BY <1>1, TypeParts DEF IndInv, SlotsSound
  <1> QED
    BY <1>2, Invariance, PTL

\* get returns no usable session past its deadline, and none that its TTL is
\* closing while the expired ids have room for it.
THEOREM DeadlineEnforced == Spec => []ExpiredFailsClosed
  <1>1. IndInv => ExpiredFailsClosed
    <2> SUFFICES ASSUME IndInv, NEW id \in Ids, CanGet(id, None), startPc[id] = "done"
                 PROVE  /\ now < deadline[id] \/ browser[id] \in {"STOPPING", "STOPPED"}
                        /\ <<id, "expiry">> \in stoppers => Len(expired) = MaxClosed
      BY DEF ExpiredFailsClosed
    <2>1. id \in sessions /\ ~Contains(expired, id) /\ ~TimerDue(id)
      BY DEF CanGet
    <2>2. <<id, "expiry">> \in stoppers => Len(expired) = MaxClosed
      BY <2>1 DEF IndInv, ExpiryRecorded
    <2>3. now \in Nat /\ expiryTimers[id] \in Nat
      BY DEF IndInv, ClockTyped, ManagerTyped
    <2>4. now < deadline[id] \/ browser[id] \in {"STOPPING", "STOPPED"}
      BY <2>1, <2>3 DEF IndInv, TimerIsDeadline, TimerDue
    <2> QED
      BY <2>2, <2>4
  <1> QED
    BY <1>1, Invariance, PTL

\* The workspace record is there while its session can be used, and the digest of a
\* lease only while the workspace is with the user.
THEOREM WorkspacesGuarded == Spec => []WorkspaceGuarded
  BY Invariance, PTL DEF IndInv

=============================================================================
