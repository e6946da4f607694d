------------------------------ MODULE ControlLease ------------------------------
(***************************************************************************)
(* ControlLeaseManager (src/browser/control-lease.ts): the process-local   *)
(* control ownership and two-phase human handoff of one browser session.   *)
(*                                                                         *)
(*   AGENT_CONTROLLED/NONE --requestHandoff--> INACTIVE/PENDING            *)
(*   INACTIVE/PENDING ------takeover---------> USER_CONTROLLED/ACTIVE      *)
(*   USER_CONTROLLED/ACTIVE release----------> INACTIVE/RELEASED           *)
(*   INACTIVE/RELEASED -----resume-----------> AGENT_CONTROLLED/NONE       *)
(*   PENDING, ACTIVE -------expiry, dispose--> INACTIVE/EXPIRED            *)
(*   INACTIVE/EXPIRED ------recoverExpired---> INACTIVE/RELEASED           *)
(*                                                                         *)
(* Every method first runs expireIfDue, so a lease whose deadline has      *)
(* passed counts as expired even though its timer has not fired: the       *)
(* guards below read Settled, the handoff state after that check.  A call  *)
(* that throws changes nothing beyond that expiry; action ExpireIfDue      *)
(* stands for it.  A token is the number of the handoff that issued it     *)
(* (32 random bytes in the code), a digest the token or 0 once zeroed.     *)
(***************************************************************************)
EXTENDS Naturals

CONSTANTS
    MaxTtl,         \* maxTtlMs, in clock ticks
    MaxEarly,       \* how many ticks early the host may fire a timer
    MaxGeneration,  \* bound: handoffs requested
    MaxTime         \* bound: last instant of the clock

ASSUME MaxTtlAssumption == MaxTtl \in Nat \ {0}
ASSUME MaxEarlyAssumption == MaxEarly \in Nat
ASSUME BoundsAssumption == MaxGeneration \in Nat /\ MaxTime \in Nat

VARIABLES
    controlState,    \* the writer the manager reports
    handoffState,    \* phase of the handoff
    owner,           \* actor that owns the browser
    currentLease,    \* record of the last handoff, NoLease when undefined
    expiryTimer,     \* handle kept by the manager, NoTimer when undefined
    timers,          \* the host's scheduled callbacks: all of them, kept or not
    nextGeneration,  \* handoffs granted so far
    now,             \* the clock
    consent,         \* history: the user returned what the agent last gave away
    lastWrite        \* history: the last write a guard let through

leaseVars == <<controlState, handoffState, owner, currentLease, expiryTimer,
               timers, nextGeneration>>
historyVars == <<consent, lastWrite>>
vars == <<leaseVars, now, historyVars>>

ControlStates == {"AGENT_CONTROLLED", "USER_CONTROLLED", "INACTIVE"}
HandoffStates == {"NONE", "PENDING", "ACTIVE", "RELEASED", "EXPIRED"}
Owners == {"agent", "user", "none"}
Actors == {"agent", "user", "system"}

Leases == [generation : Nat, digest : Nat, expiresAt : Nat]
Timers == [generation : Nat, dueAt : Nat]
Writes == [by : {"agent", "user", "none"}, token : Nat]

NoLease == [generation |-> 0, digest |-> 0, expiresAt |-> 0]
NoTimer == [generation |-> 0, dueAt |-> 0]
NoWrite == [by |-> "none", token |-> 0]

TypeOK ==
    /\ controlState \in ControlStates
    /\ handoffState \in HandoffStates
    /\ owner \in Owners
    /\ currentLease \in Leases
    /\ expiryTimer \in Timers
    /\ timers \in SUBSET Timers
    /\ nextGeneration \in Nat
    /\ now \in Nat
    /\ consent \in BOOLEAN
    /\ lastWrite \in Writes

-----------------------------------------------------------------------------
(* Queries *)

\* A handoff is in progress: the phases that carry a deadline.
InHandoff == handoffState \in {"PENDING", "ACTIVE"}

\* The test of expireIfDue.
Due ==
    /\ currentLease # NoLease
    /\ InHandoff
    /\ now >= currentLease.expiresAt

\* handoffState and controlState as a method sees them after expireIfDue.
Settled == IF Due THEN "EXPIRED" ELSE handoffState
SettledControl == IF Due THEN "INACTIVE" ELSE controlState

MatchesToken(token) == token # 0 /\ currentLease # NoLease
                                 /\ token = currentLease.digest

\* What statusUnsafe derives from the three state fields.
AgentWriteAllowed == /\ controlState = "AGENT_CONTROLLED"
                     /\ handoffState = "NONE"
                     /\ owner = "agent"
UserControlActive == /\ controlState = "USER_CONTROLLED"
                     /\ handoffState = "ACTIVE"
                     /\ owner = "user"

-----------------------------------------------------------------------------
(* Steps shared by several methods *)

SetControl(control, own, phase) ==
    /\ controlState' = control
    /\ owner' = own
    /\ handoffState' = phase

\* clearExpiryTimer: cancel whatever the kept handle names.
ClearExpiryTimer ==
    /\ timers' = timers \ {expiryTimer}
    /\ expiryTimer' = NoTimer

\* scheduleExpiry: replaces the timer that was kept.
ScheduleExpiry(generation, dueAt) ==
    LET handle == [generation |-> generation, dueAt |-> dueAt]
    IN  /\ timers' = (timers \ {expiryTimer}) \cup {handle}
        /\ expiryTimer' = handle

\* Mutant: the digest survives the expiry.
Mutant_Expire_keepDigest ==
    /\ currentLease' = currentLease
    /\ SetControl("INACTIVE", "none", "EXPIRED")

\* The expiring half of expireLease; the record stays, its digest zeroed.
Expire ==
    /\ currentLease' = [currentLease EXCEPT !.digest = 0]
    /\ SetControl("INACTIVE", "none", "EXPIRED")

-----------------------------------------------------------------------------
(* Methods *)

Init ==
    /\ controlState = "AGENT_CONTROLLED"
    /\ handoffState = "NONE"
    /\ owner = "agent"
    /\ currentLease = NoLease
    /\ expiryTimer = NoTimer
    /\ timers = {}
    /\ nextGeneration = 0
    /\ now = 0
    /\ consent = TRUE
    /\ lastWrite = NoWrite

\* status, and every method that throws: only the lazy expiry happens.
ExpireIfDue ==
    /\ \/ Due /\ Expire /\ ClearExpiryTimer
       \/ ~Due /\ UNCHANGED <<controlState, handoffState, owner, currentLease,
                              expiryTimer, timers>>
    /\ UNCHANGED <<nextGeneration, now, historyVars>>

RequestHandoff(actor, ttl) ==
    /\ actor = "agent"
    /\ Settled \in {"NONE", "EXPIRED"}
    /\ SettledControl # "USER_CONTROLLED"
    /\ ttl \in 1..MaxTtl
    /\ nextGeneration < MaxGeneration /\ now + ttl <= MaxTime
    /\ nextGeneration' = nextGeneration + 1
    /\ currentLease' = [generation |-> nextGeneration + 1,
                        digest |-> nextGeneration + 1,
                        expiresAt |-> now + ttl]
    /\ SetControl("INACTIVE", "none", "PENDING")
    /\ ScheduleExpiry(nextGeneration + 1, now + ttl)
    /\ consent' = FALSE
    /\ UNCHANGED <<now, lastWrite>>

\* The first claim; a retry by the same user with the same token succeeds
\* and changes nothing, which ExpireIfDue already allows.
Takeover(actor, token, userConfirmed) ==
    /\ userConfirmed
    /\ actor = "user"
    /\ Settled = "PENDING"
    /\ MatchesToken(token)
    /\ SetControl("USER_CONTROLLED", "user", "ACTIVE")
    /\ UNCHANGED <<currentLease, expiryTimer, timers, nextGeneration, now,
                   historyVars>>

Release(actor, token, userConfirmed) ==
    /\ userConfirmed
    /\ actor = "user"
    /\ Settled = "ACTIVE"
    /\ MatchesToken(token)
    /\ ClearExpiryTimer
    /\ currentLease' = NoLease
    /\ SetControl("INACTIVE", "none", "RELEASED")
    /\ consent' = TRUE
    /\ UNCHANGED <<nextGeneration, now, lastWrite>>

\* Mutant: an expired handoff may be resumed without recovery.
Mutant_Resume_fromExpired(actor) ==
    /\ actor = "agent"
    /\ Settled \in {"RELEASED", "EXPIRED"}
    /\ SetControl("AGENT_CONTROLLED", "agent", "NONE")
    /\ UNCHANGED <<currentLease, expiryTimer, timers, nextGeneration, now,
                   historyVars>>

\* resume in phase NONE is an idempotent success and changes nothing.
Resume(actor) ==
    /\ actor = "agent"
    /\ Settled = "RELEASED"
    /\ SetControl("AGENT_CONTROLLED", "agent", "NONE")
    /\ UNCHANGED <<currentLease, expiryTimer, timers, nextGeneration, now,
                   historyVars>>

\* The lazy expiry that precedes it clears the timer; when the state was
\* already EXPIRED there is none to clear.
RecoverExpired(actor, userConfirmed) ==
    /\ userConfirmed
    /\ actor = "user"
    /\ Settled = "EXPIRED"
    /\ IF Due THEN ClearExpiryTimer ELSE UNCHANGED <<expiryTimer, timers>>
    /\ currentLease' = NoLease
    /\ SetControl("INACTIVE", "none", "RELEASED")
    /\ consent' = TRUE
    /\ UNCHANGED <<nextGeneration, now, lastWrite>>

\* assertAgentControl, followed by the write it lets through.
AgentWrite ==
    /\ Settled = "NONE"
    /\ SettledControl = "AGENT_CONTROLLED"
    /\ lastWrite' = [by |-> "agent", token |-> 0]
    /\ UNCHANGED <<leaseVars, now, consent>>

\* Mutant: the guard trusts the timer and skips the lazy expiry.
Mutant_UserWrite_noLazyExpiry(token) ==
    /\ handoffState = "ACTIVE"
    /\ controlState = "USER_CONTROLLED"
    /\ MatchesToken(token)
    /\ lastWrite' = [by |-> "user", token |-> token]
    /\ UNCHANGED <<leaseVars, now, consent>>

\* assertUserControl, followed by the write it lets through.
UserWrite(token) ==
    /\ Settled = "ACTIVE"
    /\ SettledControl = "USER_CONTROLLED"
    /\ MatchesToken(token)
    /\ lastWrite' = [by |-> "user", token |-> token]
    /\ UNCHANGED <<leaseVars, now, consent>>

Dispose ==
    /\ ClearExpiryTimer
    /\ currentLease' = NoLease
    /\ SetControl("INACTIVE", "none", "EXPIRED")
    /\ consent' = FALSE
    /\ UNCHANGED <<nextGeneration, now, lastWrite>>

-----------------------------------------------------------------------------
(* The host: the clock and the timer callbacks *)

Tick ==
    /\ now < MaxTime
    /\ now' = now + 1
    /\ UNCHANGED <<leaseVars, historyVars>>

\* Mutant: an early callback is dropped instead of rescheduled.
Mutant_TimerFires_dropEarly(handle) ==
    /\ handle \in timers
    /\ now + MaxEarly >= handle.dueAt
    /\ timers' = timers \ {handle}
    /\ IF currentLease.expiresAt > now
         THEN UNCHANGED <<controlState, handoffState, owner, currentLease, expiryTimer>>
         ELSE Expire /\ expiryTimer' = NoTimer
    /\ UNCHANGED <<nextGeneration, now, historyVars>>

\* The callback of one scheduled timer: expireLease(handle.generation).
TimerFires(handle) ==
    LET stale == \/ currentLease = NoLease
                 \/ currentLease.generation # handle.generation
                 \/ handoffState = "EXPIRED"
        again == [generation |-> handle.generation, dueAt |-> currentLease.expiresAt]
        early == ~stale /\ currentLease.expiresAt > now
    IN  /\ handle \in timers
        /\ now + MaxEarly >= handle.dueAt
        /\ timers' = (timers \ {handle}) \cup (IF early THEN {again} ELSE {})
        /\ expiryTimer' = IF early THEN again ELSE IF stale THEN expiryTimer ELSE NoTimer
        /\ IF early \/ stale
             THEN UNCHANGED <<controlState, handoffState, owner, currentLease>>
             ELSE Expire
        /\ UNCHANGED <<nextGeneration, now, historyVars>>

Tokens == 1..MaxGeneration

Next ==
    \/ ExpireIfDue
    \/ \E actor \in Actors, ttl \in 1..MaxTtl : RequestHandoff(actor, ttl)
    \/ \E actor \in Actors, token \in Tokens, ok \in BOOLEAN : Takeover(actor, token, ok)
    \/ \E actor \in Actors, token \in Tokens, ok \in BOOLEAN : Release(actor, token, ok)
    \/ \E actor \in Actors : Resume(actor)
    \/ \E actor \in Actors, ok \in BOOLEAN : RecoverExpired(actor, ok)
    \/ AgentWrite
    \/ \E token \in Tokens : UserWrite(token)
    \/ Dispose
    \/ Tick
    \/ \E handle \in timers : TimerFires(handle)

Spec == Init /\ [][Next]_vars

-----------------------------------------------------------------------------
(* Properties *)

\* The three state fields, the lease record and its digest always tell the
\* same story: whatever order of calls, lazy expiries and callbacks was run,
\* no two fields disagree about who is in control.
StateAgrees ==
    /\ (controlState = "AGENT_CONTROLLED") <=> (handoffState = "NONE")
    /\ (controlState = "USER_CONTROLLED") <=> (handoffState = "ACTIVE")
    /\ (owner = "agent") <=> (handoffState = "NONE")
    /\ (owner = "user") <=> (handoffState = "ACTIVE")
    /\ InHandoff => /\ currentLease.generation = nextGeneration
                    /\ currentLease.digest = nextGeneration
                    /\ nextGeneration > 0
    /\ ~InHandoff => currentLease.digest = 0

\* Timer hygiene of scheduleExpiry/clearExpiryTimer/expireLease: while a
\* handoff is in progress exactly one callback is scheduled, the kept one, for
\* this handoff and not before its deadline; otherwise none is, so no callback
\* survives release, expiry, recovery or dispose.
TimerHygiene ==
    /\ InHandoff =>
         /\ timers = {expiryTimer}
         /\ expiryTimer = [generation |-> currentLease.generation,
                           dueAt |-> currentLease.expiresAt]
    /\ ~InHandoff => timers = {} /\ expiryTimer = NoTimer

\* The lease manager's record is coherent: typed, of one phase, with one timer.
LeaseCoherent == TypeOK /\ StateAgrees /\ TimerHygiene

\* "There is no method that lets an agent reclaim active control" (class
\* comment): once a handoff was requested, or the manager disposed, the agent
\* may write only after a confirmed user released or recovered it.
AgentNeedsConsent == AgentWriteAllowed => consent

\* assertUserControl lets a write through only with the newest token, before
\* the lease's deadline, whether or not the expiry timer has run.
UserWritesInLease ==
    [][ lastWrite' # lastWrite /\ lastWrite'.by = "user" =>
          /\ lastWrite'.token = nextGeneration
          /\ now < currentLease.expiresAt
          /\ UserControlActive ]_vars

\* takeover gives the user control only by the token of the handoff that is
\* pending, never of one that has lapsed.
TakeoverIsTimely ==
    [][ UserControlActive' /\ ~UserControlActive => now < currentLease.expiresAt ]_vars

\* Nobody uses a lapsed lease, by a write or by a takeover.
LeaseTimely == UserWritesInLease /\ TakeoverIsTimely

\* Every handoff ends: released, or expired by a callback that is never lost
\* however early the host fires it and however often the user retries.
HandoffEnds == InHandoff ~> ~InHandoff

\* The manager keeps the promise stated by ControlOwnership.  The user's pen
\* drops at the deadline itself, not when the expiry is noticed.
Pen == CASE AgentWriteAllowed -> "agent"
         [] UserControlActive /\ ~Due -> "user"
         [] OTHER -> "nobody"
Ownership == INSTANCE ControlOwnership WITH pen <- Pen
OwnershipSpec == Ownership!Spec
=============================================================================
