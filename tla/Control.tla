-------------------------------- MODULE Control --------------------------------
(***************************************************************************)
(* Who is in control of a browser, at the three levels that keep a record  *)
(* of it: the lease manager (ControlLease), the session that asks it       *)
(* (BrowserSession, extended like it) and the session manager with its     *)
(* workspaces (SessionManager).  Each level abstracts the one below by     *)
(* what it can observe of it, so a behaviour shows one of them, and level  *)
(* says which.                                                             *)
(***************************************************************************)
EXTENDS ControlLease, BrowserSession

CONSTANTS
    Ids, Profiles, Tenants, None, Requests, MaxSessions, MaxClosed, SessionTtl,
    WorkspaceTtl, HandoffTtl, MaxClock      \* SessionManager

VARIABLES
    level,
    clock, options, starts, sessions, owners, expiryTimers, expired, closed, workspaces,
    wsTimers, wsLeases, browser, alive, granted, handoffs, stoppers, call, shutdown, deadline

Manager == INSTANCE SessionManager
             WITH now <- clock, startPc <- starts, lease <- granted, MaxTime <- MaxClock

managerVars == <<clock, options, starts, sessions, owners, expiryTimers, expired, closed,
                 workspaces, wsTimers, wsLeases, browser, alive, granted, handoffs, stoppers,
                 call, shutdown, deadline>>
controlVars == <<level, vars, sessionVars, managerVars>>

-----------------------------------------------------------------------------
ControlInit ==
    /\ level \in {"lease", "session", "manager"}
    /\ Init
    /\ SessionInit /\ (level # "session" => headless)
    /\ Manager!Init
    /\ level # "manager" => options = [id \in Ids |-> CHOOSE r \in Requests : TRUE]

OnlyLease == level = "lease" /\ UNCHANGED <<level, sessionVars, managerVars>>
OnlySession == level = "session" /\ UNCHANGED <<level, vars, managerVars>>
OnlyManager == level = "manager" /\ UNCHANGED <<level, vars, sessionVars>>

ControlNext ==
    \/ OnlyLease /\ Next
    \/ OnlySession /\ SessionNext
    \/ OnlyManager /\ Manager!Next

ControlSpec == ControlInit /\ [][ControlNext]_controlVars

\* The host's clock advances and runs due callbacks; no caller is ever obliged to
\* act.
LeaseFairness ==
    /\ WF_controlVars(OnlyLease /\ Tick)
    /\ WF_controlVars(OnlyLease /\ \E handle \in timers : TimerFires(handle))

\* The drain timer fires, and closing a browser and removing directories end one
\* way or the other.  Nothing is assumed of the operations on the page.
SessionFairness ==
    /\ WF_controlVars(OnlySession /\ StopDrainTimeout)
    /\ WF_controlVars(OnlySession /\ StopCloses)
    /\ WF_controlVars(OnlySession /\ StopFinishes)

\* The clock and the timers run, and every promise the manager awaits settles:
\* launches, profile reads, stops (BrowserSession.stop bounds its own drain)
\* and their continuations.  No caller is obliged to call anything.
ManagerFairness ==
    /\ WF_controlVars(OnlyManager /\ Manager!Tick)
    /\ WF_controlVars(OnlyManager /\ Manager!ShutdownReturns)
    /\ \A id \in Ids :
         /\ WF_controlVars(OnlyManager /\ (Manager!ProfileRead(id) \/ Manager!ProfileRefused(id)))
         /\ WF_controlVars(OnlyManager /\ (Manager!LaunchSucceeds(id) \/ Manager!LaunchFails(id)))
         /\ WF_controlVars(OnlyManager /\ Manager!StartReturns(id))
         /\ WF_controlVars(OnlyManager /\ Manager!StopAfterLaunch(id))
         /\ WF_controlVars(OnlyManager /\ \E closes \in BOOLEAN : Manager!SessionStopped(id, closes))
         /\ WF_controlVars(OnlyManager /\ \E kind \in Manager!Kinds : Manager!StopReturns(id, kind))
         /\ WF_controlVars(OnlyManager /\ Manager!SessionTimerFires(id))
         /\ WF_controlVars(OnlyManager /\ Manager!WorkspaceTimerFires(id))

\* A level's fairness is about its own steps.
FairControl == ControlSpec /\ LeaseFairness /\ SessionFairness /\ ManagerFairness

-----------------------------------------------------------------------------
(* The properties of ControlLease and BrowserSession, and one of the manager *)

\* Every session gives its slot back, and a retained workspace record whose session
\* is gone is reclaimed.
ResourcesReturned == Manager!SlotReturned /\ Manager!WorkspaceReclaimed

=============================================================================
