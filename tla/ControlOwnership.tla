---------------------------- MODULE ControlOwnership ----------------------------
(***************************************************************************)
(* What ControlLeaseManager promises to the rest of the system, with no    *)
(* tokens, clocks or timers: at any moment the browser may be written by   *)
(* the agent, by one confirmed user, or by nobody, and the agent writes    *)
(* again only after a user has said that it may.                           *)
(***************************************************************************)

VARIABLES
    pen,      \* who may write to the browser now: "agent", "user" or "nobody"
    consent   \* TRUE iff the user has returned what the agent last gave away

ownVars == <<pen, consent>>

Init == pen = "agent" /\ consent = TRUE

\* The agent (or the disposal of the session) gives up the pen.
Yield == pen' = "nobody" /\ consent' = FALSE

\* A confirmed user picks up a pen that nobody holds.
Claim == pen = "nobody" /\ ~consent /\ pen' = "user" /\ UNCHANGED consent

\* The user's time is over; nothing is returned.
Lapse == pen = "user" /\ pen' = "nobody" /\ UNCHANGED consent

\* The user returns control, or authorises the agent after a lapse.
Return == ~consent /\ pen' = "nobody" /\ consent' = TRUE

\* The agent picks the pen up again.
Resume == pen = "nobody" /\ consent /\ pen' = "agent" /\ UNCHANGED consent

Next == Yield \/ Claim \/ Lapse \/ Return \/ Resume

Spec == Init /\ [][Next]_ownVars
=============================================================================
