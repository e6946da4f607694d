----------------------------- MODULE InputScheduler -----------------------------
(* InteractionScheduler of src/input/scheduler.ts: an action on a page is a series  *)
(* of pauses and input events, each awaited.  The signal that a timeout, a stop or a *)
(* human's takeover aborts is looked at before every step, cuts a pause short, and    *)
(* cannot call back an event that is on its way.                                     *)
EXTENDS Naturals, Sequences, SequencesExt

CONSTANTS
    Points,     \* points of a pointer's path
    Keys,       \* characters of the text
    Amounts     \* how far to scroll

VARIABLES
    action,     \* the action under way, and whether the input is paced
    at,         \* the step of its plan
    busy,       \* the step is being awaited
    aborted,
    outcome,
    sent,       \* history: the events that reached the page
    late        \* history: the events that were begun after the abort

inputVars == <<action, at, busy, aborted, outcome, sent, late>>

-----------------------------------------------------------------------------
\* A step is begun only if the signal is still quiet, unless it is unguarded.
Event(kind) == [kind |-> kind, guarded |-> TRUE]
Unguarded(kind) == [kind |-> kind, guarded |-> FALSE]
Sleep == Event("sleep")
Check == Event("check")

Times(n, steps) == FlattenSeq([i \in 1 .. n |-> steps])

\* pauseBefore and pauseAfter: no more than a look at the signal when not paced.
Pause(paced) == IF paced THEN <<Sleep>> ELSE <<Check>>

movePointer == Times(Points - 1, <<Event("move"), Sleep>>) \o <<Event("move")>>

ToBox(paced) == IF paced THEN <<Event("box")>> \o movePointer ELSE <<>>

Mutant_click_Unguarded(paced) ==
    Pause(paced) \o ToBox(paced) \o <<Unguarded("click")>> \o Pause(paced)

click(paced) == Pause(paced) \o ToBox(paced) \o <<Event("click")>> \o Pause(paced)

\* The only event after whose pointer path the signal is not looked at.
hover(paced) == Pause(paced) \o ToBox(paced) \o <<Unguarded("hover")>> \o Pause(paced)

typeText(paced) ==
    Pause(paced) \o <<Event("focus")>>
    \o (IF paced THEN Times(Keys, <<Sleep, Event("key")>>) ELSE <<Event("fill")>>)
    \o Pause(paced)

selectOption(paced) == Pause(paced) \o <<Event("select")>> \o Pause(paced)

\* Three units at most are scrolled at a time, in two wheel events per unit.
Chunk(amount) == IF amount > 3 THEN 3 ELSE amount
Wheels(paced, amount) ==
    IF paced THEN Times(2 * Chunk(amount) - 1, <<Event("wheel"), Sleep>>) \o <<Event("wheel")>>
    ELSE <<Event("wheel")>>
Chunks(amount) == [i \in 1 .. (amount + 2) \div 3 |-> Chunk(amount - 3 * (i - 1))]
scroll(paced, amount) ==
    Pause(paced)
    \o FlattenSeq([i \in DOMAIN Chunks(amount) |->
           Wheels(paced, Chunks(amount)[i])
           \o (IF paced /\ i < Len(Chunks(amount)) THEN <<Sleep>> ELSE <<>>)])
    \o Pause(paced)

Plan(a) == CASE a.kind = "click" -> click(a.paced)
             [] a.kind = "hover" -> hover(a.paced)
             [] a.kind = "type" -> typeText(a.paced)
             [] a.kind = "select" -> selectOption(a.paced)
             [] OTHER -> scroll(a.paced, a.amount)

Actions == [kind : {"click", "hover", "type", "select"}, paced : BOOLEAN, amount : {1}]
    \union [kind : {"scroll"}, paced : BOOLEAN, amount : Amounts]

-----------------------------------------------------------------------------
InputInit ==
    /\ action \in Actions
    /\ at = 1 /\ busy = FALSE /\ aborted = FALSE /\ outcome = "none" /\ sent = 0 /\ late = 0

Step == Plan(action)[at]
Over == at > Len(Plan(action))

\* throwIfAborted before the step; a look at the signal is all of a check.
StepBegins ==
    /\ outcome = "none" /\ ~busy /\ ~Over
    /\ ~(Step.guarded /\ aborted)
    /\ busy' = (Step.kind # "check")
    /\ at' = IF Step.kind = "check" THEN at + 1 ELSE at
    /\ late' = IF aborted THEN late + 1 ELSE late
    /\ UNCHANGED <<action, aborted, outcome, sent>>

StepEnds ==
    /\ busy
    /\ busy' = FALSE /\ at' = at + 1
    /\ sent' = IF Step.kind = "sleep" THEN sent ELSE sent + 1
    /\ UNCHANGED <<action, aborted, outcome, late>>

Rejects ==
    /\ outcome = "none" /\ ~busy /\ ~Over
    /\ Step.guarded /\ aborted
    /\ outcome' = "aborted"
    /\ UNCHANGED <<action, at, busy, aborted, sent, late>>

Resolves ==
    /\ outcome = "none" /\ ~busy /\ Over
    /\ outcome' = "done"
    /\ UNCHANGED <<action, at, busy, aborted, sent, late>>

\* The signal ends a pause at once: its timer is cleared and the action rejects.
AbortSignal ==
    /\ ~aborted /\ outcome = "none"
    /\ aborted' = TRUE
    /\ IF busy /\ Step.kind = "sleep" THEN busy' = FALSE /\ outcome' = "aborted"
       ELSE UNCHANGED <<busy, outcome>>
    /\ UNCHANGED <<action, at, sent, late>>

InputProgress == StepBegins \/ StepEnds \/ Rejects \/ Resolves

InputNext == InputProgress \/ AbortSignal

-----------------------------------------------------------------------------
Events == SelectSeq(Plan(action), LAMBDA s : s.kind \notin {"sleep", "check"})

\* No event is begun after the signal was aborted, but for the hover that follows
\* the last point of its path; an action that reports success was carried out to its
\* last event; and the wheel has turned by the amount that was asked for.
InputStops ==
    /\ late <= IF action.kind = "hover" THEN 1 ELSE 0
    /\ outcome = "done" => sent = Len(Events)
    /\ action.kind = "scroll" /\ action.paced => Len(Events) = 2 * action.amount
=============================================================================
