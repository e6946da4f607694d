----------------------------- MODULE Synchronizer -----------------------------
(* src/synchronizer/index.ts: what a person does in the master window is repeated  *)
(* in the follower windows.  The observer of the master chains one broadcast per   *)
(* action; a broadcast serves every follower after a delay of its own and ends     *)
(* when all of them have been served, well or not.  One capture, and the layout     *)
(* of the windows on the screen.                                                   *)
EXTENDS Naturals, Sequences, FiniteSets

CONSTANTS
    Followers,      \* targetSessionIds, after duplicates and the master are dropped
    MaxActions,     \* actions of the master
    MaxWindows, Screen      \* windows to lay out; the side of the screen

VARIABLES
    capture,    \* "none", "opening", "on", "off"
    alive,      \* the sessions that still run; 0 stands for the master
    acted,      \* actions of the master that were observed
    tail,       \* capture.tail: broadcasts that wait for their turn
    running,    \* broadcasts under way: [action, todo]
    got,        \* per follower, the actions it performed
    actions, failures,      \* the capture's counters
    layout      \* the answer of the last request for a layout

syncVars == <<capture, alive, acted, tail, running, got, actions, failures, layout>>

SyncInit ==
    /\ capture = "none"
    /\ alive = Followers \cup {0}
    /\ acted = 0 /\ tail = <<>> /\ running = {}
    /\ got = [f \in Followers |-> <<>>]
    /\ actions = 0 /\ failures = 0
    /\ layout = <<>>

\* All sessions must be known; then the observer is installed in the master.
StartCapture ==
    /\ capture = "none"
    /\ capture' = IF alive = Followers \cup {0} THEN "opening" ELSE "off"
    /\ UNCHANGED <<alive, acted, tail, running, got, actions, failures, layout>>

CaptureOpens ==
    /\ capture = "opening"
    /\ capture' = IF 0 \in alive THEN "on" ELSE "off"
    /\ UNCHANGED <<alive, acted, tail, running, got, actions, failures, layout>>

Mutant_MasterActs_unchained ==
    /\ capture \in {"opening", "on"} /\ 0 \in alive
    /\ acted < MaxActions
    /\ acted' = acted + 1
    /\ running' = running \cup {[action |-> acted + 1, todo |-> Followers]}
    /\ actions' = actions + 1
    /\ UNCHANGED <<capture, alive, tail, got, failures, layout>>

\* The observer reports an action, perhaps before startCapture goes on: its broadcast is chained to those before it.
MasterActs ==
    /\ capture \in {"opening", "on"} /\ 0 \in alive
    /\ acted < MaxActions
    /\ acted' = acted + 1
    /\ tail' = Append(tail, acted + 1)
    /\ UNCHANGED <<capture, alive, running, got, actions, failures, layout>>

BroadcastBegins ==
    /\ running = {} /\ tail # <<>>
    /\ running' = {[action |-> Head(tail), todo |-> Followers]}
    /\ tail' = Tail(tail)
    /\ actions' = actions + 1
    /\ UNCHANGED <<capture, alive, acted, got, failures, layout>>

\* A follower's delay is over and it is told to do the same: it does, or it fails
\* (gone, busy, or the target is not on its page).
Follows(b, f, ok) ==
    /\ f \in b.todo
    /\ ok => f \in alive
    /\ got' = IF ok THEN [got EXCEPT ![f] = Append(@, b.action)] ELSE got
    /\ failures' = IF ok THEN failures ELSE failures + 1
    /\ running' = (running \ {b}) \cup {[b EXCEPT !.todo = @ \ {f}]}
    /\ UNCHANGED <<capture, alive, acted, tail, actions, layout>>

BroadcastEnds(b) ==
    /\ b.todo = {}
    /\ running' = running \ {b}
    /\ UNCHANGED <<capture, alive, acted, tail, got, actions, failures, layout>>

\* Nothing more is observed; what is chained is still carried out.
StopCapture ==
    /\ capture = "on"
    /\ capture' = "off"
    /\ UNCHANGED <<alive, acted, tail, running, got, actions, failures, layout>>

SessionEnds(s) ==
    /\ s \in alive
    /\ alive' = alive \ {s}
    /\ UNCHANGED <<capture, acted, tail, running, got, actions, failures, layout>>

-----------------------------------------------------------------------------
Grid(n) ==
    CASE n = 2 -> [cols |-> 2, rows |-> 1]
      [] n \in {1, 3, 4} -> [cols |-> 2, rows |-> 2]
      [] n \in 5..6 -> [cols |-> 3, rows |-> 2]
      [] n \in 7..9 -> [cols |-> 3, rows |-> 3]
      [] OTHER -> [cols |-> 4, rows |-> (n + 3) \div 4]

GridLayout(n, width, height) ==
    LET w == width \div Grid(n).cols
        h == height \div Grid(n).rows
    IN  [i \in 1..n |-> [x |-> ((i - 1) % Grid(n).cols) * w, y |-> ((i - 1) \div Grid(n).cols) * h,
                         width |-> w, height |-> h]]

TileLayout(n) ==
    /\ capture = "none" /\ layout = <<>>
    /\ layout' = GridLayout(n, Screen, Screen)
    /\ UNCHANGED <<capture, alive, acted, tail, running, got, actions, failures>>

-----------------------------------------------------------------------------
SyncProgress ==
    \/ CaptureOpens \/ BroadcastBegins
    \/ \E b \in running : BroadcastEnds(b) \/ \E f \in Followers, ok \in BOOLEAN : Follows(b, f, ok)

SyncNext ==
    \/ SyncProgress
    \/ StartCapture \/ MasterActs \/ StopCapture
    \/ \E s \in Followers \cup {0} : SessionEnds(s)
    \/ \E n \in 0..MaxWindows : TileLayout(n)

-----------------------------------------------------------------------------
\* A follower performs the master's actions in the master's order, each at most
\* once, and no follower gets ahead: an action is tried only when every earlier
\* one has been tried everywhere.  The counters account for all of it.
FollowersInOrder ==
    /\ \A f \in Followers : \A i, j \in DOMAIN got[f] : i < j => got[f][i] < got[f][j]
    /\ \A f \in Followers : \A i \in DOMAIN got[f] : \A b \in running :
           got[f][i] > b.action => b.todo = {}
    /\ running = {} /\ tail = <<>> =>
           /\ actions = acted
           /\ failures = Cardinality({x \in Followers \X (1..acted) :
                                        \A i \in DOMAIN got[x[1]] : got[x[1]][i] # x[2]})

\* The windows of a layout lie on the screen and none overlaps another.
Inside(w) == w.x + w.width <= Screen /\ w.y + w.height <= Screen
Apart(v, w) == \/ v.x + v.width <= w.x \/ w.x + w.width <= v.x
               \/ v.y + v.height <= w.y \/ w.y + w.height <= v.y
LayoutTiles ==
    \A i \in DOMAIN layout : Inside(layout[i]) /\ \A j \in DOMAIN layout \ {i} : Apart(layout[i], layout[j])
=============================================================================
