--------------------------- MODULE AutomationSocket ---------------------------
(* attachAutomationSocket of src/api/server.ts: the requests that arrive on a      *)
(* WebSocket are carried out one after the other on one session and answered in    *)
(* turn, but for the message null, which gets no answer; a screencast sends a       *)
(* frame per period until it or the socket is stopped.                             *)
EXTENDS Naturals, Sequences

CONSTANTS MaxRequests

VARIABLES
    open,       \* socket.readyState = 1
    chain,      \* tail: the requests that wait, the first one under way
    underway,   \* the session works on the first request
    received,   \* requests received so far
    ended,      \* the requests that are over, in order, and whether an answer was sent
    nulls,      \* history: the numbers of the messages that were the JSON value null
    timer,      \* screencastTimer is running
    inFlight,   \* a frame is being taken
    behind      \* history: a start_screencast was waiting when the socket closed

socketVars == <<open, chain, underway, received, ended, nulls, timer, inFlight, behind>>

SocketInit ==
    /\ open = TRUE /\ chain = <<>> /\ underway = FALSE /\ received = 0 /\ ended = <<>> /\ nulls = {}
    /\ timer = FALSE /\ inFlight = FALSE /\ behind = FALSE

\* What a message asks for; "invalid" is not JSON, or no operation there is; "null" is
\* the JSON value, which has no id to read.
Kinds == {"call", "start_screencast", "stop_screencast", "invalid", "null"}

Message(kind) ==
    /\ open
    /\ received < MaxRequests
    /\ received' = received + 1
    /\ chain' = Append(chain, [n |-> received + 1, kind |-> kind])
    /\ nulls' = IF kind = "null" THEN nulls \cup {received + 1} ELSE nulls
    /\ UNCHANGED <<open, underway, ended, timer, inFlight, behind>>

\* Opening, clicking, typing, snapshots and direct input wait for the session.
Served == Head(chain)

CallBegins ==
    /\ chain # <<>> /\ ~underway
    /\ Served.kind = "call"
    /\ underway' = TRUE
    /\ UNCHANGED <<open, chain, received, ended, nulls, timer, inFlight, behind>>

Ends(answered) ==
    /\ ended' = Append(ended, [n |-> Served.n, answered |-> answered])
    /\ chain' = Tail(chain)
    /\ underway' = FALSE

\* The operation is over, well or with an error, and the answer is sent, if only to a
\* socket that has closed.  Starting a screencast replaces the one that runs.
Answer ==
    /\ chain # <<>>
    /\ Served.kind # "null"
    /\ Served.kind = "call" => underway
    /\ Ends(TRUE)
    /\ timer' = (Served.kind = "start_screencast" \/ (timer /\ Served.kind # "stop_screencast"))
    /\ inFlight' = (inFlight /\ Served.kind # "start_screencast")
    /\ UNCHANGED <<open, received, nulls, behind>>

\* Reading the id of null throws outside the try that answers errors, and the catch at
\* the end of the chain drops the error: no answer is sent.
NullIsDropped ==
    /\ chain # <<>>
    /\ Served.kind = "null"
    /\ Ends(FALSE)
    /\ UNCHANGED <<open, received, nulls, timer, inFlight, behind>>

FrameBegins ==
    /\ timer /\ open /\ ~inFlight
    /\ inFlight' = TRUE
    /\ UNCHANGED <<open, chain, underway, received, ended, nulls, timer, behind>>

FrameEnds ==
    /\ inFlight
    /\ inFlight' = FALSE
    /\ UNCHANGED <<open, chain, underway, received, ended, nulls, timer, behind>>

Close ==
    /\ open
    /\ open' = FALSE
    /\ timer' = FALSE
    /\ behind' = (\E i \in DOMAIN chain : chain[i].kind = "start_screencast")
    /\ UNCHANGED <<chain, underway, received, ended, nulls, inFlight>>

SocketProgress == CallBegins \/ Answer \/ NullIsDropped

SocketNext == SocketProgress \/ FrameBegins \/ FrameEnds \/ Close \/ \E kind \in Kinds : Message(kind)

-----------------------------------------------------------------------------
\* The requests are served once and in the order of arrival, and each is answered unless
\* the message was null; and a closed socket keeps no screencast running, unless a
\* start_screencast was still waiting in the chain when it closed.
SocketInOrder ==
    /\ \A i \in DOMAIN ended : ended[i].n = i /\ (ended[i].answered <=> i \notin nulls)
    /\ Len(ended) + Len(chain) = received
    /\ ~open /\ timer => behind
=============================================================================
