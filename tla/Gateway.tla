-------------------------------- MODULE Gateway --------------------------------
(* The program's ways in and out: the studio's requests, the agents' tool calls,    *)
(* the fetching of pages without a browser, the input sent to a page, and the       *)
(* debugging connection that names the service workers.  A call of one changes no    *)
(* state of another but through the session, so a behaviour runs one of them.       *)
EXTENDS Naturals, Sequences, FiniteSets

CONSTANTS
    Routes, Places, Rows, MaxAsked,
    Requests, Slots, MaxCalls, Burst, Cost, Rate, MaxClock, MaxElapsed, MaxTurns, MaxAuditFaults,
    Policies, Pages, Probes, AllowedHosts, Names, Reserved, DnsAnswers, Start, TTL, CacheLimit,
    MaxFetches, MaxBody,
    Points, Keys, Amounts,
    Workers, MaxTries, MaxFailures,
    Parts           \* the parts whose behaviours are explored

VARIABLES
    part,
    serving, bootstrapUsed, cookies, member, key, requests, sockets, asked, shut, deed,
    auth, calls, session, workspace, tokens, lastRefill, clock, metrics, pending, received, strange,
    faults, turns, admitted, elapsed, effect,
    policy, dns, rebinds, now, cache, fetch, fetches, connected,
    action, at, busy, aborted, outcome, sent, late,
    phase, target, tries, closed, job, waiting, wire, configured, worker, held, named,
    stuck, failures

Gate == INSTANCE StudioGate
Tool == INSTANCE ToolGateway
Fetcher == INSTANCE PageFetch
Input == INSTANCE InputScheduler
Cdp == INSTANCE CdpConnection

gateVars == <<serving, bootstrapUsed, cookies, member, key, requests, sockets, asked, shut, deed>>
toolVars == <<auth, calls, session, workspace, tokens, lastRefill, clock, metrics, pending, received,
              strange, faults, turns, admitted, elapsed, effect>>
fetchVars == <<policy, dns, rebinds, now, cache, fetch, fetches, connected>>
inputVars == <<action, at, busy, aborted, outcome, sent, late>>
cdpVars == <<phase, target, tries, closed, job, waiting, wire, configured, worker, held, named,
             stuck, failures>>
vars == <<part, gateVars, toolVars, fetchVars, inputVars, cdpVars>>

\* The routes of members and keys are under /api/team.
ASSUME RouteAssumption ==
    /\ Rows \in Nat
    /\ \A route \in Routes :
          route.shape \in {"member", "revoke"} => "team" \in route.path /\ "bridge" \notin route.path

\* The bucket counts whole units.
ASSUME BucketAssumption ==
    /\ IsFiniteSet(Slots)
    /\ Burst \in Nat /\ Cost \in Nat /\ Rate \in Nat /\ MaxClock \in Nat

\* Urls name a host or hold an address; resolvers answer with addresses.
ASSUME FetchAssumption ==
    /\ \A url \in Pages \union Probes :
          IF Fetcher!Named(url) THEN url.name \in Names ELSE url.address \in Fetcher!Addresses
    /\ Start \in Seq(Fetcher!Addresses) /\ DnsAnswers \subseteq Seq(Fetcher!Addresses)
    /\ TTL \in Nat /\ CacheLimit \in Nat \ {0}

\* No worker has the name of what waits beside the workers.
ASSUME WorkerAssumption == Cdp!Install \notin Workers

-----------------------------------------------------------------------------
Init ==
    /\ part \in Parts
    /\ Gate!GateInit
    /\ Tool!ToolInit /\ (part # "tools" => ~auth)
    /\ Fetcher!FetchInit /\ (part # "fetch" => policy = CHOOSE p \in Policies : TRUE)
    /\ Input!InputInit /\ (part # "input" => action = CHOOSE a \in Input!Actions : TRUE)
    /\ Cdp!CdpInit /\ (part # "cdp" => \A w \in Workers : worker[w] = "absent")

OnlyGate == part = "gate" /\ UNCHANGED <<part, toolVars, fetchVars, inputVars, cdpVars>>
OnlyTools == part = "tools" /\ UNCHANGED <<part, gateVars, fetchVars, inputVars, cdpVars>>
OnlyFetch == part = "fetch" /\ UNCHANGED <<part, gateVars, toolVars, inputVars, cdpVars>>
OnlyInput == part = "input" /\ UNCHANGED <<part, gateVars, toolVars, fetchVars, cdpVars>>
OnlyCdp == part = "cdp" /\ UNCHANGED <<part, gateVars, toolVars, fetchVars, inputVars>>

\* What goes on by itself once it has begun.
Progress ==
    \/ OnlyGate /\ Gate!GateProgress
    \/ OnlyTools /\ Tool!ToolProgress
    \/ OnlyFetch /\ Fetcher!FetchProgress
    \/ OnlyInput /\ Input!InputProgress
    \/ OnlyCdp /\ Cdp!CdpProgress

Next ==
    \/ OnlyGate /\ Gate!GateNext
    \/ OnlyTools /\ Tool!ToolNext
    \/ OnlyFetch /\ Fetcher!FetchNext
    \/ OnlyInput /\ Input!InputNext
    \/ OnlyCdp /\ Cdp!CdpNext

Spec == Init /\ [][Next]_vars /\ WF_vars(Progress)

-----------------------------------------------------------------------------
\* Nothing is done for a tool call that was not recorded, whose tenant may not do it
\* or whose session the human or a challenge holds by then; nothing for a studio
\* request whose key the owner has been told is out, and no socket but a bridge's
\* (handleToolCall, handleRequest, the upgrade).
CallsGuarded == Tool!CallsGuarded /\ Gate!GateHolds

\* McpRuntimeGuard: the bucket never lets more calls through than its burst and the
\* time that passed, and every call is counted once.
RateBounded == Tool!RateBounded

\* UrlPolicy and fetchPage: no connection to a protected network, whatever names
\* resolve to after the check, wherever redirects lead, at every edge of a range.
FetchStaysOut == Fetcher!FetchStaysOut

\* InteractionScheduler: no input after the abort, and no success without all of it.
\* installManagedServiceWorkerIdentity: no held worker runs before it is named.
InputAndIdentity == Input!InputStops /\ Cdp!IdentityFirst

Busy ==
    \/ Gate!GateBusy \/ Tool!ToolBusy \/ fetch # Fetcher!Idle
    \/ part = "input" /\ outcome = "none"
    \/ part = "cdp" /\ Cdp!CdpBusy

\* Every request and every call is answered, every fetch and every action on a page
\* ends, and every service worker that was held is let go, or its release was tried;
\* unless the studio's process ends, by a request that makes it throw outside the try
\* of its handler (Undecodable, AskNoUrl, AnswersTwice) with the others unanswered.
GatewayQuiesces == Busy ~> (~Busy \/ Gate!Died)
=============================================================================
