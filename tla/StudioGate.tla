------------------------------ MODULE StudioGate ------------------------------
(* handleRequest of src/api/server.ts: who a request comes from is settled when it  *)
(* arrives, and not looked at again while it reads its body, works and answers.     *)
(* Meanwhile the owner may suspend the member, revoke the key or stop the server.   *)
EXTENDS Naturals, FiniteSets

CONSTANTS
    Routes,     \* what is asked for: [path, method, kind, shape], path a set of fragments
    Places,     \* requests under way at a time
    Rows,       \* lines of an imported table, ids of a cluster action
    MaxAsked

VARIABLES
    serving,        \* the HTTP server
    bootstrapUsed,
    cookies,        \* history: owner cookies that were handed out
    member, key,    \* the team's member and its API key
    requests,       \* the requests under way
    sockets,        \* open sockets: automation or bridge, the role they were opened with
    asked,
    shut,           \* history: the owner was told that the member or the key is out
    deed            \* history: the last thing done for a request, until the next one comes

gateVars == <<serving, bootstrapUsed, cookies, member, key, requests, sockets, asked, shut, deed>>

-----------------------------------------------------------------------------
Ranks == [viewer |-> 0, operator |-> 1, manager |-> 2, owner |-> 3]
roleAllows(actual, required) == Ranks[actual] >= Ranks[required]

Runs == {"start", "stop", "navigate", "interact", "resume", "rpa/tasks", "external-runtimes",
         "cluster/tasks/actions"}

Has(route, fragments) == route.path \cap fragments # {}

requiredRole(route) ==
    IF Has(route, {"bridge"}) THEN IF route.method = "GET" THEN "viewer" ELSE "operator"
    ELSE IF \/ Has(route, {"team", "migration", "purge", "extensions/import", "cookies", "2fa"})
            \/ route.method = "DELETE" THEN "owner"
    ELSE IF route.method = "GET" THEN "viewer"
    ELSE IF Has(route, Runs) THEN "operator"
    ELSE "manager"

\* A configured credential, or a key of the team that is not revoked and whose member
\* is not suspended.
authenticate(token) ==
    CASE token = "owner" -> [role |-> "owner", grants |-> {"*"}]
      [] token = "key" /\ key = "valid" /\ member.state = "active" ->
             [role |-> member.role, grants |-> member.grants]
      [] OTHER -> [role |-> "none"]

canAccessResource(identity, id) ==
    identity.role = "owner" \/ "*" \in identity.grants \/ id \in identity.grants

-----------------------------------------------------------------------------
Free == [at |-> "free"]
Lost == [at |-> "lost"]
Nothing == [kind |-> "none"]

GateInit ==
    /\ serving = "open" /\ bootstrapUsed = FALSE /\ cookies = 0
    /\ member = [role |-> "operator", state |-> "active", grants |-> {"mine"}] /\ key = "valid"
    /\ requests = [p \in Places |-> Free] /\ sockets = {} /\ asked = 0 /\ shut = FALSE
    /\ deed = Nothing

\* The link the studio opens its own window with: it works once.
Bootstrap(supplied) ==
    /\ serving = "open" /\ asked < MaxAsked
    /\ asked' = asked + 1
    /\ LET granted == ~bootstrapUsed /\ supplied
       IN  /\ bootstrapUsed' = (bootstrapUsed \/ granted)
           /\ cookies' = IF granted THEN cookies + 1 ELSE cookies
    /\ deed' = Nothing
    /\ UNCHANGED <<serving, member, key, requests, sockets, shut>>

FreePlaces == {p \in Places : requests[p] = Free}
UnderWay == {p \in Places : requests[p].at \in {"reading", "working"}}

\* What is thrown outside the try of a handler is caught nowhere: the process ends, and
\* the requests it has not answered never are.
Dies(unanswered) ==
    /\ serving' = "dead" /\ sockets' = {}
    /\ requests' = [q \in Places |-> IF q \in unanswered THEN Lost ELSE Free]
    /\ UNCHANGED <<bootstrapUsed, cookies, member, key, shut>>

Permitted(identity, role) == identity.role # "none" /\ roleAllows(identity.role, role)

\* A cookie is decoded to find out who asks, the id in a path for those who may call the
\* route.  An escape that cannot be decoded throws.
Undecodable(token, route, id) ==
    \/ token = "malformed"
    \/ /\ Permitted(authenticate(token), requiredRole(route))
       /\ route.kind # "none" /\ id = "malformed"

Admitted(identity, route, id) ==
    /\ Permitted(identity, requiredRole(route))
    /\ route.kind # "none" => canAccessResource(identity, id)

\* A request that is let in goes on with the identity it came with; the others are
\* answered at once, but for those that cannot be decoded.
Ask(token, route, id) ==
    /\ serving = "open" /\ asked < MaxAsked /\ FreePlaces # {}
    /\ asked' = asked + 1 /\ deed' = Nothing
    /\ LET identity == authenticate(token)
           p == CHOOSE free \in FreePlaces : TRUE
       IN  IF Undecodable(token, route, id) THEN Dies(UnderWay \union {p})
           ELSE /\ \/ /\ Admitted(identity, route, id)
                      /\ requests' = [requests EXCEPT ![p] =
                             [at |-> "reading", shape |-> route.shape, role |-> identity.role,
                              barred |-> token = "key" /\ shut, change |-> "none", left |-> Rows]]
                   \/ ~Admitted(identity, route, id) /\ UNCHANGED requests
                /\ UNCHANGED <<serving, bootstrapUsed, cookies, member, key, sockets, shut>>

\* A request, or an upgrade, whose address with the host its header names is no url.
AskNoUrl ==
    /\ serving = "open" /\ asked < MaxAsked
    /\ asked' = asked + 1 /\ deed' = Nothing
    /\ Dies(UnderWay) \/ \E p \in FreePlaces : Dies(UnderWay \union {p})

\* The upgrade to an automation socket is authorised once.  Its id is decoded for those
\* who may have one; when it cannot be, the listener throws.
Upgrade(token, id) ==
    /\ serving = "open" /\ asked < MaxAsked
    /\ asked' = asked + 1 /\ deed' = Nothing
    /\ LET identity == authenticate(token)
       IN  IF token = "malformed" \/ (Permitted(identity, "operator") /\ id = "malformed")
           THEN Dies(UnderWay)
           ELSE /\ IF Permitted(identity, "operator") /\ canAccessResource(identity, id)
                   THEN sockets' = sockets \union
                            {[kind |-> "automation", role |-> identity.role, barred |-> token = "key" /\ shut]}
                   ELSE UNCHANGED sockets
                /\ UNCHANGED <<serving, bootstrapUsed, cookies, member, key, requests, shut>>

\* The upgrade of a bridge asks nobody who they are.  An id that cannot be decoded only
\* closes it again.
UpgradeBridge(token, id) ==
    /\ serving = "open" /\ asked < MaxAsked
    /\ asked' = asked + 1 /\ deed' = Nothing
    /\ IF id = "malformed" THEN UNCHANGED sockets
       ELSE sockets' = sockets \union
                {[kind |-> "bridge", role |-> "none", barred |-> token = "key" /\ shut]}
    /\ UNCHANGED <<serving, bootstrapUsed, cookies, member, key, requests, shut>>

-----------------------------------------------------------------------------
Reply(p) == requests' = [requests EXCEPT ![p] = Free]

Does(p, kind) == deed' = [kind |-> kind, role |-> requests[p].role, barred |-> requests[p].barred]

\* The body is complete and the handler calls what it is for.
Begins(p, shape) ==
    /\ requests[p].at = "reading" /\ requests[p].shape = shape
    /\ Does(p, "ordinary")
    /\ requests' = [requests EXCEPT ![p].at = "working"]
    /\ UNCHANGED <<serving, bootstrapUsed, cookies, member, key, sockets, asked, shut>>

Shows(p) == Begins(p, "reads")
AssignsExtensions(p) == Begins(p, "assigns")
OpensPage(p) == Begins(p, "opens")
Interacts(p) == Begins(p, "interacts")
RotatesProxy(p) == Begins(p, "rotates")
SubmitsTask(p) == Begins(p, "submits")
ActsOnTasks(p) == Begins(p, "each")
Analyses(p) == Begins(p, "analyses")
ImportsRows(p) == Begins(p, "rows")
CallsBridge(p) == Begins(p, "bridge")

\* The team's routes change the store at once, and answer when it is written.
Changes(p) ==
    /\ requests[p].at = "reading" /\ requests[p].shape \in {"member", "revoke"}
    /\ Does(p, "team")
    /\ \/ /\ requests[p].shape = "revoke" /\ key' = "revoked"
          /\ requests' = [requests EXCEPT ![p].at = "working", ![p].change = "revoked"]
          /\ UNCHANGED <<member, shut>>
       \/ /\ requests[p].shape = "member"
          /\ \E state \in {"active", "suspended"}, role \in {"viewer", "owner"} :
                /\ member' = [member EXCEPT !.state = state, !.role = role]
                /\ requests' = [requests EXCEPT ![p].at = "working", ![p].change = state]
                /\ shut' = (shut /\ (state = "suspended" \/ key = "revoked"))
          /\ UNCHANGED key
    /\ UNCHANGED <<serving, bootstrapUsed, cookies, sockets, asked>>

\* What the owner has been told holds until something else is decided.
Outside == key = "revoked" \/ member.state = "suspended"
Told(p) == requests[p].change \in {"revoked", "suspended"} /\ Outside

\* Row after row, or all ids at once: nothing is left when the answer goes out.
Settles(p) == requests[p].shape \in {"rows", "each"} => requests[p].left = 0

Answers(p) ==
    /\ requests[p].at = "working" /\ Settles(p)
    /\ Reply(p)
    /\ shut' = (shut \/ Told(p))
    /\ UNCHANGED <<serving, bootstrapUsed, cookies, member, key, sockets, asked, deed>>

\* A row's profile is created, or an id has its own verdict, good or bad.
RowDone(p) ==
    /\ requests[p].at = "working" /\ requests[p].shape \in {"rows", "each"} /\ requests[p].left > 0
    /\ requests' = [requests EXCEPT ![p].left = @ - 1]
    /\ UNCHANGED <<serving, bootstrapUsed, cookies, member, key, sockets, asked, shut, deed>>

\* The handler itself refuses an input, an unknown id or a missing service.
Refuses(p) ==
    /\ requests[p].at = "reading"
    /\ requests[p].shape \notin {"member", "revoke", "broadcast"}
    /\ Reply(p)
    /\ UNCHANGED <<serving, bootstrapUsed, cookies, member, key, sockets, asked, shut, deed>>

\* A body that cannot be read, or a call that throws, inside the try: an id of a cluster
\* action never gets here, and rows that were made before the bad one stay.
Throws(p) ==
    /\ requests[p].at \in {"reading", "working"}
    /\ requests[p].at = "working" => requests[p].shape # "each"
    /\ Reply(p)
    /\ UNCHANGED <<serving, bootstrapUsed, cookies, member, key, sockets, asked, shut, deed>>

\* A broadcast that names its targets is carried out.  One that does not is answered
\* with 400 and carried out all the same: its second answer throws, the catch's too,
\* and a rejection nobody handles ends the process.
Broadcasts(p) ==
    /\ requests[p].at = "reading" /\ requests[p].shape = "broadcast"
    /\ Does(p, "ordinary")
    /\ \E to \in {"working", "answered"} : requests' = [requests EXCEPT ![p].at = to]
    /\ UNCHANGED <<serving, bootstrapUsed, cookies, member, key, sockets, asked, shut>>

AnswersTwice(p) ==
    /\ requests[p].at = "answered"
    /\ Dies(UnderWay)
    /\ UNCHANGED <<asked, deed>>

-----------------------------------------------------------------------------
\* stop: no more requests, sockets are closed, and the requests under way are waited
\* for.
Stop ==
    /\ serving = "open"
    /\ serving' = "closing" /\ sockets' = {}
    /\ UNCHANGED <<bootstrapUsed, cookies, member, key, requests, asked, shut, deed>>

Stopped ==
    /\ serving = "closing" /\ FreePlaces = Places
    /\ serving' = "closed"
    /\ UNCHANGED <<bootstrapUsed, cookies, member, key, requests, sockets, asked, shut, deed>>

GateProgress ==
    \/ Stopped
    \/ \E p \in Places :
          \/ Shows(p) \/ AssignsExtensions(p) \/ OpensPage(p) \/ Interacts(p) \/ RotatesProxy(p)
          \/ SubmitsTask(p) \/ ActsOnTasks(p) \/ Analyses(p) \/ ImportsRows(p) \/ CallsBridge(p)
          \/ Changes(p) \/ Answers(p) \/ RowDone(p) \/ Broadcasts(p) \/ AnswersTwice(p)
          \/ Refuses(p) \/ Throws(p)

GateNext ==
    \/ GateProgress \/ Stop \/ AskNoUrl
    \/ \E supplied \in BOOLEAN : Bootstrap(supplied)
    \/ \E token \in {"owner", "key", "none", "malformed"}, id \in {"mine", "other", "malformed"} :
          \/ Upgrade(token, id) \/ UpgradeBridge(token, id)
          \/ \E route \in Routes : Ask(token, route, id)

-----------------------------------------------------------------------------
\* Once the owner has been told that a key is revoked or its member suspended,
\* nothing is done and no automation socket opened for a request that comes with it,
\* whatever is under way (a bridge's socket is anybody's); members and keys are changed
\* by owners; and the start link works once.
GateHolds ==
    /\ deed.kind # "none" => ~deed.barred
    /\ \A s \in sockets : s.barred => s.kind = "bridge"
    /\ deed.kind = "team" => deed.role = "owner"
    /\ cookies <= 1

GateBusy == FreePlaces # Places
Died == serving = "dead"
=============================================================================
