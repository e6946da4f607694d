------------------------------ MODULE ToolGateway ------------------------------
(* handleToolCall of src/mcp/server.ts with the runtime guard, the tenant          *)
(* authenticator and the audit log it calls: the way of a tool call from its        *)
(* arrival, over stdio, POST /api/agent/call or the agents' WebSocket, to the        *)
(* session and back.  Calls are not chained: every await lets the others, the human *)
(* and the site in.                                                                 *)
EXTENDS Naturals, Sequences, FiniteSets

CONSTANTS
    Requests,   \* what agents ask for: [tool, key, sound]
    Slots,      \* calls under way at a time
    MaxCalls,
    Burst,      \* capacity of the bucket, in calls
    Cost,       \* units of the bucket a call takes
    Rate,       \* units the bucket regains per tick
    MaxClock, MaxElapsed, MaxTurns, MaxAuditFaults

VARIABLES
    auth,       \* a TenantAuthenticator is configured
    calls,      \* the calls under way: what was asked and where the call stands
    session,    \* BrowserSession.state
    workspace,  \* the workspace's controlState, which follows the session
    tokens, lastRefill, clock,
    metrics,    \* calls that succeeded and failed
    pending,    \* AuditLogger.pending: the records not yet written
    received, strange, faults, turns,
    admitted,   \* history: calls that took a token
    elapsed,    \* history: the ticks the clock went forward
    effect      \* history: the last thing done for a call, and on what footing, until the next one comes

toolVars == <<auth, calls, session, workspace, tokens, lastRefill, clock, metrics, pending, received,
              strange, faults, turns, admitted, elapsed, effect>>

-----------------------------------------------------------------------------
\* The tools, by the role their call needs.  tenantRoleForTool and
\* tenantRoleForMethod disagree on handing over and resuming; the answer of the
\* first one is reused by the second.
WriteTools == {"page_open", "page_click", "page_type", "page_select", "page_scroll", "page_workflow",
               "page_workflow_execute", "page_switch_tab", "page_close_tab"}
ReadTools == {"browser_status", "browser_environment_diagnostics", "browser_reopen_headed",
              "browser_resume", "browser_handoff", "browser_takeover", "page_snapshot",
              "page_extract", "page_screenshot", "page_wait", "workspace_list", "workspace_get",
              "workspace_handoff", "workspace_resume", "page_list_tabs"}
TenantTools == WriteTools \union ReadTools \union {"browser_start", "browser_stop"}
ClusterTools == {"cluster_submit_task", "cluster_batch_submit", "cluster_status", "cluster_get_task",
                 "cluster_list_tasks"}
LocalTools == {"page_fetch", "browser_capabilities", "profile_create", "profile_list", "profile_get",
               "profile_delete", "profile_export_cookies", "profile_import_cookies", "proxy_check"}
Tools == TenantTools \union ClusterTools \union LocalTools

tenantRoleForTool(tool) ==
    IF tool \in WriteTools \union {"browser_start", "browser_stop"} THEN "submit" ELSE "read"
clusterRole(tool) ==
    IF tool \in {"cluster_submit_task", "cluster_batch_submit"} THEN "submit" ELSE "read"

\* What a key may do; "none" is a missing or an unknown tenant or token.
Roles(key) == CASE key = "full" -> {"read", "submit"}
                [] key = "reader" -> {"read"}
                [] OTHER -> {}

\* The tools that name their element, and so wait for a snapshot first.
TargetTools == {"page_click", "page_type", "page_select", "page_scroll"}

-----------------------------------------------------------------------------
Idle == [at |-> "idle"]
Nothing == [tool |-> "none"]

ToolInit ==
    /\ auth \in BOOLEAN
    /\ calls = [n \in Slots |-> Idle] /\ session = "READY" /\ workspace = "AGENT_CONTROLLED"
    /\ tokens = Burst * Cost /\ lastRefill = 0 /\ clock = 0
    /\ metrics = [ok |-> 0, failed |-> 0]
    /\ pending = <<>> /\ received = 0 /\ strange = 0 /\ faults = 0 /\ turns = 0
    /\ admitted = 0 /\ elapsed = 0
    /\ effect = Nothing

\* The answer: the outcome is counted, and a record of it is queued whose fate nobody
\* waits for.
Settle(n, outcome) ==
    /\ calls' = [calls EXCEPT ![n] = Idle]
    /\ metrics' = [metrics EXCEPT ![outcome] = @ + 1]

Completion == [phase |-> "complete"]
Attempt(n) == [phase |-> "attempt", call |-> n]

\* A call arrives.  A tool there is not is answered at once and leaves no trace; an
\* input the tool's schema refuses fails before the attempt is recorded.
FreeSlot == {n \in Slots : calls[n] = Idle}

\* The tool's schema accepts the input.
Parses(r) == r.sound

UnknownTool(r) ==
    /\ r.tool \notin Tools /\ received < MaxCalls /\ strange = 0
    /\ strange' = 1
    /\ UNCHANGED <<auth, calls, session, workspace, tokens, lastRefill, clock, metrics, pending,
                   received, faults, turns, admitted, elapsed, effect>>

Call(r) ==
    /\ r.tool \in Tools /\ received < MaxCalls /\ FreeSlot # {}
    /\ received' = received + 1
    /\ LET n == CHOOSE free \in FreeSlot : TRUE
       IN  \/ /\ ~Parses(r)
              /\ Settle(n, "failed")
              /\ pending' = Append(pending, Completion)
           \/ /\ Parses(r)
              /\ calls' = [calls EXCEPT ![n] = [at |-> "auditing", tool |-> r.tool, key |-> r.key,
                                                recorded |-> FALSE]]
              /\ pending' = Append(pending, Attempt(n))
              /\ UNCHANGED metrics
    /\ effect' = Nothing
    /\ UNCHANGED <<auth, session, workspace, tokens, lastRefill, clock, strange, faults, turns,
                   admitted, elapsed>>

-----------------------------------------------------------------------------
\* The audit log writes one record at a time.  When the attempt is on disk the call
\* goes on, up to its next await, without anything in between: tenant, guard, bucket.
Record == Head(pending)

Denied(n) ==
    /\ auth /\ calls[n].tool \in TenantTools
    /\ tenantRoleForTool(calls[n].tool) \notin Roles(calls[n].key)

HardStop(n) ==
    calls[n].tool \in WriteTools /\ (session = "PAUSED_CHALLENGE" \/ workspace = "USER_CONTROLLED")

\* assertWriteAllowed of the session manager, right before the session's queue.
WriteAllowed(n) ==
    calls[n].tool \in WriteTools =>
        /\ workspace # "USER_CONTROLLED"
        /\ session \notin {"USER_CONTROLLED", "PAUSED_CHALLENGE"}

Refilled ==
    LET gained == Rate * (IF clock > lastRefill THEN clock - lastRefill ELSE 0)
    IN  IF tokens + gained > Burst * Cost THEN Burst * Cost ELSE tokens + gained

RateLimited == Refilled < Cost

ClusterDenied(n) ==
    /\ auth /\ calls[n].tool \in ClusterTools
    /\ clusterRole(calls[n].tool) \notin Roles(calls[n].key)

\* The call ends here, with an error that is counted and recorded.
Fails(n) ==
    /\ Settle(n, "failed")
    /\ pending' = Append(Tail(pending), Completion)

Mutant_Refill_LastRefillKept ==
    /\ tokens' = IF RateLimited THEN Refilled ELSE Refilled - Cost
    /\ UNCHANGED lastRefill
    /\ admitted' = IF RateLimited THEN admitted ELSE admitted + 1

\* beforeCall's bucket: regain what the time since the last call is worth, then take
\* a token if there is one.
Refill ==
    /\ tokens' = IF RateLimited THEN Refilled ELSE Refilled - Cost
    /\ lastRefill' = clock
    /\ admitted' = IF RateLimited THEN admitted ELSE admitted + 1

NoRefill == UNCHANGED <<tokens, lastRefill, admitted>>

AttemptRecorded(n) ==
    /\ pending # <<>> /\ Record = Attempt(n)
    /\ \/ /\ Denied(n) \/ HardStop(n)
          /\ NoRefill /\ Fails(n)
       \/ /\ ~Denied(n) /\ ~HardStop(n)
          /\ Refill
          /\ \/ RateLimited /\ Fails(n)
             \/ ~RateLimited /\ ClusterDenied(n) /\ Fails(n)
             \/ /\ ~RateLimited /\ ~ClusterDenied(n) /\ calls[n].tool \in TargetTools
                /\ calls' = [calls EXCEPT ![n].at = "resolving", ![n].recorded = TRUE]
                /\ pending' = Tail(pending) /\ UNCHANGED metrics
             \/ /\ ~RateLimited /\ ~ClusterDenied(n) /\ calls[n].tool \notin TargetTools
                /\ WriteAllowed(n)
                /\ calls' = [calls EXCEPT ![n].at = "queued", ![n].recorded = TRUE]
                /\ pending' = Tail(pending) /\ UNCHANGED metrics
             \/ /\ ~RateLimited /\ ~ClusterDenied(n) /\ calls[n].tool \notin TargetTools
                /\ ~WriteAllowed(n)
                /\ Fails(n)
    /\ UNCHANGED <<auth, session, workspace, clock, received, strange, faults, turns, elapsed,
                   effect>>

\* The record cannot be written: an attempt fails its call, before anything is done;
\* what happened already stays as it is.
RecordLost ==
    /\ pending # <<>> /\ faults < MaxAuditFaults
    /\ faults' = faults + 1
    /\ \/ /\ Record.phase = "attempt"
          /\ Fails(Record.call)
       \/ /\ Record.phase = "complete"
          /\ pending' = Tail(pending)
          /\ UNCHANGED <<calls, metrics>>
    /\ UNCHANGED <<auth, session, workspace, tokens, lastRefill, clock, received, strange, turns, admitted, elapsed,
                   effect>>

CompletionRecorded ==
    /\ pending # <<>> /\ Record.phase = "complete"
    /\ pending' = Tail(pending)
    /\ UNCHANGED <<auth, calls, session, workspace, tokens, lastRefill, clock, metrics, received,
                   strange, faults, turns, admitted, elapsed, effect>>

-----------------------------------------------------------------------------
\* The named element is looked for in a fresh snapshot: exactly one match, or the
\* nearest one when none matches; anything else is an error.
TargetResolved(n) ==
    /\ calls[n].at = "resolving" /\ WriteAllowed(n)
    /\ calls' = [calls EXCEPT ![n].at = "queued"]
    /\ UNCHANGED <<auth, session, workspace, tokens, lastRefill, clock, metrics, pending, received, strange, faults,
                   turns, admitted, elapsed, effect>>

\* No target, several, a session that is gone, or one that refuses to write by now.
Errs(n) ==
    /\ calls[n].at \in {"resolving", "queued"}
    /\ Settle(n, "failed")
    /\ pending' = Append(pending, Completion)
    /\ UNCHANGED <<auth, session, workspace, tokens, lastRefill, clock, received, strange, faults, turns, admitted,
                   elapsed, effect>>

Mutant_SessionAllows_OnlyAtEntry(n) == TRUE

\* The session's queue checks again when the call's turn comes.
SessionAllows(n) == calls[n].tool \in WriteTools => session = "READY"

Done(n) ==
    /\ effect' = [tool |-> calls[n].tool, key |-> calls[n].key, session |-> session,
                  recorded |-> calls[n].recorded]
    /\ Settle(n, "ok")
    /\ pending' = Append(pending, Completion)
    /\ UNCHANGED <<auth, workspace, tokens, lastRefill, clock, received, strange, faults, turns, admitted, elapsed>>

\* The page is opened, clicked, typed into, scrolled, or a workflow runs on it.
Writes(n) ==
    /\ calls[n].at = "queued" /\ calls[n].tool \in WriteTools /\ SessionAllows(n)
    /\ Done(n)
    /\ UNCHANGED session

\* The tools that move the session between the agent and the human, or end it.
ControlTools == {"browser_start", "browser_stop", "browser_reopen_headed", "browser_resume",
                 "browser_handoff", "browser_takeover", "workspace_handoff", "workspace_resume"}

Controls(n) ==
    /\ calls[n].at = "queued" /\ calls[n].tool \in ControlTools
    /\ session' =
         CASE calls[n].tool \in {"browser_handoff", "workspace_handoff"} /\ session # "STOPPED" -> "USER_CONTROLLED"
           [] calls[n].tool \in {"browser_takeover", "workspace_resume"} /\ session = "USER_CONTROLLED" -> "READY"
           [] calls[n].tool = "browser_resume" /\ session = "PAUSED_CHALLENGE" -> "READY"
           [] calls[n].tool = "browser_stop" -> "STOPPED"
           [] OTHER -> session
    /\ Done(n)

\* Snapshots, extractions, screenshots, profiles, fetches, the cluster's tasks.
Serves(n) ==
    /\ calls[n].at = "queued" /\ calls[n].tool \notin WriteTools \union ControlTools
    /\ Done(n)
    /\ UNCHANGED session

-----------------------------------------------------------------------------
\* The human takes the session or gives it back, and a challenge appears or is
\* solved, at any time.
SessionTurns(to) ==
    /\ turns < MaxTurns /\ session \notin {to, "STOPPED"}
    /\ session' = to
    /\ turns' = turns + 1
    /\ UNCHANGED <<auth, calls, workspace, tokens, lastRefill, clock, metrics, pending, received, strange, faults,
                   admitted, elapsed, effect>>

WorkspaceFollows ==
    /\ workspace # (IF session = "USER_CONTROLLED" THEN "USER_CONTROLLED" ELSE "AGENT_CONTROLLED")
    /\ workspace' = IF session = "USER_CONTROLLED" THEN "USER_CONTROLLED" ELSE "AGENT_CONTROLLED"
    /\ UNCHANGED <<auth, calls, session, tokens, lastRefill, clock, metrics, pending, received, strange, faults, turns,
                   admitted, elapsed, effect>>

\* Date.now may also be set back.
ClockMoves(to) ==
    /\ to # clock /\ received < MaxCalls
    /\ LET forward == IF to > clock THEN to - clock ELSE 0
       IN  elapsed + forward <= MaxElapsed /\ elapsed' = elapsed + forward
    /\ clock' = to
    /\ UNCHANGED <<auth, calls, session, workspace, tokens, lastRefill, metrics, pending, received, strange, faults,
                   turns, admitted, effect>>

ToolProgress ==
    \/ RecordLost \/ CompletionRecorded \/ WorkspaceFollows
    \/ \E n \in Slots : AttemptRecorded(n) \/ TargetResolved(n) \/ Errs(n) \/ Writes(n) \/ Controls(n) \/ Serves(n)

ToolNext ==
    \/ ToolProgress
    \/ \E r \in Requests : Call(r) \/ UnknownTool(r)
    \/ \E to \in {"READY", "PAUSED_CHALLENGE", "USER_CONTROLLED"} : SessionTurns(to)
    \/ \E to \in 0 .. MaxClock : ClockMoves(to)

-----------------------------------------------------------------------------
\* The tools that change a page, a session or the cluster's queue.
SubmitTools == WriteTools \union {"browser_start", "browser_stop", "cluster_submit_task",
                                  "cluster_batch_submit"}

\* Nothing is done for a call whose attempt is not on disk; a write reaches a page
\* only while the agent holds the session, although the human and the site may turn
\* it at every await; and with tenants configured a write, a start, a stop or a
\* cluster submission was made with a key that may submit.
CallsGuarded ==
    effect.tool # "none" =>
        /\ effect.recorded
        /\ effect.tool \in WriteTools => effect.session = "READY"
        /\ auth /\ effect.tool \in SubmitTools => "submit" \in Roles(effect.key)

\* The bucket never lets more calls through than its burst and the time that passed,
\* however the clock is set and however many calls wait at the same time; every call
\* of a tool there is is counted exactly once, whichever way it ends.
RateBounded ==
    /\ admitted * Cost <= Burst * Cost + Rate * elapsed
    /\ metrics.ok + metrics.failed + Cardinality({n \in Slots : calls[n] # Idle}) = received
    /\ metrics.ok <= admitted

ToolBusy == pending # <<>> \/ \E n \in Slots : calls[n] # Idle
=============================================================================
