------------------------------- MODULE PageState -------------------------------
(***************************************************************************)
(* The pages of a session: tabs, popups, observations and references in    *)
(* src/browser/browser-session.ts, with the TargetRegistry and the         *)
(* SnapshotHistory of every tab.                                           *)
(*                                                                         *)
(* Operations run one at a time (the serial queue), but the browser does   *)
(* not wait for them: pages navigate, change and open popups between any   *)
(* two awaits, and every new page is announced by events whose admissions  *)
(* form a queue of their own.                                              *)
(***************************************************************************)
EXTENDS TargetRegistry, SnapshotHistory

CONSTANTS
    MaxTabs,      \* maxTabs
    Scenarios     \* bounds on the environment and what pages show, chosen in Init

\* Every automation policy allows at least five tabs.
ASSUME PageAssumption == MaxTabs \in Nat /\ MaxTabs >= 3

\* What a page shows is a sequence of nodes; a scenario says what pages may show
\* and how often the environment and the callers act.
Node == [test : STRING \cup {None}, role : STRING, name : STRING, text : Nat]
Limits == {"navs", "changes", "popups", "crashes", "ticks", "switches", "closes", "snaps",
           "resolves", "expiries", "relaunches", "stops"}
ASSUME ScenarioAssumption ==
    /\ None \notin Nat
    /\ \A s \in Scenarios :
          /\ DOMAIN s = Limits \cup {"show"} /\ s.show \subseteq Seq(Node)
          /\ \A what \in Limits : s[what] \in Nat

VARIABLES
    tabs,        \* tabs, in insertion order
    active,      \* activeTabId
    gen,         \* pageGeneration
    tabSeq,      \* tabSequence
    open,        \* pages the browser has open
    content,     \* what each page shows
    pages,       \* number of pages opened so far
    admissions,  \* pages waiting in popupAdmissionTail, one entry per event
    admitting,   \* the first of them: "idle", "checking", or "late" when its
                 \* limit was checked during a relaunch
    job,         \* the operation the serial queue is running
    status,      \* _state: READY, ERROR, STOPPING or STOPPED
    clock,       \* the clock
    lim,         \* what the environment may still do
    late,        \* history: tabs admitted around a relaunch
    resolved,    \* history: the last reference the registry accepted
    reported     \* history: the last difference returned

tabVars == <<tabs, active, gen, tabSeq>>
openVars == <<open, content, pages>>
pageVars == <<tabVars, openVars, admissions, admitting, job, status, clock, lim,
          late, resolved, reported>>
history == <<late, resolved, reported>>

Idle == [kind |-> "none"]
Index(id) == {i \in 1..Len(tabs) : tabs[i].id = id}
ActiveTab == {tabs[i] : i \in Index(active)}
IndexOfPage(ts, p) == {i \in 1..Len(ts) : ts[i].page = p}
Revision(id) == LET i == Smallest(Index(id)) IN tabs[i].rev

NewTab(id, p, main) ==
    [id |-> id, page |-> p, main |-> main, rev |-> 0, obs |-> 0,
     reg |-> NewRegistry, hist |-> NewHistory]

\* registerTab followed by installPageObservers.
RegisterTab(ts, id, p, main) ==
    LET known == IndexOfPage(ts, p)
    IN  IF known # {}
        THEN [i \in 1..Len(ts) |-> IF i \in known
                                   THEN [ts[i] EXCEPT !.main = @ \/ main, !.obs = @ + 1] ELSE ts[i]]
        ELSE Append(ts, [NewTab(id, p, main) EXCEPT !.obs = 1])

\* The map of tabs without one of them.
Remove(ts, id) ==
    LET at == {i \in 1..Len(ts) : ts[i].id = id}
    IN  IF at = {} THEN ts
        ELSE [k \in 1..(Len(ts) - 1) |-> IF k < Smallest(at) THEN ts[k] ELSE ts[k + 1]]

PageInit ==
    /\ tabs = <<[NewTab(1, 1, TRUE) EXCEPT !.obs = 1]>> /\ active = 1 /\ gen = 0 /\ tabSeq = 1
    /\ lim \in Scenarios
    /\ open = {1} /\ content \in [{1} -> lim.show] /\ pages = 1
    /\ admissions = <<>> /\ admitting = "idle" /\ job = Idle
    /\ status = "READY" /\ clock = 0
    /\ late = 0 /\ resolved = None /\ reported = None

Spend(what) == lim[what] > 0 /\ lim' = [lim EXCEPT ![what] = @ - 1]

-----------------------------------------------------------------------------
(* The browser *)

\* notePageGeneration, n times: once for every set of observers on the page.
NotePageGeneration(id, n) ==
    /\ tabs' = [i \in 1..Len(tabs) |->
                   IF tabs[i].id # id THEN tabs[i]
                   ELSE [tabs[i] EXCEPT !.rev = @ + n, !.reg = SetGeneration(@, tabs[i].rev + n)]]
    /\ gen' = IF id = active THEN Revision(id) + n ELSE gen
    /\ UNCHANGED <<active, tabSeq>>

\* A page navigates: it shows something else and framenavigated fires.
Navigates(i) ==
    /\ i \in 1..Len(tabs) /\ tabs[i].page \in open
    /\ Spend("navs")
    /\ \E c \in lim.show : content' = [content EXCEPT ![tabs[i].page] = c]
    /\ NotePageGeneration(tabs[i].id, tabs[i].obs)
    /\ UNCHANGED <<open, pages, admissions, admitting, job, status, clock, history>>

\* A page changes without navigating: nothing is told.
ContentChanges(p) ==
    /\ p \in open /\ Spend("changes")
    /\ \E c \in lim.show : content' = [content EXCEPT ![p] = c]
    /\ UNCHANGED <<tabVars, open, pages, admissions, admitting, job, status, clock, history>>

Shows(old, p, c) == [q \in DOMAIN old \cup {p} |-> IF q = p THEN c ELSE old[q]]

\* A new page shows something; the context announces it and so does every
\* observer of its opener.
Opened(events) ==
    /\ pages' = pages + 1
    /\ open' = open \cup {pages + 1}
    /\ \E c \in lim.show : content' = Shows(content, pages + 1, c)
    /\ admissions' = admissions \o [k \in 1..events |-> pages + 1]

Popup(i) ==
    /\ i \in 1..Len(tabs) /\ tabs[i].page \in open
    /\ Spend("popups")
    /\ Opened(1 + tabs[i].obs)
    /\ UNCHANGED <<tabVars, admitting, job, status, clock, history>>

\* The active page crashes.
Crash ==
    /\ Spend("crashes") /\ status = "READY"
    /\ status' = "ERROR"
    /\ UNCHANGED <<tabVars, openVars, admissions, admitting, job, clock, history>>

ClockTicks ==
    /\ Spend("ticks")
    /\ clock' = clock + 1
    /\ UNCHANGED <<tabVars, openVars, admissions, admitting, job, status, history>>

-----------------------------------------------------------------------------
(* admitPopup *)

ClosePage(p) == open' = open \ {p} /\ UNCHANGED <<content, pages>>

\* Mutant: the limit is not looked at again for a page that waited.
Mutant_AdmitVerdict_noLimit(p) == IF status # "READY" THEN "closed" ELSE "check"

AdmitVerdict(p) ==
    IF status # "READY" THEN "closed"
    ELSE IF Len(tabs) >= MaxTabs THEN "limit" ELSE "check"

\* The page is closed at once, or its address is looked up.
AdmissionBegins ==
    /\ admissions # <<>> /\ admitting = "idle"
    /\ IF AdmitVerdict(Head(admissions)) = "check"
       THEN /\ admitting' = IF job.kind = "relaunch" THEN "late" ELSE "checking"
            /\ UNCHANGED <<admissions, openVars>>
       ELSE /\ ClosePage(Head(admissions))
            /\ admissions' = Tail(admissions)
            /\ UNCHANGED admitting
    /\ UNCHANGED <<tabVars, job, status, clock, lim, history>>

AdmissionDenied(p) == ClosePage(p)

\* Mutant: the tail goes on only after an admission that succeeded.
Mutant_AdmissionSettled_stalls(ok) ==
    IF ok THEN admissions' = Tail(admissions) /\ admitting' = "idle"
    ELSE admitting' = "rejected" /\ UNCHANGED admissions

\* The tail goes on after a failed admission as after any other.
AdmissionSettled(ok) == admissions' = Tail(admissions) /\ admitting' = "idle"

\* The policy has answered.  Neither the limit nor the state is looked at again,
\* and the audit record that follows may fail.
AdmissionEnds(allowed, audited) ==
    /\ admitting \in {"checking", "late"}
    /\ LET p == Head(admissions)
           fresh == IndexOfPage(tabs, p) = {}
       IN  IF allowed
           THEN /\ tabs' = RegisterTab(tabs, tabSeq + 1, p, FALSE)
                /\ tabSeq' = IF fresh THEN tabSeq + 1 ELSE tabSeq
                /\ late' = IF fresh /\ (admitting = "late" \/ job.kind = "relaunch") THEN late + 1 ELSE late
                /\ UNCHANGED <<active, gen, openVars>>
           ELSE AdmissionDenied(p) /\ UNCHANGED <<tabVars, late>>
    /\ AdmissionSettled(~allowed \/ audited)
    /\ UNCHANGED <<job, status, clock, lim, resolved, reported>>

-----------------------------------------------------------------------------
(* Operations of the serial queue *)

Begins(o) == job = Idle /\ status = "READY" /\ job' = o
Activate(ts, id) ==
    /\ active' = id
    /\ gen' = LET i == Smallest({j \in 1..Len(ts) : ts[j].id = id}) IN ts[i].rev
Quiet == UNCHANGED <<openVars, admissions, admitting, status, clock, history>>

SwitchTab(i) ==
    /\ i \in 1..Len(tabs) /\ tabs[i].id # active
    /\ Spend("switches") /\ Begins(Idle)
    /\ Activate(tabs, tabs[i].id)
    /\ UNCHANGED <<tabs, tabSeq>> /\ Quiet

\* closeTab: the only tab needs a replacement first.
CloseTabBegins(i) ==
    /\ i \in 1..Len(tabs) /\ Spend("closes")
    /\ Begins([kind |-> "close", id |-> tabs[i].id, new |-> None, page |-> pages + 1,
               pc |-> IF Len(tabs) = 1 THEN "replace" ELSE "close"])
    /\ IF Len(tabs) = 1 THEN Opened(1) ELSE UNCHANGED <<openVars, admissions>>
    /\ UNCHANGED <<tabVars, admitting, status, clock, history>>

\* newPage has returned: an admission may have registered it already, as a tab
\* that is not the main one.
CloseTabReplaces ==
    /\ job.kind = "close" /\ job.pc = "replace"
    /\ LET known == IndexOfPage(tabs, job.page)
           made == RegisterTab(tabs, tabSeq + 1, job.page, TRUE)
       IN  /\ tabs' = IF known # {} THEN tabs ELSE made
           /\ tabSeq' = IF known # {} THEN tabSeq ELSE tabSeq + 1
           /\ job' = [job EXCEPT !.pc = "close",
                               !.new = IF known # {} THEN tabs[Smallest(known)].id ELSE tabSeq + 1]
    /\ UNCHANGED <<active, gen, lim>> /\ Quiet

\* The replacement page of a close that failed.
Unneeded(new) == {tabs[i].page : i \in Index(new)}

\* The page has closed, or refuses to.
CloseTabEnds(ok) ==
    /\ job.kind = "close" /\ job.pc = "close"
    /\ LET tab == tabs[Smallest(Index(job.id))]
           rest == Remove(tabs, job.id)
           heir == IF job.new # None THEN job.new ELSE rest[1].id
           given == [i \in 1..Len(rest) |->
                        IF rest[i].id = heir /\ job.new = None
                        THEN [rest[i] EXCEPT !.main = @ \/ tab.main] ELSE rest[i]]
       IN  IF ~ok
           THEN /\ tabs' = IF job.new = None THEN tabs ELSE Remove(tabs, job.new)
                /\ open' = open \ Unneeded(job.new)
                /\ UNCHANGED <<active, gen>>
           ELSE /\ open' = open \ {tab.page}
                /\ IF job.new # None \/ active = job.id
                   THEN tabs' = given /\ Activate(given, heir)
                   ELSE tabs' = rest /\ UNCHANGED <<active, gen>>
    /\ job' = Idle
    /\ UNCHANGED <<tabSeq, content, pages, admissions, admitting, status, clock, lim, history>>

\* snapshot: the generation is read first,
SnapshotBegins(since) ==
    /\ ActiveTab # {} /\ Spend("snaps")
    /\ Begins([kind |-> "snapshot", id |-> active, gen |-> gen, since |-> since, nodes |-> None, seen |-> 0])
    /\ UNCHANGED tabVars /\ Quiet

\* then the nodes, one round trip after the other,
SnapshotReads ==
    /\ job.kind = "snapshot" /\ job.nodes = None
    /\ LET tab == tabs[Smallest(Index(job.id))]
       IN  job' = [job EXCEPT !.nodes = content[tab.page], !.seen = tab.rev]
    /\ UNCHANGED <<tabVars, lim>> /\ Quiet

\* What recordWithDiff does to the history and reports: the base is looked up
\* before the entry is retained and again for the difference.
Recorded(h0, nodes, revision, since) ==
    LET h == Prune(h0, clock)
        base == IF since = None THEN "ok" ELSE RequireVerdict(h, since)
        entry == Prepared(h, nodes, revision, clock)
        kept == Retain(h, entry)
        code == IF base # "ok" THEN base ELSE RetainVerdict(entry)
        again == IF since = None THEN "ok" ELSE RequireVerdict(kept, since)
    IN  [hist |-> IF base # "ok" THEN h ELSE IF code # "ok" THEN [h EXCEPT !.seq = @ + 1] ELSE kept,
         code |-> IF code # "ok" THEN code ELSE again,
         diff |-> IF code = "ok" /\ since # None /\ again = "ok"
                  THEN LET b == kept.entries[Smallest(Position(kept, since))]
                       IN  [cur |-> entry.nodes, base |-> b.nodes,
                            diff |-> MakeDiff(entry.nodes, b.nodes, None)]
                  ELSE None]

\* and then they are registered and recorded.
SnapshotEnds ==
    /\ job.kind = "snapshot" /\ job.nodes # None
    /\ LET i == Smallest(Index(job.id))
           stored == [k \in 1..Len(job.nodes) |->
                         [ref |-> tabs[i].reg.seq + k, test |-> job.nodes[k].test, role |-> job.nodes[k].role,
                          name |-> job.nodes[k].name, text |-> job.nodes[k].text]]
           done == Recorded(tabs[i].hist, stored, job.gen, job.since)
       IN  /\ tabs' = [tabs EXCEPT ![i].reg = Register(@, job.nodes, job.gen, job.seen),
                                   ![i].hist = done.hist]
           /\ reported' = done.diff
    /\ job' = Idle
    /\ UNCHANGED <<active, gen, tabSeq, openVars, admissions, admitting, status, clock, lim, late, resolved>>

\* resolveRef: the checks before the first await.
ResolveBegins(ref) ==
    /\ Spend("resolves")
    /\ \E tab \in ActiveTab :
          IF ResolveVerdict(tab.reg, ref, gen) = "ok"
          THEN LET rec == tab.reg.recs[Smallest(Lookup(tab.reg, ref))]
               IN  /\ Begins([kind |-> "resolve", id |-> tab.id, rec |-> rec])
                   /\ resolved' = [id |-> tab.id, rec |-> rec, at |-> tab.rev, page |-> content[tab.page], element |-> None]
          ELSE Begins(Idle) /\ UNCHANGED resolved
    /\ UNCHANGED <<tabVars, openVars, admissions, admitting, status, clock, late, reported>>

\* The element is looked up on the page as it is by then, and acted on.
ResolveEnds(actionable) ==
    /\ job.kind = "resolve"
    /\ \E tab \in {tabs[i] : i \in Index(job.id)} :
          resolved' = IF LocateVerdict(job.rec.node, content[tab.page], actionable) = "ok"
                      THEN [resolved EXCEPT !.page = content[tab.page],
                               !.element = content[tab.page][Smallest(Located(job.rec.node, content[tab.page]))]]
                      ELSE None
    /\ job' = Idle
    /\ UNCHANGED <<tabVars, openVars, admissions, admitting, status, clock, lim, late, reported>>

\* Two minutes pass for the oldest reference of a tab.
RefExpires(i) ==
    /\ i \in 1..Len(tabs) /\ tabs[i].reg.recs # <<>> /\ Spend("expiries")
    /\ tabs' = [tabs EXCEPT ![i].reg = PruneOldest(@)]
    /\ UNCHANGED <<active, gen, tabSeq, job>> /\ Quiet

-----------------------------------------------------------------------------
(* A relaunch in a headed browser: handoff and reopenHeaded *)

\* captureTabStates: how many tabs are restored after the main one, and which
\* of all of them, the main one first, was active.
MainIndex == Smallest({i \in 1..Len(tabs) : tabs[i].main} \cup {Len(tabs) + 1})
Captured ==
    LET main == IF MainIndex > Len(tabs) THEN 1 ELSE MainIndex
    IN  [todo |-> IF tabs = <<>> THEN 0 ELSE Smallest({Len(tabs), MaxTabs}) - 1,
         which |-> IF Index(active) \subseteq {main} THEN 1
                   ELSE 1 + Cardinality({j \in 1..Smallest(Index(active)) : j # main})]

\* captureTabStates and closeContext: the old pages are gone, their admissions
\* are not.
RelaunchBegins ==
    /\ Spend("relaunches")
    /\ Begins([kind |-> "relaunch", pc |-> "launch", todo |-> Captured.todo, which |-> Captured.which,
               page |-> 0, made |-> <<>>])
    /\ tabs' = <<>> /\ open' = {}
    /\ UNCHANGED <<active, gen, tabSeq, content, pages, admissions, admitting, status, clock, history>>

\* launchContext: the tabs are dropped once more and the first page becomes the
\* main and active tab.
Launched ==
    /\ job.kind = "relaunch" /\ job.pc = "launch"
    /\ pages' = pages + 1
    /\ open' = {pages + 1}
    /\ \E c \in lim.show : content' = Shows(content, pages + 1, c)
    /\ tabs' = RegisterTab(<<>>, tabSeq + 1, pages + 1, TRUE)
    /\ active' = tabSeq + 1 /\ gen' = 0 /\ tabSeq' = tabSeq + 1
    /\ job' = [job EXCEPT !.pc = "goto", !.page = pages + 1, !.made = <<tabSeq + 1>>]
    /\ UNCHANGED <<admissions, admitting, status, clock, lim, history>>

\* restoreTabStates: one page after the other, announced like any other page.
RestoreOpens ==
    /\ job.kind = "relaunch" /\ job.pc = "next" /\ job.todo > 0
    /\ Opened(1)
    /\ job' = [job EXCEPT !.pc = "register", !.page = pages + 1]
    /\ UNCHANGED <<tabVars, admitting, status, clock, lim, history>>

RestoreRegisters ==
    /\ job.kind = "relaunch" /\ job.pc = "register"
    /\ LET made == RegisterTab(tabs, tabSeq + 1, job.page, FALSE)
           at == Smallest(IndexOfPage(made, job.page))
       IN  /\ tabs' = made
           /\ tabSeq' = IF Len(made) > Len(tabs) THEN tabSeq + 1 ELSE tabSeq
           /\ job' = [job EXCEPT !.pc = "goto", !.todo = @ - 1, !.made = Append(@, made[at].id)]
    /\ UNCHANGED <<active, gen, lim>> /\ Quiet

\* restoreTabPage: a blank page is left alone, any other navigates.
RestoreNavigates(blank) ==
    /\ job.kind = "relaunch" /\ job.pc = "goto"
    /\ IF blank
       THEN UNCHANGED <<tabs, gen, active, tabSeq>>
       ELSE /\ job.page \in open
            /\ LET i == Smallest(IndexOfPage(tabs, job.page))
               IN  NotePageGeneration(tabs[i].id, tabs[i].obs)
    /\ job' = [job EXCEPT !.pc = "next"]
    /\ UNCHANGED lim /\ Quiet

\* A navigation or a new page fails and ends the operation.
RestoreFails ==
    /\ job.kind = "relaunch" /\ job.pc \in {"launch", "goto", "next"}
    /\ job' = Idle
    /\ UNCHANGED <<tabVars, lim>> /\ Quiet

\* The tab that was active becomes active again.
RestoreEnds ==
    /\ job.kind = "relaunch" /\ job.pc = "next" /\ job.todo = 0
    /\ LET id == job.made[IF job.which \in 1..Len(job.made) THEN job.which ELSE 1]
       IN  IF Index(id) = {} THEN UNCHANGED <<active, gen>> ELSE Activate(tabs, id)
    /\ job' = Idle
    /\ UNCHANGED <<tabs, tabSeq, lim>> /\ Quiet

\* stop, once the queue has drained.
StopPages ==
    /\ job = Idle /\ status # "STOPPED" /\ Spend("stops")
    /\ status' = "STOPPED" /\ tabs' = <<>> /\ open' = {}
    /\ UNCHANGED <<active, gen, tabSeq, content, pages, admissions, admitting, job, clock, history>>

Admission ==
    \/ AdmissionBegins
    \/ \E allowed, audited \in BOOLEAN : AdmissionEnds(allowed, audited)

Operation ==
    \/ \E i \in 1..Len(tabs) : SwitchTab(i) \/ CloseTabBegins(i)
    \/ CloseTabReplaces \/ \E ok \in BOOLEAN : CloseTabEnds(ok)
    \/ \E since \in 1..2 \cup {None} : SnapshotBegins(since)
    \/ SnapshotReads \/ SnapshotEnds
    \/ \E tab \in ActiveTab : \E k \in 1..Len(tab.reg.recs) : ResolveBegins(tab.reg.recs[k].ref)
    \/ \E actionable \in BOOLEAN : ResolveEnds(actionable)
    \/ RelaunchBegins \/ Launched \/ RestoreOpens \/ RestoreRegisters \/ RestoreFails \/ RestoreEnds
    \/ \E blank \in BOOLEAN : RestoreNavigates(blank)
    \/ StopPages

Environment ==
    \/ \E i \in 1..Len(tabs) : Navigates(i) \/ Popup(i) \/ RefExpires(i)
    \/ \E p \in open : ContentChanges(p)
    \/ Crash \/ ClockTicks

PageNext == Admission \/ Operation \/ Environment

PageSpec == PageInit /\ [][PageNext]_pageVars

\* A lookup of an address ends, by an answer or by its own time limit.
FairPageSpec == PageSpec /\ WF_pageVars(Admission)

-----------------------------------------------------------------------------
(* Properties *)

Registered(p) == IndexOfPage(tabs, p) # {}
Awaited(p) ==
    \/ \E k \in 1..Len(admissions) : admissions[k] = p
    \/ job.kind = "close" /\ job.pc = "replace" /\ job.page = p
    \/ job.kind = "relaunch" /\ job.pc = "register" /\ job.page = p

Replacing == job.kind = "close" /\ job.new # None

\* The session knows its pages: the revision it guards writes with is that of
\* the active tab; tabs do not share pages or ids; there are no more of them
\* than the limit, but for the replacement of a tab that is being closed and for
\* those admitted around a relaunch, neither of which looks at it; and a page the
\* browser has open is a tab, awaits its admission or is about to be registered.
TabsManaged ==
    /\ Index(active) # {} => gen = Revision(active)
    /\ \A i, j \in 1..Len(tabs) : tabs[i].id = tabs[j].id \/ tabs[i].page = tabs[j].page => i = j
    /\ Len(tabs) <= MaxTabs + late + (IF Replacing THEN 1 ELSE 0)
    /\ \A p \in open : Registered(p) \/ Awaited(p)
    /\ \A i \in 1..Len(tabs) : tabs[i].reg.gen = tabs[i].rev /\ Len(tabs[i].reg.recs) <= MaxRefs

\* A reference passes the registry only on the tab and the page revision its
\* element was read from, even if the page navigated while the snapshot was
\* being taken; and if that element is still on the page when the reference is
\* looked up, no other element is acted on.
RefNamesSeenElement ==
    resolved # None =>
        /\ resolved.rec.seen = resolved.at
        /\ resolved.element # None /\ (\E k \in 1..Len(resolved.page) : resolved.page[k] = resolved.rec.node)
           => resolved.element = resolved.rec.node

\* The history keeps to its limits and accounts for what it holds; an id is
\* retained or expired, not both.
HistoryBounded ==
    \A i \in 1..Len(tabs) :
        LET h == tabs[i].hist
        IN  /\ h.total = Sum(h.entries) /\ h.total <= MaxBytes
            /\ Len(h.entries) <= MaxSnapshots /\ Len(h.expired) <= 2 * MaxSnapshots
            /\ \A k \in 1..Len(h.entries) : h.entries[k].bytes <= MaxSnapshotBytes /\ ~Expired(h, h.entries[k].id)

Look(node) == <<node.test, node.role, node.name, node.text>>
Count(nodes, ids, v) == Cardinality({i \in ids : Look(nodes[i]) = v})

\* A difference tells exactly how the page changed: taking the removed nodes and
\* the old form of the updated ones from the base and adding the new ones gives
\* the current nodes, and nothing is reported both as removed and as added.
DiffExact ==
    reported # None =>
        LET cur == reported.cur  base == reported.base  d == reported.diff
            old == {d.match[i] : i \in d.updated}
        IN  /\ \A v \in {Look(cur[i]) : i \in 1..Len(cur)} \cup {Look(base[j]) : j \in 1..Len(base)} :
                   Count(cur, 1..Len(cur), v) + Count(base, d.removed \cup old, v)
                   = Count(base, 1..Len(base), v) + Count(cur, d.added \cup d.updated, v)
            /\ \A i \in d.added, j \in d.removed : SemanticKey(cur[i], None) # SemanticKey(base[j], None)

\* The history keeps what it needs, no more, to tell exactly what changed.
HistoryExact == HistoryBounded /\ DiffExact

\* Every page that is announced is admitted or closed in the end, also after an
\* admission that failed.
PopupSettles == admissions # <<>> ~> admissions = <<>>

=============================================================================
