------------------------------ MODULE ProfileDesk ------------------------------
(* Browser profiles as the HTTP API keeps them: the directories of               *)
(* src/profile/profile-store.ts with their recycle bin, the import of a local     *)
(* browser (src/migration/local-browser-importer.ts), and the sessions that       *)
(* src/api/server.ts starts on profiles and remembers in profileSessionMap.       *)
(*                                                                                *)
(* A directory is a number, drawn when it is made; a rename keeps it.  It holds    *)
(* some of the files meta (metadata.json), cookies and data (the browser's), and   *)
(* its metadata names a profile, as a rule the one whose place it is in.           *)
(* An action is what a request does between two awaits on the disk or a browser.   *)
EXTENDS Naturals, FiniteSets, Sequences

CONSTANTS
    Clients,        \* the requests that can be under way at once
    Profiles,       \* profile ids
    Begins,         \* Begins[p]: the ids q for which "q--" begins with "p--"
    First,          \* the profile that may be there, or in the bin, at the beginning
    Sessions,       \* session ids
    MaxCalls,       \* requests
    MaxTroubles,    \* faults, expiries and crashes
    None

VARIABLES
    dir,        \* per profile, its directory: None or [life, names, files]
    trash,      \* .trash: [id, n, life, names, files], n the time of deletion
    made,       \* directories made so far
    sess,       \* per session [p, by, st, held]: profile, the route that started it, its
                \* own state, known to the manager
    map,        \* profileSessionMap
    req,        \* per client, its request and where it is suspended
    left,       \* how often things may still happen
    kept,       \* history: directories of profiles whose creation was acknowledged
    removed,    \* history: directories of a profile purged by its id, or that an import gave up
    mistaken,   \* history: directories purged because their id begins like the one asked for
    overlap     \* history: a stop was answered while another one awaited its audit

deskVars == <<dir, trash, made, sess, map, req, left, kept, removed, mistaken, overlap>>
disk == <<dir, trash, made, kept, removed, mistaken>>

NoReq == [op |-> "none"]
NoSession == [p |-> None, by |-> "none", st |-> "none", held |-> FALSE]

DeskInit ==
    /\ made \in {0, 1}
    /\ \/ dir = [p \in Profiles |-> IF made = 1 /\ p = First
                                     THEN [life |-> 1, names |-> First, files |-> {"meta"}] ELSE None]
          /\ trash = {}
       \/ dir = [p \in Profiles |-> None] /\ made = 1
          /\ trash = {[id |-> First, n |-> 0, life |-> 1, names |-> First, files |-> {"meta"}]}
    /\ kept = 1..made
    /\ sess = [s \in Sessions |-> NoSession]
    /\ map = [p \in Profiles |-> None]
    /\ req = [c \in Clients |-> NoReq]
    /\ left = [calls |-> MaxCalls, troubles |-> MaxTroubles]
    /\ removed = {} /\ mistaken = {} /\ overlap = FALSE

DrawsOn(what) == left[what] > 0 /\ left' = [left EXCEPT ![what] = @ - 1]

At(c, where) == req[c] # NoReq /\ req[c].at = where
Moves(c, where) == req' = [req EXCEPT ![c].at = where]
Answers(c) == req' = [req EXCEPT ![c] = NoReq]

\* existsSync(metadata.json), and then the file is read.
Readable(p) == dir[p] # None /\ "meta" \in dir[p].files

\* atomicWriteFile makes the directory when it is not there (any more); metadata is
\* written to the place of the profile it names.
WriteFile(p, f) ==
    /\ dir' = [dir EXCEPT ![p] = IF @ = None THEN [life |-> made + 1, names |-> p, files |-> {f}]
                                 ELSE [life |-> @.life, names |-> IF f = "meta" THEN p ELSE @.names,
                                       files |-> @.files \cup {f}]]
    /\ made' = IF dir[p] = None THEN made + 1 ELSE made

-----------------------------------------------------------------------------
\* A request that has passed the gate, its body read.  Requests are alike, so it
\* takes any free place.
Arrives(op, p, at) ==
    LET c == CHOOSE d \in Clients : req[d] = NoReq IN
    /\ \E d \in Clients : req[d] = NoReq
    /\ DrawsOn("calls")
    /\ req' = [req EXCEPT ![c] = [op |-> op, p |-> p, sid |-> None, saw |-> {}, at |-> at]]
    /\ UNCHANGED <<disk, sess, map, overlap>>

PostProfile(p) == Arrives("create", p, "begun")
PostClone(p) == Arrives("create", p, "cloning")
ImportLocal == Arrives("import", None, "begun")
PutProfile(p) == Arrives("update", p, "begun")
PostCookies(p) == Arrives("cookies", p, "begun")
RestoreRoute(p) == Arrives("restore", p, "begun")
PurgeRoute(p) == Arrives("purge", p, "begun")
StartRoute(p) == Arrives("start", p, "begun")
StopRoute(p) == Arrives("stop", p, "begun")
\* The mapped session is stopped first; the batch only asks for the deletion, and
\* starts a session without looking whether one is mapped.
DeleteRoute(p) == Arrives("delete", p, "begun")
BatchDelete(p) == Arrives("batchDelete", p, "deleting")
BatchStart(p) == Arrives("batchStart", p, "reading")
\* A session without a profile, for one page.
Scrape == Arrives("scrape", None, "resolving")
\* POST /browser/start: a session without a profile, which stays.
BrowserStart == Arrives("sandbox", None, "resolving")

Begun(c, op) == At(c, "begun") /\ req[c].op = op

\* The request ends with an error, or has nothing to do.
Refuses(c) == Answers(c) /\ UNCHANGED <<disk, sess, map, left, overlap>>

-----------------------------------------------------------------------------
\* createProfile: the directory must not exist; then it is made, also when it has
\* come into being meanwhile.
CreateChecks(c) ==
    /\ Begun(c, "create")
    /\ dir[req[c].p] = None
    /\ Moves(c, "making")
    /\ UNCHANGED <<disk, sess, map, left, overlap>>

\* A clone reads its source first, and is then created like any other.
CloneReads(c) ==
    /\ At(c, "cloning")
    /\ \E source \in Profiles : Readable(source)
    /\ Moves(c, "begun")
    /\ UNCHANGED <<disk, sess, map, left, overlap>>

CloneRefuses(c) == At(c, "cloning") /\ (\E source \in Profiles : ~Readable(source)) /\ Refuses(c)

CreateRefuses(c) == Begun(c, "create") /\ dir[req[c].p] # None /\ Refuses(c)

CreateMakes(c) ==
    LET p == req[c].p IN
    /\ At(c, "making")
    /\ dir' = IF dir[p] # None THEN dir
              ELSE [dir EXCEPT ![p] = [life |-> made + 1, names |-> p, files |-> {}]]
    /\ made' = IF dir[p] # None THEN made ELSE made + 1
    /\ Moves(c, "writing")
    /\ UNCHANGED <<trash, kept, removed, mistaken, sess, map, left, overlap>>

\* The last write of create, update and import; a new profile may get cookies.
WritesMetadata(c) ==
    LET p == req[c].p IN
    /\ At(c, "writing")
    /\ WriteFile(p, "meta")
    /\ \/ req[c].op \in {"create", "import"} /\ req[c].saw = {} /\
          Moves(c, IF req[c].op = "import" THEN "copying" ELSE "cookies") /\ UNCHANGED kept
       \/ (req[c].op = "import" => req[c].saw # {}) /\ Answers(c) /\ kept' = kept \cup {dir'[p].life}
    /\ UNCHANGED <<trash, removed, mistaken, sess, map, left, overlap>>

\* The proxy is malformed or the disk fails: the directory stays behind.
WriteFails(c) ==
    /\ At(c, "writing") /\ req[c].op \in {"create", "update"}
    /\ DrawsOn("troubles")
    /\ Answers(c)
    /\ UNCHANGED <<disk, sess, map, overlap>>

\* updateProfile, also at the end of restore and of importCookies: it goes on with the
\* profile that the metadata names.
UpdateReads(c) ==
    LET p == req[c].p IN
    /\ Begun(c, "update")
    /\ Readable(p)
    /\ req' = [req EXCEPT ![c].at = "writing", ![c].p = dir[p].names]
    /\ UNCHANGED <<disk, sess, map, left, overlap>>

UpdateRefuses(c) == Begun(c, "update") /\ ~Readable(req[c].p) /\ Refuses(c)

\* importCookies: read, merge, write the cookies, update the profile.
CookiesRead(c) ==
    /\ Begun(c, "cookies")
    /\ Readable(req[c].p)
    /\ Moves(c, "cookies")
    /\ UNCHANGED <<disk, sess, map, left, overlap>>

CookiesRefuse(c) == Begun(c, "cookies") /\ ~Readable(req[c].p) /\ Refuses(c)

CookiesWritten(c) ==
    LET p == req[c].p IN
    /\ At(c, "cookies")
    /\ WriteFile(p, "cookies")
    /\ IF req[c].op = "create" THEN Answers(c)
       ELSE req' = [req EXCEPT ![c].op = "update", ![c].at = "begun"]
    /\ UNCHANGED <<trash, kept, removed, mistaken, sess, map, left, overlap>>

-----------------------------------------------------------------------------
\* deleteProfile: into the recycle bin, under the time of the deletion.
DeleteChecks(c) ==
    /\ At(c, "deleting")
    /\ dir[req[c].p] # None
    /\ Moves(c, "discarding")
    /\ UNCHANGED <<disk, sess, map, left, overlap>>

DeleteRefuses(c) == At(c, "deleting") /\ dir[req[c].p] = None /\ Refuses(c)

Discards(c) ==
    LET p == req[c].p IN
    /\ At(c, "discarding")
    /\ IF dir[p] = None THEN UNCHANGED <<dir, trash>>
       ELSE /\ trash' = trash \cup {[id |-> p, n |-> MaxCalls - left.calls,
                                     life |-> dir[p].life, names |-> dir[p].names,
                                     files |-> dir[p].files]}
            /\ dir' = [dir EXCEPT ![p] = None]
    /\ Answers(c)
    /\ UNCHANGED <<made, kept, removed, mistaken, sess, map, left, overlap>>

Candidates(p) == {t \in trash : t.id \in Begins[p]}
\* The first by name, so the newest of one of the ids that begin like p.
Newest(p) == {t \in Candidates(p) : \A u \in Candidates(p) : u.id = t.id => u.n <= t.n}

RestoreChecks(c) ==
    /\ Begun(c, "restore")
    /\ dir[req[c].p] = None
    /\ Moves(c, "listing")
    /\ UNCHANGED <<disk, sess, map, left, overlap>>

RestoreRefuses(c) ==
    /\ \/ Begun(c, "restore") /\ dir[req[c].p] # None
       \/ At(c, "listing") /\ Candidates(req[c].p) = {}
    /\ Refuses(c)

RestorePicks(c) ==
    /\ At(c, "listing")
    /\ \E t \in Newest(req[c].p) : req' = [req EXCEPT ![c].at = "restoring", ![c].saw = {t}]
    /\ UNCHANGED <<disk, sess, map, left, overlap>>

\* rename replaces an empty directory and fails on any other; the restored
\* profile is then updated, or reported as unreadable.
Restores(c) ==
    LET p == req[c].p
        t == CHOOSE u \in req[c].saw : TRUE
        ok == t \in trash /\ (dir[p] # None => dir[p].files = {})
    IN
    /\ At(c, "restoring")
    /\ dir' = IF ok THEN [dir EXCEPT ![p] = [life |-> t.life, names |-> t.names, files |-> t.files]]
               ELSE dir
    /\ trash' = IF ok THEN trash \ {t} ELSE trash
    /\ IF ok /\ "meta" \in t.files
       THEN req' = [req EXCEPT ![c].op = "update", ![c].at = "begun", ![c].saw = {}]
       ELSE Answers(c)
    /\ UNCHANGED <<made, kept, removed, mistaken, sess, map, left, overlap>>

Mutant_PurgeLists_all(c) ==
    /\ Begun(c, "purge")
    /\ req' = [req EXCEPT ![c].at = "purging", ![c].saw = trash]
    /\ UNCHANGED <<disk, sess, map, left, overlap>>

PurgeLists(c) ==
    /\ Begun(c, "purge")
    /\ req' = [req EXCEPT ![c].at = "purging", ![c].saw = Candidates(req[c].p)]
    /\ UNCHANGED <<disk, sess, map, left, overlap>>

\* The listed entries are removed one after the other.
Purges(c) ==
    LET p == req[c].p IN
    /\ At(c, "purging")
    /\ \E t \in req[c].saw :
           /\ trash' = trash \ {t}
           /\ removed' = IF t.id = p THEN removed \cup {t.life} ELSE removed
           /\ mistaken' = IF t.id \in Begins[p] \ {p} THEN mistaken \cup {t.life} ELSE mistaken
           /\ req' = [req EXCEPT ![c].saw = @ \ {t}]
    /\ UNCHANGED <<dir, made, kept, sess, map, left, overlap>>

PurgeEnds(c) == At(c, "purging") /\ req[c].saw = {} /\ Refuses(c)

-----------------------------------------------------------------------------
\* importProfile takes an id whose profile cannot be read and creates the profile.
ImportPicks(c) ==
    /\ Begun(c, "import")
    /\ \E p \in {q \in Profiles : ~Readable(q)} :
           req' = [req EXCEPT ![c].at = "checking", ![c].p = p]
    /\ UNCHANGED <<disk, sess, map, left, overlap>>

NoFreeId(c) == Begun(c, "import") /\ (\A p \in Profiles : Readable(p)) /\ Refuses(c)

ImportCreates(c) ==
    /\ At(c, "checking")
    /\ dir[req[c].p] = None
    /\ Moves(c, "making")
    /\ UNCHANGED <<disk, sess, map, left, overlap>>

\* The id is taken by now: nothing has been made, so nothing is cleaned up.
ImportRefuses(c) == At(c, "checking") /\ dir[req[c].p] # None /\ Refuses(c)

\* The files are copied, and the directory comes back if it is gone; then the profile is
\* updated.
CopyEnds(c) ==
    LET p == req[c].p IN
    /\ At(c, "copying")
    /\ WriteFile(p, "data")
    /\ IF Readable(p)
       THEN req' = [req EXCEPT ![c].at = "writing", ![c].saw = {"copied"}, ![c].p = dir[p].names]
       ELSE req' = [req EXCEPT ![c].at = "undoing", ![c].saw = {"copied"}]
    /\ UNCHANGED <<trash, kept, removed, mistaken, sess, map, left, overlap>>

CopyFails(c) ==
    /\ At(c, "copying")
    /\ DrawsOn("troubles")
    /\ Moves(c, "undoing")
    /\ UNCHANGED <<disk, sess, map, overlap>>

\* The import removes the directory of its id, whoever uses it by now.
Undoes(c) ==
    LET p == req[c].p IN
    /\ At(c, "undoing")
    /\ dir' = [dir EXCEPT ![p] = None]
    /\ removed' = IF dir[p] = None THEN removed ELSE removed \cup {dir[p].life}
    /\ Answers(c)
    /\ UNCHANGED <<trash, made, kept, mistaken, sess, map, left, overlap>>

-----------------------------------------------------------------------------
Held(s) == s # None /\ sess[s].held
\* randomUUID: a session id not used before.
Unused == {s \in Sessions : sess[s] = NoSession}

Owner(p) == {s \in Sessions : Held(s) /\ p # None /\ sess[s].p = p}

\* A mapped session that the manager knows is answered as it is.
StartChecks(c) ==
    LET p == req[c].p IN
    /\ Begun(c, "start")
    /\ IF Held(map[p]) THEN Answers(c) /\ UNCHANGED map
       ELSE Moves(c, "reading") /\ map' = [map EXCEPT ![p] = None]
    /\ UNCHANGED <<disk, sess, left, overlap>>

StartReads(c) ==
    /\ At(c, "reading")
    /\ IF Readable(req[c].p) THEN Moves(c, "resolving") ELSE Answers(c)
    /\ UNCHANGED <<disk, sess, map, left, overlap>>

\* The profile must have no owner; the session makes the directory if need be.
StartLaunches(c, s) ==
    LET p == req[c].p IN
    /\ At(c, "resolving") /\ p # None
    /\ Owner(p) = {}
    /\ Unused # {} /\ s = CHOOSE t \in Unused : TRUE
    /\ sess' = [sess EXCEPT ![s] = [p |-> p, by |-> req[c].op, st |-> "starting", held |-> TRUE]]
    /\ WriteFile(p, "data")
    /\ req' = [req EXCEPT ![c].at = "launching", ![c].sid = s]
    /\ UNCHANGED <<trash, kept, removed, mistaken, map, left, overlap>>

StartRefuses(c) ==
    /\ At(c, "resolving")
    /\ Owner(req[c].p) # {} \/ Unused = {}
    /\ Refuses(c)

StartEnds(c) ==
    /\ At(c, "launching") /\ req[c].p # None
    /\ sess' = [sess EXCEPT ![req[c].sid].st = "ready"]
    /\ map' = [map EXCEPT ![req[c].p] = req[c].sid]
    /\ Answers(c)
    /\ UNCHANGED <<disk, left, overlap>>

StartFails(c) ==
    /\ At(c, "launching")
    /\ DrawsOn("troubles")
    /\ sess' = [sess EXCEPT ![req[c].sid] = [@ EXCEPT !.st = "gone", !.held = FALSE]]
    /\ Answers(c)
    /\ UNCHANGED <<disk, map, overlap>>

\* A session without a profile.
BareLaunches(c, s) ==
    /\ At(c, "resolving") /\ req[c].op \in {"scrape", "sandbox"}
    /\ Unused # {} /\ s = CHOOSE t \in Unused : TRUE
    /\ sess' = [sess EXCEPT ![s] = [p |-> None, by |-> req[c].op, st |-> "starting", held |-> TRUE]]
    /\ req' = [req EXCEPT ![c].at = "launching", ![c].sid = s]
    /\ UNCHANGED <<disk, map, left, overlap>>

\* POST /browser/start answers with the id of the session and remembers nothing.
BrowserStarts(c) ==
    /\ At(c, "launching") /\ req[c].op = "sandbox"
    /\ sess' = [sess EXCEPT ![req[c].sid].st = "ready"]
    /\ Answers(c)
    /\ UNCHANGED <<disk, map, left, overlap>>

\* A scrape stops its session whether the page could be opened and read or not.
ScrapeStarts(c) ==
    /\ At(c, "launching") /\ req[c].op = "scrape"
    /\ sess' = [sess EXCEPT ![req[c].sid].st = "ready"]
    /\ Moves(c, "scraping")
    /\ UNCHANGED <<disk, map, left, overlap>>

ScrapeEnds(c) ==
    LET s == req[c].sid IN
    /\ At(c, "scraping")
    /\ IF Held(s) /\ sess[s].st \in {"ready", "stopping"}
       THEN sess' = [sess EXCEPT ![s].st = "stopping"] /\ Moves(c, "stopping")
       ELSE Answers(c) /\ UNCHANGED sess
    /\ UNCHANGED <<disk, map, left, overlap>>

Waiting(s) == {c \in Clients : At(c, "stopping") /\ req[c].sid = s}

\* stop, and delete before it deletes: the mapped session is stopped.  A session
\* that is stopping is awaited; one that has stopped, but still writes its audit
\* record, is answered at once and leaves the manager.
Stops(c) ==
    LET p == req[c].p
        s == map[p]
    IN
    /\ At(c, "begun") /\ req[c].op \in {"stop", "delete"}
    /\ Held(s)
    /\ sess[s].st \in {"ready", "stopping"}
    /\ sess' = [sess EXCEPT ![s].st = "stopping"]
    /\ req' = [req EXCEPT ![c].at = "stopping", ![c].sid = s]
    /\ UNCHANGED <<disk, map, left, overlap>>

Resumed(r) == IF r.op \in {"stop", "scrape"} THEN NoReq ELSE [r EXCEPT !.at = "deleting"]

StopsAtOnce(c) ==
    LET p == req[c].p
        s == map[p]
    IN
    /\ At(c, "begun") /\ req[c].op \in {"stop", "delete"}
    /\ Held(s) => sess[s].st = "stopped"
    /\ IF Held(s) THEN sess' = [sess EXCEPT ![s].held = FALSE] ELSE UNCHANGED sess
    /\ map' = [map EXCEPT ![p] = None]
    /\ req' = [req EXCEPT ![c] = Resumed(@)]
    /\ overlap' = (overlap \/ (s # None /\ Waiting(s) # {}))
    /\ UNCHANGED <<disk, left>>

\* The session drains, saves its cookies, closes its browser and is STOPPED.
SessionStops(s) ==
    /\ sess[s].st = "stopping"
    /\ sess' = [sess EXCEPT ![s].st = "stopped"]
    /\ IF sess[s].p # None THEN WriteFile(sess[s].p, "cookies") ELSE UNCHANGED <<dir, made>>
    /\ UNCHANGED <<trash, kept, removed, mistaken, map, req, left, overlap>>

Mutant_StopResolves_first(s) ==
    /\ sess[s].st = "stopped"
    /\ sess' = [sess EXCEPT ![s] = [@ EXCEPT !.st = "gone", !.held = FALSE]]
    /\ LET woken == IF Waiting(s) = {} THEN {} ELSE {CHOOSE c \in Waiting(s) : TRUE} IN
       /\ req' = [c \in Clients |-> IF c \in woken THEN Resumed(req[c]) ELSE req[c]]
       /\ map' = IF woken = {} \/ sess[s].p = None THEN map ELSE [map EXCEPT ![sess[s].p] = None]
    /\ UNCHANGED <<disk, left, overlap>>

\* Its audit record is written: all who await the stop go on, and each of them
\* removes the profile from the map, whatever session it names by then.
StopResolves(s) ==
    /\ sess[s].st = "stopped"
    /\ sess' = [sess EXCEPT ![s] = [@ EXCEPT !.st = "gone", !.held = FALSE]]
    /\ req' = [c \in Clients |-> IF c \in Waiting(s) THEN Resumed(req[c]) ELSE req[c]]
    /\ map' = IF Waiting(s) = {} \/ sess[s].p = None THEN map ELSE [map EXCEPT ![sess[s].p] = None]
    /\ UNCHANGED <<disk, left, overlap>>

\* The session's time is up and the manager stops it.
Expires(s) ==
    /\ sess[s].st = "ready" /\ Held(s)
    /\ DrawsOn("troubles")
    /\ sess' = [sess EXCEPT ![s].st = "stopping"]
    /\ UNCHANGED <<disk, map, req, overlap>>

\* GET /sessions forgets the sessions that the manager no longer knows.
ListSessions ==
    /\ map' = [p \in Profiles |-> IF Held(map[p]) THEN map[p] ELSE None]
    /\ map' # map
    /\ UNCHANGED <<disk, sess, req, left, overlap>>

\* The process dies and is started again: the disk is all that is left.
DeskCrash ==
    /\ DrawsOn("troubles")
    /\ req' = [c \in Clients |-> NoReq]
    /\ sess' = [s \in Sessions |-> NoSession]
    /\ map' = [p \in Profiles |-> None]
    /\ overlap' = FALSE
    /\ UNCHANGED disk

-----------------------------------------------------------------------------
RequestStep(c) ==
    \/ CloneReads(c) \/ CloneRefuses(c)
    \/ CreateChecks(c) \/ CreateRefuses(c) \/ CreateMakes(c) \/ WritesMetadata(c)
    \/ UpdateReads(c) \/ UpdateRefuses(c)
    \/ CookiesRead(c) \/ CookiesRefuse(c) \/ CookiesWritten(c)
    \/ DeleteChecks(c) \/ DeleteRefuses(c) \/ Discards(c)
    \/ RestoreChecks(c) \/ RestoreRefuses(c) \/ RestorePicks(c) \/ Restores(c)
    \/ PurgeLists(c) \/ Purges(c) \/ PurgeEnds(c)
    \/ ImportPicks(c) \/ NoFreeId(c) \/ ImportCreates(c) \/ ImportRefuses(c)
    \/ CopyEnds(c) \/ Undoes(c)
    \/ StartChecks(c) \/ StartReads(c) \/ StartRefuses(c) \/ StartEnds(c)
    \/ (\E s \in Sessions : StartLaunches(c, s) \/ BareLaunches(c, s))
    \/ BrowserStarts(c) \/ ScrapeStarts(c) \/ ScrapeEnds(c)
    \/ Stops(c) \/ StopsAtOnce(c)

SessionStep(s) == SessionStops(s) \/ StopResolves(s)

DeskProgress == (\E c \in Clients : RequestStep(c)) \/ (\E s \in Sessions : SessionStep(s))

DeskNext ==
    \/ DeskProgress
    \/ \E p \in Profiles :
           \/ PostProfile(p) \/ PostClone(p) \/ PutProfile(p)
           \/ PostCookies(p) \/ RestoreRoute(p) \/ PurgeRoute(p)
           \/ StartRoute(p) \/ StopRoute(p)
           \/ DeleteRoute(p) \/ BatchDelete(p) \/ BatchStart(p)
    \/ ImportLocal \/ Scrape \/ BrowserStart
    \/ \E c \in Clients : WriteFails(c) \/ CopyFails(c) \/ StartFails(c)
    \/ \E s \in Sessions : Expires(s)
    \/ ListSessions \/ DeskCrash

-----------------------------------------------------------------------------
\* A profile that was acknowledged (created, imported, updated or restored) keeps
\* its directory with its metadata, in a place or in the recycle bin and never in
\* both, until it is purged by its id or an import that had begun to copy into it
\* gives up; whatever races with its deletion, its restoration or a crash.  The
\* exception are the mistaken: a purge of p also destroys what was deleted as p--x.
ProfileKept ==
    \A l \in (kept \ removed) \ mistaken :
        Cardinality({p \in Profiles : dir[p] # None /\ dir[p].life = l /\ "meta" \in dir[p].files}
                    \cup {t \in trash : t.life = l /\ "meta" \in t.files}) = 1

\* A running session that these routes started can be found and stopped: the map names
\* it, or the scrape that started it is still at work.  There are two exceptions: a
\* session of POST /browser/start is known by its id only; and when a stop was answered
\* while an earlier one awaited its audit record, the earlier one then removes whatever
\* the map names.
LiveIsMapped ==
    \A s \in Sessions : sess[s].st = "ready" =>
        IF sess[s].p # None THEN overlap \/ map[sess[s].p] = s
        ELSE sess[s].by = "sandbox" \/ \E c \in Clients : At(c, "scraping") /\ req[c].sid = s
=============================================================================
