----------------------------- MODULE StudioStores -----------------------------
(* The record stores of the Studio: the proxy pool (src/proxy/pool-store.ts), the *)
(* team's members and API keys (src/team/access-store.ts) and the managed         *)
(* extensions (src/extension/managed-extension-store.ts).  The three keep their   *)
(* records in memory, answer a call once the whole memory has been written to one *)
(* JSON file, and chain these writes.  They are one machine here, of which a      *)
(* behaviour runs one store; an action is what a call does between two awaits.    *)
(*                                                                                *)
(* A record is its revision, a flag (the proxy enabled, the member active, the    *)
(* key not revoked, the extension enabled) and the revision a probe saw.          *)
EXTENDS AtomicFile, Sequences, FiniteSets

CONSTANTS
    Clients,        \* the requests that can be under way at once
    Ids,            \* the record ids randomUUID draws
    Member,         \* in the team, the id of a member; the others are its keys
    Stores,         \* the stores whose behaviours are explored, with their bounds
    None

VARIABLES
    store,      \* the store that runs and how often things may happen to it
    up,         \* the process is running
    loaded,     \* this.loaded
    records,    \* this.records, this.state
    tail,       \* this.writeTail: who awaits each chained write
    call,       \* per client, its call and where it is suspended
    dirs,       \* the directories of the extensions: what of each is there
    drawn,      \* ids drawn so far
    promised,   \* history: what the last acknowledged call on an id left there
    early,      \* history: a record was written before the file had been read
    launched    \* history: the extensions handed to a browser: whether all files were there
                \* then, and whether it had been deleted since it was asked for

storeVars == <<fileVars, store, up, loaded, records, tail, call, dirs, drawn, promised, early,
               launched>>

Open == [kind |-> "open"]
NoCall == [op |-> "none"]
Record(rev, on) == [rev |-> rev, on |-> on, probed |-> None]
Is(kind) == store.kind = kind
\* The directory of an extension: itself, the archive and the unpacked files.
Files == {"package", "first", "last"}
Entries == {"directory"} \cup Files
Idle(c) == up /\ call[c] = NoCall
\* The record another one cannot be without: the member of an API key.
Parent(id) == IF Is("team") /\ id # Member THEN Member ELSE None
At(c, op, where) == up /\ call[c].op = op /\ call[c].at = where

\* Each kind of event has its bound, spent as the events happen.
Spend(what) == store[what] > 0 /\ store' = [store EXCEPT ![what] = @ - 1]

StoresInit ==
    /\ FileInit
    /\ store \in Stores
    /\ up = TRUE
    /\ loaded = ~Is("proxies")
    /\ records = [i \in Ids |-> None]
    /\ tail = <<>>
    /\ call = [c \in Clients |-> NoCall]
    /\ dirs = [i \in Ids |-> {}]
    /\ drawn = {}
    /\ promised = [i \in Ids |-> Open]
    /\ early = FALSE
    /\ launched = {}

-----------------------------------------------------------------------------
\* What a call is about to do: with one record, or with the extensions todo in turn, of
\* which done are verified and read of the present one's files.  load() claims to be
\* done before it has read.
Enter(c, op, id, others) ==
    /\ Idle(c)
    /\ call' = [call EXCEPT ![c] = [op |-> op, id |-> id, saw |-> None,
                                    todo |-> {id} \cup others, done |-> {}, read |-> {},
                                    at |-> IF loaded THEN "begun" ELSE "loading"]]
    /\ loaded' = TRUE

Ops == [proxies |-> {"create", "update", "delete", "check"},
        team |-> {"create", "update"},
        extensions |-> {"create", "update", "delete", "launch"}]

Arrive(c, op, id, others) ==
    /\ op \in Ops[store.kind]
    /\ op = "create" => id \notin drawn
    /\ op # "create" => id \in drawn
    /\ others \subseteq drawn \ {id} /\ (op # "launch" => others = {})
    /\ Spend("calls")
    /\ Enter(c, op, id, others)
    /\ drawn' = drawn \cup {id}
    /\ UNCHANGED <<fileVars, up, records, tail, dirs, promised, early, launched>>

\* The records of the file join those in memory.
LoadApplies(c) ==
    /\ up /\ call[c] # NoCall /\ call[c].at = "loading"
    /\ records' = IF ReadJson = Absent THEN records
                  ELSE [i \in Ids |-> IF ReadJson.data[i] # None THEN ReadJson.data[i]
                                                                 ELSE records[i]]
    /\ call' = [call EXCEPT ![c].at = "begun"]
    /\ UNCHANGED <<fileVars, store, up, loaded, tail, dirs, drawn, promised, early, launched>>

Reply(c) == call' = [call EXCEPT ![c] = NoCall]

Loading == \E c \in Clients : call[c] # NoCall /\ call[c].at = "loading"

Mutant_Persist_detached(c) ==
    /\ tail' = Append(tail, c)
    /\ call' = [call EXCEPT ![c] = NoCall]
    /\ promised' = [promised EXCEPT ![call[c].id] = records'[call[c].id]]
    /\ early' = (early \/ Loading)

\* A changed record: its write is chained and the call waits for it.
Persist(c) ==
    /\ tail' = Append(tail, c)
    /\ call' = [call EXCEPT ![c].at = "saving"]
    /\ promised' = [promised EXCEPT ![call[c].id] = Open]
    /\ early' = (early \/ Loading)

\* An error, or nothing to do: the caller is told and no record has changed.
Declines(c) ==
    /\ Reply(c)
    /\ UNCHANGED <<fileVars, store, up, loaded, records, tail, dirs, drawn, promised, early,
                   launched>>

Missing(id) == records[id] = None

CanCreate(id) == Parent(id) # None => ~Missing(Parent(id))

Create(c) ==
    /\ At(c, "create", "begun")
    /\ ~Is("extensions")
    /\ CanCreate(call[c].id)
    /\ records' = [records EXCEPT ![call[c].id] = Record(0, TRUE)]
    /\ Persist(c)
    /\ UNCHANGED <<fileVars, store, up, loaded, dirs, drawn, launched>>

\* The member is unknown.
CreateFails(c) ==
    /\ At(c, "create", "begun")
    /\ ~Is("extensions")
    /\ ~CanCreate(call[c].id)
    /\ Declines(c)

\* A key can only be revoked; the other flags go both ways.  A proxy keeps the
\* verdict of its last probe although its server may be another one now.
Updated(rec, on) == [rec EXCEPT !.rev = @ + 1, !.on = on]

Update(c, on) ==
    LET id == call[c].id IN
    /\ At(c, "update", "begun")
    /\ ~Missing(id)
    /\ Parent(id) # None => records[id].on /\ ~on
    /\ records' = [records EXCEPT ![id] = Updated(@, on)]
    /\ Persist(c)
    /\ UNCHANGED <<fileVars, store, up, loaded, dirs, drawn, launched>>

UpdateDeclines(c) ==
    LET id == call[c].id IN
    /\ At(c, "update", "begun")
    /\ ~Missing(id) => Parent(id) # None /\ ~records[id].on
    /\ Declines(c)

DeleteProxy(c) ==
    /\ At(c, "delete", "begun")
    /\ Is("proxies")
    /\ ~Missing(call[c].id)
    /\ records' = [records EXCEPT ![call[c].id] = None]
    /\ Persist(c)
    /\ UNCHANGED <<fileVars, store, up, loaded, dirs, drawn, launched>>

DeleteDeclines(c) == At(c, "delete", "begun") /\ Missing(call[c].id) /\ Declines(c)

\* The record is read, the probe takes its time, and the old record is written
\* back with the verdict, whatever has become of it in between.
CheckBegins(c) ==
    /\ At(c, "check", "begun")
    /\ ~Missing(call[c].id)
    /\ call' = [call EXCEPT ![c].at = "probing", ![c].saw = records[call[c].id]]
    /\ UNCHANGED <<fileVars, store, up, loaded, records, tail, dirs, drawn, promised, early,
                   launched>>

CheckEnds(c) ==
    /\ At(c, "check", "probing")
    /\ records' = [records EXCEPT ![call[c].id] = [call[c].saw EXCEPT !.probed = call[c].saw.rev]]
    /\ Persist(c)
    /\ UNCHANGED <<fileVars, store, up, loaded, dirs, drawn, launched>>

CheckDeclines(c) == At(c, "check", "begun") /\ Missing(call[c].id) /\ Declines(c)

-----------------------------------------------------------------------------
\* An API key is looked up in memory; its last use is noted and written, and
\* nobody waits for that write.
Authenticates(k) ==
    /\ records[k] # None /\ records[k].on
    /\ records[Parent(k)] # None /\ records[Parent(k)].on

Authenticate(k) ==
    /\ up /\ Is("team") /\ Parent(k) # None
    /\ Authenticates(k)
    /\ Spend("uses")
    /\ tail' = Append(tail, None)
    /\ UNCHANGED <<fileVars, up, loaded, records, call, dirs, drawn, promised, early, launched>>

-----------------------------------------------------------------------------
\* All imports are of one package; one that is there already is answered as it is.
Known == {i \in Ids : ~Missing(i)}

ImportBegins(c) ==
    /\ At(c, "create", "begun")
    /\ Is("extensions")
    /\ Known = {}
    /\ call' = [call EXCEPT ![c].at = "unpacking"]
    /\ UNCHANGED <<fileVars, store, up, loaded, records, tail, dirs, drawn, promised, early,
                   launched>>

ImportKnown(c) == At(c, "create", "begun") /\ Is("extensions") /\ Known # {} /\ Declines(c)

\* The directory has been filled under another name, and is complete before the record
\* names it.
ImportEnds(c) ==
    /\ At(c, "create", "unpacking")
    /\ dirs' = [dirs EXCEPT ![call[c].id] = Entries]
    /\ records' = [records EXCEPT ![call[c].id] = Record(0, TRUE)]
    /\ Persist(c)
    /\ UNCHANGED <<fileVars, store, up, loaded, drawn, launched>>

ImportFails(c) ==
    /\ At(c, "create", "unpacking")
    /\ Spend("faults")
    /\ Reply(c)
    /\ UNCHANGED <<fileVars, up, loaded, records, tail, dirs, drawn, promised, early, launched>>

\* The record goes first, then the files one by one, then the index is written.
RemoveBegins(c) ==
    /\ At(c, "delete", "begun")
    /\ Is("extensions")
    /\ ~Missing(call[c].id)
    /\ records' = [records EXCEPT ![call[c].id] = None]
    /\ call' = [call EXCEPT ![c].at = "removing"]
    /\ promised' = [promised EXCEPT ![call[c].id] = Open]
    /\ UNCHANGED <<fileVars, store, up, loaded, tail, dirs, drawn, early, launched>>

RemoveFile(c, f) ==
    /\ At(c, "delete", "removing")
    /\ f \in dirs[call[c].id] \cap Files
    /\ dirs' = [dirs EXCEPT ![call[c].id] = @ \ {f}]
    /\ UNCHANGED <<fileVars, store, up, loaded, records, tail, call, drawn, promised, early, launched>>

RemoveEnds(c) ==
    /\ At(c, "delete", "removing")
    /\ dirs[call[c].id] \cap Files = {}
    /\ dirs' = [dirs EXCEPT ![call[c].id] = {}]
    /\ Persist(c)
    /\ UNCHANGED <<fileVars, store, up, loaded, records, drawn, launched>>

RemoveFails(c) ==
    /\ At(c, "delete", "removing")
    /\ Spend("faults")
    /\ Reply(c)
    /\ UNCHANGED <<fileVars, up, loaded, records, tail, dirs, drawn, promised, early, launched>>

\* A launch looks up one extension after the other and verifies its files, which takes
\* an await for each; what comes between two of them may delete the extension.
Ready(c) == At(c, "launch", "begun") \/ (At(c, "launch", "reading") /\ call[c].read = Files)
Verified(c) == IF call[c].at = "begun" THEN {} ELSE call[c].done \cup {call[c].id}
PassedOver(ids) == \A i \in ids : ~Missing(i) /\ ~records[i].on

LooksAt(c, id, skipped) ==
    [call[c] EXCEPT !.at = "reading", !.id = id, !.read = {},
                    !.todo = call[c].todo \ ({id} \cup skipped), !.done = Verified(c)]

\* The next one that is enabled.
LaunchNext(c, id, skipped) ==
    /\ Ready(c)
    /\ {id} \cup skipped \subseteq call[c].todo /\ id \notin skipped
    /\ PassedOver(skipped)
    /\ ~Missing(id) /\ records[id].on
    /\ call' = [call EXCEPT ![c] = LooksAt(c, id, skipped)]
    /\ UNCHANGED <<fileVars, store, up, loaded, records, tail, dirs, drawn, promised, early,
                   launched>>

\* One is not there, or made for another browser, or named like one verified before.
LaunchDeclines(c) ==
    /\ Ready(c)
    /\ ~PassedOver(call[c].todo) \/ call[c].done # {}
    /\ Declines(c)

\* The archive is hashed first, then the unpacked files.
LaunchReads(c, f) ==
    /\ At(c, "launch", "reading")
    /\ f \in (dirs[call[c].id] \cap Files) \ call[c].read
    /\ f # "package" => "package" \in call[c].read
    /\ call' = [call EXCEPT ![c].read = @ \cup {f}]
    /\ UNCHANGED <<fileVars, store, up, loaded, records, tail, dirs, drawn, promised, early,
                   launched>>

\* A file is gone before it could be read, or not listed any more.
IntegrityFails(c) ==
    /\ At(c, "launch", "reading")
    /\ \E f \in (Files \ dirs[call[c].id]) \ call[c].read :
           f # "package" => "package" \in call[c].read
    /\ Declines(c)

LaunchEnds(c) ==
    /\ Ready(c)
    /\ PassedOver(call[c].todo)
    /\ launched' = launched \cup {[whole |-> Files \subseteq dirs[i], deleted |-> Missing(i)] :
                                  i \in Verified(c)}
    /\ Reply(c)
    /\ UNCHANGED <<fileVars, store, up, loaded, records, tail, dirs, drawn, promised, early>>

-----------------------------------------------------------------------------
\* The chain: each link writes the memory as it is when its turn comes.
WriteBegins ==
    /\ up /\ tail # <<>>
    /\ WriteStarts(records)
    /\ UNCHANGED <<store, up, loaded, records, tail, call, dirs, drawn, promised, early, launched>>

Others(c) == {d \in Clients \ {c} : call[d] # NoCall /\ call[d].op \notin {"launch"}
                                      /\ call[d].id = call[c].id}

\* The call is answered.  What it left is settled unless another call is at it or
\* has changed the record since it was written.
WriteEnds ==
    LET c == Head(tail) IN
    /\ up /\ tail # <<>>
    /\ \E ok \in BOOLEAN : WriteCommits(ok)
    /\ tail' = Tail(tail)
    /\ IF c = None THEN UNCHANGED <<call, promised>>
       ELSE /\ Reply(c)
            /\ promised' = IF Others(c) # {} \/ records[call[c].id] # tmp.data[call[c].id] THEN promised
                           ELSE [promised EXCEPT ![call[c].id] = records[call[c].id]]
    /\ UNCHANGED <<store, up, loaded, records, dirs, drawn, early, launched>>

\* The caller gets the error; memory keeps the change for the next write.
WriteFails ==
    LET c == Head(tail) IN
    /\ up /\ tail # <<>> /\ c # None
    /\ Spend("faults")
    /\ WriteRejects
    /\ tail' = Tail(tail)
    /\ Reply(c)
    /\ UNCHANGED <<up, loaded, records, dirs, drawn, promised, early, launched>>

Dies(ok) ==
    /\ up' = FALSE
    /\ WriteAbandoned(ok)
    /\ tail' = <<>>
    /\ call' = [c \in Clients |-> NoCall]
    /\ records' = [i \in Ids |-> None]
    /\ loaded' = FALSE
    /\ UNCHANGED <<dirs, drawn, promised, early, launched>>

\* Nobody handles the error of a write that nobody awaits: the process ends.
UnhandledRejection ==
    /\ up /\ tail # <<>> /\ Head(tail) = None /\ tmp # Absent
    /\ Spend("faults")
    /\ Dies(TRUE)

Crash == up /\ Spend("crashes") /\ \E ok \in BOOLEAN : Dies(ok)

\* Team and extensions are read before the server listens, an extension only if
\* its directory is there; the proxies are read by the first call.
Restart ==
    /\ ~up
    /\ up' = TRUE
    /\ loaded' = ~Is("proxies")
    /\ records' = IF Is("proxies") \/ ReadJson = Absent THEN records
                  ELSE [i \in Ids |-> IF Is("extensions") /\ dirs[i] = {}
                                      THEN None ELSE ReadJson.data[i]]
    /\ UNCHANGED <<fileVars, store, tail, call, dirs, drawn, promised, early, launched>>

-----------------------------------------------------------------------------
CallStep(c) ==
    \/ LoadApplies(c)
    \/ Create(c) \/ CreateFails(c)
    \/ (\E on \in BOOLEAN : Update(c, on)) \/ UpdateDeclines(c)
    \/ DeleteProxy(c) \/ DeleteDeclines(c)
    \/ CheckBegins(c) \/ CheckEnds(c) \/ CheckDeclines(c)
    \/ ImportBegins(c) \/ ImportKnown(c) \/ ImportEnds(c)
    \/ RemoveBegins(c) \/ (\E f \in Files : RemoveFile(c, f)) \/ RemoveEnds(c)
    \/ (\E id \in Ids, skipped \in SUBSET Ids : LaunchNext(c, id, skipped))
    \/ LaunchDeclines(c) \/ (\E f \in Files : LaunchReads(c, f)) \/ IntegrityFails(c)
    \/ LaunchEnds(c)

StoresProgress == (\E c \in Clients : CallStep(c)) \/ WriteBegins \/ WriteEnds

StoresNext ==
    \/ StoresProgress
    \/ \E c \in Clients, op \in {"create", "update", "delete", "check", "launch"}, id \in Ids,
          others \in SUBSET Ids : Arrive(c, op, id, others)
    \/ \E k \in Ids : Authenticate(k)
    \/ \E c \in Clients : ImportFails(c) \/ RemoveFails(c)
    \/ WriteFails \/ UnhandledRejection \/ Crash \/ Restart

-----------------------------------------------------------------------------
\* What an acknowledged call left behind is in the file that a restart reads, and
\* in memory, whatever fails or dies afterwards.  One exposure is left out: the
\* proxy pool says it is loaded before it is, and a record created meanwhile is
\* written to the file without the others.
AcknowledgedSurvives ==
    \A id \in Ids : promised[id] # Open /\ ~early =>
        /\ ReadJson # Absent /\ ReadJson.data[id] = promised[id]
        /\ up /\ loaded /\ ~Loading => records[id] = promised[id]

\* A key whose revocation was acknowledged, or whose member was suspended, never
\* authenticates again, also after a crash.
RevokedStaysOut ==
    \A k \in Ids : Parent(k) # None =>
        \A r \in {promised[k], promised[Parent(k)]} :
            r \notin {Open, None} /\ ~r.on => ~Authenticates(k)

\* A browser only ever gets the complete files of an extension, although a removal
\* takes them one by one and a crash can leave the rest of them with their record.  The
\* one exception: the extension has been deleted since the launch looked it up.
LaunchedWhole == \A l \in launched : l.whole \/ l.deleted
=============================================================================
