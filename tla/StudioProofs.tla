------------------------------ MODULE StudioProofs ------------------------------
(* What the parts of the Studio promise, for every value of the constants: the      *)
(* stores keep what they acknowledged, no acknowledged profile is lost and every     *)
(* running session can be found, and what comes in order is done in order.           *)
EXTENDS Studio, FiniteSetTheorems, SequenceTheorems, TLAPS

-----------------------------------------------------------------------------
(* The stores.  What a call has been told is in the file, in the version that is     *)
(* being written and in memory, until another call begins to change it.              *)

Recs == [rev : Nat, on : BOOLEAN, probed : Nat \cup {None}]
Values == Recs \cup {None}
Memories == [Ids -> Values]
StoreRecs == [kind : {"proxies", "team", "extensions"}, calls : Nat, uses : Nat, faults : Nat,
              crashes : Nat]
CallRecs == [op : {"create", "update", "delete", "check", "launch"}, id : Ids, saw : Values,
             todo : SUBSET Ids, done : SUBSET Ids, read : SUBSET Record!Files,
             at : {"loading", "begun", "saving", "probing", "unpacking", "removing", "reading"}]
Directories == SUBSET Record!Entries
Versions == {Record!Absent} \cup [kind : {"whole"}, data : Memories]

UnderWay(c) == call[c] # Record!NoCall

StoresTyped ==
    /\ store \in StoreRecs /\ up \in BOOLEAN /\ loaded \in BOOLEAN /\ early \in BOOLEAN
    /\ records \in Memories /\ writeTail \in Seq(Clients \cup {None})
    /\ call \in [Clients -> {Record!NoCall} \cup CallRecs]
    /\ dirs \in [Ids -> Directories]
    /\ promised \in [Ids -> Values \cup {Record!Open}]
    /\ file \in Versions /\ tmp \in Versions
    /\ \A c \in Clients : UnderWay(c) /\ call[c].at = "probing" => call[c].saw \in Recs
    /\ \A c \in Clients : UnderWay(c) /\ call[c].at = "reading" => call[c].op = "launch"

\* A write under way has a waiting call, and there is a backup only of a file.
FilesFit ==
    /\ file = Record!Absent => bak = Record!Absent
    /\ tmp # Record!Absent => up /\ writeTail # <<>>

\* Before the file has been read, nothing is in memory and nothing happens, except
\* in the proxy pool, which says that it is loaded too early.
Phases ==
    /\ ~up => ~loaded
    /\ ~loaded => /\ writeTail = <<>>
                  /\ \A i \in Ids : records[i] = None
                  /\ \A c \in Clients : ~UnderWay(c)
    /\ up /\ store.kind # "proxies" => loaded
    /\ early \/ Record!Loading => store.kind = "proxies"
    /\ Record!Loading /\ ~early => writeTail = <<>> /\ \A i \in Ids : records[i] = None
    /\ \A c, d \in Clients : UnderWay(c) /\ UnderWay(d) /\ call[c].at = "loading" /\ call[d].at = "loading"
          => c = d

\* Whoever waits for a write waits for one.
Chained ==
    /\ \A i \in 1 .. Len(writeTail) : writeTail[i] # None =>
          UnderWay(writeTail[i]) /\ call[writeTail[i]].at = "saving"
    /\ \A i, j \in 1 .. Len(writeTail) : writeTail[i] # None /\ writeTail[i] = writeTail[j] => i = j

\* An id that was not drawn is nowhere.
Undrawn ==
    \A i \in Ids \ drawn :
        /\ promised[i] = Record!Open /\ records[i] = None
        /\ file # Record!Absent => file.data[i] = None
        /\ tmp # Record!Absent => tmp.data[i] = None
        /\ \A c \in Clients : UnderWay(c) /\ call[c].at # "reading" => call[c].id # i

\* Nobody can be at a record while its directory is being filled.
Unseen(c) ==
    /\ promised[call[c].id] = Record!Open /\ records[call[c].id] = None
    /\ \A d \in Clients : d # c /\ UnderWay(d) /\ call[d].id = call[c].id =>
           call[d].op # "create" /\ call[d].at \in {"begun", "reading"}

Packages ==
    store.kind = "extensions" =>
        /\ \A c \in Clients : UnderWay(c) => call[c].op # "check"
        /\ \A i \in Ids : records[i] # None \/ promised[i] \notin {Record!Open, None} =>
               dirs[i] # {}
        /\ \A c \in Clients : UnderWay(c) /\ call[c].op = "create" /\ call[c].at \in {"begun", "unpacking"} =>
               Unseen(c)
        /\ \A c \in Clients : UnderWay(c) /\ call[c].op = "delete" /\ call[c].at = "removing" =>
               promised[call[c].id] = Record!Open /\ records[call[c].id] = None

Settled ==
    \A i \in Ids : promised[i] # Record!Open /\ ~early =>
        /\ file # Record!Absent /\ file.data[i] = promised[i]
        /\ tmp # Record!Absent => tmp.data[i] = promised[i]
        /\ up /\ loaded /\ ~Record!Loading => records[i] = promised[i]

StoresInv == StoresTyped /\ FilesFit /\ Phases /\ Chained /\ Undrawn /\ Packages /\ Settled

-----------------------------------------------------------------------------
\* What a call that is under way consists of.
LEMMA CallKinds ==
  ASSUME StoresTyped, NEW c \in Clients
  PROVE  /\ UnderWay(c) <=> call[c] \in CallRecs
         /\ \A op, where : Record!At(c, op, where) /\ op # "none" =>
                up /\ UnderWay(c) /\ call[c].op = op /\ call[c].at = where
         /\ UnderWay(c) => call[c].id \in Ids /\ call[c].saw \in Values
  <1>1. Record!NoCall.op = "none" /\ Record!NoCall \notin CallRecs
    BY DEF Record!NoCall, CallRecs
  <1>2. UnderWay(c) <=> call[c] \in CallRecs
    BY <1>1 DEF UnderWay, StoresTyped
  <1>3. call[c] \in CallRecs => call[c].id \in Ids /\ call[c].saw \in Values
    BY DEF CallRecs
  <1> QED
    BY <1>1, <1>2, <1>3 DEF Record!At, UnderWay

LEMMA AtMoved ==
  ASSUME NEW r \in CallRecs,
         NEW w \in {"loading", "begun", "saving", "probing", "unpacking", "removing", "reading"}
  PROVE  \E v \in CallRecs : v = [r EXCEPT !.at = w] /\ v.op = r.op /\ v.id = r.id /\ v.at = w
  <1>1. /\ [r EXCEPT !.at = w] \in CallRecs /\ [r EXCEPT !.at = w].at = w
        /\ [r EXCEPT !.at = w].op = r.op /\ [r EXCEPT !.at = w].id = r.id
    BY DEF CallRecs
  <1> QED
    BY <1>1

LEMMA KindKept ==
  ASSUME store \in StoreRecs, NEW what \in {"calls", "uses", "faults", "crashes"}, Record!Spend(what)
  PROVE  store' \in StoreRecs /\ store'.kind = store.kind
  BY DEF Record!Spend, StoreRecs

\* A call that is not being saved has no place in the chain.
LEMMA NotWaiting ==
  ASSUME StoresTyped, Chained, NEW c \in Clients, UnderWay(c), call[c].at # "saving"
  PROVE  \A i \in 1 .. Len(writeTail) : writeTail[i] \in Clients \cup {None} /\ writeTail[i] # c
  <1>1. \A i \in 1 .. Len(writeTail) : writeTail[i] \in Clients \cup {None}
    BY DEF StoresTyped
  <1>2. c # None
    BY StoresAssumption
  <1> QED
    BY <1>1, <1>2 DEF Chained

\* How a call goes on without changing a record.
Moves(c, v) ==
    \/ v = Record!NoCall
    \/ v.op = "launch" /\ v.at = "reading" /\ call[c].op = "launch"
    \/ /\ v.op = call[c].op /\ v.id = call[c].id /\ call[c].at # "reading"
       /\ \/ v.at = "probing" /\ v.saw \in Recs /\ records[call[c].id] # None
          \/ v.at = "unpacking" /\ v.op = "create" /\ call[c].at = "begun"
          \/ v.at = "removing" /\ v = call[c]

\* A call goes on or ends and the records stay as they are.
LEMMA CallMoves ==
  ASSUME StoresInv, NEW c \in Clients, UnderWay(c), call[c].at \notin {"saving", "loading"},
         NEW v \in {Record!NoCall} \cup CallRecs, NEW w \in Directories,
         call' = [call EXCEPT ![c] = v],
         Moves(c, v),
         dirs' = [dirs EXCEPT ![call[c].id] = w],
         store.kind = "extensions" /\ w # dirs[call[c].id] => promised[call[c].id] = Record!Open /\ records[call[c].id] = None,
         store' \in StoreRecs, store'.kind = store.kind,
         UNCHANGED <<file, bak, tmp, up, loaded, records, writeTail, drawn, promised, early>>
  PROVE  StoresInv'
  <1>1. /\ StoresTyped /\ FilesFit /\ Phases /\ Chained /\ Undrawn /\ Packages /\ Settled
        /\ call[c].id \in Ids
    BY CallKinds DEF StoresInv
  <1>2. /\ call' \in [Clients -> {Record!NoCall} \cup CallRecs] /\ call'[c] = v
        /\ \A d \in Clients \ {c} : call'[d] = call[d] /\ (UnderWay(d)' <=> UnderWay(d))
        /\ UnderWay(c)' <=> v # Record!NoCall
    BY <1>1 DEF StoresTyped, UnderWay
  <1>0. v # Record!NoCall =>
           /\ v.op = call[c].op /\ v.at \in {"probing", "reading", "unpacking", "removing"}
           /\ v.at = "reading" => v.op = "launch"
           /\ v.at # "reading" => v.id = call[c].id /\ call[c].at # "reading"
           /\ v.at = "probing" => v.saw \in Recs /\ records[call[c].id] # None
           /\ v.at = "removing" => v = call[c]
           /\ v.at = "unpacking" => call[c].op = "create" /\ call[c].at = "begun"
    BY DEF Moves
  <1>3. StoresTyped'
    BY <1>0, <1>1, <1>2 DEF StoresTyped
  <1>4. Record!Loading' <=> Record!Loading
    BY <1>0, <1>1, <1>2 DEF Record!Loading, UnderWay
  <1>5. FilesFit' /\ Settled'
    BY <1>1, <1>4 DEF FilesFit, Settled
  <1>6. Phases'
    BY <1>0, <1>1, <1>2, <1>4 DEF Phases
  <1>7. Chained'
    <2>1. \A i \in 1 .. Len(writeTail) : writeTail[i] \in Clients \cup {None} /\ writeTail[i] # c
      BY <1>1, NotWaiting
    <2> QED
      BY <1>0, <1>1, <1>2, <2>1 DEF Chained
  <1>8. Undrawn'
    BY <1>0, <1>1, <1>2 DEF Undrawn
  <1>9. Packages'
    <2> SUFFICES ASSUME store.kind = "extensions"
                 PROVE  /\ \A d \in Clients : UnderWay(d)' => call'[d].op # "check"
                        /\ \A i \in Ids : records[i] # None \/ promised[i] \notin {Record!Open, None} =>
                              dirs'[i] # {}
                        /\ \A d \in Clients : UnderWay(d)' /\ call'[d].op = "create"
                              /\ call'[d].at \in {"begun", "unpacking"} => Unseen(d)'
                        /\ \A d \in Clients : UnderWay(d)' /\ call'[d].op = "delete" /\ call'[d].at = "removing" =>
                              promised[call'[d].id] = Record!Open /\ records[call'[d].id] = None
      BY DEF Packages
    <2>1. \A d \in Clients : UnderWay(d)' => call'[d].op # "check"
      BY <1>0, <1>1, <1>2 DEF Packages
    <2>2. \A i \in Ids : records[i] # None \/ promised[i] \notin {Record!Open, None} => dirs'[i] # {}
      BY <1>1 DEF Packages, StoresTyped
    <2>3. ASSUME NEW d \in Clients, UnderWay(d)', call'[d].op = "create", call'[d].at \in {"begun", "unpacking"}
          PROVE  Unseen(d)'
      <3>1. /\ UnderWay(d) /\ call[d].op = "create" /\ call[d].at \in {"begun", "unpacking"}
            /\ call'[d].id = call[d].id
        BY <1>0, <1>1, <1>2, <2>3
      <3>2. Unseen(d)
        BY <1>1, <3>1 DEF Packages
      <3>3. ASSUME d # c, v # Record!NoCall, v.at # "reading" PROVE v.id # call[d].id
        <4>1. v.id = call[c].id /\ v.op = call[c].op /\ call[c].at # "reading"
          BY <1>0, <3>3
        <4>2. CASE v.at = "removing" \/ v.at = "unpacking"
          BY <1>0, <1>1, <3>2, <3>3, <4>1, <4>2 DEF Unseen
        <4>3. CASE v.at = "probing"
          BY <1>0, <1>1, <3>2, <3>3, <4>1, <4>3 DEF Unseen
        <4> QED
          BY <1>0, <3>3, <4>2, <4>3
      <3>4. v # Record!NoCall /\ v.at = "reading" => v.op # "create"
        BY <1>0
      <3> QED
        BY <1>2, <3>1, <3>2, <3>3, <3>4 DEF Unseen
    <2>4. \A d \in Clients : UnderWay(d)' /\ call'[d].op = "delete" /\ call'[d].at = "removing" =>
             promised[call'[d].id] = Record!Open /\ records[call'[d].id] = None
      BY <1>0, <1>1, <1>2 DEF Packages
    <2> QED
      BY <2>1, <2>2, <2>3, <2>4
  <1> QED
    BY <1>3, <1>5, <1>6, <1>7, <1>8, <1>9 DEF StoresInv

\* A call changes its record, and waits for the write or goes on removing files.
LEMMA CallChanges ==
  ASSUME StoresInv, NEW c \in Clients, UnderWay(c), call[c].at \notin {"saving", "loading", "reading"},
         NEW where \in {"saving", "removing"}, NEW val \in Values, NEW w \in Directories,
         call' = [call EXCEPT ![c].at = where],
         records' = [records EXCEPT ![call[c].id] = val],
         promised' = [promised EXCEPT ![call[c].id] = Record!Open],
         dirs' = [dirs EXCEPT ![call[c].id] = w],
         early' = (early \/ Record!Loading),
         writeTail' = IF where = "saving" THEN Append(writeTail, c) ELSE writeTail,
         where = "removing" => store.kind = "extensions" /\ val = None /\ call[c].op = "delete",
         call[c].at = "begun" => records[call[c].id] # None \/ call[c].op = "create",
         store.kind = "extensions" =>
             /\ val = None \/ w # {}
             /\ records[call[c].id] # None \/ val = None \/ (call[c].op = "create" /\ call[c].at = "unpacking"),
         UNCHANGED <<file, bak, tmp, store, up, loaded, drawn, launched>>
  PROVE  StoresInv'
  <1>1. /\ StoresTyped /\ FilesFit /\ Phases /\ Chained /\ Undrawn /\ Packages /\ Settled
        /\ call[c].id \in Ids /\ call[c] \in CallRecs
    BY CallKinds DEF StoresInv
  <1>2. PICK v \in CallRecs : v.op = call[c].op /\ v.id = call[c].id /\ v.at = where /\ v = [call[c] EXCEPT !.at = where]
    <2>1. PICK r \in CallRecs : r = call[c]
      BY <1>1
    <2>2. where \in {"loading", "begun", "saving", "probing", "unpacking", "removing", "reading"}
      OBVIOUS
    <2>3. /\ [r EXCEPT !.at = where] \in CallRecs /\ [r EXCEPT !.at = where].at = where
          /\ [r EXCEPT !.at = where].op = r.op /\ [r EXCEPT !.at = where].id = r.id
      BY <2>2 DEF CallRecs
    <2> QED
      BY <2>1, <2>3
  <1>3. /\ call' \in [Clients -> {Record!NoCall} \cup CallRecs] /\ call'[c] = v
        /\ \A d \in Clients \ {c} : call'[d] = call[d]
    BY <1>1, <1>2 DEF StoresTyped
  <1>4. \A d \in Clients : UnderWay(d)' <=> UnderWay(d)
    BY <1>2, <1>3 DEF UnderWay, Record!NoCall, CallRecs
  <1>5. StoresTyped'
    <2>1. early' \in BOOLEAN /\ writeTail' \in Seq(Clients \cup {None})
      BY <1>1 DEF StoresTyped, Record!Loading
    <2>2. records' \in Memories /\ promised' \in [Ids -> Values \cup {Record!Open}]
          /\ dirs' \in [Ids -> Directories]
      BY <1>1 DEF StoresTyped, Memories
    <2>3. \A d \in Clients : UnderWay(d)' =>
             /\ call'[d].at = "probing" => call'[d].saw \in Recs
             /\ call'[d].at = "reading" => call'[d].op = "launch"
      BY <1>1, <1>2, <1>3, <1>4 DEF StoresTyped
    <2> QED
      BY <1>1, <1>3, <2>1, <2>2, <2>3 DEF StoresTyped
  <1>6. Record!Loading' <=> Record!Loading
    BY <1>1, <1>2, <1>3, <1>4 DEF Record!Loading, UnderWay
  <1>7. /\ \A i \in Ids \ {call[c].id} : records'[i] = records[i] /\ promised'[i] = promised[i] /\ dirs'[i] = dirs[i]
        /\ records'[call[c].id] = val /\ promised'[call[c].id] = Record!Open /\ dirs'[call[c].id] = w
    BY <1>1 DEF StoresTyped, Memories
  <1>8. FilesFit'
    BY <1>1 DEF FilesFit, StoresTyped
  <1>9. loaded /\ up
    BY <1>1 DEF Phases, StoresTyped
  <1>10. Phases'
    <2>1. early' \/ Record!Loading' => store.kind = "proxies"
      BY <1>1, <1>6 DEF Phases
    <2>2. ~(Record!Loading' /\ ~early')
      BY <1>6
    <2>3. \A d, e \in Clients : /\ UnderWay(d)' /\ UnderWay(e)'
                               /\ call'[d].at = "loading" /\ call'[e].at = "loading" => d = e
      BY <1>1, <1>2, <1>3, <1>4 DEF Phases
    <2> QED
      BY <1>9, <2>1, <2>2, <2>3 DEF Phases
  <1>11. Chained'
    <2>1. \A i \in 1 .. Len(writeTail) : writeTail[i] \in Clients \cup {None} /\ writeTail[i] # c
      BY <1>1, NotWaiting
    <2>2. CASE where = "removing"
      BY <1>1, <1>3, <1>4, <2>1, <2>2 DEF Chained
    <2>3. CASE where = "saving"
      <3>1. /\ Len(writeTail') = Len(writeTail) + 1 /\ writeTail'[Len(writeTail) + 1] = c
            /\ \A i \in 1 .. Len(writeTail) : writeTail'[i] = writeTail[i]
            /\ Len(writeTail) \in Nat
        BY <1>1, <2>3 DEF StoresTyped
      <3> QED
        BY <1>1, <1>2, <1>3, <1>4, <2>1, <2>3, <3>1 DEF Chained
    <2> QED
      BY <2>2, <2>3
  <1>12. Undrawn'
    <2>1. call[c].id \in drawn
      BY <1>1 DEF Undrawn
    <2> QED
      BY <1>1, <1>2, <1>3, <1>4, <1>7, <2>1 DEF Undrawn
  <1>13. Settled'
    BY <1>1, <1>6, <1>7 DEF Settled
  <1>14. Packages'
    <2> SUFFICES ASSUME store.kind = "extensions" PROVE Packages'
      BY DEF Packages
    <2>1. \A d \in Clients : UnderWay(d)' => call'[d].op # "check"
      BY <1>1, <1>2, <1>3, <1>4 DEF Packages
    <2>2. \A i \in Ids : records'[i] # None \/ promised'[i] \notin {Record!Open, None} => dirs'[i] # {}
      BY <1>1, <1>7 DEF Packages
    <2>3. ASSUME NEW d \in Clients, UnderWay(d)', call'[d].op = "create", call'[d].at \in {"begun", "unpacking"}
          PROVE  Unseen(d)'
      <3>1. /\ d # c /\ UnderWay(d) /\ call[d].op = "create" /\ call[d].at \in {"begun", "unpacking"}
            /\ call'[d] = call[d]
        BY <1>1, <1>2, <1>3, <1>4, <2>3
      <3>2. Unseen(d) /\ call[d].id \in Ids
        BY <1>1, <3>1, CallKinds DEF Packages
      <3>3. call[c].id # call[d].id
        BY <1>1, <3>1, <3>2 DEF Unseen
      <3> QED
        BY <1>2, <1>3, <1>4, <1>7, <3>1, <3>2, <3>3 DEF Unseen
    <2>4. ASSUME NEW d \in Clients, UnderWay(d)', call'[d].op = "delete", call'[d].at = "removing"
          PROVE  promised'[call'[d].id] = Record!Open /\ records'[call'[d].id] = None
      <3>1. CASE d = c
        BY <1>2, <1>3, <1>7, <2>4, <3>1
      <3>2. CASE d # c
        <4>1. UnderWay(d) /\ call'[d] = call[d] /\ call[d].id \in Ids
          BY <1>1, <1>3, <1>4, <2>4, <3>2, CallKinds
        <4>2. promised[call[d].id] = Record!Open /\ records[call[d].id] = None
          BY <1>1, <2>4, <4>1 DEF Packages
        <4>3. ASSUME call[d].id = call[c].id PROVE val = None
          <5>1. ASSUME call[c].op = "create", call[c].at = "unpacking" PROVE FALSE
            <6>1. Unseen(c)
              BY <1>1, <5>1 DEF Packages
            <6> QED
              BY <2>4, <3>2, <4>1, <4>3, <6>1 DEF Unseen
          <5> QED
            BY <4>2, <4>3, <5>1
        <4> QED
          BY <1>7, <4>1, <4>2, <4>3
      <3> QED
        BY <3>1, <3>2
    <2> QED
      BY <2>1, <2>2, <2>3, <2>4 DEF Packages
  <1> QED
    BY <1>5, <1>8, <1>10, <1>11, <1>12, <1>13, <1>14 DEF StoresInv

\* Nothing is done to the directories.
LEMMA SameDirs ==
  ASSUME StoresTyped, NEW i \in Ids
  PROVE  dirs = [dirs EXCEPT ![i] = dirs[i]] /\ dirs[i] \in Directories
  BY DEF StoresTyped

LEMMA CallDeclines ==
  ASSUME StoresInv, NEW c \in Clients, UnderWay(c), call[c].at \notin {"saving", "loading"}, Record!Declines(c)
  PROVE  StoresInv'
  <1>1. StoresTyped /\ call[c].id \in Ids
    BY CallKinds DEF StoresInv
  <1>2. PICK w \in Directories : dirs = [dirs EXCEPT ![call[c].id] = w] /\ w = dirs[call[c].id]
    BY <1>1, SameDirs
  <1>3. /\ call' = [call EXCEPT ![c] = Record!NoCall] /\ dirs' = dirs
        /\ store' \in StoreRecs /\ store'.kind = store.kind
        /\ UNCHANGED <<file, bak, tmp, up, loaded, records, writeTail, drawn, promised, early>>
    BY <1>1 DEF Record!Declines, Record!Reply, Record!fileVars, StoresTyped
  <1> QED
    BY <1>2, <1>3, CallMoves DEF Moves

\* Steps of a call that leave the records alone.
LEMMA CallLooks ==
  ASSUME StoresInv, NEW c \in Clients,
         \/ Record!CreateFails(c) \/ Record!UpdateDeclines(c) \/ Record!DeleteDeclines(c)
         \/ Record!CheckBegins(c) \/ Record!CheckDeclines(c) \/ Record!ImportKnown(c)
         \/ (\E id \in Ids, skipped \in SUBSET Ids : Record!LaunchNext(c, id, skipped))
         \/ Record!LaunchDeclines(c) \/ (\E f \in Record!Files : Record!LaunchReads(c, f))
         \/ Record!LaunchEnds(c) \/ Record!IntegrityFails(c) \/ Record!RemoveFails(c)
  PROVE  StoresInv'
  <1>1. StoresTyped
    BY DEF StoresInv
  <1>2. /\ \A op, where : Record!At(c, op, where) /\ op # "none" =>
               up /\ UnderWay(c) /\ call[c].op = op /\ call[c].at = where
        /\ UnderWay(c) => call[c] \in CallRecs /\ call[c].id \in Ids /\ call[c].saw \in Values
    BY <1>1, CallKinds
  <1>3. CASE \/ Record!CreateFails(c) \/ Record!UpdateDeclines(c) \/ Record!DeleteDeclines(c)
             \/ Record!CheckDeclines(c) \/ Record!ImportKnown(c) \/ Record!LaunchDeclines(c)
             \/ Record!IntegrityFails(c)
    <2>1. UnderWay(c) /\ call[c].at \notin {"saving", "loading"} /\ Record!Declines(c)
      BY <1>2, <1>3 DEF Record!CreateFails, Record!UpdateDeclines, Record!DeleteDeclines,
         Record!CheckDeclines, Record!ImportKnown, Record!LaunchDeclines, Record!IntegrityFails, Record!Ready
    <2> QED
      BY <2>1, CallDeclines
  <1>4. ASSUME UnderWay(c), call[c].at \notin {"saving", "loading"}, NEW v \in {Record!NoCall} \cup CallRecs,
               call' = [call EXCEPT ![c] = v],
               Moves(c, v),
               store' \in StoreRecs, store'.kind = store.kind,
               UNCHANGED <<file, bak, tmp, up, loaded, records, writeTail, drawn, promised, early, dirs>>
        PROVE  StoresInv'
    <2>1. PICK w \in Directories : dirs = [dirs EXCEPT ![call[c].id] = w] /\ w = dirs[call[c].id]
      BY <1>1, <1>2, <1>4, SameDirs
    <2>2. dirs' = [dirs EXCEPT ![call[c].id] = w]
      BY <1>4, <2>1
    <2> QED
      BY <1>4, <2>1, <2>2, CallMoves
  <1>5. CASE Record!CheckBegins(c)
    <2>1. /\ UnderWay(c) /\ call[c].at = "begun" /\ records[call[c].id] # None
          /\ call' = [call EXCEPT ![c].at = "probing", ![c].saw = records[call[c].id]]
          /\ UNCHANGED <<file, bak, tmp, store, up, loaded, records, writeTail, drawn, promised, early, dirs, launched>>
      BY <1>2, <1>5 DEF Record!CheckBegins, Record!Missing, Record!fileVars
    <2>2. records[call[c].id] \in Recs
      BY <1>1, <1>2, <2>1 DEF StoresTyped, Memories, Values
    <2>3. PICK v \in CallRecs : /\ v = [call[c] EXCEPT !.at = "probing", !.saw = records[call[c].id]]
                                /\ v.op = call[c].op /\ v.id = call[c].id /\ v.at = "probing" /\ v.saw \in Recs
      <3>1. PICK r \in CallRecs : r = call[c]
        BY <1>2, <2>1
      <3>2. PICK x \in Recs : x = records[call[c].id]
        BY <2>2
      <3>3. PICK v \in CallRecs : /\ v = [r EXCEPT !.at = "probing", !.saw = x]
                                  /\ v.op = r.op /\ v.id = r.id /\ v.at = "probing" /\ v.saw \in Recs
        <4>1. /\ [r EXCEPT !.at = "probing", !.saw = x] \in CallRecs
              /\ [r EXCEPT !.at = "probing", !.saw = x].at = "probing"
              /\ [r EXCEPT !.at = "probing", !.saw = x].op = r.op
              /\ [r EXCEPT !.at = "probing", !.saw = x].id = r.id
              /\ [r EXCEPT !.at = "probing", !.saw = x].saw = x
          BY DEF CallRecs, Values
        <4> QED
          BY <4>1
      <3> QED
        BY <3>1, <3>2, <3>3
    <2>4. call' = [call EXCEPT ![c] = v]
      BY <2>1, <2>3
    <2>5. Moves(c, v)
      BY <2>1, <2>3 DEF Moves
    <2> QED
      BY <1>1, <1>4, <2>1, <2>4, <2>5 DEF StoresTyped
  <1>6. ASSUME NEW id \in Ids, NEW skipped \in SUBSET Ids, Record!LaunchNext(c, id, skipped) PROVE StoresInv'
    <2>1. /\ call' = [call EXCEPT ![c] = Record!LooksAt(c, id, skipped)]
          /\ UnderWay(c) /\ call[c].op = "launch" /\ call[c].at \in {"begun", "reading"}
          /\ UNCHANGED <<file, bak, tmp, store, up, loaded, records, writeTail, drawn, promised, early, dirs, launched>>
      BY <1>2, <1>6 DEF Record!LaunchNext, Record!Ready, Record!fileVars
    <2>2. PICK v \in CallRecs : v = Record!LooksAt(c, id, skipped) /\ v.op = "launch" /\ v.at = "reading"
      <3>1. PICK r \in CallRecs : r = call[c]
        BY <1>2, <2>1
      <3>2. PICK done \in SUBSET Ids : done = Record!Verified(c)
        BY <1>2, <2>1, <3>1 DEF Record!Verified, CallRecs
      <3>3. PICK todo \in SUBSET Ids : todo = r.todo \ ({id} \cup skipped)
        BY DEF CallRecs
      <3>4. PICK v \in CallRecs : /\ v = [r EXCEPT !.at = "reading", !.id = id, !.read = {}, !.todo = todo, !.done = done]
                                  /\ v.op = r.op /\ v.at = "reading"
        <4>1. /\ [r EXCEPT !.at = "reading", !.id = id, !.read = {}, !.todo = todo, !.done = done] \in CallRecs
              /\ [r EXCEPT !.at = "reading", !.id = id, !.read = {}, !.todo = todo, !.done = done].op = r.op
              /\ [r EXCEPT !.at = "reading", !.id = id, !.read = {}, !.todo = todo, !.done = done].at = "reading"
          BY DEF CallRecs
        <4> QED
          BY <4>1
      <3> QED
        BY <2>1, <3>1, <3>2, <3>3, <3>4 DEF Record!LooksAt
    <2>3. call' = [call EXCEPT ![c] = v]
      BY <2>1, <2>2
    <2>4. Moves(c, v)
      BY <2>1, <2>2 DEF Moves
    <2> QED
      BY <1>1, <1>4, <2>1, <2>3, <2>4 DEF StoresTyped
  <1>7. ASSUME NEW f \in Record!Files, Record!LaunchReads(c, f) PROVE StoresInv'
    <2>1. /\ UnderWay(c) /\ call[c].op = "launch" /\ call[c].at = "reading"
          /\ call' = [call EXCEPT ![c].read = @ \cup {f}]
          /\ UNCHANGED <<file, bak, tmp, store, up, loaded, records, writeTail, drawn, promised, early, dirs, launched>>
      BY <1>2, <1>7 DEF Record!LaunchReads, Record!fileVars
    <2>2. PICK v \in CallRecs : v = [call[c] EXCEPT !.read = @ \cup {f}] /\ v.op = "launch" /\ v.at = "reading"
      <3>1. PICK r \in CallRecs : r = call[c]
        BY <1>2, <2>1
      <3>2. PICK read \in SUBSET Record!Files : read = r.read \cup {f}
        BY DEF CallRecs
      <3>3. PICK v \in CallRecs : v = [r EXCEPT !.read = read] /\ v.op = r.op /\ v.at = r.at
        <4>1. /\ [r EXCEPT !.read = read] \in CallRecs
              /\ [r EXCEPT !.read = read].op = r.op /\ [r EXCEPT !.read = read].at = r.at
          BY DEF CallRecs
        <4> QED
          BY <4>1
      <3> QED
        BY <2>1, <3>1, <3>2, <3>3
    <2>3. call' = [call EXCEPT ![c] = v]
      BY <2>1, <2>2
    <2>4. Moves(c, v)
      BY <2>1, <2>2 DEF Moves
    <2> QED
      BY <1>1, <1>4, <2>1, <2>3, <2>4 DEF StoresTyped
  <1>8. CASE Record!LaunchEnds(c)
    <2>1. /\ UnderWay(c) /\ call[c].at \in {"begun", "reading"} /\ call' = [call EXCEPT ![c] = Record!NoCall]
          /\ UNCHANGED <<file, bak, tmp, store, up, loaded, records, writeTail, drawn, promised, early, dirs>>
      BY <1>2, <1>8 DEF Record!LaunchEnds, Record!Ready, Record!Reply, Record!fileVars
    <2> QED
      BY <1>1, <1>4, <2>1 DEF StoresTyped, Moves
  <1>9. CASE Record!RemoveFails(c)
    <2>1. /\ UnderWay(c) /\ call[c].at = "removing" /\ call' = [call EXCEPT ![c] = Record!NoCall]
          /\ Record!Spend("faults")
          /\ UNCHANGED <<file, bak, tmp, up, loaded, records, writeTail, drawn, promised, early, dirs, launched>>
      BY <1>2, <1>9 DEF Record!RemoveFails, Record!Reply, Record!fileVars
    <2>2. store' \in StoreRecs /\ store'.kind = store.kind
      BY <1>1, <2>1, KindKept DEF StoresTyped
    <2> QED
      BY <1>4, <2>1, <2>2 DEF Moves
  <1> QED
    BY <1>3, <1>5, <1>6, <1>7, <1>8, <1>9

\* Steps of an import before its record is there, and of a removal after it is gone.
LEMMA CallUnpacks ==
  ASSUME StoresInv, NEW c \in Clients,
         \/ Record!ImportBegins(c) \/ Record!ImportFails(c)
         \/ \E f \in Record!Files : Record!RemoveFile(c, f)
  PROVE  StoresInv'
  <1>1. StoresTyped /\ Packages
    BY DEF StoresInv
  <1>2. /\ \A op, where : Record!At(c, op, where) /\ op # "none" =>
               up /\ UnderWay(c) /\ call[c].op = op /\ call[c].at = where
        /\ UnderWay(c) => call[c] \in CallRecs /\ call[c].id \in Ids
    BY <1>1, CallKinds
  <1>3. CASE Record!ImportBegins(c)
    <2>1. /\ UnderWay(c) /\ call[c].op = "create" /\ call[c].at = "begun" /\ store.kind = "extensions"
          /\ call' = [call EXCEPT ![c].at = "unpacking"]
          /\ UNCHANGED <<file, bak, tmp, store, up, loaded, records, writeTail, dirs, drawn, promised, early, launched>>
      BY <1>2, <1>3 DEF Record!ImportBegins, Record!Is, Record!fileVars
    <2>2. PICK v \in CallRecs : v = [call[c] EXCEPT !.at = "unpacking"] /\ v.op = call[c].op /\ v.id = call[c].id /\ v.at = "unpacking"
      <3>1. PICK r \in CallRecs : r = call[c]
        BY <1>2, <2>1
      <3> QED
        BY <3>1, AtMoved
    <2>3. call' = [call EXCEPT ![c] = v]
      BY <2>1, <2>2
    <2>4. PICK w \in Directories : dirs = [dirs EXCEPT ![call[c].id] = w] /\ w = dirs[call[c].id]
      BY <1>1, <1>2, <2>1, SameDirs
    <2>5. dirs' = [dirs EXCEPT ![call[c].id] = w] /\ store' \in StoreRecs /\ store'.kind = store.kind
      BY <1>1, <2>1, <2>4 DEF StoresTyped
    <2>6. Moves(c, v)
      BY <2>1, <2>2 DEF Moves
    <2> QED
      BY <2>1, <2>2, <2>3, <2>4, <2>5, <2>6, CallMoves
  <1>4. CASE Record!ImportFails(c)
    <2>1. /\ UnderWay(c) /\ call[c].op = "create" /\ call[c].at = "unpacking" /\ Record!Spend("faults")
          /\ call' = [call EXCEPT ![c] = Record!NoCall]
          /\ UNCHANGED <<file, bak, tmp, up, loaded, records, writeTail, dirs, drawn, promised, early, launched>>
      BY <1>2, <1>4 DEF Record!ImportFails, Record!Reply, Record!fileVars
    <2>2. PICK w \in Directories : dirs = [dirs EXCEPT ![call[c].id] = w] /\ w = dirs[call[c].id]
      BY <1>1, <1>2, <2>1, SameDirs
    <2>3. dirs' = [dirs EXCEPT ![call[c].id] = w] /\ store' \in StoreRecs /\ store'.kind = store.kind
      BY <1>1, <2>1, <2>2, KindKept DEF StoresTyped
    <2> QED
      BY <2>1, <2>2, <2>3, CallMoves DEF Moves
  <1>5. ASSUME NEW f \in Record!Files, Record!RemoveFile(c, f) PROVE StoresInv'
    <2>1. /\ UnderWay(c) /\ call[c].op = "delete" /\ call[c].at = "removing" /\ call' = call
          /\ dirs' = [dirs EXCEPT ![call[c].id] = dirs[call[c].id] \ {f}]
          /\ UNCHANGED <<file, bak, tmp, store, up, loaded, records, writeTail, drawn, promised, early, launched>>
      BY <1>2, <1>5 DEF Record!RemoveFile, Record!fileVars
    <2>2. PICK v \in CallRecs : v = call[c]
      BY <1>2, <2>1
    <2>3. call' = [call EXCEPT ![c] = v]
      BY <1>1, <2>1, <2>2 DEF StoresTyped
    <2>4. PICK w \in Directories : w = dirs[call[c].id] \ {f}
      BY <1>1, <1>2, <2>1 DEF StoresTyped, Directories
    <2>5. store.kind = "extensions" => promised[call[c].id] = Record!Open /\ records[call[c].id] = None
      BY <1>1, <2>1 DEF Packages
    <2>6. dirs' = [dirs EXCEPT ![call[c].id] = w] /\ store' \in StoreRecs /\ store'.kind = store.kind
      BY <1>1, <2>1, <2>4 DEF StoresTyped
    <2>7. Moves(c, v)
      BY <2>1, <2>2 DEF Moves
    <2> QED
      BY <2>1, <2>2, <2>3, <2>5, <2>6, <2>7, CallMoves
  <1> QED
    BY <1>3, <1>4, <1>5

\* Steps of a call that change its record.
LEMMA CallWrites ==
  ASSUME StoresInv, NEW c \in Clients,
         \/ Record!Create(c) \/ (\E on \in BOOLEAN : Record!Update(c, on)) \/ Record!DeleteProxy(c)
         \/ Record!CheckEnds(c) \/ Record!ImportEnds(c) \/ Record!RemoveBegins(c) \/ Record!RemoveEnds(c)
  PROVE  StoresInv'
  <1>1. StoresTyped /\ Phases /\ Packages
    BY DEF StoresInv
  <1>2. /\ \A op, where : Record!At(c, op, where) /\ op # "none" =>
               up /\ UnderWay(c) /\ call[c].op = op /\ call[c].at = where
        /\ UnderWay(c) => call[c] \in CallRecs /\ call[c].id \in Ids
    BY <1>1, CallKinds
  <1>3. Record!Record(0, TRUE) \in Values /\ None \in Values
    BY DEF Record!Record, Values, Recs
  \* A store without directories.
  <1>4. ASSUME UnderWay(c), call[c].at \notin {"saving", "loading", "reading"}, NEW val \in Values, Record!Persist(c),
               records' = [records EXCEPT ![call[c].id] = val],
               call[c].at = "begun" => records[call[c].id] # None \/ call[c].op = "create",
               store.kind = "extensions" =>
                   /\ val = None \/ dirs[call[c].id] # {}
                   /\ records[call[c].id] # None \/ val = None,
               UNCHANGED <<file, bak, tmp, store, up, loaded, dirs, drawn, launched>>
        PROVE  StoresInv'
    <2>1. PICK w \in Directories : dirs = [dirs EXCEPT ![call[c].id] = w] /\ w = dirs[call[c].id]
      BY <1>1, <1>2, <1>4, SameDirs
    <2>2. dirs' = [dirs EXCEPT ![call[c].id] = w]
      BY <1>4, <2>1
    <2>3. /\ call' = [call EXCEPT ![c].at = "saving"] /\ promised' = [promised EXCEPT ![call[c].id] = Record!Open]
          /\ early' = (early \/ Record!Loading) /\ writeTail' = Append(writeTail, c)
      BY <1>4 DEF Record!Persist
    <2>4. \A where \in {"saving"} : writeTail' = IF where = "saving" THEN Append(writeTail, c) ELSE writeTail
      BY <2>3
    <2> QED
      BY <1>4, <2>1, <2>2, <2>3, <2>4, CallChanges
  <1>5. CASE Record!Create(c)
    <2>1. /\ UnderWay(c) /\ call[c].op = "create" /\ call[c].at = "begun" /\ Record!Persist(c)
          /\ store.kind # "extensions"
          /\ records' = [records EXCEPT ![call[c].id] = Record!Record(0, TRUE)]
          /\ UNCHANGED <<file, bak, tmp, store, up, loaded, dirs, drawn, launched>>
      BY <1>2, <1>5 DEF Record!Create, Record!fileVars, Record!Is
    <2> QED
      BY <1>3, <1>4, <2>1
  <1>6. ASSUME NEW on \in BOOLEAN, Record!Update(c, on) PROVE StoresInv'
    <2>1. /\ UnderWay(c) /\ call[c].at = "begun" /\ records[call[c].id] # None /\ Record!Persist(c)
          /\ records' = [records EXCEPT ![call[c].id] = Record!Updated(records[call[c].id], on)]
          /\ UNCHANGED <<file, bak, tmp, store, up, loaded, dirs, drawn, launched>>
      BY <1>2, <1>6 DEF Record!Update, Record!Missing, Record!fileVars
    <2>2. records[call[c].id] \in Recs
      BY <1>1, <1>2, <2>1 DEF StoresTyped, Memories, Values
    <2>3. PICK val \in Values : val = Record!Updated(records[call[c].id], on)
      <3>1. PICK r \in Recs : r = records[call[c].id]
        BY <2>2
      <3>2. PICK n \in Nat : n = r.rev + 1
        BY DEF Recs
      <3>3. [r EXCEPT !.rev = n, !.on = on] \in Recs
        BY DEF Recs
      <3> QED
        BY <3>1, <3>2, <3>3 DEF Record!Updated, Values
    <2>4. store.kind = "extensions" => dirs[call[c].id] # {}
      BY <1>1, <1>2, <2>1 DEF Packages
    <2> QED
      BY <1>4, <2>1, <2>3, <2>4
  <1>7. CASE Record!DeleteProxy(c)
    <2>1. /\ UnderWay(c) /\ call[c].at = "begun" /\ Record!Persist(c) /\ records[call[c].id] # None
          /\ records' = [records EXCEPT ![call[c].id] = None]
          /\ UNCHANGED <<file, bak, tmp, store, up, loaded, dirs, drawn, launched>>
      BY <1>2, <1>7 DEF Record!DeleteProxy, Record!Missing, Record!fileVars
    <2> QED
      BY <1>3, <1>4, <2>1
  <1>8. CASE Record!CheckEnds(c)
    <2>1. /\ UnderWay(c) /\ call[c].op = "check" /\ call[c].at = "probing" /\ Record!Persist(c)
          /\ records' = [records EXCEPT ![call[c].id] = [call[c].saw EXCEPT !.probed = call[c].saw.rev]]
          /\ UNCHANGED <<file, bak, tmp, store, up, loaded, dirs, drawn, launched>>
      BY <1>2, <1>8 DEF Record!CheckEnds, Record!fileVars
    <2>2. call[c].saw \in Recs
      BY <1>1, <2>1 DEF StoresTyped
    <2>3. PICK val \in Values : val = [call[c].saw EXCEPT !.probed = call[c].saw.rev]
      <3>1. PICK r \in Recs : r = call[c].saw
        BY <2>2
      <3>2. [r EXCEPT !.probed = r.rev] \in Recs
        BY DEF Recs
      <3> QED
        BY <3>1, <3>2 DEF Values
    <2>4. store.kind # "extensions"
      BY <1>1, <2>1 DEF Packages
    <2> QED
      BY <1>4, <2>1, <2>3, <2>4
  <1>9. CASE Record!ImportEnds(c)
    <2>1. /\ UnderWay(c) /\ call[c].op = "create" /\ call[c].at = "unpacking" /\ Record!Persist(c)
          /\ records' = [records EXCEPT ![call[c].id] = Record!Record(0, TRUE)]
          /\ dirs' = [dirs EXCEPT ![call[c].id] = Record!Entries]
          /\ UNCHANGED <<file, bak, tmp, store, up, loaded, drawn, launched>>
      BY <1>2, <1>9 DEF Record!ImportEnds, Record!fileVars
    <2>2. /\ call' = [call EXCEPT ![c].at = "saving"] /\ promised' = [promised EXCEPT ![call[c].id] = Record!Open]
          /\ early' = (early \/ Record!Loading)
          /\ \A where \in {"saving"} : writeTail' = IF where = "saving" THEN Append(writeTail, c) ELSE writeTail
      BY <2>1 DEF Record!Persist
    <2>3. Record!Entries \in Directories /\ Record!Entries # {}
      BY DEF Directories, Record!Entries
    <2> QED
      BY <1>3, <2>1, <2>2, <2>3, CallChanges
  <1>10. CASE Record!RemoveBegins(c)
    <2>1. /\ UnderWay(c) /\ call[c].op = "delete" /\ call[c].at = "begun" /\ store.kind = "extensions"
          /\ records[call[c].id] # None
          /\ records' = [records EXCEPT ![call[c].id] = None]
          /\ call' = [call EXCEPT ![c].at = "removing"] /\ promised' = [promised EXCEPT ![call[c].id] = Record!Open]
          /\ UNCHANGED <<file, bak, tmp, store, up, loaded, dirs, drawn, launched, writeTail, early>>
      BY <1>2, <1>10 DEF Record!RemoveBegins, Record!Is, Record!Missing, Record!fileVars
    <2>2. /\ early' = (early \/ Record!Loading)
          /\ \A where \in {"removing"} : writeTail' = IF where = "saving" THEN Append(writeTail, c) ELSE writeTail
      BY <1>1, <2>1 DEF Phases, StoresTyped
    <2>3. PICK w \in Directories : dirs = [dirs EXCEPT ![call[c].id] = w] /\ w = dirs[call[c].id]
      BY <1>1, <1>2, <2>1, SameDirs
    <2>4. dirs' = [dirs EXCEPT ![call[c].id] = w]
      BY <2>1, <2>3
    <2> QED
      BY <1>3, <2>1, <2>2, <2>4, CallChanges
  <1>11. CASE Record!RemoveEnds(c)
    <2>1. /\ UnderWay(c) /\ call[c].op = "delete" /\ call[c].at = "removing" /\ Record!Persist(c)
          /\ dirs' = [dirs EXCEPT ![call[c].id] = {}]
          /\ UNCHANGED <<file, bak, tmp, store, up, loaded, drawn, launched, records>>
      BY <1>2, <1>11 DEF Record!RemoveEnds, Record!fileVars
    <2>2. /\ call' = [call EXCEPT ![c].at = "saving"] /\ promised' = [promised EXCEPT ![call[c].id] = Record!Open]
          /\ early' = (early \/ Record!Loading)
          /\ \A where \in {"saving"} : writeTail' = IF where = "saving" THEN Append(writeTail, c) ELSE writeTail
      BY <2>1 DEF Record!Persist
    <2>3. PICK val \in Values : val = records[call[c].id] /\ records' = [records EXCEPT ![call[c].id] = val]
      BY <1>1, <1>2, <2>1 DEF StoresTyped, Memories
    <2>4. store.kind = "extensions" => records[call[c].id] = None
      BY <1>1, <2>1 DEF Packages
    <2>5. {} \in Directories
      BY DEF Directories
    <2> QED
      BY <2>1, <2>2, <2>3, <2>4, <2>5, CallChanges
  <1> QED
    BY <1>5, <1>6, <1>7, <1>8, <1>9, <1>10, <1>11

\* A reader gets what was last written.
LEMMA ReadsFile ==
  ASSUME StoresTyped, FilesFit
  PROVE  Record!ReadJson = file /\ (file # Record!Absent => file.data \in Memories)
         /\ (tmp # Record!Absent => tmp.data \in Memories)
  <1>1. Record!Absent.kind = "absent"
    BY DEF Record!Absent
  <1> QED
    BY <1>1 DEF StoresTyped, FilesFit, Versions, Record!ReadJson

\* What has been read joins what is in memory.
LEMMA LoadKeeps ==
  ASSUME StoresInv, NEW c \in Clients, Record!LoadApplies(c)
  PROVE  StoresInv'
  <1>1. /\ StoresTyped /\ FilesFit /\ Phases /\ Chained /\ Undrawn /\ Packages /\ Settled
        /\ UnderWay(c) /\ call[c].at = "loading" /\ Record!Loading /\ up /\ store.kind = "proxies" /\ loaded
        /\ call[c] \in CallRecs /\ call[c].id \in Ids
    BY CallKinds DEF StoresInv, Record!LoadApplies, UnderWay, Record!Loading, Phases
  <1>2. /\ Record!ReadJson = file
        /\ file # Record!Absent => file.data \in Memories
    BY <1>1, ReadsFile
  <1>3. /\ UNCHANGED <<file, bak, tmp, store, up, loaded, writeTail, dirs, drawn, promised, early, launched>>
        /\ call' = [call EXCEPT ![c].at = "begun"]
        /\ records' = IF file = Record!Absent THEN records
                      ELSE [i \in Ids |-> IF file.data[i] # None THEN file.data[i] ELSE records[i]]
    BY <1>2 DEF Record!LoadApplies, Record!fileVars
  <1>4. PICK v \in CallRecs : v = [call[c] EXCEPT !.at = "begun"] /\ v.op = call[c].op /\ v.id = call[c].id /\ v.at = "begun"
    <2>1. PICK r \in CallRecs : r = call[c]
      BY <1>1
    <2> QED
      BY <2>1, AtMoved
  <1>5. /\ call' \in [Clients -> {Record!NoCall} \cup CallRecs] /\ call'[c] = v
        /\ \A d \in Clients \ {c} : call'[d] = call[d]
    BY <1>1, <1>3, <1>4 DEF StoresTyped
  <1>6. \A d \in Clients : UnderWay(d)' <=> UnderWay(d)
    BY <1>4, <1>5 DEF UnderWay, Record!NoCall, CallRecs
  <1>7. records' \in Memories
    BY <1>1, <1>2, <1>3 DEF StoresTyped, Memories
  <1>8. StoresTyped'
    BY <1>1, <1>3, <1>4, <1>5, <1>6, <1>7 DEF StoresTyped
  <1>9. FilesFit'
    BY <1>1, <1>3 DEF FilesFit
  <1>10. ~Record!Loading'
    <2>1. \A d \in Clients \ {c} : ~(UnderWay(d) /\ call[d].at = "loading")
      BY <1>1 DEF Phases
    <2>2. \A d \in Clients : ~(UnderWay(d)' /\ call'[d].at = "loading")
      BY <1>4, <1>5, <1>6, <2>1
    <2> QED
      BY <2>2 DEF Record!Loading, UnderWay
  <1>11. Phases'
    BY <1>1, <1>3, <1>10 DEF Phases, Record!Loading, UnderWay
  <1>12. Chained'
    BY <1>1, <1>3, <1>4, <1>5, <1>6, NotWaiting DEF Chained
  <1>13. Undrawn'
    BY <1>1, <1>3, <1>4, <1>5, <1>6 DEF Undrawn
  <1>14. Packages'
    BY <1>1, <1>3 DEF Packages
  <1>15. Settled'
    <2> SUFFICES ASSUME NEW i \in Ids, promised[i] # Record!Open, ~early
                 PROVE  /\ file # Record!Absent /\ file.data[i] = promised[i]
                        /\ tmp # Record!Absent => tmp.data[i] = promised[i]
                        /\ records'[i] = promised[i]
      BY <1>3 DEF Settled
    <2>1. /\ file # Record!Absent /\ file.data[i] = promised[i]
          /\ tmp # Record!Absent => tmp.data[i] = promised[i]
          /\ records[i] = None
      BY <1>1 DEF Settled, Phases
    <2> QED
      BY <1>3, <2>1
  <1> QED
    BY <1>8, <1>9, <1>11, <1>12, <1>13, <1>14, <1>15 DEF StoresInv

\* A call arrives.
LEMMA ArriveKeeps ==
  ASSUME StoresInv, NEW c \in Clients, NEW op \in {"create", "update", "delete", "check", "launch"},
         NEW id \in Ids, NEW others \in SUBSET Ids, Record!Arrive(c, op, id, others)
  PROVE  StoresInv'
  <1>1. /\ StoresTyped /\ FilesFit /\ Phases /\ Chained /\ Undrawn /\ Packages /\ Settled
        /\ up /\ ~UnderWay(c)
    BY DEF StoresInv, Record!Arrive, Record!Enter, Record!Idle, UnderWay
  <1>2. /\ UNCHANGED <<file, bak, tmp, up, records, writeTail, dirs, promised, early, launched>>
        /\ store' \in StoreRecs /\ store'.kind = store.kind
        /\ loaded' = TRUE /\ drawn' = drawn \cup {id}
        /\ op \in Record!Ops[store.kind] /\ (op = "create" => id \notin drawn)
    BY <1>1, KindKept DEF Record!Arrive, Record!Enter, Record!fileVars, StoresTyped
  <1>3. PICK v \in CallRecs : /\ call' = [call EXCEPT ![c] = v]
                              /\ v.op = op /\ v.id = id /\ v.at = (IF loaded THEN "begun" ELSE "loading")
    <2>1. PICK w \in {"begun", "loading"} : w = IF loaded THEN "begun" ELSE "loading"
      OBVIOUS
    <2>2. [op |-> op, id |-> id, saw |-> None, todo |-> {id} \cup others, done |-> {}, read |-> {}, at |-> w]
             \in CallRecs
      BY DEF CallRecs, Values
    <2>3. call' = [call EXCEPT ![c] = [op |-> op, id |-> id, saw |-> None, todo |-> {id} \cup others,
                                       done |-> {}, read |-> {}, at |-> w]]
      BY <2>1 DEF Record!Arrive, Record!Enter
    <2> QED
      BY <2>1, <2>2, <2>3
  <1>4. /\ call' \in [Clients -> {Record!NoCall} \cup CallRecs] /\ call'[c] = v
        /\ \A d \in Clients \ {c} : call'[d] = call[d] /\ (UnderWay(d)' <=> UnderWay(d))
        /\ UnderWay(c)'
    BY <1>1, <1>3 DEF StoresTyped, UnderWay, Record!NoCall, CallRecs
  <1>5. StoresTyped'
    BY <1>1, <1>2, <1>3, <1>4 DEF StoresTyped
  <1>6. FilesFit'
    BY <1>1, <1>2 DEF FilesFit
  <1>7. /\ loaded => (Record!Loading' <=> Record!Loading)
        /\ ~loaded => Record!Loading' /\ store.kind = "proxies" /\ \A d \in Clients \ {c} : ~UnderWay(d)'
    BY <1>1, <1>3, <1>4 DEF Record!Loading, UnderWay, Phases
  <1>8. Phases'
    <2>1. early' \/ Record!Loading' => store'.kind = "proxies"
      BY <1>1, <1>2, <1>7 DEF Phases
    <2>2. Record!Loading' /\ ~early' => writeTail' = <<>> /\ \A i \in Ids : records'[i] = None
      BY <1>1, <1>2, <1>7 DEF Phases
    <2>3. \A d, e \in Clients : /\ UnderWay(d)' /\ UnderWay(e)'
                               /\ call'[d].at = "loading" /\ call'[e].at = "loading" => d = e
      BY <1>1, <1>3, <1>4, <1>7 DEF Phases
    <2> QED
      BY <1>1, <1>2, <2>1, <2>2, <2>3 DEF Phases
  <1>9. Chained'
    <2>1. \A i \in 1 .. Len(writeTail) : writeTail[i] # c /\ writeTail[i] \in Clients \cup {None}
      BY <1>1, StoresAssumption DEF Chained, StoresTyped
    <2> QED
      BY <1>1, <1>2, <1>4, <2>1 DEF Chained
  <1>10. Undrawn'
    BY <1>1, <1>2, <1>3, <1>4 DEF Undrawn
  <1>11. Settled'
    BY <1>1, <1>2, <1>7 DEF Settled, Phases
  <1>12. Packages'
    <2> SUFFICES ASSUME store.kind = "extensions" PROVE Packages'
      BY <1>2 DEF Packages
    <2>0. loaded /\ v.at = "begun" /\ op # "check"
      BY <1>1, <1>2, <1>3 DEF Phases, Record!Ops
    <2>1. \A d \in Clients : UnderWay(d)' => call'[d].op # "check"
      BY <1>1, <1>3, <1>4, <2>0 DEF Packages
    <2>2. \A i \in Ids : records'[i] # None \/ promised'[i] \notin {Record!Open, None} => dirs'[i] # {}
      BY <1>1, <1>2 DEF Packages
    <2>3. ASSUME NEW d \in Clients, UnderWay(d)', call'[d].op = "create", call'[d].at \in {"begun", "unpacking"}
          PROVE  Unseen(d)'
      <3>1. CASE d = c
        <4>1. /\ id \notin drawn /\ promised[id] = Record!Open /\ records[id] = None
              /\ \A e \in Clients : UnderWay(e) /\ call[e].at # "reading" => call[e].id # id
          BY <1>1, <1>2, <1>3, <1>4, <2>3, <3>1 DEF Undrawn
        <4>2. \A e \in Clients : UnderWay(e) /\ call[e].at = "reading" => call[e].op = "launch"
          BY <1>1 DEF StoresTyped
        <4> QED
          BY <1>2, <1>3, <1>4, <3>1, <4>1, <4>2 DEF Unseen
      <3>2. CASE d # c
        <4>1. Unseen(d) /\ UnderWay(d) /\ call[d].id \in drawn
          BY <1>1, <1>4, <2>3, <3>2, CallKinds DEF Packages, Undrawn
        <4> QED
          BY <1>2, <1>3, <1>4, <2>0, <3>2, <4>1 DEF Unseen
      <3> QED
        BY <3>1, <3>2
    <2>4. ASSUME NEW d \in Clients, UnderWay(d)', call'[d].op = "delete", call'[d].at = "removing"
          PROVE  promised'[call'[d].id] = Record!Open /\ records'[call'[d].id] = None
      BY <1>1, <1>2, <1>3, <1>4, <2>0, <2>4 DEF Packages
    <2> QED
      BY <2>1, <2>2, <2>3, <2>4 DEF Packages
  <1> QED
    BY <1>5, <1>6, <1>8, <1>9, <1>10, <1>11, <1>12 DEF StoresInv

\* A key is used and a write chained that nobody awaits.
LEMMA AuthenticateKeeps ==
  ASSUME StoresInv, NEW k \in Ids, Record!Authenticate(k)
  PROVE  StoresInv'
  <1>1. /\ StoresTyped /\ FilesFit /\ Phases /\ Chained /\ Undrawn /\ Packages /\ Settled
        /\ up /\ store.kind = "team"
    BY DEF StoresInv, Record!Authenticate, Record!Is
  <1>2. /\ UNCHANGED <<file, bak, tmp, up, loaded, records, call, dirs, drawn, promised, early, launched>>
        /\ store' \in StoreRecs /\ store'.kind = store.kind
        /\ writeTail' = Append(writeTail, None)
    BY <1>1, KindKept DEF Record!Authenticate, Record!fileVars, StoresTyped
  <1>3. /\ writeTail' \in Seq(Clients \cup {None}) /\ writeTail' # <<>> /\ Len(writeTail) \in Nat
        /\ Len(writeTail') = Len(writeTail) + 1 /\ writeTail'[Len(writeTail) + 1] = None
        /\ \A i \in 1 .. Len(writeTail) : writeTail'[i] = writeTail[i]
    BY <1>1, <1>2 DEF StoresTyped
  <1>4. StoresTyped'
    BY <1>1, <1>2, <1>3 DEF StoresTyped, UnderWay
  <1>5. Record!Loading' <=> Record!Loading
    BY <1>2 DEF Record!Loading
  <1>6. FilesFit' /\ Undrawn' /\ Settled'
    BY <1>1, <1>2, <1>3, <1>5 DEF FilesFit, Undrawn, Settled, UnderWay
  <1>7. Phases'
    BY <1>1, <1>2, <1>5 DEF Phases, UnderWay
  <1>8. Chained'
    BY <1>1, <1>2, <1>3 DEF Chained, UnderWay
  <1>9. Packages'
    BY <1>1, <1>2 DEF Packages
  <1> QED
    BY <1>4, <1>6, <1>7, <1>8, <1>9 DEF StoresInv

\* A write takes what is in memory, which no file still has to tell.
LEMMA WriteBeginsKeeps ==
  ASSUME StoresInv, Record!WriteBegins
  PROVE  StoresInv'
  <1>1. /\ StoresTyped /\ FilesFit /\ Phases /\ Chained /\ Undrawn /\ Packages /\ Settled
        /\ up /\ writeTail # <<>> /\ loaded
    BY DEF StoresInv, Record!WriteBegins, Phases
  <1>2. /\ UNCHANGED <<file, store, up, loaded, records, writeTail, call, dirs, drawn, promised, early, launched>>
        /\ tmp' = Record!Whole(records)
        /\ bak' = IF file = Record!Absent THEN bak ELSE Record!Torn
    BY DEF Record!WriteBegins, Record!WriteStarts
  <1>3. tmp' \in Versions /\ tmp' # Record!Absent /\ tmp'.data = records
    BY <1>1, <1>2 DEF StoresTyped, Versions, Record!Whole, Record!Absent
  <1>4. StoresTyped'
    BY <1>1, <1>2, <1>3 DEF StoresTyped, UnderWay
  <1>5. Record!Loading' <=> Record!Loading
    BY <1>2 DEF Record!Loading
  <1>6. FilesFit' /\ Undrawn'
    BY <1>1, <1>2, <1>3 DEF FilesFit, Undrawn, UnderWay
  <1>7. Phases'
    BY <1>1, <1>2, <1>5 DEF Phases, UnderWay
  <1>8. Chained'
    BY <1>1, <1>2 DEF Chained, UnderWay
  <1>9. Packages'
    BY <1>1, <1>2 DEF Packages, Unseen, UnderWay
  <1>10. Settled'
    BY <1>1, <1>2, <1>3, <1>5 DEF Settled, Phases
  <1> QED
    BY <1>4, <1>6, <1>7, <1>8, <1>9, <1>10 DEF StoresInv

\* The first of the chain goes, and with it the call that waited for it.
LEMMA FirstLeaves ==
  ASSUME StoresTyped, Chained, writeTail # <<>>, writeTail' = Tail(writeTail),
         IF Head(writeTail) = None THEN UNCHANGED call ELSE Record!Reply(Head(writeTail))
  PROVE  /\ Head(writeTail) \in Clients \cup {None}
         /\ Head(writeTail) # None => /\ UnderWay(Head(writeTail)) /\ call[Head(writeTail)].at = "saving"
                                      /\ call[Head(writeTail)].id \in Ids
         /\ writeTail' \in Seq(Clients \cup {None})
         /\ call' \in [Clients -> {Record!NoCall} \cup CallRecs]
         /\ \A d \in Clients : /\ UnderWay(d)' <=> UnderWay(d) /\ d # Head(writeTail)
                               /\ d # Head(writeTail) => call'[d] = call[d]
         /\ Chained'
  <1>1. /\ Head(writeTail) = writeTail[1] /\ Len(writeTail) \in Nat \ {0}
        /\ Head(writeTail) \in Clients \cup {None}
        /\ Len(writeTail') = Len(writeTail) - 1 /\ writeTail' \in Seq(Clients \cup {None})
        /\ \A i \in 1 .. Len(writeTail') : writeTail'[i] = writeTail[i + 1] /\ i + 1 \in 1 .. Len(writeTail)
    BY DEF StoresTyped
  <1>2. Head(writeTail) # None => UnderWay(Head(writeTail)) /\ call[Head(writeTail)].at = "saving"
    BY <1>1 DEF Chained
  <1>3. Head(writeTail) # None => call[Head(writeTail)].id \in Ids
    BY <1>1, <1>2, CallKinds
  <1>4. /\ call' \in [Clients -> {Record!NoCall} \cup CallRecs]
        /\ \A d \in Clients : /\ UnderWay(d)' <=> UnderWay(d) /\ d # Head(writeTail)
                              /\ d # Head(writeTail) => call'[d] = call[d]
    <2>1. CASE Head(writeTail) = None
      BY <2>1, StoresAssumption DEF StoresTyped, UnderWay
    <2>2. CASE Head(writeTail) # None
      BY <1>1, <2>2 DEF StoresTyped, UnderWay, Record!Reply
    <2> QED
      BY <2>1, <2>2
  <1>5. Chained'
    <2>1. ASSUME NEW i \in 1 .. Len(writeTail'), writeTail'[i] # None
          PROVE  call'[writeTail'[i]] # Record!NoCall /\ call'[writeTail'[i]].at = "saving"
      <3>1. PICK d : d = writeTail'[i]
        OBVIOUS
      <3>2. d = writeTail[i + 1] /\ i + 1 \in 1 .. Len(writeTail) /\ d \in Clients
        BY <1>1, <2>1, <3>1 DEF StoresTyped
      <3>3. UnderWay(d) /\ call[d].at = "saving" /\ d # Head(writeTail)
        BY <1>1, <2>1, <3>1, <3>2 DEF Chained
      <3> QED
        BY <1>4, <3>1, <3>2, <3>3 DEF UnderWay
    <2>2. \A i, j \in 1 .. Len(writeTail') : writeTail'[i] # None /\ writeTail'[i] = writeTail'[j] => i = j
      BY <1>1 DEF Chained
    <2> QED
      BY <2>1, <2>2 DEF Chained, UnderWay
  <1> QED
    BY <1>1, <1>2, <1>3, <1>4, <1>5

\* Calls that end change nothing that holds of those that go on.
LEMMA FewerCalls ==
  ASSUME StoresTyped, Phases, NEW gone,
         \A d \in Clients : /\ UnderWay(d)' <=> UnderWay(d) /\ d # gone
                            /\ d # gone => call'[d] = call[d],
         gone \in Clients => call[gone].at # "loading"
  PROVE  Record!Loading' <=> Record!Loading
  BY DEF Record!Loading, UnderWay

\* A write ends and its call is answered.
LEMMA WriteEndsKeeps ==
  ASSUME StoresInv, Record!WriteEnds
  PROVE  StoresInv'
  <1> DEFINE c == Head(writeTail)
  <1>1. /\ StoresTyped /\ FilesFit /\ Phases /\ Chained /\ Undrawn /\ Packages /\ Settled
        /\ up /\ writeTail # <<>> /\ loaded /\ tmp # Record!Absent /\ tmp \in Versions
    BY DEF StoresInv, Record!WriteEnds, Phases, Record!WriteCommits, StoresTyped
  <1>2. /\ UNCHANGED <<store, up, loaded, records, dirs, drawn, early, launched>>
        /\ file' = tmp /\ tmp' = Record!Absent /\ writeTail' = Tail(writeTail)
        /\ IF c = None THEN UNCHANGED <<call, promised>>
           ELSE /\ Record!Reply(c)
                /\ promised' = IF Record!Others(c) # {} \/ records[call[c].id] # tmp.data[call[c].id] THEN promised
                               ELSE [promised EXCEPT ![call[c].id] = records[call[c].id]]
    BY DEF Record!WriteEnds, Record!WriteCommits
  <1>3. /\ c \in Clients \cup {None}
        /\ c # None => UnderWay(c) /\ call[c].at = "saving" /\ call[c].id \in Ids
        /\ writeTail' \in Seq(Clients \cup {None})
        /\ call' \in [Clients -> {Record!NoCall} \cup CallRecs]
        /\ \A d \in Clients : /\ UnderWay(d)' <=> UnderWay(d) /\ d # c
                              /\ d # c => call'[d] = call[d]
        /\ Chained'
    BY <1>1, <1>2, FirstLeaves
  \* Either nothing is promised, or what the call left is promised and nobody else is at it.
  <1>4. \/ UNCHANGED promised
        \/ /\ c # None /\ Record!Others(c) = {} /\ records[call[c].id] = tmp.data[call[c].id]
           /\ promised' = [promised EXCEPT ![call[c].id] = records[call[c].id]]
    BY <1>2
  <1>5. \A i \in Ids : \/ promised'[i] = promised[i]
                       \/ /\ c # None /\ i = call[c].id /\ Record!Others(c) = {} /\ promised'[i] = records[i]
                          /\ tmp.data[i] = records[i]
    BY <1>1, <1>3, <1>4 DEF StoresTyped
  <1>6. promised' \in [Ids -> Values \cup {Record!Open}]
    BY <1>1, <1>3, <1>4 DEF StoresTyped, Memories
  <1>7. StoresTyped'
    BY <1>1, <1>2, <1>3, <1>6 DEF StoresTyped, Versions
  <1>8. Record!Loading' <=> Record!Loading
    BY <1>1, <1>3, StoresAssumption, FewerCalls
  <1>9. FilesFit'
    BY <1>1, <1>2 DEF FilesFit
  <1>10. Phases'
    BY <1>1, <1>2, <1>3, <1>8 DEF Phases
  <1>11. \A i \in Ids \ drawn : promised'[i] = promised[i]
    BY <1>1, <1>3, <1>5 DEF Undrawn
  <1>12. Undrawn'
    BY <1>1, <1>2, <1>3, <1>11 DEF Undrawn
  <1>13. Settled'
    <2> SUFFICES ASSUME NEW i \in Ids, promised'[i] # Record!Open, ~early
                 PROVE  tmp.data[i] = promised'[i] /\ (~Record!Loading => records[i] = promised'[i])
      BY <1>1, <1>2, <1>8 DEF Settled
    <2> QED
      BY <1>1, <1>5 DEF Settled
  <1>14. Packages'
    <2> SUFFICES ASSUME store.kind = "extensions" PROVE Packages'
      BY <1>2 DEF Packages
    <2>1. \A d \in Clients : UnderWay(d)' => call'[d].op # "check"
      BY <1>1, <1>3 DEF Packages
    <2>2. \A i \in Ids : records[i] # None \/ promised'[i] \notin {Record!Open, None} => dirs[i] # {}
      BY <1>1, <1>5 DEF Packages
    <2>3. ASSUME NEW d \in Clients, UnderWay(d)', call'[d].op = "create", call'[d].at \in {"begun", "unpacking"}
          PROVE  Unseen(d)'
      <3>1. UnderWay(d) /\ d # c /\ call'[d] = call[d] /\ call[d].id \in Ids /\ Unseen(d)
        BY <1>1, <1>3, <2>3, CallKinds DEF Packages
      <3>2. c # None => call[c].id # call[d].id
        BY <1>3, <3>1, StoresAssumption DEF Unseen
      <3> QED
        BY <1>2, <1>3, <1>5, <3>1, <3>2 DEF Unseen
    <2>4. ASSUME NEW d \in Clients, UnderWay(d)', call'[d].op = "delete", call'[d].at = "removing"
          PROVE  promised'[call'[d].id] = Record!Open /\ records[call'[d].id] = None
      <3>1. UnderWay(d) /\ d # c /\ call'[d] = call[d] /\ call[d].id \in Ids
            /\ promised[call[d].id] = Record!Open /\ records[call[d].id] = None
        BY <1>1, <1>3, <2>4, CallKinds DEF Packages
      <3>2. c # None /\ call[c].id = call[d].id => d \in Record!Others(c)
        BY <2>4, <3>1 DEF Record!Others, UnderWay
      <3> QED
        BY <1>5, <3>1, <3>2
    <2> QED
      BY <1>2, <2>1, <2>2, <2>3, <2>4 DEF Packages
  <1> QED
    BY <1>3, <1>7, <1>9, <1>10, <1>12, <1>13, <1>14 DEF StoresInv

\* A write fails and its call is told.
LEMMA WriteFailsKeeps ==
  ASSUME StoresInv, Record!WriteFails
  PROVE  StoresInv'
  <1> DEFINE c == Head(writeTail)
  <1>1. /\ StoresTyped /\ FilesFit /\ Phases /\ Chained /\ Undrawn /\ Packages /\ Settled
        /\ up /\ writeTail # <<>> /\ loaded
    BY DEF StoresInv, Record!WriteFails, Phases
  <1>2. /\ UNCHANGED <<file, up, loaded, records, dirs, drawn, promised, early, launched>>
        /\ tmp' = Record!Absent /\ writeTail' = Tail(writeTail) /\ c # None /\ Record!Reply(c)
        /\ bak' = IF file # Record!Absent THEN file ELSE bak
        /\ store' \in StoreRecs /\ store'.kind = store.kind
    BY <1>1, KindKept DEF Record!WriteFails, Record!WriteRejects, Record!Copied, StoresTyped
  <1>3. /\ c \in Clients \cup {None}
        /\ c # None => UnderWay(c) /\ call[c].at = "saving" /\ call[c].id \in Ids
        /\ writeTail' \in Seq(Clients \cup {None})
        /\ call' \in [Clients -> {Record!NoCall} \cup CallRecs]
        /\ \A d \in Clients : /\ UnderWay(d)' <=> UnderWay(d) /\ d # c
                              /\ d # c => call'[d] = call[d]
        /\ Chained'
    BY <1>1, <1>2, FirstLeaves
  <1>4. StoresTyped'
    BY <1>1, <1>2, <1>3 DEF StoresTyped, Versions
  <1>5. Record!Loading' <=> Record!Loading
    BY <1>1, <1>3, StoresAssumption, FewerCalls
  <1>6. FilesFit'
    BY <1>1, <1>2 DEF FilesFit
  <1>7. Phases'
    BY <1>1, <1>2, <1>3, <1>5 DEF Phases
  <1>8. Undrawn'
    BY <1>1, <1>2, <1>3 DEF Undrawn
  <1>9. Settled'
    BY <1>1, <1>2, <1>5 DEF Settled
  <1>10. Packages'
    <2> SUFFICES ASSUME store.kind = "extensions" PROVE Packages'
      BY <1>2 DEF Packages
    <2>1. ASSUME NEW d \in Clients, UnderWay(d)', call'[d].op = "create", call'[d].at \in {"begun", "unpacking"}
          PROVE  Unseen(d)'
      <3>1. UnderWay(d) /\ call'[d] = call[d] /\ Unseen(d)
        BY <1>1, <1>3, <2>1 DEF Packages
      <3> QED
        BY <1>2, <1>3, <3>1 DEF Unseen
    <2>2. ASSUME NEW d \in Clients, UnderWay(d)', call'[d].op = "delete", call'[d].at = "removing"
          PROVE  promised'[call'[d].id] = Record!Open /\ records'[call'[d].id] = None
      BY <1>1, <1>2, <1>3, <2>2 DEF Packages
    <2>3. \A d \in Clients : UnderWay(d)' => call'[d].op # "check"
      BY <1>1, <1>3 DEF Packages
    <2>4. \A i \in Ids : records'[i] # None \/ promised'[i] \notin {Record!Open, None} => dirs'[i] # {}
      BY <1>1, <1>2 DEF Packages
    <2> QED
      BY <2>1, <2>2, <2>3, <2>4 DEF Packages
  <1> QED
    BY <1>3, <1>4, <1>6, <1>7, <1>8, <1>9, <1>10 DEF StoresInv

\* The process dies: what is in memory is lost, and the write under way.
LEMMA DeathKeeps ==
  ASSUME StoresInv, Record!UnhandledRejection \/ Record!Crash
  PROVE  StoresInv'
  <1>1. /\ StoresTyped /\ FilesFit /\ Phases /\ Chained /\ Undrawn /\ Packages /\ Settled
    BY DEF StoresInv
  <1>2. PICK ok \in BOOLEAN : Record!Dies(ok)
    BY DEF Record!UnhandledRejection, Record!Crash
  <1>3. /\ UNCHANGED <<file, dirs, drawn, promised, early, launched>>
        /\ up' = FALSE /\ loaded' = FALSE /\ writeTail' = <<>> /\ tmp' = Record!Absent
        /\ call' = [c \in Clients |-> Record!NoCall] /\ records' = [i \in Ids |-> None]
        /\ file = Record!Absent => bak' = bak
        /\ store' \in StoreRecs /\ store'.kind = store.kind
    <2>1. store' \in StoreRecs /\ store'.kind = store.kind
      BY <1>1, KindKept DEF Record!UnhandledRejection, Record!Crash, StoresTyped
    <2> QED
      BY <1>2, <2>1 DEF Record!Dies, Record!WriteAbandoned, Record!Copied
  <1>4. \A c \in Clients : ~UnderWay(c)'
    BY <1>3 DEF UnderWay
  <1>5. StoresTyped'
    <2>1. records' \in Memories
      BY <1>3 DEF Memories, Values
    <2>2. call' \in [Clients -> {Record!NoCall} \cup CallRecs]
      BY <1>3
    <2>3. tmp' \in Versions /\ up' \in BOOLEAN /\ loaded' \in BOOLEAN
      <3>1. Record!Absent \in Versions
        BY DEF Versions
      <3>2. tmp' = Record!Absent /\ up' = FALSE /\ loaded' = FALSE
        BY <1>3
      <3> QED
        BY <3>1, <3>2
    <2>5. writeTail' \in Seq(Clients \cup {None})
      BY <1>3
    <2>4. /\ store' \in StoreRecs /\ UNCHANGED <<file, dirs, promised, early, launched>>
      BY <1>3
    <2> QED
      BY <1>1, <1>4, <2>1, <2>2, <2>3, <2>4, <2>5 DEF StoresTyped
  <1>6. ~Record!Loading'
    BY <1>3 DEF Record!Loading
  <1>7. FilesFit' /\ Undrawn' /\ Settled'
    BY <1>1, <1>3, <1>4 DEF FilesFit, Undrawn, Settled
  <1>8. Phases'
    BY <1>1, <1>3, <1>4, <1>6 DEF Phases
  <1>9. Chained'
    BY <1>3 DEF Chained
  <1>10. Packages'
    BY <1>1, <1>3, <1>4 DEF Packages
  <1> QED
    BY <1>5, <1>7, <1>8, <1>9, <1>10 DEF StoresInv

\* The process starts again.
LEMMA RestartKeeps ==
  ASSUME StoresInv, Record!Restart
  PROVE  StoresInv'
  <1>1. /\ StoresTyped /\ FilesFit /\ Phases /\ Chained /\ Undrawn /\ Packages /\ Settled
        /\ ~up /\ ~loaded
    BY DEF StoresInv, Record!Restart, Phases
  <1>2. /\ Record!ReadJson = file /\ (file # Record!Absent => file.data \in Memories)
    BY <1>1, ReadsFile
  <1>3. /\ UNCHANGED <<file, bak, tmp, store, writeTail, call, dirs, drawn, promised, early, launched>>
        /\ up' = TRUE /\ loaded' = (store.kind # "proxies")
        /\ records' = IF store.kind = "proxies" \/ file = Record!Absent THEN records
                      ELSE [i \in Ids |-> IF store.kind = "extensions" /\ dirs[i] = {}
                                          THEN None ELSE file.data[i]]
    BY <1>2 DEF Record!Restart, Record!fileVars, Record!Is
  <1>4. \A c \in Clients : ~UnderWay(c) /\ ~UnderWay(c)'
    BY <1>1, <1>3 DEF Phases, UnderWay
  <1>5. \A i \in Ids : records[i] = None
    BY <1>1 DEF Phases
  <1>6. records' \in Memories
    BY <1>1, <1>2, <1>3 DEF StoresTyped, Memories, Values
  <1>7. StoresTyped'
    BY <1>1, <1>3, <1>4, <1>6 DEF StoresTyped
  <1>8. ~Record!Loading /\ ~Record!Loading'
    BY <1>4 DEF Record!Loading, UnderWay
  <1>9. FilesFit' /\ Undrawn'
    BY <1>1, <1>3, <1>4, <1>5 DEF FilesFit, Undrawn
  <1>10. Phases'
    BY <1>1, <1>3, <1>4, <1>5, <1>8 DEF Phases
  <1>11. Chained'
    BY <1>1, <1>3 DEF Chained, Phases
  <1>12. Packages'
    BY <1>1, <1>3, <1>4, <1>5 DEF Packages
  <1>13. Settled'
    <2> SUFFICES ASSUME NEW i \in Ids, promised[i] # Record!Open, ~early
                 PROVE  /\ file # Record!Absent /\ file.data[i] = promised[i]
                        /\ tmp # Record!Absent => tmp.data[i] = promised[i]
                        /\ loaded' => records'[i] = promised[i]
      BY <1>3 DEF Settled
    <2>1. /\ file # Record!Absent /\ file.data[i] = promised[i]
          /\ tmp # Record!Absent => tmp.data[i] = promised[i]
      BY <1>1 DEF Settled
    <2>2. ASSUME store.kind # "proxies" PROVE records'[i] = promised[i]
      BY <1>1, <1>3, <2>1, <2>2 DEF Packages
    <2> QED
      BY <1>3, <2>1, <2>2
  <1> QED
    BY <1>7, <1>9, <1>10, <1>11, <1>12, <1>13 DEF StoresInv

\* Every step of a store keeps what holds of the stores.
LEMMA StoresSteps ==
  ASSUME StoresInv, Record!StoresNext
  PROVE  StoresInv'
  <1>1. ASSUME NEW c \in Clients, Record!CallStep(c) PROVE StoresInv'
    BY <1>1, LoadKeeps, CallLooks, CallUnpacks, CallWrites DEF Record!CallStep
  <1>2. CASE Record!WriteBegins \/ Record!WriteEnds \/ Record!WriteFails
    BY <1>2, WriteBeginsKeeps, WriteEndsKeeps, WriteFailsKeeps
  <1>3. ASSUME NEW c \in Clients, NEW op \in {"create", "update", "delete", "check", "launch"}, NEW id \in Ids,
               NEW others \in SUBSET Ids, Record!Arrive(c, op, id, others)
        PROVE  StoresInv'
    BY <1>3, ArriveKeeps
  <1>4. ASSUME NEW k \in Ids, Record!Authenticate(k) PROVE StoresInv'
    BY <1>4, AuthenticateKeeps
  <1>5. ASSUME NEW c \in Clients, Record!ImportFails(c) \/ Record!RemoveFails(c) PROVE StoresInv'
    BY <1>5, CallUnpacks, CallLooks
  <1>6. CASE Record!UnhandledRejection \/ Record!Crash \/ Record!Restart
    BY <1>6, DeathKeeps, RestartKeeps
  <1> QED
    BY <1>1, <1>2, <1>3, <1>4, <1>5, <1>6 DEF Record!StoresNext, Record!StoresProgress

LEMMA StoresInitially ==
  ASSUME Record!StoresInit
  PROVE  StoresInv
  <1>1. /\ file = Record!Absent /\ bak = Record!Absent /\ tmp = Record!Absent
        /\ store \in StoreRecs /\ up = TRUE /\ loaded = (store.kind # "proxies")
        /\ records = [i \in Ids |-> None] /\ writeTail = <<>>
        /\ call = [c \in Clients |-> Record!NoCall] /\ dirs = [i \in Ids |-> {}]
        /\ drawn = {} /\ promised = [i \in Ids |-> Record!Open] /\ early = FALSE /\ launched = {}
    BY StoresAssumption DEF Record!StoresInit, Record!FileInit, Record!Is, StoreRecs
  <1>2. /\ \A c \in Clients : ~UnderWay(c)
        /\ ~Record!Loading
    BY <1>1 DEF UnderWay, Record!Loading
  <1>3. StoresTyped
    <2>1. records \in Memories
      BY <1>1 DEF Memories, Values
    <2>2. call \in [Clients -> {Record!NoCall} \cup CallRecs]
      BY <1>1
    <2>3. dirs \in [Ids -> Directories] /\ promised \in [Ids -> Values \cup {Record!Open}]
      BY <1>1 DEF Directories
    <2>4. file \in Versions /\ tmp \in Versions /\ writeTail \in Seq(Clients \cup {None})
      BY <1>1 DEF Versions
    <2>5. store \in StoreRecs /\ up \in BOOLEAN /\ loaded \in BOOLEAN /\ early \in BOOLEAN
      BY <1>1
    <2> QED
      BY <1>2, <2>1, <2>2, <2>3, <2>4, <2>5 DEF StoresTyped
  <1>4. FilesFit /\ Chained /\ Undrawn /\ Settled
    BY <1>1, <1>2 DEF FilesFit, Chained, Undrawn, Settled
  <1>5. Phases /\ Packages
    BY <1>1, <1>2 DEF Phases, Packages
  <1> QED
    BY <1>3, <1>4, <1>5 DEF StoresInv

-----------------------------------------------------------------------------
(* The launches.  What a launch has verified is there, or the extension has been      *)
(* deleted since.                                                                     *)

Covered(i, f) == f \in dirs[i] \/ records[i] = None
Verifying(c) == UnderWay(c) /\ call[c].op = "launch"

VerifiedSoFar(c) ==
    /\ call[c].at = "reading" => \A f \in call[c].read : Covered(call[c].id, f)
    /\ \A i \in call[c].done, f \in Record!Files : Covered(i, f)

LaunchInv ==
    /\ Record!LaunchedWhole
    /\ \A c \in Clients : Verifying(c) => store.kind = "extensions" /\ VerifiedSoFar(c)

\* Launches and hand-outs stay as they are, and what is there and wanted stays there.
LEMMA LaunchesUnmoved ==
  ASSUME StoresTyped, LaunchInv, launched' = launched, store'.kind = store.kind,
         \A c \in Clients : Verifying(c)' => Verifying(c) /\ call'[c] = call[c],
         store.kind = "extensions" =>
             \A i \in Ids, f \in Record!Files : Covered(i, f) => Covered(i, f)'
  PROVE  LaunchInv'
  <1>1. Record!LaunchedWhole'
    BY DEF LaunchInv, Record!LaunchedWhole
  <1>2. ASSUME NEW c \in Clients, Verifying(c)' PROVE store'.kind = "extensions" /\ VerifiedSoFar(c)'
    <2>1. Verifying(c) /\ call'[c] = call[c] /\ store.kind = "extensions" /\ VerifiedSoFar(c)
      BY <1>2 DEF LaunchInv
    <2>2. /\ call[c].id \in Ids /\ call[c].done \subseteq Ids /\ call[c].read \subseteq Record!Files
      BY <2>1, CallKinds DEF Verifying, CallRecs
    <2>3. \A i \in Ids, f \in Record!Files : Covered(i, f) => Covered(i, f)'
      BY <2>1
    <2>4. call[c].at = "reading" => \A f \in call[c].read : Covered(call[c].id, f)'
      BY <2>1, <2>2, <2>3 DEF VerifiedSoFar
    <2>5. \A i \in call[c].done, f \in Record!Files : Covered(i, f)'
      BY <2>1, <2>2, <2>3 DEF VerifiedSoFar
    <2> QED
      BY <2>1, <2>4, <2>5 DEF VerifiedSoFar, Covered
  <1> QED
    BY <1>1, <1>2 DEF LaunchInv

Unmoved == \A d \in Clients : Verifying(d)' => Verifying(d) /\ call'[d] = call[d]

\* A call that is no launch goes on.
LEMMA OthersMove ==
  ASSUME StoresTyped, NEW c \in Clients, UnderWay(c), call[c].op # "launch", NEW w, NEW x,
         \/ call' = [call EXCEPT ![c].at = w]
         \/ call' = [call EXCEPT ![c].at = w, ![c].saw = x]
  PROVE  Unmoved
  <1>1. PICK r \in CallRecs : r = call[c]
    BY CallKinds
  <1>2. PICK v : /\ v = [r EXCEPT !.at = w] \/ v = [r EXCEPT !.at = w, !.saw = x]
                 /\ v.op = r.op /\ call' = [call EXCEPT ![c] = v]
    <2>1. [r EXCEPT !.at = w].op = r.op /\ [r EXCEPT !.at = w, !.saw = x].op = r.op
      BY DEF CallRecs
    <2> QED
      BY <1>1, <2>1
  <1>3. call'[c] = v /\ \A d \in Clients \ {c} : call'[d] = call[d]
    BY <1>2 DEF StoresTyped
  <1> QED
    BY <1>1, <1>2, <1>3 DEF Unmoved, Verifying, UnderWay

\* A call ends.
LEMMA CallLeaves ==
  ASSUME StoresTyped, NEW c \in Clients, Record!Reply(c)
  PROVE  Unmoved
  <1>1. call'[c] = Record!NoCall /\ \A d \in Clients \ {c} : call'[d] = call[d]
    BY DEF StoresTyped, Record!Reply
  <1> QED
    BY <1>1 DEF Unmoved, Verifying, UnderWay

\* The steps of a call that is no launch.
LEMMA OthersKeepLaunches ==
  ASSUME StoresInv, LaunchInv, NEW c \in Clients,
         \/ Record!LoadApplies(c)
         \/ Record!Create(c) \/ Record!CreateFails(c)
         \/ (\E on \in BOOLEAN : Record!Update(c, on)) \/ Record!UpdateDeclines(c)
         \/ Record!DeleteProxy(c) \/ Record!DeleteDeclines(c)
         \/ Record!CheckBegins(c) \/ Record!CheckEnds(c) \/ Record!CheckDeclines(c)
         \/ Record!ImportBegins(c) \/ Record!ImportKnown(c) \/ Record!ImportEnds(c) \/ Record!ImportFails(c)
         \/ Record!RemoveBegins(c) \/ (\E f \in Record!Files : Record!RemoveFile(c, f))
         \/ Record!RemoveEnds(c) \/ Record!RemoveFails(c)
         \/ Record!LaunchDeclines(c) \/ Record!IntegrityFails(c)
  PROVE  LaunchInv'
  <1>1. StoresTyped /\ Phases /\ Packages
    BY DEF StoresInv
  <1>2. /\ \A op, where : Record!At(c, op, where) /\ op # "none" =>
               up /\ UnderWay(c) /\ call[c].op = op /\ call[c].at = where
        /\ UnderWay(c) => call[c] \in CallRecs /\ call[c].id \in Ids
    BY <1>1, CallKinds
  <1> DEFINE Wanted == \A i \in Ids, f \in Record!Files : Covered(i, f) => Covered(i, f)'
  <1>3. CASE \/ Record!CreateFails(c) \/ Record!UpdateDeclines(c) \/ Record!DeleteDeclines(c)
             \/ Record!CheckDeclines(c) \/ Record!ImportKnown(c) \/ Record!LaunchDeclines(c)
             \/ Record!IntegrityFails(c)
    <2>1. Record!Declines(c)
      BY <1>3 DEF Record!CreateFails, Record!UpdateDeclines, Record!DeleteDeclines,
         Record!CheckDeclines, Record!ImportKnown, Record!LaunchDeclines, Record!IntegrityFails
    <2>2. Record!Reply(c) /\ UNCHANGED <<store, records, dirs, launched>>
      BY <2>1 DEF Record!Declines
    <2> QED
      BY <1>1, <2>2, CallLeaves, LaunchesUnmoved DEF Unmoved, Covered
  <1>4. CASE Record!LoadApplies(c)
    <2>1. UnderWay(c) /\ call[c].at = "loading"
      BY <1>4 DEF Record!LoadApplies, UnderWay
    <2>2. store.kind # "extensions"
      <3>1. Record!Loading
        BY <2>1 DEF Record!Loading, UnderWay
      <3> QED
        BY <1>1, <3>1 DEF Phases
    <2>3. call[c].op # "launch"
      BY <2>1, <2>2 DEF LaunchInv, Verifying
    <2>4. call' = [call EXCEPT ![c].at = "begun"] /\ UNCHANGED <<store, launched>>
      BY <1>4 DEF Record!LoadApplies
    <2>5. Unmoved
      BY <1>1, <2>1, <2>3, <2>4, OthersMove
    <2> QED
      BY <1>1, <2>2, <2>4, <2>5, LaunchesUnmoved DEF Unmoved
  <1>5. CASE \/ Record!Create(c) \/ Record!DeleteProxy(c) \/ Record!CheckEnds(c)
    <2>1. /\ UnderWay(c) /\ call[c].op \in {"create", "delete", "check"} /\ Record!Persist(c)
          /\ UNCHANGED <<store, launched>>
      BY <1>2, <1>5 DEF Record!Create, Record!DeleteProxy, Record!CheckEnds
    <2>2. store.kind # "extensions"
      BY <1>1, <1>2, <1>5 DEF Record!Create, Record!DeleteProxy, Record!CheckEnds, Record!Is, Packages
    <2>3. Unmoved
      BY <1>1, <2>1, OthersMove DEF Record!Persist
    <2> QED
      BY <1>1, <2>1, <2>2, <2>3, LaunchesUnmoved DEF Unmoved
  <1>6. ASSUME NEW on \in BOOLEAN, Record!Update(c, on) PROVE LaunchInv'
    <2>1. /\ UnderWay(c) /\ call[c].op = "update" /\ Record!Persist(c) /\ records[call[c].id] # None
          /\ records' = [records EXCEPT ![call[c].id] = Record!Updated(records[call[c].id], on)]
          /\ UNCHANGED <<store, launched, dirs>>
      BY <1>2, <1>6 DEF Record!Update, Record!Missing
    <2>2. Unmoved
      BY <1>1, <2>1, OthersMove DEF Record!Persist
    <2>3. \A i \in Ids : records[i] = None => records'[i] = None
      BY <1>1, <1>2, <2>1 DEF StoresTyped, Memories
    <2> QED
      BY <1>1, <2>1, <2>2, <2>3, LaunchesUnmoved DEF Unmoved, Covered
  <1>7. CASE Record!CheckBegins(c) \/ Record!ImportBegins(c)
    <2>1. /\ UnderWay(c) /\ call[c].op \in {"create", "check"} /\ UNCHANGED <<store, records, dirs, launched>>
          /\ \/ call' = [call EXCEPT ![c].at = "unpacking"]
             \/ call' = [call EXCEPT ![c].at = "probing", ![c].saw = records[call[c].id]]
      BY <1>2, <1>7 DEF Record!CheckBegins, Record!ImportBegins
    <2>2. Unmoved
      BY <1>1, <2>1, OthersMove
    <2> QED
      BY <1>1, <2>1, <2>2, LaunchesUnmoved DEF Unmoved, Covered
  <1>8. CASE Record!ImportEnds(c)
    <2>1. /\ UnderWay(c) /\ call[c].op = "create" /\ Record!Persist(c)
          /\ records' = [records EXCEPT ![call[c].id] = Record!Record(0, TRUE)]
          /\ dirs' = [dirs EXCEPT ![call[c].id] = Record!Entries]
          /\ UNCHANGED <<store, launched>>
      BY <1>2, <1>8 DEF Record!ImportEnds
    <2>2. Unmoved
      BY <1>1, <2>1, OthersMove DEF Record!Persist
    <2>3. ASSUME NEW i \in Ids, NEW f \in Record!Files, Covered(i, f) PROVE Covered(i, f)'
      <3>1. CASE i = call[c].id
        BY <1>1, <2>1, <3>1 DEF Covered, StoresTyped, Record!Entries
      <3>2. CASE i # call[c].id
        BY <1>1, <1>2, <2>1, <2>3, <3>2 DEF Covered, StoresTyped, Memories
      <3> QED
        BY <3>1, <3>2
    <2> QED
      BY <1>1, <2>1, <2>2, <2>3, LaunchesUnmoved DEF Unmoved
  <1>9. CASE Record!ImportFails(c) \/ Record!RemoveFails(c)
    <2>1. Record!Reply(c) /\ Record!Spend("faults") /\ UNCHANGED <<records, dirs, launched>>
      BY <1>9 DEF Record!ImportFails, Record!RemoveFails
    <2>2. Unmoved
      BY <1>1, <2>1, CallLeaves
    <2>3. store'.kind = store.kind
      BY <1>1, <2>1, KindKept DEF StoresTyped
    <2> QED
      BY <1>1, <2>1, <2>2, <2>3, LaunchesUnmoved DEF Unmoved, Covered
  <1>10. CASE Record!RemoveBegins(c)
    <2>1. /\ UnderWay(c) /\ call[c].op = "delete"
          /\ records' = [records EXCEPT ![call[c].id] = None]
          /\ call' = [call EXCEPT ![c].at = "removing"]
          /\ UNCHANGED <<store, dirs, launched>>
      BY <1>2, <1>10 DEF Record!RemoveBegins
    <2>2. Unmoved
      BY <1>1, <2>1, OthersMove
    <2>3. \A i \in Ids : records[i] = None => records'[i] = None
      BY <1>1, <1>2, <2>1 DEF StoresTyped, Memories
    <2> QED
      BY <1>1, <2>1, <2>2, <2>3, LaunchesUnmoved DEF Unmoved, Covered
  \* Where files are removed, the record has gone before.
  <1>11. ASSUME UnderWay(c), call[c].op = "delete", call[c].at = "removing", NEW w \in Directories,
                dirs' = [dirs EXCEPT ![call[c].id] = w],
                UNCHANGED <<store, records, launched>>, Unmoved
         PROVE  LaunchInv'
    <2>1. store.kind = "extensions" => records[call[c].id] = None
      BY <1>1, <1>11 DEF Packages
    <2>2. \A i \in Ids : i # call[c].id => dirs'[i] = dirs[i]
      BY <1>1, <1>11 DEF StoresTyped
    <2>3. store.kind = "extensions" => \A i \in Ids, f \in Record!Files : Covered(i, f) => Covered(i, f)'
      BY <1>11, <2>1, <2>2 DEF Covered
    <2> QED
      BY <1>1, <1>11, <2>3, LaunchesUnmoved DEF Unmoved
  <1>12. ASSUME NEW f \in Record!Files, Record!RemoveFile(c, f) PROVE LaunchInv'
    <2>1. /\ UnderWay(c) /\ call[c].op = "delete" /\ call[c].at = "removing" /\ call' = call
          /\ dirs' = [dirs EXCEPT ![call[c].id] = dirs[call[c].id] \ {f}]
          /\ UNCHANGED <<store, records, launched>>
      BY <1>2, <1>12 DEF Record!RemoveFile
    <2>2. PICK w \in Directories : w = dirs[call[c].id] \ {f}
      BY <1>1, <1>2, <2>1 DEF StoresTyped, Directories
    <2>3. Unmoved /\ dirs' = [dirs EXCEPT ![call[c].id] = w]
      BY <2>1, <2>2 DEF Unmoved, Verifying, UnderWay
    <2> QED
      BY <1>11, <2>1, <2>3
  <1>13. CASE Record!RemoveEnds(c)
    <2>1. /\ UnderWay(c) /\ call[c].op = "delete" /\ call[c].at = "removing" /\ Record!Persist(c)
          /\ dirs' = [dirs EXCEPT ![call[c].id] = {}]
          /\ UNCHANGED <<store, records, launched>>
      BY <1>2, <1>13 DEF Record!RemoveEnds
    <2>2. Unmoved
      BY <1>1, <2>1, OthersMove DEF Record!Persist
    <2>3. {} \in Directories
      BY DEF Directories
    <2> QED
      BY <1>11, <2>1, <2>2, <2>3
  <1> QED
    BY <1>3, <1>4, <1>5, <1>6, <1>7, <1>8, <1>9, <1>10, <1>12, <1>13

\* The steps of a launch.
LEMMA LaunchesKeep ==
  ASSUME StoresInv, LaunchInv, NEW c \in Clients,
         \/ (\E id \in Ids, skipped \in SUBSET Ids : Record!LaunchNext(c, id, skipped))
         \/ (\E f \in Record!Files : Record!LaunchReads(c, f))
         \/ Record!LaunchEnds(c)
  PROVE  LaunchInv'
  <1>1. StoresTyped
    BY DEF StoresInv
  <1>2. /\ \A op, where : Record!At(c, op, where) /\ op # "none" =>
               up /\ UnderWay(c) /\ call[c].op = op /\ call[c].at = where
        /\ UnderWay(c) => call[c] \in CallRecs /\ call[c].id \in Ids
    BY <1>1, CallKinds
  \* What is verified when the present extension has been read: it, and those before.
  <1>3. ASSUME Record!Ready(c)
        PROVE  /\ Verifying(c) /\ store.kind = "extensions"
               /\ \A i \in Record!Verified(c), f \in Record!Files : Covered(i, f)
    <2>1. Verifying(c) /\ (call[c].at = "begun" \/ (call[c].at = "reading" /\ call[c].read = Record!Files))
      BY <1>2, <1>3 DEF Record!Ready, Verifying
    <2>2. store.kind = "extensions" /\ VerifiedSoFar(c)
      BY <2>1 DEF LaunchInv
    <2>3. CASE call[c].at = "begun"
      BY <2>1, <2>2, <2>3 DEF Record!Verified
    <2>4. CASE call[c].at = "reading" /\ call[c].read = Record!Files
      BY <2>1, <2>2, <2>4 DEF Record!Verified, VerifiedSoFar
    <2> QED
      BY <2>1, <2>2, <2>3, <2>4
  <1>4. ASSUME NEW v \in CallRecs, v.op = "launch", call' = [call EXCEPT ![c] = v], Verifying(c),
               v.at = "reading", \A f \in v.read : Covered(v.id, f),
               \A i \in v.done, f \in Record!Files : Covered(i, f),
               UNCHANGED <<store, records, dirs, launched>>
        PROVE  LaunchInv'
    <2>1. call'[c] = v /\ \A d \in Clients \ {c} : call'[d] = call[d]
      BY <1>1, <1>4 DEF StoresTyped
    <2>2. \A d \in Clients \ {c} : Verifying(d)' => store'.kind = "extensions" /\ VerifiedSoFar(d)'
      BY <1>4, <2>1 DEF LaunchInv, Verifying, UnderWay, VerifiedSoFar, Covered
    <2>3. store'.kind = "extensions" /\ VerifiedSoFar(c)'
      BY <1>4, <2>1 DEF LaunchInv, VerifiedSoFar, Covered
    <2>4. Record!LaunchedWhole'
      BY <1>4 DEF LaunchInv, Record!LaunchedWhole
    <2> QED
      BY <2>2, <2>3, <2>4 DEF LaunchInv
  <1>5. ASSUME NEW id \in Ids, NEW skipped \in SUBSET Ids, Record!LaunchNext(c, id, skipped) PROVE LaunchInv'
    <2>1. /\ call' = [call EXCEPT ![c] = Record!LooksAt(c, id, skipped)] /\ Record!Ready(c)
          /\ UNCHANGED <<store, records, dirs, launched>>
      BY <1>5 DEF Record!LaunchNext
    <2>2. /\ Verifying(c) /\ call[c] \in CallRecs
          /\ \A i \in Record!Verified(c), f \in Record!Files : Covered(i, f)
      BY <1>2, <1>3, <2>1 DEF Verifying
    <2>3. PICK v \in CallRecs : /\ v = Record!LooksAt(c, id, skipped) /\ v.op = "launch" /\ v.at = "reading"
                                /\ v.read = {} /\ v.done = Record!Verified(c)
      <3>1. PICK r \in CallRecs : r = call[c]
        BY <2>2
      <3>2. PICK done \in SUBSET Ids : done = Record!Verified(c)
        BY <1>2, <2>2, <3>1 DEF Record!Verified, CallRecs
      <3>3. PICK todo \in SUBSET Ids : todo = r.todo \ ({id} \cup skipped)
        BY DEF CallRecs
      <3>4. PICK v \in CallRecs : /\ v = [r EXCEPT !.at = "reading", !.id = id, !.read = {}, !.todo = todo, !.done = done]
                                  /\ v.op = r.op /\ v.at = "reading" /\ v.read = {} /\ v.done = done
        <4>1. /\ [r EXCEPT !.at = "reading", !.id = id, !.read = {}, !.todo = todo, !.done = done] \in CallRecs
              /\ [r EXCEPT !.at = "reading", !.id = id, !.read = {}, !.todo = todo, !.done = done].op = r.op
              /\ [r EXCEPT !.at = "reading", !.id = id, !.read = {}, !.todo = todo, !.done = done].at = "reading"
              /\ [r EXCEPT !.at = "reading", !.id = id, !.read = {}, !.todo = todo, !.done = done].read = {}
              /\ [r EXCEPT !.at = "reading", !.id = id, !.read = {}, !.todo = todo, !.done = done].done = done
          BY DEF CallRecs
        <4> QED
          BY <4>1
      <3> QED
        BY <2>2, <3>1, <3>2, <3>3, <3>4 DEF Record!LooksAt, Verifying
    <2> QED
      BY <1>4, <2>1, <2>2, <2>3
  <1>6. ASSUME NEW f \in Record!Files, Record!LaunchReads(c, f) PROVE LaunchInv'
    <2>1. /\ UnderWay(c) /\ call[c].op = "launch" /\ call[c].at = "reading" /\ f \in dirs[call[c].id]
          /\ call' = [call EXCEPT ![c].read = @ \cup {f}]
          /\ UNCHANGED <<store, records, dirs, launched>>
      BY <1>2, <1>6 DEF Record!LaunchReads
    <2>2. PICK v \in CallRecs : /\ v = [call[c] EXCEPT !.read = @ \cup {f}] /\ v.op = "launch" /\ v.at = "reading"
                                /\ v.read = call[c].read \cup {f} /\ v.done = call[c].done /\ v.id = call[c].id
      <3>1. PICK r \in CallRecs : r = call[c]
        BY <1>2, <2>1
      <3>2. PICK read \in SUBSET Record!Files : read = r.read \cup {f}
        BY DEF CallRecs
      <3>3. PICK v \in CallRecs : /\ v = [r EXCEPT !.read = read] /\ v.op = r.op /\ v.at = r.at
                                  /\ v.read = read /\ v.done = r.done /\ v.id = r.id
        <4>1. /\ [r EXCEPT !.read = read] \in CallRecs /\ [r EXCEPT !.read = read].read = read
              /\ [r EXCEPT !.read = read].op = r.op /\ [r EXCEPT !.read = read].at = r.at
              /\ [r EXCEPT !.read = read].done = r.done /\ [r EXCEPT !.read = read].id = r.id
          BY DEF CallRecs
        <4> QED
          BY <4>1
      <3> QED
        BY <2>1, <3>1, <3>2, <3>3
    <2>3. call' = [call EXCEPT ![c] = v]
      BY <2>1, <2>2
    <2>4. Verifying(c) /\ VerifiedSoFar(c)
      BY <2>1 DEF Verifying, LaunchInv
    <2>5. \A g \in v.read : Covered(v.id, g)
      BY <2>1, <2>2, <2>4 DEF VerifiedSoFar, Covered
    <2>6. \A i \in v.done, g \in Record!Files : Covered(i, g)
      BY <2>2, <2>4 DEF VerifiedSoFar
    <2> QED
      BY <1>4, <2>1, <2>2, <2>3, <2>4, <2>5, <2>6
  <1>7. CASE Record!LaunchEnds(c)
    <2>1. /\ Record!Ready(c) /\ Record!Reply(c) /\ UNCHANGED <<store, records, dirs>>
          /\ launched' = launched \cup {[whole |-> Record!Files \subseteq dirs[i], deleted |-> Record!Missing(i)] :
                                        i \in Record!Verified(c)}
      BY <1>7 DEF Record!LaunchEnds
    <2>2. \A i \in Record!Verified(c), f \in Record!Files : Covered(i, f)
      BY <1>3, <2>1
    <2>3. \A i \in Record!Verified(c) : Record!Files \subseteq dirs[i] \/ Record!Missing(i)
      BY <2>2 DEF Covered, Record!Missing
    <2>4. Record!LaunchedWhole'
      <3>1. ASSUME NEW i \in Record!Verified(c), NEW l,
                   l = [whole |-> Record!Files \subseteq dirs[i], deleted |-> Record!Missing(i)]
            PROVE  l.whole \/ l.deleted
        <4>1. CASE Record!Files \subseteq dirs[i]
          <5>1. l.whole = (Record!Files \subseteq dirs[i])
            BY <3>1
          <5> QED
            BY <4>1, <5>1
        <4>2. CASE Record!Missing(i)
          <5>1. l.deleted = Record!Missing(i)
            BY <3>1
          <5> QED
            BY <4>2, <5>1
        <4> QED
          BY <2>3, <4>1, <4>2
      <3>2. \A l \in launched' : l \in launched \/ \E i \in Record!Verified(c) :
               l = [whole |-> Record!Files \subseteq dirs[i], deleted |-> Record!Missing(i)]
        BY <2>1
      <3>3. \A l \in launched : l.whole \/ l.deleted
        BY DEF LaunchInv, Record!LaunchedWhole
      <3> QED
        BY <3>1, <3>2, <3>3 DEF Record!LaunchedWhole
    <2>5. Unmoved
      BY <1>1, <2>1, CallLeaves
    <2>6. \A d \in Clients : Verifying(d)' => store'.kind = "extensions" /\ VerifiedSoFar(d)'
      BY <2>1, <2>5 DEF Unmoved, LaunchInv, VerifiedSoFar, Covered
    <2> QED
      BY <2>4, <2>6 DEF LaunchInv
  <1> QED
    BY <1>5, <1>6, <1>7

\* Every step of a store keeps what holds of the launches.
LEMMA LaunchSteps ==
  ASSUME StoresInv, LaunchInv, Record!StoresNext
  PROVE  LaunchInv'
  <1>1. StoresTyped /\ Phases
    BY DEF StoresInv
  <1>2. ASSUME NEW c \in Clients, Record!CallStep(c) PROVE LaunchInv'
    BY <1>2, OthersKeepLaunches, LaunchesKeep DEF Record!CallStep
  <1>3. ASSUME NEW c \in Clients, Record!ImportFails(c) \/ Record!RemoveFails(c) PROVE LaunchInv'
    BY <1>3, OthersKeepLaunches
  <1>4. ASSUME NEW c \in Clients, NEW op \in {"create", "update", "delete", "check", "launch"}, NEW id \in Ids,
               NEW others \in SUBSET Ids, Record!Arrive(c, op, id, others)
        PROVE  LaunchInv'
    <2>1. /\ up /\ ~UnderWay(c) /\ op \in Record!Ops[store.kind] /\ Record!Spend("calls")
          /\ UNCHANGED <<records, dirs, launched>>
          /\ call' = [call EXCEPT ![c] = [op |-> op, id |-> id, saw |-> None, todo |-> {id} \cup others,
                                          done |-> {}, read |-> {}, at |-> IF loaded THEN "begun" ELSE "loading"]]
      BY <1>4 DEF Record!Arrive, Record!Enter, Record!Idle, UnderWay
    <2>2. store'.kind = store.kind /\ store.kind \in {"proxies", "team", "extensions"}
      BY <1>1, <2>1, KindKept DEF StoresTyped, StoreRecs
    <2>3. /\ call'[c].op = op /\ call'[c].done = {} /\ call'[c].at # "reading"
          /\ \A d \in Clients \ {c} : call'[d] = call[d]
      <3>1. PICK w \in {"begun", "loading"} : w = IF loaded THEN "begun" ELSE "loading"
        OBVIOUS
      <3>0. PICK todo : todo = {id} \cup others
        OBVIOUS
      <3>2. PICK v : /\ v = [op |-> op, id |-> id, saw |-> None, todo |-> todo,
                              done |-> {}, read |-> {}, at |-> w]
                     /\ v.op = op /\ v.done = {} /\ v.at = w
        <4> DEFINE e == [op |-> op, id |-> id, saw |-> None, todo |-> todo, done |-> {}, read |-> {}, at |-> w]
        <4>1. e.op = op /\ e.done = {} /\ e.at = w
          OBVIOUS
        <4> QED
          BY <4>1
      <3>3. call' = [call EXCEPT ![c] = v]
        BY <2>1, <3>0, <3>1, <3>2
      <3>4. call'[c] = v /\ \A d \in Clients \ {c} : call'[d] = call[d]
        BY <1>1, <3>3 DEF StoresTyped
      <3> QED
        BY <3>1, <3>2, <3>4
    <2>4. op = "launch" => store.kind = "extensions"
      BY <2>1, <2>2 DEF Record!Ops
    <2>5. ASSUME NEW d \in Clients, Verifying(d)' PROVE store'.kind = "extensions" /\ VerifiedSoFar(d)'
      <3>1. CASE d = c
        BY <2>2, <2>3, <2>4, <2>5, <3>1 DEF Verifying, VerifiedSoFar
      <3>2. CASE d # c
        <4>1. Verifying(d) /\ call'[d] = call[d]
          BY <2>3, <2>5, <3>2 DEF Verifying, UnderWay
        <4> QED
          BY <2>1, <2>2, <4>1 DEF LaunchInv, VerifiedSoFar, Covered
      <3> QED
        BY <3>1, <3>2
    <2>6. Record!LaunchedWhole'
      BY <2>1 DEF LaunchInv, Record!LaunchedWhole
    <2> QED
      BY <2>5, <2>6 DEF LaunchInv
  <1>5. ASSUME NEW k \in Ids, Record!Authenticate(k) PROVE LaunchInv'
    <2>1. UNCHANGED <<records, call, dirs, launched>> /\ store'.kind = store.kind
      BY <1>1, <1>5, KindKept DEF Record!Authenticate, StoresTyped
    <2> QED
      BY <1>1, <2>1, LaunchesUnmoved DEF Verifying, UnderWay, Covered
  <1>6. CASE Record!WriteBegins
    <2>1. UNCHANGED <<store, records, call, dirs, launched>>
      BY <1>6 DEF Record!WriteBegins
    <2> QED
      BY <1>1, <2>1, LaunchesUnmoved DEF Verifying, UnderWay, Covered
  <1>7. CASE Record!WriteEnds \/ Record!WriteFails
    <2>1. /\ writeTail # <<>> /\ UNCHANGED <<records, dirs, launched>>
          /\ IF Head(writeTail) = None THEN UNCHANGED call ELSE Record!Reply(Head(writeTail))
      BY <1>7 DEF Record!WriteEnds, Record!WriteFails
    <2>2. store'.kind = store.kind
      BY <1>1, <1>7, KindKept DEF Record!WriteEnds, Record!WriteFails, StoresTyped
    <2>3. Head(writeTail) \in Clients \cup {None}
      BY <1>1, <2>1 DEF StoresTyped
    <2>4. Unmoved
      <3>1. CASE Head(writeTail) = None
        BY <2>1, <3>1 DEF Unmoved, Verifying, UnderWay
      <3>2. CASE Head(writeTail) # None
        BY <1>1, <2>1, <2>3, <3>2, CallLeaves
      <3> QED
        BY <3>1, <3>2
    <2> QED
      BY <1>1, <2>1, <2>2, <2>4, LaunchesUnmoved DEF Unmoved, Covered
  <1>8. CASE Record!UnhandledRejection \/ Record!Crash
    <2>1. call' = [c \in Clients |-> Record!NoCall] /\ launched' = launched
      BY <1>8 DEF Record!UnhandledRejection, Record!Crash, Record!Dies
    <2>2. \A d \in Clients : ~Verifying(d)'
      BY <2>1 DEF Verifying, UnderWay
    <2> QED
      BY <2>1, <2>2 DEF LaunchInv, Record!LaunchedWhole
  <1>9. CASE Record!Restart
    <2>1. call' = call /\ launched' = launched /\ ~up
      BY <1>9 DEF Record!Restart
    <2>2. \A d \in Clients : ~Verifying(d)'
      BY <1>1, <2>1 DEF Verifying, UnderWay, Phases
    <2> QED
      BY <2>1, <2>2 DEF LaunchInv, Record!LaunchedWhole
  <1> QED
    BY <1>2, <1>3, <1>4, <1>5, <1>6, <1>7, <1>8, <1>9 DEF Record!StoresNext, Record!StoresProgress

LEMMA LaunchesInitially ==
  ASSUME Record!StoresInit
  PROVE  LaunchInv
  <1>1. launched = {} /\ call = [c \in Clients |-> Record!NoCall]
    BY DEF Record!StoresInit
  <1> QED
    BY <1>1 DEF LaunchInv, Record!LaunchedWhole, Verifying, UnderWay

\* What the stores have acknowledged survives, who was locked out stays out, and a
\* browser gets whole extensions.
LEMMA StoresAreSound ==
  ASSUME StoresInv, LaunchInv
  PROVE  StoresKeepTheirWord
  <1>1. /\ StoresTyped /\ FilesFit /\ Phases /\ Settled
    BY DEF StoresInv
  <1>2. Record!AcknowledgedSurvives
    BY <1>1, ReadsFile DEF Record!AcknowledgedSurvives, Settled
  <1>3. Record!RevokedStaysOut
    <2> SUFFICES ASSUME NEW k \in Ids, Record!Parent(k) # None,
                        NEW r \in {promised[k], promised[Record!Parent(k)]},
                        r \notin {Record!Open, None}, ~r.on, Record!Authenticates(k)
                 PROVE  FALSE
      BY DEF Record!RevokedStaysOut
    <2>1. store.kind = "team" /\ Record!Parent(k) = Member /\ Member \in Ids
      BY StoresAssumption DEF Record!Parent, Record!Is
    <2>2. ~early /\ ~Record!Loading
      BY <1>1, <2>1 DEF Phases
    <2>3. up /\ loaded
      BY <1>1, <2>1 DEF Phases, Record!Authenticates, StoresTyped
    <2>4. \A i \in {k, Member} : promised[i] # Record!Open => records[i] = promised[i]
      BY <1>1, <2>1, <2>2, <2>3 DEF Settled
    <2> QED
      BY <2>1, <2>4 DEF Record!Authenticates
  <1>4. Record!LaunchedWhole
    BY DEF LaunchInv
  <1> QED
    BY <1>2, <1>3, <1>4 DEF StoresKeepTheirWord

-----------------------------------------------------------------------------
(* The socket.  A waiting request has the number of its turn, and is null where the   *)
(* history says so.                                                                  *)

Requests == [n : Nat, kind : Socket!Kinds]
Ended == [n : Nat, answered : BOOLEAN]

SocketTyped ==
    /\ received \in Nat /\ ended \in Seq(Ended) /\ chain \in Seq(Requests)
    /\ open \in BOOLEAN /\ timer \in BOOLEAN /\ behind \in BOOLEAN

Numbered ==
    /\ Len(ended) + Len(chain) = received
    /\ \A i \in 1 .. Len(ended) : ended[i].n = i
    /\ \A i \in 1 .. Len(chain) : chain[i].n = Len(ended) + i

NullsNoted ==
    /\ \A n \in nulls : n \in Nat /\ n <= received
    /\ \A i \in 1 .. Len(ended) : ended[i].answered <=> ended[i].n \notin nulls
    /\ \A i \in 1 .. Len(chain) : chain[i].kind = "null" <=> chain[i].n \in nulls

ScreencastStopped ==
    /\ ~open /\ timer => behind
    /\ ~open => \A i \in 1 .. Len(chain) : chain[i].kind = "start_screencast" => behind

SocketInv == SocketTyped /\ Numbered /\ NullsNoted /\ ScreencastStopped

LEMMA SocketInitially ==
  ASSUME Socket!SocketInit
  PROVE  SocketInv
  <1>1. /\ open = TRUE /\ chain = <<>> /\ received = 0 /\ ended = <<>> /\ nulls = {}
        /\ timer = FALSE /\ behind = FALSE
    BY DEF Socket!SocketInit
  <1>2. ended \in Seq(Ended) /\ chain \in Seq(Requests) /\ Len(ended) = 0 /\ Len(chain) = 0
    BY <1>1
  <1>3. open \in BOOLEAN /\ timer \in BOOLEAN /\ behind \in BOOLEAN
    BY <1>1
  <1> QED
    BY <1>1, <1>2, <1>3 DEF SocketInv, SocketTyped, Numbered, NullsNoted, ScreencastStopped

\* A message joins the end of the chain with the next number.
LEMMA MessageSteps ==
  ASSUME SocketInv, NEW kind \in Socket!Kinds, Socket!Message(kind)
  PROVE  SocketInv'
  <1>0. /\ received \in Nat /\ ended \in Seq(Ended) /\ chain \in Seq(Requests)
        /\ Len(chain) \in Nat /\ Len(ended) \in Nat /\ DOMAIN chain = 1 .. Len(chain)
        /\ open \in BOOLEAN /\ timer \in BOOLEAN /\ behind \in BOOLEAN
        /\ Len(ended) + Len(chain) = received
    BY DEF SocketInv, SocketTyped, Numbered
  <1>1. PICK r \in Requests : r = [n |-> received + 1, kind |-> kind] /\ r.n = received + 1 /\ r.kind = kind
    <2>1. PICK m \in Nat : m = received + 1
      BY <1>0
    <2>2. [n |-> m, kind |-> kind] \in Requests /\ [n |-> m, kind |-> kind].n = m /\ [n |-> m, kind |-> kind].kind = kind
      BY DEF Requests
    <2> QED
      BY <2>1, <2>2
  <1>2. /\ ended' = ended /\ timer' = timer /\ behind' = behind /\ open /\ (open' <=> open)
        /\ received' = received + 1 /\ chain' = Append(chain, r)
        /\ nulls' = IF kind = "null" THEN nulls \cup {received + 1} ELSE nulls
    BY <1>1 DEF Socket!Message
  <1>3. /\ chain' \in Seq(Requests) /\ Len(chain') = Len(chain) + 1
        /\ chain'[Len(chain) + 1] = r /\ \A i \in 1 .. Len(chain) : chain'[i] = chain[i]
    BY <1>0, <1>2
  <1>4. \A i \in 1 .. Len(chain') : i \in 1 .. Len(chain) \/ i = Len(chain) + 1
    BY <1>0, <1>3
  <1>5. SocketTyped'
    <2>1. received' \in Nat /\ open' \in BOOLEAN
      BY <1>0, <1>2
    <2> QED
      BY <1>0, <1>2, <1>3, <2>1 DEF SocketTyped
  <1>6. Numbered'
    <2>1. ASSUME NEW i \in 1 .. Len(chain') PROVE chain'[i].n = Len(ended) + i
      <3>1. CASE i \in 1 .. Len(chain)
        BY <1>3, <3>1 DEF SocketInv, Numbered
      <3>2. CASE i = Len(chain) + 1
        <4>1. r.n = Len(ended) + i
          BY <1>0, <1>1, <3>2
        <4> QED
          BY <1>3, <3>2, <4>1
      <3> QED
        BY <1>4, <3>1, <3>2
    <2>2. Len(ended') + Len(chain') = received'
      BY <1>0, <1>2, <1>3
    <2>3. \A i \in 1 .. Len(ended) : ended[i].n = i
      BY DEF SocketInv, Numbered
    <2> QED
      BY <1>2, <2>1, <2>2, <2>3 DEF Numbered
  <1>7. NullsNoted'
    <2>1. \A n \in nulls : n \in Nat /\ n <= received
      BY DEF SocketInv, NullsNoted
    <2>2. \A n \in nulls' : n \in nulls \/ n = received + 1
      BY <1>2
    <2>3. \A n \in nulls' : n \in Nat /\ n <= received'
      BY <1>0, <1>2, <2>1, <2>2
    <2>4. \A n \in Nat : n <= received => (n \in nulls' <=> n \in nulls)
      BY <1>0, <1>2
    <2>5. (received + 1) \in nulls' <=> kind = "null"
      <3>1. (received + 1) \notin nulls
        BY <1>0, <2>1
      <3> QED
        BY <1>2, <3>1
    <2>6. ASSUME NEW i \in 1 .. Len(ended) PROVE ended[i].answered <=> ended[i].n \notin nulls'
      <3>1. ended[i].n = i /\ i \in Nat /\ i <= received
        BY <1>0 DEF SocketInv, Numbered
      <3>2. ended[i].answered <=> ended[i].n \notin nulls
        BY DEF SocketInv, NullsNoted
      <3> QED
        BY <2>4, <3>1, <3>2
    <2>7. ASSUME NEW i \in 1 .. Len(chain') PROVE chain'[i].kind = "null" <=> chain'[i].n \in nulls'
      <3>1. CASE i \in 1 .. Len(chain)
        <4>1. chain[i].n = Len(ended) + i /\ (chain[i].kind = "null" <=> chain[i].n \in nulls)
          BY <3>1 DEF SocketInv, Numbered, NullsNoted
        <4>2. chain[i].n \in Nat /\ chain[i].n <= received
          BY <1>0, <3>1, <4>1
        <4> QED
          BY <1>3, <2>4, <3>1, <4>1, <4>2
      <3>2. CASE i = Len(chain) + 1
        BY <1>1, <1>3, <2>5, <3>2
      <3> QED
        BY <1>4, <3>1, <3>2
    <2> QED
      BY <1>2, <2>3, <2>6, <2>7 DEF NullsNoted
  <1>8. ScreencastStopped'
    BY <1>2 DEF ScreencastStopped
  <1> QED
    BY <1>5, <1>6, <1>7, <1>8 DEF SocketInv

\* The first request of the chain ends: with an answer, or without one for null.
LEMMA EndSteps ==
  ASSUME SocketInv, NEW reply \in BOOLEAN, chain # <<>>, Socket!Ends(reply),
         reply <=> Head(chain).kind # "null",
         UNCHANGED <<open, received, nulls, behind>>, timer' \in BOOLEAN,
         timer' => timer \/ Head(chain).kind = "start_screencast"
  PROVE  SocketInv'
  <1>0. /\ received \in Nat /\ ended \in Seq(Ended) /\ chain \in Seq(Requests)
        /\ Len(chain) \in Nat \ {0} /\ Len(ended) \in Nat
        /\ open \in BOOLEAN /\ timer \in BOOLEAN /\ behind \in BOOLEAN
        /\ Len(ended) + Len(chain) = received
    BY DEF SocketInv, SocketTyped, Numbered
  <1>1. PICK e \in Ended : e = [n |-> Head(chain).n, answered |-> reply] /\ e.n = Head(chain).n /\ e.answered = reply
    <2>0. Head(chain) \in Requests
      BY <1>0
    <2>1. PICK m \in Nat : m = Head(chain).n
      BY <2>0 DEF Requests
    <2>2. [n |-> m, answered |-> reply] \in Ended /\ [n |-> m, answered |-> reply].n = m
          /\ [n |-> m, answered |-> reply].answered = reply
      BY DEF Ended
    <2> QED
      BY <2>1, <2>2
  <1>2. ended' = Append(ended, e) /\ chain' = Tail(chain)
    BY <1>1 DEF Socket!Ends, Socket!Served
  <1>3. /\ Head(chain) = chain[1] /\ 1 \in 1 .. Len(chain) /\ Len(chain') = Len(chain) - 1
        /\ \A i \in 1 .. Len(chain') : chain'[i] = chain[i + 1] /\ i + 1 \in 1 .. Len(chain)
        /\ chain' \in Seq(Requests)
    BY <1>0, <1>2
  <1>4. /\ ended' \in Seq(Ended) /\ Len(ended') = Len(ended) + 1
        /\ ended'[Len(ended) + 1] = e
        /\ \A i \in 1 .. Len(ended) : ended'[i] = ended[i]
    BY <1>0, <1>2
  <1>5. \A i \in 1 .. Len(ended') : i \in 1 .. Len(ended) \/ i = Len(ended) + 1
    BY <1>0, <1>4
  <1>6. e.n = Len(ended) + 1
    BY <1>0, <1>1, <1>3 DEF SocketInv, Numbered
  <1>7. SocketTyped'
    <2>1. open' \in BOOLEAN /\ behind' \in BOOLEAN
      BY <1>0
    <2> QED
      BY <1>0, <1>3, <1>4, <2>1 DEF SocketTyped
  <1>8. Numbered'
    <2>1. ASSUME NEW i \in 1 .. Len(ended') PROVE ended'[i].n = i
      BY <1>4, <1>5, <1>6 DEF SocketInv, Numbered
    <2>2. ASSUME NEW i \in 1 .. Len(chain') PROVE chain'[i].n = Len(ended') + i
      <3>1. i \in Nat /\ chain'[i] = chain[i + 1] /\ chain[i + 1].n = Len(ended) + (i + 1)
        BY <1>3 DEF SocketInv, Numbered
      <3> QED
        BY <1>0, <1>4, <3>1
    <2>3. Len(ended') + Len(chain') = received'
      <3>1. received' = received
        OBVIOUS
      <3>2. Len(ended') = Len(ended) + 1 /\ Len(chain') = Len(chain) - 1
        BY <1>3, <1>4
      <3>3. Len(ended) \in Nat /\ Len(chain) \in Nat /\ Len(ended) + Len(chain) = received
        BY <1>0
      <3> QED
        BY <3>1, <3>2, <3>3
    <2> QED
      BY <2>1, <2>2, <2>3 DEF Numbered
  <1>9. NullsNoted'
    <2>1. \A n \in nulls' : n \in Nat /\ n <= received'
      BY DEF SocketInv, NullsNoted
    <2>2. e.answered <=> e.n \notin nulls
      <3>1. chain[1].kind = "null" <=> chain[1].n \in nulls
        BY <1>3 DEF SocketInv, NullsNoted
      <3> QED
        BY <1>1, <1>3, <3>1
    <2>3. ASSUME NEW i \in 1 .. Len(ended') PROVE ended'[i].answered <=> ended'[i].n \notin nulls'
      <3>1. CASE i \in 1 .. Len(ended)
        BY <1>4, <3>1 DEF SocketInv, NullsNoted
      <3>2. CASE i = Len(ended) + 1
        BY <1>4, <2>2, <3>2
      <3> QED
        BY <1>5, <3>1, <3>2
    <2>4. ASSUME NEW i \in 1 .. Len(chain') PROVE chain'[i].kind = "null" <=> chain'[i].n \in nulls'
      BY <1>3 DEF SocketInv, NullsNoted
    <2> QED
      BY <2>1, <2>3, <2>4 DEF NullsNoted
  <1>10. ScreencastStopped'
    <2>1. ~open => \A i \in 1 .. Len(chain') : chain'[i].kind = "start_screencast" => behind
      BY <1>3 DEF SocketInv, ScreencastStopped
    <2>2. ~open /\ timer' => behind
      BY <1>3 DEF SocketInv, ScreencastStopped
    <2>3. (open' <=> open) /\ (behind' <=> behind)
      OBVIOUS
    <2> QED
      BY <2>1, <2>2, <2>3 DEF ScreencastStopped
  <1> QED
    BY <1>7, <1>8, <1>9, <1>10 DEF SocketInv

\* Every step of the socket keeps what holds of it.
LEMMA SocketSteps ==
  ASSUME SocketInv, Socket!SocketNext
  PROVE  SocketInv'
  <1>0. timer \in BOOLEAN /\ open \in BOOLEAN
    BY DEF SocketInv, SocketTyped
  <1>1. ASSUME NEW kind \in Socket!Kinds, Socket!Message(kind) PROVE SocketInv'
    BY <1>1, MessageSteps
  <1>2. CASE Socket!Answer
    <2>1. /\ chain # <<>> /\ Socket!Ends(TRUE) /\ (TRUE <=> Head(chain).kind # "null")
          /\ UNCHANGED <<open, received, nulls, behind>>
      BY <1>2 DEF Socket!Answer, Socket!Served
    <2>2. timer' \in BOOLEAN /\ (timer' => timer \/ Head(chain).kind = "start_screencast")
      BY <1>0, <1>2 DEF Socket!Answer, Socket!Served
    <2> QED
      BY <2>1, <2>2, EndSteps
  <1>3. CASE Socket!NullIsDropped
    <2>1. /\ chain # <<>> /\ Socket!Ends(FALSE) /\ (FALSE <=> Head(chain).kind # "null")
          /\ UNCHANGED <<open, received, nulls, behind>> /\ timer' \in BOOLEAN /\ (timer' => timer)
      BY <1>0, <1>3 DEF Socket!NullIsDropped, Socket!Served
    <2> QED
      BY <2>1, EndSteps
  <1>4. CASE Socket!Close
    <2>1. /\ UNCHANGED <<chain, received, ended, nulls>> /\ open' = FALSE /\ timer' = FALSE
          /\ behind' = (\E i \in DOMAIN chain : chain[i].kind = "start_screencast")
      BY <1>4 DEF Socket!Close
    <2>2. \A i \in 1 .. Len(chain) : chain[i].kind = "start_screencast" => behind'
      BY <2>1 DEF SocketInv, SocketTyped
    <2>3. open' \in BOOLEAN /\ timer' \in BOOLEAN /\ behind' \in BOOLEAN
      BY <2>1
    <2> QED
      BY <2>1, <2>2, <2>3 DEF SocketInv, SocketTyped, Numbered, NullsNoted, ScreencastStopped
  <1>5. CASE Socket!CallBegins \/ Socket!FrameBegins \/ Socket!FrameEnds
    <2>1. UNCHANGED <<open, chain, received, ended, nulls, timer, behind>>
      BY <1>5 DEF Socket!CallBegins, Socket!FrameBegins, Socket!FrameEnds
    <2> QED
      BY <2>1 DEF SocketInv, SocketTyped, Numbered, NullsNoted, ScreencastStopped
  <1> QED
    BY <1>1, <1>2, <1>3, <1>4, <1>5 DEF Socket!SocketNext, Socket!SocketProgress

LEMMA SocketIsSound ==
  ASSUME SocketInv
  PROVE  Socket!SocketInOrder
  <1>1. DOMAIN ended = 1 .. Len(ended)
    BY DEF SocketInv, SocketTyped
  <1>2. ASSUME NEW i \in 1 .. Len(ended) PROVE ended[i].n = i /\ (ended[i].answered <=> i \notin nulls)
    <2>1. ended[i].n = i /\ (ended[i].answered <=> ended[i].n \notin nulls)
      BY DEF SocketInv, Numbered, NullsNoted
    <2> QED
      BY <2>1
  <1>3. Len(ended) + Len(chain) = received /\ (~open /\ timer => behind)
    BY DEF SocketInv, Numbered, ScreencastStopped
  <1> QED
    BY <1>1, <1>2, <1>3 DEF Socket!SocketInOrder

-----------------------------------------------------------------------------
(* The layout of the windows.                                                        *)

LEMMA Products ==
  ASSUME NEW a \in Nat, NEW b \in Nat, NEW h \in Nat, a <= b
  PROVE  a * h <= b * h /\ a * h \in Nat /\ (a + 1) * h = a * h + h
  <1>1. PICK k \in Nat : b = a + k
    BY a <= b
  <1>2. (a + k) * h = a * h + k * h /\ k * h \in Nat /\ a * h \in Nat
    OBVIOUS
  <1> QED
    BY <1>1, <1>2

\* A window's place: its row, its column, and where they lie on a screen of side s.
LEMMA Places ==
  ASSUME NEW c \in {2, 3, 4}, NEW r \in Nat \ {0}, NEW s \in Nat, NEW i \in Nat, i < c * r
  PROVE  /\ i \div c \in 0 .. (r - 1) /\ i % c \in 0 .. (c - 1) /\ i = c * (i \div c) + (i % c)
         /\ s \div c \in Nat /\ c * (s \div c) <= s
         /\ s \div r \in Nat /\ r * (s \div r) <= s
  <1>1. /\ i % c \in 0 .. (c - 1) /\ i = c * (i \div c) + (i % c) /\ i \div c \in Nat
        /\ s \div c \in Nat /\ c * (s \div c) <= s
    <2>1. CASE c = 2
      <3>1. \A k \in Nat : /\ k % 2 \in 0 .. 1 /\ k = 2 * (k \div 2) + (k % 2) /\ k \div 2 \in Nat
                          /\ 2 * (k \div 2) <= k
        OBVIOUS
      <3> QED
        BY <2>1, <3>1
    <2>2. CASE c = 3
      <3>1. \A k \in Nat : /\ k % 3 \in 0 .. 2 /\ k = 3 * (k \div 3) + (k % 3) /\ k \div 3 \in Nat
                          /\ 3 * (k \div 3) <= k
        OBVIOUS
      <3> QED
        BY <2>2, <3>1
    <2>3. CASE c = 4
      <3>1. \A k \in Nat : /\ k % 4 \in 0 .. 3 /\ k = 4 * (k \div 4) + (k % 4) /\ k \div 4 \in Nat
                          /\ 4 * (k \div 4) <= k
        OBVIOUS
      <3> QED
        BY <2>3, <3>1
    <2> QED
      BY <2>1, <2>2, <2>3
  <1>2. i \div c < r
    <2>1. PICK q \in Nat : q = i \div c
      BY <1>1
    <2>2. c \in Nat /\ c * q <= i /\ (q >= r => c * r <= c * q)
      <3>1. q >= r => r * c <= q * c
        BY Products
      <3> QED
        BY <1>1, <2>1, <3>1
    <2>3. c * q \in Nat /\ c * r \in Nat
      BY <2>2
    <2> QED
      BY <2>1, <2>2, <2>3
  <1>3. s \div r \in Nat /\ r * (s \div r) <= s
    OBVIOUS
  <1> QED
    BY <1>1, <1>2, <1>3

\* Windows in c columns and r rows are on the screen and apart.
LEMMA GridTiles ==
  ASSUME NEW c \in {2, 3, 4}, NEW r \in Nat \ {0}, NEW s \in Nat,
         NEW i \in Nat, NEW j \in Nat, i < c * r, j < c * r, i # j
  PROVE  /\ (i % c) * (s \div c) + s \div c <= s /\ (i \div c) * (s \div r) + s \div r <= s
         /\ \/ (i % c) * (s \div c) + s \div c <= (j % c) * (s \div c)
            \/ (j % c) * (s \div c) + s \div c <= (i % c) * (s \div c)
            \/ (i \div c) * (s \div r) + s \div r <= (j \div c) * (s \div r)
            \/ (j \div c) * (s \div r) + s \div r <= (i \div c) * (s \div r)
  <1> DEFINE w == s \div c
             h == s \div r
             x(k) == k % c
             y(k) == k \div c
  <1>1. /\ w \in Nat /\ c * w <= s /\ h \in Nat /\ r * h <= s
        /\ \A k \in {i, j} : x(k) \in 0 .. (c - 1) /\ y(k) \in 0 .. (r - 1) /\ k = c * y(k) + x(k)
    BY Places
  <1>2. x(i) # x(j) \/ y(i) # y(j)
    BY <1>1
  <1> HIDE DEF w, h, x, y
  <1>3. \A a \in Nat, b \in Nat : a < b => a * w + w <= b * w /\ a * h + h <= b * h
    <2> TAKE a \in Nat, b \in Nat
    <2> HAVE a < b
    <2>1. a + 1 \in Nat /\ a + 1 <= b
      OBVIOUS
    <2>2. (a + 1) * w <= b * w /\ (a + 1) * w = a * w + w
      BY <1>1, <2>1, Products
    <2>3. (a + 1) * h <= b * h /\ (a + 1) * h = a * h + h
      BY <1>1, <2>1, Products
    <2> QED
      BY <2>2, <2>3
  <1>4. x(i) \in Nat /\ x(j) \in Nat /\ y(i) \in Nat /\ y(j) \in Nat /\ x(i) < c /\ y(i) < r /\ c \in Nat /\ r \in Nat
    BY <1>1
  <1>5. x(i) * w + w <= c * w /\ y(i) * h + h <= r * h
    BY <1>3, <1>4
  <1>6. \/ x(i) * w + w <= x(j) * w \/ x(j) * w + w <= x(i) * w
        \/ y(i) * h + h <= y(j) * h \/ y(j) * h + h <= y(i) * h
    <2>1. x(i) < x(j) \/ x(j) < x(i) \/ y(i) < y(j) \/ y(j) < y(i)
      BY <1>2, <1>4
    <2> QED
      BY <1>3, <1>4, <2>1
  <1>7. x(i) * w + w <= s /\ y(i) * h + h <= s
    <2>1. x(i) * w \in Nat /\ y(i) * h \in Nat /\ c * w \in Nat /\ r * h \in Nat
      BY <1>1, <1>4, Products
    <2> QED
      BY <1>1, <1>5, <2>1
  <1> QED
    BY <1>6, <1>7 DEF w, h, x, y

LayoutInv == DOMAIN layout = {} \/ \E n \in 1 .. MaxWindows : layout = Sync!GridLayout(n, Screen, Screen)

\* A grid of two, three or four columns has a place for each of its windows.
LEMMA GridHolds ==
  ASSUME NEW n \in Nat \ {0}
  PROVE  \E c \in {2, 3, 4}, r \in Nat \ {0} : c = Sync!Grid(n).cols /\ r = Sync!Grid(n).rows /\ n <= c * r
  <1>1. CASE n = 2
    <2>1. Sync!Grid(n) = [cols |-> 2, rows |-> 1]
      BY <1>1 DEF Sync!Grid
    <2> QED
      BY <1>1, <2>1
  <1>2. CASE n \in {1, 3, 4}
    <2>1. Sync!Grid(n) = [cols |-> 2, rows |-> 2]
      BY <1>2 DEF Sync!Grid
    <2> QED
      BY <1>2, <2>1
  <1>3. CASE n \in 5 .. 6
    <2>1. Sync!Grid(n) = [cols |-> 3, rows |-> 2]
      BY <1>3 DEF Sync!Grid
    <2> QED
      BY <1>3, <2>1
  <1>4. CASE n \in 7 .. 9
    <2>1. Sync!Grid(n) = [cols |-> 3, rows |-> 3]
      BY <1>4 DEF Sync!Grid
    <2> QED
      BY <1>4, <2>1
  <1>5. CASE n > 9
    <2>1. Sync!Grid(n) = [cols |-> 4, rows |-> (n + 3) \div 4]
      BY <1>5 DEF Sync!Grid
    <2>2. (n + 3) \div 4 \in Nat \ {0} /\ n <= 4 * ((n + 3) \div 4)
      BY <1>5
    <2> QED
      BY <2>1, <2>2
  <1> QED
    BY <1>1, <1>2, <1>3, <1>4, <1>5

\* The windows of a layout are on the screen and none overlaps another.
LEMMA LayoutIsTiled ==
  ASSUME LayoutInv
  PROVE  Sync!LayoutTiles
  <1>1. CASE DOMAIN layout = {}
    BY <1>1 DEF Sync!LayoutTiles
  <1>2. ASSUME NEW n \in 1 .. MaxWindows, layout = Sync!GridLayout(n, Screen, Screen)
        PROVE  Sync!LayoutTiles
    <2>1. n \in Nat \ {0} /\ Screen \in Nat
      BY SyncAssumption
    <2>2. PICK c \in {2, 3, 4}, r \in Nat \ {0} : c = Sync!Grid(n).cols /\ r = Sync!Grid(n).rows /\ n <= c * r
      BY <2>1, GridHolds
    <2> DEFINE w == Screen \div c
               h == Screen \div r
    <2>3. layout = [i \in 1 .. n |-> [x |-> ((i - 1) % c) * w, y |-> ((i - 1) \div c) * h, width |-> w, height |-> h]]
      BY <1>2, <2>2 DEF Sync!GridLayout
    <2>4. /\ DOMAIN layout = 1 .. n
          /\ \A i \in 1 .. n : /\ layout[i].x = ((i - 1) % c) * w /\ layout[i].y = ((i - 1) \div c) * h
                               /\ layout[i].width = w /\ layout[i].height = h
      BY <2>3
    <2>5. c * r \in Nat
      BY <2>2
    <2>6. ASSUME NEW i \in 1 .. n, NEW j \in 1 .. n, i # j
          PROVE  Sync!Inside(layout[i]) /\ Sync!Apart(layout[i], layout[j])
      <3>1. /\ i - 1 \in Nat /\ j - 1 \in Nat /\ i - 1 < c * r /\ j - 1 < c * r /\ i - 1 # j - 1
        BY <2>1, <2>2, <2>5, <2>6
      <3>2. /\ ((i - 1) % c) * w + w <= Screen /\ ((i - 1) \div c) * h + h <= Screen
            /\ \/ ((i - 1) % c) * w + w <= ((j - 1) % c) * w
               \/ ((j - 1) % c) * w + w <= ((i - 1) % c) * w
               \/ ((i - 1) \div c) * h + h <= ((j - 1) \div c) * h
               \/ ((j - 1) \div c) * h + h <= ((i - 1) \div c) * h
        BY <2>1, <2>2, <3>1, GridTiles
      <3> HIDE DEF w, h
      <3> QED
        BY <2>4, <3>2 DEF Sync!Inside, Sync!Apart
    <2>7. ASSUME NEW i \in 1 .. n PROVE Sync!Inside(layout[i])
      <3>1. /\ i - 1 \in Nat /\ i - 1 < c * r
        BY <2>1, <2>2, <2>5, <2>7
      <3>2. ((i - 1) % c) * w + w <= Screen /\ ((i - 1) \div c) * h + h <= Screen
        <4>1. PICK j \in Nat : j < c * r /\ j # i - 1
          <5>1. c * r > 1
            BY <2>2
          <5> QED
            BY <2>5, <3>1, <5>1
        <4> QED
          BY <2>1, <2>2, <3>1, <4>1, GridTiles
      <3> HIDE DEF w, h
      <3> QED
        BY <2>4, <3>2 DEF Sync!Inside
    <2> QED
      BY <2>4, <2>6, <2>7 DEF Sync!LayoutTiles
  <1> QED
    BY <1>1, <1>2 DEF LayoutInv

-----------------------------------------------------------------------------
(* The synchronizer.  One broadcast is under way at a time, it is of the last action  *)
(* that was begun, and the chain holds those that come after it.                     *)

\* What was tried at a follower and did not come off.
Missed ==
    {x \in Followers \X (1 .. actions) :
        /\ ~(x[2] = actions /\ \E b \in running : x[1] \in b.todo)
        /\ \A i \in DOMAIN got[x[1]] : got[x[1]][i] # x[2]}

SyncTyped ==
    /\ acted \in Nat /\ actions \in Nat /\ failures \in Nat
    /\ captureTail \in Seq(Nat) /\ got \in [Followers -> Seq(Nat)]

OneBroadcast ==
    \/ running = {}
    \/ \E todo \in SUBSET Followers : running = {[action |-> actions, todo |-> todo]} /\ actions > 0

SyncInv ==
    /\ SyncTyped /\ OneBroadcast /\ LayoutInv
    /\ Len(captureTail) + actions = acted
    /\ \A i \in 1 .. Len(captureTail) : captureTail[i] = actions + i
    /\ \A f \in Followers : \A i, j \in 1 .. Len(got[f]) : i < j => got[f][i] < got[f][j]
    /\ \A f \in Followers : \A i \in 1 .. Len(got[f]) :
          /\ got[f][i] \in 1 .. actions
          /\ \A b \in running : f \in b.todo => got[f][i] < actions
    /\ failures = Cardinality(Missed)

LEMMA MissedFinite ==
  ASSUME SyncTyped
  PROVE  IsFiniteSet(Missed)
  <1>1. IsFiniteSet(1 .. actions)
    BY FS_Interval DEF SyncTyped
  <1>2. IsFiniteSet(Followers \X (1 .. actions))
    BY <1>1, SyncAssumption, FS_Product
  <1>3. Missed \subseteq Followers \X (1 .. actions)
    BY DEF Missed
  <1> QED
    BY <1>2, <1>3, FS_Subset

LEMMA SyncInitially ==
  ASSUME Sync!SyncInit
  PROVE  SyncInv
  <1>1. /\ acted = 0 /\ captureTail = <<>> /\ running = {} /\ got = [f \in Followers |-> <<>>]
        /\ actions = 0 /\ failures = 0 /\ layout = <<>>
    BY DEF Sync!SyncInit
  <1>2. SyncTyped
    BY <1>1 DEF SyncTyped
  <1>3. LayoutInv /\ OneBroadcast
    BY <1>1 DEF LayoutInv, OneBroadcast
  <1>4. Missed = {}
    BY <1>1 DEF Missed
  <1>5. failures = Cardinality(Missed)
    BY <1>1, <1>4, FS_EmptySet
  <1>6. Len(captureTail) = 0 /\ \A f \in Followers : Len(got[f]) = 0
    BY <1>1
  <1> QED
    BY <1>1, <1>2, <1>3, <1>5, <1>6 DEF SyncInv

\* The next broadcast begins: nobody has been told yet.
LEMMA BroadcastBeginsKeeps ==
  ASSUME SyncInv, Sync!BroadcastBegins
  PROVE  SyncInv'
  <1>1. /\ acted \in Nat /\ actions \in Nat /\ failures \in Nat
        /\ captureTail \in Seq(Nat) /\ got \in [Followers -> Seq(Nat)] /\ captureTail # <<>>
        /\ Len(captureTail) + actions = acted /\ running = {} /\ SyncTyped
        /\ \A i \in 1 .. Len(captureTail) : captureTail[i] = actions + i
        /\ \A f \in Followers : \A i \in 1 .. Len(got[f]) : got[f][i] \in 1 .. actions
    BY DEF SyncInv, SyncTyped, Sync!BroadcastBegins
  <1>2. /\ UNCHANGED <<acted, got, failures, layout>>
        /\ captureTail' = Tail(captureTail) /\ actions' = actions + 1
        /\ running' = {[action |-> Head(captureTail), todo |-> Followers]}
    BY DEF Sync!BroadcastBegins
  <1>3. /\ Len(captureTail) \in Nat \ {0} /\ Head(captureTail) = captureTail[1] /\ captureTail' \in Seq(Nat)
        /\ Len(captureTail') = Len(captureTail) - 1
        /\ \A i \in 1 .. Len(captureTail') : captureTail'[i] = captureTail[i + 1] /\ i + 1 \in 1 .. Len(captureTail)
    BY <1>1, <1>2
  <1>4. Head(captureTail) = actions' /\ actions' \in Nat \ {0}
    BY <1>1, <1>2, <1>3
  <1>5. SyncTyped'
    BY <1>1, <1>2, <1>3, <1>4 DEF SyncTyped
  <1>6. LayoutInv'
    BY <1>2 DEF SyncInv, LayoutInv
  <1>7. OneBroadcast'
    <2>1. running' = {[action |-> actions', todo |-> Followers]} /\ actions' > 0
      BY <1>2, <1>4
    <2>2. Followers \in SUBSET Followers
      OBVIOUS
    <2> QED
      BY <2>1, <2>2 DEF OneBroadcast
  <1>8. Missed' = Missed
    <2>1. ASSUME NEW f, NEW a, <<f, a>> \in Missed' PROVE <<f, a>> \in Missed
      <3>1. /\ f \in Followers /\ a \in 1 .. actions' /\ a # actions' /\ \A i \in DOMAIN got[f] : got[f][i] # a
        BY <1>2, <2>1 DEF Missed
      <3>2. a \in 1 .. actions
        BY <1>1, <1>2, <3>1
      <3> QED
        BY <1>1, <3>1, <3>2 DEF Missed
    <2>2. ASSUME NEW f, NEW a, <<f, a>> \in Missed PROVE <<f, a>> \in Missed'
      <3>1. /\ f \in Followers /\ a \in 1 .. actions /\ \A i \in DOMAIN got[f] : got[f][i] # a
        BY <2>2 DEF Missed
      <3>2. a \in 1 .. actions' /\ a # actions'
        BY <1>1, <1>2, <3>1
      <3> QED
        BY <1>2, <3>1, <3>2 DEF Missed
    <2> QED
      BY <2>1, <2>2 DEF Missed
  <1>9. failures' = Cardinality(Missed')
    BY <1>2, <1>8 DEF SyncInv
  <1>10. Len(captureTail') + actions' = acted'
    <2>1. /\ Len(captureTail') = Len(captureTail) - 1 /\ actions' = actions + 1 /\ acted' = acted
          /\ Len(captureTail) \in Nat /\ actions \in Nat /\ Len(captureTail) + actions = acted
      BY <1>1, <1>2, <1>3
    <2> QED
      BY <2>1
  <1>11. ASSUME NEW i \in 1 .. Len(captureTail') PROVE captureTail'[i] = actions' + i
    <2>1. captureTail[i + 1] = actions + (i + 1) /\ captureTail'[i] = captureTail[i + 1] /\ i \in Nat
      BY <1>1, <1>3
    <2> QED
      BY <1>1, <1>2, <2>1
  <1>12. \A f \in Followers : \A i \in 1 .. Len(got[f]) : got[f][i] \in 1 .. actions' /\ got[f][i] < actions'
    BY <1>1, <1>2
  <1>13. \A f \in Followers : \A i, j \in 1 .. Len(got'[f]) : i < j => got'[f][i] < got'[f][j]
    BY <1>2 DEF SyncInv
  <1> QED
    BY <1>2, <1>5, <1>6, <1>7, <1>9, <1>10, <1>11, <1>12, <1>13 DEF SyncInv

\* A follower is told, and does the same or does not.
LEMMA FollowsKeeps ==
  ASSUME SyncInv, NEW b \in running, NEW f \in Followers, NEW ok \in BOOLEAN, Sync!Follows(b, f, ok)
  PROVE  SyncInv'
  <1>1. /\ acted \in Nat /\ actions \in Nat /\ failures \in Nat
        /\ captureTail \in Seq(Nat) /\ got \in [Followers -> Seq(Nat)] /\ SyncTyped
        /\ \A g \in Followers : Len(got[g]) \in Nat /\ DOMAIN got[g] = 1 .. Len(got[g])
        /\ \A g \in Followers : \A i, j \in 1 .. Len(got[g]) : i < j => got[g][i] < got[g][j]
        /\ \A g \in Followers : \A i \in 1 .. Len(got[g]) : got[g][i] \in 1 .. actions
    BY DEF SyncInv, SyncTyped
  <1>2. PICK todo \in SUBSET Followers : running = {[action |-> actions, todo |-> todo]} /\ actions > 0
    BY DEF SyncInv, OneBroadcast
  <1>3. b = [action |-> actions, todo |-> todo] /\ b.action = actions /\ b.todo = todo
    BY <1>2
  <1>4. /\ UNCHANGED <<acted, captureTail, actions, layout>> /\ f \in todo
        /\ got' = IF ok THEN [got EXCEPT ![f] = Append(got[f], actions)] ELSE got
        /\ failures' = IF ok THEN failures ELSE failures + 1
        /\ running' = (running \ {b}) \cup {[b EXCEPT !.todo = b.todo \ {f}]}
    BY <1>3 DEF Sync!Follows
  <1>5. running' = {[action |-> actions, todo |-> todo \ {f}]}
    <2>1. [b EXCEPT !.todo = b.todo \ {f}] = [action |-> actions, todo |-> todo \ {f}]
      BY <1>3
    <2> QED
      BY <1>2, <1>3, <1>4, <2>1
  <1>6. \A g \in todo : \A i \in 1 .. Len(got[g]) : got[g][i] < actions
    BY <1>2, <1>3 DEF SyncInv
  <1>7. /\ got' \in [Followers -> Seq(Nat)] /\ \A g \in Followers \ {f} : got'[g] = got[g]
        /\ ~ok => got'[f] = got[f]
        /\ ok => /\ got'[f] = Append(got[f], actions) /\ got'[f] \in Seq(Nat)
                 /\ Len(got'[f]) = Len(got[f]) + 1 /\ got'[f][Len(got[f]) + 1] = actions
                 /\ \A i \in 1 .. Len(got[f]) : got'[f][i] = got[f][i]
    <2>1. got[f] \in Seq(Nat) /\ Append(got[f], actions) \in Seq(Nat)
      BY <1>1
    <2>2. CASE ok
      <3>1. got'[f] = Append(got[f], actions) /\ \A g \in Followers \ {f} : got'[g] = got[g]
        BY <1>1, <1>4, <2>2
      <3> QED
        BY <1>1, <1>4, <2>1, <2>2, <3>1
    <2>3. CASE ~ok
      BY <1>1, <1>4, <2>3
    <2> QED
      BY <2>2, <2>3
  <1>8. /\ \A i \in 1 .. Len(got'[f]) : got'[f][i] \in 1 .. actions
        /\ \A i, j \in 1 .. Len(got'[f]) : i < j => got'[f][i] < got'[f][j]
    <2>1. CASE ok
      <3>1. \A i \in 1 .. Len(got'[f]) : i \in 1 .. Len(got[f]) \/ (i = Len(got[f]) + 1 /\ i \notin 1 .. Len(got[f]))
        BY <1>1, <1>7, <2>1
      <3>2. ASSUME NEW i \in 1 .. Len(got'[f]) PROVE got'[f][i] \in 1 .. actions
        <4>1. CASE i \in 1 .. Len(got[f])
          BY <1>1, <1>7, <2>1, <4>1
        <4>2. CASE i = Len(got[f]) + 1
          <5>1. got'[f][i] = actions
            BY <1>7, <2>1, <4>2
          <5> QED
            BY <1>1, <1>2, <5>1
        <4> QED
          BY <3>1, <4>1, <4>2
      <3>3. \A i, j \in 1 .. Len(got'[f]) : i < j => i \in 1 .. Len(got[f])
        BY <1>1, <1>7, <2>1
      <3>4. \A i, j \in 1 .. Len(got'[f]) : i < j => got'[f][i] < got'[f][j]
        BY <1>1, <1>4, <1>6, <1>7, <2>1, <3>1, <3>3
      <3> QED
        BY <3>2, <3>4
    <2>2. CASE ~ok
      BY <1>1, <1>7, <2>2
    <2> QED
      BY <2>1, <2>2
  <1>9. \A g \in todo \ {f} : \A i \in 1 .. Len(got'[g]) : got'[g][i] < actions
    BY <1>6, <1>7
  <1>10. IF ok THEN Missed' = Missed ELSE Missed' = Missed \cup {<<f, actions>>} /\ <<f, actions>> \notin Missed
    <2>1. \A x \in Followers \X (1 .. actions) :
             /\ x \in Missed <=> /\ ~(x[2] = actions /\ x[1] \in todo)
                                 /\ \A i \in 1 .. Len(got[x[1]]) : got[x[1]][i] # x[2]
             /\ x \in Missed' <=> /\ ~(x[2] = actions /\ x[1] \in todo \ {f})
                                  /\ \A i \in 1 .. Len(got'[x[1]]) : got'[x[1]][i] # x[2]
      <3>1. \A g \in Followers : DOMAIN got[g] = 1 .. Len(got[g]) /\ DOMAIN got'[g] = 1 .. Len(got'[g])
        BY <1>1, <1>7
      <3>2. (\E d \in running : TRUE) /\ (\A d \in running : d.todo = todo) /\ (\A d \in running' : d.todo = todo \ {f})
            /\ (\E d \in running' : TRUE)
        BY <1>2, <1>5
      <3>3. actions' = actions
        BY <1>4
      <3>4. ASSUME NEW x \in Followers \X (1 .. actions)
            PROVE  /\ x \in Missed <=> /\ ~(x[2] = actions /\ x[1] \in todo)
                                       /\ \A i \in 1 .. Len(got[x[1]]) : got[x[1]][i] # x[2]
                   /\ x \in Missed' <=> /\ ~(x[2] = actions /\ x[1] \in todo \ {f})
                                        /\ \A i \in 1 .. Len(got'[x[1]]) : got'[x[1]][i] # x[2]
        <4>1. x[1] \in Followers
          OBVIOUS
        <4>2. DOMAIN got[x[1]] = 1 .. Len(got[x[1]]) /\ DOMAIN got'[x[1]] = 1 .. Len(got'[x[1]])
          BY <3>1, <4>1
        <4>3. (\E d \in running : x[1] \in d.todo) <=> x[1] \in todo
          BY <3>2
        <4>4. (\E d \in running' : x[1] \in d.todo) <=> x[1] \in todo \ {f}
          BY <3>2
        <4>5. x \in Missed <=> /\ ~(x[2] = actions /\ x[1] \in todo)
                               /\ \A i \in 1 .. Len(got[x[1]]) : got[x[1]][i] # x[2]
          BY <4>2, <4>3 DEF Missed
        <4>6. x \in Missed' <=> /\ ~(x[2] = actions /\ x[1] \in todo \ {f})
                                /\ \A i \in 1 .. Len(got'[x[1]]) : got'[x[1]][i] # x[2]
          BY <3>3, <4>2, <4>4 DEF Missed
        <4> QED
          BY <4>5, <4>6
      <3> QED
        BY <3>4
    <2>2. Missed \subseteq Followers \X (1 .. actions) /\ Missed' \subseteq Followers \X (1 .. actions)
      BY <1>4 DEF Missed
    <2>3. <<f, actions>> \in Followers \X (1 .. actions) /\ <<f, actions>>[1] = f /\ <<f, actions>>[2] = actions
      BY <1>1, <1>2
    <2>4. <<f, actions>> \notin Missed
      BY <1>4, <2>1, <2>3
    <2>5. <<f, actions>> \in Missed' <=> ~ok
      <3>1. ASSUME ok PROVE \E i \in 1 .. Len(got'[f]) : got'[f][i] = actions
        <4>1. Len(got[f]) + 1 \in 1 .. Len(got'[f])
          BY <1>1, <1>7, <3>1
        <4> QED
          BY <1>7, <3>1, <4>1
      <3>2. ~ok => \A i \in 1 .. Len(got'[f]) : got'[f][i] # actions
        BY <1>1, <1>4, <1>6, <1>7
      <3> QED
        BY <2>1, <2>3, <3>1, <3>2
    <2>6. ASSUME NEW x \in Followers \X (1 .. actions), x # <<f, actions>> PROVE x \in Missed <=> x \in Missed'
      <3>1. x[1] # f \/ x[2] # actions
        BY <2>6
      <3>2. CASE x[1] # f
        BY <1>7, <2>1, <3>2
      <3>3. CASE x[1] = f /\ x[2] # actions
        <4>1. (\A i \in 1 .. Len(got[f]) : got[f][i] # x[2]) <=> (\A i \in 1 .. Len(got'[f]) : got'[f][i] # x[2])
          <5>1. CASE ok
            <6>1. \A i \in 1 .. Len(got'[f]) : i \in 1 .. Len(got[f]) \/ i = Len(got[f]) + 1
              BY <1>1, <1>7, <5>1
            <6>2. \A i \in 1 .. Len(got[f]) : i \in 1 .. Len(got'[f])
              BY <1>1, <1>7, <5>1
            <6> QED
              BY <1>7, <3>3, <5>1, <6>1, <6>2
          <5>2. CASE ~ok
            BY <1>7, <5>2
          <5> QED
            BY <5>1, <5>2
        <4> QED
          BY <2>1, <3>3, <4>1
      <3> QED
        BY <3>1, <3>2, <3>3
    <2>7. /\ <<f, actions>> \notin Missed /\ (<<f, actions>> \in Missed' <=> ~ok)
          /\ \A x : x # <<f, actions>> => (x \in Missed <=> x \in Missed')
      BY <2>2, <2>4, <2>5, <2>6
    <2>8. CASE ok
      BY <2>7, <2>8
    <2>9. CASE ~ok
      BY <2>7, <2>9
    <2> QED
      BY <2>8, <2>9
  <1>11. failures' = Cardinality(Missed') /\ failures' \in Nat
    <2>1. failures = Cardinality(Missed) /\ IsFiniteSet(Missed)
      BY <1>1, MissedFinite DEF SyncInv
    <2>2. CASE ok
      BY <1>1, <1>4, <1>10, <2>1, <2>2
    <2>3. CASE ~ok
      <3>1. Cardinality(Missed \cup {<<f, actions>>}) = Cardinality(Missed) + 1
        BY <1>10, <2>1, <2>3, FS_AddElement
      <3>2. failures' = failures + 1 /\ Missed' = Missed \cup {<<f, actions>>}
        BY <1>4, <1>10, <2>3
      <3> QED
        BY <1>1, <2>1, <3>1, <3>2
    <2> QED
      BY <2>2, <2>3
  <1>12. SyncTyped'
    BY <1>1, <1>4, <1>7, <1>11 DEF SyncTyped
  <1>13. LayoutInv' /\ OneBroadcast'
    <2>1. LayoutInv'
      BY <1>4 DEF SyncInv, LayoutInv
    <2>2. running' = {[action |-> actions', todo |-> todo \ {f}]} /\ actions' > 0 /\ todo \ {f} \in SUBSET Followers
      BY <1>2, <1>4, <1>5
    <2> QED
      BY <2>1, <2>2 DEF OneBroadcast
  <1>14. /\ Len(captureTail') + actions' = acted'
         /\ \A i \in 1 .. Len(captureTail') : captureTail'[i] = actions' + i
    BY <1>4 DEF SyncInv
  <1>15. \A g \in Followers : \A i, j \in 1 .. Len(got'[g]) : i < j => got'[g][i] < got'[g][j]
    BY <1>1, <1>7, <1>8
  <1>16. \A g \in Followers : \A i \in 1 .. Len(got'[g]) :
            /\ got'[g][i] \in 1 .. actions'
            /\ \A d \in running' : g \in d.todo => got'[g][i] < actions'
    <2>1. \A g \in Followers : \A i \in 1 .. Len(got'[g]) : got'[g][i] \in 1 .. actions'
      BY <1>1, <1>4, <1>7, <1>8
    <2>2. \A d \in running' : d.todo = todo \ {f}
      BY <1>5
    <2> QED
      BY <1>4, <1>9, <2>1, <2>2
  <1> QED
    BY <1>11, <1>12, <1>13, <1>14, <1>15, <1>16 DEF SyncInv

\* Every step of the synchronizer keeps what holds of it.
LEMMA SyncSteps ==
  ASSUME SyncInv, Sync!SyncNext
  PROVE  SyncInv'
  <1>1. CASE Sync!BroadcastBegins
    BY <1>1, BroadcastBeginsKeeps
  <1>2. ASSUME NEW b \in running, NEW f \in Followers, NEW ok \in BOOLEAN, Sync!Follows(b, f, ok) PROVE SyncInv'
    BY <1>2, FollowsKeeps
  <1>3. ASSUME NEW b \in running, Sync!BroadcastEnds(b) PROVE SyncInv'
    <2>1. /\ UNCHANGED <<acted, captureTail, got, actions, failures, layout>>
          /\ b.todo = {} /\ running' = running \ {b}
      BY <1>3 DEF Sync!BroadcastEnds
    <2>2. running = {b} /\ running' = {}
      BY <1>3, <2>1 DEF SyncInv, OneBroadcast
    <2>3. Missed' = Missed
      BY <2>1, <2>2 DEF Missed
    <2>4. SyncTyped' /\ OneBroadcast' /\ LayoutInv'
      BY <2>1, <2>2 DEF SyncInv, SyncTyped, OneBroadcast, LayoutInv
    <2> QED
      BY <2>1, <2>2, <2>3, <2>4 DEF SyncInv
  <1>4. CASE Sync!MasterActs
    <2>1. /\ UNCHANGED <<running, got, actions, failures, layout>>
          /\ acted' = acted + 1 /\ captureTail' = Append(captureTail, acted + 1)
      BY <1>4 DEF Sync!MasterActs
    <2>2. /\ acted \in Nat /\ actions \in Nat /\ captureTail \in Seq(Nat)
          /\ Len(captureTail) + actions = acted /\ Len(captureTail) \in Nat
          /\ \A i \in 1 .. Len(captureTail) : captureTail[i] = actions + i
      BY DEF SyncInv, SyncTyped
    <2>3. /\ captureTail' \in Seq(Nat) /\ Len(captureTail') = Len(captureTail) + 1
          /\ captureTail'[Len(captureTail) + 1] = acted + 1
          /\ \A i \in 1 .. Len(captureTail) : captureTail'[i] = captureTail[i]
      BY <2>1, <2>2
    <2>4. ASSUME NEW i \in 1 .. Len(captureTail') PROVE captureTail'[i] = actions + i
      <3>1. i \in 1 .. Len(captureTail) \/ i = Len(captureTail) + 1
        BY <2>2, <2>3
      <3> QED
        BY <2>2, <2>3, <3>1
    <2>5. SyncTyped' /\ OneBroadcast' /\ LayoutInv'
      <3>1. acted' \in Nat
        BY <2>1, <2>2
      <3>2. SyncTyped'
        BY <2>1, <2>3, <3>1 DEF SyncInv, SyncTyped
      <3> QED
        BY <2>1, <3>2 DEF SyncInv, OneBroadcast, LayoutInv
    <2>6. Missed' = Missed
      BY <2>1 DEF Missed
    <2>7. Len(captureTail') + actions' = acted'
      <3>1. Len(captureTail') = Len(captureTail) + 1 /\ actions' = actions /\ acted' = acted + 1
        BY <2>1, <2>3
      <3> QED
        BY <2>2, <3>1
    <2> QED
      BY <2>1, <2>4, <2>5, <2>6, <2>7 DEF SyncInv
  <1>5. ASSUME NEW n \in 0 .. MaxWindows, Sync!TileLayout(n) PROVE SyncInv'
    <2>1. /\ UNCHANGED <<acted, captureTail, running, got, actions, failures>>
          /\ layout' = Sync!GridLayout(n, Screen, Screen)
      BY <1>5 DEF Sync!TileLayout
    <2>2. LayoutInv'
      <3>1. CASE n = 0
        <4>1. DOMAIN layout' = 1 .. 0
          BY <2>1, <3>1 DEF Sync!GridLayout
        <4> QED
          BY <4>1 DEF LayoutInv
      <3>2. CASE n # 0
        <4>1. n \in 1 .. MaxWindows
          BY <3>2, SyncAssumption
        <4> QED
          BY <2>1, <4>1 DEF LayoutInv
      <3> QED
        BY <3>1, <3>2
    <2>3. Missed' = Missed
      BY <2>1 DEF Missed
    <2>4. SyncTyped' /\ OneBroadcast'
      BY <2>1 DEF SyncInv, SyncTyped, OneBroadcast
    <2> QED
      BY <2>1, <2>2, <2>3, <2>4 DEF SyncInv
  <1>6. ASSUME UNCHANGED <<acted, captureTail, running, got, actions, failures, layout>> PROVE SyncInv'
    <2>1. Missed' = Missed
      BY <1>6 DEF Missed
    <2>2. SyncTyped' /\ OneBroadcast' /\ LayoutInv'
      BY <1>6 DEF SyncInv, SyncTyped, OneBroadcast, LayoutInv
    <2> QED
      BY <1>6, <2>1, <2>2 DEF SyncInv
  <1>7. CASE Sync!CaptureOpens \/ Sync!StartCapture \/ Sync!StopCapture
    BY <1>6, <1>7 DEF Sync!CaptureOpens, Sync!StartCapture, Sync!StopCapture
  <1>8. ASSUME NEW s \in Followers \cup {0}, Sync!SessionEnds(s) PROVE SyncInv'
    BY <1>6, <1>8 DEF Sync!SessionEnds
  <1> QED
    BY <1>1, <1>2, <1>3, <1>4, <1>5, <1>7, <1>8 DEF Sync!SyncNext, Sync!SyncProgress

\* Cardinality is the same operator in every module.
LEMMA SameCardinality ==
  ASSUME NEW S
  PROVE  Sync!Cardinality(S) = Cardinality(S) /\ Desk!Cardinality(S) = Cardinality(S)
  BY DEF Sync!Cardinality, Desk!Cardinality, Cardinality

LEMMA SyncIsSound ==
  ASSUME SyncInv
  PROVE  Sync!FollowersInOrder /\ Sync!LayoutTiles
  <1>1. \A f \in Followers : DOMAIN got[f] = 1 .. Len(got[f])
    BY DEF SyncInv, SyncTyped
  <1>2. \A f \in Followers : \A i, j \in DOMAIN got[f] : i < j => got[f][i] < got[f][j]
    BY <1>1 DEF SyncInv
  <1>3. \A f \in Followers : \A i \in DOMAIN got[f] : \A b \in running : got[f][i] > b.action => b.todo = {}
    <2>1. \A b \in running : b.action = actions
      BY DEF SyncInv, OneBroadcast
    <2>2. \A f \in Followers : \A i \in DOMAIN got[f] : got[f][i] \in 1 .. actions /\ actions \in Nat
      BY <1>1 DEF SyncInv, SyncTyped
    <2> QED
      BY <2>1, <2>2
  <1>4. ASSUME running = {}, captureTail = <<>>
        PROVE  /\ actions = acted
               /\ failures = Cardinality({x \in Followers \X (1 .. acted) :
                                            \A i \in DOMAIN got[x[1]] : got[x[1]][i] # x[2]})
    <2>1. actions = acted
      BY <1>4 DEF SyncInv, SyncTyped
    <2>2. Missed = {x \in Followers \X (1 .. acted) : \A i \in DOMAIN got[x[1]] : got[x[1]][i] # x[2]}
      BY <1>4, <2>1 DEF Missed
    <2> QED
      BY <2>1, <2>2 DEF SyncInv
  <1>5. Sync!LayoutTiles
    BY LayoutIsTiled DEF SyncInv
  <1>6. running = {} /\ captureTail = <<>> =>
           /\ actions = acted
           /\ failures = Sync!Cardinality({x \in Followers \X (1 .. acted) :
                                             \A i \in DOMAIN got[x[1]] : got[x[1]][i] # x[2]})
    BY <1>4, SameCardinality
  <1>7. Sync!FollowersInOrder
    BY <1>2, <1>3, <1>6, Zenon DEF Sync!FollowersInOrder
  <1> QED
    BY <1>5, <1>7

-----------------------------------------------------------------------------
(* The profiles on the disk.  A directory is in one place, and one that was          *)
(* acknowledged is somewhere with its metadata.                                      *)

Files == {"meta", "cookies", "data"}
Dirs == [life : Nat, names : Profiles, files : SUBSET Files]
Entries == [id : Profiles, n : Int, life : Nat, names : Profiles, files : SUBSET Files]

DiskTyped ==
    /\ dir \in [Profiles -> Dirs \cup {None}] /\ trash \subseteq Entries /\ made \in Nat

Lives ==
    /\ \A p \in Profiles : dir[p] # None => dir[p].life \in 1 .. made
    /\ \A t \in trash : t.life \in 1 .. made
    /\ kept \subseteq 1 .. made

Unlike ==
    /\ \A p, q \in Profiles : dir[p] # None /\ dir[q] # None /\ dir[p].life = dir[q].life => p = q
    /\ \A t, u \in trash : t.life = u.life => t = u
    /\ \A p \in Profiles, t \in trash : dir[p] # None => dir[p].life # t.life

There(l) ==
    \/ \E p \in Profiles : dir[p] # None /\ dir[p].life = l /\ "meta" \in dir[p].files
    \/ \E t \in trash : t.life = l /\ "meta" \in t.files

\* What is still claimed to be kept.
Claimed == (kept \ removed) \ mistaken

DiskInv == DiskTyped /\ Lives /\ Unlike /\ \A l \in Claimed : There(l)

LEMMA NotNone ==
  ASSUME NEW d \in Dirs
  PROVE  d # None
  BY DeskAssumption DEF Dirs, Files

\* A directory is made, or its files change; no other directory is touched.
LEMMA DirChanges ==
  ASSUME DiskInv, NEW p \in Profiles, NEW d \in Dirs,
         dir' = [dir EXCEPT ![p] = d],
         \/ dir[p] = None /\ made' = made + 1 /\ d.life = made + 1
         \/ /\ dir[p] # None /\ made' = made /\ d.life = dir[p].life
            /\ "meta" \in dir[p].files => "meta" \in d.files,
         UNCHANGED <<trash, removed, mistaken>>,
         \/ UNCHANGED kept
         \/ kept' = kept \cup {d.life} /\ "meta" \in d.files
  PROVE  DiskInv'
  <1>1. DiskTyped /\ Lives /\ Unlike /\ \A l \in Claimed : There(l)
    BY DEF DiskInv
  <1>2. /\ dir' \in [Profiles -> Dirs \cup {None}] /\ dir'[p] = d /\ d # None
        /\ \A q \in Profiles \ {p} : dir'[q] = dir[q]
    BY <1>1, NotNone DEF DiskTyped
  <1>3. /\ made \in Nat /\ made' \in Nat /\ made <= made' /\ d.life \in 1 .. made'
        /\ \A l \in 1 .. made : l \in 1 .. made' /\ l # made + 1
    BY <1>1 DEF DiskTyped, Lives
  <1>4. DiskTyped'
    BY <1>1, <1>2, <1>3 DEF DiskTyped
  <1>5. Lives'
    BY <1>1, <1>2, <1>3 DEF Lives
  <1>6. /\ \A q \in Profiles \ {p} : dir[q] # None => dir[q].life # d.life
        /\ \A t \in trash : t.life # d.life
    BY <1>1, <1>3 DEF Unlike, Lives
  <1>7. Unlike'
    BY <1>1, <1>2, <1>6 DEF Unlike
  <1>8. ASSUME NEW l, There(l) PROVE There(l)'
    <2>1. CASE \E q \in Profiles \ {p} : dir[q] # None /\ dir[q].life = l /\ "meta" \in dir[q].files
      BY <1>2, <2>1 DEF There
    <2>2. CASE dir[p] # None /\ dir[p].life = l /\ "meta" \in dir[p].files
      <3>1. dir'[p] # None /\ dir'[p].life = l /\ "meta" \in dir'[p].files
        BY <1>2, <2>2
      <3> QED
        BY <3>1 DEF There
    <2>3. CASE \E t \in trash : t.life = l /\ "meta" \in t.files
      BY <2>3 DEF There
    <2> QED
      BY <1>8, <2>1, <2>2, <2>3 DEF There
  <1>9. \A l \in Claimed' : There(l)'
    <2>1. "meta" \in d.files => There(d.life)'
      BY <1>2 DEF There
    <2>2. \A l \in Claimed' : l \in Claimed \/ (l = d.life /\ "meta" \in d.files)
      BY DEF Claimed
    <2> QED
      BY <1>1, <1>8, <2>1, <2>2
  <1> QED
    BY <1>4, <1>5, <1>7, <1>9 DEF DiskInv

\* A file is written into the directory of a profile, which is made if need be.
LEMMA FileWritten ==
  ASSUME DiskInv, NEW p \in Profiles, NEW f \in Files, Desk!WriteFile(p, f), UNCHANGED <<trash, removed, mistaken>>,
         \/ UNCHANGED kept
         \/ kept' = kept \cup {dir'[p].life} /\ f = "meta"
  PROVE  DiskInv'
  <1>1. DiskTyped
    BY DEF DiskInv
  <1>2. PICK d \in Dirs : /\ dir' = [dir EXCEPT ![p] = d] /\ f \in d.files
                          /\ \/ dir[p] = None /\ made' = made + 1 /\ d.life = made + 1
                             \/ /\ dir[p] # None /\ made' = made /\ d.life = dir[p].life
                                /\ "meta" \in dir[p].files => "meta" \in d.files
    <2>1. CASE dir[p] = None
      <3>1. PICK n \in Nat : n = made + 1
        BY <1>1 DEF DiskTyped
      <3>2. [life |-> n, names |-> p, files |-> {f}] \in Dirs
        BY DEF Dirs
      <3>3. dir' = [dir EXCEPT ![p] = [life |-> n, names |-> p, files |-> {f}]] /\ made' = made + 1
        BY <2>1, <3>1 DEF Desk!WriteFile
      <3> QED
        BY <2>1, <3>1, <3>2, <3>3
    <2>2. CASE dir[p] # None
      <3>1. PICK e \in Dirs : e = dir[p]
        BY <1>1, <2>2 DEF DiskTyped
      <3>0. PICK q \in Profiles : q = IF f = "meta" THEN p ELSE e.names
        BY DEF Dirs
      <3>2. PICK d \in Dirs : /\ d = [life |-> e.life, names |-> q, files |-> e.files \cup {f}]
                              /\ d.life = e.life /\ d.files = e.files \cup {f}
        <4>1. PICK fs \in SUBSET Files, n \in Nat : fs = e.files \cup {f} /\ n = e.life
          BY DEF Dirs
        <4>2. /\ [life |-> n, names |-> q, files |-> fs] \in Dirs
              /\ [life |-> n, names |-> q, files |-> fs].life = n /\ [life |-> n, names |-> q, files |-> fs].files = fs
          BY DEF Dirs
        <4> QED
          BY <4>1, <4>2
      <3>3. dir' = [dir EXCEPT ![p] = d] /\ made' = made
        BY <2>2, <3>0, <3>1, <3>2 DEF Desk!WriteFile
      <3> QED
        BY <2>2, <3>1, <3>2, <3>3
    <2> QED
      BY <2>1, <2>2
  <1>3. dir'[p] = d
    BY <1>1, <1>2 DEF DiskTyped
  <1> QED
    BY <1>2, <1>3, DirChanges

\* A directory goes to the recycle bin, or out of it.
LEMMA Discarded ==
  ASSUME DiskInv, NEW p \in Profiles, NEW t \in Entries, dir[p] # None,
         t.life = dir[p].life, t.files = dir[p].files,
         trash' = trash \cup {t}, dir' = [dir EXCEPT ![p] = None], UNCHANGED <<made, kept, removed, mistaken>>
  PROVE  DiskInv'
  <1>1. DiskTyped /\ Lives /\ Unlike /\ \A l \in Claimed : There(l)
    BY DEF DiskInv
  <1>2. /\ dir' \in [Profiles -> Dirs \cup {None}] /\ dir'[p] = None
        /\ \A q \in Profiles \ {p} : dir'[q] = dir[q]
    BY <1>1 DEF DiskTyped
  <1>3. DiskTyped' /\ Lives'
    BY <1>1, <1>2 DEF DiskTyped, Lives
  <1>4. Unlike'
    BY <1>1, <1>2 DEF Unlike
  <1>5. ASSUME NEW l, There(l) PROVE There(l)'
    BY <1>2, <1>5 DEF There
  <1>6. Claimed' = Claimed
    BY DEF Claimed
  <1> QED
    BY <1>1, <1>3, <1>4, <1>5, <1>6 DEF DiskInv

LEMMA Restored ==
  ASSUME DiskInv, NEW p \in Profiles, NEW t \in trash, dir[p] # None => dir[p].files = {},
         dir' = [dir EXCEPT ![p] = [life |-> t.life, names |-> t.names, files |-> t.files]],
         trash' = trash \ {t}, UNCHANGED <<made, kept, removed, mistaken>>
  PROVE  DiskInv'
  <1>1. DiskTyped /\ Lives /\ Unlike /\ \A l \in Claimed : There(l)
    BY DEF DiskInv
  <1>2. PICK d \in Dirs : /\ d = [life |-> t.life, names |-> t.names, files |-> t.files]
                          /\ d.life = t.life /\ d.files = t.files
    <2>1. PICK l \in Nat, q \in Profiles, fs \in SUBSET Files : l = t.life /\ q = t.names /\ fs = t.files
      BY <1>1 DEF DiskTyped, Entries
    <2>2. /\ [life |-> l, names |-> q, files |-> fs] \in Dirs
          /\ [life |-> l, names |-> q, files |-> fs].life = l /\ [life |-> l, names |-> q, files |-> fs].files = fs
      BY DEF Dirs
    <2> QED
      BY <2>1, <2>2
  <1>3. /\ dir' \in [Profiles -> Dirs \cup {None}] /\ dir'[p] = d /\ d # None
        /\ \A q \in Profiles \ {p} : dir'[q] = dir[q]
    BY <1>1, <1>2, NotNone DEF DiskTyped
  <1>4. DiskTyped' /\ Lives'
    BY <1>1, <1>2, <1>3 DEF DiskTyped, Lives
  <1>5. Unlike'
    BY <1>1, <1>2, <1>3 DEF Unlike
  <1>6. ASSUME NEW l, There(l) PROVE There(l)'
    <2>1. CASE \E q \in Profiles : dir[q] # None /\ dir[q].life = l /\ "meta" \in dir[q].files
      <3>1. PICK q \in Profiles : dir[q] # None /\ dir[q].life = l /\ "meta" \in dir[q].files
        BY <2>1
      <3>2. q # p
        BY <3>1
      <3> QED
        BY <1>3, <3>1, <3>2 DEF There
    <2>2. CASE \E u \in trash : u.life = l /\ "meta" \in u.files
      BY <1>2, <1>3, <2>2 DEF There
    <2> QED
      BY <1>6, <2>1, <2>2 DEF There
  <1>7. Claimed' = Claimed
    BY DEF Claimed
  <1> QED
    BY <1>1, <1>4, <1>5, <1>6, <1>7 DEF DiskInv

\* A directory is removed, and with it its claim to be kept.
LEMMA Erased ==
  ASSUME DiskInv, NEW l, removed' \cup mistaken' = (removed \cup mistaken) \cup {l},
         trash' \subseteq trash, \A t \in trash \ trash' : t.life = l,
         dir' \in [Profiles -> Dirs \cup {None}],
         \A p \in Profiles : dir'[p] = dir[p] \/ (dir'[p] = None /\ dir[p].life = l),
         UNCHANGED <<made, kept>>
  PROVE  DiskInv'
  <1>1. DiskTyped /\ Lives /\ Unlike /\ \A k \in Claimed : There(k)
    BY DEF DiskInv
  <1>2. DiskTyped' /\ Lives' /\ Unlike'
    BY <1>1 DEF DiskTyped, Lives, Unlike
  <1>3. ASSUME NEW k \in Claimed' PROVE There(k)'
    <2>1. k \in Claimed /\ k # l
      BY <1>3 DEF Claimed
    <2> QED
      BY <1>1, <2>1 DEF There
  <1> QED
    BY <1>2, <1>3 DEF DiskInv

\* A directory that is kept is in one place.
LEMMA DiskIsSound ==
  ASSUME DiskInv
  PROVE  Desk!ProfileKept
  <1>1. ASSUME NEW l \in Claimed
        PROVE  Desk!Cardinality({p \in Profiles : dir[p] # None /\ dir[p].life = l /\ "meta" \in dir[p].files}
                                \cup {t \in trash : t.life = l /\ "meta" \in t.files}) = 1
    <2> DEFINE P == {p \in Profiles : dir[p] # None /\ dir[p].life = l /\ "meta" \in dir[p].files}
               T == {t \in trash : t.life = l /\ "meta" \in t.files}
    <2>1. There(l) /\ Unlike
      BY DEF DiskInv
    <2>2. \E e : P \cup T = {e}
      <3>1. CASE \E p \in Profiles : p \in P
        <4>1. PICK p \in Profiles : p \in P
          BY <3>1
        <4>2. P = {p} /\ T = {}
          BY <2>1, <4>1 DEF Unlike
        <4> QED
          BY <4>2
      <3>2. CASE \E t \in trash : t \in T
        <4>1. PICK t \in trash : t \in T
          BY <3>2
        <4>2. P = {} /\ T = {t}
          BY <2>1, <4>1 DEF Unlike
        <4> QED
          BY <4>2
      <3> QED
        BY <2>1, <3>1, <3>2 DEF There
    <2>3. Cardinality(P \cup T) = 1
      BY <2>2, FS_Singleton
    <2> QED
      BY <2>3, SameCardinality
  <1> QED
    BY <1>1, Zenon DEF Desk!ProfileKept, Claimed

-----------------------------------------------------------------------------
(* The requests at the desk.                                                         *)

Ops == {"create", "import", "update", "cookies", "restore", "purge", "start", "stop", "delete",
        "batchDelete", "batchStart", "scrape", "sandbox"}
Bare == {"scrape", "sandbox"}

Reqs == [op : Ops, p : Profiles \cup {None}, sid : Sessions \cup {None}, saw : SUBSET (Entries \cup {"copied"}),
         at : {"begun", "cloning", "making", "writing", "cookies", "deleting", "discarding", "listing",
               "restoring", "purging", "checking", "copying", "undoing", "reading", "resolving",
               "launching", "scraping", "stopping"}]

Asked(c) == req[c] # Desk!NoReq

\* A request has a profile, but for those that start a session without one, and an import
\* that has not chosen its own;
\* a purge has listed what begins like its profile.
Placed(r) ==
    /\ r.p = None <=> r.op \in Bare \/ (r.op = "import" /\ r.at = "begun")
    /\ r.op \in Bare => r.at \in {"resolving", "launching", "scraping", "stopping"}
    /\ r.op = "sandbox" => r.at \in {"resolving", "launching"}
    /\ r.at = "cloning" => r.op = "create"
    /\ r.at = "purging" => \A t \in r.saw : t.id \in Begins[r.p]

ReqInv ==
    /\ left \in [calls : Nat, troubles : Nat]
    /\ req \in [Clients -> {Desk!NoReq} \cup Reqs]
    /\ \A c \in Clients : Asked(c) => Placed(req[c])

\* A request that is not at a session.
Plain(v) ==
    v = Desk!NoReq \/ (v \in Reqs /\ Placed(v) /\ v.at \notin {"launching", "scraping", "stopping"})

LEMMA NoReqs == Desk!NoReq \notin Reqs
  <1>1. Desk!NoReq.op = "none"
    BY DEF Desk!NoReq
  <1> QED
    BY <1>1 DEF Reqs, Ops

LEMMA ReqKinds ==
  ASSUME ReqInv, NEW c \in Clients
  PROVE  /\ Asked(c) <=> req[c] \in Reqs
         /\ \A where : Desk!At(c, where) <=> Asked(c) /\ req[c].at = where
         /\ \A op : Desk!Begun(c, op) <=> Asked(c) /\ req[c].at = "begun" /\ req[c].op = op
         /\ Asked(c) => Placed(req[c])
         /\ Asked(c) /\ req[c].at \notin {"resolving", "launching", "scraping", "stopping"}
               /\ ~(req[c].at = "begun" /\ req[c].op = "import") => req[c].p \in Profiles
  <1>2. Asked(c) <=> req[c] \in Reqs
    BY NoReqs DEF Asked, ReqInv
  <1>3. Asked(c) => req[c].p \in Profiles \cup {None} /\ Placed(req[c])
    BY <1>2 DEF ReqInv, Reqs
  <1> QED
    BY <1>2, <1>3 DEF Desk!At, Desk!Begun, Asked, Placed

\* A request that is at its profile goes to another place there.
LEMMA StepTo ==
  ASSUME ReqInv, NEW c \in Clients, Asked(c),
         req[c].at \notin {"resolving", "launching", "scraping", "stopping"},
         ~(req[c].at = "begun" /\ req[c].op = "import"),
         NEW w \in {"begun", "making", "writing", "cookies", "deleting", "discarding", "listing",
               "restoring", "checking", "copying", "undoing", "reading", "resolving"},
         w = "begun" => req[c].op # "import",
         Desk!Moves(c, w)
  PROVE  \E v : req' = [req EXCEPT ![c] = v] /\ Plain(v)
  <1>1. req[c] \in Reqs /\ Placed(req[c]) /\ req[c].p \in Profiles
    BY ReqKinds
  <1>2. PICK r \in Reqs : r = req[c]
    BY <1>1
  <1>3. PICK v \in Reqs : /\ v = [r EXCEPT !.at = w]
                          /\ v.op = r.op /\ v.p = r.p /\ v.sid = r.sid /\ v.saw = r.saw /\ v.at = w
    <2>1. /\ [r EXCEPT !.at = w] \in Reqs /\ [r EXCEPT !.at = w].at = w
          /\ [r EXCEPT !.at = w].op = r.op /\ [r EXCEPT !.at = w].p = r.p
          /\ [r EXCEPT !.at = w].sid = r.sid /\ [r EXCEPT !.at = w].saw = r.saw
      BY DEF Reqs
    <2> QED
      BY <2>1
  <1>4. req' = [req EXCEPT ![c] = v]
    BY <1>2, <1>3 DEF Desk!Moves
  <1>5. v.p # None /\ v.op \notin Bare
    BY <1>1, <1>2, <1>3, DeskAssumption DEF Placed
  <1>6. Placed(v)
    BY <1>2, <1>3, <1>5 DEF Placed, Bare
  <1> QED
    BY <1>3, <1>4, <1>6 DEF Plain

\* Steps that read the disk and write nothing.
LEMMA RequestLooks ==
  ASSUME ReqInv, DiskInv, NEW c \in Clients,
         \/ Desk!CloneReads(c) \/ Desk!CloneRefuses(c) \/ Desk!CreateChecks(c) \/ Desk!CreateRefuses(c)
         \/ Desk!UpdateReads(c) \/ Desk!UpdateRefuses(c) \/ Desk!CookiesRead(c) \/ Desk!CookiesRefuse(c)
         \/ Desk!DeleteChecks(c) \/ Desk!DeleteRefuses(c) \/ Desk!RestoreChecks(c) \/ Desk!RestoreRefuses(c)
         \/ Desk!RestorePicks(c) \/ Desk!PurgeLists(c) \/ Desk!PurgeEnds(c)
         \/ Desk!ImportPicks(c) \/ Desk!NoFreeId(c) \/ Desk!ImportCreates(c) \/ Desk!ImportRefuses(c)
         \/ Desk!StartReads(c) \/ Desk!StartRefuses(c)
         \/ Desk!WriteFails(c) \/ Desk!CopyFails(c)
  PROVE  /\ Asked(c) /\ req[c].at # "scraping"
         /\ \E v : req' = [req EXCEPT ![c] = v] /\ Plain(v)
         /\ UNCHANGED <<dir, trash, made, kept, removed, mistaken, sess, map, overlap>>
         /\ left' \in [calls : Nat, troubles : Nat]
  <1>1. /\ Asked(c) <=> req[c] \in Reqs
        /\ \A where : Desk!At(c, where) <=> Asked(c) /\ req[c].at = where
        /\ \A op : Desk!Begun(c, op) <=> Asked(c) /\ req[c].at = "begun" /\ req[c].op = op
        /\ Asked(c) => Placed(req[c])
        /\ Asked(c) /\ req[c].at \notin {"resolving", "launching", "scraping", "stopping"}
              /\ ~(req[c].at = "begun" /\ req[c].op = "import") => req[c].p \in Profiles
    BY ReqKinds
  <1>2. left \in [calls : Nat, troubles : Nat]
    BY DEF ReqInv
  <1>3. CASE \/ Desk!CloneRefuses(c) \/ Desk!CreateRefuses(c) \/ Desk!UpdateRefuses(c) \/ Desk!CookiesRefuse(c)
             \/ Desk!DeleteRefuses(c) \/ Desk!RestoreRefuses(c) \/ Desk!PurgeEnds(c) \/ Desk!NoFreeId(c)
             \/ Desk!ImportRefuses(c) \/ Desk!StartRefuses(c)
    <2>1. Asked(c) /\ req[c].at # "scraping" /\ Desk!Refuses(c)
      BY <1>1, <1>3 DEF Desk!CloneRefuses, Desk!CreateRefuses, Desk!UpdateRefuses, Desk!CookiesRefuse,
         Desk!DeleteRefuses, Desk!RestoreRefuses, Desk!PurgeEnds, Desk!NoFreeId, Desk!ImportRefuses,
         Desk!StartRefuses
    <2>2. Plain(Desk!NoReq)
      BY DEF Plain
    <2> QED
      BY <1>2, <2>1, <2>2 DEF Desk!Refuses, Desk!Answers, Desk!disk
  <1>4. ASSUME Asked(c), req[c].at \notin {"resolving", "launching", "scraping", "stopping"},
               ~(req[c].at = "begun" /\ req[c].op = "import"),
               NEW w \in {"begun", "making", "writing", "cookies", "deleting", "discarding", "listing",
                     "restoring", "checking", "copying", "undoing", "reading", "resolving"},
               w = "begun" => req[c].op # "import",
               Desk!Moves(c, w),
               UNCHANGED <<dir, trash, made, kept, removed, mistaken, sess, map, left, overlap>>
        PROVE  /\ Asked(c) /\ req[c].at # "scraping"
               /\ \E v : req' = [req EXCEPT ![c] = v] /\ Plain(v)
               /\ UNCHANGED <<dir, trash, made, kept, removed, mistaken, sess, map, overlap>>
               /\ left' \in [calls : Nat, troubles : Nat]
    BY <1>2, <1>4, StepTo
  <1>5. CASE Desk!CloneReads(c)
    BY <1>1, <1>4, <1>5 DEF Desk!CloneReads, Placed, Desk!disk
  <1>6. CASE Desk!CreateChecks(c)
    BY <1>1, <1>4, <1>6 DEF Desk!CreateChecks, Desk!disk
  <1>16. CASE Desk!UpdateReads(c)
    <2>1. /\ Asked(c) /\ req[c].at = "begun" /\ req[c].op = "update" /\ req[c].p \in Profiles
          /\ dir[req[c].p] # None
          /\ req' = [req EXCEPT ![c].at = "writing", ![c].p = dir[req[c].p].names]
          /\ UNCHANGED <<dir, trash, made, kept, removed, mistaken, sess, map, left, overlap>>
      BY <1>1, <1>16 DEF Desk!UpdateReads, Desk!Readable, Desk!disk
    <2>2. PICK q \in Profiles : q = dir[req[c].p].names
      <3>1. PICK d \in Dirs : d = dir[req[c].p]
        BY <2>1 DEF DiskInv, DiskTyped
      <3> QED
        BY <3>1 DEF Dirs
    <2>4. PICK r \in Reqs : r = req[c]
      BY <1>1, <2>1
    <2>5. PICK v \in Reqs : /\ v = [r EXCEPT !.at = "writing", !.p = q]
                            /\ v.op = r.op /\ v.p = q /\ v.at = "writing"
      <3>1. /\ [r EXCEPT !.at = "writing", !.p = q] \in Reqs
            /\ [r EXCEPT !.at = "writing", !.p = q].op = r.op
            /\ [r EXCEPT !.at = "writing", !.p = q].p = q
            /\ [r EXCEPT !.at = "writing", !.p = q].at = "writing"
        BY DEF Reqs
      <3> QED
        BY <3>1
    <2>6. req' = [req EXCEPT ![c] = v]
      BY <2>1, <2>2, <2>4, <2>5
    <2>7. Plain(v)
      BY <2>1, <2>4, <2>5, DeskAssumption DEF Plain, Placed, Bare
    <2> QED
      BY <1>2, <2>1, <2>6, <2>7
  <1>7. CASE Desk!CookiesRead(c)
    BY <1>1, <1>4, <1>7 DEF Desk!CookiesRead, Desk!disk
  <1>8. CASE Desk!DeleteChecks(c) \/ Desk!RestoreChecks(c) \/ Desk!ImportCreates(c)
    BY <1>1, <1>4, <1>8 DEF Desk!DeleteChecks, Desk!RestoreChecks, Desk!ImportCreates, Desk!disk
  <1>9. CASE Desk!StartReads(c)
    <2>1. /\ Asked(c) /\ req[c].at = "reading" /\ UNCHANGED <<dir, trash, made, kept, removed, mistaken, sess, map, left, overlap>>
          /\ Desk!Moves(c, "resolving") \/ Desk!Answers(c)
      BY <1>1, <1>9 DEF Desk!StartReads, Desk!disk
    <2>2. CASE Desk!Moves(c, "resolving")
      BY <1>4, <2>1, <2>2
    <2>3. CASE Desk!Answers(c)
      BY <1>2, <2>1, <2>3 DEF Desk!Answers, Plain
    <2> QED
      BY <2>1, <2>2, <2>3
  <1>10. CASE Desk!RestorePicks(c)
    <2>1. PICK t \in Desk!Newest(req[c].p) : req' = [req EXCEPT ![c].at = "restoring", ![c].saw = {t}]
      BY <1>10 DEF Desk!RestorePicks
    <2>2. /\ Asked(c) /\ req[c].at = "listing"
          /\ UNCHANGED <<dir, trash, made, kept, removed, mistaken, sess, map, left, overlap>>
      BY <1>1, <1>10 DEF Desk!RestorePicks, Desk!disk
    <2>3. PICK s \in SUBSET (Entries \cup {"copied"}) : s = {t}
      BY <2>1 DEF Desk!Newest, Desk!Candidates, DiskInv, DiskTyped
    <2>4. PICK r \in Reqs : r = req[c]
      BY <1>1, <2>2
    <2>5. PICK v \in Reqs : /\ v = [r EXCEPT !.at = "restoring", !.saw = s]
                            /\ v.op = r.op /\ v.p = r.p /\ v.at = "restoring"
      <3>1. /\ [r EXCEPT !.at = "restoring", !.saw = s] \in Reqs
            /\ [r EXCEPT !.at = "restoring", !.saw = s].op = r.op
            /\ [r EXCEPT !.at = "restoring", !.saw = s].p = r.p
            /\ [r EXCEPT !.at = "restoring", !.saw = s].at = "restoring"
        BY DEF Reqs
      <3> QED
        BY <3>1
    <2>6. req' = [req EXCEPT ![c] = v]
      BY <2>1, <2>3, <2>4, <2>5
    <2>7. Plain(v)
      BY <1>1, <2>2, <2>4, <2>5 DEF Plain, Placed
    <2> QED
      BY <1>2, <2>2, <2>6, <2>7
  <1>11. CASE Desk!PurgeLists(c)
    <2>1. /\ Asked(c) /\ req[c].at = "begun" /\ req[c].op = "purge"
          /\ req' = [req EXCEPT ![c].at = "purging", ![c].saw = Desk!Candidates(req[c].p)]
          /\ UNCHANGED <<dir, trash, made, kept, removed, mistaken, sess, map, left, overlap>>
      BY <1>1, <1>11 DEF Desk!PurgeLists, Desk!disk
    <2>2. PICK s \in SUBSET (Entries \cup {"copied"}) :
             s = Desk!Candidates(req[c].p) /\ \A t \in s : t.id \in Begins[req[c].p]
      <3>1. Desk!Candidates(req[c].p) \subseteq Entries
        BY DEF Desk!Candidates, DiskInv, DiskTyped
      <3>2. \A t \in Desk!Candidates(req[c].p) : t.id \in Begins[req[c].p]
        BY DEF Desk!Candidates
      <3> QED
        BY <3>1, <3>2
    <2>4. PICK r \in Reqs : r = req[c]
      BY <1>1, <2>1
    <2>5. PICK v \in Reqs : /\ v = [r EXCEPT !.at = "purging", !.saw = s]
                            /\ v.op = r.op /\ v.p = r.p /\ v.at = "purging" /\ v.saw = s
      <3>1. /\ [r EXCEPT !.at = "purging", !.saw = s] \in Reqs
            /\ [r EXCEPT !.at = "purging", !.saw = s].op = r.op
            /\ [r EXCEPT !.at = "purging", !.saw = s].p = r.p
            /\ [r EXCEPT !.at = "purging", !.saw = s].at = "purging"
            /\ [r EXCEPT !.at = "purging", !.saw = s].saw = s
        BY DEF Reqs
      <3> QED
        BY <3>1
    <2>6. req' = [req EXCEPT ![c] = v]
      BY <2>1, <2>2, <2>4, <2>5
    <2>7. Plain(v)
      BY <1>1, <2>1, <2>2, <2>4, <2>5 DEF Plain, Placed
    <2> QED
      BY <1>2, <2>1, <2>6, <2>7
  <1>12. CASE Desk!ImportPicks(c)
    <2>1. PICK p \in Profiles : req' = [req EXCEPT ![c].at = "checking", ![c].p = p]
      BY <1>12 DEF Desk!ImportPicks
    <2>2. /\ Asked(c) /\ req[c].at = "begun" /\ req[c].op = "import"
          /\ UNCHANGED <<dir, trash, made, kept, removed, mistaken, sess, map, left, overlap>>
      BY <1>1, <1>12 DEF Desk!ImportPicks, Desk!disk
    <2>4. PICK r \in Reqs : r = req[c]
      BY <1>1, <2>2
    <2>5. PICK v \in Reqs : /\ v = [r EXCEPT !.at = "checking", !.p = p]
                            /\ v.op = r.op /\ v.p = p /\ v.at = "checking"
      <3>1. /\ [r EXCEPT !.at = "checking", !.p = p] \in Reqs
            /\ [r EXCEPT !.at = "checking", !.p = p].op = r.op
            /\ [r EXCEPT !.at = "checking", !.p = p].p = p
            /\ [r EXCEPT !.at = "checking", !.p = p].at = "checking"
        BY DEF Reqs
      <3> QED
        BY <3>1
    <2>6. req' = [req EXCEPT ![c] = v]
      BY <2>1, <2>4, <2>5
    <2>7. Plain(v)
      BY <2>2, <2>4, <2>5, DeskAssumption DEF Plain, Placed, Bare
    <2> QED
      BY <1>2, <2>2, <2>6, <2>7
  <1>13. ASSUME Desk!WriteFails(c) \/ Desk!CopyFails(c) PROVE left' \in [calls : Nat, troubles : Nat]
    BY <1>2, <1>13 DEF Desk!WriteFails, Desk!CopyFails, Desk!DrawsOn
  <1>14. CASE Desk!WriteFails(c)
    <2>1. /\ Asked(c) /\ req[c].at = "writing" /\ req' = [req EXCEPT ![c] = Desk!NoReq]
          /\ UNCHANGED <<dir, trash, made, kept, removed, mistaken, sess, map, overlap>>
      BY <1>1, <1>14 DEF Desk!WriteFails, Desk!Answers, Desk!disk
    <2> QED
      BY <1>13, <1>14, <2>1 DEF Plain
  <1>15. CASE Desk!CopyFails(c)
    <2>1. /\ Asked(c) /\ req[c].at = "copying" /\ Desk!Moves(c, "undoing")
          /\ UNCHANGED <<dir, trash, made, kept, removed, mistaken, sess, map, overlap>>
      BY <1>1, <1>15 DEF Desk!CopyFails, Desk!disk
    <2>2. \E v : req' = [req EXCEPT ![c] = v] /\ Plain(v)
      BY <2>1, StepTo
    <2> QED
      BY <1>13, <1>15, <2>1, <2>2
  <1> QED
    BY <1>3, <1>5, <1>6, <1>7, <1>8, <1>9, <1>10, <1>11, <1>12, <1>14, <1>15, <1>16

LEMMA DiskUntouched ==
  ASSUME DiskInv, UNCHANGED <<dir, trash, made, kept, removed, mistaken>>
  PROVE  DiskInv'
  BY DEF DiskInv, DiskTyped, Lives, Unlike, There, Claimed

\* Steps that write to the disk.
LEMMA RequestWrites ==
  ASSUME ReqInv, DiskInv, NEW c \in Clients,
         \/ Desk!CreateMakes(c) \/ Desk!WritesMetadata(c) \/ Desk!CookiesWritten(c) \/ Desk!Discards(c)
         \/ Desk!Restores(c) \/ Desk!Purges(c) \/ Desk!CopyEnds(c) \/ Desk!Undoes(c)
  PROVE  /\ Asked(c) /\ req[c].at # "scraping"
         /\ \E v : req' = [req EXCEPT ![c] = v] /\ Plain(v)
         /\ UNCHANGED <<sess, map, overlap, left>>
         /\ DiskInv'
  <1>1. /\ Asked(c) <=> req[c] \in Reqs
        /\ \A where : Desk!At(c, where) <=> Asked(c) /\ req[c].at = where
        /\ Asked(c) => Placed(req[c])
        /\ Asked(c) /\ req[c].at \notin {"resolving", "launching", "scraping", "stopping"}
              /\ ~(req[c].at = "begun" /\ req[c].op = "import") => req[c].p \in Profiles
    BY ReqKinds
  <1>2. left \in [calls : Nat, troubles : Nat] /\ DiskTyped /\ Plain(Desk!NoReq)
    BY DEF ReqInv, DiskInv, Plain
  <1>3. /\ Asked(c) /\ UNCHANGED <<sess, map, overlap, left>>
        /\ req[c].at \in {"making", "writing", "cookies", "discarding", "restoring", "purging", "copying", "undoing"}
    BY <1>1 DEF Desk!CreateMakes, Desk!WritesMetadata, Desk!CookiesWritten, Desk!Discards, Desk!Restores,
       Desk!Purges, Desk!CopyEnds, Desk!Undoes
  <1>4. PICK r \in Reqs, p \in Profiles : r = req[c] /\ p = req[c].p /\ Placed(r) /\ p = r.p
    BY <1>1, <1>3
  <1> USE <1>4
  \* A request that goes on as an update.
  <1>5. ASSUME req[c].at # "purging", NEW s \in SUBSET (Entries \cup {"copied"}),
               req' = [req EXCEPT ![c] = [r EXCEPT !.op = "update", !.at = "begun", !.saw = s]]
        PROVE  \E v : req' = [req EXCEPT ![c] = v] /\ Plain(v)
    <2>1. PICK v \in Reqs : /\ v = [r EXCEPT !.op = "update", !.at = "begun", !.saw = s]
                            /\ v.op = "update" /\ v.p = r.p /\ v.at = "begun"
      <3>1. /\ [r EXCEPT !.op = "update", !.at = "begun", !.saw = s] \in Reqs
            /\ [r EXCEPT !.op = "update", !.at = "begun", !.saw = s].op = "update"
            /\ [r EXCEPT !.op = "update", !.at = "begun", !.saw = s].p = r.p
            /\ [r EXCEPT !.op = "update", !.at = "begun", !.saw = s].at = "begun"
        BY DEF Reqs, Ops
      <3> QED
        BY <3>1
    <2>2. Placed(v)
      BY <2>1, DeskAssumption DEF Placed, Bare
    <2> QED
      BY <1>5, <2>1, <2>2 DEF Plain
  <1>6. CASE Desk!CreateMakes(c)
    <2>1. /\ req[c].at = "making" /\ Desk!Moves(c, "writing") /\ UNCHANGED <<trash, kept, removed, mistaken>>
          /\ dir' = IF dir[p] # None THEN dir ELSE [dir EXCEPT ![p] = [life |-> made + 1, names |-> p, files |-> {}]]
          /\ made' = IF dir[p] # None THEN made ELSE made + 1
      BY <1>1, <1>6 DEF Desk!CreateMakes
    <2>2. \E v : req' = [req EXCEPT ![c] = v] /\ Plain(v)
      BY <1>3, <2>1, StepTo
    <2>3. DiskInv'
      <3>1. CASE dir[p] # None
        BY <2>1, <3>1, DiskUntouched
      <3>2. CASE dir[p] = None
        <4>1. PICK n \in Nat : n = made + 1
          BY <1>2 DEF DiskTyped
        <4>2. [life |-> n, names |-> p, files |-> {}] \in Dirs /\ [life |-> n, names |-> p, files |-> {}].life = n
          BY DEF Dirs
        <4>3. dir' = [dir EXCEPT ![p] = [life |-> n, names |-> p, files |-> {}]] /\ made' = made + 1
          BY <2>1, <3>2, <4>1
        <4>4. UNCHANGED <<trash, removed, mistaken>> /\ UNCHANGED kept
          BY <2>1
        <4> QED
          BY <3>2, <4>1, <4>2, <4>3, <4>4, DirChanges
      <3> QED
        BY <3>1, <3>2
    <2> QED
      BY <1>3, <2>1, <2>2, <2>3
  <1>7. CASE Desk!WritesMetadata(c)
    <2>1. /\ req[c].at = "writing" /\ Desk!WriteFile(p, "meta") /\ UNCHANGED <<trash, removed, mistaken>>
          /\ Desk!Moves(c, "copying") \/ Desk!Moves(c, "cookies") \/ Desk!Answers(c)
          /\ UNCHANGED kept \/ kept' = kept \cup {dir'[p].life}
      BY <1>1, <1>7 DEF Desk!WritesMetadata
    <2>2. \E v : req' = [req EXCEPT ![c] = v] /\ Plain(v)
      <3>1. CASE Desk!Moves(c, "copying") \/ Desk!Moves(c, "cookies")
        BY <1>3, <2>1, <3>1, StepTo
      <3>2. CASE Desk!Answers(c)
        BY <1>2, <3>2 DEF Desk!Answers
      <3> QED
        BY <2>1, <3>1, <3>2
    <2>3. DiskInv'
      BY <2>1, FileWritten DEF Files
    <2> QED
      BY <1>3, <2>1, <2>2, <2>3
  <1>8. CASE Desk!CookiesWritten(c)
    <2>1. /\ req[c].at = "cookies" /\ Desk!WriteFile(p, "cookies") /\ UNCHANGED <<trash, kept, removed, mistaken>>
          /\ Desk!Answers(c) \/ req' = [req EXCEPT ![c].op = "update", ![c].at = "begun"]
      BY <1>1, <1>8 DEF Desk!CookiesWritten
    <2>2. \E v : req' = [req EXCEPT ![c] = v] /\ Plain(v)
      <3>1. CASE Desk!Answers(c)
        BY <1>2, <3>1 DEF Desk!Answers
      <3>2. CASE req' = [req EXCEPT ![c].op = "update", ![c].at = "begun"]
        <4>1. PICK s \in SUBSET (Entries \cup {"copied"}) : s = r.saw
          BY DEF Reqs
        <4>2. [r EXCEPT !.op = "update", !.at = "begun"] = [r EXCEPT !.op = "update", !.at = "begun", !.saw = s]
          BY <4>1 DEF Reqs
        <4>3. req' = [req EXCEPT ![c] = [r EXCEPT !.op = "update", !.at = "begun", !.saw = s]]
          BY <3>2, <4>2
        <4> QED
          BY <1>5, <2>1, <4>3
      <3> QED
        BY <2>1, <3>1, <3>2
    <2>3. DiskInv'
      BY <2>1, FileWritten DEF Files
    <2> QED
      BY <1>3, <2>1, <2>2, <2>3
  <1>9. CASE Desk!Discards(c)
    <2>1. /\ req[c].at = "discarding" /\ req' = [req EXCEPT ![c] = Desk!NoReq]
          /\ UNCHANGED <<made, kept, removed, mistaken>>
          /\ IF dir[p] = None THEN UNCHANGED <<dir, trash>>
             ELSE /\ trash' = trash \cup {[id |-> p, n |-> MaxCalls - left.calls,
                                           life |-> dir[p].life, names |-> dir[p].names, files |-> dir[p].files]}
                  /\ dir' = [dir EXCEPT ![p] = None]
      BY <1>1, <1>9 DEF Desk!Discards, Desk!Answers
    <2>2. \E v : req' = [req EXCEPT ![c] = v] /\ Plain(v)
      BY <1>2, <2>1
    <2>3. CASE dir[p] = None
      BY <1>3, <2>1, <2>2, <2>3, DiskUntouched
    <2>4. CASE dir[p] # None
      <3>1. PICK n \in Int : n = MaxCalls - left.calls
        BY <1>2, DeskAssumption
      <3>2. PICK d \in Dirs : d = dir[p]
        BY <1>2, <2>4 DEF DiskTyped
      <3>3. PICK t \in Entries : t = [id |-> p, n |-> n, life |-> d.life, names |-> d.names, files |-> d.files]
                                 /\ t.life = d.life /\ t.files = d.files
        <4>1. /\ [id |-> p, n |-> n, life |-> d.life, names |-> d.names, files |-> d.files] \in Entries
              /\ [id |-> p, n |-> n, life |-> d.life, names |-> d.names, files |-> d.files].life = d.life
              /\ [id |-> p, n |-> n, life |-> d.life, names |-> d.names, files |-> d.files].files = d.files
          BY DEF Entries, Dirs
        <4> QED
          BY <4>1
      <3>4. trash' = trash \cup {t} /\ dir' = [dir EXCEPT ![p] = None]
        BY <2>1, <2>4, <3>1, <3>2, <3>3
      <3>5. DiskInv'
        BY <2>1, <2>4, <3>2, <3>3, <3>4, Discarded
      <3> QED
        BY <1>3, <2>1, <2>2, <3>5
    <2> QED
      BY <2>3, <2>4
  <1>10. CASE Desk!Restores(c)
    <2> DEFINE t == CHOOSE u \in req[c].saw : TRUE
               ok == t \in trash /\ (dir[p] # None => dir[p].files = {})
    <2>1. /\ req[c].at = "restoring" /\ UNCHANGED <<made, kept, removed, mistaken>>
          /\ dir' = IF ok THEN [dir EXCEPT ![p] = [life |-> t.life, names |-> t.names, files |-> t.files]] ELSE dir
          /\ trash' = IF ok THEN trash \ {t} ELSE trash
          /\ Desk!Answers(c) \/ req' = [req EXCEPT ![c].op = "update", ![c].at = "begun", ![c].saw = {}]
      BY <1>1, <1>10 DEF Desk!Restores
    <2>2. \E v : req' = [req EXCEPT ![c] = v] /\ Plain(v)
      <3>1. CASE Desk!Answers(c)
        BY <1>2, <3>1 DEF Desk!Answers
      <3>2. CASE req' = [req EXCEPT ![c].op = "update", ![c].at = "begun", ![c].saw = {}]
        <4>1. req' = [req EXCEPT ![c] = [r EXCEPT !.op = "update", !.at = "begun", !.saw = {}]]
          BY <3>2
        <4>2. PICK s \in SUBSET (Entries \cup {"copied"}) : s = {}
          OBVIOUS
        <4>3. req' = [req EXCEPT ![c] = [r EXCEPT !.op = "update", !.at = "begun", !.saw = s]]
          BY <4>1, <4>2
        <4>4. req[c].at # "purging"
          BY <2>1
        <4> QED
          BY <1>5, <4>3, <4>4
      <3> QED
        BY <2>1, <3>1, <3>2
    <2> HIDE DEF t
    <2>3. CASE ok
      <3>1. PICK u \in trash : u = t
        BY <2>3
      <3>2. DiskInv'
        BY <2>1, <2>3, <3>1, Restored
      <3> QED
        BY <1>3, <2>1, <2>2, <3>2
    <2>4. CASE ~ok
      BY <1>3, <2>1, <2>2, <2>4, DiskUntouched
    <2> QED
      BY <2>3, <2>4
  <1>11. CASE Desk!Purges(c)
    <2>1. PICK t \in r.saw : /\ trash' = trash \ {t}
                             /\ removed' = IF t.id = p THEN removed \cup {t.life} ELSE removed
                             /\ mistaken' = IF t.id \in Begins[p] \ {p} THEN mistaken \cup {t.life} ELSE mistaken
                             /\ req' = [req EXCEPT ![c].saw = r.saw \ {t}]
      BY <1>11 DEF Desk!Purges
    <2>2. req[c].at = "purging" /\ UNCHANGED <<dir, made, kept>>
      BY <1>1, <1>11 DEF Desk!Purges
    <2>3. removed' \cup mistaken' = (removed \cup mistaken) \cup {t.life}
      <3>1. t.id \in Begins[p]
        BY <2>1, <2>2 DEF Placed
      <3> QED
        BY <2>1, <3>1
    <2>4. DiskInv'
      <3>1. trash' \subseteq trash /\ \A u \in trash \ trash' : u.life = t.life
        BY <2>1
      <3>2. dir' \in [Profiles -> Dirs \cup {None}] /\ \A q \in Profiles : dir'[q] = dir[q] \/ (dir'[q] = None /\ dir[q].life = t.life)
        BY <1>2, <2>2 DEF DiskTyped
      <3> QED
        BY <2>2, <2>3, <3>1, <3>2, Erased
    <2>5. PICK v \in Reqs : /\ v = [r EXCEPT !.saw = r.saw \ {t}]
                            /\ v.op = r.op /\ v.p = r.p /\ v.at = r.at /\ v.saw \subseteq r.saw
      <3>1. PICK s \in SUBSET (Entries \cup {"copied"}) : s = r.saw \ {t} /\ s \subseteq r.saw
        <4>1. r.saw \in SUBSET (Entries \cup {"copied"})
          BY DEF Reqs
        <4> QED
          BY <4>1
      <3>2. /\ [r EXCEPT !.saw = s] \in Reqs /\ [r EXCEPT !.saw = s].op = r.op
            /\ [r EXCEPT !.saw = s].p = r.p /\ [r EXCEPT !.saw = s].at = r.at /\ [r EXCEPT !.saw = s].saw = s
        BY DEF Reqs
      <3> QED
        BY <3>1, <3>2
    <2>6. req' = [req EXCEPT ![c] = v]
      BY <2>1, <2>5
    <2>7. Plain(v)
      BY <2>2, <2>5 DEF Plain, Placed
    <2> QED
      BY <1>3, <2>2, <2>4, <2>6, <2>7
  <1>12. CASE Desk!CopyEnds(c)
    <2>1. /\ req[c].at = "copying" /\ Desk!WriteFile(p, "data") /\ UNCHANGED <<trash, kept, removed, mistaken>>
          /\ IF Desk!Readable(p)
             THEN req' = [req EXCEPT ![c].at = "writing", ![c].saw = {"copied"}, ![c].p = dir[p].names]
             ELSE req' = [req EXCEPT ![c].at = "undoing", ![c].saw = {"copied"}]
      BY <1>1, <1>12 DEF Desk!CopyEnds
    <2>2. PICK w \in {"writing", "undoing"}, q \in Profiles :
             req' = [req EXCEPT ![c] = [r EXCEPT !.at = w, !.saw = {"copied"}, !.p = q]]
      <3>1. CASE Desk!Readable(p)
        <4>1. PICK d \in Dirs : d = dir[p]
          BY <1>2, <3>1 DEF Desk!Readable, DiskTyped
        <4>2. PICK q \in Profiles : q = dir[p].names
          BY <4>1 DEF Dirs
        <4>3. req' = [req EXCEPT ![c] = [r EXCEPT !.at = "writing", !.saw = {"copied"}, !.p = q]]
          BY <2>1, <3>1, <4>2
        <4> QED
          BY <4>3
      <3>2. CASE ~Desk!Readable(p)
        <4>1. [r EXCEPT !.at = "undoing", !.saw = {"copied"}, !.p = p] = [r EXCEPT !.at = "undoing", !.saw = {"copied"}]
          BY DEF Reqs
        <4>2. req' = [req EXCEPT ![c] = [r EXCEPT !.at = "undoing", !.saw = {"copied"}]]
          BY <2>1, <3>2
        <4> QED
          BY <4>1, <4>2
      <3> QED
        BY <3>1, <3>2
    <2>3. PICK v \in Reqs : /\ v = [r EXCEPT !.at = w, !.saw = {"copied"}, !.p = q]
                            /\ v.op = r.op /\ v.p = q /\ v.at = w
      <3>1. /\ [r EXCEPT !.at = w, !.saw = {"copied"}, !.p = q] \in Reqs
            /\ [r EXCEPT !.at = w, !.saw = {"copied"}, !.p = q].op = r.op
            /\ [r EXCEPT !.at = w, !.saw = {"copied"}, !.p = q].p = q
            /\ [r EXCEPT !.at = w, !.saw = {"copied"}, !.p = q].at = w
        BY DEF Reqs
      <3> QED
        BY <3>1
    <2>4. req' = [req EXCEPT ![c] = v]
      BY <2>2, <2>3
    <2>5. Plain(v)
      BY <2>1, <2>3, DeskAssumption DEF Plain, Placed
    <2>6. DiskInv'
      BY <2>1, FileWritten DEF Files
    <2> QED
      BY <1>3, <2>1, <2>4, <2>5, <2>6
  <1>13. CASE Desk!Undoes(c)
    <2>1. /\ req[c].at = "undoing" /\ req' = [req EXCEPT ![c] = Desk!NoReq] /\ UNCHANGED <<trash, made, kept>>
          /\ dir' = [dir EXCEPT ![p] = None]
          /\ removed' = IF dir[p] = None THEN removed ELSE removed \cup {dir[p].life}
          /\ mistaken' = mistaken
      BY <1>1, <1>13 DEF Desk!Undoes, Desk!Answers
    <2>2. \E v : req' = [req EXCEPT ![c] = v] /\ Plain(v)
      BY <1>2, <2>1
    <2>3. CASE dir[p] = None
      <3>1. dir' = dir
        BY <1>2, <2>1, <2>3 DEF DiskTyped
      <3> QED
        BY <1>3, <2>1, <2>2, <2>3, <3>1, DiskUntouched
    <2>4. CASE dir[p] # None
      <3>1. /\ dir' \in [Profiles -> Dirs \cup {None}]
            /\ \A q \in Profiles : dir'[q] = dir[q] \/ (dir'[q] = None /\ dir[q].life = dir[p].life)
        BY <1>2, <2>1 DEF DiskTyped
      <3>2. PICK l : l = dir[p].life
        OBVIOUS
      <3>5. removed' \cup mistaken' = (removed \cup mistaken) \cup {l}
        BY <2>1, <2>4, <3>2
      <3>3. DiskInv'
        BY <2>1, <2>4, <3>1, <3>2, <3>5, Erased
      <3> QED
        BY <1>3, <2>1, <2>2, <3>3
    <2> QED
      BY <2>3, <2>4
  <1> QED
    BY <1>6, <1>7, <1>8, <1>9, <1>10, <1>11, <1>12, <1>13

-----------------------------------------------------------------------------
(* The sessions that run on the profiles, and the map that names them.               *)

SessRecs == [p : Profiles \cup {None}, by : Ops \cup {"none"},
             st : {"none", "starting", "ready", "stopping", "stopped", "gone"}, held : BOOLEAN]

SessTyped == sess \in [Sessions -> SessRecs] /\ map \in [Profiles -> Sessions \cup {None}]

\* The manager knows a session until it has stopped, and has one per profile.
Owned ==
    /\ \A s \in Sessions : sess[s].st \in {"starting", "ready", "stopping"} => sess[s].held
    /\ \A s, t \in Sessions : sess[s].held /\ sess[t].held /\ sess[s].p = sess[t].p /\ sess[s].p # None => s = t

Launching(c) == Asked(c) /\ req[c].at = "launching"

\* A request that launches has a session of its own.
Launches ==
    /\ \A c \in Clients : Launching(c) =>
           /\ req[c].sid \in Sessions
           /\ LET s == sess[req[c].sid] IN s.st = "starting" /\ s.p = req[c].p /\ s.by = req[c].op
    /\ \A c, d \in Clients : Launching(c) /\ Launching(d) /\ req[c].sid = req[d].sid => c = d
    /\ \A c \in Clients : Asked(c) /\ req[c].at = "scraping" => req[c].sid \in Sessions

Awaited(s) == \E c \in Clients : Asked(c) /\ req[c].at = "stopping" /\ req[c].sid = s

\* A session leaves the manager before its stop is over only when it is stopped again.
Aside == \A s \in Sessions : sess[s].st = "stopped" /\ ~sess[s].held /\ Awaited(s) => overlap

Mapped(s) ==
    IF sess[s].p # None THEN overlap \/ map[sess[s].p] = s
    ELSE sess[s].by = "sandbox" \/ \E c \in Clients : Asked(c) /\ req[c].at = "scraping" /\ req[c].sid = s

SessInv == SessTyped /\ Owned /\ Launches /\ Aside /\ \A s \in Sessions : sess[s].st = "ready" => Mapped(s)

\* A session without a profile has no need of the map.
LEMMA BareKept ==
  ASSUME NEW t \in Sessions, Mapped(t), sess[t].p = None, sess'[t] = sess[t],
         \A d \in Clients : Asked(d) /\ req[d].at = "scraping" /\ req[d].sid = t
                               => Asked(d)' /\ req'[d] = req[d]
  PROVE  Mapped(t)'
  <1>1. CASE sess[t].by = "sandbox"
    BY <1>1 DEF Mapped
  <1>2. CASE \E d \in Clients : Asked(d) /\ req[d].at = "scraping" /\ req[d].sid = t
    <2>1. PICK d \in Clients : Asked(d) /\ req[d].at = "scraping" /\ req[d].sid = t
      BY <1>2
    <2>2. Asked(d)' /\ req'[d] = req[d]
      BY <2>1
    <2> QED
      BY <2>1, <2>2 DEF Mapped
  <1> QED
    BY <1>1, <1>2 DEF Mapped

LEMMA ReqSet ==
  ASSUME ReqInv, NEW c \in Clients, NEW v, v = Desk!NoReq \/ (v \in Reqs /\ Placed(v)),
         req' = [req EXCEPT ![c] = v], left' \in [calls : Nat, troubles : Nat]
  PROVE  ReqInv' /\ req'[c] = v /\ \A d \in Clients \ {c} : req'[d] = req[d]
  <1>1. req'[c] = v /\ \A d \in Clients \ {c} : req'[d] = req[d]
    BY DEF ReqInv
  <1>2. req' \in [Clients -> {Desk!NoReq} \cup Reqs]
    BY DEF ReqInv
  <1>3. ASSUME NEW d \in Clients, req'[d] # Desk!NoReq PROVE Placed(req'[d])
    <2>1. CASE d = c
      BY <1>1, <1>3, <2>1
    <2>2. CASE d # c
      BY <1>1, <1>3, <2>2 DEF ReqInv, Asked
    <2> QED
      BY <2>1, <2>2
  <1> QED
    BY <1>1, <1>2, <1>3 DEF ReqInv, Asked

\* A request that is not at a session, before and after, leaves the sessions alone; the map
\* may forget what is not ready.
LEMMA ReqMaps ==
  ASSUME ReqInv, SessInv, NEW c \in Clients, ~(Asked(c) /\ req[c].at = "scraping"),
         NEW v, Plain(v), req' = [req EXCEPT ![c] = v],
         left' \in [calls : Nat, troubles : Nat], UNCHANGED sess, overlap => overlap',
         map' \in [Profiles -> Sessions \cup {None}],
         \A s \in Sessions : sess[s].st = "ready" /\ sess[s].p # None /\ map[sess[s].p] = s
                                => map'[sess[s].p] = s
  PROVE  ReqInv' /\ SessInv'
  <1>1. ReqInv' /\ req'[c] = v /\ \A d \in Clients \ {c} : req'[d] = req[d]
    BY ReqSet DEF Plain
  <1>2. SessTyped /\ Owned /\ Launches /\ Aside /\ \A s \in Sessions : sess[s].st = "ready" => Mapped(s)
    BY DEF SessInv
  <1>3. SessTyped' /\ Owned'
    BY <1>2 DEF SessTyped, Owned
  <1>4. /\ Asked(c)' => req'[c].at \notin {"launching", "scraping", "stopping"}
        /\ \A d \in Clients \ {c} : Asked(d)' = Asked(d)
    BY <1>1 DEF Asked, Plain
  <1>5. Launches'
    BY <1>1, <1>2, <1>4 DEF Launches, Launching
  <1>6. Aside'
    BY <1>1, <1>2, <1>4 DEF Aside, Awaited
  <1>7. ASSUME NEW s \in Sessions, sess'[s].st = "ready" PROVE Mapped(s)'
    <2>1. Mapped(s)
      BY <1>2, <1>7
    <2>2. CASE sess[s].p = None
      <3>1. \A d \in Clients : Asked(d) /\ req[d].at = "scraping" /\ req[d].sid = s
                                  => Asked(d)' /\ req'[d] = req[d]
        BY <1>1, <1>4
      <3> QED
        BY <2>1, <2>2, <3>1, BareKept
    <2>3. CASE sess[s].p # None
      BY <1>7, <2>1, <2>3 DEF Mapped
    <2> QED
      BY <2>2, <2>3
  <1> QED
    BY <1>1, <1>3, <1>5, <1>6, <1>7 DEF SessInv

LEMMA ReqChanges ==
  ASSUME ReqInv, SessInv, NEW c \in Clients, ~(Asked(c) /\ req[c].at = "scraping"),
         NEW v, Plain(v), req' = [req EXCEPT ![c] = v],
         left' \in [calls : Nat, troubles : Nat], UNCHANGED <<sess, map, overlap>>
  PROVE  ReqInv' /\ SessInv'
  <1>1. map' \in [Profiles -> Sessions \cup {None}]
    BY DEF SessInv, SessTyped
  <1> QED
    BY <1>1, ReqMaps

LEMMA ArriveAt ==
  ASSUME ReqInv, SessInv, DiskInv,
         NEW op \in Ops,
         NEW p \in Profiles \cup {None}, NEW at \in {"begun", "cloning", "deleting", "reading", "resolving"},
         p = None <=> op \in Bare \cup {"import"}, op = "import" => at = "begun",
         op \in Bare => at = "resolving", at = "cloning" => op = "create",
         Desk!Arrives(op, p, at)
  PROVE  ReqInv' /\ SessInv' /\ DiskInv'
  <1>1. PICK c \in Clients : c = CHOOSE d \in Clients : req[d] = Desk!NoReq
    BY DEF Desk!Arrives
  <1>2. req[c] = Desk!NoReq
    BY <1>1 DEF Desk!Arrives
  <1>3. PICK v \in Reqs : /\ v = [op |-> op, p |-> p, sid |-> None, saw |-> {}, at |-> at]
                          /\ v.op = op /\ v.p = p /\ v.at = at
    <2>1. /\ [op |-> op, p |-> p, sid |-> None, saw |-> {}, at |-> at] \in Reqs
          /\ [op |-> op, p |-> p, sid |-> None, saw |-> {}, at |-> at].op = op
          /\ [op |-> op, p |-> p, sid |-> None, saw |-> {}, at |-> at].p = p
          /\ [op |-> op, p |-> p, sid |-> None, saw |-> {}, at |-> at].at = at
      BY DEF Reqs
    <2> QED
      BY <2>1
  <1>4. req' = [req EXCEPT ![c] = v]
    BY <1>1, <1>3 DEF Desk!Arrives
  <1>5. UNCHANGED <<dir, trash, made, kept, removed, mistaken, sess, map, overlap>>
    BY DEF Desk!Arrives, Desk!disk
  <1>6. left' \in [calls : Nat, troubles : Nat]
    BY DEF Desk!Arrives, Desk!DrawsOn, ReqInv
  <1>7. Placed(v)
    BY <1>3 DEF Placed, Bare
  <1>8. Plain(v)
    BY <1>3, <1>7 DEF Plain
  <1> QED
    BY <1>2, <1>4, <1>5, <1>6, <1>8, ReqChanges, DiskUntouched DEF Asked

\* A request arrives.
LEMMA Arriving ==
  ASSUME ReqInv, SessInv, DiskInv, NEW p \in Profiles,
         \/ Desk!PostProfile(p) \/ Desk!PostClone(p) \/ Desk!PutProfile(p)
         \/ Desk!PostCookies(p) \/ Desk!RestoreRoute(p) \/ Desk!PurgeRoute(p)
         \/ Desk!StartRoute(p) \/ Desk!StopRoute(p)
         \/ Desk!DeleteRoute(p) \/ Desk!BatchDelete(p) \/ Desk!BatchStart(p)
  PROVE  ReqInv' /\ SessInv' /\ DiskInv'
  <1>1. p # None
    BY DeskAssumption
  <1>2. CASE Desk!PostProfile(p) \/ Desk!PostClone(p)
    BY <1>1, <1>2, ArriveAt DEF Desk!PostProfile, Desk!PostClone, Ops, Bare
  <1>3. CASE Desk!PutProfile(p) \/ Desk!PostCookies(p)
    BY <1>1, <1>3, ArriveAt DEF Desk!PutProfile, Desk!PostCookies, Ops, Bare
  <1>4. CASE Desk!RestoreRoute(p) \/ Desk!PurgeRoute(p)
    BY <1>1, <1>4, ArriveAt DEF Desk!RestoreRoute, Desk!PurgeRoute, Ops, Bare
  <1>5. CASE Desk!StartRoute(p) \/ Desk!StopRoute(p)
    BY <1>1, <1>5, ArriveAt DEF Desk!StartRoute, Desk!StopRoute, Ops, Bare
  <1>6. CASE Desk!DeleteRoute(p) \/ Desk!BatchDelete(p)
    BY <1>1, <1>6, ArriveAt DEF Desk!DeleteRoute, Desk!BatchDelete, Ops, Bare
  <1>7. CASE Desk!BatchStart(p)
    BY <1>1, <1>7, ArriveAt DEF Desk!BatchStart, Ops, Bare
  <1> QED
    BY <1>2, <1>3, <1>4, <1>5, <1>6, <1>7

LEMMA ArrivingAlone ==
  ASSUME ReqInv, SessInv, DiskInv, Desk!ImportLocal \/ Desk!Scrape \/ Desk!BrowserStart
  PROVE  ReqInv' /\ SessInv' /\ DiskInv'
  BY ArriveAt DEF Desk!ImportLocal, Desk!Scrape, Desk!BrowserStart, Ops, Bare

Turns(s, w) == sess' = [sess EXCEPT ![s].st = w]

LEMMA StateSet ==
  ASSUME SessTyped, NEW s \in Sessions,
         NEW w \in {"none", "starting", "ready", "stopping", "stopped", "gone"}, Turns(s, w)
  PROVE  /\ sess' \in [Sessions -> SessRecs] /\ \A t \in Sessions \ {s} : sess'[t] = sess[t]
         /\ sess'[s].st = w /\ sess'[s].p = sess[s].p /\ (sess'[s].held <=> sess[s].held)
         /\ sess'[s].by = sess[s].by
  <1>1. PICK e \in SessRecs : e = sess[s]
    BY DEF SessTyped
  <1>2. PICK n \in SessRecs : n = [e EXCEPT !.st = w] /\ n.st = w /\ n.p = e.p /\ n.held = e.held /\ n.by = e.by
    <2>1. /\ [e EXCEPT !.st = w] \in SessRecs /\ [e EXCEPT !.st = w].st = w
          /\ [e EXCEPT !.st = w].p = e.p /\ [e EXCEPT !.st = w].held = e.held
          /\ [e EXCEPT !.st = w].by = e.by
      BY DEF SessRecs
    <2> QED
      BY <2>1
  <1>3. sess' = [sess EXCEPT ![s] = n]
    BY <1>1, <1>2 DEF Turns
  <1>4. sess'[s] = n /\ sess' \in [Sessions -> SessRecs] /\ \A t \in Sessions \ {s} : sess'[t] = sess[t]
    BY <1>3 DEF SessTyped
  <1> QED
    BY <1>1, <1>2, <1>4

Ends(s) == sess' = [sess EXCEPT ![s] = [@ EXCEPT !.st = "gone", !.held = FALSE]]

LEMMA SessionGone ==
  ASSUME SessTyped, NEW s \in Sessions, Ends(s)
  PROVE  /\ sess' \in [Sessions -> SessRecs] /\ \A t \in Sessions \ {s} : sess'[t] = sess[t]
         /\ sess'[s].st = "gone" /\ ~sess'[s].held
  <1>1. PICK e \in SessRecs : e = sess[s]
    BY DEF SessTyped
  <1>2. PICK n \in SessRecs : n = [e EXCEPT !.st = "gone", !.held = FALSE] /\ n.st = "gone" /\ n.held = FALSE
    <2>1. /\ [e EXCEPT !.st = "gone", !.held = FALSE] \in SessRecs
          /\ [e EXCEPT !.st = "gone", !.held = FALSE].st = "gone"
          /\ [e EXCEPT !.st = "gone", !.held = FALSE].held = FALSE
      BY DEF SessRecs
    <2> QED
      BY <2>1
  <1>3. sess' = [sess EXCEPT ![s] = n]
    BY <1>1, <1>2 DEF Ends
  <1>4. sess'[s] = n /\ sess' \in [Sessions -> SessRecs] /\ \A t \in Sessions \ {s} : sess'[t] = sess[t]
    BY <1>3 DEF SessTyped
  <1> QED
    BY <1>2, <1>4

Starts(s, p, op) == sess' = [sess EXCEPT ![s] = [p |-> p, by |-> op, st |-> "starting", held |-> TRUE]]

LEMMA SessionNew ==
  ASSUME SessTyped, NEW s \in Sessions, NEW p \in Profiles \cup {None}, NEW op \in Ops, Starts(s, p, op)
  PROVE  /\ sess' \in [Sessions -> SessRecs] /\ \A t \in Sessions \ {s} : sess'[t] = sess[t]
         /\ sess'[s].st = "starting" /\ sess'[s].p = p /\ sess'[s].held /\ sess'[s].by = op
  <1>2. PICK n \in SessRecs : n = [p |-> p, by |-> op, st |-> "starting", held |-> TRUE]
                              /\ n.st = "starting" /\ n.p = p /\ n.held = TRUE /\ n.by = op
    <2>1. /\ [p |-> p, by |-> op, st |-> "starting", held |-> TRUE] \in SessRecs
          /\ [p |-> p, by |-> op, st |-> "starting", held |-> TRUE].st = "starting"
          /\ [p |-> p, by |-> op, st |-> "starting", held |-> TRUE].p = p
          /\ [p |-> p, by |-> op, st |-> "starting", held |-> TRUE].held = TRUE
          /\ [p |-> p, by |-> op, st |-> "starting", held |-> TRUE].by = op
      BY DEF SessRecs
    <2> QED
      BY <2>1
  <1>3. sess' = [sess EXCEPT ![s] = n]
    BY <1>2 DEF Starts
  <1>4. sess'[s] = n /\ sess' \in [Sessions -> SessRecs] /\ \A t \in Sessions \ {s} : sess'[t] = sess[t]
    BY <1>3 DEF SessTyped
  <1> QED
    BY <1>2, <1>4

Takes(c, w, s) == req' = [req EXCEPT ![c].at = w, ![c].sid = s]

\* A request goes to its session, or to another place there.
LEMMA SessionMove ==
  ASSUME ReqInv, NEW c \in Clients, Asked(c), NEW s \in Sessions \cup {None},
         NEW w \in {"launching", "scraping", "stopping"},
         Takes(c, w, s) \/ (Desk!Moves(c, w) /\ s = req[c].sid),
         req[c].p = None <=> req[c].op \in Bare, req[c].op = "sandbox" => w = "launching"
  PROVE  \E v \in Reqs : /\ req' = [req EXCEPT ![c] = v] /\ Placed(v)
                         /\ v.at = w /\ v.sid = s /\ v.p = req[c].p /\ v.op = req[c].op
  <1>1. req[c] \in Reqs
    BY ReqKinds
  <1>2. PICK r \in Reqs : r = req[c]
    BY <1>1
  <1>3. PICK v \in Reqs : /\ v = [r EXCEPT !.at = w, !.sid = s]
                          /\ v.op = r.op /\ v.p = r.p /\ v.sid = s /\ v.at = w
    <2>1. /\ [r EXCEPT !.at = w, !.sid = s] \in Reqs /\ [r EXCEPT !.at = w, !.sid = s].at = w
          /\ [r EXCEPT !.at = w, !.sid = s].op = r.op /\ [r EXCEPT !.at = w, !.sid = s].p = r.p
          /\ [r EXCEPT !.at = w, !.sid = s].sid = s
      BY DEF Reqs
    <2> QED
      BY <2>1
  <1>4. req' = [req EXCEPT ![c] = v]
    <2>1. CASE Takes(c, w, s)
      BY <1>2, <1>3, <2>1 DEF Takes
    <2>2. CASE Desk!Moves(c, w) /\ s = req[c].sid
      <3>1. [r EXCEPT !.at = w, !.sid = s] = [r EXCEPT !.at = w]
        BY <1>2, <2>2 DEF Reqs
      <3> QED
        BY <1>2, <1>3, <2>2, <3>1 DEF Desk!Moves
    <2> QED
      BY <2>1, <2>2
  <1>5. Placed(v)
    BY <1>2, <1>3 DEF Placed
  <1> QED
    BY <1>2, <1>3, <1>4, <1>5

LEMMA StartChecksKeeps ==
  ASSUME ReqInv, SessInv, DiskInv, NEW c \in Clients, Desk!StartChecks(c)
  PROVE  ReqInv' /\ SessInv' /\ DiskInv'
  <1>1. /\ Asked(c) /\ req[c].at = "begun" /\ req[c].op = "start" /\ req[c].p \in Profiles
        /\ left \in [calls : Nat, troubles : Nat] /\ SessTyped /\ Owned
    BY ReqKinds DEF Desk!StartChecks, ReqInv, SessInv
  <1>2. PICK p \in Profiles : p = req[c].p
    BY <1>1
  <1>3. /\ UNCHANGED <<dir, trash, made, kept, removed, mistaken, sess, left, overlap>>
        /\ IF Desk!Held(map[p]) THEN Desk!Answers(c) /\ UNCHANGED map
           ELSE Desk!Moves(c, "reading") /\ map' = [map EXCEPT ![p] = None]
    BY <1>2 DEF Desk!StartChecks, Desk!disk
  <1>4. DiskInv'
    BY <1>3, DiskUntouched
  <1>5. CASE Desk!Held(map[p])
    BY <1>1, <1>3, <1>4, <1>5, ReqChanges DEF Desk!Answers, Plain
  <1>6. CASE ~Desk!Held(map[p])
    <2>1. PICK v : req' = [req EXCEPT ![c] = v] /\ Plain(v)
      BY <1>1, <1>3, <1>6, StepTo
    <2>2. /\ map' \in [Profiles -> Sessions \cup {None}]
          /\ \A q \in Profiles \ {p} : map'[q] = map[q]
      BY <1>1, <1>3, <1>6 DEF SessTyped
    <2>3. ASSUME NEW s \in Sessions, sess[s].st = "ready", sess[s].p # None, map[sess[s].p] = s
          PROVE  map'[sess[s].p] = s
      <3>1. sess[s].held /\ s # None
        BY <1>1, <2>3, DeskAssumption DEF Owned
      <3>2. sess[s].p # p
        BY <1>6, <2>3, <3>1 DEF Desk!Held
      <3>3. sess[s].p \in Profiles
        BY <1>1, <2>3 DEF SessTyped, SessRecs
      <3> QED
        BY <2>2, <2>3, <3>2, <3>3
    <2> QED
      BY <1>1, <1>3, <1>4, <2>1, <2>2, <2>3, ReqMaps
  <1> QED
    BY <1>5, <1>6

\* A session is launched for a request: it is new, and its profile has no other.
LEMMA LaunchKeeps ==
  ASSUME ReqInv, SessInv, NEW c \in Clients, Asked(c), req[c].at = "resolving",
         NEW s \in Sessions, s \in Desk!Unused,
         req[c].p # None => Desk!Owner(req[c].p) = {}, req[c].p = None <=> req[c].op \in Bare,
         Starts(s, req[c].p, req[c].op), Takes(c, "launching", s), UNCHANGED <<map, left, overlap>>
  PROVE  ReqInv' /\ SessInv'
  <1>1. SessTyped /\ Owned /\ Launches /\ Aside /\ \A t \in Sessions : sess[t].st = "ready" => Mapped(t)
    BY DEF SessInv
  <1>2. left' \in [calls : Nat, troubles : Nat]
    BY DEF ReqInv
  <1>3. PICK p \in Profiles \cup {None}, op \in Ops : p = req[c].p /\ op = req[c].op
    BY ReqKinds DEF Reqs
  <1>4. /\ sess' \in [Sessions -> SessRecs] /\ \A t \in Sessions \ {s} : sess'[t] = sess[t]
        /\ sess'[s].st = "starting" /\ sess'[s].p = p /\ sess'[s].held /\ sess'[s].by = op
    BY <1>1, <1>3, SessionNew
  <1>5. PICK v \in Reqs : /\ req' = [req EXCEPT ![c] = v] /\ Placed(v)
                          /\ v.at = "launching" /\ v.sid = s /\ v.p = req[c].p /\ v.op = req[c].op
    BY SessionMove
  <1>6. ReqInv' /\ req'[c] = v /\ \A d \in Clients \ {c} : req'[d] = req[d]
    BY <1>2, <1>5, ReqSet
  <1>7. sess[s].st = "none"
    <2>1. sess[s] = Desk!NoSession
      BY DEF Desk!Unused
    <2> QED
      BY <2>1 DEF Desk!NoSession
  <1>8. SessTyped'
    BY <1>1, <1>4 DEF SessTyped
  <1>9. \A t \in Sessions : sess[t].held /\ p # None => sess[t].p # p
    BY <1>3, DeskAssumption DEF Desk!Owner, Desk!Held
  <1>10. Owned'
    BY <1>1, <1>4, <1>9 DEF Owned
  <1>11. /\ Asked(c)' /\ req'[c].at = "launching" /\ req'[c].sid = s /\ req'[c].p = p /\ req'[c].op = op
         /\ \A d \in Clients \ {c} : Asked(d)' = Asked(d)
    BY <1>3, <1>5, <1>6, NoReqs DEF Asked
  <1>12. \A d \in Clients : Launching(d) => req[d].sid # s
    BY <1>1, <1>7 DEF Launches
  <1>13. Launches'
    <2>1. /\ \A d \in Clients : Launching(d) =>
                /\ req[d].sid \in Sessions /\ sess[req[d].sid].st = "starting"
                /\ sess[req[d].sid].p = req[d].p /\ sess[req[d].sid].by = req[d].op
          /\ \A d, e \in Clients : Launching(d) /\ Launching(e) /\ req[d].sid = req[e].sid => d = e
          /\ \A d \in Clients : Asked(d) /\ req[d].at = "scraping" => req[d].sid \in Sessions
      BY <1>1 DEF Launches
    <2>2. /\ Launching(c)' /\ req'[c].sid = s /\ req'[c].p = p /\ req'[c].op = op /\ req'[c].at # "scraping"
          /\ \A d \in Clients \ {c} : (Launching(d)' <=> Launching(d)) /\ req'[d] = req[d] /\ (Asked(d)' <=> Asked(d))
      BY <1>6, <1>11 DEF Launching
    <2>3. /\ \A t \in Sessions \ {s} : sess'[t] = sess[t]
          /\ sess'[s].st = "starting" /\ sess'[s].p = p /\ sess'[s].by = op
      BY <1>4
    <2>4. ASSUME NEW d \in Clients, Launching(d)'
          PROVE  /\ req'[d].sid \in Sessions /\ sess'[req'[d].sid].st = "starting"
                 /\ sess'[req'[d].sid].p = req'[d].p /\ sess'[req'[d].sid].by = req'[d].op
      <3>1. CASE d = c
        BY <2>2, <2>3, <3>1
      <3>2. CASE d # c
        <4>1. Launching(d) /\ req'[d] = req[d]
          BY <2>2, <2>4, <3>2
        <4> QED
          BY <1>12, <2>1, <2>3, <4>1
      <3> QED
        BY <3>1, <3>2
    <2>5. ASSUME NEW d \in Clients, NEW e \in Clients, Launching(d)', Launching(e)', req'[d].sid = req'[e].sid
          PROVE  d = e
      <3>1. \A f \in Clients \ {c} : Launching(f)' => Launching(f) /\ req'[f] = req[f] /\ req'[f].sid # s
        BY <1>12, <2>2
      <3> QED
        BY <2>1, <2>2, <2>5, <3>1
    <2>6. \A d \in Clients : Asked(d)' /\ req'[d].at = "scraping" => req'[d].sid \in Sessions
      BY <2>1, <2>2
    <2> QED
      BY <2>4, <2>5, <2>6 DEF Launches
  <1>14. Aside'
    <2>1. ASSUME NEW t \in Sessions, sess'[t].st = "stopped", ~sess'[t].held, Awaited(t)' PROVE overlap'
      <3>1. t # s /\ sess'[t] = sess[t]
        BY <1>4, <2>1
      <3>2. Awaited(t)
        BY <1>6, <1>11, <2>1 DEF Awaited
      <3> QED
        BY <1>1, <2>1, <3>1, <3>2 DEF Aside
    <2> QED
      BY <2>1 DEF Aside
  <1>15. ASSUME NEW t \in Sessions, sess'[t].st = "ready" PROVE Mapped(t)'
    <2>1. t # s /\ sess'[t] = sess[t] /\ Mapped(t)
      BY <1>1, <1>4, <1>15
    <2>2. \A d \in Clients : Asked(d) /\ req[d].at = "scraping" /\ req[d].sid = t
                                => Asked(d)' /\ req'[d] = req[d]
      BY <1>6, <1>11
    <2>3. CASE sess[t].p = None
      BY <2>1, <2>2, <2>3, BareKept
    <2>4. CASE sess[t].p # None
      BY <2>1, <2>4 DEF Mapped
    <2> QED
      BY <2>3, <2>4
  <1> QED
    BY <1>6, <1>8, <1>10, <1>13, <1>14, <1>15 DEF SessInv

LEMMA LaunchingKeeps ==
  ASSUME ReqInv, SessInv, DiskInv, NEW c \in Clients, NEW s \in Sessions,
         Desk!StartLaunches(c, s) \/ Desk!BareLaunches(c, s)
  PROVE  ReqInv' /\ SessInv' /\ DiskInv'
  <1>1. /\ Asked(c) /\ req[c].at = "resolving" /\ Placed(req[c]) /\ req[c] \in Reqs
        /\ s \in Desk!Unused /\ UNCHANGED <<trash, kept, removed, mistaken, map, left, overlap>>
        /\ Takes(c, "launching", s)
    <2>1. Desk!At(c, "resolving") => Asked(c) /\ req[c].at = "resolving" /\ Placed(req[c]) /\ req[c] \in Reqs
      BY ReqKinds
    <2>2. CASE Desk!StartLaunches(c, s)
      BY <2>1, <2>2 DEF Desk!StartLaunches, Takes
    <2>3. CASE Desk!BareLaunches(c, s)
      BY <2>1, <2>3 DEF Desk!BareLaunches, Takes, Desk!disk
    <2> QED
      BY <2>2, <2>3
  <1>2. CASE Desk!StartLaunches(c, s)
    <2>1. /\ req[c].p # None /\ Desk!Owner(req[c].p) = {} /\ Starts(s, req[c].p, req[c].op)
          /\ Desk!WriteFile(req[c].p, "data")
      BY <1>2 DEF Desk!StartLaunches, Starts
    <2>2. req[c].op \notin Bare /\ req[c].p \in Profiles
      BY <1>1, <2>1 DEF Placed, Reqs
    <2>3. DiskInv'
      BY <1>1, <2>1, <2>2, FileWritten DEF Files
    <2> QED
      BY <1>1, <2>1, <2>2, <2>3, LaunchKeeps
  <1>3. CASE Desk!BareLaunches(c, s)
    <2>1. /\ req[c].op \in Bare /\ Starts(s, None, req[c].op)
          /\ UNCHANGED <<dir, trash, made, kept, removed, mistaken>>
      BY <1>3 DEF Desk!BareLaunches, Starts, Desk!disk, Bare
    <2>2. req[c].p = None
      BY <1>1, <2>1 DEF Placed
    <2>3. DiskInv'
      BY <2>1, DiskUntouched
    <2> QED
      BY <1>1, <2>1, <2>2, <2>3, LaunchKeeps
  <1> QED
    BY <1>2, <1>3

\* The browser of a profile is up, and the map names the session.
LEMMA StartEndsKeeps ==
  ASSUME ReqInv, SessInv, DiskInv, NEW c \in Clients, Desk!StartEnds(c)
  PROVE  ReqInv' /\ SessInv' /\ DiskInv'
  <1>1. SessTyped /\ Owned /\ Launches /\ Aside /\ \A t \in Sessions : sess[t].st = "ready" => Mapped(t)
    BY DEF SessInv
  <1>2. Asked(c) /\ req[c].at = "launching" /\ req[c] \in Reqs /\ req[c].p # None /\ Launching(c)
    BY ReqKinds DEF Desk!StartEnds, Launching
  <1>3. PICK s \in Sessions, p \in Profiles :
           s = req[c].sid /\ p = req[c].p /\ sess[s].st = "starting" /\ sess[s].p = p
    BY <1>1, <1>2 DEF Launches, Reqs
  <1>4. /\ UNCHANGED <<dir, trash, made, kept, removed, mistaken, left, overlap>> /\ Turns(s, "ready")
        /\ map' = [map EXCEPT ![p] = s] /\ req' = [req EXCEPT ![c] = Desk!NoReq]
    BY <1>3 DEF Desk!StartEnds, Desk!disk, Turns, Desk!Answers
  <1>5. /\ sess' \in [Sessions -> SessRecs] /\ \A t \in Sessions \ {s} : sess'[t] = sess[t]
        /\ sess'[s].st = "ready" /\ sess'[s].p = sess[s].p /\ (sess'[s].held <=> sess[s].held)
    BY <1>1, <1>4, StateSet
  <1>6. /\ map' \in [Profiles -> Sessions \cup {None}] /\ map'[p] = s
        /\ \A q \in Profiles \ {p} : map'[q] = map[q]
    BY <1>1, <1>4 DEF SessTyped
  <1>7. left' \in [calls : Nat, troubles : Nat]
    BY <1>4 DEF ReqInv
  <1>8. ReqInv' /\ req'[c] = Desk!NoReq /\ \A d \in Clients \ {c} : req'[d] = req[d]
    <2>1. PICK v : v = Desk!NoReq
      OBVIOUS
    <2>2. req' = [req EXCEPT ![c] = v]
      BY <1>4, <2>1
    <2> QED
      BY <1>7, <2>1, <2>2, ReqSet
  <1>9. sess[s].held
    BY <1>1, <1>3 DEF Owned
  <1>10. SessTyped' /\ Owned'
    <2>1. \A t \in Sessions : (sess'[t].held <=> sess[t].held) /\ sess'[t].p = sess[t].p
      BY <1>5
    <2>2. SessTyped'
      BY <1>5, <1>6 DEF SessTyped
    <2>3. Owned'
      BY <1>1, <1>5, <1>9, <2>1 DEF Owned
    <2> QED
      BY <2>2, <2>3
  <1>11. \A d \in Clients : Asked(d)' => d # c /\ Asked(d) /\ req'[d] = req[d]
    BY <1>8 DEF Asked
  <1>12. \A d \in Clients : Launching(d)' => Launching(d) /\ req'[d] = req[d] /\ req[d].sid # s
    <2>1. ASSUME NEW d \in Clients, Launching(d)' PROVE Launching(d) /\ req'[d] = req[d] /\ d # c
      BY <1>8, <1>11, <2>1 DEF Launching, Asked
    <2> QED
      BY <1>1, <1>2, <1>3, <2>1 DEF Launches
  <1>13. Launches'
    BY <1>1, <1>5, <1>11, <1>12 DEF Launches
  <1>14. Aside'
    BY <1>1, <1>4, <1>5, <1>11 DEF Aside, Awaited
  <1>15. ASSUME NEW t \in Sessions, sess'[t].st = "ready" PROVE Mapped(t)'
    <2>1. CASE t = s
      BY <1>2, <1>3, <1>5, <1>6, <2>1 DEF Mapped
    <2>2. CASE t # s /\ sess[t].p # None
      <3>1. sess'[t] = sess[t] /\ Mapped(t) /\ sess[t].held /\ sess[t].p \in Profiles
        BY <1>1, <1>5, <1>15, <2>2 DEF Owned, SessTyped, SessRecs
      <3>2. sess[t].p # p
        BY <1>1, <1>3, <1>9, <2>2, <3>1 DEF Owned
      <3> QED
        BY <1>4, <1>6, <2>2, <3>1, <3>2 DEF Mapped
    <2>3. CASE t # s /\ sess[t].p = None
      <3>1. sess'[t] = sess[t] /\ Mapped(t)
        BY <1>1, <1>5, <1>15, <2>3
      <3>2. \A d \in Clients : Asked(d) /\ req[d].at = "scraping" /\ req[d].sid = t
                                  => Asked(d)' /\ req'[d] = req[d]
        BY <1>2, <1>8 DEF Asked
      <3> QED
        BY <2>3, <3>1, <3>2, BareKept
    <2> QED
      BY <2>1, <2>2, <2>3
  <1>16. DiskInv'
    BY <1>4, DiskUntouched
  <1> QED
    BY <1>8, <1>10, <1>13, <1>14, <1>15, <1>16 DEF SessInv

\* A session of POST /browser/start is up.
LEMMA BrowserStartsKeeps ==
  ASSUME ReqInv, SessInv, DiskInv, NEW c \in Clients, Desk!BrowserStarts(c)
  PROVE  ReqInv' /\ SessInv' /\ DiskInv'
  <1>1. SessTyped /\ Owned /\ Launches /\ Aside /\ \A t \in Sessions : sess[t].st = "ready" => Mapped(t)
    BY DEF SessInv
  <1>2. Asked(c) /\ req[c].at = "launching" /\ Launching(c) /\ req[c].op = "sandbox" /\ req[c].p = None
    BY ReqKinds DEF Desk!BrowserStarts, Launching, Placed, Bare
  <1>3. PICK s \in Sessions :
           s = req[c].sid /\ sess[s].st = "starting" /\ sess[s].p = None /\ sess[s].by = "sandbox"
    BY <1>1, <1>2 DEF Launches
  <1>4. /\ UNCHANGED <<dir, trash, made, kept, removed, mistaken, map, left, overlap>> /\ Turns(s, "ready")
        /\ req' = [req EXCEPT ![c] = Desk!NoReq]
    BY <1>3 DEF Desk!BrowserStarts, Desk!disk, Turns, Desk!Answers
  <1>5. /\ sess' \in [Sessions -> SessRecs] /\ \A t \in Sessions \ {s} : sess'[t] = sess[t]
        /\ sess'[s].st = "ready" /\ sess'[s].p = sess[s].p /\ (sess'[s].held <=> sess[s].held)
        /\ sess'[s].by = sess[s].by
    BY <1>1, <1>4, StateSet
  <1>7. left' \in [calls : Nat, troubles : Nat]
    BY <1>4 DEF ReqInv
  <1>8. ReqInv' /\ req'[c] = Desk!NoReq /\ \A d \in Clients \ {c} : req'[d] = req[d]
    <2>1. PICK v : v = Desk!NoReq
      OBVIOUS
    <2>2. req' = [req EXCEPT ![c] = v]
      BY <1>4, <2>1
    <2> QED
      BY <1>7, <2>1, <2>2, ReqSet
  <1>9. SessTyped'
    BY <1>1, <1>4, <1>5 DEF SessTyped
  <1>10. Owned'
    <2>1. \A t \in Sessions : (sess'[t].held <=> sess[t].held) /\ sess'[t].p = sess[t].p
      BY <1>5
    <2>2. sess[s].held
      BY <1>1, <1>3 DEF Owned
    <2> QED
      BY <1>1, <1>5, <2>1, <2>2 DEF Owned
  <1>11. \A d \in Clients : Asked(d)' => d # c /\ Asked(d) /\ req'[d] = req[d]
    BY <1>8 DEF Asked
  <1>12. \A d \in Clients : Launching(d)' => Launching(d) /\ req'[d] = req[d] /\ req[d].sid # s
    <2>1. ASSUME NEW d \in Clients, Launching(d)' PROVE Launching(d) /\ req'[d] = req[d] /\ d # c
      BY <1>8, <1>11, <2>1 DEF Launching, Asked
    <2> QED
      BY <1>1, <1>2, <1>3, <2>1 DEF Launches
  <1>13. Launches'
    BY <1>1, <1>5, <1>11, <1>12 DEF Launches
  <1>14. Aside'
    BY <1>1, <1>4, <1>5, <1>11 DEF Aside, Awaited
  <1>15. ASSUME NEW t \in Sessions, sess'[t].st = "ready" PROVE Mapped(t)'
    <2>1. CASE t = s
      BY <1>3, <1>5, <2>1 DEF Mapped
    <2>2. CASE t # s
      <3>1. sess'[t] = sess[t] /\ Mapped(t)
        BY <1>1, <1>5, <1>15, <2>2
      <3>2. CASE sess[t].p # None
        BY <1>4, <3>1, <3>2 DEF Mapped
      <3>3. CASE sess[t].p = None
        <4>1. \A d \in Clients : Asked(d) /\ req[d].at = "scraping" /\ req[d].sid = t
                                    => Asked(d)' /\ req'[d] = req[d]
          BY <1>2, <1>8 DEF Asked
        <4> QED
          BY <3>1, <3>3, <4>1, BareKept
      <3> QED
        BY <3>2, <3>3
    <2> QED
      BY <2>1, <2>2
  <1>16. DiskInv'
    BY <1>4, DiskUntouched
  <1> QED
    BY <1>8, <1>9, <1>10, <1>13, <1>14, <1>15, <1>16 DEF SessInv

LEMMA StartFailsKeeps ==
  ASSUME ReqInv, SessInv, DiskInv, NEW c \in Clients, Desk!StartFails(c)
  PROVE  ReqInv' /\ SessInv' /\ DiskInv'
  <1>1. SessTyped /\ Owned /\ Launches /\ Aside /\ \A t \in Sessions : sess[t].st = "ready" => Mapped(t)
    BY DEF SessInv
  <1>2. Asked(c) /\ req[c].at = "launching" /\ Launching(c)
    BY ReqKinds DEF Desk!StartFails, Launching
  <1>3. PICK s \in Sessions : s = req[c].sid /\ sess[s].st = "starting"
    BY <1>1, <1>2 DEF Launches
  <1>4. /\ UNCHANGED <<dir, trash, made, kept, removed, mistaken, map, overlap>> /\ Ends(s)
        /\ req' = [req EXCEPT ![c] = Desk!NoReq]
    BY <1>3 DEF Desk!StartFails, Desk!disk, Ends, Desk!Answers
  <1>5. /\ sess' \in [Sessions -> SessRecs] /\ \A t \in Sessions \ {s} : sess'[t] = sess[t]
        /\ sess'[s].st = "gone" /\ ~sess'[s].held
    BY <1>1, <1>4, SessionGone
  <1>7. left' \in [calls : Nat, troubles : Nat]
    BY DEF ReqInv, Desk!StartFails, Desk!DrawsOn
  <1>8. ReqInv' /\ req'[c] = Desk!NoReq /\ \A d \in Clients \ {c} : req'[d] = req[d]
    <2>1. PICK v : v = Desk!NoReq
      OBVIOUS
    <2>2. req' = [req EXCEPT ![c] = v]
      BY <1>4, <2>1
    <2> QED
      BY <1>7, <2>1, <2>2, ReqSet
  <1>9. SessTyped'
    BY <1>1, <1>4, <1>5 DEF SessTyped
  <1>10. Owned'
    BY <1>1, <1>5 DEF Owned
  <1>11. \A d \in Clients : Asked(d)' => d # c /\ Asked(d) /\ req'[d] = req[d]
    BY <1>8 DEF Asked
  <1>12. \A d \in Clients : Launching(d)' => Launching(d) /\ req'[d] = req[d] /\ req[d].sid # s
    <2>1. ASSUME NEW d \in Clients, Launching(d)' PROVE Launching(d) /\ req'[d] = req[d] /\ d # c
      BY <1>8, <1>11, <2>1 DEF Launching, Asked
    <2> QED
      BY <1>1, <1>2, <1>3, <2>1 DEF Launches
  <1>13. Launches'
    BY <1>1, <1>5, <1>11, <1>12 DEF Launches
  <1>14. Aside'
    BY <1>1, <1>4, <1>5, <1>11 DEF Aside, Awaited
  <1>15. ASSUME NEW t \in Sessions, sess'[t].st = "ready" PROVE Mapped(t)'
    <2>1. t # s /\ sess'[t] = sess[t] /\ Mapped(t)
      BY <1>1, <1>5, <1>15
    <2>2. CASE sess[t].p # None
      BY <1>4, <2>1, <2>2 DEF Mapped
    <2>3. CASE sess[t].p = None
      <3>2. \A d \in Clients : Asked(d) /\ req[d].at = "scraping" /\ req[d].sid = t
                                  => Asked(d)' /\ req'[d] = req[d]
        BY <1>2, <1>8 DEF Asked
      <3> QED
        BY <2>1, <2>3, <3>2, BareKept
    <2> QED
      BY <2>2, <2>3
  <1>16. DiskInv'
    BY <1>4, DiskUntouched
  <1> QED
    BY <1>8, <1>9, <1>10, <1>13, <1>14, <1>15, <1>16 DEF SessInv

LEMMA ScrapeStartsKeeps ==
  ASSUME ReqInv, SessInv, DiskInv, NEW c \in Clients, Desk!ScrapeStarts(c)
  PROVE  ReqInv' /\ SessInv' /\ DiskInv'
  <1>1. SessTyped /\ Owned /\ Launches /\ Aside /\ \A t \in Sessions : sess[t].st = "ready" => Mapped(t)
    BY DEF SessInv
  <1>2. /\ Asked(c) /\ req[c].at = "launching" /\ Launching(c) /\ req[c].op = "scrape" /\ req[c].p = None
        /\ req[c].sid \in Sessions /\ req[c].op \in Bare
    BY <1>1, ReqKinds DEF Desk!ScrapeStarts, Launching, Placed, Launches, Bare
  <1>3. PICK s \in Sessions : s = req[c].sid /\ sess[s].st = "starting" /\ sess[s].p = None
    BY <1>1, <1>2 DEF Launches
  <1>4. /\ UNCHANGED <<dir, trash, made, kept, removed, mistaken, map, left, overlap>> /\ Turns(s, "ready")
        /\ Desk!Moves(c, "scraping")
    BY <1>3 DEF Desk!ScrapeStarts, Desk!disk, Turns
  <1>5. /\ sess' \in [Sessions -> SessRecs] /\ \A t \in Sessions \ {s} : sess'[t] = sess[t]
        /\ sess'[s].st = "ready" /\ sess'[s].p = sess[s].p /\ (sess'[s].held <=> sess[s].held)
    BY <1>1, <1>4, StateSet
  <1>6. PICK v \in Reqs : /\ req' = [req EXCEPT ![c] = v] /\ Placed(v)
                          /\ v.at = "scraping" /\ v.sid = s
    BY <1>2, <1>3, <1>4, SessionMove
  <1>7. left' \in [calls : Nat, troubles : Nat]
    BY <1>4 DEF ReqInv
  <1>8. ReqInv' /\ req'[c] = v /\ \A d \in Clients \ {c} : req'[d] = req[d]
    BY <1>6, <1>7, ReqSet
  <1>9. SessTyped'
    BY <1>1, <1>4, <1>5 DEF SessTyped
  <1>10. Owned'
    <2>1. \A t \in Sessions : (sess'[t].held <=> sess[t].held) /\ sess'[t].p = sess[t].p
      BY <1>5
    <2>2. sess[s].held
      BY <1>1, <1>3 DEF Owned
    <2> QED
      BY <1>1, <1>5, <2>1, <2>2 DEF Owned
  <1>11. /\ Asked(c)' /\ req'[c].at = "scraping" /\ req'[c].sid = s
         /\ \A d \in Clients \ {c} : Asked(d)' => Asked(d) /\ req'[d] = req[d]
    BY <1>6, <1>8, NoReqs DEF Asked
  <1>12. \A d \in Clients : Launching(d)' => Launching(d) /\ req'[d] = req[d] /\ req[d].sid # s
    <2>1. ASSUME NEW d \in Clients, Launching(d)' PROVE Launching(d) /\ req'[d] = req[d] /\ d # c
      BY <1>8, <1>11, <2>1 DEF Launching, Asked
    <2> QED
      BY <1>1, <1>2, <1>3, <2>1 DEF Launches
  <1>13. Launches'
    BY <1>1, <1>5, <1>11, <1>12 DEF Launches
  <1>14. Aside'
    BY <1>1, <1>4, <1>5, <1>11 DEF Aside, Awaited
  <1>15. ASSUME NEW t \in Sessions, sess'[t].st = "ready" PROVE Mapped(t)'
    <2>0. CASE t = s
      BY <1>3, <1>5, <1>11, <2>0 DEF Mapped
    <2>1. CASE t # s
      <3>1. sess'[t] = sess[t] /\ Mapped(t)
        BY <1>1, <1>5, <1>15, <2>1
      <3>2. CASE sess[t].p # None
        BY <1>4, <3>1, <3>2 DEF Mapped
      <3>3. CASE sess[t].p = None
        <4>1. \A d \in Clients : Asked(d) /\ req[d].at = "scraping" /\ req[d].sid = t
                                    => Asked(d)' /\ req'[d] = req[d]
          BY <1>2, <1>8 DEF Asked
        <4> QED
          BY <3>1, <3>3, <4>1, BareKept
      <3> QED
        BY <3>2, <3>3
    <2> QED
      BY <2>0, <2>1
  <1>16. DiskInv'
    BY <1>4, DiskUntouched
  <1> QED
    BY <1>8, <1>9, <1>10, <1>13, <1>14, <1>15, <1>16 DEF SessInv

\* A request awaits the stop of a session that the manager knows.
LEMMA WaitKeeps ==
  ASSUME ReqInv, SessInv, NEW c \in Clients, Asked(c), req[c].at \in {"begun", "scraping"},
         NEW s \in Sessions, sess[s].held, sess[s].st \in {"ready", "stopping"},
         req[c].at = "scraping" => req[c].sid = s, req[c].p = None <=> req[c].op \in Bare,
         req[c].op # "sandbox",
         Turns(s, "stopping"), Takes(c, "stopping", s) \/ (Desk!Moves(c, "stopping") /\ s = req[c].sid),
         UNCHANGED <<map, left, overlap>>
  PROVE  ReqInv' /\ SessInv'
  <1>1. SessTyped /\ Owned /\ Launches /\ Aside /\ \A t \in Sessions : sess[t].st = "ready" => Mapped(t)
    BY DEF SessInv
  <1>5. /\ sess' \in [Sessions -> SessRecs] /\ \A t \in Sessions \ {s} : sess'[t] = sess[t]
        /\ sess'[s].st = "stopping" /\ sess'[s].p = sess[s].p /\ (sess'[s].held <=> sess[s].held)
    BY <1>1, StateSet
  <1>6. PICK v \in Reqs : /\ req' = [req EXCEPT ![c] = v] /\ Placed(v)
                          /\ v.at = "stopping" /\ v.sid = s
    BY SessionMove
  <1>7. left' \in [calls : Nat, troubles : Nat]
    BY DEF ReqInv
  <1>8. ReqInv' /\ req'[c] = v /\ \A d \in Clients \ {c} : req'[d] = req[d]
    BY <1>6, <1>7, ReqSet
  <1>9. SessTyped'
    BY <1>1, <1>5 DEF SessTyped
  <1>10. Owned'
    <2>1. \A t \in Sessions : (sess'[t].held <=> sess[t].held) /\ sess'[t].p = sess[t].p
      BY <1>5
    <2> QED
      BY <1>1, <1>5, <2>1 DEF Owned
  <1>11. /\ req'[c].at = "stopping" /\ req'[c].sid = s
         /\ \A d \in Clients \ {c} : Asked(d)' => Asked(d) /\ req'[d] = req[d]
    BY <1>6, <1>8 DEF Asked
  <1>12. \A d \in Clients : Launching(d)' => Launching(d) /\ req'[d] = req[d] /\ req[d].sid # s
    <2>1. ASSUME NEW d \in Clients, Launching(d)' PROVE Launching(d) /\ req'[d] = req[d]
      BY <1>8, <1>11, <2>1 DEF Launching, Asked
    <2> QED
      BY <1>1, <2>1 DEF Launches
  <1>13. Launches'
    BY <1>1, <1>5, <1>11, <1>12 DEF Launches
  <1>14. Aside'
    <2>1. ASSUME NEW t \in Sessions, sess'[t].st = "stopped", ~sess'[t].held, Awaited(t)' PROVE overlap'
      <3>1. t # s /\ sess'[t] = sess[t]
        BY <1>5, <2>1
      <3>2. Awaited(t)
        BY <1>11, <2>1, <3>1 DEF Awaited
      <3> QED
        BY <1>1, <2>1, <3>1, <3>2 DEF Aside
    <2> QED
      BY <2>1 DEF Aside
  <1>15. ASSUME NEW t \in Sessions, sess'[t].st = "ready" PROVE Mapped(t)'
    <2>1. t # s /\ sess'[t] = sess[t] /\ Mapped(t)
      BY <1>1, <1>5, <1>15
    <2>2. CASE sess[t].p # None
      BY <2>1, <2>2 DEF Mapped
    <2>3. CASE sess[t].p = None
      <3>2. \A d \in Clients : Asked(d) /\ req[d].at = "scraping" /\ req[d].sid = t
                                  => Asked(d)' /\ req'[d] = req[d]
        BY <1>8, <2>1 DEF Asked
      <3> QED
        BY <2>1, <2>3, <3>2, BareKept
    <2> QED
      BY <2>2, <2>3
  <1> QED
    BY <1>8, <1>9, <1>10, <1>13, <1>14, <1>15 DEF SessInv

LEMMA ScrapeEndsKeeps ==
  ASSUME ReqInv, SessInv, DiskInv, NEW c \in Clients, Desk!ScrapeEnds(c)
  PROVE  ReqInv' /\ SessInv' /\ DiskInv'
  <1>1. SessTyped /\ Owned /\ Launches /\ Aside /\ \A t \in Sessions : sess[t].st = "ready" => Mapped(t)
    BY DEF SessInv
  <1>2. /\ Asked(c) /\ req[c].at = "scraping" /\ Placed(req[c])
        /\ UNCHANGED <<dir, trash, made, kept, removed, mistaken, map, left, overlap>>
    BY ReqKinds DEF Desk!ScrapeEnds, Desk!disk
  <1>3. PICK s \in Sessions : s = req[c].sid
    BY <1>1, <1>2 DEF Launches
  <1>4. DiskInv'
    BY <1>2, DiskUntouched
  <1>5. CASE Desk!Held(s) /\ sess[s].st \in {"ready", "stopping"}
    <2>1. Turns(s, "stopping") /\ Desk!Moves(c, "stopping") /\ sess[s].held
      BY <1>3, <1>5 DEF Desk!ScrapeEnds, Turns, Desk!Held
    <2>2. (req[c].p = None <=> req[c].op \in Bare) /\ req[c].op # "sandbox"
      BY <1>2 DEF Placed
    <2> QED
      BY <1>2, <1>3, <1>4, <1>5, <2>1, <2>2, WaitKeeps
  <1>6. CASE ~(Desk!Held(s) /\ sess[s].st \in {"ready", "stopping"})
    <2>1. UNCHANGED sess /\ req' = [req EXCEPT ![c] = Desk!NoReq]
      BY <1>3, <1>6 DEF Desk!ScrapeEnds, Desk!Answers
    <2>2. sess[s].st # "ready"
      BY <1>1, <1>6, DeskAssumption DEF Owned, Desk!Held
    <2>3. ReqInv' /\ req'[c] = Desk!NoReq /\ \A d \in Clients \ {c} : req'[d] = req[d]
      <3>1. PICK v : v = Desk!NoReq
        OBVIOUS
      <3>2. req' = [req EXCEPT ![c] = v]
        BY <2>1, <3>1
      <3>3. left' \in [calls : Nat, troubles : Nat]
        BY <1>2 DEF ReqInv
      <3> QED
        BY <3>1, <3>2, <3>3, ReqSet
    <2>4. \A d \in Clients : Asked(d)' => d # c /\ Asked(d) /\ req'[d] = req[d]
      BY <2>3 DEF Asked
    <2>5. \A d \in Clients : Launching(d)' => Launching(d) /\ req'[d] = req[d]
      BY <2>4 DEF Launching
    <2>6. SessTyped' /\ Owned'
      BY <1>1, <1>2, <2>1 DEF SessTyped, Owned
    <2>7. Launches'
      BY <1>1, <2>1, <2>4, <2>5 DEF Launches
    <2>8. Aside'
      BY <1>1, <1>2, <2>1, <2>4 DEF Aside, Awaited
    <2>9. ASSUME NEW t \in Sessions, sess'[t].st = "ready" PROVE Mapped(t)'
      <3>1. t # s /\ sess'[t] = sess[t] /\ Mapped(t)
        BY <1>1, <2>1, <2>2, <2>9
      <3>2. CASE sess[t].p # None
        BY <1>2, <3>1, <3>2 DEF Mapped
      <3>3. CASE sess[t].p = None
        <4>2. \A d \in Clients : Asked(d) /\ req[d].at = "scraping" /\ req[d].sid = t
                                    => Asked(d)' /\ req'[d] = req[d]
          BY <1>3, <2>3, <3>1 DEF Asked
        <4> QED
          BY <3>1, <3>3, <4>2, BareKept
      <3> QED
        BY <3>2, <3>3
    <2> QED
      BY <1>4, <2>3, <2>6, <2>7, <2>8, <2>9 DEF SessInv
  <1> QED
    BY <1>5, <1>6

LEMMA StopsKeeps ==
  ASSUME ReqInv, SessInv, DiskInv, NEW c \in Clients, Desk!Stops(c)
  PROVE  ReqInv' /\ SessInv' /\ DiskInv'
  <1>1. SessTyped
    BY DEF SessInv
  <1>2. /\ Asked(c) /\ req[c].at = "begun" /\ req[c].op \in {"stop", "delete"} /\ req[c].p \in Profiles
        /\ UNCHANGED <<dir, trash, made, kept, removed, mistaken, map, left, overlap>>
    BY ReqKinds DEF Desk!Stops, Desk!disk
  <1>3. PICK s \in Sessions : s = map[req[c].p] /\ sess[s].held /\ sess[s].st \in {"ready", "stopping"}
    BY <1>1, <1>2 DEF SessTyped, Desk!Stops, Desk!Held
  <1>4. Turns(s, "stopping") /\ Takes(c, "stopping", s)
    BY <1>3 DEF Desk!Stops, Turns, Takes
  <1>5. (req[c].p = None <=> req[c].op \in Bare) /\ req[c].op # "sandbox"
    BY <1>2, DeskAssumption DEF Bare
  <1>6. DiskInv'
    BY <1>2, DiskUntouched
  <1> QED
    BY <1>2, <1>3, <1>4, <1>5, <1>6, WaitKeeps

\* Who awaited a stop is done, or goes on to delete.
LEMMA ResumedPlain ==
  ASSUME NEW r \in Reqs, Placed(r), r.at \in {"begun", "stopping"}, ~(r.at = "begun" /\ r.op = "import")
  PROVE  Plain(Desk!Resumed(r))
  <1>1. CASE r.op \in {"stop", "scrape"}
    BY <1>1 DEF Desk!Resumed, Plain
  <1>2. CASE r.op \notin {"stop", "scrape"}
    <2>1. PICK v : v = [r EXCEPT !.at = "deleting"]
      OBVIOUS
    <2>2. v \in Reqs /\ v.at = "deleting" /\ v.op = r.op /\ v.p = r.p
      BY <2>1 DEF Reqs
    <2>3. Placed(v)
      BY <1>2, <2>2 DEF Placed, Bare
    <2> QED
      BY <1>2, <2>1, <2>2, <2>3 DEF Desk!Resumed, Plain
  <1> QED
    BY <1>1, <1>2

Releases(s) == sess' = [sess EXCEPT ![s].held = FALSE]

LEMMA SessionReleased ==
  ASSUME SessTyped, NEW s \in Sessions, Releases(s)
  PROVE  /\ sess' \in [Sessions -> SessRecs] /\ \A t \in Sessions \ {s} : sess'[t] = sess[t]
         /\ sess'[s].st = sess[s].st /\ sess'[s].p = sess[s].p /\ ~sess'[s].held
  <1>1. PICK e \in SessRecs : e = sess[s]
    BY DEF SessTyped
  <1>2. PICK n \in SessRecs : n = [e EXCEPT !.held = FALSE] /\ n.st = e.st /\ n.p = e.p /\ n.held = FALSE
    <2>1. /\ [e EXCEPT !.held = FALSE] \in SessRecs /\ [e EXCEPT !.held = FALSE].st = e.st
          /\ [e EXCEPT !.held = FALSE].p = e.p /\ [e EXCEPT !.held = FALSE].held = FALSE
      BY DEF SessRecs
    <2> QED
      BY <2>1
  <1>3. sess' = [sess EXCEPT ![s] = n]
    BY <1>1, <1>2 DEF Releases
  <1>4. sess'[s] = n /\ sess' \in [Sessions -> SessRecs] /\ \A t \in Sessions \ {s} : sess'[t] = sess[t]
    BY <1>3 DEF SessTyped
  <1> QED
    BY <1>1, <1>2, <1>4

\* A stop that is answered at once: the map forgets the profile, and the session that has
\* stopped leaves the manager.
LEMMA StopsAtOnceKeeps ==
  ASSUME ReqInv, SessInv, DiskInv, NEW c \in Clients, Desk!StopsAtOnce(c)
  PROVE  ReqInv' /\ SessInv' /\ DiskInv'
  <1>1. SessTyped /\ Owned /\ Launches /\ Aside /\ \A t \in Sessions : sess[t].st = "ready" => Mapped(t)
    BY DEF SessInv
  <1>2. /\ Asked(c) /\ req[c].at = "begun" /\ req[c].op \in {"stop", "delete"} /\ req[c].p \in Profiles
        /\ req[c] \in Reqs /\ Placed(req[c])
        /\ UNCHANGED <<dir, trash, made, kept, removed, mistaken, left>>
    BY ReqKinds DEF Desk!StopsAtOnce, Desk!disk
  <1>3. PICK p \in Profiles, s \in Sessions \cup {None} : p = req[c].p /\ s = map[p]
    BY <1>1, <1>2 DEF SessTyped
  <1>4. /\ Desk!Held(s) => sess[s].st = "stopped"
        /\ Desk!Held(s) => Releases(s)
        /\ ~Desk!Held(s) => UNCHANGED sess
        /\ overlap => overlap'
        /\ s # None /\ Desk!Waiting(s) # {} => overlap'
    BY <1>3 DEF Desk!StopsAtOnce, Releases
  <1>5. /\ map' \in [Profiles -> Sessions \cup {None}] /\ \A q \in Profiles \ {p} : map'[q] = map[q]
    <2>1. map' = [map EXCEPT ![p] = None]
      BY <1>3 DEF Desk!StopsAtOnce
    <2> QED
      BY <1>1, <2>1 DEF SessTyped
  <1>6. PICK v : req' = [req EXCEPT ![c] = v] /\ Plain(v)
    <2>1. PICK r \in Reqs : r = req[c] /\ Placed(r) /\ r.at = "begun" /\ r.op # "import"
      BY <1>2
    <2>2. Plain(Desk!Resumed(r))
      BY <2>1, ResumedPlain
    <2>3. req' = [req EXCEPT ![c] = Desk!Resumed(r)]
      BY <2>1 DEF Desk!StopsAtOnce
    <2> QED
      BY <2>2, <2>3
  <1>7. left' \in [calls : Nat, troubles : Nat]
    BY <1>2 DEF ReqInv
  <1>8. DiskInv'
    BY <1>2, DiskUntouched
  <1>9. ASSUME NEW t \in Sessions, sess[t].st = "ready", sess[t].p # None, map[sess[t].p] = t
        PROVE  t # s /\ map'[sess[t].p] = t
    <2>1. sess[t].held /\ t # None /\ sess[t].p \in Profiles
      BY <1>1, <1>9, DeskAssumption DEF Owned, SessTyped, SessRecs
    <2>2. t # s
      BY <1>4, <1>9, <2>1 DEF Desk!Held
    <2> QED
      BY <1>3, <1>5, <1>9, <2>1, <2>2
  <1>10. CASE ~Desk!Held(s)
    BY <1>2, <1>4, <1>5, <1>6, <1>7, <1>8, <1>9, <1>10, ReqMaps
  <1>11. CASE Desk!Held(s)
    <2>1. s \in Sessions /\ sess[s].st = "stopped" /\ Releases(s)
      BY <1>3, <1>4, <1>11 DEF Desk!Held
    <2>2. /\ sess' \in [Sessions -> SessRecs] /\ \A t \in Sessions \ {s} : sess'[t] = sess[t]
          /\ sess'[s].st = "stopped" /\ sess'[s].p = sess[s].p /\ ~sess'[s].held
      BY <1>1, <2>1, SessionReleased
    <2>3. ReqInv' /\ req'[c] = v /\ \A d \in Clients \ {c} : req'[d] = req[d]
      BY <1>6, <1>7, ReqSet DEF Plain
    <2>4. /\ Asked(c)' => req'[c].at \notin {"launching", "scraping", "stopping"}
          /\ \A d \in Clients \ {c} : Asked(d)' => Asked(d) /\ req'[d] = req[d]
      BY <1>6, <2>3 DEF Asked, Plain
    <2>5. SessTyped'
      BY <1>5, <2>2 DEF SessTyped
    <2>6. Owned'
      BY <1>1, <2>1, <2>2 DEF Owned
    <2>7. \A d \in Clients : Launching(d)' => Launching(d) /\ req'[d] = req[d] /\ req[d].sid # s
      <3>1. ASSUME NEW d \in Clients, Launching(d)' PROVE Launching(d) /\ req'[d] = req[d]
        BY <2>4, <3>1 DEF Launching, Asked
      <3> QED
        BY <1>1, <2>1, <3>1 DEF Launches
    <2>8. Launches'
      BY <1>1, <2>2, <2>4, <2>7 DEF Launches
    <2>9. ASSUME NEW t \in Sessions, sess'[t].st = "stopped", ~sess'[t].held, Awaited(t)' PROVE overlap'
      <3>1. PICK d \in Clients : Asked(d)' /\ req'[d].at = "stopping" /\ req'[d].sid = t
        BY <2>9 DEF Awaited
      <3>2. Asked(d) /\ req[d].at = "stopping" /\ req[d].sid = t
        BY <2>4, <3>1
      <3>3. CASE t = s
        <4>1. d \in Desk!Waiting(s)
          BY <3>2, <3>3, ReqKinds DEF Desk!Waiting
        <4>2. s # None
          BY <2>1, DeskAssumption
        <4> QED
          BY <1>4, <4>1, <4>2
      <3>4. CASE t # s
        BY <1>1, <1>4, <2>2, <2>9, <3>2, <3>4 DEF Aside, Awaited
      <3> QED
        BY <3>3, <3>4
    <2>10. ASSUME NEW t \in Sessions, sess'[t].st = "ready" PROVE Mapped(t)'
      <3>1. t # s /\ sess'[t] = sess[t] /\ Mapped(t)
        BY <1>1, <2>2, <2>10
      <3>2. CASE sess[t].p # None
        BY <1>4, <1>9, <2>10, <3>1, <3>2 DEF Mapped
      <3>3. CASE sess[t].p = None
        <4>2. \A d \in Clients : Asked(d) /\ req[d].at = "scraping" /\ req[d].sid = t
                                    => Asked(d)' /\ req'[d] = req[d]
          BY <1>2, <2>3 DEF Asked
        <4> QED
          BY <3>1, <3>3, <4>2, BareKept
      <3> QED
        BY <3>2, <3>3
    <2>11. Aside'
      BY <2>9 DEF Aside
    <2> QED
      BY <1>8, <2>3, <2>5, <2>6, <2>8, <2>10, <2>11 DEF SessInv
  <1> QED
    BY <1>10, <1>11

\* A session that runs stops, in steps; no request moves.
LEMMA TurnKeeps ==
  ASSUME ReqInv, SessInv, NEW s \in Sessions, sess[s].st \in {"ready", "stopping"},
         NEW w \in {"stopping", "stopped"}, Turns(s, w), left' \in [calls : Nat, troubles : Nat],
         UNCHANGED <<map, req, overlap>>
  PROVE  ReqInv' /\ SessInv'
  <1>1. SessTyped /\ Owned /\ Launches /\ Aside /\ \A t \in Sessions : sess[t].st = "ready" => Mapped(t)
    BY DEF SessInv
  <1>2. /\ sess' \in [Sessions -> SessRecs] /\ \A t \in Sessions \ {s} : sess'[t] = sess[t]
        /\ sess'[s].st = w /\ sess'[s].p = sess[s].p /\ (sess'[s].held <=> sess[s].held)
    BY <1>1, StateSet
  <1>3. ReqInv'
    BY DEF ReqInv, Asked
  <1>4. SessTyped'
    BY <1>1, <1>2 DEF SessTyped
  <1>5. sess[s].held
    BY <1>1 DEF Owned
  <1>6. Owned'
    <2>1. \A t \in Sessions : (sess'[t].held <=> sess[t].held) /\ sess'[t].p = sess[t].p
      BY <1>2
    <2> QED
      BY <1>1, <1>2, <1>5, <2>1 DEF Owned
  <1>7. Launches'
    <2>1. \A d \in Clients : Launching(d) => req[d].sid # s
      BY <1>1 DEF Launches
    <2> QED
      BY <1>1, <1>2, <2>1 DEF Launches, Launching, Asked
  <1>8. Aside'
    BY <1>1, <1>2, <1>5 DEF Aside, Awaited, Asked
  <1>9. ASSUME NEW t \in Sessions, sess'[t].st = "ready" PROVE Mapped(t)'
    <2>1. t # s /\ sess'[t] = sess[t] /\ Mapped(t)
      BY <1>1, <1>2, <1>9
    <2> QED
      BY <2>1 DEF Mapped, Asked
  <1> QED
    BY <1>3, <1>4, <1>6, <1>7, <1>8, <1>9 DEF SessInv

LEMMA SessionStopsKeeps ==
  ASSUME ReqInv, SessInv, DiskInv, NEW s \in Sessions, Desk!SessionStops(s)
  PROVE  ReqInv' /\ SessInv' /\ DiskInv'
  <1>1. SessTyped /\ left \in [calls : Nat, troubles : Nat]
    BY DEF SessInv, ReqInv
  <1>2. /\ sess[s].st = "stopping" /\ Turns(s, "stopped") /\ UNCHANGED <<trash, kept, removed, mistaken, map, req, left, overlap>>
        /\ IF sess[s].p # None THEN Desk!WriteFile(sess[s].p, "cookies") ELSE UNCHANGED <<dir, made>>
    BY DEF Desk!SessionStops, Turns
  <1>3. DiskInv'
    <2>1. CASE sess[s].p # None
      <3>1. sess[s].p \in Profiles
        BY <1>1, <2>1 DEF SessTyped, SessRecs
      <3> QED
        BY <1>2, <2>1, <3>1, FileWritten DEF Files
    <2>2. CASE sess[s].p = None
      BY <1>2, <2>2, DiskUntouched
    <2> QED
      BY <2>1, <2>2
  <1> QED
    BY <1>1, <1>2, <1>3, TurnKeeps

LEMMA ExpiresKeeps ==
  ASSUME ReqInv, SessInv, DiskInv, NEW s \in Sessions, Desk!Expires(s)
  PROVE  ReqInv' /\ SessInv' /\ DiskInv'
  <1>1. /\ sess[s].st = "ready" /\ Turns(s, "stopping")
        /\ UNCHANGED <<dir, trash, made, kept, removed, mistaken, map, req, overlap>>
    BY DEF Desk!Expires, Desk!disk, Turns
  <1>2. left' \in [calls : Nat, troubles : Nat]
    BY DEF ReqInv, Desk!Expires, Desk!DrawsOn
  <1>3. DiskInv'
    BY <1>1, DiskUntouched
  <1> QED
    BY <1>1, <1>2, <1>3, TurnKeeps

\* The stop of a session is over: all who awaited it go on.
LEMMA StopResolvesKeeps ==
  ASSUME ReqInv, SessInv, DiskInv, NEW s \in Sessions, Desk!StopResolves(s)
  PROVE  ReqInv' /\ SessInv' /\ DiskInv'
  <1>1. SessTyped /\ Owned /\ Launches /\ Aside /\ \A t \in Sessions : sess[t].st = "ready" => Mapped(t)
    BY DEF SessInv
  <1>2. /\ sess[s].st = "stopped" /\ Ends(s)
        /\ UNCHANGED <<dir, trash, made, kept, removed, mistaken, left, overlap>>
    BY DEF Desk!StopResolves, Desk!disk, Ends
  <1>3. /\ sess' \in [Sessions -> SessRecs] /\ \A t \in Sessions \ {s} : sess'[t] = sess[t]
        /\ sess'[s].st = "gone" /\ ~sess'[s].held
    BY <1>1, <1>2, SessionGone
  <1>4. \A c \in Clients : req'[c] = IF c \in Desk!Waiting(s) THEN Desk!Resumed(req[c]) ELSE req[c]
    BY DEF Desk!StopResolves
  <1>5. \A c \in Desk!Waiting(s) : c \in Clients /\ Asked(c) /\ req[c].at = "stopping" /\ req[c].sid = s
    BY ReqKinds DEF Desk!Waiting
  <1>6. \A c \in Clients : Asked(c) /\ req[c].at = "stopping" /\ req[c].sid = s => c \in Desk!Waiting(s)
    BY ReqKinds DEF Desk!Waiting
  <1>7. \A c \in Desk!Waiting(s) : Plain(req'[c])
    <2>1. ASSUME NEW c \in Desk!Waiting(s) PROVE Plain(req'[c])
      <3>1. PICK r \in Reqs : r = req[c] /\ Placed(r) /\ r.at = "stopping"
        <4>1. c \in Clients /\ Asked(c) /\ req[c].at = "stopping"
          BY <1>5
        <4> QED
          BY <4>1, ReqKinds
      <3>2. req'[c] = Desk!Resumed(r)
        BY <1>4, <1>5, <3>1
      <3> QED
        BY <3>1, <3>2, ResumedPlain
    <2> QED
      BY <2>1
  <1>8. \A c \in Clients : c \notin Desk!Waiting(s) => req'[c] = req[c]
    BY <1>4
  <1>9. ReqInv'
    <2>1. req' \in [Clients -> {Desk!NoReq} \cup Reqs]
      <3>1. \A c \in Clients : req'[c] \in {Desk!NoReq} \cup Reqs
        <4>1. \A c \in Clients : req[c] \in {Desk!NoReq} \cup Reqs
          BY DEF ReqInv
        <4> QED
          BY <1>7, <1>8, <4>1 DEF Plain
      <3>2. req' = [c \in Clients |-> req'[c]]
        BY DEF Desk!StopResolves
      <3> QED
        BY <3>1, <3>2
    <2>2. \A c \in Clients : Asked(c)' => Placed(req'[c])
      BY <1>7, <1>8 DEF Plain, Asked, ReqInv
    <2>3. left' \in [calls : Nat, troubles : Nat]
      BY <1>2 DEF ReqInv
    <2> QED
      BY <2>1, <2>2, <2>3 DEF ReqInv
  <1>10. /\ \A c \in Desk!Waiting(s) : Asked(c)' => req'[c].at \notin {"launching", "scraping", "stopping"}
         /\ \A c \in Clients : c \notin Desk!Waiting(s) /\ Asked(c)' => Asked(c) /\ req'[c] = req[c]
    BY <1>7, <1>8 DEF Plain, Asked
  <1>11. /\ map' \in [Profiles -> Sessions \cup {None}]
         /\ \A q \in Profiles : map'[q] = map[q] \/ (q = sess[s].p /\ Desk!Waiting(s) # {})
    <2>1. map' = IF Desk!Waiting(s) = {} \/ sess[s].p = None THEN map ELSE [map EXCEPT ![sess[s].p] = None]
      BY DEF Desk!StopResolves
    <2>2. PICK p : p = sess[s].p
      OBVIOUS
    <2> QED
      BY <1>1, <2>1, <2>2 DEF SessTyped
  <1>12. SessTyped'
    BY <1>3, <1>11 DEF SessTyped
  <1>13. Owned'
    BY <1>1, <1>3 DEF Owned
  <1>14. \A d \in Clients : Launching(d)' => Launching(d) /\ req'[d] = req[d] /\ req[d].sid # s
    <2>1. ASSUME NEW d \in Clients, Launching(d)' PROVE Launching(d) /\ req'[d] = req[d]
      BY <1>10, <2>1 DEF Launching, Asked
    <2> QED
      BY <1>1, <1>2, <2>1 DEF Launches
  <1>15. \A d \in Clients : Asked(d)' /\ req'[d].at \in {"scraping", "stopping"} => Asked(d) /\ req'[d] = req[d]
    BY <1>10
  <1>16. Launches'
    BY <1>1, <1>3, <1>14, <1>15 DEF Launches
  <1>17. Aside'
    <2>1. ASSUME NEW t \in Sessions, sess'[t].st = "stopped", ~sess'[t].held, Awaited(t)' PROVE overlap'
      <3>1. t # s /\ sess'[t] = sess[t]
        BY <1>3, <2>1
      <3>2. Awaited(t)
        BY <1>15, <2>1 DEF Awaited
      <3> QED
        BY <1>1, <1>2, <2>1, <3>1, <3>2 DEF Aside
    <2> QED
      BY <2>1 DEF Aside
  <1>18. ASSUME NEW t \in Sessions, sess'[t].st = "ready" PROVE Mapped(t)'
    <2>1. t # s /\ sess'[t] = sess[t] /\ Mapped(t) /\ sess[t].held
      BY <1>1, <1>3, <1>18 DEF Owned
    <2>2. CASE sess[t].p # None
      <3>1. sess[t].p \in Profiles
        BY <1>1, <2>2 DEF SessTyped, SessRecs
      <3>2. CASE map'[sess[t].p] = map[sess[t].p]
        BY <1>2, <2>1, <2>2, <3>2 DEF Mapped
      <3>3. CASE sess[t].p = sess[s].p /\ Desk!Waiting(s) # {}
        <4>1. ~sess[s].held
          BY <1>1, <2>1, <2>2, <3>3 DEF Owned
        <4>2. Awaited(s)
          BY <1>5, <3>3 DEF Awaited
        <4>3. overlap'
          BY <1>1, <1>2, <4>1, <4>2 DEF Aside
        <4> QED
          BY <2>1, <2>2, <4>3 DEF Mapped
      <3> QED
        BY <1>11, <3>1, <3>2, <3>3
    <2>3. CASE sess[t].p = None
      <3>1. \A d \in Clients : Asked(d) /\ req[d].at = "scraping" /\ req[d].sid = t
                                  => Asked(d)' /\ req'[d] = req[d]
        BY <1>5, <1>8 DEF Asked
      <3> QED
        BY <2>1, <2>3, <3>1, BareKept
    <2> QED
      BY <2>2, <2>3
  <1>19. DiskInv'
    BY <1>2, DiskUntouched
  <1> QED
    BY <1>9, <1>12, <1>13, <1>16, <1>17, <1>18, <1>19 DEF SessInv

LEMMA ListSessionsKeeps ==
  ASSUME ReqInv, SessInv, DiskInv, Desk!ListSessions
  PROVE  ReqInv' /\ SessInv' /\ DiskInv'
  <1>1. SessTyped /\ Owned /\ Launches /\ Aside /\ \A t \in Sessions : sess[t].st = "ready" => Mapped(t)
    BY DEF SessInv
  <1>2. UNCHANGED <<dir, trash, made, kept, removed, mistaken, sess, req, left, overlap>>
    BY DEF Desk!ListSessions, Desk!disk
  <1>3. /\ map' \in [Profiles -> Sessions \cup {None}]
        /\ \A q \in Profiles : Desk!Held(map[q]) => map'[q] = map[q]
    BY <1>1 DEF Desk!ListSessions, SessTyped
  <1>4. ReqInv'
    BY <1>2 DEF ReqInv, Asked
  <1>5. SessTyped' /\ Owned'
    BY <1>1, <1>2, <1>3 DEF SessTyped, Owned
  <1>6. Launches' /\ Aside'
    BY <1>1, <1>2 DEF Launches, Launching, Aside, Awaited, Asked
  <1>7. ASSUME NEW t \in Sessions, sess'[t].st = "ready" PROVE Mapped(t)'
    <2>1. sess'[t] = sess[t] /\ Mapped(t) /\ sess[t].held
      BY <1>1, <1>2, <1>7 DEF Owned
    <2>2. CASE sess[t].p = None
      <3>1. \A d \in Clients : Asked(d) => Asked(d)' /\ req'[d] = req[d]
        BY <1>2 DEF Asked
      <3> QED
        BY <2>1, <2>2, <3>1, BareKept
    <2>3. CASE sess[t].p # None
      <3>1. sess[t].p \in Profiles
        BY <1>1, <2>3 DEF SessTyped, SessRecs
      <3>2. map[sess[t].p] = t => map'[sess[t].p] = t
        BY <1>3, <2>1, <3>1, DeskAssumption DEF Desk!Held
      <3> QED
        BY <1>2, <2>1, <2>3, <3>2 DEF Mapped
    <2> QED
      BY <2>2, <2>3
  <1>8. DiskInv'
    BY <1>2, DiskUntouched
  <1> QED
    BY <1>4, <1>5, <1>6, <1>7, <1>8 DEF SessInv

\* At the beginning, and after a crash, there is no request and no session.
LEMMA DeskFresh ==
  ASSUME left \in [calls : Nat, troubles : Nat], req = [c \in Clients |-> Desk!NoReq],
         sess = [s \in Sessions |-> Desk!NoSession], map = [p \in Profiles |-> None]
  PROVE  ReqInv /\ SessInv
  <1>1. \A c \in Clients : ~Asked(c)
    BY DEF Asked
  <1>2. ReqInv
    BY <1>1 DEF ReqInv
  <1>3. /\ Desk!NoSession \in SessRecs /\ Desk!NoSession.st = "none" /\ Desk!NoSession.p = None
        /\ Desk!NoSession.held = FALSE
    BY DEF Desk!NoSession, SessRecs
  <1>4. SessTyped
    BY <1>3 DEF SessTyped
  <1>5. Owned
    BY <1>3 DEF Owned
  <1>6. Launches /\ Aside
    BY <1>1 DEF Launches, Launching, Aside, Awaited
  <1>7. \A s \in Sessions : sess[s].st # "ready"
    BY <1>3
  <1> QED
    BY <1>2, <1>4, <1>5, <1>6, <1>7 DEF SessInv

LEMMA DeskCrashKeeps ==
  ASSUME ReqInv, SessInv, DiskInv, Desk!DeskCrash
  PROVE  ReqInv' /\ SessInv' /\ DiskInv'
  <1>1. left' \in [calls : Nat, troubles : Nat]
    BY DEF Desk!DeskCrash, Desk!DrawsOn, ReqInv
  <1>2. /\ req' = [c \in Clients |-> Desk!NoReq] /\ sess' = [s \in Sessions |-> Desk!NoSession]
        /\ map' = [p \in Profiles |-> None] /\ UNCHANGED <<dir, trash, made, kept, removed, mistaken>>
    BY DEF Desk!DeskCrash, Desk!disk
  <1>3. \A c \in Clients : ~Asked(c)'
    BY <1>2 DEF Asked
  <1>4. ReqInv'
    BY <1>1, <1>2, <1>3 DEF ReqInv
  <1>5. /\ Desk!NoSession \in SessRecs /\ Desk!NoSession.st = "none" /\ Desk!NoSession.p = None
        /\ Desk!NoSession.held = FALSE
    BY DEF Desk!NoSession, SessRecs
  <1>6. SessTyped'
    BY <1>2, <1>5 DEF SessTyped
  <1>7. Owned'
    BY <1>2, <1>5 DEF Owned
  <1>8. Launches' /\ Aside'
    BY <1>3 DEF Launches, Launching, Aside, Awaited, Asked
  <1>9. \A s \in Sessions : sess'[s].st # "ready"
    BY <1>2, <1>5
  <1>10. DiskInv'
    BY <1>2, DiskUntouched
  <1> QED
    BY <1>4, <1>6, <1>7, <1>8, <1>9, <1>10 DEF SessInv

LEMMA DeskInitially ==
  ASSUME Desk!DeskInit
  PROVE  DiskInv /\ ReqInv /\ SessInv
  <1>1. ReqInv /\ SessInv
    <2>1. [calls |-> MaxCalls, troubles |-> MaxTroubles] \in [calls : Nat, troubles : Nat]
      BY DeskAssumption
    <2> QED
      BY <2>1, DeskFresh DEF Desk!DeskInit
  <1>2. PICK d \in Dirs : /\ d = [life |-> 1, names |-> First, files |-> {"meta"}]
                          /\ d.life = 1 /\ d.files = {"meta"}
    <2>1. PICK fs \in SUBSET Files, p \in Profiles : fs = {"meta"} /\ p = First
      BY DeskAssumption DEF Files
    <2>2. /\ [life |-> 1, names |-> p, files |-> fs] \in Dirs
          /\ [life |-> 1, names |-> p, files |-> fs].life = 1
          /\ [life |-> 1, names |-> p, files |-> fs].files = fs
      BY DEF Dirs
    <2> QED
      BY <2>1, <2>2
  <1>3. PICK t \in Entries : /\ t = [id |-> First, n |-> 0, life |-> 1, names |-> First, files |-> {"meta"}]
                             /\ t.life = 1 /\ t.files = {"meta"}
    <2>1. PICK fs \in SUBSET Files, p \in Profiles : fs = {"meta"} /\ p = First
      BY DeskAssumption DEF Files
    <2>2. /\ [id |-> p, n |-> 0, life |-> 1, names |-> p, files |-> fs] \in Entries
          /\ [id |-> p, n |-> 0, life |-> 1, names |-> p, files |-> fs].life = 1
          /\ [id |-> p, n |-> 0, life |-> 1, names |-> p, files |-> fs].files = fs
      BY DEF Entries
    <2> QED
      BY <2>1, <2>2
  <1>4. made \in {0, 1} /\ kept = 1 .. made /\ Claimed = kept /\ d # None
    BY NotNone DEF Desk!DeskInit, Claimed
  <1>5. CASE dir = [p \in Profiles |-> IF made = 1 /\ p = First THEN d ELSE None] /\ trash = {}
    <2>1. DiskTyped
      BY <1>4, <1>5 DEF DiskTyped
    <2>2. \A p \in Profiles : dir[p] # None => p = First /\ made = 1 /\ dir[p] = d
      BY <1>5
    <2>3. Lives /\ Unlike
      BY <1>2, <1>4, <1>5, <2>2 DEF Lives, Unlike
    <2>4. ASSUME NEW l \in kept PROVE There(l)
      <3>1. l = 1 /\ made = 1
        BY <1>4, <2>4
      <3>2. dir[First] = d /\ First \in Profiles
        BY <1>5, <3>1, DeskAssumption
      <3> QED
        BY <1>2, <1>4, <3>1, <3>2 DEF There
    <2> QED
      BY <1>1, <1>4, <2>1, <2>3, <2>4 DEF DiskInv
  <1>6. CASE dir = [p \in Profiles |-> None] /\ made = 1 /\ trash = {t}
    <2>1. DiskTyped
      BY <1>4, <1>6 DEF DiskTyped
    <2>2. Lives /\ Unlike
      BY <1>3, <1>4, <1>6 DEF Lives, Unlike
    <2>3. ASSUME NEW l \in kept PROVE There(l)
      BY <1>3, <1>4, <1>6, <2>3 DEF There
    <2> QED
      BY <1>1, <1>4, <2>1, <2>2, <2>3 DEF DiskInv
  <1> QED
    BY <1>1, <1>2, <1>3, <1>5, <1>6 DEF Desk!DeskInit

\* Every step of the desk keeps the three invariants.
LEMMA DeskSteps ==
  ASSUME ReqInv, SessInv, DiskInv, Desk!DeskNext
  PROVE  ReqInv' /\ SessInv' /\ DiskInv'
  <1>1. ASSUME NEW c \in Clients,
               \/ Desk!CloneReads(c) \/ Desk!CloneRefuses(c) \/ Desk!CreateChecks(c) \/ Desk!CreateRefuses(c)
               \/ Desk!UpdateReads(c) \/ Desk!UpdateRefuses(c) \/ Desk!CookiesRead(c) \/ Desk!CookiesRefuse(c)
               \/ Desk!DeleteChecks(c) \/ Desk!DeleteRefuses(c) \/ Desk!RestoreChecks(c) \/ Desk!RestoreRefuses(c)
               \/ Desk!RestorePicks(c) \/ Desk!PurgeLists(c) \/ Desk!PurgeEnds(c)
               \/ Desk!ImportPicks(c) \/ Desk!NoFreeId(c) \/ Desk!ImportCreates(c) \/ Desk!ImportRefuses(c)
               \/ Desk!StartReads(c) \/ Desk!StartRefuses(c)
               \/ Desk!WriteFails(c) \/ Desk!CopyFails(c)
        PROVE  ReqInv' /\ SessInv' /\ DiskInv'
    <2>1. /\ Asked(c) /\ req[c].at # "scraping"
          /\ \E v : req' = [req EXCEPT ![c] = v] /\ Plain(v)
          /\ UNCHANGED <<dir, trash, made, kept, removed, mistaken, sess, map, overlap>>
          /\ left' \in [calls : Nat, troubles : Nat]
      BY <1>1, RequestLooks
    <2> QED
      BY <2>1, ReqChanges, DiskUntouched
  <1>2. ASSUME NEW c \in Clients,
               \/ Desk!CreateMakes(c) \/ Desk!WritesMetadata(c) \/ Desk!CookiesWritten(c) \/ Desk!Discards(c)
               \/ Desk!Restores(c) \/ Desk!Purges(c) \/ Desk!CopyEnds(c) \/ Desk!Undoes(c)
        PROVE  ReqInv' /\ SessInv' /\ DiskInv'
    <2>1. /\ Asked(c) /\ req[c].at # "scraping"
          /\ \E v : req' = [req EXCEPT ![c] = v] /\ Plain(v)
          /\ UNCHANGED <<sess, map, overlap, left>> /\ DiskInv'
      BY <1>2, RequestWrites
    <2>2. left' \in [calls : Nat, troubles : Nat]
      BY <2>1 DEF ReqInv
    <2> QED
      BY <2>1, <2>2, ReqChanges
  <1>3. ASSUME NEW c \in Clients, Desk!RequestStep(c)
        PROVE  ReqInv' /\ SessInv' /\ DiskInv'
    BY <1>1, <1>2, <1>3, StartChecksKeeps, LaunchingKeeps, StartEndsKeeps, BrowserStartsKeeps,
       ScrapeStartsKeeps, ScrapeEndsKeeps, StopsKeeps, StopsAtOnceKeeps DEF Desk!RequestStep
  <1>4. ASSUME NEW s \in Sessions, Desk!SessionStep(s)
        PROVE  ReqInv' /\ SessInv' /\ DiskInv'
    BY <1>4, SessionStopsKeeps, StopResolvesKeeps DEF Desk!SessionStep
  <1>5. CASE Desk!DeskProgress
    BY <1>3, <1>4, <1>5 DEF Desk!DeskProgress
  <1>6. CASE \E c \in Clients : Desk!WriteFails(c) \/ Desk!CopyFails(c) \/ Desk!StartFails(c)
    BY <1>1, <1>6, StartFailsKeeps
  <1>7. CASE \E p \in Profiles :
               \/ Desk!PostProfile(p) \/ Desk!PostClone(p) \/ Desk!PutProfile(p)
               \/ Desk!PostCookies(p) \/ Desk!RestoreRoute(p) \/ Desk!PurgeRoute(p)
               \/ Desk!StartRoute(p) \/ Desk!StopRoute(p)
               \/ Desk!DeleteRoute(p) \/ Desk!BatchDelete(p) \/ Desk!BatchStart(p)
    BY <1>7, Arriving
  <1>8. CASE Desk!ImportLocal \/ Desk!Scrape \/ Desk!BrowserStart
    BY <1>8, ArrivingAlone
  <1>9. CASE \E s \in Sessions : Desk!Expires(s)
    BY <1>9, ExpiresKeeps
  <1>10. CASE Desk!ListSessions \/ Desk!DeskCrash
    BY <1>10, ListSessionsKeeps, DeskCrashKeeps
  <1> QED
    BY <1>5, <1>6, <1>7, <1>8, <1>9, <1>10 DEF Desk!DeskNext

\* A session that is ready is named by the map, or its scrape is at work, or it is one of
\* POST /browser/start.
LEMMA SessionsAreSound ==
  ASSUME ReqInv, SessInv
  PROVE  Desk!LiveIsMapped
  <1>1. ASSUME NEW s \in Sessions, sess[s].st = "ready", sess[s].p = None
        PROVE  sess[s].by = "sandbox" \/ \E c \in Clients : Desk!At(c, "scraping") /\ req[c].sid = s
    BY <1>1, ReqKinds DEF SessInv, Mapped
  <1>2. ASSUME NEW s \in Sessions, sess[s].st = "ready", sess[s].p # None
        PROVE  overlap \/ map[sess[s].p] = s
    BY <1>2 DEF SessInv, Mapped
  <1> QED
    BY <1>1, <1>2 DEF Desk!LiveIsMapped

-----------------------------------------------------------------------------
(* A step of one part leaves the others alone.                                       *)

LEMMA StoresKept ==
  ASSUME StoresInv, UNCHANGED recordVars
  PROVE  StoresInv'
  <1>1. UNCHANGED <<file, bak, tmp, store, up, loaded, records, writeTail, call, dirs, drawn, promised,
                    early, launched>>
    BY DEF recordVars
  <1>2. /\ StoresTyped /\ FilesFit /\ Phases /\ Chained /\ Undrawn /\ Packages /\ Settled
    BY DEF StoresInv
  <1>3. StoresTyped' /\ FilesFit'
    BY <1>1, <1>2 DEF StoresTyped, FilesFit, UnderWay
  <1>4. Record!Loading' <=> Record!Loading
    BY <1>1 DEF Record!Loading
  <1>5. Phases' /\ Settled'
    BY <1>1, <1>2, <1>4 DEF Phases, UnderWay, Settled
  <1>6. Chained' /\ Undrawn'
    BY <1>1, <1>2 DEF Chained, Undrawn, UnderWay
  <1>7. Packages'
    BY <1>1, <1>2 DEF Packages, UnderWay, Unseen
  <1> QED
    BY <1>3, <1>5, <1>6, <1>7 DEF StoresInv

LEMMA LaunchesKept ==
  ASSUME StoresInv, LaunchInv, UNCHANGED recordVars
  PROVE  LaunchInv'
  <1>1. StoresTyped
    BY DEF StoresInv
  <1>2. launched' = launched /\ store' = store /\ call' = call /\ dirs' = dirs /\ records' = records
    BY DEF recordVars
  <1>3. \A c \in Clients : Verifying(c)' => Verifying(c) /\ call'[c] = call[c]
    BY <1>2 DEF Verifying, UnderWay
  <1>4. \A i \in Ids, f \in Record!Files : Covered(i, f) => Covered(i, f)'
    BY <1>2 DEF Covered
  <1> QED
    BY <1>1, <1>2, <1>3, <1>4, LaunchesUnmoved

LEMMA DeskKept ==
  ASSUME ReqInv, SessInv, DiskInv, UNCHANGED deskVars
  PROVE  ReqInv' /\ SessInv' /\ DiskInv'
  <1>1. UNCHANGED <<dir, trash, made, sess, map, req, left, kept, removed, mistaken, overlap>>
    BY DEF deskVars
  <1>2. DiskInv'
    BY <1>1, DiskUntouched
  <1>3. ReqInv'
    BY <1>1 DEF ReqInv, Asked
  <1>4. SessInv'
    BY <1>1 DEF SessInv, SessTyped, Owned, Launches, Launching, Aside, Awaited, Mapped, Asked
  <1> QED
    BY <1>2, <1>3, <1>4

LEMMA SyncKept ==
  ASSUME SyncInv, UNCHANGED syncVars
  PROVE  SyncInv'
  <1>1. UNCHANGED <<capture, alive, acted, captureTail, running, got, actions, failures, layout>>
    BY DEF syncVars
  <1>2. Missed' = Missed
    BY <1>1 DEF Missed
  <1> QED
    BY <1>1, <1>2 DEF SyncInv, SyncTyped, OneBroadcast, LayoutInv

LEMMA SocketKept ==
  ASSUME SocketInv, UNCHANGED socketVars
  PROVE  SocketInv'
  BY DEF SocketInv, SocketTyped, Numbered, NullsNoted, ScreencastStopped, socketVars

-----------------------------------------------------------------------------
StudioInv == StoresInv /\ LaunchInv /\ DiskInv /\ ReqInv /\ SessInv /\ SyncInv /\ SocketInv

\* The inductive invariant of the Studio: that of each of its parts.
THEOREM Invariance == Spec => []StudioInv
  <1>1. Init => StudioInv
    BY StoresInitially, LaunchesInitially, DeskInitially, SyncInitially, SocketInitially DEF Init, StudioInv
  <1>2. StudioInv /\ [Next]_vars => StudioInv'
    <2> SUFFICES ASSUME StudioInv, [Next]_vars
                 PROVE  StudioInv'
      OBVIOUS
    <2>0. StoresInv /\ LaunchInv /\ DiskInv /\ ReqInv /\ SessInv /\ SyncInv /\ SocketInv
      BY DEF StudioInv
    <2>1. UNCHANGED recordVars => StoresInv' /\ LaunchInv'
      BY <2>0, StoresKept, LaunchesKept
    <2>2. UNCHANGED deskVars => ReqInv' /\ SessInv' /\ DiskInv'
      BY <2>0, DeskKept
    <2>3. UNCHANGED syncVars => SyncInv'
      BY <2>0, SyncKept
    <2>4. UNCHANGED socketVars => SocketInv'
      BY <2>0, SocketKept
    <2>5. CASE OnlyStores /\ Record!StoresNext
      BY <2>0, <2>2, <2>3, <2>4, <2>5, StoresSteps, LaunchSteps DEF OnlyStores, StudioInv
    <2>6. CASE OnlyDesk /\ Desk!DeskNext
      BY <2>0, <2>1, <2>3, <2>4, <2>6, DeskSteps DEF OnlyDesk, StudioInv
    <2>7. CASE OnlySync /\ Sync!SyncNext
      BY <2>0, <2>1, <2>2, <2>4, <2>7, SyncSteps DEF OnlySync, StudioInv
    <2>8. CASE OnlySocket /\ Socket!SocketNext
      BY <2>0, <2>1, <2>2, <2>3, <2>8, SocketSteps DEF OnlySocket, StudioInv
    <2>9. CASE UNCHANGED vars
      BY <2>1, <2>2, <2>3, <2>4, <2>9 DEF vars, StudioInv
    <2> QED
      BY <2>5, <2>6, <2>7, <2>8, <2>9 DEF Next
  <1> QED
    BY <1>1, <1>2, PTL DEF Spec

\* pool-store.ts, access-store.ts, managed-extension-store.ts: what a store has acknowledged
\* is what it says after any failed writes and crashes, until it is told otherwise; a
\* revoked key and a suspended member stay out; a browser gets complete extensions only,
\* but for one that was deleted while the launch was checking it, file by file.
THEOREM StoresKeepWord == Spec => []StoresKeepTheirWord
  <1>1. StudioInv => StoresKeepTheirWord
    BY StoresAreSound DEF StudioInv
  <1> QED
    BY <1>1, Invariance, PTL

\* profile-store.ts, server.ts: an acknowledged profile is in its place or in the recycle
\* bin, and in one of them only, until it is purged (by its id, or by mistake with an id
\* that its own begins like), and a session that runs on a profile is the one the map
\* names, however many requests create, delete, restore, purge, import, start and stop at
\* the same time, and whenever the process dies.  A session without a profile belongs to
\* the scrape that started it or to POST /browser/start, whose caller alone knows its id.
THEOREM ProfilesAreSound == Spec => []ProfilesSound
  <1>1. StudioInv => ProfilesSound
    BY DiskIsSound, SessionsAreSound DEF StudioInv, ProfilesSound
  <1> QED
    BY <1>1, Invariance, PTL

\* synchronizer/index.ts, attachAutomationSocket: followers repeat the master's actions, and
\* a socket serves its requests, in the order in which they came, whatever fails, and
\* answers each of them but the message null; windows laid out neither overlap nor leave
\* the screen, for every number of them and every screen.
THEOREM OrderIsKept == Spec => []OrderKept
  <1>1. StudioInv => OrderKept
    BY SyncIsSound, SocketIsSound DEF StudioInv, OrderKept
  <1> QED
    BY <1>1, Invariance, PTL

=============================================================================
