-------------------------------- MODULE Studio --------------------------------
(* What the Studio's HTTP and WebSocket server (src/api/server.ts) is made of: the  *)
(* record stores, the profile desk, the window synchronizer and the automation     *)
(* socket.  They share a process but no state that a request of one changes in      *)
(* another, so a behaviour runs one of them, behind the gate every request passes.  *)
EXTENDS Naturals, Sequences, FiniteSets

CONSTANTS
    Clients, None,
    Ids, Member, Stores,
    Profiles, Begins, First, Sessions, MaxCalls, MaxTroubles,
    Followers, MaxActions, MaxWindows, Screen, MaxRequests,
    Parts           \* the parts whose behaviours are explored

VARIABLES
    part,
    file, bak, tmp, store, up, loaded, records, writeTail, call, dirs, drawn, promised, early,
    launched,
    dir, trash, made, sess, map, req, left, kept, removed, mistaken, overlap,
    capture, alive, acted, captureTail, running, got, actions, failures, layout,
    open, chain, underway, received, ended, nulls, timer, inFlight, behind

Record == INSTANCE StudioStores WITH tail <- writeTail
Desk == INSTANCE ProfileDesk
Sync == INSTANCE Synchronizer WITH tail <- captureTail
Socket == INSTANCE AutomationSocket

\* A store is one of the three; the team's keys belong to a member that has an id like
\* any other record; nothing is called None.
ASSUME StoresAssumption ==
    /\ Stores \subseteq [kind : {"proxies", "team", "extensions"}, calls : Nat, uses : Nat,
                         faults : Nat, crashes : Nat]
    /\ Member \in Ids
    /\ None \notin Clients \cup Ids \cup {Record!Open}

ASSUME DeskAssumption ==
    /\ First \in Profiles
    /\ MaxCalls \in Nat /\ MaxTroubles \in Nat
    /\ None \notin Profiles \cup Sessions \cup [life : Nat, names : Profiles, files : SUBSET {"meta", "cookies", "data"}]

ASSUME SyncAssumption == IsFiniteSet(Followers) /\ Screen \in Nat /\ MaxWindows \in Nat

recordVars == <<file, bak, tmp, store, up, loaded, records, writeTail, call, dirs, drawn, promised,
                early, launched>>
deskVars == <<dir, trash, made, sess, map, req, left, kept, removed, mistaken, overlap>>
syncVars == <<capture, alive, acted, captureTail, running, got, actions, failures, layout>>
socketVars == <<open, chain, underway, received, ended, nulls, timer, inFlight, behind>>
vars == <<part, recordVars, deskVars, syncVars, socketVars>>

-----------------------------------------------------------------------------
Init ==
    /\ part \in Parts
    /\ Record!StoresInit /\ (part # "stores" => store = CHOOSE s \in Stores : TRUE)
    /\ Desk!DeskInit /\ (part # "desk" => made = 0)
    /\ Sync!SyncInit
    /\ Socket!SocketInit

OnlyStores == part = "stores" /\ UNCHANGED <<part, deskVars, syncVars, socketVars>>
OnlyDesk == part = "desk" /\ UNCHANGED <<part, recordVars, syncVars, socketVars>>
OnlySync == part = "synchronizer" /\ UNCHANGED <<part, recordVars, deskVars, socketVars>>
OnlySocket == part = "socket" /\ UNCHANGED <<part, recordVars, deskVars, syncVars>>

\* What goes on by itself: requests under way, writes, broadcasts, and the restart
\* of a process that died.
Progress ==
    \/ OnlyStores /\ (Record!StoresProgress \/ Record!Restart)
    \/ OnlyDesk /\ Desk!DeskProgress
    \/ OnlySync /\ Sync!SyncProgress
    \/ OnlySocket /\ Socket!SocketProgress

Next ==
    \/ OnlyStores /\ Record!StoresNext
    \/ OnlyDesk /\ Desk!DeskNext
    \/ OnlySync /\ Sync!SyncNext
    \/ OnlySocket /\ Socket!SocketNext

Spec == Init /\ [][Next]_vars /\ WF_vars(Progress)

-----------------------------------------------------------------------------
\* What a store of src/proxy, src/team or src/extension has acknowledged survives
\* failed writes and a crash, a revoked key or a suspended member stays out, and a
\* browser only gets complete extensions, but for one deleted while a launch checks it.
StoresKeepTheirWord == Record!AcknowledgedSurvives /\ Record!RevokedStaysOut /\ Record!LaunchedWhole

\* No acknowledged profile is lost on the way between its place, the recycle bin
\* and back, whatever is deleted, restored, imported or purged at the same time, but
\* for the purge of an id that its own begins like; and a session that runs on a
\* profile is the one the map names, but for two stops that overlap.
ProfilesSound == Desk!ProfileKept /\ Desk!LiveIsMapped

\* Followers repeat the master's actions, and a socket's requests are served, in the
\* order in which they came, each with an answer but for the message null; the layout of
\* the windows is a tiling.
OrderKept == Sync!FollowersInOrder /\ Socket!SocketInOrder /\ Sync!LayoutTiles

Busy ==
    \/ \E c \in Clients : call[c].op # "none" \/ req[c].op # "none"
    \/ captureTail # <<>> \/ running # {} \/ chain # <<>>

\* Every request comes to its end, also one that waits for another one's stop or write,
\* and one whose process died; a capture works off what it has observed.
RequestsAnswered == Busy ~> ~Busy
=============================================================================
