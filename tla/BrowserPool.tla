----------------------------- MODULE BrowserPool -----------------------------
(* The browser pool of the control plane, src/control-plane/browser-pool.ts:    *)
(* browser instances that are started through the session manager ("managed",   *)
(* the "cdp" mode takes the same path) or that wait for the socket of a browser *)
(* extension ("bridge"), the requests sent over those sockets, the bindings of  *)
(* sites to instances, and the metadata file.  An action is what one call or    *)
(* one socket event does between two awaits.                                    *)
(*                                                                              *)
(* Left out: names, ports, tabs and versions, which no transition reads.  The   *)
(* URL policy a navigation awaits comes before anything of the pool is read, so *)
(* BridgeCall stands for the call from there on.                                *)
EXTENDS Naturals, FiniteSets, TLC

CONSTANTS
    Ids,         \* instance ids
    Sockets,     \* extension connections; a closed one may connect again
    Callers,     \* API calls that may be suspended at the same time
    Requests,    \* bridge request ids
    Hosts,       \* sites that can be bound
    Contexts,    \* browser contexts an extension may report in its handshake
    MaxFaults,   \* bound on the metadata writes that fail
    MaxRestarts, \* bound on the restarts of the process
    None

ASSUME PoolAssumption ==
    /\ MaxFaults \in Nat
    /\ MaxRestarts \in Nat
    /\ None \notin Ids \cup Sockets \cup Hosts \cup Contexts

VARIABLES
    inst,      \* this.instances: per id its record, or None
    bindings,  \* this.bindings: per host an id, or None
    sockets,   \* this.bridgeSockets: per id a socket, or None
    pending,   \* this.bridgePending: per request the id it was sent to, or None
    conn,      \* per socket: "closed", "greeting" (waits for ready), "open", "closing"
    handler,   \* per socket: the id its listeners are bound to; the wanted id while greeting
    calls,     \* per caller, the await at which it is suspended
    disk,      \* the metadata file
    faults, restarts

memory == <<inst, bindings, sockets, pending, conn, handler, calls>>
vars == <<memory, disk, faults, restarts>>

Modes == {"managed", "bridge"}
States == {"STOPPED", "STARTING", "READY", "AWAITING_BRIDGE", "ERROR"}
Instances == {id \in Ids : inst[id] # None}
Records == [mode : Modes, state : States, session : BOOLEAN, context : Contexts \cup {None}]
MetaRecords == [mode : Modes, context : Contexts \cup {None}]
Idle == [op |-> "idle"]

(* A missing entry of a map is not a record.                                    *)
ASSUME NoneAssumption == None \notin Records \cup MetaRecords

(* own: the object the caller captured is still the one in the map.             *)
CallRecords == {Idle} \cup
    [op : {"start", "stop", "remove", "removing"}, id : Ids, own : BOOLEAN]

(* What a restart keeps of the state: the mode and the context of every         *)
(* instance, and the bindings.                                                  *)
Metadata(instances, bound) ==
    [inst |-> [id \in Ids |-> IF instances[id] = None THEN None
                              ELSE [mode |-> instances[id].mode,
                                    context |-> instances[id].context]],
     bindings |-> bound]
Nothing == [inst |-> [id \in Ids |-> None], bindings |-> [h \in Hosts |-> None]]

Init ==
    /\ inst = Nothing.inst
    /\ bindings = Nothing.bindings
    /\ sockets = [id \in Ids |-> None]
    /\ pending = [r \in Requests |-> None]
    /\ conn = [s \in Sockets |-> "closed"]
    /\ handler = [s \in Sockets |-> None]
    /\ calls = [c \in Callers |-> Idle]
    /\ disk = Nothing
    /\ faults = 0
    /\ restarts = 0

(* persist() rewrites the whole file; an error of the write is swallowed.       *)
Persist ==
    /\ \/ disk' = Metadata(inst', bindings') /\ UNCHANGED faults
       \/ disk' = disk /\ faults < MaxFaults /\ faults' = faults + 1
    /\ UNCHANGED restarts
-----------------------------------------------------------------------------
(* Instances.                                                                   *)

(* The state of an instance that nothing drives.                                *)
Waiting(mode) == IF mode = "bridge" THEN "AWAITING_BRIDGE" ELSE "STOPPED"
NewInstance(mode, state, context) ==
    [mode |-> mode, state |-> state, session |-> FALSE, context |-> context]

(* start(): a bridge only waits for its extension, any other instance awaits    *)
(* manager.start.                                                               *)
Starts(c, id, record) ==
    IF record.mode = "bridge"
    THEN /\ inst' = [inst EXCEPT ![id] = [record EXCEPT !.state = "AWAITING_BRIDGE"]]
         /\ UNCHANGED calls
    ELSE /\ inst' = [inst EXCEPT ![id] = [record EXCEPT !.state = "STARTING"]]
         /\ calls' = [calls EXCEPT ![c] = [op |-> "start", id |-> id, own |-> TRUE]]

(* add(), with and without the start it does by default.                        *)
Add(c, id, mode) ==
    /\ calls[c] = Idle
    /\ id \notin Instances
    /\ LET record == NewInstance(mode, Waiting(mode), None)
       IN  \/ Starts(c, id, record)
           \/ inst' = [inst EXCEPT ![id] = record] /\ UNCHANGED calls
    /\ UNCHANGED <<bindings, sockets, pending, conn, handler>>
    /\ Persist

Start(c, id) ==
    /\ calls[c] = Idle
    /\ id \in Instances
    /\ Starts(c, id, inst[id])
    /\ UNCHANGED <<bindings, sockets, pending, conn, handler>>
    /\ Persist

(* The rest of start(); the record may have been removed, or changed by         *)
(* another call, in the meantime.                                               *)
Started(c, ok) ==
    /\ calls[c].op = "start"
    /\ LET id == calls[c].id
       IN  inst' = IF ~calls[c].own THEN inst
                   ELSE IF ok
                   THEN [inst EXCEPT ![id] = [@ EXCEPT !.state = "READY", !.session = TRUE]]
                   ELSE [inst EXCEPT ![id].state = "ERROR"]
    /\ calls' = [calls EXCEPT ![c] = Idle]
    /\ UNCHANGED <<bindings, sockets, pending, conn, handler>>
    /\ Persist

Configure(id, mode) ==
    /\ id \in Instances
    /\ inst[id].state \notin {"STARTING", "READY"}
    /\ inst' = [inst EXCEPT ![id] = [@ EXCEPT !.mode = mode, !.state = Waiting(mode),
                                             !.session = FALSE]]
    /\ UNCHANGED <<bindings, sockets, pending, conn, handler, calls>>
    /\ Persist

(* rejectBridgeCalls(): every request of the instance is answered with an error *)
Rejected(id) == [r \in Requests |-> IF pending[r] = id THEN None ELSE pending[r]]

(* ws.close(): the peer's messages still arrive until the close event does.     *)
Closing(s) ==
    IF s # None /\ conn[s] = "open" THEN [conn EXCEPT ![s] = "closing"] ELSE conn

Mutant_StopEnds_noReject(id, own) ==
    /\ conn' = Closing(sockets[id])
    /\ sockets' = [sockets EXCEPT ![id] = None]
    /\ inst' = IF own
               THEN [inst EXCEPT ![id] = [@ EXCEPT !.state = Waiting(inst[id].mode), !.session = FALSE]]
               ELSE inst
    /\ UNCHANGED pending

(* stop() once no session is left to stop.                                      *)
StopEnds(id, own) ==
    /\ conn' = Closing(sockets[id])
    /\ sockets' = [sockets EXCEPT ![id] = None]
    /\ pending' = Rejected(id)
    /\ inst' = IF own
               THEN [inst EXCEPT ![id] = [@ EXCEPT !.state = Waiting(inst[id].mode), !.session = FALSE]]
               ELSE inst

(* stop() and remove(); remove() stops first and goes on whether or not that    *)
(* worked.                                                                      *)
Stop(c, id) ==
    /\ calls[c] = Idle
    /\ id \in Instances
    /\ \/ /\ inst[id].session
          /\ calls' = [calls EXCEPT ![c] = [op |-> "stop", id |-> id, own |-> TRUE]]
          /\ UNCHANGED <<inst, bindings, sockets, pending, conn, handler, disk, faults, restarts>>
       \/ /\ ~inst[id].session
          /\ StopEnds(id, TRUE)
          /\ UNCHANGED <<bindings, handler, calls>>
          /\ Persist

Remove(c, id) ==
    /\ calls[c] = Idle
    /\ id \in Instances
    /\ \/ /\ inst[id].session
          /\ calls' = [calls EXCEPT ![c] = [op |-> "remove", id |-> id, own |-> TRUE]]
          /\ UNCHANGED <<inst, bindings, sockets, pending, conn, handler, disk, faults, restarts>>
       \/ /\ ~inst[id].session
          /\ StopEnds(id, TRUE)
          /\ calls' = [calls EXCEPT ![c] = [op |-> "removing", id |-> id, own |-> TRUE]]
          /\ UNCHANGED <<bindings, handler>>
          /\ Persist

(* manager.stop has answered.                                                   *)
Stopped(c, ok) ==
    /\ calls[c].op \in {"stop", "remove"}
    /\ calls' = [calls EXCEPT ![c] = IF @.op = "stop" THEN Idle ELSE [@ EXCEPT !.op = "removing"]]
    /\ \/ /\ ok
          /\ StopEnds(calls[c].id, calls[c].own)
          /\ UNCHANGED <<bindings, handler>>
          /\ Persist
       \/ /\ ~ok
          /\ UNCHANGED <<inst, bindings, sockets, pending, conn, handler, disk, faults, restarts>>

Mutant_Removed_keepsBindings(c) ==
    /\ calls[c].op = "removing"
    /\ inst' = [inst EXCEPT ![calls[c].id] = None]
    /\ calls' = [d \in Callers |->
                  IF d = c THEN Idle
                  ELSE IF calls[d] # Idle /\ calls[d].id = calls[c].id
                  THEN [calls[d] EXCEPT !.own = FALSE] ELSE calls[d]]
    /\ UNCHANGED <<bindings, sockets, pending, conn, handler>>
    /\ Persist

(* The rest of remove(): the bindings of the instance, then the instance.       *)
Removed(c) ==
    /\ calls[c].op = "removing"
    /\ LET id == calls[c].id
       IN  /\ bindings' = [h \in Hosts |-> IF bindings[h] = id THEN None ELSE bindings[h]]
           /\ inst' = [inst EXCEPT ![id] = None]
           /\ calls' = [d \in Callers |->
                         IF d = c THEN Idle
                         ELSE IF calls[d] # Idle /\ calls[d].id = id
                         THEN [calls[d] EXCEPT !.own = FALSE] ELSE calls[d]]
    /\ UNCHANGED <<sockets, pending, conn, handler>>
    /\ Persist

Bind(h, id) ==
    /\ id \in Instances
    /\ bindings' = [bindings EXCEPT ![h] = id]
    /\ UNCHANGED <<inst, sockets, pending, conn, handler, calls>>
    /\ Persist

Unbind(h) ==
    /\ bindings' = [bindings EXCEPT ![h] = None]
    /\ UNCHANGED <<inst, sockets, pending, conn, handler, calls>>
    /\ Persist
-----------------------------------------------------------------------------
(* Bridge connections.                                                          *)

(* The socket becomes the connection of id; the one it replaces is closed, its  *)
(* requests stay pending.                                                       *)
Attached(s, id) ==
    /\ sockets' = [sockets EXCEPT ![id] = s]
    /\ conn' = [Closing(sockets[id]) EXCEPT ![s] = "open"]
    /\ handler' = [handler EXCEPT ![s] = id]
    /\ UNCHANGED <<pending, bindings, calls>>
    /\ Persist

(* attachOrAutoRegisterBridge(), a connection for the id `want' of its URL, if  *)
(* any: an existing bridge is attached at once, an existing instance of another *)
(* mode is refused (the server closes the socket), otherwise the handshake is   *)
(* awaited.                                                                     *)
Connect(s, want) ==
    /\ conn[s] = "closed"
    /\ \/ /\ want \in Instances
          /\ inst[want].mode = "bridge"
          /\ inst' = [inst EXCEPT ![want].state = "READY"]
          /\ Attached(s, want)
       \/ /\ want \notin Instances
          /\ conn' = [conn EXCEPT ![s] = "greeting"]
          /\ handler' = [handler EXCEPT ![s] = want]
          /\ UNCHANGED <<inst, bindings, sockets, pending, calls, disk, faults, restarts>>

(* The instance a handshake means: the wanted id, if it exists by now, or a     *)
(* bridge with the reported context.                                            *)
Known(s, context) ==
    IF handler[s] \in Instances THEN {handler[s]}
    ELSE {id \in Instances : /\ context # None
                             /\ inst[id].mode = "bridge"
                             /\ inst[id].context = context}

(* The context the instance has after it: a handshake may leave it out.         *)
Reported(id, context) == IF context = None THEN inst[id].context ELSE context

(* The first ready message of a greeting socket: it joins the instance it       *)
(* means, or registers a new one under the wanted or an unused id.              *)
Greet(s, context) ==
    /\ conn[s] = "greeting"
    /\ \/ \E id \in Known(s, context) :
            /\ inst' = [inst EXCEPT ![id] =
                        [@ EXCEPT !.state = "READY", !.context = Reported(id, context)]]
            /\ Attached(s, id)
       \/ \E id \in Ids \ Instances :
            /\ Known(s, context) = {}
            /\ handler[s] \in {None, id}
            /\ inst' = [inst EXCEPT ![id] = NewInstance("bridge", "READY", context)]
            /\ Attached(s, id)

(* The connection ends on the peer's side, or the network does it.              *)
Disconnect(s) ==
    /\ conn[s] \in {"greeting", "open"}
    /\ conn' = [conn EXCEPT ![s] = IF @ = "open" THEN "closing" ELSE "closed"]
    /\ handler' = [handler EXCEPT ![s] = IF conn[s] = "open" THEN @ ELSE None]
    /\ UNCHANGED <<inst, bindings, sockets, pending, calls, disk, faults, restarts>>

Mutant_HandleBridgeClose_anySocket(s) ==
    /\ conn[s] = "closing"
    /\ conn' = [conn EXCEPT ![s] = "closed"]
    /\ handler' = [handler EXCEPT ![s] = None]
    /\ LET id == handler[s]
       IN  /\ sockets' = [sockets EXCEPT ![id] = None]
           /\ pending' = Rejected(id)
           /\ inst' = IF id \in Instances
                      THEN [inst EXCEPT ![id].state = "AWAITING_BRIDGE"] ELSE inst
    /\ UNCHANGED <<bindings, calls>>
    /\ Persist

(* The close event, handleBridgeClose().                                        *)
HandleBridgeClose(s) ==
    /\ conn[s] = "closing"
    /\ conn' = [conn EXCEPT ![s] = "closed"]
    /\ handler' = [handler EXCEPT ![s] = None]
    /\ LET id == handler[s]
       IN  \/ /\ sockets[id] = s
              /\ sockets' = [sockets EXCEPT ![id] = None]
              /\ pending' = Rejected(id)
              /\ inst' = IF id \in Instances
                         THEN [inst EXCEPT ![id].state = "AWAITING_BRIDGE"] ELSE inst
              /\ UNCHANGED <<bindings, calls>>
              /\ IF id \in Instances THEN Persist ELSE UNCHANGED <<disk, faults, restarts>>
           \/ /\ sockets[id] # s
              /\ UNCHANGED <<inst, bindings, sockets, pending, calls, disk, faults, restarts>>

(* Messages arrive on an attached socket, also while it is being closed.        *)
Hears(s) == conn[s] \in {"open", "closing"}

(* handleBridgeMessage(): a ready message, an answer, and a message over the    *)
(* size limit, which closes the instance's current socket.                      *)
HandleReady(s) ==
    /\ Hears(s)
    /\ handler[s] \in Instances
    /\ inst' = [inst EXCEPT ![handler[s]].state = "READY"]
    /\ UNCHANGED <<bindings, sockets, pending, conn, handler, calls>>
    /\ Persist

HandleAnswer(s, r) ==
    /\ Hears(s)
    /\ pending[r] = handler[s]
    /\ pending' = [pending EXCEPT ![r] = None]
    /\ UNCHANGED <<inst, bindings, sockets, conn, handler, calls, disk, faults, restarts>>

HandleTooLarge(s) ==
    /\ Hears(s)
    /\ conn' = Closing(sockets[handler[s]])
    /\ pending' = Rejected(handler[s])
    /\ UNCHANGED <<inst, bindings, sockets, handler, calls, disk, faults, restarts>>

(* bridgeCall(): refused without an open socket; a send that throws takes the   *)
(* request back at once.  The instance itself is not looked at.                 *)
BridgeCall(id, r) ==
    /\ pending[r] = None
    /\ sockets[id] # None
    /\ conn[sockets[id]] = "open"
    /\ pending' = [pending EXCEPT ![r] = id]
    /\ UNCHANGED <<inst, bindings, sockets, conn, handler, calls, disk, faults, restarts>>

Timeout(r) ==
    /\ pending[r] # None
    /\ pending' = [pending EXCEPT ![r] = None]
    /\ UNCHANGED <<inst, bindings, sockets, conn, handler, calls, disk, faults, restarts>>
-----------------------------------------------------------------------------
(* The process ends, perhaps inside writeFileSync, and load() reads what is     *)
(* left: a torn file is like a missing one.                                     *)
Load(file) ==
    /\ inst' = [id \in Ids |-> IF file.inst[id] = None THEN None
                               ELSE NewInstance(file.inst[id].mode, Waiting(file.inst[id].mode),
                                                file.inst[id].context)]
    /\ bindings' = file.bindings

Restart(file) ==
    /\ restarts < MaxRestarts
    /\ restarts' = restarts + 1
    /\ Load(file)
    /\ sockets' = [id \in Ids |-> None]
    /\ pending' = [r \in Requests |-> None]
    /\ conn' = [s \in Sockets |-> "closed"]
    /\ handler' = [s \in Sockets |-> None]
    /\ calls' = [c \in Callers |-> Idle]
    /\ disk' = file
    /\ UNCHANGED faults

Next ==
    \/ \E c \in Callers, id \in Ids :
         \/ \E mode \in Modes : Add(c, id, mode)
         \/ Start(c, id)
         \/ Stop(c, id)
         \/ Remove(c, id)
    \/ \E c \in Callers :
         \/ \E ok \in BOOLEAN : Started(c, ok) \/ Stopped(c, ok)
         \/ Removed(c)
    \/ \E id \in Ids, mode \in Modes : Configure(id, mode)
    \/ \E h \in Hosts : Unbind(h) \/ \E id \in Ids : Bind(h, id)
    \/ \E s \in Sockets :
         \/ \E want \in Ids \cup {None} : Connect(s, want)
         \/ \E context \in Contexts \cup {None} : Greet(s, context)
         \/ Disconnect(s)
         \/ HandleBridgeClose(s)
         \/ HandleReady(s)
         \/ HandleTooLarge(s)
         \/ \E r \in Requests : HandleAnswer(s, r)
    \/ \E r \in Requests : Timeout(r) \/ \E id \in Ids : BridgeCall(id, r)
    \/ \E file \in {disk, Nothing} : Restart(file)

Spec == Init /\ [][Next]_vars
-----------------------------------------------------------------------------
(* The values the pool's maps and suspended calls can hold.                     *)
TypeOK ==
    /\ inst \in [Ids -> Records \cup {None}]
    /\ bindings \in [Hosts -> Ids \cup {None}]
    /\ sockets \in [Ids -> Sockets \cup {None}]
    /\ pending \in [Requests -> Ids \cup {None}]
    /\ conn \in [Sockets -> {"closed", "greeting", "open", "closing"}]
    /\ handler \in [Sockets -> Ids \cup {None}]
    /\ calls \in [Callers -> CallRecords]
    /\ faults \in 0 .. MaxFaults
    /\ restarts \in 0 .. MaxRestarts

(* A binding always names an instance of the pool, also when sites are bound    *)
(* while remove() awaits the stop, and after a restart from any file the pool   *)
(* wrote: resolveBinding() never throws.                                        *)
BindingsResolve == \A h \in Hosts : bindings[h] # None => bindings[h] \in Instances

(* A request is pending only while its instance has a connection: stop() and    *)
(* the close event leave no caller waiting for an answer that cannot come.      *)
PendingHasSocket == \A r \in Requests : pending[r] # None => sockets[pending[r]] # None

(* The pool forgets a connection only when it is closed or being closed: a late *)
(* close event of a replaced socket does not take the new one away, and a       *)
(* replaced socket is not leaked.                                               *)
NoSocketLost ==
    [][\A id \in Ids : sockets[id] # None /\ sockets'[id] # sockets[id]
                          => conn'[sockets[id]] # "open"]_vars

(* An instance shown as STOPPED holds no session: whatever start, stop,         *)
(* configure and remove overlap, the pool does not hide a session it knows.     *)
StoppedHoldsNoSession ==
    \A id \in Instances : inst[id].state = "STOPPED" => ~inst[id].session

(* What the pool lists is true: typed, with bindings that resolve and without a  *)
(* session behind STOPPED.                                                       *)
PoolCoherent == TypeOK /\ BindingsResolve /\ StoppedHoldsNoSession

Symmetry == Permutations(Ids) \cup Permutations(Sockets) \cup Permutations(Callers)
=============================================================================
