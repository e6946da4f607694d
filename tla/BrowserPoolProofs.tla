-------------------------- MODULE BrowserPoolProofs --------------------------
(* Proofs about BrowserPool, for any number of instances, sockets, callers,     *)
(* requests, hosts, faults and restarts: bindings resolve, a pending request    *)
(* has a connection, a STOPPED instance holds no session, and no open           *)
(* connection is lost or leaked.                                                *)
EXTENDS BrowserPool, TLAPS

(* The file only holds bindings of instances it holds too: what a restart from  *)
(* it needs.                                                                    *)
DiskResolves ==
    /\ disk \in [inst : [Ids -> MetaRecords \cup {None}], bindings : [Hosts -> Ids \cup {None}]]
    /\ \A h \in Hosts : disk.bindings[h] # None => disk.inst[disk.bindings[h]] # None

(* A call that captured the object of the map finds it there.                   *)
CapturedExists ==
    \A c \in Callers : calls[c] # Idle /\ calls[c].own => inst[calls[c].id] # None

(* The listeners of an attached socket are bound to the instance it serves.     *)
SocketBound ==
    /\ \A s \in Sockets : conn[s] \in {"open", "closing"} => handler[s] \in Ids
    /\ \A id \in Ids : sockets[id] # None =>
         /\ handler[sockets[id]] = id
         /\ conn[sockets[id]] \in {"open", "closing"}

(* The inductive invariant.                                                     *)
IndInv ==
    /\ TypeOK
    /\ BindingsResolve
    /\ PendingHasSocket
    /\ StoppedHoldsNoSession
    /\ DiskResolves
    /\ CapturedExists
    /\ SocketBound

USE PoolAssumption, NoneAssumption

(* The empty pool satisfies it.                                                 *)
LEMMA InitEstablishes == Init => IndInv
  BY DEF Init, IndInv, TypeOK, BindingsResolve, PendingHasSocket, StoppedHoldsNoSession,
         DiskResolves, CapturedExists, SocketBound, Nothing, Instances, CallRecords, Idle,
         Records, MetaRecords

(* What persist() leaves in the file resolves, whether or not the write worked. *)
LEMMA PersistResolves ==
  ASSUME DiskResolves, inst' \in [Ids -> Records \cup {None}],
         bindings' \in [Hosts -> Ids \cup {None}], BindingsResolve', Persist,
         faults \in 0 .. MaxFaults, restarts \in 0 .. MaxRestarts
  PROVE  DiskResolves' /\ faults' \in 0 .. MaxFaults /\ restarts' \in 0 .. MaxRestarts
  <1>1. CASE disk' = Metadata(inst', bindings') /\ UNCHANGED <<faults, restarts>>
    <2>1. \A id \in Ids : inst'[id] # None =>
            [mode |-> inst'[id].mode, context |-> inst'[id].context] \in MetaRecords
      BY DEF Records, MetaRecords
    <2>2. Metadata(inst', bindings').inst \in [Ids -> MetaRecords \cup {None}]
      BY <2>1 DEF Metadata
    <2>3. \A h \in Hosts : bindings'[h] # None => Metadata(inst', bindings').inst[bindings'[h]] # None
      BY <2>1 DEF Metadata, BindingsResolve, Instances
    <2>4. /\ disk'.inst = Metadata(inst', bindings').inst
          /\ disk'.bindings = bindings'
          /\ disk' = [inst |-> disk'.inst, bindings |-> disk'.bindings]
      BY <1>1 DEF Metadata
    <2> QED
      BY <1>1, <2>2, <2>3, <2>4 DEF DiskResolves
  <1>2. CASE disk' = disk /\ faults < MaxFaults /\ faults' = faults + 1 /\ UNCHANGED restarts
    BY <1>2 DEF DiskResolves
  <1> QED
    BY <1>1, <1>2 DEF Persist

(* The invariant in the parts an action may disturb: the instances with their   *)
(* bindings, the suspended calls, and the connections with their requests.      *)
InstancesInv ==
    /\ inst \in [Ids -> Records \cup {None}]
    /\ bindings \in [Hosts -> Ids \cup {None}]
    /\ BindingsResolve
    /\ StoppedHoldsNoSession

CallsInv ==
    /\ calls \in [Callers -> CallRecords]
    /\ CapturedExists

BridgeInv ==
    /\ sockets \in [Ids -> Sockets \cup {None}]
    /\ pending \in [Requests -> Ids \cup {None}]
    /\ conn \in [Sockets -> {"closed", "greeting", "open", "closing"}]
    /\ handler \in [Sockets -> Ids \cup {None}]
    /\ PendingHasSocket
    /\ SocketBound

(* With persist() or without it, the parts make up the invariant.               *)
LEMMA Combine ==
  ASSUME IndInv, InstancesInv', CallsInv', BridgeInv',
         Persist \/ UNCHANGED <<disk, faults, restarts>>
  PROVE  IndInv'
  <1>1. CASE Persist
    BY <1>1, PersistResolves DEF IndInv, InstancesInv, CallsInv, BridgeInv, TypeOK
  <1>2. CASE UNCHANGED <<disk, faults, restarts>>
    BY <1>2 DEF IndInv, InstancesInv, CallsInv, BridgeInv, TypeOK, DiskResolves
  <1> QED
    BY <1>1, <1>2

(* The step changes at most one record of the pool, to one that holds no        *)
(* session when it is STOPPED.                                                  *)
SetsRecord ==
    \/ inst' = inst
    \/ \E i \in Ids, r \in Records :
         /\ r.state = "STOPPED" => ~r.session
         /\ inst' = [inst EXCEPT ![i] = r]

(* Such a step removes no instance, so calls and bindings that refer to one     *)
(* still do.                                                                    *)
LEMMA RecordSet ==
  ASSUME IndInv, SetsRecord
  PROVE  /\ inst' \in [Ids -> Records \cup {None}]
         /\ StoppedHoldsNoSession'
         /\ \A i \in Ids : inst[i] # None => inst'[i] # None
  BY DEF IndInv, TypeOK, SetsRecord, StoppedHoldsNoSession, Instances

(* The instances and bindings after a step that sets a record.                  *)
LEMMA InstancesKept ==
  ASSUME IndInv, SetsRecord, UNCHANGED bindings
  PROVE  InstancesInv'
  BY RecordSet DEF IndInv, TypeOK, InstancesInv, BindingsResolve, Instances

(* The suspended calls after a step that sets a record and suspends or ends a call.*)
LEMMA CallsKept ==
  ASSUME IndInv, SetsRecord,
         \/ UNCHANGED calls
         \/ \E c \in Callers, new \in CallRecords :
              /\ calls' = [calls EXCEPT ![c] = new]
              /\ new # Idle /\ new.own => inst[new.id] # None
  PROVE  CallsInv'
  <1>1. CASE UNCHANGED calls
    BY <1>1, RecordSet DEF IndInv, TypeOK, CallsInv, CapturedExists, CallRecords, Idle
  <1>2. ASSUME NEW c \in Callers, NEW new \in CallRecords,
               calls' = [calls EXCEPT ![c] = new],
               new # Idle /\ new.own => inst[new.id] # None
        PROVE  CallsInv'
    <2>1. calls' \in [Callers -> CallRecords]
      BY <1>2 DEF IndInv, TypeOK
    <2>2. ASSUME NEW d \in Callers, calls'[d] # Idle, calls'[d].own
          PROVE  inst'[calls'[d].id] # None
      <3>1. calls'[d].id \in Ids
        BY <2>1, <2>2 DEF CallRecords, Idle
      <3>2. inst[calls'[d].id] # None
        BY <1>2, <2>2 DEF IndInv, TypeOK, CapturedExists
      <3> QED
        BY <3>1, <3>2, RecordSet
    <2> QED
      BY <2>1, <2>2 DEF CallsInv, CapturedExists
  <1> QED
    BY <1>1, <1>2

(* Updates of a record that keep it one.                                        *)
LEMMA StateUpdate ==
  ASSUME NEW r \in Records, NEW st \in States
  PROVE  [r EXCEPT !.state = st] \in Records /\ [r EXCEPT !.state = st].state = st
  BY DEF Records

(* An update of the state and the session.                                      *)
LEMMA SessionUpdate ==
  ASSUME NEW r \in Records, NEW st \in States, NEW b \in BOOLEAN
  PROVE  /\ [r EXCEPT !.state = st, !.session = b] \in Records
         /\ [r EXCEPT !.state = st, !.session = b].state = st
         /\ [r EXCEPT !.state = st, !.session = b].session = b
  BY DEF Records

(* The update configure() makes.                                                *)
LEMMA ModeUpdate ==
  ASSUME NEW r \in Records, NEW mode \in Modes, NEW st \in States
  PROVE  /\ [r EXCEPT !.mode = mode, !.state = st, !.session = FALSE] \in Records
         /\ [r EXCEPT !.mode = mode, !.state = st, !.session = FALSE].session = FALSE
  BY DEF Records

(* The update a handshake makes.                                                *)
LEMMA ContextUpdate ==
  ASSUME NEW r \in Records, NEW st \in States, NEW ctx \in Contexts \cup {None}
  PROVE  /\ [r EXCEPT !.state = st, !.context = ctx] \in Records
         /\ [r EXCEPT !.state = st, !.context = ctx].state = st
  BY DEF Records

(* Putting a record in the map is setting it.                                   *)
LEMMA ReplaceRecord ==
  ASSUME NEW id \in Ids, NEW r \in Records, r.state = "STOPPED" => ~r.session,
         inst' = [inst EXCEPT ![id] = r]
  PROVE  SetsRecord
  BY DEF SetsRecord

(* An existing instance is a record.                                            *)
LEMMA IsRecord ==
  ASSUME IndInv, NEW id \in Ids, inst[id] # None
  PROVE  inst[id] \in Records /\ inst \in [Ids -> Records \cup {None}]
  BY DEF IndInv, TypeOK

(* The resting states are states.                                               *)
LEMMA WaitingIsState == \A mode \in Modes : Waiting(mode) \in States
  BY DEF Waiting, States

(* A call that suspends itself on an existing instance.                         *)
LEMMA CallStarts ==
  ASSUME IndInv, SetsRecord, NEW c \in Callers, NEW id \in Ids, inst[id] # None,
         NEW op \in {"start", "stop", "remove", "removing"},
         calls' = [calls EXCEPT ![c] = [op |-> op, id |-> id, own |-> TRUE]]
  PROVE  CallsInv'
  <1>1. [op |-> op, id |-> id, own |-> TRUE] \in CallRecords
    BY DEF CallRecords
  <1> QED
    BY <1>1, CallsKept

(* A step that leaves the bridge maps alone.                                    *)
LEMMA BridgeKept ==
  ASSUME IndInv, UNCHANGED <<sockets, pending, conn, handler>>
  PROVE  BridgeInv'
  BY DEF IndInv, TypeOK, BridgeInv, PendingHasSocket, SocketBound

(* start() sets one record.                                                     *)
LEMMA StartsSets ==
  ASSUME NEW c \in Callers, NEW id \in Ids, NEW r \in Records, Starts(c, id, r)
  PROVE  SetsRecord
  <1> DEFINE st == IF r.mode = "bridge" THEN "AWAITING_BRIDGE" ELSE "STARTING"
  <1>1. inst' = [inst EXCEPT ![id] = [r EXCEPT !.state = st]]
    BY DEF Starts
  <1>2. st \in States /\ st # "STOPPED"
    BY DEF States
  <1>3. [r EXCEPT !.state = st] \in Records /\ [r EXCEPT !.state = st].state # "STOPPED"
    BY <1>2, StateUpdate
  <1> HIDE DEF st
  <1> QED
    BY <1>1, <1>3, ReplaceRecord

(* start() up to its await preserves the invariant.                             *)
LEMMA StartPreserves ==
  ASSUME IndInv, NEW c \in Callers, NEW id \in Ids, Start(c, id)
  PROVE  IndInv'
  <1>0. inst[id] # None
    BY DEF Start, Instances
  <1>1. SetsRecord
    BY <1>0, IsRecord, StartsSets DEF Start
  <1>2. InstancesInv'
    BY <1>1, InstancesKept DEF Start
  <1>3. CallsInv'
    <2>1. CASE UNCHANGED calls
      BY <1>1, <2>1, CallsKept
    <2>2. CASE calls' = [calls EXCEPT ![c] = [op |-> "start", id |-> id, own |-> TRUE]]
      BY <1>0, <1>1, <2>2, CallStarts
    <2> QED
      BY <2>1, <2>2 DEF Start, Starts
  <1>4. BridgeInv'
    BY BridgeKept DEF Start
  <1> QED
    BY <1>2, <1>3, <1>4, Combine DEF Start

(* start() after its await, when the instance may be gone.                      *)
LEMMA StartedPreserves ==
  ASSUME IndInv, NEW c \in Callers, NEW ok \in BOOLEAN, Started(c, ok)
  PROVE  IndInv'
  <1> DEFINE id == calls[c].id
  <1>0. id \in Ids /\ (calls[c].own => inst[id] # None)
    BY DEF Started, IndInv, TypeOK, CapturedExists, CallRecords, Idle
  <1>1. SetsRecord
    <2>1. CASE calls[c].own /\ ok
      <3>1. inst[id] \in Records /\ inst \in [Ids -> Records \cup {None}]
        BY <1>0, <2>1, IsRecord
      <3>2. inst' = [inst EXCEPT ![id] = [inst[id] EXCEPT !.state = "READY", !.session = TRUE]]
        BY <1>0, <2>1, <3>1 DEF Started
      <3> QED
        BY <1>0, <3>1, <3>2, SessionUpdate, ReplaceRecord DEF States
    <2>2. CASE calls[c].own /\ ~ok
      <3>1. inst[id] \in Records /\ inst \in [Ids -> Records \cup {None}]
        BY <1>0, <2>2, IsRecord
      <3>2. inst' = [inst EXCEPT ![id] = [inst[id] EXCEPT !.state = "ERROR"]]
        BY <1>0, <2>2, <3>1 DEF Started
      <3> QED
        BY <1>0, <3>1, <3>2, StateUpdate, ReplaceRecord DEF States
    <2>3. CASE ~calls[c].own
      BY <2>3 DEF Started, SetsRecord
    <2> QED
      BY <2>1, <2>2, <2>3
  <1>2. InstancesInv'
    BY <1>1, InstancesKept DEF Started
  <1>3. CallsInv'
    BY <1>1, CallsKept DEF Started, CallRecords
  <1>4. BridgeInv'
    BY BridgeKept DEF Started
  <1> QED
    BY <1>2, <1>3, <1>4, Combine DEF Started

(* configure() preserves it.                                                    *)
LEMMA ConfigurePreserves ==
  ASSUME IndInv, NEW id \in Ids, NEW mode \in Modes, Configure(id, mode)
  PROVE  IndInv'
  <1>0. inst[id] \in Records /\ inst \in [Ids -> Records \cup {None}]
    BY IsRecord DEF Configure, Instances
  <1>1. SetsRecord
    <2>1. inst' = [inst EXCEPT ![id] = [inst[id] EXCEPT !.mode = mode, !.state = Waiting(mode),
                                                        !.session = FALSE]]
      BY <1>0 DEF Configure
    <2> QED
      BY <1>0, <2>1, WaitingIsState, ModeUpdate, ReplaceRecord
  <1>2. InstancesInv'
    BY <1>1, InstancesKept DEF Configure
  <1>3. CallsInv'
    BY <1>1, CallsKept DEF Configure
  <1>4. BridgeInv'
    BY BridgeKept DEF Configure
  <1> QED
    BY <1>2, <1>3, <1>4, Combine DEF Configure

(* The end of stop() preserves the parts it touches.                            *)
LEMMA StopEndsPreserves ==
  ASSUME IndInv, NEW id \in Ids, NEW own \in BOOLEAN, own => inst[id] # None,
         StopEnds(id, own), UNCHANGED <<bindings, handler>>
  PROVE  SetsRecord /\ InstancesInv' /\ BridgeInv'
  <1>1. SetsRecord
    <2>1. CASE own
      <3>1. inst[id] \in Records /\ inst \in [Ids -> Records \cup {None}]
        BY <2>1, IsRecord
      <3>2. Waiting(inst[id].mode) \in States
        BY DEF Waiting, States
      <3>3. inst' = [inst EXCEPT ![id] = [inst[id] EXCEPT !.state = Waiting(inst[id].mode),
                                                          !.session = FALSE]]
        BY <2>1, <3>1 DEF StopEnds, Records
      <3> QED
        BY <3>1, <3>2, <3>3, SessionUpdate, ReplaceRecord
    <2>2. CASE ~own
      BY <2>2 DEF StopEnds, SetsRecord
    <2> QED
      BY <2>1, <2>2
  <1>2. InstancesInv'
    BY <1>1, InstancesKept
  <1>3. BridgeInv'
    BY DEF StopEnds, Rejected, Closing, IndInv, TypeOK, BridgeInv, PendingHasSocket, SocketBound
  <1> QED
    BY <1>1, <1>2, <1>3

(* stop() and remove() up to their await.                                       *)
LEMMA StopPreserves ==
  ASSUME IndInv, NEW c \in Callers, NEW id \in Ids, Stop(c, id)
  PROVE  IndInv'
  <1>0. inst[id] # None
    BY DEF Stop, Instances
  <1>1. CASE inst[id].session
    <2>1. /\ UNCHANGED <<inst, bindings, sockets, pending, conn, handler, disk, faults, restarts>>
          /\ calls' = [calls EXCEPT ![c] = [op |-> "stop", id |-> id, own |-> TRUE]]
      BY <1>1 DEF Stop
    <2>2. SetsRecord
      BY <2>1 DEF SetsRecord
    <2> QED
      BY <1>0, <2>1, <2>2, InstancesKept, CallStarts, BridgeKept, Combine
  <1>2. CASE ~inst[id].session
    <2>1. StopEnds(id, TRUE) /\ UNCHANGED <<bindings, handler, calls>> /\ Persist
      BY <1>2 DEF Stop
    <2>2. SetsRecord /\ InstancesInv' /\ BridgeInv'
      BY <1>0, <2>1, StopEndsPreserves
    <2> QED
      BY <2>1, <2>2, CallsKept, Combine
  <1> QED
    BY <1>1, <1>2

(* remove() up to its await.                                                    *)
LEMMA RemovePreserves ==
  ASSUME IndInv, NEW c \in Callers, NEW id \in Ids, Remove(c, id)
  PROVE  IndInv'
  <1>0. inst[id] # None
    BY DEF Remove, Instances
  <1>1. CASE inst[id].session
    <2>1. /\ UNCHANGED <<inst, bindings, sockets, pending, conn, handler, disk, faults, restarts>>
          /\ calls' = [calls EXCEPT ![c] = [op |-> "remove", id |-> id, own |-> TRUE]]
      BY <1>1 DEF Remove
    <2>2. SetsRecord
      BY <2>1 DEF SetsRecord
    <2> QED
      BY <1>0, <2>1, <2>2, InstancesKept, CallStarts, BridgeKept, Combine
  <1>2. CASE ~inst[id].session
    <2>1. /\ StopEnds(id, TRUE) /\ UNCHANGED <<bindings, handler>> /\ Persist
          /\ calls' = [calls EXCEPT ![c] = [op |-> "removing", id |-> id, own |-> TRUE]]
      BY <1>2 DEF Remove
    <2>2. SetsRecord /\ InstancesInv' /\ BridgeInv'
      BY <1>0, <2>1, StopEndsPreserves
    <2> QED
      BY <1>0, <2>1, <2>2, CallStarts, Combine
  <1> QED
    BY <1>1, <1>2

(* stop(), and the stop inside remove(), after the await.                       *)
LEMMA StoppedPreserves ==
  ASSUME IndInv, NEW c \in Callers, NEW ok \in BOOLEAN, Stopped(c, ok)
  PROVE  IndInv'
  <1> DEFINE new == IF calls[c].op = "stop" THEN Idle ELSE [calls[c] EXCEPT !.op = "removing"]
  <1>1. /\ calls[c] \in [op : {"start", "stop", "remove", "removing"}, id : Ids, own : BOOLEAN]
        /\ calls[c].id \in Ids /\ calls[c].own \in BOOLEAN
        /\ calls[c].own => inst[calls[c].id] # None
    BY DEF Stopped, IndInv, TypeOK, CapturedExists, CallRecords, Idle
  <1>2. /\ calls' = [calls EXCEPT ![c] = new]
        /\ new \in CallRecords
        /\ new # Idle /\ new.own => inst[new.id] # None
    BY <1>1 DEF Stopped, CallRecords, Idle
  <1> HIDE DEF new
  <1>3. CASE ok
    <2>1. StopEnds(calls[c].id, calls[c].own) /\ UNCHANGED <<bindings, handler>> /\ Persist
      BY <1>3 DEF Stopped
    <2>2. SetsRecord /\ InstancesInv' /\ BridgeInv'
      BY <1>1, <2>1, StopEndsPreserves
    <2> QED
      BY <1>2, <2>1, <2>2, CallsKept, Combine
  <1>4. CASE ~ok
    <2>1. UNCHANGED <<inst, bindings, sockets, pending, conn, handler, disk, faults, restarts>>
      BY <1>4 DEF Stopped
    <2>2. SetsRecord
      BY <2>1 DEF SetsRecord
    <2> QED
      BY <1>2, <2>1, <2>2, InstancesKept, CallsKept, BridgeKept, Combine
  <1> QED
    BY <1>3, <1>4

(* The end of remove(): no binding and no captured object of it is left.        *)
LEMMA RemovedPreserves ==
  ASSUME IndInv, NEW c \in Callers, Removed(c)
  PROVE  IndInv'
  <1>0. calls[c].id \in Ids
    BY DEF Removed, IndInv, TypeOK, CallRecords, Idle
  <1>1. InstancesInv'
    BY <1>0 DEF Removed, IndInv, TypeOK, InstancesInv, BindingsResolve, StoppedHoldsNoSession,
                Instances
  <1>2. CallsInv'
    <2>1. calls' \in [Callers -> CallRecords]
      BY DEF Removed, IndInv, TypeOK, CallRecords, Idle
    <2>2. ASSUME NEW d \in Callers, calls'[d] # Idle, calls'[d].own
          PROVE  inst'[calls'[d].id] # None
      <3>1. calls'[d] = calls[d] /\ calls[d].id # calls[c].id /\ calls[d].id \in Ids
        BY <2>2 DEF Removed, IndInv, TypeOK, CallRecords, Idle
      <3>2. inst'[calls[d].id] = inst[calls[d].id]
        BY <1>0, <3>1 DEF Removed, IndInv, TypeOK
      <3> QED
        BY <2>2, <3>1, <3>2 DEF IndInv, CapturedExists
    <2> QED
      BY <2>1, <2>2 DEF CallsInv, CapturedExists
  <1> QED
    BY <1>1, <1>2, BridgeKept, Combine DEF Removed

(* A new instance is a record without a session.                                *)
LEMMA NewInstanceIsRecord ==
  ASSUME NEW mode \in Modes, NEW st \in States, NEW ctx \in Contexts \cup {None}
  PROVE  /\ NewInstance(mode, st, ctx) \in Records
         /\ ~NewInstance(mode, st, ctx).session
  BY DEF NewInstance, Records

(* add(), with and without the start.                                           *)
LEMMA AddPreserves ==
  ASSUME IndInv, NEW c \in Callers, NEW id \in Ids, NEW mode \in Modes, Add(c, id, mode)
  PROVE  IndInv'
  <1> DEFINE r == NewInstance(mode, Waiting(mode), None)
  <1>1. r \in Records /\ ~r.session
    BY WaitingIsState, NewInstanceIsRecord
  <1>2. /\ UNCHANGED <<bindings, sockets, pending, conn, handler>> /\ Persist
        /\ inst[id] = None
        /\ Starts(c, id, r) \/ (inst' = [inst EXCEPT ![id] = r] /\ UNCHANGED calls)
    BY DEF Add, Instances
  <1> HIDE DEF r
  <1>3. SetsRecord
    BY <1>1, <1>2, StartsSets, ReplaceRecord
  <1>4. CallsInv'
    <2>1. CASE UNCHANGED calls
      BY <1>3, <2>1, CallsKept
    <2>2. CASE calls' = [calls EXCEPT ![c] = [op |-> "start", id |-> id, own |-> TRUE]]
      <3>1. calls' \in [Callers -> CallRecords]
        BY <2>2 DEF IndInv, TypeOK, CallRecords
      <3>2. inst'[id] # None
        <4>1. inst \in [Ids -> Records \cup {None}]
          BY DEF IndInv, TypeOK
        <4>2. inst'[id] \in {r} \cup {[r EXCEPT !.state = st] : st \in States}
          BY <1>2, <4>1 DEF Starts, States
        <4> QED
          BY <1>1, <4>2, StateUpdate
      <3>3. ASSUME NEW d \in Callers, calls'[d] # Idle, calls'[d].own
            PROVE  inst'[calls'[d].id] # None
        <4>1. CASE d = c
          BY <2>2, <3>2, <4>1 DEF IndInv, TypeOK
        <4>2. CASE d # c
          <5>1. calls'[d] = calls[d] /\ calls[d].id \in Ids
            BY <2>2, <3>3, <4>2 DEF IndInv, TypeOK, CallRecords, Idle
          <5>2. inst[calls[d].id] # None
            BY <3>3, <5>1 DEF IndInv, CapturedExists
          <5> QED
            BY <1>3, <5>1, <5>2, RecordSet
        <4> QED
          BY <4>1, <4>2
      <3> QED
        BY <3>1, <3>3 DEF CallsInv, CapturedExists
    <2> QED
      BY <1>2, <2>1, <2>2 DEF Starts
  <1> QED
    BY <1>2, <1>3, <1>4, InstancesKept, BridgeKept, Combine

(* bind() needs an existing instance, unbind() nothing.                         *)
LEMMA BindPreserves ==
  ASSUME IndInv, NEW h \in Hosts, NEW id \in Ids, Bind(h, id)
  PROVE  IndInv'
  <1>1. InstancesInv'
    BY DEF Bind, IndInv, TypeOK, InstancesInv, BindingsResolve, StoppedHoldsNoSession, Instances
  <1>2. SetsRecord
    BY DEF Bind, SetsRecord
  <1> QED
    BY <1>1, <1>2, CallsKept, BridgeKept, Combine DEF Bind

(* unbind() preserves it too.                                                   *)
LEMMA UnbindPreserves ==
  ASSUME IndInv, NEW h \in Hosts, Unbind(h)
  PROVE  IndInv'
  <1>1. InstancesInv'
    BY DEF Unbind, IndInv, TypeOK, InstancesInv, BindingsResolve, StoppedHoldsNoSession, Instances
  <1>2. SetsRecord
    BY DEF Unbind, SetsRecord
  <1> QED
    BY <1>1, <1>2, CallsKept, BridgeKept, Combine DEF Unbind

(* A connection that was not attached to anything becomes the one of id.        *)
LEMMA AttachedPreserves ==
  ASSUME IndInv, SetsRecord, NEW s \in Sockets, NEW id \in Ids,
         conn[s] \in {"closed", "greeting"}, Attached(s, id)
  PROVE  IndInv'
  <1>1. BridgeInv'
    <2>1. None \notin Sockets /\ sockets \in [Ids -> Sockets \cup {None}]
      BY DEF IndInv, TypeOK
    <2>2. \A i \in Ids : sockets[i] # s
      BY <2>1 DEF IndInv, SocketBound
    <2> QED
      BY <2>1, <2>2 DEF Attached, Closing, IndInv, TypeOK, BridgeInv, PendingHasSocket, SocketBound
  <1> QED
    BY <1>1, InstancesKept, CallsKept, Combine DEF Attached

(* A new connection.                                                            *)
LEMMA ConnectPreserves ==
  ASSUME IndInv, NEW s \in Sockets, NEW want \in Ids \cup {None}, Connect(s, want)
  PROVE  IndInv'
  <1>1. CASE want \in Instances
    <2>1. inst[want] # None /\ want \in Ids
      BY <1>1 DEF Instances
    <2>2. inst[want] \in Records
      BY <2>1, IsRecord
    <2>3. Attached(s, want) /\ conn[s] = "closed"
          /\ inst' = [inst EXCEPT ![want] = [inst[want] EXCEPT !.state = "READY"]]
      BY <1>1 DEF Connect
    <2>4. SetsRecord
      BY <2>1, <2>2, <2>3, StateUpdate, ReplaceRecord DEF States
    <2> QED
      BY <2>1, <2>3, <2>4, AttachedPreserves
  <1>2. CASE want \notin Instances
    <2>1. /\ UNCHANGED <<inst, bindings, sockets, pending, calls, disk, faults, restarts>>
          /\ conn[s] = "closed"
          /\ conn' = [conn EXCEPT ![s] = "greeting"]
          /\ handler' = [handler EXCEPT ![s] = want]
      BY <1>2 DEF Connect
    <2>2. SetsRecord
      BY <2>1 DEF SetsRecord
    <2>3. BridgeInv'
      BY <2>1 DEF IndInv, TypeOK, BridgeInv, PendingHasSocket, SocketBound
    <2> QED
      BY <2>1, <2>2, <2>3, InstancesKept, CallsKept, Combine
  <1> QED
    BY <1>1, <1>2

(* The handshake, which may register an instance.                               *)
LEMMA GreetPreserves ==
  ASSUME IndInv, NEW s \in Sockets, NEW context \in Contexts \cup {None}, Greet(s, context)
  PROVE  IndInv'
  <1>1. conn[s] = "greeting"
    BY DEF Greet
  <1>2. ASSUME NEW id \in Known(s, context), Attached(s, id),
               inst' = [inst EXCEPT ![id] =
                         [@ EXCEPT !.state = "READY", !.context = Reported(id, context)]]
        PROVE  IndInv'
    <2>1. id \in Ids /\ inst[id] # None
      BY <1>2 DEF Known, Instances
    <2>2. inst[id] \in Records /\ Reported(id, context) \in Contexts \cup {None}
      BY <2>1, IsRecord DEF Records, Reported
    <2>4. SetsRecord
      BY <1>2, <2>1, <2>2, ContextUpdate, ReplaceRecord DEF States
    <2> QED
      BY <1>1, <1>2, <2>1, <2>4, AttachedPreserves
  <1>3. ASSUME NEW id \in Ids \ Instances, Attached(s, id),
               inst' = [inst EXCEPT ![id] = NewInstance("bridge", "READY", context)]
        PROVE  IndInv'
    <2>1. SetsRecord
      BY <1>3, NewInstanceIsRecord, ReplaceRecord DEF Modes, States
    <2> QED
      BY <1>1, <1>3, <2>1, AttachedPreserves
  <1> QED
    BY <1>2, <1>3 DEF Greet

(* Events and calls that only touch the bridge maps preserve it when they keep  *)
(* the bridge part.                                                             *)
LEMMA BridgeOnly ==
  ASSUME IndInv, BridgeInv', UNCHANGED <<inst, bindings, calls, disk, faults, restarts>>
  PROVE  IndInv'
  <1>1. SetsRecord
    BY DEF SetsRecord
  <1> QED
    BY <1>1, InstancesKept, CallsKept, Combine

(* A broken connection.                                                         *)
LEMMA DisconnectPreserves ==
  ASSUME IndInv, NEW s \in Sockets, Disconnect(s)
  PROVE  IndInv'
  <1>1. BridgeInv'
    BY DEF Disconnect, IndInv, TypeOK, BridgeInv, PendingHasSocket, SocketBound
  <1> QED
    BY <1>1, BridgeOnly DEF Disconnect

(* An answer of the extension.                                                  *)
LEMMA HandleAnswerPreserves ==
  ASSUME IndInv, NEW s \in Sockets, NEW r \in Requests, HandleAnswer(s, r)
  PROVE  IndInv'
  <1>1. BridgeInv'
    BY DEF HandleAnswer, IndInv, TypeOK, BridgeInv, PendingHasSocket, SocketBound
  <1> QED
    BY <1>1, BridgeOnly DEF HandleAnswer

(* A message over the size limit.                                               *)
LEMMA HandleTooLargePreserves ==
  ASSUME IndInv, NEW s \in Sockets, HandleTooLarge(s)
  PROVE  IndInv'
  <1>1. BridgeInv'
    BY DEF HandleTooLarge, Hears, Rejected, Closing, IndInv, TypeOK, BridgeInv, PendingHasSocket,
           SocketBound
  <1> QED
    BY <1>1, BridgeOnly DEF HandleTooLarge

(* A request: bridgeCall() finds the connection it sends on.                    *)
LEMMA BridgeCallPreserves ==
  ASSUME IndInv, NEW id \in Ids, NEW r \in Requests, BridgeCall(id, r)
  PROVE  IndInv'
  <1>1. BridgeInv'
    BY DEF BridgeCall, IndInv, TypeOK, BridgeInv, PendingHasSocket, SocketBound
  <1> QED
    BY <1>1, BridgeOnly DEF BridgeCall

(* The timer of a request.                                                      *)
LEMMA TimeoutPreserves ==
  ASSUME IndInv, NEW r \in Requests, Timeout(r)
  PROVE  IndInv'
  <1>1. BridgeInv'
    BY DEF Timeout, IndInv, TypeOK, BridgeInv, PendingHasSocket, SocketBound
  <1> QED
    BY <1>1, BridgeOnly DEF Timeout

(* The close event: the connection's requests are rejected with it.             *)
LEMMA HandleBridgeClosePreserves ==
  ASSUME IndInv, NEW s \in Sockets, HandleBridgeClose(s)
  PROVE  IndInv'
  <1> DEFINE id == handler[s]
  <1>0. id \in Ids
    BY DEF HandleBridgeClose, IndInv, SocketBound
  <1>1. BridgeInv'
    BY <1>0 DEF HandleBridgeClose, Rejected, IndInv, TypeOK, BridgeInv, PendingHasSocket,
                SocketBound
  <1>2. SetsRecord
    <2>1. CASE inst' = inst
      BY <2>1 DEF SetsRecord
    <2>2. CASE id \in Instances /\ inst' = [inst EXCEPT ![id].state = "AWAITING_BRIDGE"]
      <3>1. inst[id] \in Records
        BY <1>0, <2>2, IsRecord DEF Instances
      <3> QED
        BY <1>0, <2>2, <3>1, StateUpdate, ReplaceRecord DEF States
    <2> QED
      BY <2>1, <2>2 DEF HandleBridgeClose
  <1> QED
    BY <1>1, <1>2, InstancesKept, CallsKept, Combine DEF HandleBridgeClose

(* A ready message, on a replaced or stopped connection too.                    *)
LEMMA HandleReadyPreserves ==
  ASSUME IndInv, NEW s \in Sockets, HandleReady(s)
  PROVE  IndInv'
  <1> DEFINE id == handler[s]
  <1>1. id \in Ids /\ inst[id] # None
    BY DEF HandleReady, Instances
  <1>2. SetsRecord
    <2>1. inst[id] \in Records
      BY <1>1, IsRecord
    <2>2. inst' = [inst EXCEPT ![id] = [inst[id] EXCEPT !.state = "READY"]]
      BY DEF HandleReady
    <2> QED
      BY <1>1, <2>1, <2>2, StateUpdate, ReplaceRecord DEF States
  <1> QED
    BY <1>2, InstancesKept, CallsKept, BridgeKept, Combine DEF HandleReady

(* A restart from the file, or from nothing when the file is torn.              *)
LEMMA RestartPreserves ==
  ASSUME IndInv, NEW file \in {disk, Nothing}, Restart(file)
  PROVE  IndInv'
  <1>1. /\ file.inst \in [Ids -> MetaRecords \cup {None}]
        /\ file.bindings \in [Hosts -> Ids \cup {None}]
        /\ \A h \in Hosts : file.bindings[h] # None => file.inst[file.bindings[h]] # None
        /\ file \in [inst : [Ids -> MetaRecords \cup {None}], bindings : [Hosts -> Ids \cup {None}]]
    BY DEF IndInv, DiskResolves, Nothing
  <1>2. ASSUME NEW id \in Ids, file.inst[id] # None
        PROVE  /\ inst'[id] \in Records
               /\ ~inst'[id].session
    <2>1. file.inst[id].mode \in Modes /\ file.inst[id].context \in Contexts \cup {None}
      BY <1>1, <1>2 DEF MetaRecords
    <2>2. inst'[id] = NewInstance(file.inst[id].mode, Waiting(file.inst[id].mode),
                                  file.inst[id].context)
      BY <1>2 DEF Restart, Load
    <2> QED
      BY <2>1, <2>2, WaitingIsState, NewInstanceIsRecord
  <1>3. \A id \in Ids : file.inst[id] = None => inst'[id] = None
    BY DEF Restart, Load
  <1>4. inst' \in [Ids -> Records \cup {None}]
    <2>1. \A id \in Ids : inst'[id] \in Records \cup {None}
      BY <1>2, <1>3
    <2>2. inst' = [id \in Ids |-> inst'[id]]
      BY DEF Restart, Load
    <2> QED
      BY <2>1, <2>2
  <1>5. BindingsResolve' /\ StoppedHoldsNoSession' /\ bindings' = file.bindings
    <2>1. bindings' = file.bindings
      BY DEF Restart, Load
    <2>2. BindingsResolve'
      BY <1>1, <1>2, <2>1 DEF BindingsResolve, Instances
    <2>3. StoppedHoldsNoSession'
      BY <1>2, <1>3 DEF StoppedHoldsNoSession, Instances
    <2> QED
      BY <2>1, <2>2, <2>3
  <1>6. DiskResolves' /\ faults' = faults /\ restarts' \in 0 .. MaxRestarts
    BY <1>1 DEF Restart, DiskResolves, IndInv, TypeOK
  <1>7. /\ sockets' = [id \in Ids |-> None]
        /\ pending' = [r \in Requests |-> None]
        /\ conn' = [s \in Sockets |-> "closed"]
        /\ handler' = [s \in Sockets |-> None]
        /\ calls' = [c \in Callers |-> Idle]
    BY DEF Restart
  <1>8. PendingHasSocket' /\ CapturedExists' /\ SocketBound'
    BY <1>7 DEF PendingHasSocket, CapturedExists, SocketBound
  <1>9. TypeOK'
    BY <1>1, <1>4, <1>5, <1>6, <1>7 DEF IndInv, TypeOK, CallRecords
  <1> QED
    BY <1>5, <1>6, <1>8, <1>9 DEF IndInv

(* Every step of the pool preserves the invariant.                              *)
LEMMA StepPreserves == IndInv /\ [Next]_vars => IndInv'
  <1>1. ASSUME IndInv, Next PROVE IndInv'
    BY <1>1, AddPreserves, StartPreserves, StopPreserves, RemovePreserves, StartedPreserves,
       StoppedPreserves, RemovedPreserves, ConfigurePreserves, UnbindPreserves, BindPreserves,
       ConnectPreserves, GreetPreserves, DisconnectPreserves, HandleBridgeClosePreserves,
       HandleReadyPreserves, HandleTooLargePreserves, HandleAnswerPreserves, TimeoutPreserves,
       BridgeCallPreserves, RestartPreserves
       DEF Next
  <1>2. ASSUME IndInv, UNCHANGED vars PROVE IndInv'
    BY <1>2 DEF vars, memory, IndInv, TypeOK, BindingsResolve, PendingHasSocket,
                StoppedHoldsNoSession, DiskResolves, CapturedExists, SocketBound, Instances
  <1> QED
    BY <1>1, <1>2

(* The inductive invariant holds throughout.                                    *)
THEOREM Invariance == Spec => []IndInv
  BY InitEstablishes, StepPreserves, PTL DEF Spec

(* The maps of the pool and its suspended calls keep their types.               *)
THEOREM TypeCorrect == Spec => []TypeOK
  BY Invariance, PTL DEF IndInv

(* resolveBinding() always finds the instance, for any overlap of bind and      *)
(* remove and after any restart.                                                *)
THEOREM BindingsAlwaysResolve == Spec => []BindingsResolve
  BY Invariance, PTL DEF IndInv

(* No bridge request outlives the connection of its instance.                   *)
THEOREM RequestsHaveSocket == Spec => []PendingHasSocket
  BY Invariance, PTL DEF IndInv

(* A STOPPED instance holds no session, whatever calls overlap.                 *)
THEOREM StoppedIsEmpty == Spec => []StoppedHoldsNoSession
  BY Invariance, PTL DEF IndInv

(* What the pool lists is true.                                                 *)
THEOREM ListingCoherent == Spec => []PoolCoherent
  BY TypeCorrect, BindingsAlwaysResolve, StoppedIsEmpty, PTL DEF PoolCoherent

(* No step forgets an open connection: the only ones that change the map are    *)
(* the end of stop(), an attachment, the close event and a restart.             *)
ForgetsOnlyClosed ==
    \A id \in Ids : sockets[id] # None /\ sockets'[id] # sockets[id]
                      => conn'[sockets[id]] # "open"

(* Every step of the pool keeps its open connections.                           *)
LEMMA StepForgetsOnlyClosed ==
  ASSUME IndInv, Next
  PROVE  ForgetsOnlyClosed
  <1> USE DEF ForgetsOnlyClosed, IndInv, TypeOK, SocketBound
  <1>1. ASSUME NEW c \in Callers, NEW id \in Ids,
               (\E mode \in Modes : Add(c, id, mode)) \/ Start(c, id)
        PROVE  ForgetsOnlyClosed
    BY <1>1 DEF Add, Start
  <1>2. ASSUME NEW id \in Ids, NEW own, StopEnds(id, own)
        PROVE  ForgetsOnlyClosed
    BY <1>2 DEF StopEnds, Closing
  <1>3. ASSUME NEW c \in Callers, NEW id \in Ids, Stop(c, id) \/ Remove(c, id)
        PROVE  ForgetsOnlyClosed
    BY <1>2, <1>3 DEF Stop, Remove
  <1>4. ASSUME NEW c \in Callers, NEW ok \in BOOLEAN, Stopped(c, ok)
        PROVE  ForgetsOnlyClosed
    <2>1. calls[c].id \in Ids
      BY <1>4 DEF Stopped, CallRecords, Idle
    <2> QED
      BY <1>2, <1>4, <2>1 DEF Stopped
  <1>5. ASSUME NEW c \in Callers, (\E ok \in BOOLEAN : Started(c, ok)) \/ Removed(c)
        PROVE  ForgetsOnlyClosed
    BY <1>5 DEF Started, Removed
  <1>6. ASSUME \/ \E id \in Ids, mode \in Modes : Configure(id, mode)
               \/ \E h \in Hosts : Unbind(h) \/ \E id \in Ids : Bind(h, id)
        PROVE  ForgetsOnlyClosed
    BY <1>6 DEF Configure, Unbind, Bind
  <1>7. ASSUME NEW s \in Sockets, NEW id \in Ids, conn[s] \in {"closed", "greeting"},
               Attached(s, id)
        PROVE  ForgetsOnlyClosed
    BY <1>7 DEF Attached, Closing
  <1>8. ASSUME NEW s \in Sockets, NEW want \in Ids \cup {None}, Connect(s, want)
        PROVE  ForgetsOnlyClosed
    BY <1>7, <1>8 DEF Connect, Instances
  <1>9. ASSUME NEW s \in Sockets, NEW context \in Contexts \cup {None}, Greet(s, context)
        PROVE  ForgetsOnlyClosed
    BY <1>7, <1>9 DEF Greet, Known, Instances
  <1>10. ASSUME NEW s \in Sockets, HandleBridgeClose(s)
         PROVE  ForgetsOnlyClosed
    BY <1>10 DEF HandleBridgeClose
  <1>11. ASSUME NEW s \in Sockets,
                \/ Disconnect(s)
                \/ HandleReady(s)
                \/ HandleTooLarge(s)
                \/ \E r \in Requests : HandleAnswer(s, r)
         PROVE  ForgetsOnlyClosed
    BY <1>11 DEF Disconnect, HandleReady, HandleTooLarge, HandleAnswer
  <1>12. ASSUME NEW r \in Requests, Timeout(r) \/ \E id \in Ids : BridgeCall(id, r)
         PROVE  ForgetsOnlyClosed
    BY <1>12 DEF Timeout, BridgeCall
  <1>13. ASSUME NEW file \in {disk, Nothing}, Restart(file)
         PROVE  ForgetsOnlyClosed
    BY <1>13 DEF Restart
  <1> QED
    BY <1>1, <1>3, <1>4, <1>5, <1>6, <1>8, <1>9, <1>10, <1>11, <1>12, <1>13 DEF Next

(* The pool forgets a connection only when it is closed or being closed.        *)
THEOREM ConnectionsKept == Spec => NoSocketLost
  <1>1. IndInv /\ [Next]_vars => [ForgetsOnlyClosed]_vars
    BY StepForgetsOnlyClosed
  <1> QED
    BY <1>1, Invariance, PTL DEF Spec, NoSocketLost, ForgetsOnlyClosed
=============================================================================
