---------------------------- MODULE ServiceHandle ----------------------------
(***************************************************************************)
(* One service of the daemon, as the tokio tasks that serve API requests   *)
(* and proxied connections see it: the ServiceHandle (its state RwLock,    *)
(* its instances and bound_ports mutexes), the ServiceManager methods that *)
(* wrap each handle operation and persist its result, and the RwLock       *)
(* around the whole ServiceManager that every caller takes first.          *)
(*                                                                         *)
(* A step runs from one lock acquisition or await point to the next.  Who  *)
(* holds a lock is read off the program counters, so there is no lock      *)
(* variable to keep in step with them.                                     *)
(***************************************************************************)
EXTENDS Naturals, FiniteSets

CONSTANTS
  Tasks,        \* tokio tasks that call into the manager
  ServiceType,  \* "command", "http" or "tcp"
  Ports,        \* the listen ports of the service's capabilities
  NoPort,
  MinReplicas,  \* config.replicas.min
  Targets,      \* replica counts a scale request may ask for
  Issued,       \* the operations the callers of this instance issue
  Disconnects   \* whether a client may hang up while its request is served

Ops == {"start", "stop", "scale", "delete", "detail", "route"}

ASSUME TypeAssumption    == ServiceType \in {"command", "http", "tcp"}
ASSUME PortAssumption    == NoPort \notin Ports
ASSUME ReplicaAssumption == MinReplicas \in Nat /\ Targets \subseteq Nat
ASSUME CallAssumption    == Issued \subseteq Ops /\ Disconnects \in BOOLEAN

VARIABLES
  svc,        \* ServiceState behind the handle's state RwLock
  instances,  \* length of the handle's instance vector
  bound,      \* bound_ports of the handle
  open,       \* ports the proxy listens on for this service
  runtime,    \* whether http_runtime / tcp_runtime has been created
  present,    \* whether the manager's services map holds the handle
  store,      \* the record of the service in the state store
  pc,         \* where each task is
  frame,      \* the local variables of each task's call
  ahead       \* tasks that queued for the manager lock before this one

vars == <<svc, instances, bound, open, runtime, present, store, pc, frame, ahead>>
resources == <<instances, bound, open, runtime>>
registry == <<present, store>>

-----------------------------------------------------------------------------
(* Values *)

State == {"creating", "stopped", "starting", "running", "stopping", "failed",
          "deleting"}

CanStart  == {"stopped", "failed"}
CanStop   == {"running", "starting"}

CanDeleteRunning == {"stopped", "failed", "creating", "running"}   \* mutant
CanDelete == {"stopped", "failed", "creating"}

\* "ready" always equals "running" in the code and is left out.
ServiceState == [state : State, desired : Nat, running : Nat, failed : Nat,
                 error : BOOLEAN]

NewService == [state |-> "creating", desired |-> 0, running |-> 0, failed |-> 0,
               error |-> FALSE]

NoRecord == [state |-> "none"]

Frame == [op : Ops \cup {"none"}, goal : Nat, left : Nat, errs : Nat,
          port : Ports \cup {NoPort}, snap : ServiceState \cup {NoRecord}]

NoFrame == [op |-> "none", goal |-> 0, left |-> 0, errs |-> 0, port |-> NoPort,
            snap |-> NoRecord]

IsCommand == ServiceType = "command"

-----------------------------------------------------------------------------
(* Program points, by the operation they belong to *)

BindPcs   == {"ports.bind", "ports.record"}
StartPcs  == {"start.created", "start.begin", "ports.lock", "start.runtime",
              "start.finish", "start.spawn", "start.tally", "start.count"} \cup BindPcs
StopPcs   == {"stop.begin", "stop.unbind", "stop.drain", "stop.finish"}
ScalePcs  == {"scale.check", "scale.resize", "scale.spawn", "scale.shrink",
              "scale.tally", "scale.relock", "scale.finish"}
DeletePcs == {"delete.mark", "delete.remove", "delete.erase"}
SavePcs   == {"snapshot", "persist"}
ReadPcs   == {"detail.read", "detail.lock", "route.serve"}

ActivePcs == StartPcs \cup StopPcs \cup ScalePcs \cup DeletePcs \cup SavePcs \cup ReadPcs
Pcs == ActivePcs \cup {"idle", "queued"}

FirstPc(o) == CASE o = "start"  -> "start.created"
                [] o = "stop"   -> "stop.begin"
                [] o = "scale"  -> "scale.check"
                [] o = "delete" -> "delete.mark"
                [] o = "detail" -> "detail.read"
                [] o = "route"  -> "route.serve"

-----------------------------------------------------------------------------
(* Locks *)

\* Mutant: the handlers take the manager for read, as its methods would allow.
NoneExclusive == {}

\* The handlers that take AppState.service_manager for write; the others take
\* it for read, and all of them keep the guard until the request is answered.
Exclusive == {"start", "stop", "scale", "delete"}

InManager == {c \in Tasks : pc[c] \in ActivePcs}

\* Mutant: readers overtake a waiting writer.
CanEnterUnfair(c) ==
  IF frame[c].op \in Exclusive
  THEN InManager = {}
  ELSE \A d \in InManager : frame[d].op \notin Exclusive

\* tokio's RwLock serves its waiters in order, a waiting writer included.
CanEnter(c) ==
  /\ ahead[c] = {}
  /\ IF frame[c].op \in Exclusive
     THEN InManager = {}
     ELSE \A d \in InManager : frame[d].op \notin Exclusive

StateReaders  == {c \in Tasks : pc[c] = "detail.lock"}
StateWriters  == {c \in Tasks : pc[c] = "start.count"}
InstanceOwner == {c \in Tasks : pc[c] \in {"stop.finish", "scale.shrink", "scale.relock",
                                           "scale.finish"}}
PortOwner     == {c \in Tasks : pc[c] \in BindPcs}

CanReadState  == StateWriters = {}
CanWriteState == StateWriters = {} /\ StateReaders = {}
InstancesFree == InstanceOwner = {}
PortsFree     == PortOwner = {}

-----------------------------------------------------------------------------
(* Moving between program points *)

At(c, from) == pc[c] = from
Goto(c, to) == pc' = [pc EXCEPT ![c] = to]

Return(c) ==
  /\ Goto(c, "idle")
  /\ frame' = [frame EXCEPT ![c] = NoFrame]

SetState(s) == svc' = [svc EXCEPT !.state = s]

\* Mutant: the list is cleared but the proxy is not told.
UnbindRecordOnly == bound' = {} /\ UNCHANGED open

\* unbind_service_ports: every recorded port is closed, then the list cleared.
Unbind == open' = open \ bound /\ bound' = {}

-----------------------------------------------------------------------------
(* Calling the manager *)

\* A proxied connection reaches the manager only through an open port.
Call(c, o, n) ==
  /\ At(c, "idle")
  /\ o = "route" => open # {}
  /\ Goto(c, "queued")
  /\ frame' = [frame EXCEPT ![c] = [NoFrame EXCEPT !.op = o, !.goal = n]]
  /\ ahead' = [ahead EXCEPT ![c] = {d \in Tasks : pc[d] = "queued"}]
  /\ UNCHANGED <<svc, resources, registry>>

LeaveQueue(c) == ahead' = [d \in Tasks |-> ahead[d] \ {c}]

\* The guard is granted and get_handle finds the service.
Enter(c) ==
  /\ At(c, "queued") /\ CanEnter(c)
  /\ present
  /\ Goto(c, FirstPc(frame[c].op))
  /\ LeaveQueue(c)
  /\ UNCHANGED <<svc, resources, registry, frame>>

\* The guard is granted but get_handle answers ServiceNotFound.
NotFound(c) ==
  /\ At(c, "queued") /\ CanEnter(c)
  /\ ~present
  /\ Return(c)
  /\ LeaveQueue(c)
  /\ UNCHANGED <<svc, resources, registry>>

\* The client hangs up: hyper drops the handler's future at an await point,
\* and with it every guard the task holds.  At "persist" and "delete.erase" the
\* same step stands for a write to the state store that fails.
HangUp(c) ==
  /\ Disconnects
  /\ pc[c] # "idle"
  /\ Return(c)
  /\ LeaveQueue(c)
  /\ UNCHANGED <<svc, resources, registry>>

\* The client hangs up while the ports are being closed: unbind_service_ports
\* and bind_service_ports await the proxy for each port and clear the list last.
HangUpUnbinding(c) ==
  /\ Disconnects
  /\ \/ At(c, "ports.bind") /\ Ports \ bound # {}
     \/ pc[c] \in {"start.runtime", "stop.unbind"} /\ PortsFree
  /\ \E closed \in SUBSET bound : open' = open \ closed
  /\ Return(c)
  /\ UNCHANGED <<svc, instances, bound, runtime, registry, ahead>>

-----------------------------------------------------------------------------
(* start_service *)

LeaveCreating(c) ==
  /\ At(c, "start.created")
  /\ CanWriteState
  /\ svc' = IF svc.state = "creating" THEN [svc EXCEPT !.state = "stopped"] ELSE svc
  /\ Goto(c, "start.begin")
  /\ UNCHANGED <<resources, registry, frame, ahead>>

StartRefused(c) ==
  /\ At(c, "start.begin")
  /\ CanWriteState
  /\ svc.state \notin CanStart
  /\ Return(c)
  /\ UNCHANGED <<svc, resources, registry, ahead>>

StartBegin(c) ==
  /\ At(c, "start.begin")
  /\ CanWriteState
  /\ svc.state \in CanStart
  /\ svc' = [svc EXCEPT !.state = "starting", !.desired = MinReplicas]
  /\ frame' = [frame EXCEPT ![c].left = MinReplicas]
  /\ Goto(c, IF IsCommand THEN "start.spawn" ELSE "ports.lock")
  /\ UNCHANGED <<resources, registry, ahead>>

LockPorts(c) ==
  /\ At(c, "ports.lock")
  /\ PortsFree
  /\ Goto(c, "ports.bind")
  /\ UNCHANGED <<svc, resources, registry, frame, ahead>>

\* The proxy listens on the next port ...
BindPort(c) ==
  /\ At(c, "ports.bind")
  /\ \E p \in Ports \ (bound \cup open) :
       /\ open' = open \cup {p}
       /\ frame' = [frame EXCEPT ![c].port = p]
  /\ Goto(c, "ports.record")
  /\ UNCHANGED <<svc, instances, bound, runtime, registry, ahead>>

\* ... and bind_service_ports notes it down once the call is back.
RecordPort(c) ==
  /\ At(c, "ports.record")
  /\ bound' = bound \cup {frame[c].port}
  /\ frame' = [frame EXCEPT ![c].port = NoPort]
  /\ Goto(c, "ports.bind")
  /\ UNCHANGED <<svc, instances, open, runtime, registry, ahead>>

\* A port is taken, by this proxy or by another process: the ports bound so far
\* are released and the error is returned, with the state left as it is.
BindFails(c) ==
  /\ At(c, "ports.bind")
  /\ Ports \ bound # {}
  /\ Unbind
  /\ Return(c)
  /\ UNCHANGED <<svc, instances, runtime, registry, ahead>>

\* Mutant: start goes on after the first port.
BindDoneEarly(c) ==
  /\ At(c, "ports.bind")
  /\ Ports \cap bound # {}
  /\ Goto(c, "start.runtime")
  /\ UNCHANGED <<svc, resources, registry, frame, ahead>>

BindDone(c) ==
  /\ At(c, "ports.bind")
  /\ Ports \subseteq bound
  /\ Goto(c, "start.runtime")
  /\ UNCHANGED <<svc, resources, registry, frame, ahead>>

CreateRuntime(c) ==
  /\ At(c, "start.runtime")
  /\ CanReadState
  /\ runtime' = TRUE
  /\ Goto(c, "start.finish")
  /\ UNCHANGED <<svc, instances, bound, open, registry, frame, ahead>>

RuntimeFails(c) ==
  /\ At(c, "start.runtime")
  /\ CanReadState /\ PortsFree
  /\ Unbind
  /\ Return(c)
  /\ UNCHANGED <<svc, instances, runtime, registry, ahead>>

StartFinish(c) ==
  /\ At(c, "start.finish")
  /\ CanWriteState
  /\ svc' = [svc EXCEPT !.state = "running", !.running = 1]
  /\ Goto(c, "snapshot")
  /\ UNCHANGED <<resources, registry, frame, ahead>>

\* spawn_instance, called by start and by scale until the count is reached.
SpawnInstance(c) ==
  /\ pc[c] \in {"start.spawn", "scale.spawn"}
  /\ frame[c].left > 0
  /\ CanReadState /\ InstancesFree
  /\ instances' = instances + 1
  /\ frame' = [frame EXCEPT ![c].left = @ - 1]
  /\ UNCHANGED <<svc, bound, open, runtime, registry, pc, ahead>>

SpawnFails(c) ==
  /\ pc[c] \in {"start.spawn", "scale.spawn"}
  /\ frame[c].left > 0
  /\ CanReadState
  /\ frame' = [frame EXCEPT ![c].left = @ - 1, ![c].errs = @ + 1]
  /\ UNCHANGED <<svc, resources, registry, pc, ahead>>

SpawnDone(c) ==
  /\ pc[c] \in {"start.spawn", "scale.spawn"}
  /\ frame[c].left = 0
  /\ Goto(c, IF pc[c] = "start.spawn" THEN "start.tally" ELSE "scale.tally")
  /\ UNCHANGED <<svc, resources, registry, frame, ahead>>

\* start takes the state lock and, holding it, the instances lock.
StartTally(c) ==
  /\ At(c, "start.tally")
  /\ CanWriteState
  /\ Goto(c, "start.count")
  /\ UNCHANGED <<svc, resources, registry, frame, ahead>>

AllSpawnsFailed(c) == instances = 0 /\ frame[c].errs > 0

\* Mutant: the wanted replicas are reported as running.
CountedDesired(c) == [svc EXCEPT !.running = svc.desired, !.failed = frame[c].errs]

Counted(c) == [svc EXCEPT !.running = instances, !.failed = frame[c].errs]

StartSucceeds(c) ==
  /\ At(c, "start.count")
  /\ InstancesFree
  /\ ~AllSpawnsFailed(c)
  /\ svc' = [Counted(c) EXCEPT !.state = "running"]
  /\ Goto(c, "snapshot")
  /\ UNCHANGED <<resources, registry, frame, ahead>>

StartFails(c) ==
  /\ At(c, "start.count")
  /\ InstancesFree /\ PortsFree
  /\ AllSpawnsFailed(c)
  /\ svc' = [Counted(c) EXCEPT !.state = "failed", !.error = TRUE]
  /\ Unbind
  /\ Return(c)
  /\ UNCHANGED <<instances, runtime, registry, ahead>>

-----------------------------------------------------------------------------
(* stop_service *)

StopRefused(c) ==
  /\ At(c, "stop.begin")
  /\ CanWriteState
  /\ svc.state \notin CanStop
  /\ Return(c)
  /\ UNCHANGED <<svc, resources, registry, ahead>>

StopBegin(c) ==
  /\ At(c, "stop.begin")
  /\ CanWriteState
  /\ svc.state \in CanStop
  /\ SetState("stopping")
  /\ Goto(c, "stop.unbind")
  /\ UNCHANGED <<resources, registry, frame, ahead>>

\* Mutant: stop returns at once when the service has no port.
StopUnbindOnly(c) ==
  /\ At(c, "stop.unbind")
  /\ PortsFree
  /\ Unbind
  /\ IF bound = {} THEN Return(c) ELSE Goto(c, "stop.drain") /\ UNCHANGED frame
  /\ UNCHANGED <<svc, instances, runtime, registry, ahead>>

StopUnbind(c) ==
  /\ At(c, "stop.unbind")
  /\ PortsFree
  /\ Unbind
  /\ Goto(c, "stop.drain")
  /\ UNCHANGED <<svc, instances, runtime, registry, frame, ahead>>

\* Every instance is stopped and the vector cleared under the instances lock,
\* which stays held while the state lock is taken.
StopDrain(c) ==
  /\ At(c, "stop.drain")
  /\ InstancesFree
  /\ instances' = 0
  /\ Goto(c, "stop.finish")
  /\ UNCHANGED <<svc, bound, open, runtime, registry, frame, ahead>>

StopFinish(c) ==
  /\ At(c, "stop.finish")
  /\ CanWriteState
  /\ svc' = [svc EXCEPT !.state = "stopped", !.running = 0]
  /\ Goto(c, "snapshot")
  /\ UNCHANGED <<resources, registry, frame, ahead>>

-----------------------------------------------------------------------------
(* scale_service *)

ScaleRefused(c) ==
  /\ At(c, "scale.check")
  /\ CanReadState
  /\ svc.state # "running"
  /\ Return(c)
  /\ UNCHANGED <<svc, resources, registry, ahead>>

ScaleCheck(c) ==
  /\ At(c, "scale.check")
  /\ CanReadState
  /\ svc.state = "running"
  /\ Goto(c, "scale.resize")
  /\ UNCHANGED <<svc, resources, registry, frame, ahead>>

\* Mutant: the difference is taken without comparing first.
ScaleUpUnguarded(c) ==
  /\ At(c, "scale.resize")
  /\ InstancesFree
  /\ frame' = [frame EXCEPT ![c].left = frame[c].goal - instances]
  /\ Goto(c, "scale.spawn")
  /\ UNCHANGED <<svc, resources, registry, ahead>>

\* Only the scale-up branch drops the instances guard.
ScaleUp(c) ==
  /\ At(c, "scale.resize")
  /\ InstancesFree
  /\ frame[c].goal > instances
  /\ frame' = [frame EXCEPT ![c].left = frame[c].goal - instances]
  /\ Goto(c, "scale.spawn")
  /\ UNCHANGED <<svc, resources, registry, ahead>>

ScaleDown(c) ==
  /\ At(c, "scale.resize")
  /\ InstancesFree
  /\ frame[c].goal <= instances
  /\ Goto(c, "scale.shrink")
  /\ UNCHANGED <<svc, resources, registry, frame, ahead>>

PopInstance(c) ==
  /\ At(c, "scale.shrink")
  /\ instances > frame[c].goal
  /\ instances' = instances - 1
  /\ UNCHANGED <<svc, bound, open, runtime, registry, pc, frame, ahead>>

ShrinkDone(c) ==
  /\ At(c, "scale.shrink")
  /\ instances <= frame[c].goal
  /\ Goto(c, "scale.relock")
  /\ UNCHANGED <<svc, resources, registry, frame, ahead>>

\* Both branches lock the instances again; after scale-down the first guard is
\* still alive.
ScaleTally(c) ==
  /\ pc[c] \in {"scale.tally", "scale.relock"}
  /\ InstancesFree
  /\ Goto(c, "scale.finish")
  /\ UNCHANGED <<svc, resources, registry, frame, ahead>>

ScaleFinish(c) ==
  /\ At(c, "scale.finish")
  /\ CanWriteState
  /\ svc' = [svc EXCEPT !.desired = frame[c].goal, !.running = instances]
  /\ Goto(c, "snapshot")
  /\ UNCHANGED <<resources, registry, frame, ahead>>

-----------------------------------------------------------------------------
(* The tail of start, stop and scale: read the state, then write the record *)

Snapshot(c) ==
  /\ At(c, "snapshot")
  /\ CanReadState
  /\ frame' = [frame EXCEPT ![c].snap = svc]
  /\ Goto(c, "persist")
  /\ UNCHANGED <<svc, resources, registry, ahead>>

Persist(c) ==
  /\ At(c, "persist")
  /\ store' = frame[c].snap
  /\ Return(c)
  /\ UNCHANGED <<svc, resources, present, ahead>>

-----------------------------------------------------------------------------
(* delete_service *)

DeleteRefused(c) ==
  /\ At(c, "delete.mark")
  /\ CanWriteState
  /\ svc.state \notin CanDelete
  /\ Return(c)
  /\ UNCHANGED <<svc, resources, registry, ahead>>

MarkDeleting(c) ==
  /\ At(c, "delete.mark")
  /\ CanWriteState
  /\ svc.state \in CanDelete
  /\ SetState("deleting")
  /\ Goto(c, "delete.remove")
  /\ UNCHANGED <<resources, registry, frame, ahead>>

RemoveHandle(c) ==
  /\ At(c, "delete.remove")
  /\ present' = FALSE
  /\ Goto(c, "delete.erase")
  /\ UNCHANGED <<svc, resources, store, frame, ahead>>

EraseRecord(c) ==
  /\ At(c, "delete.erase")
  /\ store' = NoRecord
  /\ Return(c)
  /\ UNCHANGED <<svc, resources, present, ahead>>

-----------------------------------------------------------------------------
(* Readers: get_detail, and a proxied request or TCP session *)

ReadDetail(c) ==
  /\ At(c, "detail.read")
  /\ CanReadState
  /\ Goto(c, "detail.lock")
  /\ UNCHANGED <<svc, resources, registry, frame, ahead>>

DetailDone(c) ==
  /\ At(c, "detail.lock")
  /\ InstancesFree
  /\ Return(c)
  /\ UNCHANGED <<svc, resources, registry, ahead>>

\* A request is answered, or refused because no runtime was ever created; a TCP
\* session lasts until the guest or the peer ends it.
RouteDone(c) ==
  /\ At(c, "route.serve")
  /\ Return(c)
  /\ UNCHANGED <<svc, resources, registry, ahead>>

-----------------------------------------------------------------------------
(* Specification *)

Init ==
  /\ svc = NewService
  /\ instances = 0
  /\ bound = {}
  /\ open = {}
  /\ runtime = FALSE
  /\ present = TRUE
  /\ store = NewService
  /\ pc = [c \in Tasks |-> "idle"]
  /\ frame = [c \in Tasks |-> NoFrame]
  /\ ahead = [c \in Tasks |-> {}]

Calls(c) == \E o \in Issued : \E n \in (IF o = "scale" THEN Targets ELSE {0}) : Call(c, o, n)

StartStep(c) ==
  \/ LeaveCreating(c) \/ StartRefused(c) \/ StartBegin(c)
  \/ LockPorts(c) \/ BindPort(c) \/ RecordPort(c) \/ BindFails(c) \/ BindDone(c)
  \/ CreateRuntime(c) \/ RuntimeFails(c) \/ StartFinish(c)
  \/ SpawnInstance(c) \/ SpawnFails(c) \/ SpawnDone(c)
  \/ StartTally(c) \/ StartSucceeds(c) \/ StartFails(c)

StopStep(c) ==
  \/ StopRefused(c) \/ StopBegin(c) \/ StopUnbind(c) \/ StopDrain(c) \/ StopFinish(c)

ScaleStep(c) ==
  \/ ScaleRefused(c) \/ ScaleCheck(c) \/ ScaleUp(c) \/ ScaleDown(c)
  \/ PopInstance(c) \/ ShrinkDone(c) \/ ScaleTally(c) \/ ScaleFinish(c)

DeleteStep(c) ==
  \/ DeleteRefused(c) \/ MarkDeleting(c) \/ RemoveHandle(c) \/ EraseRecord(c)

SaveStep(c) == Snapshot(c) \/ Persist(c)

DetailStep(c) == ReadDetail(c) \/ DetailDone(c)

\* The steps the runtime takes by itself once a request has arrived.
Progress(c) ==
  \/ Enter(c) \/ NotFound(c)
  \/ StartStep(c) \/ StopStep(c) \/ ScaleStep(c) \/ DeleteStep(c) \/ SaveStep(c)
  \/ DetailStep(c)

Next == \E c \in Tasks : Calls(c) \/ HangUp(c) \/ HangUpUnbinding(c) \/ RouteDone(c) \/ Progress(c)

Spec == Init /\ [][Next]_vars

\* tokio polls every task that can make progress.  Nothing obliges a client to
\* send a request or to hang up, nor a guest or a peer to end a session.
FairSpec == Spec /\ \A c \in Tasks : WF_vars(Progress(c))

-----------------------------------------------------------------------------
(* Properties *)

TypeOK ==
  /\ svc \in ServiceState
  /\ instances \in Nat
  /\ bound \subseteq Ports
  /\ open \subseteq Ports
  /\ runtime \in BOOLEAN
  /\ present \in BOOLEAN
  /\ store \in ServiceState \cup {NoRecord}
  /\ pc \in [Tasks -> Pcs]
  /\ frame \in [Tasks -> Frame]
  /\ ahead \in [Tasks -> SUBSET Tasks]

\* No request that could change the service is being served.
Quiet == \A c \in InManager : frame[c].op \in {"detail", "route"}

IsActive == svc.state \in {"starting", "running", "stopping"}

\* A service that is not starting, running or stopping holds no instance and no
\* port, at every step and even when clients hang up in the middle of a start
\* or of a stop: handle.rs gives up the ports and the instances before it leaves
\* those states, on every path.
InactiveHoldsNothing == IsActive \/ (instances = 0 /\ bound = {})

\* A running http or tcp service listens on every port it declares: start binds
\* them all or gives up, and stop leaves "running" before it closes the first.
RunningListens ==
  svc.state = "running" /\ ~IsCommand => bound = Ports /\ Ports \subseteq open

\* Between changing requests nothing is listened on that the handle does not
\* know of: a failed start or a stop leaves no port behind in the proxy.
NoLeakedPort == Quiet => open = bound

\* Between changing requests the replica counts of a command service are those
\* of its instance vector, whatever start, stop and scale did before, spawn
\* failures included, and a failed service has an error and failures to show.
ReplicaAccounting ==
  Quiet /\ IsCommand =>
    /\ svc.running = instances
    /\ svc.running <= svc.desired
    /\ svc.state = "failed" => svc.error /\ svc.failed > 0

\* Between changing requests the state store holds what the handle holds, for a
\* service that is running or was stopped after a start, and no record of a
\* service that is gone.
StoreIsCurrent ==
  /\ Quiet /\ svc.state = "running" => store = svc
  /\ Quiet /\ svc.state = "stopped" => store = svc
  /\ Quiet /\ ~present => store = NoRecord

\* Once the handle is out of the services map the service is being deleted and
\* never comes back to life through a request that still holds it.
DeletedStaysDead == ~present => svc.state = "deleting" /\ instances = 0 /\ bound = {}

\* Every step of the handle is a legal step of the service life cycle.
Lifecycle == INSTANCE ServiceLifecycle WITH state <- svc.state,
                                            busy  <- instances > 0 \/ bound # {}
LifecycleSpec == Lifecycle!Spec

\* Every request that reached the daemon is answered.
RequestsAnswered == \A c \in Tasks : pc[c] = "queued" ~> pc[c] = "idle"

\* A service that begins to stop does stop.
StopCompletes == svc.state = "stopping" ~> svc.state = "stopped"

\* A scale request that found the service running brings it to its target and
\* returns (handle.rs: "Scales the service to the target number of replicas").
ScaleCompletes == \A c \in Tasks : pc[c] = "scale.resize" ~> pc[c] = "idle"

-----------------------------------------------------------------------------
(* What ServiceHandleProofs shows every step to preserve *)

\* The manager lock: a request that changes the service is served alone.
Alone ==
  \A c, d \in InManager : c # d => frame[c].op \notin Exclusive

\* A task is at a point of the operation it was called for.
OpAt(o, l) ==
  /\ l \in StartPcs  => o = "start"
  /\ l \in StopPcs   => o = "stop"
  /\ l \in ScalePcs  => o = "scale"
  /\ l \in DeletePcs => o = "delete"
  /\ l \in SavePcs   => o \in {"start", "stop", "scale"}
  /\ l \in ReadPcs   => o \in {"detail", "route"}
  /\ l = "queued"    => o \in Ops

RightOp == \A c \in Tasks : OpAt(frame[c].op, pc[c])

\* Where the one changing request is tells what the handle looks like.
HandleAt(l) ==
  /\ l \in StartPcs \ {"start.created", "start.begin"} =>
       svc.state = "starting" /\ bound \subseteq open
  /\ l \in StopPcs \ {"stop.begin"}   => svc.state = "stopping"
  /\ l \in ScalePcs \ {"scale.check"} => svc.state = "running"
  /\ l \in {"delete.remove", "delete.erase"} => svc.state = "deleting"
  /\ l \in {"start.spawn", "start.tally", "start.count"} => IsCommand
  /\ l \in {"start.runtime", "start.finish"} => bound = Ports
  /\ l \in {"stop.drain", "stop.finish"}  => bound = {}
  /\ l = "stop.finish" => instances = 0

HandleInStep == \A c \in Tasks : HandleAt(pc[c])

\* The port to be recorded is one the proxy has opened.
RecordsPort == \A c \in Tasks : pc[c] = "ports.record" => frame[c].port \in open

IInv ==
  /\ TypeOK
  /\ Alone
  /\ RightOp
  /\ HandleInStep
  /\ RecordsPort
  /\ InactiveHoldsNothing
  /\ RunningListens
  /\ DeletedStaysDead

\* The replica counts of a command service are those of its instances.
CountsAgree ==
  IsCommand =>
    /\ svc.running = instances
    /\ svc.running <= svc.desired
    /\ svc.state = "failed" => svc.error /\ svc.failed > 0

Saved == svc.state \in {"running", "stopped"} => store = svc

\* What the books of the handle - its ports, counts and record - look like at
\* each point of a changing request, when no client hangs up and every record
\* is written.
BooksAt(f, l) ==
  /\ present <=> l # "delete.erase"
  /\ open = IF l = "ports.record" THEN bound \cup {f.port} ELSE bound
  /\ l \in BindPcs \cup {"ports.lock", "start.runtime", "start.finish"} => ~IsCommand
  /\ l \in {"start.created", "stop.begin", "scale.check", "scale.resize", "delete.mark"} =>
       CountsAgree /\ Saved
  /\ l = "start.begin" => CountsAgree /\ (svc.state = "running" => Saved)
  /\ l = "start.spawn" => instances + f.left <= svc.desired
  /\ l \in {"start.tally", "start.count"} => instances <= svc.desired
  /\ l = "scale.spawn" => instances + f.left <= f.goal
  /\ l \in {"scale.tally", "scale.relock", "scale.finish"} => instances <= f.goal
  /\ l \in SavePcs \cup {"delete.remove", "delete.erase"} => CountsAgree
  /\ l = "snapshot" => svc.state \in {"running", "stopped"}
  /\ l = "persist" => f.snap = svc

BooksInStep ==
  \A c \in InManager : frame[c].op \in Exclusive => BooksAt(frame[c], pc[c])

BooksClosed ==
  Quiet => open = bound /\ CountsAgree /\ Saved /\ (~present => store = NoRecord)

Books == BooksInStep /\ BooksClosed

=============================================================================
