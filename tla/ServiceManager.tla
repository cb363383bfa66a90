--------------------------- MODULE ServiceManager ---------------------------
(***************************************************************************)
(* The service manager of fabricksd: create, start, stop and delete, the   *)
(* run-module request, and the deployment and teardown of mortar projects. *)
(* Every operation that changes a service holds the write half of the      *)
(* RwLock that AppState keeps around the manager from its first step to    *)
(* its last, so there is one operation `op' at a time; what interleaves    *)
(* with it is what takes other locks or none: the modules written to disk  *)
(* before the lock is asked for, the volume and network handlers, a client *)
(* that hangs up (the future of its handler is dropped at an await) and a  *)
(* restart of the daemon.  ServiceHandle models the steps inside one start *)
(* or stop; here each has a first and a last one.                          *)
(***************************************************************************)
EXTENDS FiniteSets, Dependency

CONSTANTS
  Ids,          \* service ids
  Names,        \* service names
  Code,         \* contents of WASM modules (a digest is that of its content)
  NoCode,       \* the content of a file that cannot be read
  Projects,     \* mortar projects
  NoProject,    \* the project of a service created by itself
  Networks,     \* network names
  Volumes,      \* volume names
  Mortars,      \* mortar files: [project, networks, volumes, services], where
                \* services is a sequence of [name, deps, mounts]
  NoId,         \* no service
  Issued,       \* the requests clients make
  Faults,       \* what may go wrong: "store", "hangup", "restart", "api"
  MaxRequests   \* bound: requests that wait for the lock at once

ASSUME ConstantsAssumption ==
  /\ NoCode \notin Code /\ NoProject \notin Projects /\ NoId \notin Ids
  /\ \A m \in Mortars :
       /\ m.project \in Projects /\ m.volumes \subseteq Volumes
       /\ m.networks \subseteq Networks
       /\ m.services \in Seq([name : Names, deps : SUBSET Names, mounts : SUBSET Volumes])
  /\ Issued \subseteq {"create", "run", "start", "stop", "delete", "deploy",
                       "teardown"}
  /\ Faults \subseteq {"store", "hangup", "restart", "api"}

VARIABLES
  services,   \* id -> [name, project, deps, mounts, digest, code, state]
  stored,     \* the ids with a record in the state store
  projects,   \* project -> the ids created for it, of services that are there
              \* or were deleted since (<<>>: no entry)
  networks,   \* the networks that exist
  volumes,    \* the volumes that exist
  files,      \* the module on disk that a service of a name is created from
  requests,   \* create and run-module requests on their way to the lock
  op          \* the operation that holds the lock

vars == <<services, stored, projects, networks, volumes, files, requests, op>>

CanStart  == {"stopped", "failed"}
CanStop   == {"running", "starting"}
CanDelete == {"stopped", "failed", "creating"}

\* An operation: what it is, where it is, the service it works on, what is
\* left to do, the services it created, and those that were there before.
Operation(kind, pc) ==
  [kind |-> kind, pc |-> pc, at |-> NoId, todo |-> <<>>, made |-> <<>>,
   left |-> {}, mortar |-> NoProject, configs |-> <<>>,
   before |-> DOMAIN services]
NoOp == [Operation("idle", "idle") EXCEPT !.before = {}]

NoServices == [id \in {} |-> NoId]

Idle == op.kind = "idle"
At(pc) == op.pc = pc
Goto(pc) == op' = [op EXCEPT !.pc = pc]
Finish(ok) == op' = [op EXCEPT !.pc = IF ok THEN "ok" ELSE "failed", !.at = NoId]

Init ==
  /\ services = NoServices /\ stored = {} /\ projects = [p \in Projects |-> <<>>]
  /\ networks = {} /\ volumes = {} /\ files = [n \in Names |-> NoCode]
  /\ requests = {} /\ op = NoOp

-----------------------------------------------------------------------------
(* Creating and deleting a service.                                         *)

\* mutant: create_service does not look for the name
NeverTaken(name) == FALSE

Taken(name) == \E id \in DOMAIN services : services[id].name = name

Readable(name) == files[name] # NoCode

Listed == UNION {ToSet(projects[p]) : p \in Projects}

\* An id that was never given to a service (a new UUID) or, at least, is not
\* known any more.
Fresh == Ids \ (DOMAIN services \cup stored \cup Listed)

\* A new service of a config; the module is read again.
Created(config) ==
  [name |-> config.name, project |-> config.project, deps |-> config.deps,
   mounts |-> config.mounts, digest |-> config.digest, code |-> files[config.name],
   state |-> "creating"]

\* mutant: a service is tracked by the project of its state, which is None
TrackedByState(id, config) ==
  /\ services' = [i \in DOMAIN services \cup {id} |->
                    IF i = id THEN Created(config) ELSE services[i]]
  /\ stored' = stored \cup {id} /\ UNCHANGED projects

\* create_service, once the checks have passed; it is tracked by the project
\* of its config.
AddService(id, config) ==
  /\ services' = [i \in DOMAIN services \cup {id} |->
                    IF i = id THEN Created(config) ELSE services[i]]
  /\ stored' = stored \cup {id}
  /\ projects' = IF config.project = NoProject THEN projects
                 ELSE [projects EXCEPT ![config.project] = Append(@, id)]

\* delete_service after mark_deleting; its record stays if the store fails.
\* The list of its project keeps the id: delete_service looks for the project
\* in the state, where ServiceState::new has put None.
RemoveService(id, kept) ==
  /\ kept => "store" \in Faults
  /\ services' = Restrict(services, DOMAIN services \ {id})
  /\ stored' = IF kept THEN stored ELSE stored \ {id}
  /\ UNCHANGED projects

SetState(id, s) == services' = [services EXCEPT ![id].state = s]

-----------------------------------------------------------------------------
(* Requests.                                                                *)

\* The service run_module asks for: build_service_config, with the digest of
\* the bytes it was given.
RunRequest(name, code, nets) ==
  [kind |-> "run", name |-> name, digest |-> code, networks |-> nets]

\* run_module writes the module to <tmp>/fabricks-modules/<name>.wasm and
\* computes the digest before it asks for the lock.
Upload(name, code, nets) ==
  /\ "run" \in Issued /\ Cardinality(requests) < MaxRequests
  /\ files' = [files EXCEPT ![name] = code]
  /\ requests' = requests \cup {RunRequest(name, code, nets)}
  /\ UNCHANGED <<services, stored, projects, networks, volumes, op>>

\* The create handler reads the module and computes its digest.
ReadModule(name) ==
  /\ "create" \in Issued /\ Cardinality(requests) < MaxRequests
  /\ Readable(name)
  /\ requests' = requests \cup {[kind |-> "create", name |-> name,
                                 digest |-> files[name], networks |-> {}]}
  /\ UNCHANGED <<services, stored, projects, networks, volumes, files, op>>

NetworksExist(r) == r.networks \subseteq networks

\* A create or run-module request gets the lock: it fails if a network is
\* missing, the name is taken, the module cannot be read or the record
\* cannot be written; run-module goes on to start what it created.
CreateRequested(r) ==
  /\ Idle /\ requests' = requests \ {r}
  /\ \/ /\ \/ ~NetworksExist(r) \/ Taken(r.name) \/ ~Readable(r.name)
           \/ "store" \in Faults
        /\ op' = Operation(r.kind, "failed")
        /\ UNCHANGED <<services, stored, projects>>
     \/ /\ NetworksExist(r) /\ ~Taken(r.name) /\ Readable(r.name)
        /\ \E id \in Fresh :
             /\ AddService(id, [name |-> r.name, project |-> NoProject,
                                deps |-> {}, mounts |-> {}, digest |-> r.digest])
             /\ \/ r.kind = "create" /\ op' = Operation("create", "ok")
                \/ /\ r.kind = "run"
                   /\ op' = [Operation("run", "start") EXCEPT !.todo = <<id>>]
                \/ /\ r.networks # {} /\ "store" \in Faults    \* cannot join
                   /\ op' = Operation("run", "failed")
  /\ UNCHANGED <<networks, volumes, files>>

\* start, stop or delete of one service: get_handle finds it or the request
\* fails with nothing done (not shown).
Requested(kind, id) ==
  /\ Idle /\ kind \in Issued /\ id \in DOMAIN services
  /\ op' = IF kind = "start" THEN [Operation(kind, "start") EXCEPT !.todo = <<id>>]
           ELSE [Operation(kind, kind) EXCEPT !.at = id]
  /\ UNCHANGED <<services, stored, projects, networks, volumes, files, requests>>

\* The answer is sent and the lock released.
Answer ==
  /\ op.pc \in {"ok", "failed"} /\ op' = NoOp
  /\ UNCHANGED <<services, stored, projects, networks, volumes, files, requests>>

-----------------------------------------------------------------------------
(* Starting and stopping.                                                   *)

\* A service that fails to start ends the request, but not a deployment.
StartEnded(ok) ==
  IF ok \/ op.kind = "deploy"
  THEN op' = [op EXCEPT !.pc = "start", !.at = NoId, !.todo = Tail(@)]
  ELSE Finish(FALSE)

\* start_service first takes a new service out of Creating.
StartBegin ==
  /\ At("start") /\ op.todo # <<>>
  /\ LET id == Head(op.todo) IN
     IF services[id].state \in CanStart \cup {"creating"}
     THEN SetState(id, "starting")
          /\ op' = [op EXCEPT !.pc = "starting", !.at = id]
     ELSE StartEnded(FALSE) /\ UNCHANGED services
  /\ UNCHANGED <<stored, projects, networks, volumes, files, requests>>

\* handle.start() answers: the service runs; or it does not and is left
\* Failed, or Starting when a port or a runtime was refused.  A record that
\* cannot be written is an error as well.
StartEnd ==
  /\ At("starting")
  /\ \/ SetState(op.at, "running") /\ StartEnded(TRUE)
     \/ SetState(op.at, "running") /\ "store" \in Faults /\ StartEnded(FALSE)
     \/ \E s \in {"failed", "starting"} : SetState(op.at, s) /\ StartEnded(FALSE)
  /\ UNCHANGED <<stored, projects, networks, volumes, files, requests>>

StartsDone ==
  /\ At("start") /\ op.todo = <<>> /\ Finish(TRUE)
  /\ UNCHANGED <<services, stored, projects, networks, volumes, files, requests>>

StopBegin ==
  /\ At("stop")
  /\ IF services[op.at].state \in CanStop
     THEN SetState(op.at, "stopping") /\ Goto("stopping")
     ELSE Finish(FALSE) /\ UNCHANGED services
  /\ UNCHANGED <<stored, projects, networks, volumes, files, requests>>

\* handle.stop() has drained the instances.  The teardown of a project only
\* logs an error of the store and goes on to delete the service.
StopEnd ==
  /\ At("stopping") /\ SetState(op.at, "stopped")
  /\ IF op.kind = "teardown" THEN Goto("delete")
     ELSE Finish(TRUE) \/ ("store" \in Faults /\ Finish(FALSE))
  /\ UNCHANGED <<stored, projects, networks, volumes, files, requests>>

\* mutant: a service that was never started cannot be deleted
OnceStarted == CanDelete \ {"creating"}

Deletable == CanDelete

DeleteService ==
  /\ At("delete")
  /\ LET ok == services[op.at].state \in Deletable IN
     \E kept \in BOOLEAN :
     /\ IF ok THEN RemoveService(op.at, kept)
        ELSE ~kept /\ UNCHANGED <<services, stored, projects>>
     /\ IF op.kind = "teardown"
        THEN op' = [op EXCEPT !.pc = "teardown", !.at = NoId, !.todo = Tail(@)]
        ELSE Finish(ok /\ ~kept)
  /\ UNCHANGED <<networks, volumes, files, requests>>

-----------------------------------------------------------------------------
(* Deploying a mortar project.                                              *)

DeployRequested(m) ==
  /\ Idle /\ "deploy" \in Issued
  /\ op' = [Operation("deploy", "networks") EXCEPT !.mortar = m, !.left = m.networks]
  /\ UNCHANGED <<services, stored, projects, networks, volumes, files, requests>>

\* create_mortar_networks: a network that exists is kept; when one cannot be
\* created those that were are deleted again (op.made names them).
DeployNetwork ==
  /\ At("networks")
  /\ \/ \E n \in op.left :
          /\ networks' = networks \cup {n}
          /\ op' = [op EXCEPT !.left = @ \ {n},
                              !.made = IF n \in networks THEN @ ELSE Append(@, n)]
     \/ /\ op.left \ networks # {} /\ "store" \in Faults
        /\ networks' = networks \ ToSet(op.made)
        /\ op' = [op EXCEPT !.pc = "failed", !.made = <<>>]
     \/ /\ op.left = {} /\ UNCHANGED networks
        /\ op' = [op EXCEPT !.pc = "volumes", !.left = op.mortar.volumes, !.made = <<>>]
  /\ UNCHANGED <<services, stored, projects, volumes, files, requests>>

\* create_mortar_volumes: ensure_volume, then get_volume, which fails if the
\* volume was deleted in between.
DeployVolume ==
  /\ At("volumes")
  /\ \/ \E v \in op.left :
          \/ /\ volumes' = volumes \cup {v}
             /\ op' = [op EXCEPT !.pc = "volume", !.todo = <<v>>]
          \/ /\ v \notin volumes /\ "store" \in Faults /\ Finish(FALSE)
             /\ UNCHANGED volumes
     \/ op.left = {} /\ Goto("configs") /\ UNCHANGED volumes
  /\ UNCHANGED <<services, stored, projects, networks, files, requests>>

GetVolume ==
  /\ At("volume")
  /\ IF Head(op.todo) \in volumes
     THEN op' = [op EXCEPT !.pc = "volumes", !.left = @ \ {Head(op.todo)}, !.todo = <<>>]
     ELSE Finish(FALSE)
  /\ UNCHANGED <<services, stored, projects, networks, volumes, files, requests>>

\* The configs of the services, each with the digest of its module now.
Configs(m) ==
  [i \in DOMAIN m.services |->
     [name |-> m.services[i].name, deps |-> m.services[i].deps,
      mounts |-> m.services[i].mounts, project |-> m.project,
      digest |-> files[m.services[i].name]]]

\* The configs are built, validated and ordered; any error ends the
\* deployment, with its networks and volumes left behind.
DeployConfigs ==
  /\ At("configs")
  /\ LET configs == Configs(op.mortar)
         usable == \A i \in DOMAIN configs :
                     /\ configs[i].digest # NoCode
                     /\ configs[i].mounts \subseteq op.mortar.volumes IN
     IF usable /\ StartupOrders(configs) # {}
     THEN \E order \in StartupOrders(configs) :
            op' = [op EXCEPT !.pc = "create", !.todo = order, !.configs = configs]
     ELSE Finish(FALSE)
  /\ UNCHANGED <<services, stored, projects, networks, volumes, files, requests>>

ConfigOf(name) ==
  op.configs[CHOOSE i \in DOMAIN op.configs :
               /\ op.configs[i].name = name
               /\ \A j \in DOMAIN op.configs : op.configs[j].name = name => i <= j]

\* mutant: the services are deleted from the second on
RollbackFrom(made) == SubSeq(made, 2, Len(made))

Rollback(made) == made

\* One service is created, and joins its networks (errors are only logged);
\* the first that cannot be rolls the deployment back.
DeployService ==
  /\ At("create") /\ op.todo # <<>>
  /\ LET config == ConfigOf(Head(op.todo)) IN
     \/ /\ ~Taken(config.name) /\ Readable(config.name)
        /\ \E id \in Fresh :
             AddService(id, config)
             /\ op' = [op EXCEPT !.todo = Tail(@), !.made = Append(@, id)]
     \/ /\ Taken(config.name) \/ ~Readable(config.name) \/ "store" \in Faults
        /\ op' = [op EXCEPT !.pc = "rollback", !.todo = Rollback(op.made)]
        /\ UNCHANGED <<services, stored, projects>>
  /\ UNCHANGED <<networks, volumes, files, requests>>

RollBack ==
  /\ At("rollback")
  /\ IF op.todo = <<>> THEN Finish(FALSE) /\ UNCHANGED <<services, stored, projects>>
     ELSE /\ \E kept \in BOOLEAN : RemoveService(Head(op.todo), kept)
          /\ op' = [op EXCEPT !.todo = Tail(@)]
  /\ UNCHANGED <<networks, volumes, files, requests>>

DeployCreated ==
  /\ At("create") /\ op.todo = <<>>
  /\ op' = [op EXCEPT !.pc = "start", !.todo = op.made]
  /\ UNCHANGED <<services, stored, projects, networks, volumes, files, requests>>

-----------------------------------------------------------------------------
(* Tearing one down.                                                        *)

\* The elements that are in `keep', in their order.  (A recursive function and
\* not SelectSeq, which the provers cannot expand.)
Retain(seq, keep) ==
  LET kept[n \in 0 .. Len(seq)] ==
        IF n = 0 THEN <<>>
        ELSE IF seq[n] \in keep THEN Append(kept[n - 1], seq[n]) ELSE kept[n - 1]
  IN kept[Len(seq)]

\* The services of the project that are still there, in the reverse of the
\* startup order; an error when a dependency is no longer among them.
TeardownRequested(p) ==
  /\ Idle /\ "teardown" \in Issued /\ projects[p] # <<>>
  /\ LET there == Retain(projects[p], DOMAIN services)
         configs == [i \in DOMAIN there |-> services[there[i]]] IN
     \/ \E order \in ShutdownOrders(configs) :
          op' = [Operation("teardown", "teardown") EXCEPT !.mortar = p, !.todo = order]
     \/ /\ ShutdownOrders(configs) = {}
        /\ op' = [Operation("teardown", "failed") EXCEPT !.mortar = p]
  /\ UNCHANGED <<services, stored, projects, networks, volumes, files, requests>>

\* The service of the next name is found and stopped if it can be.
TeardownNext ==
  /\ At("teardown")
  /\ IF op.todo = <<>> THEN Finish(TRUE) /\ UNCHANGED services
     ELSE LET found == {id \in DOMAIN services : services[id].name = Head(op.todo)} IN
          \/ \E id \in found :
               /\ op' = [op EXCEPT !.at = id,
                           !.pc = IF services[id].state \in CanStop
                                  THEN "stopping" ELSE "delete"]
               /\ IF services[id].state \in CanStop
                  THEN SetState(id, "stopping") ELSE UNCHANGED services
          \/ /\ found = {} /\ op' = [op EXCEPT !.todo = Tail(@)]
             /\ UNCHANGED services
  /\ UNCHANGED <<stored, projects, networks, volumes, files, requests>>

-----------------------------------------------------------------------------
(* What happens around the operation.                                       *)

\* The handler of the client is dropped while it waits inside the operation.
HangUp ==
  /\ "hangup" \in Faults /\ ~Idle /\ op' = NoOp
  /\ UNCHANGED <<services, stored, projects, networks, volumes, files, requests>>

\* The volume and network handlers do not take the manager's lock.
DeleteVolume(v) ==
  /\ "api" \in Faults /\ volumes' = volumes \ {v}
  /\ UNCHANGED <<services, stored, projects, networks, files, requests, op>>

ToggleNetwork(n) ==
  /\ "api" \in Faults
  /\ networks' = IF n \in networks THEN networks \ {n} ELSE networks \cup {n}
  /\ UNCHANGED <<services, stored, projects, volumes, files, requests, op>>

\* The daemon starts anew: recover_from_store and the volume manager's
\* load_state are not called, the network manager's is.
Restart ==
  /\ "restart" \in Faults
  /\ services' = NoServices /\ projects' = [p \in Projects |-> <<>>]
  /\ volumes' = {} /\ requests' = {} /\ op' = NoOp
  /\ UNCHANGED <<stored, networks, files>>

Next ==
  \/ \E n \in Names : ReadModule(n)
                      \/ \E c \in Code, nets \in SUBSET Networks : Upload(n, c, nets)
  \/ \E r \in requests : CreateRequested(r)
  \/ \E kind \in {"start", "stop", "delete"}, id \in DOMAIN services : Requested(kind, id)
  \/ \E m \in Mortars : DeployRequested(m)
  \/ \E p \in Projects : TeardownRequested(p)
  \/ StartBegin \/ StartEnd \/ StartsDone \/ StopBegin \/ StopEnd \/ DeleteService
  \/ DeployNetwork \/ DeployVolume \/ GetVolume \/ DeployConfigs
  \/ DeployService \/ RollBack \/ DeployCreated \/ TeardownNext
  \/ Answer \/ HangUp \/ Restart
  \/ \E v \in Volumes : DeleteVolume(v)
  \/ \E n \in Networks : ToggleNetwork(n)

Spec == Init /\ [][Next]_vars

-----------------------------------------------------------------------------
(* Properties.                                                              *)

Live(id) == services[id].state
NoneTwice(seq) == \A i, j \in DOMAIN seq : seq[i] = seq[j] => i = j
Of(p) == {id \in DOMAIN services : services[id].project = p}

\* No two services have one name: create_service checks the names and
\* inserts the service under separate locks, and the module is read between.
NamesUnique ==
  \A a, b \in DOMAIN services : services[a].name = services[b].name => a = b

\* mortar_projects, which lists and teardown go by, has every service of a
\* project, once, and of the other services none, whatever was created,
\* rolled back, torn down in part or deleted since; the ids of deleted
\* services, which stay on it, are never taken for one of another project.
ProjectsAgree ==
  \A p \in Projects :
    ToSet(projects[p]) \cap DOMAIN services = Of(p) /\ NoneTwice(projects[p])

\* A deployment that fails leaves the services it found and no other; one
\* that succeeds has created every service of the file and tried to start
\* each.
DeployAllOrNothing ==
  op.kind = "deploy" =>
    /\ At("failed") => DOMAIN services = op.before
    /\ At("ok") =>
         LET made == DOMAIN services \ op.before IN
         /\ {services[id].name : id \in made} = Known(op.mortar.services)
         /\ \A id \in made : Live(id) # "creating"

\* The dependencies of a service of a deployment have been started, or have
\* failed to, before it is.
DependenciesStartFirst ==
  [][\A id \in DOMAIN services \cap DOMAIN services' :
       (op.kind = "deploy" /\ Live(id) = "creating" /\ Live(id)' = "starting") =>
         \A dep \in Of(services[id].project) :
           services[dep].name \in services[id].deps => Live(dep) # "creating"]_vars

\* Teardown never stops or deletes a service while a service of the project
\* that depends on it still runs.
TeardownKeepsDependencies ==
  [][\A id \in DOMAIN services :
       (op.kind = "teardown" /\ op' # NoOp
          /\ (id \in DOMAIN services' => Live(id) # "stopping" /\ Live(id)' = "stopping")) =>
         \A user \in Of(services[id].project) :
           services[id].name \in services[user].deps => Live(user) \notin CanStop]_vars

\* After a teardown that succeeded only those services of the project are
\* left which an interrupted stop has left in Stopping.
TornDownIsGone ==
  (op.kind = "teardown" /\ At("ok")) => \A id \in Of(op.mortar) : Live(id) = "stopping"

\* The digest recorded for a service is that of the module it runs.
DigestNamesCode == \A id \in DOMAIN services : services[id].digest = services[id].code

\* The volumes a service mounts exist.
MountedVolumesExist == \A id \in DOMAIN services : services[id].mounts \subseteq volumes

-----------------------------------------------------------------------------
(* What ServiceManagerProofs shows every step to preserve.                  *)

States == CanStart \cup CanStop \cup {"creating", "stopping"}
Config == [name : Names, project : Projects \cup {NoProject}, deps : SUBSET Names,
           mounts : SUBSET Volumes, digest : Code \cup {NoCode}]
ServiceRecord == [name : Names, project : Projects \cup {NoProject},
                  deps : SUBSET Names, mounts : SUBSET Volumes,
                  digest : Code \cup {NoCode}, code : Code \cup {NoCode}, state : States]
Request == [kind : {"create", "run"}, name : Names, digest : Code \cup {NoCode},
            networks : SUBSET Networks]

Kinds == {"idle", "create", "run", "start", "stop", "delete", "deploy", "teardown"}
Points == {"idle", "networks", "volumes", "volume", "configs", "create", "rollback",
           "start", "starting", "stop", "stopping", "delete", "teardown", "ok", "failed"}

OpRecord ==
  [kind : Kinds, pc : Points, at : Ids \cup {NoId},
   todo : Seq(Ids \cup Names \cup Volumes), made : Seq(Ids \cup Networks),
   left : SUBSET (Networks \cup Volumes), mortar : Mortars \cup Projects \cup {NoProject},
   configs : Seq(Config), before : SUBSET Ids]

TypeOK ==
  /\ IsFiniteSet(DOMAIN services) /\ DOMAIN services \in SUBSET Ids
  /\ services \in [DOMAIN services -> ServiceRecord] /\ stored \in SUBSET Ids
  /\ projects \in [Projects -> Seq(Ids)] /\ files \in [Names -> Code \cup {NoCode}]
  /\ requests \in SUBSET Request /\ op \in OpRecord

\* An operation is at a point of its own, and what it works on is there.
OpShape ==
  /\ op.kind = "idle" <=> op.pc = "idle"
  /\ op.pc \in {"networks", "volumes", "volume", "configs", "create", "rollback"} =>
       op.kind = "deploy"
  /\ op.pc \in {"start", "starting"} => op.kind \in {"start", "run", "deploy"}
  /\ op.pc = "stop" => op.kind = "stop"
  /\ op.pc = "stopping" => op.kind \in {"stop", "teardown"}
  /\ op.pc = "delete" => op.kind \in {"delete", "teardown"}
  /\ op.pc = "teardown" => op.kind = "teardown"
  /\ op.pc \in {"starting", "stop", "stopping", "delete"} => op.at \in DOMAIN services
  /\ op.pc \in {"start", "starting"} => ToSet(op.todo) \subseteq DOMAIN services
  /\ op.pc = "starting" => op.todo # <<>> /\ op.at = Head(op.todo)

\* A deployment: the services made so far are those of the first names of
\* a startup order, the names to do the rest of it.
FollowsOrder(order) ==
  /\ Len(op.configs) = Len(op.made) + Len(op.todo)
  /\ \A i \in DOMAIN op.made : services[op.made[i]].name = op.configs[order[i]].name
  /\ \A i \in DOMAIN op.todo : op.todo[i] = op.configs[order[Len(op.made) + i]].name

\* What was made is new, and that is all there is besides what was before.
MadeOnly(ids) ==
  /\ DOMAIN services = op.before \cup ToSet(ids) /\ op.before \cap ToSet(ids) = {}
  /\ NoneTwice(ids)

\* No service made needs one made after it.
MadeInOrder ==
  \A i \in DOMAIN op.made : \A dep \in services[op.made[i]].deps :
    \E j \in 1 .. (i - 1) : services[op.made[j]].name = dep

\* The number of services the deployment is through with.
Through == Len(op.made) - Len(op.todo)

Deploying ==
  /\ op.mortar \in Mortars
  /\ op.pc \in {"networks", "volumes", "volume", "configs", "failed"} =>
       DOMAIN services = op.before
  /\ op.pc = "networks" => op.left \subseteq Networks
  /\ op.pc \in {"volumes", "volume"} => op.left \subseteq Volumes
  /\ op.pc \in {"volumes", "volume", "configs"} => op.made = <<>>
  /\ op.pc = "create" =>
       /\ MadeOnly(op.made)
       /\ Known(op.configs) = Known(op.mortar.services)
       /\ \A i \in DOMAIN op.made :
            services[op.made[i]].deps = ConfigOf(services[op.made[i]].name).deps
       /\ ~DependencyNotFound(op.configs)
       /\ \E order \in TopologicalOrders(op.configs) : FollowsOrder(order)
  /\ op.pc = "rollback" => MadeOnly(op.todo)
  /\ op.pc \in {"start", "starting"} =>
       /\ Through >= 0
       /\ \A i \in DOMAIN op.todo : op.todo[i] = op.made[Through + i]
       /\ \A i \in 1 .. Through : Live(op.made[i]) # "creating"
       /\ op.pc = "starting" => Live(op.at) # "creating"
  /\ op.pc \in {"start", "starting", "ok"} =>
       /\ MadeOnly(op.made) /\ MadeInOrder
       /\ {services[op.made[i]].name : i \in DOMAIN op.made} = Known(op.mortar.services)
  /\ op.pc = "ok" => \A i \in DOMAIN op.made : Live(op.made[i]) # "creating"

\* A teardown: what is not on the list any more is gone or stopping, and
\* nothing on the list is needed by something on it that comes later.
TearingDown ==
  /\ op.mortar \in Projects
  /\ op.pc # "failed" => \A id \in Of(op.mortar) :
                           services[id].name \in ToSet(op.todo) \/ Live(id) = "stopping"
  /\ op.pc = "ok" => op.todo = <<>>
  /\ \A id \in DOMAIN services :
       services[id].name \in ToSet(op.todo) => id \in Of(op.mortar)
  /\ \A i, j \in DOMAIN op.todo : i <= j =>
       \A a, b \in DOMAIN services :
         (services[a].name = op.todo[i] /\ services[b].name = op.todo[j]) =>
           services[a].name \notin services[b].deps
  /\ op.pc \in {"stopping", "delete"} =>
       op.todo # <<>> /\ services[op.at].name = Head(op.todo)
  /\ op.pc = "delete" => Live(op.at) \notin CanStop

IInv ==
  /\ TypeOK /\ OpShape /\ NamesUnique /\ ProjectsAgree
  /\ op.kind = "deploy" => Deploying
  /\ op.kind = "teardown" => TearingDown

=============================================================================
