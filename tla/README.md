# A TLA+ verification project for fabricks

fabricks runs WebAssembly components as services. `fabricksd`, the daemon, is a
tokio process with a REST API on a Unix socket; it creates services, starts and
stops their instances, listens on their ports and proxies connections to them,
attaches them to networks and volumes, and keeps its records in a sled database.
`fabricks` is the command-line client, `fabricks-runtime` wraps wasmtime,
`fabricks-oci` stores and fetches component artifacts, and `fabricks-common`
parses and validates the two file formats. The core logic, and nearly all of the
concurrency, is in `fabricksd`; that is what most of these modules model.

## Inventory

| Component | State it keeps | Operations | What makes it correct |
|---|---|---|---|
| Service handle (`service/handle.rs`, `types.rs`) | `ServiceState` behind an RwLock, instances and bound ports behind mutexes, optional HTTP/TCP runtime | start, stop, scale, get_detail, handle_http_request, handle_tcp_connection, mark_deleting | legal state moves; resources only while active; counts that match the instances; every call returns |
| Service manager (`service/manager.rs`) | services map, mortar projects, state store; one RwLock around all of it (`state.rs`) | create, start, stop, scale, delete, get, list, route, deploy, teardown, recover | stored record = handle; one service per name; a failed deploy leaves nothing behind; state survives a restart |
| Dependency order (`service/dependency.rs`) | none | resolve_startup_order, resolve_shutdown_order, validate_dependencies | every dependency before its dependents; cycles and unknown names refused |
| Network manager (`network/manager.rs`) | networks and service-to-networks maps behind two RwLocks, stored networks | create, delete, join, leave, remove from all, ingress check, load | the two maps agree; members exist; ingress only through an external network; no deadlock |
| Service registry (`network/registry.rs`) | name-to-id and id-to-name maps behind two RwLocks | register, unregister, resolve | no task waits for ever for its two locks |
| Connection validation, egress (`network/validation.rs`, `proxy/egress.rs`) | none | validate_connection, validate_ingress | isolation between networks; policies applied |
| Proxy (`proxy/server.rs`, `router.rs`, `loadbalancer.rs`) | listeners, bindings | bind, unbind, shutdown, accept, handle request | listener if and only if binding; one service per port |
| Auto-scaler and metrics (`scaler/`) | policies, cooldowns, samples | check_and_scale, record | bounds and cooldowns respected on stale data |
| Health monitor (`health/`) | checks and results | register, run due checks, check now | status follows the newest result and the thresholds |
| Event bus (`events/`) | broadcast channel, bounded history | publish, subscribe | order, replay, bounded memory |
| Volume manager (`volume/`) | volumes and mounts behind an RwLock, directories | create, delete, mount, unmount | no mounted volume deleted; store and map agree |
| Policy manager and engine (`policy/`) | policies by project | load, unload, evaluate | the decision the rules define |
| Runtime pool (`fabricks-runtime/src/pool.rs`) | compiled modules | get_runtime | bounded cache, one engine |
| State store (`store/`) | sled trees | put, get, delete, list | what was written is read |
| Log buffers (`service/logs.rs`, `fabricks-runtime/src/output.rs`) | a line buffer per output stream, a bounded buffer per service | write, flush, drop; push | lines whole, in order, the newest kept |
| Daemon process (`main.rs`, `shutdown.rs`) | database lock, socket file | start, serve, shut down | one daemon serves a socket; what was accepted is answered |
| Local storage (`fabricks-oci/src/storage.rs`) | blobs and `index.json` on disk, shared by processes | store, load, tag | a load fails for a reason only; what is indexed is there |
| Mortar files (`fabricks-common`) | none | parse, validate, resolve variables | what validation accepts can be deployed, but for variables without a value; substitution means what it says |
| Client and builders (`fabricks`), modules and registry client (`fabricks-oci/src/module.rs`, `client.rs`) | images in the local storage and in registries | build, push, pull, run | an image holds the code of the project it is named for, and so does the service made of it |

Components interact by direct calls on shared `Arc`s. Three things cross
component borders and make the behaviour hard:

* *Locks held across awaits.* Every service request takes the RwLock around the
  `ServiceManager` first (for write when it changes something, for read
  otherwise) and keeps it until it has answered; under it the handle takes its
  own locks, one or two at a time. A proxied request takes the same outer lock.
* *Callbacks.* The proxy calls back into the service manager for each request
  (`state.rs:228-256`), while the service manager calls the proxy to bind and
  close ports.
* *Dropped futures.* hyper drops a handler's future when its client goes away,
  so every handler may stop for good at any of its await points, with its guards
  released and its last steps not taken.

The complete list of hazards, each at its line, is `hazards` in `PROJECT.json`.

## Modules

| Module | What it is |
|---|---|
| `ServiceLifecycle` | abstract specification: the legal moves between the states of a service, and when it may hold instances or ports |
| `ServiceHandle` | one service under concurrent requests: the handle, the manager's wrappers and the manager lock |
| `ServiceHandleProofs` | theorems about `ServiceHandle`, for every value of its constants |
| `MCServiceHandle` | symmetry for the runs of `ServiceHandle` |
| `NetworkManager` | networks, memberships, the service registry and their stored form, lock by lock, under the network API, ingress checks, crashes and failing writes |
| `NetworkManagerProofs` | theorems about `NetworkManager`, with restarts and without hang-ups |
| `MCNetworkManager` | symmetry |
| `Dependency` | the orders in which the services of a project may be started and stopped, as operators |
| `ServiceManager` | creating, deleting, deploying and tearing down under the manager lock, with what does not ask for that lock; uses `Dependency` |
| `ServiceManagerProofs` | theorems about `ServiceManager`, under every fault |
| `MCServiceManager` | three mortar files, and symmetry |
| `PortLifecycle` | abstract specification: how a port is opened for a service, closed and given back |
| `ProxyServer` | composition of services that start and stop, the proxy's listeners and router, and the connections of clients |
| `ProxyServerProofs` | theorems about `ProxyServer`, with hang-ups |
| `MCProxyServer` | an http and a tcp service that want the same port |
| `LocalStorage` | modules stored and loaded by processes that share a directory and may be killed |
| `EventBus` | history and subscriptions of the event bus |
| `VolumeManager` | volumes in the map, on disk and in the store |
| `HealthMonitor` | registrations, health states and checks on their way |
| `Connection` | the decision about a connection, between changes of networks and policies |
| `AutoScaler` | a tick of the scaler between requests of users, and the metrics collector |
| `MortarFile`, `MortarFileProofs` | validation of a mortar file, compared with what the daemon deploys, for every file; uses `Dependency` |
| `LogCapture` | output streams of instances and the log buffer they share |
| `Daemon` | daemon processes with one configuration |
| `RuntimePool` | the cache of modules |
| `VariableResolver`, `VariableResolverProofs` | substitution of variables, compared with substitution at once, for every text |
| `Images`, `ImagesProofs` | the layers of a project's image from its build to a service, and the theorem that they are the project's |
| `PartsProofs` | theorems about `AutoScaler`, `VolumeManager`, `Connection`, `LocalStorage`, `HealthMonitor`, `EventBus`, `LogCapture`, `Daemon` and `RuntimePool` |
| `MCParts` | the instance of the twelve models that share no state with another (`Images` in two halves) |

### ServiceHandle

A task of `Tasks` is a tokio task serving one call. `pc[c]` says where it is and
`frame[c]` holds the local variables of its call: the operation, the requested
count, the instances still to spawn, the spawn errors, the port just bound and
the state read for the record. A step runs from one lock acquisition or await
point to the next.

| Variable | Code |
|---|---|
| `svc` | `ServiceHandle::state` (`ServiceState`: state, replicas, last_error; `ready` always equals `running` and is left out) |
| `instances` | `ServiceHandle::instances`; the vector is only counted: every element of it is `Running` until it is removed |
| `bound` | `ServiceHandle::bound_ports` |
| `open` | the ports on which the proxy listens for this service |
| `runtime` | `http_runtime`, `tcp_runtime` |
| `present`, `store` | the service's entry in `ServiceManager::services` and in the `services` tree |
| `ahead` | the queue of the manager lock: the tasks that asked for it earlier and still wait |

No variable says who holds a lock: a lock is held between two known program
points, so `InManager`, `StateReaders`, `StateWriters`, `InstanceOwner` and
`PortOwner` read the holders off `pc`. `CanEnter` is tokio's fair RwLock: nobody
overtakes a waiter, writers included. That matters twice: it is why every request
is answered, and why one TCP session that stays open stops the whole daemon as
soon as one writer waits behind it.

Actions follow the code in order: `LeaveCreating` to `StartFails` are
`start_service` and `start`, `StopRefused` to `StopFinish` are `stop`,
`ScaleRefused` to `ScaleFinish` are `scale`, `Snapshot` and `Persist` are the
common tail of the three wrappers, `DeleteRefused` to `EraseRecord` are
`delete_service`, `ReadDetail`, `DetailDone` and `RouteDone` the readers. Failures
are disjuncts of their own: `SpawnFails`, `BindFails` (a port is taken, by this
proxy or another process), `RuntimeFails`. `HangUp` drops the future of a task at
its await point; `HangUpUnbinding` does so in the middle of closing ports.

### Abstractions of ServiceHandle

The names, configuration, timestamps and log buffer of a service are left out, as
are events (published after the record is written, read by nobody here). WASM
execution is not modelled: an instance counts from the moment it is pushed on the
vector, and a proxied request is in the guest from the moment it has the manager
lock until `RouteDone`. The state store is one record and a failing write is the
same step as a hang-up at that point. `stop_instance` aborts a task and awaits it;
the drain of all instances is one step, since the instances lock is held
throughout and the vector is cleared last.

### NetworkManager

The network API and the ingress check of the proxy call the `NetworkManager`
directly: the lock around the service manager does not order them. Four tokio
RwLocks guard four maps, and the operations take up to four of them one after
another, keeping those they have.

| Variable | Code |
|---|---|
| `networks` | `NetworkManager::networks`: name, `options.access.is_internal()` and members |
| `memberOf` | `NetworkManager::service_networks`; the list is a set (`retain` removes every copy of an id, and order is never used) |
| `nameToId`, `idToName` | `ServiceRegistry` |
| `store` | the `networks` tree |
| `minted` | the network ids handed out so far (an id is used once) |
| `admitted` | the answer of each task's last ingress check |
| `pc`, `frame`, `ahead` | where each task is, its arguments, and the tasks before it in the queue of the lock it waits for |

A task waits at the program point named after what it will do with the lock;
`WantsRead`, `WantsWrite`, `HoldsRead` and `HoldsWrite` say which lock each point
waits for and which it keeps, and so spell out the lock orders: `networks`,
`service_networks`, `name_to_id`, `id_to_name` in a join, `service_networks` then
`networks` in an ingress check, `id_to_name` then `name_to_id` when a service is
unregistered. `At` is a step of the task at the head of its queue. `Refused` gathers
the early returns. `Persist` is the write that ends a join or a leave and may fail
after the maps have changed; a creation or deletion whose write fails changes
nothing. `HangUp` drops a call with its guards. `Restart` is a crash at any point
followed by `load_state` and `ensure_default_network`; services are not recovered,
because nothing calls `recover_from_store`.

`Issued` chooses the operations of an instance. `remove_service_from_all` is
issued only in `network_safety`: in the program nothing calls it yet. `join_network`
takes the id and the name of a service from its client and checks neither: a join
here is of any id under any name, whatever services there are, so that an id may be
registered under several names and a name go from one id to another (`Register`
overwrites each map by itself). No property is about what a name leads to: the code
promises nothing of it. Descriptions, the other options and timestamps of networks
are left out, and so are the lookups that only read (except the one every handler
starts with).

### ServiceManager

A request that changes services has the write half of the manager lock from its
first step to its last, so there is one operation at a time, `op`, with the locals
of `create_service`, `deploy_mortar` or `teardown_mortar` in it; `requests` are the
create and run-module requests that have not got the lock yet, because what they
write to disk (`files`) before that is not ordered by it.

| Variable | Code |
|---|---|
| `services` | `ServiceManager::services`, with the parts of the config that matter, the digest recorded, the code loaded and the state of the handle |
| `stored` | the `services` tree |
| `projects` | `mortar_projects`: ids go on a project's list when a service is created; a deletion leaves them there |
| `networks`, `volumes` | what the two managers have; their handlers change them at any time |
| `files` | the module under the temporary path of `run_module`, or at `wasm_path` |

`delete_service` would take the id off its project's list if the state of the service
named the project, but `ServiceState::mortar_project` is `None` from the start
(`types.rs:245`) and nothing sets it; only the config has the project. So the lists
keep the ids of services that were deleted, rolled back or torn down, and what goes by
them (`teardown_mortar`, the listing of projects) skips those that are gone.

`ServiceHandle` has the steps inside a start or stop; here each has a beginning and
an end and may fail in between. `Faults` are a store that fails, a client that hangs
up (the operation ends where it is), a restart, and requests to the volume and
network APIs. `Dependency` gives the set of all orders a topological sort may
return, since its input comes out of a hash map.

### ProxyServer

The manager's start and stop (`op`, one at a time) bind and release ports; a port is
in three places, `sockets` (the task that listens, and with which protocol),
`router` and `listeners`, changed one after the other. `told` are the listeners that
were sent the shutdown signal. `conns` are connections: they outlive their listener,
look their port up for every request (`Lookup`) and hold the read half of the manager
lock while a service handles one (`Serve`). A start whose port is refused or, after all
ports are bound, whose runtime is refused gives its ports back one by one, by the steps
of a stop (`handle.rs:428, 438`). `HangUp` drops a start or stop at an
await. `ServiceHandle` sees a bind as one step that succeeds or fails; this module
shows what that step does to the proxy. The load balancer always has one instance
and is left out, as is `ProxyServer::shutdown`, which nothing calls.

`PortLifecycle` is what all this promises of one port: it is free, being opened for a
service, open for it, or closing, and nothing else. `PortView` reads that off the three
places: opening while the socket waits for its route, open while it is routed, closing
while the listener outlives the route. The listener table does not appear in it, since
it is only how a listener is found again. A conflict on a route that has no listener, a
port that goes from one service to the next without a listener that ends in between, and
a socket that a dropped start leaves behind would each be a step `PortLifecycle` does not
have.

### The parts

Twelve models that share no state are instantiated side by side in `MCParts`: a
behaviour of that instance is a behaviour of one of them (`part`).

* `LocalStorage`: a blob's file and its temporary file are absent, partial or whole.
  `storing` is where each process is in `store_module`; the file it has open stays
  open when another one renames it (`fd`). `Kill` ends a process at any step.
* `EventBus`: `publish` is `Record` and `Send`, under two locks. A subscriber has one
  bounded channel, a filtered one a second and the forwarder between them. `sent` is
  a history variable: the order of the second lock.
* `VolumeManager`: a create or delete that has the lock is `change`, at the
  directory, the record or the map. `calls` have resolved a name and wait for it.
  `loads` chooses a daemon that calls `load_state` when it starts; ours does not yet.
* `HealthMonitor`: registrations and health states have a lock each. `checks` are
  the loop's and those made at once; their results arrive any time later.
* `Connection`: `validate_connection` reads the registry, the memberships, the project
  of a service and its policy one after the other (`request.pc`); everything it reads
  may change between, and policies are loaded and unloaded in two steps.
  `reasons` is a history variable: what has spoken against the connection all along.
* `AutoScaler`: `tick` is `check_and_scale` for one service after the other. The
  services' counts follow `ServiceHandle`: a scale that does not add instances hangs
  with the manager's lock.
* `MortarFile`: the depth-first search of `check_circular_dependencies`, from the
  services in any order; `Deployable` is what the daemon makes of the same file. It also
  resolves the variables of each service's environment (`resolves`), which validation
  never looks at.
* `LogCapture`: characters carry the output they come from and a number, so that a
  message shows whether anything was mixed, lost or reordered.
* `Daemon`: sled's file lock, the socket path and, per process, how far `main` is.
  `RequestShutdown` before `SubscribeShutdown` is lost, as in the code.
* `RuntimePool`: a look-up that misses and the insertion are steps of their own.
* `VariableResolver`: a text is a sequence of tokens, of which a name stands for
  `${variable.name`; `Substitute` is one turn of the loop over the references found.
* `Images`: an image is the project its configuration names and its layers, each of a
  type and with the code of a project; `cut` is history: a push or a pull left out
  layers. A command takes the storage in one step. `asked` are the references the
  client has sent. A request to run one is three steps, since other requests of its
  name come between: it loads the image (`RunLoads`), writes `<project>.wasm` and the
  sources (`RunWrites`), and creates the service under the manager lock, from
  whatever the file holds by then (`RunCreates`). A service is the image its
  configuration is of and the one its file was written from. The directory the sources
  are extracted to is named after the project and never cleared; older sources of one
  project are not told apart. A file is written in one step, so that a service made of
  half a file, which does not start, is left out.

## Runs

Each run answers one question; `expect` in `PROJECT.json` says whether TLC must
finish without an error or must find the stated property violated.

| Run | Instance | What it shows |
|---|---|---|
| `handle_command` | 3 tasks, command service, min 2 replicas, targets 1 and 3 | types, replica accounting and the stored record, spawn failures included |
| `handle_hangup` | 2 tasks, http service, 2 ports, hang-ups | a running service listens on all its ports, deleted stays dead, refinement of `ServiceLifecycle`: legal moves, and resources only while active |
| `handle_answers` | 3 tasks, http service, 2 ports; no scale requests, no sessions, no hang-ups | every request is answered; a stop that begins ends; failed starts and stops leave no port open |
| `network_safety` | 2 tasks, 2 networks, 2 service ids, 2 names, every operation, crashes | both directions of membership and the store agree, no service is in a network that is gone, ingress is decided on memberships that hold |
| `network_answers` | 2 tasks, 2 networks, 1 service, hang-ups, failing writes; no ingress checks | every call returns |
| `manager_projects` | 3 ids, 2 names, 2 projects, 3 mortar files (a dependency, a shared name, a cycle), every request and fault | names are unique; projects list all their services and no other project's; a failed deployment leaves no service; a teardown that succeeded leaves nothing but interrupted stops; dependencies start first and stop last |
| `proxy_ports` | an http service with 2 ports, a tcp service that wants one of them, 2 connections, hang-ups | sockets, router and table agree when nothing is under way; no connection is handled with the wrong protocol; no service changes under its own request; ports are given back; refinement of `PortLifecycle` |
| `parts` | one small instance of each part | see the list below |
| `handle_scale_down` | violation | scale-down locks the instances mutex twice and never returns |
| `network_deadlock` | violation | a join and an ingress check wait for each other for ever |
| `manager_digest` | violation | two run-module requests of one name cross: a service runs code under another's digest |
| `manager_volumes` | violation | a volume is deleted under a deployed service, because services never register their mounts |

`parts` shows, each under the faults of its component: a load of a module breaks off
only while its blob is being written, or after a writer was killed
(`LoadsFailForAReason`), and a module that is indexed is there (`IndexedIsPresent`); a subscriber
is cut off rather than shown a gap or another order (`NoGaps`); names of volumes are
unique, crashes included (`VolumeNamesUnique`), and mounts protect
(`MountedStays`); health states belong to registered services and count their
failures (`HealthIsRegistered`); a connection against which something spoke all along
is refused (`RefusalsHold`); a scale-up never leaves more than the maximum and a
scale-down takes none of the minimum, whatever users do (`ScalerStaysInBounds`);
validation and deployment judge cycles alike, and differ in variables only
(`VerdictsAgree`); logs are neither mixed
nor gapped (`OutputInOrder`); the socket
leads to the daemon that serves (`SocketIsServed`); the pool keeps its limit
(`PoolBounded`); variables are replaced as if all at once (`ResolvesOnce`); images and services
hold the code of the project they are named for, also when two requests of one name
cross (`CodeFollowsConfig`).

Each violation run checks one statement of a doc comment that the code does not
keep; `findings` in `PROJECT.json` quotes it. The first two have a passing
counterpart that shows the rest of the behaviour to be right: `RequestsAnswered`
without scale requests, `CallsReturn` without ingress checks.

Other places where the program does not do what one would expect were seen while
modelling. They are in the models, no property promises otherwise, and no run is
spent on them: a user's scale request is not held to the limits of the scaler's policy, so a
scale-down decided before it may leave a service above its maximum, and a scale-up may
take instances away; a bind that finds its port routed to another service is refused
by the listener table before it asks the router, whose own check is never the one
to fail; a start whose port is taken stays "starting", and a stop whose client
leaves stays "stopping", from which no request moves the service; a deleted service
stays a member of its networks and on the list of its project (the comment at
`manager.rs:309` says it is removed); a client may register any service id under any
name, and take a name over; a leave whose client hangs up leaves the service
reachable from outside; records of services outlive a restart unread, and volumes are
forgotten by one; of two processes that store modules at once one may drop the
other's reference; a service whose policy was loaded and unloaded by crossing requests
has none; files whose services have other names than their keys pass validation and
fail to deploy, and so do files with a variable that has neither value nor default; a
process killed while it writes a blob that another has just renamed leaves a part of it
under its digest, and no later store of that blob replaces it (`storage.rs:173`); of two
requests to run different images of one project the first may get the other's code, or
the other's interpreter without sources; a shutdown request at the very start is lost; push sends the first
layer of an image and pull stores one, so that an interpreted project that went
through a registry arrives as its interpreter (`push.rs:107`, `pull.rs:107`); pull
stores a runtime under its own name and version, not under the reference a build
looks for (`build.rs:249`) unless `--tag` says so; `service run <path>` runs what is
stored under the name and version of the project, however old, and builds it without
its base or interpreter if nothing is; a composed image runs without its base, since
nothing calls `compose_components`; an allowed connection to a service gets 503
over HTTP, since nothing sets the handler for internal routes (`egress.rs:481`), and
over TCP goes to whatever DNS says of its name (`egress.rs:382`); a variable whose value
contains a reference, or is empty and joins one, may be resolved more than once.

Deadlock is not checked in the runs that include scale-down, because there the
program really stops (see `handle_scale_down`), nor in violation runs, nor in
`network_safety` (ingress checks, see `network_deadlock`; and unregistering takes
the locks of the registry in the opposite order), nor in `manager_projects`,
`proxy_ports` and `parts`, which really stop: ids run out, clients go, a file has been
judged. In `handle_hangup` deadlock is
checked and absent: a stuck request always has a client that may leave. It is
checked in `handle_answers` and `network_answers` too.

*Bounds.* Two tasks are enough for one changing request and one that waits,
queues behind it or reads; `handle_command` uses three so that a reader can queue
behind a writer behind a reader. Two ports make "some but not all ports bound"
possible; a minimum of two replicas makes "some but not all spawns failed"
possible; scale targets are below, at and above the running count. No counter
grows without bound, so no state constraint is used. For networks, two tasks show
every pair of operations at every pair of points; two network ids allow the
default network beside another one, or a network created under the name of one that
was deleted; two service ids and two names allow an id under two names and a name of two
ids. Network ids run out: `minted` is the bound, and a creation that finds
none left is refused.

For deployments, two services and an edge show every order; a second project that
shares a name shows what is not this project's; a third id lets one creation fail
after another succeeded. Ids are not used twice while a record or a list has them, one request
waits at a time (`MaxRequests`; two in the violation runs). For the proxy, two
services contend for one port while one of them has a second, so that a bind can fail
after another succeeded; two connections show one that is served while another one's
listener is gone. For the parts: two writers and a layer that two modules share; four
events through channels of one (`MaxEvents`, `BufferSize`), so that subscribers lag;
three volume ids for two names; a health history of two and three failures
(`MaxFailures`); a minimum of two replicas, a maximum of three and users that scale up
to five (`MostReplicas`), so that a count the scaler read may be stale across either
bound; every dependency graph on three services; three outputs of two characters (`MaxChars`) on a log of two
entries; three daemons; three digests on a pool of two; every text of up to six
tokens, long enough for a default, a second use of the same variable and a reference
joined by an empty value, in three environments (one variable has no value, one's value
contains a reference to the other, one's value is empty); a runtime
and an application built in each of the three ways, two names and a reference with a
"/" in the storage, and one reference in a registry. The images are checked in two
halves: builds, pushes and pulls (`StoredNext`), and requests to run (`RunsNext`, two at
a time in `RunTasks`), which start from any store that the first half can leave under two
tags and may build in it; the theorem `CodeIsOwn` is about both at once.

*Fairness.* `FairSpec` assumes weak fairness of `Progress(c)`, the steps the
runtime takes by itself: tokio polls every task that is woken, and its locks wake
their waiters in order. Nothing is assumed of clients (`Calls`, `HangUp`) or of
guests and peers (`RouteDone`). `NetworkManager` assumes the same of its `Progress`.
`ProxyServer` assumes it of `Progress`, the steps of a start or stop under way, and of
`ListenerEnds` for each port: a listener task that was told to shut down is polled.
It assumes nothing of connections, and a start or stop may be dropped at any time.
The other modules have safety properties only and no fairness.

## Proofs

Every theorem is for every value of the constants of its module, under the
assumptions the module declares for them; TLC evaluates those on every run.
"Hang-up" below is a client that leaves, which makes hyper drop the future of its
request.

### The service handle (`ServiceHandleProofs`)

For any set of tasks and ports, any replica counts, any service type, and with or
without hang-ups:

* `Invariant`: `Spec => []IInv`, from `Initial` and `Inductive`;
* `TypeCorrect`, `NothingHeld`, `Listens`, `StaysDead`: `TypeOK`,
  `InactiveHoldsNothing`, `RunningListens` and `DeletedStaysDead` always hold;
* `Refinement`: `Spec => LifecycleSpec`. `InactiveHoldsNothing` follows from it, so no
  run checks that by itself: a service takes resources only in `Work`, while it is
  active, and leaves the active states with none.

The properties are not inductive by themselves: that a stopped service holds no
port depends on where the task that is stopping it is. `IInv` adds what is needed.
`Alone`: a task whose operation needs the manager for write is in it alone (the
reason nothing else moves the handle under it). `RightOp`: a task is at a point of
the operation it was called for. `HandleInStep`: each program point says what the
state, the ports and the instances are there. `RecordsPort`: the port about to be
recorded is open. Inside the proof, a step is first shown to move its own task only
(`Move`, lemmas `StartMoves` to `OtherMoves`), which gives `Alone` and `RightOp` once
for all actions; then `OwnClaims` reduces `HandleInStep` to the claims of the task
that moved, since the others wait. The assumptions are the four of the module:
`ServiceType` is one of three, `NoPort` is no port, replica counts are naturals,
and `Issued` and `Disconnects` are well-formed.

Without hang-ups (`~Disconnects`), which also stand for a record that could not be
written:

* `BooksInvariant`: `Spec => []Books`, an invariant on top of `IInv`;
* `CountsAreKept`, `RecordIsCurrent`, `NoPortLeaks`: `ReplicaAccounting`,
  `StoreIsCurrent` and `NoLeakedPort` always hold.

The hypothesis is needed: a start dropped between two spawns leaves counts, record and
ports as they are at that point. `Books` follows the three through an operation:
`BooksClosed` is what holds when no task is changing the service; `BooksInStep` says
for each program point of the one task that does (`BooksAt`) what the counts may be,
given `instances` and the instances its frame has still to spawn, which port is open
and not yet in `bound`, and at which points the record, or the snapshot about to be
written, is up to date.

### Networks (`NetworkManagerProofs`)

For any tasks, networks, services and names, all operations and restarts at any
point, without hang-ups:

* `Invariant`: `Spec => []IInv`;
* `MapsAlwaysAgree`, `NothingDangles`: `MapsAgree` and `NoDanglingNetwork` always hold;
* `IngressStaysCurrent`: the action property `IngressIsCurrent`;
* `StoreFollows`: `StoreAgrees`, if writes to the store succeed as well.

A join or a leave changes two maps under two locks, one after the other, so between
its halves they differ. `IInv` says by how much: `MapsPaired`, that the maps agree on
every pair except the one a task with the networks in hand is changing; `HalfDone`,
that this task has done its first half. That there is only one such task is `OneWriter`, which comes from the locks:
`Writers` and `Readers` are read off the program points, and a step that takes a lock
found them empty. A client that hangs up between the halves leaves the maps apart for
good, and a write that fails leaves the store behind; hence the two hypotheses.
`StorePaired` is the addition to `IInv` for the store.

### Services, projects and deployments (`ServiceManagerProofs`)

For any ids, names, projects and mortar files, under every fault (failing
writes, hang-ups, restarts, volumes and networks that change at any time), with no
hypothesis but the assumption of the module:

* `Invariant`: `Spec => []IInv`;
* `NamesStayUnique`, `ProjectsStayInStep`, `DeploysAllOrNothing`, `TornDownStaysGone`:
  `NamesUnique`, `ProjectsAgree`, `DeployAllOrNothing` and `TornDownIsGone` always hold;
* `StartsFollowDependencies`, `TeardownFollowsDependencies`: the action properties
  `DependenciesStartFirst` and `TeardownKeepsDependencies`.

`IInv` says how the services relate to the operation under way. `Deploying`: what was
made is new (`MadeOnly`), is the beginning of a startup order (`FollowsOrder`), needs
nothing made later (`MadeInOrder`), and has left "creating" as far as the deployment is
through (`Through`). `TearingDown`: what is off the list is gone or stopping, and nothing
on it is needed by what comes later. The order is one of those of `Dependency`;
`NeedsComeFirst` shows that in each of them a service comes after what it depends on,
when the names differ and all dependencies are known. The daemon does not look for a
name used twice in a file; it creates services until one is taken and rolls back, and
the proof covers such files.

`ProjectsAgree` is about the services that are there: every service of a project is on
its list once, and of the services on it that are there none is another's. The ids of
deleted services stay; that a new service gets an id that is on no list (`Fresh`) is what
UUIDs are taken to give.

`Retain`, what `teardown_mortar` keeps of the list of a project, is a recursive function in
the model, because a `SelectSeq` with a predicate cannot be expanded for the provers.
What it computes for every sequence needs induction, and the induction theorems of the
library take an operator as a parameter. `LeastNumber` gets around that: `WFMin`, the library's
theorem that a set has a minimal element under a well-founded relation, takes a set, and
from it follow `UpTo` (a set that has 0 and, with each number below n, the next one has
all up to n), that the recursion of `Retain` has a solution, and what it keeps.
`AllTaken` is the pigeonhole argument for orders: an injection of a finite set into
itself leaves nothing out.

### The proxy (`ProxyServerProofs`)

For any services, ports and connections, with hang-ups:

* `Invariant`: `Spec => []IInv`;
* `RouterAndTableAgree`, `ProtocolIsKept`: `TablesAgree` and `ProtocolKept` always hold;
* `ServiceIsHeld`: the action property `RequestsHoldTheService`;
* `PortRefinement`: `Spec => PortSpec`, the refinement of `PortLifecycle`.

A port is in three places, and a start or stop that is dropped leaves it in some of
them. `PortKept` lists the combinations in which a port can be, and what changes in
that for the one `AtHand`, which is being bound or released; `ReleasesAll`, that a stop,
or a start being undone, has on its list every port routed to its service. `ConnKept`
relates a connection to the service that serves it: who serves holds the manager
lock, so nothing is under way.

The refinement has a lemma for each step that a port shows: taking a socket, routing it,
taking the route away, the end of a listener and a hang-up (`OpenSocketRefines` and the
like). Each needs `PortKept` for the port at hand: a port without a socket has no route,
so what is claimed was free; a port that waits for its route has none, so routing never
takes one from another service; a listener that was told to end has lost its route.
`OthersRefine` covers the rest, which no port shows.

### Mortar files (`MortarFileProofs`)

`VerdictsAlwaysAgree` proves `FileSpec => []VerdictsAgree` for every file whose services
have different keys (`FilesAssumption`: they are the keys of a hash map). Two algorithms
meet in it, the depth-first search of validation and the daemon's orders of
`StartupOrders`. The inductive invariant `FileInv` says what the search has found out
(`Searched`) and what that means for the verdict (`VerdictKept`):

* The finished nodes, in the order in which they were finished, have what they need
  before them (`Explored`), so when every key is visited and the path is empty they are a
  startup order (`FinishedIsAnOrder`).
* The path follows the dependencies (`PathKept`), so it goes down in every order there
  might be (`GoesDown`); a neighbour that is on the path would have to be below itself
  (`CycleRefutes`). This needs no cycle as an object, which would be a sequence to induct
  over.

`NodeVisited`, `NodeDealtWith` and `NodeFinished` carry this through the three ways a
path changes; `OrderRanks` turns a startup order into the numbers `GoesDown` speaks of.

### Variables (`VariableResolverProofs`)

`ReplacingMeansSubstituting` proves `ResolverSpec => []ResolvesOnce` for every text and
environment: a loop over whole texts does what one pass would. `VariableAssumption` says
that names are other tokens than the rest and that texts and values consist of tokens.

The functions of the model go through a text by positions, the value at one given by
those further right. A recursion of this kind needs neither the library's induction
theorems nor `RECURSIVE`: `FromTheEnd` (induction from the end, for a set of positions, by
`WFMin`), `Recursion` (such a function exists) and `ChainTyped` (whatever satisfies its
equations has its type) serve `References`, `Replaced` and `Meaning` alike, all of them
instances of `Chained`.

The inductive invariant `ResolverInv` is that, for some k, the first k references are
dealt with, and the text so far is the input with the values of those, read from the
left, each where it stands (`Reached`). `OnePass` is the step: replacing one more reference
everywhere changes it exactly where it stands. It goes through the four ways a text can go on: a token
that begins no reference (`NoneBegins`), the reference itself (`ReplacedFirst`), another
one (`RefsDiffer`: none begins another) and a value already put in (`PartStays`).

The case of the token is where the first attempt failed. Of
`${variable.a${variable.b}}` an empty b leaves `${variable.a}`, a reference that was not in the
input; if the input has `${variable.a}` elsewhere, the later pass for it replaces this one
too. `ResolvesOnce` now sets aside inputs in which a reference begins right after the name
in another (`Nested`), and the run has an environment with an empty value, which it had
not: without the condition the run finds the case.

### The smaller parts

`ImagesProofs` proves `CodeIsOwn`, `ImagesSpec => []CodeFollowsConfig`, for any
projects, tags, registries and requests at once. `ImagesInv` adds the types of the
variables, and `RunsInv`: a project's file was written from an image of it whose
sources, if it needs any, are in its directory (`Fits`), and a request that has
written finds a file, though perhaps another's. The work is in the lemmas on layers: `FirstOfFinds`, that `find` returns a layer of the
type it looks for, `WasmBytesIsOwn`, that `wasm_bytes` returns the project's code
unless an interpreter is needed, and `SingleLayer`, which is why an image of one
layer goes through push and pull unharmed. `ImagesAssumption` says what other tools
may have published: images of one or two layers (the structure `module.rs:105-111`
describes), all of one project but for the runtime.

`PartsProofs` has the parts whose proofs are shorter:

* `SocketServed` (`SocketIsServed`), for any number of daemons and requests. That nobody
  else removes a serving daemon's socket needs the database: the invariant adds that a
  process past `OpenDatabase` holds the lock.
* `PoolLimit` (`PoolBounded`), for every limit (0 included, which the run does not have),
  any digests and tasks; the invariant adds that the cache is finite, since
  cardinalities say nothing of other sets.
* `ScalerKeepsBounds` (`ScalerStaysInBounds`, for any counts and limits): a tick that is
  about to scale has compared a count, stale or not, with the limit it moves towards
  (`ScaleIsBounded`), and `ScaledInBounds` is what `scale` makes of a stale count.
* `VolumesKeepTheirNames` (`VolumeNamesUnique`) and `MountedVolumesStay` (`MountedStays`):
  a name is looked up and the volume inserted at different steps of one change.
  `CreateIsNew` and `DeleteIsUnmounted` say what the change under way has found;
  `RecordsFollow`, how far records and volumes are apart, which is what a crash at that
  point leaves to load.
* `RefusalsStand` (`RefusalsHold`): `RequestProgress` says, for each check a request has
  passed, that what it would have refused was not so all along. This needs that the
  ids of services and the hosts outside are not confused, which `ConnectionAssumption`
  says: a host with its port is no UUID.
* `IndexedModulesArePresent` (`IndexedIsPresent`), with processes killed at any point.
  `StoredOrToDo`: a writer has each blob of its module on disk or still on its list.
* `LoadsAreExcused` (`LoadsFailForAReason`), for any number of writers that share
  temporary files. `FilesInv`: as long as nobody is killed, a file that is not whole,
  under the temporary name or moved to the blob's, is open in a writer that has yet to
  write it; `LoadInv`: what a load has yet to read is there.
* `HealthFollowsRegistration` (`HealthIsRegistered`), for any thresholds and length of
  the history. `Halfway` says how registrations and states differ between the two locks
  of a registration; `EndsWith` relates the count to the end of the history without
  taking a maximum, and `LongestStreak` shows that it comes to the same.
* `SubscribersMissNothing` (`NoGaps`), for any publishers, subscribers, filters and
  capacities. `UpToDate` says more than the property: the bus can send to a subscriber
  that is in the list for as long as its channel is open, which may be longer than the
  subscriber lives, as a forwarder finds out late. `SelectsNext` and `TakenOver` carry a
  selection from one event to the next, `SelectsLonger` from one log to a longer one,
  and `Offered` is `try_send`. (`NoGaps` and `OutputInOrder` say of positions what
  `SelectSeq` and `FlattenSeq` would say of sequences, because the provers cannot expand
  those.)
* `LogsAreWhole` (`OutputInOrder`), for any outputs and any capacity. `LogOf` is what holds
  of one output's text whatever the others do; it adds that entries end before the line
  buffer starts and that newlines are older than the line (`EntriesBefore`, `LineIsNew`).
  A step changes either the positions of pieces or one piece: `DroppedEntry`,
  `OthersEntry`, `OwnEntry`, `OneCharacter` and `LineEnded` are the cases, and
  `PushKeepsLog` puts them together.

### Only model-checked

* The liveness properties `RequestsAnswered`, `StopCompletes`, `CallsReturn` and
  `PortsAreFreed`: liveness under fairness is outside the provers' reach. Every invariant
  and every safety action property of the passing runs is the statement of a theorem.
* The network, handle and store properties with hang-ups: they do not hold then.

## Plan

| Step | What | State |
|---|---|---|
| 1 | `ServiceHandle`, `ServiceLifecycle`, their theorems | done |
| 2 | `NetworkManager` | done |
| 3 | `ServiceManager`, `Dependency`, `ProxyServer` | done |
| 4 | the parts | done |
| 5 | proofs for networks, the service manager, the proxy, the books of the handle and seven of the parts | done |
| 6 | proofs that validation and deployment agree on every file, and that variables are replaced as if at once in every text | done |
| 7 | `PortLifecycle`, which `ProxyServer` is proved to implement | done |

The project keeps to a dozen runs in all, so small components that share no state
are checked by one run for all of them, and a violation run makes room when a passing
run says more.

## Not modelled, and why

* WASM execution and wasmtime's HTTP and TCP glue (`fabricks-runtime`): each request
  sets up a store of its own and calls the guest; its effect on a service is a call
  that ends or does not.
* TOML decoding, name syntax and Fabrickfiles (`fabricks-common`): no state, and
  nothing else reads what they refuse. Mortar files are well-formed or not.
* Argument parsing and output of the client (`fabricks`), its compilers, and the
  commands that are one request to the daemon.
* Authentication with registries, the composition of components and the encoding of
  manifests (`fabricks-oci`): network I/O and wac-graph, which no command calls.
  Garbage collection of blobs (`delete_blob`) has no caller.
* API routing and JSON: no behaviour of their own. The locks handlers take are
  modelled with what they call.
* Bytes: names, addresses, metrics and log text are members of small sets. A UTF-8
  character split over two writes becomes two replacement characters in a log; the
  writes of `LogCapture` are of whole characters.
* sled: a write either happens or fails; loss of unflushed writes in a power failure
  is not considered.
* Code without a caller: `recover_from_store`, `unbind_service`, the proxy's
  `shutdown`, `unregister_by_name`. (`load_state` of the volumes, `remove_service_from_all`
  and the loading of policies have none either, but are modelled, since their state
  is shared with code that runs. The scaler and the health monitor are modelled as
  they run once started; the daemon does not start them yet.)
