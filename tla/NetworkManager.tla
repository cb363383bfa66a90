--------------------------- MODULE NetworkManager ---------------------------
(***************************************************************************)
(* The NetworkManager of the daemon and its ServiceRegistry: networks and  *)
(* their members, the reverse map from a service to its networks, the two  *)
(* name maps, and the stored networks, under the calls of the API          *)
(* handlers and of the proxy (an ingress check for every request).         *)
(* Deployments and the run-module request join with the id and name of a   *)
(* service, the join and leave handlers with whatever the client gives.    *)
(*                                                                         *)
(* Four tokio RwLocks guard the four maps.  A task that waits for a lock   *)
(* is at the program point named after what it will do with it; a step     *)
(* takes the lock, works, and either returns or queues for the next lock.  *)
(***************************************************************************)
CONSTANTS
  Tasks,       \* tokio tasks that call into the manager
  Nets,        \* network ids; each is handed out once
  NetNames,    \* the names of networks
  DefaultName, \* DEFAULT_NETWORK_NAME
  NoNet,
  Services,    \* the ids under which members are added: a client of the API
               \* may give any, of a service or not
  Names,       \* the names they are registered under, likewise
  None,
  Issued,      \* the operations the callers of this instance issue
  Faults       \* what may go wrong: "hangup", "store", "restart"

Ops == {"create", "delete", "join", "leave", "ingress", "forget"}

Network == [name : NetNames, internal : BOOLEAN, members : SUBSET Services]

ASSUME NetAssumption  == DefaultName \in NetNames /\ NoNet \notin Network
ASSUME NameAssumption == None \notin Services \cup Names
ASSUME CallAssumption ==
  /\ Issued \subseteq Ops
  /\ Faults \subseteq {"hangup", "store", "restart"}

VARIABLES
  networks,   \* NetworkManager.networks
  memberOf,   \* NetworkManager.service_networks
  nameToId,   \* ServiceRegistry.name_to_id
  idToName,   \* ServiceRegistry.id_to_name
  store,      \* the networks in the state store
  minted,     \* the network ids handed out so far
  admitted,   \* the answer of each task's last ingress check
  pc,         \* where each task is
  frame,      \* the arguments and local variables of each task's call
  ahead       \* the tasks that wait for the same lock and asked for it earlier

maps == <<networks, memberOf>>
names == <<nameToId, idToName>>
memory == <<networks, memberOf, nameToId, idToName>>
vars == <<networks, memberOf, nameToId, idToName, store, minted, admitted,
          pc, frame, ahead>>

-----------------------------------------------------------------------------
(* Values *)

NewNetwork(name, internal) == [name |-> name, internal |-> internal, members |-> {}]

Exists(n) == networks[n] # NoNet

\* A network that may be deleted.
Empty(n) == Exists(n) /\ networks[n].members = {}

HasMember(n, s) == Exists(n) /\ s \in networks[n].members

NoFrame == [op |-> "none", net |-> NoNet, svc |-> None, name |-> None, todo |-> {}]

-----------------------------------------------------------------------------
(* Locks.  The point a task is at tells the lock it waits for and those it *)
(* holds.                                                                  *)

Locks == {"networks", "service_networks", "name_to_id", "id_to_name"}

WantsRead(l) ==
  CASE l = "networks"         -> {"resolve", "ingress.check"}
    [] l = "service_networks" -> {"ingress", "forget"}
    [] OTHER                  -> {}

WantsWrite(l) ==
  CASE l = "networks"         -> {"create", "delete", "join", "leave"}
    [] l = "service_networks" -> {"join.map", "leave.map"}
    [] l = "name_to_id"       -> {"join.name", "forget.name"}
    [] l = "id_to_name"       -> {"join.id", "forget.id"}

HoldsRead(l) == IF l = "service_networks" THEN {"ingress.check"} ELSE {}

\* Mutant: remove_service drops its guard on the networks before it locks the
\* reverse map.
HoldsWriteApart(l) ==
  CASE l = "networks"         -> {"join.map", "join.name", "join.id"}
    [] l = "service_networks" -> {"join.name", "join.id"}
    [] l = "name_to_id"       -> {"join.id"}
    [] l = "id_to_name"       -> {"forget.name"}

HoldsWrite(l) ==
  CASE l = "networks"         -> {"join.map", "join.name", "join.id", "leave.map"}
    [] l = "service_networks" -> {"join.name", "join.id"}
    [] l = "name_to_id"       -> {"join.id"}
    [] l = "id_to_name"       -> {"forget.name"}

Wants(l) == WantsRead(l) \cup WantsWrite(l)

Waiting(l) == {c \in Tasks : pc[c] \in Wants(l)}
Readers(l) == {c \in Tasks : pc[c] \in HoldsRead(l)}
Writers(l) == {c \in Tasks : pc[c] \in HoldsWrite(l)}

\* Mutant: a free lock goes to any task that waits for it.
CanTakeUnfair(c) ==
  \E l \in Locks :
    \/ pc[c] \in WantsRead(l)  /\ Writers(l) = {}
    \/ pc[c] \in WantsWrite(l) /\ Writers(l) = {} /\ Readers(l) = {}

\* tokio's RwLock serves its waiters in order, a waiting writer included.
CanTake(c) ==
  /\ ahead[c] = {}
  /\ \E l \in Locks :
       \/ pc[c] \in WantsRead(l)  /\ Writers(l) = {}
       \/ pc[c] \in WantsWrite(l) /\ Writers(l) = {} /\ Readers(l) = {}

At(c, from) == pc[c] = from /\ CanTake(c)

\* The task goes on to "to" and waits there for the lock it needs.
Queue(c, to) ==
  /\ pc' = [pc EXCEPT ![c] = to]
  /\ ahead' = [d \in Tasks |->
                 IF d = c THEN UNION {Waiting(l) : l \in {m \in Locks : to \in Wants(m)}} \ {c}
                          ELSE ahead[d] \ {c}]

\* The call ends and drops its guards; remove_service_from_all goes on with the
\* next network instead.
Return(c) ==
  /\ Queue(c, "idle")
  /\ frame' = [frame EXCEPT ![c] = NoFrame]

Left(c) ==
  IF frame[c].op = "forget"
  THEN Queue(c, "forget.next") /\ UNCHANGED frame
  ELSE Return(c)

-----------------------------------------------------------------------------
(* Calls *)

FirstPc(o) == IF o \in {"delete", "join", "leave"} THEN "resolve" ELSE o

\* The join and leave handlers pass on the service id and the name of the
\* request as they are.
Call(c, o, n, s, m) ==
  /\ pc[c] = "idle"
  /\ Queue(c, FirstPc(o))
  /\ frame' = [frame EXCEPT ![c] = [NoFrame EXCEPT !.op = o, !.net = n, !.svc = s, !.name = m]]
  /\ admitted' = [admitted EXCEPT ![c] = FALSE]
  /\ UNCHANGED <<memory, store, minted>>

\* The handlers look the network up first and release the lock.
Resolved(c) ==
  /\ At(c, "resolve")
  /\ Exists(frame[c].net)
  /\ Queue(c, frame[c].op)
  /\ UNCHANGED <<memory, store, minted, admitted, frame>>

\* The call ends without effect: the network or its name is refused, a write to
\* the store fails before anything is changed, the service is a member already
\* (no error), or there is nothing to look up.  With every id handed out (the
\* bound of this instance) no network is created.
Refused(c) ==
  /\ \/ At(c, "resolve") /\ ~Exists(frame[c].net)
     \/ At(c, "create") /\ (minted = Nets \/ (\E m \in Nets : Exists(m)) \/ "store" \in Faults)
     \/ At(c, "delete") /\ (~Empty(frame[c].net) \/ "store" \in Faults)
     \/ At(c, "join") /\ (~Exists(frame[c].net) \/ HasMember(frame[c].net, frame[c].svc))
     \/ At(c, "ingress") /\ memberOf[frame[c].svc] = {}
     \/ At(c, "forget.id") /\ idToName[frame[c].svc] = None
  /\ Return(c)
  /\ UNCHANGED <<memory, store, minted, admitted>>

-----------------------------------------------------------------------------
(* create_network and delete_network *)

CreateNetwork(c) ==
  /\ At(c, "create")
  /\ \E n \in Nets \ minted, name \in NetNames, internal \in BOOLEAN :
       /\ \A m \in Nets : Exists(m) => networks[m].name # name
       /\ networks' = [networks EXCEPT ![n] = NewNetwork(name, internal)]
       /\ store' = [store EXCEPT ![n] = NewNetwork(name, internal)]
       /\ minted' = minted \cup {n}
  /\ Return(c)
  /\ UNCHANGED <<memberOf, names, admitted>>

DeleteNetwork(c) ==
  /\ At(c, "delete")
  /\ Empty(frame[c].net)
  /\ networks' = [networks EXCEPT ![frame[c].net] = NoNet]
  /\ store' = [store EXCEPT ![frame[c].net] = NoNet]
  /\ Return(c)
  /\ UNCHANGED <<memberOf, names, minted, admitted>>

-----------------------------------------------------------------------------
(* add_service *)

Join(c) ==
  /\ At(c, "join")
  /\ Exists(frame[c].net) /\ ~HasMember(frame[c].net, frame[c].svc)
  /\ networks' = [networks EXCEPT ![frame[c].net].members = @ \cup {frame[c].svc}]
  /\ Queue(c, "join.map")
  /\ UNCHANGED <<memberOf, names, store, minted, admitted, frame>>

JoinMap(c) ==
  /\ At(c, "join.map")
  /\ memberOf' = [memberOf EXCEPT ![frame[c].svc] = @ \cup {frame[c].net}]
  /\ Queue(c, "join.name")
  /\ UNCHANGED <<networks, names, store, minted, admitted, frame>>

JoinName(c) ==
  /\ At(c, "join.name")
  /\ Queue(c, "join.id")
  /\ UNCHANGED <<memory, store, minted, admitted, frame>>

\* Each map is overwritten by itself: the name may have led to another id, and
\* the id may have had another name, which goes on leading to it.
Register(s, m) ==
  /\ nameToId' = [nameToId EXCEPT ![m] = s]
  /\ idToName' = [idToName EXCEPT ![s] = m]

\* persist_network, at the end of add_service and remove_service.
Persist(n) ==
  \/ store' = [store EXCEPT ![n] = networks[n]]
  \/ "store" \in Faults /\ UNCHANGED store

JoinId(c) ==
  /\ At(c, "join.id")
  /\ Register(frame[c].svc, frame[c].name)
  /\ Persist(frame[c].net)
  /\ Return(c)
  /\ UNCHANGED <<maps, minted, admitted>>

-----------------------------------------------------------------------------
(* remove_service *)

LeaveRefused(c) ==
  /\ At(c, "leave")
  /\ ~HasMember(frame[c].net, frame[c].svc)
  /\ Left(c)
  /\ UNCHANGED <<memory, store, minted, admitted>>

Leave(c) ==
  /\ At(c, "leave")
  /\ HasMember(frame[c].net, frame[c].svc)
  /\ networks' = [networks EXCEPT ![frame[c].net].members = @ \ {frame[c].svc}]
  /\ Queue(c, "leave.map")
  /\ UNCHANGED <<memberOf, names, store, minted, admitted, frame>>

\* Mutant: the network is not saved after a member left.
LeaveMapUnsaved(c) ==
  /\ At(c, "leave.map")
  /\ memberOf' = [memberOf EXCEPT ![frame[c].svc] = @ \ {frame[c].net}]
  /\ Left(c)
  /\ UNCHANGED <<networks, names, store, minted, admitted>>

LeaveMap(c) ==
  /\ At(c, "leave.map")
  /\ memberOf' = [memberOf EXCEPT ![frame[c].svc] = @ \ {frame[c].net}]
  /\ Persist(frame[c].net)
  /\ Left(c)
  /\ UNCHANGED <<networks, names, minted, admitted>>

-----------------------------------------------------------------------------
(* remove_service_from_all; "called when a service is deleted", says its doc, but nothing does. *)

Forget(c) ==
  /\ At(c, "forget")
  /\ frame' = [frame EXCEPT ![c].todo = memberOf[frame[c].svc]]
  /\ Queue(c, "forget.next")
  /\ UNCHANGED <<memory, store, minted, admitted>>

ForgetNext(c) ==
  /\ pc[c] = "forget.next"
  /\ \E n \in frame[c].todo :
       frame' = [frame EXCEPT ![c].net = n, ![c].todo = @ \ {n}]
  /\ Queue(c, "leave")
  /\ UNCHANGED <<memory, store, minted, admitted>>

ForgetLast(c) ==
  /\ pc[c] = "forget.next"
  /\ frame[c].todo = {}
  /\ Queue(c, "forget.id")
  /\ UNCHANGED <<memory, store, minted, admitted, frame>>

\* unregister_by_id goes on with the name the id had last, ...
ForgetId(c) ==
  /\ At(c, "forget.id")
  /\ idToName[frame[c].svc] # None
  /\ frame' = [frame EXCEPT ![c].name = idToName[frame[c].svc]]
  /\ idToName' = [idToName EXCEPT ![frame[c].svc] = None]
  /\ Queue(c, "forget.name")
  /\ UNCHANGED <<maps, nameToId, store, minted, admitted>>

\* ... whoever it leads to by now.
ForgetName(c) ==
  /\ At(c, "forget.name")
  /\ nameToId' = [nameToId EXCEPT ![frame[c].name] = None]
  /\ Return(c)
  /\ UNCHANGED <<maps, idToName, store, minted, admitted>>

-----------------------------------------------------------------------------
(* service_allows_external_access *)

Ingress(c) ==
  /\ At(c, "ingress")
  /\ memberOf[frame[c].svc] # {}
  /\ Queue(c, "ingress.check")
  /\ UNCHANGED <<memory, store, minted, admitted, frame>>

IngressCheck(c) ==
  /\ At(c, "ingress.check")
  /\ admitted' = [admitted EXCEPT ![c] =
                    \E n \in memberOf[frame[c].svc] : Exists(n) /\ ~networks[n].internal]
  /\ Return(c)
  /\ UNCHANGED <<memory, store, minted>>

-----------------------------------------------------------------------------
(* Faults *)

\* The client of an API call or of a proxied request goes away: the future is
\* dropped at its await point, with the guards it holds.
HangUp(c) ==
  /\ "hangup" \in Faults
  /\ pc[c] # "idle"
  /\ Return(c)
  /\ UNCHANGED <<memory, store, minted, admitted>>

IsDefault(n) == store[n] # NoNet /\ store[n].name = DefaultName

\* ensure_default_network
WithDefault ==
  IF \E n \in Nets : IsDefault(n)
  THEN networks' = store /\ UNCHANGED <<store, minted>>
  ELSE \E n \in Nets \ minted :
         /\ store' = [store EXCEPT ![n] = NewNetwork(DefaultName, FALSE)]
         /\ networks' = store'
         /\ minted' = minted \cup {n}

\* Mutant: load_state does not rebuild the reverse map.
LoadedNone == [s \in Services |-> {}]

\* load_state
Loaded == [s \in Services |-> {n \in Nets : store[n] # NoNet /\ s \in store[n].members}]

\* The daemon dies at any point and starts again: networks and memberships come
\* from the store, the registry starts empty and services are not recovered.
Restart ==
  /\ "restart" \in Faults
  /\ WithDefault
  /\ memberOf' = Loaded
  /\ nameToId' = [m \in Names |-> None]
  /\ idToName' = [s \in Services |-> None]
  /\ admitted' = [c \in Tasks |-> FALSE]
  /\ pc' = [c \in Tasks |-> "idle"]
  /\ frame' = [c \in Tasks |-> NoFrame]
  /\ ahead' = [c \in Tasks |-> {}]

-----------------------------------------------------------------------------
(* Specification *)

\* The daemon has started once: the default network exists.
Init ==
  /\ \E d \in Nets :
       /\ minted = {d}
       /\ networks = [n \in Nets |-> IF n = d THEN NewNetwork(DefaultName, FALSE) ELSE NoNet]
  /\ store = networks
  /\ memberOf = [s \in Services |-> {}]
  /\ nameToId = [m \in Names |-> None]
  /\ idToName = [s \in Services |-> None]
  /\ admitted = [c \in Tasks |-> FALSE]
  /\ pc = [c \in Tasks |-> "idle"]
  /\ frame = [c \in Tasks |-> NoFrame]
  /\ ahead = [c \in Tasks |-> {}]

NetArgs(o) == IF o \in {"delete", "join", "leave"} THEN minted ELSE {NoNet}
SvcArgs(o) == IF o \in {"join", "leave", "ingress", "forget"} THEN Services ELSE {None}
NameArgs(o) == IF o = "join" THEN Names ELSE {None}

Calls(c) ==
  \E o \in Issued : \E n \in NetArgs(o), s \in SvcArgs(o), m \in NameArgs(o) : Call(c, o, n, s, m)

\* The steps the runtime takes by itself once a call has been made.
Progress(c) ==
  \/ Resolved(c) \/ Refused(c)
  \/ CreateNetwork(c) \/ DeleteNetwork(c)
  \/ Join(c) \/ JoinMap(c) \/ JoinName(c) \/ JoinId(c)
  \/ LeaveRefused(c) \/ Leave(c) \/ LeaveMap(c)
  \/ Forget(c) \/ ForgetNext(c) \/ ForgetLast(c) \/ ForgetId(c) \/ ForgetName(c)
  \/ Ingress(c) \/ IngressCheck(c)

Next ==
  \/ \E c \in Tasks : Calls(c) \/ HangUp(c) \/ Progress(c)
  \/ Restart

Spec == Init /\ [][Next]_vars

\* tokio polls every task that can make progress.
FairSpec == Spec /\ \A c \in Tasks : WF_vars(Progress(c))

-----------------------------------------------------------------------------
(* Properties *)

\* The networks lock is not held for writing.
Settled == Writers("networks") = {}

\* Whenever nobody holds the networks for writing, the members of the networks
\* and the networks of the services are the same relation, seen from its two
\* ends, whatever joins, leaves and deletions raced.
MapsAgree ==
  Settled => \A n \in Nets, s \in Services : HasMember(n, s) <=> n \in memberOf[s]

\* Whenever nobody holds the networks for writing, the store holds exactly the
\* networks in memory, so that a restart brings the memberships back.
StoreAgrees == Settled => store = networks

\* At every step, also between the two halves of a join or of a leave, a network
\* that a service is said to be in exists.
NoDanglingNetwork == \A s \in Services : \A n \in memberOf[s] : Exists(n)

\* A request is let in only for a service that is a member of an external
\* network at the very moment of the answer, in both maps, although the check
\* reads one map before it locks the other.
IngressIsCurrent ==
  [][\A c \in Tasks :
       ~admitted[c] /\ admitted'[c] =>
         \E n \in Nets : /\ HasMember(n, frame[c].svc) /\ n \in memberOf[frame[c].svc]
                         /\ ~networks[n].internal]_vars

\* Every call returns (the doc comments of the operations say what they return).
CallsReturn == \A c \in Tasks : pc[c] # "idle" ~> pc[c] = "idle"

-----------------------------------------------------------------------------
(* What NetworkManagerProofs shows every step to preserve *)

Frame == [op : Ops \cup {"none"}, net : Nets \cup {NoNet}, svc : Services \cup {None},
          name : Names \cup {None}, todo : SUBSET Nets]

Joining == {"join", "join.map", "join.name", "join.id"}
Leaving == {"leave", "leave.map"}
Forgetting == {"forget", "forget.next", "forget.id", "forget.name"}
Checking == {"ingress", "ingress.check"}
Points == {"idle", "resolve", "create", "delete"}
            \cup Joining \cup Leaving \cup Forgetting \cup Checking

TypeOK ==
  /\ networks \in [Nets -> Network \cup {NoNet}]
  /\ store \in [Nets -> Network \cup {NoNet}]
  /\ memberOf \in [Services -> SUBSET Nets]
  /\ nameToId \in [Names -> Services \cup {None}]
  /\ idToName \in [Services -> Names \cup {None}]
  /\ minted \subseteq Nets
  /\ admitted \in [Tasks -> BOOLEAN]
  /\ pc \in [Tasks -> Points]
  /\ frame \in [Tasks -> Frame]

\* A call has the arguments its operation works on.
ArgsOf(c) ==
  /\ pc[c] \in {"resolve", "delete"} \cup Joining \cup Leaving => frame[c].net \in Nets
  /\ pc[c] \in Joining \cup Leaving \cup Forgetting \cup Checking => frame[c].svc \in Services
  /\ pc[c] \in Joining \cup {"forget.name"} => frame[c].name \in Names
  /\ pc[c] = "resolve" =>
       \/ frame[c].op = "delete"
       \/ frame[c].op = "leave" /\ frame[c].svc \in Services
       \/ frame[c].op = "join" /\ frame[c].svc \in Services /\ frame[c].name \in Names

ArgsGiven == \A c \in Tasks : ArgsOf(c)

\* A network that exists, in memory or in the store, has been handed its id.
IdsAreMinted == \A n \in Nets : Exists(n) \/ store[n] # NoNet => n \in minted

\* One task at a time holds the networks for writing.
OneWriter == \A c, d \in Writers("networks") : c = d

\* The task that holds the networks has done the first half of its change.
HalfDone ==
  \A c \in Writers("networks") :
    /\ Exists(frame[c].net)
    /\ pc[c] = "join.map" => HasMember(frame[c].net, frame[c].svc)
    /\ pc[c] = "leave.map" => ~HasMember(frame[c].net, frame[c].svc)

\* The two maps differ at most in the pair a task is changing.
MapsPaired ==
  \A n \in Nets, s \in Services :
    \/ HasMember(n, s) <=> n \in memberOf[s]
    \/ \E c \in Writers("networks") : /\ pc[c] \in {"join.map", "leave.map"}
                                     /\ frame[c].net = n /\ frame[c].svc = s

\* The store lags behind the memory at most in the network a task is changing.
StorePaired ==
  \A n \in Nets : store[n] = networks[n] \/ \E c \in Writers("networks") : frame[c].net = n

IInv ==
  /\ TypeOK /\ ArgsGiven /\ IdsAreMinted
  /\ OneWriter /\ HalfDone /\ MapsPaired

=============================================================================
