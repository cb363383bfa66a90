---------------------------- MODULE ProxyServer -----------------------------
(***************************************************************************)
(* The proxy server of fabricksd with what drives it: services that bind   *)
(* their ports when they start and release them when they stop, one at a   *)
(* time, under the write half of the manager's lock (ServiceHandle has     *)
(* the rest of start and stop); a listener task per bound port; and a task *)
(* per connection, which lives on when its listener is gone, looks its     *)
(* port up again for every request and holds the read half of the lock     *)
(* for as long as a service handles it.  A port is in three places: the    *)
(* socket of its listener, the router's bindings and the listener table.   *)
(***************************************************************************)
EXTENDS Naturals, Sequences, FiniteSets, SequencesExt

CONSTANTS
  Services,   \* services
  Ports,      \* ports
  PortsOf,    \* service -> the sequence of ports it listens on
  Protocol,   \* service -> "http" or "tcp"
  Conns,      \* connections of clients
  None        \* no service, no port, no protocol

ASSUME ProxyAssumption ==
  /\ None \notin Services \cup Ports \cup {"http", "tcp"}
  /\ PortsOf \in [Services -> Seq(Ports)]
  /\ Protocol \in [Services -> {"http", "tcp"}]

VARIABLES
  state,      \* service -> its state; a service that failed to start stays
              \* in "starting"
  bound,      \* service -> bound_ports of its handle
  runtime,    \* the services that have a runtime
  op,         \* the start or stop in progress: [kind, svc, pc, todo]
  sockets,    \* port -> protocol of the listener task that has it, or None
  told,       \* the ports whose listener was told to shut down
  router,     \* port -> the service it is bound to, or None
  listeners,  \* the ports in the listener table
  conns       \* connection -> [pc, port, protocol, svc]

vars == <<state, bound, runtime, op, sockets, told, router, listeners, conns>>
services == <<state, bound, runtime, op>>
proxy == <<sockets, told, router, listeners>>

NoOp == [kind |-> "idle", svc |-> None, pc |-> "idle", todo |-> <<>>]
NoConn == [pc |-> "closed", port |-> None, protocol |-> None, svc |-> None]

Init ==
  /\ state = [s \in Services |-> "stopped"]
  /\ bound = [s \in Services |-> <<>>] /\ runtime = {} /\ op = NoOp
  /\ sockets = [p \in Ports |-> None] /\ told = {}
  /\ router = [p \in Ports |-> None] /\ listeners = {}
  /\ conns = [c \in Conns |-> NoConn]

Idle == op.kind = "idle"
At(kind, pc) == op.kind = kind /\ op.pc = pc
Port == Head(op.todo)
NextPort(pc) == op' = [op EXCEPT !.pc = pc, !.todo = Tail(@)]
Goto(pc) == op' = [op EXCEPT !.pc = pc]

\* mutant: a connection hands its request over and lets go of the lock
NobodyServes == TRUE

\* The manager's lock can be taken for writing.
Exclusive == \A c \in Conns : conns[c].pc # "serving"

-----------------------------------------------------------------------------
(* A service starts: bind_service_ports.                                    *)

Start(s) ==
  /\ Idle /\ Exclusive /\ state[s] = "stopped"
  /\ state' = [state EXCEPT ![s] = "starting"]
  /\ op' = [kind |-> "start", svc |-> s, pc |-> "open", todo |-> PortsOf[s]]
  /\ UNCHANGED <<bound, runtime, proxy, conns>>

\* The ports bound so far are released, the start fails: its state stays
\* Starting.
BindFails ==
  op' = [op EXCEPT !.kind = "undo", !.pc = "unroute", !.todo = bound[op.svc]]

\* TcpListener::bind: the socket must be free.
OpenSocket ==
  /\ At("start", "open") /\ op.todo # <<>>
  /\ IF sockets[Port] = None
     THEN /\ sockets' = [sockets EXCEPT ![Port] = Protocol[op.svc]]
          /\ Goto("route")
     ELSE BindFails /\ UNCHANGED sockets
  /\ UNCHANGED <<state, bound, runtime, told, router, listeners, conns>>

\* router.bind; on a conflict the socket is dropped.
BindRoute ==
  /\ At("start", "route")
  /\ IF router[Port] = None
     THEN /\ router' = [router EXCEPT ![Port] = op.svc] /\ Goto("listen")
          /\ UNCHANGED sockets
     ELSE /\ BindFails /\ UNCHANGED router
          /\ sockets' = [sockets EXCEPT ![Port] = None]
  /\ UNCHANGED <<state, bound, runtime, told, listeners, conns>>

\* mutant: the handle does not record the port
ForgetPort ==
  /\ At("start", "listen") /\ NextPort("open")
  /\ listeners' = listeners \cup {Port}
  /\ UNCHANGED <<state, bound, runtime, sockets, told, router, conns>>

\* The listener is spawned and stored, the handle records the port.
StoreListener ==
  /\ At("start", "listen") /\ NextPort("open")
  /\ listeners' = listeners \cup {Port}
  /\ bound' = [bound EXCEPT ![op.svc] = Append(@, Port)]
  /\ UNCHANGED <<state, runtime, sockets, told, router, conns>>

\* All ports are bound: the runtime is created, or refused, and the ports
\* are given back (unbind_service_ports).
StartEnds ==
  /\ At("start", "open") /\ op.todo = <<>>
  /\ \/ /\ op' = NoOp /\ runtime' = runtime \cup {op.svc}
        /\ state' = [state EXCEPT ![op.svc] = "running"]
     \/ BindFails /\ UNCHANGED <<state, runtime>>
  /\ UNCHANGED <<bound, proxy, conns>>

-----------------------------------------------------------------------------
(* A service stops: unbind_service_ports.                                   *)

Stop(s) ==
  /\ Idle /\ Exclusive /\ state[s] \in {"running", "starting"}
  /\ state' = [state EXCEPT ![s] = "stopping"]
  /\ op' = [kind |-> "stop", svc |-> s, pc |-> "unroute", todo |-> bound[s]]
  /\ UNCHANGED <<bound, runtime, proxy, conns>>

\* unbind_port: router.unbind, and nothing more if the port is not bound.
Unroute ==
  /\ op.pc = "unroute" /\ op.todo # <<>>
  /\ IF router[Port] = None THEN NextPort("unroute") /\ UNCHANGED router
     ELSE Goto("shut") /\ router' = [router EXCEPT ![Port] = None]
  /\ UNCHANGED <<state, bound, runtime, sockets, told, listeners, conns>>

\* mutant: the listener is dropped from the table but not told
DropListener ==
  /\ op.pc = "shut"
  /\ IF Port \in listeners THEN Goto("wait") ELSE NextPort("unroute")
  /\ listeners' = listeners \ {Port}
  /\ UNCHANGED <<state, bound, runtime, sockets, told, router, conns>>

\* The listener leaves the table and is told to shut down.
ShutListener ==
  /\ op.pc = "shut"
  /\ IF Port \in listeners THEN Goto("wait") /\ told' = told \cup {Port}
     ELSE NextPort("unroute") /\ UNCHANGED told
  /\ listeners' = listeners \ {Port}
  /\ UNCHANGED <<state, bound, runtime, sockets, router, conns>>

\* Its task has ended.
ListenerJoined ==
  /\ op.pc = "wait" /\ sockets[Port] = None /\ NextPort("unroute")
  /\ UNCHANGED <<state, bound, runtime, proxy, conns>>

\* Every port was released; a failed bind leaves the state Starting.
UnbindDone ==
  /\ op.pc = "unroute" /\ op.todo = <<>> /\ op' = NoOp
  /\ bound' = [bound EXCEPT ![op.svc] = <<>>]
  /\ state' = IF op.kind = "stop" THEN [state EXCEPT ![op.svc] = "stopped"] ELSE state
  /\ UNCHANGED <<runtime, proxy, conns>>

Delete(s) ==
  /\ Idle /\ Exclusive /\ state[s] = "stopped"
  /\ state' = [state EXCEPT ![s] = "deleted"]
  /\ UNCHANGED <<bound, runtime, op, proxy, conns>>

\* mutant: the socket of a dropped start stays open
SocketLeaks ==
  /\ op.pc \in {"route", "unroute", "wait"} /\ op' = NoOp
  /\ UNCHANGED <<state, bound, runtime, sockets, told, router, listeners, conns>>

\* The client of the start or stop hangs up while it waits for the router,
\* which connections read, or for a listener to end.  (The lock of the
\* listener table is only ever taken under the manager's, so nothing waits
\* for it.)  A socket that is not routed yet is dropped with the future.
HangUp ==
  /\ op.pc \in {"route", "unroute", "wait"} /\ op' = NoOp
  /\ sockets' = IF op.pc = "route" THEN [sockets EXCEPT ![Port] = None] ELSE sockets
  /\ UNCHANGED <<state, bound, runtime, told, router, listeners, conns>>

-----------------------------------------------------------------------------
(* Listeners and connections.                                               *)

\* The listener of the port is running.
Listening(p) == sockets[p] # None /\ ~(op.pc \in {"route", "listen"} /\ p = Port)

\* select! takes a connection or the shutdown signal, if both are there.
Accept(c, p) ==
  /\ conns[c].pc = "closed" /\ Listening(p)
  /\ conns' = [conns EXCEPT ![c] = [NoConn EXCEPT !.pc = "request", !.port = p,
                                                  !.protocol = sockets[p]]]
  /\ UNCHANGED <<services, proxy>>

ListenerEnds(p) ==
  /\ Listening(p) /\ p \in told
  /\ sockets' = [sockets EXCEPT ![p] = None] /\ told' = told \ {p}
  /\ UNCHANGED <<services, router, listeners, conns>>

\* The answer has been sent: an HTTP connection waits for the next request.
Answered(c) ==
  conns' = [conns EXCEPT ![c] = IF @.protocol = "tcp" THEN NoConn
                                ELSE [@ EXCEPT !.pc = "request", !.svc = None]]

\* router.lookup and validate_ingress: 503 if the port is not bound (any
\* more), 403 if the networks of the service let nobody in (NetworkManager).
Lookup(c) ==
  /\ conns[c].pc = "request"
  /\ \/ Answered(c)
     \/ /\ router[conns[c].port] # None
        /\ conns' = [conns EXCEPT ![c].pc = "routed",
                                  ![c].svc = router[conns[c].port]]
  /\ UNCHANGED <<services, proxy>>

\* mutant: the handler does not look which runtime the service has
HasAnyRuntime(s, protocol) == s \in runtime

HasRuntime(s, protocol) == s \in runtime /\ Protocol[s] = protocol

\* The handler takes the manager's lock for reading: the service must still
\* be there and have a runtime for the protocol of the connection.
Serve(c) ==
  LET conn == conns[c] IN
  /\ conn.pc = "routed" /\ Idle
  /\ IF state[conn.svc] # "deleted" /\ HasRuntime(conn.svc, conn.protocol)
     THEN conns' = [conns EXCEPT ![c].pc = "serving"]
     ELSE Answered(c)
  /\ UNCHANGED <<services, proxy>>

Served(c) ==
  /\ conns[c].pc = "serving" /\ Answered(c) /\ UNCHANGED <<services, proxy>>

\* The client closes an HTTP connection between requests.
Close(c) ==
  /\ conns[c].pc = "request"
  /\ conns' = [conns EXCEPT ![c] = NoConn] /\ UNCHANGED <<services, proxy>>

Progress ==
  \/ OpenSocket \/ BindRoute \/ StoreListener \/ StartEnds
  \/ Unroute \/ ShutListener \/ ListenerJoined \/ UnbindDone

Next ==
  \/ \E s \in Services : Start(s) \/ Stop(s) \/ Delete(s)
  \/ Progress \/ HangUp
  \/ \E p \in Ports : ListenerEnds(p) \/ \E c \in Conns : Accept(c, p)
  \/ \E c \in Conns : Lookup(c) \/ Serve(c) \/ Served(c) \/ Close(c)

Spec == Init /\ [][Next]_vars

\* The tasks of the runtime run, and select! polls its branches in random
\* order, so it comes to see the signal; clients owe nothing.
FairSpec ==
  Spec /\ WF_vars(Progress) /\ \A p \in Ports : WF_vars(ListenerEnds(p))

-----------------------------------------------------------------------------
(* Properties.                                                              *)

\* Whatever was started, stopped or dropped half-way: while no bind or
\* unbind is under way a port is routed exactly if the listener table has
\* it, and then its socket listens, with the protocol of the service it is
\* routed to, which has it among its ports.
TablesAgree ==
  Idle => \A p \in Ports :
    /\ router[p] # None <=> p \in listeners
    /\ router[p] # None => /\ sockets[p] = Protocol[router[p]] /\ p \notin told
                           /\ p \in ToSet(bound[router[p]])

\* A service does not change state while it handles a request.
RequestsHoldTheService ==
  [][\A c \in Conns :
       (conns[c].pc = "serving" /\ conns'[c].pc = "serving") =>
         state'[conns[c].svc] = state[conns[c].svc]]_vars

\* A connection that outlives its listener may find its port bound to
\* another service; it is never handled by one of the other protocol.
ProtocolKept ==
  \A c \in Conns : conns[c].pc = "serving" => Protocol[conns[c].svc] = conns[c].protocol

\* A listener that has left the table ends and gives its port back, even if
\* the caller that shut it down is gone.
PortsAreFreed ==
  \A p \in Ports :
    (Listening(p) /\ p \notin listeners) ~> (sockets[p] = None)

-----------------------------------------------------------------------------
(* What a port goes through.                                                *)

AtHand(p, pcs) == op.pc \in pcs /\ p = Port

\* The port as its services see it: being opened for the service that holds
\* its socket, open for the one it is routed to, closing as long as its
\* listener outlives the route.
PortView(p) ==
  LET opening == AtHand(p, {"route"}) IN
  [phase |-> IF opening THEN "opening"
             ELSE IF router[p] # None THEN "open"
             ELSE IF sockets[p] # None THEN "closing" ELSE "free",
   svc |-> IF opening THEN op.svc ELSE router[p],
   protocol |-> sockets[p]]

Lifecycle == INSTANCE PortLifecycle WITH port <- [p \in Ports |-> PortView(p)]

\* Whoever starts, stops and hangs up in between, every port is opened for
\* one service at a time, with its protocol, is handed from one service to
\* the next only through a listener that has ended, and is given back when
\* an opening breaks off.
PortSpec == Lifecycle!Spec

-----------------------------------------------------------------------------
(* What ProxyServerProofs shows every step to preserve.                     *)

OpKinds == {"idle", "start", "undo", "stop"}
OpPoints == {"idle", "open", "route", "listen", "unroute", "shut", "wait"}
Op == [kind : OpKinds, svc : Services \cup {None}, pc : OpPoints, todo : Seq(Ports)]
Conn == [pc : {"closed", "request", "routed", "serving"}, port : Ports \cup {None},
         protocol : {"http", "tcp", None}, svc : Services \cup {None}]
States == {"stopped", "starting", "running", "stopping", "deleted"}

TypeOK ==
  /\ state \in [Services -> States] /\ bound \in [Services -> Seq(Ports)]
  /\ runtime \in SUBSET Services /\ op \in Op
  /\ sockets \in [Ports -> {"http", "tcp", None}] /\ told \in SUBSET Ports
  /\ router \in [Ports -> Services \cup {None}] /\ listeners \in SUBSET Ports
  /\ conns \in [Conns -> Conn]

\* Each kind of work has its own points; between the first and the last one
\* of a port the port is at hand.
OpShape ==
  /\ op.kind = "idle" <=> op.pc = "idle"
  /\ op.kind = "start" <=> op.pc \in {"open", "route", "listen"}
  /\ op.kind # "idle" => op.svc \in Services
  /\ op.pc \in {"route", "listen", "shut", "wait"} => op.todo # <<>>

\* A routed port listens and is in the books, the one being bound excepted;
\* the one being released has left the router before anything else.
PortKept(p) ==
  /\ router[p] # None => sockets[p] = Protocol[router[p]] /\ p \notin told
  /\ (router[p] # None /\ ~AtHand(p, {"listen"})) =>
       p \in listeners /\ p \in ToSet(bound[router[p]])
  /\ p \in listeners => sockets[p] # None
  /\ (p \in listeners /\ ~AtHand(p, {"shut"})) => router[p] # None
  /\ p \in told => sockets[p] # None /\ p \notin listeners
  /\ AtHand(p, {"route"}) =>
       sockets[p] = Protocol[op.svc] /\ router[p] = None /\ p \notin told
  /\ AtHand(p, {"listen"}) => router[p] = op.svc
  /\ AtHand(p, {"shut", "wait"}) => router[p] = None

\* What a service that is releasing its ports still has is on its list.
ReleasesAll ==
  op.kind \in {"undo", "stop"} =>
    \A p \in Ports : router[p] = op.svc => p \in ToSet(op.todo)

\* A request is handled by a service of its protocol, under the read lock.
ConnKept(c) ==
  /\ conns[c].pc # "closed" => conns[c].port \in Ports
  /\ conns[c].pc \in {"routed", "serving"} => conns[c].svc \in Services
  /\ conns[c].pc = "serving" => Idle /\ Protocol[conns[c].svc] = conns[c].protocol

IInv ==
  /\ TypeOK /\ OpShape /\ ReleasesAll
  /\ \A p \in Ports : PortKept(p)
  /\ \A c \in Conns : ConnKept(c)

=============================================================================
