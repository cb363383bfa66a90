-------------------------- MODULE ProxyServerProofs --------------------------
(***************************************************************************)
(* ProxyServer for every set of services, ports and connections, with      *)
(* clients that hang up at any await of a start or a stop.                 *)
(***************************************************************************)
EXTENDS ProxyServer, TLAPS

-----------------------------------------------------------------------------
(* Sequences of ports *)

\* What a sequence has is what its head and its tail have.
LEMMA HeadAndTail ==
  ASSUME NEW S, NEW q \in Seq(S), q # <<>>
  PROVE  /\ Head(q) \in S /\ Tail(q) \in Seq(S)
         /\ \A x \in ToSet(q) : x = Head(q) \/ x \in ToSet(Tail(q))
<1>1. Head(q) \in S /\ Tail(q) \in Seq(S) /\ Len(q) \in Nat \ {0}
  OBVIOUS
<1>2. ASSUME NEW x \in ToSet(q), x # Head(q)
      PROVE  x \in ToSet(Tail(q))
  <2>1. PICK i \in DOMAIN q : x = q[i]
    BY <1>2 DEF ToSet
  <2>2. i \in 1 .. Len(q) /\ i # 1
    BY <1>2, <2>1
  <2>3. i - 1 \in 1 .. Len(Tail(q)) /\ Tail(q)[i - 1] = q[i]
    BY <1>1, <2>2
  <2>4. i - 1 \in DOMAIN Tail(q)
    BY <1>1, <2>3
  <2> QED BY <2>1, <2>3, <2>4 DEF ToSet
<1> QED BY <1>1, <1>2

\* A sequence that grows keeps what it has and has what was added.
LEMMA AppendedToSet ==
  ASSUME NEW S, NEW q \in Seq(S), NEW x \in S
  PROVE  /\ Append(q, x) \in Seq(S)
         /\ x \in ToSet(Append(q, x))
         /\ \A y \in ToSet(q) : y \in ToSet(Append(q, x))
<1>1. /\ Append(q, x) \in Seq(S) /\ Len(q) \in Nat
      /\ Len(Append(q, x)) = Len(q) + 1
      /\ Append(q, x)[Len(q) + 1] = x
      /\ DOMAIN q = 1 .. Len(q) /\ DOMAIN Append(q, x) = 1 .. (Len(q) + 1)
      /\ \A i \in 1 .. Len(q) : Append(q, x)[i] = q[i]
  OBVIOUS
<1>2. Len(q) + 1 \in DOMAIN Append(q, x)
  BY <1>1
<1>3. x \in ToSet(Append(q, x))
  BY <1>1, <1>2 DEF ToSet
<1>4. ASSUME NEW y \in ToSet(q)
      PROVE  y \in ToSet(Append(q, x))
  <2>1. PICK i \in DOMAIN q : y = q[i]
    BY DEF ToSet
  <2>2. i \in DOMAIN Append(q, x) /\ Append(q, x)[i] = y
    BY <1>1, <2>1
  <2> QED BY <2>2 DEF ToSet
<1> QED BY <1>1, <1>3, <1>4

\* The port at hand is a port.
LEMMA PortIsAPort ==
  ASSUME TypeOK, op.todo # <<>>
  PROVE  Port \in Ports /\ Tail(op.todo) \in Seq(Ports)
<1>1. op.todo \in Seq(Ports)
  BY DEF TypeOK, Op
<1> QED BY <1>1, HeadAndTail DEF Port

-----------------------------------------------------------------------------
(* The inductive invariant *)

\* At the start nothing is bound and nobody is connected.
LEMMA Initially == Init => IInv
<1> SUFFICES ASSUME Init PROVE IInv
  OBVIOUS
<1> USE ProxyAssumption DEF Init
<1>1. TypeOK
  <2>1. op \in Op
    BY DEF NoOp, Op, OpKinds, OpPoints
  <2>2. NoConn \in Conn
    BY DEF NoConn, Conn
  <2>3. bound \in [Services -> Seq(Ports)]
    OBVIOUS
  <2> QED BY <2>1, <2>2, <2>3 DEF TypeOK, States
<1>2. OpShape /\ ReleasesAll
  BY DEF NoOp, OpShape, ReleasesAll
<1>3. \A p \in Ports : PortKept(p)
  BY DEF NoOp, PortKept, AtHand
<1>4. \A c \in Conns : ConnKept(c)
  BY DEF NoConn, ConnKept
<1> QED BY <1>1, <1>2, <1>3, <1>4 DEF IInv

\* A service starts: nothing is at hand yet.
LEMMA StartKept ==
  ASSUME IInv, NEW s \in Services, Start(s)
  PROVE  IInv'
<1> USE DEF IInv, Start, proxy
<1>1. TypeOK'
  <2>1. op' \in Op
    BY ProxyAssumption DEF Op, OpKinds, OpPoints
  <2> QED BY <2>1 DEF TypeOK, States
<1>2. OpShape' /\ ReleasesAll'
  BY DEF OpShape, ReleasesAll
<1>3. ASSUME NEW p \in Ports PROVE PortKept(p)'
  <2>1. PortKept(p) /\ op.pc = "idle"
    BY DEF OpShape, Idle
  <2> QED BY <2>1 DEF PortKept, AtHand
<1>4. ASSUME NEW c \in Conns PROVE ConnKept(c)'
  BY DEF ConnKept, Exclusive
<1> QED BY <1>1, <1>2, <1>3, <1>4

\* A service stops: its list has every port it is routed to.
LEMMA StopKept ==
  ASSUME IInv, NEW s \in Services, Stop(s)
  PROVE  IInv'
<1> USE DEF IInv, Stop, proxy
<1>1. TypeOK'
  <2>1. op' \in Op
    BY DEF Op, OpKinds, OpPoints, TypeOK
  <2> QED BY <2>1 DEF TypeOK, States
<1>2. OpShape'
  BY DEF OpShape
<1>3. ASSUME NEW p \in Ports
      PROVE PortKept(p)' /\ (router'[p] = op'.svc => p \in ToSet(op'.todo))
  <2>1. PortKept(p) /\ op.pc = "idle"
    BY DEF OpShape, Idle
  <2>2. router[p] # None => p \in ToSet(bound[router[p]])
    BY <2>1 DEF PortKept, AtHand
  <2>3. s # None
    BY ProxyAssumption
  <2> QED BY <2>1, <2>2, <2>3 DEF PortKept, AtHand
<1>4. ReleasesAll'
  BY <1>3 DEF ReleasesAll
<1>5. ASSUME NEW c \in Conns PROVE ConnKept(c)'
  BY DEF ConnKept, Exclusive
<1> QED BY <1>1, <1>2, <1>3, <1>4, <1>5

\* A service is deleted.
LEMMA DeleteKept ==
  ASSUME IInv, NEW s \in Services, Delete(s)
  PROVE  IInv'
<1> USE DEF IInv, Delete, proxy
<1>1. TypeOK' /\ OpShape' /\ ReleasesAll'
  BY DEF TypeOK, States, OpShape, ReleasesAll
<1>2. \A p \in Ports : PortKept(p)'
  BY DEF PortKept, AtHand, Port
<1>3. \A c \in Conns : ConnKept(c)'
  BY DEF ConnKept, Idle
<1> QED BY <1>1, <1>2, <1>3

\* No connection is being served while a start or a stop is under way.
LEMMA WorkIsAlone ==
  ASSUME IInv, op.pc # "idle"
  PROVE  \A c \in Conns : conns[c].pc # "serving"
BY DEF IInv, OpShape, ConnKept, Idle

\* Work that leaves the connections alone keeps what is said of them.
LEMMA ConnsLeft ==
  ASSUME IInv, op.pc # "idle", UNCHANGED conns
  PROVE  \A c \in Conns : ConnKept(c)'
BY WorkIsAlone DEF IInv, ConnKept

\* A port that cannot be bound: what was bound so far is released.
LEMMA BindFailsKept ==
  ASSUME IInv, op.pc \in {"open", "route"}, BindFails
  PROVE  /\ op' \in Op /\ op'.pc = "unroute"
         /\ UNCHANGED <<router, state, bound>> => OpShape' /\ ReleasesAll'
<1> USE DEF IInv
<1>1. op \in Op /\ op.kind = "start" /\ op.svc \in Services /\ bound[op.svc] \in Seq(Ports)
  BY DEF TypeOK, OpShape
<1>2. /\ op' \in Op /\ op'.kind = "undo" /\ op'.pc = "unroute"
      /\ op'.svc = op.svc /\ op'.todo = bound[op.svc]
  BY <1>1 DEF BindFails, Op, OpKinds, OpPoints
<1>3. ASSUME UNCHANGED <<router, state, bound>>, NEW p \in Ports, router'[p] = op.svc
      PROVE  p \in ToSet(op'.todo)
  <2>1. router[p] # None /\ ~AtHand(p, {"listen"})
    BY <1>1, <1>3, ProxyAssumption DEF AtHand
  <2> QED BY <1>2, <1>3, <2>1 DEF PortKept
<1>4. OpShape'
  BY <1>1, <1>2 DEF OpShape
<1> QED BY <1>2, <1>3, <1>4 DEF ReleasesAll

\* The socket of a port is opened.
LEMMA OpenSocketKept ==
  ASSUME IInv, OpenSocket
  PROVE  IInv'
<1> USE DEF IInv, OpenSocket, At
<1>1. op \in Op /\ op.svc \in Services /\ Port \in Ports
  BY PortIsAPort DEF TypeOK, OpShape
<1>2. CASE sockets[Port] = None
  <2>1. /\ op' \in Op /\ op'.kind = "start" /\ op'.pc = "route"
        /\ op'.svc = op.svc /\ op'.todo = op.todo /\ Port' = Port
    BY <1>1, <1>2 DEF Goto, Op, OpPoints, Port
  <2>2. /\ sockets' \in [Ports -> {"http", "tcp", None}]
        /\ sockets'[Port] = Protocol[op.svc]
        /\ \A p \in Ports : p # Port => sockets'[p] = sockets[p]
    BY <1>1, <1>2, ProxyAssumption DEF TypeOK
  <2>3. TypeOK' /\ OpShape' /\ ReleasesAll'
    BY <1>1, <2>1, <2>2 DEF TypeOK, OpShape, ReleasesAll
  <2>4. ASSUME NEW p \in Ports PROVE PortKept(p)'
    <3>1. CASE p = Port
      <4>1. router[p] = None
        <5>1. router[p] # None => router[p] \in Services /\ Protocol[router[p]] # None
          BY ProxyAssumption DEF TypeOK
        <5> QED BY <1>2, <3>1, <5>1 DEF PortKept
      <4>2. p \notin listeners /\ p \notin told
        BY <1>2, <3>1 DEF PortKept
      <4>3. Protocol[op.svc] # None
        BY <1>1, ProxyAssumption
      <4> QED BY <2>1, <2>2, <3>1, <4>1, <4>2, <4>3 DEF PortKept, AtHand
    <3>2. CASE p # Port
      BY <2>1, <2>2, <3>2 DEF PortKept, AtHand
    <3> QED BY <3>1, <3>2
  <2> QED BY <2>3, <2>4, ConnsLeft
<1>3. CASE sockets[Port] # None
  <2>1. BindFails /\ UNCHANGED <<sockets, router, state, bound, listeners, told>>
    BY <1>3
  <2>2. op' \in Op /\ op'.pc = "unroute" /\ OpShape' /\ ReleasesAll'
    BY <2>1, BindFailsKept
  <2>3. TypeOK'
    BY <2>1, <2>2 DEF TypeOK
  <2>4. \A p \in Ports : PortKept(p)'
    BY <2>1, <2>2 DEF PortKept, AtHand
  <2> QED BY <2>2, <2>3, <2>4, ConnsLeft
<1> QED BY <1>2, <1>3

\* The port is routed.  The router never refuses a port whose socket was free.
LEMMA BindRouteKept ==
  ASSUME IInv, BindRoute
  PROVE  IInv'
<1> USE DEF IInv, BindRoute, At
<1>1. op \in Op /\ op.svc \in Services /\ Port \in Ports
  BY PortIsAPort DEF TypeOK, OpShape
<1>2. PortKept(Port) /\ AtHand(Port, {"route"})
  BY <1>1 DEF AtHand
<1>3. router[Port] = None /\ sockets[Port] = Protocol[op.svc] /\ Port \notin told
  BY <1>2 DEF PortKept
<1>4. /\ op' \in Op /\ op'.kind = "start" /\ op'.pc = "listen"
      /\ op'.svc = op.svc /\ op'.todo = op.todo /\ Port' = Port
  BY <1>1, <1>3 DEF Goto, Op, OpPoints, Port
<1>5. /\ router' \in [Ports -> Services \cup {None}] /\ router'[Port] = op.svc
      /\ \A p \in Ports : p # Port => router'[p] = router[p]
      /\ UNCHANGED sockets
  BY <1>1, <1>3 DEF TypeOK
<1>6. TypeOK' /\ OpShape' /\ ReleasesAll'
  BY <1>1, <1>4, <1>5 DEF TypeOK, OpShape, ReleasesAll
<1>7. ASSUME NEW p \in Ports PROVE PortKept(p)'
  <2>1. CASE p = Port
    <3>1. op.svc # None /\ Protocol[op.svc] # None
      BY <1>1, ProxyAssumption
    <3>2. p \notin listeners
      BY <1>3, <2>1 DEF PortKept, AtHand
    <3> QED BY <1>3, <1>4, <1>5, <2>1, <3>1, <3>2 DEF PortKept, AtHand
  <2>2. CASE p # Port
    BY <1>4, <1>5, <2>2 DEF PortKept, AtHand
  <2> QED BY <2>1, <2>2
<1> QED BY <1>6, <1>7, ConnsLeft

\* The listener is in the table, the handle has the port.
LEMMA StoreListenerKept ==
  ASSUME IInv, StoreListener
  PROVE  IInv'
<1> USE DEF IInv, StoreListener, At
<1>1. /\ op \in Op /\ op.svc \in Services /\ Port \in Ports
      /\ Tail(op.todo) \in Seq(Ports) /\ bound[op.svc] \in Seq(Ports)
  BY PortIsAPort DEF TypeOK, OpShape
<1>2. router[Port] = op.svc
  BY <1>1 DEF PortKept, AtHand
<1>3. /\ op' \in Op /\ op'.kind = "start" /\ op'.pc = "open" /\ op'.svc = op.svc
  BY <1>1 DEF NextPort, Op, OpPoints
<1>4. /\ Append(bound[op.svc], Port) \in Seq(Ports)
      /\ Port \in ToSet(Append(bound[op.svc], Port))
      /\ \A q \in ToSet(bound[op.svc]) : q \in ToSet(Append(bound[op.svc], Port))
  BY <1>1, AppendedToSet
<1>5. /\ bound' \in [Services -> Seq(Ports)]
      /\ bound'[op.svc] = Append(bound[op.svc], Port)
      /\ \A s \in Services : s # op.svc => bound'[s] = bound[s]
  BY <1>1, <1>4 DEF TypeOK
<1>6. TypeOK' /\ OpShape' /\ ReleasesAll'
  BY <1>1, <1>3, <1>5 DEF TypeOK, OpShape, ReleasesAll
<1>7. ASSUME NEW p \in Ports PROVE PortKept(p)'
  <2>1. router[p] # None => router[p] \in Services
    BY DEF TypeOK
  <2>2. \A s \in Services : p \in ToSet(bound[s]) => p \in ToSet(bound'[s])
    BY <1>4, <1>5
  <2>3. CASE p = Port
    <3>1. router'[p] = op.svc /\ op.svc # None /\ p \in listeners'
      BY <1>1, <1>2, <2>3, ProxyAssumption
    <3>2. p \in ToSet(bound'[op.svc])
      BY <1>4, <1>5, <2>3
    <3>3. sockets[p] = Protocol[op.svc] /\ Protocol[op.svc] # None /\ p \notin told
      BY <1>1, <1>2, <2>3, <3>1, ProxyAssumption DEF PortKept
    <3> QED BY <1>3, <3>1, <3>2, <3>3 DEF PortKept, AtHand
  <2>4. CASE p # Port
    BY <1>3, <2>1, <2>2, <2>4 DEF PortKept, AtHand
  <2> QED BY <2>3, <2>4
<1> QED BY <1>6, <1>7, ConnsLeft

\* All ports are bound: the runtime is there, or its ports are given back.
LEMMA StartEndsKept ==
  ASSUME IInv, StartEnds
  PROVE  IInv'
<1> USE DEF IInv, StartEnds, At, proxy
<1>1. op \in Op /\ op.svc \in Services
  BY DEF TypeOK, OpShape
<1>2. UNCHANGED <<bound, sockets, told, router, listeners, conns>>
  OBVIOUS
<1>3. CASE op' = NoOp
  <2>1. op' \in Op
    BY <1>3 DEF NoOp, Op, OpKinds, OpPoints
  <2>2. state' \in [Services -> States] /\ runtime' \in SUBSET Services
    BY <1>1 DEF TypeOK, States
  <2>3. TypeOK'
    BY <1>2, <2>1, <2>2 DEF TypeOK
  <2>4. OpShape' /\ ReleasesAll'
    BY <1>3 DEF NoOp, OpShape, ReleasesAll
  <2>5. \A p \in Ports : PortKept(p)'
    BY <1>2, <1>3 DEF NoOp, PortKept, AtHand
  <2> QED BY <1>2, <2>3, <2>4, <2>5, ConnsLeft
<1>4. CASE BindFails /\ UNCHANGED <<state, runtime>>
  <2>1. op' \in Op /\ op'.pc = "unroute" /\ OpShape' /\ ReleasesAll'
    BY <1>2, <1>4, BindFailsKept
  <2>2. TypeOK'
    BY <1>2, <1>4, <2>1 DEF TypeOK
  <2>3. \A p \in Ports : PortKept(p)'
    BY <1>2, <2>1 DEF PortKept, AtHand
  <2> QED BY <1>2, <2>1, <2>2, <2>3, ConnsLeft
<1> QED BY <1>3, <1>4

\* A port leaves the list when no service of it is left in the router.
LEMMA PortReleased ==
  ASSUME IInv, op.pc \in {"unroute", "shut", "wait"}, op.todo # <<>>,
         NextPort("unroute"), UNCHANGED router, router[Port] = None
  PROVE  /\ op' \in Op /\ op'.pc = "unroute"
         /\ OpShape' /\ ReleasesAll'
<1> USE DEF IInv
<1>1. op \in Op /\ op.svc \in Services /\ op.todo \in Seq(Ports) /\ Tail(op.todo) \in Seq(Ports)
  BY PortIsAPort DEF TypeOK, OpShape, Op
<1>2. /\ op' \in Op /\ op'.kind = op.kind /\ op'.pc = "unroute" /\ op'.svc = op.svc
      /\ op'.todo = Tail(op.todo)
  BY <1>1 DEF NextPort, Op, OpPoints
<1>3. OpShape'
  BY <1>1, <1>2 DEF OpShape
<1>4. ASSUME op.kind \in {"undo", "stop"}, NEW p \in Ports, router[p] = op.svc
      PROVE  p \in ToSet(Tail(op.todo))
  <2>1. p # Port
    BY <1>1, <1>4, ProxyAssumption
  <2>2. p \in ToSet(op.todo)
    BY <1>4 DEF ReleasesAll
  <2> QED BY <1>1, <2>1, <2>2, HeadAndTail DEF Port
<1> QED BY <1>2, <1>3, <1>4 DEF ReleasesAll

\* A port leaves the router.
LEMMA UnrouteKept ==
  ASSUME IInv, Unroute
  PROVE  IInv'
<1> USE DEF IInv, Unroute
<1>1. op \in Op /\ op.svc \in Services /\ Port \in Ports
  BY PortIsAPort DEF TypeOK, OpShape
<1>2. CASE router[Port] = None
  <2>1. op' \in Op /\ op'.pc = "unroute" /\ OpShape' /\ ReleasesAll'
    BY <1>2, PortReleased
  <2>2. TypeOK'
    BY <1>2, <2>1 DEF TypeOK
  <2>3. \A p \in Ports : PortKept(p)'
    BY <1>2, <2>1 DEF PortKept, AtHand
  <2> QED BY <2>1, <2>2, <2>3, ConnsLeft
<1>3. CASE router[Port] # None
  <2>1. /\ op' \in Op /\ op'.kind = op.kind /\ op'.pc = "shut"
        /\ op'.svc = op.svc /\ op'.todo = op.todo /\ Port' = Port
    BY <1>1, <1>3 DEF Goto, Op, OpPoints, Port
  <2>2. /\ router' \in [Ports -> Services \cup {None}] /\ router'[Port] = None
        /\ \A p \in Ports : p # Port => router'[p] = router[p]
    BY <1>1, <1>3 DEF TypeOK
  <2>3. TypeOK' /\ OpShape'
    BY <1>1, <2>1, <2>2 DEF TypeOK, OpShape
  <2>4. ReleasesAll'
    BY <1>1, <2>1, <2>2, ProxyAssumption DEF ReleasesAll
  <2>5. \A p \in Ports : PortKept(p)'
    BY <2>1, <2>2 DEF PortKept, AtHand
  <2> QED BY <2>3, <2>4, <2>5, ConnsLeft
<1> QED BY <1>2, <1>3

\* Its listener leaves the table and is told.
LEMMA ShutListenerKept ==
  ASSUME IInv, ShutListener
  PROVE  IInv'
<1> USE DEF IInv, ShutListener
<1>1. op \in Op /\ op.todo # <<>> /\ op.svc \in Services /\ Port \in Ports
  BY PortIsAPort DEF TypeOK, OpShape
<1>2. router[Port] = None
  BY <1>1 DEF PortKept, AtHand
<1>3. CASE Port \in listeners
  <2>1. /\ op' \in Op /\ op'.kind = op.kind /\ op'.pc = "wait"
        /\ op'.svc = op.svc /\ op'.todo = op.todo /\ Port' = Port
    BY <1>1, <1>3 DEF Goto, Op, OpPoints, Port
  <2>2. TypeOK' /\ OpShape' /\ ReleasesAll'
    BY <1>1, <1>3, <2>1 DEF TypeOK, OpShape, ReleasesAll
  <2>3. \A p \in Ports : PortKept(p)'
    BY <1>2, <1>3, <2>1 DEF PortKept, AtHand
  <2> QED BY <2>2, <2>3, ConnsLeft
<1>4. CASE Port \notin listeners
  <2>1. op' \in Op /\ op'.pc = "unroute" /\ OpShape' /\ ReleasesAll'
    BY <1>1, <1>2, <1>4, PortReleased
  <2>2. TypeOK'
    BY <1>4, <2>1 DEF TypeOK
  <2>3. \A p \in Ports : PortKept(p)'
    BY <1>2, <1>4, <2>1 DEF PortKept, AtHand
  <2> QED BY <2>1, <2>2, <2>3, ConnsLeft
<1> QED BY <1>3, <1>4

\* Its task has ended.
LEMMA ListenerJoinedKept ==
  ASSUME IInv, ListenerJoined
  PROVE  IInv'
<1> USE DEF IInv, ListenerJoined, proxy
<1>1. op.todo # <<>> /\ Port \in Ports
  BY PortIsAPort DEF OpShape
<1>2. router[Port] = None
  BY <1>1 DEF PortKept, AtHand
<1>3. op' \in Op /\ op'.pc = "unroute" /\ OpShape' /\ ReleasesAll'
  BY <1>1, <1>2, PortReleased
<1>4. TypeOK'
  BY <1>3 DEF TypeOK
<1>5. \A p \in Ports : PortKept(p)'
  BY <1>3 DEF PortKept, AtHand
<1> QED BY <1>3, <1>4, <1>5, ConnsLeft

\* Every port was released: nothing is routed to the service any more, so
\* its books can be cleared.
LEMMA UnbindDoneKept ==
  ASSUME IInv, UnbindDone
  PROVE  IInv'
<1> USE DEF IInv, UnbindDone, proxy
<1>1. op.svc \in Services /\ op.kind \in {"undo", "stop"}
  BY DEF TypeOK, Op, OpKinds, OpShape
<1>2. op' \in Op
  BY DEF NoOp, Op, OpKinds, OpPoints
<1>3. /\ bound' \in [Services -> Seq(Ports)]
      /\ \A s \in Services : s # op.svc => bound'[s] = bound[s]
  BY <1>1 DEF TypeOK
<1>4. TypeOK'
  BY <1>1, <1>2, <1>3 DEF TypeOK, States
<1>5. OpShape' /\ ReleasesAll'
  BY DEF NoOp, OpShape, ReleasesAll
<1>6. ASSUME NEW p \in Ports PROVE PortKept(p)'
  <2>1. router[p] # op.svc
    BY <1>1 DEF ReleasesAll, ToSet
  <2>2. router[p] # None => router[p] \in Services /\ bound'[router[p]] = bound[router[p]]
    BY <1>3, <2>1 DEF TypeOK
  <2> QED BY <2>2 DEF NoOp, PortKept, AtHand
<1> QED BY <1>4, <1>5, <1>6, ConnsLeft

\* The client hangs up: a socket not routed yet is dropped.
LEMMA HangUpKept ==
  ASSUME IInv, HangUp
  PROVE  IInv'
<1> USE DEF IInv, HangUp
<1>1. op' \in Op
  BY DEF NoOp, Op, OpKinds, OpPoints
<1>2. OpShape' /\ ReleasesAll'
  BY DEF NoOp, OpShape, ReleasesAll
<1>3. CASE op.pc = "route"
  <2>1. Port \in Ports
    BY <1>3, PortIsAPort DEF OpShape
  <2>2. /\ sockets' \in [Ports -> {"http", "tcp", None}] /\ sockets'[Port] = None
        /\ \A p \in Ports : p # Port => sockets'[p] = sockets[p]
    BY <1>3, <2>1 DEF TypeOK
  <2>3. TypeOK'
    BY <1>1, <2>2 DEF TypeOK
  <2>4. ASSUME NEW p \in Ports PROVE PortKept(p)'
    <3>1. CASE p = Port
      BY <1>3, <2>2, <3>1 DEF NoOp, PortKept, AtHand
    <3>2. CASE p # Port
      BY <1>3, <2>2, <3>2 DEF NoOp, PortKept, AtHand
    <3> QED BY <3>1, <3>2
  <2> QED BY <1>2, <2>3, <2>4, <1>3, ConnsLeft
<1>4. CASE op.pc # "route"
  <2>1. TypeOK'
    BY <1>1, <1>4 DEF TypeOK
  <2>2. \A p \in Ports : PortKept(p)'
    BY <1>4 DEF NoOp, PortKept, AtHand
  <2> QED BY <1>2, <2>1, <2>2, ConnsLeft
<1> QED BY <1>3, <1>4

\* A listener that was told ends; its port is not routed.
LEMMA ListenerEndsKept ==
  ASSUME IInv, NEW p \in Ports, ListenerEnds(p)
  PROVE  IInv'
<1> USE DEF IInv, ListenerEnds, services
<1>1. router[p] = None /\ ~AtHand(p, {"route", "listen"})
  BY DEF PortKept, AtHand, Listening
<1>2. p \notin listeners
  BY DEF PortKept
<1>3. /\ sockets' \in [Ports -> {"http", "tcp", None}] /\ sockets'[p] = None
      /\ \A q \in Ports : q # p => sockets'[q] = sockets[q]
  BY DEF TypeOK
<1>4. TypeOK' /\ OpShape' /\ ReleasesAll'
  BY <1>3 DEF TypeOK, OpShape, ReleasesAll
<1>5. ASSUME NEW q \in Ports PROVE PortKept(q)'
  <2>1. Port' = Port
    BY DEF Port
  <2>2. CASE q = p
    BY <1>1, <1>2, <1>3, <2>1, <2>2 DEF PortKept, AtHand
  <2>3. CASE q # p
    BY <1>3, <2>1, <2>3 DEF PortKept, AtHand
  <2> QED BY <2>2, <2>3
<1>6. ASSUME NEW c \in Conns PROVE ConnKept(c)'
  BY DEF ConnKept, Idle
<1> QED BY <1>4, <1>5, <1>6

\* What the connections do leaves the ports alone.
LEMMA PortsLeft ==
  ASSUME IInv, UNCHANGED <<services, proxy>>, conns' \in [Conns -> Conn]
  PROVE  TypeOK' /\ OpShape' /\ ReleasesAll' /\ \A p \in Ports : PortKept(p)'
<1> USE DEF IInv, services, proxy
<1>1. TypeOK' /\ OpShape' /\ ReleasesAll'
  BY DEF TypeOK, OpShape, ReleasesAll
<1>2. \A p \in Ports : PortKept(p)'
  BY DEF PortKept, AtHand, Port
<1> QED BY <1>1, <1>2

\* One connection moves on, the others are as before.
LEMMA ConnMoves ==
  ASSUME IInv, UNCHANGED <<services, proxy>>, NEW c \in Conns, NEW conn \in Conn,
         conns' = [conns EXCEPT ![c] = conn],
         conn.pc # "closed" => conn.port \in Ports,
         conn.pc \in {"routed", "serving"} => conn.svc \in Services,
         conn.pc = "serving" => Idle /\ Protocol[conn.svc] = conn.protocol
  PROVE  IInv'
<1>1. /\ conns' \in [Conns -> Conn] /\ conns'[c] = conn
      /\ \A d \in Conns : d # c => conns'[d] = conns[d]
  BY DEF IInv, TypeOK
<1>2. \A d \in Conns : ConnKept(d)'
  BY <1>1 DEF IInv, ConnKept, services, Idle
<1> QED BY <1>1, <1>2, PortsLeft DEF IInv

\* A request that was answered leaves no service behind.
LEMMA AnsweredKept ==
  ASSUME IInv, UNCHANGED <<services, proxy>>, NEW c \in Conns,
         conns[c].pc # "closed", Answered(c)
  PROVE  IInv' /\ conns'[c].pc # "serving"
<1>1. conns \in [Conns -> Conn] /\ conns[c] \in Conn /\ conns[c].port \in Ports
  BY DEF IInv, TypeOK, ConnKept
<1>2. PICK conn : /\ conn = (IF conns[c].protocol = "tcp" THEN NoConn
                             ELSE [conns[c] EXCEPT !.pc = "request", !.svc = None])
                  /\ conns' = [conns EXCEPT ![c] = conn]
  BY DEF Answered
<1>3. /\ conn \in Conn /\ conn.pc \in {"closed", "request"}
      /\ conn.pc # "closed" => conn.port \in Ports
  <2>1. CASE conns[c].protocol = "tcp"
    BY <1>2, <2>1 DEF NoConn, Conn
  <2>2. CASE conns[c].protocol # "tcp"
    BY <1>1, <1>2, <2>2 DEF Conn
  <2> QED BY <2>1, <2>2
<1>4. conns'[c] = conn
  BY <1>1, <1>2
<1> QED BY <1>2, <1>3, <1>4, ConnMoves

\* A listener takes a connection.
LEMMA AcceptKept ==
  ASSUME IInv, NEW p \in Ports, NEW c \in Conns, Accept(c, p)
  PROVE  IInv'
<1>1. PICK conn : /\ conn = [NoConn EXCEPT !.pc = "request", !.port = p,
                                            !.protocol = sockets[p]]
                  /\ conns' = [conns EXCEPT ![c] = conn]
                  /\ UNCHANGED <<services, proxy>>
  BY DEF Accept
<1>2. sockets[p] \in {"http", "tcp", None}
  BY DEF IInv, TypeOK
<1>3. conn \in Conn /\ conn.pc = "request" /\ conn.port = p
  BY <1>1, <1>2 DEF NoConn, Conn
<1> QED BY <1>1, <1>3, ConnMoves

\* A connection looks its port up.
LEMMA LookupKept ==
  ASSUME IInv, NEW c \in Conns, Lookup(c)
  PROVE  IInv'
<1>1. UNCHANGED <<services, proxy>> /\ conns[c].pc = "request"
  BY DEF Lookup
<1>2. CASE Answered(c)
  BY <1>1, <1>2, AnsweredKept
<1>3. CASE /\ router[conns[c].port] # None
           /\ conns' = [conns EXCEPT ![c].pc = "routed",
                                     ![c].svc = router[conns[c].port]]
  <2>1. conns \in [Conns -> Conn] /\ conns[c] \in Conn
    BY DEF IInv, TypeOK
  <2>2. conns[c].port \in Ports
    BY <1>1 DEF IInv, ConnKept
  <2>3. router[conns[c].port] \in Services
    BY <1>3, <2>2 DEF IInv, TypeOK
  <2>4. PICK conn : /\ conn = [conns[c] EXCEPT !.pc = "routed",
                                               !.svc = router[conns[c].port]]
                    /\ conns' = [conns EXCEPT ![c] = conn]
    BY <1>3, <2>1
  <2>5. /\ conn \in Conn /\ conn.pc = "routed" /\ conn.svc \in Services
        /\ conn.port \in Ports
    BY <2>1, <2>2, <2>3, <2>4 DEF Conn
  <2> QED BY <1>1, <2>4, <2>5, ConnMoves
<1> QED BY <1>2, <1>3 DEF Lookup

\* A request is handed to a service, if that has a runtime for it.
LEMMA ServeKept ==
  ASSUME IInv, NEW c \in Conns, Serve(c)
  PROVE  IInv'
<1>1. UNCHANGED <<services, proxy>> /\ conns[c].pc = "routed" /\ Idle
  BY DEF Serve
<1>2. CASE Answered(c)
  BY <1>1, <1>2, AnsweredKept
<1>3. CASE /\ HasRuntime(conns[c].svc, conns[c].protocol)
           /\ conns' = [conns EXCEPT ![c].pc = "serving"]
  <2>1. /\ conns \in [Conns -> Conn] /\ conns[c] \in Conn
        /\ conns[c].port \in Ports /\ conns[c].svc \in Services
    BY <1>1 DEF IInv, TypeOK, ConnKept
  <2>2. PICK conn : /\ conn = [conns[c] EXCEPT !.pc = "serving"]
                    /\ conns' = [conns EXCEPT ![c] = conn]
    BY <1>3, <2>1
  <2>3. /\ conn \in Conn /\ conn.pc = "serving" /\ conn.port \in Ports
        /\ conn.svc \in Services /\ Protocol[conn.svc] = conn.protocol
    BY <1>3, <2>1, <2>2 DEF Conn, HasRuntime
  <2> QED BY <1>1, <2>2, <2>3, ConnMoves
<1> QED BY <1>2, <1>3 DEF Serve

\* A service has handled a request, a client closes its connection.
LEMMA ServedOrClosed ==
  ASSUME IInv, NEW c \in Conns, Served(c) \/ Close(c)
  PROVE  IInv'
<1>1. CASE Served(c)
  BY <1>1, AnsweredKept DEF Served
<1>2. CASE Close(c)
  <2>1. NoConn \in Conn /\ NoConn.pc = "closed"
    BY DEF NoConn, Conn
  <2> QED BY <1>2, <2>1, ConnMoves DEF Close
<1> QED BY <1>1, <1>2

\* Every step keeps the invariant.
LEMMA StepKept ==
  ASSUME IInv, [Next]_vars
  PROVE  IInv'
<1>1. CASE \E s \in Services : Start(s) \/ Stop(s) \/ Delete(s)
  BY <1>1, StartKept, StopKept, DeleteKept
<1>2. CASE Progress \/ HangUp
  BY <1>2, OpenSocketKept, BindRouteKept, StoreListenerKept, StartEndsKept, UnrouteKept,
     ShutListenerKept, ListenerJoinedKept, UnbindDoneKept, HangUpKept DEF Progress
<1>3. CASE \E p \in Ports : ListenerEnds(p) \/ \E c \in Conns : Accept(c, p)
  BY <1>3, ListenerEndsKept, AcceptKept
<1>4. CASE \E c \in Conns : Lookup(c) \/ Serve(c) \/ Served(c) \/ Close(c)
  BY <1>4, LookupKept, ServeKept, ServedOrClosed
<1>5. CASE UNCHANGED vars
  <2>1. UNCHANGED <<services, proxy>> /\ conns' = conns
    BY <1>5 DEF vars, services, proxy
  <2>2. \A c \in Conns : ConnKept(c)'
    BY <2>1 DEF IInv, ConnKept, services, Idle
  <2> QED BY <2>1, <2>2, PortsLeft DEF IInv, TypeOK
<1> QED BY <1>1, <1>2, <1>3, <1>4, <1>5 DEF Next

-----------------------------------------------------------------------------
(* What it shows *)

\* The invariant of the router, the listener table, the sockets and the
\* books of the services holds in every reachable state (bind_service_ports,
\* unbind_service_ports and the handlers of the connections).
THEOREM Invariant == Spec => []IInv
BY Initially, StepKept, PTL DEF Spec

\* While no start or stop is under way a port is routed exactly if the
\* listener table has it, and then its socket listens with the protocol of
\* a service that has it in its books, whoever hung up before.
THEOREM RouterAndTableAgree == Spec => []TablesAgree
<1>1. IInv => TablesAgree
  BY DEF IInv, OpShape, PortKept, AtHand, Idle, TablesAgree
<1> QED BY <1>1, Invariant, PTL

\* A connection whose listener is gone is never handled by a service of
\* the other protocol, whatever its port was bound to meanwhile.
THEOREM ProtocolIsKept == Spec => []ProtocolKept
<1>1. IInv => ProtocolKept
  BY DEF IInv, ConnKept, ProtocolKept
<1> QED BY <1>1, Invariant, PTL

\* A service keeps its state while it handles a request: starts, stops and
\* deletions wait for the read lock, and none is under way when it is taken.
THEOREM ServiceIsHeld == Spec => RequestsHoldTheService
<1>1. ASSUME IInv, [Next]_vars
      PROVE  [\A c \in Conns :
                (conns[c].pc = "serving" /\ conns'[c].pc = "serving") =>
                  state'[conns[c].svc] = state[conns[c].svc]]_vars
  <2>1. SUFFICES ASSUME NEW c \in Conns, conns[c].pc = "serving"
                 PROVE  UNCHANGED state
    BY <2>1
  <2>2. op.pc = "idle" /\ ~Exclusive
    BY <1>1, <2>1 DEF IInv, OpShape, ConnKept, Idle, Exclusive
  <2>3. CASE \E s \in Services : Start(s) \/ Stop(s) \/ Delete(s)
    BY <2>2, <2>3 DEF Start, Stop, Delete
  <2>4. CASE Progress \/ HangUp
    BY <2>2, <2>4 DEF Progress, HangUp, OpenSocket, BindRoute, StoreListener, StartEnds,
       Unroute, ShutListener, ListenerJoined, UnbindDone, At
  <2>5. CASE \/ \E p \in Ports : ListenerEnds(p) \/ \E d \in Conns : Accept(d, p)
             \/ \E d \in Conns : Lookup(d) \/ Serve(d) \/ Served(d) \/ Close(d)
    BY <2>5 DEF ListenerEnds, Accept, Lookup, Serve, Served, Close, services
  <2>6. CASE UNCHANGED vars
    BY <2>6 DEF vars
  <2> QED BY <1>1, <2>3, <2>4, <2>5, <2>6 DEF Next
<1> QED BY <1>1, Invariant, PTL DEF Spec, RequestsHoldTheService

-----------------------------------------------------------------------------
(* Refinement of the life cycle of a port *)

\* A step that changes one port only, for the port life cycle.
LEMMA PortBecomes ==
  ASSUME NEW p \in Ports, NEW to, PortView(p)' = to,
         \A q \in Ports \ {p} : PortView(q)' = PortView(q)
  PROVE  Lifecycle!Becomes(p, to)
BY DEF Lifecycle!Becomes

\* A step of the port life cycle is one of its actions for some port.
LEMMA PortMoves ==
  ASSUME NEW p \in Ports,
         \/ \E s \in Services : Lifecycle!Claim(p, s)
         \/ Lifecycle!Open(p) \/ Lifecycle!GiveUp(p)
         \/ Lifecycle!Close(p) \/ Lifecycle!Release(p)
  PROVE  [Lifecycle!Next]_([q \in Ports |-> PortView(q)])
BY DEF Lifecycle!Next

\* Steps that no port shows are stutters of the port life cycle.
LEMMA PortsStay ==
  ASSUME \A q \in Ports : PortView(q)' = PortView(q)
  PROVE  [Lifecycle!Next]_([q \in Ports |-> PortView(q)])
OBVIOUS

\* The view of a port when it is not the one that waits for its route.
LEMMA SettledView ==
  ASSUME NEW p \in Ports, ~AtHand(p, {"route"})
  PROVE  PortView(p) = [phase |-> IF router[p] # None THEN "open"
                                  ELSE IF sockets[p] # None THEN "closing" ELSE "free",
                        svc |-> router[p], protocol |-> sockets[p]]
BY DEF PortView

\* A socket is taken: of a free port, for the service that starts.
LEMMA OpenSocketRefines ==
  ASSUME IInv, OpenSocket
  PROVE  [Lifecycle!Next]_([q \in Ports |-> PortView(q)])
<1>1. /\ Port \in Ports /\ op.svc \in Services /\ op.pc = "open"
  BY PortIsAPort DEF IInv, OpShape, OpenSocket, At
<1>2. \A q \in Ports : ~AtHand(q, {"route"})
  BY <1>1 DEF AtHand
<1>3. CASE sockets[Port] # None
  <2>1. op'.pc = "unroute" /\ UNCHANGED <<router, sockets>>
    BY <1>3 DEF OpenSocket, BindFails, IInv, TypeOK, Op
  <2>2. \A q \in Ports : PortView(q)' = PortView(q)
    BY <1>2, <2>1 DEF PortView, AtHand
  <2> QED BY <2>2, PortsStay
<1>4. CASE sockets[Port] = None
  <2>1. PICK p \in Ports : p = Port
    BY <1>1
  <2>2. /\ sockets' = [sockets EXCEPT ![p] = Protocol[op.svc]] /\ UNCHANGED router
        /\ op' = [op EXCEPT !.pc = "route"]
    BY <1>4, <2>1 DEF OpenSocket, Goto
  <2>3. op \in Op /\ sockets \in [Ports -> {"http", "tcp", None}]
    BY DEF IInv, TypeOK
  <2>4. op'.pc = "route" /\ op'.svc = op.svc /\ Port' = p
    BY <2>1, <2>2, <2>3 DEF Op, Port
  <2>5. router[p] = None
    <3>1. router[p] # None => sockets[p] = Protocol[router[p]] /\ router[p] \in Services
      BY DEF IInv, PortKept, TypeOK
    <3> QED BY <1>4, <2>1, <3>1, ProxyAssumption
  <2>6. PortView(p) = Lifecycle!Free
    BY <1>2, <1>4, <2>1, <2>5, SettledView DEF Lifecycle!Free
  <2>7. PortView(p)' = [phase |-> "opening", svc |-> op.svc, protocol |-> Protocol[op.svc]]
    BY <2>2, <2>3, <2>4 DEF PortView, AtHand
  <2>8. \A q \in Ports \ {p} : PortView(q)' = PortView(q)
    BY <1>2, <2>2, <2>3, <2>4 DEF PortView, AtHand
  <2>9. \A q \in Ports : PortView(q).phase # "opening"
    BY <1>2 DEF PortView
  <2>10. Lifecycle!Claim(p, op.svc)
    BY <2>6, <2>7, <2>8, <2>9, PortBecomes DEF Lifecycle!Claim
  <2> QED BY <1>1, <2>10, PortMoves
<1> QED BY <1>3, <1>4

\* A socket that was taken gets its route.
LEMMA BindRouteRefines ==
  ASSUME IInv, BindRoute
  PROVE  [Lifecycle!Next]_([q \in Ports |-> PortView(q)])
<1>1. op.pc = "route" /\ op.svc \in Services /\ op.todo # <<>>
  BY DEF IInv, OpShape, BindRoute, At
<1>2. PICK p \in Ports : p = Port
  BY <1>1, PortIsAPort DEF IInv
<1>3. /\ AtHand(p, {"route"}) /\ \A q \in Ports \ {p} : ~AtHand(q, {"route"})
  BY <1>1, <1>2 DEF AtHand
<1>4. router[p] = None /\ sockets[p] = Protocol[op.svc]
  BY <1>3 DEF IInv, PortKept
<1>5. /\ router' = [router EXCEPT ![p] = op.svc] /\ UNCHANGED sockets
      /\ op' = [op EXCEPT !.pc = "listen"]
  BY <1>2, <1>4 DEF BindRoute, Goto
<1>6. op \in Op /\ router \in [Ports -> Services \cup {None}]
  BY DEF IInv, TypeOK
<1>7. op'.pc = "listen"
  BY <1>5, <1>6 DEF Op
<1>8. PortView(p) = [phase |-> "opening", svc |-> op.svc, protocol |-> sockets[p]]
  BY <1>3 DEF PortView
<1>9. PortView(p)' = [phase |-> "open", svc |-> op.svc, protocol |-> sockets[p]]
  <2>1. op.svc # None
    BY <1>1, ProxyAssumption
  <2> QED BY <1>5, <1>6, <1>7, <2>1 DEF PortView, AtHand
<1>10. \A q \in Ports \ {p} : PortView(q)' = PortView(q)
  BY <1>3, <1>5, <1>6, <1>7 DEF PortView, AtHand
<1>11. PortView(p)' = [PortView(p) EXCEPT !.phase = "open"]
  BY <1>8, <1>9
<1>12. Lifecycle!Open(p)
  BY <1>8, <1>10, <1>11, PortBecomes DEF Lifecycle!Open
<1> QED BY <1>12, PortMoves

\* A port loses its route: its listener is still there.
LEMMA UnrouteRefines ==
  ASSUME IInv, Unroute
  PROVE  [Lifecycle!Next]_([q \in Ports |-> PortView(q)])
<1>1. op.pc = "unroute" /\ op.todo # <<>> /\ UNCHANGED sockets
  BY DEF Unroute
<1>2. PICK p \in Ports : p = Port
  BY <1>1, PortIsAPort DEF IInv
<1>3. op \in Op /\ router \in [Ports -> Services \cup {None}]
  BY DEF IInv, TypeOK
<1>4. op'.pc \in {"unroute", "shut"}
  BY <1>3 DEF Unroute, NextPort, Goto, Op
<1>5. \A q \in Ports : ~AtHand(q, {"route"}) /\ ~AtHand(q, {"route"})'
  BY <1>1, <1>4 DEF AtHand
<1>6. CASE router[p] = None
  <2>1. UNCHANGED router
    BY <1>2, <1>6 DEF Unroute
  <2>2. \A q \in Ports : PortView(q)' = PortView(q)
    BY <1>1, <1>5, <2>1 DEF PortView
  <2> QED BY <2>2, PortsStay
<1>7. CASE router[p] # None
  <2>1. router' = [router EXCEPT ![p] = None]
    BY <1>2, <1>7 DEF Unroute
  <2>2. sockets[p] # None
    <3>1. sockets[p] = Protocol[router[p]] /\ router[p] \in Services
      BY <1>7 DEF IInv, PortKept, TypeOK
    <3> QED BY <3>1, ProxyAssumption
  <2>3. PortView(p) = [phase |-> "open", svc |-> router[p], protocol |-> sockets[p]]
    BY <1>5, <1>7, SettledView
  <2>4. PortView(p)' = [phase |-> "closing", svc |-> None, protocol |-> sockets[p]]
    BY <1>1, <1>3, <1>5, <2>1, <2>2 DEF PortView
  <2>5. \A q \in Ports \ {p} : PortView(q)' = PortView(q)
    BY <1>1, <1>3, <1>5, <2>1 DEF PortView
  <2>6. Lifecycle!Close(p)
    BY <2>3, <2>4, <2>5, PortBecomes DEF Lifecycle!Close
  <2> QED BY <2>6, PortMoves
<1> QED BY <1>6, <1>7

\* A listener that was told to shut down ends: its port has no route.
LEMMA ListenerEndsRefines ==
  ASSUME IInv, NEW p \in Ports, ListenerEnds(p)
  PROVE  [Lifecycle!Next]_([q \in Ports |-> PortView(q)])
<1>1. /\ sockets[p] # None /\ p \in told /\ ~AtHand(p, {"route"})
      /\ sockets' = [sockets EXCEPT ![p] = None] /\ UNCHANGED <<op, router>>
  BY DEF ListenerEnds, Listening, AtHand, services
<1>2. router[p] = None /\ sockets \in [Ports -> {"http", "tcp", None}]
  BY <1>1 DEF IInv, PortKept, TypeOK
<1>3. ~AtHand(p, {"route"})'
  BY <1>1 DEF AtHand, Port
<1>4. PortView(p) = [phase |-> "closing", svc |-> None, protocol |-> sockets[p]]
  BY <1>1, <1>2, SettledView
<1>5. PortView(p)' = Lifecycle!Free
  BY <1>1, <1>2, <1>3 DEF PortView, Lifecycle!Free
<1>6. \A q \in Ports \ {p} : PortView(q)' = PortView(q)
  BY <1>1, <1>2 DEF PortView, AtHand, Port
<1>7. Lifecycle!Release(p)
  BY <1>4, <1>5, <1>6, PortBecomes DEF Lifecycle!Release
<1> QED BY <1>7, PortMoves

\* A client hangs up: the port that waits for its route is given up.
LEMMA HangUpRefines ==
  ASSUME IInv, HangUp
  PROVE  [Lifecycle!Next]_([q \in Ports |-> PortView(q)])
<1>1. op'.pc = "idle" /\ UNCHANGED router
  BY DEF HangUp, NoOp
<1>2. CASE op.pc # "route"
  <2>1. UNCHANGED sockets
    BY <1>2 DEF HangUp
  <2>2. \A q \in Ports : PortView(q)' = PortView(q)
    BY <1>1, <1>2, <2>1 DEF PortView, AtHand
  <2> QED BY <2>2, PortsStay
<1>3. CASE op.pc = "route"
  <2>1. PICK p \in Ports : p = Port
    BY <1>3, PortIsAPort DEF IInv, OpShape
  <2>2. sockets' = [sockets EXCEPT ![p] = None]
    BY <1>3, <2>1 DEF HangUp
  <2>3. /\ AtHand(p, {"route"}) /\ \A q \in Ports \ {p} : ~AtHand(q, {"route"})
    BY <1>3, <2>1 DEF AtHand
  <2>4. router[p] = None /\ sockets \in [Ports -> {"http", "tcp", None}]
    BY <2>3 DEF IInv, PortKept, TypeOK
  <2>5. PortView(p).phase = "opening"
    BY <2>3 DEF PortView
  <2>6. PortView(p)' = Lifecycle!Free
    BY <1>1, <2>2, <2>4 DEF PortView, AtHand, Lifecycle!Free
  <2>7. \A q \in Ports \ {p} : PortView(q)' = PortView(q)
    BY <1>1, <2>2, <2>3, <2>4 DEF PortView, AtHand
  <2>8. Lifecycle!GiveUp(p)
    BY <2>5, <2>6, <2>7, PortBecomes DEF Lifecycle!GiveUp
  <2> QED BY <2>8, PortMoves
<1> QED BY <1>2, <1>3

\* The other steps touch no socket and no route, and no port waits for its
\* route before or after them.
LEMMA OthersRefine ==
  ASSUME IInv,
         \/ \E s \in Services : Start(s) \/ Stop(s) \/ Delete(s)
         \/ StoreListener \/ StartEnds \/ ShutListener \/ ListenerJoined \/ UnbindDone
  PROVE  [Lifecycle!Next]_([q \in Ports |-> PortView(q)])
<1>1. op \in Op /\ (Idle => op.pc = "idle")
  BY DEF IInv, TypeOK, OpShape, Idle
<1>2. UNCHANGED <<router, sockets>> /\ op.pc # "route" /\ op'.pc # "route"
  <2>1. CASE \E s \in Services : Start(s) \/ Stop(s) \/ Delete(s)
    BY <1>1, <2>1 DEF Start, Stop, Delete, proxy
  <2>2. ASSUME NEW pc, NextPort(pc) \/ Goto(pc)
        PROVE  op'.pc = pc
    BY <1>1, <2>2 DEF NextPort, Goto, Op
  <2>3. CASE StoreListener \/ StartEnds
    <3>1. op.pc # "route" /\ UNCHANGED <<router, sockets>>
      BY <2>3 DEF StoreListener, StartEnds, At, proxy
    <3>2. op'.pc \in {"open", "idle", "unroute"}
      <4>1. BindFails => op'.pc = "unroute"
        BY <1>1 DEF BindFails, Op
      <4> QED BY <2>2, <2>3, <4>1 DEF StoreListener, StartEnds, NoOp
    <3> QED BY <3>1, <3>2
  <2>4. CASE ShutListener \/ ListenerJoined \/ UnbindDone
    <3>1. op.pc # "route" /\ UNCHANGED <<router, sockets>>
      BY <2>4 DEF ShutListener, ListenerJoined, UnbindDone, proxy
    <3>2. op'.pc \in {"wait", "unroute", "idle"}
      BY <2>2, <2>4 DEF ShutListener, ListenerJoined, UnbindDone, NoOp
    <3> QED BY <3>1, <3>2
  <2> QED BY <2>1, <2>3, <2>4
<1>3. \A q \in Ports : PortView(q)' = PortView(q)
  BY <1>2 DEF PortView, AtHand
<1> QED BY <1>3, PortsStay

\* The proxy server implements the life cycle of its ports: one service at a
\* time opens a port, the next one gets it only through a listener that has
\* ended, and an opening that breaks off gives it back (bind_port and
\* unbind_port, with callers that hang up).
THEOREM PortRefinement == Spec => PortSpec
<1>1. Init => Lifecycle!Init
  <2> SUFFICES ASSUME Init PROVE Lifecycle!Init
    OBVIOUS
  <2>1. op.pc = "idle" /\ \A p \in Ports : router[p] = None /\ sockets[p] = None
    BY DEF Init, NoOp
  <2>2. \A p \in Ports : PortView(p) = Lifecycle!Free
    BY <2>1 DEF PortView, AtHand, Lifecycle!Free
  <2> QED BY <2>2 DEF Lifecycle!Init
<1>2. IInv /\ [Next]_vars => [Lifecycle!Next]_([p \in Ports |-> PortView(p)])
  <2> SUFFICES ASSUME IInv, [Next]_vars
               PROVE  [Lifecycle!Next]_([p \in Ports |-> PortView(p)])
    OBVIOUS
  <2>1. CASE \E s \in Services : Start(s) \/ Stop(s) \/ Delete(s)
    BY <2>1, OthersRefine
  <2>2. CASE Progress \/ HangUp
    BY <2>2, OpenSocketRefines, BindRouteRefines, UnrouteRefines, HangUpRefines, OthersRefine
       DEF Progress
  <2>3. CASE \E p \in Ports : ListenerEnds(p)
    BY <2>3, ListenerEndsRefines
  <2>4. CASE \/ \E p \in Ports : \E c \in Conns : Accept(c, p)
             \/ \E c \in Conns : Lookup(c) \/ Serve(c) \/ Served(c) \/ Close(c)
             \/ UNCHANGED vars
    <3>1. UNCHANGED <<op, router, sockets>>
      BY <2>4 DEF Accept, Lookup, Serve, Served, Close, services, proxy, vars
    <3>2. \A q \in Ports : PortView(q)' = PortView(q)
      BY <3>1 DEF PortView, AtHand, Port
    <3> QED BY <3>2, PortsStay
  <2> QED BY <2>1, <2>2, <2>3, <2>4 DEF Next
<1> QED BY <1>1, <1>2, Invariant, PTL DEF Spec, PortSpec, Lifecycle!Spec

=============================================================================
