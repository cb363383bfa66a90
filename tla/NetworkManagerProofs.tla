------------------------ MODULE NetworkManagerProofs ------------------------
(***************************************************************************)
(* NetworkManager for every set of tasks, networks, services and names,    *)
(* with restarts at any point.  A call whose client hangs up between the   *)
(* two halves of a change leaves the two maps apart (the future is dropped *)
(* at its await point), so what relates them is shown for instances        *)
(* without hang-ups, and what relates memory and store for instances whose *)
(* writes to the store succeed as well.                                    *)
(***************************************************************************)
EXTENDS NetworkManager, TLAPS

-----------------------------------------------------------------------------
(* Locks and program points *)

\* Where a task holds the networks for writing.
LEMMA WriterPoints ==
  HoldsWrite("networks") = {"join.map", "join.name", "join.id", "leave.map"}
BY DEF HoldsWrite

\* The points, spelled out for the backends.
LEMMA PointLiterals ==
  Points = {"idle", "resolve", "create", "delete", "join", "join.map", "join.name",
            "join.id", "leave", "leave.map", "forget", "forget.next", "forget.id",
            "forget.name", "ingress", "ingress.check"}
BY DEF Points, Joining, Leaving, Forgetting, Checking

\* A task that takes the networks lock finds no writer in it.
LEMMA NetworksFree ==
  ASSUME NEW c \in Tasks,
         CanTake(c),
         pc[c] \in {"resolve", "ingress.check", "create", "delete", "join", "leave"}
  PROVE  Writers("networks") = {}
<1>1. PICK l \in Locks : \/ pc[c] \in WantsRead(l)  /\ Writers(l) = {}
                         \/ pc[c] \in WantsWrite(l) /\ Writers(l) = {} /\ Readers(l) = {}
  BY DEF CanTake
<1>2. l = "networks"
  BY <1>1 DEF Locks, WantsRead, WantsWrite
<1> QED BY <1>1, <1>2

\* Only the task that queues changes its point.
LEMMA Moves ==
  ASSUME TypeOK, NEW c \in Tasks, NEW to \in Points, Queue(c, to)
  PROVE  /\ pc' \in [Tasks -> Points]
         /\ pc'[c] = to
         /\ \A d \in Tasks : d # c => pc'[d] = pc[d]
BY DEF TypeOK, Queue

\* A call that ends leaves the other calls alone.
LEMMA Returns ==
  ASSUME TypeOK, NEW c \in Tasks, Return(c)
  PROVE  /\ frame' \in [Tasks -> Frame]
         /\ pc' \in [Tasks -> Points]
         /\ pc'[c] = "idle"
         /\ \A d \in Tasks : d # c => pc'[d] = pc[d] /\ frame'[d] = frame[d]
<1>1. NoFrame \in Frame
  BY DEF NoFrame, Frame
<1>2. "idle" \in Points /\ Queue(c, "idle")
  BY PointLiterals DEF Return
<1>3. frame' = [frame EXCEPT ![c] = NoFrame]
  BY DEF Return
<1> QED BY <1>1, <1>2, <1>3, Moves DEF TypeOK

\* remove_service ends, or goes on with remove_service_from_all.
LEMMA LeftMoves ==
  ASSUME TypeOK, NEW c \in Tasks, Left(c)
  PROVE  /\ frame' \in [Tasks -> Frame]
         /\ pc' \in [Tasks -> Points]
         /\ \/ pc'[c] = "idle"
            \/ pc'[c] = "forget.next" /\ frame'[c] = frame[c]
         /\ \A d \in Tasks : d # c => pc'[d] = pc[d] /\ frame'[d] = frame[d]
<1>1. CASE frame[c].op = "forget"
  <2>1. "forget.next" \in Points /\ Queue(c, "forget.next") /\ frame' = frame
    BY <1>1, PointLiterals DEF Left
  <2> QED BY <2>1, Moves DEF TypeOK
<1>2. CASE frame[c].op # "forget"
  <2>1. Return(c)
    BY <1>2 DEF Left
  <2> QED BY <2>1, Returns
<1> QED BY <1>1, <1>2

-----------------------------------------------------------------------------
(* Networks and their members *)

\* A change of the members of a network that exists changes nothing else.
LEMMA MembersUpdate ==
  ASSUME TypeOK, NEW n \in Nets, Exists(n), NEW M \in SUBSET Services,
         networks' = [networks EXCEPT ![n].members = M]
  PROVE  /\ networks' \in [Nets -> Network \cup {NoNet}]
         /\ \A m \in Nets : m # n => networks'[m] = networks[m]
         /\ \A m \in Nets : Exists(m)' <=> Exists(m)
         /\ \A m \in Nets, s \in Services :
              HasMember(m, s)' <=> IF m = n THEN s \in M ELSE HasMember(m, s)
<1>1. networks[n] \in Network
  BY DEF TypeOK, Exists
<1>2. [networks[n] EXCEPT !.members = M] \in Network
  BY <1>1 DEF Network
<1>3. networks'[n] = [networks[n] EXCEPT !.members = M] /\ networks'[n].members = M
  BY <1>1 DEF TypeOK, Network
<1>4. networks'[n] # NoNet
  BY <1>2, <1>3, NetAssumption
<1>5. networks' \in [Nets -> Network \cup {NoNet}] /\ \A m \in Nets : m # n => networks'[m] = networks[m]
  BY <1>2 DEF TypeOK
<1> QED BY <1>3, <1>4, <1>5 DEF Exists, HasMember

\* A new network has no member.
LEMMA NewNetworks ==
  \A name \in NetNames, internal \in BOOLEAN :
    /\ NewNetwork(name, internal) \in Network
    /\ NewNetwork(name, internal) # NoNet
    /\ NewNetwork(name, internal).members = {}
<1> TAKE name \in NetNames, internal \in BOOLEAN
<1>1. NewNetwork(name, internal) \in Network
  BY DEF NewNetwork, Network
<1>2. NewNetwork(name, internal).members = {}
  BY DEF NewNetwork
<1> QED BY <1>1, <1>2, NetAssumption

-----------------------------------------------------------------------------
(* Types and arguments *)

\* A call that moves on with its frame as it is keeps its arguments.
LEMMA ArgsStay ==
  ASSUME TypeOK, ArgsGiven, NEW c \in Tasks, frame' = frame,
         \A d \in Tasks : d # c => pc'[d] = pc[d],
         \/ pc[c] \in Joining /\ pc'[c] \in Joining
         \/ pc[c] \in Leaving /\ pc'[c] \in Leaving
         \/ pc[c] \in Forgetting /\ pc'[c] \in Forgetting \ {"forget.name"}
         \/ pc[c] \in Checking /\ pc'[c] \in Checking
  PROVE  ArgsGiven'
<1> SUFFICES ASSUME NEW d \in Tasks PROVE ArgsOf(d)'
  BY DEF ArgsGiven
<1>1. CASE d # c
  BY <1>1 DEF ArgsGiven, ArgsOf
<1>2. CASE d = c
  BY <1>2 DEF ArgsGiven, ArgsOf, Joining, Leaving, Forgetting, Checking
<1> QED BY <1>1, <1>2

\* A call that ends, or goes on with remove_service_from_all, leaves the
\* arguments of the others alone.
LEMMA ArgsReturn ==
  ASSUME TypeOK, ArgsGiven, NEW c \in Tasks,
         Return(c) \/ (Left(c) /\ pc[c] \in Leaving)
  PROVE  ArgsGiven'
<1>1. /\ \/ pc'[c] = "idle"
         \/ pc'[c] = "forget.next" /\ frame'[c] = frame[c] /\ pc[c] \in Leaving
      /\ \A d \in Tasks : d # c => pc'[d] = pc[d] /\ frame'[d] = frame[d]
  <2>1. CASE Return(c)
    BY <2>1, Returns
  <2>2. CASE Left(c) /\ pc[c] \in Leaving
    BY <2>2, LeftMoves
  <2> QED BY <2>1, <2>2
<1> SUFFICES ASSUME NEW d \in Tasks PROVE ArgsOf(d)'
  BY DEF ArgsGiven
<1>2. CASE d # c
  BY <1>1, <1>2 DEF ArgsGiven, ArgsOf
<1>3. CASE d = c
  BY <1>1, <1>3 DEF ArgsGiven, ArgsOf, Joining, Leaving, Forgetting, Checking
<1> QED BY <1>2, <1>3

\* A call starts with the arguments of its operation.
LEMMA CallTypes ==
  ASSUME TypeOK, ArgsGiven, NEW c \in Tasks, Calls(c)
  PROVE  TypeOK' /\ ArgsGiven'
<1>0. PICK o \in Ops : \E n \in NetArgs(o), s \in SvcArgs(o), m \in NameArgs(o) : Call(c, o, n, s, m)
  BY CallAssumption DEF Calls
<1>1. PICK n \in NetArgs(o), s \in SvcArgs(o), m \in NameArgs(o) : Call(c, o, n, s, m)
  BY <1>0
<1>2. /\ n \in Nets \cup {NoNet} /\ (o \in {"delete", "join", "leave"} => n \in Nets)
      /\ s \in Services \cup {None} /\ (o \in {"join", "leave", "ingress", "forget"} => s \in Services)
      /\ m \in Names \cup {None} /\ (o = "join" => m \in Names)
  BY DEF NetArgs, SvcArgs, NameArgs, TypeOK
<1> DEFINE f == [NoFrame EXCEPT !.op = o, !.net = n, !.svc = s, !.name = m]
<1>3. f \in Frame /\ f.op = o /\ f.net = n /\ f.svc = s /\ f.name = m
  BY <1>2 DEF NoFrame, Frame
<1>4. FirstPc(o) \in Points /\ Queue(c, FirstPc(o)) /\ frame' = [frame EXCEPT ![c] = f]
  BY <1>1, PointLiterals DEF Call, FirstPc, Ops
<1> HIDE DEF f
<1>5. TypeOK'
  <2>1. frame' \in [Tasks -> Frame]
    BY <1>3, <1>4 DEF TypeOK
  <2>2. pc' \in [Tasks -> Points]
    BY <1>4, Moves
  <2> QED BY <1>1, <2>1, <2>2 DEF Call, TypeOK, memory
<1>6. ArgsGiven'
  <2> SUFFICES ASSUME NEW d \in Tasks PROVE ArgsOf(d)'
    BY DEF ArgsGiven
  <2>1. /\ pc'[c] = FirstPc(o) /\ frame'[c] = f
        /\ d # c => pc'[d] = pc[d] /\ frame'[d] = frame[d]
    BY <1>4, Moves DEF TypeOK
  <2>2. CASE d # c
    BY <2>1, <2>2 DEF ArgsGiven, ArgsOf
  <2>3. CASE d = c
    BY <2>1, <2>3, <1>2, <1>3 DEF ArgsOf, FirstPc, Ops, Joining, Leaving, Forgetting, Checking
  <2> QED BY <2>2, <2>3
<1> QED BY <1>5, <1>6

\* Every step of a call keeps the types of the variables.
LEMMA ProgressType ==
  ASSUME TypeOK, ArgsGiven, NEW c \in Tasks, Progress(c)
  PROVE  TypeOK'
<1> USE DEF memory, maps, names
<1>0. /\ Return(c) => pc' \in [Tasks -> Points] /\ frame' \in [Tasks -> Frame]
      /\ Left(c) => pc' \in [Tasks -> Points] /\ frame' \in [Tasks -> Frame]
      /\ \A to \in Points : Queue(c, to) => pc' \in [Tasks -> Points]
  <2>1. Return(c) => pc' \in [Tasks -> Points] /\ frame' \in [Tasks -> Frame]
    BY Returns
  <2>2. Left(c) => pc' \in [Tasks -> Points] /\ frame' \in [Tasks -> Frame]
    BY LeftMoves
  <2>3. \A to \in Points : Queue(c, to) => pc' \in [Tasks -> Points]
    BY Moves
  <2> QED BY <2>1, <2>2, <2>3
<1>n. frame[c] \in Frame /\ frame \in [Tasks -> Frame]
  BY DEF TypeOK
<1>1. CASE Resolved(c)
  <2>1. frame[c].op \in Points /\ Queue(c, frame[c].op) /\ frame' = frame
    BY <1>1, PointLiterals DEF Resolved, At, ArgsGiven, ArgsOf
  <2> QED BY <1>1, <2>1, <1>0 DEF Resolved, TypeOK
<1>2. CASE Refused(c)
  BY <1>2, <1>0 DEF Refused, TypeOK
<1>3. CASE CreateNetwork(c)
  <2>1. PICK n \in Nets \ minted, name \in NetNames, internal \in BOOLEAN :
          /\ networks' = [networks EXCEPT ![n] = NewNetwork(name, internal)]
          /\ store' = [store EXCEPT ![n] = NewNetwork(name, internal)]
          /\ minted' = minted \cup {n}
    BY <1>3 DEF CreateNetwork
  <2>2. NewNetwork(name, internal) \in Network
    BY NewNetworks
  <2> QED BY <1>3, <2>1, <2>2, <1>0 DEF CreateNetwork, TypeOK
<1>4. CASE DeleteNetwork(c)
  BY <1>4, <1>0 DEF DeleteNetwork, TypeOK
<1>5. CASE Join(c)
  <2>1. frame[c].net \in Nets /\ frame[c].svc \in Services
    BY <1>5 DEF Join, At, ArgsGiven, ArgsOf, Joining
  <2>2. networks[frame[c].net] \in Network
    BY <1>5, <2>1 DEF Join, Exists, TypeOK
  <2>3. networks[frame[c].net].members \cup {frame[c].svc} \in SUBSET Services
    BY <2>1, <2>2 DEF Network
  <2>4. networks' \in [Nets -> Network \cup {NoNet}]
    BY <1>5, <2>1, <2>3, MembersUpdate DEF Join
  <2> QED BY <1>5, <2>4, <1>0, PointLiterals DEF Join, TypeOK
<1>6. CASE JoinMap(c)
  <2>1. frame[c].net \in Nets /\ frame[c].svc \in Services
    BY <1>6 DEF JoinMap, At, ArgsGiven, ArgsOf, Joining
  <2> QED BY <1>6, <2>1, <1>0, PointLiterals DEF JoinMap, TypeOK
<1>7. CASE JoinName(c)
  BY <1>7, <1>0, PointLiterals DEF JoinName, TypeOK
<1>8. CASE JoinId(c)
  <2>1. frame[c].net \in Nets /\ frame[c].svc \in Services
    BY <1>8 DEF JoinId, At, ArgsGiven, ArgsOf, Joining
  <2>2. frame[c].name \in Names
    BY <1>8 DEF JoinId, At, ArgsGiven, ArgsOf, Joining
  <2> QED BY <1>8, <2>1, <2>2, <1>0 DEF JoinId, Register, Persist, TypeOK
<1>9. CASE LeaveRefused(c)
  BY <1>9, <1>0 DEF LeaveRefused, TypeOK
<1>10. CASE Leave(c)
  <2>1. frame[c].net \in Nets /\ frame[c].svc \in Services
    BY <1>10 DEF Leave, At, ArgsGiven, ArgsOf, Leaving
  <2>2. Exists(frame[c].net) /\ networks[frame[c].net] \in Network
    BY <1>10, <2>1 DEF Leave, HasMember, Exists, TypeOK
  <2>3. networks[frame[c].net].members \ {frame[c].svc} \in SUBSET Services
    BY <2>1, <2>2 DEF Network
  <2>4. networks' \in [Nets -> Network \cup {NoNet}]
    BY <1>10, <2>1, <2>2, <2>3, MembersUpdate DEF Leave
  <2> QED BY <1>10, <2>4, <1>0, PointLiterals DEF Leave, TypeOK
<1>11. CASE LeaveMap(c)
  <2>1. frame[c].net \in Nets /\ frame[c].svc \in Services
    BY <1>11 DEF LeaveMap, At, ArgsGiven, ArgsOf, Leaving
  <2> QED BY <1>11, <2>1, <1>0 DEF LeaveMap, Persist, TypeOK
<1>12. CASE Forget(c)
  <2>1. memberOf[frame[c].svc] \in SUBSET Nets
    BY <1>12 DEF Forget, At, ArgsGiven, ArgsOf, Forgetting, TypeOK
  <2>2. [frame[c] EXCEPT !.todo = memberOf[frame[c].svc]] \in Frame
    BY <2>1, <1>n DEF Frame
  <2> QED BY <1>12, <2>2, <1>0, PointLiterals DEF Forget, TypeOK
<1>13. CASE ForgetNext(c)
  <2>1. PICK n \in frame[c].todo :
          frame' = [frame EXCEPT ![c].net = n, ![c].todo = @ \ {n}]
    BY <1>13 DEF ForgetNext
  <2>2. n \in Nets /\ frame[c].todo \ {n} \in SUBSET Nets
    BY <1>n, <2>1 DEF Frame
  <2>3. [frame[c] EXCEPT !.net = n, !.todo = frame[c].todo \ {n}] \in Frame
    BY <2>2, <1>n DEF Frame
  <2>4. frame' = [frame EXCEPT ![c] = [frame[c] EXCEPT !.net = n, !.todo = frame[c].todo \ {n}]]
    BY <2>1, <1>n
  <2> QED BY <1>13, <2>3, <2>4, <1>0, PointLiterals DEF ForgetNext, TypeOK
<1>14. CASE ForgetLast(c)
  BY <1>14, <1>0, PointLiterals DEF ForgetLast, TypeOK
<1>15. CASE ForgetId(c)
  <2>1. idToName[frame[c].svc] \in Names \cup {None}
    BY <1>15 DEF ForgetId, At, ArgsGiven, ArgsOf, Forgetting, TypeOK
  <2>2. [frame[c] EXCEPT !.name = idToName[frame[c].svc]] \in Frame
    BY <2>1, <1>n DEF Frame
  <2> QED BY <1>15, <2>2, <1>0, PointLiterals DEF ForgetId, TypeOK
<1>16. CASE ForgetName(c)
  BY <1>16, <1>0 DEF ForgetName, TypeOK
<1>17. CASE Ingress(c)
  BY <1>17, <1>0, PointLiterals DEF Ingress, TypeOK
<1>18. CASE IngressCheck(c)
  BY <1>18, <1>0 DEF IngressCheck, TypeOK
<1> QED BY <1>1, <1>2, <1>3, <1>4, <1>5, <1>6, <1>7, <1>8, <1>9, <1>10, <1>11, <1>12,
           <1>13, <1>14, <1>15, <1>16, <1>17, <1>18 DEF Progress

\* Every step of a call keeps the arguments its operation works on.
LEMMA ProgressArgs ==
  ASSUME TypeOK, ArgsGiven, NEW c \in Tasks, Progress(c)
  PROVE  ArgsGiven'
<1>0. \A to \in Points : Queue(c, to) =>
        pc'[c] = to /\ \A d \in Tasks : d # c => pc'[d] = pc[d]
  BY Moves
<1>1. CASE Resolved(c)
  <2>1. /\ frame[c].op \in {"delete", "join", "leave"} /\ frame[c].net \in Nets
        /\ frame[c].op \in {"join", "leave"} => frame[c].svc \in Services
        /\ frame[c].op = "join" => frame[c].name \in Names
        /\ frame[c].op \in Points /\ Queue(c, frame[c].op) /\ frame' = frame
    BY <1>1, PointLiterals DEF Resolved, At, ArgsGiven, ArgsOf
  <2>2. pc'[c] = frame[c].op /\ \A d \in Tasks : d # c => pc'[d] = pc[d]
    BY <2>1, <1>0
  <2> QED BY <2>1, <2>2 DEF ArgsGiven, ArgsOf, Joining, Leaving, Forgetting, Checking
<1>2. CASE Return(c)
  BY <1>2, ArgsReturn
<1>3. CASE Join(c) \/ JoinMap(c) \/ JoinName(c)
  <2>1. /\ pc[c] \in Joining /\ frame' = frame
        /\ \E to \in Points \cap Joining : Queue(c, to)
    BY <1>3, PointLiterals DEF Join, JoinMap, JoinName, At, Joining
  <2> QED BY <2>1, <1>0, ArgsStay
<1>4. CASE LeaveRefused(c) \/ LeaveMap(c)
  BY <1>4, ArgsReturn DEF LeaveRefused, LeaveMap, At, Leaving
<1>5. CASE Leave(c)
  <2>1. /\ pc[c] \in Leaving /\ frame' = frame
        /\ \E to \in Points \cap Leaving : Queue(c, to)
    BY <1>5, PointLiterals DEF Leave, At, Leaving
  <2> QED BY <2>1, <1>0, ArgsStay
<1>6. CASE Forget(c)
  <2>1. /\ pc[c] = "forget" /\ frame[c].svc \in Services
        /\ frame[c] \in Frame /\ Queue(c, "forget.next")
        /\ frame' = [frame EXCEPT ![c].todo = memberOf[frame[c].svc]]
    BY <1>6 DEF Forget, At, ArgsGiven, ArgsOf, Forgetting, TypeOK
  <2>2. frame'[c].svc = frame[c].svc /\ \A d \in Tasks : d # c => frame'[d] = frame[d]
    BY <2>1 DEF TypeOK, Frame
  <2>3. pc'[c] = "forget.next" /\ \A d \in Tasks : d # c => pc'[d] = pc[d]
    BY <2>1, <1>0, PointLiterals
  <2> QED BY <2>1, <2>2, <2>3 DEF ArgsGiven, ArgsOf, Joining, Leaving, Forgetting, Checking
<1>7. CASE ForgetNext(c)
  <2>1. PICK n \in frame[c].todo :
          frame' = [frame EXCEPT ![c].net = n, ![c].todo = @ \ {n}]
    BY <1>7 DEF ForgetNext
  <2>2. frame[c] \in Frame /\ n \in Nets /\ frame[c].svc \in Services
    BY <1>7, <2>1 DEF ForgetNext, TypeOK, Frame, ArgsGiven, ArgsOf, Forgetting
  <2>3. frame' = [frame EXCEPT ![c] = [frame[c] EXCEPT !.net = n, !.todo = frame[c].todo \ {n}]]
    BY <2>1, <2>2 DEF TypeOK
  <2>4. /\ frame'[c].net = n /\ frame'[c].svc = frame[c].svc
        /\ \A d \in Tasks : d # c => frame'[d] = frame[d]
    BY <2>2, <2>3 DEF TypeOK, Frame
  <2>5. pc'[c] = "leave" /\ \A d \in Tasks : d # c => pc'[d] = pc[d]
    BY <1>7, <1>0, PointLiterals DEF ForgetNext
  <2> QED BY <2>2, <2>4, <2>5 DEF ArgsGiven, ArgsOf, Joining, Leaving, Forgetting, Checking
<1>8. CASE ForgetLast(c)
  <2>1. /\ pc[c] \in Forgetting /\ frame' = frame
        /\ \E to \in Points \cap (Forgetting \ {"forget.name"}) : Queue(c, to)
    BY <1>8, PointLiterals DEF ForgetLast, At, Forgetting
  <2> QED BY <2>1, <1>0, ArgsStay
<1>9. CASE Ingress(c)
  <2>1. /\ pc[c] \in Checking /\ frame' = frame
        /\ \E to \in Points \cap Checking : Queue(c, to)
    BY <1>9, PointLiterals DEF Ingress, At, Checking
  <2> QED BY <2>1, <1>0, ArgsStay
<1>10. CASE ForgetId(c)
  <2>1. /\ pc[c] = "forget.id" /\ frame[c].svc \in Services /\ frame[c] \in Frame
        /\ idToName[frame[c].svc] \in Names
        /\ Queue(c, "forget.name")
        /\ frame' = [frame EXCEPT ![c].name = idToName[frame[c].svc]]
    BY <1>10 DEF ForgetId, At, ArgsGiven, ArgsOf, Forgetting, TypeOK
  <2>2. /\ frame'[c].svc = frame[c].svc /\ frame'[c].name = idToName[frame[c].svc]
        /\ \A d \in Tasks : d # c => frame'[d] = frame[d]
    BY <2>1 DEF TypeOK, Frame
  <2>3. pc'[c] = "forget.name" /\ \A d \in Tasks : d # c => pc'[d] = pc[d]
    BY <2>1, <1>0, PointLiterals
  <2> QED BY <2>1, <2>2, <2>3 DEF ArgsGiven, ArgsOf, Joining, Leaving, Forgetting, Checking
<1> QED
  BY <1>1, <1>2, <1>3, <1>4, <1>5, <1>6, <1>7, <1>8, <1>9, <1>10
  DEF Progress, Refused, CreateNetwork, DeleteNetwork, JoinId, ForgetName, IngressCheck

-----------------------------------------------------------------------------
(* Steps that change neither map *)

\* What relates the maps and the store survives a step of a call that does not
\* hold the networks before or after it and writes neither.
LEMMA Unwritten ==
  ASSUME OneWriter, HalfDone, MapsPaired, IdsAreMinted,
         NEW c \in Tasks, UNCHANGED <<maps, store, minted>>,
         \A d \in Tasks : d # c => pc'[d] = pc[d] /\ frame'[d] = frame[d],
         pc[c] \notin HoldsWrite("networks"), pc'[c] \notin HoldsWrite("networks")
  PROVE  /\ OneWriter' /\ HalfDone' /\ MapsPaired' /\ IdsAreMinted'
         /\ StorePaired => StorePaired'
<1>1. Writers("networks")' = Writers("networks") /\ c \notin Writers("networks")
  BY WriterPoints DEF Writers
<1>2. \A d \in Writers("networks") : pc'[d] = pc[d] /\ frame'[d] = frame[d]
  BY <1>1 DEF Writers
<1>3. \A n \in Nets, s \in Services : HasMember(n, s)' <=> HasMember(n, s)
  BY DEF HasMember, Exists, maps
<1>4. \A n : Exists(n)' <=> Exists(n)
  BY DEF Exists, maps
<1>5. OneWriter'
  BY <1>1 DEF OneWriter
<1>6. HalfDone'
  BY <1>1, <1>2 DEF HalfDone, HasMember, Exists, maps
<1>7. MapsPaired'
  BY <1>1, <1>2, <1>3 DEF MapsPaired, maps
<1>8. IdsAreMinted'
  BY <1>4 DEF IdsAreMinted, maps
<1>9. StorePaired => StorePaired'
  BY <1>1, <1>2 DEF StorePaired, maps
<1> QED BY <1>5, <1>6, <1>7, <1>8, <1>9

\* The steps of a call that write nothing or only the registry: its beginning,
\* its refusals, the walk of remove_service_from_all and the ingress check.
LEMMA SilentSteps ==
  ASSUME IInv, NEW c \in Tasks,
         \/ Calls(c) \/ Resolved(c) \/ Refused(c) \/ LeaveRefused(c)
         \/ Forget(c) \/ ForgetNext(c) \/ ForgetLast(c) \/ ForgetId(c) \/ ForgetName(c)
         \/ Ingress(c) \/ IngressCheck(c)
  PROVE  /\ OneWriter' /\ HalfDone' /\ MapsPaired' /\ IdsAreMinted'
         /\ StorePaired => StorePaired'
<1> USE DEF IInv
<1> DEFINE Apart(l) == l \notin HoldsWrite("networks")
<1> DEFINE Goal == /\ UNCHANGED <<maps, store, minted>>
                   /\ \A d \in Tasks : d # c => pc'[d] = pc[d] /\ frame'[d] = frame[d]
                   /\ Apart(pc[c]) /\ Apart(pc'[c])
<1> SUFFICES Goal
  BY Unwritten
<1>0. \A l \in Points : Apart(l) <=> l \notin {"join.map", "join.name", "join.id", "leave.map"}
  BY WriterPoints
<1> HIDE DEF Apart
<1>q. \A to \in Points : Queue(c, to) =>
        pc'[c] = to /\ \A d \in Tasks : d # c => pc'[d] = pc[d]
  BY Moves
<1> USE DEF memory, maps
<1>f. frame \in [Tasks -> Frame]
  BY DEF TypeOK
<1>1. CASE Calls(c)
  <2>1. PICK o \in Ops : \E n \in NetArgs(o), s \in SvcArgs(o), m \in NameArgs(o) : Call(c, o, n, s, m)
    BY <1>1, CallAssumption DEF Calls
  <2>2. PICK n \in NetArgs(o), s \in SvcArgs(o), m \in NameArgs(o) : Call(c, o, n, s, m)
    BY <2>1
  <2>3. FirstPc(o) \in {"resolve", "create", "ingress", "forget"}
    BY DEF FirstPc, Ops
  <2>4. \A d \in Tasks : d # c => frame'[d] = frame[d]
    BY <2>2, <1>f DEF Call
  <2>5. pc[c] = "idle" /\ Queue(c, FirstPc(o)) /\ UNCHANGED <<maps, store, minted>>
    BY <2>2 DEF Call
  <2> QED BY <2>3, <2>4, <2>5, <1>0, <1>q, PointLiterals
<1>2. CASE Resolved(c)
  <2>1. /\ frame[c].op \in {"delete", "join", "leave"} /\ Queue(c, frame[c].op) /\ frame' = frame
        /\ pc[c] = "resolve" /\ UNCHANGED <<maps, store, minted>>
    BY <1>2 DEF Resolved, At, ArgsGiven, ArgsOf
  <2> QED BY <2>1, <1>0, <1>q, PointLiterals
<1>3. CASE Refused(c)
  <2>1. /\ pc[c] \in {"resolve", "create", "delete", "join", "ingress", "forget.id"}
        /\ Return(c) /\ UNCHANGED <<maps, store, minted>>
    BY <1>3 DEF Refused, At
  <2> QED BY <2>1, <1>0, Returns, PointLiterals
<1>4. CASE LeaveRefused(c)
  <2>1. pc[c] = "leave" /\ Left(c) /\ UNCHANGED <<maps, store, minted>>
    BY <1>4 DEF LeaveRefused, At
  <2> QED BY <2>1, <1>0, LeftMoves, PointLiterals
<1>5. CASE Forget(c)
  <2>1. /\ pc[c] = "forget" /\ Queue(c, "forget.next") /\ UNCHANGED <<maps, store, minted>>
        /\ \A d \in Tasks : d # c => frame'[d] = frame[d]
    BY <1>5, <1>f DEF Forget, At
  <2> QED BY <2>1, <1>0, <1>q, PointLiterals
<1>6. CASE ForgetNext(c)
  <2>1. /\ pc[c] = "forget.next" /\ Queue(c, "leave") /\ UNCHANGED <<maps, store, minted>>
        /\ \A d \in Tasks : d # c => frame'[d] = frame[d]
    BY <1>6, <1>f DEF ForgetNext
  <2> QED BY <2>1, <1>0, <1>q, PointLiterals
<1>7. CASE ForgetLast(c)
  <2>1. /\ pc[c] = "forget.next" /\ Queue(c, "forget.id") /\ frame' = frame
        /\ UNCHANGED <<maps, store, minted>>
    BY <1>7 DEF ForgetLast
  <2> QED BY <2>1, <1>0, <1>q, PointLiterals
<1>8. CASE Ingress(c)
  <2>1. /\ pc[c] = "ingress" /\ Queue(c, "ingress.check") /\ frame' = frame
        /\ UNCHANGED <<maps, store, minted>>
    BY <1>8 DEF Ingress, At
  <2> QED BY <2>1, <1>0, <1>q, PointLiterals
<1>9. CASE IngressCheck(c)
  <2>1. pc[c] = "ingress.check" /\ Return(c) /\ UNCHANGED <<maps, store, minted>>
    BY <1>9 DEF IngressCheck, At
  <2> QED BY <2>1, <1>0, Returns, PointLiterals
<1>10. CASE ForgetId(c)
  <2>1. /\ pc[c] = "forget.id" /\ Queue(c, "forget.name") /\ UNCHANGED <<maps, store, minted>>
        /\ \A d \in Tasks : d # c => frame'[d] = frame[d]
    BY <1>10, <1>f DEF ForgetId, At
  <2> QED BY <2>1, <1>0, <1>q, PointLiterals
<1>11. CASE ForgetName(c)
  <2>1. pc[c] = "forget.name" /\ Return(c) /\ UNCHANGED <<maps, store, minted>>
    BY <1>11 DEF ForgetName, At
  <2> QED BY <2>1, <1>0, Returns, PointLiterals
<1> QED BY <1>1, <1>2, <1>3, <1>4, <1>5, <1>6, <1>7, <1>8, <1>9, <1>10,
           <1>11

-----------------------------------------------------------------------------
(* Steps that change the maps *)

\* A network is created or deleted while nobody holds the networks, and has no
\* member before and after.
LEMMA NetworkSteps ==
  ASSUME IInv, NEW c \in Tasks, CreateNetwork(c) \/ DeleteNetwork(c)
  PROVE  /\ OneWriter' /\ HalfDone' /\ MapsPaired' /\ IdsAreMinted'
         /\ StorePaired => StorePaired'
<1> USE DEF IInv
<1>1. /\ pc[c] \in {"create", "delete"} /\ CanTake(c) /\ Return(c)
      /\ memberOf' = memberOf /\ UNCHANGED names
  BY DEF CreateNetwork, DeleteNetwork, At
<1>2. Writers("networks") = {}
  BY <1>1, NetworksFree
<1>3. pc'[c] = "idle" /\ \A d \in Tasks : d # c => pc'[d] = pc[d] /\ frame'[d] = frame[d]
  BY <1>1, Returns
<1>4. Writers("networks")' = {}
  BY <1>1, <1>2, <1>3, WriterPoints DEF Writers
<1>5. PICK n \in Nets :
        /\ \A m \in Nets : m # n => networks'[m] = networks[m] /\ store'[m] = store[m]
        /\ \A s \in Services : ~HasMember(n, s)
        /\ \A s \in Services : ~HasMember(n, s)'
        /\ networks'[n] = store'[n]
        /\ minted \subseteq minted'
        /\ n \in minted' \/ networks'[n] = NoNet
  <2>1. CASE CreateNetwork(c)
    <3>1. PICK n \in Nets \ minted, name \in NetNames, internal \in BOOLEAN :
            /\ networks' = [networks EXCEPT ![n] = NewNetwork(name, internal)]
            /\ store' = [store EXCEPT ![n] = NewNetwork(name, internal)]
            /\ minted' = minted \cup {n}
      BY <2>1 DEF CreateNetwork
    <3>2. ~Exists(n)
      BY DEF IdsAreMinted
    <3>3. /\ networks'[n] = NewNetwork(name, internal) /\ store'[n] = NewNetwork(name, internal)
          /\ \A m \in Nets : m # n => networks'[m] = networks[m] /\ store'[m] = store[m]
      BY <3>1 DEF TypeOK
    <3> QED BY <3>1, <3>2, <3>3, NewNetworks DEF HasMember
  <2>2. CASE DeleteNetwork(c)
    <3>1. frame[c].net \in Nets /\ Empty(frame[c].net)
      BY <2>2 DEF DeleteNetwork, At, ArgsGiven, ArgsOf
    <3>2. /\ networks'[frame[c].net] = NoNet /\ store'[frame[c].net] = NoNet
          /\ \A m \in Nets : m # frame[c].net => networks'[m] = networks[m] /\ store'[m] = store[m]
      BY <2>2, <3>1 DEF DeleteNetwork, TypeOK
    <3>3. minted' = minted
      BY <2>2 DEF DeleteNetwork
    <3> QED BY <3>1, <3>2, <3>3 DEF HasMember, Empty, Exists
  <2> QED BY <2>1, <2>2
<1>6. OneWriter' /\ HalfDone'
  BY <1>4 DEF OneWriter, HalfDone
<1>7. MapsPaired'
  <2>1. \A m \in Nets, s \in Services : HasMember(m, s) <=> m \in memberOf[s]
    BY <1>2 DEF MapsPaired
  <2>2. \A m \in Nets, s \in Services : HasMember(m, s)' <=> HasMember(m, s)
    BY <1>5 DEF HasMember, Exists
  <2> QED BY <1>1, <2>1, <2>2 DEF MapsPaired
<1>8. IdsAreMinted'
  BY <1>5 DEF IdsAreMinted, Exists
<1>9. StorePaired => StorePaired'
  BY <1>2, <1>5 DEF StorePaired
<1> QED BY <1>6, <1>7, <1>8, <1>9

\* The first half of a join or of a leave: the members of the network change and
\* the task keeps the networks until the reverse map follows.
LEMMA FirstHalves ==
  ASSUME IInv, NEW c \in Tasks, Join(c) \/ Leave(c)
  PROVE  /\ OneWriter' /\ HalfDone' /\ MapsPaired' /\ IdsAreMinted'
         /\ StorePaired => StorePaired'
<1> USE DEF IInv
<1>0. PICK n \in Nets, s \in Services : n = frame[c].net /\ s = frame[c].svc
  BY DEF Join, Leave, At, ArgsGiven, ArgsOf, Joining, Leaving
<1>1. /\ pc[c] \in {"join", "leave"} /\ CanTake(c) /\ frame' = frame
      /\ memberOf' = memberOf /\ store' = store /\ minted' = minted /\ UNCHANGED names
      /\ Exists(n)
  BY <1>0 DEF Join, Leave, At, HasMember
<1>2. Writers("networks") = {}
  BY <1>1, NetworksFree
<1>3. networks[n] \in Network /\ networks[n].members \in SUBSET Services
  BY <1>1 DEF TypeOK, Exists, Network
<1>4. /\ pc'[c] \in {"join.map", "leave.map"}
      /\ pc'[c] = "join.map" => networks' = [networks EXCEPT ![n].members = networks[n].members \cup {s}]
      /\ pc'[c] = "leave.map" => networks' = [networks EXCEPT ![n].members = networks[n].members \ {s}]
      /\ \A d \in Tasks : d # c => pc'[d] = pc[d]
  <2>1. CASE Join(c)
    <3>1. Queue(c, "join.map") /\ "join.map" \in Points
      BY <2>1, PointLiterals DEF Join
    <3>2. networks' = [networks EXCEPT ![n].members = networks[n].members \cup {s}]
      BY <2>1, <1>0, <1>1 DEF Join, TypeOK
    <3> QED BY <3>1, <3>2, Moves
  <2>2. CASE Leave(c)
    <3>1. Queue(c, "leave.map") /\ "leave.map" \in Points
      BY <2>2, PointLiterals DEF Leave
    <3>2. networks' = [networks EXCEPT ![n].members = networks[n].members \ {s}]
      BY <2>2, <1>0, <1>1 DEF Leave, TypeOK
    <3> QED BY <3>1, <3>2, Moves
  <2> QED BY <2>1, <2>2
<1>5. Writers("networks")' = {c}
  BY <1>2, <1>4, WriterPoints DEF Writers
<1>6. /\ \A m \in Nets : m # n => networks'[m] = networks[m]
      /\ \A m \in Nets : Exists(m)' <=> Exists(m)
      /\ \A m \in Nets, t \in Services : m # n \/ t # s => (HasMember(m, t)' <=> HasMember(m, t))
      /\ pc'[c] = "join.map" => HasMember(n, s)'
      /\ pc'[c] = "leave.map" => ~HasMember(n, s)'
  <2>1. PICK M \in SUBSET Services :
          /\ networks' = [networks EXCEPT ![n].members = M]
          /\ \A t \in Services : t # s => (t \in M <=> t \in networks[n].members)
          /\ pc'[c] = "join.map" => s \in M
          /\ pc'[c] = "leave.map" => s \notin M
    <3>1. networks[n].members \cup {s} \in SUBSET Services /\ networks[n].members \ {s} \in SUBSET Services
      BY <1>3
    <3> USE <3>1
    <3>2. CASE pc'[c] = "join.map"
      <4> WITNESS networks[n].members \cup {s} \in SUBSET Services
      <4> QED BY <1>4, <3>2
    <3>3. CASE pc'[c] = "leave.map"
      <4> WITNESS networks[n].members \ {s} \in SUBSET Services
      <4> QED BY <1>4, <3>3
    <3> QED BY <1>4, <3>2, <3>3
  <2>2. /\ \A m \in Nets : m # n => networks'[m] = networks[m]
        /\ \A m \in Nets : Exists(m)' <=> Exists(m)
        /\ \A m \in Nets, t \in Services :
             HasMember(m, t)' <=> IF m = n THEN t \in M ELSE HasMember(m, t)
    BY <2>1, <1>1, MembersUpdate
  <2> QED BY <2>1, <2>2, <1>1 DEF HasMember
<1>7. frame'[c].net = n /\ frame'[c].svc = s
  BY <1>0, <1>1
<1>8. OneWriter'
  BY <1>5 DEF OneWriter
<1>9. HalfDone'
  <2>1. Exists(n)' /\ (pc'[c] = "join.map" => HasMember(n, s)') /\ (pc'[c] = "leave.map" => ~HasMember(n, s)')
    BY <1>1, <1>6
  <2> QED BY <2>1, <1>5, <1>7 DEF HalfDone, Exists, HasMember
<1>10. MapsPaired'
  <2>1. \A m \in Nets, t \in Services : HasMember(m, t) <=> m \in memberOf[t]
    BY <1>2 DEF MapsPaired
  <2>2. \A m \in Nets, t \in Services : m # n \/ t # s => (HasMember(m, t)' <=> m \in memberOf'[t])
    BY <1>1, <1>6, <2>1
  <2> QED BY <1>4, <1>5, <1>7, <2>2 DEF MapsPaired
<1>11. IdsAreMinted'
  BY <1>1, <1>6 DEF IdsAreMinted
<1>12. StorePaired => StorePaired'
  BY <1>1, <1>2, <1>5, <1>6, <1>7 DEF StorePaired
<1> QED BY <1>8, <1>9, <1>10, <1>11, <1>12

\* The second half: the reverse map follows, and a join goes on to register the
\* name with the networks still held.
LEMMA SecondHalves ==
  ASSUME IInv, NEW c \in Tasks, JoinMap(c) \/ LeaveMap(c)
  PROVE  /\ OneWriter' /\ HalfDone' /\ MapsPaired' /\ IdsAreMinted'
         /\ StorePaired /\ "store" \notin Faults => StorePaired'
<1> USE DEF IInv
<1>0. PICK n \in Nets, s \in Services : n = frame[c].net /\ s = frame[c].svc
  BY DEF JoinMap, LeaveMap, At, ArgsGiven, ArgsOf, Joining, Leaving
<1>1. /\ pc[c] \in {"join.map", "leave.map"}
      /\ networks' = networks /\ minted' = minted /\ UNCHANGED names
      /\ \A d \in Tasks : d # c => pc'[d] = pc[d] /\ frame'[d] = frame[d]
      /\ \/ /\ pc[c] = "join.map" /\ pc'[c] = "join.name" /\ frame' = frame /\ store' = store
            /\ memberOf' = [memberOf EXCEPT ![s] = @ \cup {n}]
         \/ /\ pc[c] = "leave.map" /\ pc'[c] \in {"idle", "forget.next"} /\ Persist(n)
            /\ memberOf' = [memberOf EXCEPT ![s] = @ \ {n}]
  <2>1. CASE JoinMap(c)
    <3>1. pc'[c] = "join.name" /\ \A d \in Tasks : d # c => pc'[d] = pc[d]
      BY <2>1, Moves, PointLiterals DEF JoinMap
    <3> QED BY <2>1, <3>1, <1>0 DEF JoinMap, At
  <2>2. CASE LeaveMap(c)
    <3>1. /\ pc'[c] \in {"idle", "forget.next"}
          /\ \A d \in Tasks : d # c => pc'[d] = pc[d] /\ frame'[d] = frame[d]
      BY <2>2, LeftMoves DEF LeaveMap
    <3> QED BY <2>2, <3>1, <1>0 DEF LeaveMap, At
  <2> QED BY <2>1, <2>2
<1>2. Writers("networks") = {c}
  BY <1>1, WriterPoints DEF Writers, OneWriter
<1>3. Exists(n) /\ (pc[c] = "join.map" => HasMember(n, s)) /\ (pc[c] = "leave.map" => ~HasMember(n, s))
  BY <1>0, <1>2 DEF HalfDone
<1>4. /\ \A m \in Nets, t \in Services : HasMember(m, t)' <=> HasMember(m, t)
      /\ \A m \in Nets : Exists(m)' <=> Exists(m)
  BY <1>1 DEF HasMember, Exists
<1>5. \/ Writers("networks")' = {c} /\ pc[c] = "join.map" /\ pc'[c] = "join.name" /\ frame'[c].net = n
      \/ Writers("networks")' = {} /\ pc[c] = "leave.map" /\ pc'[c] \in {"idle", "forget.next"}
  BY <1>0, <1>1, <1>2, WriterPoints DEF Writers
<1>6. \A m \in Nets, t \in Services : m # n \/ t # s => (HasMember(m, t) <=> m \in memberOf[t])
  BY <1>0, <1>2 DEF MapsPaired
<1>7. /\ \A m \in Nets, t \in Services : m # n \/ t # s => (m \in memberOf'[t] <=> m \in memberOf[t])
      /\ n \in memberOf'[s] <=> HasMember(n, s)
  BY <1>1, <1>3 DEF TypeOK
<1>8. OneWriter'
  BY <1>5 DEF OneWriter
<1>9. HalfDone'
  <2>1. CASE Writers("networks")' = {}
    BY <2>1 DEF HalfDone
  <2>2. CASE Writers("networks")' = {c} /\ pc'[c] = "join.name" /\ frame'[c].net = n
    BY <2>2, <1>1, <1>3, <1>4 DEF HalfDone, Exists
  <2> QED BY <1>5, <2>1, <2>2
<1>10. MapsPaired'
  BY <1>4, <1>6, <1>7 DEF MapsPaired
<1>11. ASSUME Persist(n), "store" \notin Faults
       PROVE  store'[n] = networks[n] /\ \A m \in Nets : m # n => store'[m] = store[m]
  BY <1>11, <1>1 DEF Persist, TypeOK
<1>12. IdsAreMinted'
  <2>1. n \in minted
    BY <1>1, <1>3 DEF IdsAreMinted
  <2>2. \A m \in Nets : m # n => store'[m] = store[m]
    BY <1>1 DEF Persist, TypeOK
  <2> QED BY <1>1, <1>4, <2>1, <2>2 DEF IdsAreMinted
<1>13. StorePaired /\ "store" \notin Faults => StorePaired'
  <2> SUFFICES ASSUME StorePaired, "store" \notin Faults
               PROVE  StorePaired'
    OBVIOUS
  <2>1. \A m \in Nets : m # n => store[m] = networks[m]
    BY <1>0, <1>2 DEF StorePaired
  <2>2. CASE pc[c] = "join.map"
    BY <2>1, <2>2, <1>1, <1>5 DEF StorePaired
  <2>3. CASE pc[c] = "leave.map"
    <3>1. store'[n] = networks[n] /\ \A m \in Nets : m # n => store'[m] = store[m]
      BY <2>3, <1>1, <1>11
    <3> QED BY <2>1, <3>1, <1>1 DEF StorePaired
  <2> QED BY <1>1, <2>2, <2>3
<1> QED BY <1>8, <1>9, <1>10, <1>12, <1>13

\* The end of add_service: the name is registered and the network saved.
LEMMA NameSteps ==
  ASSUME IInv, NEW c \in Tasks, JoinName(c) \/ JoinId(c)
  PROVE  /\ OneWriter' /\ HalfDone' /\ MapsPaired' /\ IdsAreMinted'
         /\ StorePaired /\ "store" \notin Faults => StorePaired'
<1> USE DEF IInv
<1>0. PICK n \in Nets, s \in Services : n = frame[c].net /\ s = frame[c].svc
  BY DEF JoinName, JoinId, At, ArgsGiven, ArgsOf, Joining
<1>1. /\ pc[c] \in {"join.name", "join.id"} /\ UNCHANGED maps /\ minted' = minted
      /\ \A d \in Tasks : d # c => pc'[d] = pc[d] /\ frame'[d] = frame[d]
      /\ \/ /\ pc[c] = "join.name" /\ pc'[c] = "join.id" /\ frame' = frame
            /\ store' = store
         \/ pc[c] = "join.id" /\ pc'[c] = "idle" /\ Persist(n)
  <2>1. CASE JoinName(c)
    <3>1. pc'[c] = "join.id" /\ \A d \in Tasks : d # c => pc'[d] = pc[d]
      BY <2>1, Moves, PointLiterals DEF JoinName
    <3> QED BY <2>1, <3>1 DEF JoinName, At, memory, maps, names
  <2>2. CASE JoinId(c)
    <3>1. /\ pc'[c] = "idle"
          /\ \A d \in Tasks : d # c => pc'[d] = pc[d] /\ frame'[d] = frame[d]
      BY <2>2, Returns DEF JoinId
    <3> QED BY <2>2, <3>1, <1>0 DEF JoinId, At, maps
  <2> QED BY <2>1, <2>2
<1>2. Writers("networks") = {c}
  BY <1>1, WriterPoints DEF Writers, OneWriter
<1>3. Exists(n)
  BY <1>0, <1>2 DEF HalfDone
<1>4. /\ \A m \in Nets, t \in Services : HasMember(m, t)' <=> HasMember(m, t)
      /\ \A m \in Nets : Exists(m)' <=> Exists(m)
  BY <1>1 DEF HasMember, Exists, maps
<1>5. \/ Writers("networks")' = {c} /\ pc[c] = "join.name" /\ pc'[c] = "join.id" /\ frame'[c].net = n
      \/ Writers("networks")' = {} /\ pc[c] = "join.id" /\ pc'[c] = "idle"
  BY <1>0, <1>1, <1>2, WriterPoints DEF Writers
<1>6. \A m \in Nets, t \in Services : HasMember(m, t) <=> m \in memberOf[t]
  BY <1>1, <1>2 DEF MapsPaired
<1>7. OneWriter'
  BY <1>5 DEF OneWriter
<1>8. HalfDone'
  <2>1. CASE Writers("networks")' = {}
    BY <2>1 DEF HalfDone
  <2>2. CASE Writers("networks")' = {c} /\ pc'[c] = "join.id" /\ frame'[c].net = n
    BY <2>2, <1>3, <1>4 DEF HalfDone, Exists
  <2> QED BY <1>5, <2>1, <2>2
<1>9. MapsPaired'
  BY <1>1, <1>4, <1>6 DEF MapsPaired, maps
<1>10. IdsAreMinted'
  <2>1. n \in minted
    BY <1>3 DEF IdsAreMinted
  <2>2. \A m \in Nets : m # n => store'[m] = store[m]
    BY <1>1 DEF Persist, TypeOK
  <2> QED BY <1>1, <1>4, <2>1, <2>2 DEF IdsAreMinted
<1>11. StorePaired /\ "store" \notin Faults => StorePaired'
  <2> SUFFICES ASSUME StorePaired, "store" \notin Faults
               PROVE  StorePaired'
    OBVIOUS
  <2>1. \A m \in Nets : m # n => store[m] = networks[m]
    BY <1>0, <1>2 DEF StorePaired
  <2>2. CASE pc[c] = "join.name"
    BY <2>1, <2>2, <1>1, <1>5 DEF StorePaired, maps
  <2>3. CASE pc[c] = "join.id"
    <3>1. store'[n] = networks[n] /\ \A m \in Nets : m # n => store'[m] = store[m]
      BY <2>3, <1>1 DEF Persist, TypeOK
    <3> QED BY <2>1, <3>1, <1>1 DEF StorePaired, maps
  <2> QED BY <1>1, <2>2, <2>3
<1> QED BY <1>7, <1>8, <1>9, <1>10, <1>11

-----------------------------------------------------------------------------
(* Starting, restarting and the whole specification *)

\* A first start satisfies the inductive invariant.
LEMMA Initial == Init => IInv /\ StorePaired
<1> SUFFICES ASSUME Init PROVE IInv /\ StorePaired
  OBVIOUS
<1>1. PICK d \in Nets :
        /\ minted = {d}
        /\ networks = [n \in Nets |-> IF n = d THEN NewNetwork(DefaultName, FALSE) ELSE NoNet]
  BY DEF Init
<1>2. /\ NewNetwork(DefaultName, FALSE) \in Network
      /\ NewNetwork(DefaultName, FALSE).members = {}
  BY NewNetworks, NetAssumption
<1>3. NoFrame \in Frame
  BY DEF NoFrame, Frame
<1>4. TypeOK
  BY <1>1, <1>2, <1>3, PointLiterals DEF Init, TypeOK
<1>5. Writers("networks") = {} /\ \A c \in Tasks : pc[c] = "idle"
  BY WriterPoints DEF Init, Writers
<1>6. ArgsGiven
  BY <1>5 DEF ArgsGiven, ArgsOf, Joining, Leaving, Forgetting, Checking
<1>7. IdsAreMinted
  BY <1>1 DEF Init, IdsAreMinted, Exists
<1>8. OneWriter /\ HalfDone
  BY <1>5 DEF OneWriter, HalfDone
<1>9. MapsPaired
  BY <1>1, <1>2 DEF Init, MapsPaired, HasMember, Exists
<1>10. StorePaired
  BY DEF Init, StorePaired
<1> QED BY <1>4, <1>6, <1>7, <1>8, <1>9, <1>10 DEF IInv

\* A restart rebuilds both maps from the store, whatever was under way.
LEMMA Restarts ==
  ASSUME IInv, Restart
  PROVE  IInv' /\ StorePaired'
<1> USE DEF IInv
<1>1. /\ \A c \in Tasks : pc'[c] = "idle"
      /\ Writers("networks")' = {}
  BY WriterPoints DEF Restart, Writers
<1>2. /\ networks' = store' /\ store' \in [Nets -> Network \cup {NoNet}]
      /\ minted' \subseteq Nets
      /\ \A n \in Nets : store'[n] # NoNet => n \in minted'
      /\ \A n \in Nets, s \in Services :
           (store'[n] # NoNet /\ s \in store'[n].members) <=> (store[n] # NoNet /\ s \in store[n].members)
  <2>1. CASE networks' = store /\ UNCHANGED <<store, minted>>
    BY <2>1 DEF TypeOK, IdsAreMinted
  <2>2. CASE \E n \in Nets \ minted :
               /\ store' = [store EXCEPT ![n] = NewNetwork(DefaultName, FALSE)]
               /\ networks' = store'
               /\ minted' = minted \cup {n}
    <3>1. PICK n \in Nets \ minted :
            /\ store' = [store EXCEPT ![n] = NewNetwork(DefaultName, FALSE)]
            /\ networks' = store'
            /\ minted' = minted \cup {n}
      BY <2>2
    <3>2. store[n] = NoNet
      BY DEF IdsAreMinted
    <3>3. /\ NewNetwork(DefaultName, FALSE) \in Network
          /\ NewNetwork(DefaultName, FALSE).members = {}
      BY NewNetworks, NetAssumption
    <3>4. /\ store'[n] = NewNetwork(DefaultName, FALSE)
          /\ \A m \in Nets : m # n => store'[m] = store[m]
          /\ store' \in [Nets -> Network \cup {NoNet}]
      BY <3>1, <3>3 DEF TypeOK
    <3> QED BY <3>1, <3>2, <3>3, <3>4 DEF TypeOK, IdsAreMinted
  <2> QED BY <2>1, <2>2 DEF Restart, WithDefault
<1>3. /\ memberOf' \in [Services -> SUBSET Nets]
      /\ \A n \in Nets, s \in Services : n \in memberOf'[s] <=> (store[n] # NoNet /\ s \in store[n].members)
  BY DEF Restart, Loaded
<1>4. TypeOK'
  <2>1. NoFrame \in Frame
    BY DEF NoFrame, Frame
  <2> QED BY <1>2, <1>3, <2>1, PointLiterals DEF Restart, TypeOK
<1>5. ArgsGiven'
  BY <1>1 DEF ArgsGiven, ArgsOf, Joining, Leaving, Forgetting, Checking
<1>6. IdsAreMinted'
  BY <1>2 DEF IdsAreMinted, Exists
<1>7. OneWriter' /\ HalfDone'
  BY <1>1 DEF OneWriter, HalfDone
<1>8. MapsPaired'
  BY <1>2, <1>3 DEF MapsPaired, HasMember, Exists
<1>9. StorePaired'
  BY <1>2 DEF StorePaired
<1> QED BY <1>4, <1>5, <1>6, <1>7, <1>8, <1>9

\* Every step keeps the inductive invariant, and the store one change behind at
\* most when its writes succeed.
LEMMA Inductive ==
  ASSUME "hangup" \notin Faults, IInv, [Next]_vars
  PROVE  /\ IInv'
         /\ StorePaired /\ "store" \notin Faults => StorePaired'
<1>1. ASSUME NEW c \in Tasks, Progress(c)
      PROVE  IInv' /\ (StorePaired /\ "store" \notin Faults => StorePaired')
  <2>1. TypeOK' /\ ArgsGiven'
    BY <1>1, ProgressType, ProgressArgs DEF IInv
  <2>2. CASE \/ Resolved(c) \/ Refused(c) \/ LeaveRefused(c)
             \/ Forget(c) \/ ForgetNext(c) \/ ForgetLast(c) \/ ForgetId(c) \/ ForgetName(c)
             \/ Ingress(c) \/ IngressCheck(c)
    BY <2>1, <2>2, SilentSteps DEF IInv
  <2>3. CASE CreateNetwork(c) \/ DeleteNetwork(c)
    BY <2>1, <2>3, NetworkSteps DEF IInv
  <2>4. CASE Join(c) \/ Leave(c)
    BY <2>1, <2>4, FirstHalves DEF IInv
  <2>5. CASE JoinMap(c) \/ LeaveMap(c)
    BY <2>1, <2>5, SecondHalves DEF IInv
  <2>6. CASE JoinName(c) \/ JoinId(c)
    BY <2>1, <2>6, NameSteps DEF IInv
  <2> QED BY <1>1, <2>2, <2>3, <2>4, <2>5, <2>6 DEF Progress
<1>2. ASSUME NEW c \in Tasks, Calls(c)
      PROVE  IInv' /\ (StorePaired => StorePaired')
  BY <1>2, CallTypes, SilentSteps DEF IInv
<1>3. ASSUME UNCHANGED <<memory, store, minted, admitted, pc, frame>>
      PROVE  IInv' /\ (StorePaired => StorePaired')
  BY <1>3 DEF IInv, TypeOK, ArgsGiven, ArgsOf, IdsAreMinted, OneWriter, HalfDone, MapsPaired,
              StorePaired, Writers, HasMember, Exists, memory
<1>4. ASSUME NEW c \in Tasks, HangUp(c)
      PROVE  FALSE
  BY <1>4 DEF HangUp
<1>5. CASE UNCHANGED vars
  BY <1>3, <1>5 DEF vars, memory
<1>6. CASE Restart
  BY <1>6, Restarts
<1> QED BY <1>1, <1>2, <1>4, <1>5, <1>6 DEF Next

-----------------------------------------------------------------------------
(* Theorems *)

\* The inductive invariant: the tasks that hold the networks for writing tell
\* in which pair the two maps differ and in which network the store is behind.
THEOREM Invariant ==
  ASSUME "hangup" \notin Faults
  PROVE  Spec => []IInv
<1>1. IInv /\ [Next]_vars => IInv'
  BY Inductive
<1> QED BY <1>1, Initial, PTL DEF Spec

\* Whenever nobody holds the networks for writing, the members of the networks
\* and the networks of the services are one relation, whatever joins, leaves,
\* deletions and restarts raced.
THEOREM MapsAlwaysAgree ==
  ASSUME "hangup" \notin Faults
  PROVE  Spec => []MapsAgree
<1>1. IInv => MapsAgree
  BY DEF IInv, MapsPaired, MapsAgree, Settled
<1> QED BY <1>1, Invariant, PTL

\* A network that a service is said to be in exists, also between the two
\* halves of a join or of a leave.
THEOREM NothingDangles ==
  ASSUME "hangup" \notin Faults
  PROVE  Spec => []NoDanglingNetwork
<1>1. IInv => NoDanglingNetwork
  BY DEF IInv, TypeOK, MapsPaired, HalfDone, NoDanglingNetwork, HasMember
<1> QED BY <1>1, Invariant, PTL

\* When writes to the store succeed it holds the networks in memory whenever
\* nobody is changing them.
THEOREM StoreFollows ==
  ASSUME "hangup" \notin Faults, "store" \notin Faults
  PROVE  Spec => []StoreAgrees
<1>1. IInv /\ StorePaired /\ [Next]_vars => IInv' /\ StorePaired'
  BY Inductive
<1>2. IInv /\ StorePaired => StoreAgrees
  <2> SUFFICES ASSUME IInv, StorePaired, Settled
               PROVE  store = networks
    BY DEF StoreAgrees
  <2>1. \A n \in Nets : store[n] = networks[n]
    BY DEF StorePaired, Settled
  <2> QED BY <2>1 DEF IInv, TypeOK
<1> QED BY <1>1, <1>2, Initial, PTL DEF Spec

\* A request is let in only for a service that is a member of an external
\* network, in both maps, at the moment of the answer.
THEOREM IngressStaysCurrent ==
  ASSUME "hangup" \notin Faults
  PROVE  Spec => IngressIsCurrent
<1> DEFINE Current == \A c \in Tasks :
             ~admitted[c] /\ admitted'[c] =>
               \E n \in Nets : /\ HasMember(n, frame[c].svc) /\ n \in memberOf[frame[c].svc]
                               /\ ~networks[n].internal
<1>1. IInv /\ [Next]_vars => Current
  <2> SUFFICES ASSUME IInv, [Next]_vars, NEW c \in Tasks, ~admitted[c], admitted'[c]
               PROVE  \E n \in Nets : /\ HasMember(n, frame[c].svc) /\ n \in memberOf[frame[c].svc]
                                      /\ ~networks[n].internal
    OBVIOUS
  <2>1. IngressCheck(c)
    <3>1. admitted \in [Tasks -> BOOLEAN]
      BY DEF IInv, TypeOK
    <3>2. ASSUME NEW d \in Tasks, Calls(d)
          PROVE  FALSE
      <4>1. \E o, n, s, m : Call(d, o, n, s, m)
        BY <3>2 DEF Calls
      <4>2. admitted' = [admitted EXCEPT ![d] = FALSE]
        BY <4>1 DEF Call
      <4> QED BY <3>1, <4>2
    <3>3. ~Restart
      BY DEF Restart
    <3>4. admitted' # admitted
      OBVIOUS
    <3>5. \E d \in Tasks : IngressCheck(d)
      BY <3>2, <3>3, <3>4
      DEF Next, vars, HangUp, Progress, Resolved, Refused,
          CreateNetwork, DeleteNetwork, Join, JoinMap, JoinName, JoinId, LeaveRefused, Leave,
          LeaveMap, Forget, ForgetNext, ForgetLast, ForgetId, ForgetName, Ingress
    <3>6. PICK d \in Tasks : IngressCheck(d)
      BY <3>5
    <3>7. d = c
      BY <3>1, <3>6 DEF IngressCheck
    <3> QED BY <3>6, <3>7
  <2>2. frame[c].svc \in Services /\ Writers("networks") = {}
    BY <2>1, NetworksFree DEF IngressCheck, At, IInv, ArgsGiven, ArgsOf, Checking
  <2>3. PICK n \in memberOf[frame[c].svc] : Exists(n) /\ ~networks[n].internal
    BY <2>1 DEF IngressCheck, IInv, TypeOK
  <2>4. n \in Nets /\ HasMember(n, frame[c].svc)
    BY <2>2, <2>3 DEF IInv, TypeOK, MapsPaired
  <2> QED BY <2>3, <2>4
<1> QED BY <1>1, Invariant, PTL DEF Spec, IngressIsCurrent

=============================================================================
