------------------------- MODULE ServiceHandleProofs -------------------------
(***************************************************************************)
(* ServiceHandle for every set of tasks, every set of ports, every replica *)
(* count and every service type, with clients that may hang up at any      *)
(* point.                                                                  *)
(***************************************************************************)
EXTENDS ServiceHandle, TLAPS

-----------------------------------------------------------------------------
(* Program points and records *)

\* What subtracting replica counts yields, where the code compares them first.
LEMMA Difference ==
  /\ \A n \in Nat : n > 0 => n - 1 \in Nat
  /\ \A m, n \in Nat : m > n => m - n \in Nat /\ m - 1 \in Nat
OBVIOUS

\* The program points, spelled out for the backends.
LEMMA PcLiterals ==
  /\ ActivePcs = {"start.created", "start.begin", "ports.lock", "start.runtime",
                  "start.finish", "start.spawn", "start.tally", "start.count",
                  "ports.bind", "ports.record",
                  "stop.begin", "stop.unbind", "stop.drain", "stop.finish",
                  "scale.check", "scale.resize", "scale.spawn", "scale.shrink",
                  "scale.tally", "scale.relock", "scale.finish",
                  "delete.mark", "delete.remove", "delete.erase",
                  "snapshot", "persist", "detail.read", "detail.lock", "route.serve"}
  /\ Pcs = ActivePcs \cup {"idle", "queued"}
BY DEF Pcs, ActivePcs, StartPcs, BindPcs, StopPcs, ScalePcs, DeletePcs, SavePcs, ReadPcs

\* The first point of an operation belongs to it.
LEMMA FirstPcOp ==
  ASSUME NEW o \in Ops
  PROVE  FirstPc(o) \in ActivePcs /\ OpAt(o, FirstPc(o))
BY PcLiterals DEF Ops, FirstPc, OpAt, StartPcs, BindPcs, StopPcs, ScalePcs, DeletePcs,
                  SavePcs, ReadPcs

\* The updates the steps make to a service keep it a service.
LEMMA ServiceUpdates ==
  ASSUME NEW s \in ServiceState
  PROVE  /\ \A x \in State : [s EXCEPT !.state = x] \in ServiceState
         /\ \A x \in State, n \in Nat :
              /\ [s EXCEPT !.state = x, !.desired = n] \in ServiceState
              /\ [s EXCEPT !.state = x, !.running = n] \in ServiceState
         /\ \A m, n \in Nat :
              /\ [s EXCEPT !.running = m, !.failed = n] \in ServiceState
              /\ [s EXCEPT !.desired = m, !.running = n] \in ServiceState
         /\ \A x \in State : [s EXCEPT !.state = x, !.error = TRUE] \in ServiceState
BY DEF ServiceState

\* The fields of a call's local variables, and that the updates the steps make
\* to them keep their types.
LEMMA FrameUpdates ==
  ASSUME NEW f \in Frame
  PROVE  /\ f.goal \in Nat /\ f.left \in Nat /\ f.errs \in Nat
         /\ f.port \in Ports \cup {NoPort}
         /\ f.snap \in ServiceState \cup {NoRecord}
         /\ f.op \in Ops \cup {"none"}
         /\ \A n \in Nat : [f EXCEPT !.left = n] \in Frame
         /\ \A m, n \in Nat : [f EXCEPT !.left = m, !.errs = n] \in Frame
         /\ \A p \in Ports \cup {NoPort} : [f EXCEPT !.port = p] \in Frame
         /\ \A x \in ServiceState : [f EXCEPT !.snap = x] \in Frame
BY DEF Frame

\* A call starts, and leaves behind, well-typed local variables.
LEMMA NewFrames ==
  /\ NoFrame \in Frame
  /\ \A o \in Ops, n \in Nat : [NoFrame EXCEPT !.op = o, !.goal = n] \in Frame
BY DEF NoFrame, Frame

\* A service just created, with no request in the daemon, satisfies the
\* inductive invariant.
LEMMA Initial == Init => IInv
<1> SUFFICES ASSUME Init PROVE IInv
  OBVIOUS
<1>1. NewService \in ServiceState
  BY DEF NewService, ServiceState, State
<1>2. TypeOK
  BY <1>1, NewFrames, PcLiterals DEF Init, TypeOK
<1>3. Alone /\ RightOp
  BY PcLiterals DEF Init, Alone, RightOp, InManager, OpAt, StartPcs, BindPcs, StopPcs,
     ScalePcs, DeletePcs, SavePcs, ReadPcs
<1>4. HandleInStep /\ RecordsPort
  BY DEF Init, HandleInStep, HandleAt, RecordsPort, StartPcs, BindPcs, StopPcs, ScalePcs
<1>5. QED
  BY <1>2, <1>3, <1>4 DEF IInv, Init, InactiveHoldsNothing, RunningListens,
     DeletedStaysDead, NewService

-----------------------------------------------------------------------------
(* Type correctness *)

\* The steps of start (and the spawns of scale) keep every variable in its type.
LEMMA StartType ==
  ASSUME TypeOK, RecordsPort, NEW c \in Tasks, StartStep(c)
  PROVE  TypeOK'
<1> USE PcLiterals DEF TypeOK, resources, registry, Goto
<1>0. frame[c] \in Frame /\ NoFrame \in Frame
  BY NewFrames
<1>1. CASE LeaveCreating(c)
  BY <1>1, ServiceUpdates DEF LeaveCreating, State
<1>2. CASE StartRefused(c)
  BY <1>2, <1>0 DEF StartRefused, Return
<1>3. CASE StartBegin(c)
  BY <1>3, <1>0, ServiceUpdates, FrameUpdates, ReplicaAssumption DEF StartBegin, State
<1>4. CASE LockPorts(c)
  BY <1>4 DEF LockPorts
<1>5. CASE BindPort(c)
  <2>1. PICK p \in Ports : open' = open \cup {p} /\ frame' = [frame EXCEPT ![c].port = p]
    BY <1>5 DEF BindPort
  <2>2. [frame[c] EXCEPT !.port = p] \in Frame
    BY <1>0, FrameUpdates
  <2>3. QED
    BY <1>5, <2>1, <2>2 DEF BindPort
<1>6. CASE RecordPort(c)
  BY <1>6, <1>0, FrameUpdates DEF RecordPort, RecordsPort, At
<1>7. CASE BindFails(c)
  BY <1>7, <1>0 DEF BindFails, Return, Unbind
<1>8. CASE BindDone(c)
  BY <1>8 DEF BindDone
<1>9. CASE CreateRuntime(c)
  BY <1>9 DEF CreateRuntime
<1>10. CASE RuntimeFails(c)
  BY <1>10, <1>0 DEF RuntimeFails, Return, Unbind
<1>11. CASE StartFinish(c)
  BY <1>11, ServiceUpdates DEF StartFinish, State
<1>12. CASE SpawnInstance(c)
  <2>0. frame[c].left \in Nat /\ frame[c].left > 0
    BY <1>0, <1>12, FrameUpdates DEF SpawnInstance
  <2>1. frame[c].left - 1 \in Nat
    BY <2>0, Difference
  <2>2. [frame[c] EXCEPT !.left = frame[c].left - 1] \in Frame
    BY <1>0, <2>1, FrameUpdates
  <2>3. QED
    BY <1>12, <2>2 DEF SpawnInstance
<1>13. CASE SpawnFails(c)
  <2>0. frame[c].left \in Nat /\ frame[c].left > 0 /\ frame[c].errs \in Nat
    BY <1>0, <1>13, FrameUpdates DEF SpawnFails
  <2>1. frame[c].left - 1 \in Nat /\ frame[c].errs + 1 \in Nat
    BY <2>0, Difference
  <2>2. [frame[c] EXCEPT !.left = frame[c].left - 1, !.errs = frame[c].errs + 1] \in Frame
    BY <1>0, <2>1, FrameUpdates
  <2>3. frame' = [frame EXCEPT ![c] = [frame[c] EXCEPT !.left = frame[c].left - 1,
                                                       !.errs = frame[c].errs + 1]]
    BY <1>0, <1>13 DEF SpawnFails
  <2>4. QED
    BY <1>13, <2>2, <2>3 DEF SpawnFails
<1>14. CASE SpawnDone(c)
  BY <1>14 DEF SpawnDone
<1>15. CASE StartTally(c)
  BY <1>15 DEF StartTally
<1>16. Counted(c) \in ServiceState
  BY <1>0, FrameUpdates, ServiceUpdates DEF Counted
<1>17. CASE StartSucceeds(c)
  BY <1>17, <1>16, ServiceUpdates DEF StartSucceeds, State
<1>18. CASE StartFails(c)
  BY <1>18, <1>0, <1>16, ServiceUpdates DEF StartFails, State, Return, Unbind
<1>19. QED
  BY <1>1, <1>2, <1>3, <1>4, <1>5, <1>6, <1>7, <1>8, <1>9, <1>10, <1>11, <1>12,
     <1>13, <1>14, <1>15, <1>17, <1>18 DEF StartStep

\* The steps of stop keep every variable in its type.
LEMMA StopType ==
  ASSUME TypeOK, NEW c \in Tasks, StopStep(c)
  PROVE  TypeOK'
<1> USE PcLiterals, NewFrames DEF TypeOK, resources, registry, Goto
<1>1. CASE StopRefused(c)
  BY <1>1 DEF StopRefused, Return
<1>2. CASE StopBegin(c)
  BY <1>2, ServiceUpdates DEF StopBegin, SetState, State
<1>3. CASE StopUnbind(c)
  BY <1>3 DEF StopUnbind, Unbind
<1>4. CASE StopDrain(c)
  BY <1>4 DEF StopDrain
<1>5. CASE StopFinish(c)
  BY <1>5, ServiceUpdates DEF StopFinish, State
<1>6. QED
  BY <1>1, <1>2, <1>3, <1>4, <1>5 DEF StopStep

\* The steps of scale keep every variable in its type: no replica count is
\* ever negative.
LEMMA ScaleType ==
  ASSUME TypeOK, NEW c \in Tasks, ScaleStep(c)
  PROVE  TypeOK'
<1> USE PcLiterals, NewFrames DEF TypeOK, resources, registry, Goto
<1>0. frame[c] \in Frame
  OBVIOUS
<1>1. CASE ScaleRefused(c)
  BY <1>1 DEF ScaleRefused, Return
<1>2. CASE ScaleCheck(c)
  BY <1>2 DEF ScaleCheck
<1>3. CASE ScaleUp(c)
  <2>0. frame[c].goal \in Nat /\ instances \in Nat /\ frame[c].goal > instances
    BY <1>0, <1>3, FrameUpdates DEF ScaleUp
  <2>1. frame[c].goal - instances \in Nat
    BY <2>0, Difference
  <2>2. [frame[c] EXCEPT !.left = frame[c].goal - instances] \in Frame
    BY <1>0, <2>1, FrameUpdates
  <2>3. QED
    BY <1>3, <2>2 DEF ScaleUp
<1>4. CASE ScaleDown(c)
  BY <1>4 DEF ScaleDown
<1>5. CASE PopInstance(c)
  <2>1. frame[c].goal \in Nat /\ instances \in Nat /\ instances > frame[c].goal
    BY <1>0, <1>5, FrameUpdates DEF PopInstance
  <2>2. instances - 1 \in Nat
    BY <2>1, Difference
  <2>3. QED
    BY <1>5, <2>2 DEF PopInstance
<1>6. CASE ShrinkDone(c)
  BY <1>6 DEF ShrinkDone
<1>7. CASE ScaleTally(c)
  BY <1>7 DEF ScaleTally
<1>8. CASE ScaleFinish(c)
  BY <1>8, <1>0, FrameUpdates, ServiceUpdates DEF ScaleFinish
<1>9. QED
  BY <1>1, <1>2, <1>3, <1>4, <1>5, <1>6, <1>7, <1>8 DEF ScaleStep

\* Queueing, entering, hanging up, deleting, saving and reading keep every
\* variable in its type.
LEMMA OtherType ==
  ASSUME TypeOK, RightOp, NEW c \in Tasks,
         \/ Calls(c) \/ HangUp(c) \/ HangUpUnbinding(c) \/ RouteDone(c) \/ Enter(c)
         \/ NotFound(c) \/ DeleteStep(c) \/ SaveStep(c) \/ DetailStep(c)
  PROVE  TypeOK'
<1> USE PcLiterals, NewFrames DEF TypeOK, resources, registry, Goto
<1>0. frame[c] \in Frame
  OBVIOUS
<1>1. CASE Calls(c)
  <2>1. PICK o \in Ops, n \in Nat : Call(c, o, n)
    BY <1>1, CallAssumption, ReplicaAssumption DEF Calls
  <2>2. [NoFrame EXCEPT !.op = o, !.goal = n] \in Frame
    BY NewFrames
  <2>3. QED
    BY <2>1, <2>2 DEF Call
<1>2. CASE HangUp(c)
  BY <1>2 DEF HangUp, Return, LeaveQueue
<1>10. CASE HangUpUnbinding(c)
  <2>1. open' \subseteq open
    BY <1>10 DEF HangUpUnbinding
  <2>2. QED
    BY <1>10, <2>1 DEF HangUpUnbinding, Return
<1>3. CASE RouteDone(c)
  BY <1>3 DEF RouteDone, Return
<1>4. CASE Enter(c)
  <2>1. FirstPc(frame[c].op) \in Pcs
    BY <1>4, FirstPcOp DEF Enter, At, RightOp, OpAt
  <2>2. QED
    BY <1>4, <2>1 DEF Enter, LeaveQueue
<1>5. CASE NotFound(c)
  BY <1>5 DEF NotFound, Return, LeaveQueue
<1>6. CASE DeleteStep(c)
  BY <1>6, ServiceUpdates DEF DeleteStep, DeleteRefused, MarkDeleting, RemoveHandle,
     EraseRecord, SetState, State, Return
<1>7. CASE SaveStep(c)
  <2>1. [frame[c] EXCEPT !.snap = svc] \in Frame /\ frame[c].snap \in ServiceState \cup {NoRecord}
    BY <1>0, FrameUpdates
  <2>2. QED
    BY <1>7, <2>1 DEF SaveStep, Snapshot, Persist, Return
<1>8. CASE DetailStep(c)
  BY <1>8 DEF DetailStep, ReadDetail, DetailDone, Return
<1>9. QED
  BY <1>1, <1>2, <1>3, <1>4, <1>5, <1>6, <1>7, <1>8, <1>10

-----------------------------------------------------------------------------
(* How one step moves the tasks *)

Move(c) ==
  /\ \A d \in Tasks \ {c} : pc'[d] = pc[d] /\ frame'[d] = frame[d]
  /\ \/ pc'[c] = "queued" /\ frame'[c].op \in Ops
     \/ /\ pc[c] = "queued" /\ CanEnter(c)
        /\ pc'[c] = FirstPc(frame[c].op) /\ frame'[c] = frame[c]
     \/ /\ pc[c] \in ActivePcs /\ pc'[c] \in ActivePcs
        /\ frame'[c].op = frame[c].op /\ OpAt(frame[c].op, pc'[c])
     \/ pc'[c] = "idle"

\* The program points an operation may be at.
LEMMA PointsOf ==
  /\ \A l \in StartPcs \cup SavePcs : l \in ActivePcs /\ OpAt("start", l)
  /\ \A l \in StopPcs \cup SavePcs  : l \in ActivePcs /\ OpAt("stop", l)
  /\ \A l \in ScalePcs \cup SavePcs : l \in ActivePcs /\ OpAt("scale", l)
  /\ \A l \in DeletePcs : l \in ActivePcs /\ OpAt("delete", l)
BY DEF OpAt, ActivePcs, StartPcs, BindPcs, StopPcs, ScalePcs, DeletePcs, SavePcs, ReadPcs

\* The steps of start move their own task only, within start or out of it.
LEMMA StartMoves ==
  ASSUME TypeOK, RightOp, NEW c \in Tasks, StartStep(c)
  PROVE  Move(c)
<1> USE DEF TypeOK, At, Goto, Return
<1> DEFINE ops == frame'[c].op = frame[c].op
           same == \A d \in Tasks \ {c} : pc'[d] = pc[d] /\ frame'[d] = frame[d]
<1>1. pc[c] \in StartPcs \cup {"scale.spawn"}
  BY DEF StartStep, LeaveCreating, StartRefused, StartBegin, LockPorts, BindPort, RecordPort,
     BindFails, BindDone, CreateRuntime, RuntimeFails, StartFinish, SpawnInstance, SpawnFails,
     SpawnDone, StartTally, StartSucceeds, StartFails, StartPcs, BindPcs
<1>2. frame[c] \in Frame
  OBVIOUS
<1>3. CASE SpawnInstance(c) \/ SpawnFails(c)
  BY <1>1, <1>2, <1>3, PcLiterals DEF SpawnInstance, SpawnFails, Move, RightOp, Frame
<1>4. CASE SpawnDone(c)
  <2>0. pc[c] \in {"start.spawn", "scale.spawn"}
    BY <1>4 DEF SpawnDone
  <2>1. /\ pc[c] = "start.spawn" => frame[c].op = "start"
        /\ pc[c] = "scale.spawn" => frame[c].op = "scale"
    BY DEF RightOp, OpAt, StartPcs, ScalePcs
  <2>2. pc'[c] = IF pc[c] = "start.spawn" THEN "start.tally" ELSE "scale.tally"
    BY <1>4 DEF SpawnDone
  <2>3. OpAt(frame[c].op, pc'[c]) /\ pc'[c] \in ActivePcs
    BY <2>0, <2>1, <2>2, PointsOf DEF StartPcs, ScalePcs
  <2>4. QED
    BY <1>1, <1>4, <2>3, PcLiterals DEF SpawnDone, Move, StartPcs, BindPcs
<1>5. ASSUME pc[c] \in StartPcs, pc'[c] \in StartPcs \cup SavePcs, ops, same
      PROVE  Move(c)
  <2>1. frame[c].op = "start"
    BY <1>5 DEF RightOp, OpAt
  <2>2. QED
    BY <1>5, <2>1, PointsOf DEF Move
<1>6. CASE StartRefused(c) \/ BindFails(c) \/ RuntimeFails(c) \/ StartFails(c)
  BY <1>6 DEF StartRefused, BindFails, RuntimeFails, StartFails, Move
<1>7. CASE LeaveCreating(c) \/ StartBegin(c) \/ LockPorts(c) \/ BindDone(c)
  BY <1>2, <1>5, <1>7 DEF LeaveCreating, StartBegin, LockPorts, BindDone, StartPcs, BindPcs, Frame
<1>8. CASE BindPort(c) \/ RecordPort(c)
  BY <1>2, <1>5, <1>8 DEF BindPort, RecordPort, StartPcs, BindPcs, Frame
<1>9. CASE CreateRuntime(c) \/ StartFinish(c) \/ StartTally(c) \/ StartSucceeds(c)
  BY <1>5, <1>9 DEF CreateRuntime, StartFinish, StartTally, StartSucceeds, StartPcs, SavePcs
<1>10. QED
  BY <1>3, <1>4, <1>6, <1>7, <1>8, <1>9 DEF StartStep

\* The steps of stop move their own task only, within stop or out of it.
LEMMA StopMoves ==
  ASSUME TypeOK, RightOp, NEW c \in Tasks, StopStep(c)
  PROVE  Move(c)
<1> USE DEF TypeOK, At, Goto, Return
<1>1. pc[c] \in StopPcs
  BY DEF StopStep, StopRefused, StopBegin, StopUnbind, StopDrain, StopFinish, StopPcs
<1>2. frame[c].op = "stop"
  BY <1>1 DEF RightOp, OpAt
<1>3. CASE StopRefused(c)
  BY <1>3 DEF StopRefused, Move
<1>4. ASSUME ~StopRefused(c)
      PROVE  pc'[c] \in StopPcs \cup SavePcs /\ frame' = frame
             /\ \A d \in Tasks \ {c} : pc'[d] = pc[d]
  BY <1>4 DEF StopStep, StopBegin, StopUnbind, StopDrain, StopFinish, StopPcs, SavePcs
<1>5. QED
  BY <1>1, <1>2, <1>3, <1>4, PointsOf DEF Move

\* The steps of scale move their own task only, within scale or out of it.
LEMMA ScaleMoves ==
  ASSUME TypeOK, RightOp, NEW c \in Tasks, ScaleStep(c)
  PROVE  Move(c)
<1> USE DEF TypeOK, At, Goto, Return
<1>1. pc[c] \in ScalePcs
  BY DEF ScaleStep, ScaleRefused, ScaleCheck, ScaleUp, ScaleDown, PopInstance, ShrinkDone,
     ScaleTally, ScaleFinish, ScalePcs
<1>2. frame[c].op = "scale" /\ frame[c] \in Frame
  BY <1>1 DEF RightOp, OpAt
<1>3. CASE ScaleRefused(c)
  BY <1>3 DEF ScaleRefused, Move
<1>4. CASE ScaleUp(c)
  <2>1. pc'[c] \in ScalePcs /\ frame'[c].op = frame[c].op
    BY <1>2, <1>4 DEF ScaleUp, ScalePcs, Frame
  <2>2. QED
    BY <1>1, <1>2, <1>4, <2>1, PointsOf DEF ScaleUp, Move
<1>5. ASSUME ~ScaleRefused(c), ~ScaleUp(c)
      PROVE  pc'[c] \in ScalePcs \cup SavePcs /\ frame' = frame
             /\ \A d \in Tasks \ {c} : pc'[d] = pc[d]
  BY <1>1, <1>5 DEF ScaleStep, ScaleCheck, ScaleDown, PopInstance, ShrinkDone,
     ScaleTally, ScaleFinish, ScalePcs, SavePcs
<1>6. QED
  BY <1>1, <1>2, <1>3, <1>4, <1>5, PointsOf DEF Move

\* The other steps move their own task only.
LEMMA OtherMoves ==
  ASSUME TypeOK, RightOp, NEW c \in Tasks,
         \/ Calls(c) \/ HangUp(c) \/ HangUpUnbinding(c) \/ RouteDone(c) \/ Enter(c)
         \/ NotFound(c) \/ DeleteStep(c) \/ SaveStep(c) \/ DetailStep(c)
  PROVE  Move(c)
<1> USE DEF TypeOK, At, Goto, Return, Move
<1>1. CASE Calls(c)
  <2>1. PICK o \in Ops, n \in Nat : Call(c, o, n)
    BY <1>1, CallAssumption, ReplicaAssumption DEF Calls
  <2>2. [NoFrame EXCEPT !.op = o, !.goal = n].op = o
    BY DEF NoFrame
  <2>3. QED
    BY <2>1, <2>2 DEF Call
<1>2. CASE HangUp(c) \/ HangUpUnbinding(c) \/ RouteDone(c) \/ NotFound(c)
  BY <1>2 DEF HangUp, HangUpUnbinding, RouteDone, NotFound
<1>3. CASE Enter(c)
  BY <1>3 DEF Enter
<1>4. CASE DeleteStep(c)
  <2>1. pc[c] \in DeletePcs
    BY <1>4 DEF DeleteStep, DeleteRefused, MarkDeleting, RemoveHandle, EraseRecord, DeletePcs
  <2>2. frame[c].op = "delete"
    BY <2>1 DEF RightOp, OpAt
  <2>3. QED
    BY <1>4, <2>1, <2>2, PointsOf DEF DeleteStep, DeleteRefused, MarkDeleting, RemoveHandle,
       EraseRecord, DeletePcs
<1>5. CASE Snapshot(c)
  <2>1. frame[c].op \in {"start", "stop", "scale"} /\ frame[c] \in Frame
    BY <1>5 DEF Snapshot, RightOp, OpAt, SavePcs
  <2>2. frame'[c].op = frame[c].op
    BY <1>5, <2>1 DEF Snapshot, Frame
  <2>3. QED
    BY <1>5, <2>1, <2>2, PointsOf DEF Snapshot, SavePcs
<1>6. CASE Persist(c)
  BY <1>6 DEF Persist
<1>7. CASE DetailStep(c)
  <2>1. CASE ReadDetail(c)
    <3>1. frame[c].op \in {"detail", "route"}
      BY <2>1 DEF ReadDetail, RightOp, OpAt, ReadPcs
    <3>2. OpAt(frame[c].op, "detail.lock")
      BY <3>1 DEF OpAt, StartPcs, BindPcs, StopPcs, ScalePcs, DeletePcs, SavePcs, ReadPcs
    <3>3. QED
      BY <2>1, <3>2, PcLiterals DEF ReadDetail
  <2>2. CASE DetailDone(c)
    BY <2>2 DEF DetailDone
  <2>3. QED
    BY <1>7, <2>1, <2>2 DEF DetailStep
<1>8. QED
  BY <1>1, <1>2, <1>3, <1>4, <1>5, <1>6, <1>7 DEF SaveStep

\* The manager lock keeps a changing request alone.
LEMMA AloneStep ==
  ASSUME TypeOK, TypeOK', Alone, RightOp, NEW c \in Tasks, Move(c)
  PROVE  Alone' /\ RightOp'
<1>1. RightOp'
  <2> SUFFICES ASSUME NEW d \in Tasks PROVE OpAt(frame'[d].op, pc'[d])
    BY DEF RightOp
  <2>1. CASE d # c
    BY <2>1 DEF Move, RightOp
  <2>2. CASE pc'[c] \in {"queued", "idle"} /\ d = c
    BY <2>2, PcLiterals, FirstPcOp DEF Move, OpAt, StartPcs, BindPcs, StopPcs, ScalePcs, DeletePcs,
       SavePcs, ReadPcs, RightOp
  <2>3. CASE pc[c] = "queued" /\ pc'[c] = FirstPc(frame[c].op) /\ frame'[c] = frame[c] /\ d = c
    BY <2>3, FirstPcOp DEF RightOp, OpAt
  <2>4. QED
    BY <2>1, <2>2, <2>3 DEF Move
<1>2. Alone'
  <2> SUFFICES ASSUME NEW d \in InManager', NEW e \in InManager', d # e
               PROVE  frame'[d].op \notin Exclusive
    BY DEF Alone
  <2>1. d \in Tasks /\ e \in Tasks /\ pc'[d] \in ActivePcs /\ pc'[e] \in ActivePcs
    BY DEF InManager
  <2>2. ASSUME NEW t \in Tasks, t # c, pc'[t] \in ActivePcs
        PROVE  t \in InManager /\ frame'[t] = frame[t]
    BY <2>2 DEF Move, InManager
  <2>3. CASE c \in InManager /\ frame'[c].op = frame[c].op
    BY <2>1, <2>2, <2>3 DEF Alone
  <2>4. CASE CanEnter(c) /\ frame'[c] = frame[c]
    BY <2>1, <2>2, <2>4 DEF Alone, CanEnter
  <2>5. CASE pc'[c] \in {"idle", "queued"}
    <3>1. d # c /\ e # c
      BY <2>1, <2>5, PcLiterals
    <3>2. QED
      BY <2>1, <2>2, <3>1 DEF Alone
  <2>6. QED
    BY <2>3, <2>4, <2>5 DEF Move, InManager
<1>3. QED
  BY <1>1, <1>2

-----------------------------------------------------------------------------
(* How one step changes the handle *)

\* What every state of the handle satisfies, whatever the tasks do.
HandleInv ==
  /\ HandleInStep
  /\ RecordsPort
  /\ InactiveHoldsNothing
  /\ RunningListens
  /\ DeletedStaysDead

Core == TypeOK /\ Alone /\ RightOp /\ HandleInv

\* While a changing request is served, the other tasks wait or are idle, and
\* so claim nothing about the handle.
LEMMA OthersWait ==
  ASSUME Core, NEW c \in Tasks, pc[c] \in ActivePcs, frame[c].op \in Exclusive,
         NEW d \in Tasks \ {c}
  PROVE  pc[d] \in {"idle", "queued"}
BY PcLiterals DEF Core, TypeOK, Alone, InManager

\* So a step of such a request keeps HandleInv if its own task's claims hold
\* afterwards.
LEMMA OwnClaims ==
  ASSUME Core, NEW c \in Tasks, Move(c), pc[c] \in ActivePcs, frame[c].op \in Exclusive,
         HandleAt(pc[c])', pc'[c] = "ports.record" => frame'[c].port \in open'
  PROVE  HandleInStep' /\ RecordsPort'
<1>1. ASSUME NEW d \in Tasks \ {c}
      PROVE  pc'[d] \in {"idle", "queued"}
  BY <1>1, OthersWait DEF Move
<1>2. \A l \in {"idle", "queued"} : HandleAt(l)'
  BY DEF HandleAt, StartPcs, BindPcs, StopPcs, ScalePcs
<1>3. QED
  BY <1>1, <1>2 DEF HandleInStep, RecordsPort

\* What a task that is changing the service may assume of the handle.
LEMMA ClaimsOf ==
  ASSUME Core, NEW c \in Tasks
  PROVE  /\ HandleAt(pc[c])
         /\ pc[c] \in StartPcs \cup StopPcs \cup ScalePcs \cup DeletePcs =>
              pc[c] \in ActivePcs /\ frame[c].op \in Exclusive
BY DEF Core, HandleInv, HandleInStep, RightOp, OpAt, Exclusive, ActivePcs

\* The steps of start keep what the handle always satisfies.
LEMMA StartHandle ==
  ASSUME Core, NEW c \in Tasks, StartStep(c), Move(c), TypeOK'
  PROVE  HandleInv'
<1> USE DEF At, Goto, Return, SetState, resources, registry
<1>0. pc[c] \in StartPcs \cup ScalePcs
  BY DEF StartStep, LeaveCreating, StartRefused, StartBegin, LockPorts, BindPort, RecordPort,
     BindFails, BindDone, CreateRuntime, RuntimeFails, StartFinish, SpawnInstance, SpawnFails,
     SpawnDone, StartTally, StartSucceeds, StartFails, StartPcs, BindPcs, ScalePcs
<1>1. HandleAt(pc[c]) /\ pc[c] \in ActivePcs /\ frame[c].op \in Exclusive
  BY <1>0, ClaimsOf
<1>2. /\ svc \in ServiceState /\ pc \in [Tasks -> Pcs] /\ frame \in [Tasks -> Frame]
      /\ instances \in Nat /\ bound \subseteq Ports
      /\ InactiveHoldsNothing /\ RunningListens /\ DeletedStaysDead
      /\ pc[c] = "ports.record" => frame[c].port \in open
  BY DEF Core, HandleInv, TypeOK, RecordsPort
<1>3. SUFFICES /\ HandleAt(pc[c])' /\ (pc'[c] = "ports.record" => frame'[c].port \in open')
               /\ InactiveHoldsNothing' /\ RunningListens' /\ DeletedStaysDead'
  BY <1>1, OwnClaims DEF HandleInv
<1> USE DEF HandleAt, StartPcs, BindPcs, StopPcs, ScalePcs, InactiveHoldsNothing, IsActive,
            RunningListens, DeletedStaysDead, ServiceState
<1>4. CASE LeaveCreating(c)
  BY <1>1, <1>2, <1>4 DEF LeaveCreating
<1>5. CASE StartRefused(c)
  BY <1>1, <1>2, <1>5 DEF StartRefused
<1>6. CASE StartBegin(c)
  BY <1>1, <1>2, <1>6 DEF StartBegin, CanStart
<1>7. CASE LockPorts(c)
  BY <1>1, <1>2, <1>7 DEF LockPorts
<1>8. CASE BindPort(c)
  BY <1>1, <1>2, <1>8 DEF BindPort, Frame
<1>9. CASE RecordPort(c)
  BY <1>1, <1>2, <1>9 DEF RecordPort
<1>10. CASE BindFails(c)
  BY <1>1, <1>2, <1>10 DEF BindFails, Unbind
<1>11. CASE BindDone(c)
  BY <1>1, <1>2, <1>11 DEF BindDone
<1>12. CASE CreateRuntime(c)
  BY <1>1, <1>2, <1>12 DEF CreateRuntime
<1>13. CASE RuntimeFails(c)
  BY <1>1, <1>2, <1>13 DEF RuntimeFails, Unbind
<1>14. CASE StartFinish(c)
  BY <1>1, <1>2, <1>14 DEF StartFinish
<1>15. CASE SpawnInstance(c)
  BY <1>1, <1>2, <1>15 DEF SpawnInstance
<1>16. CASE SpawnFails(c)
  BY <1>1, <1>2, <1>16 DEF SpawnFails
<1>17. CASE SpawnDone(c)
  BY <1>1, <1>2, <1>17 DEF SpawnDone
<1>18. CASE StartTally(c)
  BY <1>1, <1>2, <1>18 DEF StartTally
<1>19. CASE StartSucceeds(c)
  BY <1>1, <1>2, <1>19 DEF StartSucceeds, Counted
<1>20. CASE StartFails(c)
  BY <1>1, <1>2, <1>20 DEF StartFails, Counted, AllSpawnsFailed, Unbind
<1>21. QED
  BY <1>4, <1>5, <1>6, <1>7, <1>8, <1>9, <1>10, <1>11, <1>12, <1>13, <1>14, <1>15,
     <1>16, <1>17, <1>18, <1>19, <1>20 DEF StartStep

\* The steps of stop keep what the handle always satisfies.
LEMMA StopHandle ==
  ASSUME Core, NEW c \in Tasks, StopStep(c), Move(c), TypeOK'
  PROVE  HandleInv'
<1> USE DEF At, Goto, Return, SetState, resources, registry
<1>0. pc[c] \in StopPcs
  BY DEF StopStep, StopRefused, StopBegin, StopUnbind, StopDrain, StopFinish, StopPcs
<1>1. HandleAt(pc[c]) /\ pc[c] \in ActivePcs /\ frame[c].op \in Exclusive
  BY <1>0, ClaimsOf
<1>2. /\ svc \in ServiceState /\ pc \in [Tasks -> Pcs]
      /\ InactiveHoldsNothing /\ RunningListens /\ DeletedStaysDead
  BY DEF Core, HandleInv, TypeOK
<1>3. SUFFICES /\ HandleAt(pc[c])' /\ pc'[c] # "ports.record"
               /\ InactiveHoldsNothing' /\ RunningListens' /\ DeletedStaysDead'
  BY <1>1, OwnClaims DEF HandleInv
<1> USE DEF HandleAt, StartPcs, BindPcs, StopPcs, ScalePcs, InactiveHoldsNothing, IsActive,
            RunningListens, DeletedStaysDead, ServiceState
<1>4. CASE StopRefused(c)
  BY <1>1, <1>2, <1>4 DEF StopRefused
<1>5. CASE StopBegin(c)
  BY <1>1, <1>2, <1>5 DEF StopBegin, CanStop
<1>6. CASE StopUnbind(c)
  BY <1>1, <1>2, <1>6 DEF StopUnbind, Unbind
<1>7. CASE StopDrain(c)
  BY <1>1, <1>2, <1>7 DEF StopDrain
<1>8. CASE StopFinish(c)
  BY <1>1, <1>2, <1>8 DEF StopFinish
<1>9. QED
  BY <1>4, <1>5, <1>6, <1>7, <1>8 DEF StopStep

\* The steps of scale keep what the handle always satisfies.
LEMMA ScaleHandle ==
  ASSUME Core, NEW c \in Tasks, ScaleStep(c), Move(c), TypeOK'
  PROVE  HandleInv'
<1> USE DEF At, Goto, Return, resources, registry
<1>0. pc[c] \in ScalePcs
  BY DEF ScaleStep, ScaleRefused, ScaleCheck, ScaleUp, ScaleDown, PopInstance, ShrinkDone,
     ScaleTally, ScaleFinish, ScalePcs
<1>1. HandleAt(pc[c]) /\ pc[c] \in ActivePcs /\ frame[c].op \in Exclusive
  BY <1>0, ClaimsOf
<1>2. /\ svc \in ServiceState /\ pc \in [Tasks -> Pcs]
      /\ InactiveHoldsNothing /\ RunningListens /\ DeletedStaysDead
  BY DEF Core, HandleInv, TypeOK
<1>3. SUFFICES /\ HandleAt(pc[c])' /\ pc'[c] # "ports.record"
               /\ InactiveHoldsNothing' /\ RunningListens' /\ DeletedStaysDead'
  BY <1>1, OwnClaims DEF HandleInv
<1> USE DEF HandleAt, StartPcs, BindPcs, StopPcs, ScalePcs, InactiveHoldsNothing, IsActive,
            RunningListens, DeletedStaysDead, ServiceState
<1>4. CASE ScaleRefused(c)
  BY <1>1, <1>2, <1>4 DEF ScaleRefused
<1>5. CASE ScaleCheck(c)
  BY <1>1, <1>2, <1>5 DEF ScaleCheck
<1>6. CASE ScaleUp(c)
  BY <1>1, <1>2, <1>6 DEF ScaleUp
<1>7. CASE ScaleDown(c)
  BY <1>1, <1>2, <1>7 DEF ScaleDown
<1>8. CASE PopInstance(c)
  BY <1>1, <1>2, <1>8 DEF PopInstance
<1>9. CASE ShrinkDone(c)
  BY <1>1, <1>2, <1>9 DEF ShrinkDone
<1>10. CASE ScaleTally(c)
  BY <1>1, <1>2, <1>10 DEF ScaleTally
<1>11. CASE ScaleFinish(c)
  BY <1>1, <1>2, <1>11 DEF ScaleFinish
<1>12. QED
  BY <1>4, <1>5, <1>6, <1>7, <1>8, <1>9, <1>10, <1>11 DEF ScaleStep

\* The steps of delete keep what the handle always satisfies.
LEMMA DeleteHandle ==
  ASSUME Core, NEW c \in Tasks, DeleteStep(c), Move(c), TypeOK'
  PROVE  HandleInv'
<1> USE DEF At, Goto, Return, SetState, resources, registry
<1>0. pc[c] \in DeletePcs
  BY DEF DeleteStep, DeleteRefused, MarkDeleting, RemoveHandle, EraseRecord, DeletePcs
<1>1. HandleAt(pc[c]) /\ pc[c] \in ActivePcs /\ frame[c].op \in Exclusive
  BY <1>0, ClaimsOf
<1>2. /\ svc \in ServiceState /\ pc \in [Tasks -> Pcs]
      /\ InactiveHoldsNothing /\ RunningListens /\ DeletedStaysDead
  BY DEF Core, HandleInv, TypeOK
<1>3. SUFFICES /\ HandleAt(pc[c])' /\ pc'[c] # "ports.record"
               /\ InactiveHoldsNothing' /\ RunningListens' /\ DeletedStaysDead'
  BY <1>1, OwnClaims DEF HandleInv
<1> USE DEF HandleAt, StartPcs, BindPcs, StopPcs, ScalePcs, InactiveHoldsNothing, IsActive,
            RunningListens, DeletedStaysDead, ServiceState
<1>4. CASE DeleteRefused(c)
  BY <1>1, <1>2, <1>4 DEF DeleteRefused
<1>5. CASE MarkDeleting(c)
  BY <1>1, <1>2, <1>5 DEF MarkDeleting, CanDelete
<1>6. CASE RemoveHandle(c)
  BY <1>1, <1>2, <1>6 DEF RemoveHandle
<1>7. CASE EraseRecord(c)
  BY <1>1, <1>2, <1>7 DEF EraseRecord
<1>8. QED
  BY <1>4, <1>5, <1>6, <1>7 DEF DeleteStep

\* A hang-up while ports are being closed leaves the service starting or
\* stopping, with the list of ports as it was.
LEMMA UnbindingHandle ==
  ASSUME Core, NEW c \in Tasks, HangUpUnbinding(c), Move(c), TypeOK'
  PROVE  HandleInv'
<1> USE DEF At, Goto, Return, registry
<1>0. pc[c] \in StartPcs \cup StopPcs
  BY DEF HangUpUnbinding, StartPcs, BindPcs, StopPcs
<1>1. HandleAt(pc[c]) /\ pc[c] \in ActivePcs /\ frame[c].op \in Exclusive
  BY <1>0, ClaimsOf
<1>2. /\ pc \in [Tasks -> Pcs]
      /\ InactiveHoldsNothing /\ DeletedStaysDead
  BY DEF Core, HandleInv, TypeOK
<1>3. svc.state \in {"starting", "stopping"}
  BY <1>1 DEF HangUpUnbinding, HandleAt, StartPcs, BindPcs, StopPcs
<1>4. HandleAt(pc[c])' /\ pc'[c] # "ports.record"
  BY <1>2 DEF HangUpUnbinding, HandleAt, StartPcs, BindPcs, StopPcs, ScalePcs
<1>5. InactiveHoldsNothing' /\ RunningListens' /\ DeletedStaysDead'
  BY <1>2, <1>3 DEF HangUpUnbinding, InactiveHoldsNothing, IsActive, RunningListens,
     DeletedStaysDead
<1>6. QED
  BY <1>1, <1>4, <1>5, OwnClaims DEF HandleInv

\* Queueing, entering, hanging up, saving and reading leave the handle alone.
LEMMA OtherHandle ==
  ASSUME Core, NEW c \in Tasks,
         \/ Calls(c) \/ HangUp(c) \/ RouteDone(c) \/ Enter(c) \/ NotFound(c)
         \/ SaveStep(c) \/ DetailStep(c)
  PROVE  HandleInv'
<1>1. /\ UNCHANGED <<svc, instances, bound, open, present>>
      /\ \A d \in Tasks \ {c} : pc'[d] = pc[d] /\ frame'[d] = frame[d]
  BY DEF Core, TypeOK, Calls, Call, HangUp, RouteDone, Enter, NotFound, SaveStep, Snapshot,
     Persist, DetailStep, ReadDetail, DetailDone, Goto, Return, resources, registry
<1>2. pc'[c] \in {"idle", "queued", "persist", "detail.lock", "start.created", "stop.begin",
                  "scale.check", "delete.mark", "detail.read", "route.serve"}
  <2>1. CASE Enter(c)
    <3>1. frame[c].op \in Ops /\ pc'[c] = FirstPc(frame[c].op)
      BY <2>1 DEF Core, TypeOK, RightOp, OpAt, Enter, At, Goto
    <3>2. QED
      BY <3>1 DEF Ops, FirstPc
  <2>2. CASE ~Enter(c)
    BY <2>2 DEF Core, TypeOK, Calls, Call, HangUp, RouteDone, NotFound, SaveStep, Snapshot,
       Persist, DetailStep, ReadDetail, DetailDone, Goto, Return
  <2>3. QED
    BY <2>1, <2>2
<1>3. HandleAt(pc[c])'
  BY <1>2 DEF HandleAt, StartPcs, BindPcs, StopPcs, ScalePcs
<1>4. ASSUME NEW d \in Tasks \ {c}
      PROVE  HandleAt(pc[d])' /\ (pc'[d] = "ports.record" => frame'[d].port \in open')
  BY <1>1, <1>4 DEF Core, HandleInv, HandleInStep, RecordsPort, HandleAt
<1>5. QED
  BY <1>1, <1>2, <1>3, <1>4 DEF Core, HandleInv, HandleInStep, RecordsPort, IsActive,
     InactiveHoldsNothing, RunningListens, DeletedStaysDead

-----------------------------------------------------------------------------
(* The inductive invariant *)

\* The conjuncts of IInv, grouped the way the lemmas above use them.
LEMMA Parts == IInv <=> Core
BY DEF IInv, Core, HandleInv

\* No step, whatever task takes it, breaks the inductive invariant.
LEMMA Inductive == IInv /\ [Next]_vars => IInv'
<1> SUFFICES ASSUME Core, [Next]_vars PROVE Core'
  BY Parts DEF IInv, Core, HandleInv
<1> USE DEF Core
<1>1. ASSUME NEW c \in Tasks, Move(c), TypeOK' PROVE Alone' /\ RightOp'
  BY <1>1, AloneStep
<1>2. ASSUME NEW c \in Tasks, StartStep(c) PROVE Core'
  <2>1. TypeOK' /\ Move(c)
    BY <1>2, StartType, StartMoves DEF HandleInv
  <2>2. QED
    BY <1>1, <1>2, <2>1, StartHandle
<1>3. ASSUME NEW c \in Tasks, StopStep(c) PROVE Core'
  <2>1. TypeOK' /\ Move(c)
    BY <1>3, StopType, StopMoves
  <2>2. QED
    BY <1>1, <1>3, <2>1, StopHandle
<1>4. ASSUME NEW c \in Tasks, ScaleStep(c) PROVE Core'
  <2>1. TypeOK' /\ Move(c)
    BY <1>4, ScaleType, ScaleMoves
  <2>2. QED
    BY <1>1, <1>4, <2>1, ScaleHandle
<1>5. ASSUME NEW c \in Tasks, DeleteStep(c) PROVE Core'
  <2>1. TypeOK' /\ Move(c)
    BY <1>5, OtherType, OtherMoves
  <2>2. QED
    BY <1>1, <1>5, <2>1, DeleteHandle
<1>6. ASSUME NEW c \in Tasks,
             \/ Calls(c) \/ HangUp(c) \/ RouteDone(c) \/ Enter(c) \/ NotFound(c)
             \/ SaveStep(c) \/ DetailStep(c)
      PROVE  Core'
  <2>1. TypeOK' /\ Move(c)
    BY <1>6, OtherType, OtherMoves
  <2>2. QED
    BY <1>1, <1>6, <2>1, OtherHandle
<1>7. ASSUME NEW c \in Tasks, HangUpUnbinding(c) PROVE Core'
  <2>1. TypeOK' /\ Move(c)
    BY <1>7, OtherType, OtherMoves
  <2>2. QED
    BY <1>1, <1>7, <2>1, UnbindingHandle
<1>8. CASE UNCHANGED vars
  BY <1>8 DEF vars, TypeOK, Alone, RightOp, InManager, HandleInv, HandleInStep, HandleAt,
     RecordsPort, InactiveHoldsNothing, IsActive, RunningListens, DeletedStaysDead
<1>9. QED
  BY <1>2, <1>3, <1>4, <1>5, <1>6, <1>7, <1>8 DEF Next, Progress

\* In every reachable state, for any number of tasks, the inductive invariant
\* holds: the manager lock keeps a changing request alone, and where that request
\* is tells the state of the service, its ports and its instances.
THEOREM Invariant == Spec => []IInv
BY Initial, Inductive, PTL DEF Spec

\* Every variable keeps its type: in particular no replica count is negative.
THEOREM TypeCorrect == Spec => []TypeOK
<1>1. IInv => TypeOK
  BY DEF IInv
<1>2. QED
  BY <1>1, Invariant, PTL

\* A service that is not starting, running or stopping holds no instance and no
\* port, even when clients hang up in the middle of a start or a stop.
THEOREM NothingHeld == Spec => []InactiveHoldsNothing
<1>1. IInv => InactiveHoldsNothing
  BY DEF IInv
<1>2. QED
  BY <1>1, Invariant, PTL

\* A running http or tcp service listens on every port it declares.
THEOREM Listens == Spec => []RunningListens
<1>1. IInv => RunningListens
  BY DEF IInv
<1>2. QED
  BY <1>1, Invariant, PTL

\* A deleted service never comes back to life through a request that still
\* holds its handle.
THEOREM StaysDead == Spec => []DeletedStaysDead
<1>1. IInv => DeletedStaysDead
  BY DEF IInv
<1>2. QED
  BY <1>1, Invariant, PTL

-----------------------------------------------------------------------------
(* Refinement of the service life cycle *)

\* Every step of start maps to a life-cycle step or a stutter.
LEMMA StartRefines ==
  ASSUME IInv, NEW c \in Tasks, StartStep(c)
  PROVE  [Lifecycle!Next]_(Lifecycle!vars)
<1> USE DEF At, Goto, Return, resources, registry, Lifecycle!Next, Lifecycle!vars
<1>1. /\ svc \in ServiceState /\ instances \in Nat /\ HandleAt(pc[c])
      /\ InactiveHoldsNothing
  BY DEF IInv, TypeOK, HandleInStep
<1> USE DEF HandleAt, StartPcs, BindPcs, StopPcs, ScalePcs, InactiveHoldsNothing, IsActive,
            ServiceState, Lifecycle!Move
<1>2. CASE LeaveCreating(c)
  BY <1>1, <1>2 DEF LeaveCreating, Lifecycle!Initialise
<1>3. CASE StartBegin(c)
  BY <1>1, <1>3 DEF StartBegin, CanStart, Lifecycle!BeginStart, Lifecycle!CanStart
<1>4. CASE StartRefused(c) \/ LockPorts(c) \/ BindPort(c) \/ BindDone(c) \/ CreateRuntime(c)
           \/ SpawnFails(c) \/ SpawnDone(c) \/ StartTally(c)
  BY <1>4 DEF StartRefused, LockPorts, BindPort, BindDone, CreateRuntime, SpawnFails, SpawnDone,
     StartTally
<1>5. CASE RecordPort(c) \/ BindFails(c) \/ RuntimeFails(c) \/ SpawnInstance(c)
  BY <1>1, <1>5 DEF RecordPort, BindFails, RuntimeFails, SpawnInstance, Unbind, Lifecycle!Work,
     Lifecycle!Active
<1>6. CASE StartFinish(c) \/ StartSucceeds(c)
  BY <1>1, <1>6 DEF StartFinish, StartSucceeds, Counted, Lifecycle!Started
<1>7. CASE StartFails(c)
  BY <1>1, <1>7 DEF StartFails, Counted, AllSpawnsFailed, Unbind, Lifecycle!StartFails
<1>8. QED
  BY <1>2, <1>3, <1>4, <1>5, <1>6, <1>7 DEF StartStep

\* Every step of stop maps to a life-cycle step or a stutter.
LEMMA StopRefines ==
  ASSUME IInv, NEW c \in Tasks, StopStep(c)
  PROVE  [Lifecycle!Next]_(Lifecycle!vars)
<1> USE DEF At, Goto, Return, SetState, resources, registry, Lifecycle!Next, Lifecycle!vars
<1>1. /\ svc \in ServiceState /\ instances \in Nat /\ HandleAt(pc[c])
  BY DEF IInv, TypeOK, HandleInStep
<1> USE DEF HandleAt, StartPcs, BindPcs, StopPcs, ScalePcs, ServiceState, Lifecycle!Move
<1>2. CASE StopRefused(c)
  BY <1>2 DEF StopRefused
<1>3. CASE StopBegin(c)
  BY <1>1, <1>3 DEF StopBegin, CanStop, Lifecycle!BeginStop, Lifecycle!CanStop
<1>4. CASE StopUnbind(c) \/ StopDrain(c)
  BY <1>1, <1>4 DEF StopUnbind, StopDrain, Unbind, Lifecycle!Work, Lifecycle!Active
<1>5. CASE StopFinish(c)
  BY <1>1, <1>5 DEF StopFinish, Lifecycle!Stopped
<1>6. QED
  BY <1>2, <1>3, <1>4, <1>5 DEF StopStep

\* Every step of scale maps to a life-cycle step or a stutter.
LEMMA ScaleRefines ==
  ASSUME IInv, NEW c \in Tasks, ScaleStep(c)
  PROVE  [Lifecycle!Next]_(Lifecycle!vars)
<1> USE DEF At, Goto, Return, resources, registry, Lifecycle!Next, Lifecycle!vars
<1>1. /\ svc \in ServiceState /\ instances \in Nat /\ HandleAt(pc[c])
  BY DEF IInv, TypeOK, HandleInStep
<1>2. CASE PopInstance(c)
  BY <1>1, <1>2 DEF PopInstance, HandleAt, ScalePcs, Lifecycle!Work, Lifecycle!Active
<1>3. CASE ~PopInstance(c)
  BY <1>1, <1>3 DEF ScaleStep, ScaleRefused, ScaleCheck, ScaleUp, ScaleDown, ShrinkDone,
     ScaleTally, ScaleFinish, ServiceState
<1>4. QED
  BY <1>2, <1>3

\* Deleting maps to the life cycle's Delete, everything else to a stutter.
LEMMA OtherRefines ==
  ASSUME IInv, NEW c \in Tasks,
         \/ Calls(c) \/ HangUp(c) \/ HangUpUnbinding(c) \/ RouteDone(c) \/ Enter(c)
         \/ NotFound(c) \/ DeleteStep(c) \/ SaveStep(c) \/ DetailStep(c)
  PROVE  [Lifecycle!Next]_(Lifecycle!vars)
<1> USE DEF resources, registry, Lifecycle!Next, Lifecycle!vars
<1>1. svc \in ServiceState
  BY DEF IInv, TypeOK
<1>2. CASE MarkDeleting(c)
  BY <1>1, <1>2 DEF MarkDeleting, SetState, CanDelete, ServiceState, Lifecycle!Move,
     Lifecycle!Delete, Lifecycle!CanDelete
<1>3. CASE ~MarkDeleting(c)
  BY <1>3 DEF HangUpUnbinding, Return, Calls, Call, HangUp, RouteDone, Enter, NotFound, DeleteStep, DeleteRefused,
     RemoveHandle, EraseRecord, SaveStep, Snapshot, Persist, DetailStep, ReadDetail, DetailDone
<1>4. QED
  BY <1>2, <1>3

\* The handle implements the service life cycle: whatever requests and hang-ups
\* interleave, each step is a legal move between service states and touches
\* instances or ports only while the service is active.
THEOREM Refinement == Spec => LifecycleSpec
<1>1. Init => Lifecycle!Init
  BY DEF Init, NewService, Lifecycle!Init
<1>2. IInv /\ [Next]_vars => [Lifecycle!Next]_(Lifecycle!vars)
  <2>1. ASSUME IInv, NEW c \in Tasks,
              Calls(c) \/ HangUp(c) \/ HangUpUnbinding(c) \/ RouteDone(c) \/ Progress(c)
        PROVE  [Lifecycle!Next]_(Lifecycle!vars)
    BY <2>1, StartRefines, StopRefines, ScaleRefines, OtherRefines DEF Progress
  <2>2. CASE UNCHANGED vars
    BY <2>2 DEF vars, Lifecycle!vars
  <2>3. QED
    BY <2>1, <2>2 DEF Next
<1>3. QED
  BY <1>1, <1>2, Invariant, PTL DEF Spec, LifecycleSpec, Lifecycle!Spec

-----------------------------------------------------------------------------
(* The books: ports, replica counts and record, when no client hangs up and *)
(* every record is written                                                  *)

\* While a changing request is served the others have no books open, so a step
\* of it keeps the books if it keeps its own, or closes them as it returns.
LEMMA OwnBooks ==
  ASSUME Core, NEW c \in Tasks, Move(c), pc[c] \in ActivePcs, frame[c].op \in Exclusive,
         \/ pc'[c] = "idle" /\ open' = bound' /\ CountsAgree' /\ Saved' /\ (~present' => store' = NoRecord)
         \/ pc'[c] \in ActivePcs /\ frame'[c].op = frame[c].op /\ BooksAt(frame[c], pc[c])'
  PROVE  Books'
<1>1. ASSUME NEW d \in Tasks \ {c}
      PROVE  d \notin InManager'
  BY <1>1, OthersWait, PcLiterals DEF Move, InManager
<1>2. CASE /\ pc'[c] = "idle" /\ open' = bound' /\ CountsAgree' /\ Saved'
           /\ ~present' => store' = NoRecord
  <2>1. InManager' = {}
    BY <1>1, <1>2, PcLiterals DEF InManager
  <2> QED BY <1>2, <2>1 DEF Books, BooksInStep, BooksClosed
<1>3. CASE pc'[c] \in ActivePcs /\ frame'[c].op = frame[c].op /\ BooksAt(frame[c], pc[c])'
  <2>1. ~Quiet'
    BY <1>3 DEF Quiet, InManager, Exclusive
  <2>2. BooksInStep'
    BY <1>1, <1>3 DEF BooksInStep, InManager
  <2> QED BY <2>1, <2>2 DEF Books, BooksClosed
<1> QED BY <1>2, <1>3

\* What a task that is changing the service may assume of the books.
LEMMA BooksOf ==
  ASSUME Core, Books, NEW c \in Tasks,
         pc[c] \in StartPcs \cup StopPcs \cup ScalePcs \cup DeletePcs \cup SavePcs
  PROVE  pc[c] \in ActivePcs /\ frame[c].op \in Exclusive /\ BooksAt(frame[c], pc[c])
BY DEF Core, RightOp, OpAt, Exclusive, ActivePcs, Books, BooksInStep, InManager

\* A request that enters finds the books closed, and opens them if it is one
\* that changes the service.
LEMMA EnterBooks ==
  ASSUME Core, Books, NEW c \in Tasks, Move(c), Enter(c)
  PROVE  Books'
<1> USE DEF At, Goto, resources, registry
<1>1. /\ pc[c] = "queued" /\ CanEnter(c) /\ present
      /\ pc'[c] = FirstPc(frame[c].op) /\ frame' = frame
      /\ UNCHANGED <<svc, instances, bound, open, present, store>>
      /\ frame[c].op \in Ops
      /\ \A d \in Tasks \ {c} : pc'[d] = pc[d]
  BY DEF Enter, Core, TypeOK, RightOp, OpAt, Move
<1>2. InManager' = InManager \cup {c} /\ c \notin InManager
  BY <1>1, FirstPcOp, PcLiterals DEF InManager
<1>3. CASE frame[c].op \in Exclusive
  <2>1. InManager = {}
    BY <1>1, <1>3 DEF CanEnter
  <2>2. open = bound /\ CountsAgree /\ Saved
    BY <2>1 DEF Books, BooksClosed, Quiet
  <2>3. pc'[c] \in {"start.created", "stop.begin", "scale.check", "delete.mark"}
    BY <1>1, <1>3 DEF Exclusive, FirstPc
  <2>4. BooksAt(frame[c], pc[c])'
    BY <1>1, <2>2, <2>3 DEF BooksAt, BindPcs, SavePcs, CountsAgree, Saved
  <2>5. ~Quiet'
    BY <1>1, <1>2, <1>3 DEF Quiet, Exclusive
  <2> QED BY <1>2, <2>1, <2>4, <2>5 DEF Books, BooksInStep, BooksClosed
<1>4. CASE frame[c].op \notin Exclusive
  <2>1. \A d \in InManager : frame[d].op \notin Exclusive
    BY <1>1, <1>4 DEF CanEnter
  <2>2. Quiet
    <3> SUFFICES ASSUME NEW d \in InManager PROVE frame[d].op \in {"detail", "route"}
      BY DEF Quiet
    <3>1. frame[d].op \in Ops
      BY PcLiterals DEF Core, RightOp, OpAt, InManager, ActivePcs, Ops, StartPcs, StopPcs,
         ScalePcs, DeletePcs, SavePcs, ReadPcs
    <3> QED BY <2>1, <3>1 DEF Ops, Exclusive
  <2>3. open = bound /\ CountsAgree /\ Saved
    BY <2>2 DEF Books, BooksClosed
  <2> QED BY <1>1, <1>2, <1>4, <2>1, <2>3
          DEF Books, BooksInStep, BooksClosed, CountsAgree, Saved
<1> QED BY <1>3, <1>4

\* A step outside the requests that change the service leaves the books alone.
LEMMA ReaderBooks ==
  ASSUME Core, Books, NEW c \in Tasks, Move(c),
         Calls(c) \/ RouteDone(c) \/ NotFound(c) \/ DetailStep(c)
  PROVE  Books'
<1> USE DEF At, Goto, Return, resources, registry
<1>1. UNCHANGED <<svc, instances, bound, open, present, store>>
  BY DEF Calls, Call, RouteDone, NotFound, DetailStep, ReadDetail, DetailDone
<1>2. pc[c] \in {"idle", "queued", "route.serve", "detail.read", "detail.lock"}
  BY DEF Calls, Call, RouteDone, NotFound, DetailStep, ReadDetail, DetailDone
<1>3. pc'[c] \in {"idle", "queued"} \/ (pc[c] = "detail.read" /\ frame'[c] = frame[c])
  BY DEF Core, TypeOK, Calls, Call, RouteDone, NotFound, DetailStep, ReadDetail, DetailDone
<1>4. c \in InManager => frame[c].op \in {"detail", "route"}
  BY <1>2, PcLiterals DEF InManager, Core, RightOp, OpAt, ReadPcs
<1>5. c \in InManager' => c \in InManager /\ frame'[c] = frame[c]
  BY <1>2, <1>3, PcLiterals DEF InManager
<1>6. \A d \in Tasks \ {c} : (d \in InManager' <=> d \in InManager) /\ frame'[d] = frame[d] /\ pc'[d] = pc[d]
  BY DEF Move, InManager
<1>7. Quiet' => Quiet
  BY <1>4, <1>5, <1>6 DEF Quiet, InManager
<1>8. BooksInStep'
  <2> SUFFICES ASSUME NEW d \in InManager', frame'[d].op \in Exclusive
               PROVE  BooksAt(frame[d], pc[d])'
    BY DEF BooksInStep
  <2>1. d \in Tasks /\ d # c
    BY <1>4, <1>5 DEF Exclusive, InManager
  <2>2. BooksAt(frame[d], pc[d]) /\ frame'[d] = frame[d] /\ pc'[d] = pc[d]
    BY <1>6, <2>1 DEF Books, BooksInStep
  <2> QED BY <1>1, <2>2 DEF BooksAt, CountsAgree, Saved
<1> QED BY <1>1, <1>7, <1>8 DEF Books, BooksClosed, CountsAgree, Saved

\* The steps of start keep the books: what is opened is noted down or closed
\* again, and what is spawned is counted.
LEMMA StartBooks ==
  ASSUME Core, Books, NEW c \in Tasks, StartStep(c), Move(c)
  PROVE  Books'
<1> USE DEF At, Goto, Return, resources, registry
<1>0. pc[c] \in StartPcs \cup {"scale.spawn"}
  BY DEF StartStep, LeaveCreating, StartRefused, StartBegin, LockPorts, BindPort, RecordPort,
     BindFails, BindDone, CreateRuntime, RuntimeFails, StartFinish, SpawnInstance, SpawnFails,
     SpawnDone, StartTally, StartSucceeds, StartFails, StartPcs, BindPcs
<1>1. pc[c] \in ActivePcs /\ frame[c].op \in Exclusive /\ BooksAt(frame[c], pc[c]) /\ HandleAt(pc[c])
  BY <1>0, BooksOf, ClaimsOf DEF ScalePcs
<1>2. /\ svc \in ServiceState /\ pc \in [Tasks -> Pcs] /\ frame \in [Tasks -> Frame]
      /\ instances \in Nat /\ bound \subseteq Ports /\ InactiveHoldsNothing /\ MinReplicas \in Nat
  BY ReplicaAssumption DEF Core, HandleInv, TypeOK
<1>3. frame[c] \in Frame /\ frame[c].left \in Nat /\ frame[c].errs \in Nat /\ frame[c].goal \in Nat
  BY <1>2, FrameUpdates
<1>4. /\ svc.desired \in Nat /\ svc.running \in Nat /\ svc.failed \in Nat
  BY <1>2 DEF ServiceState
<1>5. SUFFICES \/ /\ pc'[c] = "idle" /\ open' = bound' /\ CountsAgree' /\ Saved'
                  /\ ~present' => store' = NoRecord
               \/ /\ pc'[c] \in ActivePcs /\ frame'[c].op = frame[c].op
                  /\ BooksAt(frame[c], pc[c])'
  BY <1>1, OwnBooks
<1> USE PcLiterals DEF BooksAt, CountsAgree, Saved, BindPcs, SavePcs
<1>6. CASE LeaveCreating(c)
  BY <1>1, <1>2, <1>6 DEF LeaveCreating, ServiceState
<1>7. CASE StartRefused(c)
  BY <1>1, <1>2, <1>7 DEF StartRefused, CanStart
<1>8. CASE StartBegin(c)
  <2>1. instances = 0 /\ svc'.desired = MinReplicas /\ svc'.state = "starting"
    BY <1>2, <1>8 DEF StartBegin, CanStart, InactiveHoldsNothing, IsActive, ServiceState
  <2>2. frame'[c] = [frame[c] EXCEPT !.left = MinReplicas]
    BY <1>2, <1>8 DEF StartBegin
  <2>3. frame'[c].op = frame[c].op /\ frame'[c].left = MinReplicas
    BY <1>3, <2>2 DEF Frame
  <2>4. pc'[c] = IF IsCommand THEN "start.spawn" ELSE "ports.lock"
    BY <1>2, <1>8 DEF StartBegin
  <2>5. present' /\ open' = bound' /\ instances' = 0
    BY <1>1, <1>8, <2>1 DEF StartBegin
  <2> QED BY <1>2, <2>1, <2>3, <2>4, <2>5
<1>9. CASE LockPorts(c)
  BY <1>1, <1>2, <1>9 DEF LockPorts
<1>10. CASE BindPort(c)
  BY <1>1, <1>2, <1>3, <1>10 DEF BindPort, Frame
<1>11. CASE RecordPort(c)
  BY <1>1, <1>2, <1>3, <1>11 DEF RecordPort, Frame
<1>12. CASE BindFails(c)
  BY <1>1, <1>2, <1>12 DEF BindFails, Unbind, HandleAt, StartPcs
<1>13. CASE BindDone(c)
  BY <1>1, <1>2, <1>13 DEF BindDone
<1>14. CASE CreateRuntime(c)
  BY <1>1, <1>2, <1>14 DEF CreateRuntime
<1>15. CASE RuntimeFails(c)
  BY <1>1, <1>2, <1>15 DEF RuntimeFails, Unbind, HandleAt, StartPcs
<1>16. CASE StartFinish(c)
  BY <1>1, <1>2, <1>16 DEF StartFinish, ServiceState
<1>17. CASE SpawnInstance(c)
  <2>1. frame'[c] = [frame[c] EXCEPT !.left = frame[c].left - 1]
    BY <1>2, <1>17 DEF SpawnInstance
  <2>2. /\ frame'[c].op = frame[c].op /\ frame'[c].left = frame[c].left - 1
        /\ frame'[c].goal = frame[c].goal
    BY <1>3, <2>1 DEF Frame
  <2>3. instances' + frame'[c].left = instances + frame[c].left
    BY <1>2, <1>3, <1>17, <2>2 DEF SpawnInstance
  <2>4. /\ pc' = pc /\ UNCHANGED <<svc, bound, open, present, store>>
        /\ pc[c] \in {"start.spawn", "scale.spawn"}
    BY <1>17 DEF SpawnInstance
  <2> QED BY <1>1, <2>2, <2>3, <2>4
<1>18. CASE SpawnFails(c)
  <2>1. frame'[c] = [frame[c] EXCEPT !.left = frame[c].left - 1, !.errs = frame[c].errs + 1]
    BY <1>2, <1>18 DEF SpawnFails
  <2>2. /\ frame'[c].op = frame[c].op /\ frame'[c].left = frame[c].left - 1
        /\ frame'[c].goal = frame[c].goal
    BY <1>3, <2>1 DEF Frame
  <2>3. /\ pc' = pc /\ UNCHANGED <<svc, instances, bound, open, present, store>>
        /\ pc[c] \in {"start.spawn", "scale.spawn"}
    BY <1>18 DEF SpawnFails
  <2>4. /\ instances + frame[c].left <= svc.desired => instances + frame'[c].left <= svc.desired
        /\ instances + frame[c].left <= frame[c].goal => instances + frame'[c].left <= frame[c].goal
    BY <1>2, <1>3, <1>4, <2>2
  <2> QED BY <1>1, <2>2, <2>3, <2>4
<1>19. CASE SpawnDone(c)
  <2>1. /\ frame[c].left = 0 /\ pc[c] \in {"start.spawn", "scale.spawn"} /\ frame' = frame
        /\ pc'[c] = IF pc[c] = "start.spawn" THEN "start.tally" ELSE "scale.tally"
        /\ UNCHANGED <<svc, instances, bound, open, present, store>>
    BY <1>2, <1>19 DEF SpawnDone
  <2>2. instances + frame[c].left = instances
    BY <1>2, <2>1
  <2> QED BY <1>1, <2>1, <2>2
<1>20. CASE StartTally(c)
  BY <1>1, <1>2, <1>20 DEF StartTally
<1>21. CASE StartSucceeds(c)
  <2>1. /\ svc'.running = instances /\ svc'.desired = svc.desired /\ svc'.state = "running"
    BY <1>2, <1>3, <1>21 DEF StartSucceeds, Counted, ServiceState
  <2> QED BY <1>1, <1>2, <1>21, <2>1 DEF StartSucceeds
<1>22. CASE StartFails(c)
  <2>1. /\ svc'.running = 0 /\ svc'.desired = svc.desired /\ svc'.state = "failed"
        /\ svc'.error = TRUE /\ svc'.failed = frame[c].errs /\ frame[c].errs > 0 /\ instances = 0
    BY <1>2, <1>3, <1>22 DEF StartFails, Counted, AllSpawnsFailed, ServiceState
  <2> QED BY <1>1, <1>2, <1>4, <1>22, <2>1 DEF StartFails, Unbind
<1> QED
  BY <1>6, <1>7, <1>8, <1>9, <1>10, <1>11, <1>12, <1>13, <1>14, <1>15, <1>16, <1>17,
     <1>18, <1>19, <1>20, <1>21, <1>22 DEF StartStep

\* The steps of stop and of scale keep the books.
LEMMA StopBooks ==
  ASSUME Core, Books, NEW c \in Tasks, StopStep(c), Move(c)
  PROVE  Books'
<1> USE DEF At, Goto, Return, SetState, resources, registry
<1>0. pc[c] \in StopPcs
  BY DEF StopStep, StopRefused, StopBegin, StopUnbind, StopDrain, StopFinish, StopPcs
<1>1. pc[c] \in ActivePcs /\ frame[c].op \in Exclusive /\ BooksAt(frame[c], pc[c]) /\ HandleAt(pc[c])
  BY <1>0, BooksOf, ClaimsOf
<1>2. svc \in ServiceState /\ pc \in [Tasks -> Pcs] /\ svc.desired \in Nat
  BY DEF Core, TypeOK, ServiceState
<1>3. SUFFICES \/ /\ pc'[c] = "idle" /\ open' = bound' /\ CountsAgree' /\ Saved'
                  /\ ~present' => store' = NoRecord
               \/ /\ pc'[c] \in ActivePcs /\ frame'[c].op = frame[c].op
                  /\ BooksAt(frame[c], pc[c])'
  BY <1>1, OwnBooks
<1> USE PcLiterals DEF BooksAt, CountsAgree, Saved, BindPcs, SavePcs
<1>4. CASE StopRefused(c)
  BY <1>1, <1>2, <1>4 DEF StopRefused
<1>5. CASE StopBegin(c)
  BY <1>1, <1>2, <1>5 DEF StopBegin
<1>6. CASE StopUnbind(c)
  BY <1>1, <1>2, <1>6 DEF StopUnbind, Unbind
<1>7. CASE StopDrain(c)
  BY <1>1, <1>2, <1>7 DEF StopDrain
<1>8. CASE StopFinish(c)
  BY <1>1, <1>2, <1>8 DEF StopFinish, HandleAt, ServiceState
<1> QED BY <1>4, <1>5, <1>6, <1>7, <1>8 DEF StopStep

\* Scaling keeps the books: there are never more instances than asked for when
\* the counts are written.
LEMMA ScaleBooks ==
  ASSUME Core, Books, NEW c \in Tasks, ScaleStep(c), Move(c)
  PROVE  Books'
<1> USE DEF At, Goto, Return, resources, registry
<1>0. pc[c] \in ScalePcs
  BY DEF ScaleStep, ScaleRefused, ScaleCheck, ScaleUp, ScaleDown, PopInstance, ShrinkDone,
     ScaleTally, ScaleFinish, ScalePcs
<1>1. pc[c] \in ActivePcs /\ frame[c].op \in Exclusive /\ BooksAt(frame[c], pc[c]) /\ HandleAt(pc[c])
  BY <1>0, BooksOf, ClaimsOf
<1>2. /\ svc \in ServiceState /\ pc \in [Tasks -> Pcs] /\ frame \in [Tasks -> Frame]
      /\ instances \in Nat
  BY DEF Core, TypeOK
<1>3. frame[c] \in Frame /\ frame[c].left \in Nat /\ frame[c].goal \in Nat
  BY <1>2, FrameUpdates
<1>4. SUFFICES \/ /\ pc'[c] = "idle" /\ open' = bound' /\ CountsAgree' /\ Saved'
                  /\ ~present' => store' = NoRecord
               \/ /\ pc'[c] \in ActivePcs /\ frame'[c].op = frame[c].op
                  /\ BooksAt(frame[c], pc[c])'
  BY <1>1, OwnBooks
<1> USE PcLiterals DEF BooksAt, CountsAgree, Saved, BindPcs, SavePcs
<1>5. CASE ScaleRefused(c)
  BY <1>1, <1>2, <1>5 DEF ScaleRefused
<1>6. CASE ScaleCheck(c)
  BY <1>1, <1>2, <1>6 DEF ScaleCheck
<1>7. CASE ScaleUp(c)
  <2>1. frame'[c] = [frame[c] EXCEPT !.left = frame[c].goal - instances] /\ frame[c].goal > instances
    BY <1>2, <1>7 DEF ScaleUp
  <2>2. /\ frame'[c].op = frame[c].op /\ frame'[c].left = frame[c].goal - instances
        /\ frame'[c].goal = frame[c].goal
    BY <1>3, <2>1 DEF Frame
  <2>3. instances + frame'[c].left <= frame'[c].goal
    BY <1>2, <1>3, <2>1, <2>2
  <2> QED BY <1>1, <1>2, <1>7, <2>2, <2>3 DEF ScaleUp
<1>8. CASE ScaleDown(c)
  BY <1>1, <1>2, <1>8 DEF ScaleDown
<1>9. CASE PopInstance(c)
  BY <1>1, <1>2, <1>9 DEF PopInstance
<1>10. CASE ShrinkDone(c)
  BY <1>1, <1>2, <1>10 DEF ShrinkDone
<1>11. CASE ScaleTally(c)
  BY <1>1, <1>2, <1>11 DEF ScaleTally
<1>12. CASE ScaleFinish(c)
  <2>1. svc'.running = instances /\ svc'.desired = frame[c].goal /\ svc'.state = "running"
    BY <1>1, <1>2, <1>3, <1>12 DEF ScaleFinish, ServiceState, HandleAt, ScalePcs
  <2> QED BY <1>1, <1>2, <1>12, <2>1 DEF ScaleFinish
<1> QED
  BY <1>5, <1>6, <1>7, <1>8, <1>9, <1>10, <1>11, <1>12 DEF ScaleStep

\* Deleting erases the record of a service that is gone, and saving writes the
\* one the handle shows.
LEMMA DeleteAndSaveBooks ==
  ASSUME Core, Books, NEW c \in Tasks, DeleteStep(c) \/ SaveStep(c), Move(c)
  PROVE  Books'
<1> USE DEF At, Goto, Return, SetState, resources, registry
<1>0. pc[c] \in DeletePcs \cup SavePcs
  BY DEF DeleteStep, DeleteRefused, MarkDeleting, RemoveHandle, EraseRecord, SaveStep, Snapshot,
     Persist, DeletePcs, SavePcs
<1>1. pc[c] \in ActivePcs /\ frame[c].op \in Exclusive /\ BooksAt(frame[c], pc[c]) /\ HandleAt(pc[c])
  BY <1>0, BooksOf, ClaimsOf
<1>2. svc \in ServiceState /\ pc \in [Tasks -> Pcs] /\ frame \in [Tasks -> Frame] /\ frame[c] \in Frame
  BY DEF Core, TypeOK
<1>3. SUFFICES \/ /\ pc'[c] = "idle" /\ open' = bound' /\ CountsAgree' /\ Saved'
                  /\ ~present' => store' = NoRecord
               \/ /\ pc'[c] \in ActivePcs /\ frame'[c].op = frame[c].op
                  /\ BooksAt(frame[c], pc[c])'
  BY <1>1, OwnBooks
<1> USE PcLiterals DEF BooksAt, CountsAgree, Saved, BindPcs, SavePcs
<1>4. CASE DeleteRefused(c)
  BY <1>1, <1>2, <1>4 DEF DeleteRefused
<1>5. CASE MarkDeleting(c)
  BY <1>1, <1>2, <1>5 DEF MarkDeleting, ServiceState
<1>6. CASE RemoveHandle(c)
  BY <1>1, <1>2, <1>6 DEF RemoveHandle
<1>7. CASE EraseRecord(c)
  BY <1>1, <1>2, <1>7 DEF EraseRecord, HandleAt
<1>8. CASE Snapshot(c)
  BY <1>1, <1>2, <1>8 DEF Snapshot, Frame
<1>9. CASE Persist(c)
  BY <1>1, <1>2, <1>9 DEF Persist
<1> QED
  BY <1>4, <1>5, <1>6, <1>7, <1>8, <1>9 DEF DeleteStep, SaveStep

\* The books are kept as long as no client hangs up.
LEMMA BooksKept ==
  ASSUME ~Disconnects, IInv, Books, [Next]_vars
  PROVE  Books'
<1> USE DEF Core
<1>0. Core
  BY Parts
<1>1. ASSUME NEW c \in Tasks, StartStep(c) PROVE Books'
  BY <1>0, <1>1, StartMoves, StartBooks
<1>2. ASSUME NEW c \in Tasks, StopStep(c) PROVE Books'
  BY <1>0, <1>2, StopMoves, StopBooks
<1>3. ASSUME NEW c \in Tasks, ScaleStep(c) PROVE Books'
  BY <1>0, <1>3, ScaleMoves, ScaleBooks
<1>4. ASSUME NEW c \in Tasks, DeleteStep(c) \/ SaveStep(c) PROVE Books'
  BY <1>0, <1>4, OtherMoves, DeleteAndSaveBooks
<1>5. ASSUME NEW c \in Tasks, Enter(c) PROVE Books'
  BY <1>0, <1>5, OtherMoves, EnterBooks
<1>6. ASSUME NEW c \in Tasks, Calls(c) \/ RouteDone(c) \/ NotFound(c) \/ DetailStep(c)
      PROVE  Books'
  BY <1>0, <1>6, OtherMoves, ReaderBooks
<1>7. ASSUME NEW c \in Tasks, HangUp(c) \/ HangUpUnbinding(c) PROVE FALSE
  BY <1>7 DEF HangUp, HangUpUnbinding
<1>8. CASE UNCHANGED vars
  BY <1>8 DEF vars, Books, BooksInStep, BooksClosed, BooksAt, Quiet, InManager, CountsAgree, Saved
<1> QED
  BY <1>1, <1>2, <1>3, <1>4, <1>5, <1>6, <1>7, <1>8 DEF Next, Progress

\* A service just created has its books in order.
LEMMA BooksInitial == Init => Books
BY PcLiterals DEF Init, NewService, Books, BooksInStep, BooksClosed, InManager, CountsAgree, Saved

\* The books are in order in every reachable state.
THEOREM BooksInvariant ==
  ASSUME ~Disconnects
  PROVE  Spec => []Books
<1>1. IInv /\ Books /\ [Next]_vars => Books'
  BY BooksKept
<1> QED BY <1>1, BooksInitial, Invariant, PTL DEF Spec

\* Between changing requests the replica counts of a command service are those
\* of its instance vector, spawn failures included, and a failed service has an
\* error and failures to show.
THEOREM CountsAreKept ==
  ASSUME ~Disconnects
  PROVE  Spec => []ReplicaAccounting
<1>1. Books => ReplicaAccounting
  BY DEF Books, BooksClosed, CountsAgree, ReplicaAccounting
<1> QED BY <1>1, BooksInvariant, PTL

\* Between changing requests the state store holds what the handle holds, and no
\* record of a service that is gone.
THEOREM RecordIsCurrent ==
  ASSUME ~Disconnects
  PROVE  Spec => []StoreIsCurrent
<1>1. Books => StoreIsCurrent
  BY DEF Books, BooksClosed, Saved, StoreIsCurrent
<1> QED BY <1>1, BooksInvariant, PTL

\* Between changing requests the proxy listens on the ports the handle knows of
\* and on no other.
THEOREM NoPortLeaks ==
  ASSUME ~Disconnects
  PROVE  Spec => []NoLeakedPort
<1>1. Books => NoLeakedPort
  BY DEF Books, BooksClosed, NoLeakedPort
<1> QED BY <1>1, BooksInvariant, PTL

=============================================================================
