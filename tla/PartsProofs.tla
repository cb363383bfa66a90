---------------------------- MODULE PartsProofs -----------------------------
(***************************************************************************)
(* Proofs about the smaller parts of the system: the auto-scaler, the      *)
(* volume manager, the decision about connections, the local storage, the  *)
(* health monitor, the event bus, the log capture, the daemon's process    *)
(* and the runtime pool.  They share no state and each has a specification *)
(* and an inductive invariant of its own.                                  *)
(***************************************************************************)
EXTENDS AutoScaler, VolumeManager, Connection, LocalStorage, HealthMonitor, EventBus,
        LogCapture, Daemon, RuntimePool, FiniteSetTheorems, SequenceTheorems, TLAPS

-----------------------------------------------------------------------------
(* The auto-scaler.                                                         *)

ScalerTypes ==
  /\ spawned \in [Scalable -> Nat] /\ replicas \in [Scalable -> Nat]
  /\ tick \in [pc : {"idle", "next", "metrics", "bounds", "scale", "cool"},
               todo : SUBSET (Scalable \X Nat), svc : Scalable \cup {Nothing},
               current : Nat, up : BOOLEAN]
  /\ tick.pc \in {"metrics", "bounds", "scale", "cool"} => tick.svc \in Scalable

\* A tick about to scale has found its count, stale as it may be, on the
\* right side of the bound it moves towards.
ScaleIsBounded ==
  tick.pc = "scale" => IF tick.up THEN tick.current < MaxReplicas[tick.svc]
                       ELSE tick.current > MinReplicas

ScalerInv == ScalerTypes /\ ScaleIsBounded

\* A scale to some target leaves a natural number of instances: no more than
\* the target if it added some, the target itself if it took some away.
LEMMA Rescaled ==
  ASSUME ScalerTypes, NEW s \in Scalable, NEW target \in Nat, Rescale(s, target)
  PROVE  /\ spawned' \in [Scalable -> Nat] /\ replicas' \in [Scalable -> Nat]
         /\ \A x \in Scalable \ {s} : spawned'[x] = spawned[x]
         /\ spawned'[s] <= target
         /\ spawned'[s] < spawned[s] => spawned'[s] = target
<1>1. PICK n \in Resized(s, target) : spawned' = [spawned EXCEPT ![s] = n]
  BY DEF Rescale
<1>2. spawned[s] \in Nat
  BY DEF ScalerTypes
<1>3. n \in Nat /\ n <= target /\ (n < spawned[s] => n = target)
  BY <1>1, <1>2 DEF Resized
<1>4. spawned' \in [Scalable -> Nat] /\ spawned'[s] = n
  BY <1>1, <1>3 DEF ScalerTypes
<1>5. replicas' \in [Scalable -> Nat]
  BY <1>3, <1>4 DEF ScalerTypes, Rescale
<1>6. \A x \in Scalable \ {s} : spawned'[x] = spawned[x]
  BY <1>1 DEF ScalerTypes
<1> QED BY <1>3, <1>4, <1>5, <1>6

\* What the scaler's own scale does, whatever the count it goes by.
LEMMA ScaledInBounds ==
  ASSUME ScalerInv, ScaleService, NEW s \in Scalable, spawned'[s] # spawned[s]
  PROVE  /\ tick.up => spawned'[s] <= MaxReplicas[s]
         /\ (~tick.up /\ spawned'[s] < spawned[s]) => spawned'[s] >= MinReplicas
<1> DEFINE target == IF tick.up THEN tick.current + 1 ELSE tick.current - 1
<1>1. tick.pc = "scale" /\ tick.svc \in Scalable /\ tick.current \in Nat /\ tick.up \in BOOLEAN
  BY DEF ScalerInv, ScalerTypes, ScaleService
<1>2. Rescale(tick.svc, target)
  BY DEF ScaleService
<1>3. MinReplicas \in Nat /\ MaxReplicas[tick.svc] \in Nat
  BY <1>1, ScalerAssumption
<1>4. /\ target \in Nat
      /\ tick.up => target <= MaxReplicas[tick.svc]
      /\ ~tick.up => target >= MinReplicas
  BY <1>1, <1>3 DEF ScalerInv, ScaleIsBounded
<1> HIDE DEF target
<1>5. /\ spawned' \in [Scalable -> Nat]
      /\ \A x \in Scalable \ {tick.svc} : spawned'[x] = spawned[x]
      /\ spawned'[tick.svc] <= target
      /\ spawned'[tick.svc] < spawned[tick.svc] => spawned'[tick.svc] = target
  BY <1>1, <1>2, <1>4, Rescaled DEF ScalerInv
<1>6. s = tick.svc /\ spawned'[s] \in Nat
  BY <1>5
<1> QED BY <1>3, <1>4, <1>5, <1>6

\* Every step keeps the types and the bounds of the tick.
LEMMA ScalerStep ==
  ASSUME ScalerInv, [ScalerNext]_scalerVars
  PROVE  ScalerInv'
<1> USE DEF ScalerInv, ScalerTypes, ScaleIsBounded
<1>1. CASE UNCHANGED scalerVars
  BY <1>1 DEF scalerVars
<1>2. CASE \E s \in Scalable : StartScalable(s) \/ StopScalable(s)
  <2>1. MinReplicas \in Nat
    BY ScalerAssumption
  <2> QED BY <1>2, <2>1 DEF StartScalable, StopScalable
<1>3. CASE \E s \in Scalable : DeleteScalable(s) \/ RegisterMetrics(s) \/ UnregisterMetrics(s)
                               \/ Aggregate(s) \/ CooldownOver(s)
  BY <1>3 DEF DeleteScalable, RegisterMetrics, UnregisterMetrics, Aggregate, CooldownOver
<1>4. CASE \E s \in Scalable : \E target \in 0..MostReplicas : ScaleByUser(s, target)
  <2>1. PICK s \in Scalable, target \in 0..MostReplicas : ScaleByUser(s, target)
    BY <1>4
  <2>2. target \in Nat /\ Rescale(s, target) /\ tick' = tick
    BY <2>1, ScalerAssumption DEF ScaleByUser
  <2>3. spawned' \in [Scalable -> Nat] /\ replicas' \in [Scalable -> Nat]
    BY <2>2, Rescaled
  <2> QED BY <2>2, <2>3
<1>5. CASE AggregateAll \/ EnterMetrics
  BY <1>5 DEF AggregateAll, EnterMetrics
<1>6. CASE ScalableServices
  <2>1. {<<s, replicas[s]>> : s \in {x \in Scalable : phase[x] = "running"}}
          \in SUBSET (Scalable \X Nat)
    OBVIOUS
  <2> QED BY <1>6, <2>1 DEF ScalableServices, NoTick
<1>7. CASE CheckCooldown
  <2>1. CASE tick' = NoTick
    BY <1>7, <2>1 DEF CheckCooldown, NoTick
  <2>2. CASE \E entry \in tick.todo :
          tick' = [tick EXCEPT !.todo = @ \ {entry}, !.svc = entry[1], !.current = entry[2],
                               !.pc = IF entry[1] \in cooling THEN "next" ELSE "metrics"]
    <3>1. PICK entry \in tick.todo :
          tick' = [tick EXCEPT !.todo = @ \ {entry}, !.svc = entry[1], !.current = entry[2],
                               !.pc = IF entry[1] \in cooling THEN "next" ELSE "metrics"]
      BY <2>2
    <3>2. entry[1] \in Scalable /\ entry[2] \in Nat
      OBVIOUS
    <3> QED BY <1>7, <3>1, <3>2 DEF CheckCooldown
  <2> QED BY <1>7, <2>1, <2>2 DEF CheckCooldown
<1>8. CASE GetMetrics
  BY <1>8 DEF GetMetrics
<1>9. CASE CheckBounds
  <2>1. /\ tick.pc = "bounds" /\ tick.svc \in Scalable /\ tick.current \in Nat
        /\ MinReplicas \in Nat /\ MaxReplicas[tick.svc] \in Nat
    BY <1>9, ScalerAssumption DEF CheckBounds
  <2> DEFINE pc == IF phase[tick.svc] = "deleted" THEN "next"
                   ELSE IF tick.up /\ tick.current >= MaxReplicas[tick.svc] THEN "next"
                   ELSE IF ~tick.up /\ tick.current <= MinReplicas THEN "next"
                   ELSE "scale"
  <2>2. /\ tick' = [tick EXCEPT !.pc = pc]
        /\ pc \in {"next", "scale"}
        /\ pc = "scale" => /\ ~(tick.up /\ tick.current >= MaxReplicas[tick.svc])
                           /\ ~(~tick.up /\ tick.current <= MinReplicas)
    BY <1>9 DEF CheckBounds
  <2> HIDE DEF pc
  <2>3. tick'.pc = pc /\ tick'.svc = tick.svc /\ tick'.current = tick.current /\ tick'.up = tick.up
    BY <2>2
  <2>4. ScaleIsBounded'
    BY <2>1, <2>2, <2>3
  <2> QED BY <1>9, <2>1, <2>2, <2>4 DEF CheckBounds
<1>10. CASE ScaleService
  <2>1. tick'.pc # "scale" /\ ScaleIsBounded'
    BY <1>10 DEF ScaleService
  <2>2. tick.svc \in Scalable /\ tick.current \in Nat /\ MinReplicas \in Nat
    BY <1>10, ScalerAssumption DEF ScaleService
  <2>3. CASE phase[tick.svc] = "running"
    <3> DEFINE target == IF tick.up THEN tick.current + 1 ELSE tick.current - 1
    <3>1. target \in Nat /\ Rescale(tick.svc, target)
      BY <1>10, <2>2, <2>3 DEF ScaleService
    <3> HIDE DEF target
    <3>2. spawned' \in [Scalable -> Nat] /\ replicas' \in [Scalable -> Nat]
      BY <2>2, <3>1, Rescaled
    <3> QED BY <1>10, <2>1, <2>2, <2>3, <3>2 DEF ScaleService
  <2> QED BY <1>10, <2>1, <2>2, <2>3 DEF ScaleService
<1>11. CASE SetCooldown
  BY <1>11 DEF SetCooldown
<1> QED BY <1>1, <1>2, <1>3, <1>4, <1>5, <1>6, <1>7, <1>8, <1>9, <1>10, <1>11 DEF ScalerNext

\* The scaler starts with nothing spawned and no tick under way.
LEMMA ScalerStart ==
  ASSUME ScalerInit
  PROVE  ScalerInv
BY DEF ScalerInit, NoTick, ScalerInv, ScalerTypes, ScaleIsBounded

\* Only the scaler's own step takes a tick past the point where it scales.
LEMMA OnlyScaleService ==
  ASSUME ScalerNext, tick.pc = "scale", tick'.pc # "scale"
  PROVE  ScaleService
BY DEF ScalerNext, StartScalable, StopScalable, DeleteScalable, ScaleByUser, RegisterMetrics,
       UnregisterMetrics, Aggregate, CooldownOver, AggregateAll, EnterMetrics,
       ScalableServices, CheckCooldown, GetMetrics, CheckBounds, SetCooldown

\* Whatever users did since its tick began, and however many instances they
\* asked for, the scaler adds instances only up to the maximum and takes them
\* away only down to the minimum.
THEOREM ScalerKeepsBounds == ScalerSpec => ScalerStaysInBounds
<1>1. ScalerInit => ScalerInv
  BY ScalerStart
<1>2. ScalerInv /\ [ScalerNext]_scalerVars => ScalerInv'
  BY ScalerStep
<1>3. ScalerInv /\ [ScalerNext]_scalerVars =>
        [\A s \in Scalable :
           (tick.pc = "scale" /\ tick'.pc # "scale" /\ spawned'[s] # spawned[s]) =>
             /\ tick.up => spawned'[s] <= MaxReplicas[s]
             /\ (~tick.up /\ spawned'[s] < spawned[s]) => spawned'[s] >= MinReplicas]_scalerVars
  BY OnlyScaleService, ScaledInBounds
<1> QED BY <1>1, <1>2, <1>3, PTL DEF ScalerSpec, ScalerStaysInBounds

-----------------------------------------------------------------------------
(* The volume manager.                                                      *)

VolumeRecord == [name : VolumeNames, mounts : SUBSET Users]
VolumeTypes ==
  /\ DOMAIN volumes \subseteq VolumeIds /\ volumes \in [DOMAIN volumes -> VolumeRecord]
  /\ DOMAIN records \subseteq VolumeIds /\ records \in [DOMAIN records -> VolumeRecord]
  /\ calls \in [Callers -> [pc : {"idle", "create", "delete"}, id : VolumeIds \cup {NoVolume},
                            name : VolumeNames \cup {NoVolume}]]
  /\ \A c \in Callers : /\ calls[c].pc = "create" => calls[c].name \in VolumeNames
                        /\ calls[c].pc = "delete" => calls[c].id \in VolumeIds
  /\ change \in [pc : {"idle", "persist", "insert", "forget", "remove"},
                 id : VolumeIds \cup {NoVolume}, name : VolumeNames \cup {NoVolume}]

\* A create that has the lock has a new id and a name that no volume has.
CreateIsNew ==
  change.pc \in {"persist", "insert"} =>
    /\ change.id \in VolumeIds \ DOMAIN volumes /\ change.name \in VolumeNames
    /\ Named(change.name) = {}
    /\ change.pc = "persist" => change.id \notin DOMAIN records

\* A delete that has the lock has a volume that nobody mounts, and one that
\* is past its record has none.
DeleteIsUnmounted ==
  change.pc \in {"forget", "remove"} =>
    /\ change.id \in DOMAIN volumes /\ volumes[change.id].mounts = {}
    /\ change.pc = "remove" => change.id \notin DOMAIN records

\* If the daemon loads its records when it starts, a record is that of a
\* volume of the map, or of the one a create is about to insert.
RecordsFollow ==
  loads => \A v \in DOMAIN records :
    \/ v \in DOMAIN volumes /\ volumes[v].name = records[v].name
    \/ change.pc = "insert" /\ v = change.id /\ records[v].name = change.name

VolumesInv ==
  VolumeTypes /\ VolumeNamesUnique /\ CreateIsNew /\ DeleteIsUnmounted /\ RecordsFollow

\* The manager starts without volumes, directories and records.
LEMMA VolumesStart ==
  ASSUME VolumesInit
  PROVE  VolumesInv
BY DEF VolumesInit, NoCall, None, VolumesInv, VolumeTypes, VolumeRecord, VolumeNamesUnique,
       CreateIsNew, DeleteIsUnmounted, RecordsFollow

\* Records that follow the map have different names, so a daemon that is
\* killed and loads them starts with different names.
LEMMA KillKeepsVolumes ==
  ASSUME VolumesInv, KillDaemon
  PROVE  VolumesInv'
<1> USE DEF VolumesInv
<1>1. calls' = [c \in Callers |-> NoCall] /\ change' = NoCall /\ records' = records /\ loads' = loads
  BY DEF KillDaemon
<1>2. CreateIsNew' /\ DeleteIsUnmounted'
  BY <1>1 DEF CreateIsNew, DeleteIsUnmounted, NoCall
<1>3. CASE loads
  <2>1. volumes' = records
    BY <1>3 DEF KillDaemon
  <2>2. \A v, w \in DOMAIN records : records[v].name = records[w].name => v = w
    <3> SUFFICES ASSUME NEW v \in DOMAIN records, NEW w \in DOMAIN records,
                        records[v].name = records[w].name
                 PROVE  v = w
      OBVIOUS
    <3> QED BY <1>3 DEF RecordsFollow, VolumeNamesUnique, CreateIsNew, Named
  <2>3. VolumeNamesUnique' /\ RecordsFollow'
    BY <1>1, <2>1, <2>2 DEF VolumeNamesUnique, RecordsFollow
  <2>4. VolumeTypes'
    BY <1>1, <2>1 DEF VolumeTypes, NoCall
  <2> QED BY <1>2, <2>3, <2>4
<1>4. CASE ~loads
  <2>1. volumes' = None
    BY <1>4 DEF KillDaemon
  <2>2. VolumeNamesUnique' /\ RecordsFollow'
    BY <1>1, <1>4, <2>1 DEF VolumeNamesUnique, RecordsFollow, None
  <2>3. VolumeTypes'
    BY <1>1, <2>1 DEF VolumeTypes, NoCall, None
  <2> QED BY <1>2, <2>2, <2>3
<1> QED BY <1>3, <1>4

\* mount_volume and unmount_volume leave the names alone.
LEMMA MountKeepsVolumes ==
  ASSUME VolumesInv, NEW v \in VolumeIds, NEW mounts \in SUBSET Users, SetMounts(v, mounts)
  PROVE  VolumesInv'
<1> USE DEF VolumesInv
<1>1. /\ v \in DOMAIN volumes /\ change.pc = "idle"
      /\ calls' = calls /\ change' = change /\ loads' = loads
      /\ volumes' = [volumes EXCEPT ![v].mounts = mounts]
  BY DEF SetMounts, Unlocked
<1>2. /\ DOMAIN volumes' = DOMAIN volumes /\ volumes' \in [DOMAIN volumes -> VolumeRecord]
      /\ \A x \in DOMAIN volumes : volumes'[x].name = volumes[x].name
  BY <1>1 DEF VolumeTypes, VolumeRecord
<1>3. /\ DOMAIN records' \subseteq VolumeIds /\ records' \in [DOMAIN records' -> VolumeRecord]
      BY <1>1, <1>2 DEF SetMounts, VolumeTypes
<1>4. \A x \in DOMAIN records' : \/ x = v /\ records'[x] = volumes'[x]
                                 \/ x \in DOMAIN records /\ records'[x] = records[x]
  <2>1. CASE records' = records
    BY <2>1
  <2>2. CASE records' = [x \in DOMAIN records \cup {v} |->
                           IF x = v THEN volumes'[v] ELSE records[x]]
    BY ONLY <2>2
  <2> QED BY <2>1, <2>2 DEF SetMounts
<1>5. VolumeNamesUnique' /\ CreateIsNew' /\ DeleteIsUnmounted'
  BY <1>1, <1>2 DEF VolumeNamesUnique, CreateIsNew, DeleteIsUnmounted
<1>6. RecordsFollow'
  BY <1>1, <1>2, <1>4 DEF RecordsFollow
<1>7. VolumeTypes'
  BY <1>1, <1>2, <1>3 DEF VolumeTypes
<1> QED BY <1>5, <1>6, <1>7

\* The steps of a create.
LEMMA CreateKeepsVolumes ==
  ASSUME VolumesInv, PersistNew \/ InsertNew \/ \E c \in Callers : CreateDir(c)
  PROVE  VolumesInv'
<1> USE DEF VolumesInv
<1>1. CASE \E c \in Callers : CreateDir(c)
  <2>1. PICK c \in Callers : CreateDir(c)
    BY <1>1
  <2>2. /\ calls[c].pc = "create" /\ calls[c].name \in VolumeNames /\ change.pc = "idle"
        /\ calls' = [calls EXCEPT ![c] = NoCall]
        /\ volumes' = volumes /\ records' = records /\ loads' = loads
    BY <2>1 DEF CreateDir, Unlocked, VolumeTypes
  <2>3. \/ change' = change
        \/ /\ Named(calls[c].name) = {}
           /\ \E v \in VolumeIds \ (DOMAIN volumes \cup DOMAIN records) :
                change' = [pc |-> "persist", id |-> v, name |-> calls[c].name]
    BY <2>1 DEF CreateDir, Existing
  <2>4. VolumeTypes'
    BY <2>2, <2>3 DEF VolumeTypes, NoCall
  <2>5. VolumeNamesUnique' /\ RecordsFollow' /\ DeleteIsUnmounted' /\ CreateIsNew'
    BY <2>2, <2>3 DEF VolumeNamesUnique, RecordsFollow, DeleteIsUnmounted, CreateIsNew, Named
  <2> QED BY <2>4, <2>5
<1>2. CASE PersistNew
  <2>1. /\ change.pc = "persist" /\ change.id \in VolumeIds \ DOMAIN volumes
        /\ change.id \notin DOMAIN records /\ change.name \in VolumeNames
        /\ volumes' = volumes /\ calls' = calls /\ loads' = loads
    BY <1>2 DEF PersistNew, CreateIsNew
  <2>2. CASE change' = NoCall /\ records' = records
    BY <2>1, <2>2 DEF VolumeTypes, NoCall, VolumeNamesUnique, RecordsFollow,
                      DeleteIsUnmounted, CreateIsNew
  <2>3. CASE /\ records' = [v \in DOMAIN records \cup {change.id} |->
                              IF v = change.id THEN Volume(change.name) ELSE records[v]]
             /\ change' = [change EXCEPT !.pc = "insert"]
    <3>1. Volume(change.name) \in VolumeRecord /\ Volume(change.name).name = change.name
      BY <2>1 DEF Volume, VolumeRecord
    <3>2. change'.pc = "insert" /\ change'.id = change.id /\ change'.name = change.name
      BY <2>3 DEF VolumeTypes
    <3>3. VolumeTypes'
      BY <2>1, <2>3, <3>1 DEF VolumeTypes
    <3>4. RecordsFollow'
      BY <2>1, <2>3, <3>1, <3>2 DEF RecordsFollow
    <3>5. VolumeNamesUnique' /\ DeleteIsUnmounted' /\ CreateIsNew'
      BY <2>1, <3>2 DEF VolumeNamesUnique, DeleteIsUnmounted, CreateIsNew, Named
    <3> QED BY <3>3, <3>4, <3>5
  <2> QED BY <1>2, <2>2, <2>3 DEF PersistNew
<1>3. CASE InsertNew
  <2>1. /\ change.id \in VolumeIds \ DOMAIN volumes /\ change.name \in VolumeNames
        /\ Named(change.name) = {} /\ change' = NoCall
        /\ records' = records /\ calls' = calls /\ loads' = loads
        /\ volumes' = [v \in DOMAIN volumes \cup {change.id} |->
                         IF v = change.id THEN Volume(change.name) ELSE volumes[v]]
    BY <1>3 DEF InsertNew, CreateIsNew
  <2>2. Volume(change.name) \in VolumeRecord /\ Volume(change.name).name = change.name
    BY <2>1 DEF Volume, VolumeRecord
  <2>3. VolumeTypes'
    BY <2>1, <2>2 DEF VolumeTypes, NoCall
  <2>4. VolumeNamesUnique'
    BY <2>1, <2>2 DEF VolumeNamesUnique, Named
  <2>5. RecordsFollow'
    BY <2>1, <2>2 DEF RecordsFollow, NoCall
  <2>6. DeleteIsUnmounted' /\ CreateIsNew'
    BY <2>1 DEF DeleteIsUnmounted, CreateIsNew, NoCall
  <2> QED BY <2>3, <2>4, <2>5, <2>6
<1> QED BY <1>1, <1>2, <1>3

\* The steps of a delete.
LEMMA DeleteKeepsVolumes ==
  ASSUME VolumesInv, RemoveRecord \/ RemoveVolume \/ \E c \in Callers : RemoveDir(c)
  PROVE  VolumesInv'
<1> USE DEF VolumesInv
<1>1. CASE \E c \in Callers : RemoveDir(c)
  <2>1. PICK c \in Callers : RemoveDir(c)
    BY <1>1
  <2>2. /\ change.pc = "idle" /\ calls' = [calls EXCEPT ![c] = NoCall]
        /\ volumes' = volumes /\ records' = records /\ loads' = loads
    BY <2>1 DEF RemoveDir, Unlocked
  <2>3. \/ change' = change
        \/ /\ calls[c].id \in DOMAIN volumes /\ volumes[calls[c].id].mounts = {}
           /\ change' = [pc |-> "forget", id |-> calls[c].id, name |-> NoVolume]
    BY <2>1 DEF RemoveDir, IsMounted
  <2>4. change' \in [pc : {"idle", "persist", "insert", "forget", "remove"},
                     id : VolumeIds \cup {NoVolume}, name : VolumeNames \cup {NoVolume}]
    BY <2>3 DEF VolumeTypes
  <2>5. VolumeTypes'
    <3>1. /\ calls' \in [Callers -> [pc : {"idle", "create", "delete"},
                             id : VolumeIds \cup {NoVolume}, name : VolumeNames \cup {NoVolume}]]
          /\ \A d \in Callers : calls'[d] = calls[d] \/ calls'[d].pc = "idle"
      BY <2>2 DEF VolumeTypes, NoCall
    <3> QED BY <2>2, <2>4, <3>1 DEF VolumeTypes
  <2>6. VolumeNamesUnique' /\ RecordsFollow' /\ DeleteIsUnmounted' /\ CreateIsNew'
    BY <2>2, <2>3 DEF VolumeNamesUnique, RecordsFollow, DeleteIsUnmounted, CreateIsNew
  <2> QED BY <2>5, <2>6
<1>2. CASE RemoveRecord
  <2>1. /\ change.pc = "forget" /\ change.id \in DOMAIN volumes /\ volumes[change.id].mounts = {}
        /\ volumes' = volumes /\ calls' = calls /\ loads' = loads
    BY <1>2 DEF RemoveRecord, DeleteIsUnmounted
  <2>2. CASE change' = NoCall /\ records' = records
    BY <2>1, <2>2 DEF VolumeTypes, NoCall, VolumeNamesUnique, RecordsFollow,
                      DeleteIsUnmounted, CreateIsNew
  <2>3. CASE /\ records' = Restrict(records, DOMAIN records \ {change.id})
             /\ change' = [change EXCEPT !.pc = "remove"]
    <3>1. records' = [v \in DOMAIN records \ {change.id} |-> records[v]]
      BY <2>3 DEF Restrict
    <3>2. change'.pc = "remove" /\ change'.id = change.id
      BY <2>3 DEF VolumeTypes
    <3>3. VolumeTypes'
      BY <2>1, <2>3, <3>1 DEF VolumeTypes
    <3>4. VolumeNamesUnique' /\ RecordsFollow' /\ DeleteIsUnmounted' /\ CreateIsNew'
      BY <2>1, <3>1, <3>2 DEF VolumeNamesUnique, RecordsFollow, DeleteIsUnmounted, CreateIsNew
    <3> QED BY <3>3, <3>4
  <2> QED BY <1>2, <2>2, <2>3 DEF RemoveRecord
<1>3. CASE RemoveVolume
  <2>1. /\ change.id \in DOMAIN volumes /\ change.id \notin DOMAIN records
        /\ change.pc = "remove" /\ change' = NoCall
        /\ volumes' = [v \in DOMAIN volumes \ {change.id} |-> volumes[v]]
        /\ records' = records /\ calls' = calls /\ loads' = loads
    BY <1>3 DEF RemoveVolume, DeleteIsUnmounted, Restrict
  <2>2. VolumeTypes'
    BY <2>1 DEF VolumeTypes, NoCall
  <2>3. VolumeNamesUnique' /\ RecordsFollow' /\ DeleteIsUnmounted' /\ CreateIsNew'
    BY <2>1 DEF VolumeNamesUnique, RecordsFollow, DeleteIsUnmounted, CreateIsNew, NoCall
  <2> QED BY <2>2, <2>3
<1> QED BY <1>1, <1>2, <1>3

\* Every step keeps the invariant.
LEMMA VolumesStep ==
  ASSUME VolumesInv, [VolumesNext]_volumeVars
  PROVE  VolumesInv'
<1>1. CASE UNCHANGED volumeVars
  BY <1>1 DEF volumeVars, VolumesInv, VolumeTypes, VolumeNamesUnique, CreateIsNew,
              DeleteIsUnmounted, RecordsFollow, Named
<1>2. CASE \E c \in Callers : (\E name \in VolumeNames : EnsureVolume(c, name))
                              \/ (\E v \in VolumeIds : ResolveVolume(c, v))
  <2>1. UNCHANGED <<volumes, records, change, loads>>
    BY <1>2 DEF EnsureVolume, ResolveVolume
  <2>2. PICK c \in Callers, call \in [pc : {"create", "delete"}, id : VolumeIds \cup {NoVolume},
                                      name : VolumeNames \cup {NoVolume}] :
           /\ calls' = [calls EXCEPT ![c] = call]
           /\ call.pc = "create" => call.name \in VolumeNames
           /\ call.pc = "delete" => call.id \in VolumeIds
    <3>1. CASE \E c \in Callers : \E name \in VolumeNames : EnsureVolume(c, name)
      <4>1. PICK c \in Callers, name \in VolumeNames : EnsureVolume(c, name)
        BY <3>1
      <4> DEFINE call == [NoCall EXCEPT !.pc = "create", !.name = name]
      <4>2. /\ call \in [pc : {"create", "delete"}, id : VolumeIds \cup {NoVolume},
                         name : VolumeNames \cup {NoVolume}]
            /\ call.pc = "create" /\ call.name = name
        BY DEF NoCall
      <4>3. calls' = [calls EXCEPT ![c] = call]
        BY <4>1 DEF EnsureVolume
      <4> HIDE DEF call
      <4> QED BY <4>2, <4>3
    <3>2. CASE \E c \in Callers : \E v \in VolumeIds : ResolveVolume(c, v)
      <4>1. PICK c \in Callers, v \in VolumeIds : ResolveVolume(c, v)
        BY <3>2
      <4> DEFINE call == [NoCall EXCEPT !.pc = "delete", !.id = v]
      <4>2. /\ call \in [pc : {"create", "delete"}, id : VolumeIds \cup {NoVolume},
                         name : VolumeNames \cup {NoVolume}]
            /\ call.pc = "delete" /\ call.id = v
        BY DEF NoCall
      <4>3. calls' = [calls EXCEPT ![c] = call]
        BY <4>1 DEF ResolveVolume
      <4> HIDE DEF call
      <4> QED BY <4>2, <4>3
    <3> QED BY <1>2, <3>1, <3>2
  <2>3. VolumeTypes'
    BY <2>1, <2>2 DEF VolumesInv, VolumeTypes
  <2> QED BY <2>1, <2>3 DEF VolumesInv, VolumeNamesUnique, CreateIsNew, DeleteIsUnmounted,
                            RecordsFollow, Named
<1>3. CASE \E v \in VolumeIds, u \in Users : Mount(v, u) \/ Unmount(v, u)
  <2>1. PICK v \in VolumeIds, u \in Users : Mount(v, u) \/ Unmount(v, u)
    BY <1>3
  <2>2. v \in DOMAIN volumes /\ volumes[v].mounts \in SUBSET Users
    BY <2>1 DEF Mount, Unmount, VolumesInv, VolumeTypes, VolumeRecord
  <2>3. volumes[v].mounts \cup {u} \in SUBSET Users /\ volumes[v].mounts \ {u} \in SUBSET Users
    BY <2>2
  <2> QED BY <2>1, <2>3, MountKeepsVolumes DEF Mount, Unmount
<1> QED BY <1>1, <1>2, <1>3, CreateKeepsVolumes, DeleteKeepsVolumes, KillKeepsVolumes
        DEF VolumesNext

\* No two volumes of the map have the same name, for any ids, names, callers
\* and users: although ensure_volume looks for a name and creates the volume
\* under two locks, steps fail, and the daemon is killed and loads its records.
THEOREM VolumesKeepTheirNames == VolumesSpec => []VolumeNamesUnique
<1>1. VolumesInit => VolumesInv
  BY VolumesStart
<1>2. VolumesInv /\ [VolumesNext]_volumeVars => VolumesInv'
  BY VolumesStep
<1>3. VolumesInv => VolumeNamesUnique
  BY DEF VolumesInv
<1> QED BY <1>1, <1>2, <1>3, PTL DEF VolumesSpec

\* A delete neither removes the directory of a mounted volume nor forgets it,
\* whenever it resolved its name.
THEOREM MountedVolumesStay == VolumesSpec => MountedStays
<1>1. VolumesInit => VolumesInv
  BY VolumesStart
<1>2. VolumesInv /\ [VolumesNext]_volumeVars => VolumesInv'
  BY VolumesStep
<1>3. ASSUME VolumesInv, VolumesNext, NEW v \in DOMAIN volumes, volumes[v].mounts # {}
      PROVE  (v \in dirs => v \in dirs') /\ (~KillDaemon => v \in DOMAIN volumes')
  <2>1. change.pc = "remove" => v # change.id
    BY <1>3 DEF VolumesInv, DeleteIsUnmounted
  <2>2. v \in dirs => v \in dirs'
    BY <1>3 DEF VolumesNext, EnsureVolume, ResolveVolume, CreateDir, RemoveDir, IsMounted,
                PersistNew, InsertNew, RemoveRecord, RemoveVolume, Mount, Unmount, SetMounts,
                KillDaemon
  <2>3. ~KillDaemon => v \in DOMAIN volumes'
    BY <1>3, <2>1 DEF VolumesNext, EnsureVolume, ResolveVolume, CreateDir, RemoveDir,
                PersistNew, InsertNew, RemoveRecord, RemoveVolume, Mount, Unmount, SetMounts,
                Restrict
  <2> QED BY <2>2, <2>3
<1>4. VolumesInv /\ [VolumesNext]_volumeVars =>
        [\A v \in DOMAIN volumes :
           volumes[v].mounts # {} =>
             /\ v \in dirs => v \in dirs'
             /\ ~KillDaemon => v \in DOMAIN volumes']_volumeVars
  BY <1>3
<1> QED BY <1>1, <1>2, <1>4, PTL DEF VolumesSpec, MountedStays

-----------------------------------------------------------------------------
(* The decision about a connection.                                         *)

Hosts == Outside \cup {NameOfId[s] : s \in Clients}

RequestTypes ==
  /\ registered \subseteq Clients
  /\ request \in [pc : {"idle", "resolve", "share", "project", "policy", "allowed", "refused"},
                  from : Clients \cup {Nobody}, host : Hosts \cup {Nobody},
                  to : Targets \cup {Nobody}, mortar : Mortars \cup {Nobody}]
  /\ request.pc # "idle" => request.from \in Clients /\ request.host \in Hosts

\* Services are mapped to the project they are members of, and so are those
\* that a load is about to map.
ProjectsKnown ==
  /\ \A s \in DOMAIN mortarOf : mortarOf[s] \in Mortars /\ s \in Members[mortarOf[s]]
  /\ \A l \in Loaders : policyLoads[l].pc = "map" =>
       /\ policyLoads[l].mortar \in Mortars
       /\ policyLoads[l].services \subseteq Members[policyLoads[l].mortar]

\* What the steps taken so far have ruled out: the capabilities name the
\* target, the services have shared a network, and the project whose policy
\* is to be asked is that of the service.
RequestProgress ==
  /\ request.pc \in {"resolve", "share", "project", "policy", "allowed"} =>
       Granted(request.from, request.host)
  /\ request.pc = "resolve" => request.to = External(request.host)
  /\ request.pc = "share" => request.to \in Clients /\ NameOfId[request.to] = request.host
  /\ request.pc \in {"project", "policy", "allowed"} =>
       /\ \/ request.to = External(request.host)
          \/ request.to \in Clients /\ NameOfId[request.to] = request.host
       /\ <<"network", request.to>> \notin reasons
  /\ request.pc = "policy" => /\ request.mortar \in Mortars
                              /\ request.from \in Members[request.mortar]
  /\ request.pc = "allowed" => <<"policy", request.to>> \notin reasons

\* The history holds only what is against the connection now.
ReasonsStand == reasons \subseteq Against(request.from)

ConnectionInv == RequestTypes /\ ProjectsKnown /\ RequestProgress /\ ReasonsStand

\* There is no request at first.
LEMMA ConnectionStart ==
  ASSUME ConnectionInit
  PROVE  ConnectionInv
BY DEF ConnectionInit, NoRequest, NotLoadingPolicy, ConnectionInv, RequestTypes, ProjectsKnown,
       RequestProgress, ReasonsStand

\* The two ways to look for a service in a list say the same, so the policy
\* engine denies what a policy in force denies.
LEMMA EngineAgrees ==
  ASSUME NEW m, NEW from, NEW to, from \in DOMAIN mortarOf, mortarOf[from] = m,
         m \in DOMAIN policies, InForce(from, to)
  PROVE  PolicyDenies(policies[m], from, to)
<1> DEFINE policy == policies[m]
           Lists(list, x) == \/ AnyHost \in list \/ x \in list
                             \/ x \in policy.services /\ NameOfId[x] \in list
<1>1. \E rule \in policy.deny :
        /\ rule.from # Nobody => Lists(rule.from, from)
        /\ rule.to # Nobody => Lists(rule.to, to)
        /\ rule.except # Nobody => ~Lists(rule.except, from) /\ ~Lists(rule.except, to)
  BY DEF InForce
<1>2. \A list, x : MatchesService(list, x, policy) <=> Lists(list, x)
  BY DEF MatchesService
<1>3. \A list, x : MatchesTarget(list, x, policy) <=> Lists(list, x)
  BY DEF MatchesTarget
<1> HIDE DEF policy, Lists
<1>4. PolicyDenies(policy, from, to)
  BY <1>1, <1>2, <1>3 DEF PolicyDenies, MatchesDenyRule
<1> QED BY <1>4 DEF policy

\* The reasons only shrink while a request is under way, and stand.
LEMMA ReasonsShrink ==
  ASSUME ConnectionInv, ConnectionNext
  PROVE  /\ ReasonsStand'
         /\ request.pc # "idle" => reasons' \subseteq reasons
BY DEF ConnectionNext, ReasonsStand

\* Policies are loaded and unloaded, services join and leave: the request
\* stays, and whatever is mapped to a project is a member of it.
LEMMA SettingsStep ==
  ASSUME ConnectionInv, ConnectionNext, request' = request, registered' \subseteq Clients,
         ProjectsKnown'
  PROVE  ConnectionInv'
<1>1. RequestTypes'
  BY DEF ConnectionInv, RequestTypes
<1>2. ReasonsStand' /\ (request.pc # "idle" => reasons' \subseteq reasons)
  BY ReasonsShrink
<1>3. RequestProgress'
  BY <1>2 DEF ConnectionInv, RequestProgress
<1> QED BY <1>1, <1>2, <1>3 DEF ConnectionInv

LoadStep ==
  \E l \in Loaders :
    \/ \E m \in Mortars :
         \/ \E deny \in Rules, services \in SUBSET Members[m] : LoadPolicies(l, m, deny, services)
         \/ UnloadPolicies(l, m)
    \/ MapServices(l) \/ UnmapServices(l)

MemberStep ==
  \E s \in Clients :
    \/ \E n \in Networks : JoinNetwork(s, n) \/ LeaveNetwork(s, n)
    \/ RegisterName(s)

\* Services are mapped to the project they were loaded with, and to none
\* after it was unloaded.
LEMMA LoadsKeepProjects ==
  ASSUME ConnectionInv, LoadStep
  PROVE  ProjectsKnown'
<1> USE DEF ConnectionInv, ProjectsKnown
<1>1. PICK l \in Loaders :
        \/ \E m \in Mortars :
             \/ \E deny \in Rules, services \in SUBSET Members[m] : LoadPolicies(l, m, deny, services)
             \/ UnloadPolicies(l, m)
        \/ MapServices(l) \/ UnmapServices(l)
  BY DEF LoadStep
<1>2. CASE \E m \in Mortars : \E deny \in Rules, services \in SUBSET Members[m] :
             LoadPolicies(l, m, deny, services)
  BY <1>2 DEF LoadPolicies
<1>3. CASE \E m \in Mortars : UnloadPolicies(l, m)
  BY <1>3 DEF UnloadPolicies
<1>4. CASE MapServices(l)
  <2>1. /\ policyLoads[l].mortar \in Mortars
        /\ policyLoads[l].services \subseteq Members[policyLoads[l].mortar]
        /\ mortarOf' = [y \in DOMAIN mortarOf \cup policyLoads[l].services |->
                          IF y \in policyLoads[l].services THEN policyLoads[l].mortar ELSE mortarOf[y]]
    BY <1>4 DEF MapServices, Extend
  <2>2. \A s \in DOMAIN mortarOf' : mortarOf'[s] \in Mortars /\ s \in Members[mortarOf'[s]]
    BY <2>1
  <2>3. \A k \in Loaders : policyLoads'[k].pc = "map" => policyLoads'[k] = policyLoads[k]
    BY <1>4 DEF MapServices, NotLoadingPolicy
  <2> QED BY <2>2, <2>3
<1>5. CASE UnmapServices(l)
  <2>1. \A s \in DOMAIN mortarOf' : s \in DOMAIN mortarOf /\ mortarOf'[s] = mortarOf[s]
    BY <1>5 DEF UnmapServices, Shrink
  <2>2. \A k \in Loaders : policyLoads'[k].pc = "map" => policyLoads'[k] = policyLoads[k]
    BY <1>5 DEF UnmapServices, NotLoadingPolicy
  <2> QED BY <2>1, <2>2
<1> QED BY <1>1, <1>2, <1>3, <1>4, <1>5

\* The steps of the request itself.
LEMMA RequestStep ==
  ASSUME ConnectionInv, ConnectionNext, UNCHANGED settings,
         \/ \E s \in Clients, host \in Hosts : Connect(s, host)
         \/ ResolveService \/ ServicesShareNetwork \/ FindProject \/ EvaluatePolicy \/ Execute
  PROVE  ConnectionInv'
<1> USE DEF ConnectionInv
<1>1. /\ registered' = registered /\ networksOf' = networksOf /\ policies' = policies
      /\ mortarOf' = mortarOf /\ policyLoads' = policyLoads
  BY DEF settings
<1>2. ReasonsStand' /\ ProjectsKnown' /\ (request.pc # "idle" => reasons' \subseteq reasons)
  BY <1>1, ReasonsShrink DEF ProjectsKnown
<1>3. CASE \E s \in Clients, host \in Hosts : Connect(s, host)
  <2>1. PICK s \in Clients, host \in Hosts : Connect(s, host)
    BY <1>3
  <2>2. External(host) \in Targets
    BY DEF Targets, Hosts
  <2>3. /\ request'.pc = IF Granted(s, host) THEN "resolve" ELSE "refused"
        /\ request'.from = s /\ request'.host = host /\ request'.to = External(host)
    BY <2>1 DEF Connect, NoRequest
  <2>4. RequestTypes'
    BY <1>1, <2>1, <2>2 DEF Connect, NoRequest, RequestTypes
  <2>5. RequestProgress'
    BY <2>3 DEF RequestProgress, Granted
  <2> QED BY <1>2, <2>4, <2>5
<1>4. CASE ResolveService
  <2>1. request.pc = "resolve" /\ request.from \in Clients /\ request.host \in Hosts
    BY <1>4 DEF ResolveService, RequestTypes
  <2>2. CASE \E s \in registered : NameOfId[s] = request.host
                                   /\ request' = [request EXCEPT !.pc = "share", !.to = s]
    <3>1. PICK s \in Clients : NameOfId[s] = request.host
                               /\ request' = [request EXCEPT !.pc = "share", !.to = s]
      BY <2>2 DEF RequestTypes
    <3>2. /\ request'.pc = "share" /\ request'.to = s
          /\ request'.from = request.from /\ request'.host = request.host
      BY <3>1 DEF RequestTypes
    <3>3. RequestTypes'
      BY <1>1, <2>1, <3>1 DEF RequestTypes, Targets
    <3>4. RequestProgress'
      BY <2>1, <3>1, <3>2 DEF RequestProgress, Granted
    <3> QED BY <1>2, <3>3, <3>4
  <2>3. CASE request' = [request EXCEPT !.pc = "project"]
    <3>1. /\ request'.pc = "project" /\ request'.to = request.to
          /\ request'.from = request.from /\ request'.host = request.host
      BY <2>3 DEF RequestTypes
    <3>2. RequestTypes'
      BY <1>1, <2>1, <2>3 DEF RequestTypes
    <3>3. <<"network", request.to>> \notin Against(request.from)
      <4>1. request.to = External(request.host) /\ request.to \notin Clients
        BY <2>1, ConnectionAssumption DEF RequestProgress, External, Hosts
      <4> QED BY <4>1 DEF Against
    <3>4. <<"network", request.to>> \notin reasons'
      BY <1>2, <2>1, <3>3 DEF ReasonsStand
    <3>5. RequestProgress'
      BY <1>2, <2>1, <3>1, <3>4 DEF RequestProgress, Granted
    <3> QED BY <1>2, <3>2, <3>5
  <2> QED BY <1>4, <2>2, <2>3 DEF ResolveService, Decide
<1>5. CASE ServicesShareNetwork
  <2> DEFINE shared == networksOf[request.from] \cap networksOf[request.to] # {}
  <2>1. /\ request.pc = "share" /\ request.from \in Clients /\ request.host \in Hosts
        /\ request' = [request EXCEPT !.pc = IF shared THEN "project" ELSE "refused"]
    BY <1>5 DEF ServicesShareNetwork, Decide, RequestTypes
  <2>2. /\ request'.pc = IF shared THEN "project" ELSE "refused"
        /\ request'.to = request.to /\ request'.from = request.from /\ request'.host = request.host
    BY <2>1 DEF RequestTypes
  <2>3. RequestTypes'
    BY <1>1, <2>1 DEF RequestTypes
  <2>4. shared => <<"network", request.to>> \notin Against(request.from)
    BY DEF Against
  <2>5. shared => <<"network", request.to>> \notin reasons'
    BY <1>2, <2>1, <2>4 DEF ReasonsStand
  <2>6. RequestProgress'
    BY <1>2, <2>1, <2>2, <2>5 DEF RequestProgress, Granted
  <2> QED BY <1>2, <2>3, <2>6
<1>6. CASE FindProject
  <2>1. request.pc = "project" /\ request.from \in Clients /\ request.host \in Hosts
    BY <1>6 DEF FindProject, RequestTypes
  <2>2. CASE request.from \in DOMAIN mortarOf
    <3>1. /\ request' = [request EXCEPT !.pc = "policy", !.mortar = mortarOf[request.from]]
          /\ mortarOf[request.from] \in Mortars /\ request.from \in Members[mortarOf[request.from]]
      BY <1>6, <2>2 DEF FindProject, ProjectsKnown
    <3>2. /\ request'.pc = "policy" /\ request'.mortar = mortarOf[request.from]
          /\ request'.to = request.to /\ request'.from = request.from /\ request'.host = request.host
      BY <3>1 DEF RequestTypes
    <3>3. RequestTypes'
      BY <1>1, <2>1, <3>1 DEF RequestTypes
    <3>4. RequestProgress'
      BY <1>2, <2>1, <3>1, <3>2 DEF RequestProgress, Granted
    <3> QED BY <1>2, <3>3, <3>4
  <2>3. CASE request.from \notin DOMAIN mortarOf
    <3>1. request' = [request EXCEPT !.pc = "allowed"]
      BY <1>6, <2>3 DEF FindProject
    <3>2. /\ request'.pc = "allowed"
          /\ request'.to = request.to /\ request'.from = request.from /\ request'.host = request.host
      BY <3>1 DEF RequestTypes
    <3>3. RequestTypes'
      BY <1>1, <2>1, <3>1 DEF RequestTypes
    <3>4. <<"policy", request.to>> \notin Against(request.from)
      BY <2>3 DEF Against, InForce
    <3>5. <<"policy", request.to>> \notin reasons'
      BY <1>2, <2>1, <3>4 DEF ReasonsStand
    <3>6. RequestProgress'
      BY <1>2, <2>1, <3>2, <3>5 DEF RequestProgress, Granted
    <3> QED BY <1>2, <3>3, <3>6
  <2> QED BY <2>2, <2>3
<1>7. CASE EvaluatePolicy
  <2> DEFINE denied == /\ request.mortar \in DOMAIN policies
                       /\ PolicyDenies(policies[request.mortar], request.from, request.to)
  <2>1. /\ request.pc = "policy" /\ request.from \in Clients /\ request.host \in Hosts
        /\ request' = [request EXCEPT !.pc = IF denied THEN "refused" ELSE "allowed"]
    BY <1>7 DEF EvaluatePolicy, Decide, RequestTypes
  <2>2. /\ request'.pc = IF denied THEN "refused" ELSE "allowed"
        /\ request'.to = request.to /\ request'.from = request.from /\ request'.host = request.host
    BY <2>1 DEF RequestTypes
  <2>3. RequestTypes'
    BY <1>1, <2>1 DEF RequestTypes
  <2>4. InForce(request.from, request.to) => denied
    <3>1. SUFFICES ASSUME InForce(request.from, request.to)
                   PROVE  denied
      OBVIOUS
    <3>2. request.from \in DOMAIN mortarOf /\ mortarOf[request.from] \in DOMAIN policies
      BY <3>1 DEF InForce
    <3>3. mortarOf[request.from] = request.mortar
      BY <2>1, <3>2, ConnectionAssumption DEF RequestProgress, ProjectsKnown
    <3> QED BY <3>1, <3>2, <3>3, EngineAgrees
  <2> HIDE DEF denied
  <2>5. ~denied => <<"policy", request.to>> \notin Against(request.from)
    BY <2>4 DEF Against
  <2>6. ~denied => <<"policy", request.to>> \notin reasons'
    BY <1>2, <2>1, <2>5 DEF ReasonsStand
  <2>7. RequestProgress'
    BY <1>2, <2>1, <2>2, <2>6 DEF RequestProgress, Granted
  <2> QED BY <1>2, <2>3, <2>7
<1>8. CASE Execute
  <2>1. request' = NoRequest
    BY <1>8 DEF Execute
  <2>2. RequestTypes' /\ RequestProgress'
    BY <1>1, <2>1 DEF RequestTypes, RequestProgress, NoRequest
  <2> QED BY <1>2, <2>2
<1> QED BY <1>3, <1>4, <1>5, <1>6, <1>7, <1>8

\* Every step keeps the invariant.
LEMMA ConnectionKept ==
  ASSUME ConnectionInv, [ConnectionNext]_connectionVars
  PROVE  ConnectionInv'
<1>1. CASE UNCHANGED connectionVars
  BY <1>1 DEF connectionVars, settings, ConnectionInv, RequestTypes, ProjectsKnown,
              RequestProgress, ReasonsStand, Against, InForce
<1>2. CASE ConnectionNext /\ LoadStep
  <2>1. request' = request /\ registered' = registered
    BY <1>2 DEF LoadStep, LoadPolicies, UnloadPolicies, MapServices, UnmapServices
  <2> QED BY <1>2, <2>1, LoadsKeepProjects, SettingsStep DEF ConnectionInv, RequestTypes
<1>3. CASE ConnectionNext /\ MemberStep
  <2>1. /\ request' = request /\ mortarOf' = mortarOf /\ policyLoads' = policyLoads
        /\ registered' \subseteq Clients
    BY <1>3 DEF MemberStep, JoinNetwork, LeaveNetwork, RegisterName, ConnectionInv, RequestTypes
  <2>2. ProjectsKnown'
    BY <2>1 DEF ConnectionInv, ProjectsKnown
  <2> QED BY <1>3, <2>1, <2>2, SettingsStep
<1>4. CASE /\ ConnectionNext
           /\ \/ \E s \in Clients, host \in Hosts : Connect(s, host)
              \/ ResolveService \/ ServicesShareNetwork \/ FindProject \/ EvaluatePolicy \/ Execute
  <2>1. UNCHANGED settings
    BY <1>4 DEF Connect, ResolveService, ServicesShareNetwork, FindProject, EvaluatePolicy, Execute
  <2> QED BY <1>4, <2>1, RequestStep
<1> QED BY <1>1, <1>2, <1>3, <1>4 DEF ConnectionNext, ConnectionStep, LoadStep, MemberStep, Hosts

\* A connection is not allowed against something that stood against it from
\* the moment it was asked for: for any services, networks, projects, rules
\* and loaders, whatever changes between the looks at the registry, at the
\* memberships, at the projects and at the policies.
THEOREM RefusalsStand == ConnectionSpec => []RefusalsHold
<1>1. ConnectionInit => ConnectionInv
  BY ConnectionStart
<1>2. ConnectionInv /\ [ConnectionNext]_connectionVars => ConnectionInv'
  BY ConnectionKept
<1>3. ASSUME ConnectionInv, request.pc = "allowed"
      PROVE  {<<why, request.to>> : why \in {"capability", "network", "policy"}} \cap reasons = {}
  <2>1. request.from \in Clients /\ request.host \in Hosts
    BY <1>3 DEF ConnectionInv, RequestTypes
  <2>2. Grants[request.from] \cap {request.host, AnyHost} # {}
    BY <1>3 DEF ConnectionInv, RequestProgress, Granted
  <2>3. request.host = IF request.to \in Clients THEN NameOfId[request.to] ELSE request.to.host
    <3>1. External(request.host) \notin Clients /\ External(request.host).host = request.host
      BY <2>1, ConnectionAssumption DEF External, Hosts
    <3> QED BY <1>3, <3>1 DEF ConnectionInv, RequestProgress
  <2>4. <<"capability", request.to>> \notin Against(request.from)
    BY <2>2, <2>3 DEF Against
  <2>5. /\ <<"capability", request.to>> \notin reasons
        /\ <<"network", request.to>> \notin reasons
        /\ <<"policy", request.to>> \notin reasons
    BY <1>3, <2>4 DEF ConnectionInv, RequestProgress, ReasonsStand
  <2> QED BY <2>5
<1>4. ConnectionInv => RefusalsHold
  BY <1>3 DEF RefusalsHold
<1> QED BY <1>1, <1>2, <1>4, PTL DEF ConnectionSpec

-----------------------------------------------------------------------------
(* The local storage.                                                       *)

Contents == {"absent", "partial", "whole"}
Indexes == [Refs -> Modules \cup {NoModule}]

\* All blobs of a module are there; all blobs of the modules of an index are.
Stored(m, files) == \A b \in ToSet(m) : files[b] # "absent"
AllStored(ix, files) == \A r \in Refs : ix[r] # NoModule => Stored(ix[r], files)

WriterRecord == [pc : {"idle", "blob", "write", "rename", "truncate", "index"},
                 module : Modules \cup {NoModule}, ref : Refs \cup {NoModule},
                 todo : Seq(Blobs), fd : {"none", "temp", "blob"}, read : Indexes \cup {Torn}]

StorageTypes ==
  /\ blobs \in [Blobs -> Contents] /\ temps \in [Blobs -> Contents]
  /\ index \in Indexes \cup {Torn}
  /\ storing \in [Writers -> WriterRecord]

\* A writer has stored what it need not store any more, and goes to the
\* index only when nothing is left; the index it has read was a good one.
StoredOrToDo(s, files) ==
  /\ s.pc # "idle" => s.module \in Modules /\ s.ref \in Refs
  /\ s.pc \in {"write", "rename"} => s.todo # <<>>
  /\ s.pc \in {"blob", "write", "rename"} =>
       \A b \in ToSet(s.module) : b \in ToSet(s.todo) \/ files[b] # "absent"
  /\ s.pc \in {"truncate", "index"} =>
       Stored(s.module, files) /\ s.read \in Indexes /\ AllStored(s.read, files)

WritersInv == \A w \in Writers : StoredOrToDo(storing[w], blobs)

StorageInv == StorageTypes /\ WritersInv /\ IndexedIsPresent

\* What is left of a sequence without its first element.
LEMMA LeftToDo ==
  ASSUME NEW S, NEW s \in Seq(S), s # <<>>
  PROVE  /\ Head(s) \in S /\ Tail(s) \in Seq(S)
         /\ \A x \in ToSet(s) : x = Head(s) \/ x \in ToSet(Tail(s))
<1>1. Head(s) \in S /\ Tail(s) \in Seq(S)
  OBVIOUS
<1>2. ASSUME NEW x \in ToSet(s), x # Head(s)
      PROVE  x \in ToSet(Tail(s))
  <2>1. PICK i \in 1..Len(s) : x = s[i]
    BY <1>2 DEF ToSet
  <2>2. i - 1 \in 1..Len(Tail(s)) /\ Tail(s)[i - 1] = s[i]
    BY <1>2, <2>1
  <2>3. i - 1 \in DOMAIN Tail(s)
    BY <1>1, <2>2
  <2> QED BY <2>1, <2>2, <2>3 DEF ToSet
<1> QED BY <1>1, <1>2

\* The blobs of a module are blobs, and it is a sequence of them.
LEMMA ModuleBlobs ==
  ASSUME NEW m \in Modules
  PROVE  ToSet(m) \subseteq Blobs /\ m \in Seq(Blobs)
<1>1. ToSet(m) \subseteq Blobs
  BY DEF Blobs
<1>2. m \in Seq(ToSet(m))
  BY StorageAssumption
<1>3. m \in Seq(Blobs)
  BY ONLY <1>1, <1>2
<1> QED BY <1>1, <1>3

\* What was stored stays stored, whoever stores something else.
LEMMA StoredStays ==
  ASSUME NEW old, NEW new, \A b \in Blobs : old[b] # "absent" => new[b] # "absent",
         NEW s, StoredOrToDo(s, old)
  PROVE  StoredOrToDo(s, new)
<1>1. \A m \in Modules : Stored(m, old) => Stored(m, new)
  BY ModuleBlobs DEF Stored
<1>2. \A ix \in Indexes : AllStored(ix, old) => AllStored(ix, new)
  BY <1>1 DEF AllStored, Indexes
<1> QED BY <1>1, <1>2, ModuleBlobs DEF StoredOrToDo

\* Nothing is stored or under way at first.
LEMMA StorageStart ==
  ASSUME StorageInit
  PROVE  StorageInv
<1>1. NotStoring \in WriterRecord
  BY DEF NotStoring, WriterRecord
<1>2. StorageTypes
  BY <1>1 DEF StorageInit, StorageTypes, Contents, Indexes
<1>3. WritersInv
  BY DEF StorageInit, WritersInv, StoredOrToDo, NotStoring
<1>4. IndexedIsPresent
  BY DEF StorageInit, IndexedIsPresent
<1> QED BY <1>2, <1>3, <1>4 DEF StorageInv

\* A step in which one writer goes on, the others at most have their file
\* moved, the blobs that are there stay, and the index is as it was.
LEMMA WriterGoesOn ==
  ASSUME StorageInv, NEW w \in Writers, storing' \in [Writers -> WriterRecord],
         StoredOrToDo(storing'[w], blobs'),
         \A v \in Writers \ {w} : \E fd : storing'[v] = [storing[v] EXCEPT !.fd = fd],
         index' = index, blobs' \in [Blobs -> Contents], temps' \in [Blobs -> Contents],
         \A b \in Blobs : blobs[b] # "absent" => blobs'[b] # "absent"
  PROVE  StorageInv'
<1>1. StorageTypes'
  BY DEF StorageInv, StorageTypes
<1>2. ASSUME NEW v \in Writers \ {w}
      PROVE  StoredOrToDo(storing'[v], blobs')
  <2>1. StoredOrToDo(storing[v], blobs')
    BY StoredStays DEF StorageInv, WritersInv
  <2>2. /\ storing'[v].pc = storing[v].pc /\ storing'[v].module = storing[v].module
        /\ storing'[v].ref = storing[v].ref /\ storing'[v].todo = storing[v].todo
        /\ storing'[v].read = storing[v].read
    <3>1. PICK fd : storing'[v] = [storing[v] EXCEPT !.fd = fd]
      OBVIOUS
    <3>2. storing[v] \in WriterRecord
      BY DEF StorageInv, StorageTypes
    <3> QED BY <3>1, <3>2 DEF WriterRecord
  <2> QED BY <2>1, <2>2 DEF StoredOrToDo
<1>3. WritersInv'
  BY <1>2 DEF WritersInv
<1>4. IndexedIsPresent'
  BY ModuleBlobs DEF StorageInv, StorageTypes, Indexes, IndexedIsPresent
<1> QED BY <1>1, <1>3, <1>4 DEF StorageInv

\* A step that changes only one writer.
LEMMA OneWriter ==
  ASSUME StorageInv, NEW w \in Writers, NEW new \in WriterRecord,
         storing' = [storing EXCEPT ![w] = new], StoredOrToDo(new, blobs'),
         index' = index, blobs' \in [Blobs -> Contents], temps' \in [Blobs -> Contents],
         \A b \in Blobs : blobs[b] # "absent" => blobs'[b] # "absent"
  PROVE  StorageInv'
<1>1. storing' \in [Writers -> WriterRecord] /\ storing'[w] = new
  BY DEF StorageInv, StorageTypes
<1>2. ASSUME NEW v \in Writers \ {w}
      PROVE  \E fd : storing'[v] = [storing[v] EXCEPT !.fd = fd]
  <2>1. storing'[v] = storing[v] /\ storing[v] \in WriterRecord
    BY DEF StorageInv, StorageTypes
  <2>2. storing[v] = [storing[v] EXCEPT !.fd = storing[v].fd]
    BY <2>1 DEF WriterRecord
  <2> QED BY <2>1, <2>2
<1> QED BY <1>1, <1>2, WriterGoesOn

\* Every step of a writer keeps the invariant.
LEMMA WriterStep ==
  ASSUME StorageInv, NEW w \in Writers,
         \/ \E m \in Modules, r \in Refs : StoreModule(w, m, r)
         \/ CreateTemp(w) \/ WriteTemp(w) \/ RenameTemp(w)
         \/ ReadIndex(w) \/ TruncateIndex(w) \/ WriteIndex(w) \/ Kill(w)
  PROVE  StorageInv'
<1> DEFINE s == storing[w]
<1>1. /\ s \in WriterRecord /\ StoredOrToDo(s, blobs)
      /\ blobs \in [Blobs -> Contents] /\ temps \in [Blobs -> Contents]
  BY DEF StorageInv, StorageTypes, WritersInv
<1>2. NotStoring \in WriterRecord /\ \A files : StoredOrToDo(NotStoring, files)
  BY DEF NotStoring, WriterRecord, StoredOrToDo
<1>3. CASE \E m \in Modules, r \in Refs : StoreModule(w, m, r)
  <2>1. PICK m \in Modules, r \in Refs : StoreModule(w, m, r)
    BY <1>3
  <2> DEFINE new == [NotStoring EXCEPT !.pc = "blob", !.module = m, !.ref = r, !.todo = m]
  <2>2. /\ new \in WriterRecord /\ new.pc = "blob" /\ new.module = m /\ new.ref = r
        /\ new.todo = m
    BY <1>2, ModuleBlobs DEF WriterRecord
  <2>3. /\ storing' = [storing EXCEPT ![w] = new]
        /\ blobs' = blobs /\ temps' = temps /\ index' = index
    BY <2>1 DEF StoreModule, StoreOrder
  <2> HIDE DEF new
  <2>4. StoredOrToDo(new, blobs')
    BY <2>2 DEF StoredOrToDo
  <2> QED BY <1>1, <2>2, <2>3, <2>4, OneWriter
<1>4. CASE CreateTemp(w)
  <2>1. s.pc = "blob" /\ s.todo # <<>> /\ s.todo \in Seq(Blobs)
    BY <1>1, <1>4 DEF CreateTemp, WriterAt, WriterRecord
  <2>2. CASE blobs[Head(s.todo)] # "absent"
    <3> DEFINE new == [s EXCEPT !.pc = "blob", !.fd = "none", !.todo = Tail(@)]
    <3>1. /\ storing' = [storing EXCEPT ![w] = new]
          /\ blobs' = blobs /\ temps' = temps /\ index' = index
      BY <1>4, <2>2 DEF CreateTemp, NextBlob, Blob, StorageInv, StorageTypes
    <3>2. /\ new \in WriterRecord /\ new.pc = "blob" /\ new.module = s.module
          /\ new.ref = s.ref /\ new.todo = Tail(s.todo)
      BY <1>1, <2>1, LeftToDo DEF WriterRecord
    <3> HIDE DEF new
    <3>3. StoredOrToDo(new, blobs)
      BY <1>1, <2>1, <2>2, <3>2, LeftToDo DEF StoredOrToDo
    <3> QED BY <1>1, <3>1, <3>2, <3>3, OneWriter
  <2>3. CASE blobs[Head(s.todo)] = "absent"
    <3> DEFINE new == [s EXCEPT !.pc = "write", !.fd = "temp"]
    <3>1. /\ storing' = [storing EXCEPT ![w] = new]
          /\ blobs' = blobs /\ temps' = [temps EXCEPT ![Head(s.todo)] = "partial"]
          /\ index' = index
      BY <1>4, <2>3 DEF CreateTemp, Blob, StorageInv, StorageTypes
    <3>2. /\ new \in WriterRecord /\ new.pc = "write" /\ new.module = s.module
          /\ new.ref = s.ref /\ new.todo = s.todo
      BY <1>1 DEF WriterRecord
    <3> HIDE DEF new
    <3>3. StoredOrToDo(new, blobs)
      BY <1>1, <2>1, <3>2 DEF StoredOrToDo
    <3>4. temps' \in [Blobs -> Contents]
      BY <1>1, <3>1 DEF Contents
    <3> QED BY <1>1, <3>1, <3>2, <3>3, <3>4, OneWriter
  <2> QED BY <2>2, <2>3
<1>5. CASE WriteTemp(w)
  <2> DEFINE new == [s EXCEPT !.pc = "rename"]
  <2>1. s.pc = "write" /\ storing' = [storing EXCEPT ![w] = new] /\ index' = index
    BY <1>5 DEF WriteTemp, WriterAt, WriterGoto, StorageInv, StorageTypes
  <2>2. /\ new \in WriterRecord /\ new.pc = "rename" /\ new.module = s.module
        /\ new.ref = s.ref /\ new.todo = s.todo
    BY <1>1 DEF WriterRecord
  <2>3. /\ temps' = temps \/ temps' = [temps EXCEPT ![Head(s.todo)] = "whole"]
        /\ blobs' = blobs \/ blobs' = [blobs EXCEPT ![Head(s.todo)] = "whole"]
    BY <1>5 DEF WriteTemp, Blob
  <2>4. /\ temps' \in [Blobs -> Contents] /\ blobs' \in [Blobs -> Contents]
        /\ \A b \in Blobs : blobs[b] # "absent" => blobs'[b] # "absent"
    BY <1>1, <2>3 DEF Contents
  <2> HIDE DEF new
  <2>5. StoredOrToDo(new, blobs)
    BY <1>1, <2>1, <2>2 DEF StoredOrToDo
  <2>6. StoredOrToDo(new, blobs')
    BY <2>4, <2>5, StoredStays
  <2> QED BY <2>1, <2>2, <2>4, <2>6, OneWriter
<1>6. CASE RenameTemp(w)
  <2>1. s.pc = "rename" /\ s.todo # <<>> /\ s.todo \in Seq(Blobs) /\ index' = index
    BY <1>1, <1>6 DEF RenameTemp, WriterAt, WriterRecord, StoredOrToDo
  <2>2. Head(s.todo) \in Blobs
    BY <2>1, LeftToDo
  <2>3. CASE temps[Head(s.todo)] = "absent"
    <3>1. /\ storing' = [storing EXCEPT ![w] = NotStoring]
          /\ blobs' = blobs /\ temps' = temps
      BY <1>6, <2>3 DEF RenameTemp, Blob
    <3> QED BY <1>1, <1>2, <2>1, <3>1, OneWriter
  <2>4. CASE temps[Head(s.todo)] # "absent"
    <3> DEFINE new == [s EXCEPT !.pc = "blob", !.fd = "none", !.todo = Tail(@)]
    <3>1. /\ blobs' = [blobs EXCEPT ![Head(s.todo)] = temps[Head(s.todo)]]
          /\ temps' = [temps EXCEPT ![Head(s.todo)] = "absent"]
          /\ DOMAIN storing' = Writers /\ storing' = [v \in Writers |-> storing'[v]]
          /\ storing'[w] = new
      BY <1>6, <2>4 DEF RenameTemp, Blob
    <3>2. ASSUME NEW v \in Writers \ {w}
          PROVE  \E fd \in {"none", "temp", "blob"} : storing'[v] = [storing[v] EXCEPT !.fd = fd]
      <4>1. storing[v] \in WriterRecord
        BY DEF StorageInv, StorageTypes
      <4>2. storing[v] = [storing[v] EXCEPT !.fd = storing[v].fd]
            /\ storing[v].fd \in {"none", "temp", "blob"}
        BY <4>1 DEF WriterRecord
      <4>3. \/ storing'[v] = [storing[v] EXCEPT !.fd = "blob"]
            \/ storing'[v] = [storing[v] EXCEPT !.fd = "none"]
            \/ storing'[v] = storing[v]
        BY <1>6, <2>4 DEF RenameTemp, Blob
      <4> QED BY <4>2, <4>3
    <3>3. /\ new \in WriterRecord /\ new.pc = "blob" /\ new.module = s.module
          /\ new.ref = s.ref /\ new.todo = Tail(s.todo)
      BY <1>1, <2>1, LeftToDo DEF WriterRecord
    <3> HIDE DEF new
    <3>4. /\ blobs' \in [Blobs -> Contents] /\ temps' \in [Blobs -> Contents]
          /\ \A b \in Blobs : blobs[b] # "absent" => blobs'[b] # "absent"
          /\ blobs'[Head(s.todo)] # "absent"
      BY <1>1, <2>2, <2>4, <3>1 DEF Contents
    <3>5. StoredOrToDo(new, blobs')
      <4>1. StoredOrToDo(s, blobs')
        BY <1>1, <3>4, StoredStays
      <4> QED BY <2>1, <3>3, <3>4, <4>1, LeftToDo DEF StoredOrToDo
    <3>6. storing' \in [Writers -> WriterRecord]
      <4>1. ASSUME NEW v \in Writers
            PROVE  storing'[v] \in WriterRecord
        <5>1. CASE v = w
          BY <3>1, <3>3, <5>1
        <5>2. CASE v # w
          <6>1. PICK fd \in {"none", "temp", "blob"} : storing'[v] = [storing[v] EXCEPT !.fd = fd]
            BY <3>2, <5>2
          <6>2. storing[v] \in WriterRecord
            BY DEF StorageInv, StorageTypes
          <6> QED BY <6>1, <6>2 DEF WriterRecord
        <5> QED BY <5>1, <5>2
      <4> QED BY <3>1, <4>1
    <3>7. StoredOrToDo(storing'[w], blobs')
      BY <3>1, <3>5
    <3>8. \A v \in Writers \ {w} : \E fd : storing'[v] = [storing[v] EXCEPT !.fd = fd]
      BY ONLY <3>2
    <3>9. /\ index' = index /\ blobs' \in [Blobs -> Contents] /\ temps' \in [Blobs -> Contents]
          /\ \A b \in Blobs : blobs[b] # "absent" => blobs'[b] # "absent"
      BY <2>1, <3>4
    <3> QED BY ONLY StorageInv, w \in Writers, <3>6, <3>7, <3>8, <3>9, WriterGoesOn
  <2> QED BY <2>3, <2>4
<1>7. CASE ReadIndex(w)
  <2>1. s.pc = "blob" /\ s.todo = <<>> /\ blobs' = blobs /\ temps' = temps /\ index' = index
    BY <1>7 DEF ReadIndex, WriterAt
  <2>2. CASE index = Torn
    <3>1. storing' = [storing EXCEPT ![w] = NotStoring]
      BY <1>7, <2>2 DEF ReadIndex
    <3> QED BY <1>1, <1>2, <2>1, <3>1, OneWriter
  <2>3. CASE index # Torn
    <3> DEFINE new == [s EXCEPT !.pc = "truncate", !.read = index]
    <3>1. storing' = [storing EXCEPT ![w] = new]
      BY <1>7, <2>3 DEF ReadIndex, StorageInv, StorageTypes
    <3>2. index \in Indexes /\ AllStored(index, blobs)
      BY <2>3 DEF StorageInv, StorageTypes, IndexedIsPresent, AllStored, Stored
    <3>3. /\ new \in WriterRecord /\ new.pc = "truncate" /\ new.module = s.module
          /\ new.ref = s.ref /\ new.read = index
      BY <1>1, <3>2 DEF WriterRecord
    <3> HIDE DEF new
    <3>4. ToSet(<<>>) = {}
      BY DEF ToSet
    <3>5. Stored(s.module, blobs)
      BY <1>1, <2>1, <3>4 DEF StoredOrToDo, Stored
    <3>6. StoredOrToDo(new, blobs)
      BY <1>1, <2>1, <3>2, <3>3, <3>5 DEF StoredOrToDo
    <3> QED BY <1>1, <2>1, <3>1, <3>3, <3>6, OneWriter
  <2> QED BY <2>2, <2>3
<1>8. CASE TruncateIndex(w)
  <2> DEFINE new == [s EXCEPT !.pc = "index"]
  <2>1. /\ s.pc = "truncate" /\ storing' = [storing EXCEPT ![w] = new]
        /\ blobs' = blobs /\ temps' = temps /\ index' = Torn
    BY <1>8 DEF TruncateIndex, WriterAt, WriterGoto, StorageInv, StorageTypes
  <2>2. /\ new \in WriterRecord /\ new.pc = "index" /\ new.module = s.module
        /\ new.ref = s.ref /\ new.read = s.read
    BY <1>1 DEF WriterRecord
  <2> HIDE DEF new
  <2>3. StoredOrToDo(new, blobs)
    BY <1>1, <2>1, <2>2 DEF StoredOrToDo
  <2> QED BY <1>1, <2>1, <2>2, <2>3 DEF StorageInv, StorageTypes, WritersInv, IndexedIsPresent
<1>9. CASE WriteIndex(w)
  <2>1. /\ s.pc = "index" /\ storing' = [storing EXCEPT ![w] = NotStoring]
        /\ blobs' = blobs /\ temps' = temps
    BY <1>9 DEF WriteIndex, WriterAt
  <2>2. /\ s.module \in Modules /\ s.ref \in Refs /\ s.read \in Indexes
        /\ Stored(s.module, blobs) /\ AllStored(s.read, blobs)
    BY <1>1, <2>1 DEF StoredOrToDo
  <2>3. index' \in Indexes \cup {Torn} /\ IndexedIsPresent'
    <3>1. CASE index' = [s.read EXCEPT ![s.ref] = s.module]
      <4>1. index' \in Indexes /\ \A r \in Refs : index'[r] = IF r = s.ref THEN s.module ELSE s.read[r]
        BY <2>2, <3>1 DEF Indexes
      <4> QED BY <2>1, <2>2, <4>1 DEF IndexedIsPresent, AllStored, Stored
    <3>2. CASE index' = Torn
      BY <3>2 DEF IndexedIsPresent
    <3> QED BY <1>9, <3>1, <3>2 DEF WriteIndex
  <2>4. StorageTypes' /\ WritersInv'
    BY <1>1, <1>2, <2>1, <2>3 DEF StorageInv, StorageTypes, WritersInv
  <2> QED BY <2>3, <2>4 DEF StorageInv
<1>10. CASE Kill(w)
  <2>1. /\ storing' = [storing EXCEPT ![w] = NotStoring]
        /\ blobs' = blobs /\ temps' = temps /\ index' = index
    BY <1>10 DEF Kill
  <2> QED BY <1>1, <1>2, <2>1, OneWriter
<1> QED BY <1>3, <1>4, <1>5, <1>6, <1>7, <1>8, <1>9, <1>10

\* Every step keeps the invariant.
LEMMA StorageStep ==
  ASSUME StorageInv, [StorageNext]_storageVars
  PROVE  StorageInv'
<1>1. CASE UNCHANGED <<blobs, temps, index, storing>>
  BY <1>1 DEF StorageInv, StorageTypes, WritersInv, IndexedIsPresent
<1>2. CASE UNCHANGED storageVars \/ (\E r \in Refs : LoadModule(r)) \/ GetBlob \/ Loaded
  BY <1>1, <1>2 DEF storageVars, LoadModule, GetBlob, Loaded
<1> QED BY <1>2, WriterStep DEF StorageNext

\* A reference in the index leads to a module all of whose blobs are there,
\* for any modules, references and number of processes that store them and
\* are killed, without a lock between them.
THEOREM IndexedModulesArePresent == StorageSpec => []IndexedIsPresent
<1>1. StorageInit => StorageInv
  BY StorageStart
<1>2. StorageInv /\ [StorageNext]_storageVars => StorageInv'
  BY StorageStep
<1>3. StorageInv => IndexedIsPresent
  BY DEF StorageInv
<1> QED BY <1>1, <1>2, <1>3, PTL DEF StorageSpec

\* A file that is not complete is open in a writer that has yet to write
\* it, under the temporary name or, once moved, under the blob's.
Writing(w, fd, b) == storing[w].pc = "write" /\ storing[w].fd = fd /\ Blob(w) = b
Attended(files, fd) ==
  \A b \in Blobs : files[b] = "partial" => \E w \in Writers : Writing(w, fd, b)
FilesInv == ~brokenOff => Attended(temps, "temp") /\ Attended(blobs, "blob")

\* What a load has yet to read is there.
LoadRecord == [pc : {"idle", "blobs"}, module : Modules \cup {NoModule}, todo : Seq(Blobs)]
LoadInv ==
  /\ loading \in LoadRecord
  /\ loading.pc = "blobs" => \A b \in ToSet(loading.todo) : blobs[b] # "absent"

\* A step of one writer that writes no file leaves what the others attend to.
LEMMA OthersAttend ==
  ASSUME StorageInv, FilesInv, NEW w \in Writers, storing[w].pc # "write",
         NEW new, storing' = [storing EXCEPT ![w] = new], brokenOff' = brokenOff,
         blobs' = blobs, temps' = temps
  PROVE  FilesInv'
<1>1. ASSUME NEW v \in Writers, NEW fd, NEW b, Writing(v, fd, b)
      PROVE  Writing(v, fd, b)'
  <2>1. v # w /\ storing'[v] = storing[v]
    BY <1>1 DEF Writing, StorageInv, StorageTypes
  <2> QED BY <1>1, <2>1 DEF Writing, Blob
<1> QED BY <1>1 DEF FilesInv, Attended

\* Every step keeps every unfinished file attended to, as long as nobody is
\* killed: the file that is moved is open in the writer that truncated it.
LEMMA FilesStep ==
  ASSUME StorageInv, FilesInv, [StorageNext]_storageVars
  PROVE  FilesInv'
<1>1. CASE UNCHANGED <<blobs, temps, storing, brokenOff>>
  BY <1>1 DEF FilesInv, Attended, Writing, Blob
<1>2. CASE UNCHANGED storageVars \/ (\E r \in Refs : LoadModule(r)) \/ GetBlob \/ Loaded
  BY <1>1, <1>2 DEF storageVars, LoadModule, GetBlob, Loaded
<1>3. ASSUME NEW w \in Writers,
             \/ \E m \in Modules, r \in Refs : StoreModule(w, m, r)
             \/ ReadIndex(w) \/ TruncateIndex(w) \/ WriteIndex(w)
      PROVE  FilesInv'
  <2>1. storing[w].pc # "write" /\ \E new : storing' = [storing EXCEPT ![w] = new]
    BY <1>3 DEF StoreModule, ReadIndex, TruncateIndex, WriteIndex, WriterAt, WriterGoto,
                StorageInv, StorageTypes
  <2>2. UNCHANGED <<blobs, temps, brokenOff>>
    BY <1>3 DEF StoreModule, ReadIndex, TruncateIndex, WriteIndex
  <2> QED BY <2>1, <2>2, OthersAttend
<1>4. ASSUME NEW w \in Writers, Kill(w)
      PROVE  FilesInv'
  BY <1>4 DEF Kill, FilesInv
<1>5. ASSUME NEW w \in Writers, CreateTemp(w)
      PROVE  FilesInv'
  <2>1. /\ storing[w].pc = "blob" /\ storing[w] \in WriterRecord
        /\ UNCHANGED <<blobs, brokenOff>>
    BY <1>5 DEF CreateTemp, WriterAt, StorageInv, StorageTypes
  <2>2. CASE NextBlob(w) /\ UNCHANGED temps
    <3>1. \E new : storing' = [storing EXCEPT ![w] = new]
      BY <2>2 DEF NextBlob, StorageInv, StorageTypes
    <3> QED BY <2>1, <2>2, <3>1, OthersAttend
  <2>3. CASE /\ temps' = [temps EXCEPT ![Blob(w)] = "partial"]
             /\ storing' = [storing EXCEPT ![w].pc = "write", ![w].fd = "temp"]
    <3>1. /\ storing'[w].pc = "write" /\ storing'[w].fd = "temp"
          /\ storing'[w].todo = storing[w].todo
          /\ \A v \in Writers : v # w => storing'[v] = storing[v]
      BY <2>1, <2>3 DEF StorageInv, StorageTypes, WriterRecord
    <3>2. Writing(w, "temp", Blob(w))'
      BY <3>1 DEF Writing, Blob
    <3>3. ASSUME NEW v \in Writers, NEW fd, NEW b, Writing(v, fd, b)
          PROVE  Writing(v, fd, b)'
      BY <2>1, <3>1, <3>3 DEF Writing, Blob
    <3>4. \A b \in Blobs : temps'[b] = "partial" => temps[b] = "partial" \/ b = Blob(w)
      BY <2>3 DEF StorageInv, StorageTypes
    <3>5. Blob(w)' = Blob(w)
      BY <3>1 DEF Blob
    <3> QED BY <2>1, <3>2, <3>3, <3>4, <3>5 DEF FilesInv, Attended
  <2> QED BY <1>5, <2>2, <2>3 DEF CreateTemp
<1>6. ASSUME NEW w \in Writers, WriteTemp(w)
      PROVE  FilesInv'
  <2>1. /\ brokenOff' = brokenOff
        /\ \A v \in Writers : v # w => storing'[v] = storing[v]
    BY <1>6 DEF WriteTemp, WriterGoto, StorageInv, StorageTypes
  <2>2. ASSUME NEW v \in Writers, NEW fd, NEW b, Writing(v, fd, b), v # w
        PROVE  Writing(v, fd, b)'
    BY <2>1, <2>2 DEF Writing, Blob
  <2>3. /\ \A b \in Blobs : temps'[b] = "partial" =>
             temps[b] = "partial" /\ ~Writing(w, "temp", b)
        /\ \A b \in Blobs : blobs'[b] = "partial" =>
             blobs[b] = "partial" /\ ~Writing(w, "blob", b)
    BY <1>6 DEF WriteTemp, Writing, StorageInv, StorageTypes
  <2> QED BY <2>1, <2>2, <2>3 DEF FilesInv, Attended
<1>7. ASSUME NEW w \in Writers, RenameTemp(w)
      PROVE  FilesInv'
  <2>1. /\ storing[w].pc = "rename" /\ storing[w] \in WriterRecord
        /\ brokenOff' = brokenOff
    BY <1>7 DEF RenameTemp, WriterAt, StorageInv, StorageTypes
  <2>2. CASE temps[Blob(w)] = "absent"
    <3>1. storing' = [storing EXCEPT ![w] = NotStoring] /\ UNCHANGED <<blobs, temps>>
      BY <1>7, <2>2 DEF RenameTemp
    <3> QED BY <2>1, <3>1, OthersAttend
  <2>3. CASE temps[Blob(w)] # "absent"
    <3>1. /\ blobs' = [blobs EXCEPT ![Blob(w)] = temps[Blob(w)]]
          /\ temps' = [temps EXCEPT ![Blob(w)] = "absent"]
      BY <1>7, <2>3 DEF RenameTemp
    <3>2. ASSUME NEW v \in Writers, v # w, storing[v].todo # <<>>
          PROVE  /\ Blob(v) # Blob(w) => storing'[v] = storing[v]
                 /\ (Blob(v) = Blob(w) /\ storing[v].fd = "temp") =>
                      storing'[v] = [storing[v] EXCEPT !.fd = "blob"]
      BY <1>7, <2>3, <3>2 DEF RenameTemp
    <3>3. ASSUME NEW v \in Writers, NEW fd, NEW b, Writing(v, fd, b)
          PROVE  /\ v # w /\ storing[v].todo # <<>> /\ storing[v] \in WriterRecord
                 /\ b # Blob(w) => Writing(v, fd, b)'
                 /\ (b = Blob(w) /\ fd = "temp") => Writing(v, "blob", b)'
      <4>1. v # w /\ storing[v].todo # <<>> /\ storing[v] \in WriterRecord
        BY <2>1, <3>3 DEF Writing, StorageInv, StorageTypes, WritersInv, StoredOrToDo
      <4>2. CASE b # Blob(w)
        <5>1. storing'[v] = storing[v]
          BY <3>2, <3>3, <4>1, <4>2 DEF Writing
        <5>2. Writing(v, fd, b)'
          BY ONLY <3>3, <5>1 DEF Writing, Blob
        <5> QED BY <4>1, <4>2, <5>2
      <4>3. CASE b = Blob(w) /\ fd = "temp"
        <5>1. storing'[v] = [storing[v] EXCEPT !.fd = "blob"]
          BY <3>2, <3>3, <4>1, <4>3 DEF Writing
        <5>2. storing'[v].pc = "write" /\ storing'[v].fd = "blob"
              /\ storing'[v].todo = storing[v].todo
          BY <3>3, <4>1, <5>1 DEF Writing, WriterRecord
        <5>3. Writing(v, "blob", b)'
          BY ONLY <3>3, <5>2 DEF Writing, Blob
        <5> QED BY <4>1, <4>3, <5>3
      <4> QED BY <4>1, <4>2, <4>3
    <3>4. Blob(w) \in Blobs
      <4>1. storing[w].todo # <<>> /\ storing[w].todo \in Seq(Blobs)
        BY <2>1 DEF WriterRecord, StorageInv, WritersInv, StoredOrToDo
      <4> QED BY <4>1, LeftToDo DEF Blob
    <3>5. ~brokenOff => Attended(temps, "temp")'
      <4>1. \A b \in Blobs : temps'[b] = "partial" => temps[b] = "partial" /\ b # Blob(w)
        BY <3>1 DEF StorageInv, StorageTypes
      <4> QED BY <3>3, <4>1 DEF FilesInv, Attended
    <3>6. ~brokenOff => Attended(blobs, "blob")'
      <4>1. \A b \in Blobs : blobs'[b] = "partial" =>
              IF b = Blob(w) THEN temps[b] = "partial" ELSE blobs[b] = "partial"
        BY <3>1 DEF StorageInv, StorageTypes
      <4> QED BY <3>3, <4>1 DEF FilesInv, Attended
    <3> QED BY <2>1, <3>5, <3>6 DEF FilesInv
  <2> QED BY <2>2, <2>3
<1> QED BY <1>2, <1>3, <1>4, <1>5, <1>6, <1>7 DEF StorageNext

\* The blobs a load has yet to read are there and stay.
LEMMA LoadKept ==
  ASSUME StorageInv, LoadInv, [StorageNext]_storageVars
  PROVE  LoadInv'
<1>1. CASE \E r \in Refs : LoadModule(r)
  <2>1. PICK r \in Refs : LoadModule(r)
    BY <1>1
  <2>2. PICK m \in Modules : /\ m = index[r] /\ blobs' = blobs
                             /\ loading' = [pc |-> "blobs", module |-> m,
                                            todo |-> <<Last(m)>> \o Front(m)]
    BY <2>1 DEF LoadModule, StorageInv, StorageTypes, Indexes
  <2>3. m \in Seq(Blobs) /\ m # <<>> /\ \A b \in ToSet(m) : blobs[b] # "absent"
    BY <2>1, <2>2, ModuleBlobs, StorageAssumption DEF LoadModule, StorageInv, IndexedIsPresent
  <2>4. Len(m) \in Nat \ {0} /\ m[Len(m)] \in ToSet(m) /\ m[Len(m)] \in Blobs
    BY <2>3 DEF ToSet
  <2>5. /\ Front(m) \in Seq(Blobs) /\ Len(Front(m)) = Len(m) - 1
        /\ \A i \in 1..Len(m) - 1 : Front(m)[i] = m[i]
    <3>1. Len(m) - 1 \in Int /\ \A i \in 1..Len(m) - 1 : m[i] \in Blobs
      BY <2>3, <2>4
    <3>2. /\ SubSeq(m, 1, Len(m) - 1) \in Seq(Blobs)
          /\ Len(SubSeq(m, 1, Len(m) - 1)) = Len(m) - 1
          /\ \A i \in 1..Len(m) - 1 : SubSeq(m, 1, Len(m) - 1)[i] = m[i]
      <4>1. PICK k \in Nat : k = Len(m) - 1
        <5>1. Len(m) - 1 \in Nat
          BY ONLY <2>4
        <5> QED BY ONLY <5>1, Zenon
      <4>2. /\ SubSeq(m, 1, k) \in Seq(Blobs)
            /\ Len(SubSeq(m, 1, k)) = IF 1 <= k THEN k - 1 + 1 ELSE 0
            /\ \A i \in 1..k - 1 + 1 : SubSeq(m, 1, k)[i] = m[1 + i - 1]
        <5>1. k \in Int /\ 1 \in Int /\ \A i \in 1..k : m[i] \in Blobs
          BY ONLY <3>1, <4>1
        <5> QED BY ONLY <5>1, SubSeqProperties
      <4>3. Len(SubSeq(m, 1, k)) = k /\ \A i \in 1..k : SubSeq(m, 1, k)[i] = m[i]
        BY ONLY <4>1, <4>2
      <4> QED BY ONLY <4>1, <4>2, <4>3
    <3> QED BY ONLY <3>2 DEF Front
  <2>6. <<Last(m)>> \in Seq(Blobs) /\ Last(m) = m[Len(m)]
    BY <2>4 DEF Last
  <2>7. PICK todo : todo = <<Last(m)>> \o Front(m)
    OBVIOUS
  <2>8. todo \in Seq(Blobs) /\ Len(todo) = Len(m)
    BY <2>3, <2>5, <2>6, <2>7, <2>4
  <2>9. ASSUME NEW i \in 1..Len(todo)
        PROVE  todo[i] \in ToSet(m)
    <3>1. CASE i = 1
      <4>1. todo[1] = Last(m)
        BY <2>5, <2>6, <2>7
      <4> QED BY <3>1, <4>1, <2>4, <2>6
    <3>2. CASE i # 1
      <4>1. i - 1 \in 1..Len(m) - 1 /\ i - 1 \in 1..Len(m)
        BY <2>8, <2>4, <3>2
      <4>2. todo[i] = Front(m)[i - 1]
        BY <2>5, <2>6, <2>7, <2>8, <3>2, <4>1
      <4>3. m[i - 1] \in ToSet(m)
        BY <4>1, <2>3 DEF ToSet
      <4> QED BY <2>5, <4>1, <4>2, <4>3
    <3> QED BY <3>1, <3>2
  <2>10. ToSet(todo) \subseteq ToSet(m)
    BY <2>8, <2>9 DEF ToSet
  <2>11. loading' = [pc |-> "blobs", module |-> m, todo |-> todo]
    BY <2>2, <2>7
  <2>12. loading' \in LoadRecord /\ loading'.todo = todo
    BY <2>8, <2>11 DEF LoadRecord
  <2> QED BY <2>2, <2>3, <2>10, <2>12 DEF LoadInv
<1>2. NotLoading \in LoadRecord /\ NotLoading.pc = "idle"
  BY DEF NotLoading, LoadRecord
<1>3. CASE GetBlob
  <2>1. blobs' = blobs /\ loading.pc = "blobs" /\ loading.todo # <<>>
    BY <1>3 DEF GetBlob
  <2>2. CASE loading' = NotLoading
    BY <1>2, <2>2 DEF LoadInv
  <2>3. CASE loading' = [loading EXCEPT !.todo = Tail(@)]
    <3>1. loading.todo \in Seq(Blobs) /\ Tail(loading.todo) \in Seq(Blobs)
      BY <2>1 DEF LoadInv, LoadRecord
    <3>2. /\ loading' \in LoadRecord /\ loading'.todo = Tail(loading.todo)
      BY <2>3, <3>1 DEF LoadInv, LoadRecord
    <3>3. ToSet(Tail(loading.todo)) \subseteq ToSet(loading.todo)
      BY <2>1, <3>1 DEF ToSet
    <3> QED BY <2>1, <3>2, <3>3 DEF LoadInv
  <2> QED BY <1>3, <2>2, <2>3 DEF GetBlob
<1>4. CASE Loaded
  BY <1>2, <1>4 DEF Loaded, LoadInv
<1>5. ASSUME loading' = loading, \A b \in Blobs : blobs[b] # "absent" => blobs'[b] # "absent"
      PROVE  LoadInv'
  <2>1. loading.pc = "blobs" => ToSet(loading.todo) \subseteq Blobs
    BY DEF LoadInv, LoadRecord, ToSet
  <2> QED BY <1>5, <2>1 DEF LoadInv
<1>6. CASE UNCHANGED storageVars
  BY <1>5, <1>6 DEF storageVars
<1>7. ASSUME NEW w \in Writers,
             \/ \E m \in Modules, r \in Refs : StoreModule(w, m, r)
             \/ CreateTemp(w) \/ WriteTemp(w) \/ RenameTemp(w)
             \/ ReadIndex(w) \/ TruncateIndex(w) \/ WriteIndex(w) \/ Kill(w)
      PROVE  LoadInv'
  <2>1. UNCHANGED loading
    BY <1>7 DEF StoreModule, CreateTemp, WriteTemp, RenameTemp, ReadIndex, TruncateIndex,
                WriteIndex, Kill
  <2>2. \/ blobs' = blobs
        \/ blobs' = [blobs EXCEPT ![Blob(w)] = "whole"]
        \/ blobs' = [blobs EXCEPT ![Blob(w)] = temps[Blob(w)]] /\ temps[Blob(w)] # "absent"
    BY <1>7 DEF StoreModule, CreateTemp, WriteTemp, RenameTemp, ReadIndex, TruncateIndex,
                WriteIndex, Kill
  <2>3. \A b \in Blobs : blobs[b] # "absent" => blobs'[b] # "absent"
    BY <2>2 DEF StorageInv, StorageTypes
  <2> QED BY <1>5, <2>1, <2>3
<1> QED BY <1>1, <1>3, <1>4, <1>6, <1>7 DEF StorageNext

\* A load of an indexed module breaks off only on a blob some process has
\* yet to write, unless a writer was killed: for any modules and references,
\* and any number of processes that store the same blobs without a lock.
THEOREM LoadsAreExcused == StorageSpec => LoadsFailForAReason
<1>1. StorageInit => StorageInv /\ FilesInv /\ LoadInv
  <2>1. ASSUME StorageInit PROVE FilesInv
    <3>1. \A b \in Blobs : temps[b] = "absent" /\ blobs[b] = "absent"
      BY <2>1 DEF StorageInit
    <3> QED BY <3>1 DEF FilesInv, Attended
  <2>2. ASSUME StorageInit PROVE LoadInv
    BY ONLY <2>2 DEF StorageInit, NotLoading, LoadInv, LoadRecord
  <2> QED BY <2>1, <2>2, StorageStart
<1>2. StorageInv /\ FilesInv /\ LoadInv /\ [StorageNext]_storageVars =>
        StorageInv' /\ FilesInv' /\ LoadInv'
  BY StorageStep, FilesStep, LoadKept
<1>3. StorageInv /\ FilesInv /\ LoadInv /\ GetBlob /\ loading' = NotLoading =>
        brokenOff \/ BeingWritten(Head(loading.todo))
  <2> SUFFICES ASSUME StorageInv, FilesInv, LoadInv, GetBlob, loading' = NotLoading, ~brokenOff
               PROVE  BeingWritten(Head(loading.todo))
    OBVIOUS
  <2>1. loading.pc = "blobs" /\ loading.todo # <<>> /\ loading.todo \in Seq(Blobs)
    BY DEF GetBlob, LoadInv, LoadRecord
  <2>2. Head(loading.todo) \in Blobs /\ Head(loading.todo) \in ToSet(loading.todo)
    BY <2>1 DEF ToSet
  <2>3. loading' # [loading EXCEPT !.todo = Tail(@)]
    BY <2>1 DEF NotLoading, LoadInv, LoadRecord
  <2>4. blobs[Head(loading.todo)] = "partial"
    BY <2>1, <2>2, <2>3 DEF GetBlob, Verified, LoadInv, StorageInv, StorageTypes, Contents
  <2> QED BY <2>2, <2>4 DEF FilesInv, Attended, Writing, BeingWritten, WriterAt
<1> QED BY <1>1, <1>2, <1>3, PTL DEF StorageSpec, LoadsFailForAReason

-----------------------------------------------------------------------------
(* The health monitor.                                                      *)

HealthRecord == [status : {"unknown", "starting", "healthy", "unhealthy"},
                 failures : Nat, history : Seq(BOOLEAN)]

\* The failures counted are those the history ends with: at least all of it
\* if it holds nothing else, exactly those after the last success otherwise.
EndsWith(results, failures) ==
  \E n \in 0..Len(results) :
    /\ \A i \in 1..n : ~results[Len(results) + 1 - i]
    /\ IF n = Len(results) THEN failures >= n
       ELSE results[Len(results) - n] /\ failures = n

HealthTypes ==
  /\ health \in [DOMAIN health -> HealthRecord]
  /\ \A s \in DOMAIN health : EndsWith(health[s].history, health[s].failures)

\* Between its two locks a register or unregister has changed only the
\* registrations.
Halfway ==
  \/ registering = NotRegistering /\ DOMAIN health = DOMAIN registrations
  \/ registering.kind = "register" /\ DOMAIN registrations = DOMAIN health \cup {registering.svc}
  \/ registering.kind = "unregister" /\ DOMAIN registrations = DOMAIN health \ {registering.svc}

HealthInv == HealthTypes /\ Halfway

\* One more result.
LEMMA ResultAdded ==
  ASSUME NEW results \in Seq(BOOLEAN), NEW failures \in Nat, EndsWith(results, failures),
         NEW healthy \in BOOLEAN
  PROVE  EndsWith(Append(results, healthy), IF healthy THEN 0 ELSE failures + 1)
<1> DEFINE longer == Append(results, healthy)
<1>1. PICK len \in Nat : len = Len(results)
  OBVIOUS
<1>2. /\ longer \in Seq(BOOLEAN) /\ Len(longer) = len + 1 /\ longer[len + 1] = healthy
      /\ \A i \in 1..len : longer[i] = results[i]
  BY <1>1
<1> HIDE DEF longer
<1>3. CASE healthy
  <2>0. 0 \in 0..(len + 1) /\ 0 # len + 1 /\ (len + 1) - 0 = len + 1
    OBVIOUS
  <2>1. 0 \in 0..Len(longer) /\ 0 # Len(longer) /\ longer[Len(longer) - 0]
    BY ONLY <1>2, <1>3, <2>0
  <2> QED BY <1>3, <2>1 DEF EndsWith, longer
<1>4. CASE ~healthy
  <2>1. PICK n \in 0..len :
          /\ \A i \in 1..n : ~results[len + 1 - i]
          /\ IF n = len THEN failures >= n ELSE results[len - n] /\ failures = n
    BY <1>1 DEF EndsWith
  <2>2. ASSUME NEW i \in 1..(n + 1)
        PROVE  ~longer[(len + 1) + 1 - i]
    <3>1. CASE i = 1
      <4>1. (len + 1) + 1 - i = len + 1
        BY <3>1, <1>1
      <4> QED BY <1>2, <1>4, <4>1
    <3>2. CASE i # 1
      <4>1. i - 1 \in 1..n /\ len + 1 - (i - 1) = (len + 1) + 1 - i
            /\ (len + 1) + 1 - i \in 1..len
        BY <1>1, <2>1, <3>2
      <4>2. ~results[len + 1 - (i - 1)]
        BY <2>1, <4>1
      <4> QED BY <1>2, <4>1, <4>2
    <3> QED BY <3>1, <3>2
  <2>3. n + 1 \in 0..(len + 1)
    BY <1>1, <2>1
  <2>4. IF n + 1 = len + 1 THEN failures + 1 >= n + 1
        ELSE longer[len + 1 - (n + 1)] /\ failures + 1 = n + 1
    <3>1. CASE n = len
      BY <1>1, <2>1, <3>1
    <3>2. CASE n # len
      <4>1. results[len - n] /\ failures = n /\ len - n \in 1..len /\ len + 1 - (n + 1) = len - n
        BY <1>1, <2>1, <3>2
      <4>2. longer[len - n] /\ n + 1 # len + 1
        BY <1>1, <1>2, <2>1, <3>2, <4>1
      <4> QED BY <4>1, <4>2
    <3> QED BY <3>1, <3>2
  <2>5. \E m \in 0..(len + 1) :
          /\ \A i \in 1..m : ~longer[(len + 1) + 1 - i]
          /\ IF m = len + 1 THEN failures + 1 >= m ELSE longer[len + 1 - m] /\ failures + 1 = m
    BY ONLY <2>2, <2>3, <2>4
  <2>6. EndsWith(longer, failures + 1)
    BY ONLY <1>2, <2>5 DEF EndsWith
  <2> QED BY <1>4, <2>6 DEF longer
<1> QED BY <1>3, <1>4

\* The oldest result is forgotten.
LEMMA ResultForgotten ==
  ASSUME NEW results \in Seq(BOOLEAN), results # <<>>, NEW failures \in Nat,
         EndsWith(results, failures)
  PROVE  EndsWith(Tail(results), failures)
<1> DEFINE rest == Tail(results)
<1>1. PICK len \in Nat \ {0} : len = Len(results)
  OBVIOUS
<1>2. /\ Len(rest) = len - 1 /\ len - 1 \in Nat
      /\ \A i \in 1..(len - 1) : rest[i] = results[i + 1]
  BY <1>1
<1> HIDE DEF rest
<1>3. PICK n \in 0..len :
        /\ \A i \in 1..n : ~results[len + 1 - i]
        /\ IF n = len THEN failures >= n ELSE results[len - n] /\ failures = n
  BY <1>1 DEF EndsWith
<1>4. ASSUME NEW i \in 1..n, i # len
      PROVE  ~rest[len - i]
  <2>1. len - i \in 1..(len - 1) /\ (len - i) + 1 = len + 1 - i
    BY <1>1, <1>3, <1>4
  <2> QED BY <1>2, <1>3, <2>1
<1>5. CASE n < len - 1
  <2>1. /\ n \in 0..(len - 1) /\ n # len - 1 /\ (len - 1) - n \in 1..(len - 1)
        /\ ((len - 1) - n) + 1 = len - n /\ n # len
    BY <1>1, <1>3, <1>5
  <2>2. rest[(len - 1) - n] /\ failures = n
    BY <1>2, <1>3, <2>1
  <2>3. \A i \in 1..n : ~rest[(len - 1) + 1 - i]
    <3>1. \A i \in 1..n : i # len /\ (len - 1) + 1 - i = len - i
      BY <1>1, <1>3, <1>5
    <3> QED BY <1>4, <3>1
  <2> QED BY <1>2, <2>1, <2>2, <2>3 DEF EndsWith, rest
<1>6. CASE n >= len - 1
  <2>1. len - 1 \in 0..(len - 1) /\ failures >= len - 1
    BY <1>1, <1>3, <1>6
  <2>2. \A i \in 1..(len - 1) : ~rest[(len - 1) + 1 - i]
    <3>1. \A i \in 1..(len - 1) : i \in 1..n /\ i # len /\ (len - 1) + 1 - i = len - i
      BY <1>1, <1>3, <1>6
    <3> QED BY <1>4, <3>1
  <2> QED BY <1>2, <2>1, <2>2 DEF EndsWith, rest
<1> QED BY <1>1, <1>3, <1>5, <1>6

\* ServiceHealth::record keeps the count and the history in step.
LEMMA ResultRecorded ==
  ASSUME NEW h \in HealthRecord, EndsWith(h.history, h.failures), NEW healthy \in BOOLEAN
  PROVE  /\ RecordResult(h, healthy) \in HealthRecord
         /\ EndsWith(RecordResult(h, healthy).history, RecordResult(h, healthy).failures)
<1> DEFINE counted == IF healthy THEN [h EXCEPT !.status = "healthy", !.failures = 0]
                      ELSE Failed(h)
           longer == Append(h.history, healthy)
           kept == IF Len(longer) > HistoryLength THEN Tail(longer) ELSE longer
           failures == IF healthy THEN 0 ELSE h.failures + 1
<1>1. h.history \in Seq(BOOLEAN) /\ h.failures \in Nat
  BY DEF HealthRecord
<1>2. counted \in HealthRecord /\ counted.failures = failures /\ failures \in Nat
  <2>1. CASE healthy
    BY <2>1 DEF HealthRecord
  <2>2. CASE ~healthy
    <3>1. /\ Failed(h) \in HealthRecord /\ Failed(h).failures = h.failures + 1
          /\ h.failures + 1 \in Nat
      <4>1. PICK n \in Nat : n = h.failures + 1
        BY <1>1
      <4>2. Failed(h) = [h EXCEPT !.status = "unhealthy", !.failures = n]
        BY <4>1 DEF Failed
      <4>3. [h EXCEPT !.status = "unhealthy", !.failures = n] \in HealthRecord
            /\ [h EXCEPT !.status = "unhealthy", !.failures = n].failures = n
        BY DEF HealthRecord
      <4> QED BY <4>1, <4>2, <4>3
    <3> QED BY <2>2, <3>1
  <2> QED BY <2>1, <2>2
<1>3. longer \in Seq(BOOLEAN) /\ longer # <<>> /\ Tail(longer) \in Seq(BOOLEAN)
  BY <1>1
<1>4. EndsWith(longer, failures)
  BY <1>1, ResultAdded
<1>5. RecordResult(h, healthy) = [counted EXCEPT !.history = kept]
  BY DEF RecordResult
<1> HIDE DEF counted, longer, failures
<1>6. EndsWith(Tail(longer), failures)
  BY ONLY <1>2, <1>3, <1>4, ResultForgotten
<1>7. kept \in Seq(BOOLEAN) /\ EndsWith(kept, failures)
  BY <1>3, <1>4, <1>6
<1> HIDE DEF kept
<1>8. /\ [counted EXCEPT !.history = kept] \in HealthRecord
      /\ [counted EXCEPT !.history = kept].history = kept
      /\ [counted EXCEPT !.history = kept].failures = failures
  BY <1>2, <1>7 DEF HealthRecord
<1> QED BY <1>5, <1>7, <1>8

\* A function with one more argument, and with one less.
LEMMA HealthWith ==
  ASSUME HealthTypes, NEW s, NEW h \in HealthRecord, EndsWith(h.history, h.failures),
         health' = With(health, s, h)
  PROVE  HealthTypes' /\ DOMAIN health' = DOMAIN health \cup {s}
<1>1. health' = [x \in DOMAIN health \cup {s} |-> IF x = s THEN h ELSE health[x]]
  BY DEF With
<1>2. DOMAIN health' = DOMAIN health \cup {s} /\ health' \in [DOMAIN health' -> HealthRecord]
  BY <1>1 DEF HealthTypes
<1>3. \A x \in DOMAIN health' : EndsWith(health'[x].history, health'[x].failures)
  <2> TAKE x \in DOMAIN health'
  <2>1. CASE x = s
    BY <1>1, <2>1
  <2>2. CASE x # s
    <3>1. x \in DOMAIN health /\ health'[x] = health[x]
      BY <1>1, <2>2
    <3> QED BY <3>1 DEF HealthTypes
  <2> QED BY <2>1, <2>2
<1> QED BY <1>2, <1>3 DEF HealthTypes

\* A new health state has counted nothing.
LEMMA NewHealthIsGood ==
  NewHealth \in HealthRecord /\ EndsWith(NewHealth.history, NewHealth.failures)
<1>1. NewHealth \in HealthRecord /\ NewHealth.history = <<>> /\ NewHealth.failures = 0
  BY DEF NewHealth, HealthRecord
<1>2. EndsWith(<<>>, 0)
  BY DEF EndsWith
<1> QED BY <1>1, <1>2

\* Every step keeps the invariant.
LEMMA HealthStep ==
  ASSUME HealthInv, [HealthNext]_healthVars
  PROVE  HealthInv'
<1> USE DEF HealthInv
<1>1. CASE UNCHANGED healthVars
  BY <1>1 DEF healthVars, HealthTypes, Halfway
<1>2. CASE \E s \in Checked : Register(s) \/ Unregister(s)
  <2>1. PICK s \in Checked : Register(s) \/ Unregister(s)
    BY <1>2
  <2>2. health' = health /\ registering = NotRegistering /\ DOMAIN health = DOMAIN registrations
    <3>1. health' = health /\ registering = NotRegistering
      BY <2>1 DEF Register, Unregister, Registrable
    <3>2. registering.kind = "none"
      BY <3>1 DEF NotRegistering
    <3> QED BY <3>1, <3>2 DEF Halfway
  <2>3. CASE Register(s)
    <3>1. registering'.kind = "register" /\ registering'.svc = s
          /\ DOMAIN registrations' = DOMAIN registrations \cup {s}
      BY <2>3 DEF Register, With
    <3> QED BY <2>2, <3>1 DEF HealthTypes, Halfway
  <2>4. CASE Unregister(s)
    <3>1. registering'.kind = "unregister" /\ registering'.svc = s
          /\ DOMAIN registrations' = DOMAIN registrations \ {s}
      BY <2>4 DEF Unregister, Without
    <3> QED BY <2>2, <3>1 DEF HealthTypes, Halfway
  <2> QED BY <2>1, <2>3, <2>4
<1>3. CASE SetHealth
  <2>1. registering # NotRegistering /\ registering' = NotRegistering /\ registrations' = registrations
    BY <1>3 DEF SetHealth, Registrable
  <2>2. CASE registering.kind = "register"
    <3>1. health' = With(health, registering.svc, NewHealth)
      BY <1>3, <2>2 DEF SetHealth
    <3>2. HealthTypes' /\ DOMAIN health' = DOMAIN health \cup {registering.svc}
      BY <3>1, NewHealthIsGood, HealthWith
    <3> QED BY <2>1, <2>2, <3>2 DEF Halfway
  <2>3. CASE registering.kind # "register"
    <3>1. health' = [y \in DOMAIN health \ {registering.svc} |-> health[y]]
      BY <1>3, <2>3 DEF SetHealth, Without
    <3>2. HealthTypes'
      BY <3>1 DEF HealthTypes
    <3> QED BY <2>1, <2>3, <3>1, <3>2 DEF Halfway
  <2> QED BY <2>2, <2>3
<1>4. CASE \E c \in Checkers : RecordCheck(c)
  <2>1. PICK c \in Checkers : RecordCheck(c)
    BY <1>4
  <2>2. registrations' = registrations /\ registering' = registering
    BY <2>1 DEF RecordCheck
  <2>3. CASE checks[c].svc \in DOMAIN health
    <3> DEFINE s == checks[c].svc
    <3>1. PICK healthy \in BOOLEAN : health' = With(health, s, RecordResult(health[s], healthy))
      BY <2>1, <2>3 DEF RecordCheck, Recordable
    <3>2. health[s] \in HealthRecord /\ EndsWith(health[s].history, health[s].failures)
      BY <2>3 DEF HealthTypes
    <3> HIDE DEF s
    <3>3. /\ RecordResult(health[s], healthy) \in HealthRecord
          /\ EndsWith(RecordResult(health[s], healthy).history,
                      RecordResult(health[s], healthy).failures)
      BY <3>2, ResultRecorded
    <3>4. HealthTypes' /\ DOMAIN health' = DOMAIN health \cup {s}
      BY <3>1, <3>3, HealthWith
    <3>5. DOMAIN health' = DOMAIN health
      BY <2>3, <3>4 DEF s
    <3> QED BY <2>2, <3>4, <3>5 DEF Halfway
  <2>4. CASE checks[c].svc \notin DOMAIN health
    <3>1. health' = health
      BY <2>1, <2>4 DEF RecordCheck, Recordable
    <3> QED BY <2>2, <3>1 DEF HealthTypes, Halfway
  <2> QED BY <2>3, <2>4
<1>5. CASE \E s \in Checked : MarkStarting(s)
  <2>1. PICK s \in Checked : s \in DOMAIN health /\ health' = [health EXCEPT ![s].status = "starting"]
                             /\ registrations' = registrations /\ registering' = registering
    BY <1>5 DEF MarkStarting
  <2>2. health[s] \in HealthRecord
    BY <2>1 DEF HealthTypes
  <2> DEFINE h == [health[s] EXCEPT !.status = "starting"]
  <2>3. h \in HealthRecord /\ h.history = health[s].history /\ h.failures = health[s].failures
    BY <2>2 DEF HealthRecord
  <2>4. health' = [health EXCEPT ![s] = h]
    BY <2>1 DEF HealthTypes
  <2> HIDE DEF h
  <2>5. DOMAIN health' = DOMAIN health /\ \A x \in DOMAIN health : health'[x] = IF x = s THEN h ELSE health[x]
    BY <2>4 DEF HealthTypes
  <2>6. health' \in [DOMAIN health' -> HealthRecord]
    BY <2>3, <2>4 DEF HealthTypes
  <2>7. \A x \in DOMAIN health' : EndsWith(health'[x].history, health'[x].failures)
    BY <2>1, <2>3, <2>5 DEF HealthTypes
  <2> QED BY <2>1, <2>5, <2>6, <2>7 DEF HealthTypes, Halfway
<1>6. CASE (\E s \in Checked : Due(s) \/ \E c \in Checkers : CheckNow(c, s))
           \/ CollectDue \/ NextCheck \/ Reschedule
  <2>1. health' = health /\ registering' = registering /\ DOMAIN registrations' = DOMAIN registrations
    BY <1>6 DEF Due, CheckNow, CollectDue, NextCheck, Reschedule
  <2> QED BY <2>1 DEF HealthTypes, Halfway
<1> QED BY <1>1, <1>2, <1>3, <1>4, <1>5, <1>6 DEF HealthNext

\* The longest streak of failures at the end of the history is the one that
\* EndsWith speaks of.
LEMMA LongestStreak ==
  ASSUME NEW results \in Seq(BOOLEAN), NEW failures \in Nat, EndsWith(results, failures)
  PROVE  LET streak == {n \in 0..Len(results) : \A i \in 1..n : ~results[Len(results) + 1 - i]}
             longest == CHOOSE n \in streak : \A k \in streak : k <= n
         IN  IF longest = Len(results) THEN failures >= longest ELSE failures = longest
<1> DEFINE streak == {n \in 0..Len(results) : \A i \in 1..n : ~results[Len(results) + 1 - i]}
           longest == CHOOSE n \in streak : \A k \in streak : k <= n
<1>1. PICK len \in Nat : len = Len(results)
  OBVIOUS
<1>2. PICK n \in 0..len :
        /\ \A i \in 1..n : ~results[len + 1 - i]
        /\ IF n = len THEN failures >= n ELSE results[len - n] /\ failures = n
  BY <1>1 DEF EndsWith
<1>3. n \in streak
  BY <1>1, <1>2
<1>4. ASSUME NEW k \in streak
      PROVE  k <= n
  <2>1. k \in 0..len /\ \A i \in 1..k : ~results[len + 1 - i]
    BY <1>1
  <2>2. CASE k > n
    <3>1. n + 1 \in 1..k /\ len + 1 - (n + 1) = len - n /\ n # len
      BY <1>1, <1>2, <2>1, <2>2
    <3> QED BY <1>2, <2>1, <3>1
  <2> QED BY <1>1, <1>2, <2>1, <2>2
<1>5. longest \in streak /\ \A k \in streak : k <= longest
  BY <1>3, <1>4
<1>6. longest \in 0..len
  BY <1>1, <1>5
<1>7. longest = n
  <2>1. longest <= n /\ n <= longest
    BY <1>3, <1>4, <1>5
  <2> HIDE DEF longest
  <2> QED BY ONLY <1>1, <1>2, <1>6, <2>1
<1> HIDE DEF longest
<1>8. IF longest = len THEN failures >= longest ELSE failures = longest
  BY <1>2, <1>7
<1> QED BY <1>1, <1>8 DEF longest

\* A service has a health state exactly if it is registered, and its count of
\* failures is that of its history: for any services, checkers and length of
\* the history, whatever result arrives after its service was unregistered or
\* registered anew.
THEOREM HealthFollowsRegistration == HealthSpec => []HealthIsRegistered
<1>1. HealthInit => HealthInv
  BY DEF HealthInit, HealthInv, HealthTypes, Halfway
<1>2. HealthInv /\ [HealthNext]_healthVars => HealthInv'
  BY HealthStep
<1>3. ASSUME HealthInv
      PROVE  HealthIsRegistered
  <2>1. Registrable => DOMAIN health = DOMAIN registrations
    BY <1>3 DEF HealthInv, Halfway, Registrable, NotRegistering
  <2>2. ASSUME NEW s \in DOMAIN health
        PROVE  /\ health[s].history \in Seq(BOOLEAN) /\ health[s].failures \in Nat
               /\ EndsWith(health[s].history, health[s].failures)
    BY <1>3 DEF HealthInv, HealthTypes, HealthRecord
  <2> QED BY <2>1, <2>2, LongestStreak DEF HealthIsRegistered
<1> QED BY <1>1, <1>2, <1>3, PTL DEF HealthSpec

-----------------------------------------------------------------------------
(* The event bus.                                                           *)

\* A sequence taken apart, and one with nothing added.
LEMMA SeqParts ==
  ASSUME NEW q \in Seq(Nat)
  PROVE  /\ q # <<>> => Head(q) \in Nat /\ Tail(q) \in Seq(Nat)
         /\ q \o <<>> = q
OBVIOUS

\* Concatenation is associative.
LEMMA Associates ==
  ASSUME NEW p \in Seq(Nat), NEW q \in Seq(Nat), NEW r \in Seq(Nat)
  PROVE  (p \o q) \o r = p \o (q \o r)
<1> DEFINE left == (p \o q) \o r
           right == p \o (q \o r)
<1>1. /\ left \in Seq(Nat) /\ right \in Seq(Nat)
      /\ Len(left) = Len(p) + Len(q) + Len(r) /\ Len(right) = Len(left)
  OBVIOUS
<1>2. ASSUME NEW i \in 1 .. Len(left) PROVE left[i] = right[i]
  <2>1. CASE i <= Len(p)
    BY <2>1
  <2>2. CASE i > Len(p) /\ i <= Len(p) + Len(q)
    BY <2>2
  <2>3. CASE i > Len(p) + Len(q)
    BY <2>3
  <2> QED BY <2>1, <2>2, <2>3
<1> HIDE DEF left, right
<1>3. left = right
  BY <1>1, <1>2
<1> QED BY <1>3 DEF left, right

\* The head of a sequence goes to the end of the one before it.
LEMMA MoveHead ==
  ASSUME NEW p \in Seq(Nat), NEW q \in Seq(Nat), q # <<>>
  PROVE  Append(p, Head(q)) \o Tail(q) = p \o q
OBVIOUS

\* To add a sequence of one element is to append it.
LEMMA MoveOne ==
  ASSUME NEW p \in Seq(Nat), NEW x \in Nat
  PROVE  p \o <<x>> = Append(p, x)
OBVIOUS

\* A part of a log, and that part without its first event.
LEMMA LogPart ==
  ASSUME NEW log \in Seq(Nat), NEW m \in 0 .. Len(log), NEW n \in m .. Len(log)
  PROVE  /\ SubSeq(log, m + 1, n) \in Seq(Nat)
         /\ SubSeq(log, m + 1, n) # <<>> => /\ m < n
                       /\ Head(SubSeq(log, m + 1, n)) = log[m + 1]
                       /\ Tail(SubSeq(log, m + 1, n)) = SubSeq(log, m + 2, n)
OBVIOUS

\* A part of a log when the log gets longer: the same one, and one that grows
\* with the log.
LEMMA LogPartLonger ==
  ASSUME NEW log \in Seq(Nat), NEW event \in Nat, NEW m \in 0 .. Len(log), NEW n \in m .. Len(log)
  PROVE  /\ SubSeq(Append(log, event), m + 1, n) = SubSeq(log, m + 1, n)
         /\ n = Len(log) =>
              SubSeq(Append(log, event), m + 1, n + 1) = Append(SubSeq(log, m + 1, n), event)
<1>1. SubSeq(Append(log, event), m + 1, n) = SubSeq(log, m + 1, n)
  OBVIOUS
<1>2. ASSUME n = Len(log)
      PROVE  SubSeq(Append(log, event), m + 1, n + 1) = Append(SubSeq(log, m + 1, n), event)
  <2>1. PICK longer \in Seq(Nat) : longer = Append(log, event)
    <3>1. Append(log, event) \in Seq(Nat)
      BY ONLY AppendProperties, log \in Seq(Nat), event \in Nat
    <3> QED BY ONLY <3>1
  <2>2. PICK a, b : /\ a = m + 1 /\ b = n + 1 /\ b - 1 = n /\ longer[b] = event
                    /\ a \in 1 .. Len(longer) /\ b \in a .. Len(longer)
    <3>1. /\ n + 1 - 1 = n /\ longer[n + 1] = event
          /\ m + 1 \in 1 .. Len(longer) /\ n + 1 \in (m + 1) .. Len(longer)
      BY <1>2, <2>1
    <3> QED BY ONLY <3>1
  <2>3. SubSeq(longer, a, b) = SubSeq(longer, a, b - 1) \o <<longer[b]>>
    BY ONLY <2>2, SubSeqRecursiveSecond, longer \in Seq(Nat)
  <2>4. SubSeq(log, m + 1, n) \in Seq(Nat)
    OBVIOUS
  <2>5. SubSeq(log, m + 1, n) \o <<event>> = Append(SubSeq(log, m + 1, n), event)
    BY ONLY <2>4, MoveOne, event \in Nat
  <2> QED BY ONLY <1>1, <2>1, <2>2, <2>3, <2>5
<1> QED BY <1>1, <1>2

\* What the bus knows of a subscriber.
Subscriber ==
  [list : BOOLEAN, open : BOOLEAN, rx : BOOLEAN, inner : Seq(Nat), held : Seq(Nat),
   outer : Seq(Nat), got : Seq(Nat), from : Nat]

\* The types of the bus.
BusTypes ==
  /\ sent \in Seq(Nat) /\ published \in Nat
  /\ offering \in [Publishers -> Nat \cup {NoEvent}]
  /\ subs \in [DOMAIN subs -> Subscriber]

\* What was sent since s came: it has seen the part up to `read', the channel
\* holds what follows up to `cut', and that is all while the bus can send.
UpToDate(s, sub, log) ==
  /\ sub.rx => sub.open
  /\ s \notin Filter => sub.outer = <<>> /\ sub.held = <<>>
  /\ \E read, cut \in sub.from .. Len(log) :
       /\ Selects(s, Seen(sub), log, sub.from + 1, read)
       /\ sub.inner = SubSeq(log, read + 1, cut) /\ read <= cut
       /\ sub.list /\ sub.open => cut = Len(log)

\* The inductive invariant of the bus.
BusInv == BusTypes /\ \A s \in DOMAIN subs : UpToDate(s, subs[s], sent)

\* A selection is one of a longer log too.
LEMMA SelectsLonger ==
  ASSUME NEW s, NEW seen, NEW log \in Seq(Nat), NEW event \in Nat, NEW first \in Nat \ {0},
         NEW last \in 0 .. Len(log), Selects(s, seen, log, first, last)
  PROVE  Selects(s, seen, Append(log, event), first, last)
<1>1. \A n \in first .. last : Append(log, event)[n] = log[n]
  OBVIOUS
<1>2. PICK at \in [1 .. Len(seen) -> first .. last] :
        /\ \A i \in 1 .. Len(seen) : seen[i] = log[at[i]]
        /\ \A i, j \in 1 .. Len(seen) : i < j => at[i] < at[j]
        /\ \A n \in first .. last : Wanted(s, log[n]) <=> \E i \in 1 .. Len(seen) : at[i] = n
  BY DEF Selects
<1>3. \A i \in 1 .. Len(seen) : at[i] \in first .. last
  OBVIOUS
<1>4. \A i \in 1 .. Len(seen) : seen[i] = Append(log, event)[at[i]]
  BY <1>1, <1>2, <1>3
<1>5. \A n \in first .. last :
        Wanted(s, Append(log, event)[n]) <=> \E i \in 1 .. Len(seen) : at[i] = n
  BY <1>1, <1>2
<1> QED BY <1>2, <1>4, <1>5 DEF Selects

\* A selection goes on with the next event of the log.
LEMMA SelectsNext ==
  ASSUME NEW s, NEW seen \in Seq(Nat), NEW log \in Seq(Nat), NEW first \in Nat \ {0},
         NEW last \in Nat, last + 1 <= Len(log), first <= last + 1,
         Selects(s, seen, log, first, last)
  PROVE  Selects(s, IF Wanted(s, log[last + 1]) THEN Append(seen, log[last + 1]) ELSE seen,
                 log, first, last + 1)
<1> DEFINE n == Len(seen)
<1>1. n \in Nat /\ log[last + 1] \in Nat
  OBVIOUS
<1>2. PICK at \in [1 .. n -> first .. last] :
        /\ \A i \in 1 .. n : seen[i] = log[at[i]]
        /\ \A i, j \in 1 .. n : i < j => at[i] < at[j]
        /\ \A k \in first .. last : Wanted(s, log[k]) <=> \E i \in 1 .. n : at[i] = k
  BY DEF Selects
<1>3. \A i \in 1 .. n : at[i] \in first .. last /\ at[i] \in first .. (last + 1)
                        /\ at[i] # last + 1
  <2>1. \A k \in first .. last : k \in first .. (last + 1) /\ k # last + 1
    BY ONLY first \in Nat, last \in Nat
  <2>2. \A i \in 1 .. n : at[i] \in first .. last
    OBVIOUS
  <2> QED BY <2>1, <2>2
<1>4. \A k \in first .. (last + 1) : k = last + 1 \/ k \in first .. last
  OBVIOUS
<1>5. CASE ~Wanted(s, log[last + 1])
  <2>1. at \in [1 .. n -> first .. (last + 1)]
    BY <1>3
  <2>2. \A k \in first .. (last + 1) :
          Wanted(s, log[k]) <=> \E i \in 1 .. n : at[i] = k
    <3> HIDE DEF n
    <3> QED BY <1>2, <1>3, <1>4, <1>5
  <2>3. Selects(s, seen, log, first, last + 1)
    BY <1>2, <2>1, <2>2 DEF Selects
  <2> QED BY <1>5, <2>3
<1>6. CASE Wanted(s, log[last + 1])
  <2> DEFINE more == Append(seen, log[last + 1])
             then == [i \in 1 .. (n + 1) |-> IF i = n + 1 THEN last + 1 ELSE at[i]]
  <2>1. /\ Len(more) = n + 1 /\ more[n + 1] = log[last + 1]
        /\ \A i \in 1 .. n : more[i] = seen[i]
    BY <1>1
  <2> HIDE DEF n, more
  <2>2. then \in [1 .. Len(more) -> first .. (last + 1)]
    BY <1>1, <1>3, <2>1
  <2>3. /\ then[n + 1] = last + 1
        /\ \A i \in 1 .. n : then[i] = at[i]
        /\ \A i \in 1 .. Len(more) : i = n + 1 \/ i \in 1 .. n
    BY <1>1, <2>1
  <2>3a. n + 1 \in 1 .. Len(more) /\ \A i \in 1 .. n : i \in 1 .. Len(more)
    BY <1>1, <2>1
  <2> HIDE DEF then
  <2>4. \A i \in 1 .. Len(more) : more[i] = log[then[i]]
    BY <1>2, <2>1, <2>3
  <2>5. \A i, j \in 1 .. Len(more) : i < j => then[i] < then[j]
    <3> SUFFICES ASSUME NEW i \in 1 .. Len(more), NEW j \in 1 .. Len(more), i < j
                 PROVE  then[i] < then[j]
      OBVIOUS
    <3>1. i \in 1 .. n /\ i # n + 1
      BY <1>1, <2>1
    <3>2. CASE j = n + 1
      <4>1. at[i] \in first .. last
        BY <3>1, <1>3
      <4>2. then[i] = at[i] /\ then[j] = last + 1
        BY <2>3, <3>1, <3>2
      <4> QED BY <4>1, <4>2
    <3>3. CASE j # n + 1
      BY <1>2, <2>3, <3>1, <3>3
    <3> QED BY <3>2, <3>3
  <2>6. \A k \in first .. (last + 1) :
          Wanted(s, log[k]) <=> \E i \in 1 .. Len(more) : then[i] = k
    <3> SUFFICES ASSUME NEW k \in first .. (last + 1)
                 PROVE  Wanted(s, log[k]) <=> \E i \in 1 .. Len(more) : then[i] = k
      OBVIOUS
    <3>1. CASE k = last + 1
      BY <1>6, <2>3, <2>3a, <3>1
    <3>2. CASE k # last + 1
      BY <1>2, <1>4, <2>3, <2>3a, <3>2
    <3> QED BY <3>1, <3>2
  <2>7. Selects(s, more, log, first, last + 1)
    BY <2>2, <2>4, <2>5, <2>6 DEF Selects
  <2> QED BY <1>6, <2>7 DEF more
<1> QED BY <1>5, <1>6

\* Nothing is a selection of nothing.
LEMMA SelectsNone ==
  ASSUME NEW s, NEW log, NEW n \in Nat
  PROVE  Selects(s, <<>>, log, n + 1, n)
<1>1. /\ Len(<<>>) = 0 /\ 1 .. 0 = {} /\ (n + 1) .. n = {}
  OBVIOUS
<1>2. [i \in {} |-> 0] \in [{} -> {}]
  OBVIOUS
<1> QED BY <1>1, <1>2 DEF Selects

\* The bus offers an event to a subscriber.
LEMMA Offered ==
  ASSUME NEW s, NEW sub \in Subscriber, NEW log \in Seq(Nat), NEW event \in Nat,
         UpToDate(s, sub, log)
  PROVE  TrySend(sub, event) \in Subscriber /\ UpToDate(s, TrySend(sub, event), Append(log, event))
<1> DEFINE new == TrySend(sub, event)
           long == Append(log, event)
<1>1. /\ new \in Subscriber
      /\ new.from = sub.from /\ new.open = sub.open /\ new.rx = sub.rx
      /\ new.got = sub.got /\ new.outer = sub.outer /\ new.held = sub.held
      /\ \/ new.inner = Append(sub.inner, event) /\ sub.list /\ sub.open
         \/ new.inner = sub.inner /\ ~new.list
  <2>1. CASE sub.list /\ sub.open /\ Len(sub.inner) < BufferSize
    <3>1. new = [sub EXCEPT !.inner = Append(sub.inner, event)]
      BY <2>1 DEF TrySend
    <3>2. Append(sub.inner, event) \in Seq(Nat)
      BY DEF Subscriber
    <3> HIDE DEF new
    <3> QED BY <2>1, <3>1, <3>2 DEF Subscriber
  <2>2. CASE ~(sub.list /\ sub.open /\ Len(sub.inner) < BufferSize)
    <3>1. new = [sub EXCEPT !.list = FALSE]
      BY <2>2 DEF TrySend
    <3> HIDE DEF new
    <3> QED BY <3>1 DEF Subscriber
  <2> QED BY <2>1, <2>2
<1>2. Seen(new) = Seen(sub)
  BY <1>1 DEF Seen
<1>3. PICK read, cut \in sub.from .. Len(log) :
        /\ Selects(s, Seen(sub), log, sub.from + 1, read)
        /\ sub.inner = SubSeq(log, read + 1, cut) /\ read <= cut
        /\ sub.list /\ sub.open => cut = Len(log)
  BY DEF UpToDate
<1>4. sub.from \in Nat /\ Len(log) \in Nat /\ Len(long) = Len(log) + 1 /\ long \in Seq(Nat)
  BY DEF Subscriber
<1> HIDE DEF new, long
<1>4a. PICK f, l \in Nat : f = sub.from /\ l = Len(log) /\ Len(long) = l + 1
  BY <1>4
<1>5. /\ read \in 0 .. Len(log) /\ cut \in read .. Len(log) /\ sub.from + 1 \in Nat \ {0}
      /\ read \in sub.from .. Len(long) /\ cut \in sub.from .. Len(long)
      /\ Len(long) \in sub.from .. Len(long) /\ read <= Len(long)
  <2>1. read \in f .. l /\ cut \in f .. l /\ read <= cut
    BY <1>3, <1>4a
  <2>2. /\ read \in 0 .. l /\ cut \in read .. l /\ f + 1 \in Nat \ {0}
        /\ read \in f .. (l + 1) /\ cut \in f .. (l + 1)
        /\ l + 1 \in f .. (l + 1) /\ read <= l + 1
    BY ONLY <2>1, f \in Nat, l \in Nat
  <2> QED BY <1>4a, <2>2
<1>6. Selects(s, Seen(new), long, new.from + 1, read)
  BY <1>1, <1>2, <1>3, <1>5, SelectsLonger DEF long
<1>7. CASE new.inner = Append(sub.inner, event) /\ sub.list /\ sub.open
  <2>1. cut = Len(log)
    BY <1>3, <1>7
  <2>2. SubSeq(long, read + 1, cut + 1) = Append(SubSeq(log, read + 1, cut), event)
    BY <1>5, <2>1, LogPartLonger DEF long
  <2>3. new.inner = SubSeq(long, read + 1, Len(long))
    BY <1>3, <1>4, <1>7, <2>1, <2>2
  <2>4. \E r, c \in new.from .. Len(long) :
          /\ Selects(s, Seen(new), long, new.from + 1, r)
          /\ new.inner = SubSeq(long, r + 1, c) /\ r <= c
          /\ new.list /\ new.open => c = Len(long)
    BY <1>1, <1>5, <1>6, <2>3
  <2>5. (new.rx => new.open) /\ (s \notin Filter => new.outer = <<>> /\ new.held = <<>>)
    BY <1>1 DEF UpToDate
  <2>6. UpToDate(s, new, long)
    BY ONLY <2>4, <2>5, Zenon DEF UpToDate
  <2> QED BY <1>1, <2>6 DEF new, long
<1>8. CASE new.inner = sub.inner /\ ~new.list
  <2>1. new.inner = SubSeq(long, read + 1, cut)
    BY <1>3, <1>5, <1>8, LogPartLonger DEF long
  <2>2. \E r, c \in new.from .. Len(long) :
          /\ Selects(s, Seen(new), long, new.from + 1, r)
          /\ new.inner = SubSeq(long, r + 1, c) /\ r <= c
          /\ new.list /\ new.open => c = Len(long)
    BY <1>1, <1>3, <1>5, <1>6, <1>8, <2>1
  <2>3. (new.rx => new.open) /\ (s \notin Filter => new.outer = <<>> /\ new.held = <<>>)
    BY <1>1 DEF UpToDate
  <2>4. UpToDate(s, new, long)
    BY ONLY <2>2, <2>3, Zenon DEF UpToDate
  <2> QED BY <1>1, <2>4 DEF new, long
<1> QED BY <1>1, <1>7, <1>8 DEF new, long

\* What a subscriber, or the forwarder for it, takes from the channel goes on
\* from what it has seen.
LEMMA TakenOver ==
  ASSUME NEW s, NEW sub \in Subscriber, NEW new \in Subscriber, NEW log \in Seq(Nat),
         UpToDate(s, sub, log), sub.inner # <<>>,
         new.inner = Tail(sub.inner), new.from = sub.from,
         new.list = sub.list, new.open = sub.open, new.rx = sub.rx,
         s \notin Filter => new.outer = <<>> /\ new.held = <<>>,
         Seen(new) = IF Wanted(s, Head(sub.inner)) THEN Append(Seen(sub), Head(sub.inner))
                     ELSE Seen(sub)
  PROVE  UpToDate(s, new, log)
<1>1. PICK read, cut \in sub.from .. Len(log) :
        /\ Selects(s, Seen(sub), log, sub.from + 1, read)
        /\ sub.inner = SubSeq(log, read + 1, cut) /\ read <= cut
        /\ sub.list /\ sub.open => cut = Len(log)
  BY DEF UpToDate
<1>2. PICK f, l \in Nat : f = sub.from /\ l = Len(log)
  <2>1. sub.from \in Nat /\ Len(log) \in Nat
    BY DEF Subscriber
  <2> QED BY <2>1
<1>3. read \in 0 .. Len(log) /\ cut \in read .. Len(log)
  <2>1. read \in f .. l /\ cut \in f .. l /\ read <= cut
    BY <1>1, <1>2
  <2>2. read \in 0 .. l /\ cut \in read .. l
    BY ONLY <2>1, f \in Nat, l \in Nat
  <2> QED BY <1>2, <2>2
<1>4. /\ read < cut
      /\ Head(sub.inner) = log[read + 1]
      /\ Tail(sub.inner) = SubSeq(log, read + 2, cut)
  BY <1>1, <1>3, LogPart
<1>5. /\ read \in Nat /\ read + 1 \in f .. l /\ cut \in f .. l
      /\ read + 1 <= l /\ f + 1 \in Nat \ {0} /\ f + 1 <= read + 1 /\ read + 1 <= cut
      /\ (read + 1) + 1 = read + 2
  <2>1. read \in f .. l /\ cut \in f .. l /\ read < cut
    BY <1>1, <1>2, <1>4
  <2> QED BY ONLY <2>1, f \in Nat, l \in Nat
<1>6. Seen(sub) \in Seq(Nat)
  BY DEF Seen, Subscriber
<1>7. Selects(s, Seen(new), log, f + 1, read + 1)
  <2>1. Selects(s, IF Wanted(s, log[read + 1]) THEN Append(Seen(sub), log[read + 1])
                   ELSE Seen(sub), log, f + 1, read + 1)
    BY <1>1, <1>2, <1>5, <1>6, SelectsNext
  <2> QED BY <1>4, <2>1
<1>8. new.inner = SubSeq(log, (read + 1) + 1, cut)
  BY <1>4, <1>5
<1>9. \E r, c \in new.from .. Len(log) :
        /\ Selects(s, Seen(new), log, new.from + 1, r)
        /\ new.inner = SubSeq(log, r + 1, c) /\ r <= c
        /\ new.list /\ new.open => c = Len(log)
  BY <1>1, <1>2, <1>5, <1>7, <1>8
<1>10. new.rx => new.open
  BY DEF UpToDate
<1> QED BY ONLY <1>9, <1>10, s \notin Filter => new.outer = <<>> /\ new.held = <<>>, Zenon
        DEF UpToDate

\* Nothing changes for a subscriber that has seen the same and for which the
\* bus can do no more than before.
LEMMA SameSeen ==
  ASSUME NEW s, NEW sub \in Subscriber, NEW new \in Subscriber, NEW log \in Seq(Nat),
         UpToDate(s, sub, log),
         new.inner = sub.inner, new.from = sub.from, new.list = sub.list,
         Seen(new) = Seen(sub), new.open => sub.open, new.rx => new.open,
         s \notin Filter => new.outer = <<>> /\ new.held = <<>>
  PROVE  UpToDate(s, new, log)
<1>1. PICK read, cut \in sub.from .. Len(log) :
        /\ Selects(s, Seen(sub), log, sub.from + 1, read)
        /\ sub.inner = SubSeq(log, read + 1, cut) /\ read <= cut
        /\ sub.list /\ sub.open => cut = Len(log)
  BY DEF UpToDate
<1>2. \E r, c \in new.from .. Len(log) :
        /\ Selects(s, Seen(new), log, new.from + 1, r)
        /\ new.inner = SubSeq(log, r + 1, c) /\ r <= c
        /\ new.list /\ new.open => c = Len(log)
  BY <1>1
<1> QED BY ONLY <1>2, new.rx => new.open,
           s \notin Filter => new.outer = <<>> /\ new.held = <<>>, Zenon
        DEF UpToDate

\* One subscriber changes.
LEMMA OneSubscriber ==
  ASSUME BusInv, NEW s \in DOMAIN subs, NEW new \in Subscriber, UpToDate(s, new, sent),
         subs' = [subs EXCEPT ![s] = new],
         UNCHANGED <<published, offering, sent>>
  PROVE  BusInv'
<1>1. /\ DOMAIN subs' = DOMAIN subs /\ subs' \in [DOMAIN subs -> Subscriber]
      /\ \A x \in DOMAIN subs : subs'[x] = IF x = s THEN new ELSE subs[x]
  BY DEF BusInv, BusTypes
<1>2. \A x \in DOMAIN subs : UpToDate(x, subs'[x], sent)
  BY <1>1 DEF BusInv
<1> QED BY <1>1, <1>2 DEF BusInv, BusTypes

\* The forwarder moves an event on, in order, or ends with its subscriber.
LEMMA ForwardKeeps ==
  ASSUME BusInv, NEW s \in Subscribers, Forward(s)
  PROVE  BusInv'
<1>1. PICK sub \in Subscriber : sub = subs[s]
  BY DEF BusInv, BusTypes, Forward
<1>2. /\ s \in Filter /\ s \in DOMAIN subs /\ UpToDate(s, sub, sent) /\ sub.open
      /\ sent \in Seq(Nat) /\ UNCHANGED <<published, offering, sent>>
  BY <1>1 DEF Forward, BusInv, BusTypes
<1>3. /\ sub.inner \in Seq(Nat) /\ sub.held \in Seq(Nat) /\ sub.outer \in Seq(Nat)
      /\ sub.got \in Seq(Nat)
  BY DEF Subscriber
<1>4. CASE /\ sub.held = <<>> /\ sub.inner # <<>>
           /\ subs' = [subs EXCEPT ![s].inner = Tail(@),
                         ![s].held = IF Wanted(s, Head(sub.inner)) THEN <<Head(sub.inner)>>
                                     ELSE <<>>]
  <2>1. PICK event \in Nat, rest \in Seq(Nat) : event = Head(sub.inner) /\ rest = Tail(sub.inner)
    <3>1. Head(sub.inner) \in Nat /\ Tail(sub.inner) \in Seq(Nat)
      BY <1>3, <1>4, SeqParts
    <3> QED BY <3>1
  <2>2. PICK held \in Seq(Nat) : held = IF Wanted(s, event) THEN <<event>> ELSE <<>>
    <3>1. <<event>> \in Seq(Nat) /\ <<>> \in Seq(Nat)
      OBVIOUS
    <3> QED BY <3>1
  <2> DEFINE new == [sub EXCEPT !.inner = rest, !.held = held]
  <2>3. subs' = [subs EXCEPT ![s] = new]
    BY <1>1, <1>4, <2>1, <2>2
  <2>4. /\ new \in Subscriber /\ new.inner = rest /\ new.held = held
        /\ new.outer = sub.outer /\ new.got = sub.got /\ new.from = sub.from
        /\ new.list = sub.list /\ new.open = sub.open /\ new.rx = sub.rx
    BY DEF Subscriber
  <2> HIDE DEF new
  <2>5. PICK seen \in Seq(Nat) : seen = sub.got \o sub.outer
    <3>1. sub.got \o sub.outer \in Seq(Nat)
      BY <1>3
    <3> QED BY <3>1
  <2>6. Seen(sub) = seen /\ Seen(new) = seen \o held
    <3>1. seen \o <<>> = seen
      BY SeqParts
    <3> QED BY <1>4, <2>4, <2>5, <3>1 DEF Seen
  <2>7. Seen(new) = IF Wanted(s, Head(sub.inner)) THEN Append(Seen(sub), Head(sub.inner))
                    ELSE Seen(sub)
    <3>1. seen \o <<>> = seen /\ seen \o <<event>> = Append(seen, event)
      BY SeqParts, MoveOne
    <3> QED BY <2>1, <2>2, <2>6, <3>1
  <2>8. UpToDate(s, new, sent)
    BY <1>2, <1>4, <2>1, <2>4, <2>7, TakenOver
  <2> QED BY <1>2, <2>3, <2>4, <2>8, OneSubscriber
<1>5. CASE /\ sub.held # <<>> /\ sub.rx
           /\ subs' = [subs EXCEPT ![s].held = <<>>, ![s].outer = @ \o sub.held]
  <2>1. PICK outer \in Seq(Nat) : outer = sub.outer \o sub.held
    <3>1. sub.outer \o sub.held \in Seq(Nat)
      BY <1>3
    <3> QED BY <3>1
  <2>1a. PICK none \in Seq(Nat) : none = <<>>
    <3>1. <<>> \in Seq(Nat)
      OBVIOUS
    <3> QED BY <3>1
  <2> DEFINE new == [sub EXCEPT !.held = none, !.outer = outer]
  <2>2. subs' = [subs EXCEPT ![s] = new]
    BY <1>1, <1>5, <2>1, <2>1a
  <2>3. /\ new \in Subscriber /\ new.inner = sub.inner /\ new.held = none
        /\ new.outer = outer /\ new.got = sub.got /\ new.from = sub.from
        /\ new.list = sub.list /\ new.open = sub.open /\ new.rx = sub.rx
    BY DEF Subscriber
  <2> HIDE DEF new
  <2>4. Seen(new) = Seen(sub)
    <3>1. PICK got \in Seq(Nat), out \in Seq(Nat), held \in Seq(Nat) :
            got = sub.got /\ out = sub.outer /\ held = sub.held
      BY <1>3
    <3>2. (got \o (out \o held)) \o <<>> = (got \o out) \o held
      <4>1. out \o held \in Seq(Nat) /\ (got \o out) \o held \in Seq(Nat)
        OBVIOUS
      <4>2. (got \o out) \o held = got \o (out \o held)
        BY Associates
      <4> QED BY <4>1, <4>2, SeqParts
    <3> QED BY <2>1, <2>1a, <2>3, <3>1, <3>2 DEF Seen
  <2>5. UpToDate(s, new, sent)
    BY <1>2, <2>3, <2>4, SameSeen
  <2> QED BY <1>2, <2>2, <2>3, <2>5, OneSubscriber
<1>6. CASE ~sub.rx /\ subs' = [subs EXCEPT ![s].open = FALSE]
  <2> DEFINE new == [sub EXCEPT !.open = FALSE]
  <2>1. subs' = [subs EXCEPT ![s] = new]
    BY <1>1, <1>6
  <2>2. /\ new \in Subscriber /\ new.inner = sub.inner /\ new.held = sub.held
        /\ new.outer = sub.outer /\ new.got = sub.got /\ new.from = sub.from
        /\ new.list = sub.list /\ ~new.open /\ ~new.rx
    BY <1>6 DEF Subscriber
  <2> HIDE DEF new
  <2>3. Seen(new) = Seen(sub)
    BY <2>2 DEF Seen
  <2>4. UpToDate(s, new, sent)
    BY <1>2, <2>2, <2>3, SameSeen
  <2> QED BY <1>2, <2>1, <2>2, <2>4, OneSubscriber
<1> QED BY <1>1, <1>4, <1>5, <1>6 DEF Forward

\* A subscriber takes its oldest event.
LEMMA ReceiveKeeps ==
  ASSUME BusInv, NEW s \in Subscribers, Receive(s)
  PROVE  BusInv'
<1>1. PICK sub \in Subscriber : sub = subs[s]
  BY DEF BusInv, BusTypes, Receive
<1>2. /\ s \in DOMAIN subs /\ UpToDate(s, sub, sent) /\ sub.rx
      /\ sent \in Seq(Nat) /\ UNCHANGED <<published, offering, sent>>
  BY <1>1 DEF Receive, BusInv, BusTypes
<1>3. /\ sub.inner \in Seq(Nat) /\ sub.held \in Seq(Nat) /\ sub.outer \in Seq(Nat)
      /\ sub.got \in Seq(Nat)
  BY DEF Subscriber
<1>4. CASE /\ s \notin Filter /\ sub.inner # <<>>
           /\ subs' = [subs EXCEPT ![s].inner = Tail(@), ![s].got = Append(@, Head(sub.inner))]
  <2>1. PICK event \in Nat, rest \in Seq(Nat) : event = Head(sub.inner) /\ rest = Tail(sub.inner)
    <3>1. Head(sub.inner) \in Nat /\ Tail(sub.inner) \in Seq(Nat)
      BY <1>3, <1>4, SeqParts
    <3> QED BY <3>1
  <2>2. PICK got \in Seq(Nat) : got = Append(sub.got, event)
    <3>1. Append(sub.got, event) \in Seq(Nat)
      BY <1>3
    <3> QED BY <3>1
  <2> DEFINE new == [sub EXCEPT !.inner = rest, !.got = got]
  <2>3. subs' = [subs EXCEPT ![s] = new]
    BY <1>1, <1>4, <2>1, <2>2
  <2>4. /\ new \in Subscriber /\ new.inner = rest /\ new.held = sub.held
        /\ new.outer = sub.outer /\ new.got = got /\ new.from = sub.from
        /\ new.list = sub.list /\ new.open = sub.open /\ new.rx = sub.rx
    BY DEF Subscriber
  <2> HIDE DEF new
  <2>5. sub.outer = <<>> /\ sub.held = <<>>
    BY <1>2, <1>4 DEF UpToDate
  <2>6. Seen(sub) = sub.got /\ Seen(new) = got
    <3>1. sub.got \o <<>> = sub.got /\ got \o <<>> = got
      BY <1>3, SeqParts
    <3> QED BY <2>4, <2>5, <3>1 DEF Seen
  <2>7. Wanted(s, event)
    BY <1>4 DEF Wanted
  <2>8. UpToDate(s, new, sent)
    BY <1>2, <1>4, <2>1, <2>2, <2>4, <2>5, <2>6, <2>7, TakenOver
  <2> QED BY <1>2, <2>3, <2>4, <2>8, OneSubscriber
<1>5. CASE /\ s \in Filter /\ sub.outer # <<>>
           /\ subs' = [subs EXCEPT ![s].outer = Tail(@), ![s].got = Append(@, Head(sub.outer))]
  <2>1. PICK event \in Nat, rest \in Seq(Nat) : event = Head(sub.outer) /\ rest = Tail(sub.outer)
    <3>1. Head(sub.outer) \in Nat /\ Tail(sub.outer) \in Seq(Nat)
      BY <1>3, <1>5, SeqParts
    <3> QED BY <3>1
  <2>2. PICK got \in Seq(Nat) : got = Append(sub.got, event)
    <3>1. Append(sub.got, event) \in Seq(Nat)
      BY <1>3
    <3> QED BY <3>1
  <2> DEFINE new == [sub EXCEPT !.outer = rest, !.got = got]
  <2>3. subs' = [subs EXCEPT ![s] = new]
    BY <1>1, <1>5, <2>1, <2>2
  <2>4. /\ new \in Subscriber /\ new.inner = sub.inner /\ new.held = sub.held
        /\ new.outer = rest /\ new.got = got /\ new.from = sub.from
        /\ new.list = sub.list /\ new.open = sub.open /\ new.rx = sub.rx
    BY DEF Subscriber
  <2> HIDE DEF new
  <2>5. got \o rest = sub.got \o sub.outer
    BY <1>3, <1>5, <2>1, <2>2, MoveHead
  <2>6. Seen(new) = Seen(sub)
    BY <2>4, <2>5 DEF Seen
  <2>7. new.rx => new.open
    BY <1>2, <2>4 DEF UpToDate
  <2>8. UpToDate(s, new, sent)
    BY <1>2, <1>5, <2>4, <2>6, <2>7, SameSeen
  <2> QED BY <1>2, <2>3, <2>4, <2>8, OneSubscriber
<1> QED BY <1>1, <1>4, <1>5 DEF Receive

\* A subscriber goes away.
LEMMA UnsubscribeKeeps ==
  ASSUME BusInv, NEW s \in Subscribers, Unsubscribe(s)
  PROVE  BusInv'
<1>1. PICK sub \in Subscriber : sub = subs[s]
  BY DEF BusInv, BusTypes, Unsubscribe
<1>2. /\ s \in DOMAIN subs /\ UpToDate(s, sub, sent)
      /\ sent \in Seq(Nat) /\ UNCHANGED <<published, offering, sent>>
  BY <1>1 DEF Unsubscribe, BusInv, BusTypes
<1>3. PICK open \in BOOLEAN : open = (sub.open /\ s \in Filter)
  OBVIOUS
<1> DEFINE new == [sub EXCEPT !.rx = FALSE, !.open = open]
<1>4. subs' = [subs EXCEPT ![s] = new]
  BY <1>1, <1>3 DEF Unsubscribe
<1>5. /\ new \in Subscriber /\ new.inner = sub.inner /\ new.held = sub.held
      /\ new.outer = sub.outer /\ new.got = sub.got /\ new.from = sub.from
      /\ new.list = sub.list /\ new.open = open /\ new.rx = FALSE
  BY DEF Subscriber
<1> HIDE DEF new
<1>6. Seen(new) = Seen(sub)
  BY <1>5 DEF Seen
<1>7. UpToDate(s, new, sent)
  <2>1. (new.open => sub.open) /\ (new.rx => new.open)
    BY <1>3, <1>5
  <2>2. s \notin Filter => new.outer = <<>> /\ new.held = <<>>
    BY <1>2, <1>5 DEF UpToDate
  <2> QED BY <1>2, <1>5, <1>6, <2>1, <2>2, SameSeen
<1> QED BY <1>2, <1>4, <1>5, <1>7, OneSubscriber

\* A new subscriber has seen all of nothing.
LEMMA SubscribeKeeps ==
  ASSUME BusInv, NEW s \in Subscribers, Subscribe(s)
  PROVE  BusInv'
<1>1. /\ sent \in Seq(Nat) /\ Len(sent) \in Nat
      /\ UNCHANGED <<published, offering, sent>>
  BY DEF BusInv, BusTypes, Subscribe
<1>2. /\ NewSubscriber \in Subscriber /\ (NewSubscriber.rx => NewSubscriber.open)
      /\ NewSubscriber.inner = <<>> /\ NewSubscriber.outer = <<>> /\ NewSubscriber.held = <<>>
      /\ NewSubscriber.got = <<>> /\ NewSubscriber.from = Len(sent)
  BY <1>1 DEF NewSubscriber, Subscriber
<1>3. UpToDate(s, NewSubscriber, sent)
  <2>1. PICK n \in Nat : n = Len(sent)
    BY <1>1
  <2>2. Seen(NewSubscriber) = <<>>
    BY <1>2 DEF Seen
  <2>3. Selects(s, <<>>, sent, n + 1, n)
    BY <2>1, SelectsNone
  <2>4. SubSeq(sent, n + 1, n) = <<>> /\ n \in n .. n /\ n <= n
    BY <1>1, <2>1
  <2>5. \E r, c \in NewSubscriber.from .. Len(sent) :
          /\ Selects(s, Seen(NewSubscriber), sent, NewSubscriber.from + 1, r)
          /\ NewSubscriber.inner = SubSeq(sent, r + 1, c) /\ r <= c
          /\ NewSubscriber.list /\ NewSubscriber.open => c = Len(sent)
    BY <1>2, <2>1, <2>2, <2>3, <2>4
  <2> QED BY ONLY <1>2, <2>5, Zenon DEF UpToDate
<1>4. /\ DOMAIN subs' = DOMAIN subs \cup {s} /\ subs' \in [DOMAIN subs' -> Subscriber]
      /\ \A x \in DOMAIN subs' : subs'[x] = IF x = s THEN NewSubscriber ELSE subs[x]
  <2>1. subs' = [x \in DOMAIN subs \cup {s} |-> IF x = s THEN NewSubscriber ELSE subs[x]]
    BY DEF Subscribe
  <2>2. \A x \in DOMAIN subs \cup {s} :
          (IF x = s THEN NewSubscriber ELSE subs[x]) \in Subscriber
    BY <1>2 DEF BusInv, BusTypes
  <2> QED BY <2>1, <2>2
<1>5. \A x \in DOMAIN subs' : UpToDate(x, subs'[x], sent)
  BY <1>3, <1>4 DEF BusInv
<1> QED BY <1>1, <1>4, <1>5 DEF BusInv, BusTypes

\* An event is sent to all of them at once, under the lock.
LEMMA SendKeeps ==
  ASSUME BusInv, NEW p \in Publishers, Send(p)
  PROVE  BusInv'
<1>1. PICK event \in Nat : event = offering[p]
  BY BusAssumption DEF BusInv, BusTypes, Send
<1>2. /\ sent \in Seq(Nat) /\ sent' = Append(sent, event) /\ sent' \in Seq(Nat)
      /\ offering' \in [Publishers -> Nat \cup {NoEvent}]
  BY <1>1 DEF BusInv, BusTypes, Send
<1>3. /\ DOMAIN subs' = DOMAIN subs
      /\ \A x \in DOMAIN subs : subs'[x] = TrySend(subs[x], event)
      /\ subs' = [x \in DOMAIN subs |-> TrySend(subs[x], event)]
  BY <1>1 DEF Send
<1>4. \A x \in DOMAIN subs : TrySend(subs[x], event) \in Subscriber
                             /\ UpToDate(x, TrySend(subs[x], event), Append(sent, event))
  BY <1>2, Offered DEF BusInv, BusTypes
<1>5. subs' \in [DOMAIN subs' -> Subscriber]
  BY <1>3, <1>4
<1>6. \A x \in DOMAIN subs' : UpToDate(x, subs'[x], sent')
  BY <1>2, <1>3, <1>4
<1> QED BY <1>2, <1>5, <1>6 DEF BusInv, BusTypes, Send

\* Every step of the bus keeps its invariant.
LEMMA BusStep ==
  ASSUME BusInv, [BusNext]_busVars
  PROVE  BusInv'
<1>1. CASE \E p \in Publishers : Record(p)
  <2>1. UNCHANGED <<sent, subs>> /\ published' \in Nat
        /\ offering' \in [Publishers -> Nat \cup {NoEvent}]
    BY <1>1 DEF Record, BusInv, BusTypes
  <2> QED BY <2>1 DEF BusInv, BusTypes
<1>2. CASE ClearHistory \/ UNCHANGED busVars
  BY <1>2 DEF ClearHistory, busVars, BusInv, BusTypes
<1> QED BY <1>1, <1>2, SendKeeps, SubscribeKeeps, ForwardKeeps, ReceiveKeeps, UnsubscribeKeeps
        DEF BusNext

\* No subscriber misses an event it wants and gets a later one.
THEOREM SubscribersMissNothing == BusSpec => []NoGaps
<1>1. BusInit => BusInv
  BY DEF BusInit, BusInv, BusTypes
<1>2. BusInv /\ [BusNext]_busVars => BusInv'
  BY BusStep
<1>3. ASSUME BusInv PROVE NoGaps
  <2> SUFFICES ASSUME NEW s \in DOMAIN subs
               PROVE  \E read, cut \in subs[s].from .. Len(sent) :
                        /\ Selects(s, Seen(subs[s]), sent, subs[s].from + 1, read)
                        /\ subs[s].inner = SubSeq(sent, read + 1, cut) /\ read <= cut
                        /\ subs[s].list /\ subs[s].rx => cut = Len(sent)
    BY DEF NoGaps
  <2> QED BY <1>3 DEF BusInv, UpToDate
<1> QED BY <1>1, <1>2, <1>3, PTL DEF BusSpec

-----------------------------------------------------------------------------
(* The log capture.                                                         *)

\* A character and where it comes from; no entry is without one.
LogChar == Outputs \X Nat
\* An entry of the log.
LogEntry == [stream : {"stdout", "stderr"}, message : Seq(LogChar) \ {<<>>}]
\* An output: what it is writing, how much it wrote and where lines ended.
LogOutput == [open : BOOLEAN, line : Seq(LogChar), count : Nat, ends : SUBSET Nat]
\* The types of the log and its outputs.
LogTypes ==
  /\ entries \in Seq(LogEntry) /\ Len(entries) <= Capacity
  /\ outputs \in [Outputs -> LogOutput]

\* Every entry of an output ends before its line buffer starts ...
EntriesBefore(o, log, out) ==
  \A i \in EntriesOf(o, log) :
    Start(i, log, out) + Len(Piece(i, log, out)) <= Start(Len(log) + 1, log, out)

\* ... as does every line.
LineIsNew(out) ==
  Len(out.line) <= out.count /\ \A e \in out.ends : e <= out.count - Len(out.line)

\* What the log and the line buffer of an output hold is the end of its text,
\* cut into lines.
LogOf(o, log, out) ==
  /\ Whole(o, log, out) /\ Adjacent(o, log, out) /\ OneLine(o, log, out)
  /\ EntriesBefore(o, log, out) /\ LineIsNew(out)

\* The beginning of the text is there.
NothingLost(o, log, out) == \E i \in Pieces(o, log) : Start(i, log, out) <= 1

\* The inductive invariant of the log.
LogInv ==
  /\ LogTypes
  /\ \A o \in Outputs : LogOf(o, entries, outputs[o])
  /\ \A o \in Outputs : NothingLost(o, entries, outputs[o]) \/ Len(entries) = Capacity

\* The pieces of a log of n entries, by position.
AtPositions(o, log, out, n) ==
  /\ \A i : i \in EntriesOf(o, log) <=> i \in 1..n /\ log[i].message[1][1] = o
  /\ \A i : i \in Pieces(o, log) <=> i \in EntriesOf(o, log) \/ i = n + 1
  /\ \A i \in Pieces(o, log) : i \in Nat /\ 1 <= i /\ i <= n + 1
  /\ \A i \in 1..n : /\ Piece(i, log, out) = log[i].message
       /\ Start(i, log, out) = log[i].message[1][2]
       /\ Start(i, log, out) \in Nat
       /\ Len(Piece(i, log, out)) \in Nat \ {0}
  /\ Piece(n + 1, log, out) = out.line
  /\ Start(n + 1, log, out) = out.count + 1 - Len(out.line)
  /\ Start(n + 1, log, out) \in Int /\ Len(Piece(n + 1, log, out)) \in Nat
  /\ LineIsNew(out) => Start(n + 1, log, out) \in Nat \ {0}

\* They are what the definitions of the properties say.
LEMMA PiecesByPosition ==
  ASSUME NEW o \in Outputs, NEW log \in Seq(LogEntry), NEW out \in LogOutput,
         NEW n \in Nat, n = Len(log)
  PROVE  AtPositions(o, log, out, n)
<1>1. /\ DOMAIN log = 1..n /\ n + 1 \notin 1..n
      /\ \A i \in 1..n : log[i] \in LogEntry
  OBVIOUS
<1>2. /\ \A i : i \in EntriesOf(o, log) <=> i \in 1..n /\ log[i].message[1][1] = o
      /\ \A i : i \in Pieces(o, log) <=> i \in EntriesOf(o, log) \/ i = n + 1
      /\ \A i \in Pieces(o, log) : i \in Nat /\ 1 <= i /\ i <= n + 1
  BY <1>1 DEF EntriesOf, Pieces
<1>3. /\ out.line \in Seq(LogChar) /\ out.count \in Nat /\ Len(out.line) \in Nat
      /\ out.ends \in SUBSET Nat
  BY DEF LogOutput
<1>4. /\ Piece(n + 1, log, out) = out.line
      /\ Start(n + 1, log, out) = out.count + 1 - Len(out.line)
  BY <1>1 DEF Piece, Start
<1>5. LineIsNew(out) => Start(n + 1, log, out) \in Nat \ {0}
  BY <1>3, <1>4 DEF LineIsNew
<1>6. ASSUME NEW i \in 1..n
      PROVE  /\ Piece(i, log, out) = log[i].message
             /\ Start(i, log, out) = log[i].message[1][2]
             /\ Start(i, log, out) \in Nat
             /\ Len(Piece(i, log, out)) \in Nat \ {0}
  <2>1. log[i].message \in Seq(LogChar) /\ log[i].message # <<>>
    BY <1>1 DEF LogEntry
  <2>2. log[i].message[1] \in LogChar /\ Len(log[i].message) \in Nat \ {0}
    BY <2>1
  <2>3. /\ Piece(i, log, out) = log[i].message
        /\ Start(i, log, out) = log[i].message[1][2]
    BY <1>1 DEF Piece, Start
  <2> QED BY <2>2, <2>3 DEF LogChar
<1> QED BY <1>2, <1>3, <1>4, <1>5, <1>6 DEF AtPositions

\* A log without its oldest entry: every piece that is left moves by one.
LEMMA DroppedEntry ==
  ASSUME NEW o \in Outputs, NEW log \in Seq(LogEntry), log # <<>>, NEW out \in LogOutput,
         LogOf(o, log, out)
  PROVE  LogOf(o, Tail(log), out)
<1>1. PICK n \in Nat : n + 1 = Len(log)
  <2>1. Len(log) - 1 \in Nat /\ (Len(log) - 1) + 1 = Len(log)
    OBVIOUS
  <2> QED BY <2>1
<1>2. PICK rest \in Seq(LogEntry) :
        rest = Tail(log) /\ Len(rest) = n /\ \A i \in 1..n : rest[i] = log[i + 1]
  <2>1. /\ Tail(log) \in Seq(LogEntry) /\ Len(Tail(log)) = n
        /\ \A i \in 1..n : Tail(log)[i] = log[i + 1]
    BY <1>1
  <2> QED BY <2>1
<1>3. LineIsNew(out)
  BY DEF LogOf
<1>2a. AtPositions(o, log, out, n + 1) /\ AtPositions(o, rest, out, n)
  <2>1. n + 1 \in Nat
    OBVIOUS
  <2>2. PICK m \in Nat : m = n + 1
    BY <2>1
  <2>3. AtPositions(o, log, out, m)
    BY ONLY <1>1, <2>2, PiecesByPosition, o \in Outputs, log \in Seq(LogEntry), out \in LogOutput
  <2>4. AtPositions(o, rest, out, n)
    BY ONLY <1>2, PiecesByPosition, o \in Outputs, n \in Nat, out \in LogOutput
  <2> QED BY ONLY <2>2, <2>3, <2>4
<1>4. \A i \in 1..n : i + 1 \in 1..(n + 1) /\ i + 1 # (n + 1) + 1
  BY <1>1
<1>5. ASSUME NEW i \in EntriesOf(o, rest) PROVE i \in 1..n /\ i + 1 \in EntriesOf(o, log)
  <2>1. i \in 1..n /\ rest[i].message[1][1] = o
    BY <1>2a DEF AtPositions
  <2>2. i + 1 \in 1..(n + 1) /\ log[i + 1].message[1][1] = o
    BY <1>2, <1>4, <2>1
  <2> QED BY <1>2a, <2>1, <2>2 DEF AtPositions
<1>6. /\ \A i \in Pieces(o, rest) :
           /\ i \in Nat /\ i + 1 \in Pieces(o, log)
           /\ Piece(i, rest, out) = Piece(i + 1, log, out)
           /\ Start(i, rest, out) = Start(i + 1, log, out)
      /\ \A m \in Pieces(o, log) : m \in Nat /\ (m = 1 \/ m - 1 \in Pieces(o, rest))
      /\ Start(n + 1, rest, out) = Start((n + 1) + 1, log, out)
  <2>1. ASSUME NEW i \in 1..n
        PROVE  /\ Piece(i, rest, out) = Piece(i + 1, log, out)
               /\ Start(i, rest, out) = Start(i + 1, log, out)
    <3>1. i + 1 \in 1..(n + 1) /\ rest[i] = log[i + 1]
      BY <1>2, <1>4
    <3>2. /\ Piece(i + 1, log, out) = log[i + 1].message
          /\ Start(i + 1, log, out) = log[i + 1].message[1][2]
      BY ONLY <1>2a, <3>1 DEF AtPositions
    <3>3. /\ Piece(i, rest, out) = rest[i].message
          /\ Start(i, rest, out) = rest[i].message[1][2]
      BY ONLY <1>2a, i \in 1..n DEF AtPositions
    <3> QED BY <3>1, <3>2, <3>3
  <2>2. /\ Piece(n + 1, rest, out) = Piece((n + 1) + 1, log, out)
        /\ Start(n + 1, rest, out) = Start((n + 1) + 1, log, out)
    BY <1>2, <1>2a DEF AtPositions
  <2>3. /\ \A i : i \in Pieces(o, rest)
                   <=> (i \in 1..n /\ rest[i].message[1][1] = o) \/ i = n + 1
        /\ \A i : i \in Pieces(o, log)
                   <=> (i \in 1..(n + 1) /\ log[i].message[1][1] = o) \/ i = (n + 1) + 1
    BY <1>2, <1>2a DEF AtPositions
  <2>4. ASSUME NEW i \in Pieces(o, rest)
        PROVE  i \in Nat /\ i + 1 \in Pieces(o, log)
    <3>1. CASE i = n + 1
      BY <2>3, <3>1
    <3>2. CASE i \in 1..n /\ rest[i].message[1][1] = o
      BY <1>2, <1>4, <2>3, <3>2
    <3> QED BY <2>3, <3>1, <3>2
  <2>5. ASSUME NEW m \in Pieces(o, log)
        PROVE  m \in Nat /\ (m = 1 \/ m - 1 \in Pieces(o, rest))
    <3>1. CASE m = (n + 1) + 1
      <4>1. m \in Nat /\ m - 1 = n + 1
        BY <3>1
      <4> QED BY <2>3, <4>1
    <3>2. CASE m \in 1..(n + 1) /\ m # 1 /\ log[m].message[1][1] = o
      <4>1. PICK k \in 1..n : m = k + 1
        <5>1. m - 1 \in 1..n /\ m = (m - 1) + 1
          BY <3>2
        <5> QED BY <5>1
      <4>2. rest[k].message[1][1] = o /\ m - 1 = k /\ m \in Nat
        BY <1>2, <3>2, <4>1
      <4> QED BY <2>3, <4>1, <4>2
    <3>3. CASE m = 1
      BY <3>3
    <3> QED BY <2>3, <3>1, <3>2, <3>3
  <2> QED BY <2>1, <2>2, <2>3, <2>4, <2>5
<1>7. Whole(o, rest, out)
  BY <1>6 DEF LogOf, Whole
<1>8. Adjacent(o, rest, out)
  <2> SUFFICES ASSUME NEW i \in Pieces(o, rest), NEW j \in Pieces(o, rest), i < j,
                      \A m \in Pieces(o, rest) : m <= i \/ j <= m
               PROVE  Start(j, rest, out) = Start(i, rest, out) + Len(Piece(i, rest, out))
    BY DEF Adjacent
  <2>1. i + 1 < j + 1 /\ i + 1 \in Pieces(o, log) /\ j + 1 \in Pieces(o, log)
    BY <1>6
  <2>2. ASSUME NEW m \in Pieces(o, log) PROVE m <= i + 1 \/ j + 1 <= m
    <3>1. CASE m = 1
      BY <1>6, <3>1
    <3>2. CASE m - 1 \in Pieces(o, rest)
      <4>1. m - 1 <= i \/ j <= m - 1
        BY <3>2
      <4> QED BY <1>6, <4>1
    <3> QED BY <1>6, <3>1, <3>2
  <2>3. Start(j + 1, log, out) = Start(i + 1, log, out) + Len(Piece(i + 1, log, out))
    BY <2>1, <2>2 DEF LogOf, Adjacent
  <2> QED BY <1>6, <2>3
<1>9. OneLine(o, rest, out)
  BY <1>2, <1>5 DEF LogOf, OneLine
<1>10. EntriesBefore(o, rest, out)
  <2>1. \A i \in EntriesOf(o, rest) : i \in Pieces(o, rest)
    BY DEF Pieces
  <2> QED BY <1>1, <1>2, <1>5, <1>6, <2>1 DEF LogOf, EntriesBefore
<1> QED BY <1>2, <1>3, <1>7, <1>8, <1>9, <1>10 DEF LogOf

\* A log with one more entry: those before keep their places.
LEMMA AppendedEntry ==
  ASSUME NEW log \in Seq(LogEntry), NEW entry \in LogEntry, NEW n \in Nat, n = Len(log)
  PROVE  /\ Append(log, entry) \in Seq(LogEntry) /\ Len(Append(log, entry)) = n + 1
         /\ \A i \in 1..n : Append(log, entry)[i] = log[i] /\ i \in 1..(n + 1) /\ i # n + 1
         /\ Append(log, entry)[n + 1] = entry
OBVIOUS

\* An entry of another output is added: only the place of the line changes.
LEMMA OthersEntry ==
  ASSUME NEW o \in Outputs, NEW log \in Seq(LogEntry), NEW out \in LogOutput,
         NEW entry \in LogEntry, entry.message[1][1] # o, LogOf(o, log, out)
  PROVE  /\ LogOf(o, Append(log, entry), out)
         /\ NothingLost(o, log, out) => NothingLost(o, Append(log, entry), out)
<1>1. PICK n \in Nat : n = Len(log)
  OBVIOUS
<1>2. PICK more \in Seq(LogEntry) :
        /\ more = Append(log, entry) /\ Len(more) = n + 1 /\ more[n + 1] = entry
        /\ \A i \in 1..n : more[i] = log[i] /\ i \in 1..(n + 1) /\ i # n + 1
  <2>1. /\ Append(log, entry) \in Seq(LogEntry) /\ Len(Append(log, entry)) = n + 1
        /\ \A i \in 1..n : Append(log, entry)[i] = log[i] /\ i \in 1..(n + 1) /\ i # n + 1
        /\ Append(log, entry)[n + 1] = entry
    BY ONLY <1>1, AppendedEntry, log \in Seq(LogEntry), entry \in LogEntry, n \in Nat
  <2> QED BY ONLY <2>1
<1>3. PICK l \in Nat : l = n + 1
  <2>1. n + 1 \in Nat
    OBVIOUS
  <2> QED BY <2>1
<1>4. AtPositions(o, log, out, n) /\ AtPositions(o, more, out, l)
  <2>1. Len(more) = l
    BY <1>2, <1>3
  <2> QED BY ONLY <1>1, <2>1, PiecesByPosition, o \in Outputs, log \in Seq(LogEntry),
                  more \in Seq(LogEntry), out \in LogOutput, n \in Nat, l \in Nat
<1>5. /\ \A i \in EntriesOf(o, log) :
           /\ i \in 1..n /\ i \in Pieces(o, log) /\ i \in Nat /\ i <= n
           /\ Piece(i, more, out) = Piece(i, log, out)
           /\ Start(i, more, out) = Start(i, log, out)
      /\ \A i : i \in EntriesOf(o, more) <=> i \in EntriesOf(o, log)
  <2>1. ASSUME NEW i, i \in EntriesOf(o, more) PROVE i \in EntriesOf(o, log)
    <3>1. i \in 1..l /\ more[i].message[1][1] = o
      BY ONLY <1>4, <2>1 DEF AtPositions
    <3>2. i # n + 1
      BY <1>2, <3>1
    <3>3. i \in 1..n
      BY <1>3, <3>1, <3>2
    <3>4. log[i].message[1][1] = o
      BY <1>2, <3>1, <3>3
    <3> QED BY ONLY <1>4, <3>3, <3>4 DEF AtPositions
  <2>2. ASSUME NEW i \in EntriesOf(o, log)
        PROVE  /\ i \in 1..n /\ i \in Pieces(o, log) /\ i \in Nat /\ i <= n
               /\ Piece(i, more, out) = Piece(i, log, out)
               /\ Start(i, more, out) = Start(i, log, out)
               /\ i \in EntriesOf(o, more)
    <3>1. i \in 1..n /\ log[i].message[1][1] = o /\ i \in Pieces(o, log)
      BY ONLY <1>4, i \in EntriesOf(o, log) DEF AtPositions
    <3>2. i \in 1..l /\ more[i] = log[i]
      BY <1>2, <1>3, <3>1
    <3>3. /\ Piece(i, more, out) = more[i].message
          /\ Start(i, more, out) = more[i].message[1][2]
      BY ONLY <1>4, <3>2 DEF AtPositions
    <3>4. /\ Piece(i, log, out) = log[i].message
          /\ Start(i, log, out) = log[i].message[1][2]
      BY ONLY <1>4, <3>1 DEF AtPositions
    <3>5. i \in EntriesOf(o, more)
      BY ONLY <1>4, <3>1, <3>2 DEF AtPositions
    <3> QED BY <3>1, <3>2, <3>3, <3>4, <3>5
  <2> QED BY <2>1, <2>2
<1>6. /\ \A i : i \in Pieces(o, log) <=> i \in EntriesOf(o, log) \/ i = n + 1
      /\ \A i : i \in Pieces(o, more) <=> i \in EntriesOf(o, log) \/ i = n + 2
      /\ Piece(n + 2, more, out) = Piece(n + 1, log, out)
      /\ Start(n + 2, more, out) = Start(n + 1, log, out)
  <2>1. /\ \A i : i \in Pieces(o, log) <=> i \in EntriesOf(o, log) \/ i = n + 1
        /\ \A i : i \in Pieces(o, more) <=> i \in EntriesOf(o, more) \/ i = l + 1
        /\ Piece(l + 1, more, out) = Piece(n + 1, log, out)
        /\ Start(l + 1, more, out) = Start(n + 1, log, out)
    BY ONLY <1>4 DEF AtPositions
  <2>2. l + 1 = n + 2
    BY <1>3
  <2> QED BY <1>5, <2>1, <2>2
<1>7. Whole(o, more, out)
  BY <1>5, <1>6 DEF LogOf, Whole
<1>8. Adjacent(o, more, out)
  <2> SUFFICES ASSUME NEW i \in Pieces(o, more), NEW j \in Pieces(o, more), i < j,
                      \A m \in Pieces(o, more) : m <= i \/ j <= m
               PROVE  Start(j, more, out) = Start(i, more, out) + Len(Piece(i, more, out))
    BY DEF Adjacent
  <2>1. i \in EntriesOf(o, log) /\ i \in Pieces(o, log) /\ i \in 1..n
    BY <1>5, <1>6
  <2>2. CASE j \in EntriesOf(o, log)
    <3>1. \A m \in Pieces(o, log) : m <= i \/ j <= m
      BY <1>5, <1>6, <2>2
    <3> QED BY <1>5, <2>1, <2>2, <3>1 DEF LogOf, Adjacent
  <2>3. CASE j = n + 2
    <3>1. \A m \in Pieces(o, log) : m <= i \/ n + 1 <= m
      BY <1>5, <1>6, <2>3
    <3>2. i < n + 1 /\ n + 1 \in Pieces(o, log)
      BY <1>6, <2>1
    <3>3. Start(n + 1, log, out) = Start(i, log, out) + Len(Piece(i, log, out))
      BY <2>1, <3>1, <3>2 DEF LogOf, Adjacent
    <3> QED BY <1>5, <1>6, <2>1, <2>3, <3>3
  <2> QED BY <1>6, <2>2, <2>3
<1>9. OneLine(o, more, out)
  BY <1>2, <1>5 DEF LogOf, OneLine
<1>10. EntriesBefore(o, more, out)
  <2>1. Len(more) + 1 = n + 2 /\ Len(log) + 1 = n + 1
    BY <1>1, <1>2
  <2> QED BY <1>5, <1>6, <2>1 DEF LogOf, EntriesBefore
<1>11. NothingLost(o, log, out) => NothingLost(o, more, out)
  BY <1>5, <1>6 DEF NothingLost
<1> QED BY <1>2, <1>7, <1>8, <1>9, <1>10, <1>11 DEF LogOf

\* The line of an output becomes an entry and a new one begins.
LEMMA OwnEntry ==
  ASSUME NEW o \in Outputs, NEW log \in Seq(LogEntry), NEW out \in LogOutput,
         NEW new \in LogOutput, NEW entry \in LogEntry, LogOf(o, log, out),
         out.line # <<>>, entry.stream = Kind[o], entry.message = out.line,
         new.line = <<>>, new.count = out.count, new.ends = out.ends
  PROVE  /\ LogOf(o, Append(log, entry), new)
         /\ NothingLost(o, log, out) => NothingLost(o, Append(log, entry), new)
<1>1. PICK n \in Nat : n = Len(log)
  OBVIOUS
<1>2. PICK more \in Seq(LogEntry) :
        /\ more = Append(log, entry) /\ Len(more) = n + 1 /\ more[n + 1] = entry
        /\ \A i \in 1..n : more[i] = log[i] /\ i \in 1..(n + 1) /\ i # n + 1
  <2>1. /\ Append(log, entry) \in Seq(LogEntry) /\ Len(Append(log, entry)) = n + 1
        /\ \A i \in 1..n : Append(log, entry)[i] = log[i] /\ i \in 1..(n + 1) /\ i # n + 1
        /\ Append(log, entry)[n + 1] = entry
    BY ONLY <1>1, AppendedEntry, log \in Seq(LogEntry), entry \in LogEntry, n \in Nat
  <2> QED BY ONLY <2>1
<1>3. PICK l \in Nat : l = n + 1
  <2>1. n + 1 \in Nat
    OBVIOUS
  <2> QED BY <2>1
<1>4. AtPositions(o, log, out, n) /\ AtPositions(o, more, new, l)
  <2>1. Len(more) = l
    BY <1>2, <1>3
  <2> QED BY ONLY <1>1, <2>1, PiecesByPosition, o \in Outputs, log \in Seq(LogEntry),
                  more \in Seq(LogEntry), out \in LogOutput, new \in LogOutput, n \in Nat,
                  l \in Nat
<1>5. PICK len \in Nat \ {0}, start \in Nat \ {0}, count \in Nat :
        /\ len = Len(out.line) /\ start = Start(n + 1, log, out) /\ count = out.count
        /\ start = count + 1 - len
  <2>1. Len(out.line) \in Nat \ {0} /\ out.count \in Nat
    BY DEF LogOutput
  <2>2. Start(n + 1, log, out) \in Nat \ {0}
    BY ONLY <1>4, LogOf(o, log, out) DEF AtPositions, LogOf
  <2>3. Start(n + 1, log, out) = out.count + 1 - Len(out.line)
    BY ONLY <1>4 DEF AtPositions
  <2> QED BY <2>1, <2>2, <2>3
<1>6. \A k \in 1..len : out.line[k] = <<o, start + k - 1>>
  <2>1. n + 1 \in Pieces(o, log) /\ Piece(n + 1, log, out) = out.line
    BY ONLY <1>4 DEF AtPositions
  <2> QED BY <1>5, <2>1 DEF LogOf, Whole
<1>7. out.line[1][1] = o /\ out.line[1][2] = start
  <2>1. out.line[1] = <<o, start>>
    BY <1>5, <1>6
  <2> QED BY <2>1
<1>8. /\ \A i \in EntriesOf(o, log) :
           /\ i \in 1..n /\ i \in Pieces(o, log) /\ i \in Nat /\ i <= n
           /\ Piece(i, more, new) = Piece(i, log, out)
           /\ Start(i, more, new) = Start(i, log, out)
      /\ \A i : i \in EntriesOf(o, more) <=> i \in EntriesOf(o, log) \/ i = n + 1
      /\ Piece(n + 1, more, new) = out.line /\ Start(n + 1, more, new) = start
      /\ Piece(n + 1, log, out) = out.line
  <2>1. ASSUME NEW i, i \in EntriesOf(o, more) PROVE i \in EntriesOf(o, log) \/ i = n + 1
    <3>1. i \in 1..l /\ more[i].message[1][1] = o
      BY ONLY <1>4, <2>1 DEF AtPositions
    <3>2. CASE i \in 1..n
      <4>1. log[i].message[1][1] = o
        BY <1>2, <3>1, <3>2
      <4> QED BY ONLY <1>4, <3>2, <4>1 DEF AtPositions
    <3> QED BY <1>3, <3>1, <3>2
  <2>2. ASSUME NEW i \in EntriesOf(o, log)
        PROVE  /\ i \in 1..n /\ i \in Pieces(o, log) /\ i \in Nat /\ i <= n
               /\ Piece(i, more, new) = Piece(i, log, out)
               /\ Start(i, more, new) = Start(i, log, out)
               /\ i \in EntriesOf(o, more)
    <3>1. i \in 1..n /\ log[i].message[1][1] = o /\ i \in Pieces(o, log)
      BY ONLY <1>4, i \in EntriesOf(o, log) DEF AtPositions
    <3>2. i \in 1..l /\ more[i] = log[i]
      BY <1>2, <1>3, <3>1
    <3>3. /\ Piece(i, more, new) = more[i].message
          /\ Start(i, more, new) = more[i].message[1][2]
      BY ONLY <1>4, <3>2 DEF AtPositions
    <3>4. /\ Piece(i, log, out) = log[i].message
          /\ Start(i, log, out) = log[i].message[1][2]
      BY ONLY <1>4, <3>1 DEF AtPositions
    <3>5. i \in EntriesOf(o, more)
      BY ONLY <1>4, <3>1, <3>2 DEF AtPositions
    <3> QED BY <3>1, <3>2, <3>3, <3>4, <3>5
  <2>3. /\ Piece(l, more, new) = out.line /\ Start(l, more, new) = start
        /\ l \in EntriesOf(o, more)
    <3>1. l \in 1..l /\ more[l].message = out.line
      BY <1>2, <1>3
    <3>2. /\ Piece(l, more, new) = more[l].message
          /\ Start(l, more, new) = more[l].message[1][2]
      BY ONLY <1>4, <3>1 DEF AtPositions
    <3>3. more[l].message[1][1] = o
      BY <1>7, <3>1
    <3>4. l \in EntriesOf(o, more)
      BY ONLY <1>4, <3>1, <3>3 DEF AtPositions
    <3> QED BY <1>7, <3>1, <3>2, <3>4
  <2>4. Piece(n + 1, log, out) = out.line
    BY ONLY <1>4 DEF AtPositions
  <2> QED BY ONLY <1>3, <2>1, <2>2, <2>3, <2>4
<1>9. /\ \A i : i \in Pieces(o, log) <=> i \in EntriesOf(o, log) \/ i = n + 1
      /\ \A i : i \in Pieces(o, more) <=> i \in Pieces(o, log) \/ i = n + 2
      /\ Piece(n + 2, more, new) = <<>>
      /\ Start(n + 2, more, new) = count + 1
  <2>1. /\ \A i : i \in Pieces(o, log) <=> i \in EntriesOf(o, log) \/ i = n + 1
        /\ \A i : i \in Pieces(o, more) <=> i \in EntriesOf(o, more) \/ i = l + 1
        /\ Piece(l + 1, more, new) = new.line
        /\ Start(l + 1, more, new) = new.count + 1 - Len(new.line)
    BY ONLY <1>4 DEF AtPositions
  <2>2. l + 1 = n + 2 /\ Len(new.line) = 0
    BY <1>3
  <2>3. new.count + 1 - Len(new.line) = count + 1
    BY <1>5, <2>2
  <2> QED BY <1>8, <2>1, <2>2, <2>3
<1>10. \A i \in Pieces(o, log) : /\ i \in Nat /\ i <= n + 1
                                 /\ Piece(i, more, new) = Piece(i, log, out)
                                 /\ Start(i, more, new) = Start(i, log, out)
  BY <1>5, <1>8, <1>9
<1>11. Whole(o, more, new)
  <2>1. ASSUME NEW i \in Pieces(o, log)
        PROVE  \A k \in 1..Len(Piece(i, more, new)) :
                 Piece(i, more, new)[k] = <<o, Start(i, more, new) + k - 1>>
    BY <1>10 DEF LogOf, Whole
  <2>2. \A k \in 1..Len(Piece(n + 2, more, new)) :
          Piece(n + 2, more, new)[k] = <<o, Start(n + 2, more, new) + k - 1>>
    BY <1>9
  <2> QED BY <1>9, <2>1, <2>2 DEF Whole
<1>12. Adjacent(o, more, new)
  <2> SUFFICES ASSUME NEW i \in Pieces(o, more), NEW j \in Pieces(o, more), i < j,
                      \A m \in Pieces(o, more) : m <= i \/ j <= m
               PROVE  Start(j, more, new) = Start(i, more, new) + Len(Piece(i, more, new))
    BY DEF Adjacent
  <2>1. n + 1 \in Pieces(o, log) /\ n + 1 \in Pieces(o, more) /\ i \in Pieces(o, log)
    BY <1>9, <1>10
  <2>2. CASE j \in Pieces(o, log)
    <3>1. \A m \in Pieces(o, log) : m <= i \/ j <= m
      BY <1>9
    <3>2. Start(j, log, out) = Start(i, log, out) + Len(Piece(i, log, out))
      BY <2>1, <2>2, <3>1 DEF LogOf, Adjacent
    <3> QED BY <1>10, <2>1, <2>2, <3>2
  <2>3. CASE j = n + 2
    <3>1. i = n + 1
      <4>1. i \in Nat /\ i <= n + 1
        BY ONLY <1>10, <2>1
      <4>2. n + 1 <= i \/ j <= n + 1
        BY <2>1
      <4> QED BY ONLY <4>1, <4>2, <2>3, n \in Nat
    <3>2. start + len = count + 1
      BY <1>5
    <3>3. Start(n + 1, more, new) + Len(Piece(n + 1, more, new)) = count + 1
      BY ONLY <1>5, <1>8, <3>2
    <3> QED BY ONLY <1>9, <2>3, <3>1, <3>3
  <2> QED BY <1>9, <2>2, <2>3
<1>13. OneLine(o, more, new)
  <2>1. ASSUME NEW i \in EntriesOf(o, log)
        PROVE  /\ more[i].stream = Kind[o]
               /\ \A k \in 1..(Len(more[i].message) - 1) : more[i].message[k][2] \notin new.ends
    <3>1. more[i] = log[i]
      BY <1>2, <1>8
    <3> QED BY <3>1 DEF LogOf, OneLine
  <2>2. ASSUME NEW k \in 1..(len - 1) PROVE out.line[k][2] \notin new.ends
    <3>1. PICK m \in Nat : m = start + k - 1 /\ m > count - len
      <4>1. start = count + 1 - len
        BY <1>5
      <4>2. k \in Nat /\ k >= 1
        OBVIOUS
      <4>3. start + k - 1 \in Nat /\ start + k - 1 > count - len
        BY ONLY <4>1, <4>2, len \in Nat \ {0}, start \in Nat \ {0}, count \in Nat
      <4> QED BY <4>3
    <3>2. out.line[k] = <<o, m>> /\ out.line[k][2] = m
      BY <1>6, <3>1
    <3>3. \A e \in new.ends : e <= count - len /\ e \in Nat
      BY <1>5 DEF LogOf, LineIsNew, LogOutput
    <3>4. m \notin new.ends
      BY ONLY <3>1, <3>3, m \in Nat, len \in Nat \ {0}, count \in Nat
    <3> QED BY <3>2, <3>4
  <2>3. /\ more[n + 1].stream = Kind[o]
        /\ \A k \in 1..(Len(more[n + 1].message) - 1) : more[n + 1].message[k][2] \notin new.ends
    BY <1>2, <1>5, <2>2
  <2> QED BY <1>8, <2>1, <2>3 DEF OneLine
<1>14. EntriesBefore(o, more, new)
  <2>1. Len(more) + 1 = n + 2 /\ Len(log) + 1 = n + 1
    BY <1>1, <1>2
  <2>2. ASSUME NEW i \in EntriesOf(o, log)
        PROVE  Start(i, more, new) + Len(Piece(i, more, new)) <= Start(n + 2, more, new)
    <3>1. Start(i, log, out) + Len(Piece(i, log, out)) <= start
      BY <1>5, <2>1 DEF LogOf, EntriesBefore
    <3>2. Start(i, log, out) \in Nat /\ Len(Piece(i, log, out)) \in Nat
      BY ONLY <1>4, <1>8, i \in EntriesOf(o, log) DEF AtPositions
    <3>3. start <= count + 1
      BY <1>5
    <3>4. Start(i, log, out) + Len(Piece(i, log, out)) <= count + 1
      BY ONLY <3>1, <3>2, <3>3, start \in Nat, count \in Nat
    <3> QED BY <1>8, <1>9, <3>4
  <2>3. Start(n + 1, more, new) + Len(Piece(n + 1, more, new)) <= Start(n + 2, more, new)
    BY <1>5, <1>8, <1>9
  <2> QED BY <1>8, <2>1, <2>2, <2>3 DEF EntriesBefore
<1>15. LineIsNew(new)
  BY <1>5 DEF LogOf, LineIsNew, LogOutput
<1>16. NothingLost(o, log, out) => NothingLost(o, more, new)
  BY <1>9, <1>10 DEF NothingLost
<1> QED BY <1>2, <1>11, <1>12, <1>13, <1>14, <1>15, <1>16 DEF LogOf

\* An output writes a character: its line gets longer.
LEMMA OneCharacter ==
  ASSUME NEW o \in Outputs, NEW log \in Seq(LogEntry), NEW out \in LogOutput,
         NEW new \in LogOutput, LogOf(o, log, out),
         new.line = Append(out.line, <<o, out.count + 1>>), new.count = out.count + 1,
         new.ends = out.ends
  PROVE  LogOf(o, log, new) /\ (NothingLost(o, log, out) => NothingLost(o, log, new))
<1>1. PICK n \in Nat : n = Len(log)
  OBVIOUS
<1>2. AtPositions(o, log, out, n) /\ AtPositions(o, log, new, n)
  BY ONLY <1>1, PiecesByPosition, o \in Outputs, log \in Seq(LogEntry), out \in LogOutput,
          new \in LogOutput, n \in Nat
<1>3. PICK len \in Nat, start \in Nat, count \in Nat, line \in Seq(LogChar) :
        /\ line = out.line /\ len = Len(line) /\ start = Start(n + 1, log, out)
        /\ count = out.count /\ start = count + 1 - len /\ len <= count
  <2>1. Len(out.line) \in Nat /\ out.count \in Nat /\ out.line \in Seq(LogChar)
    BY DEF LogOutput
  <2>2. Start(n + 1, log, out) \in Nat
    BY ONLY <1>2, LogOf(o, log, out) DEF AtPositions, LogOf
  <2>3. Start(n + 1, log, out) = out.count + 1 - Len(out.line)
    BY ONLY <1>2 DEF AtPositions
  <2>4. Len(out.line) <= out.count
    BY DEF LogOf, LineIsNew
  <2> QED BY <2>1, <2>2, <2>3, <2>4
<1>3a. start = count + 1 - len /\ len <= count
  BY <1>3
<1>4. /\ Len(new.line) = len + 1 /\ new.count = count + 1
      /\ new.line[len + 1] = <<o, count + 1>>
      /\ \A k \in 1..len : new.line[k] = line[k]
  BY <1>3
<1>5. /\ Piece(n + 1, log, out) = line /\ Piece(n + 1, log, new) = new.line
      /\ Start(n + 1, log, new) = start
  <2>1. /\ Piece(n + 1, log, out) = out.line /\ Piece(n + 1, log, new) = new.line
        /\ Start(n + 1, log, new) = new.count + 1 - Len(new.line)
    BY ONLY <1>2 DEF AtPositions
  <2>2. new.count + 1 - Len(new.line) = count + 1 - len
    BY ONLY <1>4, count \in Nat, len \in Nat
  <2> QED BY <1>3, <2>1, <2>2
<1>6. /\ \A i \in EntriesOf(o, log) : /\ i \in Pieces(o, log) /\ i \in Nat /\ i <= n
                                      /\ Piece(i, log, new) = Piece(i, log, out)
                                      /\ Start(i, log, new) = Start(i, log, out)
      /\ \A i : i \in Pieces(o, log) <=> i \in EntriesOf(o, log) \/ i = n + 1
  <2>1. ASSUME NEW i \in EntriesOf(o, log)
        PROVE  /\ i \in Pieces(o, log) /\ i \in Nat /\ i <= n
               /\ Piece(i, log, new) = Piece(i, log, out)
               /\ Start(i, log, new) = Start(i, log, out)
    <3>1. i \in 1..n /\ i \in Pieces(o, log)
      BY ONLY <1>2, i \in EntriesOf(o, log) DEF AtPositions
    <3>2. i \in DOMAIN log
      BY <1>1, <3>1
    <3> QED BY <3>1, <3>2 DEF Piece, Start
  <2>2. \A i : i \in Pieces(o, log) <=> i \in EntriesOf(o, log) \/ i = n + 1
    BY ONLY <1>2 DEF AtPositions
  <2> QED BY ONLY <2>1, <2>2
<1>7. Whole(o, log, new)
  <2>1. ASSUME NEW i \in EntriesOf(o, log)
        PROVE  \A k \in 1..Len(Piece(i, log, new)) :
                 Piece(i, log, new)[k] = <<o, Start(i, log, new) + k - 1>>
    BY <1>6 DEF LogOf, Whole
  <2>2. ASSUME NEW k \in 1..(len + 1)
        PROVE  new.line[k] = <<o, start + k - 1>>
    <3>1. CASE k \in 1..len
      <4>1. \A i \in 1..len : line[i] = <<o, start + i - 1>>
        BY <1>3, <1>5, <1>6 DEF LogOf, Whole
      <4> QED BY <1>4, <3>1, <4>1
    <3>2. CASE k = len + 1
      <4>1. start + k - 1 = count + 1
        BY ONLY <1>3a, <3>2, start \in Nat, len \in Nat, count \in Nat
      <4>2. new.line[k] = <<o, count + 1>>
        BY <1>4, <3>2
      <4> QED BY ONLY <4>1, <4>2, Zenon
    <3>3. k \in 1..len \/ k = len + 1
      BY ONLY len \in Nat, k \in 1..(len + 1)
    <3> QED BY ONLY <3>1, <3>2, <3>3
  <2>3. \A k \in 1..Len(Piece(n + 1, log, new)) :
          Piece(n + 1, log, new)[k] = <<o, Start(n + 1, log, new) + k - 1>>
    BY <1>4, <1>5, <2>2
  <2> QED BY <1>6, <2>1, <2>3 DEF Whole
<1>8. \A i \in Pieces(o, log) : /\ Start(i, log, new) = Start(i, log, out)
                                /\ i \in Nat /\ i <= n + 1
                                /\ i # n + 1 => Piece(i, log, new) = Piece(i, log, out)
  BY <1>3, <1>5, <1>6
<1>9. Adjacent(o, log, new)
  <2> SUFFICES ASSUME NEW i \in Pieces(o, log), NEW j \in Pieces(o, log), i < j,
                      \A m \in Pieces(o, log) : m <= i \/ j <= m
               PROVE  Start(j, log, new) = Start(i, log, new) + Len(Piece(i, log, new))
    BY DEF Adjacent
  <2>1. i # n + 1
    BY <1>8
  <2> QED BY <1>8, <2>1 DEF LogOf, Adjacent
<1>10. OneLine(o, log, new)
  BY DEF LogOf, OneLine
<1>11. EntriesBefore(o, log, new)
  BY <1>1, <1>3, <1>5, <1>6 DEF LogOf, EntriesBefore
<1>12. LineIsNew(new)
  <2>1. \A e \in new.ends : e <= count - len
    BY <1>3 DEF LogOf, LineIsNew
  <2>2. new.count - Len(new.line) = count - len /\ Len(new.line) <= new.count
    <3>1. Len(new.line) = len + 1 /\ new.count = count + 1
      BY <1>4
    <3> QED BY ONLY <1>3a, <3>1, count \in Nat, len \in Nat
  <2> QED BY <2>1, <2>2 DEF LineIsNew
<1>13. NothingLost(o, log, out) => NothingLost(o, log, new)
  BY <1>8 DEF NothingLost
<1> QED BY <1>7, <1>9, <1>10, <1>11, <1>12, <1>13 DEF LogOf

\* Nothing of the text changes, but a line may have ended: the text so far
\* then goes up to a newline.
LEMMA LineEnded ==
  ASSUME NEW o \in Outputs, NEW log \in Seq(LogEntry), NEW out \in LogOutput,
         NEW new \in LogOutput, LogOf(o, log, out), new.line = out.line,
         new.count = out.count,
         \/ new.ends = out.ends
         \/ new.ends = out.ends \cup {out.count} /\ out.line = <<>>
  PROVE  LogOf(o, log, new) /\ (NothingLost(o, log, out) => NothingLost(o, log, new))
<1>1. PICK n \in Nat : n = Len(log)
  OBVIOUS
<1>2. AtPositions(o, log, out, n)
  BY ONLY <1>1, PiecesByPosition, o \in Outputs, log \in Seq(LogEntry), out \in LogOutput,
          n \in Nat
<1>3. \A i : Piece(i, log, new) = Piece(i, log, out) /\ Start(i, log, new) = Start(i, log, out)
  BY DEF Piece, Start
<1>4. Whole(o, log, new) /\ Adjacent(o, log, new) /\ EntriesBefore(o, log, new)
  BY <1>3 DEF LogOf, Whole, Adjacent, EntriesBefore
<1>5. NothingLost(o, log, out) => NothingLost(o, log, new)
  BY <1>3 DEF NothingLost
<1>6. LineIsNew(new)
  BY DEF LogOf, LineIsNew, LogOutput
<1>7. OneLine(o, log, new)
  <2>1. CASE new.ends = out.ends
    BY <2>1 DEF LogOf, OneLine
  <2>2. CASE new.ends = out.ends \cup {out.count} /\ out.line = <<>>
    <3> SUFFICES ASSUME NEW i \in EntriesOf(o, log)
                 PROVE  /\ log[i].stream = Kind[o]
                        /\ \A k \in 1..(Len(log[i].message) - 1) :
                             log[i].message[k][2] \notin new.ends
      BY DEF OneLine
    <3>1. PICK start \in Nat, len \in Nat, count \in Nat, message \in Seq(LogChar) :
            /\ message = log[i].message /\ len = Len(message)
            /\ start = Start(i, log, out) /\ count = out.count
            /\ \A k \in 1..len : message[k] = <<o, start + k - 1>>
            /\ start + len <= count + 1
      <4>1. /\ i \in 1..n /\ i \in Pieces(o, log) /\ Piece(i, log, out) = log[i].message
            /\ Start(i, log, out) \in Nat
            /\ Start(n + 1, log, out) = out.count + 1 - Len(out.line)
        BY ONLY <1>2, i \in EntriesOf(o, log) DEF AtPositions
      <4>2. log[i].message \in Seq(LogChar) /\ Len(log[i].message) \in Nat
        <5>1. log[i] \in LogEntry
          BY <1>1, <4>1
        <5>2. log[i].message \in Seq(LogChar)
          BY <5>1 DEF LogEntry
        <5> QED BY <5>2
      <4>3. out.count \in Nat /\ Len(out.line) = 0
        BY <2>2 DEF LogOutput
      <4>4. Start(i, log, out) + Len(log[i].message) <= out.count + 1
        <5>1. Start(i, log, out) + Len(log[i].message) <= Start(n + 1, log, out)
          BY <1>1, <4>1 DEF LogOf, EntriesBefore
        <5>2. Start(n + 1, log, out) = out.count + 1
          BY <4>1, <4>3
        <5> QED BY <5>1, <5>2
      <4>5. \A k \in 1..Len(log[i].message) :
              log[i].message[k] = <<o, Start(i, log, out) + k - 1>>
        BY <4>1 DEF LogOf, Whole
      <4> QED BY ONLY <4>1, <4>2, <4>3, <4>4, <4>5
    <3>2. ASSUME NEW k \in 1..(len - 1) PROVE message[k][2] \notin new.ends
      <4>1. PICK m \in Nat : m = start + k - 1 /\ m # count
        <5>1. start + k - 1 \in Nat /\ start + k - 1 # count
          <6>1. start + len <= count + 1
            BY <3>1
          <6> QED BY ONLY <6>1, start \in Nat, len \in Nat, count \in Nat, k \in 1..(len - 1)
        <5> QED BY <5>1
      <4>2. message[k] = <<o, m>>
        BY <3>1, <4>1
      <4>3. message[k][2] = m
        BY <4>2
      <4>4. message[k][2] \notin out.ends
        BY <3>1 DEF LogOf, OneLine
      <4> QED BY <2>2, <3>1, <4>1, <4>3, <4>4
    <3>3. log[i].stream = Kind[o]
      BY DEF LogOf, OneLine
    <3> QED BY <3>1, <3>2, <3>3
  <2> QED BY <2>1, <2>2
<1> QED BY <1>4, <1>5, <1>6, <1>7 DEF LogOf

\* A push keeps what the inductive invariant says of every output: the oldest
\* entry makes room, if need be, and the line becomes the newest.
LEMMA PushKeepsLog ==
  ASSUME LogInv, NEW o \in Outputs, PushLine(o), NEW new \in LogOutput,
         new.line = <<>>, new.count = outputs[o].count, new.ends = outputs[o].ends
  PROVE  /\ entries' \in Seq(LogEntry) /\ Len(entries') <= Capacity
         /\ \A x \in Outputs :
              LET out == IF x = o THEN new ELSE outputs[x] IN
              /\ LogOf(x, entries', out)
              /\ NothingLost(x, entries', out) \/ Len(entries') = Capacity
<1>1. /\ entries \in Seq(LogEntry) /\ Len(entries) <= Capacity /\ Capacity \in Nat \ {0}
      /\ \A x \in Outputs : /\ outputs[x] \in LogOutput /\ LogOf(x, entries, outputs[x])
                            /\ NothingLost(x, entries, outputs[x]) \/ Len(entries) = Capacity
  BY LogAssumption DEF LogInv, LogTypes
<1>2. PICK out \in LogOutput : out = outputs[o]
  BY <1>1
<1>3. CASE out.line = <<>>
  <2>1. entries' = entries
    BY <1>2, <1>3 DEF PushLine
  <2>2. LogOf(o, entries, new) /\ (NothingLost(o, entries, out) => NothingLost(o, entries, new))
    BY <1>1, <1>2, <1>3, LineEnded
  <2> QED BY <1>1, <1>2, <2>1, <2>2
<1>4. CASE out.line # <<>>
  <2>1. PICK room \in Seq(LogEntry) :
          /\ room = WithRoom(entries) /\ Len(room) + 1 <= Capacity
          /\ \A x \in Outputs :
               /\ LogOf(x, room, outputs[x])
               /\ NothingLost(x, room, outputs[x]) \/ Len(room) + 1 = Capacity
    <3>1. CASE Len(entries) >= Capacity
      <4>1. entries # <<>> /\ Tail(entries) \in Seq(LogEntry) /\ Len(Tail(entries)) + 1 = Capacity
        BY <1>1, <3>1
      <4>2. \A x \in Outputs : LogOf(x, Tail(entries), outputs[x])
        BY <1>1, <4>1, DroppedEntry
      <4>3. WithRoom(entries) = Tail(entries) /\ Capacity <= Capacity
        BY <1>1, <3>1 DEF WithRoom
      <4> QED BY ONLY <4>1, <4>2, <4>3
    <3>2. CASE ~(Len(entries) >= Capacity)
      <4>1. Len(entries) + 1 <= Capacity /\ Len(entries) # Capacity
        BY <1>1, <3>2
      <4> QED BY <1>1, <3>2, <4>1 DEF WithRoom
    <3> QED BY <3>1, <3>2
  <2>2. PICK entry \in LogEntry :
          entry = [stream |-> Kind[o], message |-> out.line]
    <3>1. Kind[o] \in {"stdout", "stderr"} /\ out.line \in Seq(LogChar) \ {<<>>}
      BY <1>4, LogAssumption DEF LogOutput
    <3> QED BY <3>1 DEF LogEntry
  <2>3. entry.stream = Kind[o] /\ entry.message = out.line
    BY <2>2
  <2>4. entries' = Append(room, entry)
    BY <1>2, <1>4, <2>1, <2>2 DEF PushLine
  <2>5. entries' \in Seq(LogEntry) /\ Len(entries') = Len(room) + 1
    BY <2>4
  <2>6. /\ LogOf(o, entries', new)
        /\ NothingLost(o, room, out) => NothingLost(o, entries', new)
    BY <1>2, <1>4, <2>1, <2>3, <2>4, OwnEntry
  <2>7. entry.message[1][1] = o
    <3>1. PICK n \in Nat : n = Len(room)
      BY <2>1
    <3>2. AtPositions(o, room, out, n)
      BY <3>1, PiecesByPosition
    <3>3. n + 1 \in Pieces(o, room) /\ Piece(n + 1, room, out) = out.line
      BY ONLY <3>2 DEF AtPositions
    <3>4. 1 \in 1..Len(out.line)
      BY <1>4 DEF LogOutput
    <3>5. \A k \in 1..Len(out.line) : out.line[k] = <<o, Start(n + 1, room, out) + k - 1>>
      <4>1. Whole(o, room, out)
        BY <1>2, <2>1 DEF LogOf
      <4>2. \A k \in 1..Len(Piece(n + 1, room, out)) :
              Piece(n + 1, room, out)[k] = <<o, Start(n + 1, room, out) + k - 1>>
        BY ONLY <3>3, <4>1, Zenon DEF Whole
      <4> QED BY ONLY <3>3, <4>2, Zenon
    <3> QED BY <2>3, <3>4, <3>5
  <2>8. ASSUME NEW x \in Outputs, x # o
        PROVE  /\ LogOf(x, entries', outputs[x])
               /\ NothingLost(x, room, outputs[x]) => NothingLost(x, entries', outputs[x])
    <3>1. entry.message[1][1] # x /\ outputs[x] \in LogOutput /\ LogOf(x, room, outputs[x])
      BY <1>1, <2>1, <2>7, <2>8
    <3> QED BY <2>4, <3>1, OthersEntry
  <2>9. ASSUME NEW x \in Outputs, NEW out1, out1 = IF x = o THEN new ELSE outputs[x]
        PROVE  LogOf(x, entries', out1) /\ (NothingLost(x, entries', out1) \/ Len(entries') = Capacity)
    <3>1. CASE x = o
      BY <1>2, <2>1, <2>5, <2>6, <2>9, <3>1
    <3>2. CASE x # o
      BY <2>1, <2>5, <2>8, <2>9, <3>2
    <3> QED BY <3>1, <3>2
  <2> QED BY <2>1, <2>5, <2>9
<1> QED BY <1>3, <1>4

\* One output changes, in its line, its count, its newlines or whether it is
\* open.
LEMMA OneOutput ==
  ASSUME LogInv, NEW o \in Outputs, NEW new \in LogOutput, NEW log \in Seq(LogEntry),
         outputs' = [outputs EXCEPT ![o] = new], entries' = log, Len(log) <= Capacity,
         \A x \in Outputs :
           LET out == IF x = o THEN new ELSE outputs[x] IN
           LogOf(x, log, out) /\ (NothingLost(x, log, out) \/ Len(log) = Capacity)
  PROVE  LogInv'
<1>1. /\ outputs' \in [Outputs -> LogOutput]
      /\ \A x \in Outputs : outputs'[x] = IF x = o THEN new ELSE outputs[x]
  BY DEF LogInv, LogTypes
<1>2. \A x \in Outputs : /\ LogOf(x, log, outputs'[x])
                         /\ NothingLost(x, log, outputs'[x]) \/ Len(log) = Capacity
  BY <1>1
<1> QED BY <1>1, <1>2 DEF LogInv, LogTypes

\* Every step of the log keeps its invariant.
LEMMA LogStep ==
  ASSUME LogInv, [LogNext]_logVars
  PROVE  LogInv'
<1>1. CASE UNCHANGED logVars
  BY <1>1 DEF logVars, LogInv, LogTypes
<1>2. ASSUME NEW o \in Outputs,
             \/ OpenOutput(o) \/ WriteChar(o) \/ WriteNewline(o) \/ FlushOutput(o)
             \/ DropOutput(o)
      PROVE  LogInv'
  <2>1. PICK out \in LogOutput : out = outputs[o]
    BY DEF LogInv, LogTypes
  <2>2. /\ entries \in Seq(LogEntry) /\ Len(entries) <= Capacity
        /\ \A x \in Outputs : /\ LogOf(x, entries, outputs[x])
                              /\ NothingLost(x, entries, outputs[x]) \/ Len(entries) = Capacity
    BY DEF LogInv, LogTypes
  <2>3. PICK none \in Seq(LogChar) : none = <<>>
    <3>1. <<>> \in Seq(LogChar)
      OBVIOUS
    <3> QED BY <3>1
  <2>4. CASE OpenOutput(o)
    <3> DEFINE new == [out EXCEPT !.open = TRUE]
    <3>1. outputs' = [outputs EXCEPT ![o] = new] /\ entries' = entries
      BY <2>1, <2>4 DEF OpenOutput
    <3>2. /\ new \in LogOutput /\ new.line = out.line /\ new.count = out.count
          /\ new.ends = out.ends
      BY DEF LogOutput
    <3> HIDE DEF new
    <3>3. LogOf(o, entries, new) /\ (NothingLost(o, entries, out) => NothingLost(o, entries, new))
      BY <2>1, <2>2, <3>2, LineEnded
    <3>5. \A x \in Outputs :
            LET out1 == IF x = o THEN new ELSE outputs[x] IN
            /\ LogOf(x, entries, out1)
            /\ NothingLost(x, entries, out1) \/ Len(entries) = Capacity
      BY <2>1, <2>2, <3>3
    <3> QED BY <2>2, <3>1, <3>2, <3>5, OneOutput
  <2>5. CASE WriteChar(o)
    <3>1. PICK count \in Nat, line \in Seq(LogChar) :
            count = out.count + 1 /\ line = Append(out.line, <<o, out.count + 1>>)
      <4>1. /\ out.count + 1 \in Nat /\ <<o, out.count + 1>> \in LogChar
            /\ out.line \in Seq(LogChar)
        BY DEF LogOutput, LogChar
      <4>2. Append(out.line, <<o, out.count + 1>>) \in Seq(LogChar)
        BY <4>1
      <4> QED BY <4>1, <4>2
    <3> DEFINE new == [out EXCEPT !.count = count, !.line = line]
    <3>2. outputs' = [outputs EXCEPT ![o] = new] /\ entries' = entries
      BY <2>1, <2>5, <3>1 DEF WriteChar
    <3>3. /\ new \in LogOutput /\ new.line = line /\ new.count = count /\ new.ends = out.ends
      BY DEF LogOutput
    <3> HIDE DEF new
    <3>4. LogOf(o, entries, new) /\ (NothingLost(o, entries, out) => NothingLost(o, entries, new))
      BY <2>1, <2>2, <3>1, <3>3, OneCharacter
    <3>5. \A x \in Outputs :
            LET out1 == IF x = o THEN new ELSE outputs[x] IN
            /\ LogOf(x, entries, out1)
            /\ NothingLost(x, entries, out1) \/ Len(entries) = Capacity
      BY <2>1, <2>2, <3>4
    <3> QED BY <2>2, <3>2, <3>3, <3>5, OneOutput
  <2>6. CASE WriteNewline(o)
    <3>1. PICK ends \in SUBSET Nat : ends = out.ends \cup {out.count}
      BY DEF LogOutput
    <3> DEFINE new == [out EXCEPT !.line = none, !.ends = ends]
               pushed == [out EXCEPT !.line = none]
    <3>2. outputs' = [outputs EXCEPT ![o] = new] /\ PushLine(o)
      BY <2>1, <2>3, <2>6, <3>1 DEF WriteNewline
    <3>3. /\ new \in LogOutput /\ new.line = none /\ new.count = out.count /\ new.ends = ends
          /\ pushed \in LogOutput /\ pushed.line = none /\ pushed.count = out.count
          /\ pushed.ends = out.ends
      BY DEF LogOutput
    <3> HIDE DEF new, pushed
    <3>4. PICK log \in Seq(LogEntry) :
            /\ entries' = log /\ Len(log) <= Capacity
            /\ \A x \in Outputs :
                 LET out1 == IF x = o THEN pushed ELSE outputs[x] IN
                 LogOf(x, log, out1) /\ (NothingLost(x, log, out1) \/ Len(log) = Capacity)
      <4>1. /\ entries' \in Seq(LogEntry) /\ Len(entries') <= Capacity
            /\ \A x \in Outputs :
                 LET out1 == IF x = o THEN pushed ELSE outputs[x] IN
                 /\ LogOf(x, entries', out1)
                 /\ NothingLost(x, entries', out1) \/ Len(entries') = Capacity
        BY <2>1, <2>3, <3>2, <3>3, PushKeepsLog
      <4> QED BY ONLY <4>1
    <3>5. LogOf(o, log, pushed) /\ (NothingLost(o, log, pushed) \/ Len(log) = Capacity)
      BY <3>4
    <3>6. LogOf(o, log, new) /\ (NothingLost(o, log, pushed) => NothingLost(o, log, new))
      BY <2>3, <3>1, <3>3, <3>5, LineEnded
    <3>7. \A x \in Outputs :
            LET out1 == IF x = o THEN new ELSE outputs[x] IN
            LogOf(x, log, out1) /\ (NothingLost(x, log, out1) \/ Len(log) = Capacity)
      BY <3>4, <3>5, <3>6
    <3> QED BY <3>2, <3>3, <3>4, <3>7, OneOutput
  <2>7. CASE FlushOutput(o) \/ DropOutput(o)
    <3>1. PICK open \in BOOLEAN : open = IF FlushOutput(o) THEN out.open ELSE FALSE
      BY DEF LogOutput
    <3> DEFINE new == [out EXCEPT !.line = none, !.open = open]
    <3>2. outputs' = [outputs EXCEPT ![o] = new] /\ PushLine(o)
      <4>1. CASE FlushOutput(o)
        <5>1. [out EXCEPT !.line = none] = new
          BY <3>1, <4>1 DEF LogOutput
        <5> QED BY <2>1, <2>3, <4>1, <5>1 DEF FlushOutput
      <4>2. CASE ~FlushOutput(o)
        BY <2>1, <2>3, <2>7, <3>1, <4>2 DEF DropOutput
      <4> QED BY <4>1, <4>2
    <3>3. /\ new \in LogOutput /\ new.line = none /\ new.count = out.count
          /\ new.ends = out.ends
      BY DEF LogOutput
    <3> HIDE DEF new
    <3>4. PICK log \in Seq(LogEntry) :
            /\ entries' = log /\ Len(log) <= Capacity
            /\ \A x \in Outputs :
                 LET out1 == IF x = o THEN new ELSE outputs[x] IN
                 LogOf(x, log, out1) /\ (NothingLost(x, log, out1) \/ Len(log) = Capacity)
      <4>1. /\ entries' \in Seq(LogEntry) /\ Len(entries') <= Capacity
            /\ \A x \in Outputs :
                 LET out1 == IF x = o THEN new ELSE outputs[x] IN
                 /\ LogOf(x, entries', out1)
                 /\ NothingLost(x, entries', out1) \/ Len(entries') = Capacity
        BY <2>1, <2>3, <3>2, <3>3, PushKeepsLog
      <4> QED BY ONLY <4>1
    <3> QED BY <3>2, <3>3, <3>4, OneOutput
  <2> QED BY <1>2, <2>4, <2>5, <2>6, <2>7
<1> QED BY <1>1, <1>2 DEF LogNext

\* An empty log, and no text.
LEMMA LogStart == LogInit => LogInv
<1> SUFFICES ASSUME LogInit PROVE LogInv
  OBVIOUS
<1>1. /\ entries = <<>> /\ entries \in Seq(LogEntry) /\ Len(entries) = 0
      /\ 0 <= Capacity /\ outputs \in [Outputs -> LogOutput]
      /\ \A o \in Outputs : /\ outputs[o].line = <<>> /\ outputs[o].count = 0
                            /\ outputs[o].ends = {}
  BY LogAssumption DEF LogInit, LogOutput
<1>2. ASSUME NEW o \in Outputs
      PROVE  LogOf(o, entries, outputs[o]) /\ NothingLost(o, entries, outputs[o])
  <2>1. AtPositions(o, entries, outputs[o], 0)
    BY <1>1, PiecesByPosition
  <2>2. /\ \A i : i \notin EntriesOf(o, entries)
        /\ \A i : i \in Pieces(o, entries) <=> i = 0 + 1
        /\ Piece(0 + 1, entries, outputs[o]) = <<>>
        /\ Start(0 + 1, entries, outputs[o]) = 1
    BY <1>1, <2>1 DEF AtPositions
  <2>3. \A i : i \in Pieces(o, entries) <=> i = 1
    BY <2>2
  <2>4. Whole(o, entries, outputs[o])
    BY <2>2, <2>3 DEF Whole
  <2>5. Adjacent(o, entries, outputs[o])
    BY <2>3 DEF Adjacent
  <2>6. OneLine(o, entries, outputs[o]) /\ EntriesBefore(o, entries, outputs[o])
    BY <2>2 DEF OneLine, EntriesBefore
  <2>7. LineIsNew(outputs[o])
    BY <1>1 DEF LineIsNew
  <2>8. NothingLost(o, entries, outputs[o])
    BY <2>2, <2>3 DEF NothingLost
  <2> QED BY <2>4, <2>5, <2>6, <2>7, <2>8 DEF LogOf
<1> QED BY <1>1, <1>2 DEF LogInv, LogTypes

\* The instances that share the log of their service never garble each
\* other's lines, and a log that is not full holds all they wrote: for any
\* number of outputs, any capacity and however they take turns.
THEOREM LogsAreWhole == LogSpec => []OutputInOrder
<1>1. LogInit => LogInv
  BY LogStart
<1>2. LogInv /\ [LogNext]_logVars => LogInv'
  BY LogStep
<1>3. ASSUME LogInv PROVE OutputInOrder
  <2> SUFFICES ASSUME NEW o \in Outputs
               PROVE  /\ Whole(o, entries, outputs[o]) /\ Adjacent(o, entries, outputs[o])
                      /\ OneLine(o, entries, outputs[o])
                      /\ (\A i \in Pieces(o, entries) : Start(i, entries, outputs[o]) > 1)
                           => Len(entries) = Capacity
    BY DEF OutputInOrder
  <2>1. LogOf(o, entries, outputs[o])
    BY <1>3 DEF LogInv
  <2>2. ASSUME \A i \in Pieces(o, entries) : Start(i, entries, outputs[o]) > 1
        PROVE  ~NothingLost(o, entries, outputs[o])
    <3>1. PICK n \in Nat : n = Len(entries)
      BY <1>3 DEF LogInv, LogTypes
    <3>2. AtPositions(o, entries, outputs[o], n)
      BY <1>3, <3>1, PiecesByPosition DEF LogInv, LogTypes
    <3>3. \A i \in Pieces(o, entries) : Start(i, entries, outputs[o]) \in Int
      <4>1. \A i \in Pieces(o, entries) : i \in 1..n \/ i = n + 1
        BY ONLY <3>2 DEF AtPositions
      <4>2. \A i \in 1..n : Start(i, entries, outputs[o]) \in Int
        BY ONLY <3>2 DEF AtPositions
      <4>3. Start(n + 1, entries, outputs[o]) \in Int
        BY ONLY <3>2 DEF AtPositions
      <4> QED BY <4>1, <4>2, <4>3
    <3> QED BY <2>2, <3>3 DEF NothingLost
  <2> QED BY <1>3, <2>1, <2>2 DEF LogInv, LogOf
<1> QED BY <1>1, <1>2, <1>3, PTL DEF LogSpec

-----------------------------------------------------------------------------
(* The daemon's process *)

Process == [pc : {"off", "opened", "initialized", "unlinked", "serving", "cleanup", "draining"},
            subscribed : BOOLEAN, requests : Nat]

DaemonTypeOK ==
  /\ dbLock \in Daemons \cup {NoDaemon}
  /\ daemons \in [Daemons -> Process]

\* A process that has got past the database has its lock.
HoldsLock == \A d \in Daemons : daemons[d].pc # "off" => dbLock = d

\* SocketIsServed alone is not inductive: that nobody else removes the socket
\* needs the lock.
DaemonInv == DaemonTypeOK /\ HoldsLock /\ SocketIsServed

\* Before any daemon is launched no path leads anywhere.
LEMMA DaemonInitInv == DaemonInit => DaemonInv
  BY DaemonAssumption
  DEF DaemonInit, DaemonInv, DaemonTypeOK, HoldsLock, SocketIsServed, NotRunning, Accepting, Process

\* The end of a process takes nothing from another one, which cannot be past
\* the database at the same time.
LEMMA EndedInv ==
  ASSUME DaemonInv, NEW d \in Daemons, Ended(d), daemons[d].pc # "off"
  PROVE  DaemonInv'
  BY DaemonAssumption
  DEF DaemonInv, DaemonTypeOK, HoldsLock, SocketIsServed, Ended, NotRunning, Accepting, Process

\* Every step of a process keeps the invariant.
LEMMA DaemonStep ==
  ASSUME DaemonInv, [DaemonNext]_daemonVars
  PROVE  DaemonInv'
<1>1. CASE UNCHANGED daemonVars
  BY <1>1 DEF daemonVars, DaemonInv, DaemonTypeOK, HoldsLock, SocketIsServed
<1>2. CASE DaemonNext
  <2> PICK d \in Daemons :
        \/ OpenDatabase(d) \/ Initialize(d) \/ RemoveSocket(d) \/ BindSocket(d)
        \/ SubscribeShutdown(d) \/ AcceptRequest(d) \/ AnswerRequest(d) \/ RequestShutdown(d)
        \/ Signal(d) \/ StopAccepting(d) \/ Exit(d) \/ KillProcess(d)
    BY <1>2 DEF DaemonNext
  <2> USE DaemonAssumption DEF DaemonInv, DaemonTypeOK, HoldsLock, SocketIsServed, Accepting, Goto, Process
  <2>1. CASE OpenDatabase(d)
    BY <2>1 DEF OpenDatabase, Opens
  <2>2. CASE Initialize(d)
    <3>1. CASE Ended(d)
      BY <2>2, <3>1, EndedInv DEF Initialize
    <3>2. CASE ~Ended(d)
      BY <2>2, <3>2 DEF Initialize
    <3> QED BY <3>1, <3>2
  <2>3. CASE RemoveSocket(d)
    BY <2>3 DEF RemoveSocket
  <2>4. CASE BindSocket(d)
    <3>1. CASE Ended(d)
      BY <2>4, <3>1, EndedInv DEF BindSocket
    <3>2. CASE ~Ended(d)
      BY <2>4, <3>2 DEF BindSocket
    <3> QED BY <3>1, <3>2
  <2>5. CASE SubscribeShutdown(d)
    BY <2>5 DEF SubscribeShutdown
  <2>6. CASE AcceptRequest(d)
    BY <2>6 DEF AcceptRequest
  <2>7. CASE AnswerRequest(d)
    BY <2>7 DEF AnswerRequest
  <2>8. CASE RequestShutdown(d)
    <3>1. \/ AfterRequest(d) = daemons[d].pc
          \/ daemons[d].pc = "serving" /\ AfterRequest(d) = "cleanup"
      BY Zenon DEF AfterRequest
    <3>2. /\ \A e \in Daemons : daemons'[e].pc = IF e = d THEN AfterRequest(d) ELSE daemons[e].pc
          /\ UNCHANGED <<dbLock, socketFile>>
      BY <2>8 DEF RequestShutdown
    <3>3. DaemonTypeOK'
      <4> DEFINE answered == [daemons EXCEPT ![d].requests = @ - 1]
      <4>1. answered \in [Daemons -> Process]
        BY <2>8 DEF RequestShutdown
      <4>2. daemons' = [answered EXCEPT ![d].pc = AfterRequest(d)]
        BY <2>8, Zenon DEF RequestShutdown
      <4> HIDE DEF answered
      <4> QED BY <3>1, <3>2, <4>1, <4>2
    <3> QED BY <3>1, <3>2, <3>3
  <2>9. CASE Signal(d)
    BY <2>9 DEF Signal
  <2>10. CASE StopAccepting(d)
    BY <2>10 DEF StopAccepting
  <2>11. CASE Exit(d)
    BY <2>11, EndedInv DEF Exit
  <2>12. CASE KillProcess(d)
    BY <2>12, EndedInv DEF KillProcess
  <2> QED BY <2>1, <2>2, <2>3, <2>4, <2>5, <2>6, <2>7, <2>8, <2>9, <2>10, <2>11, <2>12
<1> QED BY <1>1, <1>2

\* While a daemon accepts requests the socket path leads to it, for any
\* number of daemons launched with one configuration.
THEOREM SocketServed == DaemonSpec => []SocketIsServed
<1>1. DaemonInit => DaemonInv
  BY DaemonInitInv
<1>2. DaemonInv /\ [DaemonNext]_daemonVars => DaemonInv'
  BY DaemonStep
<1>3. DaemonInv => SocketIsServed
  BY DEF DaemonInv
<1> QED BY <1>1, <1>2, <1>3, PTL DEF DaemonSpec

-----------------------------------------------------------------------------
(* The runtime pool *)

\* The bound says nothing of an infinite cache.
PoolInv == IsFiniteSet(cached) /\ PoolBounded

\* A set with one more element has at most one element more.
LEMMA AddedOne ==
  ASSUME NEW S, IsFiniteSet(S), NEW digest
  PROVE  /\ IsFiniteSet(S \cup {digest})
         /\ Cardinality(S \cup {digest}) <= Cardinality(S) + 1
<1>1. Cardinality(S) \in Nat
  BY FS_CardinalityType
<1>2. CASE digest \in S
  <2>1. S \cup {digest} = S
    BY <1>2
  <2>2. IsFiniteSet(S \cup {digest}) /\ Cardinality(S \cup {digest}) = Cardinality(S)
    BY <2>1, Zenon
  <2> QED BY <1>1, <2>2
<1>3. CASE digest \notin S
  <2>1. /\ IsFiniteSet(S \cup {digest})
        /\ Cardinality(S \cup {digest}) = Cardinality(S) + 1
    BY <1>3, FS_AddElement
  <2> QED BY <1>1, <2>1
<1> QED BY <1>2, <1>3

\* An insertion into a cache below its limit leaves it at most at the limit.
LEMMA InsertBelow ==
  ASSUME IsFiniteSet(cached), Cardinality(cached) < MaxModules, NEW digest
  PROVE  /\ IsFiniteSet(cached \cup {digest})
         /\ Cardinality(cached \cup {digest}) <= MaxModules
<1>1. IsFiniteSet(cached \cup {digest})
  BY AddedOne
<1>2. Cardinality(cached) \in Nat /\ Cardinality(cached \cup {digest}) \in Nat
  BY <1>1, FS_CardinalityType
<1>3. Cardinality(cached \cup {digest}) <= Cardinality(cached) + 1
  BY AddedOne
<1> QED BY <1>1, <1>2, <1>3, PoolAssumption

\* An insertion in the place of another module leaves no more than there were.
LEMMA InsertEvicting ==
  ASSUME IsFiniteSet(cached), NEW evicted \in cached, NEW digest
  PROVE  /\ IsFiniteSet((cached \ {evicted}) \cup {digest})
         /\ Cardinality((cached \ {evicted}) \cup {digest}) <= Cardinality(cached)
<1> DEFINE rest == cached \ {evicted}
<1>1. IsFiniteSet(rest) /\ Cardinality(rest) = Cardinality(cached) - 1
  BY FS_RemoveElement
<1>2. IsFiniteSet(rest \cup {digest}) /\ Cardinality(rest \cup {digest}) <= Cardinality(rest) + 1
  <2> HIDE DEF rest
  <2> QED BY <1>1, AddedOne
<1>3. Cardinality(cached) \in Nat /\ Cardinality(rest \cup {digest}) \in Nat
  BY <1>2, FS_CardinalityType
<1>4. Cardinality(rest \cup {digest}) <= Cardinality(cached)
  <2> HIDE DEF rest
  <2> QED BY <1>1, <1>2, <1>3
<1> QED BY <1>2, <1>4

\* A part of the cache is no larger.
LEMMA FewerCached ==
  ASSUME PoolInv, NEW S \in SUBSET cached, cached' = S
  PROVE  PoolInv'
<1>1. IsFiniteSet(S) /\ Cardinality(S) <= Cardinality(cached)
  BY FS_Subset DEF PoolInv
<1>2. Cardinality(S) \in Nat /\ Cardinality(cached) \in Nat
  BY <1>1, FS_CardinalityType DEF PoolInv
<1>3. CASE Cardinality(S) = 0
  BY <1>1, <1>3, PoolAssumption DEF PoolInv, PoolBounded
<1>4. CASE Cardinality(S) # 0
  BY <1>1, <1>2, <1>4, PoolAssumption DEF PoolInv, PoolBounded
<1> QED BY <1>3, <1>4

\* Every step keeps the invariant.
LEMMA PoolStep ==
  ASSUME PoolInv, [PoolNext]_poolVars
  PROVE  PoolInv'
<1>1. CASE UNCHANGED poolVars
  BY <1>1 DEF poolVars, PoolInv, PoolBounded
<1>2. ASSUME NEW t \in Fetchers, Insert(t)
      PROVE  PoolInv'
  <2>1. CASE ~AtLimit /\ cached' = cached \cup {missed[t]}
    <3>1. Cardinality(cached) < MaxModules
      BY <2>1, FS_CardinalityType, PoolAssumption DEF PoolInv, AtLimit
    <3> QED BY <2>1, <3>1, InsertBelow DEF PoolInv, PoolBounded
  <2>2. CASE AtLimit /\ cached = {} /\ cached' = {missed[t]}
    <3>1. Cardinality(cached') = 1 /\ IsFiniteSet(cached')
      BY <2>2, FS_Singleton
    <3>2. MaxModules = 0
      BY <2>2, FS_EmptySet, PoolAssumption DEF AtLimit
    <3> QED BY <3>1, <3>2 DEF PoolInv, PoolBounded
  <2>3. CASE AtLimit /\ \E evicted \in cached : cached' = (cached \ {evicted}) \cup {missed[t]}
    <3> PICK evicted \in cached : cached' = (cached \ {evicted}) \cup {missed[t]}
      BY <2>3
    <3>1. IsFiniteSet(cached') /\ Cardinality(cached') <= Cardinality(cached)
      BY InsertEvicting DEF PoolInv
    <3>2. Cardinality(cached') \in Nat /\ Cardinality(cached) \in Nat
      BY <3>1, FS_CardinalityType DEF PoolInv
    <3>3. CASE Cardinality(cached) <= MaxModules
      BY <3>1, <3>2, <3>3, PoolAssumption DEF PoolInv, PoolBounded
    <3>4. CASE MaxModules = 0 /\ Cardinality(cached) = 1
      BY <3>1, <3>2, <3>4 DEF PoolInv, PoolBounded
    <3> QED BY <3>3, <3>4 DEF PoolInv, PoolBounded
  <2> QED BY <1>2, <2>1, <2>2, <2>3 DEF Insert
<1>3. ASSUME NEW t \in Fetchers, NEW digest \in Digests, LookUp(t, digest)
      PROVE  PoolInv'
  BY <1>3 DEF LookUp, PoolInv, PoolBounded
<1>4. ASSUME NEW digest \in Digests, Evict(digest)
      PROVE  PoolInv'
  BY <1>4, FewerCached DEF Evict
<1>5. CASE ClearPool
  BY <1>5, FewerCached DEF ClearPool
<1> QED BY <1>1, <1>2, <1>3, <1>4, <1>5 DEF PoolNext

\* However many tasks miss at once, the pool keeps no more modules than its
\* limit, or one if that is 0.
THEOREM PoolLimit == PoolSpec => []PoolBounded
<1>1. PoolInit => PoolInv
  BY FS_EmptySet, PoolAssumption DEF PoolInit, PoolInv, PoolBounded
<1>2. PoolInv /\ [PoolNext]_poolVars => PoolInv'
  BY PoolStep
<1>3. PoolInv => PoolBounded
  BY DEF PoolInv
<1> QED BY <1>1, <1>2, <1>3, PTL DEF PoolSpec

=============================================================================
