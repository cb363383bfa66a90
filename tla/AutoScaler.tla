----------------------------- MODULE AutoScaler -----------------------------
(***************************************************************************)
(* The auto-scaler of fabricksd, scaler/autoscaler.rs, with the metrics    *)
(* collector it reads.  A tick takes the counts of all running services    *)
(* once and then goes through them; what it does to a service comes after  *)
(* four more locks, while users start, stop, scale and delete it.  The     *)
(* services' counts are those of ServiceHandle: a scale to fewer           *)
(* instances, or as many, takes them away and then waits for ever for a    *)
(* lock of its own, the manager's lock in hand.                            *)
(***************************************************************************)
EXTENDS Naturals, FiniteSets

CONSTANTS
  Scalable,      \* services
  MinReplicas,   \* replicas.min
  MaxReplicas,   \* service -> replicas.max
  MostReplicas,  \* bound: what a user scales to
  Nothing        \* no service

ASSUME ScalerAssumption ==
  /\ MinReplicas \in Nat /\ MostReplicas \in Nat
  /\ MaxReplicas \in [Scalable -> Nat]

VARIABLES
  phase,       \* service -> "running", "stopped" or "deleted"
  replicas,    \* service -> replicas.running of its state
  spawned,     \* service -> number of its instances
  hung,        \* a task holds the manager's lock for ever
  tracked,     \* the services the collector has a tracker for
  load,        \* service -> its metrics: "low", "normal" or "high"
  aggregating, \* what aggregate_all has still to do
  measured,    \* the service it has aggregated but not yet entered
  cooling,     \* the services in cooldown
  tick         \* check_and_scale: [pc, todo, svc, current, up]

scalerVars == <<phase, replicas, spawned, hung, tracked, load, aggregating,
                measured, cooling, tick>>
collector == <<tracked, load, aggregating, measured>>

NoTick == [pc |-> "idle", todo |-> {}, svc |-> Nothing, current |-> 0, up |-> FALSE]

ScalerInit ==
  /\ phase = [s \in Scalable |-> "stopped"] /\ hung = FALSE
  /\ replicas = [s \in Scalable |-> 0] /\ spawned = [s \in Scalable |-> 0]
  /\ tracked = {} /\ load = [s \in {} |-> "low"] /\ aggregating = {} /\ measured = Nothing
  /\ cooling = {} /\ tick = NoTick

-----------------------------------------------------------------------------
(* Users, through the manager.                                              *)

\* mutant: a scale adds an instance to what there is
OneMore(s, target) == spawned[s]..(spawned[s] + 1)

\* The instances there may be once a scale to the target has gone through:
\* some may not spawn.
Resized(s, target) ==
  IF target > spawned[s] THEN spawned[s]..target ELSE {target}

\* scale_service.
Rescale(s, target) ==
  /\ \E n \in Resized(s, target) : spawned' = [spawned EXCEPT ![s] = n]
  /\ IF target > spawned[s]
     THEN replicas' = [replicas EXCEPT ![s] = spawned'[s]] /\ UNCHANGED hung
     ELSE hung' = TRUE /\ UNCHANGED replicas
  /\ UNCHANGED phase

StartScalable(s) ==
  /\ ~hung /\ phase[s] = "stopped" /\ phase' = [phase EXCEPT ![s] = "running"]
  /\ \E n \in 0..MinReplicas :     \* some may not spawn
       /\ n > 0 \/ MinReplicas = 0
       /\ replicas' = [replicas EXCEPT ![s] = n] /\ spawned' = [spawned EXCEPT ![s] = n]
  /\ UNCHANGED <<hung, collector, cooling, tick>>

StopScalable(s) ==
  /\ ~hung /\ phase[s] = "running" /\ phase' = [phase EXCEPT ![s] = "stopped"]
  /\ replicas' = [replicas EXCEPT ![s] = 0] /\ spawned' = [spawned EXCEPT ![s] = 0]
  /\ UNCHANGED <<hung, collector, cooling, tick>>

ScaleByUser(s, target) ==
  /\ ~hung /\ phase[s] = "running" /\ Rescale(s, target)
  /\ UNCHANGED <<collector, cooling, tick>>

DeleteScalable(s) ==
  /\ ~hung /\ phase[s] = "stopped" /\ phase' = [phase EXCEPT ![s] = "deleted"]
  /\ UNCHANGED <<replicas, spawned, hung, collector, cooling, tick>>

-----------------------------------------------------------------------------
(* The metrics collector.                                                   *)

RegisterMetrics(s) ==
  /\ tracked' = tracked \cup {s}
  /\ load' = [x \in DOMAIN load \cup {s} |-> IF x \in DOMAIN load THEN load[x] ELSE "low"]
  /\ UNCHANGED <<phase, replicas, spawned, hung, aggregating, measured, cooling, tick>>

UnregisterMetrics(s) ==
  /\ tracked' = tracked \ {s} /\ load' = [x \in DOMAIN load \ {s} |-> load[x]]
  /\ UNCHANGED <<phase, replicas, spawned, hung, aggregating, measured, cooling, tick>>

AggregateAll ==
  /\ aggregating = {} /\ measured = Nothing /\ aggregating' = tracked
  /\ UNCHANGED <<phase, replicas, spawned, hung, tracked, load, measured, cooling, tick>>

\* A tracker that has gone is passed over, ...
Aggregate(s) ==
  /\ s \in aggregating /\ measured = Nothing /\ aggregating' = aggregating \ {s}
  /\ measured' = IF s \in tracked THEN s ELSE Nothing
  /\ UNCHANGED <<phase, replicas, spawned, hung, tracked, load, cooling, tick>>

\* ... but not one that goes while its samples are read.
EnterMetrics ==
  /\ measured # Nothing /\ measured' = Nothing
  /\ \E level \in {"low", "normal", "high"} :
       load' = [x \in DOMAIN load \cup {measured} |-> IF x = measured THEN level ELSE load[x]]
  /\ UNCHANGED <<phase, replicas, spawned, hung, tracked, aggregating, cooling, tick>>

-----------------------------------------------------------------------------
(* check_and_scale.                                                         *)

ScalableServices ==
  /\ tick.pc = "idle" /\ ~hung
  /\ tick' = [NoTick EXCEPT !.pc = "next",
       !.todo = {<<s, replicas[s]>> : s \in {x \in Scalable : phase[x] = "running"}}]
  /\ UNCHANGED <<phase, replicas, spawned, hung, collector, cooling>>

\* The next service, unless it is in cooldown.
CheckCooldown ==
  /\ tick.pc = "next"
  /\ \/ tick.todo = {} /\ tick' = NoTick
     \/ \E entry \in tick.todo :
          tick' = [tick EXCEPT !.todo = @ \ {entry}, !.svc = entry[1], !.current = entry[2],
                               !.pc = IF entry[1] \in cooling THEN "next" ELSE "metrics"]
  /\ UNCHANGED <<phase, replicas, spawned, hung, collector, cooling>>

\* Its metrics, then its bounds under the manager's lock, decide.
GetMetrics ==
  /\ tick.pc = "metrics"
  /\ tick' = IF tick.svc \notin DOMAIN load \/ load[tick.svc] = "normal"
             THEN [tick EXCEPT !.pc = "next"]
             ELSE [tick EXCEPT !.pc = "bounds", !.up = load[tick.svc] = "high"]
  /\ UNCHANGED <<phase, replicas, spawned, hung, collector, cooling>>

CheckBounds ==
  /\ tick.pc = "bounds" /\ ~hung
  /\ tick' = [tick EXCEPT !.pc =
       IF phase[tick.svc] = "deleted" THEN "next"
       ELSE IF tick.up /\ tick.current >= MaxReplicas[tick.svc] THEN "next"
       ELSE IF ~tick.up /\ tick.current <= MinReplicas THEN "next"
       ELSE "scale"]
  /\ UNCHANGED <<phase, replicas, spawned, hung, collector, cooling>>

\* scale_up or scale_down, from the count the tick began with.
ScaleService ==
  LET target == IF tick.up THEN tick.current + 1 ELSE tick.current - 1 IN
  /\ tick.pc = "scale" /\ ~hung
  /\ IF phase[tick.svc] = "running"
     THEN Rescale(tick.svc, target) /\ tick' = [tick EXCEPT !.pc = "cool"]
     ELSE tick' = [tick EXCEPT !.pc = "next"] /\ UNCHANGED <<phase, replicas, spawned, hung>>
  /\ UNCHANGED <<collector, cooling>>

SetCooldown ==
  /\ tick.pc = "cool" /\ ~hung
  /\ cooling' = cooling \cup {tick.svc} /\ tick' = [tick EXCEPT !.pc = "next"]
  /\ UNCHANGED <<phase, replicas, spawned, hung, collector>>

CooldownOver(s) ==
  /\ s \in cooling /\ cooling' = cooling \ {s}
  /\ UNCHANGED <<phase, replicas, spawned, hung, collector, tick>>

ScalerNext ==
  \/ \E s \in Scalable :
       \/ StartScalable(s) \/ StopScalable(s) \/ DeleteScalable(s)
       \/ \E target \in 0..MostReplicas : ScaleByUser(s, target)
       \/ RegisterMetrics(s) \/ UnregisterMetrics(s) \/ Aggregate(s) \/ CooldownOver(s)
  \/ AggregateAll \/ EnterMetrics
  \/ ScalableServices \/ CheckCooldown \/ GetMetrics \/ CheckBounds
  \/ ScaleService \/ SetCooldown

ScalerSpec == ScalerInit /\ [][ScalerNext]_scalerVars

-----------------------------------------------------------------------------
(* Properties.                                                              *)

\* Whatever users did since its tick began, a scale-up never leaves a service
\* with more instances than its maximum, even if it takes some away because
\* the count it began with is stale; and a scale-down takes none of the last
\* ones that the minimum asks for.
ScalerStaysInBounds ==
  [][\A s \in Scalable :
       (tick.pc = "scale" /\ tick'.pc # "scale" /\ spawned'[s] # spawned[s]) =>
         /\ tick.up => spawned'[s] <= MaxReplicas[s]
         /\ (~tick.up /\ spawned'[s] < spawned[s]) => spawned'[s] >= MinReplicas]_scalerVars

=============================================================================
