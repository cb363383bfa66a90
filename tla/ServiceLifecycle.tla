-------------------------- MODULE ServiceLifecycle --------------------------
(***************************************************************************)
(* What a fabricksd service promises to whoever drives it: the legal moves *)
(* between the states of fabricksd/src/service/types.rs, and that a        *)
(* service which is not starting, running or stopping holds no resources   *)
(* (no WASM instance, no proxy port).  ServiceHandle implements it.        *)
(***************************************************************************)

VARIABLES
  state,    \* the State of the service
  busy      \* whether it holds an instance or a port

vars == <<state, busy>>

State == {"creating", "stopped", "starting", "running", "stopping", "failed",
          "deleting"}

CanStart  == {"stopped", "failed"}
CanStop   == {"running", "starting"}
CanDelete == {"stopped", "failed", "creating"}

\* The states in which a service may hold instances or ports.
Active == {"starting", "running", "stopping"}

Init == state = "creating" /\ ~busy

Move(from, to) == state \in from /\ state' = to

Initialise == Move({"creating"}, "stopped")  /\ UNCHANGED busy
BeginStart == Move(CanStart, "starting")     /\ UNCHANGED busy
Started    == Move({"starting"}, "running")  /\ UNCHANGED busy
StartFails == Move({"starting"}, "failed")   /\ ~busy'
BeginStop  == Move(CanStop, "stopping")      /\ UNCHANGED busy
Stopped    == Move({"stopping"}, "stopped")  /\ ~busy /\ ~busy'
Delete     == Move(CanDelete, "deleting")    /\ UNCHANGED busy

\* Instances and ports come and go while the service is active.
Work == state \in Active /\ busy' \in BOOLEAN /\ UNCHANGED state

Next == \/ Initialise \/ BeginStart \/ Started \/ StartFails
        \/ BeginStop \/ Stopped \/ Delete \/ Work

Spec == Init /\ [][Next]_vars

=============================================================================
