----------------------------- MODULE Dependency -----------------------------
(***************************************************************************)
(* The order in which the services of a mortar project are started and     *)
(* stopped: fabricksd/src/service/dependency.rs.  A project is a sequence  *)
(* of configs, records with at least a name and the set deps of the names  *)
(* in depends_on.  petgraph::toposort returns one topological order of the *)
(* graph, or an error when there is none; which one depends on the order   *)
(* of the edges, so here it is any of them.                                *)
(***************************************************************************)
EXTENDS Naturals, Sequences, SequencesExt

Known(configs) == {configs[i].name : i \in DOMAIN configs}

\* A config that depends on a name nobody has: validate_dependencies and
\* resolve_startup_order answer DependencyNotFound.
DependencyNotFound(configs) ==
  \E i \in DOMAIN configs : ~ (configs[i].deps \subseteq Known(configs))

\* `nodes` keeps the last node inserted under a name.
Node(configs, name) ==
  CHOOSE i \in DOMAIN configs :
    /\ configs[i].name = name
    /\ \A j \in DOMAIN configs : configs[j].name = name => j <= i

\* mutant: every edge added the other way round
EdgesBackwards(configs) ==
  UNION { { <<Node(configs, configs[i].name), Node(configs, dep)>> :
              dep \in configs[i].deps } : i \in DOMAIN configs }

\* Edges go from the dependency to the dependent.
Edges(configs) ==
  UNION { { <<Node(configs, dep), Node(configs, configs[i].name)>> :
              dep \in configs[i].deps } : i \in DOMAIN configs }

TopologicalOrders(configs) ==
  { order \in SetToSeqs(DOMAIN configs) :
      \A e \in Edges(configs) :
        \E p, q \in DOMAIN order : order[p] = e[1] /\ order[q] = e[2] /\ p < q }

\* The possible results of resolve_startup_order; none when the answer is
\* DependencyNotFound or CircularDependency.
StartupOrders(configs) ==
  IF DependencyNotFound(configs) THEN {}
  ELSE { [p \in DOMAIN order |-> configs[order[p]].name] :
           order \in TopologicalOrders(configs) }

\* mutant: the startup order, not reversed
ForwardOrders(configs) == StartupOrders(configs)

ShutdownOrders(configs) == { Reverse(order) : order \in StartupOrders(configs) }

\* get_dependents: the direct dependents of a service.
Dependents(name, configs) ==
  { configs[i].name : i \in { j \in DOMAIN configs : name \in configs[j].deps } }
=============================================================================
