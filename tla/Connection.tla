----------------------------- MODULE Connection -----------------------------
(***************************************************************************)
(* What decides about a connection that a service opens: validate_connec-  *)
(* tion (network/validation.rs) for the egress proxy, with the policy      *)
(* manager and engine it asks.  The answer is put together from a look at  *)
(* the registry, one at the memberships, one at the projects of services   *)
(* and one at the policies, while services join and leave networks and     *)
(* policies are loaded and unloaded, in two steps each.                    *)
(***************************************************************************)
EXTENDS FiniteSets

CONSTANTS
  Clients,     \* ids of services
  Outside,     \* external hosts, with the port
  NameOfId,    \* service -> its name, which is also its host name, with or
               \* without a port
  Grants,      \* service -> the hosts its capabilities let it connect to,
               \* AnyHost for all of them
  AnyHost,     \* "*"
  Networks,    \* networks
  Mortars,     \* mortar projects
  Members,     \* project -> its services
  Rules,       \* the sets of deny rules a policy may have
  Loaders,     \* tasks that load and unload policies
  Nobody       \* no service, host, project or list

\* A host with its port is not the id of a service, which is a UUID.
ASSUME ConnectionAssumption ==
  /\ \A s, t \in Clients : NameOfId[s] = NameOfId[t] => s = t
  /\ \A m, n \in Mortars : m # n => Members[m] \cap Members[n] = {}
  /\ \A host \in Outside \cup {NameOfId[s] : s \in Clients} : [host |-> host] \notin Clients

VARIABLES
  registered,   \* the services in the registry
  networksOf,   \* service -> its networks
  policies,     \* project -> [deny, services]: the policies loaded
  mortarOf,     \* service -> project
  policyLoads,  \* loader -> [pc, mortar, services]
  request,      \* the connection: [pc, from, host, to, mortar]
  reasons       \* history: what has been against it ever since it was asked for

settings == <<registered, networksOf, policies, mortarOf, policyLoads>>
connectionVars == <<settings, request, reasons>>

NotLoadingPolicy == [pc |-> "idle", mortar |-> Nobody, services |-> {}]
NoRequest == [pc |-> "idle", from |-> Nobody, host |-> Nobody, to |-> Nobody, mortar |-> Nobody]

ConnectionInit ==
  /\ registered = {} /\ networksOf = [s \in Clients |-> {}]
  /\ policies = [m \in {} |-> Nobody] /\ mortarOf = [s \in {} |-> Nobody]
  /\ policyLoads = [l \in Loaders |-> NotLoadingPolicy]
  /\ request = NoRequest /\ reasons = {}

Extend(f, new, x) == [y \in DOMAIN f \cup new |-> IF y \in new THEN x ELSE f[y]]
Shrink(f, gone) == [y \in DOMAIN f \ gone |-> f[y]]

-----------------------------------------------------------------------------
(* The policy engine.                                                       *)

\* matches_service_list: an id, the name the project has for it, or "*".
MatchesService(list, s, policy) ==
  \/ list \cap {s, AnyHost} # {}
  \/ s \in policy.services /\ NameOfId[s] \in list

\* mutant: targets go by their ids only
MatchesId(list, t, policy) == list \cap {t, AnyHost} # {}

\* matches_target_list: the target itself, its name, or "*".  (Nothing asks
\* about a target by its name alone.)
MatchesTarget(list, t, policy) ==
  \/ list \cap {t, AnyHost} # {}
  \/ \E s \in policy.services : t = s /\ NameOfId[s] \in list

MatchesDenyRule(rule, from, to, policy) ==
  /\ rule.from = Nobody \/ MatchesService(rule.from, from, policy)
  /\ rule.to = Nobody \/ MatchesTarget(rule.to, to, policy)
  /\ rule.except = Nobody \/ ~( \/ MatchesService(rule.except, from, policy)
                                \/ MatchesTarget(rule.except, to, policy))

\* evaluate: a require rule cannot be violated yet, a warning allows.
PolicyDenies(policy, from, to) ==
  \E rule \in policy.deny : MatchesDenyRule(rule, from, to, policy)

-----------------------------------------------------------------------------
(* Policies are loaded and unloaded, services join and leave.               *)

LoadPolicies(l, m, deny, services) ==
  /\ policyLoads[l].pc = "idle" /\ services \subseteq Members[m]
  /\ policies' = Extend(policies, {m}, [deny |-> deny, services |-> services])
  /\ policyLoads' = [policyLoads EXCEPT ![l] = [pc |-> "map", mortar |-> m,
                                                services |-> services]]
  /\ UNCHANGED <<registered, networksOf, mortarOf, request>>

MapServices(l) ==
  /\ policyLoads[l].pc = "map"
  /\ mortarOf' = Extend(mortarOf, policyLoads[l].services, policyLoads[l].mortar)
  /\ policyLoads' = [policyLoads EXCEPT ![l] = NotLoadingPolicy]
  /\ UNCHANGED <<registered, networksOf, policies, request>>

UnloadPolicies(l, m) ==
  /\ policyLoads[l].pc = "idle" /\ m \in DOMAIN policies
  /\ policies' = Shrink(policies, {m})
  /\ policyLoads' = [policyLoads EXCEPT ![l] = [pc |-> "unmap", mortar |-> m,
                                                services |-> policies[m].services]]
  /\ UNCHANGED <<registered, networksOf, mortarOf, request>>

UnmapServices(l) ==
  /\ policyLoads[l].pc = "unmap"
  /\ mortarOf' = Shrink(mortarOf, policyLoads[l].services)
  /\ policyLoads' = [policyLoads EXCEPT ![l] = NotLoadingPolicy]
  /\ UNCHANGED <<registered, networksOf, policies, request>>

\* add_service, as its two maps see it: the memberships, then the name.
JoinNetwork(s, n) ==
  /\ networksOf' = [networksOf EXCEPT ![s] = @ \cup {n}]
  /\ UNCHANGED <<registered, policies, mortarOf, policyLoads, request>>

RegisterName(s) ==
  /\ networksOf[s] # {} /\ registered' = registered \cup {s}
  /\ UNCHANGED <<networksOf, policies, mortarOf, policyLoads, request>>

LeaveNetwork(s, n) ==
  /\ networksOf' = [networksOf EXCEPT ![s] = @ \ {n}]
  /\ UNCHANGED <<registered, policies, mortarOf, policyLoads, request>>

-----------------------------------------------------------------------------
(* validate_connection.                                                     *)

\* What a connection leads to when its host is no service: "host:port".
External(host) == [host |-> host]
Targets == Clients \cup {External(h) : h \in Outside \cup {NameOfId[s] : s \in Clients}}

Granted(s, host) == Grants[s] \cap {host, AnyHost} # {}

Decide(pc) == request' = [request EXCEPT !.pc = pc]

\* The capabilities are looked at first.
Connect(s, host) ==
  /\ request.pc = "idle"
  /\ request' = [NoRequest EXCEPT !.pc = IF Granted(s, host) THEN "resolve" ELSE "refused",
                                  !.from = s, !.host = host, !.to = External(host)]
  /\ UNCHANGED settings

\* A host in the registry is a service, any other is outside.
ResolveService ==
  /\ request.pc = "resolve"
  /\ \/ \E s \in registered :
          /\ NameOfId[s] = request.host
          /\ request' = [request EXCEPT !.pc = "share", !.to = s]
     \/ ~(\E s \in registered : NameOfId[s] = request.host) /\ Decide("project")
  /\ UNCHANGED settings

ServicesShareNetwork ==
  /\ request.pc = "share"
  /\ Decide(IF networksOf[request.from] \cap networksOf[request.to] # {}
            THEN "project" ELSE "refused")
  /\ UNCHANGED settings

\* get_applicable_policies: the project of the service, ...
FindProject ==
  /\ request.pc = "project"
  /\ request' = IF request.from \in DOMAIN mortarOf
                THEN [request EXCEPT !.pc = "policy", !.mortar = mortarOf[request.from]]
                ELSE [request EXCEPT !.pc = "allowed"]
  /\ UNCHANGED settings

\* ... and its policy; without one the connection is allowed.
EvaluatePolicy ==
  /\ request.pc = "policy"
  /\ Decide(IF /\ request.mortar \in DOMAIN policies
               /\ PolicyDenies(policies[request.mortar], request.from, request.to)
            THEN "refused" ELSE "allowed")
  /\ UNCHANGED settings

\* The egress proxy sends the request on, or connects, or answers 403.
Execute ==
  /\ request.pc \in {"allowed", "refused"} /\ request' = NoRequest /\ UNCHANGED settings

-----------------------------------------------------------------------------
\* A policy in force denies it: the policy of the project the service is in.
InForce(from, to) ==
  /\ from \in DOMAIN mortarOf /\ mortarOf[from] \in DOMAIN policies
  /\ LET policy == policies[mortarOf[from]]
         Lists(list, x) == \/ AnyHost \in list \/ x \in list
                           \/ x \in policy.services /\ NameOfId[x] \in list IN
     \E rule \in policy.deny :
       /\ rule.from # Nobody => Lists(rule.from, from)
       /\ rule.to # Nobody => Lists(rule.to, to)
       /\ rule.except # Nobody => ~Lists(rule.except, from) /\ ~Lists(rule.except, to)

\* What there is against a connection of a service.
Against(from) ==
  {<<"capability", t>> : t \in {u \in Targets :
     Grants[from] \cap {IF u \in Clients THEN NameOfId[u] ELSE u.host, AnyHost} = {}}}
  \cup {<<"network", s>> : s \in {t \in Clients : networksOf[from] \cap networksOf[t] = {}}}
  \cup {<<"policy", t>> : t \in {u \in Targets : InForce(from, u)}}

ConnectionStep ==
  \/ \E l \in Loaders :
       \/ \E m \in Mortars :
            \/ \E deny \in Rules, services \in SUBSET Members[m] :
                 LoadPolicies(l, m, deny, services)
            \/ UnloadPolicies(l, m)
       \/ MapServices(l) \/ UnmapServices(l)
  \/ \E s \in Clients :
       \/ \E n \in Networks : JoinNetwork(s, n) \/ LeaveNetwork(s, n)
       \/ RegisterName(s)
       \/ \E host \in Outside \cup {NameOfId[t] : t \in Clients} : Connect(s, host)
  \/ ResolveService \/ ServicesShareNetwork \/ FindProject \/ EvaluatePolicy \/ Execute

\* The history is kept from one step to the next.
ConnectionNext ==
  /\ ConnectionStep
  /\ reasons' = IF request'.pc = "idle" THEN {}
                ELSE IF request.pc = "idle" THEN Against(request.from)'
                ELSE reasons \cap Against(request.from)'

ConnectionSpec == ConnectionInit /\ [][ConnectionNext]_connectionVars

-----------------------------------------------------------------------------
(* Properties.                                                              *)

\* A connection is not allowed if, from the moment it was asked for until it
\* was decided, the capabilities of the service did not name its target, or
\* the two services shared no network, or a policy in force denied it.
RefusalsHold ==
  request.pc = "allowed" =>
    {<<why, request.to>> : why \in {"capability", "network", "policy"}} \cap reasons = {}

=============================================================================
