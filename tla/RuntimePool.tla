----------------------------- MODULE RuntimePool -----------------------------
(***************************************************************************)
(* The cache of modules that the instances of all services share,          *)
(* fabricks-runtime/src/pool.rs.  get_runtime looks a digest up under one  *)
(* lock and, on a miss, evicts and inserts under another.                  *)
(***************************************************************************)
EXTENDS Naturals, FiniteSets

CONSTANTS
  Digests,      \* digests of modules
  Fetchers,     \* tasks that want a runtime
  MaxModules,   \* max_modules
  NoDigest      \* no digest

ASSUME PoolAssumption == MaxModules \in Nat /\ NoDigest \notin Digests

VARIABLES
  cached,   \* the digests in the cache
  missed    \* task -> the digest it looked up and did not find

poolVars == <<cached, missed>>

PoolInit == cached = {} /\ missed = [t \in Fetchers |-> NoDigest]

\* The digest is found, which changes nothing, or it is not.
LookUp(t, digest) ==
  /\ missed[t] = NoDigest /\ digest \notin cached
  /\ missed' = [missed EXCEPT ![t] = digest] /\ UNCHANGED cached

\* mutant: eviction starts one module too late
OverLimit == Cardinality(cached) > MaxModules

AtLimit == Cardinality(cached) >= MaxModules

\* Any module may go, even the one about to be inserted, if another task
\* inserted it since.
Insert(t) ==
  /\ missed[t] # NoDigest
  /\ \/ ~AtLimit /\ cached' = cached \cup {missed[t]}
     \/ AtLimit /\ cached = {} /\ cached' = {missed[t]}
     \/ AtLimit /\ \E evicted \in cached : cached' = (cached \ {evicted}) \cup {missed[t]}
  /\ missed' = [missed EXCEPT ![t] = NoDigest]

\* evict and clear.
Evict(digest) == digest \in cached /\ cached' = cached \ {digest} /\ UNCHANGED missed
ClearPool == cached # {} /\ cached' = {} /\ UNCHANGED missed

PoolNext ==
  \/ \E t \in Fetchers : Insert(t) \/ \E digest \in Digests : LookUp(t, digest)
  \/ \E digest \in Digests : Evict(digest)
  \/ ClearPool

PoolSpec == PoolInit /\ [][PoolNext]_poolVars

-----------------------------------------------------------------------------
(* Properties.                                                              *)

\* However many tasks miss at once, the pool keeps no more modules than its
\* limit, or one if that is 0.
PoolBounded == Cardinality(cached) <= MaxModules \/ (MaxModules = 0 /\ Cardinality(cached) = 1)

=============================================================================
