-------------------------- MODULE MCServiceManager --------------------------
(***************************************************************************)
(* Small instances of ServiceManager for TLC.                              *)
(***************************************************************************)
EXTENDS ServiceManager

CONSTANTS i1, i2, i3, db, api, p, q, data, back

Service(name, deps, mounts) == [name |-> name, deps |-> deps, mounts |-> mounts]

\* A project whose api needs its db; one that shares the name db; one whose
\* services need each other.
AppMortar ==
  [project |-> p, networks |-> {back}, volumes |-> {data},
   services |-> <<Service(api, {db}, {}), Service(db, {}, {data})>>]
SharedMortar ==
  [project |-> q, networks |-> {}, volumes |-> {},
   services |-> <<Service(db, {}, {})>>]
CircularMortar ==
  [project |-> q, networks |-> {}, volumes |-> {},
   services |-> <<Service(api, {db}, {}), Service(db, {api}, {})>>]

AllMortars == {AppMortar, SharedMortar, CircularMortar}
JustApp == {AppMortar}

Symmetry == Permutations(Ids) \cup Permutations(Code)
=============================================================================
