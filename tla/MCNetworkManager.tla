-------------------------- MODULE MCNetworkManager --------------------------
(* NetworkManager for TLC.  Tasks, network ids, service ids and names are  *)
(* interchangeable.                                                        *)
EXTENDS NetworkManager, TLC

Symmetry ==
  Permutations(Tasks) \cup Permutations(Nets) \cup Permutations(Services) \cup Permutations(Names)
=============================================================================
