-------------------------- MODULE MCGatewaySessions --------------------------
EXTENDS GatewaySessions, TLC

(* Addresses, goroutines and connections are only compared.                *)
Symmetry == Permutations(Clients) \cup Permutations(Workers) \cup Permutations(Backends)
=============================================================================
