---------------------------- MODULE MCRelayStore ----------------------------
(* The relay's store for TLC: keys, exchanges and nonces are interchangeable. *)
EXTENDS RelayStore, TLC

Symmetry ==
    Permutations(Operators) \cup Permutations(Exchanges) \cup Permutations(Nonces)
=============================================================================
