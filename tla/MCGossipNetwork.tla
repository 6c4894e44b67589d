-------------------------- MODULE MCGossipNetwork --------------------------
(* GossipNetwork for TLC: every listener chose station s. *)
EXTENDS GossipNetwork, TLC

CONSTANTS s, t, k, l

Tuned == [x \in Listeners |-> s]
ListenerSymmetry == Permutations(Listeners)
=============================================================================
