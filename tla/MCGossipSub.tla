----------------------------- MODULE MCGossipSub -----------------------------
(* GossipSub for TLC: all nodes are alike as long as none of them is late. *)
EXTENDS GossipSub, TLC

NodeSymmetry == Permutations(Nodes \ Late)

=============================================================================
