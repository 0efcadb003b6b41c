---------------------------- MODULE MC_MessageTree ----------------------------
(* A small conversation and two handlers that may interleave.              *)
EXTENDS MessageTree, TLC

Symmetry == Permutations(Requests)

=============================================================================
