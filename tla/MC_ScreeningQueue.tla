-------------------------- MODULE MC_ScreeningQueue --------------------------
(* Small instances of ScreeningQueue for TLC. *)
EXTENDS ScreeningQueue, TLC

CONSTANTS m1, m2, m3, chat1, chat2

OneChat  == [m \in Messages |-> chat1]
TwoChats == [m \in Messages |-> IF m = m3 THEN chat2 ELSE chat1]

Symmetry == Permutations(Tokens) \cup Permutations(Workers) \cup Permutations({m1, m2})
=============================================================================
