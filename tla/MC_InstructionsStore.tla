------------------------ MODULE MC_InstructionsStore ------------------------
(* Two sections of one template each, and their contents on disk. *)
EXTENDS InstructionsStore, TLC

CONSTANTS A, B, f1, f2, d, e

MCSectionOf == (f1 :> A) @@ (f2 :> B)
MCFirstFile == (A :> f1) @@ (B :> f2)
MCDisk == (f1 :> d) @@ (f2 :> d)
=============================================================================
