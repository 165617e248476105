------------------------------ MODULE MCIviScene ------------------------------
(***************************************************************************)
(* IviScene for TLC: surfaces, and places of layers, are interchangeable.  *)
(***************************************************************************)
EXTENDS IviScene, TLC

Symmetry == Permutations(Surfaces) \cup Permutations(Layers)
=============================================================================
