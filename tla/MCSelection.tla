----------------------------- MODULE MCSelection ------------------------------
(***************************************************************************)
(* Selection for TLC: clients, sources and the clipboard's sources may     *)
(* change names.                                                           *)
(***************************************************************************)
EXTENDS Selection, TLC

Symmetry == Permutations(Clients) \cup Permutations(Sources) \cup Permutations(Clips)
=============================================================================
