----------------------------- MODULE MCSurfaceTree ----------------------------
(***************************************************************************)
(* SurfaceTree on interchangeable surfaces and buffers.                    *)
(***************************************************************************)
EXTENDS SurfaceTree, TLC

Interchangeable == Permutations(Surfaces) \cup Permutations(Buffers)
=============================================================================
