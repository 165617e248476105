------------------------------ MODULE MCSeatInput -----------------------------
(***************************************************************************)
(* SeatInput with interchangeable windows.  The buttons are not: the       *)
(* backend notifies of those that differ in a fixed order.                 *)
(***************************************************************************)
EXTENDS SeatInput, TLC

Interchangeable == Permutations(Windows)
=============================================================================
