--------------------------- MODULE MCRealtimeSync ---------------------------
(* A small instance of RealtimeSync: two devices and a two-valued child.   *)
EXTENDS RealtimeSync, TLC

Symmetry == Permutations(Device) \cup Permutations(Val)
=============================================================================
