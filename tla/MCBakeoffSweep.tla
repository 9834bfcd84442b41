--------------------------- MODULE MCBakeoffSweep ---------------------------
(* Instance of BakeoffSweep for TLC. *)
EXTENDS BakeoffSweep, TLC

Symmetry == Permutations(InitialGold) \cup Permutations(Incidents \ InitialGold)
=============================================================================
