------------------------- MODULE MCObservationLane -------------------------
(* Small instances of the observation lane for TLC.  Tasks and sources are   *)
(* only compared for equality.                                               *)
EXTENDS ObservationLane, TLC

Symmetry == Permutations(Tasks) \cup Permutations(Sources)
=============================================================================
