-------------------------- MODULE MCCapacityLedger --------------------------
(***************************************************************************)
(* Two pools and three owners, so that an owner may have a grandchild and  *)
(* a grant may be presented to the wrong pool.                             *)
(***************************************************************************)
EXTENDS CapacityLedger, TLC

Symmetry == Permutations(Pools) \cup Permutations(Owners)
=============================================================================
