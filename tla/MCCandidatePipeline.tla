------------------------ MODULE MCCandidatePipeline ------------------------
(***************************************************************************)
(* Two builders race for a root with two sources.  Two attempts can be     *)
(* minted for the first source and one for the second, so that an attempt  *)
(* is superseded while a full candidate covers both sources.               *)
(***************************************************************************)
EXTENDS CandidatePipeline, TLC

CONSTANTS s1, s2

Attempts == [s \in Sources |-> IF s = s1 THEN 2 ELSE 1]

Symmetry == Permutations(Builders)
=============================================================================
