------------------------- MODULE MCSourceAuthority -------------------------
(* Small instances of the write lane for TLC.  Threads, authorities and      *)
(* directories are only compared for equality.                               *)
EXTENDS SourceAuthority, TLC

Symmetry ==
    Permutations(Writers) \cup Permutations(Authorities) \cup Permutations(Dirs)
=============================================================================
