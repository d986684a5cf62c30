------------------------ MODULE MCIndexPublication ------------------------
(* Model values for IndexPublication.                         *)
EXTENDS IndexPublication

CONSTANTS r1, r2, p1, p2, t1, t2, e1, l1, l2
===========================================================================
