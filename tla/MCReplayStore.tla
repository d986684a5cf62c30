--------------------------- MODULE MCReplayStore ---------------------------
(***************************************************************************)
(* An instance of ReplayStore: one request of every kind of tool under one *)
(* key, so that a retry can also be a conflict.                            *)
(***************************************************************************)
EXTENDS ReplayStore, TLC

CONSTANTS edit, batch, fix, c1, c2, c3

Tools == edit :> "edit" @@ batch :> "batch" @@ fix :> "remediate"

CallerSymmetry == Permutations({c1, c2, c3})
=============================================================================
