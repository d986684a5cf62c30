---------------------------- MODULE MCEditCommit ----------------------------
(***************************************************************************)
(* Two batches on the same two files, one of which both create, beside an  *)
(* unguarded writer of the other; and a guarded writer beside a tool that  *)
(* calls atomic_write_file itself.                                         *)
(***************************************************************************)
EXTENDS EditCommit, TLC

CONSTANTS b1, b2, g, u, d

LockingKind == (b1 :> "batch") @@ (b2 :> "batch") @@ (u :> "unguarded")
LockingTargets == (b1 :> {1, 2}) @@ (b2 :> {1, 2}) @@ (u :> {1})

DirectKind == (g :> "guarded") @@ (d :> "direct")
DirectTargets == (g :> {1}) @@ (d :> {1})
=============================================================================
