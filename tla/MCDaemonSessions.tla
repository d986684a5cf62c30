-------------------------- MODULE MCDaemonSessions --------------------------
(***************************************************************************)
(* Two sessions on one project, with two loads: enough for one load to     *)
(* race another, or an unload.                                             *)
(***************************************************************************)
EXTENDS DaemonSessions, TLC

Symmetric == Permutations(Sessions)
=============================================================================
