--------------------------- MODULE SourceRuntime ---------------------------
(***************************************************************************)
(* The per-source runtime of authority.rs as operators on one record: the  *)
(* phase of the source, the publication and generation it stands on, and   *)
(* the permits recorded against its current freeze.  SourceAuthority gives *)
(* one of these records to every write authority and is the only module    *)
(* that changes one.                                                       *)
(*                                                                         *)
(* Identities (publications, generations, leases, observer tokens) come    *)
(* from one process-global counter in lifecycle_identity.rs.  They are     *)
(* natural numbers here and NoId stands for an absent one.  The mutation   *)
(* epoch and the grant count are diagnostics no decision reads and are     *)
(* left out.                                                               *)
(***************************************************************************)
EXTENDS Naturals

NoId == 0

Phases == {"Loading", "Current", "Refreshing", "Blocked", "Stopping"}

\* `generation' is the queryable generation of a Current source and the
\* retained one of every other phase; `outstanding' and `ever_recorded' are
\* the two fields of ActivePermits.
Runtimes ==
    [phase : Phases, publication : Nat, generation : Nat, binding : Nat,
     observer_cut : Nat, outstanding : SUBSET Nat, ever_recorded : BOOLEAN]

\* SourceRuntime::current: a source that starts queryable.  A fresh identity
\* is minted for the publication and for the generation; no code compares
\* identities of different kinds, so one number serves both.
current(binding, token, id) ==
    [phase |-> "Current", publication |-> id, generation |-> id,
     binding |-> binding, observer_cut |-> token, outstanding |-> {},
     ever_recorded |-> FALSE]

live_publication(rt) == IF rt.phase = "Current" THEN rt.publication ELSE NoId

\* What a reader may be served from: the Current generation, or the retained
\* one of a refresh against which no permit was ever recorded.
queryable_generation(rt) ==
    IF \/ rt.phase = "Current"
       \/ rt.phase = "Refreshing" /\ ~rt.ever_recorded
    THEN rt.generation
    ELSE NoId

can_freeze(rt) == rt.phase \in {"Current", "Refreshing"}

\* Publish non-Current under a fresh publication.  The permit record of a
\* Refreshing source is carried over, and a Current one has none.
freeze(rt, id) ==
    [rt EXCEPT !.phase = "Refreshing", !.publication = id]

record_permit(rt, id) ==
    IF rt.phase = "Refreshing"
    THEN [rt EXCEPT !.outstanding = @ \cup {id}, !.ever_recorded = TRUE]
    ELSE rt

\* Mutant of retire_permit: a permit's end is not recorded on the source.
retire_permit_forgotten(rt, id) == rt

retire_permit(rt, id) ==
    IF rt.phase = "Refreshing"
    THEN [rt EXCEPT !.outstanding = @ \ {id}]
    ELSE rt

\* Mutant of request_mutation_grant: it trusts the freeze to close reads.
request_mutation_grant_unrecorded(rt, id) == freeze(rt, id)

\* The accepting path of request_mutation_grant on the live publication: the
\* source stops being queryable and records the permit the grant will become.
request_mutation_grant(rt, id) == record_permit(freeze(rt, id), id)

\* Mutant of install: it restores the generation the refresh retained.
install_retained(rt, binding, token, id) ==
    [current(binding, token, id) EXCEPT !.generation = rt.generation]

\* Install a promoted successor: nothing of the freeze, its permit record
\* included, survives.
install(rt, binding, token, id) == current(binding, token, id)

\* transition::apply.  `ended' is what the drain signal handed in reports.
can_apply(rt, ended) == ended /\ rt.outstanding = {} /\ can_freeze(rt)

apply(rt, ended, binding, token, id) ==
    IF can_apply(rt, ended)
    THEN install(freeze(rt, id), binding, token, id)
    ELSE rt
=============================================================================
