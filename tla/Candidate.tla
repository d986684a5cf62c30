----------------------------- MODULE Candidate -----------------------------
(***************************************************************************)
(* The per-source supervisor (supervisor.rs) and what one isolated         *)
(* candidate computes (candidate.rs), as operators on records.             *)
(*                                                                         *)
(* An attempt is a number: ids are minted in order, so the most recent of  *)
(* a set of attempts is its maximum.  A classified cause, a manifest and   *)
(* the four derived artifacts of a source carry no control and are left    *)
(* out; a source's artifacts are the content token they were built from.   *)
(***************************************************************************)
EXTENDS Naturals, FiniteSets, Sequences

CONSTANTS
    Absent,        \* the project root has no such source
    MaxRecords     \* MAX_ATTEMPT_RECORDS (64)

MetadataToken == 0 \* the token of a metadata-only source

Dispositions == {"Committed", "Discarded", "Cancelled", "Superseded", "Panicked"}

\* SupervisorState.
Supervisors ==
    [next_attempt : Nat, live : SUBSET Nat, superseded : SUBSET Nat,
     terminal : SUBSET Nat, committed : Nat,
     records : Seq([id : Nat, disposition : Dispositions])]

new_supervisor ==
    [next_attempt |-> 0, live |-> {}, superseded |-> {}, terminal |-> {},
     committed |-> 0, records |-> <<>>]

Row(id, disposition) == [id |-> id, disposition |-> disposition]

\* Mutant: the ledger keeps its oldest rows.
Newest_oldest(rows) ==
    SubSeq(rows, 1, IF Len(rows) < MaxRecords THEN Len(rows) ELSE MaxRecords)

\* The ledger keeps its newest rows.
Newest(rows) ==
    IF Len(rows) > MaxRecords
    THEN SubSeq(rows, Len(rows) - MaxRecords + 1, Len(rows)) ELSE rows

mint(s) ==
    [s EXCEPT !.live = @ \cup {s.next_attempt}, !.next_attempt = @ + 1]

\* An attempt ends once; later terminal events record nothing.
terminal_row(s, id, disposition) ==
    IF id \in s.terminal THEN s
    ELSE [s EXCEPT !.terminal = @ \cup {id}, !.live = @ \ {id},
                   !.records = Newest(Append(@, Row(id, disposition)))]

record_commit(s, id) ==
    [terminal_row(s, id, "Committed") EXCEPT
        !.committed = IF id \in s.terminal THEN @ ELSE @ + 1]

\* Mutant: a successor is minted and the builds in flight go on.
retry_unfenced(s) == mint(s)

\* Attempts in mint order.
InOrder(ids) ==
    [n \in 1 .. Cardinality(ids) |->
        CHOOSE i \in ids : Cardinality({j \in ids : j < i}) = n - 1]

\* The rows of a retry trigger: the newest live attempt is discarded with the
\* cause, then every other one is superseded, in mint order.
retry_rows(live) ==
    [n \in 1 .. Cardinality(live) |->
        IF n = 1 THEN Row(InOrder(live)[Cardinality(live)], "Discarded")
                 ELSE Row(InOrder(live)[n - 1], "Superseded")]

\* retry_trigger: no attempt in flight goes on, and a successor is minted.
retry_trigger(s) ==
    mint([s EXCEPT !.superseded = @ \cup s.live,
                   !.terminal = @ \cup s.live,
                   !.live = {},
                   !.records = Newest(@ \o retry_rows(s.live))])

-----------------------------------------------------------------------------
(* One candidate.  `seen' gives what was observed of each source: "none"   *)
(* when the candidate does not cover it.                                   *)

Observations == {"none", "Content", "MetadataOnly", "Failed"}

\* reserved_bytes: the content bytes, one per content source, at least one.
reserved_bytes(seen) ==
    LET bytes == Cardinality({s \in DOMAIN seen : seen[s] = "Content"})
    IN  IF bytes = 0 THEN 1 ELSE bytes

\* build_sources: a failed observation classifies the whole candidate and a
\* derivation that unwinds discards it, whichever the build meets first.
build_outcomes(seen) ==
    (IF \E s \in DOMAIN seen : seen[s] = "Failed"
     THEN {"Classified"} ELSE {"Ready"})
    \cup (IF \E s \in DOMAIN seen : seen[s] = "Content"
          THEN {"Panicked"} ELSE {})

\* The artifacts of the sources a candidate covers.
built(seen, token) ==
    [s \in DOMAIN seen |->
        CASE seen[s] = "Content"      -> token
          [] seen[s] = "MetadataOnly" -> MetadataToken
          [] OTHER                    -> Absent]

\* Mutant: a delta publishes what it built and nothing else.
publish_only_new(root, new, delta) == new

\* A full candidate replaces the root; a delta patches what it covers into the
\* latest one.
publish(root, new, delta) ==
    IF delta THEN [s \in DOMAIN root |-> IF new[s] # Absent THEN new[s] ELSE root[s]]
             ELSE new
=============================================================================
