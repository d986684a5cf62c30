------------------------- MODULE CandidatePipeline -------------------------
(***************************************************************************)
(* Isolated candidates racing for one project artifact root: every source  *)
(* has a supervisor that hands out load attempts, builders prepare full or *)
(* delta candidates under an attempt, and `commit' is the only place that  *)
(* publishes.  A LoadAttempt is lent to prepare_full and prepare_delta by  *)
(* reference, so several candidates may carry one attempt; cancel consumes *)
(* it.  A commit holds the supervisor's lock and then the root's; so every *)
(* operation is one action.                                                *)
(***************************************************************************)
EXTENDS Candidate

CONSTANTS
    Sources,      \* the sources of the project, each with its supervisor
    Builders,     \* callers that hold at most one candidate each
    Observable,   \* the observations builders meet in this instance
    Limit,        \* capacity of the owner that candidates are charged to
    MaxAttempts,  \* bound on the attempts minted for each source
    MaxStamp      \* bound on the content tokens

ASSUME PipelineAssumption ==
    /\ Limit \in Nat /\ MaxStamp \in Nat
    /\ MaxAttempts \in [Sources -> Nat]
    /\ MaxRecords \in Nat \ {0}
    /\ Absent \notin Nat
    /\ Observable \subseteq Observations
    /\ IsFiniteSet(Sources)

VARIABLES
    sup,      \* the supervisor of each source
    tokens,   \* the LoadAttempts of each source that cancel has not consumed
    root,     \* ProjectArtifactRoot: the content token of each source
    builder,  \* what each builder is doing
    charged,  \* bytes charged to the owner
    stamp,    \* the next content token
    log,      \* history: the attempts that published, per source, in order
    fence,    \* history: the first attempt minted by the last retry trigger
    touched   \* history: builders whose source changed since they loaded it

historyVars == <<log, fence, touched>>
vars == <<sup, tokens, root, builder, charged, stamp, historyVars>>

Idle == [pc |-> "idle"]
Loaded(s, expected) == [pc |-> "loaded", source |-> s, expected |-> expected]

Init ==
    /\ sup = [s \in Sources |-> new_supervisor]
    /\ tokens = [s \in Sources |-> {}]
    /\ root = [s \in Sources |-> Absent]
    /\ builder = [b \in Builders |-> Idle]
    /\ charged = 0
    /\ stamp = 1
    /\ log = [s \in Sources |-> <<>>]
    /\ fence = [s \in Sources |-> 0]
    /\ touched = {}

-----------------------------------------------------------------------------
(* The supervisor.                                                         *)

begin_attempt(s) ==
    /\ sup[s].next_attempt < MaxAttempts[s]
    /\ sup' = [sup EXCEPT ![s] = mint(@)]
    /\ tokens' = [tokens EXCEPT ![s] = @ \cup {sup[s].next_attempt}]
    /\ UNCHANGED <<root, builder, charged, stamp, historyVars>>

RetryTrigger(s) ==
    /\ sup[s].next_attempt < MaxAttempts[s]
    /\ sup' = [sup EXCEPT ![s] = retry_trigger(@)]
    /\ tokens' = [tokens EXCEPT ![s] = @ \cup {sup[s].next_attempt}]
    /\ fence' = [fence EXCEPT ![s] = sup[s].next_attempt]
    /\ UNCHANGED <<root, builder, charged, stamp, log, touched>>

cancel(s, i) ==
    /\ i \in tokens[s]
    /\ sup' = [sup EXCEPT ![s] = terminal_row(@, i, "Cancelled")]
    /\ tokens' = [tokens EXCEPT ![s] = @ \ {i}]
    /\ UNCHANGED <<root, builder, charged, stamp, historyVars>>

-----------------------------------------------------------------------------
(* Preparing a candidate: reserve, then build beside the root.             *)

\* A delta's caller reads the token it expects to replace first.
LoadExpected(b, s) ==
    /\ builder[b].pc = "idle"
    /\ builder' = [builder EXCEPT ![b] = Loaded(s, root[s])]
    /\ touched' = touched \ {b}
    /\ UNCHANGED <<sup, tokens, root, charged, stamp, log, fence>>

\* A reservation beyond the limit is refused before anything is built.
Exhausted(seen) == charged + reserved_bytes(seen) > Limit

Prepare(b, s, i, seen, delta, expected) ==
    /\ i \in tokens[s]
    /\ stamp <= MaxStamp
    /\ IF Exhausted(seen)
       THEN /\ builder' = [builder EXCEPT ![b] = Idle]
            /\ UNCHANGED <<charged, stamp>>
       ELSE /\ charged' = charged + reserved_bytes(seen)
            /\ stamp' = stamp + 1
            /\ \E outcome \in build_outcomes(seen) :
                  builder' = [builder EXCEPT ![b] =
                      [pc |-> "prepared", source |-> s, attempt |-> i,
                       delta |-> delta, expected |-> expected,
                       outcome |-> outcome,
                       new |-> IF outcome = "Ready" THEN built(seen, stamp)
                               ELSE [t \in Sources |-> Absent],
                       bytes |-> reserved_bytes(seen)]]
    /\ UNCHANGED <<sup, tokens, root, historyVars>>

prepare_full(b) ==
    /\ builder[b].pc = "idle"
    /\ \E s \in Sources : \E i \in tokens[s] :
       \E seen \in [Sources -> Observable] :
          Prepare(b, s, i, seen, FALSE, Absent)

prepare_delta(b) ==
    /\ builder[b].pc = "loaded"
    /\ LET s == builder[b].source IN
       \E i \in tokens[s], o \in Observable \ {"none"} :
          Prepare(b, s, i, [t \in Sources |-> IF t = s THEN o ELSE "none"],
                  TRUE, builder[b].expected)

-----------------------------------------------------------------------------
(* The commit point.                                                       *)

\* Mutant: a dropped candidate keeps its charge.
DropUnrefunded(b) ==
    /\ builder' = [builder EXCEPT ![b] = Idle]
    /\ UNCHANGED charged

\* The candidate goes, and with it its capacity permit.
Drop(b) ==
    /\ builder' = [builder EXCEPT ![b] = Idle]
    /\ charged' = charged - builder[b].bytes

DropCandidate(b) ==
    /\ builder[b].pc = "prepared"
    /\ Drop(b)
    /\ UNCHANGED <<sup, tokens, root, stamp, historyVars>>

\* Mutant: the commit does not ask whether the attempt has ended.
RefusedIfSuperseded(s, i) == i \in sup[s].superseded

\* A superseded or ended attempt is refused and leaves nothing behind.
Refused(s, i) == i \in sup[s].superseded \/ i \in sup[s].terminal

\* Mutant: a delta is not validated against the live root.
NeverDrifted(c) == FALSE

\* The delta's source token is not the one its caller loaded.
Drifted(c) == c.delta /\ root[c.source] # c.expected

commit(b) ==
    LET c == builder[b]
        s == c.source
        i == c.attempt
    IN  /\ c.pc = "prepared"
        /\ Drop(b)
        /\ \/ /\ Refused(s, i)
              /\ UNCHANGED <<sup, root, log>>
           \/ /\ ~Refused(s, i) /\ c.outcome = "Classified"
              /\ sup' = [sup EXCEPT ![s] = terminal_row(@, i, "Discarded")]
              /\ UNCHANGED <<root, log>>
           \/ /\ ~Refused(s, i) /\ c.outcome = "Panicked"
              /\ sup' = [sup EXCEPT ![s] = terminal_row(@, i, "Panicked")]
              /\ UNCHANGED <<root, log>>
           \/ \* SameSourceDrift: refused, and the attempt stays live.
              /\ ~Refused(s, i) /\ c.outcome = "Ready" /\ Drifted(c)
              /\ UNCHANGED <<sup, root, log>>
           \/ /\ ~Refused(s, i) /\ c.outcome = "Ready" /\ ~Drifted(c)
              /\ root' = publish(root, c.new, c.delta)
              /\ sup' = [sup EXCEPT ![s] = record_commit(@, i)]
              /\ log' = [log EXCEPT ![s] = Append(@, i)]
        /\ touched' = touched \cup
              {a \in Builders : /\ builder[a].pc # "idle"
                                /\ root'[builder[a].source] # root[builder[a].source]}
        /\ UNCHANGED <<tokens, stamp, fence>>

Next ==
    \/ \E s \in Sources :
          \/ begin_attempt(s)
          \/ RetryTrigger(s)
          \/ \E i \in tokens[s] : cancel(s, i)
    \/ \E b \in Builders :
          \/ \E s \in Sources : LoadExpected(b, s)
          \/ prepare_full(b)
          \/ prepare_delta(b)
          \/ DropCandidate(b)
          \/ commit(b)

Spec == Init /\ [][Next]_vars

-----------------------------------------------------------------------------
(* Properties.                                                             *)

Tokens == Nat \cup {Absent}

Loads == [pc : {"loaded"}, source : Sources, expected : Tokens]

Candidates ==
    [pc : {"prepared"}, source : Sources, attempt : Nat, delta : BOOLEAN,
     expected : Tokens, outcome : {"Ready", "Classified", "Panicked"},
     new : [Sources -> Tokens], bytes : Nat]

TypeOK ==
    /\ sup \in [Sources -> Supervisors]
    /\ tokens \in [Sources -> SUBSET Nat]
    /\ root \in [Sources -> Tokens]
    /\ builder \in [Builders -> {Idle} \cup Loads \cup Candidates]
    /\ charged \in Nat /\ stamp \in Nat \ {0}
    /\ log \in [Sources -> Seq(Nat)]
    /\ fence \in [Sources -> Nat]
    /\ touched \subseteq Builders

\* The attempts in `pub' published once each, the committed ledger counts them,
\* and none is superseded.
Once(v, pub) ==
    /\ \A m, n \in 1 .. Len(pub) : pub[m] = pub[n] => m = n
    /\ v.committed = Len(pub)
    /\ \A n \in 1 .. Len(pub) : pub[n] \in v.terminal \ v.superseded

\* An attempt publishes at most once, however many candidates carry it, and
\* the committed ledger (committed_generations) counts exactly the attempts
\* that published; none of them was superseded by then or later.
PublishesOnce == \A s \in Sources : Once(sup[s], log[s])

\* The places of the Committed rows, from place m on.
CommittedFrom(rows, m) ==
    {k \in m .. Len(rows) : rows[k].disposition = "Committed"}

\* The Committed rows are the newest published attempts, in order.
NewestPublished(rows, pub) ==
    \A m \in CommittedFrom(rows, 1) :
       LET later == Cardinality(CommittedFrom(rows, m + 1))
       IN  later < Len(pub) /\ rows[m].id = pub[Len(pub) - later]

\* No attempt has two rows.
OneRowEach(rows) ==
    \A m, n \in 1 .. Len(rows) : rows[m].id = rows[n].id => m = n

\* No attempt has two rows, the Committed rows are the newest published attempts
\* in order, and none is missing while the ledger has room.
Agree(rows, pub) ==
    /\ Len(rows) <= MaxRecords
    /\ OneRowEach(rows)
    /\ NewestPublished(rows, pub)
    /\ Len(rows) < MaxRecords => Cardinality(CommittedFrom(rows, 1)) = Len(pub)

\* The diagnostics ledger never disagrees with the committed one: no attempt
\* has two rows, its Committed rows are the newest published attempts in the
\* order they published, and none is missing while the ledger has room.
LedgersAgree == \A s \in Sources : Agree(sup[s].records, log[s])

\* The bytes the prepared candidates hold, one by one.
HeldBytes ==
    {x \in Builders \X (1 .. Limit) : /\ builder[x[1]].pc = "prepared"
                                     /\ x[2] <= builder[x[1]].bytes}

\* What is charged is what the prepared candidates reserved, and it is never
\* beyond the limit: every end of a candidate refunds it once.
ChargesConserved == charged = Cardinality(HeldBytes) /\ charged <= Limit

\* A build started before a retry trigger of its source never publishes after
\* it: the trigger supersedes every attempt in flight, not the newest alone.
RetryFencesOldBuilds ==
    [][log' # log =>
          \A s \in Sources : log'[s] # log[s] =>
             log'[s][Len(log'[s])] >= fence[s]]_vars

\* A delta over indexed content publishes only when nobody republished its
\* source since its caller loaded the token it exact-validates.
DeltaReplacesWhatItLoaded ==
    [][root' # root =>
          \A b \in Builders :
             (/\ commit(b) /\ builder[b].delta
              /\ builder[b].expected \notin {Absent, MetadataToken})
             => b \notin touched]_vars

\* A delta patches the latest root: the other sources, and whatever was
\* published on them since it was prepared, survive its commit.
SiblingsSurvive ==
    [][root' # root =>
          \A b \in Builders :
             commit(b) /\ builder[b].delta =>
                \A s \in Sources \ {builder[b].source} : root'[s] = root[s]]_vars

-----------------------------------------------------------------------------
(* What makes them inductive.                                              *)

\* Every attempt a supervisor minted is in flight or has ended, and only ended
\* ones are superseded or have a row.
Ends(v) ==
    /\ v.live \cup v.terminal = 0 .. v.next_attempt - 1
    /\ v.live \cap v.terminal = {}
    /\ v.superseded \subseteq v.terminal
    /\ \A m \in 1 .. Len(v.records) : v.records[m].id \in v.terminal

\* A retry trigger has ended all attempts before the one it minted.
AttemptsEnd ==
    \A s \in Sources :
       /\ Ends(sup[s])
       /\ tokens[s] \subseteq 0 .. sup[s].next_attempt - 1
       /\ fence[s] <= sup[s].next_attempt
       /\ 0 .. fence[s] - 1 \subseteq sup[s].terminal

Prepared(b) == builder[b].pc = "prepared"

\* A candidate carries an attempt of its source, a delta covers its source alone.
Fits(c) ==
    /\ c.attempt < sup[c.source].next_attempt
    /\ c.delta => \A t \in Sources \ {c.source} : c.new[t] = Absent
    /\ c.bytes <= Limit

CandidatesFit == \A b \in Builders : Prepared(b) => Fits(builder[b])

Content == Nat \ {MetadataToken}

\* Token k is known to builder b alone.
Own(k, b) ==
    /\ k < stamp
    /\ \A s \in Sources : root[s] # k
    /\ \A a \in Builders : builder[a].pc # "idle" => builder[a].expected # k
    /\ \A a \in Builders \ {b} : Prepared(a) => \A s \in Sources : builder[a].new[s] # k

\* The token of a candidate's content is its own until it is published.
TokensAreOwn ==
    /\ \A s \in Sources : root[s] \in Content => root[s] < stamp
    /\ \A a \in Builders : builder[a].pc # "idle" /\ builder[a].expected \in Content =>
          builder[a].expected < stamp
    /\ \A b \in Builders : Prepared(b) =>
          \A s \in Sources : builder[b].new[s] \in Content => Own(builder[b].new[s], b)

\* A source that was republished has another token than its loader expects.
TouchedHaveDrifted ==
    \A b \in touched : builder[b].pc # "idle" /\ builder[b].expected \in Content =>
       root[builder[b].source] # builder[b].expected

IInv ==
    /\ TypeOK /\ AttemptsEnd /\ PublishesOnce /\ LedgersAgree
    /\ CandidatesFit /\ TokensAreOwn /\ TouchedHaveDrifted
    /\ IsFiniteSet(HeldBytes) /\ ChargesConserved
=============================================================================
