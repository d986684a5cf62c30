-------------------------- MODULE ObservationLane --------------------------
(***************************************************************************)
(* The observation lane of a repository path (activation.rs, observer.rs): *)
(* watcher incarnations register, observe admissions and removals and      *)
(* report gaps; facades observe under whatever incarnation is active;      *)
(* permit returns consume the accumulated cut.                             *)
(*                                                                         *)
(* Every ProjectSourceAuthority has one lane and everything here happens   *)
(* under its `lane' lock, but a task looks its authority up first and keeps*)
(* the Arc for a whole batch: the authority may be evicted, and the        *)
(* incarnation superseded, in between.  Authorities are numbered in the    *)
(* order they are made; the map's entry is the last one, or nothing.       *)
(***************************************************************************)
EXTENDS Candidate

CONSTANTS
    Tasks,           \* watcher instances, their sweeps, verifies and facades
    Sources,         \* relative paths
    Bound,           \* OBSERVATION_ACCUMULATOR_BOUND (4096)
    Budget,          \* OBSERVATION_CAPACITY_BYTES (2^30)
    MaxAuthorities,  \* bound on the authorities made
    MaxObservers,    \* bound on the observers of the first lane
    MaxStamp,        \* bound on the stamps of the first lane
    MaxCuts          \* bound on the cuts of the first lane (each later lane
                     \* has one less of the three)

ASSUME LaneAssumption ==
    /\ Bound \in Nat /\ Budget \in Nat \ {0}
    /\ MaxAuthorities \in Nat /\ MaxObservers \in Nat
    /\ MaxStamp \in Nat /\ MaxCuts \in Nat
    /\ MaxRecords \in Nat \ {0}
    /\ Absent \notin Nat

VARIABLES
    made,       \* how many authorities were made
    cachedLive, \* the map's entry exists and its anchor matches the path
    lane,       \* the lane of each authority
    task,       \* what each task is doing
    newest,     \* history: newest stamp of each source since the last cut
    owed,       \* history: a baseline is owed since the last cut
    admitted,   \* history: newest admitted stamp of each source
    superseded  \* history: tasks whose incarnation has a successor

historyVars == <<newest, owed, admitted, superseded>>
vars == <<made, cachedLive, lane, task, historyVars>>

Authorities == 1 .. MaxAuthorities
NoStamp == 0
Nothing == [s \in Sources |-> NoStamp]
Stamps  == [Sources -> Nat]

Causes   == {"none", "Gap", "ScopeDirty", "CapacityExhausted", "HandoffBarrier"}
CutKinds == {"none", "Incremental", "FullBaseline"}

\* ObservationLane, its ObserverSlot and its CoalescingAccumulator.
Lanes ==
    [active : Nat, next_observer : Nat, next_stamp : Nat,
     pending : Stamps, latch : Causes, next_token : Nat,
     cut : [kind : CutKinds, invalidations : Stamps],
     sup : [Sources -> Supervisors], root : [Sources -> Nat \cup {Absent}]]

\* The lane ProjectSourceAuthority::for_root starts with.
new_lane ==
    [active |-> 1, next_observer |-> 1, next_stamp |-> 0,
     pending |-> Nothing, latch |-> "none", next_token |-> 1,
     cut |-> [kind |-> "none", invalidations |-> Nothing],
     sup |-> [s \in Sources |-> new_supervisor],
     root |-> [s \in Sources |-> Absent]]

\* arc is the authority a task holds; id and home are its observer identity
\* and the authority that identity comes from.
Idle == [pc |-> "idle", arc |-> 0, id |-> 0, home |-> 0]
TaskStates ==
    [pc : {"idle", "looked", "on", "batch", "captured"},
     arc : Nat, id : Nat, home : Nat]

\* Every variable has its type, and a task holds an authority that was made.
TypeOK ==
    /\ made \in 0 .. MaxAuthorities
    /\ cachedLive \in BOOLEAN
    /\ cachedLive => made > 0
    /\ lane \in [Authorities -> Lanes]
    /\ task \in [Tasks -> TaskStates]
    /\ \A t \in Tasks :
          task[t].pc \in {"looked", "batch", "captured"} => task[t].arc \in 1 .. made
    /\ newest \in [Authorities -> Stamps]
    /\ owed \in [Authorities -> BOOLEAN]
    /\ admitted \in [Authorities -> Stamps]
    /\ superseded \in SUBSET Tasks

Init ==
    /\ made = 0 /\ cachedLive = FALSE
    /\ lane = [a \in Authorities |-> new_lane]
    /\ task = [t \in Tasks |-> Idle]
    /\ newest = [a \in Authorities |-> Nothing]
    /\ owed = [a \in Authorities |-> FALSE]
    /\ admitted = [a \in Authorities |-> Nothing]
    /\ superseded = {}

-----------------------------------------------------------------------------
(* The accumulator.                                                        *)

\* The first cause wins until a baseline clears it.
latched(l, cause) ==
    [l EXCEPT !.latch = IF @ = "none" THEN cause ELSE @]

\* Mutant: a distinct source beyond the bound is dropped.
observe_dropping(l, s, stamp) ==
    IF /\ l.pending[s] = NoStamp
       /\ Cardinality({x \in Sources : l.pending[x] # NoStamp}) >= Bound
    THEN l
    ELSE [l EXCEPT !.pending[s] = stamp]

\* CoalescingAccumulator::observe; the lane's derivation never unwinds.
observe(l, s, stamp) ==
    IF /\ l.pending[s] = NoStamp
       /\ Cardinality({x \in Sources : l.pending[x] # NoStamp}) >= Bound
    THEN latched(l, "CapacityExhausted")
    ELSE [l EXCEPT !.pending[s] = stamp]

\* Mutant: an incremental cut leaves the latch for the next one.
cut_incremental_first(l) ==
    [l EXCEPT !.next_token = @ + 1,
              !.pending = Nothing,
              !.cut = [kind |-> "Incremental", invalidations |-> l.pending]]

\* CoalescingAccumulator::cut: drains, and a latch makes it a baseline.
cut(l) ==
    [l EXCEPT !.next_token = @ + 1,
              !.pending = Nothing,
              !.latch = "none",
              !.cut = IF l.latch = "none"
                      THEN [kind |-> "Incremental", invalidations |-> l.pending]
                      ELSE [kind |-> "FullBaseline", invalidations |-> Nothing]]

-----------------------------------------------------------------------------
(* The lane operations.                                                    *)

\* register_observer: begin, deliver and complete the handoff, and latch the
\* successor's baseline.
register_observer(l) ==
    latched([l EXCEPT !.next_observer = @ + 1, !.active = l.next_observer + 1],
            "HandoffBarrier")

\* Mutant: the delta expects a source nobody admitted before.
expected_absent(l, s) == Absent

\* The token a delta exact-validates, read under the same lock.
expected_token(l, s) == l.root[s]

\* observe_admission_locked: one candidate through its supervisor and the
\* commit point, then the accumulator; a refused candidate is a gap.
observe_admission_locked(l, s) ==
    LET stamp == l.next_stamp + 1
        i     == l.sup[s].next_attempt
        tried == [l EXCEPT !.next_stamp = stamp, !.sup[s] = mint(@)]
        fits  == reserved_bytes([x \in {s} |-> "Content"]) <= Budget
    IN  IF /\ fits
           /\ i \notin tried.sup[s].superseded \cup tried.sup[s].terminal
           /\ l.root[s] = expected_token(l, s)
        THEN observe([tried EXCEPT !.sup[s] = record_commit(@, i),
                                   !.root[s] = stamp], s, stamp)
        ELSE latched(tried, "Gap")

\* observe_removal carries no payload: an invalidation only.
observe_removal_locked(l, s) ==
    observe([l EXCEPT !.next_stamp = @ + 1], s, l.next_stamp + 1)

-----------------------------------------------------------------------------
(* The tasks.                                                              *)

\* The authority map, from how a lane's tasks use it: a missing or evicted
\* entry is made afresh.
Lookup ==
    /\ made' = IF cachedLive THEN made ELSE made + 1
    /\ made' \in Authorities
    /\ cachedLive' = TRUE

\* A task about to register, capture the active incarnation, or observe
\* through a facade looks its authority up ...
LookUp(t) ==
    /\ task[t].pc = "idle"
    /\ Lookup
    /\ task' = [task EXCEPT ![t] = [Idle EXCEPT !.pc = "looked", !.arc = made']]
    /\ superseded' = superseded \ {t}
    /\ UNCHANGED <<lane, newest, owed, admitted>>

\* ... a fresh watcher instance registers itself ...
Register(t) ==
    LET a == task[t].arc IN
    /\ task[t].pc = "looked"
    /\ lane[a].next_observer + a <= MaxObservers
    /\ lane' = [lane EXCEPT ![a] = register_observer(@)]
    /\ task' = [task EXCEPT ![t] =
                  [pc |-> "on", arc |-> 0, id |-> lane'[a].active, home |-> a]]
    /\ owed' = [owed EXCEPT ![a] = TRUE]
    /\ superseded' = superseded \cup {u \in Tasks : task[u].home = a}
    /\ UNCHANGED <<made, cachedLive, newest, admitted>>

\* ... a verify or a synchronous sweep captures the active incarnation and
\* keeps the authority.
Capture(t) ==
    LET a == task[t].arc IN
    /\ task[t].pc = "looked"
    /\ task' = [task EXCEPT ![t].pc = "captured", ![t].id = lane[a].active,
                            ![t].home = a]
    /\ UNCHANGED <<made, cachedLive, lane, historyVars>>

\* An event batch or a sweep of a watcher looks the authority up again.
BeginBatch(t) ==
    /\ task[t].pc = "on"
    /\ Lookup
    /\ task' = [task EXCEPT ![t].pc = "batch", ![t].arc = made']
    /\ UNCHANGED <<lane, historyVars>>

EndBatch(t) ==
    /\ task[t].pc \in {"batch", "captured"}
    /\ task' = [task EXCEPT ![t] =
                  IF @.pc = "batch" THEN [@ EXCEPT !.pc = "on", !.arc = 0] ELSE Idle]
    /\ UNCHANGED <<made, cachedLive, lane, historyVars>>

\* The watcher instance ends.
Stop(t) ==
    /\ task[t].pc = "on"
    /\ task' = [task EXCEPT ![t] = Idle]
    /\ UNCHANGED <<made, cachedLive, lane, historyVars>>

\* What a lane operation leaves in the histories.
Observed(a, s) ==
    newest' = [newest EXCEPT ![a][s] = lane[a].next_stamp + 1]
Admitted(a, s) ==
    admitted' = [admitted EXCEPT ![a][s] = lane[a].next_stamp + 1]

Admit(a, s) ==
    /\ lane[a].next_stamp + a <= MaxStamp
    /\ lane' = [lane EXCEPT ![a] = observe_admission_locked(@, s)]
    /\ Observed(a, s) /\ Admitted(a, s)
    /\ UNCHANGED owed

Invalidate(a, s) ==
    /\ lane[a].next_stamp + a <= MaxStamp
    /\ lane' = [lane EXCEPT ![a] = observe_removal_locked(@, s)]
    /\ Observed(a, s)
    /\ UNCHANGED <<owed, admitted>>

\* Mutant: an observation is accepted under any identity of its own lane.
Heard_any(t) == task[t].id <= lane[task[t].arc].active

\* A stale incarnation is refused and its observation goes nowhere.
Heard(t) == lane[task[t].arc].active = task[t].id

observe_admission(t, s) ==
    /\ task[t].pc \in {"batch", "captured"} /\ Heard(t)
    /\ Admit(task[t].arc, s)
    /\ UNCHANGED <<made, cachedLive, task, superseded>>

observe_removal(t, s) ==
    /\ task[t].pc \in {"batch", "captured"} /\ Heard(t)
    /\ Invalidate(task[t].arc, s)
    /\ UNCHANGED <<made, cachedLive, task, superseded>>

\* A watcher's overflow: latched when it is heard; the report ends the batch.
report_gap(t) ==
    LET a == task[t].arc IN
    /\ task[t].pc = "batch"
    /\ IF Heard(t)
       THEN /\ lane' = [lane EXCEPT ![a] = latched(@, "Gap")]
            /\ owed' = [owed EXCEPT ![a] = TRUE]
       ELSE UNCHANGED <<lane, owed>>
    /\ task' = [task EXCEPT ![t].pc = "on", ![t].arc = 0]
    /\ UNCHANGED <<made, cachedLive, newest, admitted, superseded>>

\* The synchronous facades: observe under the active incarnation.
observe_active(t, s) ==
    /\ task[t].pc = "looked"
    /\ Admit(task[t].arc, s) \/ Invalidate(task[t].arc, s)
    /\ task' = [task EXCEPT ![t] = Idle]
    /\ UNCHANGED <<made, cachedLive, superseded>>

-----------------------------------------------------------------------------
(* The writers, and the map's fence.                                       *)

\* recover_stranded: the outcome of a dropped write is unknown.
latch_scope_dirty(a) ==
    /\ lane' = [lane EXCEPT ![a] = latched(@, "ScopeDirty")]
    /\ owed' = [owed EXCEPT ![a] = TRUE]
    /\ UNCHANGED <<made, cachedLive, task, newest, admitted, superseded>>

\* return_to_current: a permit return consumes the accumulated cut.
ReturnCut(a) ==
    /\ lane[a].next_token + a <= MaxCuts + 1
    /\ lane' = [lane EXCEPT ![a] = cut(@)]
    /\ newest' = [newest EXCEPT ![a] = Nothing]
    /\ owed' = [owed EXCEPT ![a] = FALSE]
    /\ UNCHANGED <<made, cachedLive, task, admitted, superseded>>

\* The directory at the path is replaced, or a reload evicts the entry.
Evict ==
    /\ cachedLive /\ made < MaxAuthorities
    /\ cachedLive' = FALSE
    /\ UNCHANGED <<made, lane, task, historyVars>>

Next ==
    \/ \E t \in Tasks :
          \/ LookUp(t) \/ Register(t) \/ Capture(t)
          \/ BeginBatch(t) \/ EndBatch(t) \/ Stop(t) \/ report_gap(t)
          \/ \E s \in Sources : \/ observe_admission(t, s)
                               \/ observe_removal(t, s)
                               \/ observe_active(t, s)
    \/ \E a \in 1 .. made : latch_scope_dirty(a) \/ ReturnCut(a)
    \/ Evict

Spec == Init /\ [][Next]_vars

-----------------------------------------------------------------------------
(* Properties.                                                             *)

\* What a lane heard since its last cut is pending under its newest stamp, or
\* the next cut is a baseline: neither the bound nor a refused candidate drops
\* a change.  A baseline that is owed stays latched.
NothingLost ==
    \A a \in Authorities :
       lane[a].latch = "none" =>
          /\ ~owed[a]
          /\ lane[a].pending = newest[a]

\* The first cut after a handoff, a gap or a stranded write is a baseline, and
\* an incremental cut names exactly the sources heard since the cut before,
\* each with its newest stamp.
CutsAreComplete ==
    [][\A a \in Authorities :
          lane'[a].next_token # lane[a].next_token =>
             /\ lane'[a].cut.kind \in {"Incremental", "FullBaseline"}
             /\ owed[a] => lane'[a].cut.kind = "FullBaseline"
             /\ lane'[a].cut.kind = "Incremental" =>
                   lane'[a].cut.invalidations = newest[a]]_vars

\* Under the lane lock the commit point refuses nothing: every attempt a
\* lane's supervisors minted is committed, none is left in flight, and the
\* artifact root holds the newest admission of every source.
AdmissionsCommit ==
    \A a \in Authorities, s \in Sources :
       /\ lane[a].sup[s].live = {}
       /\ lane[a].sup[s].committed = lane[a].sup[s].next_attempt
       /\ lane[a].root[s] = (IF admitted[a][s] = NoStamp THEN Absent
                                                       ELSE admitted[a][s])

\* An incarnation with a successor on its own authority changes that lane no
\* more, not even from a batch it began before the handoff.
SupersededStaysSilent ==
    [][\A t \in superseded :
          task[t].home = task[t].arc =>
             /\ ~report_gap(t) \/ UNCHANGED lane
             /\ \A s \in Sources : ~observe_admission(t, s) /\ ~observe_removal(t, s)]_vars

\* Registrations of a lane are numbered in order, the newest is active, and a
\* superseded task holds an older number.
IdsAge ==
    /\ \A a \in Authorities : lane[a].active = lane[a].next_observer
    /\ \A t \in Tasks : task[t].home # 0 =>
          /\ task[t].home \in 1 .. made
          /\ task[t].id <= lane[task[t].home].active
          /\ t \in superseded => task[t].id < lane[task[t].home].active
    /\ \A t \in Tasks : task[t].pc \in {"on", "batch", "captured"} =>
          task[t].home # 0
    /\ \A t \in Tasks : task[t].pc = "looked" =>
          task[t].home = 0 /\ t \notin superseded

\* Attempts end in the step that mints them.
AttemptsEnd ==
    \A a \in Authorities, s \in Sources :
       /\ lane[a].sup[s].superseded = {}
       /\ \A i \in lane[a].sup[s].terminal : i < lane[a].sup[s].next_attempt

\* The inductive invariant.
IInv == TypeOK /\ NothingLost /\ AdmissionsCommit /\ IdsAge /\ AttemptsEnd

-----------------------------------------------------------------------------
(* What the comments say of tasks that outlive an eviction.                *)
=============================================================================
