-------------------------- MODULE SourceAuthority --------------------------
(***************************************************************************)
(* The write lane of one repository path (activation.rs): the map of       *)
(* per-root write authorities with its replacement fence, the runtime,     *)
(* lease and drain signal each authority guards with its `inner' lock, the *)
(* part of its observation lane a permit return consumes, and the threads  *)
(* that look an authority up, acquire its single write permit, write       *)
(* beneath the leased directory and return the source to Current.          *)
(*                                                                         *)
(* An action is what a thread does while it holds one lock, or one step of *)
(* the file system.  The `lane' and `inner' locks are never held together, *)
(* so a permit return is two actions and anything may happen in between.   *)
(***************************************************************************)
EXTENDS SourceRuntime, FiniteSets

CONSTANTS
    Writers,       \* threads of the writer lanes
    Authorities,   \* ProjectSourceAuthority objects the process may create
    Dirs,          \* directory objects (device and inode) the path may name
    None,          \* no authority
    NoDir,         \* the path names no directory
    MaxAttempts,   \* acquisitions tried while the source is not Current (80)
    MaxIdentity,   \* bound on the identities minted
    MaxMoves       \* bound on the changes of the directory at the path

ASSUME WriteLaneAssumption ==
    /\ None \notin Authorities
    /\ NoDir \notin Dirs
    /\ MaxAttempts \in Nat /\ MaxIdentity \in Nat /\ MaxMoves \in Nat

VARIABLES
    dir,        \* the directory object the path names
    moves,      \* how often it changed
    nextId,     \* the process-global identity counter
    cached,     \* the PROJECT_AUTHORITIES entry of the path
    minted,     \* the authorities created so far
    anchor,     \* physical_anchor of each authority
    absent,     \* path_absent_pending of each authority
    rt,         \* inner.runtime of each authority
    lease,      \* inner.lease: identity of the lease
    signal,     \* inner.outstanding: the permit it is armed for
    revoked,    \* the lease identities that are revoked
    lane,       \* lane.active_token, and whether the accumulator is latched
    pc,         \* where each writer thread is
    held,       \* the authority a writer thread holds an Arc to
    permit,     \* state of its SourceMutationPermit
    grant,      \* what the permit is pinned to
    receipt,    \* whether it holds a WriteReceipt
    plan,       \* the publication its edit was planned against
    attempts,   \* refused acquisitions so far
    cut,        \* what the first half of the permit return read
    reload,     \* where the index reload is, and the directory it observed
    overtaken,  \* history: threads overtaken by a write since they planned
    overwritten \* history: generations whose bytes a permit replaced

authorityVars == <<anchor, absent, rt, lease, signal, lane>>
writerVars    == <<pc, held, permit, grant, receipt, plan, attempts, cut>>
historyVars   == <<overtaken, overwritten>>
vars == <<dir, moves, nextId, cached, minted, revoked, reload,
          authorityVars, writerVars, historyVars>>

Pcs == {"idle", "held", "granted", "inflight", "staged", "checked",
        "stranded", "cut", "install"}
LivePermit == {"Granted", "InFlight"}
PermitStates == LivePermit \cup {"none", "Committed", "NoSideEffect", "Drained"}

NoGrant == [frozen |-> NoId, lease |-> NoId, root |-> NoDir]
NoCut   == [token |-> NoId, baseline |-> FALSE, stranded |-> FALSE]

PathTypes ==
    /\ dir \in Dirs \cup {NoDir}
    /\ moves \in Nat
    /\ reload \in [pc : {"idle", "observed", "evicted"},
                   admitted : Dirs, saw : Dirs \cup {NoDir}]
    /\ overtaken \in SUBSET Writers
    /\ overwritten \in SUBSET Nat

AuthorityTypes ==
    /\ nextId \in Nat \ {0}
    /\ minted \in SUBSET Authorities
    /\ cached \in minted \cup {None}
    /\ revoked \in SUBSET Nat
    /\ anchor \in [Authorities -> Dirs \cup {NoDir}]
    /\ absent \in [Authorities -> BOOLEAN]
    /\ rt \in [Authorities -> Runtimes]
    /\ lease \in [Authorities -> Nat]
    /\ signal \in [Authorities -> Nat]
    /\ lane \in [Authorities -> [token : Nat, latched : BOOLEAN]]

WriterTypes ==
    /\ pc \in [Writers -> Pcs]
    /\ held \in [Writers -> Authorities \cup {None}]
    /\ \A w \in Writers : pc[w] # "idle" => held[w] \in minted
    /\ permit \in [Writers -> PermitStates]
    /\ grant \in [Writers -> [frozen : Nat, lease : Nat,
                              root : Dirs \cup {NoDir}]]
    /\ receipt \in [Writers -> BOOLEAN]
    /\ plan \in [Writers -> Nat]
    /\ attempts \in [Writers -> Nat]
    /\ cut \in [Writers -> [token : Nat, baseline : BOOLEAN,
                            stranded : BOOLEAN]]

\* Every variable has its type, and a thread past its lookup holds an
\* authority that exists.
TypeOK == PathTypes /\ AuthorityTypes /\ WriterTypes

Init ==
    /\ dir \in Dirs
    /\ moves = 0 /\ nextId = 1
    /\ cached = None /\ minted = {}
    /\ anchor = [a \in Authorities |-> NoDir]
    /\ absent = [a \in Authorities |-> FALSE]
    /\ rt = [a \in Authorities |-> current(NoId, NoId, NoId)]
    /\ lease = [a \in Authorities |-> NoId]
    /\ signal = [a \in Authorities |-> NoId]
    /\ revoked = {}
    /\ lane = [a \in Authorities |-> [token |-> NoId, latched |-> FALSE]]
    /\ pc = [w \in Writers |-> "idle"]
    /\ held = [w \in Writers |-> None]
    /\ permit = [w \in Writers |-> "none"]
    /\ grant = [w \in Writers |-> NoGrant]
    /\ receipt = [w \in Writers |-> FALSE]
    /\ plan = [w \in Writers |-> NoId]
    /\ attempts = [w \in Writers |-> 0]
    /\ cut = [w \in Writers |-> NoCut]
    /\ reload = [pc |-> "idle", admitted |-> dir, saw |-> dir]
    /\ overtaken = {}
    /\ overwritten = {}

-----------------------------------------------------------------------------
(* The authority map and its replacement fence.                            *)

\* ProjectSourceAuthority::for_root: parked lease, binding, observer token and
\* publication are fresh, and the authority starts Current.
for_root(a) ==
    /\ nextId < MaxIdentity
    /\ nextId' = nextId + 1
    /\ minted' = minted \cup {a}
    /\ cached' = a
    /\ anchor' = [anchor EXCEPT ![a] = dir]
    /\ absent' = [absent EXCEPT ![a] = FALSE]
    /\ rt' = [rt EXCEPT ![a] = current(nextId, nextId, nextId)]
    /\ lease' = [lease EXCEPT ![a] = nextId]
    /\ signal' = [signal EXCEPT ![a] = NoId]
    /\ lane' = [lane EXCEPT ![a] = [token |-> nextId, latched |-> FALSE]]

\* The directory at the path is not the one the cached authority was made for.
Replaced == cached # None /\ dir # NoDir /\ anchor[cached] # dir

\* project_source_authority: a vanished path is recorded, a matching anchor
\* clears the record, a different directory revokes and replaces the entry.
project_source_authority ==
    \/ /\ cached # None /\ ~Replaced
       /\ absent' = [absent EXCEPT ![cached] = (dir = NoDir)]
       /\ UNCHANGED <<nextId, minted, cached, revoked, anchor, rt, lease,
                      signal, lane>>
    \/ /\ cached = None \/ Replaced
       /\ revoked' = IF Replaced THEN revoked \cup {lease[cached]} ELSE revoked
       /\ \E a \in Authorities \ minted : for_root(a)

Lookup(w) ==
    /\ pc[w] = "idle"
    /\ project_source_authority
    /\ pc' = [pc EXCEPT ![w] = "held"]
    /\ held' = [held EXCEPT ![w] = cached']
    /\ attempts' = [attempts EXCEPT ![w] = 0]
    /\ UNCHANGED <<dir, moves, reload, permit, grant, receipt, plan, cut,
                   historyVars>>

\* An index reload first observes the directory outside the map lock ...
ReloadObserve ==
    /\ reload.pc = "idle"
    /\ reload' = [reload EXCEPT !.pc = "observed", !.saw = dir]
    /\ UNCHANGED <<dir, moves, nextId, cached, minted, revoked,
                   authorityVars, writerVars, historyVars>>

\* Mutant of the eviction: it revokes the lease but keeps the entry.
evict_keeps_entry ==
    /\ reload.pc = "observed"
    /\ reload' = [reload EXCEPT !.pc = "evicted"]
    /\ IF reload.admitted # reload.saw /\ cached # None
       THEN revoked' = revoked \cup {lease[cached]}
       ELSE UNCHANGED revoked
    /\ UNCHANGED <<dir, moves, nextId, cached, minted, authorityVars,
                   writerVars, historyVars>>

\* ... then drops the cached authority, whichever it is by now, when what it
\* saw is not the directory its index was admitted over ...
evict_project_source_authority_if_anchor_changed ==
    /\ reload.pc = "observed"
    /\ reload' = [reload EXCEPT !.pc = "evicted"]
    /\ IF reload.admitted # reload.saw /\ cached # None
       THEN revoked' = revoked \cup {lease[cached]} /\ cached' = None
       ELSE UNCHANGED <<revoked, cached>>
    /\ UNCHANGED <<dir, moves, nextId, minted, authorityVars, writerVars,
                   historyVars>>

\* ... and looks the authority up again.
ReloadLookup ==
    /\ reload.pc = "evicted"
    /\ project_source_authority
    /\ reload' = [reload EXCEPT !.pc = "idle"]
    /\ UNCHANGED <<dir, moves, writerVars, historyVars>>

-----------------------------------------------------------------------------
(* Acquiring the single write permit, under the `inner' lock.              *)

IsLive(l) == l \notin revoked

\* PermitDrainSignal::has_ended of the signal an authority watches: a permit
\* reports its end exactly when it leaves the live states.
has_ended(a) ==
    \A w \in Writers : ~(/\ permit[w] \in LivePermit
                         /\ signal[a] # NoId
                         /\ grant[w].frozen = signal[a])

\* Mutant of is_current: the phase is not looked at.
is_current_unchecked(a) == TRUE

is_current(a) == rt[a].phase = "Current"

\* An edit is planned against the live publication of the authority.
PlanEdit(w) ==
    /\ pc[w] = "held" /\ plan[w] = NoId
    /\ is_current(held[w])
    /\ plan' = [plan EXCEPT ![w] = live_publication(rt[held[w]])]
    /\ UNCHANGED <<dir, moves, nextId, cached, minted, revoked, reload,
                   authorityVars, pc, held, permit, grant, receipt, attempts,
                   cut, historyVars>>

\* Mutant of PlanStillCurrent: the expected publication is not compared.
PlanNotCompared(w) == TRUE

\* The comparison acquire_write_expected makes under the lock.
PlanStillCurrent(w) ==
    plan[w] \in {NoId, live_publication(rt[held[w]])}

Release(w) ==
    /\ pc' = [pc EXCEPT ![w] = "idle"]
    /\ held' = [held EXCEPT ![w] = None]
    /\ plan' = [plan EXCEPT ![w] = NoId]
    /\ overtaken' = overtaken \ {w}

\* acquire_write_if_publication.  The grant freezes the source before the
\* permit is minted; the permit is refused when the lease was revoked, and
\* then the freeze and the recorded permit stay behind.
AcquireWrite(w) ==
    LET a == held[w] IN
    /\ pc[w] = "held"
    /\ is_current(a) /\ PlanStillCurrent(w)
    /\ nextId < MaxIdentity /\ nextId' = nextId + 1
    /\ rt' = [rt EXCEPT ![a] = request_mutation_grant(@, nextId)]
    /\ IF IsLive(lease[a]) /\ rt[a].binding = lease[a]
       THEN /\ pc' = [pc EXCEPT ![w] = "granted"]
            /\ permit' = [permit EXCEPT ![w] = "Granted"]
            /\ grant' = [grant EXCEPT ![w] =
                           [frozen |-> nextId, lease |-> lease[a],
                            root |-> dir]]
            /\ signal' = [signal EXCEPT ![a] = nextId]
            /\ UNCHANGED <<held, plan, overtaken>>
       ELSE Release(w) /\ UNCHANGED <<permit, grant, signal>>
    /\ UNCHANGED <<dir, moves, cached, minted, revoked, reload, anchor, absent,
                   lease, lane, receipt, attempts, cut, overwritten>>

\* The retry loop of acquire_write_serialized and of atomic_write_file: a
\* source that is not Current is tried again, a bounded number of times.
RetryAcquire(w) ==
    /\ pc[w] = "held"
    /\ ~is_current(held[w])
    /\ attempts' = [attempts EXCEPT ![w] = @ + 1]
    /\ IF attempts'[w] >= MaxAttempts
       THEN Release(w)
       ELSE UNCHANGED <<pc, held, plan, overtaken>>
    /\ UNCHANGED <<dir, moves, nextId, cached, minted, revoked, reload,
                   authorityVars, permit, grant, receipt, cut, overwritten>>

\* Every other refusal surfaces at once: the plan went stale.
RefuseStalePlan(w) ==
    /\ pc[w] = "held"
    /\ is_current(held[w]) /\ ~PlanStillCurrent(w)
    /\ Release(w)
    /\ UNCHANGED <<dir, moves, nextId, cached, minted, revoked, reload,
                   authorityVars, permit, grant, receipt, attempts, cut,
                   overwritten>>

-----------------------------------------------------------------------------
(* Writing beneath the leased directory.  No lock is held.                 *)

\* WriteAuthority::write up to the staged temporary: start_side_effect needs a
\* live lease, staging needs an opened directory.  Staging may fail, and
\* begin_delegated stages nothing, so the permit may just go in flight.
BeginWrite(w) ==
    /\ pc[w] \in {"granted", "inflight"}
    /\ IsLive(grant[w].lease)
    /\ permit' = [permit EXCEPT ![w] = "InFlight"]
    /\ \/ pc' = [pc EXCEPT ![w] = "inflight"]
       \/ grant[w].root # NoDir /\ pc' = [pc EXCEPT ![w] = "staged"]
    /\ UNCHANGED <<dir, moves, nextId, cached, minted, revoked, reload,
                   authorityVars, held, grant, receipt, plan, attempts, cut,
                   historyVars>>

\* StagedReplacement::commit re-checks the lease; on refusal the temporary is
\* removed and the permit stays in flight.
CheckRevoked(w) ==
    /\ pc[w] = "staged"
    /\ pc' = [pc EXCEPT ![w] =
                IF IsLive(grant[w].lease) THEN "checked" ELSE "inflight"]
    /\ UNCHANGED <<dir, moves, nextId, cached, minted, revoked, reload,
                   authorityVars, held, permit, grant, receipt, plan, attempts,
                   cut, historyVars>>

\* The rename in the leased directory, or its failure.  A replacement can land
\* without a receipt: the owner-only check after the rename may fail, and a
\* delegated writer gets its receipt only from the attestation.
Rename(w) ==
    /\ pc[w] = "checked"
    /\ pc' = [pc EXCEPT ![w] = "inflight"]
    /\ \/ UNCHANGED <<receipt, historyVars>>
       \/ /\ \/ receipt' = [receipt EXCEPT ![w] = TRUE]
             \/ UNCHANGED receipt
          /\ overtaken' = overtaken \cup
               {v \in Writers \ {w} : held[v] = held[w] /\ plan[v] # NoId}
          /\ overwritten' = overwritten \cup {rt[held[w]].generation}
    /\ UNCHANGED <<dir, moves, nextId, cached, minted, revoked, reload,
                   authorityVars, held, permit, grant, plan, attempts, cut>>

\* attest_delegated: the lease re-reads the target and mints a receipt when it
\* holds the authorized bytes.
AttestDelegated(w) ==
    /\ pc[w] = "inflight" /\ ~receipt[w]
    /\ IsLive(grant[w].lease) /\ grant[w].root # NoDir
    /\ receipt' = [receipt EXCEPT ![w] = TRUE]
    /\ UNCHANGED <<dir, moves, nextId, cached, minted, revoked, reload,
                   authorityVars, pc, held, permit, grant, plan, attempts, cut,
                   historyVars>>

-----------------------------------------------------------------------------
(* The terminal paths of a write authority, and the return to Current.     *)

EndPermit(w, termination, next) ==
    /\ permit' = [permit EXCEPT ![w] = termination]
    /\ pc' = [pc EXCEPT ![w] = next]
    /\ cut' = [cut EXCEPT ![w] = [NoCut EXCEPT !.stranded = (next = "stranded")]]
    /\ UNCHANGED <<dir, moves, nextId, cached, minted, revoked, reload,
                   authorityVars, held, grant, receipt, plan, attempts,
                   historyVars>>

FinishCommitted(w) ==
    /\ pc[w] = "inflight" /\ receipt[w]
    /\ EndPermit(w, "Committed", "cut")

FinishNoSideEffect(w) ==
    /\ pc[w] = "granted" /\ permit[w] = "Granted"
    /\ EndPermit(w, "NoSideEffect", "cut")

\* Dropping a write authority whose permit is live drains the permit.
DropWrite(w) ==
    /\ pc[w] \in {"granted", "inflight"}
    /\ EndPermit(w, "Drained", "stranded")

\* Mutant of RecoverStranded: the scope is not latched dirty.
RecoverStrandedUnlatched(w) ==
    /\ pc[w] = "stranded"
    /\ pc' = [pc EXCEPT ![w] = "cut"]
    /\ UNCHANGED <<dir, moves, nextId, cached, minted, revoked, reload,
                   authorityVars, held, permit, grant, receipt, plan, attempts,
                   cut, historyVars>>

\* recover_stranded, first critical section: latch the scope dirty.
RecoverStranded(w) ==
    /\ pc[w] = "stranded"
    /\ lane' = [lane EXCEPT ![held[w]].latched = TRUE]
    /\ pc' = [pc EXCEPT ![w] = "cut"]
    /\ UNCHANGED <<dir, moves, nextId, cached, minted, revoked, reload, anchor,
                   absent, rt, lease, signal, held, permit, grant, receipt,
                   plan, attempts, cut, historyVars>>

\* return_to_current under the lane lock: consume the accumulated cut and read
\* the token of the active observer.
ReturnCut(w) ==
    LET a == held[w] IN
    /\ pc[w] = "cut"
    /\ cut' = [cut EXCEPT ![w].token = lane[a].token,
                          ![w].baseline = lane[a].latched]
    /\ lane' = [lane EXCEPT ![a].latched = FALSE]
    /\ pc' = [pc EXCEPT ![w] = "install"]
    /\ UNCHANGED <<dir, moves, nextId, cached, minted, revoked, reload, anchor,
                   absent, rt, lease, signal, held, permit, grant, receipt,
                   plan, attempts, historyVars>>

\* return_to_current under the inner lock: retire the permit, take a fresh
\* lease on the path, and apply the transition.  A refused transition leaves
\* the source non-Current on the old lease.
ReturnInstall(w) ==
    LET a == held[w]
        retired == retire_permit(rt[a], grant[w].frozen) IN
    /\ pc[w] = "install"
    /\ nextId' = nextId + 1
    /\ rt' = [rt EXCEPT ![a] =
                apply(retired, has_ended(a), nextId, cut[w].token, nextId)]
    /\ IF can_apply(retired, has_ended(a))
       THEN /\ revoked' = revoked \cup {lease[a]}
            /\ lease' = [lease EXCEPT ![a] = nextId]
       ELSE UNCHANGED <<revoked, lease>>
    /\ Release(w)
    /\ permit' = [permit EXCEPT ![w] = "none"]
    /\ grant' = [grant EXCEPT ![w] = NoGrant]
    /\ receipt' = [receipt EXCEPT ![w] = FALSE]
    /\ cut' = [cut EXCEPT ![w] = NoCut]
    /\ UNCHANGED <<dir, moves, cached, minted, reload, anchor, absent, signal,
                   lane, attempts, overwritten>>

-----------------------------------------------------------------------------
(* The observation lane as the return path sees it, and the file system.   *)

\* register_observer: a fresh token, and a full-baseline obligation.
RegisterObserver(a) ==
    /\ nextId < MaxIdentity /\ nextId' = nextId + 1
    /\ lane' = [lane EXCEPT ![a] = [token |-> nextId, latched |-> TRUE]]
    /\ UNCHANGED <<dir, moves, cached, minted, revoked, reload, anchor, absent,
                   rt, lease, signal, writerVars, historyVars>>

\* report_gap: the active observer lost part of its stream.
ReportGap(a) ==
    /\ lane' = [lane EXCEPT ![a].latched = TRUE]
    /\ UNCHANGED <<dir, moves, nextId, cached, minted, revoked, reload, anchor,
                   absent, rt, lease, signal, writerVars, historyVars>>

\* The directory at the path is moved away, deleted, put back or replaced.
MoveRoot ==
    /\ moves < MaxMoves /\ moves' = moves + 1
    /\ dir' \in (Dirs \cup {NoDir}) \ {dir}
    /\ UNCHANGED <<nextId, cached, minted, revoked, reload, authorityVars,
                   writerVars, historyVars>>

\* The steps that carry an acquired permit to its end.
Return(w) == RecoverStranded(w) \/ ReturnCut(w) \/ ReturnInstall(w)

WriterStep(w) ==
    \/ Lookup(w) \/ PlanEdit(w)
    \/ AcquireWrite(w) \/ RetryAcquire(w) \/ RefuseStalePlan(w)
    \/ BeginWrite(w) \/ CheckRevoked(w) \/ Rename(w) \/ AttestDelegated(w)
    \/ FinishCommitted(w) \/ FinishNoSideEffect(w) \/ DropWrite(w)
    \/ Return(w)

Next ==
    \/ \E w \in Writers : WriterStep(w)
    \/ \E a \in minted : RegisterObserver(a) \/ ReportGap(a)
    \/ ReloadObserve \/ ReloadLookup
    \/ evict_project_source_authority_if_anchor_changed
    \/ MoveRoot

Spec == Init /\ [][Next]_vars

\* A thread that holds a write authority runs on: the replacement calls return
\* and the value is finished or dropped, so its end is never put off forever.
Fairness ==
    \A w \in Writers :
        /\ WF_vars(CheckRevoked(w) \/ Rename(w) \/ Return(w))
        /\ SF_vars(FinishCommitted(w) \/ FinishNoSideEffect(w) \/ DropWrite(w))

FairSpec == Spec /\ Fairness

-----------------------------------------------------------------------------
(* What the write lane promises.                                           *)

\* The writer's permit exists, or its return to Current is not finished.
Holding(w) == pc[w] \in Pcs \ {"idle", "held"}

Serves(a) == queryable_generation(rt[a])

\* acquire_write hands out "the single write authority for this source": two
\* threads never hold write authority, or are still returning one, on the same
\* ProjectSourceAuthority.
SingleWriter ==
    \A v, w \in Writers :
        Holding(v) /\ Holding(w) /\ held[v] = held[w] => v = w

\* The source stops being queryable before its permit exists and stays closed
\* until the return installs a successor: no reader is served from a source
\* between the grant and the end of the return.
ClosedWhileWriting ==
    \A w \in Writers : Holding(w) => Serves(held[w]) = NoId

\* FR-043, "no terminal path directly restores the prior publication": once a
\* permit replaced bytes a generation describes, that generation is never
\* queryable again on any authority.
OverwrittenNeverServed ==
    \A a \in minted : Serves(a) \notin overwritten

\* The Freeze-Drain-Install transition of a return is never refused, so a
\* permit's end cannot leave the source non-Current: when the second half of
\* return_to_current runs, whatever happened since the grant, the permit it
\* retires is the only one recorded and its signal has ended.
ReturnNeverRefused ==
    \A w \in Writers :
        pc[w] = "install" =>
            can_apply(retire_permit(rt[held[w]], grant[w].frozen),
                      has_ended(held[w]))

\* acquire_write_expected: "a same-byte intervening publication cannot pass a
\* stale guard".  An edit that was granted against an expected publication
\* starts before any other replacement landed under its authority.
PlannedEditIsFresh ==
    \A w \in Writers :
        pc[w] = "granted" /\ plan[w] # NoId => w \notin overtaken

\* A write authority dropped without a finish path returns under a
\* full-baseline cut: the latch recover_stranded sets is still there when the
\* cut is taken in a later critical section.
StrandedReturnsUnderBaseline ==
    \A w \in Writers :
        pc[w] = "install" /\ cut[w].stranded => cut[w].baseline

\* A lease a permit is pinned to is only ever revoked by the replacement
\* fence, never by a return: while a permit is live its lease is installed in
\* its authority, and it is revoked only if the authority left the map.
LeaseOutlivesPermit ==
    \A w \in Writers :
        Holding(w) => /\ lease[held[w]] = grant[w].lease
                      /\ IsLive(grant[w].lease) \/ cached # held[w]

\* "A dropped permit must not strand the source in Refreshing forever": the
\* authority of a thread that holds write authority becomes Current again.
HolderReturns ==
    \A a \in Authorities :
        (\E w \in Writers : Holding(w) /\ held[w] = a)
            ~> is_current(a)

\* The authority the map hands out is never stranded, by any refusal or drop:
\* if it is not Current it becomes Current, or the fence replaces it.
CachedAuthorityRecovers ==
    \A a \in Authorities :
        (cached = a /\ ~is_current(a)) ~> (is_current(a) \/ cached # a)

\* project_source_authority, "One authority per PHYSICAL root: spelling
\* variants must converge on one lease and one serialization point, or two
\* writer lanes on the same repository would not contend": no two threads hold
\* live-leased write permits on the same directory.
OneWriterPerDirectory ==
    \A v, w \in Writers :
        /\ permit[v] \in LivePermit /\ permit[w] \in LivePermit
        /\ IsLive(grant[v].lease) /\ IsLive(grant[w].lease)
        /\ grant[v].root = grant[w].root /\ grant[v].root # NoDir
        => v = w

-----------------------------------------------------------------------------
(* The inductive invariant behind the safety properties.                   *)

\* The identities handed out so far.
Used == 1 .. nextId - 1

\* Identities are handed out once: what the authorities stand on was minted,
\* differs between authorities, and the cached authority's lease is live.
IdentitiesFresh ==
    /\ \A a \in minted :
          /\ lease[a] \in Used
          /\ rt[a].generation \in Used /\ rt[a].publication \in Used
    /\ \A a, b \in minted :
          a # b => /\ lease[a] # lease[b]
                   /\ rt[a].generation # rt[b].generation
    /\ overwritten \subseteq Used /\ revoked \subseteq Used
    /\ cached # None => lease[cached] \notin revoked

\* A source is Current with no permit recorded, or Refreshing after a grant.
PhasesMatchPermits ==
    /\ \A a \in Authorities :
          \/ is_current(a) /\ rt[a].outstanding = {} /\ ~rt[a].ever_recorded
          \/ rt[a].phase = "Refreshing" /\ rt[a].ever_recorded
    /\ \A a \in minted : is_current(a) => rt[a].generation \notin overwritten

\* A permit is live exactly while its thread has not taken a terminal path.
LivePermitsAreHeld ==
    \A w \in Writers :
        permit[w] \in LivePermit
            <=> pc[w] \in {"granted", "inflight", "staged", "checked"}

\* A holder's permit is the one its authority recorded and watches, and no two
\* holders share an authority or a frozen publication.
HolderPinsSource ==
    /\ \A w \in Writers : Holding(w) =>
          /\ rt[held[w]].phase = "Refreshing"
          /\ rt[held[w]].outstanding = {grant[w].frozen}
          /\ signal[held[w]] = grant[w].frozen
          /\ lease[held[w]] = grant[w].lease
          /\ grant[w].frozen \in Used
    /\ \A v, w \in Writers : Holding(v) /\ Holding(w) /\ v # w =>
          held[v] # held[w] /\ grant[v].frozen # grant[w].frozen

\* The dirty latch of a dropped write survives up to the cut it must force.
LatchSurvives ==
    \A w \in Writers :
        /\ pc[w] = "cut" /\ cut[w].stranded => lane[held[w]].latched
        /\ pc[w] = "install" /\ cut[w].stranded => cut[w].baseline

\* A plan names a publication that was Current; once another write landed the
\* source never stands on that publication again.
PlansAge ==
    \A w \in Writers :
        /\ pc[w] = "idle" => plan[w] = NoId
        /\ w \in overtaken => plan[w] # NoId
        /\ plan[w] # NoId =>
              /\ plan[w] \in Used
              /\ pc[w] = "held" /\ (~is_current(held[w]) \/ w \in overtaken)
                    => plan[w] # rt[held[w]].publication
              /\ pc[w] = "granted" => w \notin overtaken

IInv ==
    /\ TypeOK
    /\ IdentitiesFresh
    /\ PhasesMatchPermits
    /\ LivePermitsAreHeld
    /\ HolderPinsSource
    /\ LatchSurvives
    /\ PlansAge
=============================================================================
