# SymForge in TLA+

SymForge is a local-first code-intelligence server written in Rust. It keeps an
in-memory index of a repository, answers queries from it over MCP, a shared
daemon, an HTTP sidecar and an embedded library, and edits repository files
under a guard. The code modelled here is `src/src/`; paths below are relative to
it. `PROJECT.json` maps every definition to the lines it translates.

## The parts and how they interact

| part | source | module |
|---|---|---|
| write authority of a source | `index_lifecycle/{activation,authority,mutation,transition,physical_root}.rs` | `SourceRuntime`, `SourceAuthority` |
| candidates and supervisors | `index_lifecycle/{candidate,supervisor}.rs` | `Candidate`, `CandidatePipeline` |
| capacity ledger | `index_lifecycle/capacity.rs` | `CapacityLedger` |
| observation lane | `index_lifecycle/{observer,activation}.rs` | `ObservationLane` (with `Candidate`) |
| idempotency replay store | `idempotency.rs`, `protocol/secret_remediate.rs` | `ReplayStore`, `IdempotencyContract` |
| index publication | `live_index/{store,single_file}.rs`, `watcher/mod.rs` | `IndexPublication` |
| daemon sessions and project slots | `daemon.rs`, `index_lifecycle/registry.rs` | `DaemonSessions` |
| batch commit and atomic write | `edit_safety/{batch_commit,atomic_write}.rs`, `protocol/edit*.rs` | `EditCommit` |

A session of the daemon joins a project slot. The slot owns an index, a watcher
and an admission. The watcher and the requests publish single files into the
index, and a reload replaces the whole of it. Every observation is also told to
the observation lane of the path's write authority, which builds a candidate per
source and accumulates what changed. An edit passes the replay store (if it
carries a key), takes the write permit of its authority, which freezes the
source, writes through the batch commit or a guarded write, and returns the
source to Current under the cut its observation lane accumulated.

The modules meet at those seams. `SourceAuthority` keeps of the lane what a
return consumes (the token and the latch). `ObservationLane` runs the operators
of `Candidate` inside its critical sections, and `CandidatePipeline` runs the
same operators with free-running builders. `EditCommit` takes a refused
authority as one of the ways a write fails, and `ReplayStore` takes an edit as
one effect. There is no product of all of them: it would be far beyond a model
checker, and each seam is one call whose possible answers the caller's module
enumerates.

In every module an action is one critical section, or one file operation. Where
the code releases a lock and takes another, everything else may happen in
between; these gaps are what the project is about.

## Modules

**`SourceRuntime`, `SourceAuthority`.** One repository path: the entry of
`PROJECT_AUTHORITIES` (`cached`), the authorities made for it, each with its
runtime, lease, drain signal and lane, and the threads that `Lookup`,
`PlanEdit`, `AcquireWrite` (or retry, or are refused as stale), `BeginWrite`,
`Rename`, and end by `FinishCommitted`, `FinishNoSideEffect` or `DropWrite`. The
return is `ReturnCut` under the lane lock, then `ReturnInstall` under the inner
lock. `MoveRoot` replaces the directory, a reload evicts the authority.

**`Candidate`, `CandidatePipeline`.** Attempts, retry triggers, cancellation,
full and delta builds that are ready, classified or panicked, and `commit`, the
only place that publishes. `log`, `fence` and `touched` are history.

**`CapacityLedger`.** Owners beneath owners, grants, permits, refunds, release
of a drained owner; one mutex, so one action per operation.

**`ObservationLane`.** Watcher incarnations register, batches keep the authority
they began on, admissions go through a candidate, the bounded accumulator
latches to a baseline, `ReturnCut` consumes it, `Evict` replaces the authority.

**`ReplayStore`, `IdempotencyContract`.** One key: its directory, record and
claim marker. Callers check, claim, check again, rename the staged record, load,
quarantine, execute and update the status; a write can fail, a caller can crash
between any two file operations, and another writer can change the target. The
contract has three variables (`taken`, `executed`, `answer`); the store
implements it under the refinement mapping at the end of the module.

**`IndexPublication`.** The published generation: rows, dispositions, freshness
reasons, knowledge bridge, pre-update slots. Loaders reload the tree (a cold
load, `index_folder`, a refresh of the bound tree), several at a time: each reads
off the lock, where the circuit breaker may drop files, and under the lock merges
what was admitted meanwhile. A cold load that fails is settled on its
placeholder (`DegradeOnCapacity`, `SettleEmpty`). A watcher event or a request
re-reads one path and publishes if its fence still holds; an edit re-reads the
file it wrote and publishes it with no fence (`UpdateFile`, `RemoveFile`); the
bridge thread captures, builds and publishes; the watcher fails and latches a
gap. Where the code breaks a rule that holds everywhere else, the property names
the one action it excepts, and Findings says what that action does.

**`DaemonSessions`.** The slot map, the flights of cold loads, the admissions,
the session records and the reaper. Each lock of `DaemonState` is a step of its
own. The write gate of the request governor is not assumed: a client that goes
away drops the gate while the blocking call runs on, so calls may overlap.
`last_seen` is only ever compared with the sweep's observation and is kept as
the flag `old`.

**`EditCommit`.** An image of a file is the set of edits it contains. A batch
stages, takes its path locks in order, compares, writes, verifies and attests,
or rolls back; single writers are guarded, unguarded, or call
`atomic_write_file` directly. Reads and writes fail, writes also after the
rename; callers cancel; another process saves.

## Runs

| run | instance | what it shows |
|---|---|---|
| `write_lane` | 2 threads, 2 authorities, 2 directories, 1 move | one writer per authority, no reads between the grant and the end of the return, no overwritten generation served again, no refused return, no edit granted on a stale plan, baseline after a dropped write |
| `write_lane_live` | 2 threads, 2 authorities, 1 directory | a holder's source becomes Current again; the cached authority is never stranded |
| `split_lane` | 3 threads, 2 authorities, 2 directories | *violated*, see Findings |
| `candidate_pipeline` | 2 builders, 2 sources, 3 attempts, 3 tokens | an attempt publishes once, ledgers agree, a retry fences older builds, deltas keep siblings and replace only what they loaded, capacity is refunded once |
| `capacity_ledger` | 2 pools, 3 owners, sizes 0..2, 3 charges | charges are conserved byte for byte through the tree, an owner bounds what is held two levels beneath it, no refund is unknown |
| `observation_lane` | 2 tasks, 2 sources, 2 authorities, accumulator of 1 | nothing heard is lost, cuts are complete, admissions commit, a superseded incarnation is silent |
| `replay_store` | 3 callers, one request of each kind of tool | the effect runs at most once, stored answers are earned, ended records stay, the contract is implemented |
| `publication` | 2 paths, a cold load and 1 `index_folder`, 1 event thread, failing reads, a breaker that trips | the bridge describes the published rows; failed reads and dropped files are reported; a placeholder has an owner; a gap stays |
| `publication_races` | 1 path with 2 versions, 2 loaders, 1 request, 1 edit | no fenced publication goes back to older bytes; admissions survive a reload; baselines are neighbours |
| `daemon_sessions` | 2 sessions, 1 project, 2 loads | what a session works with stays loaded, watched and admitted; failures are retried; waiters have a leader |
| `edit_commit` | 2 batches on 2 files, 1 unguarded writer, 1 outside write | a batch leaves behind what it reports; no compared write removes another edit; no deadlock |
| `lost_edit` | 1 guarded and 1 direct writer | *violated*, see Findings |

**Bounds.** Two of a kind suffice for a race between two holders, builders,
tasks, sessions or batches; a third thread appears where one must wait behind
two (`split_lane`), a third caller where two retry a crashed one, a third owner
for a grandchild. Bounds of the code that are large (80 acquisition attempts,
4096 pending sources, 64 ledger rows, 2^30 bytes, 4 publication attempts) become
1, 2 or 3 so that they are reached. Identities, stamps, moves, loads and reloads
are capped in guards, and every cap is a named constant. The proofs need none of
these values. `publication` has the watcher and no edit, `publication_races` the
edit and no watcher: all of them at once exceed what can be checked, and the
proofs cover them together. A stale re-index of an edit over a newer row takes a
third version of the file, which only the proof has. Symmetry is used only for sets whose members are compared for
equality, and in no run with a liveness property.

**Fairness** is assumed in `write_lane_live` only. A thread that holds a write
authority is not blocked by anyone (`lane` and `inner` are short mutexes), so its
file operations and its return run on (weak fairness). The value it holds is
finished or dropped at the end of its scope whatever the calls in between
returned. One permit may replace several files, and the end is not enabled while
a replacement is under way; a caller replaces finitely many, so the end is
strongly fair. Nothing is assumed of threads that hold nothing, of observers or of the
file system.

**Deadlock** is checked in the write lane, the replay store and the batch commit.
The other runs say `CHECK_DEADLOCK FALSE`: there the system rests when every
session is closed, every attempt has ended or a cap is reached, and that is no
fault.

## Proofs

TLAPS checks these for every value of the constants, from the named assumptions
on constants alone (`WriteLaneAssumption`, `LedgerAssumption`, `LaneAssumption`,
`PipelineAssumption`, `StoreAssumption`, `RecordAssumption`, and `ConstantsOK` of
`EditCommit`, `IndexPublication` and `DaemonSessions`).

* **Write lane** (`SourceAuthorityProofs`). No
  safety property is inductive by itself: that two threads never hold one
  authority depends on the recorded permits, these on the phase, and the phase
  on what the return finds. `IInv` joins: identities are handed out once
  (`IdentitiesFresh`), a phase matches its recorded permits
  (`PhasesMatchPermits`), the signal's permit is held by a thread
  (`LivePermitsAreHeld`), a holder's source is frozen under its publication and
  lease (`HolderPinsSource`), a dropped write stays latched to its cut
  (`LatchSurvives`), and an overtaken plan names an older publication
  (`PlansAge`). The effect lemmas say what each action changes, the step lemmas
  go through the actions once per conjunct, and the six checked properties and
  `PinnedLeaseStays` follow from `IInv`.
* **Capacity ledger** (`CapacityLedgerProofs`). No refund is unknown, because
  two live values never share a charge and a row goes only when nothing is
  outstanding on it (`IInv`). Conservation is stated by counting: every byte
  that is held or promised is a member of a set (`Units`), and a charge is the
  cardinality of two such sets. A step adds or removes one holder, hence exactly
  its bytes, so `CInv` (`IInv`, finiteness, `Backed`, `Conserved`) is inductive
  without an induction over the holders. `TreeBounded` follows from `CInv` by
  mapping the bytes held under each child into those promised to it, twice. As
  checked and as proved it speaks of an owner, its children and theirs; a bound
  for every depth at once would need an induction over the tree.
* **Candidate pipeline** (`CandidatePipelineProofs`). The ledger drops its
  oldest rows when it is full, so `LedgersAgree` counts the Committed rows that
  are left from the newest one back. The lemmas go from rows to supervisor to
  state: dropping the oldest rows shifts the others and keeps the count
  (`CommittedShift`), a retry trigger adds one row for each attempt in flight
  (`RowsOfRetry`, from `Ranks`: mint order names every place once), and each of
  the four operations on a supervisor keeps it sound. `IInv` adds that an attempt
  is in flight or has ended and a trigger has ended all before its own
  (`AttemptsEnd`), that a candidate carries an attempt of its source and a delta
  covers that source alone (`CandidatesFit`), and, for the exact validation of a
  delta, that a content token is known to its candidate alone until it is
  published (`TokensAreOwn`): a source that was republished can then never come
  back to the token a caller loaded (`TouchedHaveDrifted`). The argument does not
  cover deltas over an absent or metadata-only source, whose tokens do come back;
  the property leaves them out for the same reason. Charges are counted byte by
  byte, as in the capacity ledger. The three checked invariants and the three
  action properties follow.
* **Observation lane** (`ObservationLaneProofs`). The lemmas are about
  functions on one lane; the invariant adds that registrations age and that an
  attempt ends in the step that minted it. All four checked properties follow.
* **Replay store** (`ReplayStoreProofs`). One claimant (`ClaimInv`), one owner
  that knows whether it has executed (`OwnerInv`), completed records that were
  earned (`RecordInv`). At-most-once, earned answers, ended records and the
  refinement `StoreImplementsContract` follow.
* **Batch commit** (`EditCommitProofs`), under `AllLock`: no writer goes around
  the path locks (without it the theorem is false, see `lost_edit`). `IInv`
  joins: a writer stays within its files (`TodoInv`), holds the locks of all it
  may write (`LockInv`), knows every edit of a file it has compared (`KnownInv`),
  its edit is nowhere before its first attempt (`UnseenInv`), and what it has
  attested or rolled back is so (`ReportInv`). A step changes one locked file
  at most, so the other writers keep their part whatever the step is; the
  actions are then gone through for the writer that takes them.
  `NothingClobbered` and `ReportIsHonest` follow.
* **Index publication** (`IndexPublicationProofs`), for any number of loaders,
  events, requests and edits. Rows are compared by the
  version of the bytes they were read from, so the invariant follows them from
  the disk: every row anyone holds was on the disk of its root (`OnDisk`), a
  thread between its read and its publication is not behind what it will replace
  (`TaskIsAhead`), a reload is not behind the rows it started from, and keeps
  those admitted since (`ReloadIsAhead`), one loader at a time holds the write
  lock (`LockIsExclusive`), dropped files come with a root (`AbortsHaveRoot`), and
  the bridge thread works on the generation it will replace or will be refused
  (`FillerIsCurrent`). What an edit read back is only known to be no newer than
  the file (`EditIsOnDisk`), which is why its publication is excepted from
  `RowsNeverGoBack`. The three invariants the runs check are conjuncts of `IInv`,
  and the five action properties are shown step by step from it (`StepIsSound`).
* **Daemon sessions** (`DaemonSessionsProofs`). A slot is in the map, loading or
  being torn down, and each of these is someone's doing. `IInv` says whose:
  entries of the map and slots agree (`EntriesAreMapped`), a loader owns its slot
  (`LoadersOwnSlots`), a slot that is not at rest is tended (`SlotsAreTended`), a
  lock has one holder who is at a step that holds it (`LocksAreHeld`), a flight
  has a leader (`FlightsAreLed`), a session's call matches its record
  (`OpMatchesRecord`), a member's slot stays mapped (`MemberStaysMapped`) and a
  served slot is active (`ServedIsActive`). The four checked invariants follow;
  `FailedLoadRetiresNothing` needs also that every admission names the slot it
  was taken for (`AdmissionsAreNamed`).

**Only model-checked.** Liveness (`write_lane_live`) is beyond the prover, and so
is the absence of deadlock, which is a statement about `ENABLED`. Every invariant
and every action property of the passing runs has a theorem. The two violated
runs refute what they state, so there is nothing to prove.

## Findings

* `split_lane` (code): `return_to_current` takes its fresh lease by path and
  installs Current on an authority the fence has already evicted. A thread still
  waiting on that authority is then granted while the successor grants as well:
  two live permits on one directory, which the comment at
  `index_lifecycle/activation.rs:1188` excludes.
* `lost_edit` (comment and code): `insert_symbol`, `delete_symbol` and
  `edit_within_symbol` call `atomic_write_file`, which takes no path lock, so
  their write can fall between the comparison and the rename of a guarded apply.
  `edit_safety/atomic_write.rs:221` says the per-path mutex serializes all
  in-process writes. In the daemon the write gate of the governor keeps these
  tools apart; `serve` and the local server run them concurrently.

Four comments or tests of the index say more than the code does. Each is an
exception its property names, and a hazard with a note; without its exception TLC
refutes each of the four properties within a dozen steps (the last one with
`MaxVersion` = 3):

* `degrade_on_capacity_refusal` (`daemon.rs:4971`) stores a status whose only
  reason is the capacity. A gap the watcher latched during the cold load is gone,
  though `store.rs:3215` says the latch is one-way for this handle (`GapStays`).
* `scout_plan_without_path_locked` (`store.rs:3049`) takes the coverage from the
  remaining plan without looking at the manifest, so the removal of a path after
  the breaker tripped reports the index as Current although files it dropped are
  still missing. `scout_plan_with_entry_locked` does look, and
  `tasks/lessons.md:22` asks to "keep coverage Degraded until stable replacement"
  (`AbortsAreReported`).
* `update_file` (`store.rs:3955`) records the row it finds as the baseline. When
  the watcher has published the edited bytes first, that is the edited row itself,
  though the comment at 3958 says the impact diff is right even when the watcher
  re-indexes before the hook fires (`BaselineIsPredecessor`).
* `update_file` compares no generation, so an edit that was slow between its
  read-back and its publication lays older bytes over a newer row
  (`RowsNeverGoBack`). The next event or sweep of the path repairs it.

Smaller disagreements met on the way are hazards in `PROJECT.json` with a note:
a removal during a reload is undone by its commit, the stop of an unloaded slot
retires the admission a new opener has joined, a closed session can stay a
member of a slot when its reload fails, a receipt of a batch is read after the
locks are gone, observer numbers restart with every authority, and a timed-out
sidecar call works on without its share of the gate.

## Not modelled

Most of the repository's lines are not stateful protocols, and the mapped share
of the whole is small for that reason: large parts are tests, grammars and
rendering. Every part is listed in `PROJECT.json` with its reason. In short:

* parsing, symbol extraction, discovery, search, ranking, git data, knowledge
  text, rename planning: functions of text and scores over one immutable
  generation, without a state to interleave;
* MCP tools, formatting, HTTP, keys, command line, setup, update: arguments,
  prose and input/output around the modelled operations;
* the request governor: a semaphore and a gate that limit overlap; the modules
  allow the overlap it cannot exclude;
* lifecycle queries, verification and the process runtime: no production caller
  drives them in this revision beyond names and projections;
* snapshot persistence: a file format; what its verifier observes is an action
  of `ObservationLane`;
* within modelled parts: the files of a directory that replaces the root under
  the index (the replacement itself is a choice of `PublishReload`; with two roots
  `IndexPublication` exceeds what can be checked), the watcher's debouncing and
  reconciliation sweep, the batch of a snapshot verification, working-set bases
  and client reconnection of the daemon, anchored reads and directory walks under
  a lease, tee snapshots.

A crash is modelled where something is persisted that a successor reads, which
is the replay store. The other state is in memory and a restart begins at `Init`;
the batch commit has no journal and promises nothing over a crash.
