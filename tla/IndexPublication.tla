-------------------------- MODULE IndexPublication --------------------------
(***************************************************************************)
(* SharedIndexHandle: the published generation of one project's live index *)
(* and everything that replaces it.  Reloads rebuild the whole index off   *)
(* the write lock while the watcher and the requests go on publishing      *)
(* single files under two generation fences and an edit tool publishes the *)
(* file it wrote under none; a background thread fills in the knowledge    *)
(* bridge that the cold publication left out.  File contents are version   *)
(* numbers, a new one for every write; an index row is the root and the    *)
(* version it was read from.  The index-state generation and the content   *)
(* generation are only ever compared with a value sampled before, so each  *)
(* sample is kept as a flag that says whether it has moved since.          *)
(***************************************************************************)
EXTENDS Naturals, FiniteSets

CONSTANTS
    Roots,            \* the project roots this handle is ever bound to
    Paths,            \* relative paths
    Events,           \* threads of the watcher that re-index a path
    Requests,         \* requests that re-index the path they are about to use
    Edits,            \* edit tool calls that re-index the file they wrote
    Loaders,          \* threads that run reloads
    ColdLoads,        \* the loaders that start with the session's cold load
    NoRoot,           \* indexed_root = None
    Faults,           \* what may go wrong: the ways a path is refused (Degrading),
                      \* and "Replaced", a new directory in the place of the root
    MaxVersion,       \* bound on the writes of one file
    MaxReloads,       \* bound on project_generation
    Attempts,         \* MAX_PUBLICATION_ATTEMPTS (4 in the code)
    Misses,           \* NotFound retries of maybe_reindex (3 in the code)
    FillAttempts      \* attempts of the knowledge bridge thread (4 in the code)

ASSUME ConstantsOK ==
    /\ NoRoot \notin Roots /\ Paths # {}
    /\ Faults \subseteq {"Unavailable", "Unreadable", "Aborted", "Replaced"}
    /\ {MaxVersion, MaxReloads, Misses, FillAttempts} \subseteq Nat
    /\ ColdLoads \subseteq Loaders
    /\ Attempts \in Nat \ {0}

VARIABLES
    disk,        \* what the file system holds
    projectGen,  \* project_generation
    pub,         \* published_source_set: the current PublishedGeneration
    slots,       \* pre_update_snapshots, NoRow where there is none
    defer,       \* defer_cold_knowledge
    bound,       \* the server's bound repo_root
    watcher,     \* the current watcher task
    reload,      \* the reload each loader has in progress
    task,        \* the single-file publications in progress
    edit,        \* the edits in progress
    filler       \* the knowledge bridge thread

vars == <<disk, projectGen, pub, slots, defer, bound, watcher, reload, task, edit,
          filler>>

-----------------------------------------------------------------------------
(* Files, rows and publications.                                           *)

Tasks == Events \cup Requests

NoRow == [root |-> NoRoot, version |-> 0]
NoRows == [p \in Paths |-> NoRow]

\* FileDisposition: "Indexed", "MetadataOnly" or a failure; "none" is a path
\* nothing names.  A path can be refused by the scout ("Unavailable"), by the
\* stable read ("Unreadable") or, in a reload, by the circuit breaker that stops
\* the parsing of the rest ("Aborted").
Failed == {"Unavailable", "Unreadable"}
Degrading == Failed \cup {"Aborted"}
NoFile == [version |-> 0, kind |-> "none"]

\* What a scout and a read of a path can come back with.
Look(r, p) ==
    {disk[r][p]} \cup IF disk[r][p].kind = "none" THEN {}
                      ELSE [version : {0}, kind : Faults \cap Failed]

RowOf(r, seen) ==
    IF seen.kind = "Indexed" THEN [root |-> r, version |-> seen.version] ELSE NoRow

\* The knowledge bridge: a placeholder, or built from the rows of a generation.
Unbuilt(kind) == [kind |-> kind, of |-> NoRows]
Built(rows) == [kind |-> "built", of |-> rows]

\* The abort of the circuit breaker is not counted.
RequiresDegraded_but_aborts(disp) == \E p \in Paths : disp[p] \in Failed

\* manifest_requires_degraded_coverage.
RequiresDegraded(disp) == \E p \in Paths : disp[p] \in Degrading

\* The reasons no recomputation retires: the latched gap, and the refusal of a
\* cold load by the capacity of the catalog.
Kept(reasons) == reasons \cap {"WatcherUnavailable", "CatalogCapacity"}

\* Freshness from the coverage of the plan alone.
recompute_freshness_from_plan(disp, degraded) ==
    Kept(pub.reasons) \cup (IF degraded THEN {"ReconciliationPending"} ELSE {})

\* recompute_freshness_locked: ObservationFailed follows from the manifest, where
\* an abort does not count, ReconciliationPending from the coverage of the plan.
recompute_freshness(disp, degraded) ==
    Kept(pub.reasons)
    \cup (IF \E p \in Paths : disp[p] \in Failed THEN {"ObservationFailed"} ELSE {})
    \cup (IF degraded THEN {"ReconciliationPending"} ELSE {})

\* The scout plan: an entry per scouted path, and the decision on it as far as
\* its coverage depends on it (refresh_scout_plan).
Scouted(kind) == IF kind \in {"none", "Unavailable"} THEN kind ELSE "scouted"
NoPlan == [p \in Paths |-> "none"]
plan_degraded(plan) == \E p \in Paths : plan[p] = "Unavailable"

Live(rows, disp, plan, degraded) ==
    [rows |-> rows, disp |-> disp, plan |-> plan, degraded |-> degraded,
     root |-> pub.root, bootstrap |-> pub.bootstrap, empty |-> pub.empty,
     reasons |-> recompute_freshness(disp, degraded)]

\* scout_plan_with_entry_locked; a handle that never loaded has no plan.
WithEntry(p, row, kind) ==
    LET rows == [pub.rows EXCEPT ![p] = row]
        disp == [pub.disp EXCEPT ![p] = kind]
        plan == [pub.plan EXCEPT ![p] = Scouted(kind)]
    IN  IF pub.root = NoRoot THEN Live(rows, disp, pub.plan, pub.degraded)
        ELSE Live(rows, disp, plan, plan_degraded(plan) \/ RequiresDegraded(disp))

\* scout_plan_without_path_locked: the coverage of the remaining plan, without a
\* look at the manifest.
WithoutPath(p) ==
    LET plan == [pub.plan EXCEPT ![p] = "none"]
    IN  Live([pub.rows EXCEPT ![p] = NoRow], [pub.disp EXCEPT ![p] = "none"], plan,
             IF plan = pub.plan THEN pub.degraded ELSE plan_degraded(plan))

\* The live index as it is, for the publications that retain it.
Retained(reasons) ==
    [rows |-> pub.rows, disp |-> pub.disp, plan |-> pub.plan,
     degraded |-> pub.degraded, root |-> pub.root, bootstrap |-> pub.bootstrap,
     empty |-> pub.empty, reasons |-> reasons]

\* A bridge carried over a content change.
next_bridge_stale(live, changed, deferred) ==
    IF deferred THEN Unbuilt("Loading")
    ELSE IF live.root = NoRoot THEN Unbuilt("default")
    ELSE IF pub.root = live.root THEN pub.bridge
    ELSE Built(live.rows)

\* The bridge of the next publication.
next_bridge(live, changed, deferred) ==
    IF deferred THEN Unbuilt("Loading")
    ELSE IF live.root = NoRoot THEN Unbuilt("default")
    ELSE IF ~changed /\ pub.root = live.root THEN pub.bridge
    ELSE Built(live.rows)

\* A sample of the index-state generation taken by a single-file publication
\* is behind after every publication of the live index.
Outdated == [t \in Tasks |-> [task[t] EXCEPT !.fresh = FALSE]]

\* swap_and_publish_with_content_change: one generation for the live index,
\* its state and the bundle.  The first content publication out of the empty
\* bootstrap defers the bridge to a thread; if that thread cannot be spawned
\* the placeholder is replaced by partial coverage before the lock is released.
swap_and_publish(live, changed) ==
    LET leaving  == changed /\ pub.bootstrap /\ defer
        deferred == leaving /\ live.root # NoRoot
        bundle   == [project |-> projectGen, rows |-> live.rows, disp |-> live.disp,
                     plan |-> live.plan, degraded |-> live.degraded,
                     root |-> live.root, bootstrap |-> live.bootstrap,
                     empty |-> live.empty, reasons |-> live.reasons,
                     bridge |-> next_bridge(live, changed, deferred)]
    IN  /\ \/ /\ pub' = bundle
              /\ filler' = IF deferred THEN [filler EXCEPT !.pc = "fill", !.left = FillAttempts]
                           ELSE [filler EXCEPT !.fresh = @ /\ ~changed]
           \/ /\ deferred
              /\ pub' = [bundle EXCEPT !.bridge = Unbuilt("Truncated")]
              /\ UNCHANGED filler
        /\ defer' = (defer /\ ~leaving)

-----------------------------------------------------------------------------
(* The file system, the server's binding and the watcher.                  *)

\* A write gives the file new bytes, which admission takes or withholds.
NewBytes(r, p) ==
    /\ disk[r][p].version < MaxVersion
    /\ \E kind \in {"Indexed", "MetadataOnly"} :
          disk' = [disk EXCEPT ![r][p] = [version |-> @.version + 1, kind |-> kind]]

WriteFile(r, p) ==
    /\ NewBytes(r, p)
    /\ UNCHANGED <<projectGen, pub, slots, defer, bound, watcher, reload, task, edit,
                   filler>>

DeleteFile(r, p) ==
    /\ disk[r][p].kind # "none"
    /\ disk' = [disk EXCEPT ![r][p].kind = "none"]
    /\ UNCHANGED <<projectGen, pub, slots, defer, bound, watcher, reload, task, edit,
                   filler>>

\* write_mutex is held by a committing reload; every other holder of it takes one
\* step.
Locked == \E l \in Loaders : reload[l].pc = "commit"

\* run_watcher_with_stop: the task samples the project generation when it
\* first runs, which may be long after it was spawned.
WatcherStarts ==
    /\ watcher.pc = "spawned" /\ Events # {}
    /\ watcher' = [watcher EXCEPT !.pc = "running", !.spawn = projectGen]
    /\ UNCHANGED <<disk, projectGen, pub, slots, defer, bound, reload, task, edit,
                   filler>>

\* effective_fence_generation: an advanced generation is adopted only from a
\* publication that serves the watcher's own root.
effective_fence_generation ==
    IF pub.project # watcher.spawn /\ pub.root = watcher.root
    THEN pub.project ELSE watcher.spawn

\* The watch ends or restarts: events may have been missed from here on.
WatcherFails ==
    /\ watcher.pc = "running"
    /\ watcher' = [watcher EXCEPT !.pc = "latching", !.gen = effective_fence_generation]
    /\ UNCHANGED <<disk, projectGen, pub, slots, defer, bound, reload, task, edit,
                   filler>>

\* latch_observer_gap_at_generation, after which the watcher starts again or
\* gives up.
LatchGap ==
    /\ watcher.pc = "latching" /\ ~Locked
    /\ \E pc \in {"running", "none"} : watcher' = [watcher EXCEPT !.pc = pc, !.gen = 0]
    /\ IF pub.project = watcher.gen /\ "WatcherUnavailable" \notin pub.reasons
       THEN /\ swap_and_publish(Retained(pub.reasons \cup {"WatcherUnavailable"}), FALSE)
            /\ task' = Outdated
       ELSE UNCHANGED <<pub, filler, defer, task>>
    /\ UNCHANGED <<disk, projectGen, slots, bound, reload, edit>>

\* refresh_source_metadata, update_git_temporal_at_fence: a publication that
\* changes neither the rows nor the manifest.
RetainContent ==
    /\ ~Locked
    /\ swap_and_publish(Retained(pub.reasons), FALSE)
    /\ task' = Outdated
    /\ UNCHANGED <<disk, projectGen, slots, bound, watcher, reload, edit>>

-----------------------------------------------------------------------------
(* Reload: watermark, build off the lock, commit under it, then rebind or  *)
(* settle.  Nothing keeps two of them from building at the same time.      *)

NoReload == [pc |-> "idle", kind |-> "none", root |-> NoRoot, left |-> {},
             mark |-> NoRows, rows |-> NoRows, disp |-> NoPlan, plan |-> NoPlan,
             degraded |-> FALSE]

StartReload(r, kind, mark) ==
    [NoReload EXCEPT !.pc = "build", !.kind = kind, !.root = r, !.left = Paths,
                     !.mark = mark]

Load(l, new) == reload' = [reload EXCEPT ![l] = new]
LoadOthers == <<disk, projectGen, pub, slots, defer, bound, watcher, task, edit, filler>>

\* index_folder: the old watcher stays alive while the new index is built.
IndexFolder(l, r) ==
    /\ reload[l].pc = "idle" /\ projectGen < MaxReloads
    /\ Load(l, StartReload(r, "folder", pub.rows))
    /\ UNCHANGED LoadOthers

\* refresh_bound_tree_cancellable: the embedded worker, which has no watcher,
\* reloads its own tree instead.
RefreshTree(l) ==
    /\ reload[l].pc = "idle" /\ Events = {} /\ projectGen < MaxReloads
    /\ Load(l, StartReload(bound, "refresh", pub.rows))
    /\ UNCHANGED LoadOthers

\* The files after the one that trips the breaker are dropped, parsed or not; that
\* file need not be one of Paths (fold_parse_results_for_scope).
Aborts(r, p) ==
    IF disk[r][p].kind = "Indexed" THEN [version : {0}, kind : Faults \cap {"Aborted"}]
    ELSE {}

\* build_reload_data: the walk reads every path once, at its own time.
BuildRead(l, p) ==
    /\ reload[l].pc = "build" /\ p \in reload[l].left
    /\ \E seen \in Look(reload[l].root, p) \cup Aborts(reload[l].root, p) :
          Load(l, [reload[l] EXCEPT !.left = @ \ {p},
                                    !.rows[p] = RowOf(reload[l].root, seen),
                                    !.disp[p] = seen.kind,
                                    !.plan[p] = Scouted(seen.kind),
                                    !.degraded = @ \/ seen.kind \in Degrading])
    /\ UNCHANGED LoadOthers

\* A reload that fails.  The error of a cold load is settled on its placeholder,
\* unless it was cancelled or finds another index published (ColdLoadJob::finish;
\* the local lane does not look).
Fail(l, settles) ==
    \/ Load(l, NoReload)
    \/ /\ reload[l].kind = "cold"
       /\ \E pc \in settles : Load(l, [NoReload EXCEPT !.pc = pc])

\* The build fails or is cancelled, or the scout exceeds the catalog's capacity.
AbandonReload(l) ==
    /\ reload[l].pc = "build"
    /\ Fail(l, {"refused", "settle"})
    /\ UNCHANGED LoadOthers

\* degrade_on_capacity_refusal, its first publication: the status it stores names
\* the capacity and nothing else.
DegradeOnCapacity(l) ==
    /\ reload[l].pc = "refused" /\ ~Locked
    /\ swap_and_publish(Retained({"CatalogCapacity"}), FALSE)
    /\ task' = Outdated
    /\ Load(l, [NoReload EXCEPT !.pc = "settle"])
    /\ UNCHANGED <<disk, projectGen, slots, bound, watcher, edit>>

\* set_local_empty_reason, the end of settle_background_cold_load.
SettleEmpty(l) ==
    /\ reload[l].pc = "settle" /\ ~Locked
    /\ swap_and_publish([Retained(pub.reasons) EXCEPT !.empty = TRUE], FALSE)
    /\ task' = Outdated
    /\ Load(l, NoReload)
    /\ UNCHANGED <<disk, projectGen, slots, bound, watcher, edit>>

\* live_path_changed_since_reload_watermark, for a path the live index holds.
ChangedSinceWatermark(l, p) == pub.rows[p] # NoRow /\ pub.rows[p] # reload[l].mark[p]

\* merge_post_watermark_live_admissions refuses the reload.
Conflicts(l, p) ==
    ChangedSinceWatermark(l, p) /\ reload[l].rows[p] \notin {NoRow, pub.rows[p]}

\* The candidate taken over the live admissions.
Carried_none(l, p) == FALSE

\* merge_post_watermark_live_admissions carries the admission over.
Carried(l, p) == ChangedSinceWatermark(l, p) /\ reload[l].rows[p] = NoRow

\* Under the write lock: merge, then advance the project generation while the
\* previous index is still the published one.
CommitReload(l) ==
    /\ reload[l].pc = "build" /\ reload[l].left = {} /\ ~Locked
    /\ \A p \in Paths : ~Conflicts(l, p)
    /\ projectGen' = projectGen + 1
    /\ Load(l, [reload[l] EXCEPT
          !.pc = "commit",
          !.rows = [p \in Paths |-> IF Carried(l, p) THEN pub.rows[p] ELSE @[p]],
          !.disp = [p \in Paths |-> IF Carried(l, p) THEN "Indexed" ELSE @[p]]])
    /\ UNCHANGED <<disk, pub, slots, defer, bound, watcher, task, edit, filler>>

RefuseReload(l) ==
    /\ reload[l].pc = "build" /\ reload[l].left = {} /\ ~Locked
    /\ \E p \in Paths : Conflicts(l, p)
    /\ Fail(l, {"settle"})
    /\ UNCHANGED LoadOthers

\* The gap that was latched is forgotten by the rebuild.
reload_reasons_forgotten(l, replaced) ==
    IF reload[l].degraded \/ replaced THEN {"ReconciliationPending"} ELSE {}

\* The freshness a reload publishes: its own coverage, whether the physical root
\* was replaced under the index, and the latched gap.
reload_reasons(l, replaced) ==
    (IF reload[l].degraded \/ replaced THEN {"ReconciliationPending"} ELSE {})
    \cup (pub.reasons \cap {"WatcherUnavailable"})

Replacement(l, replaced) ==
    [rows |-> reload[l].rows, disp |-> reload[l].disp, plan |-> reload[l].plan,
     degraded |-> reload[l].degraded, root |-> reload[l].root, bootstrap |-> FALSE,
     empty |-> FALSE, reasons |-> reload_reasons(l, replaced)]

\* A file the refresh withdraws keeps the baseline it had.
changed_file_baselines_kept(l) ==
    [p \in Paths |-> IF reload[l].rows[p] \in {pub.rows[p], NoRow} THEN slots[p]
                     ELSE pub.rows[p]]

\* changed_file_baselines: the prior row of a file whose bytes changed, nothing
\* for a file that is new or gone, and what the others had.
changed_file_baselines(l) ==
    [p \in Paths |-> IF reload[l].rows[p] = pub.rows[p] THEN slots[p]
                     ELSE IF reload[l].rows[p] = NoRow THEN NoRow
                     ELSE pub.rows[p]]

\* The rest of the commit: the new index is published and the lock released.  A
\* refresh records the baselines of what it changed; a retarget, and a refresh of
\* a replaced root, drops them all.
PublishReload(l) ==
    /\ reload[l].pc = "commit"
    /\ \E replaced \in {FALSE, "Replaced" \in Faults} :
          /\ swap_and_publish(Replacement(l, replaced), TRUE)
          /\ slots' = IF reload[l].kind = "refresh" /\ ~replaced
                      THEN changed_file_baselines(l) ELSE NoRows
    /\ Load(l, IF reload[l].kind = "folder"
               THEN [NoReload EXCEPT !.pc = "bind", !.root = reload[l].root]
               ELSE NoReload)
    /\ task' = Outdated
    /\ UNCHANGED <<disk, projectGen, bound, watcher, edit>>

\* index_folder after the reload: the old watcher is stopped, the server is
\* bound to the new root and a watcher for it is spawned.
Rebind(l) ==
    /\ reload[l].pc = "bind"
    /\ bound' = reload[l].root
    /\ watcher' = [root |-> reload[l].root, pc |-> "spawned", spawn |-> 0, gen |-> 0]
    /\ Load(l, NoReload)
    /\ UNCHANGED <<disk, projectGen, pub, slots, defer, task, edit, filler>>

-----------------------------------------------------------------------------
(* Single-file publication: observe a base, read the file, publish.        *)

NoTask == [pc |-> "idle", path |-> CHOOSE p \in Paths : TRUE,
           root |-> NoRoot, gen |-> 0, fresh |-> FALSE, at |-> 0, seen |-> NoFile,
           left |-> 0, misses |-> 0]

Move(t, new) == task' = [task EXCEPT ![t] = new]
End(t) == Move(t, NoTask)
Published_by(t) == task' = [Outdated EXCEPT ![t] = NoTask]
Others == <<disk, projectGen, bound, watcher, reload, edit>>
Published == <<pub, slots, defer, filler>>

\* An attempt begins: the base its publication will be compared with.
Observed(new) == [new EXCEPT !.pc = "read", !.fresh = TRUE, !.at = pub.project,
                             !.seen = NoFile]

\* refuses_watcher_observed_admission: the empty bootstrap, while the cold load
\* that will replace it has not been settled.
refuses_watcher_observed_admission ==
    pub.bootstrap /\ pub.root = NoRoot /\ ~pub.empty

\* process_events: one path of a batch, under the effective fence.
BeginEvent(t, p) ==
    /\ task[t].pc = "idle" /\ watcher.pc = "running"
    /\ ~refuses_watcher_observed_admission
    /\ Move(t, Observed([NoTask EXCEPT
          !.path = p, !.root = watcher.root,
          !.gen = effective_fence_generation, !.left = Attempts]))
    /\ UNCHANGED <<Others, Published>>

\* A request's freshen: the raw generation counter first ...
BeginRequest(t, p) ==
    /\ task[t].pc = "idle"
    /\ Move(t, [NoTask EXCEPT !.pc = "root", !.path = p, !.gen = projectGen])
    /\ UNCHANGED <<Others, Published>>

\* ... then the bound root, then the counter again (freshen_file_if_stale).
RequestRoot(t) ==
    /\ task[t].pc = "root"
    /\ IF projectGen = task[t].gen /\ ~refuses_watcher_observed_admission
       THEN Move(t, Observed([task[t] EXCEPT !.root = bound, !.left = Attempts,
                                             !.misses = Misses]))
       ELSE End(t)
    /\ UNCHANGED <<Others, Published>>

Read(t) ==
    /\ task[t].pc = "read"
    /\ \E seen \in Look(task[t].root, task[t].path) :
          Move(t, IF seen.kind = "none" THEN [task[t] EXCEPT !.pc = "absent"]
                  ELSE [task[t] EXCEPT !.pc = "publish", !.seen = seen])
    /\ UNCHANGED <<Others, Published>>

\* maybe_reindex looks again before it believes an absence; process_events
\* drops the absence if its fence is not that of the publication.
AbsentAgain(t) ==
    /\ task[t].pc = "absent"
    /\ \/ /\ t \in Requests /\ task[t].at = task[t].gen /\ task[t].misses > 0
          /\ Move(t, Observed([task[t] EXCEPT !.misses = @ - 1, !.left = Attempts]))
       \/ /\ IF t \in Events THEN pub.project # task[t].gen
             ELSE task[t].at # task[t].gen
          /\ End(t)
    /\ UNCHANGED <<Others, Published>>

Held(p) == pub.rows[p] # NoRow \/ pub.disp[p] # "none" \/ pub.plan[p] # "none"

\* remove_file_with_fences: the generation and the absence of the file are
\* checked under the write lock; a path nothing holds publishes nothing.
MayRemove(t) ==
    /\ projectGen = task[t].gen
    /\ disk[task[t].root][task[t].path].kind = "none"
    /\ Held(task[t].path)

Remove(t) ==
    LET p == task[t].path
    IN  /\ task[t].pc = "absent" /\ ~Locked
        /\ t \in Events \/ (task[t].at = task[t].gen /\ task[t].misses = 0)
        /\ IF MayRemove(t)
           THEN /\ swap_and_publish(WithoutPath(p), TRUE)
                /\ slots' = [slots EXCEPT ![p] = NoRow]
                /\ Published_by(t)
           ELSE UNCHANGED Published /\ End(t)
        /\ UNCHANGED Others

\* The index-state generation is not compared.
Fenced_by_project(t) == projectGen = task[t].gen

\* The two fences every single-file publication checks under the write lock.
Fenced(t) == projectGen = task[t].gen /\ task[t].fresh

\* A publication that lost its base starts over, from the file; one that lost
\* its project, or all its attempts, is dropped.
Republish(t) ==
    /\ task[t].pc = "publish" /\ ~Locked /\ ~Fenced(t)
    /\ IF projectGen = task[t].gen /\ task[t].left > 1
       THEN Move(t, Observed([task[t] EXCEPT !.left = @ - 1]))
       ELSE End(t)
    /\ UNCHANGED <<Others, Published>>

\* publish_terminal_disposition_at_generation: a failed read retains the last
\* valid content, a withheld file loses its row and its baseline.
PublishTerminal(t) ==
    LET p == task[t].path
        kind == task[t].seen.kind
    IN  /\ task[t].pc = "publish" /\ ~Locked /\ Fenced(t) /\ kind # "Indexed"
        /\ IF kind \in Failed
           THEN /\ swap_and_publish(WithEntry(p, pub.rows[p], kind), FALSE)
                /\ UNCHANGED slots
           ELSE /\ swap_and_publish(WithEntry(p, NoRow, kind), TRUE)
                /\ slots' = [slots EXCEPT ![p] = NoRow]
        /\ Published_by(t)
        /\ UNCHANGED Others

\* publish_hash_skip_at_generation: the same bytes publish only what changed
\* around them.
PublishHashSkip(t) ==
    LET p == task[t].path
        live == WithEntry(p, pub.rows[p], "Indexed")
    IN  /\ task[t].pc = "publish" /\ ~Locked /\ Fenced(t)
        /\ task[t].seen.kind = "Indexed"
        /\ pub.rows[p] = RowOf(task[t].root, task[t].seen)
        /\ IF live.disp = pub.disp /\ live.plan = pub.plan /\ live.degraded = pub.degraded
           THEN UNCHANGED Published /\ End(t)
           ELSE swap_and_publish(live, TRUE) /\ UNCHANGED slots /\ Published_by(t)
        /\ UNCHANGED Others

\* publish_indexed_file_at_generation, and the baseline of the row it replaces.
PublishIndexed(t) ==
    LET p == task[t].path
        row == RowOf(task[t].root, task[t].seen)
    IN  /\ task[t].pc = "publish" /\ ~Locked /\ Fenced(t)
        /\ task[t].seen.kind = "Indexed" /\ pub.rows[p] # row
        /\ swap_and_publish(WithEntry(p, row, "Indexed"), TRUE)
        /\ slots' = [slots EXCEPT ![p] = pub.rows[p]]
        /\ Published_by(t)
        /\ UNCHANGED Others

-----------------------------------------------------------------------------
(* reindex_after_write: an edit publishes what it reads back from the file *)
(* it wrote, compared with no generation.                                  *)

NoEdit == [pc |-> "idle", path |-> CHOOSE p \in Paths : TRUE, root |-> NoRoot,
           seen |-> NoFile]

EditTo(e, new) == edit' = [edit EXCEPT ![e] = new]
EditOthers == <<disk, projectGen, bound, watcher, reload>>

\* The tool resolved its symbol in the index and writes the file beneath the
\* bound root.
EditFile(e, p) ==
    /\ edit[e].pc = "idle" /\ pub.rows[p] # NoRow
    /\ NewBytes(bound, p)
    /\ EditTo(e, [NoEdit EXCEPT !.pc = "read", !.path = p, !.root = bound])
    /\ UNCHANGED <<projectGen, bound, watcher, reload, task, Published>>

\* The bytes on the disk by now; a failed read ends the re-index.
ReadBack(e) ==
    /\ edit[e].pc = "read"
    /\ \E seen \in Look(edit[e].root, edit[e].path) :
          EditTo(e, IF seen.kind \in {"Indexed", "MetadataOnly"}
                    THEN [edit[e] EXCEPT !.pc = "publish", !.seen = seen] ELSE NoEdit)
    /\ UNCHANGED <<EditOthers, task, Published>>

\* SharedIndexHandle::update_file: the row, its manifest entry and the row that
\* was there as baseline, be it the same; the plan and the freshness stay.
UpdateFile(e) ==
    LET p == edit[e].path
    IN  /\ edit[e].pc = "publish" /\ edit[e].seen.kind = "Indexed" /\ ~Locked
        /\ swap_and_publish([Retained(pub.reasons) EXCEPT
                                !.rows[p] = RowOf(edit[e].root, edit[e].seen),
                                !.disp[p] = "Indexed"], TRUE)
        /\ slots' = [slots EXCEPT ![p] = pub.rows[p]]
        /\ task' = Outdated /\ EditTo(e, NoEdit)
        /\ UNCHANGED EditOthers

\* SharedIndexHandle::remove_file: content policy withholds the new bytes.
RemoveFile(e) ==
    LET p == edit[e].path
    IN  /\ edit[e].pc = "publish" /\ edit[e].seen.kind = "MetadataOnly" /\ ~Locked
        /\ IF pub.rows[p] # NoRow \/ pub.disp[p] # "none"
           THEN /\ swap_and_publish([Retained(pub.reasons) EXCEPT
                                        !.rows[p] = NoRow, !.disp[p] = "none"], TRUE)
                /\ slots' = [slots EXCEPT ![p] = NoRow]
                /\ task' = Outdated
           ELSE UNCHANGED <<task, Published>>
        /\ EditTo(e, NoEdit)
        /\ UNCHANGED EditOthers

-----------------------------------------------------------------------------
(* The thread that fills in the deferred knowledge bridge.                 *)

NoFiller == [pc |-> "none", left |-> 0, fresh |-> FALSE, project |-> 0, of |-> NoRows]
Loading == pub.bridge.kind = "Loading"
FillerOthers == <<Others, slots, defer, task>>

\* An attempt builds from the generation it captures; it stops when somebody
\* else has replaced the placeholder.
FillCapture ==
    /\ filler.pc = "fill" /\ filler.left > 0
    /\ filler' = IF Loading
                 THEN [filler EXCEPT !.pc = "built", !.fresh = TRUE,
                                     !.project = pub.project, !.of = pub.rows]
                 ELSE NoFiller
    /\ UNCHANGED <<pub, FillerOthers>>

\* publish_deferred_knowledge: only over the placeholder, and only for the
\* content it was built from.
FillPublish ==
    /\ filler.pc = "built" /\ ~Locked
    /\ IF Loading /\ filler.fresh /\ pub.project = filler.project
       THEN /\ pub' = [pub EXCEPT !.bridge = Built(filler.of)]
            /\ filler' = NoFiller
       ELSE /\ filler' = [NoFiller EXCEPT !.pc = "fill", !.left = filler.left - 1]
            /\ UNCHANGED pub
    /\ UNCHANGED FillerOthers

\* The build panics: caught, and nothing is published.
FillPanics_forgotten ==
    /\ filler.pc = "built"
    /\ filler' = NoFiller
    /\ UNCHANGED <<pub, FillerOthers>>

\* The build panics: caught by the thread, which then abandons the bridge.
FillPanics ==
    /\ filler.pc = "built"
    /\ filler' = [NoFiller EXCEPT !.pc = "abandon"]
    /\ UNCHANGED <<pub, FillerOthers>>

\* abandon_loading_knowledge_as_partial.
FillAbandon ==
    /\ filler.pc = "abandon" \/ (filler.pc = "fill" /\ filler.left = 0)
    /\ ~Locked
    /\ pub' = IF Loading THEN [pub EXCEPT !.bridge = Unbuilt("Truncated")]
              ELSE pub
    /\ filler' = NoFiller
    /\ UNCHANGED FillerOthers

-----------------------------------------------------------------------------
(* The specification: a cold start of a project without a snapshot.        *)

Init ==
    /\ disk \in [Roots -> [Paths -> {NoFile, [version |-> 1, kind |-> "Indexed"]}]]
    /\ projectGen = 0 /\ defer = (ColdLoads # {})
    /\ pub = [project |-> 0,
              rows |-> NoRows, disp |-> NoPlan, plan |-> NoPlan, degraded |-> FALSE,
              root |-> NoRoot, bootstrap |-> TRUE, empty |-> (ColdLoads = {}),
              reasons |-> {}, bridge |-> Unbuilt("default")]
    /\ slots = NoRows
    /\ bound \in Roots
    /\ watcher = [root |-> bound, pc |-> "spawned", spawn |-> 0, gen |-> 0]
    /\ reload = [l \in Loaders |-> IF l \in ColdLoads THEN StartReload(bound, "cold", NoRows)
                                  ELSE NoReload]
    /\ task = [t \in Tasks |-> NoTask] /\ edit = [e \in Edits |-> NoEdit]
    /\ filler = NoFiller

LoaderStep(l) ==
    \/ \E r \in Roots : IndexFolder(l, r)
    \/ \E p \in Paths : BuildRead(l, p)
    \/ RefreshTree(l) \/ AbandonReload(l) \/ DegradeOnCapacity(l) \/ SettleEmpty(l)
    \/ CommitReload(l) \/ RefuseReload(l) \/ PublishReload(l) \/ Rebind(l)

TaskStep(t) ==
    \/ \E p \in Paths : (t \in Events /\ BeginEvent(t, p)) \/ (t \in Requests /\ BeginRequest(t, p))
    \/ RequestRoot(t) \/ Read(t) \/ AbsentAgain(t) \/ Remove(t)
    \/ Republish(t) \/ PublishTerminal(t) \/ PublishHashSkip(t) \/ PublishIndexed(t)

EditStep(e) ==
    \/ \E p \in Paths : EditFile(e, p)
    \/ ReadBack(e) \/ UpdateFile(e) \/ RemoveFile(e)

Next ==
    \/ \E r \in Roots, p \in Paths : WriteFile(r, p) \/ DeleteFile(r, p)
    \/ WatcherStarts \/ WatcherFails \/ LatchGap \/ RetainContent
    \/ \E l \in Loaders : LoaderStep(l)
    \/ \E t \in Tasks : TaskStep(t)
    \/ \E e \in Edits : EditStep(e)
    \/ FillCapture \/ FillPublish \/ FillPanics \/ FillAbandon

Spec == Init /\ [][Next]_vars

-----------------------------------------------------------------------------
(* Properties.                                                             *)

\* No watcher event, request or reload replaces the row of a path by one read
\* from older bytes of the same root, whatever was published since it read them.
\* The re-index of an edit gives no such promise: update_file compares nothing,
\* and can lay what the edit read back over a newer row.
RowsNeverGoBack ==
    [][\/ \A p \in Paths :
             pub.rows[p].root = pub'.rows[p].root =>
                pub'.rows[p].version >= pub.rows[p].version
       \/ \E e \in Edits : UpdateFile(e)]_vars

\* A row that was admitted while a reload was building, by another reload or an
\* edit as well, is still there after its commit, or the reload was refused
\* (merge_post_watermark_live_admissions).
AdmissionsSurviveReload ==
    [][\A l \in Loaders, p \in Paths :
          reload[l].pc = "commit" /\ reload'[l].pc # "commit" /\ ChangedSinceWatermark(l, p) =>
             pub'.rows[p] = pub.rows[p]]_vars

\* A pre-update baseline is the row its path had just before the present one, so
\* an impact diff compares neighbours: it is taken by the publication that
\* replaces the row, a refresh of the whole tree included, and kept only while the
\* row stays.  update_file alone may take the present row: when a watcher has
\* published the edited bytes before it, it lays the same row over itself.
BaselineIsPredecessor ==
    [][\A p \in Paths :
          slots'[p] # NoRow =>
             \/ slots'[p] = IF pub'.rows[p] = pub.rows[p] THEN slots[p] ELSE pub.rows[p]
             \/ slots'[p] = pub.rows[p] /\ \E e \in Edits : edit[e].path = p /\ UpdateFile(e)]_vars

\* A finished knowledge bridge was built from the rows it is published with,
\* whichever thread built it.
BridgeDescribesContent ==
    pub.bridge.kind = "built" => pub.bridge.of = pub.rows

\* An index reported as current has no path it failed to read.
CurrentIsHonest ==
    pub.reasons = {} => \A p \in Paths : pub.disp[p] \notin Failed

\* A reload publishes the paths its circuit breaker dropped as degraded, and while
\* one of them has no stable replacement only the removal of a path, which takes
\* the coverage from the remaining plan alone, can report the index as current.
AbortsAreReported ==
    [][\A p \in Paths :
          pub'.disp[p] = "Aborted" /\ pub'.reasons = {} =>
             \/ pub.disp[p] = "Aborted" /\ pub.reasons = {}
             \/ \E t \in Tasks : Remove(t)]_vars

\* A latched observer gap outlives every later publication, reloads included; only
\* a cold load that settles a capacity refusal stores a status without it.
GapStays ==
    [][("WatcherUnavailable" \in pub.reasons) =>
          \/ "WatcherUnavailable" \in pub'.reasons
          \/ \E l \in Loaders : DegradeOnCapacity(l)]_vars

\* The placeholder bridge is never left behind: while it is published the
\* thread that replaces it, or gives it up as partial, is still running, so
\* wait_until_knowledge_bridge_published has something to wait for.
PlaceholderIsOwned == Loading => filler.pc # "none"

-----------------------------------------------------------------------------
(* The inductive invariant.                                                *)

RowMaps == [Paths -> {NoRow} \cup [root : Roots, version : Nat]]
FileKinds == {"none", "Indexed", "MetadataOnly"} \cup Failed
Kinds == FileKinds \cup {"Aborted"}
Looks == [version : Nat, kind : FileKinds]
Dispositions == [Paths -> Kinds]
Plans == [Paths -> {"none", "Unavailable", "scouted"}]
Reasons ==
    {"WatcherUnavailable", "CatalogCapacity", "ObservationFailed", "ReconciliationPending"}

Bridges == [kind : {"default", "Loading", "Truncated", "built"}, of : RowMaps]

Lives ==
    [rows : RowMaps, disp : Dispositions, plan : Plans, degraded : BOOLEAN,
     root : Roots \cup {NoRoot}, bootstrap : BOOLEAN, empty : BOOLEAN,
     reasons : SUBSET Reasons]

Publications ==
    [project : Nat, rows : RowMaps, disp : Dispositions, plan : Plans,
     degraded : BOOLEAN, root : Roots \cup {NoRoot}, bootstrap : BOOLEAN,
     empty : BOOLEAN, reasons : SUBSET Reasons, bridge : Bridges]

Watchers ==
    [root : Roots, pc : {"none", "spawned", "running", "latching"}, spawn : Nat, gen : Nat]

Reloads ==
    [pc : {"idle", "build", "commit", "bind", "refused", "settle"},
     kind : {"none", "cold", "folder", "refresh"}, root : Roots \cup {NoRoot},
     left : SUBSET Paths, mark : RowMaps, rows : RowMaps, disp : Dispositions,
     plan : Plans, degraded : BOOLEAN]

TaskRecords ==
    [pc : {"idle", "root", "read", "absent", "publish"}, path : Paths,
     root : Roots \cup {NoRoot}, gen : Nat, fresh : BOOLEAN, at : Nat,
     seen : Looks, left : Nat, misses : Nat]

EditRecords ==
    [pc : {"idle", "read", "publish"}, path : Paths, root : Roots \cup {NoRoot},
     seen : Looks]

Fillers ==
    [pc : {"none", "fill", "built", "abandon"}, left : Nat, fresh : BOOLEAN,
     project : Nat, of : RowMaps]

TypeOK ==
    /\ disk \in [Roots -> [Paths -> Looks]]
    /\ projectGen \in Nat /\ pub \in Publications
    /\ slots \in RowMaps /\ defer \in BOOLEAN /\ bound \in Roots
    /\ watcher \in Watchers /\ reload \in [Loaders -> Reloads]
    /\ task \in [Tasks -> TaskRecords] /\ edit \in [Edits -> EditRecords]
    /\ filler \in Fillers

\* Rows are read from the disk, whose files never get an older version.
OnDisk(rows) ==
    \A p \in Paths :
       rows[p] # NoRow => rows[p].version <= disk[rows[p].root][p].version

\* Row b does not come from older bytes of the root of row a.
NoOlder(b, a) == a.root = b.root => a.version <= b.version

\* What a single-file publication is about to publish is not older than what
\* it observed as its base, while that is still the published generation.
TaskIsAhead(t) ==
    /\ task[t].pc \in {"read", "absent", "publish"} => task[t].root \in Roots
    /\ task[t].pc = "publish" =>
          /\ task[t].seen.version <= disk[task[t].root][task[t].path].version
          /\ task[t].fresh /\ task[t].seen.kind = "Indexed" =>
                NoOlder(RowOf(task[t].root, task[t].seen), pub.rows[task[t].path])

\* What an edit read back is not newer than the file.
EditIsOnDisk(e) ==
    /\ edit[e].pc # "idle" => edit[e].root \in Roots
    /\ edit[e].pc = "publish" =>
          edit[e].seen.version <= disk[edit[e].root][edit[e].path].version

\* A reload reads every path after its watermark; once it holds the lock it has
\* merged what was admitted since.
ReloadIsAhead(l) ==
    /\ reload[l].pc \in {"build", "commit", "bind"} => reload[l].root \in Roots
    /\ reload[l].pc \in {"build", "commit"} =>
          /\ OnDisk(reload[l].mark) /\ OnDisk(reload[l].rows)
          /\ \A p \in Paths : reload[l].disp[p] \in Degrading => reload[l].degraded
    /\ reload[l].pc = "build" =>
          \A p \in Paths \ reload[l].left : NoOlder(reload[l].rows[p], reload[l].mark[p])
    /\ reload[l].pc = "commit" =>
          \A p \in Paths :
             /\ NoOlder(reload[l].rows[p], pub.rows[p])
             /\ ChangedSinceWatermark(l, p) => reload[l].rows[p] = pub.rows[p]

\* The write lock has one holder.
LockIsExclusive ==
    \A l, m \in Loaders : reload[l].pc = "commit" /\ reload[m].pc = "commit" => l = m

\* Only a reload drops paths, and it gives the index its root.
AbortsHaveRoot == (\E p \in Paths : pub.disp[p] = "Aborted") => pub.root # NoRoot

\* The filler builds from the content that was published when it looked; it is
\* spawned once, by the publication that leaves the bootstrap.
FillerIsCurrent ==
    /\ filler.pc = "built" => filler.left # 0
    /\ filler.pc = "built" /\ filler.fresh => filler.of = pub.rows
    /\ defer => filler.pc = "none"

IInv ==
    /\ TypeOK /\ OnDisk(pub.rows) /\ LockIsExclusive /\ AbortsHaveRoot
    /\ FillerIsCurrent /\ BridgeDescribesContent /\ CurrentIsHonest /\ PlaceholderIsOwned
    /\ \A l \in Loaders : ReloadIsAhead(l)
    /\ \A t \in Tasks : TaskIsAhead(t)
    /\ \A e \in Edits : EditIsOnDisk(e)
=============================================================================
