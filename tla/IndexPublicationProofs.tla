----------------------- MODULE IndexPublicationProofs -----------------------
(***************************************************************************)
(* The safety properties of the published generation, for any roots, paths,*)
(* watcher threads, requests, edits and reloads, and any bounds.  IInv is  *)
(* inductive.  What a publication does is stated once, for the index it is *)
(* given; then one lemma per group of actions says which index that is.    *)
(***************************************************************************)
EXTENDS IndexPublication, TLAPS

-----------------------------------------------------------------------------
(* Types of the fields.                                                    *)

Rows == {NoRow} \cup [root : Roots, version : Nat]

\* The fields of the publication, the reloads, the tasks and the edits.
LEMMA Fields ==
    ASSUME TypeOK
    PROVE  /\ pub.project \in Nat /\ pub.rows \in RowMaps /\ pub.disp \in Dispositions
           /\ pub.plan \in Plans /\ pub.degraded \in BOOLEAN
           /\ pub.root \in Roots \cup {NoRoot} /\ pub.bootstrap \in BOOLEAN
           /\ pub.empty \in BOOLEAN
           /\ pub.reasons \in SUBSET Reasons /\ pub.bridge \in Bridges
           /\ pub.bridge.kind \in {"default", "Loading", "Truncated", "built"}
           /\ pub.bridge.of \in RowMaps
           /\ \A l \in Loaders :
                 /\ reload[l] \in Reloads /\ reload[l].root \in Roots \cup {NoRoot}
                 /\ reload[l].left \in SUBSET Paths /\ reload[l].mark \in RowMaps
                 /\ reload[l].rows \in RowMaps /\ reload[l].disp \in Dispositions
                 /\ reload[l].plan \in Plans /\ reload[l].degraded \in BOOLEAN
           /\ filler.pc \in {"none", "fill", "built", "abandon"} /\ filler.left \in Nat
           /\ filler.fresh \in BOOLEAN /\ filler.project \in Nat /\ filler.of \in RowMaps
           /\ watcher.root \in Roots /\ watcher.spawn \in Nat /\ watcher.gen \in Nat
           /\ \A t \in Tasks :
                 /\ task[t] \in TaskRecords
                 /\ task[t].pc \in {"idle", "root", "read", "absent", "publish"}
                 /\ task[t].path \in Paths /\ task[t].root \in Roots \cup {NoRoot}
                 /\ task[t].gen \in Nat /\ task[t].fresh \in BOOLEAN /\ task[t].at \in Nat
                 /\ task[t].seen \in Looks
                 /\ task[t].seen.version \in Nat /\ task[t].seen.kind \in FileKinds
                 /\ task[t].left \in Nat /\ task[t].misses \in Nat
           /\ \A e \in Edits :
                 /\ edit[e] \in EditRecords /\ edit[e].path \in Paths
                 /\ edit[e].seen \in Looks /\ edit[e].seen.version \in Nat
           /\ \A r \in Roots, p \in Paths :
                 /\ disk[r][p] \in Looks
                 /\ disk[r][p].version \in Nat /\ disk[r][p].kind \in FileKinds
  BY DEF TypeOK, Publications, Bridges, Reloads, Fillers, Watchers, TaskRecords, EditRecords,
         Looks

\* The empty row is the only row without a root.
LEMMA RowFacts ==
    /\ RowMaps = [Paths -> Rows] /\ NoRows \in RowMaps /\ NoRow \in Rows
    /\ NoRow.root = NoRoot /\ NoRow.version = 0
    /\ \A a \in Rows : /\ a.version \in Nat /\ a.root \in Roots \cup {NoRoot}
                       /\ a.root = NoRoot <=> a = NoRow
                       /\ NoOlder(a, a) /\ NoOlder(a, NoRow) /\ NoOlder(NoRow, a)
    /\ \A p \in Paths : NoRows[p] = NoRow
  <1>1. NoRow.root = NoRoot /\ NoRow.version = 0
    BY Zenon DEF NoRow
  <1>2. \A a \in Rows : /\ a.version \in Nat /\ a.root \in Roots \cup {NoRoot}
                        /\ a.root = NoRoot <=> a = NoRow
    BY <1>1, ConstantsOK DEF Rows
  <1>3. \A a \in Rows : NoOlder(a, a) /\ NoOlder(a, NoRow) /\ NoOlder(NoRow, a)
    BY <1>1, <1>2 DEF NoOlder
  <1> QED
    BY Zenon, <1>1, <1>2, <1>3 DEF RowMaps, Rows, NoRows

\* A task and an edit that are not running.
LEMMA NoTaskFacts ==
    /\ NoTask \in TaskRecords /\ NoTask.pc = "idle"
    /\ NoEdit \in EditRecords /\ NoEdit.pc = "idle"
  <1>1. (CHOOSE p \in Paths : TRUE) \in Paths /\ NoFile \in Looks
    BY Zenon, ConstantsOK DEF NoFile, Looks, FileKinds
  <1> QED
    BY Zenon, <1>1 DEF NoTask, TaskRecords, NoEdit, EditRecords

\* Only an abort is not what a look at a file comes back with.
LEMMA KindFacts ==
    /\ FileKinds \subseteq Kinds /\ "Aborted" \notin FileKinds /\ "Aborted" \notin Failed
    /\ Kinds = FileKinds \cup {"Aborted"} /\ Failed \subseteq FileKinds
    /\ {"none", "Indexed", "MetadataOnly"} \subseteq FileKinds
    /\ {"none", "Indexed", "MetadataOnly"} \cap Degrading = {}
    /\ Degrading = Failed \cup {"Aborted"}
    /\ \A f \in Looks : f \in [version : Nat, kind : Kinds]
  BY DEF Kinds, FileKinds, Failed, Degrading, Looks

\* The row of what was read.
LEMMA RowOfFacts ==
    ASSUME NEW r \in Roots, NEW seen \in [version : Nat, kind : Kinds]
    PROVE  /\ RowOf(r, seen) \in Rows
           /\ seen.kind = "Indexed" =>
                 /\ RowOf(r, seen).root = r /\ RowOf(r, seen).version = seen.version
                 /\ RowOf(r, seen) # NoRow
           /\ seen.kind # "Indexed" => RowOf(r, seen) = NoRow
  BY Zenon, ConstantsOK DEF RowOf, Rows, NoRow

\* What a look at the disk comes back with.
LEMMA LookFacts ==
    ASSUME TypeOK, NEW r \in Roots, NEW p \in Paths, NEW seen \in Look(r, p)
    PROVE  /\ seen \in Looks /\ seen \in [version : Nat, kind : Kinds]
           /\ seen.version <= disk[r][p].version
           /\ seen.kind = "Indexed" => seen.version = disk[r][p].version
  <1>1. disk[r][p] \in Looks /\ disk[r][p].version \in Nat
    BY Zenon, Fields
  <1>2. CASE seen = disk[r][p]
    BY <1>1, <1>2, KindFacts DEF Looks
  <1>3. CASE seen \in [version : {0}, kind : Faults \cap Failed]
    <2>1. seen.version = 0 /\ seen.kind \in Failed
      BY Zenon, <1>3
    <2>2. seen \in Looks /\ seen \in [version : Nat, kind : Kinds]
      BY <1>3, KindFacts DEF Looks
    <2>3. seen.kind # "Indexed"
      BY Zenon, <2>1 DEF Failed
    <2> QED
      BY <1>1, <2>1, <2>2, <2>3
  <1> QED
    BY Zenon, <1>2, <1>3 DEF Look

\* What the circuit breaker leaves of a path.
LEMMA AbortsFacts ==
    ASSUME NEW r, NEW p, NEW seen \in Aborts(r, p)
    PROVE  seen \in [version : Nat, kind : Kinds] /\ seen.kind = "Aborted"
  <1>1. seen \in [version : {0}, kind : Faults \cap {"Aborted"}]
    BY Zenon DEF Aborts
  <1> QED
    BY <1>1, KindFacts

-----------------------------------------------------------------------------
(* The live index a publication is given.                                  *)

\* It does not hide a failed read, and has a root if paths were dropped.
Sound(live) ==
    /\ live \in Lives
    /\ live.reasons = {} => \A p \in Paths : live.disp[p] \notin Failed
    /\ (\E p \in Paths : live.disp[p] = "Aborted") => live.root # NoRoot

\* It keeps a latched gap.
KeepsGap(live) ==
    "WatcherUnavailable" \in pub.reasons => "WatcherUnavailable" \in live.reasons

\* It is not the first to be current with a dropped path.
Reported(live) ==
    \A p \in Paths :
       live.disp[p] = "Aborted" /\ live.reasons = {} =>
          pub.disp[p] = "Aborted" /\ pub.reasons = {}

\* It has another row for path p, and is all of that.
Replaces(live, p, row) ==
    /\ Sound(live) /\ KeepsGap(live) /\ Reported(live)
    /\ live.rows = [pub.rows EXCEPT ![p] = row]

\* The index as it is, with a gap latched or a refusal instead, settled or not.
LEMMA RetainedFacts ==
    ASSUME IInv, NEW R \in SUBSET Reasons, R = {} => pub.reasons = {},
           NEW live, live = Retained(R) \/ live = [Retained(R) EXCEPT !.empty = TRUE]
    PROVE  /\ Sound(live) /\ Reported(live) /\ (pub.reasons \subseteq R => KeepsGap(live))
           /\ live.rows = pub.rows
  <1>0. /\ pub.rows \in RowMaps /\ pub.disp \in Dispositions /\ pub.plan \in Plans
        /\ pub.degraded \in BOOLEAN /\ pub.root \in Roots \cup {NoRoot}
        /\ pub.bootstrap \in BOOLEAN /\ pub.empty \in BOOLEAN
    BY Zenon, Fields DEF IInv
  <1>1. /\ live \in Lives /\ live.rows = pub.rows /\ live.disp = pub.disp /\ live.reasons = R
        /\ live.root = pub.root
    <2>1. CASE live = Retained(R)
      BY Zenon, <1>0, <2>1 DEF Retained, Lives
    <2>2. CASE live = [Retained(R) EXCEPT !.empty = TRUE]
      BY Zenon, <1>0, <2>2 DEF Retained, Lives
    <2> QED
      BY Zenon, <2>1, <2>2
  <1>2. live.reasons = {} => \A p \in Paths : live.disp[p] \notin Failed
    BY Zenon, <1>1 DEF IInv, CurrentIsHonest
  <1>3. (\E p \in Paths : live.disp[p] = "Aborted") => live.root # NoRoot
    BY Zenon, <1>1 DEF IInv, AbortsHaveRoot
  <1>4. Reported(live)
    BY Zenon, <1>1 DEF Reported
  <1>5. pub.reasons \subseteq R => KeepsGap(live)
    BY Zenon, <1>1 DEF KeepsGap
  <1> QED
    BY Zenon, <1>1, <1>2, <1>3, <1>4, <1>5 DEF Sound

\* The index with a row and an entry of the manifest replaced by an edit.
Edited(p, row, kind) == [Retained(pub.reasons) EXCEPT !.rows[p] = row, !.disp[p] = kind]

\* An edit touches no other path and no reason.
LEMMA EditedFacts ==
    ASSUME IInv, NEW p \in Paths, NEW row \in Rows, NEW kind \in {"Indexed", "none"}
    PROVE  Replaces(Edited(p, row, kind), p, row)
  <1> DEFINE l == Edited(p, row, kind)
  <1>0. /\ pub.rows \in [Paths -> Rows] /\ pub.disp \in [Paths -> Kinds] /\ pub.plan \in Plans
        /\ pub.degraded \in BOOLEAN /\ pub.root \in Roots \cup {NoRoot}
        /\ pub.bootstrap \in BOOLEAN /\ pub.empty \in BOOLEAN
        /\ pub.reasons \in SUBSET Reasons
    BY Zenon, Fields, RowFacts DEF IInv, Dispositions
  <1>1. kind \in Kinds /\ kind \notin Failed /\ kind # "Aborted"
    BY KindFacts
  <1>2. /\ [pub.rows EXCEPT ![p] = row] \in RowMaps
        /\ [pub.disp EXCEPT ![p] = kind] \in Dispositions
    BY Zenon, <1>0, <1>1, RowFacts DEF Dispositions
  <1>3. /\ l \in Lives /\ l.rows = [pub.rows EXCEPT ![p] = row]
        /\ l.disp = [pub.disp EXCEPT ![p] = kind] /\ l.reasons = pub.reasons
        /\ l.root = pub.root
    BY Zenon, <1>0, <1>2 DEF Edited, Retained, Lives
  <1>4. \A q \in Paths : l.disp[q] = IF q = p THEN kind ELSE pub.disp[q]
    BY Zenon, <1>0, <1>3
  <1> HIDE DEF l
  <1>5. l.reasons = {} => \A q \in Paths : l.disp[q] \notin Failed
    BY Zenon, <1>1, <1>3, <1>4 DEF IInv, CurrentIsHonest
  <1>6. (\E q \in Paths : l.disp[q] = "Aborted") => l.root # NoRoot
    BY Zenon, <1>1, <1>3, <1>4 DEF IInv, AbortsHaveRoot
  <1>7. Reported(l) /\ KeepsGap(l)
    BY Zenon, <1>1, <1>3, <1>4 DEF Reported, KeepsGap
  <1> QED
    BY Zenon, <1>3, <1>5, <1>6, <1>7 DEF Replaces, Sound, l

\* A live index with another manifest and another plan.
LEMMA LiveFacts ==
    ASSUME IInv, NEW rows \in RowMaps, NEW disp \in Dispositions, NEW plan \in Plans,
           NEW degraded \in BOOLEAN,
           (\E p \in Paths : disp[p] = "Aborted") => pub.root # NoRoot
    PROVE  /\ Sound(Live(rows, disp, plan, degraded))
           /\ KeepsGap(Live(rows, disp, plan, degraded))
           /\ ((\E p \in Paths : disp[p] = "Aborted") => degraded) =>
                 Reported(Live(rows, disp, plan, degraded))
           /\ Live(rows, disp, plan, degraded).rows = rows
  <1> DEFINE l == Live(rows, disp, plan, degraded)
             R == recompute_freshness(disp, degraded)
  <1>0. /\ pub.root \in Roots \cup {NoRoot} /\ pub.bootstrap \in BOOLEAN
        /\ pub.empty \in BOOLEAN /\ pub.reasons \subseteq Reasons
    BY Zenon, Fields DEF IInv
  <1>1. /\ R \subseteq Reasons
        /\ (\E p \in Paths : disp[p] \in Failed) => R # {}
        /\ degraded => R # {}
        /\ "WatcherUnavailable" \in pub.reasons => "WatcherUnavailable" \in R
    BY Zenon, <1>0 DEF recompute_freshness, Kept, Reasons
  <1> HIDE DEF R
  <1>2. /\ l \in Lives /\ l.rows = rows /\ l.disp = disp /\ l.reasons = R
        /\ l.root = pub.root
    BY Zenon, <1>0, <1>1 DEF Live, Lives, R
  <1> HIDE DEF l
  <1>3. l.reasons = {} => \A p \in Paths : l.disp[p] \notin Failed
    BY Zenon, <1>1, <1>2
  <1>4. KeepsGap(l)
    BY Zenon, <1>1, <1>2 DEF KeepsGap
  <1>5. ((\E p \in Paths : disp[p] = "Aborted") => degraded) => Reported(l)
    BY Zenon, <1>1, <1>2 DEF Reported
  <1> QED
    BY Zenon, <1>1, <1>2, <1>3, <1>4, <1>5 DEF Sound, l

\* The index with one entry replaced.
LEMMA EntryFacts ==
    ASSUME IInv, NEW p \in Paths, NEW row \in Rows, NEW kind \in FileKinds
    PROVE  Replaces(WithEntry(p, row, kind), p, row)
  <1> DEFINE rows == [pub.rows EXCEPT ![p] = row]
             disp == [pub.disp EXCEPT ![p] = kind]
             plan == [pub.plan EXCEPT ![p] = Scouted(kind)]
             deg == plan_degraded(plan) \/ RequiresDegraded(disp)
  <1>1. /\ pub.rows \in [Paths -> Rows] /\ pub.disp \in [Paths -> Kinds]
        /\ pub.plan \in [Paths -> {"none", "Unavailable", "scouted"}]
        /\ pub.degraded \in BOOLEAN
    BY Zenon, Fields, RowFacts DEF IInv, Dispositions, Plans
  <1>2. Scouted(kind) \in {"none", "Unavailable", "scouted"} /\ deg \in BOOLEAN
    BY Zenon DEF Scouted, plan_degraded, RequiresDegraded
  <1>3. kind \in Kinds /\ kind # "Aborted" /\ "Aborted" \in Degrading
    BY KindFacts
  <1>4. rows \in RowMaps /\ disp \in Dispositions /\ plan \in Plans /\ pub.plan \in Plans
    BY Zenon, <1>1, <1>2, <1>3, RowFacts DEF Dispositions, Plans
  <1>5. \A q \in Paths : disp[q] = "Aborted" => pub.disp[q] = "Aborted"
    BY Zenon, <1>1, <1>3
  <1>6. (\E q \in Paths : disp[q] = "Aborted") => deg
    BY Zenon, <1>3 DEF RequiresDegraded
  <1>7. WithEntry(p, row, kind) = IF pub.root = NoRoot THEN Live(rows, disp, pub.plan, pub.degraded)
                                  ELSE Live(rows, disp, plan, deg)
    BY Zenon DEF WithEntry
  <1> HIDE DEF disp, plan, deg
  <1>8. AbortsHaveRoot
    BY Zenon DEF IInv
  <1>9. (\E q \in Paths : disp[q] = "Aborted") => pub.root # NoRoot
    BY Zenon, <1>5, <1>8 DEF AbortsHaveRoot
  <1>10. CASE pub.root = NoRoot
    <2> DEFINE live == Live(rows, disp, pub.plan, pub.degraded)
    <2>1. /\ Sound(live) /\ KeepsGap(live) /\ live.rows = rows
          /\ ((\E q \in Paths : disp[q] = "Aborted") => pub.degraded) => Reported(live)
      BY <1>1, <1>4, <1>9, LiveFacts
    <2> HIDE DEF live
    <2> QED
      BY Zenon, <1>7, <1>9, <1>10, <2>1 DEF live, Replaces
  <1>11. CASE pub.root # NoRoot
    <2> DEFINE live == Live(rows, disp, plan, deg)
    <2>1. /\ Sound(live) /\ KeepsGap(live) /\ live.rows = rows
          /\ ((\E q \in Paths : disp[q] = "Aborted") => deg) => Reported(live)
      BY <1>2, <1>4, <1>9, LiveFacts
    <2> HIDE DEF live
    <2> QED
      BY Zenon, <1>6, <1>7, <1>11, <2>1 DEF live, Replaces
  <1> QED
    BY Zenon, <1>10, <1>11

\* The index without an entry: a dropped path may be what is left to report.
LEMMA WithoutFacts ==
    ASSUME IInv, NEW p \in Paths
    PROVE  /\ Sound(WithoutPath(p)) /\ KeepsGap(WithoutPath(p))
           /\ WithoutPath(p).rows = [pub.rows EXCEPT ![p] = NoRow]
  <1> DEFINE rows == [pub.rows EXCEPT ![p] = NoRow]
             disp == [pub.disp EXCEPT ![p] = "none"]
             plan == [pub.plan EXCEPT ![p] = "none"]
             deg == IF plan = pub.plan THEN pub.degraded ELSE plan_degraded(plan)
  <1>1. /\ pub.rows \in [Paths -> Rows] /\ pub.disp \in [Paths -> Kinds]
        /\ pub.plan \in [Paths -> {"none", "Unavailable", "scouted"}]
        /\ pub.degraded \in BOOLEAN /\ NoRow \in Rows
    BY Zenon, Fields, RowFacts DEF IInv, Dispositions, Plans
  <1>2. deg \in BOOLEAN /\ "none" \in Kinds
    BY Zenon, <1>1 DEF plan_degraded, Kinds, FileKinds
  <1>3. rows \in RowMaps /\ disp \in Dispositions /\ plan \in Plans
    BY Zenon, <1>1, <1>2, RowFacts DEF Dispositions, Plans
  <1>4. \A q \in Paths : disp[q] = "Aborted" => pub.disp[q] = "Aborted"
    BY Zenon, <1>1
  <1>5. WithoutPath(p) = Live(rows, disp, plan, deg)
    BY Zenon DEF WithoutPath
  <1> HIDE DEF disp, plan, deg
  <1>6. AbortsHaveRoot
    BY Zenon DEF IInv
  <1>7. (\E q \in Paths : disp[q] = "Aborted") => pub.root # NoRoot
    BY Zenon, <1>4, <1>6 DEF AbortsHaveRoot
  <1> DEFINE live == Live(rows, disp, plan, deg)
  <1>8. Sound(live) /\ KeepsGap(live) /\ live.rows = rows
    BY <1>2, <1>3, <1>7, LiveFacts
  <1> HIDE DEF live
  <1> QED
    BY Zenon, <1>5, <1>8 DEF live

-----------------------------------------------------------------------------
(* A publication.                                                          *)

\* What a publication of a live index does, if it says so whenever it changes
\* the rows.
LEMMA SwapFacts ==
    ASSUME IInv, NEW live, Sound(live), NEW changed \in BOOLEAN,
           swap_and_publish(live, changed), ~changed => live.rows = pub.rows
    PROVE  /\ pub' \in Publications /\ filler' \in Fillers /\ defer' \in BOOLEAN
           /\ pub'.rows = live.rows /\ pub'.disp = live.disp /\ pub'.reasons = live.reasons
           /\ FillerIsCurrent' /\ BridgeDescribesContent' /\ CurrentIsHonest'
           /\ PlaceholderIsOwned' /\ AbortsHaveRoot'
  <1> DEFINE leaving  == changed /\ pub.bootstrap /\ defer
             deferred == leaving /\ live.root # NoRoot
             b == next_bridge(live, changed, deferred)
             bundle == [project |-> projectGen, rows |-> live.rows, disp |-> live.disp,
                        plan |-> live.plan, degraded |-> live.degraded,
                        root |-> live.root, bootstrap |-> live.bootstrap,
                        empty |-> live.empty, reasons |-> live.reasons, bridge |-> b]
  <1>0. /\ live \in Lives /\ live.rows \in RowMaps
        /\ pub.bridge \in Bridges /\ filler \in Fillers /\ defer \in BOOLEAN
        /\ projectGen \in Nat /\ NoRows \in RowMaps
        /\ pub.bridge.kind = "built" => pub.bridge.of = pub.rows
        /\ FillerIsCurrent /\ PlaceholderIsOwned
    BY Zenon, Fields, RowFacts DEF IInv, TypeOK, Sound, Lives, BridgeDescribesContent
  <1>1. /\ \/ /\ pub' = bundle
              /\ filler' = IF deferred THEN [filler EXCEPT !.pc = "fill", !.left = FillAttempts]
                           ELSE [filler EXCEPT !.fresh = @ /\ ~changed]
           \/ /\ deferred
              /\ pub' = [bundle EXCEPT !.bridge = Unbuilt("Truncated")]
              /\ UNCHANGED filler
        /\ defer' = (defer /\ ~leaving)
    BY Zenon DEF swap_and_publish
  <1>2. /\ \A k \in {"default", "Loading", "Truncated"} :
              /\ Unbuilt(k) \in Bridges /\ Unbuilt(k).kind = k
        /\ Built(live.rows) \in Bridges
        /\ Built(live.rows).kind = "built" /\ Built(live.rows).of = live.rows
    BY Zenon, <1>0 DEF Unbuilt, Built, Bridges
  <1>3. /\ b \in Bridges
        /\ b.kind = "built" => b.of = live.rows
        /\ b.kind = "Loading" => deferred \/ (~deferred /\ pub.bridge.kind = "Loading")
    BY Zenon, <1>0, <1>2 DEF next_bridge
  <1> HIDE DEF b, leaving, deferred
  <1>4. /\ bundle \in Publications /\ bundle.rows = live.rows
        /\ bundle.disp = live.disp /\ bundle.reasons = live.reasons /\ bundle.bridge = b
        /\ bundle.root = live.root
    BY Zenon, <1>0, <1>3 DEF Publications, Lives
  <1> HIDE DEF bundle
  <1>5. \A x \in Bridges : LET q == [bundle EXCEPT !.bridge = x]
                           IN  /\ q \in Publications /\ q.rows = live.rows
                               /\ q.disp = live.disp /\ q.reasons = live.reasons
                               /\ q.bridge = x /\ q.root = live.root
    BY Zenon, <1>4 DEF Publications
  <1>6. /\ pub' \in Publications /\ pub'.rows = live.rows /\ pub'.disp = live.disp
        /\ pub'.reasons = live.reasons /\ pub'.root = live.root
        /\ pub'.bridge = b \/ (deferred /\ pub'.bridge = Unbuilt("Truncated"))
    BY ZenonT(40), <1>1, <1>2, <1>4, <1>5
  <1>7. /\ defer' \in BOOLEAN /\ (defer' => defer /\ ~deferred) /\ (deferred => defer)
    BY Zenon, <1>0, <1>1 DEF leaving, deferred
  <1>8. /\ [filler EXCEPT !.pc = "fill", !.left = FillAttempts] \in Fillers
        /\ [filler EXCEPT !.pc = "fill", !.left = FillAttempts].pc = "fill"
        /\ \A x \in BOOLEAN : LET g == [filler EXCEPT !.fresh = x]
                              IN  /\ g \in Fillers /\ g.pc = filler.pc /\ g.fresh = x
                                  /\ g.of = filler.of /\ g.left = filler.left
    BY Zenon, <1>0, ConstantsOK DEF Fillers
  <1>9. /\ filler' \in Fillers
        /\ \/ deferred /\ filler'.pc = "fill" /\ pub'.bridge = b
           \/ /\ ~deferred /\ filler'.pc = filler.pc /\ filler'.left = filler.left
              /\ filler'.of = filler.of /\ pub'.bridge = b
              /\ filler'.fresh => filler.fresh /\ ~changed
           \/ deferred /\ UNCHANGED filler /\ pub'.bridge = Unbuilt("Truncated")
    <2>1. CASE /\ deferred /\ pub' = bundle
               /\ filler' = [filler EXCEPT !.pc = "fill", !.left = FillAttempts]
      BY Zenon, <1>4, <1>8, <2>1
    <2>2. CASE /\ ~deferred /\ pub' = bundle
               /\ filler' = [filler EXCEPT !.fresh = @ /\ ~changed]
      <3>1. (filler.fresh /\ ~changed) \in BOOLEAN
        BY Zenon
      <3> QED
        BY Zenon, <1>4, <1>8, <2>2, <3>1
    <2>3. CASE deferred /\ pub' = [bundle EXCEPT !.bridge = Unbuilt("Truncated")]
               /\ UNCHANGED filler
      BY Zenon, <1>0, <1>2, <1>5, <2>3
    <2> QED
      BY Zenon, <1>1, <2>1, <2>2, <2>3
  <1>10. FillerIsCurrent'
    BY Zenon, <1>0, <1>6, <1>7, <1>9 DEF FillerIsCurrent
  <1>11. BridgeDescribesContent'
    BY Zenon, <1>2, <1>3, <1>6 DEF BridgeDescribesContent
  <1>12. CurrentIsHonest'
    BY Zenon, <1>6 DEF CurrentIsHonest, Sound
  <1>13. PlaceholderIsOwned'
    BY Zenon, <1>0, <1>2, <1>3, <1>9 DEF PlaceholderIsOwned, Loading
  <1>14. AbortsHaveRoot'
    BY Zenon, <1>6 DEF AbortsHaveRoot, Sound
  <1> QED
    BY Zenon, <1>6, <1>7, <1>9, <1>10, <1>11, <1>12, <1>13, <1>14

-----------------------------------------------------------------------------
(* What a step leaves as it is.                                            *)

\* The files never get an older version.
DiskGrows ==
    \A r \in Roots, p \in Paths : disk[r][p].version <= disk'[r][p].version

\* They do not when nobody writes.
LEMMA SameDisk ==
    ASSUME TypeOK, UNCHANGED disk
    PROVE  DiskGrows
  BY Fields DEF DiskGrows

\* Rows that were read from the disk stay so.
LEMMA OnDiskStays ==
    ASSUME TypeOK, TypeOK', DiskGrows, NEW rows \in RowMaps, OnDisk(rows)
    PROVE  \A p \in Paths :
              rows[p] # NoRow => rows[p].version <= disk'[rows[p].root][p].version
  <1> SUFFICES ASSUME NEW p \in Paths, rows[p] # NoRow
               PROVE  rows[p].version <= disk'[rows[p].root][p].version
    BY Zenon
  <1> DEFINE r == rows[p].root
  <1>1. r \in Roots /\ rows[p].version \in Nat
    BY RowFacts
  <1>2. /\ rows[p].version <= disk[r][p].version
        /\ disk[r][p].version <= disk'[r][p].version
    BY Zenon, <1>1 DEF OnDisk, DiskGrows
  <1>3. disk[r][p].version \in Nat /\ disk'[r][p].version \in Nat
    BY <1>1, Fields DEF TypeOK, Looks
  <1> QED
    BY <1>1, <1>2, <1>3

\* A task keeps what it is about to publish while nothing is published.
LEMMA TaskStays ==
    ASSUME IInv, TypeOK', DiskGrows, NEW t \in Tasks, task'[t] = task[t],
           pub'.rows = pub.rows
    PROVE  TaskIsAhead(t)'
  <1>1. TaskIsAhead(t) /\ TypeOK
    BY Zenon DEF IInv
  <1>2. task[t].pc = "publish" =>
           task'[t].seen.version <= disk'[task'[t].root][task'[t].path].version
    <2> SUFFICES ASSUME task[t].pc = "publish"
                 PROVE  task[t].seen.version <= disk'[task[t].root][task[t].path].version
      BY Zenon
    <2> DEFINE r == task[t].root
               p == task[t].path
    <2>1. /\ r \in Roots /\ p \in Paths /\ task[t].seen.version \in Nat
          /\ task[t].seen.version <= disk[r][p].version
      BY Zenon, <1>1, Fields DEF TaskIsAhead
    <2>2. disk[r][p].version \in Nat /\ disk'[r][p].version \in Nat
      BY <1>1, <2>1, Fields DEF TypeOK, Looks
    <2>3. disk[r][p].version <= disk'[r][p].version
      BY Zenon, <2>1 DEF DiskGrows
    <2> QED
      BY <2>1, <2>2, <2>3
  <1> QED
    BY Zenon, <1>1, <1>2 DEF TaskIsAhead, RowOf, NoOlder

\* A reload keeps what it has read, unless it holds the lock and rows are published.
LEMMA ReloadStays ==
    ASSUME IInv, TypeOK', DiskGrows, NEW l \in Loaders, reload'[l] = reload[l],
           reload[l].pc # "commit" \/ pub'.rows = pub.rows
    PROVE  ReloadIsAhead(l)'
  <1>1. /\ ReloadIsAhead(l) /\ TypeOK /\ reload[l].mark \in RowMaps
        /\ reload[l].rows \in RowMaps
    BY Zenon, Fields DEF IInv
  <1>2. reload[l].pc \in {"build", "commit"} =>
           OnDisk(reload[l].mark)' /\ OnDisk(reload[l].rows)'
    <2> DEFINE mark == reload[l].mark
               rows == reload[l].rows
    <2> SUFFICES ASSUME reload[l].pc \in {"build", "commit"}
                 PROVE  OnDisk(reload[l].mark)' /\ OnDisk(reload[l].rows)'
      BY Zenon
    <2>1. mark \in RowMaps /\ rows \in RowMaps /\ OnDisk(mark) /\ OnDisk(rows)
      BY Zenon, <1>1 DEF ReloadIsAhead
    <2>2. /\ reload'[l].mark = mark /\ reload'[l].rows = rows
      BY Zenon
    <2> HIDE DEF mark, rows
    <2>3. \A p \in Paths : mark[p] # NoRow => mark[p].version <= disk'[mark[p].root][p].version
      BY Zenon, <1>1, <2>1, OnDiskStays
    <2>4. \A p \in Paths : rows[p] # NoRow => rows[p].version <= disk'[rows[p].root][p].version
      BY Zenon, <1>1, <2>1, OnDiskStays
    <2> QED
      BY Zenon, <2>2, <2>3, <2>4 DEF OnDisk
  <1> QED
    BY Zenon, <1>1, <1>2 DEF ReloadIsAhead, NoOlder, ChangedSinceWatermark

\* A step in which reloads may end but none goes on.
LoadsRest ==
    /\ reload' \in [Loaders -> Reloads]
    /\ \A l \in Loaders : \/ reload'[l] = reload[l]
                          \/ reload'[l].pc \in {"idle", "refused", "settle"}

\* In a step that changes no reload none goes on.
LEMMA SameLoads ==
    ASSUME IInv, UNCHANGED reload
    PROVE  LoadsRest
  BY Zenon DEF LoadsRest, IInv, TypeOK

\* Such a step keeps what the reloads have read, and the lock.
LEMMA LoadsStay ==
    ASSUME IInv, TypeOK', DiskGrows, LoadsRest, ~Locked \/ pub'.rows = pub.rows
    PROVE  LockIsExclusive' /\ \A l \in Loaders : ReloadIsAhead(l)'
  <1>1. ASSUME NEW l \in Loaders PROVE ReloadIsAhead(l)'
    <2>1. CASE reload'[l] = reload[l]
      BY Zenon, <2>1, ReloadStays DEF Locked
    <2>2. CASE reload'[l].pc \in {"idle", "refused", "settle"}
      BY Zenon, <2>2 DEF ReloadIsAhead
    <2> QED
      BY Zenon, <2>1, <2>2 DEF LoadsRest
  <1>2. \A l \in Loaders : reload'[l].pc = "commit" => reload[l].pc = "commit"
    BY Zenon DEF LoadsRest
  <1> QED
    BY Zenon, <1>1, <1>2 DEF IInv, LockIsExclusive

\* An edit keeps what it has read back.
LEMMA EditStays ==
    ASSUME IInv, DiskGrows, \A r \in Roots, p \in Paths : disk'[r][p].version \in Nat,
           NEW e \in Edits, edit'[e] = edit[e]
    PROVE  EditIsOnDisk(e)'
  <1> DEFINE r == edit[e].root
             p == edit[e].path
  <1>1. /\ EditIsOnDisk(e) /\ p \in Paths /\ edit[e].seen.version \in Nat
    BY Zenon, Fields DEF IInv
  <1>2. edit[e].pc # "idle" => r \in Roots
    BY Zenon, <1>1 DEF EditIsOnDisk
  <1>3. ASSUME edit[e].pc = "publish"
        PROVE  edit[e].seen.version <= disk'[r][p].version
    <2>1. r \in Roots /\ edit[e].seen.version <= disk[r][p].version
      BY Zenon, <1>1, <1>3 DEF EditIsOnDisk
    <2>2. disk[r][p].version \in Nat /\ disk'[r][p].version \in Nat
      BY Zenon, <1>1, <2>1, Fields DEF IInv
    <2>3. disk[r][p].version <= disk'[r][p].version
      BY Zenon, <1>1, <2>1 DEF DiskGrows
    <2> QED
      BY <1>1, <2>1, <2>2, <2>3
  <1> QED
    BY Zenon, <1>2, <1>3 DEF EditIsOnDisk

\* A step in which an edit may end but none goes on.
EditsRest == edit' = edit \/ \E e \in Edits : EditTo(e, NoEdit)

\* Such a step keeps what the edits have read back.
LEMMA EditsStay ==
    ASSUME IInv, EditsRest, DiskGrows,
           \A r \in Roots, p \in Paths : disk'[r][p].version \in Nat
    PROVE  edit' \in [Edits -> EditRecords] /\ \A e \in Edits : EditIsOnDisk(e)'
  <1>1. edit \in [Edits -> EditRecords] /\ NoEdit \in EditRecords /\ NoEdit.pc = "idle"
    BY Zenon, NoTaskFacts DEF IInv, TypeOK
  <1>2. /\ edit' \in [Edits -> EditRecords]
        /\ \A e \in Edits : edit'[e] = edit[e] \/ edit'[e] = NoEdit
    BY Zenon, <1>1 DEF EditsRest, EditTo
  <1>3. ASSUME NEW e \in Edits PROVE EditIsOnDisk(e)'
    <2>1. CASE edit'[e] = NoEdit
      BY Zenon, <1>1, <2>1 DEF EditIsOnDisk
    <2>2. CASE edit'[e] = edit[e]
      BY Zenon, <2>2, EditStays
    <2> QED
      BY Zenon, <1>2, <2>1, <2>2
  <1> QED
    BY Zenon, <1>2, <1>3

\* The conjuncts about what is published stay while nothing is published.
LEMMA PublishedStays ==
    ASSUME IInv, TypeOK', DiskGrows, UNCHANGED <<pub, defer, filler>>
    PROVE  /\ OnDisk(pub.rows)' /\ FillerIsCurrent' /\ BridgeDescribesContent'
           /\ CurrentIsHonest' /\ PlaceholderIsOwned' /\ AbortsHaveRoot'
  <1>1. TypeOK /\ OnDisk(pub.rows) /\ pub.rows \in RowMaps
    BY Zenon, Fields DEF IInv
  <1>2. OnDisk(pub.rows)'
    BY Zenon, <1>1, OnDiskStays DEF OnDisk
  <1> QED
    BY Zenon, <1>2 DEF IInv, FillerIsCurrent, BridgeDescribesContent, CurrentIsHonest,
       PlaceholderIsOwned, Loading, AbortsHaveRoot

\* The tasks lose their base with every publication, and one may end.
LEMMA OutdatedFacts ==
    ASSUME IInv, UNCHANGED disk, task' = Outdated \/ \E t \in Tasks : Published_by(t)
    PROVE  task' \in [Tasks -> TaskRecords] /\ \A t \in Tasks : TaskIsAhead(t)'
  <1>1. NoTask \in TaskRecords /\ NoTask.pc = "idle"
    BY Zenon, NoTaskFacts
  <1>2. \A t \in Tasks : /\ task[t] \in TaskRecords /\ TaskIsAhead(t)
    BY Zenon, Fields DEF IInv
  <1>3. \A o \in TaskRecords : LET n == [o EXCEPT !.fresh = FALSE]
                               IN  /\ n \in TaskRecords /\ n.pc = o.pc /\ n.root = o.root
                                   /\ n.path = o.path /\ n.seen = o.seen /\ n.fresh = FALSE
    BY Zenon DEF TaskRecords
  <1>4. Outdated \in [Tasks -> TaskRecords]
        /\ \A t \in Tasks : Outdated[t] = [task[t] EXCEPT !.fresh = FALSE]
    BY Zenon, <1>2, <1>3 DEF Outdated
  <1>5. /\ task' \in [Tasks -> TaskRecords]
        /\ \A t \in Tasks : task'[t] = NoTask \/ task'[t] = [task[t] EXCEPT !.fresh = FALSE]
    BY Zenon, <1>1, <1>4 DEF Published_by
  <1>6. ASSUME NEW t \in Tasks PROVE TaskIsAhead(t)'
    <2>1. CASE task'[t] = NoTask
      BY Zenon, <1>1, <2>1 DEF TaskIsAhead
    <2>2. CASE task'[t] = [task[t] EXCEPT !.fresh = FALSE]
      <3>1. /\ task'[t].pc = task[t].pc /\ task'[t].root = task[t].root
            /\ task'[t].path = task[t].path /\ task'[t].seen = task[t].seen
            /\ task'[t].fresh = FALSE
        BY <1>2, <1>3, <2>2
      <3> QED
        BY Zenon, <1>2, <3>1 DEF TaskIsAhead
    <2> QED
      BY Zenon, <1>5, <2>1, <2>2
  <1> QED
    BY Zenon, <1>5, <1>6

\* A publication outside the commit of a reload.
LEMMA FilePublication ==
    ASSUME IInv, ~Locked, NEW live, Sound(live), NEW changed \in BOOLEAN,
           swap_and_publish(live, changed), ~changed => live.rows = pub.rows,
           OnDisk(live.rows), UNCHANGED <<disk, projectGen, bound>>, LoadsRest, EditsRest,
           slots' \in RowMaps, watcher' \in Watchers,
           task' = Outdated \/ \E t \in Tasks : Published_by(t)
    PROVE  IInv'
  <1>1. /\ pub' \in Publications /\ filler' \in Fillers /\ defer' \in BOOLEAN
        /\ pub'.rows = live.rows
        /\ FillerIsCurrent' /\ BridgeDescribesContent' /\ CurrentIsHonest'
        /\ PlaceholderIsOwned' /\ AbortsHaveRoot'
    BY Zenon, SwapFacts
  <1>2. task' \in [Tasks -> TaskRecords] /\ \A t \in Tasks : TaskIsAhead(t)'
    BY Zenon, OutdatedFacts
  <1>3. DiskGrows /\ \A r \in Roots, p \in Paths : disk'[r][p].version \in Nat
    BY Zenon, SameDisk, Fields DEF IInv
  <1>4. edit' \in [Edits -> EditRecords] /\ \A e \in Edits : EditIsOnDisk(e)'
    BY Zenon, <1>3, EditsStay
  <1>5. TypeOK'
    BY Zenon, <1>1, <1>2, <1>4 DEF IInv, TypeOK, LoadsRest
  <1>6. LockIsExclusive' /\ \A l \in Loaders : ReloadIsAhead(l)'
    BY Zenon, <1>3, <1>5, LoadsStay
  <1>7. OnDisk(pub.rows)'
    BY Zenon, <1>1 DEF OnDisk
  <1> QED
    BY Zenon, <1>1, <1>2, <1>4, <1>5, <1>6, <1>7 DEF IInv

-----------------------------------------------------------------------------
(* What a step does to the rows, the baselines and the reasons.            *)

\* The five action properties, for one step.
StepIsSound ==
    /\ "WatcherUnavailable" \in pub.reasons =>
          \/ "WatcherUnavailable" \in pub'.reasons
          \/ \E l \in Loaders : DegradeOnCapacity(l)
    /\ \A p \in Paths :
          pub'.disp[p] = "Aborted" /\ pub'.reasons = {} =>
             \/ pub.disp[p] = "Aborted" /\ pub.reasons = {}
             \/ \E t \in Tasks : Remove(t)
    /\ \/ \A p \in Paths :
             pub.rows[p].root = pub'.rows[p].root =>
                pub'.rows[p].version >= pub.rows[p].version
       \/ \E e \in Edits : UpdateFile(e)
    /\ \A p \in Paths :
          slots'[p] # NoRow =>
             \/ slots'[p] = IF pub'.rows[p] = pub.rows[p] THEN slots[p] ELSE pub.rows[p]
             \/ slots'[p] = pub.rows[p] /\ \E e \in Edits : edit[e].path = p /\ UpdateFile(e)
    /\ \A l \in Loaders, p \in Paths :
          reload[l].pc = "commit" /\ reload'[l].pc # "commit" /\ ChangedSinceWatermark(l, p) =>
             pub'.rows[p] = pub.rows[p]

\* A step that publishes no other rows and no other manifest is sound.
LEMMA StillStep ==
    ASSUME IInv, pub'.rows = pub.rows, slots' = slots, pub'.disp = pub.disp,
           pub'.reasons = {} => pub.reasons = {},
           "WatcherUnavailable" \in pub.reasons =>
              \/ "WatcherUnavailable" \in pub'.reasons
              \/ \E l \in Loaders : DegradeOnCapacity(l)
    PROVE  StepIsSound
  <1>1. \A p \in Paths : pub.rows[p].version \in Nat
    BY Zenon, Fields, RowFacts DEF IInv
  <1>2. \A p \in Paths : pub'.rows[p].version >= pub.rows[p].version
    BY <1>1
  <1> QED
    BY Zenon, <1>2 DEF StepIsSound

\* The row of path p is published as row, and base is left as its baseline.
FilePublished(p, row, base) ==
    /\ ~Locked /\ row \in Rows
    /\ row # NoRow => row.version <= disk[row.root][p].version
    /\ NoOlder(row, pub.rows[p]) \/ \E e \in Edits : UpdateFile(e)
    /\ base \in Rows
    /\ base # NoRow =>
          \/ base = IF row = pub.rows[p] THEN slots[p] ELSE pub.rows[p]
          \/ base = pub.rows[p] /\ \E e \in Edits : edit[e].path = p /\ UpdateFile(e)
    /\ \E live : \E changed \in BOOLEAN :
          /\ Sound(live) /\ KeepsGap(live) /\ swap_and_publish(live, changed)
          /\ Reported(live) \/ \E t \in Tasks : Remove(t)
          /\ live.rows = [pub.rows EXCEPT ![p] = row]
          /\ ~changed => row = pub.rows[p]
    /\ slots' = [slots EXCEPT ![p] = base]
    /\ UNCHANGED <<disk, projectGen, bound, watcher, reload>>
    /\ EditsRest
    /\ task' = Outdated \/ \E t \in Tasks : Published_by(t)

\* Such a publication keeps the invariant.
LEMMA FilePublishedKeeps ==
    ASSUME IInv, NEW p \in Paths, NEW row, NEW base, FilePublished(p, row, base)
    PROVE  IInv' /\ StepIsSound
  <1>1. PICK live : \E changed \in BOOLEAN :
              /\ Sound(live) /\ KeepsGap(live) /\ swap_and_publish(live, changed)
              /\ Reported(live) \/ \E t \in Tasks : Remove(t)
              /\ live.rows = [pub.rows EXCEPT ![p] = row]
              /\ ~changed => row = pub.rows[p]
    BY Zenon DEF FilePublished
  <1>2. PICK changed \in BOOLEAN :
              /\ Sound(live) /\ KeepsGap(live) /\ swap_and_publish(live, changed)
              /\ Reported(live) \/ \E t \in Tasks : Remove(t)
              /\ live.rows = [pub.rows EXCEPT ![p] = row]
              /\ ~changed => row = pub.rows[p]
    BY Zenon, <1>1
  <1>3. /\ ~Locked /\ row \in Rows /\ (row # NoRow => row.version <= disk[row.root][p].version)
        /\ NoOlder(row, pub.rows[p]) \/ \E e \in Edits : UpdateFile(e)
        /\ base \in Rows
        /\ base # NoRow =>
              \/ base = IF row = pub.rows[p] THEN slots[p] ELSE pub.rows[p]
              \/ base = pub.rows[p] /\ \E e \in Edits : edit[e].path = p /\ UpdateFile(e)
        /\ slots' = [slots EXCEPT ![p] = base]
        /\ UNCHANGED <<disk, projectGen, bound, watcher, reload>>
        /\ EditsRest /\ (task' = Outdated \/ \E t \in Tasks : Published_by(t))
    BY Zenon DEF FilePublished
  <1>4. /\ pub.rows \in [Paths -> Rows] /\ slots \in [Paths -> Rows] /\ watcher \in Watchers
        /\ OnDisk(pub.rows)
    BY Zenon, Fields, RowFacts DEF IInv, TypeOK
  <1>5. /\ live.rows[p] = row /\ \A q \in Paths \ {p} : live.rows[q] = pub.rows[q]
        /\ ~changed => live.rows = pub.rows
        /\ slots' \in [Paths -> Rows] /\ slots'[p] = base
        /\ \A q \in Paths \ {p} : slots'[q] = slots[q]
    BY <1>2, <1>3, <1>4, RowFacts
  <1>6. OnDisk(live.rows)
    BY Zenon, <1>3, <1>4, <1>5 DEF OnDisk
  <1>7. slots' \in RowMaps /\ watcher' \in Watchers /\ LoadsRest
    BY Zenon, <1>3, <1>4, <1>5, RowFacts, SameLoads
  <1>8. IInv'
    BY Zenon, <1>2, <1>3, <1>5, <1>6, <1>7, FilePublication
  <1>9. pub'.rows = live.rows /\ pub'.disp = live.disp /\ pub'.reasons = live.reasons
    BY Zenon, <1>2, <1>5, SwapFacts
  <1>10. \/ \A q \in Paths : pub.rows[q].root = pub'.rows[q].root =>
                               pub'.rows[q].version >= pub.rows[q].version
         \/ \E e \in Edits : UpdateFile(e)
    <2>1. CASE NoOlder(row, pub.rows[p])
      <3>1. \A q \in Paths : NoOlder(pub'.rows[q], pub.rows[q])
        BY Zenon, <1>3, <1>4, <1>5, <1>9, <2>1, RowFacts
      <3>2. \A q \in Paths : pub.rows[q].version \in Nat /\ pub'.rows[q].version \in Nat
        BY <1>3, <1>4, <1>5, <1>9, RowFacts
      <3> QED
        BY Zenon, <3>1, <3>2 DEF NoOlder
    <2> QED
      BY Zenon, <1>3, <2>1
  <1>11. ASSUME NEW q \in Paths, slots'[q] # NoRow
         PROVE  \/ slots'[q] = IF pub'.rows[q] = pub.rows[q] THEN slots[q] ELSE pub.rows[q]
                \/ slots'[q] = pub.rows[q] /\ \E e \in Edits : edit[e].path = q /\ UpdateFile(e)
    <2>1. CASE q = p
      BY Zenon, <1>3, <1>5, <1>9, <1>11, <2>1
    <2>2. CASE q # p
      BY Zenon, <1>5, <1>9, <2>2
    <2> QED
      BY Zenon, <2>1, <2>2
  <1>12. \A q \in Paths :
            pub'.disp[q] = "Aborted" /\ pub'.reasons = {} =>
               \/ pub.disp[q] = "Aborted" /\ pub.reasons = {}
               \/ \E t \in Tasks : Remove(t)
    BY Zenon, <1>2, <1>9 DEF Reported
  <1>13. StepIsSound
    BY Zenon, <1>2, <1>3, <1>9, <1>10, <1>11, <1>12 DEF StepIsSound, KeepsGap, Locked
  <1> QED
    BY Zenon, <1>8, <1>13

-----------------------------------------------------------------------------
(* The publications of a single file.                                      *)

\* What a task that is about to publish, or has found nothing, knows.
LEMMA TaskFacts ==
    ASSUME IInv, NEW t \in Tasks, task[t].pc \in {"absent", "publish"},
           NEW p, p = task[t].path
    PROVE  /\ p \in Paths /\ task[t].root \in Roots
           /\ task[t].seen \in Looks /\ task[t].seen.kind \in FileKinds
           /\ pub.rows[p] \in Rows /\ slots[p] \in Rows
           /\ pub.rows[p] # NoRow =>
                 pub.rows[p].version <= disk[pub.rows[p].root][p].version
           /\ pub.rows = [pub.rows EXCEPT ![p] = pub.rows[p]]
           /\ slots = [slots EXCEPT ![p] = slots[p]]
  <1>1. /\ p \in Paths /\ task[t].seen \in Looks
        /\ task[t].seen.kind \in FileKinds
        /\ pub.rows \in [Paths -> Rows] /\ slots \in [Paths -> Rows] /\ OnDisk(pub.rows)
    BY Zenon, Fields, RowFacts DEF IInv, TypeOK
  <1>2. task[t].root \in Roots
    BY Zenon DEF IInv, TaskIsAhead
  <1> QED
    BY Zenon, <1>1, <1>2 DEF OnDisk

\* An absent file is taken out.
LEMMA RemovePublishes ==
    ASSUME IInv, NEW t \in Tasks, Remove(t), MayRemove(t)
    PROVE  FilePublished(task[t].path, NoRow, NoRow)
  <1> DEFINE p == task[t].path
  <1>1. /\ task[t].pc = "absent" /\ ~Locked /\ swap_and_publish(WithoutPath(p), TRUE)
        /\ slots' = [slots EXCEPT ![p] = NoRow] /\ Published_by(t) /\ UNCHANGED Others
    BY Zenon DEF Remove
  <1>2. p \in Paths /\ pub.rows[p] \in Rows /\ NoRow \in Rows /\ "none" \in FileKinds
    BY Zenon, <1>1, TaskFacts, RowFacts DEF FileKinds
  <1>3. /\ Sound(WithoutPath(p)) /\ KeepsGap(WithoutPath(p))
        /\ WithoutPath(p).rows = [pub.rows EXCEPT ![p] = NoRow]
    BY Zenon, <1>2, WithoutFacts
  <1>4. NoOlder(NoRow, pub.rows[p])
    BY Zenon, <1>2, RowFacts
  <1> QED
    BY Zenon, <1>1, <1>2, <1>3, <1>4 DEF FilePublished, Others, EditsRest, Replaces

\* A failed read retains the row, and a withheld file loses it.
LEMMA TerminalPublishes ==
    ASSUME IInv, NEW t \in Tasks, PublishTerminal(t)
    PROVE  \E row, base : FilePublished(task[t].path, row, base)
  <1> DEFINE p == task[t].path
             kind == task[t].seen.kind
  <1>0. /\ task[t].pc = "publish" /\ ~Locked /\ Published_by(t) /\ UNCHANGED Others
    BY Zenon DEF PublishTerminal
  <1>1. /\ p \in Paths /\ kind \in FileKinds /\ pub.rows[p] \in Rows /\ slots[p] \in Rows
        /\ NoRow \in Rows /\ NoOlder(NoRow, pub.rows[p]) /\ NoOlder(pub.rows[p], pub.rows[p])
        /\ pub.rows[p] # NoRow => pub.rows[p].version <= disk[pub.rows[p].root][p].version
        /\ pub.rows = [pub.rows EXCEPT ![p] = pub.rows[p]]
        /\ slots = [slots EXCEPT ![p] = slots[p]]
    BY Zenon, <1>0, TaskFacts, RowFacts
  <1>2. CASE kind \in Failed
    <2>1. swap_and_publish(WithEntry(p, pub.rows[p], kind), FALSE) /\ UNCHANGED slots
      BY Zenon, <1>2 DEF PublishTerminal
    <2>2. p \in Paths /\ kind \in FileKinds
      BY Zenon, <1>0, TaskFacts
    <2>3. PICK row \in Rows : row = pub.rows[p]
      BY Zenon, <1>0, TaskFacts
    <2>4. Replaces(WithEntry(p, row, kind), p, row)
      BY Zenon, <2>2, EntryFacts
    <2>5. FilePublished(p, row, slots[p])
      BY Zenon, <1>0, <1>1, <2>1, <2>3, <2>4 DEF FilePublished, Others, EditsRest, Replaces
    <2> QED
      BY Zenon, <2>5
  <1>3. CASE kind \notin Failed
    <2>1. /\ swap_and_publish(WithEntry(p, NoRow, kind), TRUE)
          /\ slots' = [slots EXCEPT ![p] = NoRow]
      BY Zenon, <1>3 DEF PublishTerminal
    <2>2. Replaces(WithEntry(p, NoRow, kind), p, NoRow)
      BY Zenon, <1>1, EntryFacts
    <2>3. FilePublished(p, NoRow, NoRow)
      BY Zenon, <1>0, <1>1, <2>1, <2>2 DEF FilePublished, Others, EditsRest, Replaces
    <2> QED
      BY Zenon, <2>3
  <1> QED
    BY Zenon, <1>2, <1>3

\* The same bytes publish what changed around them.
LEMMA HashSkipPublishes ==
    ASSUME IInv, NEW t \in Tasks, PublishHashSkip(t)
    PROVE  \/ \E row, base : FilePublished(task[t].path, row, base)
           \/ UNCHANGED <<Others, Published>> /\ End(t)
  <1> DEFINE p == task[t].path
             live == WithEntry(p, pub.rows[p], "Indexed")
  <1>0. /\ task[t].pc = "publish" /\ ~Locked /\ UNCHANGED Others
        /\ \/ UNCHANGED Published /\ End(t)
           \/ swap_and_publish(live, TRUE) /\ UNCHANGED slots /\ Published_by(t)
    BY Zenon DEF PublishHashSkip
  <1>1. /\ p \in Paths /\ pub.rows[p] \in Rows /\ slots[p] \in Rows
        /\ NoOlder(pub.rows[p], pub.rows[p]) /\ "Indexed" \in FileKinds
        /\ pub.rows[p] # NoRow => pub.rows[p].version <= disk[pub.rows[p].root][p].version
        /\ slots = [slots EXCEPT ![p] = slots[p]]
    BY Zenon, <1>0, TaskFacts, RowFacts DEF FileKinds
  <1>2. p \in Paths /\ "Indexed" \in FileKinds
    BY Zenon, <1>0, TaskFacts DEF FileKinds
  <1>3. PICK row \in Rows : row = pub.rows[p]
    BY Zenon, <1>0, TaskFacts
  <1>4. Replaces(WithEntry(p, row, "Indexed"), p, row)
    BY Zenon, <1>2, EntryFacts
  <1>5. CASE swap_and_publish(live, TRUE) /\ UNCHANGED slots /\ Published_by(t)
    <2>0. Replaces(live, p, row)
      BY Zenon, <1>3, <1>4
    <2>1. FilePublished(p, row, slots[p])
      BY Zenon, <1>0, <1>1, <1>3, <1>5, <2>0 DEF FilePublished, Others, EditsRest, Replaces
    <2> QED
      BY Zenon, <2>1
  <1> QED
    BY Zenon, <1>0, <1>5

\* New bytes replace the row, which becomes their baseline.
LEMMA IndexedPublishes ==
    ASSUME IInv, NEW t \in Tasks, PublishIndexed(t)
    PROVE  \E row, base : FilePublished(task[t].path, row, base)
  <1> DEFINE p == task[t].path
             row == RowOf(task[t].root, task[t].seen)
             live == WithEntry(p, row, "Indexed")
  <1>0. /\ task[t].pc = "publish" /\ ~Locked /\ Published_by(t) /\ UNCHANGED Others
        /\ task[t].fresh /\ task[t].seen.kind = "Indexed" /\ pub.rows[p] # row
        /\ swap_and_publish(live, TRUE) /\ slots' = [slots EXCEPT ![p] = pub.rows[p]]
    BY Zenon DEF PublishIndexed, Fenced
  <1>1. /\ p \in Paths /\ pub.rows[p] \in Rows /\ "Indexed" \in FileKinds
        /\ task[t].root \in Roots /\ task[t].seen \in Looks
    BY Zenon, <1>0, TaskFacts DEF FileKinds
  <1>2. row \in Rows /\ row.root = task[t].root /\ row.version = task[t].seen.version
    <2>1. task[t].seen \in [version : Nat, kind : Kinds]
      BY Zenon, <1>1, KindFacts
    <2> QED
      BY Zenon, <1>0, <1>1, <2>1, RowOfFacts
  <1>3. NoOlder(row, pub.rows[p]) /\ row.version <= disk[row.root][p].version
    BY Zenon, <1>0, <1>2 DEF IInv, TaskIsAhead
  <1> HIDE DEF row
  <1>4. Replaces(live, p, row)
    BY Zenon, <1>1, <1>2, EntryFacts
  <1> HIDE DEF live
  <1>5. FilePublished(p, row, pub.rows[p])
    BY Zenon, <1>0, <1>1, <1>2, <1>3, <1>4 DEF FilePublished, Others, EditsRest, Replaces
  <1> QED
    BY Zenon, <1>5

-----------------------------------------------------------------------------
(* The steps of a task that publish nothing.                               *)

\* Such a step keeps the invariant if its task is right.
LEMMA TaskOnly ==
    ASSUME IInv, NEW t \in Tasks, NEW new \in TaskRecords, Move(t, new),
           UNCHANGED <<disk, projectGen, bound, watcher, reload, edit>>,
           UNCHANGED <<pub, slots, defer, filler>>,
           new.pc \in {"read", "absent", "publish"} => new.root \in Roots,
           new.pc = "publish" =>
              /\ new.seen.version <= disk[new.root][new.path].version
              /\ new.fresh /\ new.seen.kind = "Indexed" =>
                    NoOlder(RowOf(new.root, new.seen), pub.rows[new.path])
    PROVE  IInv' /\ StepIsSound
  <1>1. /\ task' \in [Tasks -> TaskRecords] /\ task'[t] = new
        /\ \A u \in Tasks \ {t} : task'[u] = task[u]
    BY Zenon DEF Move, IInv, TypeOK
  <1>2. TypeOK'
    BY Zenon, <1>1 DEF IInv, TypeOK
  <1>3. DiskGrows
    BY Zenon, SameDisk DEF IInv
  <1>4. LockIsExclusive' /\ \A l \in Loaders : ReloadIsAhead(l)'
    BY Zenon, <1>2, <1>3, SameLoads, LoadsStay
  <1>5. /\ OnDisk(pub.rows)' /\ FillerIsCurrent' /\ BridgeDescribesContent'
        /\ CurrentIsHonest' /\ PlaceholderIsOwned' /\ AbortsHaveRoot'
    BY Zenon, <1>2, <1>3, PublishedStays
  <1>6. \A u \in Tasks \ {t} : TaskIsAhead(u)'
    BY Zenon, <1>1, <1>2, <1>3, TaskStays
  <1>7. TaskIsAhead(t)'
    BY Zenon, <1>1 DEF TaskIsAhead, RowOf, NoOlder
  <1>8. \A e \in Edits : EditIsOnDisk(e)'
    BY Zenon DEF IInv, EditIsOnDisk
  <1>9. StepIsSound
    BY Zenon, StillStep
  <1> QED
    BY Zenon, <1>2, <1>4, <1>5, <1>6, <1>7, <1>8, <1>9 DEF IInv

\* The records a task begins, goes on and ends with.
LEMMA TaskRecordFacts ==
    ASSUME IInv
    PROVE  /\ NoTask \in TaskRecords /\ NoTask.pc = "idle"
           /\ \A o \in TaskRecords :
                 Observed(o) \in TaskRecords /\ Observed(o).pc = "read"
                 /\ Observed(o).root = o.root
           /\ effective_fence_generation \in Nat
  <1>1. NoTask \in TaskRecords /\ NoTask.pc = "idle"
    BY Zenon, NoTaskFacts
  <1>2. NoFile \in Looks /\ pub.project \in Nat
    BY Zenon, Fields DEF NoFile, FileKinds, Looks, IInv
  <1>3. \A o \in TaskRecords :
           /\ Observed(o) \in TaskRecords /\ Observed(o).pc = "read"
           /\ Observed(o).root = o.root
    BY Zenon, <1>2 DEF Observed, TaskRecords
  <1>4. effective_fence_generation \in Nat
    BY Zenon, Fields DEF effective_fence_generation, IInv
  <1> QED
    BY Zenon, <1>1, <1>3, <1>4

\* A task ends.
LEMMA EndKeeps ==
    ASSUME IInv, NEW t \in Tasks, End(t),
           UNCHANGED <<disk, projectGen, bound, watcher, reload, edit>>,
           UNCHANGED <<pub, slots, defer, filler>>
    PROVE  IInv' /\ StepIsSound
  BY Zenon, TaskRecordFacts, TaskOnly DEF End

\* A task observes a base.
LEMMA ObserveKeeps ==
    ASSUME IInv, NEW t \in Tasks, NEW o \in TaskRecords, o.root \in Roots,
           Move(t, Observed(o)),
           UNCHANGED <<disk, projectGen, bound, watcher, reload, edit>>,
           UNCHANGED <<pub, slots, defer, filler>>
    PROVE  IInv' /\ StepIsSound
  BY Zenon, TaskRecordFacts, TaskOnly

\* A task begins.
LEMMA BeginKeeps ==
    ASSUME IInv, NEW t \in Tasks, NEW p \in Paths, BeginEvent(t, p) \/ BeginRequest(t, p)
    PROVE  IInv' /\ StepIsSound
  <1>0. /\ UNCHANGED <<disk, projectGen, bound, watcher, reload, edit>>
        /\ UNCHANGED <<pub, slots, defer, filler>>
    BY Zenon DEF BeginEvent, BeginRequest, Others, Published
  <1>1. /\ NoTask \in TaskRecords /\ effective_fence_generation \in Nat
        /\ watcher.root \in Roots /\ projectGen \in Nat
    BY Zenon, TaskRecordFacts, Fields DEF IInv, TypeOK
  <1>2. CASE BeginEvent(t, p)
    <2> DEFINE g == effective_fence_generation
               o == [NoTask EXCEPT !.path = p, !.root = watcher.root, !.gen = g,
                                   !.left = Attempts]
    <2>1. Move(t, Observed(o))
      BY Zenon, <1>2 DEF BeginEvent
    <2> HIDE DEF g
    <2>2. o \in TaskRecords /\ o.root = watcher.root
      BY Zenon, <1>1, ConstantsOK DEF TaskRecords, g
    <2> QED
      BY Zenon, <1>0, <1>1, <2>1, <2>2, ObserveKeeps
  <1>3. CASE BeginRequest(t, p)
    <2> DEFINE o == [NoTask EXCEPT !.pc = "root", !.path = p, !.gen = projectGen]
    <2>1. Move(t, o)
      BY Zenon, <1>3 DEF BeginRequest
    <2>2. o \in TaskRecords /\ o.pc = "root"
      BY Zenon, <1>1 DEF TaskRecords
    <2> HIDE DEF o
    <2> QED
      BY Zenon, <1>0, <2>1, <2>2, TaskOnly
  <1> QED
    BY Zenon, <1>2, <1>3

\* A request takes its root, an absence is looked at again, and a publication
\* that lost its base starts over.
LEMMA AgainKeeps ==
    ASSUME IInv, NEW t \in Tasks, RequestRoot(t) \/ AbsentAgain(t) \/ Republish(t)
    PROVE  IInv' /\ StepIsSound
  <1>0. /\ UNCHANGED <<disk, projectGen, bound, watcher, reload, edit>>
        /\ UNCHANGED <<pub, slots, defer, filler>>
    BY Zenon DEF RequestRoot, AbsentAgain, Republish, Others, Published
  <1>1. /\ task[t] \in TaskRecords /\ bound \in Roots
        /\ task[t].left \in Nat /\ task[t].misses \in Nat
        /\ task[t].pc \in {"absent", "publish"} => task[t].root \in Roots
    BY Zenon, Fields DEF IInv, TypeOK, TaskIsAhead
  <1>2. CASE End(t)
    BY Zenon, <1>0, <1>2, EndKeeps
  <1>3. CASE RequestRoot(t) /\ ~End(t)
    <2> DEFINE o == [task[t] EXCEPT !.root = bound, !.left = Attempts, !.misses = Misses]
    <2>1. Move(t, Observed(o))
      BY Zenon, <1>3 DEF RequestRoot
    <2>2. o \in TaskRecords /\ o.root = bound
      BY Zenon, <1>1, ConstantsOK DEF TaskRecords
    <2> QED
      BY Zenon, <1>0, <1>1, <2>1, <2>2, ObserveKeeps
  <1>4. CASE AbsentAgain(t) /\ ~End(t)
    <2> DEFINE o == [task[t] EXCEPT !.misses = @ - 1, !.left = Attempts]
    <2>1. Move(t, Observed(o)) /\ task[t].misses > 0 /\ task[t].pc = "absent"
      BY Zenon, <1>4 DEF AbsentAgain
    <2>2. task[t].misses - 1 \in Nat
      BY <1>1, <2>1
    <2>3. o \in TaskRecords /\ o.root = task[t].root
      BY Zenon, <1>1, <2>2, ConstantsOK DEF TaskRecords
    <2> QED
      BY Zenon, <1>0, <1>1, <2>1, <2>3, ObserveKeeps
  <1>5. CASE Republish(t) /\ ~End(t)
    <2> DEFINE o == [task[t] EXCEPT !.left = @ - 1]
    <2>1. Move(t, Observed(o)) /\ task[t].left > 1 /\ task[t].pc = "publish"
      BY Zenon, <1>5 DEF Republish
    <2>2. task[t].left - 1 \in Nat
      BY <1>1, <2>1
    <2>3. o \in TaskRecords /\ o.root = task[t].root
      BY Zenon, <1>1, <2>2 DEF TaskRecords
    <2> QED
      BY Zenon, <1>0, <1>1, <2>1, <2>3, ObserveKeeps
  <1> QED
    BY Zenon, <1>2, <1>3, <1>4, <1>5

\* A read comes back with what the disk holds at that moment, which is not
\* older than the published row.
LEMMA ReadKeeps ==
    ASSUME IInv, NEW t \in Tasks, Read(t)
    PROVE  IInv' /\ StepIsSound
  <1> DEFINE r == task[t].root
             p == task[t].path
  <1>0. /\ UNCHANGED <<disk, projectGen, bound, watcher, reload, edit>>
        /\ UNCHANGED <<pub, slots, defer, filler>> /\ task[t].pc = "read"
    BY Zenon DEF Read, Others, Published
  <1>1. /\ r \in Roots /\ p \in Paths /\ task[t] \in TaskRecords /\ TypeOK
        /\ pub.rows[p] \in Rows /\ OnDisk(pub.rows) /\ disk[r][p].version \in Nat
    BY Zenon, <1>0, Fields, RowFacts DEF IInv, TaskIsAhead
  <1>2. PICK seen \in Look(r, p) :
           Move(t, IF seen.kind = "none" THEN [task[t] EXCEPT !.pc = "absent"]
                   ELSE [task[t] EXCEPT !.pc = "publish", !.seen = seen])
    BY Zenon DEF Read
  <1>3. /\ seen \in Looks /\ seen \in [version : Nat, kind : Kinds]
        /\ seen.version <= disk[r][p].version
        /\ seen.kind = "Indexed" => seen.version = disk[r][p].version
    BY Zenon, <1>1, LookFacts
  <1>4. CASE seen.kind = "none"
    <2> DEFINE o == [task[t] EXCEPT !.pc = "absent"]
    <2>1. o \in TaskRecords /\ o.pc = "absent" /\ o.root = r
      BY Zenon, <1>1 DEF TaskRecords
    <2>2. Move(t, o)
      BY Zenon, <1>2, <1>4
    <2> HIDE DEF o
    <2> QED
      BY Zenon, <1>0, <1>1, <2>1, <2>2, TaskOnly
  <1>5. CASE seen.kind # "none"
    <2> DEFINE o == [task[t] EXCEPT !.pc = "publish", !.seen = seen]
    <2>1. /\ o \in TaskRecords /\ o.pc = "publish" /\ o.root = r /\ o.path = p
          /\ o.seen = seen
      BY Zenon, <1>1, <1>3 DEF TaskRecords
    <2>2. Move(t, o)
      BY Zenon, <1>2, <1>5
    <2>3. seen.kind = "Indexed" => NoOlder(RowOf(r, seen), pub.rows[p])
      <3> SUFFICES ASSUME seen.kind = "Indexed", pub.rows[p].root = r
                   PROVE  pub.rows[p].version <= seen.version
        BY ZenonT(40), <1>1, <1>3, RowOfFacts DEF NoOlder
      <3>1. pub.rows[p] # NoRow
        BY Zenon, <1>1, RowFacts, ConstantsOK
      <3> QED
        BY Zenon, <1>1, <1>3, <3>1 DEF OnDisk
    <2> HIDE DEF o
    <2> QED
      BY Zenon, <1>0, <1>1, <1>3, <2>1, <2>2, <2>3, TaskOnly
  <1> QED
    BY Zenon, <1>4, <1>5

\* The steps of the tasks.
LEMMA TaskStepKeeps ==
    ASSUME IInv, NEW t \in Tasks, TaskStep(t)
    PROVE  IInv' /\ StepIsSound
  <1>1. CASE \E p \in Paths : BeginEvent(t, p) \/ BeginRequest(t, p)
    BY Zenon, <1>1, BeginKeeps
  <1>2. CASE RequestRoot(t) \/ AbsentAgain(t) \/ Republish(t)
    BY Zenon, <1>2, AgainKeeps
  <1>3. CASE Read(t)
    BY Zenon, <1>3, ReadKeeps
  <1>4. task[t].path \in Paths
    BY Zenon, Fields DEF IInv
  <1>5. CASE Remove(t)
    <2>1. CASE MayRemove(t)
      BY Zenon, <1>4, <1>5, <2>1, RemovePublishes, FilePublishedKeeps
    <2>2. CASE ~MayRemove(t)
      <3>1. /\ UNCHANGED <<disk, projectGen, bound, watcher, reload, edit>>
            /\ UNCHANGED <<pub, slots, defer, filler>> /\ End(t)
        BY Zenon, <1>5, <2>2 DEF Remove, Others, Published
      <3> QED
        BY Zenon, <3>1, EndKeeps
    <2> QED
      BY Zenon, <2>1, <2>2
  <1>6. CASE PublishTerminal(t)
    BY Zenon, <1>4, <1>6, TerminalPublishes, FilePublishedKeeps
  <1>7. CASE PublishHashSkip(t)
    <2>1. CASE UNCHANGED <<Others, Published>> /\ End(t)
      BY Zenon, <2>1, EndKeeps DEF Others, Published
    <2> QED
      BY Zenon, <1>4, <1>7, <2>1, HashSkipPublishes, FilePublishedKeeps
  <1>8. CASE PublishIndexed(t)
    BY <1>4, <1>8, IndexedPublishes, FilePublishedKeeps
  <1> QED
    BY Zenon, <1>1, <1>2, <1>3, <1>5, <1>6, <1>7, <1>8 DEF TaskStep

-----------------------------------------------------------------------------
(* The file system and the watcher.                                        *)

\* A step that publishes nothing, and leaves the reloads and the tasks alone.
LEMMA OutsideKeeps ==
    ASSUME IInv, TypeOK', DiskGrows,
           UNCHANGED <<projectGen, pub, slots, defer, reload, task, filler>>,
           \A e \in Edits : EditIsOnDisk(e)'
    PROVE  IInv' /\ StepIsSound
  <1>1. LockIsExclusive' /\ \A l \in Loaders : ReloadIsAhead(l)'
    BY Zenon, SameLoads, LoadsStay
  <1>2. /\ OnDisk(pub.rows)' /\ FillerIsCurrent' /\ BridgeDescribesContent'
        /\ CurrentIsHonest' /\ PlaceholderIsOwned' /\ AbortsHaveRoot'
    BY Zenon, PublishedStays
  <1>3. \A t \in Tasks : TaskIsAhead(t)'
    BY Zenon, TaskStays
  <1>4. StepIsSound
    BY Zenon, StillStep
  <1> QED
    BY Zenon, <1>1, <1>2, <1>3, <1>4 DEF IInv

\* A write and a deletion leave no older version.
LEMMA DiskFacts ==
    ASSUME TypeOK, NEW r \in Roots, NEW p \in Paths,
           NewBytes(r, p) \/ disk' = [disk EXCEPT ![r][p].kind = "none"]
    PROVE  /\ DiskGrows /\ disk' \in [Roots -> [Paths -> Looks]]
           /\ \A s \in Roots, q \in Paths : disk'[s][q].version \in Nat
  <1>1. /\ disk \in [Roots -> [Paths -> Looks]]
        /\ disk[r][p] \in Looks /\ disk[r][p].version \in Nat
        /\ \A s \in Roots, q \in Paths : disk[s][q].version \in Nat
    BY Zenon, Fields DEF TypeOK
  <1>2. \E f \in Looks :
           /\ disk[r][p].version <= f.version
           /\ disk' = [disk EXCEPT ![r] = [disk[r] EXCEPT ![p] = f]]
    <2>1. CASE NewBytes(r, p)
      <3>1. PICK kind \in {"Indexed", "MetadataOnly"} :
               disk' = [disk EXCEPT ![r][p] = [version |-> @.version + 1, kind |-> kind]]
        BY Zenon, <2>1 DEF NewBytes
      <3> DEFINE f == [version |-> disk[r][p].version + 1, kind |-> kind]
      <3>2. f \in Looks /\ disk[r][p].version <= f.version
        BY <1>1 DEF FileKinds, Looks
      <3>3. disk' = [disk EXCEPT ![r] = [disk[r] EXCEPT ![p] = f]]
        BY Zenon, <3>1
      <3> QED
        BY Zenon, <3>2, <3>3
    <2>2. CASE disk' = [disk EXCEPT ![r][p].kind = "none"]
      <3> DEFINE f == [disk[r][p] EXCEPT !.kind = "none"]
      <3>1. f \in Looks /\ disk[r][p].version <= f.version
        BY <1>1 DEF FileKinds, Looks
      <3>2. disk' = [disk EXCEPT ![r] = [disk[r] EXCEPT ![p] = f]]
        BY Zenon, <2>2
      <3> QED
        BY Zenon, <3>1, <3>2
    <2> QED
      BY Zenon, <2>1, <2>2
  <1>3. PICK f \in Looks :
           /\ disk[r][p].version <= f.version
           /\ disk' = [disk EXCEPT ![r] = [disk[r] EXCEPT ![p] = f]]
    BY Zenon, <1>2
  <1>4. /\ disk' \in [Roots -> [Paths -> Looks]]
        /\ \A s \in Roots, q \in Paths :
              disk'[s][q] = IF s = r /\ q = p THEN f ELSE disk[s][q]
    BY Zenon, <1>1, <1>3
  <1>5. DiskGrows
    BY <1>1, <1>3, <1>4 DEF DiskGrows
  <1>6. \A s \in Roots, q \in Paths : disk'[s][q].version \in Nat
    BY <1>1, <1>3, <1>4 DEF Looks
  <1> QED
    BY Zenon, <1>4, <1>5, <1>6

\* A file is written or deleted.
LEMMA DiskKeeps ==
    ASSUME IInv, NEW r \in Roots, NEW p \in Paths, WriteFile(r, p) \/ DeleteFile(r, p)
    PROVE  IInv' /\ StepIsSound
  <1>0. UNCHANGED <<projectGen, pub, slots, defer, bound, watcher, reload, task, edit, filler>>
    BY Zenon DEF WriteFile, DeleteFile
  <1>1. /\ DiskGrows /\ disk' \in [Roots -> [Paths -> Looks]]
        /\ \A s \in Roots, q \in Paths : disk'[s][q].version \in Nat
    BY Zenon, DiskFacts DEF IInv, WriteFile, DeleteFile
  <1>2. TypeOK'
    BY Zenon, <1>0, <1>1 DEF IInv, TypeOK
  <1>3. \A e \in Edits : EditIsOnDisk(e)'
    BY Zenon, <1>0, <1>1, EditStays
  <1> QED
    BY Zenon, <1>0, <1>1, <1>2, <1>3, OutsideKeeps

\* The watcher starts, fails and latches a gap; metadata is refreshed.
LEMMA WatcherKeeps ==
    ASSUME IInv, WatcherStarts \/ WatcherFails \/ LatchGap \/ RetainContent
    PROVE  IInv' /\ StepIsSound
  <1>1. /\ watcher \in Watchers /\ projectGen \in Nat /\ effective_fence_generation \in Nat
        /\ slots \in RowMaps /\ pub.reasons \in SUBSET Reasons /\ OnDisk(pub.rows)
        /\ \A r \in Roots, p \in Paths : disk[r][p].version \in Nat
    BY Zenon, Fields, TaskRecordFacts DEF IInv, TypeOK
  <1>2. watcher' \in Watchers
    <2>1. CASE WatcherStarts
      BY Zenon, <1>1, <2>1 DEF WatcherStarts, Watchers
    <2>2. CASE WatcherFails
      <3> DEFINE g == effective_fence_generation
      <3>1. watcher' = [watcher EXCEPT !.pc = "latching", !.gen = g]
        BY Zenon, <2>2 DEF WatcherFails
      <3> HIDE DEF g
      <3> QED
        BY Zenon, <1>1, <3>1 DEF Watchers, g
    <2>3. CASE LatchGap
      <3>1. PICK pc \in {"running", "none"} :
               watcher' = [watcher EXCEPT !.pc = pc, !.gen = 0]
        BY Zenon, <2>3 DEF LatchGap
      <3> QED
        BY Zenon, <1>1, <3>1 DEF Watchers
    <2>4. CASE RetainContent
      BY Zenon, <1>1, <2>4 DEF RetainContent
    <2> QED
      BY Zenon, <2>1, <2>2, <2>3, <2>4
  <1>3. CASE WatcherStarts \/ WatcherFails \/ (LatchGap /\ UNCHANGED <<pub, filler, defer, task>>)
    <2>1. UNCHANGED <<disk, projectGen, pub, slots, defer, bound, reload, task, edit, filler>>
      BY Zenon, <1>3 DEF WatcherStarts, WatcherFails, LatchGap
    <2>2. TypeOK' /\ DiskGrows
      <3>1. TypeOK'
        BY Zenon, <1>1, <1>2, <2>1 DEF IInv, TypeOK
      <3> QED
        BY Zenon, <1>1, <1>2, <2>1, <3>1, SameDisk DEF IInv
    <2>3. \A e \in Edits : EditIsOnDisk(e)'
      BY Zenon, <2>1 DEF IInv, EditIsOnDisk
    <2> QED
      BY Zenon, <2>1, <2>2, <2>3, OutsideKeeps
  <1>4. CASE RetainContent \/ (LatchGap /\ ~UNCHANGED <<pub, filler, defer, task>>)
    <2>1. PICK R \in SUBSET Reasons :
             pub.reasons \subseteq R /\ swap_and_publish(Retained(R), FALSE)
      <3>1. pub.reasons \cup {"WatcherUnavailable"} \in SUBSET Reasons
        BY Zenon, <1>1 DEF Reasons
      <3> QED
        BY Zenon, <1>1, <1>4, <3>1 DEF RetainContent, LatchGap
    <2>2. /\ ~Locked /\ UNCHANGED <<disk, projectGen, slots, bound, reload, edit>>
          /\ task' = Outdated
      BY Zenon, <1>4 DEF RetainContent, LatchGap
    <2> DEFINE live == Retained(R)
    <2>3. R = {} => pub.reasons = {}
      BY Zenon, <2>1
    <2>4. Sound(live) /\ KeepsGap(live) /\ Reported(live) /\ live.rows = pub.rows
      BY Zenon, <2>1, <2>3, RetainedFacts
    <2>5. live.disp = pub.disp /\ live.reasons = R
      BY Zenon DEF Retained
    <2> HIDE DEF live
    <2>6. pub'.rows = pub.rows /\ pub'.disp = pub.disp /\ pub'.reasons = R
      BY Zenon, <2>1, <2>4, <2>5, SwapFacts DEF live
    <2>7. IInv'
      BY Zenon, <1>1, <1>2, <2>1, <2>2, <2>4, SameLoads, FilePublication DEF EditsRest, live
    <2>8. StepIsSound
      BY Zenon, <2>2, <2>3, <2>4, <2>5, <2>6, StillStep DEF KeepsGap
    <2> QED
      BY Zenon, <2>7, <2>8
  <1> QED
    BY Zenon, <1>3, <1>4

-----------------------------------------------------------------------------
(* The re-index after an edit.                                             *)

\* A step of an edit that publishes nothing.
LEMMA EditOnly ==
    ASSUME IInv, NEW e \in Edits, NEW new \in EditRecords, EditTo(e, new),
           DiskGrows, disk' \in [Roots -> [Paths -> Looks]],
           \A r \in Roots, p \in Paths : disk'[r][p].version \in Nat,
           UNCHANGED <<projectGen, bound, watcher, reload, task, pub, slots, defer, filler>>,
           new.pc # "idle" => new.root \in Roots,
           new.pc = "publish" => new.seen.version <= disk'[new.root][new.path].version
    PROVE  IInv' /\ StepIsSound
  <1>1. /\ edit' \in [Edits -> EditRecords] /\ edit'[e] = new
        /\ \A d \in Edits \ {e} : edit'[d] = edit[d]
    BY Zenon DEF EditTo, IInv, TypeOK
  <1>2. TypeOK'
    BY Zenon, <1>1 DEF IInv, TypeOK
  <1>3. \A d \in Edits \ {e} : EditIsOnDisk(d)'
    BY Zenon, <1>1, EditStays
  <1>4. EditIsOnDisk(e)'
    BY Zenon, <1>1 DEF EditIsOnDisk
  <1>5. \A d \in Edits : EditIsOnDisk(d)'
    BY Zenon, <1>3, <1>4
  <1> QED
    BY Zenon, <1>2, <1>5, OutsideKeeps

\* The tool writes the file.
LEMMA EditFileKeeps ==
    ASSUME IInv, NEW e \in Edits, NEW p \in Paths, EditFile(e, p)
    PROVE  IInv' /\ StepIsSound
  <1> DEFINE new == [NoEdit EXCEPT !.pc = "read", !.path = p, !.root = bound]
  <1>1. /\ NewBytes(bound, p) /\ EditTo(e, new)
        /\ UNCHANGED <<projectGen, bound, watcher, reload, task, pub, slots, defer, filler>>
    BY Zenon DEF EditFile, Published
  <1>2. bound \in Roots /\ TypeOK /\ NoEdit \in EditRecords
    BY Zenon, NoTaskFacts DEF IInv, TypeOK
  <1>3. new \in EditRecords /\ new.pc = "read" /\ new.root = bound
    BY Zenon, <1>2 DEF EditRecords
  <1> HIDE DEF new
  <1>4. /\ DiskGrows /\ disk' \in [Roots -> [Paths -> Looks]]
        /\ \A r \in Roots, q \in Paths : disk'[r][q].version \in Nat
    BY Zenon, <1>1, <1>2, DiskFacts
  <1> QED
    BY Zenon, <1>1, <1>2, <1>3, <1>4, EditOnly

\* It reads the file back.
LEMMA ReadBackKeeps ==
    ASSUME IInv, NEW e \in Edits, ReadBack(e)
    PROVE  IInv' /\ StepIsSound
  <1> DEFINE r == edit[e].root
             p == edit[e].path
  <1>1. /\ edit[e].pc = "read"
        /\ UNCHANGED <<disk, projectGen, bound, watcher, reload, task, pub, slots, defer, filler>>
    BY Zenon DEF ReadBack, EditOthers, Published
  <1>2. /\ r \in Roots /\ p \in Paths /\ edit[e] \in EditRecords /\ TypeOK
        /\ NoEdit \in EditRecords /\ NoEdit.pc = "idle"
    BY Zenon, <1>1, Fields, NoTaskFacts DEF IInv, EditIsOnDisk
  <1>3. PICK seen \in Look(r, p) :
           EditTo(e, IF seen.kind \in {"Indexed", "MetadataOnly"}
                     THEN [edit[e] EXCEPT !.pc = "publish", !.seen = seen] ELSE NoEdit)
    BY Zenon DEF ReadBack
  <1>4. seen \in Looks /\ seen.version <= disk[r][p].version
    BY Zenon, <1>2, LookFacts
  <1>5. /\ DiskGrows /\ disk' \in [Roots -> [Paths -> Looks]]
        /\ \A s \in Roots, q \in Paths : disk'[s][q].version \in Nat
    BY Zenon, <1>1, <1>2, SameDisk, Fields DEF TypeOK
  <1>6. CASE EditTo(e, NoEdit)
    BY Zenon, <1>1, <1>2, <1>5, <1>6, EditOnly
  <1>7. CASE EditTo(e, [edit[e] EXCEPT !.pc = "publish", !.seen = seen])
    <2> DEFINE new == [edit[e] EXCEPT !.pc = "publish", !.seen = seen]
    <2>1. /\ new \in EditRecords /\ new.pc = "publish" /\ new.root = r /\ new.path = p
          /\ new.seen = seen
      BY Zenon, <1>2, <1>4 DEF EditRecords
    <2>2. EditTo(e, new)
      BY Zenon, <1>7
    <2> HIDE DEF new
    <2> QED
      BY Zenon, <1>1, <1>2, <1>4, <1>5, <2>1, <2>2, EditOnly
  <1> QED
    BY Zenon, <1>3, <1>6, <1>7

\* update_file publishes what was read back, and the row that was there as its
\* baseline.
LEMMA UpdateFileKeeps ==
    ASSUME IInv, NEW e \in Edits, UpdateFile(e)
    PROVE  IInv' /\ StepIsSound
  <1> DEFINE p == edit[e].path
             row == RowOf(edit[e].root, edit[e].seen)
             live == Edited(p, row, "Indexed")
  <1>1. /\ edit[e].pc = "publish" /\ edit[e].seen.kind = "Indexed" /\ ~Locked
        /\ swap_and_publish(live, TRUE) /\ slots' = [slots EXCEPT ![p] = pub.rows[p]]
        /\ task' = Outdated /\ EditTo(e, NoEdit)
        /\ UNCHANGED <<disk, projectGen, bound, watcher, reload>>
    BY Zenon DEF UpdateFile, Edited, EditOthers
  <1>2. /\ p \in Paths /\ edit[e].root \in Roots /\ edit[e].seen \in [version : Nat, kind : Kinds]
        /\ edit[e].seen.version <= disk[edit[e].root][p].version
        /\ pub.rows[p] \in Rows
    BY Zenon, <1>1, Fields, RowFacts, KindFacts DEF IInv, EditIsOnDisk
  <1>3. row \in Rows /\ row.root = edit[e].root /\ row.version = edit[e].seen.version
    BY Zenon, <1>1, <1>2, RowOfFacts
  <1> HIDE DEF row
  <1>4. Replaces(live, p, row)
    BY Zenon, <1>2, <1>3, EditedFacts
  <1> HIDE DEF live
  <1>5. FilePublished(p, row, pub.rows[p])
    BY Zenon, <1>1, <1>2, <1>3, <1>4 DEF FilePublished, EditsRest, Replaces
  <1> QED
    BY Zenon, <1>2, <1>5, FilePublishedKeeps

\* remove_file withdraws the row of bytes that the content policy withholds.
LEMMA RemoveFileKeeps ==
    ASSUME IInv, NEW e \in Edits, RemoveFile(e)
    PROVE  IInv' /\ StepIsSound
  <1> DEFINE p == edit[e].path
             live == Edited(p, NoRow, "none")
  <1>1. /\ ~Locked /\ EditTo(e, NoEdit)
        /\ UNCHANGED <<disk, projectGen, bound, watcher, reload>>
        /\ \/ /\ swap_and_publish(live, TRUE) /\ slots' = [slots EXCEPT ![p] = NoRow]
              /\ task' = Outdated
           \/ UNCHANGED <<task, pub, slots, defer, filler>>
    BY Zenon DEF RemoveFile, Edited, EditOthers, Published
  <1>2. /\ p \in Paths /\ pub.rows[p] \in Rows /\ NoRow \in Rows /\ TypeOK
        /\ NoEdit \in EditRecords /\ NoEdit.pc = "idle" /\ NoOlder(NoRow, pub.rows[p])
    BY Zenon, Fields, RowFacts, NoTaskFacts DEF IInv
  <1>3. CASE UNCHANGED <<task, pub, slots, defer, filler>>
    <2>1. /\ DiskGrows /\ disk' \in [Roots -> [Paths -> Looks]]
          /\ \A s \in Roots, q \in Paths : disk'[s][q].version \in Nat
      BY Zenon, <1>1, <1>2, SameDisk, Fields DEF TypeOK
    <2> QED
      BY Zenon, <1>1, <1>2, <1>3, <2>1, EditOnly
  <1>4. CASE /\ swap_and_publish(live, TRUE) /\ slots' = [slots EXCEPT ![p] = NoRow]
             /\ task' = Outdated
    <2>1. Replaces(live, p, NoRow)
      BY Zenon, <1>2, EditedFacts
    <2> HIDE DEF live
    <2>2. FilePublished(p, NoRow, NoRow)
      BY Zenon, <1>1, <1>2, <1>4, <2>1 DEF FilePublished, EditsRest, Replaces
    <2> QED
      BY Zenon, <1>2, <2>2, FilePublishedKeeps
  <1> QED
    BY Zenon, <1>1, <1>3, <1>4

\* The steps of the edits.
LEMMA EditStepKeeps ==
    ASSUME IInv, NEW e \in Edits, EditStep(e)
    PROVE  IInv' /\ StepIsSound
  BY Zenon, EditFileKeeps, ReadBackKeeps, UpdateFileKeeps, RemoveFileKeeps DEF EditStep

-----------------------------------------------------------------------------
(* The reloads.                                                            *)

\* The step of one reload.
LEMMA LoadFacts ==
    ASSUME IInv, NEW l \in Loaders, NEW new \in Reloads, Load(l, new)
    PROVE  /\ reload' \in [Loaders -> Reloads] /\ reload'[l] = new
           /\ \A m \in Loaders \ {l} : reload'[m] = reload[m]
  BY Zenon DEF Load, IInv, TypeOK

\* A step of a reload that publishes nothing.
LEMMA LoadOnly ==
    ASSUME IInv, NEW l \in Loaders, NEW new \in Reloads, Load(l, new),
           projectGen' \in Nat, bound' \in Roots, watcher' \in Watchers,
           UNCHANGED <<disk, pub, slots, defer, task, edit, filler>>,
           ReloadIsAhead(l)', new.pc = "commit" => ~Locked
    PROVE  IInv' /\ StepIsSound
  <1>0. /\ reload' \in [Loaders -> Reloads] /\ reload'[l] = new
        /\ \A m \in Loaders \ {l} : reload'[m] = reload[m]
    BY Zenon, LoadFacts
  <1>1. TypeOK' /\ DiskGrows
    <2>1. TypeOK'
      BY Zenon, <1>0 DEF IInv, TypeOK
    <2> QED
      BY Zenon, <2>1, SameDisk DEF IInv
  <1>2. /\ OnDisk(pub.rows)' /\ FillerIsCurrent' /\ BridgeDescribesContent'
        /\ CurrentIsHonest' /\ PlaceholderIsOwned' /\ AbortsHaveRoot'
    BY Zenon, <1>1, PublishedStays
  <1>3. \A t \in Tasks : TaskIsAhead(t)'
    BY Zenon, <1>1, TaskStays
  <1>4. \A e \in Edits : EditIsOnDisk(e)'
    BY Zenon DEF IInv, EditIsOnDisk
  <1>5. \A m \in Loaders : ReloadIsAhead(m)'
    <2>1. \A m \in Loaders \ {l} : ReloadIsAhead(m)'
      BY Zenon, <1>0, <1>1, ReloadStays
    <2> QED
      BY Zenon, <2>1
  <1>6. LockIsExclusive'
    BY Zenon, <1>0 DEF IInv, LockIsExclusive, Locked
  <1>7. StepIsSound
    BY Zenon, StillStep
  <1> QED
    BY Zenon, <1>1, <1>2, <1>3, <1>4, <1>5, <1>6, <1>7 DEF IInv

\* A reload that has just taken its watermark.
Started(o, r, mark) ==
    /\ o \in Reloads /\ o.pc = "build" /\ o.root = r /\ o.left = Paths
    /\ o.mark = mark /\ o.rows = NoRows /\ o.disp = NoPlan

\* No reload, one that starts, one that is to be settled and one that has published.
LEMMA StartFacts ==
    /\ NoReload \in Reloads /\ NoReload.pc = "idle"
    /\ \A r \in Roots, kind \in {"cold", "folder", "refresh"}, mark \in RowMaps :
          Started(StartReload(r, kind, mark), r, mark)
    /\ \A pc \in {"refused", "settle"} : /\ [NoReload EXCEPT !.pc = pc] \in Reloads
                                         /\ [NoReload EXCEPT !.pc = pc].pc = pc
    /\ \A r \in Roots : /\ [NoReload EXCEPT !.pc = "bind", !.root = r] \in Reloads
                        /\ [NoReload EXCEPT !.pc = "bind", !.root = r].pc = "bind"
                        /\ [NoReload EXCEPT !.pc = "bind", !.root = r].root = r
  <1>1. NoRows \in RowMaps /\ NoPlan \in Dispositions /\ NoPlan \in Plans
    BY Zenon, RowFacts DEF NoPlan, Dispositions, Plans, Kinds, FileKinds
  <1>2. /\ NoReload \in Reloads /\ NoReload.pc = "idle" /\ NoReload.rows = NoRows
        /\ NoReload.disp = NoPlan
    BY Zenon, <1>1 DEF NoReload, Reloads
  <1>3. ASSUME NEW r \in Roots, NEW kind \in {"cold", "folder", "refresh"}, NEW mark \in RowMaps
        PROVE  Started(StartReload(r, kind, mark), r, mark)
    <2>1. kind \in {"none", "cold", "folder", "refresh"}
      BY Zenon
    <2> QED
      BY Zenon, <1>2, <2>1 DEF StartReload, Started, Reloads
  <1>4. \A pc \in {"refused", "settle"} : /\ [NoReload EXCEPT !.pc = pc] \in Reloads
                                          /\ [NoReload EXCEPT !.pc = pc].pc = pc
    BY Zenon, <1>2 DEF Reloads
  <1>5. \A r \in Roots : /\ [NoReload EXCEPT !.pc = "bind", !.root = r] \in Reloads
                         /\ [NoReload EXCEPT !.pc = "bind", !.root = r].pc = "bind"
                         /\ [NoReload EXCEPT !.pc = "bind", !.root = r].root = r
    BY Zenon, <1>2 DEF Reloads
  <1> QED
    BY Zenon, <1>2, <1>3, <1>4, <1>5

\* A reload that starts has read nothing.
LEMMA StartedFacts ==
    /\ OnDisk(NoRows)
    /\ \A p \in Paths : NoRows[p] = NoRow /\ NoPlan[p] \notin Degrading
  BY Zenon, RowFacts DEF OnDisk, NoPlan, Failed, Degrading

\* index_folder and the refresh take the watermark from the published rows.
LEMMA IndexFolderKeeps ==
    ASSUME IInv, NEW l \in Loaders, RefreshTree(l) \/ \E r \in Roots : IndexFolder(l, r)
    PROVE  IInv' /\ StepIsSound
  <1>1. UNCHANGED <<disk, projectGen, pub, slots, defer, bound, watcher, task, edit, filler>>
    BY Zenon DEF IndexFolder, RefreshTree, LoadOthers
  <1>2. /\ TypeOK /\ pub.rows \in RowMaps /\ OnDisk(pub.rows) /\ bound \in Roots
        /\ projectGen \in Nat /\ watcher \in Watchers
    BY Zenon, Fields DEF IInv, TypeOK
  <1>3. PICK r \in Roots : \E kind \in {"folder", "refresh"} :
           Load(l, StartReload(r, kind, pub.rows))
    BY Zenon, <1>2 DEF IndexFolder, RefreshTree
  <1>4. PICK kind \in {"folder", "refresh"} : Load(l, StartReload(r, kind, pub.rows))
    BY Zenon, <1>3
  <1> DEFINE new == StartReload(r, kind, pub.rows)
  <1>5. Started(new, r, pub.rows) /\ Load(l, new)
    BY Zenon, <1>2, <1>4, StartFacts
  <1> HIDE DEF new
  <1>6. /\ new \in Reloads /\ new.pc = "build" /\ new.root = r /\ new.left = Paths
        /\ new.mark = pub.rows /\ new.rows = NoRows /\ new.disp = NoPlan
    BY Zenon, <1>5 DEF Started
  <1>7. reload'[l] = new
    BY Zenon, <1>5, <1>6, LoadFacts
  <1>8. ReloadIsAhead(l)'
    <2>1. OnDisk(reload[l].mark)' /\ OnDisk(reload[l].rows)'
      BY Zenon, <1>1, <1>2, <1>6, <1>7, StartedFacts DEF OnDisk
    <2> QED
      BY Zenon, <1>6, <1>7, <2>1, StartedFacts DEF ReloadIsAhead
  <1> QED
    BY Zenon, <1>1, <1>2, <1>5, <1>6, <1>8, LoadOnly

\* The walk reads a path after the watermark was taken, so not from older bytes.
LEMMA BuildReadKeeps ==
    ASSUME IInv, NEW l \in Loaders, NEW p \in Paths, BuildRead(l, p)
    PROVE  IInv' /\ StepIsSound
  <1> DEFINE o == reload[l]
             r == o.root
  <1>1. /\ o.pc = "build"
        /\ UNCHANGED <<disk, projectGen, pub, slots, defer, bound, watcher, task, edit, filler>>
    BY Zenon DEF BuildRead, LoadOthers
  <1>2. /\ TypeOK /\ r \in Roots /\ o \in Reloads /\ disk[r][p].version \in Nat
        /\ projectGen \in Nat /\ bound \in Roots /\ watcher \in Watchers
        /\ o.rows \in [Paths -> Rows] /\ o.mark \in [Paths -> Rows]
        /\ o.disp \in [Paths -> Kinds] /\ o.left \subseteq Paths
        /\ o.plan \in [Paths -> {"none", "Unavailable", "scouted"}]
        /\ o.degraded \in BOOLEAN
    BY Zenon, <1>1, Fields, RowFacts DEF IInv, ReloadIsAhead, TypeOK, Dispositions, Plans
  <1>3. /\ OnDisk(o.mark) /\ OnDisk(o.rows)
        /\ \A q \in Paths : o.disp[q] \in Degrading => o.degraded
        /\ \A q \in Paths \ o.left : NoOlder(o.rows[q], o.mark[q])
    BY Zenon, <1>1 DEF IInv, ReloadIsAhead
  <1>4. PICK seen \in Look(r, p) \cup Aborts(r, p) :
          Load(l, [o EXCEPT !.left = @ \ {p},
                            !.rows[p] = RowOf(r, seen),
                            !.disp[p] = seen.kind,
                            !.plan[p] = Scouted(seen.kind),
                            !.degraded = @ \/ seen.kind \in Degrading])
    BY Zenon DEF BuildRead
  <1> DEFINE row == RowOf(r, seen)
             kind == seen.kind
             new == [o EXCEPT !.left = @ \ {p}, !.rows[p] = row, !.disp[p] = kind,
                              !.plan[p] = Scouted(kind), !.degraded = @ \/ kind \in Degrading]
  <1>5. /\ seen \in [version : Nat, kind : Kinds] /\ kind \in Kinds
        /\ kind = "Indexed" => seen.version = disk[r][p].version
    <2>1. CASE seen \in Look(r, p)
      BY Zenon, <1>2, <2>1, LookFacts
    <2>2. CASE seen \in Aborts(r, p)
      BY <2>2, AbortsFacts
    <2> QED
      BY Zenon, <2>1, <2>2
  <1>6. /\ row \in Rows
        /\ row # NoRow => row.root = r /\ row.version = disk[r][p].version
    BY <1>2, <1>5, RowOfFacts
  <1>7. Scouted(kind) \in {"none", "Unavailable", "scouted"} /\ Load(l, new)
    BY Zenon, <1>4 DEF Scouted
  <1> HIDE DEF row, kind, o
  <1>8. /\ new \in Reloads /\ new.pc = "build" /\ new.root = r
        /\ new.left = o.left \ {p} /\ new.mark = o.mark
        /\ new.rows = [o.rows EXCEPT ![p] = row]
        /\ new.disp = [o.disp EXCEPT ![p] = kind]
        /\ new.degraded = (o.degraded \/ kind \in Degrading)
    <2>1. /\ [o.rows EXCEPT ![p] = row] \in RowMaps
          /\ [o.disp EXCEPT ![p] = kind] \in Dispositions
          /\ [o.plan EXCEPT ![p] = Scouted(kind)] \in Plans
          /\ o.left \ {p} \in SUBSET Paths
      BY Zenon, <1>2, <1>5, <1>6, <1>7, RowFacts DEF Dispositions, Plans
    <2>2. (o.degraded \/ kind \in Degrading) \in BOOLEAN
      BY Zenon
    <2> QED
      BY Zenon, <1>1, <1>2, <2>1, <2>2 DEF Reloads
  <1> HIDE DEF new
  <1>9. /\ reload'[l] = new
        /\ \A q \in Paths : /\ new.rows[q] = IF q = p THEN row ELSE o.rows[q]
                            /\ new.disp[q] = IF q = p THEN kind ELSE o.disp[q]
    BY Zenon, <1>2, <1>7, <1>8, LoadFacts
  <1>10. OnDisk(new.mark) /\ OnDisk(new.rows)
    BY <1>2, <1>3, <1>6, <1>8, <1>9 DEF OnDisk
  <1>11. \A q \in Paths : new.disp[q] \in Degrading => new.degraded
    BY Zenon, <1>3, <1>8, <1>9
  <1>12. NoOlder(row, o.mark[p])
    <2> SUFFICES ASSUME row # NoRow, o.mark[p].root = row.root
                 PROVE  o.mark[p].version <= row.version
      BY Zenon, <1>2, RowFacts DEF NoOlder
    <2>1. o.mark[p] # NoRow
      BY Zenon, <1>2, <1>6, RowFacts, ConstantsOK
    <2> QED
      BY Zenon, <1>3, <1>6, <2>1 DEF OnDisk
  <1>13. \A q \in Paths \ new.left : NoOlder(new.rows[q], new.mark[q])
    BY Zenon, <1>3, <1>8, <1>9, <1>12
  <1>14. ReloadIsAhead(l)'
    <2>1. OnDisk(reload[l].mark)' /\ OnDisk(reload[l].rows)'
      BY Zenon, <1>1, <1>9, <1>10 DEF OnDisk
    <2> QED
      BY Zenon, <1>2, <1>8, <1>9, <1>11, <1>13, <2>1 DEF ReloadIsAhead, NoOlder
  <1> QED
    BY Zenon, <1>1, <1>2, <1>7, <1>8, <1>14, LoadOnly

\* A reload that is given up, refused or bound leaves nothing behind.
LEMMA IdleKeeps ==
    ASSUME IInv, NEW l \in Loaders, AbandonReload(l) \/ RefuseReload(l) \/ Rebind(l)
    PROVE  IInv' /\ StepIsSound
  <1>1. UNCHANGED <<disk, projectGen, pub, slots, defer, task, edit, filler>>
    BY Zenon DEF AbandonReload, RefuseReload, Rebind, LoadOthers
  <1>2. PICK new \in Reloads : new.pc \in {"idle", "refused", "settle"} /\ Load(l, new)
    BY Zenon, StartFacts DEF AbandonReload, RefuseReload, Rebind, Fail
  <1>3. TypeOK /\ projectGen \in Nat
    BY Zenon DEF IInv, TypeOK
  <1>4. bound' \in Roots /\ watcher' \in Watchers
    <2>1. CASE Rebind(l)
      <3>1. reload[l].root \in Roots
        BY Zenon, <2>1 DEF Rebind, IInv, ReloadIsAhead
      <3> QED
        BY Zenon, <2>1, <3>1 DEF Rebind, Watchers
    <2>2. CASE UNCHANGED <<bound, watcher>>
      BY Zenon, <1>3, <2>2 DEF TypeOK
    <2> QED
      BY Zenon, <2>1, <2>2 DEF AbandonReload, RefuseReload, LoadOthers
  <1>5. ReloadIsAhead(l)'
    BY Zenon, <1>2, LoadFacts DEF ReloadIsAhead
  <1> QED
    BY Zenon, <1>1, <1>2, <1>3, <1>4, <1>5, LoadOnly

\* The error of a cold load is settled on the placeholder: the rows and the
\* manifest stay as they are.
LEMMA SettleKeeps ==
    ASSUME IInv, NEW l \in Loaders, DegradeOnCapacity(l) \/ SettleEmpty(l)
    PROVE  IInv' /\ StepIsSound
  <1>1. /\ ~Locked /\ task' = Outdated
        /\ UNCHANGED <<disk, projectGen, slots, bound, watcher, edit>>
    BY Zenon DEF DegradeOnCapacity, SettleEmpty
  <1>2. /\ pub.reasons \in SUBSET Reasons /\ slots \in RowMaps /\ watcher \in Watchers
        /\ OnDisk(pub.rows)
    BY Zenon, Fields DEF IInv, TypeOK
  <1>3. PICK new \in Reloads : new.pc \in {"idle", "settle"} /\ Load(l, new)
    BY Zenon, StartFacts DEF DegradeOnCapacity, SettleEmpty
  <1>4. LoadsRest
    BY Zenon, <1>3, LoadFacts DEF LoadsRest
  <1>5. PICK R \in SUBSET Reasons : \E live :
              /\ live = Retained(R) \/ live = [Retained(R) EXCEPT !.empty = TRUE]
              /\ swap_and_publish(live, FALSE) /\ (R = {} => pub.reasons = {})
              /\ pub.reasons \subseteq R \/ DegradeOnCapacity(l)
    <2>1. {"CatalogCapacity"} \in SUBSET Reasons /\ {"CatalogCapacity"} # {}
      BY Zenon DEF Reasons
    <2> QED
      BY Zenon, <1>2, <2>1 DEF DegradeOnCapacity, SettleEmpty
  <1>6. PICK live :
              /\ live = Retained(R) \/ live = [Retained(R) EXCEPT !.empty = TRUE]
              /\ swap_and_publish(live, FALSE) /\ (R = {} => pub.reasons = {})
              /\ pub.reasons \subseteq R \/ DegradeOnCapacity(l)
    BY Zenon, <1>5
  <1>7. /\ Sound(live) /\ live.rows = pub.rows
    BY Zenon, <1>6, RetainedFacts
  <1>8. live.disp = pub.disp /\ live.reasons = R
    <2>1. CASE live = Retained(R)
      BY Zenon, <2>1 DEF Retained
    <2>2. CASE live = [Retained(R) EXCEPT !.empty = TRUE]
      BY Zenon, <2>2 DEF Retained
    <2> QED
      BY Zenon, <1>6, <2>1, <2>2
  <1>9. pub'.rows = pub.rows /\ pub'.disp = pub.disp /\ pub'.reasons = R
    BY Zenon, <1>6, <1>7, <1>8, SwapFacts
  <1>10. IInv'
    BY Zenon, <1>1, <1>2, <1>4, <1>6, <1>7, FilePublication DEF EditsRest
  <1>11. StepIsSound
    BY Zenon, <1>1, <1>6, <1>9, StillStep
  <1> QED
    BY Zenon, <1>10, <1>11

\* The merge under the lock carries over what was admitted since the watermark,
\* so that no path is behind the index that is still published.
LEMMA CommitKeeps ==
    ASSUME IInv, NEW l \in Loaders, CommitReload(l)
    PROVE  IInv' /\ StepIsSound
  <1> DEFINE o == reload[l]
             rows == [p \in Paths |-> IF Carried(l, p) THEN pub.rows[p] ELSE o.rows[p]]
             disp == [p \in Paths |-> IF Carried(l, p) THEN "Indexed" ELSE o.disp[p]]
             new == [o EXCEPT !.pc = "commit", !.rows = rows, !.disp = disp]
  <1>1. /\ o.pc = "build" /\ o.left = {} /\ ~Locked
        /\ projectGen' = projectGen + 1 /\ \A p \in Paths : ~Conflicts(l, p)
        /\ Load(l, new)
        /\ UNCHANGED <<disk, pub, slots, defer, bound, watcher, task, edit, filler>>
    BY Zenon DEF CommitReload
  <1>2. /\ TypeOK /\ o \in Reloads /\ bound \in Roots /\ watcher \in Watchers
        /\ o.rows \in [Paths -> Rows] /\ o.mark \in [Paths -> Rows]
        /\ pub.rows \in [Paths -> Rows] /\ o.disp \in [Paths -> Kinds]
        /\ OnDisk(pub.rows) /\ projectGen \in Nat
    BY Zenon, Fields, RowFacts DEF IInv, TypeOK, Dispositions
  <1>3. /\ o.root \in Roots /\ OnDisk(o.mark) /\ OnDisk(o.rows)
        /\ \A p \in Paths : o.disp[p] \in Degrading => o.degraded
        /\ \A p \in Paths : NoOlder(o.rows[p], o.mark[p])
    <2>1. ReloadIsAhead(l)
      BY Zenon DEF IInv
    <2> QED
      BY Zenon, <1>1, <2>1 DEF ReloadIsAhead
  <1>4. /\ rows \in RowMaps /\ disp \in Dispositions
        /\ \A p \in Paths : /\ rows[p] = IF Carried(l, p) THEN pub.rows[p] ELSE o.rows[p]
                            /\ disp[p] = IF Carried(l, p) THEN "Indexed" ELSE o.disp[p]
    BY Zenon, <1>2, RowFacts DEF Dispositions, Kinds, FileKinds
  <1>5. projectGen' \in Nat
    BY <1>1, <1>2
  <1> HIDE DEF rows, disp, o
  <1>6. /\ new \in Reloads /\ new.pc = "commit" /\ new.root = o.root
        /\ new.mark = o.mark /\ new.rows = rows /\ new.disp = disp
        /\ new.degraded = o.degraded
    BY Zenon, <1>2, <1>4 DEF Reloads
  <1> HIDE DEF new
  <1>7. OnDisk(rows) /\ \A p \in Paths : disp[p] \in Degrading => o.degraded
    BY Zenon, <1>2, <1>3, <1>4 DEF OnDisk, Degrading, Failed
  <1>8. ASSUME NEW p \in Paths
        PROVE  /\ NoOlder(rows[p], pub.rows[p])
               /\ pub.rows[p] # NoRow /\ pub.rows[p] # o.mark[p] => rows[p] = pub.rows[p]
    <2>1. CASE ChangedSinceWatermark(l, p)
      <3>1. rows[p] = pub.rows[p]
        BY Zenon, <1>1, <1>4, <2>1 DEF Conflicts, Carried, o
      <3> QED
        BY Zenon, <1>2, <3>1, RowFacts
    <2>2. CASE ~ChangedSinceWatermark(l, p)
      <3>1. rows[p] = o.rows[p] /\ (pub.rows[p] = NoRow \/ pub.rows[p] = o.mark[p])
        BY Zenon, <1>4, <2>2 DEF Carried, ChangedSinceWatermark, o
      <3> QED
        BY Zenon, <1>2, <1>3, <2>2, <3>1, RowFacts
    <2> QED
      BY Zenon, <2>1, <2>2
  <1>9. reload'[l] = new
    BY Zenon, <1>1, <1>6, LoadFacts
  <1>10. ReloadIsAhead(l)'
    <2>1. OnDisk(reload[l].mark)' /\ OnDisk(reload[l].rows)'
      BY Zenon, <1>1, <1>3, <1>6, <1>7, <1>9 DEF OnDisk
    <2>2. \A p \in Paths : /\ NoOlder(reload[l].rows[p], pub.rows[p])'
                           /\ ChangedSinceWatermark(l, p)' => reload'[l].rows[p] = pub'.rows[p]
      BY Zenon, <1>1, <1>6, <1>8, <1>9 DEF NoOlder, ChangedSinceWatermark
    <2> QED
      BY Zenon, <1>3, <1>6, <1>7, <1>9, <2>1, <2>2 DEF ReloadIsAhead
  <1> QED
    BY Zenon, <1>1, <1>2, <1>5, <1>6, <1>10, LoadOnly

\* The rest of the commit publishes the merged index; the baselines it leaves are
\* the rows it replaces, or those of the paths it does not change.
LEMMA PublishReloadKeeps ==
    ASSUME IInv, NEW l \in Loaders, PublishReload(l)
    PROVE  IInv' /\ StepIsSound
  <1> DEFINE o == reload[l]
  <1>1. /\ o.pc = "commit" /\ task' = Outdated
        /\ UNCHANGED <<disk, projectGen, bound, watcher, edit>>
    BY Zenon DEF PublishReload
  <1>2. PICK replaced \in {FALSE, "Replaced" \in Faults} :
           /\ swap_and_publish(Replacement(l, replaced), TRUE)
           /\ slots' = changed_file_baselines(l) \/ slots' = NoRows
    BY Zenon DEF PublishReload
  <1>3. /\ o.rows \in [Paths -> Rows] /\ pub.rows \in [Paths -> Rows]
        /\ slots \in [Paths -> Rows] /\ o.disp \in Dispositions
        /\ o.plan \in Plans /\ o.degraded \in BOOLEAN /\ pub.reasons \in SUBSET Reasons
        /\ TypeOK /\ LockIsExclusive
    BY Zenon, Fields, RowFacts DEF IInv, TypeOK
  <1>4. /\ o.root \in Roots /\ OnDisk(o.rows)
        /\ \A p \in Paths : /\ o.disp[p] \in Degrading => o.degraded
                            /\ NoOlder(o.rows[p], pub.rows[p])
                            /\ ChangedSinceWatermark(l, p) => o.rows[p] = pub.rows[p]
    <2>1. ReloadIsAhead(l)
      BY Zenon DEF IInv
    <2> QED
      BY Zenon, <1>1, <2>1 DEF ReloadIsAhead
  <1>5. PICK new \in Reloads :
           /\ Load(l, new) /\ new.pc \in {"idle", "bind"}
           /\ new.pc = "bind" => new.root \in Roots
    <2>1. CASE Load(l, NoReload)
      BY Zenon, <2>1, StartFacts
    <2>2. CASE Load(l, [NoReload EXCEPT !.pc = "bind", !.root = o.root])
      BY Zenon, <1>4, <2>2, StartFacts
    <2> QED
      BY Zenon, <2>1, <2>2 DEF PublishReload
  <1> DEFINE live == Replacement(l, replaced)
             R == reload_reasons(l, replaced)
  <1>6. /\ R \in SUBSET Reasons /\ (o.degraded => R # {})
        /\ "WatcherUnavailable" \in pub.reasons => "WatcherUnavailable" \in R
    BY Zenon, <1>3 DEF reload_reasons, Reasons
  <1> HIDE DEF R
  <1>7. /\ live \in Lives /\ live.rows = o.rows /\ live.disp = o.disp /\ live.reasons = R
        /\ live.root = o.root
    BY Zenon, <1>3, <1>4, <1>6, RowFacts DEF Replacement, Lives, R
  <1> HIDE DEF live, o
  <1>8. /\ Failed \subseteq Degrading /\ "Aborted" \in Degrading /\ o.root # NoRoot
    BY Zenon, <1>4, ConstantsOK DEF Degrading
  <1>9. Sound(live)
    BY Zenon, <1>4, <1>6, <1>7, <1>8 DEF Sound
  <1>10. \A p \in Paths : ~(live.disp[p] = "Aborted" /\ live.reasons = {})
    BY Zenon, <1>4, <1>6, <1>7, <1>8
  <1>11. /\ pub' \in Publications /\ filler' \in Fillers /\ defer' \in BOOLEAN
         /\ pub'.rows = o.rows /\ pub'.disp = live.disp /\ pub'.reasons = live.reasons
         /\ FillerIsCurrent' /\ BridgeDescribesContent' /\ CurrentIsHonest'
         /\ PlaceholderIsOwned' /\ AbortsHaveRoot'
    <2>1. TRUE \in BOOLEAN
      BY Zenon
    <2> QED
      BY Zenon, <1>2, <1>7, <1>9, <2>1, SwapFacts DEF live
  <1>12. task' \in [Tasks -> TaskRecords] /\ \A t \in Tasks : TaskIsAhead(t)'
    BY Zenon, <1>1, OutdatedFacts
  <1>13. /\ slots' \in [Paths -> Rows]
         /\ \A p \in Paths : slots'[p] # NoRow =>
               slots'[p] = IF o.rows[p] = pub.rows[p] THEN slots[p] ELSE pub.rows[p]
    <2>1. CASE slots' = NoRows
      BY Zenon, <2>1, RowFacts
    <2>2. CASE slots' = changed_file_baselines(l)
      BY Zenon, <1>3, <2>2, RowFacts DEF changed_file_baselines, o
    <2> QED
      BY Zenon, <1>2, <2>1, <2>2
  <1>14. /\ reload' \in [Loaders -> Reloads] /\ reload'[l] = new
         /\ \A m \in Loaders \ {l} : reload'[m] = reload[m]
    BY Zenon, <1>5, LoadFacts
  <1>15. TypeOK'
    BY Zenon, <1>1, <1>3, <1>11, <1>12, <1>13, <1>14, RowFacts DEF TypeOK
  <1>16. DiskGrows
    BY Zenon, <1>1, <1>3, SameDisk
  <1>17. \A m \in Loaders : ReloadIsAhead(m)'
    <2>1. ReloadIsAhead(l)'
      BY Zenon, <1>5, <1>14 DEF ReloadIsAhead
    <2>2. \A m \in Loaders \ {l} : reload[m].pc # "commit"
      BY Zenon, <1>1, <1>3 DEF LockIsExclusive, o
    <2>3. \A m \in Loaders \ {l} : ReloadIsAhead(m)'
      BY Zenon, <1>14, <1>15, <1>16, <2>2, ReloadStays
    <2> QED
      BY Zenon, <2>1, <2>3
  <1>18. LockIsExclusive'
    BY Zenon, <1>3, <1>5, <1>14 DEF LockIsExclusive
  <1>19. OnDisk(pub.rows)' /\ \A e \in Edits : EditIsOnDisk(e)'
    BY Zenon, <1>1, <1>4, <1>11 DEF OnDisk, IInv, EditIsOnDisk
  <1>20. IInv'
    BY Zenon, <1>11, <1>12, <1>15, <1>17, <1>18, <1>19 DEF IInv
  <1>21. StepIsSound
    <2>1. "WatcherUnavailable" \in pub.reasons => "WatcherUnavailable" \in pub'.reasons
      BY Zenon, <1>6, <1>7, <1>11
    <2>2. \A p \in Paths : pub.rows[p].root = pub'.rows[p].root =>
                              pub'.rows[p].version >= pub.rows[p].version
      <3>1. \A p \in Paths : pub.rows[p].version \in Nat /\ o.rows[p].version \in Nat
        BY Zenon, <1>3, RowFacts
      <3> QED
        BY Zenon, <1>4, <1>11, <3>1 DEF NoOlder
    <2>3. \A p \in Paths : ~(pub'.disp[p] = "Aborted" /\ pub'.reasons = {})
      BY Zenon, <1>10, <1>11
    <2>4. \A p \in Paths : slots'[p] # NoRow =>
             slots'[p] = IF pub'.rows[p] = pub.rows[p] THEN slots[p] ELSE pub.rows[p]
      BY Zenon, <1>11, <1>13
    <2>5. \A m \in Loaders, p \in Paths :
             reload[m].pc = "commit" /\ ChangedSinceWatermark(m, p) => pub'.rows[p] = pub.rows[p]
      BY Zenon, <1>1, <1>3, <1>4, <1>11 DEF LockIsExclusive, o
    <2> QED
      BY Zenon, <2>1, <2>2, <2>3, <2>4, <2>5 DEF StepIsSound
  <1> QED
    BY Zenon, <1>20, <1>21

\* The steps of the reloads.
LEMMA LoaderStepKeeps ==
    ASSUME IInv, NEW l \in Loaders, LoaderStep(l)
    PROVE  IInv' /\ StepIsSound
  <1>1. CASE RefreshTree(l) \/ \E r \in Roots : IndexFolder(l, r)
    BY Zenon, <1>1, IndexFolderKeeps
  <1>2. CASE \E p \in Paths : BuildRead(l, p)
    BY Zenon, <1>2, BuildReadKeeps
  <1>3. CASE AbandonReload(l) \/ RefuseReload(l) \/ Rebind(l)
    BY Zenon, <1>3, IdleKeeps
  <1>4. CASE DegradeOnCapacity(l) \/ SettleEmpty(l)
    BY Zenon, <1>4, SettleKeeps
  <1>5. CASE CommitReload(l)
    BY Zenon, <1>5, CommitKeeps
  <1>6. CASE PublishReload(l)
    BY Zenon, <1>6, PublishReloadKeeps
  <1> QED
    BY Zenon, <1>1, <1>2, <1>3, <1>4, <1>5, <1>6 DEF LoaderStep

-----------------------------------------------------------------------------
(* The thread that fills in the bridge.                                    *)

\* A step of the filler replaces at most the bridge.
LEMMA FillerOnly ==
    ASSUME IInv, filler' \in Fillers, UNCHANGED FillerOthers,
           NEW b \in Bridges, pub' = [pub EXCEPT !.bridge = b],
           b.kind = "built" => b.of = pub.rows,
           b.kind = "Loading" => filler'.pc # "none",
           filler'.pc = "built" => filler'.left # 0 /\ filler'.of = pub.rows,
           filler.pc # "none"
    PROVE  IInv' /\ StepIsSound
  <1>1. /\ TypeOK /\ FillerIsCurrent
        /\ UNCHANGED <<disk, projectGen, bound, watcher, reload, edit, slots, defer, task>>
    BY Zenon DEF IInv, FillerOthers, Others
  <1>2. /\ pub' \in Publications /\ pub'.bridge = b /\ pub'.rows = pub.rows
        /\ pub'.disp = pub.disp /\ pub'.reasons = pub.reasons /\ pub'.root = pub.root
    BY Zenon, <1>1 DEF TypeOK, Publications
  <1>3. TypeOK' /\ DiskGrows
    <2>1. TypeOK'
      BY Zenon, <1>1, <1>2 DEF TypeOK
    <2> QED
      BY Zenon, <1>1, <1>2, <2>1, SameDisk
  <1>4. \A t \in Tasks : TaskIsAhead(t)'
    BY ZenonT(40), <1>1, <1>2, <1>3, TaskStays
  <1>5. LockIsExclusive' /\ \A l \in Loaders : ReloadIsAhead(l)'
    BY Zenon, <1>1, <1>2, <1>3, SameLoads, LoadsStay
  <1>6. OnDisk(pub.rows)' /\ \A e \in Edits : EditIsOnDisk(e)'
    BY Zenon, <1>1, <1>2 DEF IInv, OnDisk, EditIsOnDisk
  <1>7. FillerIsCurrent'
    BY Zenon, <1>1, <1>2 DEF FillerIsCurrent
  <1>8. BridgeDescribesContent' /\ CurrentIsHonest' /\ PlaceholderIsOwned' /\ AbortsHaveRoot'
    BY Zenon, <1>2 DEF IInv, BridgeDescribesContent, CurrentIsHonest, PlaceholderIsOwned,
       Loading, AbortsHaveRoot
  <1>9. StepIsSound
    BY Zenon, <1>1, <1>2, StillStep
  <1> QED
    BY Zenon, <1>1, <1>3, <1>4, <1>5, <1>6, <1>7, <1>8, <1>9 DEF IInv

\* Every step of the filler is such a step.
LEMMA FillerKeeps ==
    ASSUME IInv, FillCapture \/ FillPublish \/ FillPanics \/ FillAbandon
    PROVE  IInv' /\ StepIsSound
  <1>0. /\ TypeOK /\ filler \in Fillers /\ pub \in Publications /\ pub.bridge \in Bridges
        /\ pub.rows \in RowMaps /\ pub.project \in Nat /\ filler.left \in Nat
        /\ filler.of \in RowMaps
        /\ NoRows \in RowMaps /\ FillerIsCurrent /\ BridgeDescribesContent
        /\ UNCHANGED FillerOthers /\ filler.pc # "none"
    <2>1. UNCHANGED FillerOthers /\ filler.pc # "none"
      BY Zenon DEF FillCapture, FillPublish, FillPanics, FillAbandon
    <2> QED
      BY Zenon, <2>1, Fields, RowFacts DEF IInv, TypeOK
  <1>1. /\ pub = [pub EXCEPT !.bridge = pub.bridge]
        /\ pub.bridge.kind = "built" => pub.bridge.of = pub.rows
    BY Zenon, <1>0 DEF Publications, BridgeDescribesContent
  <1>2. NoFiller \in Fillers /\ NoFiller.pc = "none"
    BY Zenon, <1>0 DEF NoFiller, Fillers
  <1>3. CASE FillCapture
    <2>1. UNCHANGED pub
      BY Zenon, <1>3 DEF FillCapture
    <2>2. CASE Loading
      <3>1. /\ filler' \in Fillers /\ filler'.pc = "built" /\ filler'.of = pub.rows
            /\ filler'.left = filler.left /\ filler.left > 0
        BY Zenon, <1>0, <1>3, <2>2 DEF FillCapture, Fillers
      <3> QED
        BY <1>0, <1>1, <2>1, <3>1, FillerOnly
    <2>3. CASE ~Loading
      <3>1. filler' = NoFiller
        BY Zenon, <1>3, <2>3 DEF FillCapture
      <3> QED
        BY Zenon, <1>0, <1>1, <1>2, <2>1, <2>3, <3>1, FillerOnly DEF Loading
    <2> QED
      BY Zenon, <2>2, <2>3
  <1>4. CASE FillPublish
    <2>1. CASE Loading /\ filler.fresh /\ pub.project = filler.project
      <3> DEFINE b == Built(filler.of)
      <3>1. b \in Bridges /\ b.kind = "built" /\ b.of = filler.of
        BY Zenon, <1>0 DEF Built, Bridges
      <3>2. filler.of = pub.rows /\ filler' = NoFiller /\ pub' = [pub EXCEPT !.bridge = b]
        BY Zenon, <1>0, <1>4, <2>1 DEF FillPublish, FillerIsCurrent
      <3> HIDE DEF b
      <3> QED
        BY Zenon, <1>0, <1>2, <3>1, <3>2, FillerOnly
    <2>2. CASE ~(Loading /\ filler.fresh /\ pub.project = filler.project)
      <3>1. /\ filler.pc = "built" /\ UNCHANGED pub
            /\ filler' = [NoFiller EXCEPT !.pc = "fill", !.left = filler.left - 1]
        BY Zenon, <1>4, <2>2 DEF FillPublish
      <3>2. filler.left - 1 \in Nat
        BY <1>0, <3>1 DEF FillerIsCurrent
      <3>3. filler' \in Fillers /\ filler'.pc = "fill"
        BY Zenon, <1>2, <3>1, <3>2 DEF Fillers
      <3> QED
        BY Zenon, <1>0, <1>1, <3>1, <3>3, FillerOnly
    <2> QED
      BY Zenon, <2>1, <2>2
  <1>5. CASE FillPanics
    <2>1. filler' \in Fillers /\ filler'.pc = "abandon" /\ UNCHANGED pub
      BY Zenon, <1>2, <1>5 DEF FillPanics, Fillers
    <2> QED
      BY Zenon, <1>0, <1>1, <2>1, FillerOnly
  <1>6. CASE FillAbandon
    <2>1. filler' = NoFiller
      BY Zenon, <1>6 DEF FillAbandon
    <2>2. CASE Loading
      <3> DEFINE b == Unbuilt("Truncated")
      <3>1. b \in Bridges /\ b.kind = "Truncated"
        BY Zenon, <1>0 DEF Unbuilt, Bridges
      <3>2. pub' = [pub EXCEPT !.bridge = b]
        BY Zenon, <1>6, <2>2 DEF FillAbandon
      <3> HIDE DEF b
      <3> QED
        BY Zenon, <1>0, <1>2, <2>1, <3>1, <3>2, FillerOnly
    <2>3. CASE ~Loading
      <3>1. UNCHANGED pub
        BY Zenon, <1>6, <2>3 DEF FillAbandon
      <3> QED
        BY Zenon, <1>0, <1>1, <1>2, <2>1, <2>3, <3>1, FillerOnly DEF Loading
    <2> QED
      BY Zenon, <2>2, <2>3
  <1> QED
    BY Zenon, <1>3, <1>4, <1>5, <1>6

-----------------------------------------------------------------------------
(* The theorems.                                                           *)

\* A start, with or without cold loads, satisfies the invariant.
LEMMA InitKeeps ==
    ASSUME Init
    PROVE  IInv
  <1>1. /\ NoRows \in RowMaps /\ NoPlan \in Dispositions /\ NoPlan \in Plans
        /\ \A p \in Paths : NoRows[p] = NoRow /\ NoPlan[p] = "none"
    BY Zenon, RowFacts DEF NoPlan, Dispositions, Plans, Kinds, FileKinds
  <1>2. /\ pub \in Publications /\ pub.rows = NoRows /\ pub.disp = NoPlan
        /\ pub.bridge.kind = "default"
    <2> DEFINE E == ColdLoads = {}
    <2>1. E \in BOOLEAN
      BY Zenon
    <2>2. pub = [project |-> 0, rows |-> NoRows, disp |-> NoPlan, plan |-> NoPlan,
                 degraded |-> FALSE, root |-> NoRoot, bootstrap |-> TRUE, empty |-> E,
                 reasons |-> {}, bridge |-> Unbuilt("default")]
      BY Zenon DEF Init
    <2> HIDE DEF E
    <2> QED
      BY Zenon, <1>1, <2>1, <2>2 DEF Publications, Unbuilt, Bridges
  <1>3. disk \in [Roots -> [Paths -> Looks]]
    <2>1. PICK D : D = {NoFile, [version |-> 1, kind |-> "Indexed"]}
      BY Zenon
    <2>2. D \subseteq Looks
      BY <2>1 DEF NoFile, FileKinds, Looks
    <2>3. disk \in [Roots -> [Paths -> D]]
      BY Zenon, <2>1 DEF Init
    <2> QED
      BY Zenon, <2>2, <2>3
  <1>4. /\ filler \in Fillers /\ filler.pc = "none" /\ watcher \in Watchers /\ bound \in Roots
    BY Zenon, <1>1 DEF Init, NoFiller, Fillers, Watchers
  <1>5. /\ NoTask \in TaskRecords /\ NoTask.pc = "idle"
        /\ NoEdit \in EditRecords /\ NoEdit.pc = "idle"
    BY Zenon, NoTaskFacts
  <1>6. /\ task \in [Tasks -> TaskRecords] /\ \A t \in Tasks : task[t].pc = "idle"
        /\ edit \in [Edits -> EditRecords] /\ \A e \in Edits : edit[e].pc = "idle"
    BY Zenon, <1>5 DEF Init
  <1>7. /\ NoReload \in Reloads /\ NoReload.pc = "idle"
        /\ Started(StartReload(bound, "cold", NoRows), bound, NoRows)
    BY Zenon, <1>1, <1>4, StartFacts
  <1>8. /\ reload \in [Loaders -> Reloads]
        /\ \A l \in Loaders : reload[l].pc = "idle" \/ Started(reload[l], bound, NoRows)
    BY Zenon, <1>7 DEF Init, Started
  <1>9. ASSUME NEW l \in Loaders
        PROVE  ReloadIsAhead(l) /\ reload[l].pc # "commit"
    BY Zenon, <1>4, <1>8, StartedFacts DEF Started, ReloadIsAhead
  <1>10. TypeOK
    BY Zenon, <1>1, <1>2, <1>3, <1>4, <1>6, <1>8 DEF Init, TypeOK
  <1>11. /\ FillerIsCurrent /\ BridgeDescribesContent /\ CurrentIsHonest
         /\ PlaceholderIsOwned /\ AbortsHaveRoot /\ OnDisk(pub.rows)
    BY Zenon, <1>1, <1>2, <1>4, StartedFacts
       DEF FillerIsCurrent, BridgeDescribesContent, CurrentIsHonest, PlaceholderIsOwned,
           Loading, Failed, AbortsHaveRoot
  <1>12. \A t \in Tasks : TaskIsAhead(t)
    BY Zenon, <1>6 DEF TaskIsAhead
  <1>13. \A e \in Edits : EditIsOnDisk(e)
    BY Zenon, <1>6 DEF EditIsOnDisk
  <1>14. LockIsExclusive
    BY Zenon, <1>9 DEF LockIsExclusive
  <1> QED
    BY Zenon, <1>9, <1>10, <1>11, <1>12, <1>13, <1>14 DEF IInv

\* Every step keeps the invariant and the five action properties.
LEMMA NextKeeps ==
    ASSUME IInv, [Next]_vars
    PROVE  IInv' /\ StepIsSound
  <1>1. CASE UNCHANGED vars
    <2>1. UNCHANGED <<disk, projectGen, pub, slots, defer, bound, watcher, reload, task, edit,
                      filler>>
      BY Zenon, <1>1 DEF vars
    <2>2. TypeOK' /\ DiskGrows
      <3>1. TypeOK'
        BY Zenon, <2>1 DEF IInv, TypeOK
      <3> QED
        BY Zenon, <2>1, <3>1, SameDisk DEF IInv
    <2>3. \A e \in Edits : EditIsOnDisk(e)'
      BY Zenon, <2>1 DEF IInv, EditIsOnDisk
    <2> QED
      BY Zenon, <2>1, <2>2, <2>3, OutsideKeeps
  <1>2. CASE \E r \in Roots, p \in Paths : WriteFile(r, p) \/ DeleteFile(r, p)
    BY Zenon, <1>2, DiskKeeps
  <1>3. CASE WatcherStarts \/ WatcherFails \/ LatchGap \/ RetainContent
    BY Zenon, <1>3, WatcherKeeps
  <1>4. CASE \E l \in Loaders : LoaderStep(l)
    BY Zenon, <1>4, LoaderStepKeeps
  <1>5. CASE \E t \in Tasks : TaskStep(t)
    BY Zenon, <1>5, TaskStepKeeps
  <1>6. CASE \E e \in Edits : EditStep(e)
    BY Zenon, <1>6, EditStepKeeps
  <1>7. CASE FillCapture \/ FillPublish \/ FillPanics \/ FillAbandon
    BY <1>7, FillerKeeps
  <1> QED
    BY <1>1, <1>2, <1>3, <1>4, <1>5, <1>6, <1>7 DEF Next

\* Whatever the file system, the watcher, the requests, the edits, the reloads and
\* the filler do, in any number and any order, the published generation, what the
\* reloads have read, what the single-file publications and the edits are about to
\* publish and what the filler builds from fit each other: what is published next
\* is on the disk, hides no failed read and, but for update_file, is not older.
THEOREM PublicationInvariant == Spec => []IInv
  BY InitKeeps, NextKeeps, PTL DEF Spec

\* A finished knowledge bridge was built from the rows it is published with
\* (publish_deferred_knowledge, swap_and_publish).
THEOREM BridgesFit == Spec => []BridgeDescribesContent
  <1>1. IInv => BridgeDescribesContent
    BY Zenon DEF IInv
  <1> QED
    BY <1>1, PublicationInvariant, PTL

\* An index reported as current has no path it failed to read, be the status that
\* of a reload, of a recomputation (recompute_freshness_locked) or one that an edit
\* retains.  A path the circuit breaker dropped is not a failed read: see
\* AbortsAreCovered.
THEOREM NoFailureIsHidden == Spec => []CurrentIsHonest
  <1>1. IInv => CurrentIsHonest
    BY Zenon DEF IInv
  <1> QED
    BY <1>1, PublicationInvariant, PTL

\* While the placeholder bridge is published its filler runs: what
\* wait_until_knowledge_bridge_published waits for can still come.
THEOREM PlaceholdersAreOwned == Spec => []PlaceholderIsOwned
  <1>1. IInv => PlaceholderIsOwned
    BY Zenon DEF IInv
  <1> QED
    BY <1>1, PublicationInvariant, PTL

\* An index that turns current with a path the circuit breaker dropped does so by
\* the removal of a path (scout_plan_without_path_locked), and by nothing else:
\* not by a reload, a re-indexed path or an edit.
THEOREM AbortsAreCovered == Spec => AbortsAreReported
  <1>1. IInv /\ [Next]_vars =>
          [\A p \in Paths :
              pub'.disp[p] = "Aborted" /\ pub'.reasons = {} =>
                 \/ pub.disp[p] = "Aborted" /\ pub.reasons = {}
                 \/ \E t \in Tasks : Remove(t)]_vars
    BY Zenon, NextKeeps DEF StepIsSound
  <1> QED
    BY <1>1, PublicationInvariant, PTL DEF Spec, AbortsAreReported

\* No event, request or reload replaces a row by one read from older bytes of its
\* root, with any number of them, and of edits, at work: the fence of a single-file
\* publication and the merge of a reload see to it.  The one step that may is the
\* update_file of an edit, which has neither.
THEOREM RowsOnlyAdvance == Spec => RowsNeverGoBack
  <1>1. IInv /\ [Next]_vars =>
          [\/ \A p \in Paths : pub.rows[p].root = pub'.rows[p].root =>
                                  pub'.rows[p].version >= pub.rows[p].version
           \/ \E e \in Edits : UpdateFile(e)]_vars
    BY Zenon, NextKeeps DEF StepIsSound
  <1> QED
    BY <1>1, PublicationInvariant, PTL DEF Spec, RowsNeverGoBack

\* The merge of a reload loses no row admitted while it was building, by a task, an
\* edit or another reload (merge_post_watermark_live_admissions).
THEOREM AdmissionsAreMerged == Spec => AdmissionsSurviveReload
  <1>1. IInv /\ [Next]_vars =>
          [\A l \in Loaders, p \in Paths :
              reload[l].pc = "commit" /\ reload'[l].pc # "commit" /\ ChangedSinceWatermark(l, p) =>
                 pub'.rows[p] = pub.rows[p]]_vars
    BY Zenon, NextKeeps DEF StepIsSound
  <1> QED
    BY <1>1, PublicationInvariant, PTL DEF Spec, AdmissionsSurviveReload

\* A pre-update baseline is the row its path had just before the present one, after
\* the publications of single files and the refreshes of a whole tree
\* (changed_file_baselines) alike; only an update_file that finds its own bytes
\* published leaves the present row.
THEOREM BaselinesAreNeighbours == Spec => BaselineIsPredecessor
  <1>1. IInv /\ [Next]_vars =>
          [\A p \in Paths :
              slots'[p] # NoRow =>
                 \/ slots'[p] = IF pub'.rows[p] = pub.rows[p] THEN slots[p] ELSE pub.rows[p]
                 \/ slots'[p] = pub.rows[p] /\ \E e \in Edits : edit[e].path = p /\ UpdateFile(e)]_vars
    BY Zenon, NextKeeps DEF StepIsSound
  <1> QED
    BY <1>1, PublicationInvariant, PTL DEF Spec, BaselineIsPredecessor

\* A latched observer gap outlives every later publication but one: the status that
\* degrade_on_capacity_refusal stores for a cold load names the capacity alone.
THEOREM GapsAreKept == Spec => GapStays
  <1>1. IInv /\ [Next]_vars =>
          [("WatcherUnavailable" \in pub.reasons) =>
              \/ "WatcherUnavailable" \in pub'.reasons
              \/ \E l \in Loaders : DegradeOnCapacity(l)]_vars
    BY Zenon, NextKeeps DEF StepIsSound
  <1> QED
    BY <1>1, PublicationInvariant, PTL DEF Spec, GapStays
=============================================================================
