----------------------- MODULE ObservationLaneProofs ------------------------
(***************************************************************************)
(* The observation lanes and their tasks, for any tasks, sources, bound    *)
(* and budget.  The operations of a lane are functions on one lane, so the *)
(* first lemmas are about one lane, and about a step that replaces one;    *)
(* the rest is the inductive invariant and what follows from it.           *)
(***************************************************************************)
EXTENDS ObservationLane, FiniteSetTheorems, SequenceTheorems, TLAPS

\* The supervisor of a source whose attempts all committed.
Settled(p) ==
    /\ p \in Supervisors
    /\ p.live = {} /\ p.superseded = {}
    /\ p.committed = p.next_attempt
    /\ \A i \in p.terminal : i < p.next_attempt

\* A lane whose candidate ledgers agree with the admissions d.
Sound(l, d) ==
    /\ l \in Lanes /\ d \in Stamps
    /\ l.active = l.next_observer
    /\ \A s \in Sources :
          /\ Settled(l.sup[s])
          /\ l.root[s] = (IF d[s] = NoStamp THEN Absent ELSE d[s])

\* A lane that retains what it heard since the last cut.
Retains(l, n, o) == l.latch = "none" => ~o /\ l.pending = n

\* Appending to a capped ledger leaves a ledger of rows.
LEMMA NewestType ==
    ASSUME NEW S, NEW rows \in Seq(S), MaxRecords \in Nat \ {0}
    PROVE  Newest(rows) \in Seq(S)
  <1>1. CASE Len(rows) > MaxRecords
    <2>1. /\ Len(rows) - MaxRecords + 1 \in 1 .. Len(rows) + 1
          /\ Len(rows) \in Len(rows) - MaxRecords .. Len(rows)
          /\ Len(rows) \in Nat
      BY <1>1
    <2>2. SubSeq(rows, Len(rows) - MaxRecords + 1, Len(rows)) \in Seq(S)
      BY <1>1, <2>1, SubSeqProperties
    <2> QED
      BY Zenon, <1>1, <2>2 DEF Newest
  <1>2. CASE ~(Len(rows) > MaxRecords)
    BY Zenon, <1>2 DEF Newest
  <1> QED
    BY Zenon, <1>1, <1>2

\* A supervisor that mints an attempt and commits it is settled again.
LEMMA CommitSettles ==
    ASSUME NEW p, Settled(p)
    PROVE  /\ p.next_attempt \in Nat
           /\ p.next_attempt \notin mint(p).superseded \cup mint(p).terminal
           /\ Settled(record_commit(mint(p), p.next_attempt))
  <1> DEFINE i == p.next_attempt
             q == mint(p)
             Rows == [id : Nat, disposition : Dispositions]
  <1>1. /\ p.next_attempt \in Nat /\ p.live \in SUBSET Nat
        /\ p.superseded \in SUBSET Nat /\ p.terminal \in SUBSET Nat
        /\ p.committed \in Nat /\ p.records \in Seq(Rows)
        /\ p \in Supervisors
    BY Zenon DEF Settled, Supervisors
  <1>2. /\ q \in Supervisors
        /\ q.next_attempt = i + 1 /\ q.live = p.live \cup {i}
        /\ q.superseded = p.superseded /\ q.terminal = p.terminal
        /\ q.committed = p.committed /\ q.records = p.records
    <2>1. q = [p EXCEPT !.live = p.live \cup {i}, !.next_attempt = i + 1]
      BY Zenon DEF mint
    <2>2. i + 1 \in Nat /\ p.live \cup {i} \in SUBSET Nat
      BY <1>1
    <2> HIDE DEF q, i
    <2> QED
      BY Zenon, <1>1, <2>1, <2>2 DEF Supervisors
  <1>3. i \notin p.superseded \cup p.terminal
    BY <1>1 DEF Settled
  <1>4. Row(i, "Committed") \in Rows
    BY Zenon, <1>1 DEF Row, Dispositions
  <1>5. Newest(Append(p.records, Row(i, "Committed"))) \in Seq(Rows)
    <2>1. Append(p.records, Row(i, "Committed")) \in Seq(Rows)
      BY Zenon, <1>1, <1>4, AppendProperties
    <2> QED
      BY Zenon, <2>1, NewestType, LaneAssumption
  <1> DEFINE r == terminal_row(q, i, "Committed")
  <1>6. /\ r \in Supervisors
        /\ r.next_attempt = i + 1 /\ r.live = (p.live \cup {i}) \ {i}
        /\ r.superseded = p.superseded /\ r.terminal = p.terminal \cup {i}
        /\ r.committed = p.committed
    <2>1. r = [q EXCEPT !.terminal = @ \cup {i}, !.live = @ \ {i},
                        !.records = Newest(Append(p.records, Row(i, "Committed")))]
      BY Zenon, <1>2, <1>3 DEF terminal_row
    <2> HIDE DEF q, r, i
    <2> QED
      BY Zenon, <1>1, <1>2, <1>5, <2>1 DEF Supervisors
  <1>7. record_commit(q, i) = [r EXCEPT !.committed = @ + 1]
    BY Zenon, <1>2, <1>3 DEF record_commit
  <1> HIDE DEF r, q
  <1>8. Settled([r EXCEPT !.committed = @ + 1])
    <2> DEFINE x == [r EXCEPT !.committed = @ + 1]
    <2>1. /\ x \in Supervisors
          /\ x.next_attempt = i + 1 /\ x.live = (p.live \cup {i}) \ {i}
          /\ x.superseded = p.superseded /\ x.terminal = p.terminal \cup {i}
          /\ x.committed = p.committed + 1
      <3>1. x = [r EXCEPT !.committed = p.committed + 1]
        BY Zenon, <1>6
      <3>2. p.committed + 1 \in Nat
        BY <1>1
      <3> HIDE DEF x
      <3> QED
        BY Zenon, <1>6, <3>1, <3>2 DEF Supervisors
    <2> HIDE DEF x
    <2>2. \A j \in x.terminal : j < x.next_attempt
      BY <1>1, <2>1 DEF Settled
    <2>3. x.live = {} /\ x.superseded = {} /\ x.committed = x.next_attempt
      BY Zenon, <1>1, <2>1 DEF Settled
    <2>4. Settled(x)
      BY Zenon, <2>1, <2>2, <2>3 DEF Settled
    <2> QED
      BY Zenon, <2>4 DEF x
  <1> QED
    BY Zenon, <1>1, <1>2, <1>3, <1>7, <1>8 DEF q

\* Latching a cause (report_gap, latch_scope_dirty, latch_handoff_barrier)
\* leaves the lane latched and changes nothing else.
LEMMA LatchedKeeps ==
    ASSUME NEW l, NEW d, Sound(l, d), NEW cause \in Causes \ {"none"}
    PROVE  /\ Sound(latched(l, cause), d)
           /\ latched(l, cause).latch # "none"
           /\ latched(l, cause).next_token = l.next_token
           /\ latched(l, cause).active = l.active
           /\ latched(l, cause).next_observer = l.next_observer
  <1> DEFINE x == latched(l, cause)
             c == IF l.latch = "none" THEN cause ELSE l.latch
  <1>1. x = [l EXCEPT !.latch = c] /\ c \in Causes /\ c # "none"
    BY Zenon DEF latched, Sound, Lanes
  <1> HIDE DEF x, c
  <1>2. /\ x \in Lanes /\ x.latch = c /\ x.next_token = l.next_token
        /\ x.active = l.active /\ x.next_observer = l.next_observer
        /\ x.sup = l.sup /\ x.root = l.root
    BY Zenon, <1>1 DEF Sound, Lanes
  <1>3. Sound(x, d)
    BY Zenon, <1>2 DEF Sound
  <1> QED
    BY Zenon, <1>1, <1>2, <1>3 DEF x

\* CoalescingAccumulator::observe keeps the newest stamp of the source or
\* latches, whatever the bound.
LEMMA ObserveKeeps ==
    ASSUME NEW l, NEW d, Sound(l, d), NEW s \in Sources, NEW n \in Nat
    PROVE  /\ Sound(observe(l, s, n), d)
           /\ observe(l, s, n).next_token = l.next_token
           /\ observe(l, s, n).active = l.active
           /\ \A h \in Stamps, o \in BOOLEAN :
                 Retains(l, h, o) => Retains(observe(l, s, n), [h EXCEPT ![s] = n], o)
  <1> DEFINE x == observe(l, s, n)
  <1>1. CASE x = latched(l, "CapacityExhausted")
    <2>1. "CapacityExhausted" \in Causes \ {"none"}
      BY Zenon DEF Causes
    <2> HIDE DEF x
    <2>2. /\ Sound(x, d) /\ x.latch # "none" /\ x.next_token = l.next_token
          /\ x.active = l.active
      BY Zenon, <1>1, <2>1, LatchedKeeps
    <2> QED
      BY Zenon, <2>2 DEF Retains, x
  <1>2. CASE x = [l EXCEPT !.pending[s] = n]
    <2> HIDE DEF x
    <2>1. l.pending \in Stamps /\ l \in Lanes
      BY Zenon DEF Sound, Lanes
    <2>2. [l.pending EXCEPT ![s] = n] \in Stamps
      BY Zenon, <2>1 DEF Stamps
    <2>3. x = [l EXCEPT !.pending = [l.pending EXCEPT ![s] = n]]
      BY Zenon, <1>2, <2>1 DEF Lanes
    <2>4. /\ x \in Lanes /\ x.latch = l.latch /\ x.next_token = l.next_token
          /\ x.active = l.active /\ x.next_observer = l.next_observer
          /\ x.pending = [l.pending EXCEPT ![s] = n]
          /\ x.sup = l.sup /\ x.root = l.root
      BY Zenon, <2>1, <2>2, <2>3 DEF Lanes
    <2>5. Sound(x, d)
      BY Zenon, <2>4 DEF Sound
    <2> QED
      BY Zenon, <2>4, <2>5 DEF Retains, x
  <1> QED
    BY Zenon, <1>1, <1>2 DEF observe

\* observe_removal stamps and observes.
LEMMA InvalidateKeeps ==
    ASSUME NEW l, NEW d, Sound(l, d), NEW s \in Sources,
           NEW h \in Stamps, NEW o \in BOOLEAN, Retains(l, h, o)
    PROVE  LET x == observe_removal_locked(l, s) IN
           /\ Sound(x, d)
           /\ x.next_token = l.next_token /\ x.active = l.active
           /\ Retains(x, [h EXCEPT ![s] = l.next_stamp + 1], o)
  <1> DEFINE y == [l EXCEPT !.next_stamp = @ + 1]
             n == l.next_stamp + 1
  <1>1. n \in Nat /\ l \in Lanes
    BY DEF Sound, Lanes
  <1>2. y = [l EXCEPT !.next_stamp = n]
    BY Zenon, <1>1 DEF Lanes
  <1> HIDE DEF y, n
  <1>3. /\ y \in Lanes /\ y.latch = l.latch /\ y.next_token = l.next_token
        /\ y.active = l.active /\ y.next_observer = l.next_observer
        /\ y.pending = l.pending /\ y.sup = l.sup /\ y.root = l.root
    BY Zenon, <1>1, <1>2 DEF Lanes
  <1>4. Sound(y, d) /\ Retains(y, h, o)
    BY Zenon, <1>3 DEF Sound, Retains
  <1>5. observe_removal_locked(l, s) = observe(y, s, n)
    BY Zenon DEF observe_removal_locked, y, n
  <1>6. /\ Sound(observe(y, s, n), d)
        /\ observe(y, s, n).next_token = l.next_token
        /\ observe(y, s, n).active = l.active
        /\ Retains(observe(y, s, n), [h EXCEPT ![s] = n], o)
    BY <1>1, <1>3, <1>4, ObserveKeeps
  <1> QED
    BY Zenon, <1>5, <1>6 DEF n

\* A candidate of one content source reserves one byte.
LEMMA OneByte ==
    ASSUME NEW s
    PROVE  reserved_bytes([x \in {s} |-> "Content"]) = 1
  <1> DEFINE seen == [x \in {s} |-> "Content"]
  <1>1. {x \in DOMAIN seen : seen[x] = "Content"} = {s}
    BY Zenon
  <1>2. Cardinality({s}) = 1
    BY Zenon, FS_Singleton
  <1> HIDE DEF seen
  <1>3. reserved_bytes(seen) = 1
    BY Zenon, <1>1, <1>2 DEF reserved_bytes
  <1> QED
    BY Zenon, <1>3 DEF seen

\* observe_admission_locked commits its candidate and observes it.
LEMMA AdmitKeeps ==
    ASSUME NEW l, NEW d, Sound(l, d), NEW s \in Sources,
           NEW h \in Stamps, NEW o \in BOOLEAN, Retains(l, h, o)
    PROVE  LET x == observe_admission_locked(l, s) IN
           /\ Sound(x, [d EXCEPT ![s] = l.next_stamp + 1])
           /\ x.next_token = l.next_token /\ x.active = l.active
           /\ Retains(x, [h EXCEPT ![s] = l.next_stamp + 1], o)
  <1> DEFINE n == l.next_stamp + 1
             p == l.sup[s]
             i == p.next_attempt
             tried == [l EXCEPT !.next_stamp = n, !.sup[s] = mint(@)]
             q == record_commit(mint(p), i)
             y == [tried EXCEPT !.sup[s] = record_commit(@, i), !.root[s] = n]
             e == [d EXCEPT ![s] = n]
  <1>1. /\ n \in Nat /\ n # NoStamp /\ l \in Lanes /\ d \in Stamps
        /\ Settled(p) /\ l.sup \in [Sources -> Supervisors]
        /\ l.root \in [Sources -> Nat \cup {Absent}]
    BY DEF Sound, Lanes, NoStamp
  <1>2. /\ i \notin mint(p).superseded \cup mint(p).terminal
        /\ Settled(q) /\ q \in Supervisors
    BY Zenon, <1>1, CommitSettles DEF Settled
  <1>3. tried.sup[s] = mint(p)
    BY Zenon, <1>1 DEF Lanes
  <1>4. observe_admission_locked(l, s) = observe(y, s, n)
    <2>1. reserved_bytes([x \in {s} |-> "Content"]) <= Budget
      BY OneByte, LaneAssumption
    <2>2. l.root[s] = expected_token(l, s)
      BY Zenon DEF expected_token
    <2> QED
      BY Zenon, <1>2, <1>3, <2>1, <2>2 DEF observe_admission_locked
  <1>5. y = [l EXCEPT !.next_stamp = n, !.sup = [l.sup EXCEPT ![s] = q],
                      !.root = [l.root EXCEPT ![s] = n]]
    BY ZenonT(30), <1>1 DEF Lanes
  <1> HIDE DEF y, q, n, p, i, tried
  <1>6. /\ [l.sup EXCEPT ![s] = q] \in [Sources -> Supervisors]
        /\ [l.root EXCEPT ![s] = n] \in [Sources -> Nat \cup {Absent}]
        /\ e \in Stamps
    BY Zenon, <1>1, <1>2 DEF Stamps
  <1>7. /\ y \in Lanes /\ y.latch = l.latch /\ y.next_token = l.next_token
        /\ y.active = l.active /\ y.next_observer = l.next_observer
        /\ y.pending = l.pending
        /\ y.sup = [l.sup EXCEPT ![s] = q] /\ y.root = [l.root EXCEPT ![s] = n]
    BY Zenon, <1>1, <1>5, <1>6 DEF Lanes
  <1>8. \A z \in Sources :
           /\ Settled(y.sup[z])
           /\ y.root[z] = (IF e[z] = NoStamp THEN Absent ELSE e[z])
    BY <1>1, <1>2, <1>7 DEF Sound, Stamps
  <1>9. Sound(y, e) /\ Retains(y, h, o)
    <2>1. y.active = y.next_observer
      BY Zenon, <1>7 DEF Sound
    <2>2. Sound(y, e)
      BY Zenon, <1>6, <1>7, <1>8, <2>1 DEF Sound
    <2> QED
      BY Zenon, <1>7, <2>2 DEF Retains
  <1> HIDE DEF e
  <1>10. /\ Sound(observe(y, s, n), e)
         /\ observe(y, s, n).next_token = l.next_token
         /\ observe(y, s, n).active = l.active
         /\ Retains(observe(y, s, n), [h EXCEPT ![s] = n], o)
    <2>1. n \in Nat /\ Sound(y, e)
      BY Zenon, <1>1, <1>9
    <2>2. /\ Sound(observe(y, s, n), e)
          /\ observe(y, s, n).next_token = y.next_token
          /\ observe(y, s, n).active = y.active
          /\ Retains(y, h, o) => Retains(observe(y, s, n), [h EXCEPT ![s] = n], o)
      BY <2>1, ObserveKeeps, Zenon
    <2> QED
      BY Zenon, <1>7, <1>9, <2>2
  <1> QED
    BY Zenon, <1>4, <1>10 DEF e, n

\* CoalescingAccumulator::cut drains the lane and clears its latch.
LEMMA CutKeeps ==
    ASSUME NEW l, NEW d, Sound(l, d)
    PROVE  /\ Sound(cut(l), d)
           /\ Retains(cut(l), Nothing, FALSE)
           /\ cut(l).active = l.active
           /\ cut(l).cut = IF l.latch = "none"
                 THEN [kind |-> "Incremental", invalidations |-> l.pending]
                 ELSE [kind |-> "FullBaseline", invalidations |-> Nothing]
  <1> DEFINE x == cut(l)
             k == IF l.latch = "none"
                  THEN [kind |-> "Incremental", invalidations |-> l.pending]
                  ELSE [kind |-> "FullBaseline", invalidations |-> Nothing]
  <1>1. l \in Lanes /\ l.next_token + 1 \in Nat /\ Nothing \in Stamps
        /\ l.pending \in Stamps
    BY DEF Sound, Lanes, Nothing, Stamps, NoStamp
  <1>2. k \in [kind : CutKinds, invalidations : Stamps]
    BY Zenon, <1>1 DEF CutKinds
  <1>3. x = [l EXCEPT !.next_token = l.next_token + 1, !.pending = Nothing,
                      !.latch = "none", !.cut = k]
    BY Zenon DEF cut
  <1>4. "none" \in Causes
    BY Zenon DEF Causes
  <1> HIDE DEF x, k
  <1>5. /\ x \in Lanes /\ x.latch = "none" /\ x.pending = Nothing
        /\ x.cut = k /\ x.active = l.active
        /\ x.next_observer = l.next_observer
        /\ x.sup = l.sup /\ x.root = l.root
    BY Zenon, <1>1, <1>2, <1>3, <1>4 DEF Lanes
  <1>6. Sound(x, d) /\ Retains(x, Nothing, FALSE)
    BY Zenon, <1>5 DEF Sound, Retains
  <1> QED
    BY Zenon, <1>5, <1>6 DEF x, k

\* register_observer activates a number no task of the lane has, and latches.
LEMMA RegisterKeeps ==
    ASSUME NEW l, NEW d, Sound(l, d)
    PROVE  /\ Sound(register_observer(l), d)
           /\ register_observer(l).latch # "none"
           /\ register_observer(l).next_token = l.next_token
           /\ register_observer(l).active = l.active + 1
  <1> DEFINE y == [l EXCEPT !.next_observer = @ + 1, !.active = l.next_observer + 1]
             n == l.next_observer + 1
  <1>1. l \in Lanes /\ n \in Nat /\ n = l.active + 1
    BY DEF Sound, Lanes
  <1>2. y = [l EXCEPT !.next_observer = n, !.active = n]
    BY Zenon, <1>1 DEF Lanes
  <1>3. register_observer(l) = latched(y, "HandoffBarrier")
    BY Zenon DEF register_observer
  <1> HIDE DEF y, n
  <1>4. /\ y \in Lanes /\ y.next_token = l.next_token
        /\ y.active = n /\ y.next_observer = n
        /\ y.sup = l.sup /\ y.root = l.root
    BY Zenon, <1>1, <1>2 DEF Lanes
  <1>5. Sound(y, d)
    BY Zenon, <1>4 DEF Sound
  <1>6. "HandoffBarrier" \in Causes \ {"none"}
    BY Zenon DEF Causes
  <1> QED
    BY <1>1, <1>3, <1>4, <1>5, <1>6, LatchedKeeps

-----------------------------------------------------------------------------

LanesInv ==
    /\ lane \in [Authorities -> Lanes]
    /\ newest \in [Authorities -> Stamps]
    /\ owed \in [Authorities -> BOOLEAN]
    /\ admitted \in [Authorities -> Stamps]
    /\ \A a \in Authorities : /\ Sound(lane[a], admitted[a])
                              /\ Retains(lane[a], newest[a], owed[a])

TasksInv ==
    /\ made \in 0 .. MaxAuthorities
    /\ cachedLive \in BOOLEAN
    /\ cachedLive => made > 0
    /\ task \in [Tasks -> TaskStates]
    /\ superseded \in SUBSET Tasks
    /\ \A t \in Tasks :
          task[t].pc \in {"looked", "batch", "captured"} => task[t].arc \in 1 .. made
    /\ IdsAge

\* The invariant is one part about lanes and one about tasks.
LEMMA Parts == IInv <=> LanesInv /\ TasksInv
  <1>1. ASSUME IInv PROVE LanesInv /\ TasksInv
    BY <1>1 DEF IInv, TypeOK, NothingLost, AdmissionsCommit, IdsAge,
                AttemptsEnd, LanesInv, TasksInv, Sound, Settled, Retains, Lanes
  <1>2. ASSUME LanesInv, TasksInv PROVE IInv
    <2>1. TypeOK
      BY Zenon, <1>2 DEF LanesInv, TasksInv, TypeOK
    <2>2. NothingLost
      BY Zenon, <1>2 DEF LanesInv, NothingLost, Retains
    <2>3. AdmissionsCommit /\ AttemptsEnd
      BY <1>2 DEF LanesInv, AdmissionsCommit, AttemptsEnd, Sound, Settled
    <2> QED
      BY Zenon, <1>2, <2>1, <2>2, <2>3 DEF IInv, TasksInv
  <1> QED
    BY Zenon, <1>1, <1>2

\* A step that replaces one lane, and its histories, keeps the others.
LEMMA OneLane ==
    ASSUME LanesInv, NEW a \in Authorities,
           NEW x, NEW n \in Stamps, NEW o \in BOOLEAN, NEW d,
           Sound(x, d), Retains(x, n, o),
           lane' = [lane EXCEPT ![a] = x],
           newest' = [newest EXCEPT ![a] = n],
           owed' = [owed EXCEPT ![a] = o],
           admitted' = [admitted EXCEPT ![a] = d]
    PROVE  LanesInv'
  <1>1. x \in Lanes /\ d \in Stamps
    BY Zenon DEF Sound
  <1>2. /\ lane' \in [Authorities -> Lanes]
        /\ newest' \in [Authorities -> Stamps]
        /\ owed' \in [Authorities -> BOOLEAN]
        /\ admitted' \in [Authorities -> Stamps]
    BY Zenon, <1>1 DEF LanesInv
  <1>3. ASSUME NEW b \in Authorities
        PROVE  Sound(lane'[b], admitted'[b]) /\ Retains(lane'[b], newest'[b], owed'[b])
    <2>1. CASE b = a
      <3>1. lane'[b] = x /\ admitted'[b] = d /\ newest'[b] = n /\ owed'[b] = o
        BY Zenon, <2>1 DEF LanesInv
      <3> QED
        BY Zenon, <3>1
    <2>2. CASE b # a
      <3>1. /\ lane'[b] = lane[b] /\ admitted'[b] = admitted[b]
            /\ newest'[b] = newest[b] /\ owed'[b] = owed[b]
        BY Zenon, <2>2 DEF LanesInv
      <3> QED
        BY Zenon, <3>1 DEF LanesInv
    <2> QED
      BY Zenon, <2>1, <2>2
  <1> QED
    BY Zenon, <1>2, <1>3 DEF LanesInv

\* Neither the active incarnation nor the cut token of a lane changes.
Quiet ==
    \A b \in Authorities : /\ lane'[b].active = lane[b].active
                           /\ lane'[b].next_token = lane[b].next_token

\* An observed admission keeps the lanes.
LEMMA AdmitStep ==
    ASSUME LanesInv, NEW a \in Authorities, NEW s \in Sources, Admit(a, s)
    PROVE  LanesInv' /\ Quiet
  <1> DEFINE l == lane[a]
             x == observe_admission_locked(l, s)
             n == [newest[a] EXCEPT ![s] = l.next_stamp + 1]
             d == [admitted[a] EXCEPT ![s] = l.next_stamp + 1]
             o == owed[a]
  <1>1. /\ Sound(l, admitted[a]) /\ Retains(l, newest[a], o)
        /\ newest[a] \in Stamps /\ o \in BOOLEAN
        /\ l \in Lanes /\ l.next_stamp + 1 \in Nat
    BY DEF LanesInv, Lanes
  <1>2. n \in Stamps
    BY Zenon, <1>1 DEF Stamps
  <1>3. /\ lane' = [lane EXCEPT ![a] = x]
        /\ newest' = [newest EXCEPT ![a] = n]
        /\ owed' = [owed EXCEPT ![a] = o]
        /\ admitted' = [admitted EXCEPT ![a] = d]
    BY Zenon DEF Admit, Observed, Admitted, LanesInv
  <1> HIDE DEF l, o
  <1>4. /\ Sound(x, d) /\ x.next_token = l.next_token /\ x.active = l.active
        /\ Retains(x, n, o)
    BY <1>1, AdmitKeeps
  <1> HIDE DEF x, n, d
  <1>5. LanesInv'
    BY <1>2, <1>3, <1>4, <1>1, OneLane, Zenon
  <1>6. Quiet
    BY Zenon, <1>3, <1>4 DEF Quiet, l, LanesInv
  <1> QED
    BY Zenon, <1>5, <1>6

\* An observed removal keeps the lanes.
LEMMA InvalidateStep ==
    ASSUME LanesInv, NEW a \in Authorities, NEW s \in Sources, Invalidate(a, s)
    PROVE  LanesInv' /\ Quiet
  <1> DEFINE l == lane[a]
             x == observe_removal_locked(l, s)
             n == [newest[a] EXCEPT ![s] = l.next_stamp + 1]
             d == admitted[a]
             o == owed[a]
  <1>1. /\ Sound(l, d) /\ Retains(l, newest[a], o)
        /\ newest[a] \in Stamps /\ o \in BOOLEAN
        /\ l \in Lanes /\ l.next_stamp + 1 \in Nat
    BY DEF LanesInv, Lanes
  <1>2. n \in Stamps
    BY Zenon, <1>1 DEF Stamps
  <1>3. /\ lane' = [lane EXCEPT ![a] = x]
        /\ newest' = [newest EXCEPT ![a] = n]
        /\ owed' = [owed EXCEPT ![a] = o]
        /\ admitted' = [admitted EXCEPT ![a] = d]
    BY Zenon DEF Invalidate, Observed, LanesInv
  <1> HIDE DEF l, o, d
  <1>4. /\ Sound(x, d) /\ x.next_token = l.next_token /\ x.active = l.active
        /\ Retains(x, n, o)
    BY <1>1, InvalidateKeeps, Zenon
  <1> HIDE DEF x, n
  <1>5. LanesInv'
    BY <1>2, <1>3, <1>4, <1>1, OneLane, Zenon
  <1>6. Quiet
    BY <1>3, <1>4 DEF Quiet, l, LanesInv
  <1> QED
    BY <1>5, <1>6

\* A gap or a dirty scope latches one lane.
LEMMA LatchStep ==
    ASSUME LanesInv, NEW a \in Authorities, NEW cause \in Causes \ {"none"},
           lane' = [lane EXCEPT ![a] = latched(@, cause)],
           owed' = [owed EXCEPT ![a] = TRUE],
           UNCHANGED <<newest, admitted>>
    PROVE  LanesInv' /\ Quiet
  <1> DEFINE x == latched(lane[a], cause)
  <1>1. /\ Sound(lane[a], admitted[a]) /\ newest[a] \in Stamps
        /\ lane' = [lane EXCEPT ![a] = x]
        /\ newest' = [newest EXCEPT ![a] = newest[a]]
        /\ admitted' = [admitted EXCEPT ![a] = admitted[a]]
    BY Zenon DEF LanesInv
  <1>2. /\ Sound(x, admitted[a]) /\ x.latch # "none"
        /\ x.next_token = lane[a].next_token /\ x.active = lane[a].active
    BY <1>1, LatchedKeeps
  <1> HIDE DEF x
  <1>3. Retains(x, newest[a], TRUE)
    BY Zenon, <1>2 DEF Retains
  <1>4. LanesInv'
    BY <1>1, <1>2, <1>3, OneLane, Zenon
  <1>5. Quiet
    BY Zenon, <1>1, <1>2 DEF Quiet, LanesInv
  <1> QED
    BY Zenon, <1>4, <1>5

\* The action of CutsAreComplete.
CutComplete ==
    \A a \in Authorities :
       lane'[a].next_token # lane[a].next_token =>
          /\ lane'[a].cut.kind \in {"Incremental", "FullBaseline"}
          /\ owed[a] => lane'[a].cut.kind = "FullBaseline"
          /\ lane'[a].cut.kind = "Incremental" =>
                lane'[a].cut.invalidations = newest[a]

\* A permit return cuts one lane: a baseline if one is owed, and otherwise
\* exactly what was heard.
LEMMA CutStep ==
    ASSUME LanesInv, NEW a \in Authorities, ReturnCut(a)
    PROVE  /\ LanesInv'
           /\ \A b \in Authorities : lane'[b].active = lane[b].active
           /\ \A b \in Authorities :
                 lane'[b].next_token # lane[b].next_token =>
                    /\ lane'[b].cut.kind \in {"Incremental", "FullBaseline"}
                    /\ owed[b] => lane'[b].cut.kind = "FullBaseline"
                    /\ lane'[b].cut.kind = "Incremental" =>
                          lane'[b].cut.invalidations = newest[b]
  <1> DEFINE x == cut(lane[a])
  <1>1. /\ Sound(lane[a], admitted[a]) /\ Retains(lane[a], newest[a], owed[a])
        /\ Nothing \in Stamps /\ owed[a] \in BOOLEAN
        /\ lane' = [lane EXCEPT ![a] = x]
        /\ newest' = [newest EXCEPT ![a] = Nothing]
        /\ owed' = [owed EXCEPT ![a] = FALSE]
        /\ admitted' = [admitted EXCEPT ![a] = admitted[a]]
    BY Zenon DEF LanesInv, ReturnCut, Nothing, Stamps, NoStamp
  <1>2. /\ Sound(x, admitted[a]) /\ Retains(x, Nothing, FALSE)
        /\ x.active = lane[a].active
        /\ x.cut = IF lane[a].latch = "none"
                 THEN [kind |-> "Incremental", invalidations |-> lane[a].pending]
                 ELSE [kind |-> "FullBaseline", invalidations |-> Nothing]
    BY Zenon, <1>1, CutKeeps
  <1> HIDE DEF x
  <1>3. LanesInv'
    BY <1>1, <1>2, OneLane, Zenon
  <1>4. \A b \in Authorities : lane'[b] = (IF b = a THEN x ELSE lane[b])
    BY Zenon, <1>1 DEF LanesInv
  <1>5. /\ x.cut.kind \in {"Incremental", "FullBaseline"}
        /\ owed[a] => x.cut.kind = "FullBaseline"
        /\ x.cut.kind = "Incremental" => x.cut.invalidations = newest[a]
    BY <1>1, <1>2 DEF Retains
  <1> QED
    BY Zenon, <1>2, <1>3, <1>4, <1>5

-----------------------------------------------------------------------------
(* The tasks, and the invariant.                                           *)

\* What a lookup does to the map.
LEMMA LookupEffect ==
    ASSUME TasksInv, Lookup
    PROVE  /\ made' \in 0 .. MaxAuthorities /\ made <= made'
           /\ made' \in 1 .. made' /\ cachedLive'
    BY LaneAssumption DEF TasksInv, Lookup, Authorities

\* A task that moves without touching lanes or registrations: it keeps its
\* identity, takes the active one, or drops it.
LEMMA TaskMoves ==
    ASSUME TasksInv, LanesInv, LanesInv', NEW t \in Tasks,
           \A b \in Authorities : lane'[b].active = lane[b].active,
           made' \in 0 .. MaxAuthorities, made <= made',
           cachedLive' \in BOOLEAN, cachedLive' => made' > 0,
           superseded' \subseteq superseded,
           NEW r \in TaskStates, task' = [task EXCEPT ![t] = r],
           r.pc \in {"looked", "batch", "captured"} => r.arc \in 1 .. made',
           r.pc \in {"on", "batch", "captured"} => r.home # 0,
           r.pc = "looked" => r.home = 0 /\ t \notin superseded',
           \/ r.home = 0
           \/ r.home = task[t].home /\ r.id = task[t].id
           \/ /\ r.home \in 1 .. made /\ r.id = lane[r.home].active
              /\ t \notin superseded
    PROVE  TasksInv'
  <1>1. \A b \in Authorities : lane'[b].active = lane'[b].next_observer
    BY Zenon DEF LanesInv, Sound
  <1>2. \A b \in Authorities : lane[b].active \in Nat
    BY Zenon DEF LanesInv, Lanes
  <1>3. /\ task' \in [Tasks -> TaskStates] /\ superseded' \in SUBSET Tasks
        /\ made \in Nat /\ made' \in Nat /\ MaxAuthorities \in Nat
        /\ \A u \in Tasks : task'[u] = (IF u = t THEN r ELSE task[u])
    BY LaneAssumption DEF TasksInv
  <1>4. ASSUME NEW u \in Tasks, task'[u].home # 0
        PROVE  /\ task'[u].home \in 1 .. made'
               /\ task'[u].id <= lane'[task'[u].home].active
               /\ u \in superseded' => task'[u].id < lane'[task'[u].home].active
    <2>1. CASE \/ u # t
               \/ r.home = task[t].home /\ r.id = task[t].id
      <3>1. task'[u].home = task[u].home /\ task'[u].id = task[u].id
        BY Zenon, <1>3, <2>1
      <3>2. /\ task[u].home \in 1 .. made
            /\ task[u].id <= lane[task[u].home].active
            /\ u \in superseded => task[u].id < lane[task[u].home].active
        BY Zenon, <1>4, <3>1 DEF TasksInv, IdsAge
      <3>3. task[u].home \in Authorities /\ task[u].home \in 1 .. made'
        BY <1>3, <3>2 DEF Authorities, TasksInv
      <3> QED
        BY Zenon, <3>1, <3>2, <3>3
    <2>2. CASE /\ u = t /\ r.home \in 1 .. made /\ r.id = lane[r.home].active
               /\ t \notin superseded
      <3>1. task'[u] = r /\ u \notin superseded'
        BY Zenon, <1>3, <2>2
      <3>2. r.home \in Authorities /\ r.home \in 1 .. made'
        BY <1>3, <2>2 DEF Authorities, TasksInv
      <3>3. lane'[r.home].active = r.id /\ r.id \in Nat
        BY Zenon, <1>2, <2>2, <3>2
      <3> QED
        BY <3>1, <3>2, <3>3
    <2> QED
      BY Zenon, <1>3, <1>4, <2>1, <2>2
  <1>5. \A u \in Tasks :
           /\ task'[u].pc \in {"looked", "batch", "captured"} =>
                 task'[u].arc \in 1 .. made'
           /\ task'[u].pc \in {"on", "batch", "captured"} => task'[u].home # 0
           /\ task'[u].pc = "looked" => task'[u].home = 0 /\ u \notin superseded'
    <2> TAKE u \in Tasks
    <2>1. CASE u = t
      BY Zenon, <1>3, <2>1
    <2>2. CASE u # t
      <3>1. task'[u] = task[u]
        BY Zenon, <1>3, <2>2
      <3>2. /\ task[u].pc \in {"looked", "batch", "captured"} =>
                  task[u].arc \in 1 .. made
            /\ task[u].pc \in {"on", "batch", "captured"} => task[u].home # 0
            /\ task[u].pc = "looked" => task[u].home = 0 /\ u \notin superseded
        BY Zenon DEF TasksInv, IdsAge
      <3> QED
        BY <1>3, <3>1, <3>2
    <2> QED
      BY Zenon, <2>1, <2>2
  <1>6. IdsAge'
    BY Zenon, <1>1, <1>4, <1>5 DEF IdsAge
  <1> QED
    BY Zenon, <1>3, <1>5, <1>6 DEF TasksInv

\* Steps of the writers and of the fence move no task.
LEMMA TasksStay ==
    ASSUME TasksInv, LanesInv',
           \A b \in Authorities : lane'[b].active = lane[b].active,
           UNCHANGED <<made, task, superseded>>,
           cachedLive' \in BOOLEAN, cachedLive' => cachedLive
    PROVE  TasksInv'
  <1>1. \A b \in Authorities : lane'[b].active = lane'[b].next_observer
    BY Zenon DEF LanesInv, Sound
  <1>2. \A u \in Tasks : task[u].home # 0 => task[u].home \in Authorities
    BY LaneAssumption DEF TasksInv, IdsAge, Authorities
  <1>3. IdsAge'
    BY Zenon, <1>1, <1>2 DEF TasksInv, IdsAge
  <1> QED
    BY Zenon, <1>3 DEF TasksInv

\* A registration supersedes the tasks of its lane with a newer number.
LEMMA RegisterStep ==
    ASSUME TasksInv, LanesInv, NEW t \in Tasks, Register(t)
    PROVE  LanesInv' /\ TasksInv'
           /\ \A b \in Authorities : lane'[b].next_token = lane[b].next_token
  <1> DEFINE a == task[t].arc
             x == register_observer(lane[a])
             r == [pc |-> "on", arc |-> 0, id |-> lane'[a].active, home |-> a]
  <1>1. /\ task[t].pc = "looked" /\ a \in 1 .. made /\ a \in Authorities
        /\ task[t].home = 0 /\ t \notin superseded
    BY LaneAssumption DEF Register, TasksInv, IdsAge, Authorities
  <1>2. /\ lane' = [lane EXCEPT ![a] = x]
        /\ newest' = [newest EXCEPT ![a] = newest[a]]
        /\ owed' = [owed EXCEPT ![a] = TRUE]
        /\ admitted' = [admitted EXCEPT ![a] = admitted[a]]
        /\ task' = [task EXCEPT ![t] = r]
        /\ superseded' = superseded \cup {u \in Tasks : task[u].home = a}
        /\ UNCHANGED <<made, cachedLive>>
    BY Zenon DEF Register, LanesInv
  <1>3. Sound(lane[a], admitted[a]) /\ newest[a] \in Stamps
    BY Zenon, <1>1 DEF LanesInv
  <1>4. /\ Sound(x, admitted[a]) /\ x.latch # "none"
        /\ x.next_token = lane[a].next_token /\ x.active = lane[a].active + 1
    BY Zenon, <1>3, RegisterKeeps
  <1> HIDE DEF a, x
  <1>5. Retains(x, newest[a], TRUE)
    BY Zenon, <1>4 DEF Retains
  <1>6. LanesInv'
    BY <1>1, <1>2, <1>3, <1>4, <1>5, OneLane, Zenon
  <1>7. /\ \A b \in Authorities : lane'[b].active \in Nat /\ lane[b].active \in Nat
        /\ lane'[a] = x
        /\ \A b \in Authorities : b # a => lane'[b] = lane[b]
    BY Zenon, <1>1, <1>2, <1>6 DEF LanesInv, Lanes
  <1>8. \A b \in Authorities :
           lane'[b].active = (IF b = a THEN lane[b].active + 1 ELSE lane[b].active)
    BY Zenon, <1>4, <1>7
  <1>9. r \in TaskStates /\ a # 0
    BY <1>1, <1>7 DEF TaskStates, TasksInv
  <1>10. \A u \in Tasks : task'[u] = (IF u = t THEN r ELSE task[u])
    BY Zenon, <1>2 DEF TasksInv
  <1>11. /\ task' \in [Tasks -> TaskStates] /\ superseded' \in SUBSET Tasks
    BY Zenon, <1>2, <1>9 DEF TasksInv
  <1> HIDE DEF r
  <1>12. r.pc = "on" /\ r.home = a /\ r.id = lane'[a].active
    BY Zenon DEF r
  <1>13. ASSUME NEW u \in Tasks, task'[u].home # 0
         PROVE  /\ task'[u].home \in 1 .. made'
                /\ task'[u].id <= lane'[task'[u].home].active
                /\ u \in superseded' => task'[u].id < lane'[task'[u].home].active
    <2>1. CASE u = t
      <3>1. t \notin superseded'
        BY Zenon, <1>1, <1>2, <1>9
      <3>2. task'[u].home = a /\ task'[u].id = lane'[a].active
        BY Zenon, <1>10, <1>12, <2>1
      <3> QED
        BY <1>1, <1>2, <1>7, <2>1, <3>1, <3>2
    <2>2. CASE u # t
      <3>1. task'[u] = task[u]
        BY Zenon, <1>10, <2>2
      <3>2. /\ task[u].home \in 1 .. made /\ task[u].home \in Authorities
            /\ task[u].id <= lane[task[u].home].active
            /\ u \in superseded => task[u].id < lane[task[u].home].active
        BY <1>13, <3>1, LaneAssumption DEF TasksInv, IdsAge, Authorities
      <3>3. task[u].id \in Nat /\ lane[task[u].home].active \in Nat
        BY Zenon, <1>7, <3>2 DEF TasksInv, TaskStates
      <3> QED
        BY <1>2, <1>8, <3>1, <3>2, <3>3
    <2> QED
      BY Zenon, <2>1, <2>2
  <1>14. \A u \in Tasks :
            /\ task'[u].pc \in {"looked", "batch", "captured"} =>
                  task'[u].arc \in 1 .. made'
            /\ task'[u].pc \in {"on", "batch", "captured"} => task'[u].home # 0
            /\ task'[u].pc = "looked" => task'[u].home = 0 /\ u \notin superseded'
    BY <1>1, <1>2, <1>9, <1>10, <1>12 DEF TasksInv, IdsAge
  <1>15. IdsAge'
    <2>1. \A b \in Authorities : lane'[b].active = lane'[b].next_observer
      BY Zenon, <1>6 DEF LanesInv, Sound
    <2> QED
      BY Zenon, <2>1, <1>13, <1>14 DEF IdsAge
  <1>16. TasksInv'
    BY <1>2, <1>11, <1>14, <1>15 DEF TasksInv
  <1> QED
    BY Zenon, <1>4, <1>6, <1>7, <1>16

\* TaskMoves when the map does not change either.
LEMMA TaskMovesAlone ==
    ASSUME TasksInv, LanesInv, LanesInv', NEW t \in Tasks,
           \A b \in Authorities : lane'[b].active = lane[b].active,
           made' = made, cachedLive' = cachedLive, superseded' \subseteq superseded,
           NEW r \in TaskStates, task' = [task EXCEPT ![t] = r],
           r.pc # "looked",
           r.pc \in {"batch", "captured"} => r.arc \in 1 .. made,
           r.pc \in {"on", "batch", "captured"} => r.home # 0,
           \/ r.home = 0
           \/ r.home = task[t].home /\ r.id = task[t].id
           \/ /\ r.home \in 1 .. made /\ r.id = lane[r.home].active
              /\ t \notin superseded
    PROVE  TasksInv'
  <1>1. /\ made' \in 0 .. MaxAuthorities /\ made <= made'
        /\ cachedLive' \in BOOLEAN /\ (cachedLive' => made' > 0)
    BY LaneAssumption DEF TasksInv
  <1>2. /\ r.pc \in {"looked", "batch", "captured"} => r.arc \in 1 .. made'
        /\ r.pc = "looked" => r.home = 0 /\ t \notin superseded'
    BY Zenon
  <1> QED
    BY Zenon, <1>1, <1>2, TaskMoves

\* A task that looks up, captures, begins or ends a batch, or stops.
LEMMA MoveStep ==
    ASSUME TasksInv, LanesInv, NEW t \in Tasks,
           \/ LookUp(t) \/ Capture(t) \/ BeginBatch(t) \/ EndBatch(t) \/ Stop(t)
    PROVE  LanesInv' /\ TasksInv' /\ lane' = lane
  <1>1. /\ UNCHANGED <<lane, newest, owed, admitted>>
        /\ superseded' \subseteq superseded
    BY Zenon DEF LookUp, Capture, BeginBatch, EndBatch, Stop, historyVars
  <1>2. LanesInv' /\ \A b \in Authorities : lane'[b].active = lane[b].active
    BY Zenon, <1>1 DEF LanesInv
  <1>3. /\ task[t] \in TaskStates /\ made \in 0 .. MaxAuthorities
        /\ cachedLive \in BOOLEAN /\ cachedLive => made > 0
        /\ made <= made /\ Idle \in TaskStates /\ MaxAuthorities \in Nat
    BY LaneAssumption DEF TasksInv, TaskStates, Idle
  <1>4. CASE LookUp(t) \/ BeginBatch(t)
    <2>1. /\ made' \in 0 .. MaxAuthorities /\ made <= made'
          /\ made' \in 1 .. made' /\ cachedLive'
      BY Zenon, <1>4, LookupEffect DEF LookUp, BeginBatch
    <2>2. cachedLive' \in BOOLEAN /\ (cachedLive' => made' > 0)
      BY <1>4, <2>1 DEF LookUp, BeginBatch, Lookup
    <2>3. CASE LookUp(t)
      <3> DEFINE r == [Idle EXCEPT !.pc = "looked", !.arc = made']
      <3>1. /\ r \in TaskStates /\ task' = [task EXCEPT ![t] = r]
            /\ r.pc = "looked" /\ r.arc = made' /\ r.home = 0
            /\ t \notin superseded'
        <4>1. made' \in Nat
          BY <1>3, <2>1
        <4> QED
          BY Zenon, <4>1, <2>3 DEF LookUp, Idle, TaskStates
      <3> HIDE DEF r
      <3> QED
        BY ZenonT(30), <1>1, <1>2, <2>1, <2>2, <3>1, TaskMoves
    <2>4. CASE BeginBatch(t)
      <3> DEFINE r == [task[t] EXCEPT !.pc = "batch", !.arc = made']
      <3>1. /\ r \in TaskStates /\ task' = [task EXCEPT ![t] = r]
            /\ r.pc = "batch" /\ r.arc = made' /\ r.home = task[t].home
            /\ r.id = task[t].id /\ r.home # 0
        <4>1. made' \in Nat
          BY <1>3, <2>1
        <4>2. task[t].home # 0 /\ task' = [task EXCEPT ![t] = r]
          BY Zenon, <2>4 DEF BeginBatch, TasksInv, IdsAge
        <4> QED
          BY ZenonT(30), <4>1, <4>2, <1>3 DEF TaskStates
      <3> HIDE DEF r
      <3> QED
        BY ZenonT(30), <1>1, <1>2, <2>1, <2>2, <3>1, TaskMoves
    <2> QED
      BY Zenon, <1>4, <2>3, <2>4
  <1>5. CASE Capture(t)
    <2> DEFINE a == task[t].arc
               r == [task[t] EXCEPT !.pc = "captured", !.id = lane[a].active, !.home = a]
    <2>1. /\ task[t].pc = "looked" /\ a \in 1 .. made /\ a \in Authorities
          /\ a # 0 /\ t \notin superseded
      BY <1>3, <1>5 DEF Capture, TasksInv, IdsAge, Authorities
    <2>2. lane[a].active \in Nat
      BY Zenon, <2>1 DEF LanesInv, Lanes
    <2>3. /\ r \in TaskStates /\ task' = [task EXCEPT ![t] = r]
          /\ r.pc = "captured" /\ r.arc = a /\ r.home = a
          /\ r.id = lane[a].active /\ UNCHANGED <<made, cachedLive>>
      BY Zenon, <1>3, <1>5, <2>1, <2>2 DEF Capture, TaskStates
    <2> HIDE DEF r, a
    <2>4. r.arc \in 1 .. made /\ r.home # 0 /\ made' = made /\ cachedLive' = cachedLive
      BY Zenon, <2>1, <2>3
    <2> QED
      BY ZenonT(30), <1>1, <1>2, <1>3, <2>1, <2>3, <2>4, TaskMovesAlone
  <1>6. CASE Stop(t) \/ (EndBatch(t) /\ task[t].pc = "captured")
    <2>1. /\ task' = [task EXCEPT ![t] = Idle]
          /\ made' = made /\ cachedLive' = cachedLive
          /\ Idle.pc = "idle" /\ Idle.home = 0
      BY Zenon, <1>3, <1>6 DEF Stop, EndBatch, Idle, TasksInv
    <2> QED
      BY Zenon, <1>1, <1>2, <1>3, <2>1, TaskMovesAlone
  <1>7. CASE EndBatch(t) /\ task[t].pc = "batch"
    <2> DEFINE r == [task[t] EXCEPT !.pc = "on", !.arc = 0]
    <2>1. /\ r \in TaskStates /\ task' = [task EXCEPT ![t] = r]
          /\ r.pc = "on" /\ r.home = task[t].home /\ r.id = task[t].id
          /\ r.home # 0 /\ made' = made /\ cachedLive' = cachedLive
      BY Zenon, <1>3, <1>7 DEF EndBatch, TaskStates, TasksInv, IdsAge
    <2> HIDE DEF r
    <2> QED
      BY ZenonT(30), <1>1, <1>2, <1>3, <2>1, TaskMovesAlone
  <1> QED
    BY <1>1, <1>4, <1>5, <1>6, <1>7 DEF EndBatch

\* An observation, heard or refused, by any kind of task.
LEMMA ObserveStep ==
    ASSUME TasksInv, LanesInv, NEW t \in Tasks, NEW s \in Sources,
           \/ observe_admission(t, s) \/ observe_removal(t, s)
           \/ observe_active(t, s)
    PROVE  LanesInv' /\ TasksInv' /\ Quiet
  <1> DEFINE a == task[t].arc
  <1>1. a \in Authorities
    BY LaneAssumption DEF observe_admission, observe_removal, observe_active,
                          TasksInv, Authorities
  <1>2. /\ Admit(a, s) \/ Invalidate(a, s)
        /\ UNCHANGED <<made, cachedLive, superseded>>
    BY Zenon DEF observe_admission, observe_removal, observe_active
  <1> HIDE DEF a
  <1>3. LanesInv' /\ Quiet
    BY Zenon, <1>1, <1>2, AdmitStep, InvalidateStep
  <1>4. \A b \in Authorities : lane'[b].active = lane[b].active
    BY Zenon, <1>3 DEF Quiet
  <1>5. CASE observe_active(t, s)
    <2>1. /\ task' = [task EXCEPT ![t] = Idle]
          /\ Idle \in TaskStates /\ Idle.pc = "idle" /\ Idle.home = 0
      BY Zenon, <1>5 DEF observe_active, Idle, TaskStates
    <2>2. made' = made /\ cachedLive' = cachedLive /\ superseded' \subseteq superseded
      BY Zenon, <1>2
    <2> QED
      BY Zenon, <1>3, <1>4, <2>1, <2>2, TaskMovesAlone
  <1>6. CASE observe_admission(t, s) \/ observe_removal(t, s)
    <2>1. UNCHANGED <<made, task, superseded>>
      BY Zenon, <1>6 DEF observe_admission, observe_removal
    <2>2. cachedLive' \in BOOLEAN /\ (cachedLive' => cachedLive)
      BY Zenon, <1>2 DEF TasksInv
    <2> QED
      BY <1>3, <1>4, <2>1, <2>2, TasksStay
  <1> QED
    BY Zenon, <1>5, <1>6

\* A gap report ends its batch whether or not it is heard.
LEMMA GapStep ==
    ASSUME TasksInv, LanesInv, NEW t \in Tasks, report_gap(t)
    PROVE  LanesInv' /\ TasksInv' /\ Quiet
  <1> DEFINE a == task[t].arc
             r == [task[t] EXCEPT !.pc = "on", !.arc = 0]
  <1>1. a \in Authorities
    BY LaneAssumption DEF report_gap, TasksInv, Authorities
  <1>2. LanesInv' /\ Quiet
    <2>1. CASE Heard(t)
      <3>1. "Gap" \in Causes \ {"none"}
        BY Zenon DEF Causes
      <3>2. /\ lane' = [lane EXCEPT ![a] = latched(@, "Gap")]
            /\ owed' = [owed EXCEPT ![a] = TRUE]
            /\ UNCHANGED <<newest, admitted>>
        BY Zenon, <2>1 DEF report_gap
      <3> HIDE DEF a
      <3> QED
        BY Zenon, <1>1, <3>1, <3>2, LatchStep
    <2>2. CASE ~Heard(t)
      BY Zenon, <2>2 DEF report_gap, LanesInv, Quiet
    <2> QED
      BY Zenon, <2>1, <2>2
  <1>3. \A b \in Authorities : lane'[b].active = lane[b].active
    BY Zenon, <1>2 DEF Quiet
  <1>4. task[t] \in TaskStates /\ task[t].home # 0
    BY Zenon DEF report_gap, TasksInv, IdsAge
  <1>5. /\ r \in TaskStates /\ task' = [task EXCEPT ![t] = r]
        /\ r.pc = "on" /\ r.home = task[t].home /\ r.id = task[t].id
    BY Zenon, <1>4 DEF report_gap, TaskStates
  <1>6. made' = made /\ cachedLive' = cachedLive /\ superseded' \subseteq superseded
    BY Zenon DEF report_gap
  <1> HIDE DEF r
  <1> QED
    BY ZenonT(30), <1>2, <1>3, <1>4, <1>5, <1>6, TaskMovesAlone

\* A stranded write, a permit return and the fence.
LEMMA WriterStep ==
    ASSUME TasksInv, LanesInv,
           \/ \E a \in 1 .. made : latch_scope_dirty(a) \/ ReturnCut(a)
           \/ Evict
    PROVE  LanesInv' /\ TasksInv' /\ CutComplete
  <1>1. CASE Evict
    <2>1. /\ LanesInv' /\ CutComplete
          /\ \A b \in Authorities : lane'[b].active = lane[b].active
          /\ UNCHANGED <<made, task, superseded>>
          /\ cachedLive' \in BOOLEAN /\ (cachedLive' => cachedLive)
      BY Zenon, <1>1 DEF Evict, historyVars, LanesInv, CutComplete
    <2> QED
      BY Zenon, <2>1, TasksStay
  <1>2. ASSUME NEW a \in 1 .. made, latch_scope_dirty(a) \/ ReturnCut(a)
        PROVE  LanesInv' /\ TasksInv' /\ CutComplete
    <2>1. a \in Authorities
      BY LaneAssumption DEF TasksInv, Authorities
    <2>2. /\ LanesInv' /\ CutComplete
          /\ \A b \in Authorities : lane'[b].active = lane[b].active
      <3>1. CASE latch_scope_dirty(a)
        <4>1. /\ "ScopeDirty" \in Causes \ {"none"}
              /\ lane' = [lane EXCEPT ![a] = latched(@, "ScopeDirty")]
              /\ owed' = [owed EXCEPT ![a] = TRUE]
              /\ UNCHANGED <<newest, admitted>>
          BY Zenon, <3>1 DEF latch_scope_dirty, Causes
        <4>2. LanesInv' /\ Quiet
          BY Zenon, <2>1, <4>1, LatchStep
        <4> QED
          BY Zenon, <4>2 DEF Quiet, CutComplete
      <3>2. CASE ReturnCut(a)
        BY Zenon, <2>1, <3>2, CutStep DEF CutComplete
      <3> QED
        BY Zenon, <1>2, <3>1, <3>2
    <2>3. /\ UNCHANGED <<made, task, superseded>>
          /\ cachedLive' \in BOOLEAN /\ (cachedLive' => cachedLive)
      BY <1>2 DEF latch_scope_dirty, ReturnCut, TasksInv
    <2> QED
      BY Zenon, <2>2, <2>3, TasksStay
  <1> QED
    BY Zenon, <1>1, <1>2

\* Every step keeps the invariant, and every cut it makes is complete.
LEMMA StepKeeps ==
    ASSUME IInv, [Next]_vars
    PROVE  IInv' /\ CutComplete
  <1>1. LanesInv /\ TasksInv
    BY Zenon, Parts
  <1>2. SUFFICES LanesInv' /\ TasksInv' /\ CutComplete
    <2>1. IInv' <=> (LanesInv /\ TasksInv)'
      BY Parts, PTL
    <2> QED
      BY Zenon, <2>1
  <1>3. ASSUME NEW t \in Tasks, Register(t)
        PROVE  LanesInv' /\ TasksInv' /\ CutComplete
    BY Zenon, <1>1, <1>3, RegisterStep DEF CutComplete
  <1>4. ASSUME NEW t \in Tasks,
               \/ LookUp(t) \/ Capture(t) \/ BeginBatch(t) \/ EndBatch(t) \/ Stop(t)
        PROVE  LanesInv' /\ TasksInv' /\ CutComplete
    <2>1. LanesInv' /\ TasksInv' /\ lane' = lane
      BY Zenon, <1>1, <1>4, MoveStep
    <2> QED
      BY Zenon, <2>1 DEF CutComplete
  <1>5. ASSUME NEW t \in Tasks, report_gap(t)
        PROVE  LanesInv' /\ TasksInv' /\ CutComplete
    BY <1>1, <1>5, GapStep DEF Quiet, CutComplete
  <1>6. ASSUME NEW t \in Tasks, NEW s \in Sources,
               \/ observe_admission(t, s) \/ observe_removal(t, s)
               \/ observe_active(t, s)
        PROVE  LanesInv' /\ TasksInv' /\ CutComplete
    BY <1>1, <1>6, ObserveStep DEF Quiet, CutComplete
  <1>7. CASE \/ \E a \in 1 .. made : latch_scope_dirty(a) \/ ReturnCut(a)
             \/ Evict
    BY <1>1, <1>7, WriterStep
  <1>8. CASE UNCHANGED vars
    BY Zenon, <1>1, <1>8 DEF vars, historyVars, LanesInv, TasksInv, IdsAge, CutComplete
  <1> QED
    BY <1>3, <1>4, <1>5, <1>6, <1>7, <1>8 DEF Next

\* The lane a new authority starts with is sound and owes nothing.
LEMMA InitKeeps ==
    ASSUME Init
    PROVE  IInv
  <1>1. /\ Nothing \in Stamps /\ new_supervisor \in Supervisors
        /\ \A s \in Sources : Nothing[s] = NoStamp
    BY DEF Nothing, Stamps, NoStamp, new_supervisor, Supervisors, Dispositions
  <1>2. Settled(new_supervisor)
    BY Zenon, <1>1 DEF Settled, new_supervisor
  <1>3. /\ [s \in Sources |-> new_supervisor] \in [Sources -> Supervisors]
        /\ [s \in Sources |-> Absent] \in [Sources -> Nat \cup {Absent}]
        /\ [kind |-> "none", invalidations |-> Nothing]
              \in [kind : CutKinds, invalidations : Stamps]
    BY Zenon, <1>1 DEF CutKinds
  <1>4. new_lane \in Lanes
    BY Zenon, <1>1, <1>3 DEF new_lane, Lanes, Causes
  <1>5. /\ new_lane.active = new_lane.next_observer /\ new_lane.latch = "none"
        /\ new_lane.pending = Nothing
        /\ \A s \in Sources : new_lane.sup[s] = new_supervisor /\ new_lane.root[s] = Absent
    BY Zenon DEF new_lane
  <1>6. Sound(new_lane, Nothing) /\ Retains(new_lane, Nothing, FALSE)
    BY Zenon, <1>1, <1>2, <1>4, <1>5 DEF Sound, Retains
  <1>7. LanesInv
    BY Zenon, <1>1, <1>4, <1>6 DEF Init, LanesInv
  <1>8. /\ task \in [Tasks -> TaskStates]
        /\ \A t \in Tasks : task[t].pc = "idle" /\ task[t].home = 0
    BY Zenon DEF Init, Idle, TaskStates
  <1>9. \A a \in Authorities : lane[a].active = lane[a].next_observer
    BY Zenon, <1>5 DEF Init
  <1>10. /\ made \in 0 .. MaxAuthorities /\ cachedLive \in BOOLEAN
         /\ ~cachedLive /\ superseded = {}
    <2>1. made = 0 /\ cachedLive = FALSE /\ superseded = {}
      BY Zenon DEF Init
    <2>2. made \in 0 .. MaxAuthorities
      BY <2>1, LaneAssumption
    <2> QED
      BY <2>1, <2>2, Zenon
  <1>11. IdsAge
    BY Zenon, <1>8, <1>9 DEF IdsAge
  <1>12. TasksInv
    BY <1>8, <1>10, <1>11 DEF TasksInv
  <1> QED
    BY <1>7, <1>12, Parts

-----------------------------------------------------------------------------

\* The inductive invariant holds in every reachable state, for any number of
\* tasks, sources and authorities, any accumulator bound and any budget.
THEOREM LaneInvariant == Spec => []IInv
  <1>1. Init => IInv
    BY Zenon, InitKeeps
  <1>2. IInv /\ [Next]_vars => IInv'
    BY Zenon, StepKeeps
  <1> QED
    BY <1>1, <1>2, PTL DEF Spec

\* A task that observes holds an authority that was made.
THEOREM LaneTypes == Spec => []TypeOK
  <1>1. IInv => TypeOK
    BY Zenon DEF IInv
  <1> QED
    BY <1>1, LaneInvariant, PTL

\* CoalescingAccumulator::observe and the latch lose nothing: what a lane heard
\* since its last cut is pending, or the next cut is a baseline.
THEOREM NothingIsLost == Spec => []NothingLost
  <1>1. IInv => NothingLost
    BY Zenon DEF IInv
  <1> QED
    BY <1>1, LaneInvariant, PTL

\* observe_admission_locked never meets a superseded attempt or a stale token.
THEOREM AdmissionsAllCommit == Spec => []AdmissionsCommit
  <1>1. IInv => AdmissionsCommit
    BY Zenon DEF IInv
  <1> QED
    BY <1>1, LaneInvariant, PTL

\* CoalescingAccumulator::cut: a baseline that is owed is given, and an
\* incremental cut names exactly what was heard.
THEOREM CutsAreAllComplete == Spec => CutsAreComplete
  <1>1. IInv /\ [Next]_vars => [CutComplete]_vars
    BY Zenon, StepKeeps
  <1> QED
    BY <1>1, LaneInvariant, PTL DEF Spec, CutsAreComplete, CutComplete

\* refuse_stale_observer: a superseded incarnation changes its lane no more.
THEOREM SupersededIsSilent == Spec => SupersededStaysSilent
  <1> DEFINE Silent ==
        \A t \in superseded :
           task[t].home = task[t].arc =>
              /\ ~report_gap(t) \/ UNCHANGED lane
              /\ \A s \in Sources : ~observe_admission(t, s) /\ ~observe_removal(t, s)
  <1>1. IInv => Silent
    <2> SUFFICES ASSUME IInv, NEW t \in superseded, task[t].home = task[t].arc
                 PROVE  /\ ~report_gap(t) \/ UNCHANGED lane
                        /\ \A s \in Sources :
                              ~observe_admission(t, s) /\ ~observe_removal(t, s)
      BY Zenon
    <2>1. t \in Tasks
      BY Zenon DEF IInv, TypeOK
    <2>2. task[t].pc \in {"batch", "captured"} => ~Heard(t)
      <3> SUFFICES ASSUME task[t].pc \in {"batch", "captured"} PROVE ~Heard(t)
        BY Zenon
      <3>1. /\ task[t].home # 0 /\ task[t].home \in Authorities
            /\ task[t].id < lane[task[t].home].active
        BY <2>1, LaneAssumption DEF IInv, IdsAge, TypeOK, Authorities
      <3>2. lane[task[t].home].active \in Nat /\ task[t].id \in Nat
        BY Zenon, <2>1, <3>1 DEF IInv, TypeOK, Lanes, TaskStates
      <3> QED
        BY <3>1, <3>2 DEF Heard
    <2> QED
      BY Zenon, <2>2 DEF report_gap, observe_admission, observe_removal
  <1>2. IInv => [Silent]_vars
    BY Zenon, <1>1
  <1> QED
    BY <1>2, LaneInvariant, PTL DEF SupersededStaysSilent
=============================================================================
