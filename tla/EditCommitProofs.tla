-------------------------- MODULE EditCommitProofs --------------------------
(***************************************************************************)
(* For any number of writers, files and outside writes: when every writer  *)
(* takes the path locks, no compared write removes another's edit and no   *)
(* batch misreports what it left behind.                                   *)
(*                                                                         *)
(* A step of a writer replaces at most one file, which it has locked, and  *)
(* only with what it read or what it computed from it.  So it keeps the    *)
(* invariant of every other writer, whatever the step is, and what is left *)
(* is to look at each step for the writer that takes it.                   *)
(***************************************************************************)
EXTENDS EditCommit, TLAPS, WellFoundedInduction

-----------------------------------------------------------------------------
(* The first and the last of a set of paths are among them.                *)

\* A set of naturals that is not empty has a least element.
LEMMA Least ==
    ASSUME NEW S, S \subseteq Nat, S # {}
    PROVE  \E x \in S : \A y \in S : x <= y
  <1>1. PICK x \in S : \A y \in S : ~(<<y, x>> \in OpToRel(<, Nat))
    BY Zenon, NatLessThanWellFounded, WFMin
  <1>2. ASSUME NEW y \in S, y < x
        PROVE  <<y, x>> \in OpToRel(<, Nat)
    <2>1. <<y, x>> \in Nat \X Nat /\ <<y, x>>[1] = y /\ <<y, x>>[2] = x
      BY Zenon
    <2> QED
      BY Zenon, <1>2, <2>1 DEF OpToRel
  <1>3. \A y \in S : ~(y < x)
    BY Zenon, <1>1, <1>2
  <1> QED
    BY <1>3

\* The files of a writer are handled from the first to the last, and rolled
\* back from the last to the first; both are files that are left to handle.
LEMMA EndsAreIn ==
    ASSUME NEW S, S \subseteq Paths, S # {}
    PROVE  Min(S) \in S /\ Max(S) \in S
  <1>1. \E x \in S : \A y \in S : x <= y
    BY Zenon, Least, ConstantsOK
  <1>2. PICK last \in Paths : \A p \in Paths : p <= last
    BY Zenon, ConstantsOK
  <1>3. \A p \in S : last - p \in Nat /\ p \in Nat
    BY <1>2, ConstantsOK
  <1>4. \E d \in {last - p : p \in S} : \A e \in {last - p : p \in S} : d <= e
    <2>1. {last - p : p \in S} \subseteq Nat /\ {last - p : p \in S} # {}
      BY Zenon, <1>3
    <2> QED
      BY Zenon, <2>1, Least
  <1>5. PICK x \in S : \A y \in S : last - x <= last - y
    BY Zenon, <1>4
  <1>6. \E x_1 \in S : \A y \in S : x_1 >= y
    BY <1>2, <1>3, <1>5, ConstantsOK
  <1> QED
    BY Zenon, <1>1, <1>6 DEF Min, Max

-----------------------------------------------------------------------------
(* Types.                                                                  *)

\* What is written is an image of a file: what was read, with or without the
\* writer's own edit.
LEMMA ImageTypes ==
    ASSUME TypeOK, NEW w \in Writers, NEW p \in Paths
    PROVE  /\ original(w, p) \in Images /\ replacement(w, p) \in Images
           /\ Edits(replacement(w, p)) \subseteq Edits(original(w, p)) \cup {w}
           /\ Edits(original(w, p)) \subseteq Edits(replacement(w, p))
           /\ w \in Edits(replacement(w, p))
  <1>1. original(w, p) \in Images
    BY Zenon DEF TypeOK, States, original
  <1>2. Edits(original(w, p)) \in SUBSET (Writers \cup {Outside})
    BY Zenon, <1>1 DEF Images, Edits
  <1>3. /\ replacement(w, p) = Edits(original(w, p)) \cup {w}
        /\ replacement(w, p) \in SUBSET (Writers \cup {Outside})
    BY Zenon, <1>2 DEF replacement, original
  <1>4. Edits(replacement(w, p)) = replacement(w, p)
    BY Zenon, <1>3, ConstantsOK DEF Edits
  <1> QED
    BY Zenon, <1>1, <1>3, <1>4 DEF Images

\* The first and the last file on a writer's list are files of the writer.
LEMMA NextFile ==
    ASSUME IInv, NEW w \in Writers, st[w].todo # {}
    PROVE  /\ Min(st[w].todo) \in st[w].todo /\ Max(st[w].todo) \in st[w].todo
           /\ Min(st[w].todo) \in Targets[w] /\ Max(st[w].todo) \in Targets[w]
           /\ Min(st[w].todo) \in Paths /\ Max(st[w].todo) \in Paths
  <1>1. st[w].todo \subseteq Targets[w] /\ Targets[w] \subseteq Paths
    BY Zenon, ConstantsOK DEF IInv, WriterInv, TodoInv
  <1> QED
    BY Zenon, <1>1, EndsAreIn

\* What a step leaves of the other writers, and the fields it keeps.
Others(w) == \A v \in Writers \ {w} : st'[v] = st[v]
KeepsBase(w) == st'[w].base = st[w].base
KeepsReport(w) == st'[w].uncertain = st[w].uncertain
KeepsAttempts(w) == st'[w].attempted = st[w].attempted

\* A writer's state is replaced by another.
LEMMA Becoming ==
    ASSUME TypeOK, NEW w \in Writers, NEW s \in States, Becomes(w, s)
    PROVE  st' \in [Writers -> States] /\ st'[w] = s /\ Others(w)
  BY Zenon DEF TypeOK, Becomes, Others

\* A writer goes to another place with a new list.
LEMMA ToFields ==
    ASSUME TypeOK, NEW w \in Writers, NEW c \in Pcs, NEW T \in SUBSET Paths, To(w, c, T)
    PROVE  /\ st' \in [Writers -> States] /\ Others(w)
           /\ st'[w].pc = c /\ st'[w].todo = T
           /\ KeepsBase(w) /\ KeepsReport(w) /\ KeepsAttempts(w)
  <1> DEFINE s == [st[w] EXCEPT !.pc = c, !.todo = T]
  <1>1. st[w] \in States
    BY Zenon DEF TypeOK
  <1>2. /\ s \in States /\ s.pc = c /\ s.todo = T /\ s.base = st[w].base
        /\ s.uncertain = st[w].uncertain /\ s.attempted = st[w].attempted
    BY Zenon, <1>1 DEF States
  <1> QED
    BY Zenon, <1>2, Becoming DEF To, KeepsBase, KeepsReport, KeepsAttempts

\* A writer starts to roll back what it has attempted.
LEMMA RollBackFields ==
    ASSUME TypeOK, NEW w \in Writers, NEW T \in SUBSET Paths, RollBack(w, T)
    PROVE  /\ st' \in [Writers -> States] /\ Others(w)
           /\ st'[w].pc = "rollback" /\ st'[w].todo = T /\ st'[w].attempted = T
           /\ KeepsBase(w) /\ KeepsReport(w)
  <1> DEFINE s == [st[w] EXCEPT !.pc = "rollback", !.todo = T, !.attempted = T]
  <1>1. st[w] \in States
    BY Zenon DEF TypeOK
  <1>2. /\ s \in States /\ s.pc = "rollback" /\ s.todo = T /\ s.attempted = T
        /\ s.base = st[w].base /\ s.uncertain = st[w].uncertain
    BY Zenon, <1>1 DEF States, Pcs, Writing, Restoring
  <1> QED
    BY Zenon, <1>2, Becoming DEF RollBack, KeepsBase, KeepsReport

\* A writer gives a file up and reports it.
LEMMA UndecidedFields ==
    ASSUME TypeOK, NEW w \in Writers, NEW p \in Paths, Undecided(w, p)
    PROVE  /\ st' \in [Writers -> States] /\ Others(w)
           /\ st'[w].pc = "rollback" /\ st'[w].todo = st[w].todo \ {p}
           /\ st'[w].uncertain = st[w].uncertain \cup {p}
           /\ KeepsBase(w) /\ KeepsAttempts(w)
  <1> DEFINE s == [st[w] EXCEPT !.pc = "rollback", !.todo = @ \ {p},
                                !.uncertain = @ \cup {p}]
  <1>1. st[w] \in States
    BY Zenon DEF TypeOK
  <1>2. /\ s \in States /\ s.pc = "rollback" /\ s.todo = st[w].todo \ {p}
        /\ s.uncertain = st[w].uncertain \cup {p}
        /\ s.base = st[w].base /\ s.attempted = st[w].attempted
    BY Zenon, <1>1 DEF States, Pcs, Writing, Restoring
  <1> QED
    BY Zenon, <1>2, Becoming DEF Undecided, KeepsBase, KeepsAttempts

\* A writer that reads its files keeps what it read.
LEMMA StageFields ==
    ASSUME IInv, AllLock, NEW w \in Writers, Stage(w)
    PROVE  /\ st' \in [Writers -> States] /\ Others(w)
           /\ st[w].pc = "idle" /\ st'[w].pc = "lock" /\ st'[w].todo = Targets[w]
           /\ \A p \in Paths : st'[w].base[p] = disk[p] \/ st'[w].base[p] = NoFile
           /\ KeepsReport(w) /\ KeepsAttempts(w)
           /\ UNCHANGED <<disk, lock>>
  <1> DEFINE base == [p \in Paths |-> IF p \in Targets[w] THEN disk[p] ELSE NoFile]
             s == [st[w] EXCEPT !.base = base, !.todo = Targets[w], !.pc = "lock"]
  <1>1. TypeOK /\ st[w] \in States /\ Targets[w] \in SUBSET Paths
    BY Zenon, ConstantsOK DEF IInv, TypeOK
  <1>2. base \in [Paths -> Images] /\ \A p \in Paths : base[p] = disk[p] \/ base[p] = NoFile
    BY Zenon, <1>1 DEF TypeOK, Images
  <1> HIDE DEF base
  <1>3. /\ s \in States /\ s.pc = "lock" /\ s.todo = Targets[w] /\ s.base = base
        /\ s.uncertain = st[w].uncertain /\ s.attempted = st[w].attempted
    BY Zenon, <1>1, <1>2 DEF States, Pcs
  <1>4. Becomes(w, s) /\ st[w].pc = "idle" /\ UNCHANGED <<disk, lock>>
    BY Zenon DEF Stage, AllLock, base
  <1> HIDE DEF s
  <1>5. st' \in [Writers -> States] /\ st'[w] = s /\ Others(w)
    BY Zenon, <1>1, <1>3, <1>4, Becoming
  <1> QED
    BY Zenon, <1>2, <1>3, <1>4, <1>5 DEF KeepsReport, KeepsAttempts

\* A file counts as attempted when its write is done.
LEMMA AttemptFields ==
    ASSUME TypeOK, NEW w \in Writers, NEW T \in SUBSET Paths,
           Becomes(w, [st[w] EXCEPT !.pc = "verify", !.attempted = T])
    PROVE  /\ st' \in [Writers -> States] /\ Others(w)
           /\ st'[w].pc = "verify" /\ st'[w].todo = st[w].todo /\ st'[w].attempted = T
           /\ KeepsBase(w) /\ KeepsReport(w)
  <1> DEFINE s == [st[w] EXCEPT !.pc = "verify", !.attempted = T]
  <1>1. st[w] \in States
    BY Zenon DEF TypeOK
  <1>2. /\ s \in States /\ s.pc = "verify" /\ s.todo = st[w].todo /\ s.attempted = T
        /\ s.base = st[w].base /\ s.uncertain = st[w].uncertain
    BY Zenon, <1>1 DEF States, Pcs, Writing
  <1> QED
    BY Zenon, <1>2, Becoming DEF KeepsBase, KeepsReport

\* A write replaces one file, or nothing.
LEMMA WroteFields ==
    ASSUME TypeOK, NEW p \in Paths, NEW image \in Images, NEW landed \in BOOLEAN,
           Wrote(p, image, landed)
    PROVE  /\ disk' \in [Paths -> Images]
           /\ disk'[p] = disk[p] \/ disk'[p] = image
           /\ \A q \in Paths \ {p} : disk'[q] = disk[q]
  BY Zenon DEF TypeOK, Wrote

\* Unlocking leaves the locks of the other writers.
LEMMA UnlockedFields ==
    ASSUME TypeOK, NEW w \in Writers, Unlocked(w)
    PROVE  /\ lock' \in [Paths -> Writers \cup {NoOne}]
           /\ \A q \in Paths : lock[q] # w => lock'[q] = lock[q]
  BY Zenon DEF TypeOK, Unlocked

\* A writer returns.
LEMMA EndFields ==
    ASSUME TypeOK, NEW w \in Writers, NEW outcome \in Ended, End(w, outcome)
    PROVE  /\ st' \in [Writers -> States] /\ Others(w)
           /\ st'[w].pc = outcome /\ st'[w].todo = {}
           /\ KeepsBase(w) /\ KeepsReport(w) /\ KeepsAttempts(w)
           /\ lock' \in [Paths -> Writers \cup {NoOne}]
           /\ \A q \in Paths : lock[q] # w => lock'[q] = lock[q]
  <1>1. To(w, outcome, {}) /\ Unlocked(w) /\ outcome \in Pcs
    BY Zenon DEF End, Pcs
  <1> QED
    BY Zenon, <1>1, ToFields, UnlockedFields

-----------------------------------------------------------------------------
(* What every step of a writer leaves alone, and why the others keep their *)
(* invariant.                                                              *)

\* It changes no other writer and no lock of another; it changes a file only
\* under its lock while it writes, to what it read with or without its own
\* edit; and it reads only what is there.
Shape(w) ==
    /\ Others(w)
    /\ \A q \in Paths : lock[q] # w /\ lock[q] # NoOne => lock'[q] = lock[q]
    /\ \A q \in Paths : \/ disk'[q] = disk[q]
                         \/ /\ lock[q] = w /\ q \in Targets[w] /\ st[w].pc \in Writing
                            /\ Edits(st[w].base[q]) \subseteq Edits(disk'[q])
                            /\ Edits(disk'[q]) \subseteq Edits(st[w].base[q]) \cup {w}
    /\ \A q \in Paths : Edits(st'[w].base[q]) \subseteq Edits(st[w].base[q]) \cup Edits(disk[q])

\* Such a step keeps the invariant of every other writer.
LEMMA OthersKeep ==
    ASSUME IInv, NEW w \in Writers, Shape(w), NEW v \in Writers, v # w
    PROVE  WriterInv(v)'
  <1>1. /\ st'[v] = st[v] /\ WriterInv(v) /\ Targets[v] \subseteq Paths
        /\ v # NoOne
    BY Zenon, ConstantsOK DEF IInv, Shape, Others
  <1>2. \A p \in Targets[v] : lock[p] = v => lock'[p] = v /\ disk'[p] = disk[p]
    BY Zenon, <1>1 DEF Shape
  <1>3. TodoInv(v)'
    BY Zenon, <1>1 DEF WriterInv, TodoInv
  <1>4. LockInv(v)'
    BY Zenon, <1>1, <1>2 DEF WriterInv, LockInv
  <1>5. KnownInv(v)'
    BY Zenon, <1>1, <1>2 DEF WriterInv, LockInv, KnownInv
  <1>6. UnseenInv(v)'
    <2> SUFFICES ASSUME Batch(v), st[v].pc \notin Ended
                 PROVE  /\ \A p \in Paths : v \notin Edits(st'[v].base[p])
                        /\ \A p \in Paths \ st'[v].attempted :
                             /\ v \notin Edits(disk'[p])
                             /\ \A u \in Writers : v \notin Edits(st'[u].base[p])
      BY Zenon, <1>1 DEF UnseenInv, Batch, Edits
    <2>1. UnseenInv(v)
      BY Zenon, <1>1 DEF WriterInv
    <2>2. ASSUME NEW p \in Paths \ st[v].attempted
          PROVE  v \notin Edits(disk'[p]) /\ v \notin Edits(st'[w].base[p])
      BY <2>1, <2>2 DEF UnseenInv, Shape
    <2> QED
      BY <1>1, <2>1, <2>2 DEF UnseenInv, Shape, Others
  <1>7. ReportInv(v)'
    BY Zenon, <1>1, <1>2 DEF WriterInv, LockInv, ReportInv, Writing, Batch, Edits
  <1> QED
    BY Zenon, <1>3, <1>4, <1>5, <1>6, <1>7 DEF WriterInv

\* A step that writes no file and reads none has this shape.
LEMMA QuietShape ==
    ASSUME NEW w \in Writers, Others(w), KeepsBase(w), disk' = disk,
           \A q \in Paths : lock[q] # w /\ lock[q] # NoOne => lock'[q] = lock[q]
    PROVE  Shape(w)
  BY Zenon DEF Shape, KeepsBase

\* Nor does it give away an edit that nobody has.
LEMMA QuietUnseen ==
    ASSUME IInv, NEW w \in Writers, st[w].pc \notin Ended, Others(w), KeepsBase(w),
           disk' = disk, st[w].attempted \subseteq st'[w].attempted
    PROVE  UnseenInv(w)'
  <1>1. UnseenInv(w) /\ \A v \in Writers : st'[v].base = st[v].base
    BY Zenon DEF IInv, WriterInv, Others, KeepsBase
  <1> QED
    BY Zenon, <1>1 DEF UnseenInv, Batch, Edits

-----------------------------------------------------------------------------
(* The steps, for the writer that takes them.                              *)

Kept(w) == Shape(w) /\ TypeOK' /\ WriterInv(w)'

\* Nothing a batch reads contains the edit it has not made yet.
LEMMA StageKeeps ==
    ASSUME IInv, AllLock, NEW w \in Writers, Stage(w)
    PROVE  Kept(w)
  <1>1. TypeOK /\ WriterInv(w)
    BY Zenon DEF IInv
  <1>2. /\ st' \in [Writers -> States] /\ Others(w)
        /\ st[w].pc = "idle" /\ st'[w].pc = "lock" /\ st'[w].todo = Targets[w]
        /\ \A p \in Paths : st'[w].base[p] = disk[p] \/ st'[w].base[p] = NoFile
        /\ KeepsAttempts(w) /\ disk' = disk /\ lock' = lock
    BY Zenon, StageFields
  <1>3. st[w].attempted = {} /\ st'[w].attempted = {}
    BY Zenon, <1>1, <1>2 DEF WriterInv, TodoInv, KeepsAttempts
  <1>4. Shape(w) /\ TypeOK'
    BY Zenon, <1>1, <1>2 DEF Shape, TypeOK, Edits
  <1>5. TodoInv(w)' /\ LockInv(w)' /\ KnownInv(w)' /\ ReportInv(w)'
    <2>1. Targets[w] # {}
      BY Zenon, ConstantsOK
    <2> QED
      BY Zenon, <1>2, <1>3, <2>1
      DEF TodoInv, LockInv, KnownInv, ReportInv, Writing, Restoring, Ended
  <1>6. UnseenInv(w)'
    <2> SUFFICES ASSUME Batch(w)
                 PROVE  \A p \in Paths :
                           /\ w \notin Edits(disk'[p])
                           /\ \A v \in Writers : w \notin Edits(st'[v].base[p])
      BY Zenon DEF UnseenInv, Batch, Edits
    <2>1. \A p \in Paths : /\ w \notin Edits(disk[p])
                           /\ \A v \in Writers : w \notin Edits(st[v].base[p])
      BY Zenon, <1>1, <1>2, <1>3 DEF WriterInv, UnseenInv, Ended
    <2> QED
      BY <1>2, <2>1 DEF Others, Edits
  <1> QED
    BY Zenon, <1>4, <1>5, <1>6 DEF Kept, WriterInv

\* When the last lock is taken the writer has them all.
LEMMA TakeLockKeeps ==
    ASSUME IInv, NEW w \in Writers, TakeLock(w)
    PROVE  Kept(w)
  <1> DEFINE p == Min(st[w].todo)
             rest == st[w].todo \ {p}
             c == IF rest # {} THEN "lock"
                  ELSE IF Kind[w] = "unguarded" THEN "write" ELSE "compare"
             T == IF rest # {} THEN rest ELSE Targets[w]
  <1>1. TypeOK /\ WriterInv(w) /\ Targets[w] \subseteq Paths /\ Targets[w] # {}
    BY Zenon, ConstantsOK DEF IInv
  <1>2. /\ st[w].pc = "lock" /\ lock[p] = NoOne /\ lock' = [lock EXCEPT ![p] = w]
        /\ To(w, c, T) /\ disk' = disk
    BY Zenon DEF TakeLock, LockOf
  <1>3. /\ st[w].todo # {} /\ st[w].todo \subseteq Targets[w] /\ st[w].attempted = {}
        /\ \A q \in Targets[w] \ st[w].todo : lock[q] = w
    BY Zenon, <1>1, <1>2 DEF WriterInv, TodoInv, LockInv, Pcs, Ended
  <1>4. p \in st[w].todo /\ p \in Paths
    BY Zenon, <1>3, NextFile
  <1>5. c \in Pcs /\ T \in SUBSET Paths /\ T # {} /\ T \subseteq Targets[w]
    BY Zenon, <1>1, <1>3 DEF Pcs, Writing
  <1>6. /\ st' \in [Writers -> States] /\ Others(w)
        /\ st'[w].pc = c /\ st'[w].todo = T
        /\ KeepsBase(w) /\ KeepsAttempts(w)
    BY <1>1, <1>2, <1>5, ToFields
  <1>7. /\ lock' \in [Paths -> Writers \cup {NoOne}] /\ lock'[p] = w
        /\ \A q \in Paths \ {p} : lock'[q] = lock[q]
    BY Zenon, <1>1, <1>2, <1>4 DEF TypeOK
  <1>8. Shape(w) /\ TypeOK'
    BY Zenon, <1>1, <1>2, <1>6, <1>7, QuietShape DEF TypeOK
  <1>9. UnseenInv(w)'
    BY Zenon, <1>2, <1>6, QuietUnseen DEF KeepsAttempts, Ended
  <1>10. TodoInv(w)'
    BY Zenon, <1>3, <1>5, <1>6 DEF TodoInv, KeepsAttempts
  <1>11. LockInv(w)'
    <2>1. \A q \in Targets[w] \ rest : lock'[q] = w
      BY Zenon, <1>1, <1>3, <1>4, <1>7
    <2> QED
      BY Zenon, <1>6, <2>1 DEF LockInv, Writing, Restoring
  <1>12. KnownInv(w)' /\ ReportInv(w)'
    BY Zenon, <1>6 DEF KnownInv, ReportInv, Writing, Restoring
  <1> QED
    BY Zenon, <1>8, <1>9, <1>10, <1>11, <1>12 DEF Kept, WriterInv

\* A writer that has returned owes nothing.
LEMMA EndedInv ==
    ASSUME IInv, NEW w \in Writers, NEW outcome \in Ended, End(w, outcome)
    PROVE  WriterInv(w)'
  <1>1. /\ st'[w].pc = outcome /\ st'[w].todo = {} /\ KeepsAttempts(w)
        /\ st[w].attempted \subseteq Targets[w]
    BY Zenon, EndFields DEF IInv, WriterInv, TodoInv
  <1> QED
    BY Zenon, <1>1 DEF WriterInv, TodoInv, LockInv, KnownInv, UnseenInv, ReportInv,
                Writing, Restoring, Ended, KeepsAttempts

\* It may return at any time without a write.
LEMMA EndKeeps ==
    ASSUME IInv, NEW w \in Writers, NEW outcome \in Ended, End(w, outcome), disk' = disk
    PROVE  Kept(w)
  <1>1. TypeOK
    BY Zenon DEF IInv
  <1>2. /\ st' \in [Writers -> States] /\ Others(w) /\ KeepsBase(w)
        /\ lock' \in [Paths -> Writers \cup {NoOne}]
        /\ \A q \in Paths : lock[q] # w => lock'[q] = lock[q]
    BY Zenon, <1>1, EndFields
  <1>3. Shape(w)
    BY Zenon, <1>2, QuietShape
  <1>4. TypeOK'
    BY Zenon, <1>1, <1>2 DEF TypeOK
  <1> QED
    BY Zenon, <1>3, <1>4, EndedInv DEF Kept

\* A matched pre-image is what the writer has read.
LEMMA CompareKeeps ==
    ASSUME IInv, NEW w \in Writers, Compare(w)
    PROVE  Kept(w)
  <1> DEFINE p == Min(st[w].todo)
             rest == st[w].todo \ {p}
             c == IF rest # {} THEN "compare" ELSE "write"
             T == IF rest # {} THEN rest ELSE Targets[w]
  <1>1. TypeOK /\ WriterInv(w) /\ Targets[w] \subseteq Paths /\ Targets[w] # {}
    BY Zenon, ConstantsOK DEF IInv
  <1>2. st[w].pc = "compare" /\ disk' = disk
    BY Zenon DEF Compare
  <1>3. /\ st[w].todo # {} /\ st[w].todo \subseteq Targets[w] /\ st[w].attempted = {}
        /\ \A q \in Targets[w] : lock[q] = w
    BY Zenon, <1>1, <1>2 DEF WriterInv, TodoInv, LockInv, Pcs, Ended
  <1>4. CASE End(w, "refused")
    BY Zenon, <1>2, <1>4, EndKeeps DEF Ended
  <1>5. CASE disk[p] = original(w, p) /\ To(w, c, T) /\ lock' = lock
    <2>1. c \in Pcs /\ T \in SUBSET Paths /\ T # {} /\ T \subseteq Targets[w]
      BY Zenon, <1>1, <1>3 DEF Pcs, Writing
    <2>2. /\ st' \in [Writers -> States] /\ Others(w)
          /\ st'[w].pc = c /\ st'[w].todo = T
          /\ KeepsBase(w) /\ KeepsAttempts(w)
      BY <1>1, <1>5, <2>1, ToFields
    <2>3. Shape(w) /\ TypeOK'
      BY Zenon, <1>1, <1>2, <1>5, <2>2, QuietShape DEF TypeOK
    <2>4. UnseenInv(w)'
      BY Zenon, <1>2, <2>2, QuietUnseen DEF KeepsAttempts, Ended
    <2>5. TodoInv(w)' /\ LockInv(w)'
      BY Zenon, <1>3, <1>5, <2>1, <2>2 DEF TodoInv, LockInv, KeepsAttempts
    <2>6. ReportInv(w)'
      BY Zenon, <2>2 DEF ReportInv, Restoring
    <2>7. KnownInv(w)'
      <3> SUFFICES ASSUME Kind[w] # "unguarded", NEW q \in Targets[w], q \notin rest
                   PROVE  Edits(disk[q]) \subseteq Edits(st[w].base[q]) \cup {w, Outside}
        BY Zenon, <1>2, <2>2 DEF KnownInv, KeepsBase, Edits, Writing, Restoring
      <3>1. CASE q = p
        BY Zenon, <1>5, <3>1 DEF original
      <3>2. CASE q \notin st[w].todo
        BY Zenon, <1>1, <1>2, <3>2 DEF WriterInv, KnownInv
      <3> QED
        BY Zenon, <3>1, <3>2
    <2> QED
      BY Zenon, <2>3, <2>4, <2>5, <2>6, <2>7 DEF Kept, WriterInv
  <1> QED
    BY Zenon, <1>4, <1>5 DEF Compare, Matches

\* The steps of a writer that holds all its locks and writes nothing.
LEMMA QuietKeeps ==
    ASSUME IInv, NEW w \in Writers, st[w].pc \in Writing, st'[w].pc \in Writing,
           st' \in [Writers -> States], Others(w), KeepsBase(w),
           st[w].attempted \subseteq st'[w].attempted,
           st'[w].todo \cup st'[w].attempted \subseteq Targets[w],
           st'[w].pc = "rollback" \/ st'[w].todo # {},
           disk' = disk, lock' = lock, ReportInv(w)'
    PROVE  Kept(w)
  <1>1. TypeOK /\ WriterInv(w)
    BY Zenon DEF IInv
  <1>2. Shape(w) /\ TypeOK'
    BY Zenon, <1>1, QuietShape DEF TypeOK
  <1>3. UnseenInv(w)'
    BY Zenon, QuietUnseen DEF Writing, Restoring, Ended
  <1>4. TodoInv(w)' /\ LockInv(w)'
    BY Zenon, <1>1 DEF WriterInv, TodoInv, LockInv, Writing, Restoring, Ended
  <1>5. KnownInv(w)'
    BY Zenon, <1>1 DEF WriterInv, KnownInv, KeepsBase, Edits
  <1> QED
    BY Zenon, <1>2, <1>3, <1>4, <1>5 DEF Kept, WriterInv

\* Those that write one of its files, with what it read or its edit of it.
LEMMA WritingKeeps ==
    ASSUME IInv, NEW w \in Writers, st[w].pc \in Writing, st'[w].pc \in Writing, Batch(w),
           st' \in [Writers -> States], Others(w), KeepsBase(w),
           st[w].attempted \subseteq st'[w].attempted,
           st'[w].todo \cup st'[w].attempted \subseteq Targets[w],
           st'[w].pc = "rollback" \/ st'[w].todo # {},
           NEW p \in Targets[w], NEW image \in Images, NEW landed \in BOOLEAN,
           Wrote(p, image, landed),
           Edits(st[w].base[p]) \subseteq Edits(image),
           Edits(image) \subseteq Edits(st[w].base[p]) \cup {w},
           p \in st'[w].attempted \/ w \notin Edits(image),
           lock' = lock, ReportInv(w)'
    PROVE  Kept(w)
  <1>1. TypeOK /\ WriterInv(w) /\ Targets[w] \subseteq Paths
    BY Zenon, ConstantsOK DEF IInv
  <1>2. /\ disk' \in [Paths -> Images]
        /\ disk'[p] = disk[p] \/ disk'[p] = image
        /\ \A q \in Paths \ {p} : disk'[q] = disk[q]
    BY <1>1, WroteFields
  <1>3. lock[p] = w
    BY Zenon, <1>1 DEF WriterInv, LockInv
  <1>4. TypeOK'
    BY Zenon, <1>1, <1>2 DEF TypeOK
  <1>5. Shape(w)
    BY Zenon, <1>2, <1>3 DEF Shape, KeepsBase
  <1>6. TodoInv(w)' /\ LockInv(w)'
    BY Zenon, <1>1 DEF WriterInv, TodoInv, LockInv, Writing, Restoring, Ended
  <1>7. KnownInv(w)'
    <2> SUFFICES ASSUME Kind[w] # "unguarded", NEW q \in Targets[w]
                 PROVE  Edits(disk'[q]) \subseteq Edits(st[w].base[q]) \cup {w, Outside}
      BY Zenon DEF KnownInv, KeepsBase, Edits
    <2>1. Edits(disk[q]) \subseteq Edits(st[w].base[q]) \cup {w, Outside}
      BY Zenon, <1>1 DEF WriterInv, KnownInv
    <2> QED
      BY Zenon, <1>1, <1>2, <2>1
  <1>8. UnseenInv(w)'
    <2>1. /\ \A q \in Paths : w \notin Edits(st[w].base[q])
          /\ \A q \in Paths \ st[w].attempted :
               /\ w \notin Edits(disk[q])
               /\ \A v \in Writers : w \notin Edits(st[v].base[q])
      BY Zenon, <1>1 DEF WriterInv, UnseenInv, Writing, Restoring, Ended
    <2>2. \A q \in Paths \ st'[w].attempted : w \notin Edits(disk'[q])
      BY Zenon, <1>2, <2>1
    <2>3. \A v \in Writers : st'[v].base = st[v].base
      BY Zenon DEF Others, KeepsBase
    <2> QED
      BY Zenon, <2>1, <2>2, <2>3 DEF UnseenInv, Edits
  <1> QED
    BY Zenon, <1>4, <1>5, <1>6, <1>7, <1>8 DEF Kept, WriterInv

\* A batch that turns back has its edit only in the files it has attempted.
LEMMA RollBackKeeps ==
    ASSUME IInv, NEW w \in Writers, Batch(w), st[w].pc \in Writing,
           RollBack(w, st[w].attempted), disk' = disk, lock' = lock
    PROVE  Kept(w)
  <1>1. TypeOK /\ WriterInv(w) /\ Targets[w] \subseteq Paths
    BY Zenon, ConstantsOK DEF IInv
  <1>2. st[w].attempted \subseteq Targets[w] /\ st[w].attempted \in SUBSET Paths
    BY Zenon, <1>1 DEF WriterInv, TodoInv
  <1>3. /\ st' \in [Writers -> States] /\ Others(w) /\ KeepsBase(w)
        /\ st'[w].pc = "rollback" /\ st'[w].todo = st[w].attempted
        /\ st'[w].attempted = st[w].attempted
    BY Zenon, <1>1, <1>2, RollBackFields
  <1>4. \A p \in Targets[w] \ st[w].attempted : w \notin Edits(disk[p])
    BY Zenon, <1>1 DEF WriterInv, UnseenInv, Writing, Restoring, Ended
  <1>5. ReportInv(w)'
    BY Zenon, <1>3, <1>4 DEF ReportInv, Restoring, Batch, Edits
  <1>6. st'[w].pc \in Writing
    BY Zenon, <1>3 DEF Writing, Restoring
  <1> QED
    BY Zenon, <1>2, <1>3, <1>5, <1>6, QuietKeeps

\* A batch moves on to the next file, or to the next round over its files.
LEMMA MoveKeeps ==
    ASSUME IInv, NEW w \in Writers, st[w].pc \in Writing,
           NEW c \in Writing, NEW T \in SUBSET Targets[w], To(w, c, T),
           c = "rollback" \/ T # {},
           disk' = disk, lock' = lock,
           c = "attest" => \A q \in Targets[w] \ T :
                              w \in Edits(disk[q]) \/ Outside \in Edits(disk[q]),
           c \in Restoring => \A q \in Targets[w] \ (T \cup st[w].uncertain) :
                                 w \notin Edits(disk[q]),
           c \in Restoring \cup {"verify", "attest"} => Batch(w)
    PROVE  Kept(w)
  <1>1. TypeOK /\ WriterInv(w) /\ T \in SUBSET Paths /\ c \in Pcs
    BY Zenon, ConstantsOK DEF IInv, Pcs
  <1>2. /\ st' \in [Writers -> States] /\ Others(w)
        /\ st'[w].pc = c /\ st'[w].todo = T
        /\ KeepsBase(w) /\ KeepsReport(w) /\ KeepsAttempts(w)
    BY Zenon, <1>1, ToFields
  <1>3. ReportInv(w)'
    BY Zenon, <1>2 DEF ReportInv, KeepsReport, Batch, Edits
  <1>4. st[w].attempted \subseteq Targets[w]
    BY Zenon, <1>1 DEF WriterInv, TodoInv
  <1> QED
    BY Zenon, <1>2, <1>3, <1>4, QuietKeeps DEF KeepsAttempts

\* What holds of a writer whose list is not done.
LEMMA AtWork ==
    ASSUME IInv, NEW w \in Writers, st[w].pc \in Writing
    PROVE  /\ TypeOK /\ WriterInv(w) /\ Targets[w] \subseteq Paths /\ Targets[w] # {}
           /\ st[w].todo \subseteq Targets[w] /\ st[w].attempted \subseteq Targets[w]
           /\ st[w].pc # "rollback" => st[w].todo # {}
           /\ \A q \in Targets[w] : lock[q] = w
           /\ Batch(w) => \A q \in Paths : w \notin Edits(st[w].base[q])
  <1>1. TypeOK /\ WriterInv(w) /\ Targets[w] \subseteq Paths /\ Targets[w] # {}
    BY Zenon, ConstantsOK DEF IInv
  <1>2. /\ st[w].todo \subseteq Targets[w] /\ st[w].attempted \subseteq Targets[w]
        /\ st[w].pc # "rollback" => st[w].todo # {}
    BY Zenon, <1>1 DEF WriterInv, TodoInv, Pcs, Writing, Restoring, Ended
  <1>3. \A q \in Targets[w] : lock[q] = w
    BY Zenon, <1>1 DEF WriterInv, LockInv
  <1>4. Batch(w) => \A q \in Paths : w \notin Edits(st[w].base[q])
    BY Zenon, <1>1 DEF WriterInv, UnseenInv, Writing, Restoring, Ended
  <1> QED
    BY Zenon, <1>1, <1>2, <1>3, <1>4

\* A read-back leads to the next file, to the attestation, or back.
LEMMA VerifyKeeps ==
    ASSUME IInv, NEW w \in Writers, Verify(w)
    PROVE  Kept(w)
  <1> DEFINE p == Min(st[w].todo)
             rest == st[w].todo \ {p}
  <1>1. st[w].pc = "verify" /\ st[w].pc \in Writing /\ disk' = disk /\ lock' = lock
    BY Zenon DEF Verify, Writing
  <1>2. Batch(w) /\ rest \in SUBSET Targets[w] /\ Targets[w] # {}
    BY Zenon, <1>1, AtWork DEF WriterInv, ReportInv
  <1>3. CASE RollBack(w, st[w].attempted)
    BY Zenon, <1>1, <1>2, <1>3, RollBackKeeps
  <1>4. CASE rest # {} /\ To(w, "write", rest)
    <2>1. "write" \in Writing /\ "write" \notin Restoring \cup {"verify", "attest", "rollback"}
      BY Zenon DEF Writing, Restoring
    <2> QED
      BY Zenon, <1>1, <1>2, <1>4, <2>1, MoveKeeps
  <1>5. CASE To(w, "attest", Targets[w])
    <2>1. "attest" \in Writing /\ "attest" \notin Restoring
      BY Zenon DEF Writing, Restoring
    <2> QED
      BY Zenon, <1>1, <1>2, <1>5, <2>1, MoveKeeps
  <1> QED
    BY Zenon, <1>3, <1>4, <1>5 DEF Verify

\* A file that reads as it was written holds the batch's edit.
LEMMA AttestKeeps ==
    ASSUME IInv, NEW w \in Writers, Attest(w)
    PROVE  Kept(w)
  <1> DEFINE p == Min(st[w].todo)
             rest == st[w].todo \ {p}
  <1>1. st[w].pc = "attest" /\ st[w].pc \in Writing /\ disk' = disk
    BY Zenon DEF Attest, Writing
  <1>2. /\ TypeOK /\ WriterInv(w) /\ Batch(w) /\ rest \in SUBSET Targets[w]
        /\ p \in Paths
        /\ \A q \in Targets[w] \ st[w].todo : w \in Edits(disk[q]) \/ Outside \in Edits(disk[q])
    BY Zenon, <1>1, AtWork, NextFile DEF WriterInv, ReportInv
  <1>3. CASE RollBack(w, st[w].attempted) /\ lock' = lock
    BY Zenon, <1>1, <1>2, <1>3, RollBackKeeps
  <1>4. CASE disk[p] = replacement(w, p) /\ rest # {} /\ To(w, "attest", rest) /\ lock' = lock
    <2>1. "attest" \in Writing /\ "attest" \notin Restoring
      BY DEF Writing, Restoring
    <2>2. w \in Edits(disk[p])
      BY <1>2, <1>4, ImageTypes
    <2>3. \A q \in Targets[w] \ rest : w \in Edits(disk[q]) \/ Outside \in Edits(disk[q])
      BY Zenon, <1>2, <2>2
    <2> QED
      BY Zenon, <1>1, <1>2, <1>4, <2>1, <2>3, MoveKeeps
  <1>5. CASE End(w, "committed")
    BY Zenon, <1>1, <1>5, EndKeeps DEF Ended
  <1> QED
    BY ZenonT(30), <1>3, <1>4, <1>5 DEF Attest, Matches

\* A cancelled batch turns back between two writes.
LEMMA CancelledKeeps ==
    ASSUME IInv, NEW w \in Writers, Cancelled(w)
    PROVE  Kept(w)
  BY Zenon, RollBackKeeps DEF Cancelled, Writing

\* A batch that has rolled back returns.
LEMMA AbortedKeeps ==
    ASSUME IInv, NEW w \in Writers, Aborted(w)
    PROVE  Kept(w)
  BY Zenon, EndKeeps DEF Aborted, Ended

\* What holds of a batch that rolls back.
LEMMA AtRollBack ==
    ASSUME IInv, NEW w \in Writers, st[w].pc \in Restoring, st[w].todo # {}
    PROVE  /\ st[w].pc \in Writing /\ TypeOK /\ Batch(w)
           /\ Max(st[w].todo) \in st[w].todo /\ Max(st[w].todo) \in Targets[w]
           /\ Max(st[w].todo) \in Paths /\ st[w].todo \subseteq Targets[w]
           /\ w \notin Edits(original(w, Max(st[w].todo)))
           /\ \A q \in Targets[w] \ (st[w].todo \cup st[w].uncertain) : w \notin Edits(disk[q])
  <1>1. st[w].pc \in Writing
    BY Zenon DEF Writing
  <1>2. WriterInv(w)
    BY Zenon DEF IInv
  <1>3. /\ Batch(w)
        /\ \A q \in Targets[w] \ (st[w].todo \cup st[w].uncertain) : w \notin Edits(disk[q])
    BY SMTT(30), <1>2 DEF WriterInv, ReportInv
  <1> QED
    BY Zenon, <1>1, <1>3, AtWork, NextFile DEF original

\* A file that is given up is reported.
LEMMA UndecidedKeeps ==
    ASSUME IInv, NEW w \in Writers, st[w].pc \in Restoring, st[w].todo # {},
           Undecided(w, Max(st[w].todo)), disk' = disk, lock' = lock
    PROVE  Kept(w)
  <1> DEFINE p == Max(st[w].todo)
  <1>1. /\ st[w].pc \in Writing /\ TypeOK /\ Batch(w) /\ p \in Paths
        /\ st[w].todo \subseteq Targets[w] /\ st[w].attempted \subseteq Targets[w]
        /\ \A q \in Targets[w] \ (st[w].todo \cup st[w].uncertain) : w \notin Edits(disk[q])
    BY SMTT(30), AtRollBack, AtWork
  <1>2. /\ st' \in [Writers -> States] /\ Others(w)
        /\ st'[w].pc = "rollback" /\ st'[w].todo = st[w].todo \ {p}
        /\ st'[w].uncertain = st[w].uncertain \cup {p}
        /\ KeepsBase(w) /\ KeepsAttempts(w)
    BY Zenon, <1>1, UndecidedFields
  <1>3. \A q \in Targets[w] \ (st'[w].todo \cup st'[w].uncertain) : w \notin Edits(disk'[q])
    BY Zenon, <1>1, <1>2
  <1>4. ReportInv(w)'
    BY SMTT(30), <1>1, <1>2, <1>3 DEF ReportInv, Batch, Edits
  <1>5. st'[w].pc \in Writing
    BY Zenon, <1>2 DEF Writing, Restoring
  <1> QED
    BY SMTT(30), <1>1, <1>2, <1>4, <1>5, QuietKeeps DEF KeepsAttempts

\* A file found as it was read does not hold the batch's edit.
LEMMA AsItWas ==
    ASSUME IInv, NEW w \in Writers, st[w].pc \in Restoring, st[w].todo # {},
           disk[Max(st[w].todo)] = original(w, Max(st[w].todo)),
           To(w, "rollback", st[w].todo \ {Max(st[w].todo)}), disk' = disk, lock' = lock
    PROVE  Kept(w)
  <1> DEFINE rest == st[w].todo \ {Max(st[w].todo)}
  <1>1. /\ st[w].pc \in Writing /\ Batch(w) /\ rest \in SUBSET Targets[w]
        /\ \A q \in Targets[w] \ (rest \cup st[w].uncertain) : w \notin Edits(disk[q])
    BY Zenon, AtRollBack
  <1>2. "rollback" \in Writing
    BY Zenon DEF Writing, Restoring
  <1> QED
    BY Zenon, <1>1, <1>2, MoveKeeps

\* The look at a file before it is restored.
LEMMA InspectKeeps ==
    ASSUME IInv, NEW w \in Writers, Inspect(w)
    PROVE  Kept(w)
  <1> DEFINE p == Max(st[w].todo)
  <1>1. /\ st[w].pc \in Restoring /\ st[w].todo # {} /\ disk' = disk /\ lock' = lock
        /\ \/ disk[p] = original(w, p) /\ To(w, "rollback", st[w].todo \ {p})
           \/ To(w, "restore", st[w].todo)
           \/ Undecided(w, p)
    BY Zenon DEF Inspect, Matches, Restoring
  <1>2. CASE To(w, "restore", st[w].todo)
    <2>1. /\ st[w].pc \in Writing /\ Batch(w) /\ st[w].todo \in SUBSET Targets[w]
          /\ \A q \in Targets[w] \ (st[w].todo \cup st[w].uncertain) : w \notin Edits(disk[q])
      BY Zenon, <1>1, AtRollBack
    <2>2. "restore" \in Writing /\ "restore" # "attest"
      BY Zenon DEF Writing, Restoring
    <2> QED
      BY Zenon, <1>1, <1>2, <2>1, <2>2, MoveKeeps
  <1> QED
    BY Zenon, <1>1, <1>2, AsItWas, UndecidedKeeps

\* The look at a file after it was restored.
LEMMA RecheckKeeps ==
    ASSUME IInv, NEW w \in Writers, Recheck(w)
    PROVE  Kept(w)
  <1> DEFINE p == Max(st[w].todo)
  <1>1. /\ st[w].pc = "recheck" /\ disk' = disk /\ lock' = lock
        /\ \/ disk[p] = original(w, p) /\ To(w, "rollback", st[w].todo \ {p})
           \/ Undecided(w, p)
    BY Zenon DEF Recheck, Matches
  <1>2. st[w].pc \in Restoring /\ st[w].todo # {}
    BY Zenon, <1>1, AtWork DEF Writing, Restoring
  <1> QED
    BY Zenon, <1>1, <1>2, AsItWas, UndecidedKeeps

\* A write took effect or did not.
LEMMA Landed == \A effect \in WriteEffects : effect[2] \in BOOLEAN
  <1>1. \A effect \in WriteEffects :
           effect = <<TRUE, TRUE>> \/ effect = <<FALSE, FALSE>> \/ effect = <<FALSE, TRUE>>
    BY Zenon DEF WriteEffects
  <1>2. <<TRUE, TRUE>>[2] = TRUE /\ <<FALSE, FALSE>>[2] = FALSE /\ <<FALSE, TRUE>>[2] = TRUE
    BY Zenon
  <1> QED
    BY Zenon, <1>1, <1>2

\* The file is put back as it was read, or stays as it is.
LEMMA RestoreKeeps ==
    ASSUME IInv, NEW w \in Writers, Restore(w)
    PROVE  Kept(w)
  <1> DEFINE p == Max(st[w].todo)
             image == original(w, p)
  <1>1. st[w].pc = "restore" /\ To(w, "recheck", st[w].todo) /\ lock' = lock
    BY Zenon DEF Restore
  <1>2. PICK landed \in BOOLEAN : Wrote(p, image, landed)
    BY Zenon, Landed DEF Restore
  <1>3. st[w].pc \in Restoring /\ st[w].pc \in Writing /\ st[w].todo # {}
    BY Zenon, <1>1, AtWork DEF Writing, Restoring
  <1>4. /\ TypeOK /\ Batch(w) /\ p \in st[w].todo /\ p \in Targets[w] /\ p \in Paths
        /\ st[w].todo \subseteq Targets[w] /\ st[w].attempted \subseteq Targets[w]
        /\ w \notin Edits(image) /\ Targets[w] \subseteq Paths
        /\ \A q \in Targets[w] \ (st[w].todo \cup st[w].uncertain) : w \notin Edits(disk[q])
    BY SMTT(30), <1>3, AtRollBack, AtWork
  <1>5. /\ image \in Images /\ Edits(st[w].base[p]) \subseteq Edits(image)
        /\ Edits(image) \subseteq Edits(st[w].base[p]) \cup {w}
    BY <1>4, ImageTypes DEF original
  <1>6. "recheck" \in Pcs /\ "recheck" \in Writing /\ st[w].todo \in SUBSET Paths
    BY SMTT(30), <1>4 DEF Pcs, Writing, Restoring
  <1>7. /\ st' \in [Writers -> States] /\ Others(w)
        /\ st'[w].pc = "recheck" /\ st'[w].todo = st[w].todo
        /\ KeepsBase(w) /\ KeepsReport(w) /\ KeepsAttempts(w)
    BY SMTT(30), <1>1, <1>4, <1>6, ToFields
  <1>8. \A q \in Paths \ {p} : disk'[q] = disk[q]
    BY <1>2, <1>4, <1>5, WroteFields
  <1>9. \A q \in Targets[w] \ (st'[w].todo \cup st'[w].uncertain) : w \notin Edits(disk'[q])
    BY SMTT(30), <1>4, <1>7, <1>8 DEF KeepsReport
  <1>10. ReportInv(w)'
    BY Zenon, <1>4, <1>7, <1>9 DEF ReportInv, Batch, Edits
  <1> HIDE DEF p, image
  <1> QED
    BY ZenonT(30), <1>1, <1>2, <1>3, <1>4, <1>5, <1>6, <1>7, <1>10, WritingKeeps
    DEF KeepsAttempts

\* A batch writes its next file, which then counts as attempted.
LEMMA WriteNextKeeps ==
    ASSUME IInv, NEW w \in Writers, WriteNext(w)
    PROVE  Kept(w)
  <1> DEFINE p == Min(st[w].todo)
             image == replacement(w, p)
             T == st[w].attempted \cup {p}
  <1>1. st[w].pc = "write" /\ Batch(w) /\ lock' = lock
    BY Zenon DEF WriteNext
  <1>2. PICK landed \in BOOLEAN :
           /\ Wrote(p, image, landed)
           /\ \/ Becomes(w, [st[w] EXCEPT !.pc = "verify", !.attempted = T])
              \/ RollBack(w, T)
    BY Zenon, Landed DEF WriteNext, Attempted
  <1>3. st[w].pc \in Writing /\ st[w].todo # {}
    BY SMTT(30), <1>1, AtWork DEF Writing
  <1>4. /\ TypeOK /\ WriterInv(w) /\ p \in st[w].todo /\ p \in Targets[w] /\ p \in Paths
        /\ st[w].todo \subseteq Targets[w] /\ T \subseteq Targets[w] /\ T \in SUBSET Paths
        /\ Targets[w] \subseteq Paths
    BY <1>3, NextFile, AtWork
  <1>5. /\ image \in Images /\ Edits(st[w].base[p]) \subseteq Edits(image)
        /\ Edits(image) \subseteq Edits(st[w].base[p]) \cup {w}
    BY Zenon, <1>4, ImageTypes DEF original
  <1>6. /\ st' \in [Writers -> States] /\ Others(w) /\ st'[w].attempted = T
        /\ KeepsBase(w) /\ KeepsReport(w)
        /\ \/ st'[w].pc = "verify" /\ st'[w].todo = st[w].todo
           \/ st'[w].pc = "rollback" /\ st'[w].todo = T
    <2>1. CASE Becomes(w, [st[w] EXCEPT !.pc = "verify", !.attempted = T])
      <3> HIDE DEF T
      <3> QED
        BY Zenon, <1>4, <2>1, AttemptFields
    <2>2. CASE RollBack(w, T)
      BY Zenon, <1>4, <2>2, RollBackFields
    <2> QED
      BY Zenon, <1>2, <2>1, <2>2
  <1>7. \A q \in Paths \ {p} : disk'[q] = disk[q]
    BY SMTT(30), <1>2, <1>4, <1>5, WroteFields
  <1>8. \A q \in Targets[w] \ T : w \notin Edits(disk'[q])
    BY SMTT(30), <1>1, <1>4, <1>7 DEF WriterInv, UnseenInv, Ended
  <1>9. ReportInv(w)'
    BY Zenon, <1>1, <1>6, <1>8 DEF ReportInv, Restoring, Batch, Edits
  <1>10. st'[w].pc \in Writing /\ p \in st'[w].attempted
    BY Zenon, <1>6 DEF Writing, Restoring
  <1>11. /\ st[w].attempted \subseteq st'[w].attempted
         /\ st'[w].todo \cup st'[w].attempted \subseteq Targets[w]
         /\ st'[w].pc = "rollback" \/ st'[w].todo # {}
    BY Zenon, <1>3, <1>4, <1>6
  <1> HIDE DEF p, image, T
  <1> QED
    BY <1>1, <1>2, <1>3, <1>4, <1>5, <1>6, <1>9, <1>10, <1>11, WritingKeeps

\* The one write of a writer that is not a batch.
LEMMA WriteOneKeeps ==
    ASSUME IInv, NEW w \in Writers, WriteOne(w)
    PROVE  Kept(w)
  <1> DEFINE p == CHOOSE q \in Targets[w] : TRUE
             image == replacement(w, p)
  <1>1. st[w].pc = "write" /\ st[w].pc \in Writing
    BY Zenon DEF WriteOne, Writing
  <1>2. PICK landed \in BOOLEAN, outcome \in Ended : Wrote(p, image, landed) /\ End(w, outcome)
    <2>1. "committed" \in Ended /\ "failed" \in Ended
      BY Zenon DEF Ended
    <2> QED
      BY Zenon, Landed, <2>1 DEF WriteOne
  <1>3. /\ TypeOK /\ p \in Targets[w] /\ p \in Paths /\ lock[p] = w
    BY <1>1, AtWork
  <1>4. /\ image \in Images /\ Edits(st[w].base[p]) \subseteq Edits(image)
        /\ Edits(image) \subseteq Edits(st[w].base[p]) \cup {w}
    BY ZenonT(30), <1>3, ImageTypes DEF original
  <1> HIDE DEF p, image
  <1>5. /\ disk' \in [Paths -> Images]
        /\ disk'[p] = disk[p] \/ disk'[p] = image
        /\ \A q \in Paths \ {p} : disk'[q] = disk[q]
    BY <1>2, <1>3, <1>4, WroteFields
  <1>6. /\ st' \in [Writers -> States] /\ Others(w) /\ KeepsBase(w)
        /\ lock' \in [Paths -> Writers \cup {NoOne}]
        /\ \A q \in Paths : lock[q] # w => lock'[q] = lock[q]
    BY Zenon, <1>2, <1>3, EndFields
  <1>7. Shape(w)
    BY Zenon, <1>1, <1>3, <1>4, <1>5, <1>6 DEF Shape, KeepsBase
  <1>8. TypeOK'
    BY Zenon, <1>5, <1>6 DEF TypeOK
  <1> QED
    BY Zenon, <1>2, <1>7, <1>8, EndedInv DEF Kept

-----------------------------------------------------------------------------
(* The invariant, for every step.                                          *)

\* Whatever a writer does next.
LEMMA WriteKeeps ==
    ASSUME IInv, AllLock, NEW w \in Writers, Write(w)
    PROVE  Shape(w) /\ IInv'
  <1>1. Kept(w)
    BY StageKeeps, TakeLockKeeps, CompareKeeps, WriteOneKeeps, WriteNextKeeps, CancelledKeeps,
       VerifyKeeps, AttestKeeps, InspectKeeps, RestoreKeeps, RecheckKeeps, AbortedKeeps
    DEF Write
  <1>2. \A v \in Writers : WriterInv(v)'
    BY Zenon, <1>1, OthersKeep DEF Kept
  <1> QED
    BY Zenon, <1>1, <1>2 DEF Kept, IInv

\* Another process may replace any file at any time: its version holds no edit
\* of a writer, and a batch that finds it does not take it for its own.
LEMMA OutsideKeeps ==
    ASSUME IInv, NEW p \in Paths, OutsideWrite(p)
    PROVE  IInv'
  <1>1. TypeOK /\ st' = st /\ lock' = lock /\ disk' = [disk EXCEPT ![p] = {Outside}]
    BY Zenon DEF IInv, OutsideWrite
  <1>2. {Outside} \in Images /\ Edits({Outside}) = {Outside}
    BY Zenon, ConstantsOK DEF Images, Edits
  <1>3. /\ disk' \in [Paths -> Images] /\ Edits(disk'[p]) = {Outside}
        /\ \A q \in Paths \ {p} : disk'[q] = disk[q]
    BY Zenon, <1>1, <1>2 DEF TypeOK
  <1>4. TypeOK'
    BY Zenon, <1>1, <1>3 DEF TypeOK
  <1>5. ASSUME NEW w \in Writers
        PROVE  WriterInv(w)'
    <2>1. WriterInv(w) /\ w # Outside /\ Targets[w] \subseteq Paths
      BY Zenon, ConstantsOK DEF IInv
    <2>2. TodoInv(w)' /\ LockInv(w)'
      BY SMTT(30), <1>1, <2>1 DEF WriterInv, TodoInv, LockInv
    <2>3. KnownInv(w)'
      <3>1. ASSUME NEW q \in Targets[w],
                   Edits(disk[q]) \subseteq Edits(st[w].base[q]) \cup {w, Outside}
            PROVE  Edits(disk'[q]) \subseteq Edits(st[w].base[q]) \cup {w, Outside}
        BY Zenon, <1>3, <2>1, <3>1
      <3> QED
        BY Zenon, <1>1, <2>1, <3>1 DEF WriterInv, KnownInv, Edits
    <2>4. \A q \in Paths : w \notin Edits(disk[q]) => w \notin Edits(disk'[q])
      BY Zenon, <1>3, <2>1
    <2>5. UnseenInv(w)'
      BY Zenon, <1>1, <2>1, <2>4 DEF WriterInv, UnseenInv, Batch, Edits
    <2>6. \A q \in Paths : w \in Edits(disk[q]) \/ Outside \in Edits(disk[q])
                           => w \in Edits(disk'[q]) \/ Outside \in Edits(disk'[q])
      BY SMTT(30), <1>3
    <2>7. ReportInv(w)'
      BY SMTT(30), <1>1, <2>1, <2>4, <2>6 DEF WriterInv, ReportInv, Batch, Edits
    <2> QED
      BY Zenon, <2>2, <2>3, <2>5, <2>7 DEF WriterInv
  <1> QED
    BY Zenon, <1>4, <1>5 DEF IInv

\* Nothing that leaves the files, the locks and the writers alone matters.
LEMMA StillKeeps ==
    ASSUME IInv, UNCHANGED <<disk, lock, st>>
    PROVE  IInv'
  BY DEF IInv, TypeOK, WriterInv, TodoInv, LockInv, KnownInv, UnseenInv, ReportInv, Batch, Edits

\* The invariant holds when nobody has started.
LEMMA InitInv == Init => IInv
  <1> SUFFICES ASSUME Init PROVE IInv
    BY Zenon
  <1>1. NoFile \in Images /\ {} \in Images /\ "idle" \in Pcs
    BY Zenon DEF Images, Pcs
  <1>2. [p \in Paths |-> NoFile] \in [Paths -> Images]
    BY Zenon, <1>1
  <1>3. \A w \in Writers :
           /\ st[w] \in States /\ st[w].pc = "idle" /\ st[w].base = [p \in Paths |-> NoFile]
           /\ st[w].todo = {} /\ st[w].attempted = {}
    BY Zenon, <1>1, <1>2 DEF Init, States
  <1>4. TypeOK
    BY Zenon, <1>1, <1>3 DEF Init, TypeOK
  <1>5. \A p \in Paths : Edits(disk[p]) = {}
    BY Zenon DEF Init, Edits
  <1>6. \A w \in Writers, p \in Paths : Edits(st[w].base[p]) = {}
    BY Zenon, <1>3 DEF Edits
  <1>7. ASSUME NEW w \in Writers
        PROVE  WriterInv(w)
    BY Zenon, <1>3, <1>5, <1>6
    DEF WriterInv, TodoInv, LockInv, KnownInv, UnseenInv, ReportInv, Writing, Restoring, Ended
  <1> QED
    BY Zenon, <1>4, <1>7 DEF IInv

-----------------------------------------------------------------------------
(* The theorems.                                                           *)

\* Each writer holds the locks of the files it may write, has read what it is
\* about to replace, and keeps account of where its edit may be.
THEOREM CommitInvariant == AllLock /\ Spec => []IInv
  <1> SUFFICES ASSUME AllLock PROVE Spec => []IInv
    BY Zenon
  <1>1. IInv /\ [Next]_vars => IInv'
    BY Zenon, WriteKeeps, OutsideKeeps, StillKeeps DEF Next, vars, Cancel, Finished
  <1> QED
    BY <1>1, InitInv, PTL DEF Spec

\* A step that changes a writer is a step of that writer.
LEMMA OwnStep ==
    ASSUME IInv, AllLock, [Next]_vars, NEW w \in Writers, st'[w] # st[w]
    PROVE  Write(w)
  <1>1. PICK v \in Writers : Write(v)
    BY Zenon DEF Next, vars, Cancel, Finished, OutsideWrite
  <1>2. Others(v)
    BY Zenon, <1>1, WriteKeeps DEF Shape
  <1> QED
    BY Zenon, <1>1, <1>2 DEF Others

\* A compared write, and a rollback, never remove an edit that another writer of
\* this process has made, for any number of writers, files and outside writes,
\* when every writer takes the path locks (guarded_atomic_write_file,
\* commit_staged): NothingClobbered.
THEOREM NothingClobberedHolds == AllLock /\ Spec => NothingClobbered
  <1> SUFFICES ASSUME AllLock PROVE Spec => NothingClobbered
    BY Zenon
  <1>1. ASSUME IInv, [Next]_vars, NEW w \in Writers,
               Kind[w] \in {"batch", "guarded"}, st'[w] # st[w], NEW p \in Paths
        PROVE  Edits(disk[p]) \ Edits(disk'[p]) \subseteq {w, Outside}
    <2>1. Shape(w) /\ WriterInv(w)
      BY Zenon, <1>1, OwnStep, WriteKeeps DEF IInv
    <2>2. CASE disk'[p] = disk[p]
      BY Zenon, <2>2
    <2>3. CASE disk'[p] # disk[p]
      <3>1. /\ p \in Targets[w] /\ st[w].pc \in Writing
            /\ Edits(st[w].base[p]) \subseteq Edits(disk'[p])
        BY SMTT(30), <2>1, <2>3 DEF Shape
      <3>2. Edits(disk[p]) \subseteq Edits(st[w].base[p]) \cup {w, Outside}
        BY Zenon, <1>1, <2>1, <3>1 DEF WriterInv, KnownInv
      <3> QED
        BY Zenon, <3>1, <3>2
    <2> QED
      BY Zenon, <2>2, <2>3
  <1>2. IInv /\ [Next]_vars =>
           [\A w \in Writers : Kind[w] \in {"batch", "guarded"} /\ st'[w] # st[w] =>
              \A p \in Paths : Edits(disk[p]) \ Edits(disk'[p]) \subseteq {w, Outside}]_vars
    BY Zenon, <1>1
  <1> QED
    BY <1>2, CommitInvariant, PTL DEF Spec, NothingClobbered

\* Where a writer is after each kind of step.
LEMMA PcAfter ==
    ASSUME TypeOK, NEW w \in Writers
    PROVE  /\ \A c, T : To(w, c, T) => st'[w].pc = c
           /\ \A T : RollBack(w, T) => st'[w].pc = "rollback"
           /\ \A p : Undecided(w, p) => st'[w].pc = "rollback"
           /\ \A T : Becomes(w, [st[w] EXCEPT !.pc = "verify", !.attempted = T])
                        => st'[w].pc = "verify"
  <1>1. st \in [Writers -> States] /\ st[w] \in States
    BY Zenon DEF TypeOK
  <1>2. \A s : Becomes(w, s) => st'[w] = s
    BY Zenon, <1>1 DEF Becomes
  <1>3. \A c, T : To(w, c, T) => st'[w].pc = c
    BY Zenon, <1>1, <1>2 DEF To, States
  <1>4. \A T : RollBack(w, T) => st'[w].pc = "rollback"
    BY Zenon, <1>1, <1>2 DEF RollBack, States
  <1>5. \A p : Undecided(w, p) => st'[w].pc = "rollback"
    BY Zenon, <1>1, <1>2 DEF Undecided, States
  <1>6. \A T : Becomes(w, [st[w] EXCEPT !.pc = "verify", !.attempted = T])
                 => st'[w].pc = "verify"
    BY Zenon, <1>1, <1>2 DEF States
  <1> QED
    BY Zenon, <1>3, <1>4, <1>5, <1>6

\* The three ways a batch returns.
LEMMA BatchReturns ==
    ASSUME IInv, AllLock, NEW w \in Writers, Batch(w), Write(w)
    PROVE  \/ /\ st[w].pc = "attest" /\ st'[w].pc = "committed" /\ disk' = disk
              /\ st[w].todo \subseteq {Min(st[w].todo)}
              /\ disk[Min(st[w].todo)] = replacement(w, Min(st[w].todo))
           \/ st[w].pc = "compare" /\ st'[w].pc = "refused" /\ disk' = disk
           \/ /\ st[w].pc = "rollback" /\ st[w].todo = {} /\ st'[w].pc = "aborted"
              /\ disk' = disk /\ KeepsReport(w)
           \/ st'[w].pc \notin Ended
  <1>1. TypeOK
    BY Zenon DEF IInv
  <1>2. \A c : End(w, c) => st'[w].pc = c
    BY ZenonT(30), <1>1, PcAfter DEF End
  <1>3. ASSUME Stage(w) PROVE st'[w].pc \notin Ended
    BY Zenon, <1>3, StageFields DEF Ended
  <1>4. ASSUME TakeLock(w) PROVE st'[w].pc \notin Ended
    <2>1. \E c \in {"lock", "write", "compare"},
             T \in {st[w].todo \ {Min(st[w].todo)}, Targets[w]} : To(w, c, T)
      BY Zenon, <1>4 DEF TakeLock
    <2> QED
      BY ZenonT(30), <1>1, <2>1, PcAfter DEF Ended
  <1>5. ASSUME Compare(w)
        PROVE  \/ st'[w].pc \notin Ended
               \/ st[w].pc = "compare" /\ st'[w].pc = "refused" /\ disk' = disk
    <2>1. /\ st[w].pc = "compare" /\ disk' = disk
          /\ \/ End(w, "refused")
             \/ \E T : To(w, "compare", T) \/ To(w, "write", T)
      BY Zenon, <1>5 DEF Compare
    <2> QED
      BY ZenonT(30), <1>1, <1>2, <2>1, PcAfter DEF Ended
  <1>6. ~WriteOne(w)
    BY Zenon DEF WriteOne
  <1>7. ASSUME WriteNext(w) PROVE st'[w].pc \notin Ended
    BY Zenon, <1>1, <1>7, PcAfter DEF WriteNext, Ended
  <1>8. ASSUME Cancelled(w) PROVE st'[w].pc \notin Ended
    BY Zenon, <1>1, <1>8, PcAfter DEF Cancelled, Ended
  <1>9. ASSUME Verify(w) PROVE st'[w].pc \notin Ended
    <2>1. \/ RollBack(w, st[w].attempted)
          \/ \E T : To(w, "write", T) \/ To(w, "attest", T)
      BY Zenon, <1>9 DEF Verify
    <2> QED
      BY ZenonT(30), <1>1, <2>1, PcAfter DEF Ended
  <1>10. ASSUME Attest(w)
         PROVE  \/ st'[w].pc \notin Ended
                \/ /\ st[w].pc = "attest" /\ st'[w].pc = "committed" /\ disk' = disk
                   /\ st[w].todo \subseteq {Min(st[w].todo)}
                   /\ disk[Min(st[w].todo)] = replacement(w, Min(st[w].todo))
    <2> DEFINE p == Min(st[w].todo)
    <2>1. /\ st[w].pc = "attest" /\ disk' = disk
          /\ \/ RollBack(w, st[w].attempted)
             \/ To(w, "attest", st[w].todo \ {p})
             \/ End(w, "committed") /\ st[w].todo \ {p} = {} /\ disk[p] = replacement(w, p)
      BY Zenon, <1>10 DEF Attest, Matches
    <2> QED
      BY ZenonT(30), <1>1, <1>2, <2>1, PcAfter DEF Ended
  <1>11. ASSUME Inspect(w) PROVE st'[w].pc \notin Ended
    <2>1. \/ Undecided(w, Max(st[w].todo))
          \/ \E T : To(w, "rollback", T) \/ To(w, "restore", T)
      BY Zenon, <1>11 DEF Inspect
    <2> QED
      BY ZenonT(30), <1>1, <2>1, PcAfter DEF Ended
  <1>12. ASSUME Restore(w) PROVE st'[w].pc \notin Ended
    BY Zenon, <1>1, <1>12, PcAfter DEF Restore, Ended
  <1>13. ASSUME Recheck(w) PROVE st'[w].pc \notin Ended
    <2>1. Undecided(w, Max(st[w].todo)) \/ \E T : To(w, "rollback", T)
      BY SMTT(30), <1>13 DEF Recheck
    <2> QED
      BY ZenonT(30), <1>1, <2>1, PcAfter DEF Ended
  <1>14. ASSUME Aborted(w)
         PROVE  /\ st[w].pc = "rollback" /\ st[w].todo = {} /\ st'[w].pc = "aborted"
                /\ disk' = disk /\ KeepsReport(w)
    BY Zenon, <1>1, <1>14, EndFields DEF Aborted, Ended
  <1> QED
    BY Zenon, <1>3, <1>4, <1>5, <1>6, <1>7, <1>8, <1>9, <1>10, <1>11, <1>12, <1>13, <1>14
    DEF Write

\* When every writer of the process takes the path locks (AllLock), which the tools
\* that call atomic_write_file themselves do not, what a batch reports is what it
\* left behind: a committed batch is in each of its files, or another process has
\* replaced the file; a refused one is in none; an aborted one is in none but those
\* it reports (commit_staged, rollback): ReportIsHonest.
THEOREM ReportIsHonestHolds == AllLock /\ Spec => ReportIsHonest
  <1> SUFFICES ASSUME AllLock PROVE Spec => ReportIsHonest
    BY Zenon
  <1>1. ASSUME IInv, [Next]_vars, NEW w \in Writers, Batch(w), st'[w].pc # st[w].pc
        PROVE  /\ TypeOK /\ WriterInv(w) /\ Write(w) /\ Targets[w] \subseteq Paths
    BY Zenon, <1>1, OwnStep, ConstantsOK DEF IInv
  <1>2. ASSUME IInv, [Next]_vars, NEW w \in Writers, Batch(w), Ends(w, "committed"),
               NEW p \in Targets[w]
        PROVE  w \in Edits(disk'[p]) \/ Outside \in Edits(disk'[p])
    <2> DEFINE q == Min(st[w].todo)
    <2>1. TypeOK /\ WriterInv(w) /\ Write(w) /\ Targets[w] \subseteq Paths
      BY SMTT(30), <1>1, <1>2 DEF Ends
    <2>2. /\ st[w].pc = "attest" /\ disk' = disk /\ st[w].todo \subseteq {q}
          /\ disk[q] = replacement(w, q)
      BY Zenon, <1>2, <2>1, BatchReturns DEF Ends, Ended
    <2>3. CASE p \in st[w].todo
      BY SMTT(30), <2>1, <2>2, <2>3, ImageTypes
    <2>4. CASE p \notin st[w].todo
      BY SMTT(30), <2>1, <2>2, <2>4 DEF WriterInv, ReportInv
    <2> QED
      BY Zenon, <2>3, <2>4
  <1>3. ASSUME IInv, [Next]_vars, NEW w \in Writers, Batch(w),
               Ends(w, "refused") \/ Ends(w, "aborted"), NEW p \in Targets[w] \ st'[w].uncertain
        PROVE  w \notin Edits(disk'[p])
    <2>1. TypeOK /\ WriterInv(w) /\ Write(w) /\ Targets[w] \subseteq Paths
      BY Zenon, <1>1, <1>3 DEF Ends
    <2>2. CASE st[w].pc = "compare" /\ disk' = disk
      BY Zenon, <1>3, <2>1, <2>2 DEF WriterInv, TodoInv, UnseenInv, Ended
    <2>3. CASE st[w].pc = "rollback" /\ st[w].todo = {} /\ disk' = disk /\ KeepsReport(w)
      BY Zenon, <2>1, <2>3 DEF WriterInv, ReportInv, Restoring, KeepsReport
    <2> QED
      BY Zenon, <1>3, <2>1, <2>2, <2>3, BatchReturns DEF Ends, Ended
  <1>4. IInv /\ [Next]_vars =>
           [\A w \in Writers : Batch(w) =>
              /\ Ends(w, "committed") =>
                    \A p \in Targets[w] : w \in Edits(disk'[p]) \/ Outside \in Edits(disk'[p])
              /\ Ends(w, "refused") \/ Ends(w, "aborted") =>
                    \A p \in Targets[w] \ st'[w].uncertain : w \notin Edits(disk'[p])]_vars
    BY Zenon, <1>2, <1>3
  <1> QED
    BY <1>4, CommitInvariant, PTL DEF Spec, ReportIsHonest
=============================================================================
