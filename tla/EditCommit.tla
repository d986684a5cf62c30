----------------------------- MODULE EditCommit -----------------------------
(***************************************************************************)
(* The writers of repository files: the staged multi-file commit of        *)
(* edit_safety/batch_commit.rs, the single-file writers of atomic_write.rs *)
(* and the edit tools that call them.  A writer splices its edit into the  *)
(* bytes it read and later puts the result in place of the whole file by a *)
(* rename, so what can go wrong is in between.  An image of a file is the  *)
(* set of the edits its bytes contain.  The source authority each write    *)
(* passes is SourceAuthority; here it is one of the reasons a write fails. *)
(***************************************************************************)
EXTENDS Integers, FiniteSets, FiniteSetsExt

CONSTANTS
    Writers,      \* one edit each
    Kind,         \* batch, guarded (if_match), unguarded, or direct
    Targets,      \* the files of a writer, as canonical lock keys
    Paths,        \* numbered in the order of those keys
    Missing,      \* the files that do not exist at first
    NoFile,       \* the image of a missing file
    NoOne,        \* a lock nobody holds
    Outside,      \* the edit of another process
    MaxOutside    \* bound on the writes of other processes

ASSUME ConstantsOK ==
    /\ Paths \subseteq Nat /\ Missing \subseteq Paths
    /\ \E last \in Paths : \A p \in Paths : p <= last
    /\ Kind \in [Writers -> {"batch", "guarded", "unguarded", "direct"}]
    /\ Targets \in [Writers -> (SUBSET Paths) \ {{}}]
    /\ \A w \in Writers : Kind[w] # "batch" => \E p \in Paths \ Missing : Targets[w] = {p}
    /\ Outside \notin Writers /\ NoOne \notin Writers
    /\ \A edits \in SUBSET (Writers \cup {Outside}) : edits # NoFile
    /\ MaxOutside \in Nat

VARIABLES
    disk,       \* path -> image
    lock,       \* PATH_WRITE_LOCKS: path -> holder
    st,         \* the state of each writer
    cancel,     \* the writers whose caller has cancelled them
    outside     \* writes of other processes so far

vars == <<disk, lock, st, cancel, outside>>

-----------------------------------------------------------------------------
(* Images.                                                                 *)

Edits(image) == IF image = NoFile THEN {} ELSE image

\* StagedImage: the pre-image that was read and the splice computed from it.
original(w, p) == st[w].base[p]
replacement(w, p) == Edits(st[w].base[p]) \cup {w}

\* BatchIo::matches.  A read can fail, and a failed read matches nothing.
Matches(p, image) == {FALSE} \cup {disk[p] = image}

\* BatchIo::write.  It takes effect and says so, fails before the rename, or
\* fails after it (the publication that follows the rename was refused).
WriteEffects == {<<TRUE, TRUE>>, <<FALSE, FALSE>>, <<FALSE, TRUE>>}

Wrote(p, image, landed) == disk' = IF landed THEN [disk EXCEPT ![p] = image] ELSE disk

Becomes(w, s) == st' = [st EXCEPT ![w] = s]
To(w, pc, todo) == Becomes(w, [st[w] EXCEPT !.pc = pc, !.todo = todo])

Unlocked(w) == lock' = [p \in Paths |-> IF lock[p] = w THEN NoOne ELSE lock[p]]

\* The writer returns and its guards are dropped.
End(w, outcome) == To(w, outcome, {}) /\ Unlocked(w)

Batch(w) == Kind[w] = "batch"

-----------------------------------------------------------------------------
(* Reading and locking.                                                    *)

\* The edit tool reads its files and computes the splice.
Stage(w) ==
    /\ st[w].pc = "idle"
    /\ Becomes(w, [st[w] EXCEPT
          !.base = [p \in Paths |-> IF p \in Targets[w] THEN disk[p] ELSE NoFile],
          !.todo = Targets[w],
          !.pc = IF Kind[w] = "direct" THEN "write" ELSE "lock"])
    /\ UNCHANGED <<disk, lock, cancel, outside>>

\* An unguarded write takes no lock: only a guarded one reads again.
LockOf_guarded_only(w, p) == IF Kind[w] = "unguarded" THEN lock[p] ELSE w

\* Every write takes the lock, whether or not it reads again under it.
LockOf(w, p) == w

\* with_staged_locks: in the order of the keys, so that overlapping writers
\* never wait for each other in a circle.
TakeLock(w) ==
    LET p == Min(st[w].todo)
        rest == st[w].todo \ {p}
    IN  /\ st[w].pc = "lock"
        /\ LockOf(w, p) = w => lock[p] = NoOne
        /\ lock' = [lock EXCEPT ![p] = LockOf(w, p)]
        /\ IF rest # {} THEN To(w, "lock", rest)
           ELSE To(w, IF Kind[w] = "unguarded" THEN "write" ELSE "compare", Targets[w])
        /\ UNCHANGED <<disk, cancel, outside>>

\* Every pre-image is compared before the first write; a difference, or a file
\* that cannot be read, ends the operation with nothing written.
Compare(w) ==
    LET p == Min(st[w].todo)
        rest == st[w].todo \ {p}
    IN  /\ st[w].pc = "compare"
        /\ \E same \in Matches(p, original(w, p)) :
              IF ~same THEN End(w, "refused")
              ELSE /\ IF rest # {} THEN To(w, "compare", rest) ELSE To(w, "write", Targets[w])
                   /\ UNCHANGED lock
        /\ UNCHANGED <<disk, cancel, outside>>

-----------------------------------------------------------------------------
(* Writing one file, and the batch.                                        *)

\* The one write of guarded_atomic_write_file or of atomic_write_file.
WriteOne(w) ==
    LET p == CHOOSE q \in Targets[w] : TRUE
    IN  /\ st[w].pc = "write" /\ ~Batch(w)
        /\ \E effect \in WriteEffects :
              /\ Wrote(p, replacement(w, p), effect[2])
              /\ End(w, IF effect[1] THEN "committed" ELSE "failed")
        /\ UNCHANGED <<cancel, outside>>

RollBack(w, attempted) ==
    Becomes(w, [st[w] EXCEPT !.pc = "rollback", !.todo = attempted, !.attempted = attempted])

\* A file counts as attempted only once its write has succeeded.
Attempted_if_ok(w, p, ok) == st[w].attempted \cup (IF ok THEN {p} ELSE {})

\* A file counts as attempted before it is written.
Attempted(w, p, ok) == st[w].attempted \cup {p}

WriteNext(w) ==
    LET p == Min(st[w].todo)
    IN  /\ st[w].pc = "write" /\ Batch(w) /\ w \notin cancel
        /\ \E effect \in WriteEffects :
              /\ Wrote(p, replacement(w, p), effect[2])
              /\ IF effect[1]
                 THEN Becomes(w, [st[w] EXCEPT !.pc = "verify",
                                               !.attempted = Attempted(w, p, TRUE)])
                 ELSE RollBack(w, Attempted(w, p, FALSE))
        /\ UNCHANGED <<lock, cancel, outside>>

\* The cancellation is seen between two writes.
Cancelled(w) ==
    /\ st[w].pc = "write" /\ Batch(w) /\ w \in cancel
    /\ RollBack(w, st[w].attempted)
    /\ UNCHANGED <<disk, lock, cancel, outside>>

\* Each post-image is read back, ...
Verify(w) ==
    LET p == Min(st[w].todo)
        rest == st[w].todo \ {p}
    IN  /\ st[w].pc = "verify"
        /\ \E same \in Matches(p, replacement(w, p)) :
              IF ~same THEN RollBack(w, st[w].attempted)
              ELSE IF rest # {} THEN To(w, "write", rest) ELSE To(w, "attest", Targets[w])
        /\ UNCHANGED <<disk, lock, cancel, outside>>

\* ... and all of them again before the batch commits.
Attest(w) ==
    LET p == Min(st[w].todo)
        rest == st[w].todo \ {p}
    IN  /\ st[w].pc = "attest"
        /\ \E same \in Matches(p, replacement(w, p)) :
              IF ~same THEN RollBack(w, st[w].attempted) /\ UNCHANGED lock
              ELSE IF rest # {} THEN To(w, "attest", rest) /\ UNCHANGED lock
              ELSE End(w, "committed")
        /\ UNCHANGED <<disk, cancel, outside>>

-----------------------------------------------------------------------------
(* rollback, last file first.                                              *)

Undecided(w, p) ==
    Becomes(w, [st[w] EXCEPT !.pc = "rollback", !.todo = @ \ {p}, !.uncertain = @ \cup {p}])

\* A file found as it was is left alone, and so is one that is neither as it
\* was nor as it was written; the latter is reported, and so is a created file.
Inspect(w) ==
    LET p == Max(st[w].todo)
    IN  /\ st[w].pc = "rollback" /\ st[w].todo # {}
        /\ \E untouched \in Matches(p, original(w, p)), ours \in Matches(p, replacement(w, p)) :
              IF untouched THEN To(w, "rollback", st[w].todo \ {p})
              ELSE IF ours /\ original(w, p) # NoFile THEN To(w, "restore", st[w].todo)
              ELSE Undecided(w, p)
        /\ UNCHANGED <<disk, lock, cancel, outside>>

Restore(w) ==
    LET p == Max(st[w].todo)
    IN  /\ st[w].pc = "restore"
        /\ \E effect \in WriteEffects : Wrote(p, original(w, p), effect[2])
        /\ To(w, "recheck", st[w].todo)
        /\ UNCHANGED <<lock, cancel, outside>>

\* Whatever the restoring write said, the file is read again.
Recheck(w) ==
    LET p == Max(st[w].todo)
    IN  /\ st[w].pc = "recheck"
        /\ \E same \in Matches(p, original(w, p)) :
              IF same THEN To(w, "rollback", st[w].todo \ {p}) ELSE Undecided(w, p)
        /\ UNCHANGED <<disk, lock, cancel, outside>>

Aborted(w) ==
    /\ st[w].pc = "rollback" /\ st[w].todo = {}
    /\ End(w, "aborted")
    /\ UNCHANGED <<disk, cancel, outside>>

-----------------------------------------------------------------------------
(* The environment.                                                        *)

\* Another process saves its own version of a file.
OutsideWrite(p) ==
    /\ outside < MaxOutside /\ outside' = outside + 1
    /\ disk' = [disk EXCEPT ![p] = {Outside}]
    /\ UNCHANGED <<lock, st, cancel>>

Ended == {"committed", "refused", "failed", "aborted"}

\* The caller of an embedded batch cancels it.
Cancel(w) ==
    /\ Batch(w) /\ w \notin cancel /\ st[w].pc \notin Ended
    /\ cancel' = cancel \cup {w}
    /\ UNCHANGED <<disk, lock, st, outside>>

Finished ==
    /\ \A w \in Writers : st[w].pc \in Ended
    /\ UNCHANGED vars

-----------------------------------------------------------------------------
(* The specification.                                                      *)

Init ==
    /\ disk = [p \in Paths |-> IF p \in Missing THEN NoFile ELSE {}]
    /\ lock = [p \in Paths |-> NoOne]
    /\ st = [w \in Writers |-> [pc |-> "idle", base |-> [p \in Paths |-> NoFile],
                                todo |-> {}, attempted |-> {}, uncertain |-> {}]]
    /\ cancel = {} /\ outside = 0

Write(w) ==
    \/ Stage(w) \/ TakeLock(w) \/ Compare(w) \/ WriteOne(w)
    \/ WriteNext(w) \/ Cancelled(w) \/ Verify(w) \/ Attest(w)
    \/ Inspect(w) \/ Restore(w) \/ Recheck(w) \/ Aborted(w)

Next ==
    \/ \E w \in Writers : Write(w) \/ Cancel(w)
    \/ \E p \in Paths : OutsideWrite(p)
    \/ Finished

Spec == Init /\ [][Next]_vars

-----------------------------------------------------------------------------
(* Properties.                                                             *)

Ends(w, outcome) == st[w].pc # outcome /\ st'[w].pc = outcome

\* What a batch reports is what it left behind, whatever failed, was cancelled
\* or was written by others meanwhile: a committed batch is in every file that
\* no other process has overwritten, a refused one in none, and an aborted one
\* in none but those it reports as uncertain (commit_staged, rollback).  It takes
\* writers that hold the path locks: a direct writer of the process can make a
\* report false.
ReportIsHonest ==
    [][\A w \in Writers : Batch(w) =>
          /\ Ends(w, "committed") =>
                \A p \in Targets[w] : w \in Edits(disk'[p]) \/ Outside \in Edits(disk'[p])
          /\ Ends(w, "refused") \/ Ends(w, "aborted") =>
                \A p \in Targets[w] \ st'[w].uncertain : w \notin Edits(disk'[p])]_vars

\* A writer that compares before it writes, and a batch that rolls back, never
\* remove an edit another writer of this process has made to the file: the path
\* lock holds off every other write between the comparison and the rename.
NothingClobbered ==
    [][\A w \in Writers : Kind[w] \in {"batch", "guarded"} /\ st'[w] # st[w] =>
          \A p \in Paths : Edits(disk[p]) \ Edits(disk'[p]) \subseteq {w, Outside}]_vars

-----------------------------------------------------------------------------
(* The inductive invariant behind the two, for writers that take the path  *)
(* locks.                                                                  *)

AllLock == \A w \in Writers : Kind[w] # "direct"

Images == {NoFile} \cup SUBSET (Writers \cup {Outside})
Restoring == {"rollback", "restore", "recheck"}
Writing == {"write", "verify", "attest"} \cup Restoring
Pcs == {"idle", "lock", "compare"} \cup Writing \cup Ended

States ==
    [pc : Pcs, base : [Paths -> Images], todo : SUBSET Paths,
     attempted : SUBSET Paths, uncertain : SUBSET Paths]

TypeOK ==
    /\ disk \in [Paths -> Images]
    /\ lock \in [Paths -> Writers \cup {NoOne}]
    /\ st \in [Writers -> States]

\* A writer works on its own files, and stops only at the end of its list.
TodoInv(w) ==
    /\ st[w].todo \cup st[w].attempted \subseteq Targets[w]
    /\ st[w].pc \in Pcs \ ({"idle", "rollback"} \cup Ended) => st[w].todo # {}
    /\ st[w].pc \in {"idle", "lock", "compare"} => st[w].attempted = {}

\* From the comparison on it holds the lock of every file it may write.
LockInv(w) ==
    /\ st[w].pc = "lock" => \A p \in Targets[w] \ st[w].todo : lock[p] = w
    /\ st[w].pc \in {"compare"} \cup Writing => \A p \in Targets[w] : lock[p] = w

\* A file it has compared holds no edit it has not read, except its own and
\* those of other processes.
KnownInv(w) ==
    Kind[w] # "unguarded" =>
       \A p \in Targets[w] :
          \/ st[w].pc = "compare" /\ p \notin st[w].todo
          \/ st[w].pc \in Writing
          => Edits(disk[p]) \subseteq Edits(st[w].base[p]) \cup {w, Outside}

\* Until a batch has tried to write a file, nobody has its edit of it.
UnseenInv(w) ==
    Batch(w) /\ st[w].pc \notin Ended =>
       /\ \A p \in Paths : w \notin Edits(st[w].base[p])
       /\ \A p \in Paths \ st[w].attempted :
             /\ w \notin Edits(disk[p])
             /\ \A v \in Writers : w \notin Edits(st[v].base[p])

\* What a batch has attested holds its edit, and what it has rolled back does
\* not, unless it reports the file.
ReportInv(w) ==
    /\ st[w].pc = "attest" =>
          \A p \in Targets[w] \ st[w].todo :
             w \in Edits(disk[p]) \/ Outside \in Edits(disk[p])
    /\ st[w].pc \in Restoring =>
          \A p \in Targets[w] \ (st[w].todo \cup st[w].uncertain) : w \notin Edits(disk[p])
    /\ st[w].pc \in Restoring \cup {"verify", "attest"} => Batch(w)

WriterInv(w) ==
    TodoInv(w) /\ LockInv(w) /\ KnownInv(w) /\ UnseenInv(w) /\ ReportInv(w)

\* Every writer has locked what it may write, knows what it is about to replace,
\* and keeps account of where its edit may be (commit_staged_locked, rollback).
IInv == TypeOK /\ \A w \in Writers : WriterInv(w)
=============================================================================
