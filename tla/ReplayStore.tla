---------------------------- MODULE ReplayStore ----------------------------
(***************************************************************************)
(* The durable replay store of mutations that carry an idempotency key     *)
(* (idempotency.rs), and the tools that use it: single and batch edits,    *)
(* secret remediation and the non-reserving probe of symforge_edit.        *)
(*                                                                         *)
(* Keys do not share files, so this is the store of one key: its key       *)
(* directory, the record in it, and the claim marker beside it.  Callers   *)
(* run in any number of processes and may crash between any two file       *)
(* operations.  A staged reservation is private to its caller until it is  *)
(* renamed, so it is not a file of the model.                              *)
(***************************************************************************)
EXTENDS Naturals

CONSTANTS
    Callers,    \* tool calls, in any process
    Requests,   \* request hashes; also the bytes a request leaves behind
    tool_name,  \* the tool of each request, part of what is hashed
    OtherBytes, \* what the target holds before, and what other writers leave
    NoRecord,   \* the key directory has no record file
    Corrupt,    \* the record file cannot be decoded
    NoImage     \* a record without a receipt

ASSUME StoreAssumption ==
    /\ Requests # {}
    /\ OtherBytes \notin Requests /\ NoImage \notin Requests \cup {OtherBytes}
    /\ NoRecord # Corrupt
    /\ tool_name \in [Requests -> {"edit", "batch", "remediate"}]

VARIABLES
    dir,     \* the key directory exists
    record,  \* the record file in it
    marker,  \* the claim marker exists
    disk,    \* the bytes of the target
    caller,  \* what each caller is doing
    ran      \* history: how often an effect of this key was executed

vars == <<dir, record, marker, disk, caller, ran>>

Statuses == {"Reserved", "Started", "Uncertain", "Completed", "Failed"}
Bytes    == Requests \cup {OtherBytes}
Records  == [request_hash : Requests, status : Statuses, post_image : Bytes \cup {NoImage}]

reserved(h) == [request_hash |-> h, status |-> "Reserved", post_image |-> NoImage]

ASSUME RecordAssumption == NoRecord \notin Records /\ Corrupt \notin Records

\* claims: the caller removes the marker when it is done.  next: the record an
\* update is about to write.  answer: what the last call got.
Pcs == {"idle", "check", "claim", "again", "rename", "wait", "load", "quarantine",
        "unclaim", "decide", "begin", "effect", "ran", "failed", "write"}
Answers == {"none", "refused", "stored", "executed"}
Idle == [pc |-> "idle", probe |-> FALSE, hash |-> CHOOSE h \in Requests : TRUE,
         claims |-> FALSE, seen |-> NoRecord, next |-> NoRecord, answer |-> "none"]
CallerStates ==
    [pc : Pcs, probe : BOOLEAN, hash : Requests, claims : BOOLEAN,
     seen : Records \cup {NoRecord, Corrupt}, next : Records \cup {NoRecord},
     answer : Answers]

\* Every variable has its type; a record lies in a key directory.
TypeOK ==
    /\ dir \in BOOLEAN /\ marker \in BOOLEAN
    /\ record \in Records \cup {NoRecord, Corrupt}
    /\ ~dir => record = NoRecord
    /\ disk \in Bytes
    /\ caller \in [Callers -> CallerStates]
    /\ ran \in Nat

Init ==
    /\ dir = FALSE /\ record = NoRecord /\ marker = FALSE
    /\ disk = OtherBytes
    /\ caller = [c \in Callers |-> Idle]
    /\ ran = 0

At(c, pc) == caller[c].pc = pc
Tool(c)   == tool_name[caller[c].hash]
Go(c, pc) == caller' = [caller EXCEPT ![c].pc = pc]

\* The call ends; a caller that holds the claim removes the marker first.
Answered(c, a) ==
    caller' = [caller EXCEPT ![c].answer = a,
                             ![c].pc = IF caller[c].claims THEN "unclaim" ELSE "idle"]

files == <<dir, record, marker>>

-----------------------------------------------------------------------------
(* check_or_reserve and replay_if_present, one file operation per action.  *)

Begin(c, h, probe) ==
    /\ At(c, "idle")
    /\ probe => tool_name[h] = "edit"
    /\ caller' = [caller EXCEPT ![c] = [Idle EXCEPT !.pc = "check", !.hash = h, !.probe = probe]]
    /\ UNCHANGED <<files, disk, ran>>

\* An existing directory is read; otherwise a reservation is staged.  The probe
\* reserves nothing.
Check(c) ==
    /\ At(c, "check")
    /\ IF dir THEN Go(c, "load")
       ELSE IF caller[c].probe THEN Answered(c, IF marker THEN "refused" ELSE "none")
       ELSE Go(c, "claim")
    /\ UNCHANGED <<files, disk, ran>>

\* Mutant: the claim is not exclusive.
Claim_shared(c) ==
    /\ At(c, "claim")
    /\ marker' = TRUE
    /\ caller' = [caller EXCEPT ![c].pc = "again", ![c].claims = TRUE]
    /\ UNCHANGED <<dir, record, disk, ran>>

\* create_new on the marker: one caller claims the key, the others wait.
Claim(c) ==
    /\ At(c, "claim")
    /\ IF marker
       THEN Go(c, "wait") /\ UNCHANGED marker
       ELSE /\ marker' = TRUE
            /\ caller' = [caller EXCEPT ![c].pc = "again", ![c].claims = TRUE]
    /\ UNCHANGED <<dir, record, disk, ran>>

\* The claim cannot be written or synced: the call fails and the marker stays.
ClaimFails(c) ==
    /\ At(c, "claim") /\ ~marker
    /\ marker' = TRUE
    /\ Answered(c, "refused")
    /\ UNCHANGED <<dir, record, disk, ran>>

\* Mutant: the claimant does not look at the key directory again.
CheckAgain_skipped(c) ==
    /\ At(c, "again")
    /\ Go(c, "rename")
    /\ UNCHANGED <<files, disk, ran>>

CheckAgain(c) ==
    /\ At(c, "again")
    /\ Go(c, IF dir THEN "load" ELSE "rename")
    /\ UNCHANGED <<files, disk, ran>>

\* The rename of the staged directory fails only on a directory with a record.
RenameStaged(c) ==
    /\ At(c, "rename")
    /\ IF record # NoRecord
       THEN Go(c, "load") /\ UNCHANGED <<dir, record>>
       ELSE /\ dir' = TRUE
            /\ record' = reserved(caller[c].hash)
            /\ Answered(c, "executed")
    /\ UNCHANGED <<marker, disk, ran>>

RenameFails(c) ==
    /\ At(c, "rename")
    /\ Answered(c, "refused")
    /\ UNCHANGED <<files, disk, ran>>

\* wait_for_publication: the directory appears, or the marker goes or the
\* deadline passes and the caller answers Publishing.
WaitForPublication(c) ==
    /\ At(c, "wait")
    /\ IF dir THEN Go(c, "load") ELSE Answered(c, "refused")
    /\ UNCHANGED <<files, disk, ran>>

ensure_same_hash(c, r) == r.request_hash = caller[c].hash

\* load_existing, for a lookup; a failed read refuses the call.
Load(c) ==
    /\ At(c, "load")
    /\ \/ record = Corrupt /\ Go(c, "quarantine")
       \/ /\ record \in Records /\ ensure_same_hash(c, record)
          /\ caller' = [caller EXCEPT ![c].pc = "decide", ![c].seen = record]
       \/ Answered(c, "refused")
    /\ UNCHANGED <<files, disk, ran>>

\* quarantine_record: what lies there now is moved away, or stays if that fails.
Quarantine(c) ==
    /\ At(c, "quarantine")
    /\ record' \in {record, NoRecord}
    /\ Answered(c, "refused")
    /\ UNCHANGED <<dir, marker, disk, ran>>

\* A crash before this remove leaves the marker, and so does a failed one.
Unclaim(c) ==
    /\ At(c, "unclaim")
    /\ marker' \in BOOLEAN
    /\ caller' = [caller EXCEPT ![c].claims = FALSE,
                     ![c].pc = IF caller[c].answer = "executed" THEN "begin" ELSE "idle"]
    /\ UNCHANGED <<dir, record, disk, ran>>

\* Mutant: the receipt is not verified.
Replays_unverified(c) == caller[c].seen.status = "Completed"

\* A stored answer is given only for a completed operation whose bytes are
\* still in place.
Replays(c) ==
    /\ caller[c].seen.status = "Completed"
    /\ caller[c].seen.post_image = disk

Decide(c) ==
    /\ At(c, "decide")
    /\ Answered(c, IF Replays(c) THEN "stored" ELSE "refused")
    /\ UNCHANGED <<files, disk, ran>>

-----------------------------------------------------------------------------
(* The execution of the caller that reserved the key.                      *)

\* Mutant: a completed record may still be marked.
valid_any(from, to) == TRUE

valid(from, to) ==
    \/ from = "Reserved" /\ to \in {"Started", "Completed", "Failed"}
    \/ from = "Started" /\ to \in {"Completed", "Uncertain"}

Updatable(c, status) ==
    /\ record \in Records /\ ensure_same_hash(c, record)
    /\ valid(record.status, status)

\* update_status reads the record, checks the transition and writes it later;
\* where an update is refused or fails the tool goes on at `pc'.
Update(c, from, status, image, pc) ==
    /\ At(c, from)
    /\ \/ /\ Updatable(c, status)
          /\ caller' = [caller EXCEPT ![c].pc = "write",
                ![c].next = [request_hash |-> record.request_hash, status |-> status,
                             post_image |-> image]]
       \/ /\ ~Updatable(c, status)
          /\ Go(c, IF record = Corrupt THEN "quarantine" ELSE pc)
    /\ UNCHANGED <<files, disk, ran>>

\* write_record_atomic; after the rename the directory sync may still fail.
WriteRecord(c) ==
    /\ At(c, "write")
    /\ record' = caller[c].next
    /\ \/ Go(c, IF caller[c].next.status = "Started" THEN "effect" ELSE "idle")
       \/ Go(c, IF Tool(c) = "remediate" /\ caller[c].next.status = "Completed"
                THEN "failed" ELSE "idle")
    /\ UNCHANGED <<dir, marker, disk, ran>>

\* Nothing was written: a remediation that cannot start gives up, one that
\* cannot complete is marked uncertain, an edit only warns.
WriteFails(c) ==
    /\ At(c, "write")
    /\ Go(c, IF Tool(c) = "remediate" /\ caller[c].next.status = "Completed"
             THEN "failed" ELSE "idle")
    /\ UNCHANGED <<files, disk, ran>>

\* guarded_commit records the start before the effect; edits run under the
\* reservation.
MarkStarted(c) == Tool(c) = "remediate" /\ Update(c, "begin", "Started", NoImage, "idle")

StartEdit(c) ==
    /\ At(c, "begin") /\ Tool(c) # "remediate"
    /\ Go(c, "effect")
    /\ UNCHANGED <<files, disk, ran>>

\* A refusal before anything is written is recorded as Failed.
Refuse(c) == Update(c, "begin", "Failed", NoImage, "idle")

Effect(c) ==
    /\ At(c, "effect")
    /\ disk' = caller[c].hash
    /\ ran' = ran + 1
    /\ Go(c, "ran")
    /\ UNCHANGED files

\* The write fails, having replaced the bytes or not.
EffectFails(c) ==
    /\ At(c, "effect")
    /\ disk' \in {disk, caller[c].hash}
    /\ ran' = ran + 1
    /\ Go(c, "failed")
    /\ UNCHANGED files

\* A single edit and a remediation bind the bytes they wrote, if the target
\* still holds them; a batch binds what it reads back.  Without a receipt (the
\* bytes differ or cannot be read) the tools act as on a failed completion.
Complete(c) ==
    LET refused == IF Tool(c) = "remediate" THEN "failed" ELSE "idle" IN
    \/ /\ Tool(c) = "batch" \/ disk = caller[c].hash
       /\ Update(c, "ran", "Completed", disk, refused)
    \/ /\ At(c, "ran") /\ Go(c, refused)
       /\ UNCHANGED <<files, disk, ran>>

RecordFailure(c) ==
    Update(c, "failed", IF Tool(c) = "remediate" THEN "Uncertain" ELSE "Failed",
           NoImage, "idle")

-----------------------------------------------------------------------------
(* The environment.                                                        *)

\* The process dies, or the call returns early without recording anything:
\* what it knew is lost, its files stay.
Crash(c) ==
    /\ ~At(c, "idle")
    /\ caller' = [caller EXCEPT ![c] = Idle]
    /\ UNCHANGED <<files, disk, ran>>

\* Other writers change the target.
OtherWrite ==
    /\ disk' = OtherBytes
    /\ UNCHANGED <<files, caller, ran>>

\* The record file is damaged, or was left by another schema version.
Damage ==
    /\ record \in Records
    /\ record' = Corrupt
    /\ UNCHANGED <<dir, marker, disk, caller, ran>>

Next ==
    \/ \E c \in Callers :
          \/ \E h \in Requests, probe \in BOOLEAN : Begin(c, h, probe)
          \/ Check(c) \/ Claim(c) \/ ClaimFails(c) \/ CheckAgain(c)
          \/ RenameStaged(c) \/ RenameFails(c) \/ WaitForPublication(c)
          \/ Load(c) \/ Quarantine(c) \/ Unclaim(c) \/ Decide(c)
          \/ MarkStarted(c) \/ StartEdit(c) \/ Refuse(c) \/ WriteRecord(c)
          \/ WriteFails(c) \/ Effect(c) \/ EffectFails(c) \/ Complete(c)
          \/ RecordFailure(c) \/ Crash(c)
    \/ OtherWrite \/ Damage

Spec == Init /\ [][Next]_vars

-----------------------------------------------------------------------------
(* The inductive invariant.                                                *)

\* One caller holds the claim, and while it is about to rename no key
\* directory exists.
ClaimInv ==
    /\ \A c \in Callers :
          /\ caller[c].claims => marker
          /\ caller[c].pc \in {"again", "rename", "unclaim"} => caller[c].claims
          /\ caller[c].pc = "rename" => ~dir
    /\ \A c, d \in Callers : caller[c].claims /\ caller[d].claims => c = d

Executing == {"begin", "effect", "ran", "failed", "write"}

\* The steps from which the effect may still be executed.
Unexecuted(s) ==
    \/ s.pc \in {"begin", "effect"}
    \/ s.pc = "unclaim" /\ s.answer = "executed"
    \/ s.pc = "write" /\ s.next.status = "Started"

\* One caller was told to execute, and it knows whether it has.
OwnerInv ==
    /\ ~dir => ran = 0
    /\ ran \in {0, 1}
    /\ \A c, d \in Callers : caller[c].answer = "executed" /\ caller[d].answer = "executed" => c = d
    /\ \A c \in Callers :
          /\ caller[c].answer = "executed" => dir
          /\ caller[c].pc \in Executing => caller[c].answer = "executed"
          /\ Unexecuted(caller[c]) => ran = 0
          /\ caller[c].pc \in {"ran", "failed"} => ran = 1

\* A completed record was earned.
Earned(r) ==
    r \in Records /\ r.status = "Completed" =>
       /\ ran = 1
       /\ tool_name[r.request_hash] # "batch" => r.post_image = r.request_hash

\* Nobody but the owner changes the status of the record it has read.
RecordInv ==
    /\ Earned(record)
    /\ \A c \in Callers :
          /\ Earned(caller[c].seen) /\ Earned(caller[c].next)
          /\ caller[c].pc = "decide" =>
                caller[c].seen \in Records /\ caller[c].seen.request_hash = caller[c].hash
          /\ caller[c].pc = "write" =>
                /\ caller[c].next \in Records
                /\ record \in Records => valid(record.status, caller[c].next.status)

\* The inductive invariant of the store: one claimant, one owner, and records
\* that say what was done.
IInv == TypeOK /\ ClaimInv /\ OwnerInv /\ RecordInv

-----------------------------------------------------------------------------
(* Properties.                                                             *)

\* The effect under an idempotency key is executed at most once, whatever
\* callers crash, retry, quarantine the record or lose their claim.
ExecutesOnce == ran <= 1

\* A stored answer is given only for the very request that was executed, and
\* only while the target holds the bytes it left (the receipt of a
\* batch, read back after its write ended, may be of another writer's bytes).
ReplayIsEarned ==
    [][\A c \in Callers :
          Decide(c) /\ caller'[c].answer = "stored" =>
             /\ ran = 1
             /\ Tool(c) # "batch" => disk = caller[c].hash]_vars

\* An operation that ended keeps its status: neither a failed directory sync
\* nor the marking that follows it reclassifies a record.
EndedStays ==
    [][(record \in Records /\ record.status \in {"Completed", "Failed", "Uncertain"}) =>
          record' \in {record, Corrupt, NoRecord}]_vars

Contract == INSTANCE IdempotencyContract
               WITH taken <- dir, executed <- ran, answer <- [c \in Callers |-> caller[c].answer]

\* The store implements the contract of an idempotency key: taken once and for
\* good, executed at most once and by its taker, replayed only afterwards.
ImplementsContract == Contract!Spec
=============================================================================
