------------------------- MODULE ReplayStoreProofs -------------------------
(***************************************************************************)
(* Proofs about ReplayStore, for any callers, requests and tools.          *)
(*                                                                         *)
(* Every caller's step changes one caller's state to a new one, so each    *)
(* conjunct of the invariant is shown by looking at that caller and at     *)
(* what the step did to the shared files.                                  *)
(***************************************************************************)
EXTENDS ReplayStore, TLAPS

\* The steps of one caller, as a group.
CallerStep(c) ==
    \/ \E h \in Requests, probe \in BOOLEAN : Begin(c, h, probe)
    \/ Check(c) \/ Claim(c) \/ ClaimFails(c) \/ CheckAgain(c)
    \/ RenameStaged(c) \/ RenameFails(c) \/ WaitForPublication(c)
    \/ Load(c) \/ Quarantine(c) \/ Unclaim(c) \/ Decide(c)
    \/ MarkStarted(c) \/ StartEdit(c) \/ Refuse(c) \/ WriteRecord(c)
    \/ WriteFails(c) \/ Effect(c) \/ EffectFails(c) \/ Complete(c)
    \/ RecordFailure(c) \/ Crash(c)

\* The state a caller starts in, and falls back to when its process dies.
LEMMA IdleType == Idle \in CallerStates /\ Idle.pc = "idle" /\ Idle.answer = "none"
                  /\ Idle.claims = FALSE /\ Idle.seen = NoRecord /\ Idle.next = NoRecord
<1>1. (CHOOSE h \in Requests : TRUE) \in Requests
  BY Zenon, StoreAssumption
<1> QED
  BY Zenon, <1>1 DEF Idle, CallerStates, Pcs, Answers

\* Every record that is written is well formed.
LEMMA RecordTypes ==
    ASSUME NEW h \in Requests, NEW s \in Statuses, NEW i \in Bytes \cup {NoImage}
    PROVE  /\ reserved(h) \in Records
           /\ [request_hash |-> h, status |-> s, post_image |-> i] \in Records
BY Zenon DEF reserved, Records, Statuses

\* Moving one caller to another step changes nothing else of any caller.
LEMMA GoEffect ==
    ASSUME caller \in [Callers -> CallerStates], NEW c \in Callers, NEW p \in Pcs, Go(c, p)
    PROVE  /\ caller' \in [Callers -> CallerStates]
           /\ \A d \in Callers \ {c} : caller'[d] = caller[d]
           /\ caller'[c].pc = p
           /\ caller'[c].claims = caller[c].claims /\ caller'[c].seen = caller[c].seen
           /\ caller'[c].next = caller[c].next /\ caller'[c].answer = caller[c].answer
           /\ caller'[c].hash = caller[c].hash
BY DEF Go, CallerStates

\* A call that ends changes what its caller was told and where it goes on.
LEMMA AnsweredEffect ==
    ASSUME caller \in [Callers -> CallerStates], NEW c \in Callers, NEW a \in Answers,
           Answered(c, a)
    PROVE  /\ caller' \in [Callers -> CallerStates]
           /\ \A d \in Callers \ {c} : caller'[d] = caller[d]
           /\ caller'[c].pc = IF caller[c].claims THEN "unclaim" ELSE "idle"
           /\ caller'[c].claims = caller[c].claims /\ caller'[c].seen = caller[c].seen
           /\ caller'[c].next = caller[c].next /\ caller'[c].answer = a
           /\ caller'[c].hash = caller[c].hash
<1> DEFINE mid == [caller EXCEPT ![c].answer = a]
           p == IF caller[c].claims THEN "unclaim" ELSE "idle"
<1>1. /\ mid \in [Callers -> CallerStates]
      /\ \A d \in Callers \ {c} : mid[d] = caller[d]
      /\ mid[c].claims = caller[c].claims /\ mid[c].seen = caller[c].seen
      /\ mid[c].next = caller[c].next /\ mid[c].answer = a /\ mid[c].hash = caller[c].hash
  BY DEF CallerStates
<1>2. caller' = [mid EXCEPT ![c].pc = p]
  BY Zenon DEF Answered
<1>3. p \in Pcs
  BY Zenon DEF Pcs
<1> HIDE DEF mid, p
<1>4. /\ caller' \in [Callers -> CallerStates]
      /\ \A d \in Callers \ {c} : caller'[d] = mid[d]
      /\ caller'[c].pc = p
      /\ caller'[c].claims = mid[c].claims /\ caller'[c].seen = mid[c].seen
      /\ caller'[c].next = mid[c].next /\ caller'[c].answer = mid[c].answer
      /\ caller'[c].hash = mid[c].hash
  BY <1>1, <1>2, <1>3 DEF CallerStates
<1> QED
  BY Zenon, <1>1, <1>4 DEF p

\* Taking the claim.
TakesClaim(c, p, v) == caller' = [caller EXCEPT ![c].pc = p, ![c].claims = v]

\* What that changes, and what it keeps.
LEMMA TakesClaimEffect ==
    ASSUME caller \in [Callers -> CallerStates], NEW c \in Callers, NEW p \in Pcs,
           NEW v \in BOOLEAN,
           TakesClaim(c, p, v)
    PROVE  /\ caller' \in [Callers -> CallerStates]
           /\ \A d \in Callers \ {c} : caller'[d] = caller[d]
           /\ caller'[c].pc = p /\ caller'[c].claims = v
           /\ caller'[c].seen = caller[c].seen /\ caller'[c].next = caller[c].next
           /\ caller'[c].answer = caller[c].answer /\ caller'[c].hash = caller[c].hash
<1> DEFINE mid == [caller EXCEPT ![c].pc = p]
<1>1. caller' = [mid EXCEPT ![c].claims = v]
  BY Zenon DEF TakesClaim
<1>2. /\ mid \in [Callers -> CallerStates]
      /\ \A d \in Callers \ {c} : mid[d] = caller[d]
      /\ mid[c].pc = p /\ mid[c].seen = caller[c].seen
      /\ mid[c].next = caller[c].next /\ mid[c].answer = caller[c].answer
      /\ mid[c].hash = caller[c].hash
  BY DEF CallerStates
<1> HIDE DEF mid
<1>3. /\ caller' \in [Callers -> CallerStates]
      /\ \A d \in Callers \ {c} : caller'[d] = mid[d]
      /\ caller'[c].claims = v /\ caller'[c].pc = mid[c].pc
      /\ caller'[c].seen = mid[c].seen /\ caller'[c].next = mid[c].next
      /\ caller'[c].answer = mid[c].answer /\ caller'[c].hash = mid[c].hash
  BY <1>1, <1>2 DEF CallerStates
<1> QED
  BY Zenon, <1>2, <1>3

\* Giving the claim up.
LeavesClaim(c, p, v) == caller' = [caller EXCEPT ![c].claims = v, ![c].pc = p]

\* What that changes, and what it keeps.
LEMMA LeavesClaimEffect ==
    ASSUME caller \in [Callers -> CallerStates], NEW c \in Callers, NEW p \in Pcs,
           NEW v \in BOOLEAN,
           LeavesClaim(c, p, v)
    PROVE  /\ caller' \in [Callers -> CallerStates]
           /\ \A d \in Callers \ {c} : caller'[d] = caller[d]
           /\ caller'[c].pc = p /\ caller'[c].claims = v
           /\ caller'[c].seen = caller[c].seen /\ caller'[c].next = caller[c].next
           /\ caller'[c].answer = caller[c].answer /\ caller'[c].hash = caller[c].hash
<1> DEFINE mid == [caller EXCEPT ![c].claims = v]
<1>1. caller' = [mid EXCEPT ![c].pc = p]
  BY Zenon DEF LeavesClaim
<1>2. /\ mid \in [Callers -> CallerStates]
      /\ \A d \in Callers \ {c} : mid[d] = caller[d]
      /\ mid[c].claims = v /\ mid[c].seen = caller[c].seen
      /\ mid[c].next = caller[c].next /\ mid[c].answer = caller[c].answer
      /\ mid[c].hash = caller[c].hash
  BY DEF CallerStates
<1> HIDE DEF mid
<1>3. /\ caller' \in [Callers -> CallerStates]
      /\ \A d \in Callers \ {c} : caller'[d] = mid[d]
      /\ caller'[c].pc = p /\ caller'[c].claims = mid[c].claims
      /\ caller'[c].seen = mid[c].seen /\ caller'[c].next = mid[c].next
      /\ caller'[c].answer = mid[c].answer /\ caller'[c].hash = mid[c].hash
  BY <1>1, <1>2 DEF CallerStates
<1> QED
  BY Zenon, <1>2, <1>3

\* Remembering the record that was read.
Sees(c, p, v) == caller' = [caller EXCEPT ![c].pc = p, ![c].seen = v]

\* What that changes, and what it keeps.
LEMMA SeesEffect ==
    ASSUME caller \in [Callers -> CallerStates], NEW c \in Callers, NEW p \in Pcs,
           NEW v \in Records,
           Sees(c, p, v)
    PROVE  /\ caller' \in [Callers -> CallerStates]
           /\ \A d \in Callers \ {c} : caller'[d] = caller[d]
           /\ caller'[c].pc = p /\ caller'[c].seen = v
           /\ caller'[c].claims = caller[c].claims /\ caller'[c].next = caller[c].next
           /\ caller'[c].answer = caller[c].answer /\ caller'[c].hash = caller[c].hash
<1> DEFINE mid == [caller EXCEPT ![c].pc = p]
<1>1. caller' = [mid EXCEPT ![c].seen = v]
  BY Zenon DEF Sees
<1>2. /\ mid \in [Callers -> CallerStates]
      /\ \A d \in Callers \ {c} : mid[d] = caller[d]
      /\ mid[c].pc = p /\ mid[c].claims = caller[c].claims
      /\ mid[c].next = caller[c].next /\ mid[c].answer = caller[c].answer
      /\ mid[c].hash = caller[c].hash
  BY DEF CallerStates
<1> HIDE DEF mid
<1>3. /\ caller' \in [Callers -> CallerStates]
      /\ \A d \in Callers \ {c} : caller'[d] = mid[d]
      /\ caller'[c].seen = v /\ caller'[c].pc = mid[c].pc
      /\ caller'[c].claims = mid[c].claims /\ caller'[c].next = mid[c].next
      /\ caller'[c].answer = mid[c].answer /\ caller'[c].hash = mid[c].hash
  BY <1>1, <1>2 DEF CallerStates
<1> QED
  BY Zenon, <1>2, <1>3

\* Remembering the record to be written.
Prepares(c, p, v) == caller' = [caller EXCEPT ![c].pc = p, ![c].next = v]

\* What that changes, and what it keeps.
LEMMA PreparesEffect ==
    ASSUME caller \in [Callers -> CallerStates], NEW c \in Callers, NEW p \in Pcs,
           NEW v \in Records,
           Prepares(c, p, v)
    PROVE  /\ caller' \in [Callers -> CallerStates]
           /\ \A d \in Callers \ {c} : caller'[d] = caller[d]
           /\ caller'[c].pc = p /\ caller'[c].next = v
           /\ caller'[c].claims = caller[c].claims /\ caller'[c].seen = caller[c].seen
           /\ caller'[c].answer = caller[c].answer /\ caller'[c].hash = caller[c].hash
<1> DEFINE mid == [caller EXCEPT ![c].pc = p]
<1>1. caller' = [mid EXCEPT ![c].next = v]
  BY Zenon DEF Prepares
<1>2. /\ mid \in [Callers -> CallerStates]
      /\ \A d \in Callers \ {c} : mid[d] = caller[d]
      /\ mid[c].pc = p /\ mid[c].claims = caller[c].claims
      /\ mid[c].seen = caller[c].seen /\ mid[c].answer = caller[c].answer
      /\ mid[c].hash = caller[c].hash
  BY DEF CallerStates
<1> HIDE DEF mid
<1>3. /\ caller' \in [Callers -> CallerStates]
      /\ \A d \in Callers \ {c} : caller'[d] = mid[d]
      /\ caller'[c].next = v /\ caller'[c].pc = mid[c].pc
      /\ caller'[c].claims = mid[c].claims /\ caller'[c].seen = mid[c].seen
      /\ caller'[c].answer = mid[c].answer /\ caller'[c].hash = mid[c].hash
  BY <1>1, <1>2 DEF CallerStates
<1> QED
  BY Zenon, <1>2, <1>3

\* A caller starts over: a new call begins, or its process dies.
LEMMA ResetEffect ==
    ASSUME caller \in [Callers -> CallerStates], NEW c \in Callers, NEW s \in CallerStates,
           caller' = [caller EXCEPT ![c] = s]
    PROVE  /\ caller' \in [Callers -> CallerStates]
           /\ \A d \in Callers \ {c} : caller'[d] = caller[d]
           /\ caller'[c] = s
BY Zenon

-----------------------------------------------------------------------------
(* Steps that change no file.                                              *)

\* A caller goes on elsewhere, with what that step requires of it.
LEMMA GoKeeps ==
    ASSUME IInv, NEW c \in Callers,
           NEW p \in Pcs \ {"again", "unclaim", "decide", "write"}, Go(c, p),
           UNCHANGED <<files, disk, ran>>,
           p = "rename" => caller[c].claims /\ ~dir,
           p \in Executing => caller[c].answer = "executed",
           p \in {"begin", "effect"} => ran = 0,
           p \in {"ran", "failed"} => ran = 1
    PROVE  IInv'
<1> USE DEF files
<1>1. /\ caller' \in [Callers -> CallerStates]
      /\ \A d \in Callers \ {c} : caller'[d] = caller[d]
      /\ caller'[c].pc = p
      /\ caller'[c].claims = caller[c].claims /\ caller'[c].seen = caller[c].seen
      /\ caller'[c].next = caller[c].next /\ caller'[c].answer = caller[c].answer
      /\ caller'[c].hash = caller[c].hash
  BY Zenon, GoEffect DEF IInv, TypeOK
<1>2. TypeOK'
  BY Zenon, <1>1 DEF IInv, TypeOK
<1>3. ClaimInv'
  BY <1>1 DEF IInv, ClaimInv
<1>4. OwnerInv'
  BY <1>1 DEF IInv, OwnerInv, Unexecuted, Executing
<1>5. RecordInv'
  BY <1>1 DEF IInv, RecordInv, Earned
<1> QED
  BY Zenon, <1>2, <1>3, <1>4, <1>5 DEF IInv

\* A call ends without taking the key.
LEMMA AnsweredKeeps ==
    ASSUME IInv, NEW c \in Callers, NEW a \in Answers \ {"executed"}, Answered(c, a),
           UNCHANGED <<files, disk, ran>>
    PROVE  IInv'
<1> USE DEF files
<1>1. /\ caller' \in [Callers -> CallerStates]
      /\ \A d \in Callers \ {c} : caller'[d] = caller[d]
      /\ caller'[c].pc = IF caller[c].claims THEN "unclaim" ELSE "idle"
      /\ caller'[c].claims = caller[c].claims /\ caller'[c].seen = caller[c].seen
      /\ caller'[c].next = caller[c].next /\ caller'[c].answer = a
      /\ caller'[c].hash = caller[c].hash
  BY Zenon, AnsweredEffect DEF IInv, TypeOK
<1>2. TypeOK'
  BY Zenon, <1>1 DEF IInv, TypeOK
<1>3. ClaimInv'
  BY <1>1 DEF IInv, ClaimInv
<1>4. OwnerInv'
  BY <1>1 DEF IInv, OwnerInv, Unexecuted, Executing
<1>5. RecordInv'
  BY <1>1 DEF IInv, RecordInv, Earned
<1> QED
  BY Zenon, <1>2, <1>3, <1>4, <1>5 DEF IInv

\* A caller starts over.
LEMMA ResetKeeps ==
    ASSUME IInv, NEW c \in Callers, NEW s \in CallerStates,
           caller' = [caller EXCEPT ![c] = s], UNCHANGED <<files, disk, ran>>,
           s.pc \in {"idle", "check"}, s.answer = "none", s.claims = FALSE,
           s.seen = NoRecord, s.next = NoRecord
    PROVE  IInv'
<1> USE DEF files
<1>1. /\ caller' \in [Callers -> CallerStates]
      /\ \A d \in Callers \ {c} : caller'[d] = caller[d]
      /\ caller'[c].pc \in {"idle", "check"} /\ caller'[c].claims = FALSE
      /\ caller'[c].seen = NoRecord /\ caller'[c].next = NoRecord
      /\ caller'[c].answer = "none"
  BY Zenon, ResetEffect DEF IInv, TypeOK
<1>2. TypeOK'
  BY Zenon, <1>1 DEF IInv, TypeOK
<1>3. ClaimInv'
  BY Zenon, <1>1 DEF IInv, ClaimInv
<1>4. OwnerInv'
  BY <1>1 DEF IInv, OwnerInv, Unexecuted, Executing
<1>5. RecordInv'
  BY <1>1, RecordAssumption DEF IInv, RecordInv, Earned
<1> QED
  BY Zenon, <1>2, <1>3, <1>4, <1>5 DEF IInv

\* A caller remembers the record it has read.
LEMMA SeesKeeps ==
    ASSUME IInv, NEW c \in Callers, Sees(c, "decide", record),
           record \in Records, ensure_same_hash(c, record),
           UNCHANGED <<files, disk, ran>>
    PROVE  IInv'
<1> USE DEF files
<1>0. "decide" \in Pcs
  BY Zenon DEF Pcs
<1>1. /\ caller' \in [Callers -> CallerStates]
      /\ \A d \in Callers \ {c} : caller'[d] = caller[d]
      /\ caller'[c].pc = "decide" /\ caller'[c].seen = record
      /\ caller'[c].claims = caller[c].claims /\ caller'[c].next = caller[c].next
      /\ caller'[c].answer = caller[c].answer /\ caller'[c].hash = caller[c].hash
  BY Zenon, <1>0, SeesEffect DEF IInv, TypeOK
<1>2. TypeOK'
  BY Zenon, <1>1 DEF IInv, TypeOK
<1>3. ClaimInv'
  BY <1>1 DEF IInv, ClaimInv
<1>4. OwnerInv'
  BY <1>1 DEF IInv, OwnerInv, Unexecuted, Executing
<1>5. RecordInv'
  BY <1>1 DEF IInv, RecordInv, Earned, ensure_same_hash
<1> QED
  BY Zenon, <1>2, <1>3, <1>4, <1>5 DEF IInv

-----------------------------------------------------------------------------
(* Updates of the record.                                                  *)

\* The owner has read the record and prepares the next one.
LEMMA PreparesKeeps ==
    ASSUME IInv, NEW c \in Callers, NEW r \in Records, Prepares(c, "write", r),
           UNCHANGED <<files, disk, ran>>,
           caller[c].answer = "executed", Earned(r),
           r.status = "Started" => ran = 0,
           record \in Records, valid(record.status, r.status)
    PROVE  IInv'
<1> USE DEF files
<1>0. "write" \in Pcs
  BY Zenon DEF Pcs
<1>1. /\ caller' \in [Callers -> CallerStates]
      /\ \A d \in Callers \ {c} : caller'[d] = caller[d]
      /\ caller'[c].pc = "write" /\ caller'[c].next = r
      /\ caller'[c].claims = caller[c].claims /\ caller'[c].seen = caller[c].seen
      /\ caller'[c].answer = caller[c].answer /\ caller'[c].hash = caller[c].hash
  BY Zenon, <1>0, PreparesEffect DEF IInv, TypeOK
<1>2. TypeOK'
  BY Zenon, <1>1 DEF IInv, TypeOK
<1>3. ClaimInv'
  BY <1>1 DEF IInv, ClaimInv
<1>4. OwnerInv'
  BY <1>1 DEF IInv, OwnerInv, Unexecuted, Executing
<1>5. RecordInv'
  BY <1>1 DEF IInv, RecordInv, Earned
<1> QED
  BY Zenon, <1>2, <1>3, <1>4, <1>5 DEF IInv

\* update_status: the next record is prepared, or the tool goes on at p.
LEMMA UpdateKeeps ==
    ASSUME IInv, NEW c \in Callers, NEW from \in Executing, NEW s \in Statuses,
           NEW i \in Bytes \cup {NoImage}, NEW p \in {"idle", "failed"},
           Update(c, from, s, i, p),
           s = "Started" => from = "begin",
           s = "Completed" => /\ from = "ran"
                              /\ Tool(c) # "batch" => i = caller[c].hash,
           p = "failed" => from = "ran"
    PROVE  IInv'
<1> DEFINE r == [request_hash |-> record.request_hash, status |-> s, post_image |-> i]
<1>1. /\ caller[c].answer = "executed"
      /\ from = "begin" => ran = 0
      /\ from = "ran" => ran = 1
  BY Zenon DEF IInv, OwnerInv, Update, At, Unexecuted
<1>2. CASE Updatable(c, s)
  <2>1. /\ record \in Records /\ record.request_hash = caller[c].hash
        /\ valid(record.status, s)
    BY Zenon, <1>2 DEF Updatable, ensure_same_hash
  <2>2. record.request_hash \in Requests
    BY Zenon, <2>1 DEF Records
  <2>3. r \in Records /\ r.status = s /\ r.post_image = i /\ r.request_hash = caller[c].hash
    BY Zenon, <2>1, <2>2, RecordTypes
  <2>4. Prepares(c, "write", r) /\ UNCHANGED <<files, disk, ran>>
    BY Zenon, <1>2 DEF Update, Prepares
  <2> HIDE DEF r
  <2>5. Earned(r)
    BY Zenon, <1>1, <2>3 DEF Earned, Tool
  <2> QED
    BY Zenon, <1>1, <2>1, <2>3, <2>4, <2>5, PreparesKeeps
<1>3. CASE ~Updatable(c, s)
  <2>1. Go(c, IF record = Corrupt THEN "quarantine" ELSE p) /\ UNCHANGED <<files, disk, ran>>
    BY Zenon, <1>3 DEF Update
  <2>2. /\ "quarantine" \in Pcs \ {"again", "unclaim", "decide", "write"}
        /\ p \in Pcs \ {"again", "unclaim", "decide", "write"}
        /\ "quarantine" \notin Executing /\ "idle" \notin Executing
    BY Zenon DEF Pcs, Executing
  <2>3. CASE record = Corrupt
    BY Zenon, <2>1, <2>2, <2>3, GoKeeps
  <2>4. CASE record # Corrupt
    BY Zenon, <1>1, <2>1, <2>2, <2>4, GoKeeps
  <2> QED
    BY Zenon, <2>3, <2>4
<1> QED
  BY Zenon, <1>2, <1>3

-----------------------------------------------------------------------------
(* Steps that change a file or execute the effect.                         *)

\* The marker is created by one caller at a time.
LEMMA TakesClaimKeeps ==
    ASSUME IInv, NEW c \in Callers, TakesClaim(c, "again", TRUE), ~marker, marker' = TRUE,
           UNCHANGED <<dir, record, disk, ran>>
    PROVE  IInv'
<1>0. "again" \in Pcs
  BY Zenon DEF Pcs
<1>1. /\ caller' \in [Callers -> CallerStates]
      /\ \A d \in Callers \ {c} : caller'[d] = caller[d]
      /\ caller'[c].pc = "again" /\ caller'[c].claims = TRUE
      /\ caller'[c].seen = caller[c].seen /\ caller'[c].next = caller[c].next
      /\ caller'[c].answer = caller[c].answer /\ caller'[c].hash = caller[c].hash
  BY Zenon, <1>0, TakesClaimEffect DEF IInv, TypeOK
<1>2. TypeOK'
  BY Zenon, <1>1 DEF IInv, TypeOK
<1>3. ClaimInv'
  BY <1>1 DEF IInv, ClaimInv
<1>4. OwnerInv'
  BY <1>1 DEF IInv, OwnerInv, Unexecuted, Executing
<1>5. RecordInv'
  BY <1>1 DEF IInv, RecordInv, Earned
<1> QED
  BY Zenon, <1>2, <1>3, <1>4, <1>5 DEF IInv

\* A claim that cannot be completed leaves its marker.
LEMMA ClaimFailsKeeps ==
    ASSUME IInv, NEW c \in Callers, ClaimFails(c)
    PROVE  IInv'
<1>1. /\ caller' \in [Callers -> CallerStates]
      /\ \A d \in Callers \ {c} : caller'[d] = caller[d]
      /\ caller'[c].pc = IF caller[c].claims THEN "unclaim" ELSE "idle"
      /\ caller'[c].claims = caller[c].claims /\ caller'[c].seen = caller[c].seen
      /\ caller'[c].next = caller[c].next /\ caller'[c].answer = "refused"
      /\ caller'[c].hash = caller[c].hash
  BY Zenon, AnsweredEffect DEF IInv, TypeOK, Answers, ClaimFails
<1>2. TypeOK'
  BY Zenon, <1>1 DEF IInv, TypeOK, ClaimFails
<1>3. ClaimInv'
  BY Zenon, <1>1 DEF IInv, ClaimInv, ClaimFails
<1>4. OwnerInv'
  BY <1>1 DEF IInv, OwnerInv, Unexecuted, Executing, ClaimFails
<1>5. RecordInv'
  BY <1>1 DEF IInv, RecordInv, Earned, ClaimFails
<1> QED
  BY Zenon, <1>2, <1>3, <1>4, <1>5 DEF IInv

\* The claimant publishes its reservation and is the owner from then on.
LEMMA RenameKeeps ==
    ASSUME IInv, NEW c \in Callers, At(c, "rename"), Answered(c, "executed"), dir' = TRUE,
           record' = reserved(caller[c].hash), UNCHANGED <<marker, disk, ran>>
    PROVE  IInv'
<1>1. /\ caller' \in [Callers -> CallerStates]
      /\ \A d \in Callers \ {c} : caller'[d] = caller[d]
      /\ caller'[c].pc = IF caller[c].claims THEN "unclaim" ELSE "idle"
      /\ caller'[c].claims = caller[c].claims /\ caller'[c].seen = caller[c].seen
      /\ caller'[c].next = caller[c].next /\ caller'[c].answer = "executed"
      /\ caller'[c].hash = caller[c].hash
  BY Zenon, AnsweredEffect DEF IInv, TypeOK, Answers
<1>a. ~dir /\ caller[c].claims /\ caller[c].hash \in Requests
  BY Zenon DEF IInv, ClaimInv, At, TypeOK, CallerStates
<1>b. /\ record' \in Records /\ record'.status = "Reserved"
      /\ \A d \in Callers : caller[d].answer # "executed" /\ caller[d].pc # "write"
      /\ ran = 0
  BY Zenon, <1>a, RecordTypes DEF IInv, OwnerInv, reserved, Statuses, Executing
<1>2. TypeOK'
  BY Zenon, <1>1, <1>a, <1>b DEF IInv, TypeOK
<1>3. ClaimInv'
  BY Zenon, <1>1, <1>a, <1>b DEF IInv, ClaimInv
<1>4. OwnerInv'
  BY <1>1, <1>a, <1>b DEF IInv, OwnerInv, Unexecuted, Executing
<1>5. RecordInv'
  BY <1>1, <1>a, <1>b DEF IInv, RecordInv, Earned
<1> QED
  BY Zenon, <1>2, <1>3, <1>4, <1>5 DEF IInv

\* What the record file holds is moved away, or stays.
LEMMA QuarantineKeeps ==
    ASSUME IInv, NEW c \in Callers, Quarantine(c)
    PROVE  IInv'
<1>1. /\ caller' \in [Callers -> CallerStates]
      /\ \A d \in Callers \ {c} : caller'[d] = caller[d]
      /\ caller'[c].pc = IF caller[c].claims THEN "unclaim" ELSE "idle"
      /\ caller'[c].claims = caller[c].claims /\ caller'[c].seen = caller[c].seen
      /\ caller'[c].next = caller[c].next /\ caller'[c].answer = "refused"
      /\ caller'[c].hash = caller[c].hash
  BY Zenon, AnsweredEffect DEF IInv, TypeOK, Answers, Quarantine
<1>2. TypeOK'
  BY Zenon, <1>1 DEF IInv, TypeOK, Quarantine
<1>3. ClaimInv'
  BY <1>1 DEF IInv, ClaimInv, Quarantine
<1>4. OwnerInv'
  BY <1>1 DEF IInv, OwnerInv, Unexecuted, Executing, Quarantine
<1>5. RecordInv'
  BY <1>1, RecordAssumption DEF IInv, RecordInv, Earned, Quarantine
<1> QED
  BY Zenon, <1>2, <1>3, <1>4, <1>5 DEF IInv

\* Only the claimant removes the marker, having given the claim up.
LEMMA UnclaimKeeps ==
    ASSUME IInv, NEW c \in Callers, Unclaim(c)
    PROVE  IInv'
<1> DEFINE p == IF caller[c].answer = "executed" THEN "begin" ELSE "idle"
<1>0. p \in Pcs /\ LeavesClaim(c, p, FALSE)
  BY Zenon DEF Pcs, Unclaim, LeavesClaim
<1>1. /\ caller' \in [Callers -> CallerStates]
      /\ \A d \in Callers \ {c} : caller'[d] = caller[d]
      /\ caller'[c].pc = p /\ caller'[c].claims = FALSE
      /\ caller'[c].seen = caller[c].seen /\ caller'[c].next = caller[c].next
      /\ caller'[c].answer = caller[c].answer /\ caller'[c].hash = caller[c].hash
  BY Zenon, <1>0, LeavesClaimEffect DEF IInv, TypeOK
<1>a. /\ marker' \in BOOLEAN /\ UNCHANGED <<dir, record, disk, ran>>
      /\ caller[c].claims /\ (caller[c].answer = "executed" => ran = 0)
  BY Zenon DEF Unclaim, At, IInv, ClaimInv, OwnerInv, Unexecuted
<1>2. TypeOK'
  BY Zenon, <1>1, <1>a DEF IInv, TypeOK
<1>3. ClaimInv'
  BY <1>1, <1>a DEF IInv, ClaimInv
<1>4. OwnerInv'
  BY <1>1, <1>a DEF IInv, OwnerInv, Unexecuted, Executing
<1>5. RecordInv'
  BY <1>1, <1>a DEF IInv, RecordInv, Earned
<1> QED
  BY Zenon, <1>2, <1>3, <1>4, <1>5 DEF IInv

\* The owner writes the record it prepared and goes on.
LEMMA WriteKeeps ==
    ASSUME IInv, NEW c \in Callers, NEW p \in {"effect", "failed", "idle"}, At(c, "write"),
           Go(c, p), record' = caller[c].next, UNCHANGED <<dir, marker, disk, ran>>,
           p = "effect" => caller[c].next.status = "Started",
           p = "failed" => caller[c].next.status = "Completed"
    PROVE  IInv'
<1>0. p \in Pcs
  BY Zenon DEF Pcs
<1>1. /\ caller' \in [Callers -> CallerStates]
      /\ \A d \in Callers \ {c} : caller'[d] = caller[d]
      /\ caller'[c].pc = p
      /\ caller'[c].claims = caller[c].claims /\ caller'[c].seen = caller[c].seen
      /\ caller'[c].next = caller[c].next /\ caller'[c].answer = caller[c].answer
      /\ caller'[c].hash = caller[c].hash
  BY Zenon, <1>0, GoEffect DEF IInv, TypeOK
<1>a. /\ caller[c].next \in Records /\ caller[c].answer = "executed" /\ dir
      /\ caller[c].next.status = "Started" => ran = 0
      /\ caller[c].next.status = "Completed" => ran = 1
  BY Zenon DEF At, IInv, RecordInv, OwnerInv, Executing, Unexecuted, Earned
<1>b. \A d \in Callers \ {c} : caller[d].pc # "write"
  BY Zenon, <1>a DEF IInv, OwnerInv, Executing
<1>2. TypeOK'
  BY Zenon, <1>1, <1>a, <1>b DEF IInv, TypeOK
<1>3. ClaimInv'
  BY <1>1, <1>a, <1>b DEF IInv, ClaimInv
<1>4. OwnerInv'
  BY SMTT(60), <1>1, <1>a, <1>b DEF IInv, OwnerInv, Unexecuted, Executing
<1>5. RecordInv'
  BY <1>1, <1>a, <1>b DEF IInv, RecordInv, Earned
<1> QED
  BY Zenon, <1>2, <1>3, <1>4, <1>5 DEF IInv

\* The effect is executed, or fails half-way, once.
LEMMA EffectKeeps ==
    ASSUME IInv, NEW c \in Callers, NEW p \in {"ran", "failed"}, At(c, "effect"), Go(c, p),
           disk' \in Bytes, ran' = ran + 1, UNCHANGED files
    PROVE  IInv'
<1>0. p \in Pcs
  BY Zenon DEF Pcs
<1>1. /\ caller' \in [Callers -> CallerStates]
      /\ \A d \in Callers \ {c} : caller'[d] = caller[d]
      /\ caller'[c].pc = p
      /\ caller'[c].claims = caller[c].claims /\ caller'[c].seen = caller[c].seen
      /\ caller'[c].next = caller[c].next /\ caller'[c].answer = caller[c].answer
      /\ caller'[c].hash = caller[c].hash
  BY Zenon, <1>0, GoEffect DEF IInv, TypeOK
<1>a. /\ ran = 0 /\ ran' = 1 /\ caller[c].answer = "executed" /\ dir
      /\ UNCHANGED <<dir, record, marker>>
  BY DEF At, IInv, OwnerInv, Executing, Unexecuted, files
<1>b. \A d \in Callers \ {c} : /\ caller[d].answer # "executed"
                               /\ caller[d].pc \notin Executing
                               /\ ~Unexecuted(caller[d])
  BY Zenon, <1>a DEF IInv, OwnerInv, Executing, Unexecuted
<1>2. TypeOK'
  BY <1>1, <1>a, <1>b DEF IInv, TypeOK
<1>3. ClaimInv'
  BY <1>1, <1>a, <1>b DEF IInv, ClaimInv
<1>4. OwnerInv'
  BY SMTT(60), <1>1, <1>a, <1>b DEF IInv, OwnerInv, Unexecuted, Executing
<1>5. RecordInv'
  BY <1>1, <1>a, <1>b DEF IInv, RecordInv, Earned
<1> QED
  BY Zenon, <1>2, <1>3, <1>4, <1>5 DEF IInv

\* Other writers and damage to the record file leave the invariant alone.
LEMMA OthersKeep ==
    ASSUME IInv, OtherWrite \/ Damage
    PROVE  IInv'
<1>1. /\ UNCHANGED <<dir, marker, caller, ran>> /\ disk' \in Bytes
      /\ record' = record \/ (record \in Records /\ record' = Corrupt)
  BY Zenon DEF OtherWrite, Damage, files, IInv, TypeOK, Bytes
<1>2. TypeOK'
  BY Zenon, <1>1, RecordAssumption, StoreAssumption DEF IInv, TypeOK
<1>3. ClaimInv'
  BY Zenon, <1>1 DEF IInv, ClaimInv
<1>4. OwnerInv'
  BY Zenon, <1>1 DEF IInv, OwnerInv, Unexecuted
<1>5. RecordInv'
  BY Zenon, <1>1, RecordAssumption DEF IInv, RecordInv, Earned
<1> QED
  BY Zenon, <1>2, <1>3, <1>4, <1>5 DEF IInv

-----------------------------------------------------------------------------
(* The inductive step, one case per action.                                *)

\* Every step of a caller keeps the invariant.
LEMMA CallerStepKeeps ==
    ASSUME IInv, NEW c \in Callers, CallerStep(c)
    PROVE  IInv'
<1> DEFINE Quiet == Pcs \ {"again", "unclaim", "decide", "write"}
<1>0. /\ caller[c] \in CallerStates /\ caller[c].hash \in Requests
      /\ disk \in Bytes /\ record \in Records \cup {NoRecord, Corrupt}
  BY Zenon DEF IInv, TypeOK, CallerStates
<1>p. /\ {"load", "claim", "wait", "quarantine", "idle"} \subseteq Quiet \ Executing
      /\ {"rename", "effect", "failed"} \subseteq Quiet
      /\ "rename" \notin Executing
  BY Zenon DEF Pcs, Executing
<1>a. {"none", "refused", "stored"} \subseteq Answers \ {"executed"}
  BY Zenon DEF Answers
<1>s. {"Started", "Completed", "Failed", "Uncertain"} \subseteq Statuses
  BY Zenon DEF Statuses
<1>e. {"begin", "ran", "failed"} \subseteq Executing
  BY Zenon DEF Executing
<1> HIDE DEF Quiet
<1>1. ASSUME NEW h \in Requests, NEW probe \in BOOLEAN, Begin(c, h, probe)
      PROVE  IInv'
  <2> DEFINE s == [Idle EXCEPT !.pc = "check", !.hash = h, !.probe = probe]
  <2>1. s \in CallerStates /\ s.pc = "check" /\ s.answer = "none" /\ s.claims = FALSE
        /\ s.seen = NoRecord /\ s.next = NoRecord
    BY Zenon DEF Idle, CallerStates, Pcs, Answers
  <2>2. caller' = [caller EXCEPT ![c] = s] /\ UNCHANGED <<files, disk, ran>>
    BY Zenon, <1>1 DEF Begin
  <2> HIDE DEF s
  <2> QED
    BY Zenon, <2>1, <2>2, ResetKeeps
<1>2. CASE Check(c)
  BY Zenon, <1>2, <1>p, <1>a, GoKeeps, AnsweredKeeps DEF Check, Quiet
<1>3. CASE Claim(c)
  <2>1. CASE marker
    BY Zenon, <1>3, <2>1, <1>p, GoKeeps DEF Claim, Quiet, files
  <2>2. CASE ~marker
    <3>1. TakesClaim(c, "again", TRUE) /\ marker' = TRUE /\ UNCHANGED <<dir, record, disk, ran>>
      BY Zenon, <1>3, <2>2 DEF Claim, TakesClaim
    <3> QED
      BY Zenon, <2>2, <3>1, TakesClaimKeeps
  <2> QED
    BY Zenon, <2>1, <2>2
<1>4. CASE ClaimFails(c)
  BY Zenon, <1>4, ClaimFailsKeeps
<1>5. CASE CheckAgain(c)
  <2>1. caller[c].claims
    BY Zenon, <1>5 DEF CheckAgain, At, IInv, ClaimInv
  <2> QED
    BY Zenon, <1>5, <2>1, <1>p, GoKeeps DEF CheckAgain, Quiet
<1>6. CASE RenameStaged(c)
  <2>1. CASE record # NoRecord
    BY Zenon, <1>6, <2>1, <1>p, GoKeeps DEF RenameStaged, Quiet, files
  <2>2. CASE record = NoRecord
    BY Zenon, <1>6, <2>2, RenameKeeps DEF RenameStaged
  <2> QED
    BY Zenon, <2>1, <2>2
<1>7. CASE RenameFails(c)
  BY Zenon, <1>7, <1>a, AnsweredKeeps DEF RenameFails
<1>8. CASE WaitForPublication(c)
  BY Zenon, <1>8, <1>p, <1>a, GoKeeps, AnsweredKeeps DEF WaitForPublication, Quiet
<1>9. CASE Load(c)
  <2>1. CASE record = Corrupt /\ Go(c, "quarantine")
    BY Zenon, <1>9, <2>1, <1>p, GoKeeps DEF Load, Quiet
  <2>2. CASE /\ record \in Records /\ ensure_same_hash(c, record)
             /\ caller' = [caller EXCEPT ![c].pc = "decide", ![c].seen = record]
    <3>1. Sees(c, "decide", record) /\ UNCHANGED <<files, disk, ran>>
      BY Zenon, <1>9, <2>2 DEF Sees, Load
    <3> QED
      BY Zenon, <2>2, <3>1, SeesKeeps
  <2>3. CASE Answered(c, "refused")
    BY Zenon, <1>9, <2>3, <1>a, AnsweredKeeps DEF Load
  <2> QED
    BY Zenon, <1>9, <2>1, <2>2, <2>3 DEF Load
<1>10. CASE Quarantine(c)
  BY <1>10, QuarantineKeeps
<1>11. CASE Unclaim(c)
  BY <1>11, UnclaimKeeps
<1>12. CASE Decide(c)
  BY Zenon, <1>12, <1>a, AnsweredKeeps DEF Decide
<1>13. CASE MarkStarted(c)
  BY Zenon, <1>13, <1>s, <1>e, UpdateKeeps DEF MarkStarted
<1>14. CASE StartEdit(c)
  <2>1. caller[c].answer = "executed" /\ ran = 0
    BY Zenon, <1>14 DEF StartEdit, At, IInv, OwnerInv, Executing, Unexecuted
  <2> QED
    BY Zenon, <1>14, <2>1, <1>p, GoKeeps DEF StartEdit, Quiet
<1>15. CASE Refuse(c)
  BY Zenon, <1>15, <1>s, <1>e, UpdateKeeps DEF Refuse
<1>16. CASE WriteRecord(c)
  BY Zenon, <1>16, WriteKeeps DEF WriteRecord
<1>17. CASE WriteFails(c)
  <2>1. /\ caller[c].answer = "executed" /\ caller[c].next \in Records
        /\ caller[c].next.status = "Completed" => ran = 1
    BY Zenon, <1>17 DEF WriteFails, At, IInv, OwnerInv, Executing, RecordInv, Earned
  <2> QED
    BY SMTT(60), <1>17, <2>1, <1>p, GoKeeps DEF WriteFails, Quiet
<1>18. CASE Effect(c)
  BY Zenon, <1>0, <1>18, EffectKeeps DEF Effect, Bytes
<1>19. CASE EffectFails(c)
  BY Zenon, <1>0, <1>19, EffectKeeps DEF EffectFails, Bytes
<1>20. CASE Complete(c)
  <2> DEFINE p == IF Tool(c) = "remediate" THEN "failed" ELSE "idle"
  <2>0. p \in {"idle", "failed"}
    BY Zenon
  <2>1. CASE /\ Tool(c) = "batch" \/ disk = caller[c].hash
             /\ Update(c, "ran", "Completed", disk, p)
    <3> HIDE DEF p
    <3> QED
      BY Zenon, <1>0, <1>s, <1>e, <2>0, <2>1, UpdateKeeps
  <2>2. CASE At(c, "ran") /\ Go(c, p) /\ UNCHANGED <<files, disk, ran>>
    <3>1. caller[c].answer = "executed" /\ ran = 1
      BY Zenon, <2>2 DEF At, IInv, OwnerInv, Executing
    <3>2. p \in Quiet /\ (p = "idle" => p \notin Executing)
      BY Zenon, <1>p
    <3> HIDE DEF p
    <3> QED
      BY Zenon, <2>0, <2>2, <3>1, <3>2, GoKeeps DEF Quiet
  <2> QED
    BY Zenon, <1>20, <2>1, <2>2 DEF Complete
<1>21. CASE RecordFailure(c)
  BY Zenon, <1>21, <1>s, <1>e, UpdateKeeps DEF RecordFailure
<1>22. CASE Crash(c)
  BY Zenon, <1>22, IdleType, ResetKeeps DEF Crash
<1> QED
  BY Zenon, <1>1, <1>2, <1>3, <1>4, <1>5, <1>6, <1>7, <1>8, <1>9, <1>10, <1>11, <1>12, <1>13,
     <1>14, <1>15, <1>16, <1>17, <1>18, <1>19, <1>20, <1>21, <1>22 DEF CallerStep

\* The invariant holds initially.
LEMMA InitKeeps == Init => IInv
<1> SUFFICES ASSUME Init PROVE IInv
  BY Zenon
<1>1. \A c \in Callers : caller[c] = Idle
  BY Zenon DEF Init
<1>2. TypeOK
  BY Zenon, <1>1, IdleType DEF Init, TypeOK, Bytes
<1>3. ClaimInv
  BY Zenon, <1>1, IdleType DEF Init, ClaimInv
<1>4. OwnerInv
  BY Zenon, <1>1, IdleType DEF Init, OwnerInv, Executing, Unexecuted
<1>5. RecordInv
  BY Zenon, <1>1, IdleType, RecordAssumption DEF Init, RecordInv, Earned
<1> QED
  BY Zenon, <1>2, <1>3, <1>4, <1>5 DEF IInv

\* Every step keeps the invariant.
LEMMA StepKeeps == IInv /\ [Next]_vars => IInv'
<1> SUFFICES ASSUME IInv, [Next]_vars PROVE IInv'
  BY Zenon
<1>1. ASSUME NEW c \in Callers, CallerStep(c) PROVE IInv'
  BY Zenon, <1>1, CallerStepKeeps
<1>2. CASE OtherWrite \/ Damage
  BY SMTT(60), <1>2, OthersKeep
<1>3. CASE UNCHANGED vars
  BY Zenon, <1>3 DEF vars, IInv, TypeOK, ClaimInv, OwnerInv, Unexecuted, RecordInv, Earned
<1> QED
  BY Zenon, <1>1, <1>2, <1>3 DEF Next, CallerStep

-----------------------------------------------------------------------------
(* Theorems.                                                               *)

\* The inductive invariant of check_or_reserve and update_status: one caller
\* holds the claim marker, one caller owns the key and knows whether it has
\* executed, and a completed record was earned.
THEOREM StoreInvariant == Spec => []IInv
BY InitKeeps, StepKeeps, PTL DEF Spec

\* The effect under an idempotency key is executed at most once.
THEOREM AtMostOnce == Spec => []ExecutesOnce
<1>1. IInv => ExecutesOnce
  BY DEF IInv, OwnerInv, ExecutesOnce
<1> QED
  BY <1>1, StoreInvariant, PTL

\* begin_tool_replay_verified replays only what was executed, for the request
\* that executed it, while the target holds its bytes.
THEOREM StoredAnswersAreEarned == Spec => ReplayIsEarned
<1>1. ASSUME IInv, [Next]_vars, NEW c \in Callers, Decide(c), caller'[c].answer = "stored"
      PROVE  ran = 1 /\ (Tool(c) # "batch" => disk = caller[c].hash)
  <2>1. caller \in [Callers -> CallerStates] /\ {"stored", "refused"} \subseteq Answers
    BY Zenon, <1>1 DEF IInv, TypeOK, Answers
  <2>2. caller'[c].answer = IF Replays(c) THEN "stored" ELSE "refused"
    BY Zenon, <1>1, <2>1, AnsweredEffect DEF Decide
  <2>3. Replays(c)
    BY Zenon, <1>1, <2>2
  <2>4. /\ caller[c].seen \in Records /\ caller[c].seen.request_hash = caller[c].hash
        /\ Earned(caller[c].seen)
    BY Zenon, <1>1 DEF Decide, At, IInv, RecordInv
  <2> QED
    BY Zenon, <2>3, <2>4 DEF Replays, Earned, Tool
<1>2. IInv /\ [Next]_vars =>
        [\A c \in Callers :
            Decide(c) /\ caller'[c].answer = "stored" =>
               /\ ran = 1
               /\ Tool(c) # "batch" => disk = caller[c].hash]_vars
  BY Zenon, <1>1
<1> QED
  BY <1>2, StoreInvariant, PTL DEF Spec, ReplayIsEarned

\* update_status never takes an operation out of the status it ended in.
THEOREM EndedRecordsStay == Spec => EndedStays
<1> DEFINE ended == {"Completed", "Failed", "Uncertain"}
<1>1. ASSUME IInv, NEW c \in Callers, CallerStep(c), record \in Records, record.status \in ended
      PROVE  record' \in {record, Corrupt, NoRecord}
  <2>1. CASE UNCHANGED record
    BY Zenon, <2>1
  <2>2. CASE RenameStaged(c)
    BY Zenon, <1>1, <2>2, RecordAssumption DEF RenameStaged
  <2>3. CASE Quarantine(c)
    BY Zenon, <2>3 DEF Quarantine
  <2>4. CASE WriteRecord(c)
    BY Zenon, <1>1, <2>4 DEF WriteRecord, At, IInv, RecordInv, valid
  <2> QED
    BY Zenon, <1>1, <2>1, <2>2, <2>3, <2>4 DEF CallerStep, Begin, Check, Claim, ClaimFails,
       CheckAgain, RenameFails, WaitForPublication, Load, Unclaim, Decide, MarkStarted,
       StartEdit, Refuse, WriteFails, Effect, EffectFails, Complete, RecordFailure, Crash,
       Update, files
<1>2. ASSUME IInv, [Next]_vars, record \in Records, record.status \in ended
      PROVE  record' \in {record, Corrupt, NoRecord}
  BY Zenon, <1>1, <1>2 DEF Next, CallerStep, OtherWrite, Damage, vars, files
<1>3. IInv /\ [Next]_vars =>
        [(record \in Records /\ record.status \in ended) =>
            record' \in {record, Corrupt, NoRecord}]_vars
  BY Zenon, <1>2
<1> QED
  BY <1>3, StoreInvariant, PTL DEF Spec, EndedStays

-----------------------------------------------------------------------------
(* The store implements the contract of an idempotency key.                *)

\* The abstract answers, and one caller being told something.
answers == [c \in Callers |-> caller[c].answer]

\* What the mapped state sees of a step of one caller.
LEMMA AnswersEffect ==
    ASSUME NEW c \in Callers, NEW a, \A d \in Callers \ {c} : caller'[d] = caller[d],
           caller'[c].answer = a
    PROVE  answers' = [answers EXCEPT ![c] = a]
BY Zenon DEF answers

\* A step of one caller that tells it nothing.
LEMMA AnswersSame ==
    ASSUME NEW c \in Callers, \A d \in Callers \ {c} : caller'[d] = caller[d],
           caller'[c].answer = caller[c].answer
    PROVE  answers' = answers
BY Zenon DEF answers

\* The steps that tell a caller nothing.
LEMMA SilentSteps ==
    ASSUME IInv, NEW c \in Callers,
           \/ \E p \in Pcs : Go(c, p)
           \/ \E p \in Pcs, v \in BOOLEAN : TakesClaim(c, p, v) \/ LeavesClaim(c, p, v)
           \/ \E p \in Pcs, v \in Records : Sees(c, p, v) \/ Prepares(c, p, v)
    PROVE  answers' = answers
BY GoEffect, TakesClaimEffect, LeavesClaimEffect, SeesEffect, PreparesEffect, AnswersSame
   DEF IInv, TypeOK

\* An update of the record tells its caller nothing.
LEMMA SilentUpdate ==
    ASSUME IInv, NEW c \in Callers, NEW from, NEW s \in Statuses,
           NEW i \in Bytes \cup {NoImage}, NEW p \in Pcs, Update(c, from, s, i, p)
    PROVE  answers' = answers /\ UNCHANGED <<dir, ran>>
<1> DEFINE r == [request_hash |-> record.request_hash, status |-> s, post_image |-> i]
<1>1. CASE Updatable(c, s)
  <2>1. record.request_hash \in Requests
    BY Zenon, <1>1 DEF Updatable, Records
  <2>2. r \in Records
    BY Zenon, <2>1, RecordTypes
  <2>3. Prepares(c, "write", r) /\ "write" \in Pcs /\ UNCHANGED <<dir, ran>>
    BY Zenon, <1>1 DEF Update, Prepares, Pcs, files
  <2> HIDE DEF r
  <2> QED
    BY Zenon, <2>2, <2>3, SilentSteps
<1>2. CASE ~Updatable(c, s)
  <2>1. /\ Go(c, IF record = Corrupt THEN "quarantine" ELSE p) /\ UNCHANGED <<dir, ran>>
        /\ (IF record = Corrupt THEN "quarantine" ELSE p) \in Pcs
    BY Zenon, <1>2 DEF Update, Pcs, files
  <2> QED
    BY Zenon, <2>1, SilentSteps
<1> QED
  BY Zenon, <1>1, <1>2

\* A step of a caller, as the contract sees it: nothing, or one of its actions.
Seen(c) ==
    \/ answers' = answers /\ UNCHANGED <<dir, ran>>
    \/ \E a \in {"none", "refused"} :
          answers' = [answers EXCEPT ![c] = a] /\ UNCHANGED <<dir, ran>>
    \/ ran = 1 /\ answers' = [answers EXCEPT ![c] = "stored"] /\ UNCHANGED <<dir, ran>>
    \/ ~dir /\ dir' = TRUE /\ answers' = [answers EXCEPT ![c] = "executed"] /\ UNCHANGED ran
    \/ answers[c] = "executed" /\ ran = 0 /\ ran' = 1 /\ answers' = answers /\ UNCHANGED dir

\* A call that ends is seen as its answer.
LEMMA AnsweredIsSeen ==
    ASSUME IInv, NEW c \in Callers, NEW a \in {"none", "refused"}, Answered(c, a),
           UNCHANGED <<dir, ran>>
    PROVE  Seen(c)
<1>1. a \in Answers /\ caller \in [Callers -> CallerStates]
  BY Zenon DEF Answers, IInv, TypeOK
<1>2. (\A d \in Callers \ {c} : caller'[d] = caller[d]) /\ caller'[c].answer = a
  BY Zenon, <1>1, AnsweredEffect
<1>3. answers' = [answers EXCEPT ![c] = a]
  BY Zenon, <1>2, AnswersEffect
<1> QED
  BY Zenon, <1>3 DEF Seen

\* A caller that starts over is seen to ask.
LEMMA ResetIsSeen ==
    ASSUME IInv, NEW c \in Callers, NEW s \in CallerStates, s.answer = "none",
           caller' = [caller EXCEPT ![c] = s], UNCHANGED <<dir, ran>>
    PROVE  Seen(c)
<1>1. (\A d \in Callers \ {c} : caller'[d] = caller[d]) /\ caller'[c].answer = "none"
  BY Zenon, ResetEffect DEF IInv, TypeOK
<1>2. answers' = [answers EXCEPT ![c] = "none"]
  BY Zenon, <1>1, AnswersEffect
<1> QED
  BY Zenon, <1>2 DEF Seen

\* A caller that only moves is not seen.
LEMMA GoIsSeen ==
    ASSUME IInv, NEW c \in Callers, NEW p \in Pcs, Go(c, p), UNCHANGED <<dir, ran>>
    PROVE  Seen(c)
BY Zenon, SilentSteps DEF Seen

\* Every step of a caller is a step of the contract, or none.
LEMMA CallerStepIsSeen ==
    ASSUME IInv, NEW c \in Callers, CallerStep(c)
    PROVE  Seen(c)
<1>0. /\ disk \in Bytes /\ caller \in [Callers -> CallerStates]
      /\ caller[c] \in CallerStates
  BY Zenon DEF IInv, TypeOK
<1>p. {"load", "claim", "wait", "quarantine", "idle", "rename", "effect", "failed", "ran",
       "begin", "again", "decide", "write"} \subseteq Pcs
  BY Zenon DEF Pcs
<1>s. {"Started", "Completed", "Failed", "Uncertain"} \subseteq Statuses
  BY Zenon DEF Statuses
<1>1. ASSUME NEW h \in Requests, NEW probe \in BOOLEAN, Begin(c, h, probe)
      PROVE  Seen(c)
  <2> DEFINE s == [Idle EXCEPT !.pc = "check", !.hash = h, !.probe = probe]
  <2>1. s \in CallerStates /\ s.answer = "none"
    BY Zenon DEF Idle, CallerStates, Pcs, Answers
  <2>2. caller' = [caller EXCEPT ![c] = s] /\ UNCHANGED <<dir, ran>>
    BY Zenon, <1>1 DEF Begin, files
  <2> HIDE DEF s
  <2> QED
    BY Zenon, <2>1, <2>2, ResetIsSeen
<1>2. CASE Check(c) \/ RenameFails(c) \/ WaitForPublication(c) \/ ClaimFails(c) \/ Quarantine(c)
  BY Zenon, <1>2, <1>p, GoIsSeen, AnsweredIsSeen
     DEF Check, RenameFails, WaitForPublication, ClaimFails, Quarantine, files
<1>3. CASE Claim(c)
  <2>1. CASE marker
    BY Zenon, <1>3, <2>1, <1>p, GoIsSeen DEF Claim
  <2>2. CASE ~marker
    <3>1. TakesClaim(c, "again", TRUE) /\ UNCHANGED <<dir, ran>>
      BY Zenon, <1>3, <2>2 DEF Claim, TakesClaim
    <3> QED
      BY Zenon, <1>p, <3>1, SilentSteps DEF Seen
  <2> QED
    BY Zenon, <2>1, <2>2
<1>4. CASE CheckAgain(c) \/ StartEdit(c) \/ WriteRecord(c) \/ WriteFails(c)
  BY Zenon, <1>4, <1>p, GoIsSeen DEF CheckAgain, StartEdit, WriteRecord, WriteFails, files
<1>5. CASE RenameStaged(c)
  <2>1. CASE record # NoRecord
    BY Zenon, <1>5, <2>1, <1>p, GoIsSeen DEF RenameStaged
  <2>2. CASE record = NoRecord
    <3>1. /\ ~dir /\ dir' = TRUE /\ ran' = ran /\ Answered(c, "executed")
          /\ "executed" \in Answers
      BY Zenon, <1>5, <2>2 DEF RenameStaged, At, IInv, ClaimInv, Answers
    <3>2. (\A d \in Callers \ {c} : caller'[d] = caller[d]) /\ caller'[c].answer = "executed"
      BY Zenon, <1>0, <3>1, AnsweredEffect
    <3> QED
      BY Zenon, <3>1, <3>2, AnswersEffect DEF Seen
  <2> QED
    BY Zenon, <2>1, <2>2
<1>6. CASE Load(c)
  <2>0. UNCHANGED <<dir, ran>>
    BY Zenon, <1>6 DEF Load, files
  <2>1. CASE Go(c, "quarantine") \/ Answered(c, "refused")
    BY Zenon, <2>0, <2>1, <1>p, GoIsSeen, AnsweredIsSeen
  <2>2. CASE record \in Records /\ Sees(c, "decide", record)
    BY Zenon, <2>0, <2>2, <1>p, SilentSteps DEF Seen
  <2> QED
    BY Zenon, <1>6, <2>1, <2>2 DEF Load, Sees
<1>7. CASE Unclaim(c)
  <2> DEFINE p == IF caller[c].answer = "executed" THEN "begin" ELSE "idle"
  <2>1. p \in Pcs /\ LeavesClaim(c, p, FALSE) /\ UNCHANGED <<dir, ran>>
    BY Zenon, <1>7, <1>p DEF Unclaim, LeavesClaim
  <2> HIDE DEF p
  <2> QED
    BY Zenon, <2>1, SilentSteps DEF Seen
<1>8. CASE Decide(c)
  <2>1. UNCHANGED <<dir, ran>> /\ Answered(c, IF Replays(c) THEN "stored" ELSE "refused")
    BY Zenon, <1>8 DEF Decide, files
  <2>2. CASE ~Replays(c)
    BY Zenon, <2>1, <2>2, AnsweredIsSeen
  <2>3. CASE Replays(c)
    <3>1. ran = 1
      BY Zenon, <1>8, <2>3 DEF Decide, At, Replays, IInv, RecordInv, Earned
    <3>2. Answered(c, "stored") /\ "stored" \in Answers
      BY Zenon, <2>1, <2>3 DEF Answers
    <3>3. (\A d \in Callers \ {c} : caller'[d] = caller[d]) /\ caller'[c].answer = "stored"
      BY Zenon, <1>0, <3>2, AnsweredEffect
    <3> QED
      BY Zenon, <2>1, <3>1, <3>3, AnswersEffect DEF Seen
  <2> QED
    BY Zenon, <2>2, <2>3
<1>9. CASE MarkStarted(c) \/ Refuse(c) \/ RecordFailure(c)
  BY Zenon, <1>9, <1>p, <1>s, SilentUpdate DEF MarkStarted, Refuse, RecordFailure, Seen
<1>10. CASE Complete(c)
  <2> DEFINE p == IF Tool(c) = "remediate" THEN "failed" ELSE "idle"
  <2>0. p \in Pcs
    BY Zenon, <1>p
  <2>1. Update(c, "ran", "Completed", disk, p) \/ (Go(c, p) /\ UNCHANGED <<dir, ran>>)
    BY Zenon, <1>10 DEF Complete, files
  <2> HIDE DEF p
  <2> QED
    BY Zenon, <1>0, <1>s, <2>0, <2>1, SilentUpdate, GoIsSeen DEF Seen
<1>11. CASE Effect(c) \/ EffectFails(c)
  <2>1. /\ ran = 0 /\ ran' = 1 /\ UNCHANGED dir /\ caller[c].answer = "executed"
        /\ Go(c, "ran") \/ Go(c, "failed")
    BY <1>11 DEF Effect, EffectFails, At, IInv, OwnerInv, Unexecuted, Executing, files
  <2>2. answers' = answers /\ answers[c] = "executed"
    BY Zenon, <1>p, <2>1, SilentSteps DEF answers
  <2> QED
    BY Zenon, <2>1, <2>2 DEF Seen
<1>12. CASE Crash(c)
  BY Zenon, <1>12, IdleType, ResetIsSeen DEF Crash, files
<1> QED
  BY Zenon, <1>1, <1>2, <1>3, <1>4, <1>5, <1>6, <1>7, <1>8, <1>9, <1>10, <1>11, <1>12 DEF CallerStep

\* The replay store implements the contract of an idempotency key.
THEOREM StoreImplementsContract == Spec => ImplementsContract
<1>1. Init => Contract!Init
  BY Zenon, IdleType DEF Init, Contract!Init
<1>2. ASSUME IInv, NEW c \in Callers, CallerStep(c)
      PROVE  [Contract!Next]_(Contract!vars)
  BY Zenon, <1>2, CallerStepIsSeen DEF Seen, answers, Contract!Next, Contract!vars, Contract!Ask,
     Contract!Take, Contract!Execute, Contract!Replay, Contract!Refuse, Contract!Tell
<1>3. IInv /\ [Next]_vars => [Contract!Next]_(Contract!vars)
  <2> SUFFICES ASSUME IInv, [Next]_vars PROVE [Contract!Next]_(Contract!vars)
    BY Zenon
  <2>1. CASE OtherWrite \/ Damage \/ UNCHANGED vars
    BY Zenon, <2>1 DEF OtherWrite, Damage, vars, files, Contract!vars
  <2> QED
    BY Zenon, <1>2, <2>1 DEF Next, CallerStep
<1> QED
  BY <1>1, <1>3, StoreInvariant, PTL DEF Spec, ImplementsContract, Contract!Spec
=============================================================================
