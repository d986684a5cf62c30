----------------------- MODULE SourceAuthorityProofs -----------------------
(***************************************************************************)
(* The safety properties of the write lane, for any number of threads,     *)
(* authorities, directories and steps.  The first lemmas list what each    *)
(* action changes, and that it keeps the types.  IInv is inductive: each   *)
(* of its conjuncts has a lemma with one step per action (the case split   *)
(* is StepCases, and each case cites the effect of its action); the        *)
(* theorems at the end read the properties off it.                         *)
(***************************************************************************)
EXTENDS SourceAuthority, TLAPS

-----------------------------------------------------------------------------
(* Types.                                                                  *)

\* The operations of the source runtime return source runtimes.
LEMMA RuntimeTypes ==
    ASSUME NEW r \in Runtimes, NEW id \in Nat, NEW token \in Nat,
           NEW binding \in Nat, NEW ended \in BOOLEAN
    PROVE  /\ current(binding, token, id) \in Runtimes
           /\ live_publication(r) \in Nat
           /\ request_mutation_grant(r, id) \in Runtimes
           /\ retire_permit(r, id) \in Runtimes
           /\ apply(r, ended, binding, token, id) \in Runtimes
  <1>1. current(binding, token, id) \in Runtimes
    BY Zenon DEF current, Runtimes, Phases
  <1>2. live_publication(r) \in Nat
    BY Zenon DEF live_publication, Runtimes, NoId
  <1>3. freeze(r, id) \in Runtimes
    BY Zenon DEF freeze, Runtimes, Phases
  <1>4. \A s \in Runtimes : record_permit(s, id) \in Runtimes
    BY Zenon DEF record_permit, Runtimes, Phases
  <1>5. request_mutation_grant(r, id) \in Runtimes
    BY Zenon, <1>3, <1>4 DEF request_mutation_grant
  <1>6. retire_permit(r, id) \in Runtimes
    BY Zenon DEF retire_permit, Runtimes, Phases
  <1>7. \A s \in Runtimes : install(s, binding, token, id) \in Runtimes
    BY Zenon DEF install, current, Runtimes, Phases
  <1>8. apply(r, ended, binding, token, id) \in Runtimes
    BY Zenon, <1>3, <1>7 DEF apply
  <1> QED
    BY Zenon, <1>1, <1>2, <1>5, <1>6, <1>8

\* for_root creates a well-typed authority and makes it the cached one.
LEMMA ForRootTypes ==
    ASSUME TypeOK, NEW a \in Authorities \ minted, for_root(a),
           revoked' \in SUBSET Nat
    PROVE  AuthorityTypes' /\ minted \subseteq minted'
  <1> USE DEF TypeOK, AuthorityTypes, for_root, NoId
  <1>1. rt' \in [Authorities -> Runtimes]
    BY Zenon, RuntimeTypes
  <1>2. lane' \in [Authorities -> [token : Nat, latched : BOOLEAN]]
    BY Zenon
  <1>3. anchor' \in [Authorities -> Dirs \cup {NoDir}]
    BY Zenon DEF PathTypes
  <1> QED
    BY <1>1, <1>2, <1>3

\* project_source_authority keeps the types and only adds authorities.
LEMMA LookupTypes ==
    ASSUME TypeOK, project_source_authority
    PROVE  AuthorityTypes' /\ minted \subseteq minted' /\ cached' \in minted'
  <1>1. CASE cached # None /\ ~Replaced
    BY Zenon, <1>1 DEF TypeOK, AuthorityTypes, project_source_authority
  <1>2. CASE cached = None \/ Replaced
    <2>1. cached # None => lease[cached] \in Nat
      BY Zenon DEF TypeOK, AuthorityTypes
    <2>3. revoked' \in SUBSET Nat
      BY Zenon, <1>2, <2>1
      DEF TypeOK, AuthorityTypes, project_source_authority, Replaced
    <2>2. PICK a \in Authorities \ minted : for_root(a)
      BY Zenon, <1>2 DEF project_source_authority
    <2> QED
      BY Zenon, <2>2, <2>3, ForRootTypes DEF for_root
  <1> QED
    BY Zenon, <1>1, <1>2

\* Releasing a thread keeps its types.
LEMMA ReleaseTypes ==
    ASSUME WriterTypes, NEW w \in Writers, Release(w), UNCHANGED minted
    PROVE  /\ pc' \in [Writers -> Pcs]
           /\ held' \in [Writers -> Authorities \cup {None}]
           /\ \A v \in Writers : pc'[v] # "idle" => held'[v] \in minted'
           /\ plan' \in [Writers -> Nat]
  BY Zenon DEF WriterTypes, Release, Pcs, NoId

\* Every step keeps the types.
LEMMA TypeStep == TypeOK /\ [Next]_vars => TypeOK'
  <1> SUFFICES ASSUME TypeOK, [Next]_vars
               PROVE  TypeOK'
    BY Zenon
  <1> USE WriteLaneAssumption DEF TypeOK, authorityVars, writerVars, historyVars
  <1>1. ASSUME NEW w \in Writers, Lookup(w)
        PROVE  TypeOK'
    <2>1. PathTypes'
      BY Zenon, <1>1 DEF Lookup, PathTypes
    <2>2. AuthorityTypes' /\ minted \subseteq minted' /\ cached' \in minted'
      BY Zenon, <1>1, LookupTypes DEF Lookup
    <2>3. WriterTypes'
      BY Zenon, <1>1, <2>2 DEF Lookup, WriterTypes, AuthorityTypes, Pcs
    <2> QED
      BY Zenon, <2>1, <2>2, <2>3
  <1>2. ASSUME NEW w \in Writers, PlanEdit(w)
        PROVE  TypeOK'
    <2>1. held[w] \in Authorities
      BY Zenon, <1>2 DEF PlanEdit, WriterTypes, AuthorityTypes
    <2>2. live_publication(rt[held[w]]) \in Nat
      BY Zenon, <2>1, RuntimeTypes DEF AuthorityTypes
    <2>3. PathTypes' /\ AuthorityTypes'
      BY Zenon, <1>2 DEF PlanEdit, PathTypes, AuthorityTypes
    <2>4. WriterTypes'
      BY Zenon, <1>2, <2>2 DEF PlanEdit, WriterTypes
    <2> QED
      BY Zenon, <2>3, <2>4
  <1>3. ASSUME NEW w \in Writers, AcquireWrite(w)
        PROVE  TypeOK'
    <2>0. held[w] \in Authorities
      BY Zenon, <1>3 DEF AcquireWrite, WriterTypes, AuthorityTypes
    <2>1. PathTypes'
      BY Zenon, <1>3 DEF AcquireWrite, Release, PathTypes
    <2>2. AuthorityTypes'
      <3>1. rt' \in [Authorities -> Runtimes]
        BY Zenon, <1>3, <2>0, RuntimeTypes DEF AcquireWrite, AuthorityTypes
      <3>2. signal' \in [Authorities -> Nat]
        BY Zenon, <1>3 DEF AcquireWrite, AuthorityTypes
      <3> QED
        BY <1>3, <3>1, <3>2 DEF AcquireWrite, AuthorityTypes
    <2>3. WriterTypes'
      <3>1. CASE IsLive(lease[held[w]]) /\ rt[held[w]].binding = lease[held[w]]
        <4>2. [frozen |-> nextId, lease |-> lease[held[w]], root |-> dir]
                 \in [frozen : Nat, lease : Nat, root : Dirs \cup {NoDir}]
          BY Zenon, <2>0 DEF AuthorityTypes, PathTypes
        <4>1. grant' \in [Writers -> [frozen : Nat, lease : Nat,
                                      root : Dirs \cup {NoDir}]]
          BY ZenonT(30), <1>3, <3>1, <4>2 DEF AcquireWrite, WriterTypes
        <4> QED
          BY Zenon, <1>3, <3>1, <4>1
          DEF AcquireWrite, WriterTypes, Pcs, PermitStates, LivePermit
      <3>2. CASE ~(/\ IsLive(lease[held[w]])
                   /\ rt[held[w]].binding = lease[held[w]])
        <4>1. Release(w) /\ UNCHANGED minted
          BY SMTT(60), <1>3, <3>2 DEF AcquireWrite
        <4> QED
          BY Zenon, <1>3, <3>2, <4>1, ReleaseTypes DEF AcquireWrite, WriterTypes
      <3> QED
        BY Zenon, <3>1, <3>2
    <2> QED
      BY Zenon, <2>1, <2>2, <2>3
  <1>4. ASSUME NEW w \in Writers, RetryAcquire(w)
        PROVE  TypeOK'
    <2>1. PathTypes'
      BY Zenon, <1>4 DEF RetryAcquire, Release, PathTypes
    <2>2. AuthorityTypes'
      BY Zenon, <1>4 DEF RetryAcquire, Release, AuthorityTypes
    <2>3. WriterTypes'
      <3>1. attempts' \in [Writers -> Nat]
        BY <1>4 DEF RetryAcquire, WriterTypes
      <3>2. CASE attempts'[w] >= MaxAttempts
        BY Zenon, <1>4, <3>1, <3>2, ReleaseTypes DEF RetryAcquire, WriterTypes
      <3>3. CASE ~(attempts'[w] >= MaxAttempts)
        BY Zenon, <1>4, <3>1, <3>3 DEF RetryAcquire, WriterTypes
      <3> QED
        BY Zenon, <3>2, <3>3
    <2> QED
      BY Zenon, <2>1, <2>2, <2>3
  <1>5. ASSUME NEW w \in Writers, RefuseStalePlan(w)
        PROVE  TypeOK'
    <2>1. PathTypes'
      BY Zenon, <1>5 DEF RefuseStalePlan, Release, PathTypes
    <2>2. AuthorityTypes'
      BY Zenon, <1>5 DEF RefuseStalePlan, Release, AuthorityTypes
    <2>3. WriterTypes'
      BY Zenon, <1>5 DEF RefuseStalePlan, Release, WriterTypes, AuthorityTypes, Pcs, PermitStates, LivePermit, NoId
    <2> QED
      BY <2>1, <2>2, <2>3
  <1>6. ASSUME NEW w \in Writers, BeginWrite(w)
        PROVE  TypeOK'
    <2>1. PathTypes'
      BY Zenon, <1>6 DEF BeginWrite, PathTypes
    <2>2. AuthorityTypes'
      BY Zenon, <1>6 DEF BeginWrite, AuthorityTypes
    <2>3. WriterTypes'
      BY Zenon, <1>6 DEF BeginWrite, WriterTypes, AuthorityTypes, Pcs, PermitStates, LivePermit, NoId
    <2> QED
      BY <2>1, <2>2, <2>3
  <1>7. ASSUME NEW w \in Writers, CheckRevoked(w)
        PROVE  TypeOK'
    <2>1. PathTypes'
      BY Zenon, <1>7 DEF CheckRevoked, PathTypes
    <2>2. AuthorityTypes'
      BY Zenon, <1>7 DEF CheckRevoked, AuthorityTypes
    <2>3. WriterTypes'
      BY Zenon, <1>7 DEF CheckRevoked, WriterTypes, AuthorityTypes, Pcs, PermitStates, LivePermit, NoId
    <2> QED
      BY <2>1, <2>2, <2>3
  <1>8. ASSUME NEW w \in Writers, AttestDelegated(w)
        PROVE  TypeOK'
    <2>1. PathTypes'
      BY Zenon, <1>8 DEF AttestDelegated, PathTypes
    <2>2. AuthorityTypes'
      BY Zenon, <1>8 DEF AttestDelegated, AuthorityTypes
    <2>3. WriterTypes'
      BY Zenon, <1>8 DEF AttestDelegated, WriterTypes, AuthorityTypes, Pcs, PermitStates, LivePermit, NoId
    <2> QED
      BY Zenon, <2>1, <2>2, <2>3
  <1>9. ASSUME NEW w \in Writers, FinishCommitted(w)
        PROVE  TypeOK'
    <2>1. PathTypes'
      BY Zenon, <1>9 DEF FinishCommitted, EndPermit, NoCut, PathTypes
    <2>2. AuthorityTypes'
      BY Zenon, <1>9 DEF FinishCommitted, EndPermit, NoCut, AuthorityTypes
    <2>3. WriterTypes'
      BY Zenon, <1>9 DEF FinishCommitted, EndPermit, NoCut, WriterTypes, AuthorityTypes, Pcs, PermitStates, LivePermit, NoId
    <2> QED
      BY <2>1, <2>2, <2>3
  <1>10. ASSUME NEW w \in Writers, FinishNoSideEffect(w)
        PROVE  TypeOK'
    <2>1. PathTypes'
      BY Zenon, <1>10 DEF FinishNoSideEffect, EndPermit, NoCut, PathTypes
    <2>2. AuthorityTypes'
      BY Zenon, <1>10 DEF FinishNoSideEffect, EndPermit, NoCut, AuthorityTypes
    <2>3. WriterTypes'
      BY Zenon, <1>10 DEF FinishNoSideEffect, EndPermit, NoCut, WriterTypes, AuthorityTypes, Pcs, PermitStates, LivePermit, NoId
    <2> QED
      BY <2>1, <2>2, <2>3
  <1>11. ASSUME NEW w \in Writers, DropWrite(w)
        PROVE  TypeOK'
    <2>1. PathTypes'
      BY Zenon, <1>11 DEF DropWrite, EndPermit, NoCut, PathTypes
    <2>2. AuthorityTypes'
      BY Zenon, <1>11 DEF DropWrite, EndPermit, NoCut, AuthorityTypes
    <2>3. WriterTypes'
      BY Zenon, <1>11 DEF DropWrite, EndPermit, NoCut, WriterTypes, AuthorityTypes, Pcs, PermitStates, LivePermit, NoId
    <2> QED
      BY <2>1, <2>2, <2>3
  <1>12. ASSUME NEW w \in Writers, Rename(w)
        PROVE  TypeOK'
    <2>1. rt[held[w]].generation \in Nat
      BY Zenon, <1>12 DEF Rename, WriterTypes, AuthorityTypes, Runtimes
    <2>2. PathTypes'
      BY Zenon, <1>12, <2>1 DEF Rename, PathTypes
    <2>3. AuthorityTypes'
      BY Zenon, <1>12 DEF Rename, AuthorityTypes
    <2>4. WriterTypes'
      BY Zenon, <1>12 DEF Rename, WriterTypes, Pcs
    <2> QED
      BY <2>2, <2>3, <2>4
  <1>13. ASSUME NEW w \in Writers, RecoverStranded(w)
        PROVE  TypeOK'
    <2>1. PathTypes'
      BY Zenon, <1>13 DEF RecoverStranded, PathTypes
    <2>2. AuthorityTypes'
      BY Zenon, <1>13 DEF RecoverStranded, AuthorityTypes
    <2>3. WriterTypes'
      BY Zenon, <1>13 DEF RecoverStranded, WriterTypes, Pcs
    <2> QED
      BY Zenon, <2>1, <2>2, <2>3
  <1>14. ASSUME NEW w \in Writers, ReturnCut(w)
        PROVE  TypeOK'
    <2>0. held[w] \in Authorities
      BY Zenon, <1>14 DEF ReturnCut, WriterTypes, AuthorityTypes
    <2>1. PathTypes'
      BY Zenon, <1>14 DEF ReturnCut, PathTypes
    <2>2. AuthorityTypes'
      BY Zenon, <1>14 DEF ReturnCut, AuthorityTypes
    <2>3. WriterTypes'
      <3>1. cut' \in [Writers -> [token : Nat, baseline : BOOLEAN,
                                  stranded : BOOLEAN]]
        BY ZenonT(60), <1>14, <2>0 DEF ReturnCut, WriterTypes, AuthorityTypes
      <3> QED
        BY Zenon, <1>14, <3>1 DEF ReturnCut, WriterTypes, Pcs
    <2> QED
      BY <2>1, <2>2, <2>3
  <1>15. ASSUME NEW w \in Writers, ReturnInstall(w)
        PROVE  TypeOK'
    <2>0. held[w] \in Authorities
      BY Zenon, <1>15 DEF ReturnInstall, WriterTypes, AuthorityTypes
    <2>1. PathTypes'
      BY Zenon, <1>15 DEF ReturnInstall, Release, PathTypes
    <2>2. rt' \in [Authorities -> Runtimes]
      <3>1. retire_permit(rt[held[w]], grant[w].frozen) \in Runtimes
        BY Zenon, <2>0, RuntimeTypes DEF AuthorityTypes, WriterTypes
      <3>2. cut[w].token \in Nat /\ has_ended(held[w]) \in BOOLEAN
        BY Zenon DEF WriterTypes, has_ended
      <3> QED
        BY Zenon, <1>15, <2>0, <3>1, <3>2, RuntimeTypes
        DEF ReturnInstall, AuthorityTypes
    <2>3. AuthorityTypes'
      <3>1. /\ revoked' \in SUBSET Nat
            /\ lease' \in [Authorities -> Nat]
            /\ nextId' \in Nat \ {0}
        <4>1. /\ nextId' = nextId + 1
              /\ revoked' \in {revoked, revoked \cup {lease[held[w]]}}
              /\ lease' \in {lease, [lease EXCEPT ![held[w]] = nextId]}
          BY Zenon, <1>15 DEF ReturnInstall
        <4>2. /\ lease[held[w]] \in Nat /\ nextId \in Nat /\ nextId + 1 \in Nat \ {0}
              /\ revoked \in SUBSET Nat /\ lease \in [Authorities -> Nat]
          BY <2>0 DEF AuthorityTypes
        <4>3. revoked' \in SUBSET Nat
          BY Zenon, <4>1, <4>2
        <4>4. lease' \in [Authorities -> Nat]
          BY Zenon, <4>1, <4>2
        <4> QED
          BY Zenon, <4>1, <4>2, <4>3, <4>4
      <3> QED
        BY Zenon, <1>15, <2>2, <3>1 DEF ReturnInstall, AuthorityTypes
    <2>4. WriterTypes'
      BY Zenon, <1>15
      DEF ReturnInstall, Release, WriterTypes, Pcs, PermitStates, NoId,
          NoGrant, NoCut
    <2> QED
      BY Zenon, <2>1, <2>3, <2>4
  <1>16. ASSUME NEW a \in minted, RegisterObserver(a) \/ ReportGap(a)
        PROVE  TypeOK'
    <2>1. PathTypes' /\ WriterTypes'
      BY Zenon, <1>16 DEF RegisterObserver, ReportGap, PathTypes, WriterTypes
    <2>2. /\ nextId' \in Nat \ {0}
          /\ lane' \in [Authorities -> [token : Nat, latched : BOOLEAN]]
      <3>1. CASE RegisterObserver(a)
        BY <3>1 DEF RegisterObserver, AuthorityTypes
      <3>2. CASE ReportGap(a)
        BY Zenon, <3>2 DEF ReportGap, AuthorityTypes
      <3> QED
        BY Zenon, <1>16, <3>1, <3>2
    <2> QED
      BY Zenon, <1>16, <2>1, <2>2 DEF RegisterObserver, ReportGap, AuthorityTypes
  <1>17. CASE ReloadObserve \/ MoveRoot
    <2>1. PathTypes'
      <3>1. CASE ReloadObserve
        BY Zenon, <3>1 DEF ReloadObserve, PathTypes
      <3>2. CASE MoveRoot
        BY <3>2 DEF MoveRoot, PathTypes
      <3> QED
        BY Zenon, <1>17, <3>1, <3>2
    <2>2. AuthorityTypes' /\ WriterTypes'
      BY <1>17 DEF ReloadObserve, MoveRoot, AuthorityTypes, WriterTypes
    <2> QED
      BY Zenon, <2>1, <2>2
  <1>18. CASE evict_project_source_authority_if_anchor_changed
    <2>1. cached # None => lease[cached] \in Nat
      BY Zenon DEF AuthorityTypes
    <2> USE DEF evict_project_source_authority_if_anchor_changed
    <2>2. PathTypes'
      BY Zenon, <1>18 DEF PathTypes
    <2>3. AuthorityTypes'
      BY Zenon, <1>18, <2>1 DEF AuthorityTypes
    <2>4. WriterTypes'
      BY Zenon, <1>18 DEF WriterTypes
    <2> QED
      BY Zenon, <2>2, <2>3, <2>4
  <1>19. CASE ReloadLookup
    BY Zenon, <1>19, LookupTypes DEF ReloadLookup, PathTypes, WriterTypes
  <1>20. CASE UNCHANGED vars
    BY Zenon, <1>20 DEF vars, PathTypes, AuthorityTypes, WriterTypes
  <1> QED
    BY Zenon, <1>1, <1>2, <1>3, <1>4, <1>5, <1>6, <1>7, <1>8, <1>9, <1>10, <1>11,
       <1>12, <1>13, <1>14, <1>15, <1>16, <1>17, <1>18, <1>19, <1>20
    DEF Next, WriterStep, Return

-----------------------------------------------------------------------------
(* Effects.                                                                *)

\* What request_mutation_grant leaves on a source with no permit recorded.
LEMMA GrantFields ==
    ASSUME NEW r \in Runtimes, NEW id \in Nat, r.outstanding = {}
    PROVE  LET g == request_mutation_grant(r, id) IN
           /\ g.phase = "Refreshing" /\ g.ever_recorded
           /\ g.outstanding = {id} /\ g.publication = id
           /\ g.generation = r.generation
  BY Zenon DEF request_mutation_grant, record_permit, freeze, Runtimes

\* The types of the variables a step may change at one place only.
LEMMA Shapes ==
    ASSUME IInv
    PROVE  /\ nextId \in Nat \ {0} /\ minted \subseteq Authorities
           /\ cached \in minted \cup {None}
           /\ rt \in [Authorities -> Runtimes]
           /\ lease \in [Authorities -> Nat]
           /\ signal \in [Authorities -> Nat]
  BY Zenon DEF IInv, TypeOK, AuthorityTypes

\* A thread's own fields, step by step.
LEMMA WriterShapes ==
    ASSUME IInv
    PROVE  /\ pc \in [Writers -> Pcs]
           /\ held \in [Writers -> Authorities \cup {None}]
           /\ permit \in [Writers -> PermitStates]
           /\ plan \in [Writers -> Nat]
           /\ \A w \in Writers : pc[w] # "idle" =>
                 held[w] \in minted /\ held[w] \in Authorities
  BY Zenon DEF IInv, TypeOK, AuthorityTypes, WriterTypes

\* The records and ghost records are functions on their whole domains.
LEMMA RecordShapes ==
    ASSUME IInv
    PROVE  /\ grant \in [Writers -> [frozen : Nat, lease : Nat,
                                     root : Dirs \cup {NoDir}]]
           /\ cut \in [Writers -> [token : Nat, baseline : BOOLEAN,
                                   stranded : BOOLEAN]]
           /\ lane \in [Authorities -> [token : Nat, latched : BOOLEAN]]
  BY Zenon DEF IInv, TypeOK, AuthorityTypes, WriterTypes

\* One more identity is used, and it is a new one.
LEMMA UsedGrows ==
    ASSUME IInv, nextId' = nextId + 1
    PROVE  /\ Used' = Used \cup {nextId} /\ nextId \notin Used
           /\ nextId \in Used' /\ Used \subseteq Used'
  <1>1. nextId \in Nat /\ nextId >= 1
    BY Shapes
  <1>2. Used' = 1 .. nextId
    BY <1>1 DEF Used
  <1>3. 1 .. nextId = (1 .. nextId - 1) \cup {nextId}
    BY <1>1
  <1> QED
    BY <1>1, <1>2, <1>3 DEF Used

-----------------------------------------------------------------------------
(* What the actions that change more than one variable do, place by place. *)

\* A lookup leaves the authorities there are alone, and creates at most one.
LEMMA LookupEffect ==
    ASSUME IInv, project_source_authority
    PROVE  /\ \A b \in minted : /\ rt'[b] = rt[b] /\ lease'[b] = lease[b]
                                /\ signal'[b] = signal[b] /\ lane'[b] = lane[b]
           /\ \/ UNCHANGED <<nextId, minted, cached, revoked, rt, lease>>
              \/ \E a \in Authorities \ minted :
                    /\ nextId' = nextId + 1
                    /\ minted' = minted \cup {a} /\ cached' = a
                    /\ \/ revoked' = revoked
                       \/ cached # None /\ revoked' = revoked \cup {lease[cached]}
                    /\ rt'[a] = current(nextId, nextId, nextId)
                    /\ \A b \in Authorities \ {a} : rt'[b] = rt[b]
                    /\ lease'[a] = nextId
  <1>1. CASE UNCHANGED <<nextId, minted, cached, revoked, rt, lease, signal,
                         lane>>
    BY Zenon, <1>1
  <1>2. ASSUME NEW a \in Authorities \ minted, for_root(a),
               revoked' = IF Replaced THEN revoked \cup {lease[cached]}
                                      ELSE revoked
        PROVE  /\ \A b \in minted :
                     /\ rt'[b] = rt[b] /\ lease'[b] = lease[b]
                     /\ signal'[b] = signal[b] /\ lane'[b] = lane[b]
               /\ nextId' = nextId + 1
               /\ minted' = minted \cup {a} /\ cached' = a
               /\ \/ revoked' = revoked
                  \/ cached # None /\ revoked' = revoked \cup {lease[cached]}
               /\ rt'[a] = current(nextId, nextId, nextId)
               /\ \A b \in Authorities \ {a} : rt'[b] = rt[b]
               /\ lease'[a] = nextId
    <2>1. /\ \A b \in minted : /\ rt'[b] = rt[b] /\ lease'[b] = lease[b]
                               /\ signal'[b] = signal[b]
          /\ rt'[a] = current(nextId, nextId, nextId)
          /\ \A b \in Authorities \ {a} : rt'[b] = rt[b]
          /\ lease'[a] = nextId
      BY Zenon, <1>2, Shapes DEF for_root
    <2>2. \A b \in minted : lane'[b] = lane[b]
      BY Zenon, <1>2, Shapes, RecordShapes DEF for_root
    <2>3. \/ revoked' = revoked
          \/ cached # None /\ revoked' = revoked \cup {lease[cached]}
      BY SMTT(60), <1>2 DEF Replaced
    <2> QED
      BY Zenon, <1>2, <2>1, <2>2, <2>3 DEF for_root
  <1> QED
    BY Zenon, <1>1, <1>2 DEF project_source_authority

\* An acquisition freezes one Current source for a permit with a new identity,
\* and either arms its thread or, when the lease was revoked, releases it.
LEMMA AcquireEffect ==
    ASSUME IInv, NEW w \in Writers, AcquireWrite(w)
    PROVE  /\ pc[w] = "held" /\ held[w] \in minted /\ held[w] \in Authorities
           /\ nextId' = nextId + 1
           /\ UNCHANGED <<minted, cached, revoked, lease, lane, cut,
                          overwritten>>
           /\ rt[held[w]].phase = "Current"
           /\ rt'[held[w]].phase = "Refreshing" /\ rt'[held[w]].ever_recorded
           /\ rt'[held[w]].outstanding = {nextId}
           /\ rt'[held[w]].publication = nextId
           /\ rt'[held[w]].generation = rt[held[w]].generation
           /\ \A b \in Authorities \ {held[w]} : /\ rt'[b] = rt[b]
                                                 /\ signal'[b] = signal[b]
           /\ \A v \in Writers \ {w} :
                 /\ pc'[v] = pc[v] /\ held'[v] = held[v]
                 /\ permit'[v] = permit[v] /\ grant'[v] = grant[v]
                 /\ plan'[v] = plan[v] /\ (v \in overtaken' <=> v \in overtaken)
           /\ \/ /\ pc'[w] = "granted" /\ held'[w] = held[w]
                 /\ permit'[w] = "Granted"
                 /\ grant'[w].frozen = nextId /\ grant'[w].lease = lease[held[w]]
                 /\ signal'[held[w]] = nextId
                 /\ plan'[w] = plan[w] /\ overtaken' = overtaken
              \/ /\ pc'[w] = "idle" /\ permit'[w] = permit[w]
                 /\ plan'[w] = NoId /\ w \notin overtaken'
  <1>1. /\ pc[w] = "held" /\ held[w] \in minted /\ held[w] \in Authorities
        /\ nextId' = nextId + 1
        /\ UNCHANGED <<minted, cached, revoked, lease, lane, cut, overwritten>>
        /\ rt[held[w]].phase = "Current"
    BY Zenon, WriterShapes DEF AcquireWrite, is_current
  <1>2. rt[held[w]].outstanding = {}
    BY SMTT(60), <1>1 DEF IInv, PhasesMatchPermits, is_current
  <1>3. /\ rt'[held[w]] = request_mutation_grant(rt[held[w]], nextId)
        /\ \A b \in Authorities \ {held[w]} : rt'[b] = rt[b]
    BY Zenon, <1>1, Shapes DEF AcquireWrite
  <1>4. rt[held[w]] \in Runtimes /\ nextId \in Nat
    BY Zenon, <1>1, Shapes
  <1>5. /\ rt'[held[w]].phase = "Refreshing" /\ rt'[held[w]].ever_recorded
        /\ rt'[held[w]].outstanding = {nextId}
        /\ rt'[held[w]].publication = nextId
        /\ rt'[held[w]].generation = rt[held[w]].generation
    BY SMTT(60), <1>2, <1>3, <1>4, GrantFields
  <1>6. CASE IsLive(lease[held[w]]) /\ rt[held[w]].binding = lease[held[w]]
    <2>1. /\ pc' = [pc EXCEPT ![w] = "granted"]
          /\ permit' = [permit EXCEPT ![w] = "Granted"]
          /\ grant' = [grant EXCEPT ![w] =
                         [frozen |-> nextId, lease |-> lease[held[w]],
                          root |-> dir]]
          /\ signal' = [signal EXCEPT ![held[w]] = nextId]
          /\ UNCHANGED <<held, plan, overtaken>>
      BY Zenon, <1>6 DEF AcquireWrite
    <2>2. /\ pc'[w] = "granted" /\ permit'[w] = "Granted"
          /\ signal'[held[w]] = nextId
          /\ \A b \in Authorities \ {held[w]} : signal'[b] = signal[b]
          /\ \A v \in Writers \ {w} : pc'[v] = pc[v] /\ permit'[v] = permit[v]
      BY Zenon, <1>1, <2>1, Shapes, WriterShapes
    <2>3. /\ grant'[w] = [frozen |-> nextId, lease |-> lease[held[w]],
                          root |-> dir]
          /\ \A v \in Writers \ {w} : grant'[v] = grant[v]
      BY Zenon, <2>1, RecordShapes
    <2> QED
      BY SMTT(60), <1>1, <1>3, <1>5, <2>1, <2>2, <2>3
  <1>7. CASE ~(/\ IsLive(lease[held[w]])
               /\ rt[held[w]].binding = lease[held[w]])
    <2>1. Release(w) /\ UNCHANGED <<permit, grant, signal>>
      BY Zenon, <1>7 DEF AcquireWrite
    <2>2. /\ pc'[w] = "idle" /\ plan'[w] = NoId /\ w \notin overtaken'
          /\ \A v \in Writers \ {w} :
                /\ pc'[v] = pc[v] /\ held'[v] = held[v] /\ plan'[v] = plan[v]
                /\ v \in overtaken' <=> v \in overtaken
      BY SMTT(60), <2>1, WriterShapes DEF Release
    <2> QED
      BY ZenonT(60), <1>1, <1>3, <1>5, <2>1, <2>2
  <1> QED
    BY SMTT(60), <1>6, <1>7

\* When a return reaches its second critical section, the signal of its
\* authority has ended: no live permit answers to the publication it froze.
LEMMA ReturnEnded ==
    ASSUME IInv, NEW w \in Writers, pc[w] = "install"
    PROVE  has_ended(held[w])
  <1> SUFFICES ASSUME NEW v \in Writers, permit[v] \in LivePermit,
                      grant[v].frozen = signal[held[w]]
               PROVE  FALSE
    BY Zenon DEF has_ended
  <1>1. pc[v] \in {"granted", "inflight", "staged", "checked"}
    BY Zenon DEF IInv, LivePermitsAreHeld
  <1>2. Holding(v) /\ Holding(w) /\ v # w
    BY Zenon, <1>1 DEF Holding, Pcs
  <1> QED
    BY SMTT(60), <1>2 DEF IInv, HolderPinsSource

\* The retired source accepts the transition.
LEMMA RetiredIsReady ==
    ASSUME IInv, NEW w \in Writers, pc[w] = "install"
    PROVE  can_apply(retire_permit(rt[held[w]], grant[w].frozen),
                     has_ended(held[w]))
  <1>1. held[w] \in Authorities /\ Holding(w)
    BY Zenon, WriterShapes DEF Holding, Pcs
  <1>2. /\ rt[held[w]] \in Runtimes
        /\ rt[held[w]].phase = "Refreshing"
        /\ rt[held[w]].outstanding = {grant[w].frozen}
    BY Zenon, <1>1, Shapes DEF IInv, HolderPinsSource
  <1> DEFINE retired == retire_permit(rt[held[w]], grant[w].frozen)
  <1>3. retired.outstanding = {} /\ can_freeze(retired)
    BY Zenon, <1>2 DEF retire_permit, can_freeze, Runtimes
  <1>4. has_ended(held[w])
    BY Zenon, ReturnEnded
  <1> QED
    BY Zenon, <1>3, <1>4 DEF can_apply

\* So a return installs its successor on a fresh lease, revokes the lease it
\* leaves, and releases its thread.
LEMMA InstallEffect ==
    ASSUME IInv, NEW w \in Writers, ReturnInstall(w)
    PROVE  /\ held[w] \in minted /\ held[w] \in Authorities /\ Holding(w)
           /\ nextId' = nextId + 1
           /\ UNCHANGED <<minted, cached, signal, lane, overwritten>>
           /\ rt'[held[w]] = current(nextId, cut[w].token, nextId)
           /\ revoked' = revoked \cup {lease[held[w]]}
           /\ lease'[held[w]] = nextId
           /\ \A b \in Authorities \ {held[w]} : /\ rt'[b] = rt[b]
                                                 /\ lease'[b] = lease[b]
           /\ \A v \in Writers \ {w} :
                 /\ pc'[v] = pc[v] /\ held'[v] = held[v]
                 /\ permit'[v] = permit[v] /\ grant'[v] = grant[v]
                 /\ plan'[v] = plan[v] /\ cut'[v] = cut[v]
                 /\ v \in overtaken' <=> v \in overtaken
           /\ pc'[w] = "idle" /\ permit'[w] = "none" /\ plan'[w] = NoId
           /\ w \notin overtaken'
  <1>1. /\ held[w] \in minted /\ held[w] \in Authorities /\ Holding(w)
        /\ pc[w] = "install"
    BY Zenon, WriterShapes DEF ReturnInstall, Holding, Pcs
  <1> DEFINE retired == retire_permit(rt[held[w]], grant[w].frozen)
             ended == has_ended(held[w])
  <1>2. can_apply(retired, ended)
    BY Zenon, <1>1, RetiredIsReady
  <1>3. apply(retired, ended, nextId, cut[w].token, nextId)
          = current(nextId, cut[w].token, nextId)
    BY Zenon, <1>2 DEF apply, install
  <1> HIDE DEF retired, ended
  <1>4. /\ rt' = [rt EXCEPT ![held[w]] =
                    apply(retired, ended, nextId, cut[w].token, nextId)]
        /\ can_apply(retired, ended) =>
              /\ revoked' = revoked \cup {lease[held[w]]}
              /\ lease' = [lease EXCEPT ![held[w]] = nextId]
    BY Zenon DEF ReturnInstall, retired, ended
  <1>5. /\ rt'[held[w]] = current(nextId, cut[w].token, nextId)
        /\ revoked' = revoked \cup {lease[held[w]]}
        /\ lease'[held[w]] = nextId
        /\ \A b \in Authorities \ {held[w]} : /\ rt'[b] = rt[b]
                                              /\ lease'[b] = lease[b]
    BY Zenon, <1>1, <1>2, <1>3, <1>4, Shapes
  <1>6. /\ nextId' = nextId + 1
        /\ UNCHANGED <<minted, cached, signal, lane, overwritten>>
        /\ Release(w)
        /\ permit' = [permit EXCEPT ![w] = "none"]
        /\ grant' = [grant EXCEPT ![w] = NoGrant]
        /\ cut' = [cut EXCEPT ![w] = NoCut]
    BY Zenon DEF ReturnInstall
  <1>7. /\ \A v \in Writers \ {w} :
              /\ pc'[v] = pc[v] /\ held'[v] = held[v]
              /\ permit'[v] = permit[v] /\ plan'[v] = plan[v]
              /\ v \in overtaken' <=> v \in overtaken
        /\ pc'[w] = "idle" /\ permit'[w] = "none" /\ plan'[w] = NoId
        /\ w \notin overtaken'
    BY Zenon, <1>6, WriterShapes DEF Release
  <1>8. \A v \in Writers \ {w} : grant'[v] = grant[v] /\ cut'[v] = cut[v]
    BY Zenon, <1>6, RecordShapes
  <1> QED
    BY Zenon, <1>1, <1>5, <1>6, <1>7, <1>8

\* A thread that gives up before it is granted anything only releases itself.
LEMMA GiveUpEffect ==
    ASSUME IInv, NEW w \in Writers, RetryAcquire(w) \/ RefuseStalePlan(w)
    PROVE  /\ UNCHANGED <<nextId, minted, cached, revoked, rt, lease, signal,
                          lane, permit, grant, cut, overwritten>>
           /\ pc[w] = "held"
           /\ \A v \in Writers \ {w} :
                 /\ pc'[v] = pc[v] /\ held'[v] = held[v] /\ plan'[v] = plan[v]
                 /\ v \in overtaken' <=> v \in overtaken
           /\ \/ UNCHANGED <<pc, held, plan, overtaken>>
              \/ pc'[w] = "idle" /\ plan'[w] = NoId /\ w \notin overtaken'
  <1>1. /\ UNCHANGED <<nextId, minted, cached, revoked, rt, lease, signal,
                       lane, permit, grant, cut, overwritten>>
        /\ pc[w] = "held"
        /\ UNCHANGED <<pc, held, plan, overtaken>> \/ Release(w)
    BY Zenon DEF RetryAcquire, RefuseStalePlan, authorityVars
  <1>2. CASE UNCHANGED <<pc, held, plan, overtaken>>
    BY Zenon, <1>1, <1>2
  <1>3. CASE Release(w)
    <2>1. /\ pc'[w] = "idle" /\ plan'[w] = NoId /\ w \notin overtaken'
          /\ \A v \in Writers \ {w} :
                /\ pc'[v] = pc[v] /\ held'[v] = held[v] /\ plan'[v] = plan[v]
                /\ v \in overtaken' <=> v \in overtaken
      BY Zenon, <1>3, WriterShapes DEF Release
    <2> QED
      BY Zenon, <1>1, <2>1
  <1> QED
    BY Zenon, <1>1, <1>2, <1>3

\* A thread that holds a permit moves through the write, its end and the first
\* half of its return without touching the source, its lease or its signal.
HoldingStep(w) ==
    \/ BeginWrite(w) \/ CheckRevoked(w) \/ Rename(w) \/ AttestDelegated(w)
    \/ FinishCommitted(w) \/ FinishNoSideEffect(w) \/ DropWrite(w)
    \/ RecoverStranded(w) \/ ReturnCut(w)

\* Such a step changes the thread that takes it and no other.
LEMMA HoldingEffect ==
    ASSUME IInv, NEW w \in Writers, HoldingStep(w)
    PROVE  /\ UNCHANGED <<nextId, minted, cached, revoked, rt, lease, signal,
                          held, grant, plan>>
           /\ pc[w] \in Pcs \ {"idle", "held"}
           /\ pc'[w] \in Pcs \ {"idle", "held", "granted"}
           /\ \A v \in Writers \ {w} : pc'[v] = pc[v] /\ permit'[v] = permit[v]
  <1>1. UNCHANGED <<nextId, minted, cached, revoked, rt, lease, signal, held,
                    grant, plan>>
    BY Zenon DEF HoldingStep, BeginWrite, CheckRevoked, Rename, AttestDelegated,
           FinishCommitted, FinishNoSideEffect, DropWrite, EndPermit,
           RecoverStranded, ReturnCut, authorityVars
  <1>2. CASE BeginWrite(w) \/ CheckRevoked(w) \/ Rename(w) \/ AttestDelegated(w)
    BY Zenon, <1>1, <1>2, WriterShapes
    DEF BeginWrite, CheckRevoked, Rename, AttestDelegated, Pcs
  <1>3. CASE FinishCommitted(w) \/ FinishNoSideEffect(w) \/ DropWrite(w)
    BY Zenon, <1>1, <1>3, WriterShapes
    DEF FinishCommitted, FinishNoSideEffect, DropWrite, EndPermit, Pcs
  <1>4. CASE RecoverStranded(w) \/ ReturnCut(w)
    BY Zenon, <1>1, <1>4, WriterShapes DEF RecoverStranded, ReturnCut, Pcs
  <1> QED
    BY Zenon, <1>2, <1>3, <1>4 DEF HoldingStep

\* Every step is one of these; the last two touch no thread and no source.
Elsewhere ==
    /\ UNCHANGED <<minted, rt, lease, signal, writerVars, historyVars>>
    /\ \/ UNCHANGED <<nextId, cached, revoked>>
       \/ nextId' = nextId + 1 /\ UNCHANGED <<cached, revoked>>
       \/ /\ UNCHANGED nextId /\ cached # None /\ cached' = None
          /\ revoked' = revoked \cup {lease[cached]}
    /\ \/ UNCHANGED lane
       \/ \E a \in minted, t \in Nat :
             \/ lane' = [lane EXCEPT ![a] = [token |-> t, latched |-> TRUE]]
             \/ lane' = [lane EXCEPT ![a].latched = TRUE]

\* The case split every step lemma of SourceAuthorityProofs starts from.
LEMMA StepCases ==
    ASSUME IInv, [Next]_vars
    PROVE  \/ \E w \in Writers :
                \/ Lookup(w) \/ PlanEdit(w) \/ AcquireWrite(w)
                \/ RetryAcquire(w) \/ RefuseStalePlan(w)
                \/ HoldingStep(w) \/ ReturnInstall(w)
           \/ ReloadLookup
           \/ Elsewhere
  <1>1. ASSUME NEW w \in Writers, WriterStep(w)
        PROVE  \/ Lookup(w) \/ PlanEdit(w) \/ AcquireWrite(w)
               \/ RetryAcquire(w) \/ RefuseStalePlan(w)
               \/ HoldingStep(w) \/ ReturnInstall(w)
    BY Zenon, <1>1 DEF WriterStep, Return, HoldingStep
  <1>2. ASSUME NEW a \in minted, RegisterObserver(a)
        PROVE  Elsewhere
    <2>1. nextId \in Nat
      BY Zenon, Shapes
    <2> QED
      BY Zenon, <1>2, <2>1 DEF RegisterObserver, Elsewhere
  <1>3. ASSUME NEW a \in minted, ReportGap(a)
        PROVE  Elsewhere
    <2>1. /\ UNCHANGED <<minted, rt, lease, signal, writerVars, historyVars>>
          /\ UNCHANGED <<nextId, cached, revoked>>
          /\ lane' = [lane EXCEPT ![a].latched = TRUE]
      BY Zenon, <1>3 DEF ReportGap
    <2>2. 0 \in Nat
      BY Zenon
    <2> QED
      BY Zenon, <2>1, <2>2 DEF Elsewhere
  <1>4. CASE ReloadObserve \/ MoveRoot \/ UNCHANGED vars
    BY Zenon, <1>4 DEF ReloadObserve, MoveRoot, vars, authorityVars, Elsewhere
  <1>5. CASE evict_project_source_authority_if_anchor_changed
    BY Zenon, <1>5
    DEF evict_project_source_authority_if_anchor_changed, authorityVars,
        Elsewhere
  <1> QED
    BY Zenon, <1>1, <1>2, <1>3, <1>4, <1>5 DEF Next
-----------------------------------------------------------------------------
(* The conjuncts that relate the sources to the threads that hold permits. *)

\* Every step uses identities at most once.
LEMMA IdentitiesStep == IInv /\ [Next]_vars => IdentitiesFresh'
  <1> SUFFICES ASSUME IInv, [Next]_vars
               PROVE  IdentitiesFresh'
    BY Zenon
  <1>0. IdentitiesFresh /\ minted \subseteq Authorities
    BY Zenon, Shapes DEF IInv
  <1>u. nextId' = nextId + 1 =>
           Used \subseteq Used' /\ nextId \in Used' /\ nextId \notin Used
    BY Zenon, UsedGrows
  <1>1. CASE UNCHANGED <<nextId, minted, cached, revoked, rt, lease,
                         overwritten>>
    BY <1>0, <1>1 DEF IdentitiesFresh, Used
  <1>2. CASE Elsewhere
    <2>1. UNCHANGED <<minted, rt, lease, overwritten>> /\ Used \subseteq Used'
      BY Zenon, <1>2, <1>u DEF Elsewhere, historyVars, Used
    <2>2. revoked' \subseteq Used /\ (cached' # None => lease[cached'] \notin revoked')
      BY Zenon, <1>0, <1>2, Shapes DEF Elsewhere, IdentitiesFresh
    <2> QED
      BY <1>0, <2>1, <2>2 DEF IdentitiesFresh
  <1>3. ASSUME project_source_authority, UNCHANGED overwritten
        PROVE  IdentitiesFresh'
    <2>1. CASE UNCHANGED <<nextId, minted, cached, revoked, rt, lease>>
      BY Zenon, <1>1, <1>3, <2>1
    <2>2. ASSUME NEW a \in Authorities \ minted,
                 nextId' = nextId + 1,
                 minted' = minted \cup {a}, cached' = a,
                 \/ revoked' = revoked
                 \/ cached # None /\ revoked' = revoked \cup {lease[cached]},
                 rt'[a] = current(nextId, nextId, nextId),
                 lease'[a] = nextId,
                 \A b \in minted : rt'[b] = rt[b] /\ lease'[b] = lease[b]
          PROVE  IdentitiesFresh'
      <3>1. rt'[a].generation = nextId /\ rt'[a].publication = nextId
        BY <2>2 DEF current
      <3>2. revoked' \subseteq Used
        BY <1>0, <2>2, Shapes DEF IdentitiesFresh
      <3>3. \A b \in minted' : /\ lease'[b] \in Used'
                               /\ rt'[b].generation \in Used'
                               /\ rt'[b].publication \in Used'
        BY <1>0, <1>u, <2>2, <3>1 DEF IdentitiesFresh
      <3>4. \A b, c \in minted' : b # c => /\ lease'[b] # lease'[c]
                                           /\ rt'[b].generation # rt'[c].generation
        BY <1>0, <1>u, <2>2, <3>1 DEF IdentitiesFresh
      <3> QED
        BY Zenon, <1>0, <1>3, <1>u, <2>2, <3>2, <3>3, <3>4 DEF IdentitiesFresh
    <2> QED
      BY Zenon, <1>3, <2>1, <2>2, LookupEffect
  <1>4. ASSUME NEW w \in Writers, AcquireWrite(w)
        PROVE  IdentitiesFresh'
    <2>1. /\ UNCHANGED <<minted, cached, revoked, lease, overwritten>>
          /\ nextId' = nextId + 1
          /\ \A b \in minted : /\ rt'[b].generation = rt[b].generation
                               /\ rt'[b].publication \in {rt[b].publication, nextId}
      BY <1>0, <1>4, AcquireEffect
    <2> QED
      BY <1>0, <1>u, <2>1 DEF IdentitiesFresh
  <1>5. ASSUME NEW w \in Writers, HoldingStep(w)
        PROVE  IdentitiesFresh'
    <2>1. UNCHANGED <<nextId, minted, cached, revoked, rt, lease>>
      BY Zenon, <1>5, HoldingEffect
    <2>2. held[w] \in minted
      BY Zenon, <1>5, HoldingEffect, WriterShapes
    <2>3. overwritten' \subseteq overwritten \cup {rt[held[w]].generation}
      BY Zenon, <1>5 DEF HoldingStep, BeginWrite, CheckRevoked, Rename,
                  AttestDelegated, FinishCommitted, FinishNoSideEffect,
                  DropWrite, EndPermit, RecoverStranded, ReturnCut, historyVars
    <2> QED
      BY <1>0, <2>1, <2>2, <2>3 DEF IdentitiesFresh, Used
  <1>6. ASSUME NEW w \in Writers, ReturnInstall(w)
        PROVE  IdentitiesFresh'
    <2>1. /\ held[w] \in minted /\ nextId' = nextId + 1
          /\ UNCHANGED <<minted, cached, overwritten>>
          /\ rt'[held[w]] = current(nextId, cut[w].token, nextId)
          /\ revoked' = revoked \cup {lease[held[w]]}
          /\ lease'[held[w]] = nextId
          /\ \A b \in minted \ {held[w]} : rt'[b] = rt[b] /\ lease'[b] = lease[b]
      BY <1>0, <1>6, InstallEffect
    <2>2. rt'[held[w]].generation = nextId /\ rt'[held[w]].publication = nextId
      BY <2>1 DEF current
    <2>3. \A b \in minted : /\ lease'[b] \in Used'
                            /\ rt'[b].generation \in Used'
                            /\ rt'[b].publication \in Used'
      BY <1>0, <1>u, <2>1, <2>2 DEF IdentitiesFresh
    <2>4. \A b, c \in minted : b # c => /\ lease'[b] # lease'[c]
                                        /\ rt'[b].generation # rt'[c].generation
      BY <1>0, <1>u, <2>1, <2>2 DEF IdentitiesFresh
    <2>5. /\ overwritten' \subseteq Used' /\ revoked' \subseteq Used'
      BY <1>0, <1>u, <2>1 DEF IdentitiesFresh
    <2>6. cached # None => lease'[cached] \notin revoked'
      BY <1>0, <1>u, <2>1, Shapes DEF IdentitiesFresh
    <2> QED
      BY Zenon, <2>1, <2>3, <2>4, <2>5, <2>6 DEF IdentitiesFresh
  <1>7. ASSUME NEW w \in Writers, Lookup(w)
        PROVE  IdentitiesFresh'
    BY Zenon, <1>3, <1>7 DEF Lookup, historyVars
  <1>8. CASE ReloadLookup
    BY Zenon, <1>3, <1>8 DEF ReloadLookup, historyVars
  <1>9. ASSUME NEW w \in Writers, PlanEdit(w)
        PROVE  IdentitiesFresh'
    BY Zenon, <1>1, <1>9 DEF PlanEdit, authorityVars, historyVars
  <1>10. ASSUME NEW w \in Writers, RetryAcquire(w) \/ RefuseStalePlan(w)
        PROVE  IdentitiesFresh'
    BY Zenon, <1>1, <1>10, GiveUpEffect
  <1> QED
    BY Zenon, <1>2, <1>4, <1>5, <1>6, <1>7, <1>8, <1>9, <1>10, StepCases

\* Every step keeps a source Current without permits, or Refreshing with one
\* recorded, and never makes an overwritten generation Current.
LEMMA PhasesStep == IInv /\ [Next]_vars => PhasesMatchPermits'
  <1> SUFFICES ASSUME IInv, [Next]_vars
               PROVE  PhasesMatchPermits'
    BY Zenon
  <1>0. PhasesMatchPermits /\ IdentitiesFresh /\ minted \subseteq Authorities
    BY Zenon, Shapes DEF IInv
  <1>1. CASE UNCHANGED <<minted, rt, overwritten>>
    BY Zenon, <1>0, <1>1 DEF PhasesMatchPermits, is_current
  <1>2. ASSUME NEW a \in Authorities, NEW t, nextId' = nextId + 1,
               minted' = minted \cup {a}, UNCHANGED overwritten,
               rt'[a] = current(nextId, t, nextId)
                 \/ rt'[a] = current(t, nextId, nextId),
               \A b \in Authorities \ {a} : rt'[b] = rt[b]
        PROVE  PhasesMatchPermits'
    <2>1. /\ rt'[a].phase = "Current" /\ rt'[a].outstanding = {}
          /\ ~rt'[a].ever_recorded /\ rt'[a].generation = nextId
      BY <1>2 DEF current
    <2>2. nextId \notin overwritten
      BY Zenon, <1>0, <1>2, UsedGrows DEF IdentitiesFresh
    <2> QED
      BY <1>0, <1>2, <2>1, <2>2 DEF PhasesMatchPermits, is_current
  <1>3. ASSUME project_source_authority, UNCHANGED overwritten
        PROVE  PhasesMatchPermits'
    BY Zenon, <1>1, <1>2, <1>3, LookupEffect
  <1>4. ASSUME NEW w \in Writers, AcquireWrite(w)
        PROVE  PhasesMatchPermits'
    <2>1. /\ UNCHANGED <<minted, overwritten>>
          /\ rt'[held[w]].phase = "Refreshing" /\ rt'[held[w]].ever_recorded
          /\ \A b \in Authorities \ {held[w]} : rt'[b] = rt[b]
      BY <1>4, AcquireEffect
    <2> QED
      BY Zenon, <1>0, <2>1 DEF PhasesMatchPermits, is_current
  <1>5. ASSUME NEW w \in Writers, HoldingStep(w)
        PROVE  PhasesMatchPermits'
    <2>1. UNCHANGED <<minted, rt>> /\ held[w] \in minted /\ Holding(w)
      BY Zenon, <1>5, HoldingEffect, WriterShapes DEF Holding
    <2>2. rt[held[w]].phase = "Refreshing"
      BY Zenon, <2>1 DEF IInv, HolderPinsSource
    <2>3. overwritten' \subseteq overwritten \cup {rt[held[w]].generation}
      BY Zenon, <1>5 DEF HoldingStep, BeginWrite, CheckRevoked, Rename,
                  AttestDelegated, FinishCommitted, FinishNoSideEffect,
                  DropWrite, EndPermit, RecoverStranded, ReturnCut, historyVars
    <2> QED
      BY Zenon, <1>0, <2>1, <2>2, <2>3
      DEF PhasesMatchPermits, is_current, IdentitiesFresh
  <1>6. ASSUME NEW w \in Writers, ReturnInstall(w)
        PROVE  PhasesMatchPermits'
    <2>1. /\ held[w] \in minted /\ held[w] \in Authorities
          /\ nextId' = nextId + 1 /\ UNCHANGED <<minted, overwritten>>
          /\ rt'[held[w]] = current(nextId, cut[w].token, nextId)
          /\ \A b \in Authorities \ {held[w]} : rt'[b] = rt[b]
      BY Zenon, <1>6, InstallEffect
    <2>2. minted' = minted \cup {held[w]}
      BY Zenon, <2>1
    <2> QED
      BY Zenon, <1>2, <2>1, <2>2
  <1>7. ASSUME NEW w \in Writers, Lookup(w)
        PROVE  PhasesMatchPermits'
    BY Zenon, <1>3, <1>7 DEF Lookup, historyVars
  <1>8. CASE ReloadLookup
    BY Zenon, <1>3, <1>8 DEF ReloadLookup, historyVars
  <1>9. CASE Elsewhere
    BY Zenon, <1>1, <1>9 DEF Elsewhere, historyVars
  <1>10. ASSUME NEW w \in Writers, PlanEdit(w)
        PROVE  PhasesMatchPermits'
    BY Zenon, <1>1, <1>10 DEF PlanEdit, authorityVars, historyVars
  <1>11. ASSUME NEW w \in Writers, RetryAcquire(w) \/ RefuseStalePlan(w)
        PROVE  PhasesMatchPermits'
    BY Zenon, <1>1, <1>11, GiveUpEffect
  <1> QED
    BY Zenon, <1>4, <1>5, <1>6, <1>7, <1>8, <1>9, <1>10, <1>11, StepCases

\* Every step ends a permit exactly when its thread takes a terminal path.
LEMMA LivePermitsStep == IInv /\ [Next]_vars => LivePermitsAreHeld'
  <1> SUFFICES ASSUME IInv, [Next]_vars
               PROVE  LivePermitsAreHeld'
    BY Zenon
  <1>0. LivePermitsAreHeld
    BY Zenon DEF IInv
  <1>1. CASE UNCHANGED <<pc, permit>>
    BY Zenon, <1>0, <1>1 DEF LivePermitsAreHeld
  <1>2. ASSUME NEW w \in Writers,
               \A v \in Writers \ {w} : pc'[v] = pc[v] /\ permit'[v] = permit[v],
               permit'[w] \in LivePermit
                  <=> pc'[w] \in {"granted", "inflight", "staged", "checked"}
        PROVE  LivePermitsAreHeld'
    BY Zenon, <1>0, <1>2 DEF LivePermitsAreHeld
  <1>3. ASSUME NEW w \in Writers, Lookup(w)
        PROVE  LivePermitsAreHeld'
    <2>1. /\ \A v \in Writers \ {w} : pc'[v] = pc[v]
          /\ pc[w] = "idle" /\ pc'[w] = "held" /\ UNCHANGED permit
      BY Zenon, <1>3, WriterShapes DEF Lookup
    <2> QED
      BY Zenon, <1>0, <1>2, <2>1 DEF LivePermitsAreHeld
  <1>4. ASSUME NEW w \in Writers, AcquireWrite(w)
        PROVE  LivePermitsAreHeld'
    <2>1. /\ \A v \in Writers \ {w} : pc'[v] = pc[v] /\ permit'[v] = permit[v]
          /\ pc[w] = "held"
          /\ \/ pc'[w] = "granted" /\ permit'[w] = "Granted"
             \/ pc'[w] = "idle" /\ permit'[w] = permit[w]
      BY <1>4, AcquireEffect
    <2> QED
      BY Zenon, <1>0, <1>2, <2>1 DEF LivePermitsAreHeld, LivePermit
  <1>5. ASSUME NEW w \in Writers, HoldingStep(w)
        PROVE  LivePermitsAreHeld'
    <2>1. \A v \in Writers \ {w} : pc'[v] = pc[v] /\ permit'[v] = permit[v]
      BY Zenon, <1>5, HoldingEffect
    <2>2. CASE BeginWrite(w)
      BY <1>0, <1>2, <2>1, <2>2, WriterShapes
      DEF BeginWrite, LivePermitsAreHeld, LivePermit
    <2>3. CASE CheckRevoked(w) \/ Rename(w) \/ AttestDelegated(w)
      BY Zenon, <1>0, <1>2, <2>1, <2>3, WriterShapes
      DEF CheckRevoked, Rename, AttestDelegated, LivePermitsAreHeld
    <2>4. CASE FinishCommitted(w) \/ FinishNoSideEffect(w) \/ DropWrite(w)
      BY <1>2, <2>1, <2>4, WriterShapes
      DEF FinishCommitted, FinishNoSideEffect, DropWrite, EndPermit, LivePermit
    <2>5. CASE RecoverStranded(w) \/ ReturnCut(w)
      BY <1>0, <1>2, <2>1, <2>5, WriterShapes
      DEF RecoverStranded, ReturnCut, LivePermitsAreHeld
    <2> QED
      BY Zenon, <1>5, <2>2, <2>3, <2>4, <2>5 DEF HoldingStep
  <1>6. ASSUME NEW w \in Writers, ReturnInstall(w)
        PROVE  LivePermitsAreHeld'
    <2>1. /\ \A v \in Writers \ {w} : pc'[v] = pc[v] /\ permit'[v] = permit[v]
          /\ pc'[w] = "idle" /\ permit'[w] = "none"
      BY Zenon, <1>6, InstallEffect
    <2> QED
      BY Zenon, <1>2, <2>1 DEF LivePermit
  <1>7. ASSUME NEW w \in Writers, RetryAcquire(w) \/ RefuseStalePlan(w)
        PROVE  LivePermitsAreHeld'
    <2>1. /\ \A v \in Writers \ {w} : pc'[v] = pc[v]
          /\ pc[w] = "held" /\ UNCHANGED permit /\ pc'[w] \in {"held", "idle"}
      BY Zenon, <1>7, GiveUpEffect
    <2> QED
      BY Zenon, <1>0, <1>2, <2>1 DEF LivePermitsAreHeld
  <1>8. CASE ReloadLookup \/ Elsewhere
    BY Zenon, <1>1, <1>8 DEF ReloadLookup, Elsewhere, writerVars
  <1>9. ASSUME NEW w \in Writers, PlanEdit(w)
        PROVE  LivePermitsAreHeld'
    BY Zenon, <1>1, <1>9 DEF PlanEdit
  <1> QED
    BY Zenon, <1>3, <1>4, <1>5, <1>6, <1>7, <1>8, <1>9, StepCases

\* Every step keeps a holder's source frozen, and watched, for its permit alone.
LEMMA HolderStep == IInv /\ [Next]_vars => HolderPinsSource'
  <1> SUFFICES ASSUME IInv, [Next]_vars
               PROVE  HolderPinsSource'
    BY Zenon
  <1>0. /\ HolderPinsSource
        /\ \A v \in Writers : Holding(v) =>
              held[v] \in minted /\ held[v] \in Authorities
    BY Zenon, WriterShapes DEF IInv, Holding
  <1>u. nextId' = nextId + 1 => Used' = Used \cup {nextId} /\ nextId \notin Used
    BY Zenon, UsedGrows
  <1>1. ASSUME UNCHANGED nextId \/ nextId' = nextId + 1,
               \A v \in Writers : Holding(v)' =>
                  /\ Holding(v) /\ held'[v] = held[v] /\ grant'[v] = grant[v]
                  /\ rt'[held[v]] = rt[held[v]]
                  /\ signal'[held[v]] = signal[held[v]]
                  /\ lease'[held[v]] = lease[held[v]]
        PROVE  HolderPinsSource'
    <2>1. Used \subseteq Used'
      BY Zenon, <1>1, <1>u DEF Used
    <2> QED
      BY <1>0, <1>1, <2>1 DEF HolderPinsSource
  <1>2. ASSUME project_source_authority, UNCHANGED grant,
               \A v \in Writers : Holding(v)' => Holding(v) /\ held'[v] = held[v]
        PROVE  HolderPinsSource'
    <2>1. /\ UNCHANGED nextId \/ nextId' = nextId + 1
          /\ \A b \in minted : /\ rt'[b] = rt[b] /\ lease'[b] = lease[b]
                               /\ signal'[b] = signal[b]
      BY Zenon, <1>2, LookupEffect
    <2> QED
      BY Zenon, <1>0, <1>1, <1>2, <2>1
  <1>3. ASSUME NEW w \in Writers, Lookup(w)
        PROVE  HolderPinsSource'
    <2>1. /\ UNCHANGED grant /\ pc'[w] = "held"
          /\ \A v \in Writers \ {w} : pc'[v] = pc[v] /\ held'[v] = held[v]
      BY Zenon, <1>3, WriterShapes DEF Lookup
    <2> QED
      BY Zenon, <1>2, <1>3, <2>1 DEF Lookup, Holding
  <1>4. ASSUME NEW w \in Writers, AcquireWrite(w)
        PROVE  HolderPinsSource'
    <2>1. /\ nextId' = nextId + 1 /\ UNCHANGED lease
          /\ rt[held[w]].phase = "Current"
          /\ rt'[held[w]].phase = "Refreshing"
          /\ rt'[held[w]].outstanding = {nextId}
          /\ \A b \in Authorities \ {held[w]} : /\ rt'[b] = rt[b]
                                                /\ signal'[b] = signal[b]
          /\ \A v \in Writers \ {w} : /\ pc'[v] = pc[v] /\ held'[v] = held[v]
                                      /\ grant'[v] = grant[v]
          /\ \/ /\ held'[w] = held[w]
                /\ grant'[w].frozen = nextId /\ grant'[w].lease = lease[held[w]]
                /\ signal'[held[w]] = nextId
             \/ pc'[w] = "idle"
      BY <1>4, AcquireEffect
    <2>2. \A v \in Writers \ {w} : Holding(v)' =>
             /\ Holding(v) /\ held'[v] = held[v] /\ grant'[v] = grant[v]
             /\ held[v] # held[w]
             /\ rt'[held[v]] = rt[held[v]]
             /\ signal'[held[v]] = signal[held[v]]
      BY <1>0, <2>1 DEF HolderPinsSource, Holding
    <2>3. CASE pc'[w] = "idle"
      BY Zenon, <1>1, <2>1, <2>2, <2>3 DEF Holding
    <2>4. CASE /\ held'[w] = held[w]
               /\ grant'[w].frozen = nextId /\ grant'[w].lease = lease[held[w]]
               /\ signal'[held[w]] = nextId
      <3>0. \A v \in Writers : Holding(v) =>
               /\ rt[held[v]].phase = "Refreshing"
               /\ rt[held[v]].outstanding = {grant[v].frozen}
               /\ signal[held[v]] = grant[v].frozen
               /\ lease[held[v]] = grant[v].lease
               /\ grant[v].frozen \in Used
        BY Zenon, <1>0 DEF HolderPinsSource
      <3>1. \A v \in Writers \ {w} : Holding(v)' =>
               /\ rt'[held'[v]].phase = "Refreshing"
               /\ rt'[held'[v]].outstanding = {grant'[v].frozen}
               /\ signal'[held'[v]] = grant'[v].frozen
               /\ lease'[held'[v]] = grant'[v].lease
               /\ grant'[v].frozen \in Used
               /\ held'[v] # held'[w]
        BY <2>1, <2>2, <2>4, <3>0
      <3>2. \A u, v \in Writers \ {w} : Holding(u)' /\ Holding(v)' /\ u # v =>
               held'[u] # held'[v] /\ grant'[u].frozen # grant'[v].frozen
        BY <1>0, <2>2 DEF HolderPinsSource
      <3>3. /\ rt'[held'[w]].phase = "Refreshing"
            /\ rt'[held'[w]].outstanding = {grant'[w].frozen}
            /\ signal'[held'[w]] = grant'[w].frozen
            /\ lease'[held'[w]] = grant'[w].lease
            /\ grant'[w].frozen \in Used' /\ grant'[w].frozen \notin Used
            /\ Used \subseteq Used'
        BY Zenon, <1>u, <2>1, <2>4
      <3> QED
        BY <3>1, <3>2, <3>3 DEF HolderPinsSource
    <2> QED
      BY Zenon, <2>1, <2>3, <2>4
  <1>5. ASSUME NEW w \in Writers, HoldingStep(w)
        PROVE  HolderPinsSource'
    <2>1. /\ UNCHANGED <<nextId, rt, lease, signal, held, grant>>
          /\ \A v \in Writers : Holding(v)' => Holding(v)
      BY Zenon, <1>5, HoldingEffect DEF Holding
    <2> QED
      BY Zenon, <1>1, <2>1
  <1>6. ASSUME NEW w \in Writers, ReturnInstall(w)
        PROVE  HolderPinsSource'
    <2>1. /\ Holding(w) /\ nextId' = nextId + 1 /\ UNCHANGED signal
          /\ \A b \in Authorities \ {held[w]} : /\ rt'[b] = rt[b]
                                                /\ lease'[b] = lease[b]
          /\ \A v \in Writers \ {w} : /\ pc'[v] = pc[v] /\ held'[v] = held[v]
                                      /\ grant'[v] = grant[v]
          /\ pc'[w] = "idle"
      BY Zenon, <1>6, InstallEffect
    <2>2. \A v \in Writers : Holding(v)' =>
             /\ Holding(v) /\ held[v] # held[w] /\ v # w
      BY Zenon, <1>0, <2>1 DEF HolderPinsSource, Holding
    <2> QED
      BY Zenon, <1>0, <1>1, <2>1, <2>2
  <1>7. ASSUME NEW w \in Writers, RetryAcquire(w) \/ RefuseStalePlan(w)
        PROVE  HolderPinsSource'
    <2>1. /\ UNCHANGED <<nextId, rt, lease, signal, grant>>
          /\ \A v \in Writers : Holding(v)' => Holding(v) /\ held'[v] = held[v]
      BY Zenon, <1>7, GiveUpEffect DEF Holding
    <2> QED
      BY Zenon, <1>1, <2>1
  <1>8. CASE ReloadLookup
    BY Zenon, <1>2, <1>8 DEF ReloadLookup, Holding, writerVars
  <1>9. CASE Elsewhere
    BY Zenon, <1>1, <1>9 DEF Elsewhere, Holding, writerVars
  <1>10. ASSUME NEW w \in Writers, PlanEdit(w)
        PROVE  HolderPinsSource'
    BY Zenon, <1>1, <1>10 DEF PlanEdit, Holding, authorityVars
  <1> QED
    BY Zenon, <1>3, <1>4, <1>5, <1>6, <1>7, <1>8, <1>9, <1>10, StepCases

(* The conjuncts about latches and plans, and the theorems.                *)

\* Every step keeps the latch of a dropped write up to the cut.
LEMMA LatchStep == IInv /\ [Next]_vars => LatchSurvives'
  <1> SUFFICES ASSUME IInv, [Next]_vars
               PROVE  LatchSurvives'
    BY Zenon
  <1>0. /\ LatchSurvives
        /\ \A v \in Writers : pc[v] \in {"cut", "install"} =>
              held[v] \in minted /\ held[v] \in Authorities /\ Holding(v)
    BY Zenon, WriterShapes DEF IInv, Holding, Pcs
  <1>1. ASSUME \A v \in Writers : pc'[v] \in {"cut", "install"} =>
                  /\ pc'[v] = pc[v] /\ held'[v] = held[v] /\ cut'[v] = cut[v]
                  /\ lane[held[v]].latched => lane'[held[v]].latched
        PROVE  LatchSurvives'
    BY Zenon, <1>0, <1>1 DEF LatchSurvives
  <1>2. ASSUME project_source_authority, UNCHANGED cut,
               \A v \in Writers : pc'[v] \in {"cut", "install"} =>
                  pc'[v] = pc[v] /\ held'[v] = held[v]
        PROVE  LatchSurvives'
    <2>1. \A b \in minted : lane'[b] = lane[b]
      BY Zenon, <1>2, LookupEffect
    <2> QED
      BY Zenon, <1>0, <1>1, <1>2, <2>1
  <1>3. ASSUME NEW w \in Writers, Lookup(w)
        PROVE  LatchSurvives'
    <2>1. /\ UNCHANGED cut /\ pc'[w] = "held"
          /\ \A v \in Writers \ {w} : pc'[v] = pc[v] /\ held'[v] = held[v]
      BY Zenon, <1>3, WriterShapes DEF Lookup
    <2> QED
      BY Zenon, <1>2, <1>3, <2>1 DEF Lookup
  <1>4. ASSUME NEW w \in Writers, AcquireWrite(w)
        PROVE  LatchSurvives'
    <2>1. /\ UNCHANGED <<lane, cut>> /\ pc'[w] \in {"granted", "idle"}
          /\ \A v \in Writers \ {w} : pc'[v] = pc[v] /\ held'[v] = held[v]
      BY <1>4, AcquireEffect
    <2> QED
      BY Zenon, <1>1, <2>1
  <1>5. ASSUME NEW w \in Writers, RetryAcquire(w) \/ RefuseStalePlan(w)
        PROVE  LatchSurvives'
    <2>1. /\ UNCHANGED <<lane, cut>> /\ pc'[w] \in {"held", "idle"}
          /\ \A v \in Writers \ {w} : pc'[v] = pc[v] /\ held'[v] = held[v]
      BY Zenon, <1>5, GiveUpEffect
    <2> QED
      BY Zenon, <1>1, <2>1
  <1>6. ASSUME NEW w \in Writers,
               BeginWrite(w) \/ CheckRevoked(w) \/ Rename(w) \/ AttestDelegated(w)
        PROVE  LatchSurvives'
    <2>1. /\ UNCHANGED <<lane, cut, held>>
          /\ pc'[w] \in {"inflight", "staged", "checked"}
          /\ \A v \in Writers \ {w} : pc'[v] = pc[v]
      BY Zenon, <1>6, WriterShapes
      DEF BeginWrite, CheckRevoked, Rename, AttestDelegated, authorityVars
    <2> QED
      BY Zenon, <1>1, <2>1
  <1>7. ASSUME NEW w \in Writers, NEW t, NEW next \in {"cut", "stranded"},
               EndPermit(w, t, next)
        PROVE  LatchSurvives'
    <2>1. /\ UNCHANGED <<lane, held>> /\ pc'[w] = next
          /\ \A v \in Writers \ {w} : pc'[v] = pc[v]
      BY Zenon, <1>7, WriterShapes DEF EndPermit, authorityVars
    <2>2. /\ cut'[w] = [NoCut EXCEPT !.stranded = (next = "stranded")]
          /\ \A v \in Writers \ {w} : cut'[v] = cut[v]
      BY Zenon, <1>7, RecordShapes DEF EndPermit
    <2>3. pc'[w] = "cut" => ~cut'[w].stranded
      BY Zenon, <2>1, <2>2 DEF NoCut
    <2>4. pc'[w] # "install"
      BY Zenon, <2>1
    <2> QED
      BY Zenon, <1>0, <2>1, <2>2, <2>3, <2>4 DEF LatchSurvives
  <1>8. ASSUME NEW w \in Writers, RecoverStranded(w)
        PROVE  LatchSurvives'
    <2>1. /\ \A v \in Writers \ {w} : pc'[v] = pc[v]
          /\ pc'[w] = "cut" /\ UNCHANGED <<cut, held>>
          /\ held[w] \in Authorities
      BY Zenon, <1>8, WriterShapes DEF RecoverStranded
    <2>2. /\ lane'[held[w]].latched
          /\ \A b \in Authorities : lane[b].latched => lane'[b].latched
      BY Zenon, <1>8, <2>1, RecordShapes DEF RecoverStranded
    <2> QED
      BY Zenon, <1>0, <2>1, <2>2 DEF LatchSurvives
  <1>9. ASSUME NEW w \in Writers, ReturnCut(w)
        PROVE  LatchSurvives'
    <2>1. /\ pc[w] = "cut" /\ pc'[w] = "install" /\ UNCHANGED held
          /\ \A v \in Writers \ {w} : pc'[v] = pc[v]
      BY Zenon, <1>9, WriterShapes DEF ReturnCut
    <2>2. \A v \in Writers \ {w} : pc[v] \in {"cut", "install"} =>
             held[v] # held[w]
      BY Zenon, <1>0, <2>1 DEF IInv, HolderPinsSource
    <2>3. /\ \A v \in Writers \ {w} : cut'[v] = cut[v]
          /\ cut'[w].baseline = lane[held[w]].latched
          /\ cut'[w].stranded = cut[w].stranded
          /\ \A b \in Authorities \ {held[w]} : lane'[b] = lane[b]
      BY <1>9, RecordShapes DEF ReturnCut
    <2> QED
      BY <1>0, <2>1, <2>2, <2>3 DEF LatchSurvives
  <1>10. ASSUME NEW w \in Writers, ReturnInstall(w)
        PROVE  LatchSurvives'
    <2>1. /\ UNCHANGED lane /\ pc'[w] = "idle"
          /\ \A v \in Writers \ {w} : /\ pc'[v] = pc[v] /\ held'[v] = held[v]
                                      /\ cut'[v] = cut[v]
      BY Zenon, <1>10, InstallEffect
    <2> QED
      BY Zenon, <1>1, <2>1
  <1>11. CASE Elsewhere
    <2>1. \A b \in Authorities : lane[b].latched => lane'[b].latched
      BY <1>11, Shapes, RecordShapes DEF Elsewhere
    <2> QED
      BY Zenon, <1>0, <1>1, <1>11, <2>1 DEF Elsewhere, writerVars
  <1>12. CASE ReloadLookup
    BY Zenon, <1>2, <1>12 DEF ReloadLookup, writerVars
  <1>13. ASSUME NEW w \in Writers, PlanEdit(w)
        PROVE  LatchSurvives'
    BY Zenon, <1>1, <1>13 DEF PlanEdit, authorityVars
  <1>14. ASSUME NEW w \in Writers, HoldingStep(w)
        PROVE  LatchSurvives'
    BY Zenon, <1>6, <1>7, <1>8, <1>9, <1>14
    DEF HoldingStep, FinishCommitted, FinishNoSideEffect, DropWrite
  <1> QED
    BY Zenon, <1>3, <1>4, <1>5, <1>10, <1>11, <1>12, <1>13, <1>14, StepCases

\* Every step keeps a plan that another write overtook from being accepted.
LEMMA PlansStep == IInv /\ [Next]_vars => PlansAge'
  <1> SUFFICES ASSUME IInv, [Next]_vars
               PROVE  PlansAge'
    BY Zenon
  <1>0. /\ PlansAge
        /\ \A v \in Writers : pc[v] = "held" =>
              held[v] \in minted /\ held[v] \in Authorities
    BY Zenon, WriterShapes DEF IInv
  <1>u. nextId' = nextId + 1 => Used \subseteq Used' /\ nextId \notin Used
    BY Zenon, UsedGrows
  <1>1. ASSUME UNCHANGED nextId \/ nextId' = nextId + 1,
               \A v \in Writers :
                  \/ /\ plan'[v] = plan[v] /\ (v \in overtaken' <=> v \in overtaken)
                     /\ pc'[v] = "idle" => pc[v] = "idle"
                     /\ pc'[v] = "granted" => pc[v] = "granted"
                     /\ pc'[v] = "held" =>
                          /\ pc[v] = "held" /\ held'[v] = held[v]
                          /\ \/ rt'[held[v]] = rt[held[v]]
                             \/ /\ rt'[held[v]].publication = nextId
                                /\ nextId' = nextId + 1
                  \/ plan'[v] = NoId /\ v \notin overtaken'
        PROVE  PlansAge'
    <2>1. Used \subseteq Used'
      BY Zenon, <1>1, <1>u DEF Used
    <2> SUFFICES ASSUME NEW v \in Writers
                 PROVE  /\ pc'[v] = "idle" => plan'[v] = NoId
                        /\ v \in overtaken' => plan'[v] # NoId
                        /\ plan'[v] # NoId =>
                              /\ plan'[v] \in Used'
                              /\ pc'[v] = "held" /\ (~is_current(held[v])' \/ v \in overtaken')
                                    => plan'[v] # rt'[held'[v]].publication
                              /\ pc'[v] = "granted" => v \notin overtaken'
      BY Zenon DEF PlansAge
    <2>2. CASE plan'[v] = NoId /\ v \notin overtaken'
      BY Zenon, <2>2
    <2>3. CASE ~(plan'[v] = NoId /\ v \notin overtaken')
      <3>1. /\ plan'[v] = plan[v] /\ (v \in overtaken' <=> v \in overtaken)
            /\ pc'[v] = "idle" => pc[v] = "idle"
            /\ pc'[v] = "granted" => pc[v] = "granted"
            /\ pc'[v] = "held" =>
                 /\ pc[v] = "held" /\ held'[v] = held[v]
                 /\ \/ rt'[held[v]] = rt[held[v]]
                    \/ rt'[held[v]].publication = nextId /\ nextId' = nextId + 1
        BY Zenon, <1>1, <2>3
      <3> QED
        BY Zenon, <1>0, <1>u, <2>1, <3>1 DEF PlansAge, is_current
    <2> QED
      BY Zenon, <2>2, <2>3
  <1>2. ASSUME project_source_authority, UNCHANGED <<plan, overtaken>>,
               \A v \in Writers :
                  \/ pc'[v] = pc[v] /\ held'[v] = held[v]
                  \/ plan[v] = NoId
        PROVE  PlansAge'
    <2>1. /\ \A b \in minted : rt'[b] = rt[b]
          /\ nextId' = nextId \/ nextId' = nextId + 1
      BY Zenon, <1>2, LookupEffect
    <2>2. \A v \in Writers : plan[v] = NoId => v \notin overtaken
      BY Zenon, <1>0 DEF PlansAge
    <2> QED
      BY Zenon, <1>0, <1>1, <1>2, <2>1, <2>2
  <1>3. ASSUME NEW w \in Writers, Lookup(w)
        PROVE  PlansAge'
    <2>1. plan[w] = NoId /\ UNCHANGED <<plan, overtaken>>
      BY Zenon, <1>0, <1>3 DEF Lookup, PlansAge, historyVars
    <2>2. \A v \in Writers \ {w} : pc'[v] = pc[v] /\ held'[v] = held[v]
      BY Zenon, <1>3, WriterShapes DEF Lookup
    <2> QED
      BY Zenon, <1>2, <1>3, <2>1, <2>2 DEF Lookup
  <1>4. ASSUME NEW w \in Writers, PlanEdit(w)
        PROVE  PlansAge'
    <2>1. /\ UNCHANGED <<pc, held, rt, overtaken, nextId>>
          /\ pc[w] = "held" /\ plan[w] = NoId /\ rt[held[w]].phase = "Current"
      BY Zenon, <1>4 DEF PlanEdit, authorityVars, historyVars, is_current
    <2>2. /\ plan'[w] = rt[held[w]].publication
          /\ \A v \in Writers \ {w} : plan'[v] = plan[v]
      BY Zenon, <1>4, <2>1, WriterShapes DEF PlanEdit, live_publication
    <2>3. plan'[w] \in Used /\ w \notin overtaken
      BY Zenon, <1>0, <2>1, <2>2 DEF IInv, IdentitiesFresh, PlansAge
    <2>4. plan'[w] # NoId
      BY <2>3, Shapes DEF Used, NoId
    <2>5. Used' = Used
      BY Zenon, <2>1 DEF Used
    <2> QED
      BY <1>0, <2>1, <2>2, <2>3, <2>4, <2>5 DEF PlansAge, is_current
  <1>5. ASSUME NEW w \in Writers, AcquireWrite(w)
        PROVE  PlansAge'
    <2>1. /\ pc[w] = "held" /\ nextId' = nextId + 1
          /\ rt[held[w]].phase = "Current"
          /\ rt'[held[w]].publication = nextId
          /\ \A b \in Authorities \ {held[w]} : rt'[b] = rt[b]
          /\ \A v \in Writers \ {w} :
                /\ pc'[v] = pc[v] /\ held'[v] = held[v] /\ plan'[v] = plan[v]
                /\ v \in overtaken' <=> v \in overtaken
          /\ \/ /\ pc'[w] = "granted"
                /\ plan'[w] = plan[w] /\ overtaken' = overtaken
             \/ plan'[w] = NoId /\ w \notin overtaken'
      BY <1>5, AcquireEffect
    <2>2. w \notin overtaken
      <3>1. plan[w] \in {NoId, rt[held[w]].publication}
        BY Zenon, <1>5, <2>1 DEF AcquireWrite, PlanStillCurrent, live_publication
      <3> QED
        BY Zenon, <1>0, <2>1, <3>1 DEF PlansAge
    <2>3. plan[w] # NoId => plan[w] \in Used
      BY Zenon, <1>0 DEF PlansAge
    <2>4. \A v \in Writers \ {w} :
             /\ pc'[v] = "idle" => plan'[v] = NoId
             /\ v \in overtaken' => plan'[v] # NoId
             /\ plan'[v] # NoId =>
                   /\ plan'[v] \in Used'
                   /\ pc'[v] = "held" /\ (~is_current(held[v])' \/ v \in overtaken')
                         => plan'[v] # rt'[held'[v]].publication
                   /\ pc'[v] = "granted" => v \notin overtaken'
      <3> SUFFICES ASSUME NEW v \in Writers \ {w}
                   PROVE  /\ pc'[v] = "idle" => plan'[v] = NoId
                          /\ v \in overtaken' => plan'[v] # NoId
                          /\ plan'[v] # NoId =>
                                /\ plan'[v] \in Used'
                                /\ pc'[v] = "held" /\ (~is_current(held[v])' \/ v \in overtaken')
                                      => plan'[v] # rt'[held'[v]].publication
                                /\ pc'[v] = "granted" => v \notin overtaken'
        BY Zenon
      <3>1. CASE held[v] = held[w]
        BY <1>0, <1>u, <2>1, <3>1 DEF PlansAge
      <3>2. CASE held[v] # held[w]
        BY <1>0, <1>u, <2>1, <3>2 DEF PlansAge, is_current
      <3> QED
        BY Zenon, <3>1, <3>2
    <2>5. /\ pc'[w] = "idle" => plan'[w] = NoId
          /\ w \in overtaken' => plan'[w] # NoId
          /\ plan'[w] # NoId => /\ plan'[w] \in Used'
                                /\ pc'[w] # "held" /\ w \notin overtaken'
      BY Zenon, <1>u, <2>1, <2>2, <2>3
    <2> QED
      BY Zenon, <2>4, <2>5 DEF PlansAge
  <1>6. ASSUME NEW w \in Writers, HoldingStep(w)
        PROVE  PlansAge'
    <2>1. /\ UNCHANGED <<nextId, rt, held, plan>>
          /\ \A v \in Writers \ {w} : pc'[v] = pc[v]
          /\ pc[w] \in Pcs \ {"idle", "held"}
          /\ pc'[w] \in Pcs \ {"idle", "held", "granted"}
      BY Zenon, <1>6, HoldingEffect
    <2>2. CASE Rename(w)
      <3>1. Holding(w) /\ ~is_current(held[w])
        BY Zenon, <2>1 DEF Holding, IInv, HolderPinsSource, is_current
      <3>2. \/ UNCHANGED overtaken
            \/ overtaken' = overtaken \cup
                 {v \in Writers \ {w} : held[v] = held[w] /\ plan[v] # NoId}
        BY Zenon, <2>2 DEF Rename, historyVars
      <3>3. \A v \in Writers \ {w} : pc[v] = "granted" => held[v] # held[w]
        BY Zenon, <3>1 DEF IInv, HolderPinsSource, Holding, Pcs
      <3>4. \A v \in Writers : v \in overtaken' =>
               \/ v \in overtaken
               \/ held[v] = held[w] /\ plan[v] # NoId /\ v # w
        BY Zenon, <3>2
      <3>5. Used' = Used
        BY Zenon, <2>1 DEF Used
      <3> QED
        BY <1>0, <2>1, <3>1, <3>3, <3>4, <3>5 DEF PlansAge, is_current
    <2>3. CASE ~Rename(w)
      <3>1. UNCHANGED overtaken
        BY Zenon, <1>6, <2>3
        DEF HoldingStep, BeginWrite, CheckRevoked, AttestDelegated,
            FinishCommitted, FinishNoSideEffect, DropWrite, EndPermit,
            RecoverStranded, ReturnCut, historyVars
      <3> QED
        BY Zenon, <1>1, <2>1, <3>1
    <2> QED
      BY Zenon, <2>2, <2>3
  <1>7. ASSUME NEW w \in Writers, ReturnInstall(w)
        PROVE  PlansAge'
    <2>1. /\ nextId' = nextId + 1
          /\ rt'[held[w]] = current(nextId, cut[w].token, nextId)
          /\ \A b \in Authorities \ {held[w]} : rt'[b] = rt[b]
          /\ \A v \in Writers \ {w} :
                /\ pc'[v] = pc[v] /\ held'[v] = held[v] /\ plan'[v] = plan[v]
                /\ v \in overtaken' <=> v \in overtaken
          /\ plan'[w] = NoId /\ w \notin overtaken'
      BY <1>7, InstallEffect
    <2>2. rt'[held[w]].publication = nextId
      BY <2>1 DEF current
    <2>3. \A v \in Writers : pc[v] = "held" =>
             rt'[held[v]] = rt[held[v]] \/ rt'[held[v]].publication = nextId
      BY Zenon, <1>0, <2>1, <2>2
    <2> QED
      BY <1>1, <2>1, <2>3
  <1>8. ASSUME NEW w \in Writers, RetryAcquire(w) \/ RefuseStalePlan(w)
        PROVE  PlansAge'
    <2>1. /\ UNCHANGED <<nextId, rt>>
          /\ \A v \in Writers \ {w} :
                /\ pc'[v] = pc[v] /\ held'[v] = held[v] /\ plan'[v] = plan[v]
                /\ v \in overtaken' <=> v \in overtaken
          /\ \/ UNCHANGED <<pc, held, plan, overtaken>>
             \/ plan'[w] = NoId /\ w \notin overtaken'
      BY Zenon, <1>8, GiveUpEffect
    <2> QED
      BY Zenon, <1>1, <2>1
  <1>9. CASE ReloadLookup
    BY Zenon, <1>2, <1>9 DEF ReloadLookup, writerVars, historyVars
  <1>10. CASE Elsewhere
    BY Zenon, <1>1, <1>10 DEF Elsewhere, writerVars, historyVars
  <1> QED
    BY Zenon, <1>3, <1>4, <1>5, <1>6, <1>7, <1>8, <1>9, <1>10, StepCases

\* No authority, permit or plan exists when the process starts.
LEMMA InitIInv == Init => IInv
  <1> SUFFICES ASSUME Init PROVE IInv
    BY Zenon
  <1>1. TypeOK
    BY WriteLaneAssumption
    DEF Init, TypeOK, PathTypes, AuthorityTypes, WriterTypes, Runtimes, Phases,
        current, Pcs, PermitStates, LivePermit, NoGrant, NoCut, NoId
  <1>2. IdentitiesFresh /\ PhasesMatchPermits
    BY Zenon DEF Init, IdentitiesFresh, PhasesMatchPermits, is_current, current
  <1>3. LivePermitsAreHeld /\ HolderPinsSource /\ LatchSurvives /\ PlansAge
    BY Zenon DEF Init, LivePermitsAreHeld, LivePermit, HolderPinsSource, Holding,
           LatchSurvives, PlansAge
  <1> QED
    BY Zenon, <1>1, <1>2, <1>3 DEF IInv

\* The inductive invariant of the write lane: whatever the threads, the index
\* reloads, the observers and the file system do, for any number of writers,
\* authorities and directories.
THEOREM WriteLaneInvariant == Spec => []IInv
  <1>1. IInv /\ [Next]_vars => IInv'
    BY Zenon, TypeStep, IdentitiesStep, PhasesStep, LivePermitsStep, HolderStep,
       LatchStep, PlansStep
    DEF IInv
  <1> QED
    BY InitIInv, <1>1, PTL DEF Spec

\* Every variable of the write lane keeps its type.
THEOREM TypeCorrect == Spec => []TypeOK
  <1>1. IInv => TypeOK
    BY Zenon DEF IInv
  <1> QED
    BY WriteLaneInvariant, <1>1, PTL

\* acquire_write never has two threads inside one authority's write permit.
THEOREM OneWriterPerAuthority == Spec => []SingleWriter
  <1>1. IInv => SingleWriter
    BY Zenon DEF IInv, HolderPinsSource, SingleWriter
  <1> QED
    BY WriteLaneInvariant, <1>1, PTL

\* From the grant to the end of return_to_current no generation is queryable.
THEOREM ReadsClosedWhileWriting == Spec => []ClosedWhileWriting
  <1>1. IInv => ClosedWhileWriting
    <2> SUFFICES ASSUME IInv, NEW w \in Writers, Holding(w)
                 PROVE  Serves(held[w]) = NoId
      BY Zenon DEF ClosedWhileWriting
    <2>1. held[w] \in Authorities /\ rt[held[w]].phase = "Refreshing"
      BY Zenon DEF IInv, TypeOK, WriterTypes, AuthorityTypes, Holding,
             HolderPinsSource
    <2>2. rt[held[w]].ever_recorded
      BY Zenon, <2>1 DEF IInv, PhasesMatchPermits, is_current
    <2> QED
      BY Zenon, <2>1, <2>2 DEF Serves, queryable_generation
  <1> QED
    BY WriteLaneInvariant, <1>1, PTL

\* A generation whose bytes a permit replaced is never served again.
THEOREM NoPriorPublication == Spec => []OverwrittenNeverServed
  <1>1. IInv => OverwrittenNeverServed
    <2> SUFFICES ASSUME IInv, NEW a \in minted
                 PROVE  Serves(a) \notin overwritten
      BY Zenon DEF OverwrittenNeverServed
    <2>1. a \in Authorities /\ NoId \notin overwritten
      BY DEF IInv, TypeOK, AuthorityTypes, IdentitiesFresh, Used, NoId
    <2> QED
      BY Zenon, <2>1 DEF Serves, queryable_generation, IInv, PhasesMatchPermits,
                  is_current
  <1> QED
    BY WriteLaneInvariant, <1>1, PTL

\* The transition return_to_current applies is never refused.
THEOREM ReturnSucceeds == Spec => []ReturnNeverRefused
  <1>1. IInv => ReturnNeverRefused
    BY Zenon, RetiredIsReady DEF ReturnNeverRefused
  <1> QED
    BY WriteLaneInvariant, <1>1, PTL

\* An edit granted against an expected publication was not overtaken.
THEOREM GrantedPlansAreFresh == Spec => []PlannedEditIsFresh
  <1>1. IInv => PlannedEditIsFresh
    BY Zenon DEF IInv, PlansAge, PlannedEditIsFresh
  <1> QED
    BY WriteLaneInvariant, <1>1, PTL

\* A dropped write authority always returns under a full-baseline cut.
THEOREM DropForcesBaseline == Spec => []StrandedReturnsUnderBaseline
  <1>1. IInv => StrandedReturnsUnderBaseline
    BY Zenon DEF IInv, LatchSurvives, StrandedReturnsUnderBaseline
  <1> QED
    BY WriteLaneInvariant, <1>1, PTL

\* A permit's lease stays installed, and live while its authority is cached.
THEOREM PinnedLeaseStays == Spec => []LeaseOutlivesPermit
  <1>1. IInv => LeaseOutlivesPermit
    <2> SUFFICES ASSUME IInv, NEW w \in Writers, Holding(w)
                 PROVE  /\ lease[held[w]] = grant[w].lease
                        /\ IsLive(grant[w].lease) \/ cached # held[w]
      BY Zenon DEF LeaseOutlivesPermit
    <2>1. lease[held[w]] = grant[w].lease /\ held[w] \in minted
      BY Zenon DEF IInv, HolderPinsSource, TypeOK, WriterTypes, Holding
    <2>2. held[w] # None
      BY Zenon, <2>1, WriteLaneAssumption DEF IInv, TypeOK, AuthorityTypes
    <2> QED
      BY Zenon, <2>1, <2>2 DEF IInv, IdentitiesFresh, IsLive
  <1> QED
    BY WriteLaneInvariant, <1>1, PTL
=============================================================================
