------------------------ MODULE DaemonSessionsProofs ------------------------
(***************************************************************************)
(* The safety properties of the daemon's sessions and project slots, for   *)
(* any sessions, projects and number of loads.  IInv is inductive.  Most   *)
(* conjuncts are about a few fields of the state, so a first group of      *)
(* lemmas says which changes keep each of them; then one lemma per action  *)
(* gives its effect on the fields and cites those.                         *)
(***************************************************************************)
EXTENDS DaemonSessions, TLAPS

-----------------------------------------------------------------------------
(* Types of the fields.                                                    *)

\* The fields of an operation, a slot and a session record.
LEMMA Fields ==
    ASSUME TypeOK
    PROVE  /\ \A s \in Sessions :
                 /\ op[s] \in Operations /\ op[s].pc \in Pcs
                 /\ op[s].kind \in {"none", "open", "index"}
                 /\ op[s].project \in Projects \cup {NoOne}
                 /\ op[s].slot \in Slots \cup {0} /\ op[s].adm \in Slots \cup {0}
                 /\ op[s].leader \in Sessions \cup {NoOne}
                 /\ op[s].outcome \in {"none", "pending", "ok", "err"}
           /\ \A n \in Slots :
                 /\ slot[n] \in SlotRecords /\ slot[n].members \subseteq Sessions
                 /\ slot[n].lock \in Sessions \cup {NoOne}
                 /\ slot[n].project \in Projects \cup {NoOne}
           /\ \A s \in Sessions :
                 /\ sessions[s] \in SessionRecords
                 /\ sessions[s].at \in {"none", "open", "closing", "closed"}
                 /\ sessions[s].server \in [Projects -> Slots \cup {0}]
           /\ \A p \in Projects :
                 /\ projects[p] \in Slots \cup {0} /\ occupancy[p] \in Slots \cup {0}
                 /\ flights[p] \in Sessions \cup {NoOne}
           /\ 0 \notin Slots
  BY DEF TypeOK, Operations, SlotRecords, SessionRecords, Slots

\* An operation is replaced.
LEMMA GoEffect ==
    ASSUME TypeOK, NEW s \in Sessions, NEW o \in Operations, Go(s, o)
    PROVE  /\ op' \in [Sessions -> Operations] /\ op'[s] = o
           /\ \A t \in Sessions \ {s} : op'[t] = op[t]
  BY Zenon DEF TypeOK, Go

\* An operation goes to its next step.
LEMMA StepEffect ==
    ASSUME TypeOK, NEW s \in Sessions, NEW pc \in Pcs, Step(s, pc)
    PROVE  /\ op' \in [Sessions -> Operations]
           /\ op'[s].pc = pc /\ op'[s].kind = op[s].kind
           /\ op'[s].project = op[s].project /\ op'[s].slot = op[s].slot
           /\ op'[s].adm = op[s].adm /\ op'[s].leader = op[s].leader
           /\ op'[s].outcome = op[s].outcome
           /\ \A t \in Sessions \ {s} : op'[t] = op[t]
  <1>1. op[s] \in Operations
    BY Zenon, Fields
  <1>2. [op[s] EXCEPT !.pc = pc] \in Operations
    BY Zenon, <1>1 DEF Operations
  <1>3. /\ op' \in [Sessions -> Operations]
        /\ op'[s] = [op[s] EXCEPT !.pc = pc]
        /\ \A t \in Sessions \ {s} : op'[t] = op[t]
    BY Zenon, <1>2, GoEffect DEF Step
  <1> QED
    BY Zenon, <1>1, <1>3 DEF Operations

\* An operation returns.
LEMMA ReturnEffect ==
    ASSUME TypeOK, NEW s \in Sessions, Return(s)
    PROVE  /\ op' \in [Sessions -> Operations]
           /\ op'[s] = NoOp /\ op'[s].pc = "idle" /\ op'[s].kind = "none"
           /\ \A t \in Sessions \ {s} : op'[t] = op[t]
  <1>1. NoOp \in Operations
    BY Zenon DEF NoOp, Operations, Pcs
  <1> QED
    BY <1>1, GoEffect DEF Return, NoOp

\* A session joins a slot.
LEMMA JoinedEffect ==
    ASSUME TypeOK, NEW s \in Sessions, NEW n \in Slots, Joined(n, s)
    PROVE  /\ slot' \in [Slots -> SlotRecords]
           /\ slot'[n].members = slot[n].members \cup {s}
           /\ \A m \in Slots \ {n} : slot'[m] = slot[m]
           /\ \A m \in Slots : slot'[m] = [slot[m] EXCEPT !.members = slot'[m].members]
  <1>1. slot[n] \in SlotRecords /\ slot \in [Slots -> SlotRecords]
    BY Zenon DEF TypeOK
  <1>2. [slot[n] EXCEPT !.members = @ \cup {s}] \in SlotRecords
    BY <1>1 DEF SlotRecords
  <1>3. slot' = [slot EXCEPT ![n] = [slot[n] EXCEPT !.members = @ \cup {s}]]
    BY Zenon DEF Joined
  <1>4. \A m \in Slots \ {n} : slot'[m] = slot[m]
    BY Zenon, <1>1, <1>3
  <1>5. slot'[n] = [slot[n] EXCEPT !.members = @ \cup {s}]
    BY Zenon, <1>1, <1>3
  <1>6. \A r \in SlotRecords : r = [r EXCEPT !.members = r.members]
    BY Zenon DEF SlotRecords
  <1>7. slot'[n].members = slot[n].members \cup {s}
    BY Zenon, <1>1, <1>5 DEF SlotRecords
  <1> QED
    BY Zenon, <1>1, <1>2, <1>3, <1>4, <1>5, <1>6, <1>7
-----------------------------------------------------------------------------
(* What keeps each conjunct.                                               *)

\* What the sessions S are members of stays in the map, and active.
KeptFor(S) ==
    /\ \A p \in Projects :
          projects[p] # 0 /\ slot[projects[p]].members \cap S # {} =>
             projects'[p] = projects[p]
    /\ \A n \in Slots : slot[n].at = "mapped" =>
          /\ slot[n].members \cap S \subseteq slot'[n].members
          /\ slot[n].active => slot'[n].active

\* The operation and the record of t go on as they are.
Untouched(t) ==
    /\ sessions'[t] = sessions[t]
    /\ op'[t].pc = op[t].pc /\ op'[t].kind = op[t].kind
    /\ op'[t].project = op[t].project /\ op'[t].slot = op[t].slot

\* The conjuncts of IInv about session s.
Mine(s) ==
    /\ OpMatchesRecord(s) /\ MemberStaysMapped(s) /\ ServedIsActive(s)
    /\ sessions[s].at = "open" =>
          /\ sessions[s].active \in Served(s)
          /\ \A p \in Served(s) :
                projects[p] = sessions[s].server[p] /\ s \in slot[projects[p]].members

\* The slot of a loader is its own.
LEMMA LoaderFacts ==
    ASSUME IInv, NEW s \in Sessions, op[s].pc \in Loading
    PROVE  /\ op[s].slot \in Slots /\ op[s].slot \in 1 .. loads /\ op[s].slot # 0
           /\ op[s].project \in Projects
           /\ \A m \in Slots : m > loads => m # op[s].slot
           /\ \A t \in Sessions \ {s} : op[t].pc \in Loading =>
                 op[t].slot \in Slots /\ op[t].slot # op[s].slot
  <1>1. LoadersOwnSlots /\ loads \in 0 .. MaxLoads /\ OpMatchesRecord(s)
    BY Zenon DEF IInv, TypeOK
  <1>2. \A t \in Sessions : op[t].pc \in Loading => op[t].slot \in 1 .. loads
    BY Zenon, <1>1 DEF LoadersOwnSlots
  <1>3. \A t \in Sessions : op[t].pc \in Loading => op[t].slot \in Slots
    BY <1>1, <1>2, ConstantsOK DEF Slots
  <1>4. \A t \in Sessions \ {s} : op[t].pc \in Loading => op[t].slot # op[s].slot
    BY Zenon, <1>1 DEF LoadersOwnSlots
  <1>5. op[s].project \in Projects
    BY Zenon, <1>1 DEF OpMatchesRecord, At, Loading
  <1>6. op[s].slot # 0 /\ \A m \in Slots : m > loads => m # op[s].slot
    BY <1>1, <1>2, ConstantsOK DEF Slots
  <1> QED
    BY Zenon, <1>2, <1>3, <1>4, <1>5, <1>6

\* A lock is held by the reload of its slot.
LEMMA LockFacts ==
    ASSUME IInv, NEW n \in Slots, slot[n].lock # NoOne
    PROVE  /\ slot[n].lock \in Sessions /\ op[slot[n].lock].pc = "reload"
           /\ op[slot[n].lock].slot = n
  <1>1. LocksAreHeld /\ slot[n].lock \in Sessions \cup {NoOne}
    BY Zenon, Fields DEF IInv
  <1> QED
    BY Zenon, <1>1 DEF LocksAreHeld, At

\* The map's entries stay where nothing happens to a mapped slot.
LEMMA EntriesFrame ==
    ASSUME IInv, UNCHANGED projects,
           \A n \in Slots : slot[n].at = "mapped" =>
              slot'[n].at = "mapped" /\ slot'[n].project = slot[n].project
    PROVE  EntriesAreMapped'
  BY Fields DEF IInv, EntriesAreMapped

\* The loaders keep their slots where nothing happens to those.
LEMMA LoadersFrame ==
    ASSUME IInv, UNCHANGED loads,
           \A t \in Sessions : op'[t].pc \in Loading =>
              /\ op'[t].pc = op[t].pc /\ op'[t].slot = op[t].slot
              /\ op'[t].project = op[t].project,
           \A n \in Slots : slot[n].at \in {"none", "built"} =>
              slot'[n].at = slot[n].at /\ slot'[n].project = slot[n].project
    PROVE  LoadersOwnSlots'
  <1>1. \A n \in Slots : n > loads' => slot'[n].at = "none"
    BY Zenon DEF IInv, LoadersOwnSlots
  <1>2. ASSUME NEW t \in Sessions, op'[t].pc \in Loading
        PROVE  /\ op'[t].slot \in 1 .. loads
               /\ slot'[op'[t].slot].at = IF At(t, "insert")' THEN "built" ELSE "none"
               /\ At(t, "insert")' => slot'[op'[t].slot].project = op'[t].project
               /\ \A u \in Sessions \ {t} :
                     op'[u].pc \in Loading => op'[u].slot # op'[t].slot
    <2>1. op[t].slot \in Slots /\ op[t].pc \in Loading
      BY <1>2, Fields DEF IInv, LoadersOwnSlots, Slots
    <2> QED
      BY <1>2, <2>1 DEF IInv, LoadersOwnSlots, At
  <1> QED
    BY Zenon, <1>1, <1>2 DEF LoadersOwnSlots

\* The loaders keep their slots where one of them is done, or goes on with its
\* own.
LEMMA LoaderFrame ==
    ASSUME IInv, NEW s \in Sessions, op[s].pc \in Loading, UNCHANGED loads,
           \A t \in Sessions \ {s} :
              /\ op'[t].pc = op[t].pc /\ op'[t].slot = op[t].slot
              /\ op'[t].project = op[t].project,
           \A m \in Slots \ {op[s].slot} :
              slot'[m].at = slot[m].at /\ slot'[m].project = slot[m].project,
           op'[s].pc \in Loading =>
              /\ op'[s].slot = op[s].slot
              /\ slot'[op[s].slot].at = IF At(s, "insert")' THEN "built" ELSE "none"
              /\ At(s, "insert")' => slot'[op[s].slot].project = op'[s].project
    PROVE  LoadersOwnSlots'
  <1>0. LoadersOwnSlots
    BY Zenon DEF IInv
  <1>1. /\ op[s].slot \in Slots /\ op[s].slot \in 1 .. loads
        /\ \A m \in Slots : m > loads => m # op[s].slot
        /\ \A t \in Sessions \ {s} : op[t].pc \in Loading =>
              op[t].slot \in Slots /\ op[t].slot # op[s].slot
    BY Zenon, LoaderFacts
  <1>2. \A m \in Slots : m > loads' => slot'[m].at = "none"
    BY <1>0, <1>1 DEF LoadersOwnSlots
  <1>3. ASSUME NEW t \in Sessions, op'[t].pc \in Loading
        PROVE  /\ op'[t].slot \in 1 .. loads
               /\ slot'[op'[t].slot].at = IF At(t, "insert")' THEN "built" ELSE "none"
               /\ At(t, "insert")' => slot'[op'[t].slot].project = op'[t].project
               /\ \A u \in Sessions \ {t} :
                     op'[u].pc \in Loading => op'[u].slot # op'[t].slot
    <2>1. CASE t = s
      BY Zenon, <1>1, <1>3, <2>1
    <2>2. CASE t # s
      <3>1. /\ op[t].pc \in Loading /\ op'[t].slot = op[t].slot
            /\ op[t].slot \in Slots \ {op[s].slot}
            /\ slot'[op[t].slot].at = slot[op[t].slot].at
            /\ slot'[op[t].slot].project = slot[op[t].slot].project
        BY Zenon, <1>1, <1>3, <2>2
      <3>2. /\ op[t].slot \in 1 .. loads
            /\ slot[op[t].slot].at = IF At(t, "insert") THEN "built" ELSE "none"
            /\ At(t, "insert") => slot[op[t].slot].project = op[t].project
            /\ \A u \in Sessions \ {t} : op[u].pc \in Loading => op[u].slot # op[t].slot
        BY Zenon, <1>0, <3>1 DEF LoadersOwnSlots
      <3>3. At(t, "insert")' = At(t, "insert")
        BY Zenon, <2>2 DEF At
      <3>4. \A u \in Sessions \ {t} : op'[u].pc \in Loading => op'[u].slot # op'[t].slot
        BY Zenon, <3>1, <3>2
      <3> QED
        BY Zenon, <2>2, <3>1, <3>2, <3>3, <3>4
    <2> QED
      BY Zenon, <2>1, <2>2
  <1> QED
    BY Zenon, <1>2, <1>3 DEF LoadersOwnSlots

\* A lock is held where nobody takes one, and who reloads goes on.
LEMMA LocksFrame ==
    ASSUME IInv,
           \A n \in Slots : slot'[n].lock \in {slot[n].lock, NoOne},
           \A t \in Sessions : At(t, "reload") =>
              At(t, "reload")' /\ op'[t].slot = op[t].slot
    PROVE  LocksAreHeld'
  <1> SUFFICES ASSUME NEW n \in Slots, slot'[n].lock # NoOne
               PROVE  At(slot[n].lock, "reload")' /\ op'[slot[n].lock].slot = n
    BY Zenon DEF LocksAreHeld, At
  <1> QED
    BY Zenon, Fields DEF IInv, LocksAreHeld

\* The flights are led where no leader moves and nobody begins to wait.
LEMMA FlightsFrame ==
    ASSUME IInv, UNCHANGED flights,
           \A t \in Sessions :
              \/ op'[t] = op[t]
              \/ /\ op[t].pc \notin Loading \cup {"evict"}
                 /\ op'[t].pc \notin Loading \cup {"evict", "wait"}
    PROVE  FlightsAreLed'
  <1>1. \A p \in Projects : flights[p] \in Sessions \cup {NoOne}
    BY Zenon, Fields DEF IInv
  <1>2. WaitersAreLed'
    BY DEF IInv, FlightsAreLed, WaitersAreLed, At, Loading
  <1> QED
    BY <1>1, <1>2 DEF IInv, FlightsAreLed

\* A session that nothing happens to keeps what is said about it.
LEMMA SessionsFrame ==
    ASSUME IInv, NEW S, S \subseteq Sessions, KeptFor(S),
           NEW t \in S, Untouched(t)
    PROVE  Mine(t)'
  <1>0. Mine(t) /\ EntriesAreMapped
    BY Zenon DEF IInv, Mine, BoundStaysLoaded
  <1>1. OpMatchesRecord(t)'
    BY Zenon, <1>0 DEF Mine, OpMatchesRecord, Untouched, At
  <1>2. MemberStaysMapped(t)'
    BY <1>0, Fields DEF IInv, Mine, MemberStaysMapped, OpMatchesRecord, At,
       EntriesAreMapped, KeptFor, Untouched, Member
  <1>3. /\ \A p : (p \in Served(t)) = (p \in Served(t)')
        /\ \A p \in Served(t) :
              /\ projects'[p] = sessions[t].server[p]
              /\ t \in slot'[projects'[p]].members
              /\ slot'[sessions[t].server[p]].active
    BY <1>0, Fields DEF IInv, Mine, ServedIsActive, Served, KeptFor, Untouched,
       EntriesAreMapped
  <1>4. ServedIsActive(t)'
    BY Zenon, <1>0, <1>3 DEF Mine, ServedIsActive, Untouched
  <1> QED
    BY <1>0, <1>1, <1>2, <1>3, <1>4 DEF Mine, Untouched

\* A session whose operation moves on, in slots that are kept for it.
LEMMA SelfFrame ==
    ASSUME IInv, KeptFor(Sessions), NEW s \in Sessions,
           sessions'[s] = sessions[s], OpMatchesRecord(s)', MemberStaysMapped(s)'
    PROVE  Mine(s)'
  <1>0. Mine(s) /\ EntriesAreMapped
    BY Zenon DEF IInv, Mine, BoundStaysLoaded
  <1>1. /\ \A p : (p \in Served(s)) = (p \in Served(s)')
        /\ \A p \in Served(s) :
              /\ projects'[p] = sessions[s].server[p]
              /\ s \in slot'[projects'[p]].members
              /\ slot'[sessions[s].server[p]].active
    BY <1>0, Fields DEF IInv, Mine, ServedIsActive, Served, KeptFor,
       EntriesAreMapped
  <1>2. ServedIsActive(s)'
    BY Zenon, <1>0, <1>1 DEF Mine, ServedIsActive
  <1> QED
    BY Zenon, <1>0, <1>1, <1>2 DEF Mine

\* The invariant, from what is said about each session.
LEMMA Assemble ==
    ASSUME TypeOK', EntriesAreMapped', LoadersOwnSlots', SlotsAreTended',
           LocksAreHeld', FlightsAreLed', \A t \in Sessions : Mine(t)'
    PROVE  IInv'
  BY Zenon DEF IInv, Mine, BoundStaysLoaded

-----------------------------------------------------------------------------
(* Steps of an operation that change no slot and no record.                *)

\* What such a step keeps, when the session that takes it is right.
LEMMA OpOnly ==
    ASSUME IInv, NEW s \in Sessions, UNCHANGED <<projects, slot, sessions>>,
           \A t \in Sessions \ {s} : Untouched(t), ~At(s, "reload"),
           OpMatchesRecord(s)', MemberStaysMapped(s)'
    PROVE  /\ EntriesAreMapped' /\ SlotsAreTended' /\ LocksAreHeld'
           /\ \A t \in Sessions : Mine(t)'
  <1>1. EntriesAreMapped' /\ SlotsAreTended'
    BY Zenon DEF IInv, EntriesAreMapped, SlotsAreTended, Tended
  <1>2. LocksAreHeld'
    <2>1. \A t \in Sessions : At(t, "reload") =>
             At(t, "reload")' /\ op'[t].slot = op[t].slot
      BY Zenon DEF At, Untouched
    <2> QED
      BY Zenon, <2>1, LocksFrame
  <1>3. KeptFor(Sessions)
    BY Zenon DEF KeptFor
  <1>4. \A t \in Sessions \ {s} : Mine(t)'
    BY Zenon, <1>3, SessionsFrame
  <1>5. Mine(s)'
    BY Zenon DEF IInv, Mine, BoundStaysLoaded, ServedIsActive, Served
  <1> QED
    BY Zenon, <1>1, <1>2, <1>4, <1>5

\* A session opens, or names a folder to index.
LEMMA BeginKeeps ==
    ASSUME IInv, NEW s \in Sessions, NEW p \in Projects,
           OpenSession(s, p) \/ IndexFolder(s, p)
    PROVE  IInv'
  <1>1. PICK k \in {"open", "index"} :
           /\ Go(s, [NoOp EXCEPT !.pc = "look", !.kind = k, !.project = p])
           /\ k = "open" <=> sessions[s].at = "none"
    BY Zenon DEF OpenSession, IndexFolder
  <1>2. [NoOp EXCEPT !.pc = "look", !.kind = k, !.project = p] \in Operations
    BY Zenon DEF NoOp, Operations, Pcs
  <1>3. /\ op' \in [Sessions -> Operations]
        /\ op'[s].pc = "look" /\ op'[s].kind = k /\ op'[s].project = p
        /\ \A t \in Sessions \ {s} : op'[t] = op[t]
    <2>1. /\ op' \in [Sessions -> Operations]
          /\ op'[s] = [NoOp EXCEPT !.pc = "look", !.kind = k, !.project = p]
          /\ \A t \in Sessions \ {s} : op'[t] = op[t]
      BY Zenon, <1>1, <1>2, GoEffect DEF IInv
    <2> QED
      BY <2>1 DEF NoOp
  <1>4. /\ UNCHANGED <<projects, slot, loads, occupancy, flights, sessions, claims>>
        /\ At(s, "idle")
    BY Zenon DEF OpenSession, IndexFolder
  <1>5. TypeOK'
    BY Zenon, <1>3, <1>4 DEF IInv, TypeOK
  <1>6. OpMatchesRecord(s)' /\ MemberStaysMapped(s)'
    BY Zenon, <1>1, <1>3, <1>4 DEF OpMatchesRecord, MemberStaysMapped, Member, At
  <1>7. /\ EntriesAreMapped' /\ SlotsAreTended' /\ LocksAreHeld'
        /\ \A t \in Sessions : Mine(t)'
    BY Zenon, <1>3, <1>4, <1>6, OpOnly DEF At, Untouched
  <1>8. LoadersOwnSlots'
    BY Zenon, <1>3, <1>4, LoadersFrame DEF Loading
  <1>9. FlightsAreLed'
    BY Zenon, <1>3, <1>4, FlightsFrame DEF Loading, At
  <1> QED
    BY Zenon, <1>5, <1>7, <1>8, <1>9, Assemble

\* An operation looks its project up.
LEMMA LookKeeps ==
    ASSUME IInv, NEW s \in Sessions, Look(s)
    PROVE  IInv'
  <1> DEFINE n == projects[op[s].project]
             o == [op[s] EXCEPT !.pc = IF n = 0 THEN "fly" ELSE "join", !.slot = n]
  <1>1. /\ At(s, "look") /\ Go(s, o)
        /\ UNCHANGED <<projects, slot, loads, occupancy, flights, sessions, claims>>
    BY Zenon DEF Look
  <1>2. op[s] \in Operations /\ n \in Slots \cup {0} /\ OpMatchesRecord(s)
    BY Zenon, <1>1, Fields DEF IInv, OpMatchesRecord, At
  <1>3. /\ o \in Operations /\ o.pc = IF n = 0 THEN "fly" ELSE "join"
        /\ o.slot = n /\ o.kind = op[s].kind /\ o.project = op[s].project
    BY Zenon, <1>2 DEF Operations, Pcs
  <1> HIDE DEF o, n
  <1>4. /\ op' \in [Sessions -> Operations] /\ op'[s] = o
        /\ \A t \in Sessions \ {s} : op'[t] = op[t]
    BY Zenon, <1>1, <1>3, GoEffect DEF IInv
  <1>5. TypeOK'
    BY Zenon, <1>1, <1>4 DEF IInv, TypeOK
  <1>6. OpMatchesRecord(s)' /\ MemberStaysMapped(s)'
    BY Zenon, <1>1, <1>2, <1>3, <1>4 DEF OpMatchesRecord, MemberStaysMapped, Member, At
  <1>7. /\ EntriesAreMapped' /\ SlotsAreTended' /\ LocksAreHeld'
        /\ \A t \in Sessions : Mine(t)'
    BY Zenon, <1>1, <1>4, <1>6, OpOnly DEF At, Untouched
  <1>8. LoadersOwnSlots'
    BY Zenon, <1>1, <1>3, <1>4, LoadersFrame DEF Loading
  <1>9. FlightsAreLed'
    BY Zenon, <1>1, <1>3, <1>4, FlightsFrame DEF Loading, At
  <1> QED
    BY Zenon, <1>5, <1>7, <1>8, <1>9, Assemble

\* An operation of index_folder finds the map's current slot.
LEMMA AddKeeps ==
    ASSUME IInv, NEW s \in Sessions, Add(s)
    PROVE  IInv'
  <1> DEFINE n == projects[op[s].project]
             o == [op[s] EXCEPT !.pc = "enlist", !.slot = n]
  <1>1. /\ At(s, "add")
        /\ IF n = 0 THEN Return(s) ELSE Go(s, o)
        /\ UNCHANGED <<projects, slot, loads, occupancy, flights, sessions, claims>>
    BY Zenon DEF Add
  <1>2. /\ op[s] \in Operations /\ n \in Slots \cup {0}
        /\ OpMatchesRecord(s) /\ MemberStaysMapped(s)
    BY Zenon, <1>1, Fields DEF IInv, OpMatchesRecord, At
  <1>3. /\ o \in Operations /\ o.pc = "enlist" /\ o.slot = n
        /\ o.kind = op[s].kind /\ o.project = op[s].project
    BY Zenon, <1>2 DEF Operations, Pcs, Member
  <1> HIDE DEF o, n
  <1>4. /\ op' \in [Sessions -> Operations]
        /\ \/ n = 0 /\ op'[s].pc = "idle" /\ op'[s].kind = "none"
           \/ n # 0 /\ op'[s] = o
        /\ \A t \in Sessions \ {s} : op'[t] = op[t]
    BY Zenon, <1>1, <1>3, GoEffect, ReturnEffect DEF IInv
  <1>5. TypeOK'
    BY Zenon, <1>1, <1>4 DEF IInv, TypeOK
  <1>6. OpMatchesRecord(s)' /\ MemberStaysMapped(s)'
    BY <1>1, <1>2, <1>3, <1>4 DEF OpMatchesRecord, MemberStaysMapped, Member,
       Active, At, n
  <1>7. /\ EntriesAreMapped' /\ SlotsAreTended' /\ LocksAreHeld'
        /\ \A t \in Sessions : Mine(t)'
    BY Zenon, <1>1, <1>4, <1>6, OpOnly DEF At, Untouched
  <1>8. LoadersOwnSlots'
    BY Zenon, <1>1, <1>3, <1>4, LoadersFrame DEF Loading
  <1>9. FlightsAreLed'
    BY Zenon, <1>1, <1>3, <1>4, FlightsFrame DEF Loading, At
  <1> QED
    BY Zenon, <1>5, <1>7, <1>8, <1>9, Assemble

-----------------------------------------------------------------------------
(* The single flight of a cold load.                                       *)

\* An operation leads a load.
LEMMA LeadKeeps ==
    ASSUME IInv, NEW s \in Sessions, Fly(s), flights[op[s].project] = NoOne
    PROVE  IInv'
  <1> DEFINE p == op[s].project
             o == [op[s] EXCEPT !.pc = "admit", !.slot = loads + 1,
                                !.leader = s, !.outcome = "pending"]
  <1>1. /\ At(s, "fly") /\ loads < MaxLoads /\ loads' = loads + 1
        /\ flights' = [flights EXCEPT ![p] = s] /\ Go(s, o)
        /\ UNCHANGED <<projects, slot, occupancy, sessions, claims>>
    BY Zenon DEF Fly
  <1>2. op[s] \in Operations /\ OpMatchesRecord(s) /\ p \in Projects /\ s # NoOne
    BY Zenon, <1>1, Fields, ConstantsOK DEF IInv, OpMatchesRecord, At
  <1>3. loads \in Nat /\ loads + 1 \in Slots /\ loads' \in 0 .. MaxLoads
    BY <1>1, ConstantsOK DEF IInv, TypeOK, Slots
  <1>4. /\ o \in Operations /\ o.pc = "admit" /\ o.slot = loads + 1
        /\ o.kind = op[s].kind /\ o.project = p
        /\ o.leader = s /\ o.outcome = "pending"
    BY Zenon, <1>2, <1>3 DEF Operations, Pcs, Loading
  <1> HIDE DEF o, p
  <1>5. /\ op' \in [Sessions -> Operations] /\ op'[s] = o
        /\ \A t \in Sessions \ {s} : op'[t] = op[t]
    BY Zenon, <1>1, <1>4, GoEffect DEF IInv
  <1>6. /\ flights' \in [Projects -> Sessions \cup {NoOne}] /\ flights'[p] = s
        /\ \A q \in Projects \ {p} : flights'[q] = flights[q]
    BY Zenon, <1>1, <1>2 DEF IInv, TypeOK
  <1>7. TypeOK'
    BY Zenon, <1>1, <1>3, <1>5, <1>6 DEF IInv, TypeOK
  <1>8. OpMatchesRecord(s)' /\ MemberStaysMapped(s)'
    BY <1>1, <1>2, <1>4, <1>5 DEF OpMatchesRecord, MemberStaysMapped, Member, At
  <1>9. /\ EntriesAreMapped' /\ SlotsAreTended' /\ LocksAreHeld'
        /\ \A t \in Sessions : Mine(t)'
    BY Zenon, <1>1, <1>5, <1>8, OpOnly DEF At, Untouched
  <1>10. LoadersOwnSlots'
    <2>1. \A n \in Slots : n \in Nat
      BY DEF Slots
    <2>2. slot[loads + 1].at = "none" /\ op'[s].slot \in 1 .. loads'
      BY <1>1, <1>3, <1>4, <1>5 DEF IInv, LoadersOwnSlots
    <2>3. \A t \in Sessions \ {s} : op[t].pc \in Loading =>
             op[t].slot \in 1 .. loads /\ op[t].slot # loads + 1
      BY <1>3 DEF IInv, LoadersOwnSlots
    <2> QED
      BY <1>1, <1>3, <1>4, <1>5, <2>1, <2>2, <2>3 DEF IInv, LoadersOwnSlots, At
  <1>11. FlightsAreLed'
    <2>1. \A t \in Sessions : op[t].pc \in Loading \cup {"evict"} =>
             op[t].project # p
      BY <1>2, ConstantsOK DEF IInv, FlightsAreLed, p
    <2>2. \A t \in Sessions : op[t].pc # "idle" => op[t].project \in Projects
      BY Zenon DEF IInv, OpMatchesRecord, At
    <2>3. /\ \A t \in Sessions : op'[t].pc \in Loading \cup {"evict"} =>
                /\ flights'[op'[t].project] = t
                /\ (op'[t].outcome = "pending") <=> (op'[t].pc \in Loading)
          /\ \A t \in Sessions : op'[t].pc \in Loading \cup {"evict", "wait"} =>
                op'[t].leader \in Sessions
      BY <1>4, <1>5, <1>6, <2>1, <2>2 DEF IInv, FlightsAreLed, Loading
    <2>4. \A q \in Projects : flights'[q] # NoOne =>
             /\ op'[flights'[q]].pc \in Loading \cup {"evict"}
             /\ op'[flights'[q]].project = q
      BY <1>1, <1>2, <1>4, <1>5, <1>6, Fields DEF IInv, FlightsAreLed, Loading, At
    <2>5. WaitersAreLed'
      <3> SUFFICES ASSUME NEW t \in Sessions, At(t, "wait")', op'[t].outcome = "pending"
                   PROVE  /\ op'[op'[t].leader].pc \in {"admit", "build", "insert"}
                          /\ flights'[op'[t].project] = op'[t].leader
        BY Zenon DEF WaitersAreLed, At
      <3>1. t # s /\ op'[t] = op[t] /\ op[t].leader \in Sessions
        BY <1>4, <1>5 DEF At, IInv, FlightsAreLed
      <3>2. /\ op[op[t].leader].pc \in {"admit", "build", "insert"}
            /\ flights[op[t].project] = op[t].leader
        BY <3>1 DEF IInv, FlightsAreLed, WaitersAreLed, At
      <3>3. op[t].leader # s /\ op[t].project \in Projects
        BY Zenon, <1>1, <2>2, <3>1, <3>2 DEF At
      <3>4. op[t].project # p
        BY Zenon, <1>2, <3>1, <3>2, ConstantsOK DEF p
      <3> QED
        BY <1>5, <1>6, <3>1, <3>2, <3>3, <3>4
    <2> QED
      BY Zenon, <2>3, <2>4, <2>5 DEF FlightsAreLed
  <1> QED
    BY Zenon, <1>7, <1>9, <1>10, <1>11, Assemble

\* An operation waits for the leader of its project's load.
LEMMA FollowKeeps ==
    ASSUME IInv, NEW s \in Sessions, Fly(s), flights[op[s].project] # NoOne
    PROVE  IInv'
  <1> DEFINE l == flights[op[s].project]
             o == [op[s] EXCEPT !.pc = "wait", !.leader = l, !.outcome = op[l].outcome]
  <1>1. /\ At(s, "fly") /\ Go(s, o)
        /\ UNCHANGED <<projects, slot, loads, flights, occupancy, sessions, claims>>
    BY Zenon DEF Fly
  <1>2. /\ op[s] \in Operations /\ OpMatchesRecord(s) /\ op[s].project \in Projects
        /\ l \in Sessions /\ op[l].outcome \in {"none", "pending", "ok", "err"}
    BY Zenon, <1>1, Fields DEF IInv, OpMatchesRecord, At
  <1>3. /\ o \in Operations /\ o.pc = "wait" /\ o.slot = op[s].slot
        /\ o.kind = op[s].kind /\ o.project = op[s].project
        /\ o.leader = l /\ o.outcome = op[l].outcome
    BY Zenon, <1>2 DEF Operations, Pcs
  <1>l. /\ op[l].pc \in Loading \cup {"evict"} /\ op[l].project = op[s].project
        /\ op[l].outcome = "pending" => op[l].pc \in Loading
    BY Zenon, <1>2 DEF IInv, FlightsAreLed
  <1> HIDE DEF o
  <1>5. /\ op' \in [Sessions -> Operations] /\ op'[s] = o
        /\ \A t \in Sessions \ {s} : op'[t] = op[t]
    BY Zenon, <1>1, <1>3, GoEffect DEF IInv
  <1>7. TypeOK'
    BY Zenon, <1>1, <1>5 DEF IInv, TypeOK
  <1>8. OpMatchesRecord(s)' /\ MemberStaysMapped(s)'
    BY Zenon, <1>1, <1>2, <1>3, <1>5 DEF OpMatchesRecord, MemberStaysMapped, Member, At
  <1>9. /\ EntriesAreMapped' /\ SlotsAreTended' /\ LocksAreHeld'
        /\ \A t \in Sessions : Mine(t)'
    BY Zenon, <1>1, <1>5, <1>8, OpOnly DEF At, Untouched
  <1>10. LoadersOwnSlots'
    BY Zenon, <1>1, <1>3, <1>5, LoadersFrame DEF Loading
  <1>11. FlightsAreLed'
    <2>1. s # l
      BY Zenon, <1>1, <1>l DEF At, Loading
    <2>2. WaitersAreLed'
      <3>1. /\ op'[op'[s].leader].pc \in Loading \cup {"evict"}
            /\ op'[s].outcome = "pending" => op'[op'[s].leader].pc \in Loading
            /\ flights'[op'[s].project] = op'[s].leader
        BY Zenon, <1>1, <1>2, <1>3, <1>5, <1>l, <2>1
      <3>2. \A t \in Sessions \ {s} : op[t].pc = "wait" /\ op[t].outcome = "pending" =>
               op[t].leader # s /\ op[t].leader \in Sessions
        BY Zenon, <1>1 DEF IInv, FlightsAreLed, WaitersAreLed, At
      <3> QED
        BY <1>1, <1>5, <3>1, <3>2 DEF IInv, FlightsAreLed, WaitersAreLed, At, Loading
    <2>3. \A q \in Projects : flights[q] # s /\ flights[q] \in Sessions \cup {NoOne}
      BY <1>1, Fields, ConstantsOK DEF IInv, FlightsAreLed, At, Loading
    <2> QED
      BY <1>1, <1>2, <1>3, <1>5, <2>2, <2>3 DEF IInv, FlightsAreLed, Loading
  <1> QED
    BY Zenon, <1>7, <1>9, <1>10, <1>11, Assemble

\* The flights are led where a leader goes on loading.
LEMMA LeaderFrame ==
    ASSUME IInv, NEW s \in Sessions, UNCHANGED flights,
           op[s].pc \in Loading, op'[s].pc \in Loading,
           op'[s].project = op[s].project, op'[s].leader = op[s].leader,
           op'[s].outcome = op[s].outcome,
           \A t \in Sessions \ {s} : op'[t] = op[t]
    PROVE  FlightsAreLed'
  <1>1. \A q \in Projects : flights[q] \in Sessions \cup {NoOne}
    BY Zenon, Fields DEF IInv
  <1>2. WaitersAreLed'
    BY DEF IInv, FlightsAreLed, WaitersAreLed, At, Loading
  <1> QED
    BY <1>1, <1>2 DEF IInv, FlightsAreLed

\* A load is admitted.
LEMMA AdmitKeeps ==
    ASSUME IInv, NEW s \in Sessions, Admit(s)
    PROVE  IInv'
  <1> DEFINE p == op[s].project
             o == [op[s] EXCEPT !.pc = "build", !.adm = occupancy'[p]]
  <1>1. /\ At(s, "admit") /\ Go(s, o)
        /\ occupancy' = [occupancy EXCEPT ![p] = IF @ = 0 THEN op[s].slot ELSE @]
        /\ UNCHANGED <<projects, slot, loads, flights, sessions, claims>>
    BY Zenon DEF Admit
  <1>2. /\ op[s] \in Operations /\ OpMatchesRecord(s) /\ p \in Projects
        /\ op[s].slot \in Slots \cup {0}
    BY Zenon, <1>1, Fields DEF IInv, OpMatchesRecord, At
  <1>3. occupancy' \in [Projects -> Slots \cup {0}] /\ occupancy'[p] \in Slots \cup {0}
    BY Zenon, <1>1, <1>2 DEF IInv, TypeOK
  <1>4. /\ o \in Operations /\ o.pc = "build" /\ o.slot = op[s].slot
        /\ o.kind = op[s].kind /\ o.project = op[s].project
        /\ o.leader = op[s].leader /\ o.outcome = op[s].outcome
    BY Zenon, <1>2, <1>3 DEF Operations, Pcs, Loading
  <1> HIDE DEF o
  <1>5. /\ op' \in [Sessions -> Operations] /\ op'[s] = o
        /\ \A t \in Sessions \ {s} : op'[t] = op[t]
    BY Zenon, <1>1, <1>4, GoEffect DEF IInv
  <1>7. TypeOK'
    BY Zenon, <1>1, <1>3, <1>5 DEF IInv, TypeOK
  <1>8. OpMatchesRecord(s)' /\ MemberStaysMapped(s)'
    BY Zenon, <1>1, <1>2, <1>4, <1>5 DEF OpMatchesRecord, MemberStaysMapped, Member, At
  <1>9. /\ EntriesAreMapped' /\ SlotsAreTended' /\ LocksAreHeld'
        /\ \A t \in Sessions : Mine(t)'
    BY Zenon, <1>1, <1>5, <1>8, OpOnly DEF At, Untouched
  <1>10. LoadersOwnSlots'
    BY <1>1, <1>4, <1>5 DEF IInv, LoadersOwnSlots, At, Loading
  <1>11. FlightsAreLed'
    BY Zenon, <1>1, <1>4, <1>5, LeaderFrame DEF At, Loading
  <1> QED
    BY Zenon, <1>7, <1>9, <1>10, <1>11, Assemble

\* A leader evicts its flight.
LEMMA EvictKeeps ==
    ASSUME IInv, NEW s \in Sessions, Evict(s)
    PROVE  IInv'
  <1> DEFINE p == op[s].project
  <1>1. /\ At(s, "evict") /\ Step(s, "wait")
        /\ flights' = [flights EXCEPT ![p] = NoOne]
        /\ UNCHANGED <<projects, slot, loads, occupancy, sessions, claims>>
    BY Zenon DEF Evict
  <1>2. OpMatchesRecord(s) /\ p \in Projects
    BY Zenon, <1>1 DEF IInv, OpMatchesRecord, At
  <1>3. /\ op' \in [Sessions -> Operations]
        /\ op'[s].pc = "wait" /\ op'[s].kind = op[s].kind /\ op'[s].slot = op[s].slot
        /\ op'[s].project = p /\ op'[s].leader = op[s].leader
        /\ op'[s].outcome = op[s].outcome
        /\ \A t \in Sessions \ {s} : op'[t] = op[t]
    BY Zenon, <1>1, StepEffect DEF IInv, Pcs
  <1>4. /\ flights' \in [Projects -> Sessions \cup {NoOne}] /\ flights'[p] = NoOne
        /\ \A q \in Projects \ {p} : flights'[q] = flights[q]
    BY Zenon, <1>1, <1>2 DEF IInv, TypeOK
  <1>5. TypeOK'
    BY Zenon, <1>1, <1>3, <1>4 DEF IInv, TypeOK
  <1>6. OpMatchesRecord(s)' /\ MemberStaysMapped(s)'
    BY Zenon, <1>1, <1>2, <1>3 DEF OpMatchesRecord, MemberStaysMapped, Member, At
  <1>7. /\ EntriesAreMapped' /\ SlotsAreTended' /\ LocksAreHeld'
        /\ \A t \in Sessions : Mine(t)'
    BY Zenon, <1>1, <1>3, <1>6, OpOnly DEF At, Untouched
  <1>8. LoadersOwnSlots'
    BY Zenon, <1>1, <1>3, LoadersFrame DEF Loading
  <1>9. FlightsAreLed'
    <2>1. op[s].outcome # "pending" /\ flights[p] = s
      BY Zenon, <1>1 DEF IInv, FlightsAreLed, At, Loading
    <2>2. \A t \in Sessions : op[t].pc # "idle" => op[t].project \in Projects
      BY Zenon DEF IInv, OpMatchesRecord, At
    <2>3. \A t \in Sessions : op[t].pc = "wait" /\ op[t].outcome = "pending" =>
             /\ op[t].leader \in Sessions \ {s} /\ op[t].project # p
             /\ op[op[t].leader].pc \in {"admit", "build", "insert"}
             /\ flights[op[t].project] = op[t].leader
      BY <1>1, <2>1 DEF IInv, FlightsAreLed, WaitersAreLed, At
    <2>4. WaitersAreLed'
      BY <1>3, <1>4, <2>1, <2>2, <2>3 DEF WaitersAreLed, At
    <2>5. \A t \in Sessions \ {s} : op[t].pc \in Loading \cup {"evict"} =>
             op[t].project # p /\ op[t].project \in Projects
      BY <2>1, <2>2 DEF IInv, FlightsAreLed, Loading
    <2>6. \A t \in Sessions : op'[t].pc \in Loading \cup {"evict"} =>
             /\ flights'[op'[t].project] = t
             /\ (op'[t].outcome = "pending") <=> (op'[t].pc \in Loading)
      BY <1>3, <1>4, <2>5 DEF IInv, FlightsAreLed, Loading
    <2>7. \A t \in Sessions : op'[t].pc \in Loading \cup {"evict", "wait"} =>
             op'[t].leader \in Sessions
      BY <1>1, <1>3 DEF IInv, FlightsAreLed, At
    <2>8. \A q \in Projects : flights'[q] # NoOne =>
             /\ op'[flights'[q]].pc \in Loading \cup {"evict"}
             /\ op'[flights'[q]].project = q
      BY <1>3, <1>4, Fields DEF IInv, FlightsAreLed
    <2> QED
      BY Zenon, <2>4, <2>6, <2>7, <2>8 DEF FlightsAreLed
  <1> QED
    BY Zenon, <1>5, <1>7, <1>8, <1>9, Assemble

\* A leader completes its flight and goes on to evict it; whoever waits for it
\* learns the outcome.
LEMMA CompletedEffect ==
    ASSUME IInv, NEW s \in Sessions, op[s].pc \in Loading,
           NEW outcome \in {"ok", "err"}, Completed(s, outcome, "evict"),
           UNCHANGED flights
    PROVE  /\ op' \in [Sessions -> Operations]
           /\ op'[s].pc = "evict" /\ op'[s].kind = op[s].kind
           /\ op'[s].project = op[s].project /\ op'[s].slot = op[s].slot
           /\ \A t \in Sessions \ {s} :
                 /\ op'[t].pc = op[t].pc /\ op'[t].kind = op[t].kind
                 /\ op'[t].project = op[t].project /\ op'[t].slot = op[t].slot
           /\ FlightsAreLed'
  <1>0. op \in [Sessions -> Operations]
    BY Zenon DEF IInv, TypeOK
  <1>1. \A o \in Operations : [o EXCEPT !.outcome = outcome] \in Operations
    BY Zenon DEF Operations
  <1>2. \A o \in Operations : [o EXCEPT !.pc = "evict", !.outcome = outcome] \in Operations
    BY Zenon DEF Operations, Pcs
  <1>3. /\ op' \in [Sessions -> Operations]
        /\ op'[s] = [op[s] EXCEPT !.pc = "evict", !.outcome = outcome]
        /\ \A t \in Sessions \ {s} :
              op'[t] = IF op[t].pc = "wait" /\ op[t].leader = s
                       THEN [op[t] EXCEPT !.outcome = outcome] ELSE op[t]
    BY Zenon, <1>0, <1>1, <1>2 DEF Completed
  <1>4. /\ op'[s].pc = "evict" /\ op'[s].kind = op[s].kind
        /\ op'[s].project = op[s].project /\ op'[s].slot = op[s].slot
        /\ op'[s].leader = op[s].leader /\ op'[s].outcome = outcome
    BY <1>0, <1>3 DEF Operations
  <1>5. \A t \in Sessions \ {s} :
           /\ op'[t].pc = op[t].pc /\ op'[t].kind = op[t].kind
           /\ op'[t].project = op[t].project /\ op'[t].slot = op[t].slot
           /\ op'[t].leader = op[t].leader
           /\ op[t].pc # "wait" \/ op[t].leader # s => op'[t].outcome = op[t].outcome
           /\ op[t].pc = "wait" /\ op[t].leader = s => op'[t].outcome = outcome
    <2> SUFFICES ASSUME NEW t \in Sessions \ {s}
                 PROVE  /\ op'[t].pc = op[t].pc /\ op'[t].kind = op[t].kind
                        /\ op'[t].project = op[t].project /\ op'[t].slot = op[t].slot
                        /\ op'[t].leader = op[t].leader
                        /\ op[t].pc # "wait" \/ op[t].leader # s => op'[t].outcome = op[t].outcome
                        /\ op[t].pc = "wait" /\ op[t].leader = s => op'[t].outcome = outcome
      BY Zenon
    <2>1. op[t] \in Operations
      BY Zenon, <1>0
    <2> QED
      BY <1>3, <2>1 DEF Operations
  <1>6. WaitersAreLed'
    <2> SUFFICES ASSUME NEW t \in Sessions, op'[t].pc = "wait", op'[t].outcome = "pending"
                 PROVE  /\ op'[op'[t].leader].pc \in {"admit", "build", "insert"}
                        /\ flights'[op'[t].project] = op'[t].leader
      BY Zenon DEF WaitersAreLed, At
    <2>1. /\ t # s /\ op[t].pc = "wait" /\ op[t].outcome = "pending"
          /\ op[t].leader \in Sessions \ {s}
      BY <1>4, <1>5 DEF IInv, FlightsAreLed
    <2> QED
      BY <1>5, <2>1 DEF IInv, FlightsAreLed, WaitersAreLed, At
  <1>7. \A q \in Projects : flights[q] \in Sessions \cup {NoOne}
    BY Zenon, Fields DEF IInv
  <1>8. /\ \A t \in Sessions : op'[t].pc \in Loading \cup {"evict"} =>
              /\ flights'[op'[t].project] = t
              /\ (op'[t].outcome = "pending") <=> (op'[t].pc \in Loading)
        /\ \A t \in Sessions : op'[t].pc \in Loading \cup {"evict", "wait"} =>
              op'[t].leader \in Sessions
    BY <1>4, <1>5 DEF IInv, FlightsAreLed, Loading
  <1>9. \A q \in Projects : flights'[q] # NoOne =>
           /\ op'[flights'[q]].pc \in Loading \cup {"evict"}
           /\ op'[flights'[q]].project = q
    BY <1>4, <1>5, <1>7 DEF IInv, FlightsAreLed
  <1> QED
    BY Zenon, <1>3, <1>4, <1>5, <1>6, <1>8, <1>9 DEF FlightsAreLed

\* A load fails.
LEMMA BuildFailsKeeps ==
    ASSUME IInv, NEW s \in Sessions, BuildFails(s)
    PROVE  IInv'
  <1>1. /\ At(s, "build") /\ Completed(s, "err", "evict")
        /\ UNCHANGED <<projects, slot, loads, flights, sessions, claims>>
    BY Zenon DEF BuildFails
  <1>2. op[s].pc \in Loading /\ OpMatchesRecord(s)
    BY Zenon, <1>1 DEF At, Loading, IInv
  <1>3. /\ op' \in [Sessions -> Operations]
        /\ op'[s].pc = "evict" /\ op'[s].kind = op[s].kind
        /\ op'[s].project = op[s].project /\ op'[s].slot = op[s].slot
        /\ \A t \in Sessions \ {s} :
              /\ op'[t].pc = op[t].pc /\ op'[t].kind = op[t].kind
              /\ op'[t].project = op[t].project /\ op'[t].slot = op[t].slot
        /\ FlightsAreLed'
    BY Zenon, <1>1, <1>2, CompletedEffect
  <1>4. occupancy' \in [Projects -> Slots \cup {0}]
    BY Zenon DEF BuildFails, IInv, TypeOK
  <1>5. TypeOK'
    BY Zenon, <1>1, <1>3, <1>4 DEF IInv, TypeOK
  <1>6. OpMatchesRecord(s)' /\ MemberStaysMapped(s)'
    BY Zenon, <1>1, <1>2, <1>3 DEF OpMatchesRecord, MemberStaysMapped, Member, At
  <1>7. /\ EntriesAreMapped' /\ SlotsAreTended' /\ LocksAreHeld'
        /\ \A t \in Sessions : Mine(t)'
    BY Zenon, <1>1, <1>3, <1>6, OpOnly DEF At, Untouched
  <1>8. LoadersOwnSlots'
    BY Zenon, <1>1, <1>3, LoadersFrame DEF Loading
  <1> QED
    BY Zenon, <1>3, <1>5, <1>7, <1>8, Assemble

\* A load builds its slot.
LEMMA BuildKeeps ==
    ASSUME IInv, NEW s \in Sessions, Build(s)
    PROVE  IInv'
  <1> DEFINE n == op[s].slot
  <1>1. PICK index \in {"settled", "loading"} :
           slot' = [slot EXCEPT ![n] =
                [NoSlot EXCEPT !.at = "built", !.project = op[s].project,
                               !.adm = op[s].adm, !.index = index,
                               !.bg = IF index = "loading" THEN "load" ELSE "none"]]
    BY Zenon DEF Build
  <1>2. /\ At(s, "build") /\ Step(s, "insert")
        /\ UNCHANGED <<projects, loads, occupancy, flights, sessions, claims>>
    BY Zenon DEF Build
  <1>3. /\ n \in Slots /\ n \in 1 .. loads /\ slot[n].at = "none"
        /\ op[s].project \in Projects /\ op[s].adm \in Slots \cup {0}
        /\ OpMatchesRecord(s) /\ slot \in [Slots -> SlotRecords]
    <2>1. n \in 1 .. loads /\ slot[n].at = "none"
      BY Zenon, <1>2 DEF IInv, LoadersOwnSlots, At, Loading
    <2>2. n \in Slots
      BY <2>1, Fields DEF IInv
    <2> QED
      BY Zenon, <1>2, <2>1, <2>2, Fields DEF IInv, TypeOK, At, OpMatchesRecord
  <1> DEFINE r == [NoSlot EXCEPT !.at = "built", !.project = op[s].project,
                                 !.adm = op[s].adm, !.index = index,
                                 !.bg = IF index = "loading" THEN "load" ELSE "none"]
  <1>4. /\ r \in SlotRecords /\ r.at = "built" /\ r.project = op[s].project
        /\ r.index = index /\ r.bg = IF index = "loading" THEN "load" ELSE "none"
        /\ r.lock = NoOne /\ r.active = FALSE
    BY Zenon, <1>3 DEF SlotRecords, NoSlot
  <1> HIDE DEF r, n
  <1>5. /\ slot' \in [Slots -> SlotRecords] /\ slot'[n] = r
        /\ \A m \in Slots \ {n} : slot'[m] = slot[m]
    BY Zenon, <1>1, <1>3, <1>4 DEF r
  <1>6. /\ op' \in [Sessions -> Operations]
        /\ op'[s].pc = "insert" /\ op'[s].kind = op[s].kind /\ op'[s].slot = n
        /\ op'[s].project = op[s].project /\ op'[s].leader = op[s].leader
        /\ op'[s].outcome = op[s].outcome
        /\ \A t \in Sessions \ {s} : op'[t] = op[t]
    BY Zenon, <1>2, StepEffect DEF IInv, Pcs, Loading, n
  <1>7. TypeOK'
    BY Zenon, <1>2, <1>5, <1>6 DEF IInv, TypeOK
  <1>8. EntriesAreMapped'
    BY Zenon, <1>2, <1>3, <1>5, EntriesFrame
  <1>9. LoadersOwnSlots'
    <2>1. op[s].pc \in Loading /\ n = op[s].slot /\ At(s, "insert")'
      BY Zenon, <1>2, <1>6 DEF At, Loading, n
    <2> QED
      BY <1>2, <1>4, <1>5, <1>6, <2>1, LoaderFrame
  <1>10. SlotsAreTended'
    BY Zenon, <1>1, <1>4, <1>5 DEF IInv, SlotsAreTended, Tended
  <1>11. LocksAreHeld'
    <2>1. \A m \in Slots : slot'[m].lock \in {slot[m].lock, NoOne}
      BY Zenon, <1>4, <1>5
    <2> QED
      BY Zenon, <1>2, <1>6, <2>1, LocksFrame DEF At
  <1>12. FlightsAreLed'
    BY Zenon, <1>2, <1>6, LeaderFrame DEF At, Loading
  <1>13. \A t \in Sessions \ {s} : Mine(t)'
    <2>1. KeptFor(Sessions)
      BY Zenon, <1>2, <1>3, <1>5 DEF KeptFor
    <2> QED
      BY Zenon, <1>2, <1>6, <2>1, SessionsFrame DEF Untouched
  <1>14. Mine(s)'
    <2>1. OpMatchesRecord(s)' /\ MemberStaysMapped(s)'
      BY Zenon, <1>2, <1>3, <1>6 DEF OpMatchesRecord, MemberStaysMapped, Member, At
    <2>2. \A p \in Served(s) : sessions[s].server[p] \in Slots
             /\ projects[p] = sessions[s].server[p] /\ sessions[s].server[p] # n
      BY <1>3, Fields DEF IInv, BoundStaysLoaded, ServedIsActive, Served, EntriesAreMapped
    <2> QED
      BY <1>2, <1>5, <2>1, <2>2 DEF IInv, Mine, BoundStaysLoaded, ServedIsActive, Served
  <1> QED
    BY Zenon, <1>7, <1>8, <1>9, <1>10, <1>11, <1>12, <1>13, <1>14, Assemble

-----------------------------------------------------------------------------
(* Joining a slot.                                                         *)

\* An operation that joins a slot keeps the invariant if it joins the slot it
\* then remembers.
LEMMA JoinedKeeps ==
    ASSUME IInv, NEW s \in Sessions, NEW n \in Slots, Joined(n, s),
           UNCHANGED <<projects, loads, occupancy, flights, sessions, claims>>,
           op' \in [Sessions -> Operations],
           \A t \in Sessions \ {s} : op'[t] = op[t],
           op[s].pc \notin Loading \cup {"evict", "reload"},
           op'[s].pc \notin Loading \cup {"evict", "wait"},
           op'[s].slot = n, OpMatchesRecord(s)',
           sessions[s].at \in {"none", "open"} =>
              /\ projects[op'[s].project] = n
              /\ op'[s].pc \in Active => slot[n].active
    PROVE  IInv'
  <1>1. /\ slot' \in [Slots -> SlotRecords]
        /\ slot'[n].members = slot[n].members \cup {s}
        /\ \A m \in Slots \ {n} : slot'[m] = slot[m]
        /\ \A m \in Slots : slot'[m] = [slot[m] EXCEPT !.members = slot'[m].members]
    BY JoinedEffect DEF IInv
  <1>2. \A m \in Slots :
           /\ slot'[m].at = slot[m].at /\ slot'[m].project = slot[m].project
           /\ slot'[m].lock = slot[m].lock /\ slot'[m].active = slot[m].active
           /\ slot'[m].watcher = slot[m].watcher /\ slot'[m].index = slot[m].index
           /\ slot'[m].bg = slot[m].bg /\ slot'[m].failed = slot[m].failed
           /\ slot[m].members \subseteq slot'[m].members
    <2> SUFFICES ASSUME NEW m \in Slots
                 PROVE  /\ slot'[m].at = slot[m].at /\ slot'[m].project = slot[m].project
                        /\ slot'[m].lock = slot[m].lock /\ slot'[m].active = slot[m].active
                        /\ slot'[m].watcher = slot[m].watcher /\ slot'[m].index = slot[m].index
                        /\ slot'[m].bg = slot[m].bg /\ slot'[m].failed = slot[m].failed
                        /\ slot[m].members \subseteq slot'[m].members
      BY Zenon
    <2>1. slot[m] \in SlotRecords /\ slot[m].members \subseteq slot'[m].members
      BY Zenon, <1>1, Fields DEF IInv
    <2> QED
      BY <1>1, <2>1 DEF SlotRecords
  <1>3. TypeOK'
    BY Zenon, <1>1 DEF IInv, TypeOK
  <1>4. EntriesAreMapped'
    BY Zenon, <1>2, EntriesFrame
  <1>5. LoadersOwnSlots'
    BY Zenon, <1>2, LoadersFrame
  <1>6. SlotsAreTended'
    BY <1>2 DEF IInv, SlotsAreTended, Tended
  <1>7. LocksAreHeld'
    <2>1. \A t \in Sessions : At(t, "reload") =>
             At(t, "reload")' /\ op'[t].slot = op[t].slot
      BY Zenon DEF At
    <2> QED
      BY Zenon, <1>2, <2>1, LocksFrame
  <1>8. FlightsAreLed'
    BY Zenon, FlightsFrame
  <1>9. KeptFor(Sessions)
    BY Zenon, <1>2 DEF KeptFor
  <1>10. \A t \in Sessions \ {s} : Mine(t)'
    BY Zenon, <1>9, SessionsFrame DEF Untouched
  <1>11. MemberStaysMapped(s)'
    BY Zenon, <1>1, <1>2 DEF MemberStaysMapped
  <1>12. Mine(s)'
    BY Zenon, <1>9, <1>11, SelfFrame
  <1> QED
    BY Zenon, <1>3, <1>4, <1>5, <1>6, <1>7, <1>8, <1>10, <1>12, Assemble

\* An operation that gives up, or looks again, changes no slot.
LEMMA MovesOn ==
    ASSUME IInv, NEW s \in Sessions,
           UNCHANGED <<projects, slot, loads, occupancy, flights, sessions, claims>>,
           op' \in [Sessions -> Operations],
           \A t \in Sessions \ {s} : op'[t] = op[t],
           op[s].pc \notin Loading \cup {"evict", "reload"},
           op'[s].pc \notin Loading \cup Member \cup {"evict", "wait"},
           OpMatchesRecord(s)'
    PROVE  IInv'
  <1>1. TypeOK'
    BY Zenon DEF IInv, TypeOK
  <1>2. MemberStaysMapped(s)'
    BY Zenon DEF MemberStaysMapped
  <1>3. /\ EntriesAreMapped' /\ SlotsAreTended' /\ LocksAreHeld'
        /\ \A t \in Sessions : Mine(t)'
    BY Zenon, <1>2, OpOnly DEF At, Untouched
  <1>4. LoadersOwnSlots'
    BY Zenon, LoadersFrame
  <1>5. FlightsAreLed'
    BY Zenon, FlightsFrame
  <1> QED
    BY Zenon, <1>1, <1>3, <1>4, <1>5, Assemble

\* An operation joins the slot it saw, if it is still the map's entry.
LEMMA JoinKeeps ==
    ASSUME IInv, NEW s \in Sessions, Join(s)
    PROVE  IInv'
  <1>1. /\ At(s, "join")
        /\ UNCHANGED <<projects, loads, occupancy, flights, sessions, claims>>
    BY Zenon DEF Join
  <1>2. /\ op[s].slot \in Slots /\ OpMatchesRecord(s) /\ TypeOK
        /\ op[s].pc \notin Loading \cup {"evict", "reload"}
    BY Zenon, <1>1, Fields DEF IInv, OpMatchesRecord, At, Loading
  <1>3. CASE projects[op[s].project] = op[s].slot
    <2>1. Joined(op[s].slot, s) /\ Step(s, "joined")
      BY Zenon, <1>3 DEF Join
    <2>2. /\ op' \in [Sessions -> Operations]
          /\ op'[s].pc = "joined" /\ op'[s].kind = op[s].kind
          /\ op'[s].project = op[s].project /\ op'[s].slot = op[s].slot
          /\ \A t \in Sessions \ {s} : op'[t] = op[t]
      BY Zenon, <1>2, <2>1, StepEffect DEF Pcs, Member
    <2>3. /\ OpMatchesRecord(s)' /\ op'[s].pc \notin Active
          /\ op'[s].pc \notin Loading \cup {"evict", "wait"}
      BY Zenon, <1>1, <1>2, <2>2, Fields DEF OpMatchesRecord, At, Active, Loading
    <2> QED
      BY Zenon, <1>1, <1>2, <1>3, <2>1, <2>2, <2>3, JoinedKeeps
  <1>4. CASE projects[op[s].project] # op[s].slot
    <2>1. Step(s, "look") /\ UNCHANGED slot
      BY Zenon, <1>4 DEF Join
    <2>2. /\ op' \in [Sessions -> Operations]
          /\ op'[s].pc = "look" /\ op'[s].kind = op[s].kind
          /\ op'[s].project = op[s].project /\ op'[s].slot = op[s].slot
          /\ \A t \in Sessions \ {s} : op'[t] = op[t]
      BY Zenon, <1>2, <2>1, StepEffect DEF Pcs
    <2>3. /\ OpMatchesRecord(s)'
          /\ op'[s].pc \notin Loading \cup Member \cup {"evict", "wait"}
      BY Zenon, <1>1, <1>2, <2>2 DEF OpMatchesRecord, At, Loading, Member
    <2> QED
      BY Zenon, <1>1, <1>2, <2>1, <2>2, <2>3, MovesOn
  <1> QED
    BY Zenon, <1>3, <1>4

\* A load is over for an operation that waited for it: it joins the slot that
\* was loaded, or passes the error on.
LEMMA WaitKeeps ==
    ASSUME IInv, NEW s \in Sessions, Wait(s)
    PROVE  IInv'
  <1> DEFINE n == projects[op[s].project]
             o == [NoOp EXCEPT !.pc = "joined", !.kind = op[s].kind,
                               !.project = op[s].project, !.slot = n]
  <1>1. /\ At(s, "wait")
        /\ UNCHANGED <<projects, loads, occupancy, flights, sessions, claims>>
    BY Zenon DEF Wait
  <1>2. /\ op[s] \in Operations /\ op[s].project \in Projects /\ OpMatchesRecord(s)
        /\ n \in Slots \cup {0} /\ TypeOK /\ op[s].kind \in {"open", "index"}
        /\ op[s].pc \notin Loading \cup {"evict", "reload"}
    BY Zenon, <1>1, Fields DEF IInv, OpMatchesRecord, At, Loading
  <1>3. /\ o \in Operations /\ o.pc = "joined" /\ o.slot = n
        /\ o.kind = op[s].kind /\ o.project = op[s].project
    BY Zenon, <1>2 DEF Operations, NoOp, Pcs, Member
  <1>4. CASE op[s].outcome = "ok" /\ n # 0
    <2>1. Joined(n, s) /\ Go(s, o)
      BY Zenon, <1>4 DEF Wait
    <2>2. n \in Slots
      BY Zenon, <1>2, <1>4
    <2> HIDE DEF o
    <2>3. /\ op' \in [Sessions -> Operations] /\ op'[s] = o
          /\ \A t \in Sessions \ {s} : op'[t] = op[t]
      BY Zenon, <1>2, <1>3, <2>1, GoEffect
    <2>4. /\ OpMatchesRecord(s)' /\ op'[s].pc \notin Active
          /\ op'[s].pc \notin Loading \cup {"evict", "wait"}
      BY Zenon, <1>1, <1>2, <1>3, <1>4, <2>3 DEF OpMatchesRecord, At, Active, Loading
    <2>5. op'[s].slot = n /\ projects[op'[s].project] = n
      BY Zenon, <1>3, <2>3
    <2> HIDE DEF n
    <2> QED
      BY Zenon, <1>1, <1>2, <2>1, <2>2, <2>3, <2>4, <2>5, JoinedKeeps
  <1>5. CASE ~(op[s].outcome = "ok" /\ n # 0)
    <2>1. Return(s) /\ UNCHANGED slot
      BY Zenon, <1>5 DEF Wait
    <2>2. /\ op' \in [Sessions -> Operations]
          /\ op'[s].pc = "idle" /\ op'[s].kind = "none"
          /\ \A t \in Sessions \ {s} : op'[t] = op[t]
      BY Zenon, <1>2, <2>1, ReturnEffect
    <2>3. /\ OpMatchesRecord(s)'
          /\ op'[s].pc \notin Loading \cup Member \cup {"evict", "wait"}
      BY Zenon, <2>2 DEF OpMatchesRecord, At, Loading, Member
    <2> QED
      BY Zenon, <1>1, <1>2, <2>1, <2>2, <2>3, MovesOn
  <1> QED
    BY Zenon, <1>4, <1>5

\* add_project_to_session joins the slot it found.
LEMMA EnlistKeeps ==
    ASSUME IInv, NEW s \in Sessions, Enlist(s)
    PROVE  IInv'
  <1>1. /\ At(s, "enlist") /\ Joined(op[s].slot, s) /\ Step(s, "bind")
        /\ UNCHANGED <<projects, loads, occupancy, flights, sessions, claims>>
    BY Zenon DEF Enlist
  <1>2. /\ op[s].slot \in Slots /\ OpMatchesRecord(s) /\ TypeOK
        /\ op[s].pc \notin Loading \cup {"evict", "reload"}
        /\ MemberStaysMapped(s)
    BY Zenon, <1>1, Fields DEF IInv, OpMatchesRecord, At, Loading, Member
  <1>3. /\ op' \in [Sessions -> Operations]
        /\ op'[s].pc = "bind" /\ op'[s].kind = op[s].kind
        /\ op'[s].project = op[s].project /\ op'[s].slot = op[s].slot
        /\ \A t \in Sessions \ {s} : op'[t] = op[t]
    BY Zenon, <1>1, <1>2, StepEffect DEF Pcs, Member
  <1>4. OpMatchesRecord(s)' /\ op'[s].pc \notin Loading \cup {"evict", "wait"}
    BY Zenon, <1>1, <1>2, <1>3 DEF OpMatchesRecord, At, Loading, Member
  <1>5. sessions[s].at \in {"none", "open"} =>
           projects[op'[s].project] = op[s].slot /\ slot[op[s].slot].active
    BY Zenon, <1>1, <1>2, <1>3 DEF MemberStaysMapped, At, Member, Active
  <1> QED
    BY Zenon, <1>1, <1>2, <1>3, <1>4, <1>5, JoinedKeeps

\* A load installs its slot, or joins the one that won and drops its own.
LEMMA InsertKeeps ==
    ASSUME IInv, NEW s \in Sessions, Insert(s)
    PROVE  IInv'
  <1> DEFINE p == op[s].project
             n == op[s].slot
  <1>1. /\ At(s, "insert") /\ Completed(s, "ok", "evict")
        /\ UNCHANGED <<loads, occupancy, flights, sessions, claims>>
    BY Zenon DEF Insert
  <1>2. /\ op[s].pc \in Loading /\ OpMatchesRecord(s) /\ p \in Projects
        /\ n \in Slots /\ n \in 1 .. loads /\ slot[n].at = "built" /\ slot[n].project = p
        /\ slot \in [Slots -> SlotRecords] /\ projects \in [Projects -> Slots \cup {0}]
    <2>1. n \in 1 .. loads /\ slot[n].at = "built" /\ slot[n].project = p
      BY Zenon, <1>1 DEF IInv, LoadersOwnSlots, At, Loading
    <2>2. n \in Slots
      BY <2>1, Fields DEF IInv
    <2> QED
      BY Zenon, <1>1, <2>1, <2>2 DEF IInv, TypeOK, At, OpMatchesRecord, Loading
  <1>3. /\ op' \in [Sessions -> Operations]
        /\ op'[s].pc = "evict" /\ op'[s].kind = op[s].kind
        /\ op'[s].project = p /\ op'[s].slot = n
        /\ \A t \in Sessions \ {s} :
              /\ op'[t].pc = op[t].pc /\ op'[t].kind = op[t].kind
              /\ op'[t].project = op[t].project /\ op'[t].slot = op[t].slot
        /\ FlightsAreLed'
    BY Zenon, <1>1, <1>2, CompletedEffect
  <1>4. OpMatchesRecord(s)' /\ MemberStaysMapped(s)'
    BY Zenon, <1>1, <1>2, <1>3 DEF OpMatchesRecord, MemberStaysMapped, Member, At
  <1>5. op'[s].pc \notin Loading
    BY Zenon, <1>3 DEF Loading
  <1>6. SUFFICES /\ projects' \in [Projects -> Slots \cup {0}]
                 /\ slot' \in [Slots -> SlotRecords]
                 /\ EntriesAreMapped' /\ SlotsAreTended' /\ KeptFor(Sessions)
                 /\ \A m \in Slots \ {n} :
                       slot'[m].at = slot[m].at /\ slot'[m].project = slot[m].project
                 /\ \A m \in Slots : slot'[m].lock \in {slot[m].lock, NoOne}
    <2>1. TypeOK'
      BY Zenon, <1>1, <1>3, <1>6 DEF IInv, TypeOK
    <2>2. LoadersOwnSlots'
      BY Zenon, <1>1, <1>2, <1>3, <1>5, <1>6, LoaderFrame
    <2>3. LocksAreHeld'
      BY Zenon, <1>1, <1>3, <1>6, LocksFrame DEF At
    <2>4. \A t \in Sessions \ {s} : Mine(t)'
      BY Zenon, <1>1, <1>3, <1>6, SessionsFrame DEF Untouched
    <2>5. Mine(s)'
      BY Zenon, <1>1, <1>4, <1>6, SelfFrame
    <2> QED
      BY Zenon, <1>3, <1>6, <2>1, <2>2, <2>3, <2>4, <2>5, Assemble
  <1>7. CASE projects[p] = 0
    <2>1. /\ projects' = [projects EXCEPT ![p] = n]
          /\ slot' = [slot EXCEPT ![n] =
                [slot[n] EXCEPT !.at = "mapped", !.members = {s}]]
      BY Zenon, <1>2, <1>7 DEF Insert
    <2> DEFINE r == [slot[n] EXCEPT !.at = "mapped", !.members = {s}]
    <2>2. /\ r \in SlotRecords /\ r.at = "mapped" /\ r.project = p
          /\ r.members = {s} /\ r.lock = slot[n].lock /\ r.active = slot[n].active
          /\ r.watcher = slot[n].watcher /\ r.index = slot[n].index
          /\ r.bg = slot[n].bg /\ r.failed = slot[n].failed
      <3>1. slot[n] \in SlotRecords
        BY Zenon, <1>2
      <3> QED
        BY Zenon, <1>2, <3>1 DEF SlotRecords
    <2> HIDE DEF r
    <2>3. /\ slot' \in [Slots -> SlotRecords] /\ slot'[n] = r
          /\ \A m \in Slots \ {n} : slot'[m] = slot[m]
      BY Zenon, <1>2, <2>1, <2>2 DEF r
    <2>4. /\ projects' \in [Projects -> Slots \cup {0}] /\ projects'[p] = n
          /\ \A q \in Projects \ {p} : projects'[q] = projects[q]
      BY Zenon, <1>2, <2>1
    <2>5. EntriesAreMapped'
      <3>1. EntriesAreMapped
        BY Zenon DEF IInv
      <3>2. \A q \in Projects \ {p} : projects[q] # 0 =>
               /\ projects[q] \in Slots \ {n} /\ slot[projects[q]].at = "mapped"
               /\ slot[projects[q]].project = q
        BY <1>2, <3>1 DEF EntriesAreMapped
      <3>3. ASSUME NEW q \in Projects, projects'[q] # 0
            PROVE  slot'[projects'[q]].at = "mapped" /\ slot'[projects'[q]].project = q
        <4>1. CASE q = p
          BY Zenon, <2>2, <2>3, <2>4, <4>1
        <4>2. CASE q # p
          BY <2>3, <2>4, <3>2, <3>3, <4>2
        <4> QED
          BY Zenon, <4>1, <4>2
      <3> QED
        BY Zenon, <3>3 DEF EntriesAreMapped
    <2>6. SlotsAreTended'
      BY <1>2, <2>2, <2>3 DEF IInv, SlotsAreTended, Tended
    <2>7. KeptFor(Sessions)
      BY Zenon, <1>2, <1>7, <2>3, <2>4 DEF KeptFor
    <2> QED
      BY Zenon, <2>2, <2>3, <2>4, <2>5, <2>6, <2>7
  <1>8. CASE projects[p] # 0
    <2> DEFINE w == projects[p]
    <2>1. /\ w \in Slots /\ w # n /\ slot[w].at = "mapped"
      BY <1>2, <1>8 DEF IInv, EntriesAreMapped
    <2>2. /\ UNCHANGED projects
          /\ slot' = [slot EXCEPT ![n] = NoSlot,
                                  ![w].members = @ \cup {s}]
      BY Zenon, <1>8 DEF Insert
    <2> HIDE DEF w
    <2> DEFINE r == [slot[w] EXCEPT !.members = @ \cup {s}]
    <2>3. /\ r \in SlotRecords /\ r.at = slot[w].at /\ r.project = slot[w].project
          /\ r.members = slot[w].members \cup {s}
          /\ r.lock = slot[w].lock /\ r.active = slot[w].active
          /\ r.watcher = slot[w].watcher /\ r.index = slot[w].index
          /\ r.bg = slot[w].bg /\ r.failed = slot[w].failed
      BY <1>2, <2>1 DEF SlotRecords
    <2>4. /\ NoSlot \in SlotRecords /\ NoSlot.at = "none" /\ NoSlot.lock = NoOne
          /\ NoSlot.index = "none" /\ NoSlot.active = FALSE
      BY Zenon DEF NoSlot, SlotRecords
    <2>5. /\ slot' \in [Slots -> SlotRecords]
          /\ slot'[w] = r /\ slot'[n] = NoSlot
          /\ \A m \in Slots \ {n, w} : slot'[m] = slot[m]
      BY Zenon, <1>2, <2>1, <2>2, <2>3, <2>4
    <2> HIDE DEF r
    <2>6. EntriesAreMapped'
      BY Zenon, <1>2, <2>1, <2>2, <2>3, <2>5, EntriesFrame
    <2>7. SlotsAreTended'
      BY <1>2, <2>3, <2>4, <2>5 DEF IInv, SlotsAreTended, Tended
    <2>8. KeptFor(Sessions)
      BY Zenon, <1>2, <2>2, <2>3, <2>5 DEF KeptFor
    <2> QED
      BY Zenon, <1>2, <2>2, <2>3, <2>4, <2>5, <2>6, <2>7, <2>8
  <1> QED
    BY Zenon, <1>7, <1>8

-----------------------------------------------------------------------------
(* Steps that change fields of one slot.                                   *)

\* What such a step keeps if the slot stays where it is.
LEMMA OneSlot ==
    ASSUME IInv, NEW n \in Slots, UNCHANGED projects,
           \A m \in Slots \ {n} : slot'[m] = slot[m],
           slot'[n].at = slot[n].at, slot'[n].project = slot[n].project,
           slot'[n].members = slot[n].members, slot[n].active => slot'[n].active,
           Tended(n)'
    PROVE  /\ EntriesAreMapped' /\ SlotsAreTended' /\ KeptFor(Sessions)
           /\ \A m \in Slots :
                 slot'[m].at = slot[m].at /\ slot'[m].project = slot[m].project
  <1>1. \A m \in Slots :
           slot'[m].at = slot[m].at /\ slot'[m].project = slot[m].project
    BY Zenon
  <1>2. EntriesAreMapped'
    BY Zenon, <1>1, EntriesFrame
  <1>3. SlotsAreTended'
    BY DEF IInv, SlotsAreTended, Tended
  <1>4. KeptFor(Sessions)
    BY Zenon DEF KeptFor
  <1> QED
    BY Zenon, <1>1, <1>2, <1>3, <1>4

\* A member of the slot does something to it.
LEMMA MemberKeeps ==
    ASSUME IInv, NEW s \in Sessions, NEW n \in Slots,
           UNCHANGED <<projects, loads, occupancy, flights, sessions, claims>>,
           slot' \in [Slots -> SlotRecords],
           \A m \in Slots \ {n} : slot'[m] = slot[m],
           slot'[n].at = slot[n].at, slot'[n].project = slot[n].project,
           slot'[n].members = slot[n].members, slot[n].active => slot'[n].active,
           Tended(n)',
           op' \in [Sessions -> Operations],
           \A t \in Sessions \ {s} : op'[t] = op[t],
           op[s].pc \notin Loading \cup {"evict"},
           op'[s].pc \notin Loading \cup {"evict", "wait"},
           OpMatchesRecord(s)',
           op'[s].pc \in Member =>
              /\ op[s].pc \in Member /\ op'[s].project = op[s].project
              /\ op[s].slot = n /\ op'[s].slot = n
              /\ op'[s].pc \in Active => slot'[n].active,
           LocksAreHeld'
    PROVE  IInv'
  <1>1. /\ EntriesAreMapped' /\ SlotsAreTended' /\ KeptFor(Sessions)
        /\ \A m \in Slots :
              slot'[m].at = slot[m].at /\ slot'[m].project = slot[m].project
    BY Zenon, OneSlot
  <1>2. TypeOK'
    BY Zenon DEF IInv, TypeOK
  <1>3. LoadersOwnSlots'
    BY Zenon, <1>1, LoadersFrame
  <1>4. FlightsAreLed'
    BY Zenon, FlightsFrame
  <1>5. \A t \in Sessions \ {s} : Mine(t)'
    BY Zenon, <1>1, SessionsFrame DEF Untouched
  <1>6. MemberStaysMapped(s)'
    BY DEF IInv, MemberStaysMapped
  <1>7. Mine(s)'
    BY Zenon, <1>1, <1>6, SelfFrame
  <1> QED
    BY Zenon, <1>1, <1>2, <1>3, <1>4, <1>5, <1>7, Assemble

\* An open retries the background load that failed.
LEMMA RetryKeeps ==
    ASSUME IInv, NEW s \in Sessions, Retry(s)
    PROVE  IInv'
  <1>0. PICK n \in Slots : n = op[s].slot
    BY Zenon, Fields DEF IInv, OpMatchesRecord, Member, At, Retry
  <1> DEFINE r == IF ~Retries(n) THEN slot[n]
                  ELSE IF slot[n].index # "empty" THEN [slot[n] EXCEPT !.failed = FALSE]
                  ELSE [slot[n] EXCEPT !.failed = FALSE, !.index = "loading", !.bg = "load"]
  <1>1. /\ At(s, "joined") /\ op[s].kind = "open" /\ Step(s, "activate")
        /\ slot' = [slot EXCEPT ![n] = r]
        /\ UNCHANGED <<projects, loads, occupancy, flights, sessions, claims>>
    BY Zenon, <1>0 DEF Retry
  <1>2. /\ n \in Slots /\ OpMatchesRecord(s) /\ TypeOK /\ slot[n] \in SlotRecords
        /\ slot \in [Slots -> SlotRecords] /\ Tended(n)
        /\ op[s].pc \notin Loading \cup {"evict"} /\ op[s].pc \in Member
    BY <1>0, <1>1, Fields DEF IInv, TypeOK, OpMatchesRecord, At, Loading, Member, SlotsAreTended
  <1> DEFINE Retried(q) ==
             /\ q \in SlotRecords /\ q.at = slot[n].at /\ q.project = slot[n].project
             /\ q.members = slot[n].members /\ q.active = slot[n].active
             /\ q.watcher = slot[n].watcher /\ q.lock = slot[n].lock
             /\ \/ q.index = slot[n].index /\ q.bg = slot[n].bg /\ q.failed = slot[n].failed
                \/ q.index = slot[n].index /\ q.bg = slot[n].bg /\ q.index # "empty"
                \/ q.index = "loading" /\ q.bg = "load"
  <1>3. Retried(r)
    <2>1. CASE ~Retries(n)
      BY Zenon, <1>2, <2>1
    <2>2. CASE Retries(n) /\ slot[n].index # "empty"
      <3>1. r = [slot[n] EXCEPT !.failed = FALSE]
        BY Zenon, <2>2
      <3> HIDE DEF r
      <3> QED
        BY Zenon, <1>2, <2>2, <3>1 DEF SlotRecords
    <2>3. CASE Retries(n) /\ slot[n].index = "empty"
      <3>1. r = [slot[n] EXCEPT !.failed = FALSE, !.index = "loading", !.bg = "load"]
        BY Zenon, <2>3
      <3> HIDE DEF r
      <3> QED
        BY Zenon, <1>2, <3>1 DEF SlotRecords
    <2> QED
      BY Zenon, <2>1, <2>2, <2>3
  <1> HIDE DEF r
  <1>4. /\ slot' \in [Slots -> SlotRecords] /\ slot'[n] = r
        /\ \A m \in Slots \ {n} : slot'[m] = slot[m]
    BY Zenon, <1>1, <1>2, <1>3
  <1>5. /\ op' \in [Sessions -> Operations]
        /\ op'[s].pc = "activate" /\ op'[s].kind = op[s].kind
        /\ op'[s].project = op[s].project /\ op'[s].slot = n
        /\ \A t \in Sessions \ {s} : op'[t] = op[t]
    BY <1>0, <1>1, <1>2, StepEffect DEF Pcs, Member
  <1>6. Tended(n)'
    BY Zenon, <1>2, <1>3, <1>4 DEF Tended
  <1>7. /\ OpMatchesRecord(s)' /\ op'[s].pc \notin Loading \cup {"evict", "wait"}
        /\ op'[s].pc \notin Active
    BY Zenon, <1>0, <1>1, <1>2, <1>5 DEF OpMatchesRecord, At, Loading, Member, Active
  <1>8. LocksAreHeld'
    <2>1. \A m \in Slots : slot'[m].lock \in {slot[m].lock, NoOne}
      BY Zenon, <1>3, <1>4
    <2> QED
      BY Zenon, <1>1, <1>5, <2>1, LocksFrame DEF At
  <1> QED
    BY Zenon, <1>0, <1>1, <1>2, <1>3, <1>4, <1>5, <1>6, <1>7, <1>8, MemberKeeps

\* An operation activates the slot.
LEMMA ActivateKeeps ==
    ASSUME IInv, NEW s \in Sessions, Activate(s)
    PROVE  IInv'
  <1>0. PICK n \in Slots : n = op[s].slot
    BY Zenon, Fields DEF IInv, OpMatchesRecord, Member, At, Activate
  <1> DEFINE r == [slot[n] EXCEPT !.active = TRUE, !.watcher = @ \/ ~slot[n].active]
             pc == IF op[s].kind = "open" THEN "record" ELSE "add"
  <1>1. /\ At(s, "activate") /\ slot[n].lock = NoOne /\ Step(s, pc)
        /\ slot' = [slot EXCEPT ![n] = r]
        /\ UNCHANGED <<projects, loads, occupancy, flights, sessions, claims>>
    BY Zenon, <1>0 DEF Activate
  <1>2. /\ n \in Slots /\ OpMatchesRecord(s) /\ TypeOK /\ slot[n] \in SlotRecords
        /\ slot \in [Slots -> SlotRecords] /\ Tended(n)
        /\ op[s].pc \notin Loading \cup {"evict"} /\ op[s].pc \in Member
        /\ pc \in Pcs
    BY <1>0, <1>1, Fields DEF IInv, TypeOK, OpMatchesRecord, At, Loading, Member,
       SlotsAreTended, Pcs
  <1>3. /\ r \in SlotRecords /\ r.at = slot[n].at /\ r.project = slot[n].project
        /\ r.members = slot[n].members /\ r.active = TRUE
        /\ r.watcher = (slot[n].watcher \/ ~slot[n].active) /\ r.lock = slot[n].lock
        /\ r.index = slot[n].index /\ r.bg = slot[n].bg /\ r.failed = slot[n].failed
    BY Zenon, <1>2 DEF SlotRecords
  <1> HIDE DEF r
  <1>4. /\ slot' \in [Slots -> SlotRecords] /\ slot'[n] = r
        /\ \A m \in Slots \ {n} : slot'[m] = slot[m]
    BY Zenon, <1>1, <1>2, <1>3
  <1>5. /\ op' \in [Sessions -> Operations]
        /\ op'[s].pc = pc /\ op'[s].kind = op[s].kind
        /\ op'[s].project = op[s].project /\ op'[s].slot = n
        /\ \A t \in Sessions \ {s} : op'[t] = op[t]
    BY Zenon, <1>0, <1>1, <1>2, StepEffect
  <1>6. Tended(n)'
    BY Zenon, <1>1, <1>2, <1>3, <1>4 DEF Tended
  <1>7. OpMatchesRecord(s)' /\ op'[s].pc \notin Loading \cup {"evict", "wait"}
    BY Zenon, <1>0, <1>1, <1>2, <1>5, Fields DEF OpMatchesRecord, At, Loading, Member
  <1>8. LocksAreHeld'
    <2>1. \A m \in Slots : slot'[m].lock \in {slot[m].lock, NoOne}
      BY Zenon, <1>3, <1>4
    <2> QED
      BY Zenon, <1>1, <1>5, <2>1, LocksFrame DEF At
  <1> HIDE DEF pc
  <1> QED
    BY Zenon, <1>0, <1>1, <1>2, <1>3, <1>4, <1>5, <1>6, <1>7, <1>8, MemberKeeps

\* A reload takes the mutation lock and aborts the watcher.
LEMMA BeginReloadKeeps ==
    ASSUME IInv, NEW s \in Sessions, BeginReload(s)
    PROVE  IInv'
  <1>0. PICK n \in Slots : n = op[s].slot
    BY Zenon, Fields DEF IInv, OpMatchesRecord, Member, At, BeginReload
  <1> DEFINE r == [slot[n] EXCEPT !.lock = s, !.watcher = FALSE]
  <1>1. /\ At(s, "joined") /\ op[s].kind = "index" /\ slot[n].lock = NoOne
        /\ Step(s, "reload") /\ slot' = [slot EXCEPT ![n] = r]
        /\ UNCHANGED <<projects, loads, occupancy, flights, sessions, claims>>
    BY Zenon, <1>0 DEF BeginReload
  <1>2. /\ OpMatchesRecord(s) /\ TypeOK /\ slot[n] \in SlotRecords
        /\ slot \in [Slots -> SlotRecords] /\ Tended(n) /\ s # NoOne
        /\ op[s].pc \notin Loading \cup {"evict"} /\ op[s].pc \in Member
    BY <1>0, <1>1, Fields, ConstantsOK DEF IInv, TypeOK, OpMatchesRecord, At,
       Loading, Member, SlotsAreTended
  <1>3. /\ r \in SlotRecords /\ r.at = slot[n].at /\ r.project = slot[n].project
        /\ r.members = slot[n].members /\ r.active = slot[n].active /\ r.lock = s
        /\ r.index = slot[n].index /\ r.bg = slot[n].bg /\ r.failed = slot[n].failed
    BY Zenon, <1>2 DEF SlotRecords
  <1> HIDE DEF r
  <1>4. /\ slot' \in [Slots -> SlotRecords] /\ slot'[n] = r
        /\ \A m \in Slots \ {n} : slot'[m] = slot[m]
    BY Zenon, <1>1, <1>2, <1>3
  <1>5. /\ op' \in [Sessions -> Operations]
        /\ op'[s].pc = "reload" /\ op'[s].kind = op[s].kind
        /\ op'[s].project = op[s].project /\ op'[s].slot = n
        /\ \A t \in Sessions \ {s} : op'[t] = op[t]
    BY Zenon, <1>0, <1>1, <1>2, StepEffect DEF Pcs, Member
  <1>6. Tended(n)'
    BY Zenon, <1>2, <1>3, <1>4 DEF Tended
  <1>7. /\ OpMatchesRecord(s)' /\ op'[s].pc \notin Loading \cup {"evict", "wait"}
        /\ op'[s].pc \notin Active
    BY Zenon, <1>0, <1>1, <1>2, <1>5 DEF OpMatchesRecord, At, Loading, Member, Active
  <1>8. LocksAreHeld'
    <2>1. \A m \in Slots : slot[m].lock # NoOne =>
             /\ slot[m].lock \in Sessions \ {s} /\ op[slot[m].lock].pc = "reload"
             /\ op[slot[m].lock].slot = m
      BY Zenon, <1>1, LockFacts DEF At
    <2> QED
      BY <1>3, <1>4, <1>5, <2>1 DEF LocksAreHeld, At
  <1> QED
    BY Zenon, <1>0, <1>1, <1>2, <1>3, <1>4, <1>5, <1>6, <1>7, <1>8, MemberKeeps

\* A reload ends, with a new index or an error; the slot is watched again.
LEMMA EndReloadKeeps ==
    ASSUME IInv, NEW s \in Sessions, Reload(s) \/ ReloadFails(s)
    PROVE  IInv'
  <1>0. PICK n \in Slots : n = op[s].slot
    BY Zenon, Fields DEF IInv, OpMatchesRecord, Member, At, Reload, ReloadFails
  <1>1. PICK i \in {slot[n].index, "settled"} :
           slot' = [slot EXCEPT ![n] = [slot[n] EXCEPT !.lock = NoOne, !.watcher = TRUE,
                                                       !.index = i]]
    <2>1. slot[n] \in SlotRecords /\ slot \in [Slots -> SlotRecords]
      BY Zenon, Fields DEF IInv, TypeOK
    <2>2. CASE Reload(s)
      BY Zenon, <1>0, <2>2 DEF Reload
    <2>3. CASE ReloadFails(s)
      <3>1. slot' = [slot EXCEPT ![n] = [slot[n] EXCEPT !.lock = NoOne, !.watcher = TRUE]]
        BY Zenon, <1>0, <2>3 DEF ReloadFails
      <3>2. [slot[n] EXCEPT !.lock = NoOne, !.watcher = TRUE]
               = [slot[n] EXCEPT !.lock = NoOne, !.watcher = TRUE,
                                 !.index = slot[n].index]
        BY Zenon, <2>1 DEF SlotRecords
      <3> QED
        BY Zenon, <3>1, <3>2
    <2> QED
      BY Zenon, <2>2, <2>3
  <1> DEFINE r == [slot[n] EXCEPT !.lock = NoOne, !.watcher = TRUE, !.index = i]
  <1>2. /\ At(s, "reload")
        /\ Step(s, "activate") \/ Return(s)
        /\ UNCHANGED <<projects, loads, occupancy, flights, sessions, claims>>
    BY Zenon DEF Reload, ReloadFails
  <1>3. /\ OpMatchesRecord(s) /\ TypeOK /\ slot[n] \in SlotRecords
        /\ slot \in [Slots -> SlotRecords] /\ Tended(n)
        /\ op[s].pc \notin Loading \cup {"evict"} /\ op[s].pc \in Member
    BY Zenon, <1>2, Fields DEF IInv, TypeOK, At, Loading, Member, SlotsAreTended
  <1>4. /\ r \in SlotRecords /\ r.at = slot[n].at /\ r.project = slot[n].project
        /\ r.members = slot[n].members /\ r.active = slot[n].active
        /\ r.lock = NoOne /\ r.watcher = TRUE
        /\ r.index = i /\ r.bg = slot[n].bg /\ r.failed = slot[n].failed
    BY Zenon, <1>3 DEF SlotRecords
  <1> HIDE DEF r
  <1>5. /\ slot' \in [Slots -> SlotRecords] /\ slot'[n] = r
        /\ \A m \in Slots \ {n} : slot'[m] = slot[m]
    BY Zenon, <1>1, <1>3, <1>4 DEF r
  <1>6. /\ op' \in [Sessions -> Operations]
        /\ \/ /\ op'[s].pc = "activate" /\ op'[s].kind = op[s].kind
              /\ op'[s].project = op[s].project /\ op'[s].slot = n
           \/ op'[s].pc = "idle" /\ op'[s].kind = "none"
        /\ \A t \in Sessions \ {s} : op'[t] = op[t]
    <2>1. CASE Step(s, "activate")
      BY <1>0, <1>3, <2>1, StepEffect DEF Pcs, Member
    <2>2. CASE Return(s)
      BY Zenon, <1>3, <2>2, ReturnEffect
    <2> QED
      BY Zenon, <1>2, <2>1, <2>2
  <1>7. Tended(n)'
    BY <1>1, <1>3, <1>4, <1>5 DEF Tended
  <1>8. /\ OpMatchesRecord(s)' /\ op'[s].pc \notin Loading \cup {"evict", "wait"}
        /\ op'[s].pc \notin Active
        /\ op'[s].pc \in Member => op'[s].project = op[s].project /\ op'[s].slot = n
    BY Zenon, <1>0, <1>2, <1>3, <1>6 DEF OpMatchesRecord, At, Loading, Member, Active
  <1>9. LocksAreHeld'
    <2>1. \A m \in Slots \ {n} : slot[m].lock # NoOne =>
             /\ slot[m].lock \in Sessions \ {s} /\ op[slot[m].lock].pc = "reload"
             /\ op[slot[m].lock].slot = m
      BY Zenon, <1>0, <1>2, LockFacts DEF At
    <2> QED
      BY <1>4, <1>5, <1>6, <2>1 DEF LocksAreHeld, At
  <1> QED
    BY Zenon, <1>0, <1>2, <1>3, <1>4, <1>5, <1>6, <1>7, <1>8, <1>9, MemberKeeps

-----------------------------------------------------------------------------
(* Leaving slots.                                                          *)

\* Members leave slots, which are kept for everyone else.
LEMMA LeaveEffect ==
    ASSUME IInv, NEW s \in Sessions, NEW L, L \subseteq Slots, UNCHANGED projects,
           slot' = [n \in Slots |-> IF n \in L THEN Left(n, s) ELSE slot[n]]
    PROVE  /\ slot' \in [Slots -> SlotRecords]
           /\ EntriesAreMapped' /\ SlotsAreTended' /\ KeptFor(Sessions \ {s})
           /\ \A n \in Slots :
                 /\ slot'[n].at = slot[n].at /\ slot'[n].project = slot[n].project
                 /\ slot'[n].lock = slot[n].lock
  <1>1. \A n \in Slots : slot[n] \in SlotRecords
    BY Zenon, Fields DEF IInv
  <1>2. ASSUME NEW n \in Slots
        PROVE  /\ slot'[n] \in SlotRecords
               /\ slot'[n].at = slot[n].at /\ slot'[n].project = slot[n].project
               /\ slot'[n].lock = slot[n].lock /\ slot'[n].active = slot[n].active
               /\ slot'[n].watcher = slot[n].watcher /\ slot'[n].index = slot[n].index
               /\ slot'[n].bg = slot[n].bg /\ slot'[n].failed = slot[n].failed
               /\ slot[n].members \ {s} \subseteq slot'[n].members
    <2>1. CASE n \in L
      <3>1. slot'[n] = [slot[n] EXCEPT !.members = @ \ {s}]
        BY Zenon, <2>1 DEF Left
      <3>2. slot[n] \in SlotRecords
        BY Zenon, <1>1
      <3> QED
        BY <3>1, <3>2 DEF SlotRecords
    <2>2. CASE n \notin L
      BY Zenon, <1>1, <2>2
    <2> QED
      BY Zenon, <2>1, <2>2
  <1>3. slot' \in [Slots -> SlotRecords]
    BY Zenon, <1>2
  <1>4. EntriesAreMapped'
    BY Zenon, <1>2, EntriesFrame
  <1>5. SlotsAreTended'
    BY <1>2 DEF IInv, SlotsAreTended, Tended
  <1>6. KeptFor(Sessions \ {s})
    BY Zenon, <1>2 DEF KeptFor
  <1> QED
    BY Zenon, <1>2, <1>3, <1>4, <1>5, <1>6

\* A session that is gone needs no slot.
LEMMA GoneFrame ==
    ASSUME IInv, NEW s \in Sessions, sessions'[s].at \in {"closing", "closed"},
           Served(s)' = {}, OpMatchesRecord(s)'
    PROVE  Mine(s)'
  BY Zenon DEF Mine, MemberStaysMapped, ServedIsActive

\* An attach whose session closed leaves the map's current slot.
LEMMA DetachKeeps ==
    ASSUME IInv, NEW s \in Sessions, Detach(s)
    PROVE  IInv'
  <1> DEFINE n == projects[op[s].project]
  <1>1. /\ At(s, "detach") /\ Return(s)
        /\ slot' = IF n = 0 THEN slot ELSE [slot EXCEPT ![n] = Left(n, s)]
        /\ UNCHANGED <<projects, loads, occupancy, flights, sessions, claims>>
    BY Zenon DEF Detach
  <1>2. /\ OpMatchesRecord(s) /\ n \in Slots \cup {0}
        /\ slot \in [Slots -> SlotRecords]
    BY Zenon, <1>1, Fields DEF IInv, TypeOK, OpMatchesRecord, At
  <1>3. /\ {n} \cap Slots \subseteq Slots
        /\ slot' = [m \in Slots |-> IF m \in {n} \cap Slots THEN Left(m, s) ELSE slot[m]]
    BY Zenon, <1>1, <1>2, Fields DEF IInv
  <1>4. /\ slot' \in [Slots -> SlotRecords]
        /\ EntriesAreMapped' /\ SlotsAreTended' /\ KeptFor(Sessions \ {s})
        /\ \A m \in Slots :
              /\ slot'[m].at = slot[m].at /\ slot'[m].project = slot[m].project
              /\ slot'[m].lock = slot[m].lock
    BY Zenon, <1>1, <1>3, LeaveEffect
  <1>5. /\ op' \in [Sessions -> Operations]
        /\ op'[s].pc = "idle" /\ op'[s].kind = "none"
        /\ \A t \in Sessions \ {s} : op'[t] = op[t]
    BY Zenon, <1>1, ReturnEffect DEF IInv
  <1>6. TypeOK'
    BY Zenon, <1>1, <1>4, <1>5 DEF IInv, TypeOK
  <1>7. LoadersOwnSlots'
    BY Zenon, <1>1, <1>4, <1>5, LoadersFrame DEF Loading
  <1>8. LocksAreHeld'
    BY Zenon, <1>1, <1>4, <1>5, LocksFrame DEF At
  <1>9. FlightsAreLed'
    BY Zenon, <1>1, <1>5, FlightsFrame DEF Loading, At
  <1>10. \A t \in Sessions \ {s} : Mine(t)'
    BY Zenon, <1>1, <1>4, <1>5, SessionsFrame DEF Untouched
  <1>11. Mine(s)'
    <2>1. sessions'[s].at \in {"closing", "closed"} /\ Served(s)' = {}
      BY Zenon, <1>1, <1>2 DEF IInv, OpMatchesRecord, ServedIsActive, Served, At
    <2>2. OpMatchesRecord(s)'
      BY Zenon, <1>5 DEF OpMatchesRecord, At, Member
    <2> QED
      BY Zenon, <2>1, <2>2, GoneFrame
  <1> QED
    BY Zenon, <1>4, <1>6, <1>7, <1>8, <1>9, <1>10, <1>11, Assemble

\* A closed session is taken out of every slot that lists it.
LEMMA FinishRemovedKeeps ==
    ASSUME IInv, NEW s \in Sessions, FinishRemoved(s)
    PROVE  IInv'
  <1> DEFINE L == {n \in Slots : slot[n].at = "mapped"}
  <1>1. /\ sessions[s].at = "closing"
        /\ sessions' = [sessions EXCEPT ![s] = [sessions[s] EXCEPT !.at = "closed"]]
        /\ slot' = [n \in Slots |-> IF n \in L THEN Left(n, s) ELSE slot[n]]
        /\ UNCHANGED <<projects, loads, occupancy, flights, op, claims>>
    BY Zenon DEF FinishRemoved
  <1>2. /\ L \subseteq Slots /\ sessions \in [Sessions -> SessionRecords]
        /\ sessions[s] \in SessionRecords
    BY Zenon DEF IInv, TypeOK
  <1> HIDE DEF L
  <1>3. /\ slot' \in [Slots -> SlotRecords]
        /\ EntriesAreMapped' /\ SlotsAreTended' /\ KeptFor(Sessions \ {s})
        /\ \A m \in Slots :
              /\ slot'[m].at = slot[m].at /\ slot'[m].project = slot[m].project
              /\ slot'[m].lock = slot[m].lock
    BY Zenon, <1>1, <1>2, LeaveEffect
  <1>4. /\ sessions' \in [Sessions -> SessionRecords]
        /\ sessions'[s].at = "closed" /\ sessions'[s].server = sessions[s].server
        /\ \A t \in Sessions \ {s} : sessions'[t] = sessions[t]
    <2>1. /\ [sessions[s] EXCEPT !.at = "closed"] \in SessionRecords
          /\ [sessions[s] EXCEPT !.at = "closed"].at = "closed"
          /\ [sessions[s] EXCEPT !.at = "closed"].server = sessions[s].server
      BY Zenon, <1>2 DEF SessionRecords
    <2> QED
      BY Zenon, <1>1, <1>2, <2>1
  <1>5. TypeOK'
    BY Zenon, <1>1, <1>3, <1>4 DEF IInv, TypeOK
  <1>6. LoadersOwnSlots'
    BY Zenon, <1>1, <1>3, LoadersFrame
  <1>7. LocksAreHeld'
    BY Zenon, <1>1, <1>3, LocksFrame DEF At
  <1>8. FlightsAreLed'
    BY Zenon, <1>1, FlightsFrame
  <1>9. \A t \in Sessions \ {s} : Mine(t)'
    BY Zenon, <1>1, <1>3, <1>4, SessionsFrame DEF Untouched
  <1>10. Mine(s)'
    <2>1. Served(s)' = {}
      BY <1>1, <1>4 DEF IInv, ServedIsActive, Served
    <2>2. OpMatchesRecord(s)'
      BY Zenon, <1>1, <1>4 DEF IInv, OpMatchesRecord, At
    <2> QED
      BY Zenon, <1>4, <2>1, <2>2, GoneFrame
  <1> QED
    BY Zenon, <1>3, <1>5, <1>6, <1>7, <1>8, <1>9, <1>10, Assemble

-----------------------------------------------------------------------------
(* Steps that change a session record and no slot.                         *)

\* Such a step keeps the invariant if its session is right.
LEMMA RecordOnly ==
    ASSUME IInv, NEW s \in Sessions,
           UNCHANGED <<projects, slot, loads, occupancy, flights>>,
           claims' \subseteq Sessions, sessions' \in [Sessions -> SessionRecords],
           op' \in [Sessions -> Operations],
           \A t \in Sessions \ {s} : sessions'[t] = sessions[t] /\ op'[t] = op[t],
           \/ op'[s] = op[s]
           \/ /\ op[s].pc \notin Loading \cup {"evict", "reload"}
              /\ op'[s].pc \notin Loading \cup {"evict", "wait"},
           Mine(s)'
    PROVE  IInv'
  <1>1. TypeOK'
    BY Zenon DEF IInv, TypeOK
  <1>2. EntriesAreMapped' /\ SlotsAreTended'
    BY Zenon DEF IInv, EntriesAreMapped, SlotsAreTended, Tended
  <1>3. LoadersOwnSlots'
    BY Zenon, LoadersFrame
  <1>4. LocksAreHeld'
    <2>1. \A t \in Sessions : At(t, "reload") =>
             At(t, "reload")' /\ op'[t].slot = op[t].slot
      BY Zenon DEF At
    <2> QED
      BY Zenon, <2>1, LocksFrame
  <1>5. FlightsAreLed'
    BY Zenon, FlightsFrame
  <1>6. \A t \in Sessions \ {s} : Mine(t)'
    <2>1. KeptFor(Sessions)
      BY Zenon DEF KeptFor
    <2> QED
      BY Zenon, <2>1, SessionsFrame DEF Untouched
  <1> QED
    BY Zenon, <1>1, <1>2, <1>3, <1>4, <1>5, <1>6, Assemble

\* The session is recorded, with the server that reads the slot it joined.
LEMMA RecordKeeps ==
    ASSUME IInv, NEW s \in Sessions, Record(s)
    PROVE  IInv'
  <1> DEFINE p == op[s].project
             n == op[s].slot
             r == [NoSession EXCEPT !.at = "open", !.active = p, !.server[p] = n]
  <1>1. /\ At(s, "record") /\ Return(s)
        /\ sessions' = [sessions EXCEPT ![s] = r]
        /\ UNCHANGED <<projects, slot, loads, occupancy, flights, claims>>
    BY Zenon DEF Record
  <1>2. /\ n \in Slots /\ p \in Projects /\ sessions[s].at = "none" /\ TypeOK
        /\ projects[p] = n /\ s \in slot[n].members /\ slot[n].active
        /\ sessions \in [Sessions -> SessionRecords]
        /\ op[s].pc \notin Loading \cup {"evict", "reload"}
    BY <1>1, Fields DEF IInv, TypeOK, OpMatchesRecord, MemberStaysMapped, At, Member,
       Active, Loading
  <1>3. /\ r \in SessionRecords /\ r.at = "open" /\ r.active = p
        /\ r.server[p] = n /\ \A q \in Projects \ {p} : r.server[q] = 0
    BY Zenon, <1>2 DEF NoSession, SessionRecords
  <1> HIDE DEF r
  <1>4. /\ sessions' \in [Sessions -> SessionRecords] /\ sessions'[s] = r
        /\ \A t \in Sessions \ {s} : sessions'[t] = sessions[t]
    BY Zenon, <1>1, <1>2, <1>3
  <1>5. /\ op' \in [Sessions -> Operations]
        /\ op'[s].pc = "idle" /\ op'[s].kind = "none"
        /\ \A t \in Sessions \ {s} : op'[t] = op[t]
    BY Zenon, <1>1, <1>2, ReturnEffect
  <1>6. Mine(s)'
    <2>1. OpMatchesRecord(s)' /\ MemberStaysMapped(s)'
      BY Zenon, <1>5 DEF OpMatchesRecord, MemberStaysMapped, At, Member
    <2>2. Served(s)' = {p}
      BY <1>2, <1>3, <1>4, Fields DEF Served
    <2> HIDE DEF p, n
    <2> QED
      BY Zenon, <1>1, <1>2, <1>3, <1>4, <2>1, <2>2 DEF Mine, ServedIsActive
  <1>7. op'[s].pc \notin Loading \cup {"evict", "wait"} /\ claims' \subseteq Sessions
    BY Zenon, <1>1, <1>2, <1>5 DEF Loading, TypeOK
  <1> QED
    BY Zenon, <1>1, <1>2, <1>4, <1>5, <1>6, <1>7, RecordOnly

\* add_project_to_session attaches the slot, if the session is still open.
LEMMA BindKeeps ==
    ASSUME IInv, NEW s \in Sessions, Bind(s)
    PROVE  IInv'
  <1> DEFINE p == op[s].project
             n == op[s].slot
             r == [sessions[s] EXCEPT !.server[p] = n]
  <1>1. /\ At(s, "bind")
        /\ UNCHANGED <<projects, slot, loads, occupancy, flights, claims>>
    BY Zenon DEF Bind
  <1>2. /\ n \in Slots /\ p \in Projects /\ TypeOK /\ OpMatchesRecord(s)
        /\ sessions[s].at = "open" =>
              projects[p] = n /\ s \in slot[n].members /\ slot[n].active
        /\ sessions \in [Sessions -> SessionRecords] /\ sessions[s] \in SessionRecords
        /\ op[s].pc \notin Loading \cup {"evict", "reload"} /\ claims \subseteq Sessions
    BY Zenon, <1>1, Fields DEF IInv, TypeOK, OpMatchesRecord, MemberStaysMapped, At, Member,
       Active, Loading
  <1>3. CASE sessions[s].at = "open"
    <2>1. Step(s, "focus") /\ sessions' = [sessions EXCEPT ![s] = r]
      BY Zenon, <1>3 DEF Bind
    <2>2. /\ r \in SessionRecords /\ r.at = sessions[s].at /\ r.active = sessions[s].active
          /\ r.server = [sessions[s].server EXCEPT ![p] = n]
          /\ sessions[s].server \in [Projects -> Slots \cup {0}]
      BY Zenon, <1>2 DEF SessionRecords
    <2> HIDE DEF r
    <2>3. /\ sessions' \in [Sessions -> SessionRecords] /\ sessions'[s] = r
          /\ \A t \in Sessions \ {s} : sessions'[t] = sessions[t]
      BY Zenon, <1>2, <2>1, <2>2
    <2>4. /\ op' \in [Sessions -> Operations]
          /\ op'[s].pc = "focus" /\ op'[s].kind = op[s].kind
          /\ op'[s].project = p /\ op'[s].slot = n
          /\ \A t \in Sessions \ {s} : op'[t] = op[t]
      BY Zenon, <1>2, <2>1, StepEffect DEF Pcs, Member
    <2>5. r.server[p] = n /\ \A q \in Projects \ {p} : r.server[q] = sessions[s].server[q]
      BY Zenon, <1>2, <2>2
    <2>6. Mine(s)'
      <3>1. OpMatchesRecord(s)'
        BY Zenon, <1>1, <1>2, <1>3, <2>2, <2>3, <2>4 DEF OpMatchesRecord, At, Member
      <3>2. MemberStaysMapped(s)'
        BY Zenon, <1>1, <1>2, <1>3, <2>4 DEF MemberStaysMapped, Member, Active
      <3>3. \A q : (q \in Served(s)') = (q \in Served(s) \/ q = p)
        <4>1. \A q \in Projects : (q \in Served(s)') = (q \in Served(s) \/ q = p)
          <5>1. n # 0
            BY <1>2, ConstantsOK DEF Slots
          <5> QED
            BY <1>2, <2>3, <2>5, <5>1 DEF Served
        <4>2. \A q : (q \in Served(s)' \/ q \in Served(s)) => q \in Projects
          BY Zenon DEF Served
        <4> QED
          BY <1>2, <4>1, <4>2
      <3>4. /\ sessions[s].active \in Served(s)
            /\ \A q \in Served(s) : /\ projects[q] = sessions[s].server[q]
                                    /\ s \in slot[projects[q]].members
                                    /\ slot[sessions[s].server[q]].active
                                    /\ q \in Projects
        BY Zenon, <1>3 DEF IInv, BoundStaysLoaded, ServedIsActive, Served
      <3>5. ServedIsActive(s)'
        BY Zenon, <1>1, <1>2, <1>3, <2>2, <2>3, <2>5, <3>3, <3>4 DEF ServedIsActive
      <3>6. /\ sessions'[s].active \in Served(s)'
            /\ \A q \in Served(s)' :
                  projects'[q] = sessions'[s].server[q] /\ s \in slot'[projects'[q]].members
        <4>1. sessions'[s].active = sessions[s].active
          BY Zenon, <2>2, <2>3
        <4>2. ASSUME NEW q \in Served(s)'
              PROVE  projects'[q] = sessions'[s].server[q] /\ s \in slot'[projects'[q]].members
          <5>1. CASE q = p
            BY Zenon, <1>1, <1>2, <1>3, <2>3, <2>5, <5>1
          <5>2. CASE q # p /\ q \in Served(s)
            BY Zenon, <1>1, <2>3, <2>5, <3>4, <5>2
          <5> QED
            BY Zenon, <3>3, <4>2, <5>1, <5>2
        <4> QED
          BY Zenon, <3>3, <3>4, <4>1, <4>2
      <3> QED
        BY Zenon, <3>1, <3>2, <3>5, <3>6 DEF Mine
    <2>7. op'[s].pc \notin Loading \cup {"evict", "wait"}
      BY Zenon, <2>4 DEF Loading
    <2> QED
      BY Zenon, <1>1, <1>2, <2>3, <2>4, <2>6, <2>7, RecordOnly
  <1>4. CASE sessions[s].at # "open"
    <2>1. Step(s, "detach") /\ UNCHANGED sessions
      BY Zenon, <1>4 DEF Bind
    <2>2. /\ op' \in [Sessions -> Operations]
          /\ op'[s].pc = "detach" /\ op'[s].kind = op[s].kind
          /\ op'[s].project = p /\ op'[s].slot = n
          /\ \A t \in Sessions \ {s} : op'[t] = op[t]
      BY Zenon, <1>2, <2>1, StepEffect DEF Pcs
    <2>3. /\ OpMatchesRecord(s)'
          /\ op'[s].pc \notin Loading \cup Member \cup {"evict", "wait"}
      BY Zenon, <1>1, <1>2, <1>4, <2>1, <2>2, Fields DEF OpMatchesRecord, At, Loading, Member
    <2> QED
      BY Zenon, <1>1, <1>2, <2>1, <2>2, <2>3, MovesOn
  <1> QED
    BY Zenon, <1>3, <1>4

\* set_active_project makes the attached project the session's active one.
LEMMA FocusKeeps ==
    ASSUME IInv, NEW s \in Sessions, Focus(s)
    PROVE  IInv'
  <1> DEFINE p == op[s].project
             r == [sessions[s] EXCEPT !.active = p, !.old = FALSE]
  <1>1. /\ At(s, "focus") /\ Return(s)
        /\ \/ /\ sessions[s].at = "open" /\ sessions[s].server[p] # 0
              /\ sessions' = [sessions EXCEPT ![s] = r]
           \/ UNCHANGED sessions
        /\ UNCHANGED <<projects, slot, loads, occupancy, flights, claims>>
    BY Zenon DEF Focus
  <1>2. /\ p \in Projects /\ OpMatchesRecord(s) /\ op[s].kind = "index"
        /\ sessions \in [Sessions -> SessionRecords] /\ sessions[s] \in SessionRecords
        /\ op[s].pc \notin Loading \cup {"evict", "reload"} /\ claims \subseteq Sessions
    BY <1>1, Fields DEF IInv, TypeOK, OpMatchesRecord, At, Loading
  <1>3. /\ r \in SessionRecords /\ r.at = sessions[s].at /\ r.active = p
        /\ r.server = sessions[s].server
    BY Zenon, <1>2 DEF SessionRecords
  <1>4. /\ op' \in [Sessions -> Operations]
        /\ op'[s].pc = "idle" /\ op'[s].kind = "none"
        /\ \A t \in Sessions \ {s} : op'[t] = op[t]
    BY Zenon, <1>1, <1>2, ReturnEffect DEF IInv, TypeOK
  <1>5. OpMatchesRecord(s)' /\ MemberStaysMapped(s)'
        /\ op'[s].pc \notin Loading \cup Member \cup {"evict", "wait"}
    BY Zenon, <1>4 DEF OpMatchesRecord, MemberStaysMapped, At, Member, Loading
  <1>6. CASE sessions' = [sessions EXCEPT ![s] = r] /\ sessions[s].server[p] # 0
             /\ sessions[s].at = "open"
    <2> HIDE DEF r
    <2>1. /\ sessions' \in [Sessions -> SessionRecords] /\ sessions'[s] = r
          /\ \A t \in Sessions \ {s} : sessions'[t] = sessions[t]
      BY Zenon, <1>2, <1>3, <1>6
    <2>2. \A q : (q \in Served(s)') = (q \in Served(s))
      BY Zenon, <1>3, <2>1 DEF Served
    <2>3. p \in Served(s)
      BY Zenon, <1>2, <1>6 DEF Served
    <2>4. Mine(s)
      BY Zenon DEF IInv, Mine, BoundStaysLoaded
    <2>5. Mine(s)'
      <3>1. /\ sessions'[s].at = "open" /\ sessions'[s].active = p
            /\ sessions'[s].server = sessions[s].server
        BY Zenon, <1>3, <1>6, <2>1
      <3>2. ServedIsActive(s)'
        BY Zenon, <1>1, <1>6, <2>2, <2>4, <3>1 DEF Mine, ServedIsActive
      <3>3. \A q \in Served(s) :
               projects[q] = sessions[s].server[q] /\ s \in slot[projects[q]].members
        BY Zenon, <1>6, <2>4 DEF Mine
      <3> QED
        BY Zenon, <1>1, <1>5, <2>2, <2>3, <3>1, <3>2, <3>3 DEF Mine
    <2> QED
      BY Zenon, <1>1, <1>2, <1>4, <1>5, <2>1, <2>5, RecordOnly
  <1>7. CASE UNCHANGED sessions
    BY Zenon, <1>1, <1>2, <1>4, <1>5, <1>7, MovesOn
  <1> QED
    BY Zenon, <1>1, <1>6, <1>7

\* The record of a session goes, and with it the servers it read through.
LEMMA ClosingKeeps ==
    ASSUME IInv, NEW s \in Sessions, sessions[s].at = "open", Closing(s),
           claims' \subseteq Sessions,
           UNCHANGED <<projects, slot, loads, occupancy, flights, op>>
    PROVE  IInv'
  <1> DEFINE r == [NoSession EXCEPT !.at = "closing"]
  <1>1. r \in SessionRecords /\ r.at = "closing" /\ \A p \in Projects : r.server[p] = 0
    BY Zenon DEF NoSession, SessionRecords
  <1>2. sessions' = [sessions EXCEPT ![s] = r]
    BY Zenon DEF Closing
  <1> HIDE DEF r
  <1>3. /\ sessions' \in [Sessions -> SessionRecords] /\ sessions'[s] = r
        /\ \A t \in Sessions \ {s} : sessions'[t] = sessions[t]
    BY Zenon, <1>1, <1>2 DEF IInv, TypeOK
  <1>4. OpMatchesRecord(s)'
    BY Zenon, <1>1, <1>3 DEF IInv, OpMatchesRecord, At
  <1>5. Served(s)' = {}
    BY Zenon, <1>1, <1>3 DEF Served
  <1>6. Mine(s)'
    BY Zenon, <1>1, <1>3, <1>4, <1>5, GoneFrame
  <1>7. op' \in [Sessions -> Operations]
    BY Zenon DEF IInv, TypeOK
  <1> QED
    BY Zenon, <1>3, <1>6, <1>7, RecordOnly

\* A heartbeat, or a sweep that found the session silent, changes its age only.
LEMMA AgeKeeps ==
    ASSUME IInv, NEW s \in Sessions, NEW b \in BOOLEAN, claims' \subseteq Sessions,
           sessions' = [sessions EXCEPT ![s].old = b],
           UNCHANGED <<projects, slot, loads, occupancy, flights, op>>
    PROVE  IInv'
  <1> DEFINE r == [sessions[s] EXCEPT !.old = b]
  <1>1. sessions[s] \in SessionRecords /\ sessions \in [Sessions -> SessionRecords]
    BY Zenon DEF IInv, TypeOK
  <1>2. /\ r \in SessionRecords /\ r.at = sessions[s].at
        /\ r.server = sessions[s].server /\ r.active = sessions[s].active
    BY Zenon, <1>1 DEF SessionRecords
  <1>3. sessions' = [sessions EXCEPT ![s] = r]
    BY Zenon
  <1> HIDE DEF r
  <1>4. /\ sessions' \in [Sessions -> SessionRecords] /\ sessions'[s] = r
        /\ \A t \in Sessions \ {s} : sessions'[t] = sessions[t]
    BY Zenon, <1>1, <1>2, <1>3
  <1>5. \A q : (q \in Served(s)') = (q \in Served(s))
    BY <1>2, <1>4 DEF Served
  <1>6. Mine(s)
    BY Zenon DEF IInv, Mine, BoundStaysLoaded
  <1>7. OpMatchesRecord(s)' /\ MemberStaysMapped(s)'
    BY Zenon, <1>2, <1>4, <1>6 DEF Mine, OpMatchesRecord, MemberStaysMapped, At
  <1>8. Mine(s)'
    BY <1>2, <1>4, <1>5, <1>6, <1>7 DEF Mine, ServedIsActive
  <1>9. op' \in [Sessions -> Operations]
    BY Zenon DEF IInv, TypeOK
  <1> QED
    BY Zenon, <1>4, <1>8, <1>9, RecordOnly

\* The steps of a session's record outside its operations.
LEMMA SessionKeeps ==
    ASSUME IInv, NEW s \in Sessions, CloseSession(s) \/ Heartbeat(s) \/ Reap(s) \/ Claim(s)
    PROVE  IInv'
  <1>0. claims \subseteq Sessions
    BY Zenon DEF IInv, TypeOK
  <1>1. CASE CloseSession(s)
    BY Zenon, <1>0, <1>1, ClosingKeeps DEF CloseSession
  <1>2. CASE Heartbeat(s)
    BY Zenon, <1>0, <1>2, AgeKeeps DEF Heartbeat
  <1>3. CASE Reap(s)
    BY Zenon, <1>3, AgeKeeps DEF Reap
  <1>4. CASE Claim(s)
    <2>1. claims' \subseteq Sessions
      BY Zenon, <1>0, <1>4 DEF Claim
    <2>2. CASE Expired(s)
      BY Zenon, <1>4, <2>1, <2>2, ClosingKeeps DEF Claim, Expired
    <2>3. CASE ~Expired(s)
      <3>1. UNCHANGED <<projects, slot, loads, occupancy, flights, op, sessions>>
        BY Zenon, <1>4, <2>3 DEF Claim
      <3>2. Mine(s)
        BY Zenon DEF IInv, Mine, BoundStaysLoaded
      <3>3. Mine(s)'
        BY Zenon, <3>1, <3>2 DEF Mine, OpMatchesRecord, MemberStaysMapped, ServedIsActive, At,
           Served
      <3> QED
        BY Zenon, <2>1, <3>1, <3>3, RecordOnly DEF IInv, TypeOK
    <2> QED
      BY Zenon, <2>2, <2>3
  <1> QED
    BY Zenon, <1>1, <1>2, <1>3, <1>4

-----------------------------------------------------------------------------
(* Steps of a slot that no session takes.                                  *)

\* Such a step keeps the invariant if the map and the members of slots that
\* are in it stay, and no lock is taken.
LEMMA SlotOnly ==
    ASSUME IInv, UNCHANGED <<loads, flights, sessions, op, claims>>,
           projects' \in [Projects -> Slots \cup {0}],
           occupancy' \in [Projects -> Slots \cup {0}],
           slot' \in [Slots -> SlotRecords],
           EntriesAreMapped', SlotsAreTended', KeptFor(Sessions),
           \A m \in Slots : slot'[m].lock = slot[m].lock,
           \A m \in Slots : slot[m].at \in {"none", "built"} =>
              slot'[m].at = slot[m].at /\ slot'[m].project = slot[m].project
    PROVE  IInv'
  <1>1. TypeOK'
    BY Zenon DEF IInv, TypeOK
  <1>2. LoadersOwnSlots'
    BY Zenon, LoadersFrame
  <1>3. LocksAreHeld'
    BY Zenon, LocksFrame DEF At
  <1>4. FlightsAreLed'
    BY Zenon, FlightsFrame
  <1>5. \A t \in Sessions : Mine(t)'
    BY Zenon, SessionsFrame DEF Untouched
  <1> QED
    BY Zenon, <1>1, <1>2, <1>3, <1>4, <1>5, Assemble

\* A background load settles, or its failure is flagged.
LEMMA BackgroundKeeps ==
    ASSUME IInv, NEW n \in Slots, BackgroundLoad(n) \/ FlagFailure(n)
    PROVE  IInv'
  <1>1. slot[n] \in SlotRecords /\ slot \in [Slots -> SlotRecords] /\ Tended(n)
    BY Zenon DEF IInv, TypeOK, SlotsAreTended
  <1> DEFINE Kept(r) ==
             /\ r \in SlotRecords /\ r.at = slot[n].at /\ r.project = slot[n].project
             /\ r.members = slot[n].members /\ r.active = slot[n].active
             /\ r.watcher = slot[n].watcher /\ r.lock = slot[n].lock
             /\ r.at # "stopped" =>
                   /\ r.index = "loading" => r.bg = "load"
                   /\ r.index = "empty" => r.failed \/ r.bg = "flag"
  <1>2. \E r : Kept(r) /\ slot' = [slot EXCEPT ![n] = r]
    <2>1. CASE FlagFailure(n)
      <3> DEFINE r == [slot[n] EXCEPT !.failed = TRUE, !.bg = "none"]
      <3>1. slot' = [slot EXCEPT ![n] = r]
        BY Zenon, <2>1 DEF FlagFailure
      <3>2. Kept(r)
        BY Zenon, <1>1, <2>1 DEF FlagFailure, SlotRecords, Tended
      <3> QED
        BY Zenon, <3>1, <3>2
    <2>2. CASE BackgroundLoad(n)
      <3>1. PICK result \in {"settled", "empty"} :
               slot' = [slot EXCEPT ![n] =
                  IF @.at = "stopped" \/ (result = "empty" /\ @.index = "settled")
                  THEN [@ EXCEPT !.bg = "none"]
                  ELSE [@ EXCEPT !.index = result,
                                 !.bg = IF result = "empty" THEN "flag" ELSE "none"]]
        BY Zenon, <2>2 DEF BackgroundLoad
      <3> DEFINE q == [slot[n] EXCEPT !.bg = "none"]
                 r == [slot[n] EXCEPT !.index = result,
                                      !.bg = IF result = "empty" THEN "flag" ELSE "none"]
      <3>2. CASE slot[n].at = "stopped" \/ (result = "empty" /\ slot[n].index = "settled")
        <4>1. slot' = [slot EXCEPT ![n] = q]
          BY Zenon, <3>1, <3>2
        <4>2. Kept(q)
          BY <1>1, <3>2 DEF SlotRecords
        <4> QED
          BY Zenon, <4>1, <4>2
      <3>3. CASE ~(slot[n].at = "stopped" \/ (result = "empty" /\ slot[n].index = "settled"))
        <4>1. slot' = [slot EXCEPT ![n] = r]
          BY Zenon, <3>1, <3>3
        <4>2. Kept(r)
          BY Zenon, <1>1, <3>3 DEF SlotRecords
        <4> QED
          BY Zenon, <4>1, <4>2
      <3> QED
        BY Zenon, <3>2, <3>3
    <2> QED
      BY Zenon, <2>1, <2>2
  <1>3. PICK r : Kept(r) /\ slot' = [slot EXCEPT ![n] = r]
    BY Zenon, <1>2
  <1>4. /\ slot' \in [Slots -> SlotRecords] /\ slot'[n] = r
        /\ \A m \in Slots \ {n} : slot'[m] = slot[m]
    BY Zenon, <1>1, <1>3
  <1>5. UNCHANGED <<projects, loads, occupancy, flights, sessions, op, claims>>
    BY Zenon DEF BackgroundLoad, FlagFailure
  <1>6. Tended(n)'
    BY Zenon, <1>1, <1>3, <1>4 DEF Tended
  <1>7. /\ EntriesAreMapped' /\ SlotsAreTended' /\ KeptFor(Sessions)
        /\ \A m \in Slots : slot'[m].at = slot[m].at /\ slot'[m].project = slot[m].project
    BY Zenon, <1>3, <1>4, <1>5, <1>6, OneSlot
  <1>8. \A m \in Slots : slot'[m].lock = slot[m].lock
    BY Zenon, <1>3, <1>4
  <1>9. /\ projects' \in [Projects -> Slots \cup {0}]
        /\ occupancy' \in [Projects -> Slots \cup {0}]
    BY Zenon, <1>5 DEF IInv, TypeOK
  <1> QED
    BY Zenon, <1>4, <1>5, <1>7, <1>8, <1>9, SlotOnly

\* A slot that was taken out of the map is stopped.
LEMMA StopKeeps ==
    ASSUME IInv, NEW n \in Slots, Stop(n)
    PROVE  IInv'
  <1> DEFINE r == [slot[n] EXCEPT !.at = "stopped", !.watcher = FALSE]
  <1>1. slot[n] \in SlotRecords /\ slot \in [Slots -> SlotRecords]
    BY Zenon DEF IInv, TypeOK
  <1>2. /\ r \in SlotRecords /\ r.at = "stopped" /\ r.lock = slot[n].lock
        /\ r.members = slot[n].members /\ r.project = slot[n].project
        /\ r.active = slot[n].active
    BY Zenon, <1>1 DEF SlotRecords
  <1>3. /\ slot' = [slot EXCEPT ![n] = r] /\ slot[n].at = "removed"
        /\ UNCHANGED <<projects, loads, flights, sessions, op, claims>>
    BY Zenon DEF Stop
  <1> HIDE DEF r
  <1>4. /\ slot' \in [Slots -> SlotRecords] /\ slot'[n] = r
        /\ \A m \in Slots \ {n} : slot'[m] = slot[m]
    BY Zenon, <1>1, <1>2, <1>3
  <1>5. EntriesAreMapped'
    BY Zenon, <1>2, <1>3, <1>4, EntriesFrame
  <1>6. SlotsAreTended'
    BY <1>2, <1>4 DEF IInv, SlotsAreTended, Tended
  <1>7. KeptFor(Sessions)
    BY Zenon, <1>2, <1>3, <1>4 DEF KeptFor
  <1>8. /\ projects' \in [Projects -> Slots \cup {0}]
        /\ occupancy' \in [Projects -> Slots \cup {0}]
    BY Zenon, <1>3 DEF IInv, TypeOK, Stop
  <1>9. /\ \A m \in Slots : slot'[m].lock = slot[m].lock
        /\ \A m \in Slots : slot[m].at \in {"none", "built"} =>
              slot'[m].at = slot[m].at /\ slot'[m].project = slot[m].project
    BY Zenon, <1>2, <1>3, <1>4
  <1> QED
    BY <1>3, <1>4, <1>5, <1>6, <1>7, <1>8, <1>9, SlotOnly

\* A slot nobody is a member of is taken out of the map.
LEMMA UnloadKeeps ==
    ASSUME IInv, NEW p \in Projects, Unload(p)
    PROVE  IInv'
  <1>0. PICK n \in Slots : n = projects[p]
    BY Zenon DEF Unload, IInv, TypeOK
  <1> DEFINE r == [slot[n] EXCEPT !.at = "removed"]
  <1>1. /\ slot[n] \in SlotRecords /\ slot \in [Slots -> SlotRecords] /\ n # 0
        /\ EntriesAreMapped /\ SlotsAreTended /\ slot[n].at = "mapped"
        /\ slot[n].project = p
    BY Zenon, <1>0 DEF IInv, TypeOK, EntriesAreMapped, Unload
  <1>2. /\ r \in SlotRecords /\ r.at = "removed" /\ r.lock = slot[n].lock
        /\ r.members = slot[n].members /\ r.project = slot[n].project
        /\ r.active = slot[n].active /\ r.watcher = slot[n].watcher
        /\ r.index = slot[n].index /\ r.bg = slot[n].bg /\ r.failed = slot[n].failed
    BY Zenon, <1>1 DEF SlotRecords
  <1>3. /\ slot' = [slot EXCEPT ![n] = r] /\ slot[n].members = {}
        /\ projects' = [projects EXCEPT ![p] = 0]
        /\ UNCHANGED <<loads, occupancy, flights, sessions, op, claims>>
    BY Zenon, <1>0 DEF Unload
  <1> HIDE DEF r
  <1>4. /\ slot' \in [Slots -> SlotRecords] /\ slot'[n] = r
        /\ \A m \in Slots \ {n} : slot'[m] = slot[m]
    BY Zenon, <1>1, <1>2, <1>3
  <1>5. /\ projects' \in [Projects -> Slots \cup {0}] /\ projects'[p] = 0
        /\ occupancy' \in [Projects -> Slots \cup {0}]
        /\ \A q \in Projects \ {p} : projects'[q] = projects[q]
        /\ \A q \in Projects : projects[q] \in Slots \cup {0}
    BY Zenon, <1>3 DEF IInv, TypeOK
  <1>6. EntriesAreMapped'
    BY <1>1, <1>4, <1>5 DEF EntriesAreMapped
  <1>7. SlotsAreTended'
    BY <1>1, <1>2, <1>4 DEF SlotsAreTended, Tended
  <1>8. KeptFor(Sessions)
    BY <1>0, <1>2, <1>3, <1>4, <1>5 DEF KeptFor
  <1>9. /\ \A m \in Slots : slot'[m].lock = slot[m].lock
        /\ \A m \in Slots : slot[m].at \in {"none", "built"} =>
              slot'[m].at = slot[m].at /\ slot'[m].project = slot[m].project
    BY Zenon, <1>1, <1>2, <1>4
  <1> QED
    BY Zenon, <1>3, <1>4, <1>5, <1>6, <1>7, <1>8, <1>9, SlotOnly

-----------------------------------------------------------------------------
(* The invariant.                                                          *)

\* Nothing is loaded, open or in progress at first.
LEMMA InitKeeps == Init => IInv
  <1> SUFFICES ASSUME Init PROVE IInv
    BY Zenon
  <1>0. /\ projects = [p \in Projects |-> 0] /\ occupancy = [p \in Projects |-> 0]
        /\ slot = [n \in Slots |-> NoSlot] /\ loads = 0
        /\ flights = [p \in Projects |-> NoOne]
        /\ sessions = [s \in Sessions |-> NoSession]
        /\ op = [s \in Sessions |-> NoOp] /\ claims = {}
    BY Zenon DEF Init
  <1>1. /\ NoOp \in Operations /\ NoOp.pc = "idle" /\ NoOp.kind = "none"
    BY Zenon DEF NoOp, Operations, Pcs
  <1>2. /\ NoSlot \in SlotRecords /\ NoSlot.at = "none" /\ NoSlot.lock = NoOne
        /\ NoSlot.index = "none" /\ NoSlot.active = FALSE
    BY Zenon DEF NoSlot, SlotRecords
  <1>3. /\ NoSession \in SessionRecords /\ NoSession.at = "none"
        /\ \A p \in Projects : NoSession.server[p] = 0
    BY Zenon DEF NoSession, SessionRecords
  <1>4. /\ \A s \in Sessions : op[s] = NoOp /\ sessions[s] = NoSession
        /\ \A n \in Slots : slot[n] = NoSlot
        /\ \A p \in Projects : projects[p] = 0 /\ flights[p] = NoOne
    BY Zenon, <1>0
  <1>5. TypeOK
    BY <1>0, <1>1, <1>2, <1>3, ConstantsOK DEF TypeOK
  <1>6. EntriesAreMapped /\ LoadersOwnSlots /\ FlightsAreLed
    BY Zenon, <1>1, <1>2, <1>4 DEF EntriesAreMapped, LoadersOwnSlots, FlightsAreLed,
       WaitersAreLed, At, Loading
  <1>7. SlotsAreTended /\ LocksAreHeld
    BY Zenon, <1>2, <1>4 DEF SlotsAreTended, Tended, LocksAreHeld
  <1>8. BoundStaysLoaded
    BY Zenon, <1>3, <1>4 DEF BoundStaysLoaded
  <1>9. \A s \in Sessions : OpMatchesRecord(s) /\ MemberStaysMapped(s) /\ ServedIsActive(s)
    BY Zenon, <1>1, <1>3, <1>4 DEF OpMatchesRecord, MemberStaysMapped, ServedIsActive, Served,
       At, Member
  <1> QED
    BY Zenon, <1>5, <1>6, <1>7, <1>8, <1>9 DEF IInv

\* Every step of an operation keeps the invariant.
LEMMA ProceedKeeps ==
    ASSUME IInv, NEW s \in Sessions, Proceed(s)
    PROVE  IInv'
  <1>1. CASE Look(s) \/ Join(s) \/ Fly(s) \/ Admit(s) \/ Build(s) \/ BuildFails(s)
    BY Zenon, <1>1, LookKeeps, JoinKeeps, LeadKeeps, FollowKeeps, AdmitKeeps, BuildKeeps,
       BuildFailsKeeps
  <1>2. CASE Insert(s) \/ Evict(s) \/ Wait(s) \/ Retry(s) \/ Activate(s) \/ Record(s)
    BY Zenon, <1>2, InsertKeeps, EvictKeeps, WaitKeeps, RetryKeeps, ActivateKeeps, RecordKeeps
  <1>3. CASE BeginReload(s) \/ Reload(s) \/ ReloadFails(s)
    BY Zenon, <1>3, BeginReloadKeeps, EndReloadKeeps
  <1>4. CASE Add(s) \/ Enlist(s) \/ Bind(s) \/ Detach(s) \/ Focus(s)
    BY Zenon, <1>4, AddKeeps, EnlistKeeps, BindKeeps, DetachKeeps, FocusKeeps
  <1> QED
    BY Zenon, <1>1, <1>2, <1>3, <1>4 DEF Proceed

\* A step that changes nothing keeps the invariant.
LEMMA StutterKeeps ==
    ASSUME IInv, UNCHANGED vars
    PROVE  IInv'
  <1>1. UNCHANGED <<projects, slot, loads, occupancy, flights, sessions, op, claims>>
    BY Zenon DEF vars
  <1>2. TypeOK' /\ EntriesAreMapped' /\ LoadersOwnSlots'
    BY ZenonT(30), <1>1 DEF IInv, TypeOK, EntriesAreMapped, LoadersOwnSlots, At
  <1>3. SlotsAreTended' /\ LocksAreHeld'
    BY Zenon, <1>1 DEF IInv, SlotsAreTended, Tended, LocksAreHeld, At
  <1>4. FlightsAreLed'
    BY Zenon, <1>1 DEF IInv, FlightsAreLed, WaitersAreLed, At
  <1>5. BoundStaysLoaded'
    BY Zenon, <1>1 DEF IInv, BoundStaysLoaded, Served
  <1>6. \A s \in Sessions : OpMatchesRecord(s)' /\ MemberStaysMapped(s)'
    BY <1>1 DEF IInv, OpMatchesRecord, MemberStaysMapped, At
  <1>7. \A s \in Sessions : ServedIsActive(s)'
    BY Zenon, <1>1 DEF IInv, ServedIsActive, Served
  <1> QED
    BY <1>2, <1>3, <1>4, <1>5, <1>6, <1>7 DEF IInv

\* Every step keeps the invariant.
LEMMA NextKeeps ==
    ASSUME IInv, [Next]_vars
    PROVE  IInv'
  <1>0. claims \subseteq Sessions
    BY Zenon DEF IInv, TypeOK
  <1>1. CASE \E s \in Sessions, p \in Projects : OpenSession(s, p) \/ IndexFolder(s, p)
    BY Zenon, <1>1, BeginKeeps
  <1>2. CASE \E s \in Sessions : Proceed(s)
    BY Zenon, <1>2, ProceedKeeps
  <1>3. CASE \E n \in Slots : BackgroundLoad(n) \/ FlagFailure(n) \/ Stop(n)
    BY Zenon, <1>3, BackgroundKeeps, StopKeeps
  <1>4. CASE \E s \in Sessions :
                CloseSession(s) \/ FinishRemoved(s) \/ Heartbeat(s) \/ Reap(s)
    BY Zenon, <1>4, SessionKeeps, FinishRemovedKeeps
  <1>5. CASE \E s \in claims : Claim(s)
    BY Zenon, <1>0, <1>5, SessionKeeps
  <1>6. CASE \E p \in Projects : Unload(p)
    BY <1>6, UnloadKeeps
  <1>7. CASE UNCHANGED vars
    BY Zenon, <1>7, StutterKeeps
  <1> QED
    BY <1>1, <1>2, <1>3, <1>4, <1>5, <1>6, <1>7 DEF Next

\* The strengthened invariant holds in every reachable state: the map, the
\* slots, their locks, the flights and the records of the sessions agree.
THEOREM RegistryInvariant == Spec => []IInv
  BY InitKeeps, NextKeeps, PTL DEF Spec

\* A project an open session works with is never unloaded, replaced or taken
\* away from it (ensure_project_slot_for_session, unload_idle_projects).
THEOREM BoundSlotsStay == Spec => []BoundStaysLoaded
  <1>1. IInv => BoundStaysLoaded
    BY Zenon DEF IInv
  <1> QED
    BY <1>1, RegistryInvariant, PTL

\* A project that is served is watched, or a reload that will watch it again
\* holds the slot's mutation lock (reload_with, ProjectSlot::activate).
THEOREM ServedIsWatched == Spec => []NeverBlind
  <1>1. IInv => NeverBlind
    <2> SUFFICES ASSUME IInv, NEW s \in Sessions, NEW p \in Served(s),
                        NEW n, n = sessions[s].server[p]
                 PROVE  slot[n].watcher \/ Reloading(n)
      BY Zenon DEF NeverBlind
    <2>1. /\ n \in Slots /\ slot[n].active /\ projects[p] = n /\ n # 0
          /\ p \in Projects
      BY Fields DEF IInv, BoundStaysLoaded, ServedIsActive, Served
    <2>2. slot[n].at # "stopped"
      BY Zenon, <2>1 DEF IInv, EntriesAreMapped
    <2>3. slot[n].watcher \/ slot[n].lock # NoOne
      BY Zenon, <2>1, <2>2 DEF IInv, SlotsAreTended, Tended
    <2>4. slot[n].lock # NoOne => Reloading(n)
      BY Zenon, <2>1, Fields DEF IInv, LocksAreHeld, Reloading
    <2> QED
      BY Zenon, <2>3, <2>4
  <1> QED
    BY <1>1, RegistryInvariant, PTL

\* A slot in the map that reports Loading has a load running, and one whose
\* load failed is flagged for a retry (ColdLoadJob::finish, BackgroundLoad).
THEOREM FailuresAreFlagged == Spec => []FailureIsRetried
  <1>1. IInv => FailureIsRetried
    <2> SUFFICES ASSUME IInv, NEW p \in Projects, projects[p] # 0,
                        NEW n, n = projects[p]
                 PROVE  /\ slot[n].index = "loading" => slot[n].bg = "load"
                        /\ slot[n].index = "empty" => slot[n].failed \/ slot[n].bg = "flag"
      BY Zenon DEF FailureIsRetried
    <2>1. n \in Slots /\ slot[n].at # "stopped"
      BY Zenon, Fields DEF IInv, EntriesAreMapped
    <2> QED
      BY Zenon, <2>1 DEF IInv, SlotsAreTended, Tended
  <1> QED
    BY <1>1, RegistryInvariant, PTL

\* A waiter without an outcome has a leader that is still loading, so nobody
\* waits for a load that is not coming (ColdLoadFlight, ColdLoadLeaderGuard).
THEOREM WaitersHaveLeaders == Spec => []WaitersAreLed
  <1>1. IInv => WaitersAreLed
    BY Zenon DEF IInv, FlightsAreLed
  <1> QED
    BY <1>1, RegistryInvariant, PTL

-----------------------------------------------------------------------------
(* Admissions.                                                             *)

\* The names stay where no admission is made and no slot is built.
NamesStay ==
    /\ \A t \in Sessions : At(t, "build")' => At(t, "build") /\ op'[t].adm = op[t].adm
    /\ \A n \in Slots : slot'[n].at \in {"built", "mapped"} =>
          slot[n].at \in {"built", "mapped"} /\ slot'[n].adm = slot[n].adm

\* Two records of a slot that agree on where it is and on its admission.
SameSlot(q, r) == q.at = r.at /\ q.adm = r.adm

\* What a change of the other fields of a slot leaves alone.
LEMMA SlotFields ==
    ASSUME NEW r \in SlotRecords
    PROVE  /\ \A x : /\ SameSlot([r EXCEPT !.members = x], r)
                     /\ SameSlot([r EXCEPT !.failed = x], r)
                     /\ SameSlot([r EXCEPT !.bg = x], r)
                     /\ [r EXCEPT !.at = x].at = x /\ [r EXCEPT !.at = x].adm = r.adm
           /\ \A x, y : /\ SameSlot([r EXCEPT !.active = x, !.watcher = y], r)
                        /\ SameSlot([r EXCEPT !.lock = x, !.watcher = y], r)
                        /\ SameSlot([r EXCEPT !.index = x, !.bg = y], r)
                        /\ SameSlot([r EXCEPT !.failed = x, !.bg = y], r)
                        /\ [r EXCEPT !.at = x, !.watcher = y].at = x
                        /\ [r EXCEPT !.at = x, !.watcher = y].adm = r.adm
                        /\ [r EXCEPT !.at = x, !.members = y].at = x
                        /\ [r EXCEPT !.at = x, !.members = y].adm = r.adm
           /\ \A x, y, z : /\ SameSlot([r EXCEPT !.lock = x, !.watcher = y, !.index = z], r)
                           /\ SameSlot([r EXCEPT !.failed = x, !.index = y, !.bg = z], r)
  BY Zenon DEF SlotRecords, SameSlot

\* The names stay where one slot is changed like that, or none, and one
\* operation goes on that does not begin to build.
LEMMA NamesFrame ==
    ASSUME IInv, NEW s \in Sessions, NEW n \in Slots, NEW r,
           slot' = [slot EXCEPT ![n] = r], SameSlot(r, slot[n]),
           \/ UNCHANGED op
           \/ \E o : Go(s, o) /\ o.pc # "build"
    PROVE  NamesStay
  <1>1. op \in [Sessions -> Operations] /\ slot \in [Slots -> SlotRecords]
    BY Zenon DEF IInv, TypeOK
  <1>2. \A t \in Sessions : At(t, "build")' => At(t, "build") /\ op'[t].adm = op[t].adm
    BY Zenon, <1>1 DEF Go, At
  <1>3. \A m \in Slots : SameSlot(slot'[m], slot[m])
    BY Zenon, <1>1 DEF SameSlot
  <1> QED
    BY Zenon, <1>2, <1>3 DEF NamesStay, SameSlot

\* The same, where no slot is changed.
LEMMA NamesFrameOp ==
    ASSUME IInv, NEW s \in Sessions, UNCHANGED slot,
           \/ UNCHANGED op
           \/ \E o : Go(s, o) /\ o.pc # "build"
    PROVE  NamesStay
  <1>1. op \in [Sessions -> Operations]
    BY Zenon DEF IInv, TypeOK
  <1> QED
    BY Zenon, <1>1 DEF Go, At, NamesStay

\* The step that a pc names.
LEMMA StepPc ==
    ASSUME IInv, NEW s \in Sessions, NEW pc
    PROVE  /\ Step(s, pc) => \E o : Go(s, o) /\ o.pc = pc
           /\ Return(s) => \E o : Go(s, o) /\ o.pc = "idle"
           /\ \A n : [op[s] EXCEPT !.pc = pc, !.slot = n].pc = pc
  <1>1. op[s] \in Operations
    BY Zenon DEF IInv, TypeOK
  <1>2. /\ [op[s] EXCEPT !.pc = pc].pc = pc /\ NoOp.pc = "idle"
        /\ \A n : [op[s] EXCEPT !.pc = pc, !.slot = n].pc = pc
    BY Zenon, <1>1 DEF Operations, NoOp
  <1> QED
    BY Zenon, <1>2 DEF Step, Return

\* The steps that change no slot.
LEMMA NamesStayInOps ==
    ASSUME IInv, NEW s \in Sessions,
           \/ \E p \in Projects : OpenSession(s, p) \/ IndexFolder(s, p)
           \/ Look(s) \/ Fly(s) \/ Evict(s) \/ Record(s) \/ Add(s) \/ Bind(s) \/ Focus(s)
           \/ CloseSession(s) \/ Heartbeat(s) \/ Reap(s) \/ Claim(s)
    PROVE  NamesStay
  <1>1. UNCHANGED slot
    BY Zenon DEF OpenSession, IndexFolder, Look, Fly, Evict, Record, Add, Bind, Focus,
       CloseSession, Heartbeat, Reap, Claim
  <1>2. op[s] \in Operations
    BY Zenon DEF IInv, TypeOK
  <1>3. CASE \E p \in Projects : OpenSession(s, p) \/ IndexFolder(s, p)
    <2>1. \E p \in Projects, k \in {"open", "index"} :
             Go(s, [NoOp EXCEPT !.pc = "look", !.kind = k, !.project = p])
      BY Zenon, <1>3 DEF OpenSession, IndexFolder
    <2>2. \A p, k : [NoOp EXCEPT !.pc = "look", !.kind = k, !.project = p].pc = "look"
      BY Zenon DEF NoOp
    <2> QED
      BY Zenon, <1>1, <2>1, <2>2, NamesFrameOp
  <1>4. CASE Look(s) \/ Add(s)
    <2>1. \/ \E pc \in {"fly", "join", "enlist"} : \E n :
                Go(s, [op[s] EXCEPT !.pc = pc, !.slot = n])
          \/ Return(s)
      BY Zenon, <1>4 DEF Look, Add
    <2>2. \E o : Go(s, o) /\ o.pc # "build"
      <3>1. CASE Return(s)
        BY Zenon, <3>1, StepPc
      <3>2. CASE \E pc \in {"fly", "join", "enlist"} : \E n :
                    Go(s, [op[s] EXCEPT !.pc = pc, !.slot = n])
        <4>1. PICK pc \in {"fly", "join", "enlist"} : \E n :
                    Go(s, [op[s] EXCEPT !.pc = pc, !.slot = n])
          BY Zenon, <3>2
        <4>2. PICK n : Go(s, [op[s] EXCEPT !.pc = pc, !.slot = n])
          BY Zenon, <4>1
        <4>3. [op[s] EXCEPT !.pc = pc, !.slot = n].pc = pc
          BY StepPc
        <4> QED
          BY Zenon, <4>1, <4>2, <4>3
      <3> QED
        BY Zenon, <2>1, <3>1, <3>2
    <2> QED
      BY Zenon, <1>1, <2>2, NamesFrameOp
  <1>5. CASE Fly(s)
    <2>1. PICK n, l, o :
             \/ Go(s, [op[s] EXCEPT !.pc = "admit", !.slot = n, !.leader = l, !.outcome = o])
             \/ Go(s, [op[s] EXCEPT !.pc = "wait", !.leader = l, !.outcome = o])
      BY Zenon, <1>5 DEF Fly
    <2> DEFINE a == [op[s] EXCEPT !.pc = "admit", !.slot = n, !.leader = l, !.outcome = o]
               w == [op[s] EXCEPT !.pc = "wait", !.leader = l, !.outcome = o]
    <2>2. a.pc # "build" /\ w.pc # "build"
      BY Zenon, <1>2 DEF Operations
    <2>3. Go(s, a) \/ Go(s, w)
      BY Zenon, <2>1
    <2> HIDE DEF a, w
    <2> QED
      BY Zenon, <1>1, <2>2, <2>3, NamesFrameOp
  <1>6. CASE Evict(s) \/ Record(s) \/ Bind(s) \/ Focus(s)
    <2>1. Step(s, "wait") \/ Step(s, "focus") \/ Step(s, "detach") \/ Return(s)
      BY Zenon, <1>6 DEF Evict, Record, Bind, Focus
    <2> QED
      BY <1>1, <2>1, StepPc, NamesFrameOp
  <1>7. CASE CloseSession(s) \/ Heartbeat(s) \/ Reap(s) \/ Claim(s)
    <2>1. UNCHANGED op
      BY Zenon, <1>7 DEF CloseSession, Heartbeat, Reap, Claim
    <2> QED
      BY Zenon, <1>1, <2>1, NamesFrameOp
  <1> QED
    BY Zenon, <1>3, <1>4, <1>5, <1>6, <1>7

\* The steps that change a slot but neither its place nor its admission.
LEMMA NamesStayInSlots ==
    ASSUME IInv, NEW s \in Sessions,
           \/ Join(s) \/ Wait(s) \/ Enlist(s) \/ Detach(s)
           \/ Retry(s) \/ Activate(s) \/ BeginReload(s) \/ Reload(s) \/ ReloadFails(s)
    PROVE  NamesStay
  <1>0. /\ TypeOK /\ OpMatchesRecord(s)
        /\ \A n \in Slots : slot[n] \in SlotRecords
        /\ op[s].pc \in {"join"} \cup Member => op[s].slot \in Slots
        /\ op[s].pc \in {"wait", "detach"} => projects[op[s].project] \in Slots \cup {0}
    BY Zenon, Fields DEF IInv, OpMatchesRecord, At, Member
  <1>1. CASE Join(s) \/ Enlist(s)
    <2>1. op[s].slot \in Slots
      BY Zenon, <1>0, <1>1 DEF Join, Enlist, At, Member
    <2>2. Step(s, "joined") \/ Step(s, "look") \/ Step(s, "bind")
      BY Zenon, <1>1 DEF Join, Enlist
    <2>3. \/ \E x : slot' = [slot EXCEPT ![op[s].slot] = [slot[op[s].slot] EXCEPT !.members = x]]
          \/ UNCHANGED slot
      BY Zenon, <1>1 DEF Join, Enlist, Joined
    <2>4. \E o : Go(s, o) /\ o.pc # "build"
      BY <2>2, StepPc
    <2>5. CASE UNCHANGED slot
      BY Zenon, <2>4, <2>5, NamesFrameOp
    <2>6. CASE \E x : slot' = [slot EXCEPT
                                 ![op[s].slot] = [slot[op[s].slot] EXCEPT !.members = x]]
      <3>1. PICK x : slot' = [slot EXCEPT
                                 ![op[s].slot] = [slot[op[s].slot] EXCEPT !.members = x]]
        BY Zenon, <2>6
      <3>2. SameSlot([slot[op[s].slot] EXCEPT !.members = x], slot[op[s].slot])
        BY Zenon, <1>0, <2>1, SlotFields
      <3> QED
        BY Zenon, <2>1, <2>4, <3>1, <3>2, NamesFrame
    <2> QED
      BY Zenon, <2>3, <2>5, <2>6
  <1>2. CASE Wait(s) \/ Detach(s)
    <2> DEFINE n == projects[op[s].project]
    <2>1. n \in Slots \cup {0}
      BY Zenon, <1>0, <1>2 DEF Wait, Detach, At
    <2>2. \E o : Go(s, o) /\ o.pc # "build"
      <3>1. \/ Return(s)
            \/ \E k, p, m : Go(s, [NoOp EXCEPT !.pc = "joined", !.kind = k,
                                               !.project = p, !.slot = m])
        BY Zenon, <1>2 DEF Wait, Detach
      <3>2. \A k, p, m : [NoOp EXCEPT !.pc = "joined", !.kind = k, !.project = p,
                                      !.slot = m].pc = "joined"
        BY Zenon DEF NoOp
      <3>3. CASE Return(s)
        BY Zenon, <3>3, StepPc
      <3> QED
        BY Zenon, <3>1, <3>2, <3>3
    <2>3. \/ n # 0 /\ \E x : slot' = [slot EXCEPT ![n] = [slot[n] EXCEPT !.members = x]]
          \/ UNCHANGED slot
      BY Zenon, <1>2 DEF Wait, Detach, Joined, Left
    <2>4. CASE UNCHANGED slot
      BY <2>2, <2>4, NamesFrameOp
    <2>5. CASE n # 0 /\ \E x : slot' = [slot EXCEPT ![n] = [slot[n] EXCEPT !.members = x]]
      <3>1. PICK x : slot' = [slot EXCEPT ![n] = [slot[n] EXCEPT !.members = x]]
        BY Zenon, <2>5
      <3>2. n \in Slots /\ SameSlot([slot[n] EXCEPT !.members = x], slot[n])
        BY Zenon, <1>0, <2>1, <2>5, SlotFields
      <3> QED
        BY Zenon, <2>2, <3>1, <3>2, NamesFrame
    <2> QED
      BY Zenon, <2>3, <2>4, <2>5
  <1>3. CASE Retry(s) \/ Activate(s) \/ BeginReload(s) \/ Reload(s) \/ ReloadFails(s)
    <2> DEFINE n == op[s].slot
    <2>1. n \in Slots /\ SameSlot(slot[n], slot[n])
      BY Zenon, <1>0, <1>3 DEF Retry, Activate, BeginReload, Reload, ReloadFails, At, Member, SameSlot
    <2>2. \E o : Go(s, o) /\ o.pc # "build"
      <3>1. \/ Step(s, "activate") \/ Step(s, "record") \/ Step(s, "add")
            \/ Step(s, "reload") \/ Return(s)
        BY Zenon, <1>3 DEF Retry, Activate, BeginReload, Reload, ReloadFails
      <3> QED
        BY <3>1, StepPc
    <2>3. \E r : SameSlot(r, slot[n]) /\ slot' = [slot EXCEPT ![n] = r]
      <3>1. CASE Retry(s)
        <4>1. \E r \in {slot[n], [slot[n] EXCEPT !.failed = FALSE],
                        [slot[n] EXCEPT !.failed = FALSE, !.index = "loading", !.bg = "load"]} :
                 slot' = [slot EXCEPT ![n] = r]
          BY Zenon, <3>1 DEF Retry
        <4> QED
          BY Zenon, <1>0, <2>1, <4>1, SlotFields
      <3>2. CASE Activate(s)
        <4>1. slot' = [slot EXCEPT ![n] = [slot[n] EXCEPT !.active = TRUE,
                                              !.watcher = @ \/ ~slot[n].active]]
          BY Zenon, <3>2 DEF Activate
        <4> QED
          BY Zenon, <1>0, <2>1, <4>1, SlotFields
      <3>3. CASE BeginReload(s) \/ ReloadFails(s)
        <4>1. \/ slot' = [slot EXCEPT ![n] = [slot[n] EXCEPT !.lock = s, !.watcher = FALSE]]
              \/ slot' = [slot EXCEPT ![n] = [slot[n] EXCEPT !.lock = NoOne, !.watcher = TRUE]]
          BY Zenon, <3>3 DEF BeginReload, ReloadFails
        <4> QED
          BY Zenon, <1>0, <2>1, <4>1, SlotFields
      <3>4. CASE Reload(s)
        <4>1. slot' = [slot EXCEPT ![n] = [slot[n] EXCEPT !.lock = NoOne, !.watcher = TRUE,
                                              !.index = "settled"]]
          BY Zenon, <3>4 DEF Reload
        <4> QED
          BY Zenon, <1>0, <2>1, <4>1, SlotFields
      <3> QED
        BY Zenon, <1>3, <3>1, <3>2, <3>3, <3>4
    <2> QED
      BY Zenon, <2>1, <2>2, <2>3, NamesFrame
  <1> QED
    BY Zenon, <1>1, <1>2, <1>3

\* The steps of slots that no operation takes.
LEMMA NamesStayInBackground ==
    ASSUME IInv,
           \/ \E n \in Slots : BackgroundLoad(n) \/ FlagFailure(n) \/ Stop(n)
           \/ \E s \in Sessions : FinishRemoved(s)
           \/ \E p \in Projects : Unload(p)
    PROVE  NamesStay
  <1>0. slot \in [Slots -> SlotRecords] /\ \A n \in Slots : slot[n] \in SlotRecords
    BY Zenon DEF IInv, TypeOK
  <1>1. \A t \in Sessions : At(t, "build")' => At(t, "build") /\ op'[t].adm = op[t].adm
    BY Zenon DEF BackgroundLoad, FlagFailure, Stop, FinishRemoved, Unload, At
  <1>2. SUFFICES \A n \in Slots : slot'[n].at \in {"built", "mapped"} =>
                    slot[n].at \in {"built", "mapped"} /\ slot'[n].adm = slot[n].adm
    BY Zenon, <1>1 DEF NamesStay
  <1>3. ASSUME NEW n \in Slots, BackgroundLoad(n) \/ FlagFailure(n)
        PROVE  \A m \in Slots : SameSlot(slot'[m], slot[m])
    <2>1. \E r : SameSlot(r, slot[n]) /\ slot' = [slot EXCEPT ![n] = r]
      <3>1. CASE FlagFailure(n)
        <4>1. slot' = [slot EXCEPT ![n] = [slot[n] EXCEPT !.failed = TRUE, !.bg = "none"]]
          BY Zenon, <3>1 DEF FlagFailure
        <4> QED
          BY Zenon, <1>0, <4>1, SlotFields
      <3>2. CASE BackgroundLoad(n)
        <4>1. PICK result \in {"settled", "empty"} :
                 slot' = [slot EXCEPT ![n] =
                    IF @.at = "stopped" \/ (result = "empty" /\ @.index = "settled")
                    THEN [@ EXCEPT !.bg = "none"]
                    ELSE [@ EXCEPT !.index = result,
                                   !.bg = IF result = "empty" THEN "flag" ELSE "none"]]
          BY Zenon, <3>2 DEF BackgroundLoad
        <4> DEFINE q == [slot[n] EXCEPT !.bg = "none"]
                   r == [slot[n] EXCEPT !.index = result,
                                        !.bg = IF result = "empty" THEN "flag" ELSE "none"]
        <4>2. slot' = [slot EXCEPT ![n] = q] \/ slot' = [slot EXCEPT ![n] = r]
          BY Zenon, <4>1
        <4>3. SameSlot(q, slot[n]) /\ SameSlot(r, slot[n])
          BY Zenon, <1>0, SlotFields
        <4> QED
          BY Zenon, <4>2, <4>3
      <3> QED
        BY Zenon, <1>3, <3>1, <3>2
    <2> QED
      BY Zenon, <1>0, <2>1 DEF SameSlot
  <1>4. ASSUME NEW s \in Sessions, FinishRemoved(s)
        PROVE  \A m \in Slots : SameSlot(slot'[m], slot[m])
    <2>1. \A m \in Slots : SameSlot(Left(m, s), slot[m]) /\ SameSlot(slot[m], slot[m])
      BY <1>0, SlotFields DEF Left, SameSlot
    <2>2. \A m \in Slots : slot'[m] = Left(m, s) \/ slot'[m] = slot[m]
      BY Zenon, <1>4 DEF FinishRemoved
    <2> QED
      BY Zenon, <2>1, <2>2
  <1>5. ASSUME NEW n \in Slots, Stop(n) \/ (\E p \in Projects : n = projects[p] /\ Unload(p))
        PROVE  \A m \in Slots : slot'[m].at \in {"built", "mapped"} => slot'[m] = slot[m]
    <2> DEFINE q == [slot[n] EXCEPT !.at = "stopped", !.watcher = FALSE]
               r == [slot[n] EXCEPT !.at = "removed"]
    <2>1. q.at = "stopped" /\ r.at = "removed"
      BY Zenon, <1>0 DEF SlotRecords
    <2>2. slot' = [slot EXCEPT ![n] = q] \/ slot' = [slot EXCEPT ![n] = r]
      BY Zenon, <1>5 DEF Stop, Unload
    <2> HIDE DEF q, r
    <2> QED
      BY Zenon, <1>0, <2>1, <2>2
  <1>6. \A p \in Projects : Unload(p) => projects[p] \in Slots
    BY Zenon DEF Unload, IInv, TypeOK
  <1> QED
    BY Zenon, <1>3, <1>4, <1>5, <1>6 DEF SameSlot

\* A load works under the admission it joined or made, and its slot has it.
LEMMA LoadsAreNamed ==
    ASSUME IInv, AdmissionsAreNamed, NEW s \in Sessions,
           Admit(s) \/ Build(s) \/ BuildFails(s) \/ Insert(s)
    PROVE  AdmissionsAreNamed'
  <1>0. /\ slot \in [Slots -> SlotRecords] /\ op \in [Sessions -> Operations]
        /\ \A n \in Slots : slot[n] \in SlotRecords
        /\ \A t \in Sessions : op[t] \in Operations
        /\ projects \in [Projects -> Slots \cup {0}]
        /\ occupancy \in [Projects -> Slots \cup {0}]
    BY Zenon DEF IInv, TypeOK
  <1>1. /\ op[s].pc \in Loading /\ op[s].slot \in Slots /\ op[s].slot # 0
        /\ op[s].project \in Projects
    <2>1. op[s].pc \in Loading /\ ~At(s, "idle")
      BY Zenon DEF Admit, Build, BuildFails, Insert, At, Loading
    <2> QED
      BY Zenon, <2>1, LoaderFacts
  <1>2. CASE Admit(s)
    <2> DEFINE a == occupancy'[op[s].project]
               o == [op[s] EXCEPT !.pc = "build", !.adm = a]
    <2>1. a # 0
      BY Zenon, <1>0, <1>1, <1>2 DEF Admit
    <2>2. op' = [op EXCEPT ![s] = o] /\ UNCHANGED slot
      BY Zenon, <1>2 DEF Admit, Go
    <2>3. o.adm = a
      BY Zenon, <1>0 DEF Operations
    <2> HIDE DEF a, o
    <2> QED
      BY Zenon, <1>0, <2>1, <2>2, <2>3 DEF AdmissionsAreNamed, At
  <1>3. CASE Build(s)
    <2>1. PICK index \in {"settled", "loading"} :
             slot' = [slot EXCEPT ![op[s].slot] =
                [NoSlot EXCEPT !.at = "built", !.project = op[s].project,
                               !.adm = op[s].adm, !.index = index,
                               !.bg = IF index = "loading" THEN "load" ELSE "none"]]
      BY Zenon, <1>3 DEF Build
    <2> DEFINE r == [NoSlot EXCEPT !.at = "built", !.project = op[s].project,
                               !.adm = op[s].adm, !.index = index,
                               !.bg = IF index = "loading" THEN "load" ELSE "none"]
    <2>2. r.adm = op[s].adm
      BY Zenon DEF NoSlot
    <2>3. op[s].adm # 0
      BY Zenon, <1>3 DEF Build, AdmissionsAreNamed
    <2>4. slot' = [slot EXCEPT ![op[s].slot] = r]
      BY Zenon, <2>1
    <2> HIDE DEF r
    <2>5. \A n \in Slots : slot'[n].at \in {"built", "mapped"} => slot'[n].adm # 0
      BY Zenon, <1>0, <2>2, <2>3, <2>4 DEF AdmissionsAreNamed
    <2>6. \E o : Go(s, o) /\ o.pc = "insert"
      BY <1>3, StepPc DEF Build
    <2>7. \A t \in Sessions : At(t, "build")' => At(t, "build") /\ op'[t].adm = op[t].adm
      BY Zenon, <1>0, <2>6 DEF Go, At
    <2> QED
      BY Zenon, <2>5, <2>7 DEF AdmissionsAreNamed
  <1>4. CASE BuildFails(s) \/ Insert(s)
    <2>1. \A t \in Sessions : At(t, "build")' => At(t, "build") /\ op'[t].adm = op[t].adm
      <3>1. PICK outcome \in {"ok", "err"} : Completed(s, outcome, "evict")
        BY Zenon, <1>4 DEF BuildFails, Insert
      <3>2. \A t \in Sessions :
               op'[t] = IF t = s THEN [op[s] EXCEPT !.pc = "evict", !.outcome = outcome]
                        ELSE IF op[t].pc = "wait" /\ op[t].leader = s
                             THEN [op[t] EXCEPT !.outcome = outcome] ELSE op[t]
        BY Zenon, <3>1 DEF Completed
      <3>3. \A t \in Sessions :
               /\ [op[t] EXCEPT !.pc = "evict", !.outcome = outcome].pc = "evict"
               /\ [op[t] EXCEPT !.outcome = outcome].pc = op[t].pc
        BY Zenon, <1>0 DEF Operations
      <3> QED
        BY ZenonT(30), <3>2, <3>3 DEF At
    <2>2. CASE BuildFails(s)
      BY Zenon, <2>1, <2>2 DEF BuildFails, AdmissionsAreNamed
    <2>3. CASE Insert(s)
      <3> DEFINE p == op[s].project
                 n == op[s].slot
                 q == [slot[n] EXCEPT !.at = "mapped", !.members = {s}]
                 r == [slot[projects[p]] EXCEPT !.members = @ \cup {s}]
      <3>0. slot[n].at = "built" /\ slot[n].adm # 0
        BY Zenon, <1>1, <2>3 DEF Insert, IInv, LoadersOwnSlots, AdmissionsAreNamed, At
      <3>1. CASE projects[p] = 0
        <4>1. slot' = [slot EXCEPT ![n] = q]
          BY Zenon, <1>0, <1>1, <2>3, <3>1 DEF Insert
        <4>2. q.adm = slot[n].adm
          BY Zenon, <1>0, <1>1 DEF SlotRecords
        <4> HIDE DEF q
        <4> QED
          BY Zenon, <1>0, <1>1, <2>1, <3>0, <4>1, <4>2 DEF AdmissionsAreNamed
      <3>2. CASE projects[p] # 0
        <4>1. projects[p] \in Slots /\ projects[p] # n
          BY ZenonT(30), <1>0, <1>1, <3>0, <3>2 DEF IInv, EntriesAreMapped
        <4>2. slot' = [slot EXCEPT ![n] = NoSlot, ![projects[p]].members = @ \cup {s}]
          BY Zenon, <2>3, <3>2 DEF Insert
        <4>3. /\ slot'[n] = NoSlot /\ slot'[projects[p]] = r
              /\ \A m \in Slots \ {n, projects[p]} : slot'[m] = slot[m]
          BY Zenon, <1>0, <1>1, <4>1, <4>2
        <4>4. SameSlot(r, slot[projects[p]]) /\ NoSlot.at = "none"
          BY Zenon, <1>0, <4>1, SlotFields DEF NoSlot
        <4> HIDE DEF r
        <4>5. ASSUME NEW m \in Slots, slot'[m].at \in {"built", "mapped"}
              PROVE  slot'[m].adm # 0
          <5>1. CASE m = n
            BY Zenon, <4>3, <4>4, <4>5, <5>1
          <5>2. CASE m = projects[p]
            BY Zenon, <4>1, <4>3, <4>4, <4>5, <5>2 DEF AdmissionsAreNamed, SameSlot
          <5>3. CASE m \notin {n, projects[p]}
            BY Zenon, <4>3, <4>5, <5>3 DEF AdmissionsAreNamed
          <5> QED
            BY Zenon, <5>1, <5>2, <5>3
        <4>6. \A t \in Sessions : At(t, "build")' => op'[t].adm # 0
          BY Zenon, <2>1 DEF AdmissionsAreNamed
        <4> QED
          BY Zenon, <4>5, <4>6 DEF AdmissionsAreNamed
      <3> QED
        BY Zenon, <3>1, <3>2
    <2> QED
      BY Zenon, <1>4, <2>2, <2>3
  <1> QED
    BY Zenon, <1>2, <1>3, <1>4

\* Every step keeps the admissions named.
LEMMA NamesKept ==
    ASSUME IInv, AdmissionsAreNamed, [Next]_vars
    PROVE  AdmissionsAreNamed'
  <1>0. NamesStay => AdmissionsAreNamed'
    BY Zenon DEF NamesStay, AdmissionsAreNamed
  <1>1. CASE UNCHANGED vars
    BY Zenon, <1>1 DEF vars, AdmissionsAreNamed, At
  <1>2. ASSUME NEW s \in Sessions, Proceed(s)
        PROVE  AdmissionsAreNamed'
    <2>1. CASE Admit(s) \/ Build(s) \/ BuildFails(s) \/ Insert(s)
      BY Zenon, <2>1, LoadsAreNamed
    <2>2. CASE \/ Look(s) \/ Fly(s) \/ Evict(s) \/ Record(s) \/ Add(s) \/ Bind(s) \/ Focus(s)
      BY Zenon, <1>0, <2>2, NamesStayInOps
    <2>3. CASE \/ Join(s) \/ Wait(s) \/ Enlist(s) \/ Detach(s) \/ Retry(s) \/ Activate(s)
               \/ BeginReload(s) \/ Reload(s) \/ ReloadFails(s)
      BY Zenon, <1>0, <2>3, NamesStayInSlots
    <2> QED
      BY Zenon, <1>2, <2>1, <2>2, <2>3 DEF Proceed
  <1>3. CASE \E s \in Sessions, p \in Projects : OpenSession(s, p) \/ IndexFolder(s, p)
    BY Zenon, <1>0, <1>3, NamesStayInOps
  <1>4. CASE \/ \E n \in Slots : BackgroundLoad(n) \/ FlagFailure(n) \/ Stop(n)
             \/ \E s \in Sessions : FinishRemoved(s)
             \/ \E p \in Projects : Unload(p)
    BY Zenon, <1>0, <1>4, NamesStayInBackground
  <1>5. ASSUME NEW s \in Sessions, CloseSession(s) \/ Heartbeat(s) \/ Reap(s) \/ Claim(s)
        PROVE  AdmissionsAreNamed'
    BY Zenon, <1>0, <1>5, NamesStayInOps
  <1>6. claims \subseteq Sessions
    BY Zenon DEF IInv, TypeOK
  <1> QED
    BY Zenon, <1>1, <1>2, <1>3, <1>4, <1>5, <1>6 DEF Next

\* Only an admission, the cleanup of a failed load and a stop touch occupancy.
LEMMA OccupancyChanges ==
    ASSUME IInv, [Next]_vars, occupancy' # occupancy
    PROVE  \/ \E s \in Sessions : Admit(s) \/ BuildFails(s)
           \/ \E n \in Slots : Stop(n)
  <1>1. ASSUME NEW s \in Sessions, Proceed(s) PROVE Admit(s) \/ BuildFails(s)
    BY Zenon, <1>1 DEF Proceed, Look, Join, Fly, Build, Insert, Evict, Wait, Retry, Activate,
       Record, BeginReload, Reload, ReloadFails, Add, Enlist, Bind, Detach, Focus
  <1>2. ASSUME NEW s \in Sessions, NEW p \in Projects, OpenSession(s, p) \/ IndexFolder(s, p)
        PROVE  FALSE
    BY Zenon, <1>2 DEF OpenSession, IndexFolder
  <1>3. ASSUME NEW n \in Slots, BackgroundLoad(n) \/ FlagFailure(n)
        PROVE  FALSE
    BY Zenon, <1>3 DEF BackgroundLoad, FlagFailure
  <1>4. ASSUME NEW s \in Sessions, \/ CloseSession(s) \/ FinishRemoved(s) \/ Heartbeat(s)
                                   \/ Reap(s) \/ Claim(s)
        PROVE  FALSE
    BY Zenon, <1>4 DEF CloseSession, FinishRemoved, Heartbeat, Reap, Claim
  <1>5. ASSUME NEW p \in Projects, Unload(p)
        PROVE  FALSE
    BY Zenon, <1>5 DEF Unload
  <1>6. claims \subseteq Sessions
    BY Zenon DEF IInv, TypeOK
  <1> QED
    BY Zenon, <1>1, <1>2, <1>3, <1>4, <1>5, <1>6 DEF Next, vars

\* The slot that serves a project keeps its admission until a slot is stopped.
LEMMA ServingSlotKeepsAdmission ==
    ASSUME IInv, AdmissionsAreNamed, [Next]_vars, NEW p \in Projects,
           projects[p] # 0, occupancy[p] = slot[projects[p]].adm,
           occupancy'[p] # occupancy[p]
    PROVE  \E n \in Slots : slot[n].at = "removed" /\ slot'[n].at = "stopped"
  <1>0. /\ projects[p] \in Slots /\ slot[projects[p]].at = "mapped"
        /\ occupancy \in [Projects -> Slots \cup {0}] /\ occupancy[p] # 0
    BY Zenon DEF IInv, TypeOK, EntriesAreMapped, AdmissionsAreNamed
  <1>1. ASSUME NEW s \in Sessions, Admit(s) PROVE FALSE
    BY Zenon, <1>0, <1>1 DEF Admit
  <1>2. ASSUME NEW s \in Sessions, BuildFails(s) PROVE FALSE
    <2>1. HeldByOthers(s, occupancy[p])
      BY Zenon, <1>0 DEF HeldByOthers
    <2>2. \/ occupancy' = [occupancy EXCEPT ![op[s].project] =
                IF @ = op[s].adm /\ ~HeldByOthers(s, @) THEN 0 ELSE @]
          \/ UNCHANGED occupancy
      BY Zenon, <1>2 DEF BuildFails
    <2>3. UNCHANGED occupancy \/ occupancy'[p] = occupancy[p]
      BY Zenon, <1>0, <2>1, <2>2
    <2> QED
      BY Zenon, <2>3
  <1>3. ASSUME NEW n \in Slots, Stop(n)
        PROVE  slot[n].at = "removed" /\ slot'[n].at = "stopped"
    <2>1. slot[n].at = "removed" /\ slot[n] \in SlotRecords /\ slot \in [Slots -> SlotRecords]
      BY Zenon, <1>3 DEF Stop, IInv, TypeOK
    <2>2. [slot[n] EXCEPT !.at = "stopped", !.watcher = FALSE].at = "stopped"
      BY Zenon, <2>1 DEF SlotRecords
    <2>3. slot' = [slot EXCEPT ![n] = [slot[n] EXCEPT !.at = "stopped", !.watcher = FALSE]]
      BY Zenon, <1>3 DEF Stop
    <2> QED
      BY Zenon, <2>1, <2>2, <2>3
  <1> QED
    BY Zenon, <1>1, <1>2, <1>3, OccupancyChanges

\* A load that fails never retires the admission of the slot that serves the
\* project (cleanup_failed_daemon_admission): only the stop of an unloaded slot
\* does.  A mapped slot has an admission, so the cleanup sees that it is held.
THEOREM FailedLoadsRetireNothing == Spec => FailedLoadRetiresNothing
  <1>1. Init => AdmissionsAreNamed
    <2> SUFFICES ASSUME Init PROVE AdmissionsAreNamed
      BY Zenon
    <2>1. NoOp.pc = "idle" /\ NoSlot.at = "none"
      BY Zenon DEF NoOp, NoSlot
    <2> QED
      BY Zenon, <2>1 DEF Init, AdmissionsAreNamed, At
  <1>2. IInv /\ AdmissionsAreNamed /\ [Next]_vars =>
           [occupancy' # occupancy =>
              \A p \in Projects :
                 (/\ projects[p] # 0 /\ occupancy[p] = slot[projects[p]].adm
                  /\ occupancy'[p] # occupancy[p]) =>
                    \E n \in Slots : slot[n].at = "removed" /\ slot'[n].at = "stopped"]_vars
    BY Zenon, ServingSlotKeepsAdmission
  <1> QED
    BY <1>1, <1>2, NamesKept, RegistryInvariant, PTL DEF Spec, FailedLoadRetiresNothing
=============================================================================
