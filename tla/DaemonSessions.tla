--------------------------- MODULE DaemonSessions ---------------------------
(***************************************************************************)
(* DaemonState: the sessions of the shared daemon, the project slots they  *)
(* share, the single flight of a cold load, and the reaper that closes     *)
(* abandoned sessions and unloads idle projects.  Every map has a lock of  *)
(* its own and none is held across a load, a reload or a stop, so an       *)
(* operation is a chain of short critical sections, one action each.  A    *)
(* session id is minted once and never reused.  A slot is named by the     *)
(* number of the load that built it, an admission by the load that made it.*)
(***************************************************************************)
EXTENDS Naturals, FiniteSets

CONSTANTS
    Projects,   \* project ids
    Sessions,   \* the session ids that are ever minted
    NoOne,      \* no session, and no project
    MaxLoads    \* bound on the instances ever built

ASSUME ConstantsOK ==
    /\ NoOne \notin Sessions \cup Projects
    /\ MaxLoads \in Nat \ {0}

VARIABLES
    projects,   \* the registry of slots: project id -> slot, 0 for none
    slot,       \* every ProjectSlot ever built
    loads,      \* how many there are
    occupancy,  \* ProjectRegistry: project key -> live admission, 0 for none
    flights,    \* cold_load_flights: project id -> leading session, or NoOne
    sessions,   \* the session records
    op,         \* the operation a session has in progress
    claims      \* the sessions the reaper's sweep found expired

vars == <<projects, slot, loads, occupancy, flights, sessions, op, claims>>

-----------------------------------------------------------------------------
(* Records.                                                                *)

Slots == 1 .. MaxLoads

\* ProjectInstance and its BackgroundLoad.  index is what the index reports:
\* loading, the failure of its load, or settled (published, or refused for its
\* size); bg is the background load: running, or about to flag its failure.
\* Whoever empties members also sets idle_since, which nobody clears.
NoSlot == [at |-> "none", project |-> NoOne, members |-> {}, active |-> FALSE,
           watcher |-> FALSE, lock |-> NoOne, adm |-> 0, index |-> "none",
           bg |-> "none", failed |-> FALSE]

\* SessionRecord: server is the slot whose index the session's server reads; old
\* says that last_seen is what the reaper's sweep observed.
NoSession == [at |-> "none", active |-> NoOne, server |-> [p \in Projects |-> 0],
              old |-> FALSE]

NoOp == [pc |-> "idle", kind |-> "none", project |-> NoOne, slot |-> 0, adm |-> 0,
         leader |-> NoOne, outcome |-> "none"]

Go(s, new) == op' = [op EXCEPT ![s] = new]
Return(s) == Go(s, NoOp)
Step(s, pc) == Go(s, [op[s] EXCEPT !.pc = pc])
At(s, pc) == op[s].pc = pc

\* The session joins a slot under the registry write lock.
Joined(n, s) == slot' = [slot EXCEPT ![n].members = @ \cup {s}]

-----------------------------------------------------------------------------
(* ensure_project_slot_for_session: join the current slot, or load one.    *)

\* open_project_session mints a session id; index_folder names a session that
\* may have been closed since.
OpenSession(s, p) ==
    /\ At(s, "idle") /\ sessions[s].at = "none"
    /\ Go(s, [NoOp EXCEPT !.pc = "look", !.kind = "open", !.project = p])
    /\ UNCHANGED <<projects, slot, loads, occupancy, flights, sessions, claims>>

IndexFolder(s, p) ==
    /\ At(s, "idle") /\ sessions[s].at # "none"
    /\ Go(s, [NoOp EXCEPT !.pc = "look", !.kind = "index", !.project = p])
    /\ UNCHANGED <<projects, slot, loads, occupancy, flights, sessions, claims>>

Look(s) ==
    LET n == projects[op[s].project]
    IN  /\ At(s, "look")
        /\ Go(s, [op[s] EXCEPT !.pc = IF n = 0 THEN "fly" ELSE "join", !.slot = n])
        /\ UNCHANGED <<projects, slot, loads, occupancy, flights, sessions, claims>>

\* The slot is joined without asking whether it is still the map's entry.
Join_unchecked(s) ==
    /\ At(s, "join")
    /\ Joined(op[s].slot, s) /\ Step(s, "joined")
    /\ UNCHANGED <<projects, loads, occupancy, flights, sessions, claims>>

\* The slot that was seen is joined only if it is still the map's entry.
Join(s) ==
    /\ At(s, "join")
    /\ IF projects[op[s].project] = op[s].slot
       THEN Joined(op[s].slot, s) /\ Step(s, "joined")
       ELSE Step(s, "look") /\ UNCHANGED slot
    /\ UNCHANGED <<projects, loads, occupancy, flights, sessions, claims>>

\* The first opener leads the cold load; the others wait for its outcome.
Fly(s) ==
    LET p == op[s].project
        leader == flights[p]
    IN  /\ At(s, "fly")
        /\ IF leader = NoOne
           THEN /\ loads < MaxLoads
                /\ loads' = loads + 1
                /\ flights' = [flights EXCEPT ![p] = s]
                /\ Go(s, [op[s] EXCEPT !.pc = "admit", !.slot = loads',
                                       !.leader = s, !.outcome = "pending"])
           ELSE /\ Go(s, [op[s] EXCEPT !.pc = "wait", !.leader = leader,
                                       !.outcome = op[leader].outcome])
                /\ UNCHANGED <<flights, loads>>
        /\ UNCHANGED <<projects, slot, occupancy, sessions, claims>>

\* admit_project_with_outcome, at the call that takes effect: the live
\* occupancy of the key is joined, or one is installed.
Admit(s) ==
    LET p == op[s].project
    IN  /\ At(s, "admit")
        /\ occupancy' = [occupancy EXCEPT ![p] = IF @ = 0 THEN op[s].slot ELSE @]
        /\ Go(s, [op[s] EXCEPT !.pc = "build", !.adm = occupancy'[p]])
        /\ UNCHANGED <<projects, slot, loads, flights, sessions, claims>>

\* ColdLoadFlight::complete: the outcome reaches everyone who waits.
Completed(s, outcome, pc) ==
    op' = [t \in Sessions |->
              IF t = s THEN [op[s] EXCEPT !.pc = pc, !.outcome = outcome]
              ELSE IF op[t].pc = "wait" /\ op[t].leader = s
                   THEN [op[t] EXCEPT !.outcome = outcome] ELSE op[t]]

\* The bootstrap succeeds, or finds the tree beyond the catalog's capacity, or
\* (on a session open) outlasts its budget and goes on in the background.
Build(s) ==
    /\ At(s, "build")
    /\ \E index \in {"settled", "loading"} :
          /\ index = "loading" => op[s].kind = "open"
          /\ slot' = [slot EXCEPT ![op[s].slot] =
                [NoSlot EXCEPT !.at = "built", !.project = op[s].project,
                               !.adm = op[s].adm, !.index = index,
                               !.bg = IF index = "loading" THEN "load" ELSE "none"]]
    /\ Step(s, "insert")
    /\ UNCHANGED <<projects, loads, occupancy, flights, sessions, claims>>

\* The cleanup does not ask who else holds the admission.
HeldByOthers_unasked(s, a) == FALSE

\* stop_if_unheld asks whether anyone else holds the admission.
HeldByOthers(s, a) ==
    \/ \E n \in Slots : slot[n].adm = a /\ slot[n].at \in {"built", "mapped", "removed"}
    \/ \E t \in Sessions \ {s} : At(t, "build") /\ op[t].adm = a

\* The bootstrap fails and nobody is told.
BuildFails_silently(s) ==
    LET p == op[s].project
    IN  /\ At(s, "build")
        /\ \/ occupancy' = [occupancy EXCEPT
                 ![p] = IF @ = op[s].adm /\ ~HeldByOthers(s, @) THEN 0 ELSE @]
           \/ UNCHANGED occupancy
        /\ Step(s, "evict")
        /\ UNCHANGED <<projects, slot, loads, flights, sessions, claims>>

\* The bootstrap fails: cleanup_failed_daemon_admission, which a panic or a
\* source that moved skips.  The outcome of the flight is the error.
BuildFails(s) ==
    LET p == op[s].project
    IN  /\ At(s, "build")
        /\ \/ occupancy' = [occupancy EXCEPT
                 ![p] = IF @ = op[s].adm /\ ~HeldByOthers(s, @) THEN 0 ELSE @]
           \/ UNCHANGED occupancy
        /\ Completed(s, "err", "evict")
        /\ UNCHANGED <<projects, slot, loads, flights, sessions, claims>>

\* The winner of the map entry is joined; a losing candidate is dropped.
Insert(s) ==
    LET p == op[s].project
        n == op[s].slot
    IN  /\ At(s, "insert")
        /\ IF projects[p] = 0
           THEN /\ projects' = [projects EXCEPT ![p] = n]
                /\ slot' = [slot EXCEPT ![n].at = "mapped", ![n].members = {s}]
           ELSE /\ slot' = [slot EXCEPT ![n] = NoSlot, ![projects[p]].members = @ \cup {s}]
                /\ UNCHANGED projects
        /\ Completed(s, "ok", "evict")
        /\ UNCHANGED <<loads, occupancy, flights, sessions, claims>>

\* ColdLoadLeaderGuard::drop.
Evict(s) ==
    /\ At(s, "evict")
    /\ flights' = [flights EXCEPT ![op[s].project] = NoOne]
    /\ Step(s, "wait")
    /\ UNCHANGED <<projects, slot, loads, occupancy, sessions, claims>>

\* ColdLoadFlight::wait returns: an error is passed on, and so is the loss of
\* the project that was loaded.
Wait(s) ==
    LET n == projects[op[s].project]
    IN  /\ At(s, "wait") /\ op[s].outcome # "pending"
        /\ IF op[s].outcome = "ok" /\ n # 0
           THEN /\ Joined(n, s)
                /\ Go(s, [NoOp EXCEPT !.pc = "joined", !.kind = op[s].kind,
                                      !.project = op[s].project, !.slot = n])
           ELSE Return(s) /\ UNCHANGED slot
        /\ UNCHANGED <<projects, loads, occupancy, flights, sessions, claims>>

-----------------------------------------------------------------------------
(* The rest of a session open: retry a failed load, activate, register.    *)

Retries(n) == slot[n].failed /\ slot[n].lock = NoOne

\* retry_failed_background_load, unless a reload holds the mutation lock.
Retry(s) ==
    LET n == op[s].slot
    IN  /\ At(s, "joined") /\ op[s].kind = "open"
        /\ slot' = [slot EXCEPT ![n] =
              IF ~Retries(n) THEN @
              ELSE IF @.index # "empty" THEN [@ EXCEPT !.failed = FALSE]
              ELSE [@ EXCEPT !.failed = FALSE, !.index = "loading", !.bg = "load"]]
        /\ Step(s, "activate")
        /\ UNCHANGED <<projects, loads, occupancy, flights, sessions, claims>>

\* ProjectSlot::activate, under the mutation lock: a watcher is started unless
\* the reload has already installed one.
Activate(s) ==
    LET n == op[s].slot
    IN  /\ At(s, "activate") /\ slot[n].lock = NoOne
        /\ slot' = [slot EXCEPT ![n].active = TRUE,
                                ![n].watcher = @ \/ ~slot[n].active]
        /\ Step(s, IF op[s].kind = "open" THEN "record" ELSE "add")
        /\ UNCHANGED <<projects, loads, occupancy, flights, sessions, claims>>

\* The record goes in last, with the server that reads the joined slot.
Record(s) ==
    LET p == op[s].project
    IN  /\ At(s, "record")
        /\ sessions' = [sessions EXCEPT ![s] =
              [NoSession EXCEPT !.at = "open", !.active = p, !.server[p] = op[s].slot]]
        /\ Return(s)
        /\ UNCHANGED <<projects, slot, loads, occupancy, flights, claims>>

-----------------------------------------------------------------------------
(* The rest of index_folder: reload, activate, attach, make active.        *)

\* reload_with takes the mutation lock and aborts the watcher.
BeginReload(s) ==
    LET n == op[s].slot
    IN  /\ At(s, "joined") /\ op[s].kind = "index" /\ slot[n].lock = NoOne
        /\ slot' = [slot EXCEPT ![n].lock = s, ![n].watcher = FALSE]
        /\ Step(s, "reload")
        /\ UNCHANGED <<projects, loads, occupancy, flights, sessions, claims>>

Reload(s) ==
    LET n == op[s].slot
    IN  /\ At(s, "reload")
        /\ slot' = [slot EXCEPT ![n].lock = NoOne, ![n].watcher = TRUE,
                                ![n].index = "settled"]
        /\ Step(s, "activate")
        /\ UNCHANGED <<projects, loads, occupancy, flights, sessions, claims>>

\* The error returns without a watcher in place of the aborted one.
ReloadFails_blind(s) ==
    LET n == op[s].slot
    IN  /\ At(s, "reload")
        /\ slot' = [slot EXCEPT ![n].lock = NoOne]
        /\ Return(s)
        /\ UNCHANGED <<projects, loads, occupancy, flights, sessions, claims>>

\* The index is retained and watched again, and the error ends the operation.
ReloadFails(s) ==
    LET n == op[s].slot
    IN  /\ At(s, "reload")
        /\ slot' = [slot EXCEPT ![n].lock = NoOne, ![n].watcher = TRUE]
        /\ Return(s)
        /\ UNCHANGED <<projects, loads, occupancy, flights, sessions, claims>>

\* add_project_to_session looks up the map's current slot, ...
Add(s) ==
    LET n == projects[op[s].project]
    IN  /\ At(s, "add")
        /\ IF n = 0 THEN Return(s) ELSE Go(s, [op[s] EXCEPT !.pc = "enlist", !.slot = n])
        /\ UNCHANGED <<projects, slot, loads, occupancy, flights, sessions, claims>>

\* ... joins it without the registry lock, ...
Enlist(s) ==
    /\ At(s, "enlist")
    /\ Joined(op[s].slot, s) /\ Step(s, "bind")
    /\ UNCHANGED <<projects, loads, occupancy, flights, sessions, claims>>

\* ... then attaches the record, if the session still has one.
Bind(s) ==
    LET p == op[s].project
    IN  /\ At(s, "bind")
        /\ IF sessions[s].at = "open"
           THEN /\ sessions' = [sessions EXCEPT ![s].server[p] = op[s].slot]
                /\ Step(s, "focus")
           ELSE Step(s, "detach") /\ UNCHANGED sessions
        /\ UNCHANGED <<projects, slot, loads, occupancy, flights, claims>>

Left(n, s) == [slot[n] EXCEPT !.members = @ \ {s}]

\* detach_project_membership: the session closed while it was being attached.
Detach(s) ==
    LET n == projects[op[s].project]
    IN  /\ At(s, "detach")
        /\ slot' = IF n = 0 THEN slot ELSE [slot EXCEPT ![n] = Left(n, s)]
        /\ Return(s)
        /\ UNCHANGED <<projects, loads, occupancy, flights, sessions, claims>>

\* set_active_project, unless the call said add=true.
Focus(s) ==
    LET p == op[s].project
    IN  /\ At(s, "focus")
        /\ \/ /\ sessions[s].at = "open" /\ sessions[s].server[p] # 0
              /\ sessions' = [sessions EXCEPT ![s].active = p, ![s].old = FALSE]
           \/ UNCHANGED sessions
        /\ Return(s)
        /\ UNCHANGED <<projects, slot, loads, occupancy, flights, claims>>

-----------------------------------------------------------------------------
(* Background loads.                                                       *)

\* A failure leaves the placeholder as it is.
BackgroundLoad_unsettled(n) ==
    /\ slot[n].bg = "load"
    /\ \E result \in {"settled", "empty"} :
          slot' = [slot EXCEPT ![n] =
             IF @.at = "stopped" \/ (result = "empty" /\ @.index = "settled")
             THEN [@ EXCEPT !.bg = "none"]
             ELSE IF result = "empty" THEN [@ EXCEPT !.bg = "flag"]
             ELSE [@ EXCEPT !.index = result, !.bg = "none"]]
    /\ UNCHANGED <<projects, loads, occupancy, flights, sessions, op, claims>>

\* ColdLoadJob::finish: a load that was cancelled, or whose place was taken by
\* another load, settles nothing; a failure becomes the empty reason first.
BackgroundLoad(n) ==
    /\ slot[n].bg = "load"
    /\ \E result \in {"settled", "empty"} :
          slot' = [slot EXCEPT ![n] =
             IF @.at = "stopped" \/ (result = "empty" /\ @.index = "settled")
             THEN [@ EXCEPT !.bg = "none"]
             ELSE [@ EXCEPT !.index = result,
                            !.bg = IF result = "empty" THEN "flag" ELSE "none"]]
    /\ UNCHANGED <<projects, loads, occupancy, flights, sessions, op, claims>>

\* ... and only then is the next open told to retry it.
FlagFailure(n) ==
    /\ slot[n].bg = "flag"
    /\ slot' = [slot EXCEPT ![n].failed = TRUE, ![n].bg = "none"]
    /\ UNCHANGED <<projects, loads, occupancy, flights, sessions, op, claims>>

-----------------------------------------------------------------------------
(* Closing sessions and unloading projects.                                *)

\* The record goes first, so that an attach in progress finds it gone ...
Closing(s) == sessions' = [sessions EXCEPT ![s] = [NoSession EXCEPT !.at = "closing"]]

CloseSession(s) ==
    /\ sessions[s].at = "open"
    /\ Closing(s)
    /\ UNCHANGED <<projects, slot, loads, occupancy, flights, op, claims>>

\* ... then finish_removed_session takes it out of every slot that lists it.
FinishRemoved(s) ==
    /\ sessions[s].at = "closing"
    /\ sessions' = [sessions EXCEPT ![s].at = "closed"]
    /\ slot' = [n \in Slots |-> IF slot[n].at = "mapped" THEN Left(n, s) ELSE slot[n]]
    /\ UNCHANGED <<projects, loads, occupancy, flights, op, claims>>

Heartbeat(s) ==
    /\ sessions[s].at = "open"
    /\ sessions' = [sessions EXCEPT ![s].old = FALSE]
    /\ UNCHANGED <<projects, slot, loads, occupancy, flights, op, claims>>

\* reap_expired_sessions, reap_dead_pid_sessions: under the read lock the sweep
\* finds a session without a heartbeat for the TTL, or stale and its process
\* gone.  Its candidates are claimed apart from each other: one stands for all.
Reap(s) ==
    /\ claims = {} /\ sessions[s].at = "open"
    /\ sessions' = [sessions EXCEPT ![s].old = TRUE]
    /\ claims' = {s}
    /\ UNCHANGED <<projects, slot, loads, occupancy, flights, op>>

\* close_session_if_expired: the same observation again, under the write lock.
Expired(s) == sessions[s].at = "open" /\ sessions[s].old

Claim(s) ==
    /\ s \in claims
    /\ claims' = claims \ {s}
    /\ IF Expired(s) THEN Closing(s) ELSE UNCHANGED sessions
    /\ UNCHANGED <<projects, slot, loads, occupancy, flights, op>>

\* unload_idle_projects: a slot that has had no session for the idle grace is
\* taken out of the map.
Unload(p) ==
    LET n == projects[p]
    IN  /\ n # 0 /\ slot[n].members = {}
        /\ projects' = [projects EXCEPT ![p] = 0]
        /\ slot' = [slot EXCEPT ![n].at = "removed"]
        /\ UNCHANGED <<loads, occupancy, flights, sessions, op, claims>>

\* ProjectSlot::stop, once the mutation lock is free: the background load is
\* cancelled, the watcher aborted and the live admission of the key retired.
Stop(n) ==
    /\ slot[n].at = "removed" /\ slot[n].lock = NoOne
    /\ slot' = [slot EXCEPT ![n].at = "stopped", ![n].watcher = FALSE]
    /\ occupancy' = [occupancy EXCEPT ![slot[n].project] = 0]
    /\ UNCHANGED <<projects, loads, flights, sessions, op, claims>>

-----------------------------------------------------------------------------
(* The specification.                                                      *)

Init ==
    /\ projects = [p \in Projects |-> 0] /\ occupancy = [p \in Projects |-> 0]
    /\ slot = [n \in Slots |-> NoSlot] /\ loads = 0
    /\ flights = [p \in Projects |-> NoOne]
    /\ sessions = [s \in Sessions |-> NoSession]
    /\ op = [s \in Sessions |-> NoOp]
    /\ claims = {}

\* What an operation does once it has begun.
Proceed(s) ==
    \/ Look(s) \/ Join(s) \/ Fly(s) \/ Admit(s) \/ Build(s) \/ BuildFails(s)
    \/ Insert(s) \/ Evict(s) \/ Wait(s)
    \/ Retry(s) \/ Activate(s) \/ Record(s)
    \/ BeginReload(s) \/ Reload(s) \/ ReloadFails(s)
    \/ Add(s) \/ Enlist(s) \/ Bind(s) \/ Detach(s) \/ Focus(s)

Next ==
    \/ \E s \in Sessions, p \in Projects : OpenSession(s, p) \/ IndexFolder(s, p)
    \/ \E s \in Sessions : Proceed(s)
    \/ \E n \in Slots : BackgroundLoad(n) \/ FlagFailure(n) \/ Stop(n)
    \/ \E s \in Sessions : CloseSession(s) \/ FinishRemoved(s) \/ Heartbeat(s) \/ Reap(s)
    \/ \E s \in claims : Claim(s)
    \/ \E p \in Projects : Unload(p)

Spec == Init /\ [][Next]_vars

-----------------------------------------------------------------------------
(* Properties.                                                             *)

Served(s) == {p \in Projects : sessions[s].server[p] # 0}

\* A project an open session works with stays loaded for it: its slot is the
\* map's current one, lists the session, is the one the session's server reads,
\* and the active project is among them.  No close, idle unload or racing load
\* takes it away (ensure_project_slot_for_session, unload_idle_projects).
BoundStaysLoaded ==
    \A s \in Sessions : sessions[s].at = "open" =>
       /\ sessions[s].active \in Served(s)
       /\ \A p \in Served(s) :
             /\ projects[p] = sessions[s].server[p]
             /\ s \in slot[projects[p]].members

\* A reload of the slot is in progress and holds its mutation lock.
Reloading(n) ==
    \E t \in Sessions : slot[n].lock = t /\ At(t, "reload") /\ op[t].slot = n

\* A project that is served is watched, or a reload that will watch it again
\* holds its mutation lock; a failed reload leaves it neither blind nor locked.
NeverBlind ==
    \A s \in Sessions : \A p \in Served(s) :
       LET n == sessions[s].server[p]
       IN  slot[n].watcher \/ Reloading(n)

\* A slot in the map that reports Loading has a load running, and one that
\* reports a failed load is flagged for the next open to retry.
FailureIsRetried ==
    \A p \in Projects : projects[p] # 0 =>
       LET n == projects[p]
       IN  /\ slot[n].index = "loading" => slot[n].bg = "load"
           /\ slot[n].index = "empty" => slot[n].failed \/ slot[n].bg = "flag"

\* A failed load never takes the admission away from the slot that serves the
\* project: a second load that raced the first joins its admission, and only the
\* stop of an unloaded slot retires it (cleanup_failed_daemon_admission).
FailedLoadRetiresNothing ==
    [][occupancy' # occupancy =>
          \A p \in Projects :
             (/\ projects[p] # 0 /\ occupancy[p] = slot[projects[p]].adm
              /\ occupancy'[p] # occupancy[p]) =>
                \E n \in Slots : slot[n].at = "removed" /\ slot'[n].at = "stopped"]_vars

\* Nobody waits for a load that is not coming: a waiter without an outcome has
\* a leader that is still loading, whose flight newcomers still find.  The
\* leader completes it whether the load succeeds, fails or panics.
WaitersAreLed ==
    \A s \in Sessions : At(s, "wait") /\ op[s].outcome = "pending" =>
       /\ op[op[s].leader].pc \in {"admit", "build", "insert"}
       /\ flights[op[s].project] = op[s].leader

-----------------------------------------------------------------------------
(* The inductive invariant.                                                *)

Loading == {"admit", "build", "insert"}

\* The steps at which an operation is a member of the slot it remembers ...
Member == {"joined", "activate", "record", "reload", "add", "enlist", "bind", "focus"}

\* ... and those at which that slot has been activated.
Active == {"record", "add", "enlist", "bind", "focus"}

Pcs == {"idle", "look", "join", "fly", "evict", "wait", "detach"} \cup Loading \cup Member

SlotRecords ==
    [at : {"none", "built", "mapped", "removed", "stopped"},
     project : Projects \cup {NoOne}, members : SUBSET Sessions,
     active : BOOLEAN, watcher : BOOLEAN, lock : Sessions \cup {NoOne},
     adm : Slots \cup {0}, index : {"none", "loading", "empty", "settled"},
     bg : {"none", "load", "flag"}, failed : BOOLEAN]

SessionRecords ==
    [at : {"none", "open", "closing", "closed"}, active : Projects \cup {NoOne},
     server : [Projects -> Slots \cup {0}], old : BOOLEAN]

Operations ==
    [pc : Pcs, kind : {"none", "open", "index"}, project : Projects \cup {NoOne},
     slot : Slots \cup {0}, adm : Slots \cup {0}, leader : Sessions \cup {NoOne},
     outcome : {"none", "pending", "ok", "err"}]

TypeOK ==
    /\ projects \in [Projects -> Slots \cup {0}]
    /\ occupancy \in [Projects -> Slots \cup {0}]
    /\ slot \in [Slots -> SlotRecords] /\ loads \in 0 .. MaxLoads
    /\ flights \in [Projects -> Sessions \cup {NoOne}]
    /\ sessions \in [Sessions -> SessionRecords]
    /\ op \in [Sessions -> Operations]
    /\ claims \subseteq Sessions

\* The map's entries are slots of their project that nobody unloaded.
EntriesAreMapped ==
    \A p \in Projects : projects[p] # 0 =>
       slot[projects[p]].at = "mapped" /\ slot[projects[p]].project = p

\* A slot that is being loaded belongs to its loader.
LoadersOwnSlots ==
    /\ \A n \in Slots : n > loads => slot[n].at = "none"
    /\ \A s \in Sessions : op[s].pc \in Loading =>
          /\ op[s].slot \in 1 .. loads
          /\ slot[op[s].slot].at = IF At(s, "insert") THEN "built" ELSE "none"
          /\ At(s, "insert") => slot[op[s].slot].project = op[s].project
          /\ \A t \in Sessions \ {s} : op[t].pc \in Loading => op[t].slot # op[s].slot

\* Until it is stopped, a slot's failure is flagged, and once it is active it
\* is watched or locked.
Tended(n) ==
    slot[n].at # "stopped" =>
       /\ slot[n].index = "loading" => slot[n].bg = "load"
       /\ slot[n].index = "empty" => slot[n].failed \/ slot[n].bg = "flag"
       /\ slot[n].active => slot[n].watcher \/ slot[n].lock # NoOne

SlotsAreTended == \A n \in Slots : Tended(n)

LocksAreHeld ==
    \A n \in Slots : slot[n].lock # NoOne =>
       At(slot[n].lock, "reload") /\ op[slot[n].lock].slot = n

\* A flight is led until its leader evicts it, and completed just before.
FlightsAreLed ==
    /\ \A s \in Sessions : op[s].pc \in Loading \cup {"evict"} =>
          /\ flights[op[s].project] = s
          /\ (op[s].outcome = "pending") <=> (op[s].pc \in Loading)
    /\ \A s \in Sessions : op[s].pc \in Loading \cup {"evict", "wait"} =>
          op[s].leader \in Sessions
    /\ \A p \in Projects : flights[p] # NoOne =>
          /\ op[flights[p]].pc \in Loading \cup {"evict"}
          /\ op[flights[p]].project = p
    /\ WaitersAreLed

\* What an operation is about, and what the record of its session is meanwhile.
OpMatchesRecord(s) ==
    /\ ~At(s, "idle") => op[s].project \in Projects /\ op[s].kind # "none"
    /\ op[s].kind = "open" => sessions[s].at = "none"
    /\ op[s].kind = "index" => sessions[s].at # "none"
    /\ At(s, "record") => op[s].kind = "open"
    /\ op[s].pc \in {"reload", "add", "enlist", "bind", "detach", "focus"} =>
          op[s].kind = "index"
    /\ At(s, "detach") => sessions[s].at \in {"closing", "closed"}
    /\ At(s, "join") => op[s].slot # 0
    /\ op[s].pc \in Member => op[s].slot # 0

\* Until its session is closed, the operation's slot stays in the map.
MemberStaysMapped(s) ==
    op[s].pc \in Member /\ sessions[s].at \in {"none", "open"} =>
       /\ projects[op[s].project] = op[s].slot
       /\ s \in slot[op[s].slot].members
       /\ op[s].pc \in Active => slot[op[s].slot].active

\* Only an open session is served, and by active slots.
ServedIsActive(s) ==
    \A p \in Served(s) :
       sessions[s].at = "open" /\ slot[sessions[s].server[p]].active

IInv ==
    /\ TypeOK /\ EntriesAreMapped /\ LoadersOwnSlots /\ SlotsAreTended
    /\ LocksAreHeld /\ FlightsAreLed /\ BoundStaysLoaded
    /\ \A s \in Sessions :
          OpMatchesRecord(s) /\ MemberStaysMapped(s) /\ ServedIsActive(s)

\* An admission that a load works under, or a slot was built with, has a name.
AdmissionsAreNamed ==
    /\ \A s \in Sessions : At(s, "build") => op[s].adm # 0
    /\ \A n \in Slots : slot[n].at \in {"built", "mapped"} => slot[n].adm # 0
=============================================================================
