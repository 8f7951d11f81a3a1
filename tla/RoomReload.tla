----------------------------- MODULE RoomReload -----------------------------
(***************************************************************************)
(* RoomSupervisor (src/livecore/multi.py) under hot reload: every accepted *)
(* change of the configuration file makes one reconciliation task, which   *)
(* starts and stops engines with awaits between; stop_all() cancels the    *)
(* tasks and stops what is in the table.  An engine is reduced to whether  *)
(* its connection is open (LiveEngine); its stop() ends and does not       *)
(* raise, the database of a store opens.                                   *)
(***************************************************************************)
EXTENDS Naturals, FiniteSets

CONSTANTS
    Rooms,      \* room numbers; reconciliation goes through them in order
    Tasks,      \* identifiers for the reconciliation tasks
    Engines,    \* identifiers for engines
    Paths,      \* paths of the database file
    None,       \* no engine, no room; also storage.enabled = false
    MaxEdits    \* bound: accepted changes of the file

ASSUME ReloadAssumption ==
    /\ Rooms \subseteq Nat /\ MaxEdits \in Nat
    /\ None \notin Rooms /\ None \notin Engines /\ None \notin Paths

VARIABLES
    file,       \* the snapshot of the ConfigStore: rooms and database path
    edits,      \* its version
    table,      \* _engines
    open,       \* engines whose connection is open
    config,     \* the version of the file each engine's config is from
    store,      \* path of self.store, None without one
    attached,   \* path of each engine's _store
    task,       \* the reconciliation tasks
    host,       \* how far stop_all() is
    awaited,    \* the tasks, then the engines, that stop_all() waits for
    overlapped  \* auxiliary: a change came while a task or stop_all() ran

engineVars == <<table, open, config, store, attached>>
vars == <<file, edits, table, open, config, store, attached, task, host,
          awaited, overlapped>>

Snapshot == [rooms : SUBSET Rooms, path : Paths \cup {None}]

Task == [at : {"idle", "created", "starting", "stopping"}, cancelled : BOOLEAN,
         adding : SUBSET Rooms, removing : SUBSET Rooms,
         room : Rooms \cup {None}, engine : Engines \cup {None}]

NoTask == [at |-> "idle", cancelled |-> FALSE, adding |-> {}, removing |-> {},
           room |-> None, engine |-> None]

Active == {t \in Tasks : task[t].at # "idle"}

Listed == {r \in Rooms : table[r] # None}

Starting(e) == \E t \in Tasks : task[t].at = "starting" /\ task[t].engine = e

Stopping(e) == \/ \E t \in Tasks : task[t].at = "stopping" /\ task[t].engine = e
               \/ host = "stopping" /\ e \in awaited

TypeOK ==
    /\ file \in Snapshot
    /\ edits \in 0..MaxEdits
    /\ table \in [Rooms -> Engines \cup {None}]
    /\ open \subseteq Engines
    /\ config \in [Engines -> 0..MaxEdits]
    /\ store \in Paths \cup {None}
    /\ attached \in [Engines -> Paths \cup {None}]
    /\ task \in [Tasks -> Task]
    /\ host \in {"running", "gathering", "stopping", "stopped"}
    /\ awaited \subseteq Tasks \cup Engines
    /\ overlapped \in BOOLEAN

\* After start_all(): a room whose start failed stays in the table.
Init ==
    /\ file \in Snapshot /\ edits = 0
    /\ table \in [Rooms -> Engines \cup {None}]
    /\ Listed = file.rooms
    /\ \A r, q \in Listed : r # q => table[r] # table[q]
    /\ open \in SUBSET {table[r] : r \in Listed}
    /\ config = [e \in Engines |-> 0]
    /\ store = file.path
    /\ attached = [e \in Engines |-> store]
    /\ task = [t \in Tasks |-> NoTask]
    /\ host = "running" /\ awaited = {} /\ overlapped = FALSE

-----------------------------------------------------------------------------
(* A reconciliation, from one await to the next.                           *)

First(S) == {r \in S : \A q \in S : r <= q}

\* add_room(): the engine in the table, or a new one.
AddRoom(r, tab, e) ==
    IF tab[r] # None
    THEN e = tab[r] /\ table' = tab /\ UNCHANGED <<config, attached>>
    ELSE /\ e \notin open /\ ~Starting(e) /\ ~Stopping(e) /\ \A q \in Rooms : table[q] # e
         /\ table' = [tab EXCEPT ![r] = e]
         /\ config' = [config EXCEPT ![e] = edits]
         /\ attached' = [attached EXCEPT ![e] = store]

\* The first loop: add a room and start its engine.
AddNext(t, adding, removing, tab) ==
    /\ \E r \in First(adding), e \in Engines :
        /\ AddRoom(r, tab, e)
        /\ task' = [task EXCEPT ![t] =
                [at |-> "starting", cancelled |-> FALSE, adding |-> adding \ {r},
                 removing |-> removing, room |-> r, engine |-> e]]
    /\ UNCHANGED store

Without(tab, gone) == [r \in Rooms |-> IF r \in gone THEN None ELSE tab[r]]

\* Bug: switching storage off leaves the engines their old store.
ApplyLiveConfigAttached(tab) ==
    LET mine == {tab[r] : r \in Rooms} IN
    /\ config' = [e \in Engines |-> IF e \in mine THEN edits ELSE config[e]]
    /\ store' = file.path
    /\ attached' = [e \in Engines |-> IF e \in mine /\ file.path # None
                                      THEN file.path ELSE attached[e]]

\* _apply_live_config(): what is in the table takes over the snapshot of now.
ApplyLiveConfig(tab) ==
    LET mine == {tab[r] : r \in Rooms} IN
    /\ config' = [e \in Engines |-> IF e \in mine THEN edits ELSE config[e]]
    /\ store' = file.path
    /\ attached' = [e \in Engines |-> IF e \in mine THEN file.path ELSE attached[e]]

\* Two bugs: a room whose engine is closed stays in the table; all the rooms leave
\* it before the first stop().
RemoveNextKept(t, removing, tab, opn) ==
    LET busy == {r \in removing : tab[r] \in opn} IN
    IF busy = {}
    THEN /\ table' = tab
         /\ ApplyLiveConfig(tab)
         /\ task' = [task EXCEPT ![t] = NoTask]
    ELSE \E next \in First(busy) :
         /\ table' = tab
         /\ task' = [task EXCEPT ![t] =
                [at |-> "stopping", cancelled |-> FALSE, adding |-> {},
                 removing |-> {r \in removing : r > next},
                 room |-> next, engine |-> tab[next]]]
         /\ UNCHANGED <<config, store, attached>>

RemoveNextEarly(t, removing, tab, opn) ==
    LET busy == {r \in removing : tab[r] \in opn} IN
    /\ table' = Without(tab, removing)
    /\ IF busy = {}
       THEN /\ ApplyLiveConfig(Without(tab, removing))
            /\ task' = [task EXCEPT ![t] = NoTask]
       ELSE \E next \in First(busy) :
            /\ task' = [task EXCEPT ![t] =
                   [at |-> "stopping", cancelled |-> FALSE, adding |-> {},
                    removing |-> {r \in removing : r > next},
                    room |-> next, engine |-> tab[next]]]
            /\ UNCHANGED <<config, store, attached>>

\* The second loop, up to the next engine whose stop() has something to wait for.
RemoveNext(t, removing, tab, opn) ==
    LET busy == {r \in removing : tab[r] \in opn} IN
    IF busy = {}
    THEN /\ table' = Without(tab, removing)
         /\ ApplyLiveConfig(Without(tab, removing))
         /\ task' = [task EXCEPT ![t] = NoTask]
    ELSE \E next \in First(busy) :
         /\ table' = Without(tab, {r \in removing : r < next})
         /\ task' = [task EXCEPT ![t] =
                [at |-> "stopping", cancelled |-> FALSE, adding |-> {},
                 removing |-> {r \in removing : r > next},
                 room |-> next, engine |-> tab[next]]]
         /\ UNCHANGED <<config, store, attached>>

GoOn(t, adding, removing, tab, opn) ==
    /\ open' = opn
    /\ IF adding # {} THEN AddNext(t, adding, removing, tab)
                      ELSE RemoveNext(t, removing, tab, opn)

\* _apply_reload(): the file changed, a task is created.
Edit ==
    /\ edits < MaxEdits /\ host # "stopped"
    /\ \E new \in Snapshot : new # file /\ file' = new
    /\ edits' = edits + 1
    /\ \E t \in Tasks \ (Active \cup awaited) :
            task' = [task EXCEPT ![t] = [NoTask EXCEPT !.at = "created"]]
    /\ overlapped' = (overlapped \/ Active # {} \/ host # "running")
    /\ UNCHANGED <<engineVars, host, awaited>>

\* Bug: the rooms that are there already are started again.
BeginAll(t) ==
    /\ task[t].at = "created" /\ ~task[t].cancelled
    /\ GoOn(t, file.rooms, Listed \ file.rooms, table, open)
    /\ UNCHANGED <<file, edits, host, awaited, overlapped>>

\* The task runs for the first time and compares the rooms.
Begin(t) ==
    /\ task[t].at = "created" /\ ~task[t].cancelled
    /\ GoOn(t, file.rooms \ Listed, Listed \ file.rooms, table, open)
    /\ UNCHANGED <<file, edits, host, awaited, overlapped>>

\* start_room() returns, or its exception is caught in _start_one().
Started(t) ==
    /\ task[t].at = "starting" /\ ~task[t].cancelled
    /\ \E opn \in {open, open \cup {task[t].engine}} :
            GoOn(t, task[t].adding, task[t].removing, table, opn)
    /\ UNCHANGED <<file, edits, host, awaited, overlapped>>

\* stop() returns and remove_room() drops whatever the room has now.
Stopped(t) ==
    /\ task[t].at = "stopping"
    /\ GoOn(t, {}, task[t].removing, Without(table, {task[t].room}),
            open \ {task[t].engine})
    /\ UNCHANGED <<file, edits, host, awaited, overlapped>>

\* A CancelledError meant for the task is swallowed by most awaits of stop(), see
\* above, but not by the one of the persistence tasks.
StopCancelled(t) ==
    /\ task[t].at = "stopping" /\ task[t].cancelled
    /\ open' = open \ {task[t].engine}
    /\ task' = [task EXCEPT ![t] = NoTask]
    /\ UNCHANGED <<file, edits, table, config, store, attached, host, awaited, overlapped>>

\* Bug: a cancellation does not reach a start that waits for the endpoint.
CancelDeliveredLate(t) ==
    /\ task[t].at = "created" /\ task[t].cancelled
    /\ task' = [task EXCEPT ![t] = NoTask]
    /\ UNCHANGED <<file, edits, engineVars, host, awaited, overlapped>>

CancelDelivered(t) ==
    /\ task[t].at \in {"created", "starting"} /\ task[t].cancelled
    /\ task' = [task EXCEPT ![t] = NoTask]
    /\ UNCHANGED <<file, edits, engineVars, host, awaited, overlapped>>

-----------------------------------------------------------------------------
(* stop_all().                                                             *)

\* Bug: the cancelled tasks are not awaited.
StopAllHasty ==
    /\ host = "running"
    /\ task' = [t \in Tasks |-> [task[t] EXCEPT !.cancelled = (t \in Active)]]
    /\ host' = "gathering" /\ awaited' = {}
    /\ UNCHANGED <<file, edits, engineVars, overlapped>>

StopAll ==
    /\ host = "running"
    /\ task' = [t \in Tasks |-> [task[t] EXCEPT !.cancelled = (t \in Active)]]
    /\ host' = "gathering" /\ awaited' = Active
    /\ UNCHANGED <<file, edits, engineVars, overlapped>>

Gathered ==
    /\ host = "gathering" /\ awaited \cap Active = {}
    /\ host' = "stopping" /\ awaited' = {table[r] : r \in Listed} \cap open
    /\ UNCHANGED <<file, edits, engineVars, task, overlapped>>

EngineStopped(e) ==
    /\ host = "stopping" /\ e \in awaited
    /\ open' = open \ {e} /\ awaited' = awaited \ {e}
    /\ UNCHANGED <<file, edits, table, config, store, attached, task, host, overlapped>>

AllStopped ==
    /\ host = "stopping" /\ awaited = {}
    /\ host' = "stopped"
    /\ UNCHANGED <<file, edits, engineVars, task, awaited, overlapped>>

Next ==
    \/ Edit \/ StopAll \/ Gathered \/ AllStopped
    \/ \E e \in Engines : EngineStopped(e)
    \/ \E t \in Tasks : Begin(t) \/ Started(t) \/ Stopped(t) \/ StopCancelled(t) \/ CancelDelivered(t)

Spec == Init /\ [][Next]_vars

FairSpec ==
    /\ Spec
    /\ \A t \in Tasks :
        WF_vars(Begin(t) \/ Started(t) \/ Stopped(t) \/ StopCancelled(t) \/ CancelDelivered(t))
    /\ WF_vars(Gathered) /\ WF_vars(AllStopped)
    /\ \A e \in Engines : WF_vars(EngineStopped(e))

-----------------------------------------------------------------------------
(* Properties.                                                             *)

Quiet == host = "running" /\ Active = {}

\* When the reconciliations are over, the rooms are those of the file.
RoomsConverge == Quiet => Listed = file.rooms

\* So it is if no change comes while another is being applied.
RoomsConvergeInTurn == ~overlapped => RoomsConverge

\* However the changes overlap, the engines in the table end with the engine
\* configuration and the store of the last one (_apply_live_config reads the
\* snapshot at the end of each task, add_room the one of the moment).
UpToDate ==
    Quiet => /\ store = file.path
             /\ \A r \in Listed : config[table[r]] = edits /\ attached[table[r]] = store

\* An open connection, or one being opened, belongs to an engine in the table
\* or to one that is being stopped.
NoneLost ==
    ~overlapped => \A e \in Engines :
        e \in open \/ Starting(e) => Stopping(e) \/ \E r \in Listed : table[r] = e

\* An engine is started when it is closed, and by one task.
StartedOnce ==
    ~overlapped => \A t, u \in Tasks :
        task[t].at = "starting" =>
            /\ task[t].engine \notin open
            /\ task[u].at = "starting" /\ task[u].engine = task[t].engine => t = u

\* The phase an engine is in, as far as the supervisor has taken it.
Phase(e) ==
    CASE Starting(e) -> "starting"
      [] Stopping(e) -> "stopping"
      [] OTHER -> IF e \in open THEN "open" ELSE "closed"

Engine(e) == INSTANCE EngineLifecycle WITH phase <- Phase(e), said <- 0

\* The supervisor is the tidy host that LiveEngine is proved for: each step takes
\* each engine through its life cycle, so that a start finds it closed and no start
\* or stop comes while another is under way; a start that is cancelled counts as one
\* that failed (multi.py:96-113, 73-80).
HostIsTidy ==
    [][~overlapped' =>
        \A e \in Engines : Engine(e)!Next \/ UNCHANGED Phase(e)]_vars

\* When stop_all() has returned nothing is connected, although cancelled tasks
\* may have gone on starting and stopping for a while.
StopAllComplete ==
    ~overlapped /\ host = "stopped" => open = {} /\ Active = {}

\* Every reconciliation ends, and so does stop_all(), however often a
\* cancellation is swallowed.
EverythingEnds ==
    /\ \A t \in Tasks : task[t].at # "idle" ~> task[t].at = "idle"
    /\ host # "running" ~> host = "stopped"
=============================================================================
