------------------------ MODULE MultiRoomSupervisor ------------------------
(***************************************************************************)
(* MultiRoomSupervisor (src/livecore/supervisor.py): the table of rooms    *)
(* behind the HTTP API, whose requests run add(), remove() and stop() as   *)
(* concurrent tasks.  A supervisor's client is the LiveConnection of       *)
(* LiveConnection.tla, reduced to whether it has a run task: start()       *)
(* creates one, stop() cancels it and waits for its end, and stop() on a   *)
(* client without a task does nothing and returns at once.                 *)
(***************************************************************************)
EXTENDS Naturals

CONSTANTS
    Rooms,     \* room ids
    Callers,   \* tasks that call the supervisor
    Sups,      \* identifiers for ConnectionSupervisor objects
    None

ASSUME RoomsAssumption == None \notin Sups

VARIABLES
    rooms,    \* self.rooms: the supervisor of each room, None for no key
    client,   \* the run task of each supervisor's client
    at,       \* where each caller is suspended
    room,     \* the room id argument of its call
    adding,   \* the supervisor an add() is starting
    todo,     \* supervisors whose stop() coroutine has not begun yet
    joining,  \* supervisors whose stop() waits for the run task to end
    missed,   \* auxiliary: supervisors that were stopped before they had started, or
              \* whose key was dropped by the add() of an earlier one
    abandoned \* auxiliary: supervisors whose add() was cancelled

vars == <<rooms, client, at, room, adding, todo, joining, missed, abandoned>>

Listed(s) == \E r \in Rooms : rooms[r] = s

BeingAdded(s) == \E c \in Callers : at[c] = "adding" /\ adding[c] = s

\* No reference to the object is left: its identifier may be used again.
Free(s) ==
    /\ client[s] = "off" /\ ~Listed(s)
    /\ \A c \in Callers : adding[c] # s /\ s \notin todo[c] \cup joining[c]

TypeOK ==
    /\ rooms \in [Rooms -> Sups \cup {None}]
    /\ client \in [Sups -> {"off", "running", "ending"}]
    /\ at \in [Callers -> {"idle", "adding", "stopping"}]
    /\ room \in [Callers -> Rooms]
    /\ adding \in [Callers -> Sups \cup {None}]
    /\ \A c \in Callers : at[c] = "adding" => adding[c] \in Sups
    /\ todo \in [Callers -> SUBSET Sups]
    /\ joining \in [Callers -> SUBSET Sups]
    /\ missed \subseteq Sups
    /\ abandoned \subseteq Sups

Init ==
    /\ rooms = [r \in Rooms |-> None]
    /\ client = [s \in Sups |-> "off"]
    /\ at = [c \in Callers |-> "idle"]
    /\ room \in [Callers -> Rooms]
    /\ adding = [c \in Callers |-> None]
    /\ todo = [c \in Callers |-> {}]
    /\ joining = [c \in Callers |-> {}]
    /\ missed = {}
    /\ abandoned = {}

-----------------------------------------------------------------------------
\* add() up to the await of fetch_endpoint().  On a room that has a key it
\* returns the supervisor there, started or not, and changes nothing.
Add(c, r) ==
    /\ at[c] = "idle"
    /\ rooms[r] = None
    /\ \E s \in Sups :
        /\ Free(s)
        /\ rooms' = [rooms EXCEPT ![r] = s]
        /\ adding' = [adding EXCEPT ![c] = s]
        /\ missed' = missed \ {s}
        /\ abandoned' = abandoned \ {s}
    /\ room' = [room EXCEPT ![c] = r]
    /\ at' = [at EXCEPT ![c] = "adding"]
    /\ UNCHANGED <<client, todo, joining>>

AddEnds(c) ==
    /\ at' = [at EXCEPT ![c] = "idle"]
    /\ adding' = [adding EXCEPT ![c] = None]
    /\ UNCHANGED <<room, todo, joining>>

\* The endpoint is there: the client starts, whether or not the supervisor is
\* still in the table.
AddSucceeds(c) ==
    /\ at[c] = "adding"
    /\ client' = [client EXCEPT ![adding[c]] = "running"]
    /\ UNCHANGED <<rooms, missed, abandoned>>
    /\ AddEnds(c)

\* Bug: the key stays when start() raises.
AddFailsKept(c) ==
    /\ at[c] = "adding"
    /\ UNCHANGED <<rooms, client, missed, abandoned>>
    /\ AddEnds(c)

\* start() raises: the key is dropped, whatever supervisor it maps to by now.
AddFails(c) ==
    /\ at[c] = "adding"
    /\ rooms' = [rooms EXCEPT ![room[c]] = None]
    /\ missed' = missed \cup ({rooms[room[c]]} \ {None, adding[c]})
    /\ UNCHANGED <<client, abandoned>>
    /\ AddEnds(c)

\* CancelledError is no Exception: the key stays.
AddCancelled(c) ==
    /\ at[c] = "adding"
    /\ abandoned' = abandoned \cup {adding[c]}
    /\ UNCHANGED <<rooms, client, missed>>
    /\ AddEnds(c)

\* Bug: the run task is cancelled and not waited for.
BeginStopUnawaited(c, s) ==
    /\ client' = IF client[s] = "running" THEN [client EXCEPT ![s] = "ending"] ELSE client
    /\ missed' = IF BeingAdded(s) THEN missed \cup {s} ELSE missed
    /\ UNCHANGED <<joining, abandoned>>

\* client.stop() up to its first suspension, in caller c.  It finds no run task
\* where the add() has yet to start one.
BeginStop(c, s) ==
    /\ IF client[s] = "running"
       THEN /\ client' = [client EXCEPT ![s] = "ending"]
            /\ joining' = [joining EXCEPT ![c] = @ \cup {s}]
       ELSE UNCHANGED <<client, joining>>
    /\ missed' = IF BeingAdded(s) THEN missed \cup {s} ELSE missed
    /\ UNCHANGED abandoned

\* remove() awaits stop() in its own task, so it enters it at once.
Remove(c, r) ==
    /\ at[c] = "idle"
    /\ rooms[r] # None
    /\ rooms' = [rooms EXCEPT ![r] = None]
    /\ BeginStop(c, rooms[r])
    /\ room' = [room EXCEPT ![c] = r]
    /\ at' = [at EXCEPT ![c] = "stopping"]
    /\ UNCHANGED <<adding, todo>>

Taken == {s \in Sups : Listed(s)}

\* stop() empties the table; gather() makes a task of each room's stop().
StopAll(c) ==
    /\ at[c] = "idle"
    /\ rooms' = [r \in Rooms |-> None]
    /\ todo' = [todo EXCEPT ![c] = Taken]
    /\ at' = [at EXCEPT ![c] = "stopping"]
    /\ UNCHANGED <<client, room, adding, joining, missed, abandoned>>

GatheredStopBegins(c, s) ==
    /\ s \in todo[c]
    /\ todo' = [todo EXCEPT ![c] = @ \ {s}]
    /\ BeginStop(c, s)
    /\ UNCHANGED <<rooms, at, room, adding>>

\* The cancelled run task is over (StopTerminates of LiveConnection).
ClientEnds(s) ==
    /\ client[s] = "ending"
    /\ client' = [client EXCEPT ![s] = "off"]
    /\ UNCHANGED <<rooms, at, room, adding, todo, joining, missed, abandoned>>

\* Bug: the call waits for a client that has no task, too.
StopNeverReturns(c) ==
    /\ at[c] = "stopping" /\ todo[c] = {}
    /\ joining[c] # {} /\ \A s \in joining[c] : client[s] = "off"
    /\ joining' = [joining EXCEPT ![c] = {}]
    /\ at' = [at EXCEPT ![c] = "idle"]
    /\ UNCHANGED <<rooms, client, room, adding, todo, missed, abandoned>>

StopReturns(c) ==
    /\ at[c] = "stopping" /\ todo[c] = {}
    /\ \A s \in joining[c] : client[s] = "off"
    /\ joining' = [joining EXCEPT ![c] = {}]
    /\ at' = [at EXCEPT ![c] = "idle"]
    /\ UNCHANGED <<rooms, client, room, adding, todo, missed, abandoned>>

Next ==
    \/ \E c \in Callers, r \in Rooms : Add(c, r) \/ Remove(c, r)
    \/ \E c \in Callers :
        AddSucceeds(c) \/ AddFails(c) \/ AddCancelled(c) \/ StopAll(c) \/ StopReturns(c)
    \/ \E c \in Callers, s \in Sups : GatheredStopBegins(c, s)
    \/ \E s \in Sups : ClientEnds(s)

Spec == Init /\ [][Next]_vars

\* The fetch has timeouts, gathered tasks are scheduled, cancelled runs end.
Fairness ==
    /\ \A c \in Callers :
        /\ WF_vars(AddSucceeds(c) \/ AddFails(c))
        /\ WF_vars(StopReturns(c))
        /\ \A s \in Sups : WF_vars(GatheredStopBegins(c, s))
    /\ \A s \in Sups : WF_vars(ClientEnds(s))

FairSpec == Spec /\ Fairness

-----------------------------------------------------------------------------
(* Properties.                                                             *)

\* No connection runs behind the back of the table: one that still has a run
\* task is listed, or a remove() or stop() has it in hand.  There are two ways out,
\* whatever the callers do: a stop() that comes before the run task it is to end
\* (connection.py:90-91 finds none), and the failing add() of an earlier supervisor
\* of the room, which drops the key of the one there now (supervisor.py:136).
NoLeak ==
    \A s \in Sups \ missed : client[s] # "off" =>
        Listed(s) \/ \E c \in Callers : s \in todo[c] \cup joining[c]

\* And what the table lists is connected, or the add() that will connect it is
\* under way: add() of a room with a key returns what is there (supervisor.py:124),
\* so a dead entry would be handed out for good.  Only an add() that was cancelled
\* leaves one.
ListedIsServed ==
    \A r \in Rooms : rooms[r] \notin {None} \cup abandoned =>
        client[rooms[r]] = "running" \/ BeingAdded(rooms[r])

\* The table and the connections agree, both ways.
TableIsTrue == NoLeak /\ ListedIsServed

\* Once remove() or stop() returned, what it took from the table has no run
\* task: a caller that is idle has left nothing half torn down.
StopWaits ==
    \A s \in Sups : client[s] = "ending" =>
        \E c \in Callers : at[c] = "stopping" /\ s \in joining[c]

\* Every add(), remove() and stop() returns.
OperationsReturn == \A c \in Callers : at[c] # "idle" ~> at[c] = "idle"
=============================================================================
