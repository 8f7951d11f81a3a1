----------------------------- MODULE LiveEngine -----------------------------
(***************************************************************************)
(* One LiveEngine (src/livecore/engine.py) with its BehaviorScheduler      *)
(* (src/livecore/scheduler.py): sessions are started and stopped, the      *)
(* events of the connection and the one-second scheduler loop enqueue      *)
(* suggestions, an operator accepts them.  The connection is reduced to    *)
(* the session whose room it is open to; stop() of LiveConnection lets no  *)
(* event through once it has cancelled the run (OneSocket, NoOrphan).      *)
(* What a rule or the duplicates filter decides is left open, persistence  *)
(* is left out.                                                            *)
(***************************************************************************)
EXTENDS Naturals, Sequences

CONSTANTS
    Owners,          \* tasks that call start_room() and stop()
    Loops,           \* identifiers for the scheduler tasks
    None,            \* no scheduler task; also: nothing emitted in this session
    ColdStart,       \* the cold start drawn for a session
    MinGap,          \* config.min_gap_sec
    MaxDelay,        \* the longest jitter and typing delay together
    Tidy,            \* the owners start an engine only when it is stopped, and
                     \* call it one after the other
    MaxSessions, MaxTime, MaxSuggestions   \* bounds of the instance

ASSUME EngineAssumption ==
    /\ None \notin Loops /\ None \notin Nat
    /\ ColdStart \in Nat /\ MinGap \in Nat /\ MaxDelay \in Nat /\ Tidy \in BOOLEAN
    /\ MaxSessions \in Nat /\ MaxTime \in Nat /\ MaxSuggestions \in Nat

VARIABLES
    running,      \* _running
    session,      \* start_room() calls so far: the current one, and its room
    schedTask,    \* _sched_task
    loop,         \* state of each scheduler task
    link,         \* the session whose start opened the connection, 0 if closed
    at,           \* where each owner is suspended
    mine,         \* the session each start_room() call is about
    waitsFor,     \* the scheduler task each stop() awaits
    stopRaised,   \* the last stop() ended with an exception of the scheduler task
    clock,
    startedAt,    \* scheduler.started_at
    lastEmit,     \* scheduler.last_emit, None for its 0
    pending,      \* sleeping _delayed_enqueue tasks; two alike are one
    suggestions   \* suggestions, with the session each came from and went to

taskVars == <<running, session, schedTask, loop, link, at, mine, waitsFor, stopRaised>>
timeVars == <<clock, startedAt, lastEmit, pending, suggestions>>
vars == <<running, session, schedTask, loop, link, at, mine, waitsFor, stopRaised,
          clock, startedAt, lastEmit, pending, suggestions>>

Delayed == [origin : 1..MaxSessions, latest : 0..MaxTime + MaxDelay]

Suggestion == [ts : 0..MaxTime, age : 0..MaxTime, origin : 1..MaxSessions,
               session : 1..MaxSessions, status : {"queued", "accepted"}]

Live(l) == loop[l] \in {"created", "sleeping", "cancelled"}

TypeOK ==
    /\ running \in BOOLEAN /\ stopRaised \in BOOLEAN
    /\ session \in 0..MaxSessions /\ link \in 0..MaxSessions
    /\ schedTask \in Loops \cup {None}
    /\ loop \in [Loops -> {"none", "created", "sleeping", "cancelled", "done", "failed"}]
    /\ at \in [Owners -> {"idle", "starting", "reaping", "closing"}]
    /\ mine \in [Owners -> 0..MaxSessions]
    /\ waitsFor \in [Owners -> Loops \cup {None}]
    /\ clock \in 0..MaxTime /\ startedAt \in 0..MaxTime
    /\ lastEmit \in 0..MaxTime \cup {None}
    /\ pending \subseteq Delayed
    /\ suggestions \in Seq(Suggestion)
    /\ Len(suggestions) <= MaxSuggestions

Init ==
    /\ running = FALSE /\ stopRaised = FALSE
    /\ session = 0 /\ link = 0
    /\ schedTask = None
    /\ loop = [l \in Loops |-> "none"]
    /\ at = [c \in Owners |-> "idle"]
    /\ mine = [c \in Owners |-> 0]
    /\ waitsFor = [c \in Owners |-> None]
    /\ clock = 0 /\ startedAt = 0 /\ lastEmit = None
    /\ pending = {}
    /\ suggestions = <<>>

\* What a careful host would see to.
MayStart ==
    Tidy => /\ \A c \in Owners : at[c] = "idle"
            /\ link = 0 /\ schedTask = None

MayStop == Tidy => \A c \in Owners : at[c] = "idle"

\* BehaviorScheduler.reset and mark_emit.
Reset == startedAt' = clock /\ lastEmit' = None

MarkEmit == lastEmit' = clock

-----------------------------------------------------------------------------
(* Sessions.                                                               *)

\* Bug: the scheduler is not reset.
StartRoomUnreset(c) ==
    /\ at[c] = "idle" /\ MayStart
    /\ session < MaxSessions
    /\ running' = TRUE
    /\ session' = session + 1
    /\ mine' = [mine EXCEPT ![c] = session + 1]
    /\ at' = [at EXCEPT ![c] = "starting"]
    /\ UNCHANGED <<schedTask, loop, link, waitsFor, stopRaised, timeVars>>

\* start_room() up to the request for the endpoint: a new session begins.
StartRoom(c) ==
    /\ at[c] = "idle" /\ MayStart
    /\ session < MaxSessions
    /\ running' = TRUE
    /\ session' = session + 1
    /\ Reset
    /\ mine' = [mine EXCEPT ![c] = session + 1]
    /\ at' = [at EXCEPT ![c] = "starting"]
    /\ UNCHANGED <<schedTask, loop, link, waitsFor, stopRaised, clock, pending, suggestions>>

\* No endpoint: the exception leaves start_room(), _running stays set.
StartFails(c) ==
    /\ at[c] = "starting"
    /\ at' = [at EXCEPT ![c] = "idle"]
    /\ UNCHANGED <<running, session, schedTask, loop, link, mine, waitsFor,
                   stopRaised, timeVars>>

\* The connection is started and a scheduler task fills _sched_task, whatever it
\* holds and whether or not a stop() came meanwhile.
StartSucceeds(c) ==
    /\ at[c] = "starting"
    /\ link' = mine[c]
    /\ \E l \in Loops :
        /\ ~Live(l) /\ schedTask # l /\ \A d \in Owners : waitsFor[d] # l
        /\ loop' = [loop EXCEPT ![l] = "created"]
        /\ schedTask' = l
    /\ at' = [at EXCEPT ![c] = "idle"]
    /\ UNCHANGED <<running, session, mine, waitsFor, stopRaised, timeVars>>

Ended(l) == IF l = None THEN "none" ELSE loop[l]

SchedLive == schedTask # None /\ Live(schedTask)

\* Bug: the connection is not stopped.
AfterReapLinkKept(c, ended) ==
    IF ended = "failed"
    THEN /\ at' = [at EXCEPT ![c] = "idle"]
         /\ stopRaised' = TRUE
         /\ UNCHANGED <<schedTask, link>>
    ELSE /\ schedTask' = None
         /\ at' = [at EXCEPT ![c] = "closing"]
         /\ stopRaised' = FALSE
         /\ UNCHANGED link

\* The rest of stop() once the scheduler task has ended: its own exception comes
\* out of the await and leaves stop(), before client.stop().
AfterReap(c, ended) ==
    IF ended = "failed"
    THEN /\ at' = [at EXCEPT ![c] = "idle"]
         /\ stopRaised' = TRUE
         /\ UNCHANGED <<schedTask, link>>
    ELSE /\ schedTask' = None /\ link' = 0
         /\ at' = [at EXCEPT ![c] = "closing"]
         /\ stopRaised' = FALSE

\* Bug: the scheduler task is awaited but not cancelled.
StopUncancelled(c) ==
    /\ at[c] = "idle" /\ MayStop
    /\ running' = FALSE
    /\ IF SchedLive
       THEN /\ waitsFor' = [waitsFor EXCEPT ![c] = schedTask]
            /\ at' = [at EXCEPT ![c] = "reaping"]
            /\ UNCHANGED <<schedTask, link, stopRaised>>
       ELSE AfterReap(c, Ended(schedTask)) /\ UNCHANGED waitsFor
    /\ UNCHANGED <<session, loop, mine, timeVars>>

\* stop() up to its first suspension: a task that has ended is not waited for.
Stop(c) ==
    /\ at[c] = "idle" /\ MayStop
    /\ running' = FALSE
    /\ IF SchedLive
       THEN /\ loop' = [loop EXCEPT ![schedTask] = "cancelled"]
            /\ waitsFor' = [waitsFor EXCEPT ![c] = schedTask]
            /\ at' = [at EXCEPT ![c] = "reaping"]
            /\ UNCHANGED <<schedTask, link, stopRaised>>
       ELSE AfterReap(c, Ended(schedTask)) /\ UNCHANGED <<loop, waitsFor>>
    /\ UNCHANGED <<session, mine, timeVars>>

Reaped(c) ==
    /\ at[c] = "reaping" /\ ~Live(waitsFor[c])
    /\ waitsFor' = [waitsFor EXCEPT ![c] = None]
    /\ AfterReap(c, loop[waitsFor[c]])
    /\ UNCHANGED <<running, session, loop, mine, timeVars>>

\* client.stop() returns (StopTerminates of LiveConnection).
Closed(c) ==
    /\ at[c] = "closing"
    /\ at' = [at EXCEPT ![c] = "idle"]
    /\ UNCHANGED <<running, session, schedTask, loop, link, mine, waitsFor,
                   stopRaised, timeVars>>

-----------------------------------------------------------------------------
(* Suggestions.                                                            *)

ColdOver == clock - startedAt >= ColdStart

\* Bug: the first suggestion of a session does not wait for the cold start.
GapOkAtFirst == IF lastEmit = None THEN TRUE ELSE clock - lastEmit >= MinGap

\* BehaviorScheduler.gap_ok.
GapOk == IF lastEmit = None THEN ColdOver ELSE clock - lastEmit >= MinGap

\* _enqueue() of a text that the post-processing and the duplicates filter let
\* through.
Enqueue(origin) ==
    /\ Len(suggestions) < MaxSuggestions
    /\ suggestions' = Append(suggestions,
            [ts |-> clock, age |-> clock - startedAt, origin |-> origin,
             session |-> session, status |-> "queued"])
    /\ MarkEmit

\* An event that a rule answers, from the room the connection is open to.
Ingest ==
    /\ link # 0
    /\ ColdOver /\ GapOk
    /\ pending' = pending \cup {[origin |-> link, latest |-> clock + MaxDelay]}
    /\ UNCHANGED <<taskVars, clock, startedAt, lastEmit, suggestions>>

\* Bug: the delayed task does not look again whether it may still speak.
DelayedUnchecked(p) ==
    /\ p \in pending
    /\ pending' = pending \ {p}
    /\ Enqueue(p.origin) \/ UNCHANGED <<lastEmit, suggestions>>
    /\ UNCHANGED <<taskVars, clock, startedAt>>

\* _delayed_enqueue() wakes up.
DelayedEnqueue(p) ==
    /\ p \in pending
    /\ pending' = pending \ {p}
    /\ \/ running /\ GapOk /\ Enqueue(p.origin)
       \/ UNCHANGED <<lastEmit, suggestions>>
    /\ UNCHANGED <<taskVars, clock, startedAt>>

\* The scheduler task runs for the first time: to its sleep, or to its end.
LoopBegins(l) ==
    /\ loop[l] = "created"
    /\ loop' = [loop EXCEPT ![l] = IF running THEN "sleeping" ELSE "done"]
    /\ UNCHANGED <<running, session, schedTask, link, at, mine, waitsFor,
                   stopRaised, timeVars>>

\* A round of _scheduler_loop after its sleep; _running is tested after it.
LoopRound(l) ==
    /\ loop[l] = "sleeping"
    /\ \/ ColdOver /\ GapOk /\ Enqueue(session)
       \/ UNCHANGED <<lastEmit, suggestions>>
    /\ loop' = [loop EXCEPT ![l] = IF running THEN "sleeping" ELSE "done"]
    /\ UNCHANGED <<running, session, schedTask, link, at, mine, waitsFor,
                   stopRaised, clock, startedAt, pending>>

\* A handler of a watch action raises: the task ends with the exception.
LoopRaises(l) ==
    /\ loop[l] = "sleeping"
    /\ loop' = [loop EXCEPT ![l] = "failed"]
    /\ UNCHANGED <<running, session, schedTask, link, at, mine, waitsFor,
                   stopRaised, timeVars>>

LoopCancelled(l) ==
    /\ loop[l] = "cancelled"
    /\ loop' = [loop EXCEPT ![l] = "done"]
    /\ UNCHANGED <<running, session, schedTask, link, at, mine, waitsFor,
                   stopRaised, timeVars>>

\* accept(): any queued suggestion, in any session, once.
Accept ==
    /\ \E i \in 1..Len(suggestions) :
        /\ suggestions[i].status = "queued"
        /\ suggestions' = [suggestions EXCEPT ![i].status = "accepted"]
    /\ MarkEmit
    /\ UNCHANGED <<taskVars, clock, startedAt, pending>>

\* Time passes, but no sleep ends late.
Tick ==
    /\ clock < MaxTime
    /\ \A p \in pending : clock < p.latest
    /\ clock' = clock + 1
    /\ UNCHANGED <<taskVars, startedAt, lastEmit, pending, suggestions>>

Next ==
    \/ \E c \in Owners :
        StartRoom(c) \/ StartFails(c) \/ StartSucceeds(c) \/ Stop(c) \/ Reaped(c) \/ Closed(c)
    \/ \E l \in Loops : LoopBegins(l) \/ LoopRound(l) \/ LoopRaises(l) \/ LoopCancelled(l)
    \/ \E p \in pending : DelayedEnqueue(p)
    \/ Ingest \/ Accept \/ Tick

Spec == Init /\ [][Next]_vars

FairSpec ==
    /\ Spec
    /\ \A c \in Owners :
        /\ WF_vars(StartFails(c) \/ StartSucceeds(c))
        /\ WF_vars(Reaped(c))
        /\ WF_vars(Closed(c))
    /\ \A l \in Loops : WF_vars(LoopCancelled(l))

-----------------------------------------------------------------------------
(* Properties.                                                             *)

\* Two suggestions of a session are never closer than min_gap_sec, whichever
\* tasks made them and whatever was accepted between (scheduler.py gap_ok).
GapKept ==
    \A i, j \in 1..Len(suggestions) :
        i < j /\ suggestions[i].session = suggestions[j].session
            => suggestions[j].ts - suggestions[i].ts >= MinGap

\* The delays are shorter than the silent start of a session and than the gap,
\* as the defaults of EngineConfig are.
Patient == MaxDelay < ColdStart /\ MaxDelay < MinGap

\* Nothing is said in the cold start of a session (scheduler.py cold_remaining),
\* and no suggestion answers an event of an earlier session's room, although
\* tasks that sleep survive the stop and the next start.
ColdStartSilent ==
    Patient => \A i \in 1..Len(suggestions) : suggestions[i].age >= ColdStart

OwnRoomOnly ==
    Patient => \A i \in 1..Len(suggestions) :
                    suggestions[i].origin = suggestions[i].session

\* Between calls, a stopped engine has no scheduler task and no connection.
StopIsComplete ==
    ~running /\ (\A c \in Owners : at[c] = "idle")
        => link = 0 /\ \A l \in Loops : ~Live(l)

\* The same, unless stop() said with an exception that it failed.
StopIsCompleteOrRaises == stopRaised \/ StopIsComplete

\* What its host sees of the engine.  Once stop() has raised (broken) the connection
\* is open, nobody speaks, and every further stop() raises too.
Phase ==
    CASE \E c \in Owners : at[c] = "starting" -> "starting"
      [] \E c \in Owners : at[c] \in {"reaping", "closing"} -> "stopping"
      [] OTHER -> IF link = 0 THEN "closed" ELSE IF running THEN "open" ELSE "broken"

\* The engine moves through its phases as EngineLifecycle says, whatever its loop,
\* its sleeping tasks and its handlers do: it is closed when stop() returns, unless
\* that raised, and a suggestion is made only while the engine is open, never after
\* a stop() began, nor after a start that failed, although that leaves _running set
\* (engine.py:60, 134).
Lifecycle == INSTANCE EngineLifecycle WITH phase <- Phase, said <- Len(suggestions)
ImplementsLifecycle == Lifecycle!Spec

\* There is one scheduler loop, the one that stop() will find.
OneLoop == \A l \in Loops : Live(l) => schedTask = l

\* Every stop() returns or raises, every start_room() too.
CallsReturn == \A c \in Owners : at[c] # "idle" ~> at[c] = "idle"
=============================================================================
