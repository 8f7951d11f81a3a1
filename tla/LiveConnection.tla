--------------------------- MODULE LiveConnection ---------------------------
(***************************************************************************)
(* One LiveConnection object (src/livecore/connection.py): the run tasks   *)
(* that start() creates, the heartbeat task of each run, and the callers   *)
(* of start_room(), start() and stop().                                    *)
(*                                                                         *)
(* asyncio runs one task at a time, so a step of this module is the code   *)
(* between two suspension points.  Task.cancel() only marks a task: the    *)
(* CancelledError is thrown the next time that task runs, before anything  *)
(* else it was about to do.  Hence every ordinary step of a run requires   *)
(* ~cancelled[r], and CancelDelivered says where the exception goes.       *)
(*                                                                         *)
(* A run identifier stands for a task object; one that has finished and    *)
(* that nothing references any more is reused for the next task.           *)
(***************************************************************************)
EXTENDS Naturals

CONSTANTS
    Callers,    \* the tasks that call start_room, start and stop
    Runs,       \* identifiers for the tasks running _run
    NoRun,      \* the None of _task
    MaxExp      \* the 6 of min(attempt, 6): larger attempts are all alike

ASSUME ConnAssumption == NoRun \notin Runs /\ MaxExp \in Nat \ {0}

VARIABLES
    stopSet,    \* _stop.is_set()
    task,       \* _task
    reported,   \* the state last handed to the state observer
    pc,         \* where each run is suspended; "done" is a finished task
    leaving,    \* what ended the socket of a run: the pending outcome of 123-138
    heartbeat,  \* the heartbeat task of each run
    cancelled,  \* a CancelledError is waiting to be delivered to the run
    attempt,    \* local variable of _run, saturated at MaxExp
    at,         \* where each caller is suspended
    op,         \* the method each caller is in
    awaited,    \* the local task that stop() awaits
    crossed     \* auxiliary: two calls have crossed: one was answered while another
                \* waited, or has created its task while another waited or was to
                \* create one

runVars == <<pc, leaving, heartbeat, cancelled, attempt>>
ownerVars == <<stopSet, task, at, op, awaited, crossed>>
vars == <<stopSet, task, reported, pc, leaving, heartbeat, cancelled,
          attempt, at, op, awaited, crossed>>

States == {"connecting", "authenticating", "live", "reconnecting", "offline",
           "error"}

RunPoints == {"created",         \* create_task() returned, nothing ran yet
              "reporting",       \* in the observer called at the loop top
              "connecting",      \* in websockets.connect
              "authenticating",  \* socket open: observer, then ws.send(auth)
              "reading",         \* in async for raw in ws, or handling a frame
              "reaping",         \* in await heartbeat
              "closing",         \* in the exit of async with: ws.close()
              "failing",         \* in the observer called with "error"
              "backoff",         \* in wait_for(_stop.wait(), delay)
              "done"}

Alive(r) == pc[r] # "done"

\* Between the entry and the exit of `async with websockets.connect(...)`.
SocketOpen(r) == pc[r] \in {"authenticating", "reading", "reaping", "closing"}

\* A task object that nothing refers to: its identifier may be used again.
Free(r) == ~Alive(r) /\ task # r /\ \A c \in Callers : awaited[c] # r

TypeOK ==
    /\ stopSet \in BOOLEAN
    /\ task \in Runs \cup {NoRun}
    /\ reported \in States
    /\ pc \in [Runs -> RunPoints]
    /\ leaving \in [Runs -> {"none", "eof", "error", "return", "cancel"}]
    /\ heartbeat \in [Runs -> {"none", "running", "cancelling", "ended", "failed"}]
    /\ cancelled \in [Runs -> BOOLEAN]
    /\ attempt \in [Runs -> 0..MaxExp]
    /\ at \in [Callers -> {"idle", "fetching", "awaiting", "offline"}]
    /\ op \in [Callers -> {"start", "stop"}]
    /\ awaited \in [Callers -> Runs \cup {NoRun}]
    /\ crossed \in BOOLEAN

Init ==
    /\ stopSet = FALSE
    /\ task = NoRun
    /\ reported = "offline"
    /\ pc = [r \in Runs |-> "done"]
    /\ leaving = [r \in Runs |-> "none"]
    /\ heartbeat = [r \in Runs |-> "none"]
    /\ cancelled = [r \in Runs |-> FALSE]
    /\ attempt = [r \in Runs |-> 0]
    /\ at = [c \in Callers |-> "idle"]
    /\ op = [c \in Callers |-> "stop"]
    /\ awaited = [c \in Callers |-> NoRun]
    /\ crossed = FALSE

-----------------------------------------------------------------------------
(* The callers.                                                            *)

Suspend(c, point) == at' = [at EXCEPT ![c] = point]

OtherAwaits(c) == \E d \in Callers \ {c} : at[d] = "awaiting"
OtherStarts(c) == \E d \in Callers \ {c} : at[d] = "offline" /\ op[d] = "start"

\* start_room() suspends in adapter.fetch_endpoint().
FetchEndpoint(c) ==
    /\ at[c] = "idle"
    /\ Suspend(c, "fetching")
    /\ op' = [op EXCEPT ![c] = "start"]
    /\ UNCHANGED <<stopSet, task, reported, awaited, crossed, runVars>>

\* fetch_endpoint() raises, or its caller is cancelled there.
FetchFails(c) ==
    /\ at[c] = "fetching"
    /\ Suspend(c, "idle")
    /\ op' = [op EXCEPT ![c] = "stop"]
    /\ UNCHANGED <<stopSet, task, reported, awaited, crossed, runVars>>

\* _task holds a task that has not finished.
SlotBusy == task # NoRun /\ Alive(task)

\* Two bugs of stop(): it awaits without cancelling, or cancels without awaiting.
AwaitWithoutCancel(c) ==
    /\ awaited' = [awaited EXCEPT ![c] = task]
    /\ Suspend(c, "awaiting")
    /\ UNCHANGED <<reported, cancelled>>

CancelWithoutAwait(c) ==
    /\ cancelled' = [cancelled EXCEPT ![task] = TRUE]
    /\ reported' = "offline"
    /\ Suspend(c, "offline")
    /\ UNCHANGED awaited

CancelAndAwait(c) ==
    /\ cancelled' = [cancelled EXCEPT ![task] = TRUE]
    /\ awaited' = [awaited EXCEPT ![c] = task]
    /\ Suspend(c, "awaiting")
    /\ UNCHANGED reported

ReportOffline(c) ==
    /\ reported' = "offline"
    /\ Suspend(c, "offline")
    /\ UNCHANGED <<cancelled, awaited>>

\* stop() up to its first suspension, on behalf of method m: awaiting a task
\* that is already finished does not suspend.
EnterStop(c, m) ==
    /\ stopSet' = TRUE
    /\ task' = NoRun
    /\ op' = [op EXCEPT ![c] = m]
    /\ crossed' = (crossed \/ OtherAwaits(c))
    /\ IF SlotBusy THEN CancelAndAwait(c) ELSE ReportOffline(c)
    /\ UNCHANGED <<pc, leaving, heartbeat, attempt>>

\* Bug: start() does not stop what is running.
StartOverRunning(c) ==
    /\ at[c] \in {"idle", "fetching"}
    /\ Suspend(c, "offline")
    /\ op' = [op EXCEPT ![c] = "start"]
    /\ UNCHANGED <<stopSet, task, reported, awaited, crossed, runVars>>

\* start(endpoint), called directly or by start_room() once it has the endpoint.
Start(c) == at[c] \in {"idle", "fetching"} /\ EnterStop(c, "start")

Stop(c) == at[c] = "idle" /\ EnterStop(c, "stop")

\* The awaited task is finished; whatever it raised is swallowed or logged.
TaskJoined(c) ==
    /\ at[c] = "awaiting"
    /\ ~Alive(awaited[c])
    /\ awaited' = [awaited EXCEPT ![c] = NoRun]
    /\ reported' = "offline"
    /\ Suspend(c, "offline")
    /\ UNCHANGED <<stopSet, task, op, crossed, runVars>>

\* Cancelling a caller suspended in `await task` cancels the task once more and
\* the CancelledError that comes back is swallowed: the caller carries on.
AwaitCancelled(c) ==
    /\ at[c] = "awaiting"
    /\ Alive(awaited[c])
    /\ cancelled' = [cancelled EXCEPT ![awaited[c]] = TRUE]
    /\ UNCHANGED <<reported, pc, leaving, heartbeat, attempt, ownerVars>>

\* The observer of "offline" returns and stop() with it; or it raises, or the
\* caller is cancelled in it, and start() never reaches create_task().
CallReturns(c) ==
    /\ at[c] = "offline"
    /\ Suspend(c, "idle")
    /\ op' = [op EXCEPT ![c] = "stop"]
    /\ UNCHANGED <<stopSet, task, reported, awaited, crossed, runVars>>

\* Bug: start() forgets _stop.clear().
StopKept == UNCHANGED stopSet

StopCleared == stopSet' = FALSE

\* start() goes on: it clears the event and fills the _task slot, whatever the
\* slot holds by now.
TaskCreated(c) ==
    /\ at[c] = "offline" /\ op[c] = "start"
    /\ StopCleared
    /\ crossed' = (crossed \/ OtherAwaits(c) \/ OtherStarts(c))
    /\ \E r \in Runs :
        /\ Free(r)
        /\ task' = r
        /\ pc' = [pc EXCEPT ![r] = "created"]
        /\ leaving' = [leaving EXCEPT ![r] = "none"]
        /\ heartbeat' = [heartbeat EXCEPT ![r] = "none"]
        /\ cancelled' = [cancelled EXCEPT ![r] = FALSE]
        /\ attempt' = [attempt EXCEPT ![r] = 0]
    /\ Suspend(c, "idle")
    /\ op' = [op EXCEPT ![c] = "stop"]
    /\ UNCHANGED <<reported, awaited>>

-----------------------------------------------------------------------------
(* A run: the task executing _run.                                         *)

\* Run r is resumed at this point, with no CancelledError to be thrown there.
Resumed(r, point) == pc[r] = point /\ ~cancelled[r]

Goto(r, point) == pc' = [pc EXCEPT ![r] = point]

OpeningReport(r) == IF attempt[r] = 0 THEN "connecting" ELSE "reconnecting"

\* Two bugs: the event is not tested; every round is announced as the first.
LoopTopUntested(r) == Goto(r, "reporting") /\ reported' = OpeningReport(r)

LoopTopAlwaysFirst(r) ==
    \/ stopSet /\ Goto(r, "done") /\ UNCHANGED reported
    \/ ~stopSet /\ Goto(r, "reporting") /\ reported' = "connecting"

\* The test of the while loop and the report that opens a round.
LoopTop(r) ==
    \/ stopSet /\ Goto(r, "done") /\ UNCHANGED reported
    \/ ~stopSet /\ Goto(r, "reporting") /\ reported' = OpeningReport(r)

\* After the try statement: return, or count the attempt and start waiting.
AfterRound(r) ==
    \/ stopSet /\ Goto(r, "done") /\ UNCHANGED attempt
    \/ /\ ~stopSet
       /\ Goto(r, "backoff")
       /\ attempt' = [attempt EXCEPT ![r] = IF @ < MaxExp THEN @ + 1 ELSE @]

RunBegins(r) ==
    /\ Resumed(r, "created")
    /\ LoopTop(r)
    /\ UNCHANGED <<leaving, heartbeat, cancelled, attempt, ownerVars>>

ReportReturns(r) ==
    /\ Resumed(r, "reporting")
    /\ Goto(r, "connecting")
    /\ UNCHANGED <<reported, leaving, heartbeat, cancelled, attempt, ownerVars>>

\* An exception of the observer at the loop top or in the except clause leaves
\* _run: nothing reconnects after it.
ReportRaises(r) ==
    /\ Resumed(r, "reporting") \/ Resumed(r, "failing")
    /\ Goto(r, "done")
    /\ UNCHANGED <<reported, leaving, heartbeat, cancelled, attempt, ownerVars>>

ConnectSucceeds(r) ==
    /\ Resumed(r, "connecting")
    /\ Goto(r, "authenticating")
    /\ reported' = "authenticating"
    /\ UNCHANGED <<leaving, heartbeat, cancelled, attempt, ownerVars>>

\* Bug: websockets.connect outside the try statement.
ConnectFailsUncaught(r) ==
    /\ Resumed(r, "connecting")
    /\ Goto(r, "done")
    /\ UNCHANGED <<reported, leaving, heartbeat, cancelled, attempt, ownerVars>>

ConnectFails(r) ==
    /\ Resumed(r, "connecting")
    /\ Goto(r, "failing")
    /\ reported' = "error"
    /\ UNCHANGED <<leaving, heartbeat, cancelled, attempt, ownerVars>>

\* The observer or ws.send raises before there is a heartbeat task.
HandshakeFails(r) ==
    /\ Resumed(r, "authenticating")
    /\ Goto(r, "closing")
    /\ leaving' = [leaving EXCEPT ![r] = "error"]
    /\ UNCHANGED <<reported, heartbeat, cancelled, attempt, ownerVars>>

\* The auth packet is on the wire; its reply is not awaited.
AuthSent(r) ==
    /\ Resumed(r, "authenticating")
    /\ Goto(r, "reading")
    /\ attempt' = [attempt EXCEPT ![r] = 0]
    /\ heartbeat' = [heartbeat EXCEPT ![r] = "running"]
    /\ UNCHANGED <<reported, leaving, cancelled, ownerVars>>

\* A frame with an AUTH_OK part.  Other frames only call the event observer.
AuthOk(r) ==
    /\ Resumed(r, "reading")
    /\ ~stopSet
    /\ reported' = "live"
    /\ UNCHANGED <<runVars, ownerVars>>

\* Bug: the finally clause forgets the heartbeat.
LeaveHeartbeatBehind(r, cause) ==
    /\ Goto(r, "closing")
    /\ leaving' = [leaving EXCEPT ![r] = cause]
    /\ UNCHANGED heartbeat

\* Leave the read loop because of `cause`: cancel the heartbeat and await it.
\* A heartbeat that already failed raises its own exception there, in place of
\* the one that was pending, a CancelledError included.
LeaveSocket(r, cause) ==
    \/ /\ heartbeat[r] = "running"
       /\ heartbeat' = [heartbeat EXCEPT ![r] = "cancelling"]
       /\ Goto(r, "reaping")
       /\ leaving' = [leaving EXCEPT ![r] = cause]
    \/ /\ heartbeat[r] # "running"
       /\ Goto(r, "closing")
       /\ leaving' = [leaving EXCEPT ![r] =
                         IF heartbeat[r] = "failed" THEN "error" ELSE cause]
       /\ UNCHANGED heartbeat

\* The server closes cleanly, the socket breaks or an observer raises, or a
\* frame arrives after _stop was set.
SocketEnds(r) ==
    /\ Resumed(r, "reading")
    /\ \/ LeaveSocket(r, "eof")
       \/ LeaveSocket(r, "error")
       \/ stopSet /\ LeaveSocket(r, "return")
    /\ UNCHANGED <<reported, cancelled, attempt, ownerVars>>

\* The awaited heartbeat is over.  A CancelledError delivered here, even one
\* meant for the run itself, is swallowed.
HeartbeatReaped(r) ==
    /\ pc[r] = "reaping" /\ heartbeat[r] = "ended"
    /\ Goto(r, "closing")
    /\ cancelled' = [cancelled EXCEPT ![r] = FALSE]
    /\ UNCHANGED <<reported, leaving, heartbeat, attempt, ownerVars>>

\* The socket is closed and the pending outcome takes effect.
SocketClosed(r) ==
    /\ Resumed(r, "closing")
    /\ \/ /\ leaving[r] \in {"return", "cancel"}
          /\ Goto(r, "done")
          /\ UNCHANGED <<reported, attempt>>
       \/ /\ leaving[r] = "error"
          /\ Goto(r, "failing")
          /\ reported' = "error"
          /\ UNCHANGED attempt
       \/ /\ leaving[r] = "eof"
          /\ AfterRound(r)
          /\ UNCHANGED reported
    /\ leaving' = [leaving EXCEPT ![r] = "none"]
    /\ heartbeat' = [heartbeat EXCEPT ![r] = "none"]
    /\ UNCHANGED <<cancelled, ownerVars>>

ErrorReported(r) ==
    /\ Resumed(r, "failing")
    /\ AfterRound(r)
    /\ UNCHANGED <<reported, leaving, heartbeat, cancelled, ownerVars>>

\* Bug: a wait for _stop without the timeout.
BackoffWithoutTimeout(r) ==
    /\ Resumed(r, "backoff") /\ stopSet
    /\ LoopTop(r)
    /\ UNCHANGED <<leaving, heartbeat, cancelled, attempt, ownerVars>>

\* wait_for ends, by its timeout or because _stop was set.  On Python 3.11 it
\* returns the result of _stop.wait() even when it is cancelled as well.
BackoffEnds(r) ==
    /\ pc[r] = "backoff"
    /\ LoopTop(r)
    /\ cancelled' = [cancelled EXCEPT ![r] = FALSE]
    /\ UNCHANGED <<leaving, heartbeat, attempt, ownerVars>>

\* CancelledError is thrown where the run is suspended.
CancelDelivered(r) ==
    /\ cancelled[r]
    /\ \/ /\ pc[r] \in {"created", "reporting", "connecting", "closing",
                        "failing", "backoff"}
          /\ Goto(r, "done")
          /\ leaving' = [leaving EXCEPT ![r] = "none"]
          /\ heartbeat' = [heartbeat EXCEPT ![r] = "none"]
       \/ /\ pc[r] = "authenticating"
          /\ Goto(r, "closing")
          /\ leaving' = [leaving EXCEPT ![r] = "cancel"]
          /\ UNCHANGED heartbeat
       \/ pc[r] = "reading" /\ LeaveSocket(r, "cancel")
    /\ cancelled' = [cancelled EXCEPT ![r] = FALSE]
    /\ UNCHANGED <<reported, attempt, ownerVars>>

-----------------------------------------------------------------------------
(* The heartbeat task of a run.  Sending a packet changes nothing here.    *)

Heartbeat(r, from, to) ==
    /\ heartbeat[r] = from
    /\ heartbeat' = [heartbeat EXCEPT ![r] = to]
    /\ UNCHANGED <<reported, pc, leaving, cancelled, attempt, ownerVars>>

HeartbeatFails(r) == Heartbeat(r, "running", "failed")
HeartbeatStops(r) == stopSet /\ Heartbeat(r, "running", "ended")
HeartbeatCancelled(r) == Heartbeat(r, "cancelling", "ended")

-----------------------------------------------------------------------------
CallerStep(c) ==
    \/ FetchEndpoint(c) \/ FetchFails(c) \/ Start(c) \/ Stop(c)
    \/ TaskJoined(c) \/ AwaitCancelled(c) \/ CallReturns(c) \/ TaskCreated(c)

RunStep(r) ==
    \/ RunBegins(r) \/ ReportReturns(r) \/ ReportRaises(r)
    \/ ConnectSucceeds(r) \/ ConnectFails(r) \/ HandshakeFails(r)
    \/ AuthSent(r) \/ AuthOk(r) \/ SocketEnds(r) \/ HeartbeatReaped(r)
    \/ SocketClosed(r) \/ ErrorReported(r) \/ BackoffEnds(r)
    \/ CancelDelivered(r)

HeartbeatStep(r) == HeartbeatFails(r) \/ HeartbeatStops(r) \/ HeartbeatCancelled(r)

Next ==
    \/ \E c \in Callers : CallerStep(c)
    \/ \E r \in Runs : RunStep(r) \/ HeartbeatStep(r)

Spec == Init /\ [][Next]_vars

\* The event loop runs every task that is ready; connect, close, send, backoff
\* and the fetch have timeouts; observers return or raise.  Nothing is assumed
\* of the server (AuthOk, SocketEnds) or of new calls.
Fairness ==
    /\ \A r \in Runs :
        /\ WF_vars(RunBegins(r) \/ CancelDelivered(r))
        /\ WF_vars(ReportReturns(r) \/ ReportRaises(r))
        /\ WF_vars(ConnectSucceeds(r) \/ ConnectFails(r))
        /\ WF_vars(HandshakeFails(r) \/ AuthSent(r))
        /\ WF_vars(HeartbeatReaped(r))
        /\ WF_vars(SocketClosed(r))
        /\ WF_vars(ErrorReported(r) \/ ReportRaises(r))
        /\ WF_vars(BackoffEnds(r))
        /\ WF_vars(HeartbeatStops(r) \/ HeartbeatCancelled(r))
    /\ \A c \in Callers :
        /\ WF_vars(FetchFails(c) \/ (at[c] = "fetching" /\ Start(c)))
        /\ WF_vars(TaskJoined(c))
        /\ WF_vars(CallReturns(c) \/ TaskCreated(c))

FairSpec == Spec /\ Fairness

-----------------------------------------------------------------------------
(* Properties.                                                             *)

\* At most one websocket is open, whatever the order in which the connection is
\* started, restarted and stopped, until two calls cross ("Owns one websocket
\* connection to one room", connection.py:43).
OneSocket == ~crossed => \A r, s \in Runs : SocketOpen(r) /\ SocketOpen(s) => r = s

\* No task is leaked, until two calls cross: a run that is still going is the one in
\* _task or one that some stop() is waiting for.
NoOrphan ==
    ~crossed => \A r \in Runs : Alive(r) => task = r \/ \E c \in Callers : awaited[c] = r

\* When the last report is "offline" nothing is connected: no run is past its
\* first step, so the health snapshot of a stopped room is true.
OfflineMeansQuiet ==
    reported = "offline" /\ ~crossed => \A r \in Runs : pc[r] \in {"created", "done"}

\* A heartbeat task is at work only while its run reads from the socket or
\* waits for that heartbeat, so it never writes to a socket left behind.
HeartbeatHasSocket ==
    \A r \in Runs : heartbeat[r] \in {"running", "cancelling"}
                        => pc[r] \in {"reading", "reaping"}

\* The task in the slot is one that nothing told to stop: the event is clear and
\* no cancellation is pending on it, so it goes on reconnecting.
SlotKeepsGoing == task # NoRun => ~stopSet /\ ~cancelled[task]

\* The run in the slot, left alone, ends only by an exception of the state
\* observer; no socket failure, at whatever point it hits, ends the loop.
OnlyObserverKillsLoop ==
    [][\A r \in Runs : task = r /\ Alive(r) /\ pc'[r] = "done"
            => pc[r] \in {"reporting", "failing"}]_vars

\* Until two calls cross, reports and sockets follow the life cycle of the abstract
\* specification: no report out of order, nothing opened while a stop is under
\* way, "offline" only once the socket is closed.
Lifecycle == INSTANCE ConnectionLifecycle WITH
    open <- \E r \in Runs : SocketOpen(r),
    stopping <- \E c \in Callers : at[c] = "awaiting"
ImplementsLifecycle == Lifecycle!Spec

\* stop(), and the stop() inside start(), return, until two calls cross: a start()
\* that clears _stop while a stop() waits lets the run of a swallowed cancellation
\* go on, and the stop() waits for it.
StopTerminates == \A c \in Callers : at[c] = "awaiting" ~> at[c] = "idle" \/ crossed

\* A run that lost its socket tries to connect again, unless its observer
\* raised or it is replaced.
Reconnects ==
    \A r \in Runs : pc[r] = "closing" /\ task = r
                        ~> pc[r] = "connecting" \/ task # r \/ ~Alive(r)
=============================================================================
