------------------------ MODULE LiveConnectionProofs ------------------------
(***************************************************************************)
(* Theorems about LiveConnection, for any callers and any runs.            *)
(*                                                                         *)
(* SlotInv holds however the methods are interleaved; OwnerInv until two   *)
(* calls cross, and so does LifeInv, by which the connection implements    *)
(* ConnectionLifecycle.  Calls of one task never cross.                    *)
(***************************************************************************)
EXTENDS LiveConnection, TLAPS

\* The type invariant: every variable of the connection keeps its range, the
\* saturated attempt counter of _run included.
THEOREM TypeCorrect == Spec => []TypeOK
<1>1. ASSUME Init PROVE TypeOK
  <2>1. attempt \in [Runs -> 0..MaxExp]
    BY <1>1, ConnAssumption DEF ConnAssumption, Init
  <2>2. stopSet \in BOOLEAN
    BY <1>1 DEF Init
  <2> QED BY <1>1, <2>1, <2>2 DEF Init, TypeOK, States, RunPoints
<1>2. TypeOK /\ [Next]_vars => TypeOK'
  <2> SUFFICES ASSUME TypeOK, [Next]_vars PROVE TypeOK'
    OBVIOUS
  <2> USE ConnAssumption DEF ConnAssumption
  <2>1. ASSUME NEW c \in Callers, CallerStep(c) PROVE TypeOK'
    <3> USE DEF TypeOK, States, RunPoints, Suspend, runVars, ownerVars
    <3>1. CASE FetchEndpoint(c) BY <3>1 DEF FetchEndpoint
    <3>2. CASE FetchFails(c) BY <3>2 DEF FetchFails
    <3>3. CASE Start(c) \/ Stop(c)
      <4>1. stopSet' \in BOOLEAN /\ task' \in Runs \cup {NoRun}
            /\ op' \in [Callers -> {"start", "stop"}]
            /\ crossed' \in BOOLEAN
            /\ UNCHANGED <<pc, leaving, heartbeat, attempt>>
        BY <3>3 DEF Start, Stop, EnterStop
      <4>2. CASE SlotBusy
        <5>1. CancelAndAwait(c) /\ task \in Runs
          BY <3>3, <4>2 DEF Start, Stop, EnterStop, SlotBusy
        <5> QED BY <4>1, <5>1 DEF CancelAndAwait
      <4>3. CASE ~SlotBusy
        <5>1. ReportOffline(c)
          BY <3>3, <4>3 DEF Start, Stop, EnterStop
        <5> QED BY <4>1, <5>1 DEF ReportOffline
      <4> QED BY <4>2, <4>3
    <3>4. CASE TaskJoined(c) BY <3>4 DEF TaskJoined
    <3>5. CASE AwaitCancelled(c) BY <3>5 DEF AwaitCancelled
    <3>6. CASE CallReturns(c) BY <3>6 DEF CallReturns
    <3>7. CASE TaskCreated(c)
      <4>1. attempt' \in [Runs -> 0..MaxExp] BY <3>7 DEF TaskCreated
      <4>2. stopSet' \in BOOLEAN BY <3>7 DEF TaskCreated, StopCleared
      <4>3. cancelled' \in [Runs -> BOOLEAN] BY <3>7 DEF TaskCreated
      <4> QED BY <3>7, <4>1, <4>2, <4>3 DEF TaskCreated
    <3> QED BY <2>1, <3>1, <3>2, <3>3, <3>4, <3>5, <3>6, <3>7 DEF CallerStep
  <2>2. ASSUME NEW r \in Runs, RunStep(r) PROVE TypeOK'
    <3> USE DEF TypeOK, States, RunPoints, Goto, Resumed, runVars, ownerVars
    <3>1. CASE RunBegins(r) BY <3>1 DEF RunBegins, LoopTop, OpeningReport
    <3>2. CASE ReportReturns(r) BY <3>2 DEF ReportReturns
    <3>3. CASE ReportRaises(r) BY <3>3 DEF ReportRaises
    <3>4. CASE ConnectSucceeds(r) BY <3>4 DEF ConnectSucceeds
    <3>5. CASE ConnectFails(r) BY <3>5 DEF ConnectFails
    <3>6. CASE HandshakeFails(r) BY <3>6 DEF HandshakeFails
    <3>7. CASE AuthSent(r) BY <3>7 DEF AuthSent
    <3>8. CASE AuthOk(r) BY <3>8 DEF AuthOk
    <3>9. CASE SocketEnds(r) BY <3>9 DEF SocketEnds, LeaveSocket
    <3>10. CASE HeartbeatReaped(r) BY <3>10 DEF HeartbeatReaped
    <3>11. CASE SocketClosed(r) BY <3>11 DEF SocketClosed, AfterRound
    <3>12. CASE ErrorReported(r) BY <3>12 DEF ErrorReported, AfterRound
    <3>13. CASE BackoffEnds(r) BY <3>13 DEF BackoffEnds, LoopTop, OpeningReport
    <3>14. CASE CancelDelivered(r) BY <3>14 DEF CancelDelivered, LeaveSocket
    <3> QED
      BY <2>2, <3>1, <3>2, <3>3, <3>4, <3>5, <3>6, <3>7, <3>8, <3>9, <3>10,
         <3>11, <3>12, <3>13, <3>14 DEF RunStep
  <2>3. ASSUME NEW r \in Runs, HeartbeatStep(r) PROVE TypeOK'
    BY <2>3 DEF HeartbeatStep, HeartbeatFails, HeartbeatStops, HeartbeatCancelled,
                Heartbeat, TypeOK, ownerVars
  <2>4. CASE UNCHANGED vars
    BY <2>4 DEF vars, TypeOK
  <2> QED BY <2>1, <2>2, <2>3, <2>4 DEF Next
<1> QED BY <1>1, <1>2, PTL DEF Spec

-----------------------------------------------------------------------------
(* What holds however the calls interleave.                                *)

\* The inductive invariant behind SlotKeepsGoing, HeartbeatHasSocket and
\* OnlyObserverKillsLoop.
SlotInv ==
    /\ SlotKeepsGoing
    \* stop() takes the task out of the slot before it waits for it.
    /\ task # NoRun => \A c \in Callers : awaited[c] # task
    \* Only a stop makes a run leave its socket with these outcomes.
    /\ task # NoRun => leaving[task] \notin {"return", "cancel"}
    \* finally: heartbeat.cancel(), await heartbeat.
    /\ \A r \in Runs :
        /\ heartbeat[r] = "running" => pc[r] = "reading"
        /\ heartbeat[r] = "cancelling" => pc[r] = "reaping"

LEMMA SlotInvInductive == ASSUME TypeOK, SlotInv, [Next]_vars PROVE SlotInv'
<1> USE ConnAssumption DEF ConnAssumption, TypeOK, SlotInv, SlotKeepsGoing
<1>1. ASSUME NEW c \in Callers, CallerStep(c) PROVE SlotInv'
  <2> USE DEF Suspend, runVars, ownerVars
  <2>1. CASE FetchEndpoint(c) BY <2>1 DEF FetchEndpoint
  <2>2. CASE FetchFails(c) BY <2>2 DEF FetchFails
  <2>3. CASE Start(c) \/ Stop(c)
    BY <2>3 DEF Start, Stop, EnterStop
  <2>4. CASE TaskJoined(c) BY <2>4 DEF TaskJoined
  <2>5. CASE AwaitCancelled(c) BY <2>5 DEF AwaitCancelled
  <2>6. CASE CallReturns(c) BY <2>6 DEF CallReturns
  <2>7. CASE TaskCreated(c)
    BY <2>7 DEF TaskCreated, StopCleared, Free, Alive
  <2> QED BY <1>1, <2>1, <2>2, <2>3, <2>4, <2>5, <2>6, <2>7 DEF CallerStep
<1>2. ASSUME NEW r \in Runs, RunStep(r) PROVE SlotInv'
  <2> USE DEF Goto, Resumed, runVars, ownerVars
  <2>1. CASE RunBegins(r) BY <2>1 DEF RunBegins, LoopTop
  <2>2. CASE ReportReturns(r) BY <2>2 DEF ReportReturns
  <2>3. CASE ReportRaises(r) BY <2>3 DEF ReportRaises
  <2>4. CASE ConnectSucceeds(r) BY <2>4 DEF ConnectSucceeds
  <2>5. CASE ConnectFails(r) BY <2>5 DEF ConnectFails
  <2>6. CASE HandshakeFails(r) BY <2>6 DEF HandshakeFails
  <2>7. CASE AuthSent(r) BY <2>7 DEF AuthSent
  <2>8. CASE AuthOk(r) BY <2>8 DEF AuthOk
  <2>9. CASE SocketEnds(r) BY <2>9 DEF SocketEnds, LeaveSocket
  <2>10. CASE HeartbeatReaped(r) BY <2>10 DEF HeartbeatReaped
  <2>11. CASE SocketClosed(r) BY <2>11 DEF SocketClosed, AfterRound
  <2>12. CASE ErrorReported(r) BY <2>12 DEF ErrorReported, AfterRound
  <2>13. CASE BackoffEnds(r) BY <2>13 DEF BackoffEnds, LoopTop
  <2>14. CASE CancelDelivered(r) BY <2>14 DEF CancelDelivered, LeaveSocket
  <2> QED
    BY <1>2, <2>1, <2>2, <2>3, <2>4, <2>5, <2>6, <2>7, <2>8, <2>9, <2>10,
       <2>11, <2>12, <2>13, <2>14 DEF RunStep
<1>3. ASSUME NEW r \in Runs, HeartbeatStep(r) PROVE SlotInv'
  BY <1>3 DEF HeartbeatStep, HeartbeatFails, HeartbeatStops, HeartbeatCancelled,
              Heartbeat, ownerVars
<1>4. CASE UNCHANGED vars BY <1>4 DEF vars
<1> QED BY <1>1, <1>2, <1>3, <1>4 DEF Next

LEMMA SlotInvariant == Spec => []SlotInv
<1>1. Init => SlotInv
  BY DEF Init, SlotInv, SlotKeepsGoing
<1> QED BY <1>1, TypeCorrect, SlotInvInductive, PTL DEF Spec

\* A run in _task has no stop request and no cancellation pending on it, for any
\* number of concurrent callers.
THEOREM SlotSafe == Spec => []SlotKeepsGoing
BY SlotInvariant, PTL DEF SlotInv

\* No heartbeat task outlives the socket it writes to (connection.py:130-135).
THEOREM HeartbeatSafe == Spec => []HeartbeatHasSocket
<1>1. SlotInv => HeartbeatHasSocket
  BY DEF SlotInv, HeartbeatHasSocket
<1> QED BY <1>1, SlotInvariant, PTL

\* A loop that owns the slot survives every socket failure (connection.py:138):
\* what ends it is an exception of the state observer.
THEOREM LoopSurvives == Spec => OnlyObserverKillsLoop
<1> DEFINE Survives == \A r \in Runs : task = r /\ Alive(r) /\ pc'[r] = "done"
                            => pc[r] \in {"reporting", "failing"}
<1>1. ASSUME TypeOK, SlotInv, [Next]_vars PROVE [Survives]_vars
  <2> SUFFICES ASSUME NEW q \in Runs, task = q, Alive(q), pc'[q] = "done"
               PROVE  pc[q] \in {"reporting", "failing"}
    OBVIOUS
  <2>1. /\ ~stopSet /\ ~cancelled[q] /\ pc[q] # "done"
        /\ leaving[q] \notin {"return", "cancel"}
        /\ pc \in [Runs -> RunPoints]
    BY <1>1, ConnAssumption
    DEF ConnAssumption, TypeOK, SlotInv, SlotKeepsGoing, Alive
  <2>2. ASSUME NEW c \in Callers, CallerStep(c) PROVE FALSE
    <3>1. pc' = pc \/ \E r \in Runs : Free(r) /\ pc' = [pc EXCEPT ![r] = "created"]
      BY <2>2 DEF CallerStep, FetchEndpoint, FetchFails, Start, Stop, EnterStop,
                  TaskJoined, AwaitCancelled, CallReturns, TaskCreated, runVars
    <3> QED BY <2>1, <3>1
  <2>3. ASSUME NEW r \in Runs, RunStep(r)
        PROVE  pc[q] \in {"reporting", "failing"}
    <3>1. CASE RunBegins(r) \/ BackoffEnds(r)
      BY <2>1, <3>1 DEF RunBegins, BackoffEnds, LoopTop, Goto
    <3>2. CASE ReportReturns(r) \/ ConnectSucceeds(r) \/ ConnectFails(r)
               \/ HandshakeFails(r) \/ AuthSent(r) \/ AuthOk(r) \/ HeartbeatReaped(r)
      BY <2>1, <3>2 DEF ReportReturns, ConnectSucceeds, ConnectFails,
         HandshakeFails, AuthSent, AuthOk, HeartbeatReaped, Goto, runVars
    <3>3. CASE ReportRaises(r)
      BY <2>1, <3>3 DEF ReportRaises, Resumed, Goto
    <3>4. CASE SocketEnds(r) BY <2>1, <3>4 DEF SocketEnds, LeaveSocket, Goto
    <3>5. CASE SocketClosed(r) \/ ErrorReported(r)
      BY <2>1, <3>5 DEF SocketClosed, ErrorReported, AfterRound, Goto
    <3>6. CASE CancelDelivered(r)
      BY <2>1, <3>6 DEF CancelDelivered, LeaveSocket, Goto
    <3> QED BY <2>3, <3>1, <3>2, <3>3, <3>4, <3>5, <3>6 DEF RunStep
  <2>4. ASSUME NEW r \in Runs, HeartbeatStep(r) PROVE FALSE
    BY <2>1, <2>4 DEF HeartbeatStep, HeartbeatFails, HeartbeatStops,
                      HeartbeatCancelled, Heartbeat
  <2>5. CASE UNCHANGED vars BY <2>1, <2>5 DEF vars
  <2> QED BY <1>1, <2>2, <2>3, <2>4, <2>5 DEF Next
<1> QED BY <1>1, TypeCorrect, SlotInvariant, PTL DEF Spec, OnlyObserverKillsLoop

-----------------------------------------------------------------------------
(* What holds until two calls cross.                                       *)

\* The inductive invariant behind OneSocket and OfflineMeansQuiet.
OwnerInv ==
    ~crossed =>
        /\ NoOrphan
        /\ OfflineMeansQuiet
        /\ \A c \in Callers :
            /\ at[c] # "awaiting" => awaited[c] = NoRun
            \* The slot stays empty from the entry of stop() to its return.
            /\ at[c] = "awaiting" => task = NoRun
            /\ at[c] = "offline" /\ op[c] = "start" => task = NoRun
        /\ \A c, d \in Callers : at[c] = "awaiting" /\ at[d] = "awaiting" => c = d

LEMMA CrossedForGood == ASSUME [Next]_vars, crossed \in BOOLEAN, ~crossed' PROVE ~crossed
<1>1. ASSUME NEW c \in Callers, CallerStep(c) PROVE ~crossed
  BY <1>1 DEF CallerStep, FetchEndpoint, FetchFails, Start, Stop, EnterStop, TaskJoined,
     AwaitCancelled, CallReturns, TaskCreated, ownerVars
<1>2. ASSUME NEW r \in Runs, RunStep(r) \/ HeartbeatStep(r) PROVE crossed' = crossed
  BY <1>2 DEF RunStep, RunBegins, ReportReturns, ReportRaises, ConnectSucceeds,
     ConnectFails, HandshakeFails, AuthSent, AuthOk, SocketEnds, HeartbeatReaped,
     SocketClosed, ErrorReported, BackoffEnds, CancelDelivered, HeartbeatStep,
     HeartbeatFails, HeartbeatStops, HeartbeatCancelled, Heartbeat, ownerVars
<1>3. CASE UNCHANGED vars BY <1>3 DEF vars
<1> QED BY <1>1, <1>2, <1>3 DEF Next

\* While no calls have crossed, the one that goes on finds nobody waiting.
LEMMA NobodyElseWaits ==
  ASSUME ~crossed', NEW c \in Callers,
         EnterStop(c, "start") \/ EnterStop(c, "stop") \/ TaskCreated(c)
  PROVE  \A d \in Callers \ {c} : at[d] # "awaiting"
BY DEF EnterStop, TaskCreated, OtherAwaits

LEMMA OwnerInvInductive ==
  ASSUME TypeOK, OwnerInv, [Next]_vars PROVE OwnerInv'
<1> SUFFICES ASSUME ~crossed' PROVE OwnerInv'
  BY DEF OwnerInv
<1>0. ~crossed
  BY CrossedForGood DEF TypeOK
<1> USE <1>0, ConnAssumption
    DEF ConnAssumption, TypeOK, OwnerInv, NoOrphan, OfflineMeansQuiet, Alive
<1>1. ASSUME NEW c \in Callers, CallerStep(c) PROVE OwnerInv'
  <2> USE DEF Suspend, runVars, ownerVars
  <2>1. CASE FetchEndpoint(c) BY <2>1 DEF FetchEndpoint
  <2>2. CASE FetchFails(c) BY <2>2 DEF FetchFails
  <2>3. CASE Start(c) \/ Stop(c)
    <3>1. EnterStop(c, "start") \/ EnterStop(c, "stop")
      BY <2>3 DEF Start, Stop
    <3>2. at[c] # "awaiting" /\ \A d \in Callers : at[d] # "awaiting"
      BY <2>3, <3>1, NobodyElseWaits DEF Start, Stop
    <3> QED BY <3>1, <3>2 DEF EnterStop, CancelAndAwait, ReportOffline, SlotBusy
  <2>4. CASE TaskJoined(c) BY <2>4 DEF TaskJoined
  <2>5. CASE AwaitCancelled(c) BY <2>5 DEF AwaitCancelled
  <2>6. CASE CallReturns(c) BY <2>6 DEF CallReturns
  <2>7. CASE TaskCreated(c)
    <3>1. at[c] = "offline" BY <2>7 DEF TaskCreated
    <3>2. \A d \in Callers : at[d] # "awaiting"
      BY <2>7, <3>1, NobodyElseWaits
    <3>3. task = NoRun BY <2>7 DEF TaskCreated
    <3>4. \A d \in Callers \ {c} : ~(at[d] = "offline" /\ op[d] = "start")
      BY <2>7 DEF TaskCreated, OtherStarts
    <3>5. \A r \in Runs : pc[r] = "done"
      BY <3>2, <3>3
    <3>6. PICK r \in Runs : task' = r /\ pc' = [pc EXCEPT ![r] = "created"]
      BY <2>7 DEF TaskCreated
    <3>7. /\ at' = [at EXCEPT ![c] = "idle"] /\ op' = [op EXCEPT ![c] = "stop"]
          /\ UNCHANGED awaited
      BY <2>7 DEF TaskCreated
    <3> QED BY <3>1, <3>2, <3>4, <3>5, <3>6, <3>7
  <2> QED BY <1>1, <2>1, <2>2, <2>3, <2>4, <2>5, <2>6, <2>7 DEF CallerStep
<1>2. ASSUME NEW r \in Runs, RunStep(r) PROVE OwnerInv'
  <2> USE DEF Goto, Resumed, runVars, ownerVars
  <2>1. CASE RunBegins(r) BY <2>1 DEF RunBegins, LoopTop, OpeningReport
  <2>2. CASE ReportReturns(r) BY <2>2 DEF ReportReturns
  <2>3. CASE ReportRaises(r) BY <2>3 DEF ReportRaises
  <2>4. CASE ConnectSucceeds(r) BY <2>4 DEF ConnectSucceeds
  <2>5. CASE ConnectFails(r) BY <2>5 DEF ConnectFails
  <2>6. CASE HandshakeFails(r) BY <2>6 DEF HandshakeFails
  <2>7. CASE AuthSent(r) BY <2>7 DEF AuthSent
  <2>8. CASE AuthOk(r) BY <2>8 DEF AuthOk
  <2>9. CASE SocketEnds(r) BY <2>9 DEF SocketEnds, LeaveSocket
  <2>10. CASE HeartbeatReaped(r) BY <2>10 DEF HeartbeatReaped
  <2>11. CASE SocketClosed(r) BY <2>11 DEF SocketClosed, AfterRound
  <2>12. CASE ErrorReported(r) BY <2>12 DEF ErrorReported, AfterRound
  <2>13. CASE BackoffEnds(r) BY <2>13 DEF BackoffEnds, LoopTop, OpeningReport
  <2>14. CASE CancelDelivered(r) BY <2>14 DEF CancelDelivered, LeaveSocket
  <2> QED
    BY <1>2, <2>1, <2>2, <2>3, <2>4, <2>5, <2>6, <2>7, <2>8, <2>9, <2>10,
       <2>11, <2>12, <2>13, <2>14 DEF RunStep
<1>3. ASSUME NEW r \in Runs, HeartbeatStep(r) PROVE OwnerInv'
  BY <1>3 DEF HeartbeatStep, HeartbeatFails, HeartbeatStops, HeartbeatCancelled,
              Heartbeat, ownerVars
<1>4. CASE UNCHANGED vars BY <1>4 DEF vars
<1> QED BY <1>1, <1>2, <1>3, <1>4 DEF Next

LEMMA OwnerInvariant == Spec => []OwnerInv
<1>1. Init => OwnerInv
  BY DEF Init, OwnerInv, NoOrphan, OfflineMeansQuiet, Alive
<1>2. TypeOK /\ OwnerInv /\ [Next]_vars => OwnerInv'
  BY OwnerInvInductive
<1> QED BY <1>1, <1>2, TypeCorrect, PTL DEF Spec

\* No order of starts, restarts, failures and stops makes a LiveConnection hold two
\* websockets, for any number of callers until two of their calls cross
\* (connection.py:43).
THEOREM SingleSocket == Spec => []OneSocket
<1>1. TypeOK /\ OwnerInv => OneSocket
  BY ConnAssumption
  DEF ConnAssumption, TypeOK, OwnerInv, NoOrphan, OneSocket, SocketOpen, Alive
<1> QED BY <1>1, TypeCorrect, OwnerInvariant, PTL

\* Until two calls cross, a run that still goes is in _task or awaited by a stop().
THEOREM NothingLeaks == Spec => []NoOrphan
<1>1. OwnerInv => NoOrphan BY DEF OwnerInv, NoOrphan
<1> QED BY <1>1, OwnerInvariant, PTL

\* Until two calls cross, nothing is connected when the health snapshot says "offline".
THEOREM OfflineIsQuiet == Spec => []OfflineMeansQuiet
<1>1. OwnerInv => OfflineMeansQuiet BY DEF OwnerInv, OfflineMeansQuiet
<1> QED BY <1>1, OwnerInvariant, PTL

-----------------------------------------------------------------------------
(* The connection implements its life cycle.                               *)

\* The last report fits the place where a run is suspended, and a round that is
\* waiting for the next one will be announced as a later one.
ReportFits(r) ==
    /\ pc[r] = "created" => reported = "offline" /\ attempt[r] = 0
    /\ pc[r] \in {"reporting", "connecting"} => reported \in {"connecting", "reconnecting"}
    /\ pc[r] = "authenticating" => reported = "authenticating"
    /\ pc[r] \in {"reading", "reaping", "closing"} => reported \in {"authenticating", "live"}
    /\ pc[r] = "failing" => reported = "error"
    /\ pc[r] = "backoff" => reported \in {"error", "authenticating", "live"} /\ attempt[r] # 0

\* A run that a stop() waits for is about to get its CancelledError; if one got
\* lost, the run is on its way out and the event keeps it from another round.
AwaitedEnds(c) ==
    at[c] = "awaiting" =>
        /\ stopSet /\ awaited[c] \in Runs
        /\ ~cancelled[awaited[c]] => pc[awaited[c]] \in {"reaping", "closing", "failing", "done"}

\* The inductive invariant behind ImplementsLifecycle, next to OwnerInv.
LifeInv ==
    ~crossed =>
        /\ \A r \in Runs : ReportFits(r)
        /\ \A c \in Callers : AwaitedEnds(c)
        \* A stop() that is over has been answered.
        /\ task = NoRun /\ (\A c \in Callers : at[c] # "awaiting") => reported = "offline"

\* There is one run task at a time, and only this one is waited for.
LEMMA OneRun ==
  ASSUME ~crossed, TypeOK, OwnerInv, NEW r \in Runs, Alive(r)
  PROVE  /\ \A q \in Runs : Alive(q) => q = r
         /\ \A c \in Callers : at[c] = "awaiting" => awaited[c] = r
         /\ task = r \/ \E c \in Callers : at[c] = "awaiting"
BY ConnAssumption DEF ConnAssumption, TypeOK, OwnerInv, NoOrphan

\* Only a task that has not ended takes a step.
LEMMA RunsAreAlive == ASSUME NEW r \in Runs, RunStep(r) PROVE Alive(r)
<1>1. CASE CancelDelivered(r)
  BY <1>1 DEF CancelDelivered, Alive
<1>2. CASE HeartbeatReaped(r) \/ BackoffEnds(r)
  BY <1>2 DEF HeartbeatReaped, BackoffEnds, Alive
<1>3. CASE ~CancelDelivered(r) /\ ~HeartbeatReaped(r) /\ ~BackoffEnds(r)
  <2>1. \E point \in RunPoints \ {"done"} : Resumed(r, point)
    BY <1>3 DEF RunStep, RunPoints, RunBegins, ReportReturns, ReportRaises, ConnectSucceeds,
       ConnectFails, HandshakeFails, AuthSent, AuthOk, SocketEnds, SocketClosed, ErrorReported
  <2> QED BY <2>1 DEF Resumed, Alive
<1> QED BY <1>1, <1>2, <1>3

LEMMA LifeInvInductive ==
  ASSUME TypeOK, TypeOK', SlotInv, OwnerInv, LifeInv, [Next]_vars PROVE LifeInv'
<1> SUFFICES ASSUME ~crossed' PROVE LifeInv'
  BY DEF LifeInv
<1>0. ~crossed
  BY CrossedForGood DEF TypeOK
<1> USE <1>0, ConnAssumption
    DEF ConnAssumption, TypeOK, LifeInv, ReportFits, AwaitedEnds, Alive
<1>1. ASSUME NEW c \in Callers, CallerStep(c) PROVE LifeInv'
  <2> USE DEF Suspend, runVars, ownerVars
  <2>1. CASE FetchEndpoint(c) BY <2>1 DEF FetchEndpoint
  <2>2. CASE FetchFails(c) BY <2>2 DEF FetchFails
  <2>3. CASE Start(c) \/ Stop(c)
    <3>1. EnterStop(c, "start") \/ EnterStop(c, "stop")
      BY <2>3 DEF Start, Stop
    <3>0. \A d \in Callers : at[d] # "awaiting"
      BY <2>3, <3>1, NobodyElseWaits DEF Start, Stop
    <3>2. CASE SlotBusy
      BY <3>0, <3>1, <3>2 DEF EnterStop, CancelAndAwait, SlotBusy
    <3>3. CASE ~SlotBusy
      <4>1. \A r \in Runs : pc[r] = "done"
        BY <3>0, <3>3 DEF OwnerInv, NoOrphan, SlotBusy
      <4> QED BY <3>0, <3>1, <3>3, <4>1 DEF EnterStop, ReportOffline
    <3> QED BY <3>2, <3>3
  <2>4. CASE TaskJoined(c)
    <3>1. \A r \in Runs : pc[r] = "done"
      BY <2>4 DEF TaskJoined, OwnerInv, NoOrphan
    <3> QED BY <2>4, <3>1 DEF TaskJoined, OwnerInv
  <2>5. CASE AwaitCancelled(c) BY <2>5 DEF AwaitCancelled
  <2>6. CASE CallReturns(c) BY <2>6 DEF CallReturns
  <2>7. CASE TaskCreated(c)
    <3>1. at[c] = "offline" /\ task = NoRun BY <2>7 DEF TaskCreated, OwnerInv
    <3>2. \A d \in Callers : at[d] # "awaiting"
      BY <2>7, <3>1, NobodyElseWaits
    <3> QED BY <2>7, <3>1, <3>2 DEF TaskCreated, Free
  <2> QED BY <1>1, <2>1, <2>2, <2>3, <2>4, <2>5, <2>6, <2>7 DEF CallerStep
<1>2. ASSUME NEW r \in Runs, RunStep(r) PROVE LifeInv'
  <2> USE DEF Goto, Resumed, runVars, ownerVars
  <2>0. Alive(r)
    BY <1>2, RunsAreAlive
  <2>b. /\ \A q \in Runs : q # r => pc[q] = "done"
        /\ \A c \in Callers : at[c] = "awaiting" => awaited[c] = r
        /\ task = r \/ \E c \in Callers : at[c] = "awaiting"
    BY <2>0, OneRun
  <2>1. CASE RunBegins(r) BY <2>b, <2>1 DEF RunBegins, LoopTop, OpeningReport
  <2>2. CASE ReportReturns(r) BY <2>b, <2>2 DEF ReportReturns
  <2>3. CASE ReportRaises(r) BY <2>b, <2>3 DEF ReportRaises
  <2>4. CASE ConnectSucceeds(r) BY <2>b, <2>4 DEF ConnectSucceeds
  <2>5. CASE ConnectFails(r) BY <2>b, <2>5 DEF ConnectFails
  <2>6. CASE HandshakeFails(r) BY <2>b, <2>6 DEF HandshakeFails
  <2>7. CASE AuthSent(r) BY <2>b, <2>7 DEF AuthSent
  <2>8. CASE AuthOk(r) BY <2>b, <2>8 DEF AuthOk
  <2>9. CASE SocketEnds(r) BY <2>b, <2>9 DEF SocketEnds, LeaveSocket
  <2>10. CASE HeartbeatReaped(r) BY <2>b, <2>10 DEF HeartbeatReaped
  <2>11. CASE SocketClosed(r) BY <2>b, <2>11 DEF SocketClosed, AfterRound
  <2>12. CASE ErrorReported(r) BY <2>b, <2>12 DEF ErrorReported, AfterRound
  <2>13. CASE BackoffEnds(r) BY <2>b, <2>13 DEF BackoffEnds, LoopTop, OpeningReport
  <2>14. CASE CancelDelivered(r) BY <2>b, <2>14 DEF CancelDelivered, LeaveSocket
  <2> QED
    BY <1>2, <2>1, <2>2, <2>3, <2>4, <2>5, <2>6, <2>7, <2>8, <2>9, <2>10,
       <2>11, <2>12, <2>13, <2>14 DEF RunStep
<1>3. ASSUME NEW r \in Runs, HeartbeatStep(r) PROVE LifeInv'
  BY <1>3 DEF HeartbeatStep, HeartbeatFails, HeartbeatStops, HeartbeatCancelled,
              Heartbeat, ownerVars
<1>4. CASE UNCHANGED vars BY <1>4 DEF vars
<1> QED BY <1>1, <1>2, <1>3, <1>4 DEF Next

LEMMA LifeInvariant == Spec => []LifeInv
<1>1. Init => LifeInv
  BY DEF Init, LifeInv, ReportFits, AwaitedEnds
<1>2. TypeOK /\ TypeOK' /\ SlotInv /\ OwnerInv /\ LifeInv /\ [Next]_vars => LifeInv'
  BY LifeInvInductive
<1> QED BY <1>1, <1>2, TypeCorrect, SlotInvariant, OwnerInvariant, PTL DEF Spec

\* What the owner does is a stop request, an answered stop, or nothing.
LEMMA CallerRefines ==
  ASSUME TypeOK, TypeOK', OwnerInv, LifeInv, NEW c \in Callers, CallerStep(c)
  PROVE  [Lifecycle!Next]_(Lifecycle!vars)
<1> SUFFICES ASSUME ~crossed' PROVE [Lifecycle!Next]_(Lifecycle!vars)
  BY DEF Lifecycle!Next, Lifecycle!Crossing
<1>0. ~crossed /\ crossed' = crossed
  BY CrossedForGood DEF Next, TypeOK
<1> USE <1>0, ConnAssumption
    DEF ConnAssumption, TypeOK, Suspend, runVars, ownerVars, SocketOpen, Lifecycle!vars
<1>1. CASE FetchEndpoint(c) BY <1>1 DEF FetchEndpoint
<1>2. CASE FetchFails(c) BY <1>2 DEF FetchFails
<1>3. CASE Start(c) \/ Stop(c)
  <2>1. EnterStop(c, "start") \/ EnterStop(c, "stop")
    BY <1>3 DEF Start, Stop
  <2>0. \A d \in Callers : at[d] # "awaiting"
    BY <1>3, <2>1, NobodyElseWaits DEF Start, Stop
  <2>2. CASE SlotBusy
    <3>1. Lifecycle!StopRequested
      BY <2>0, <2>1, <2>2 DEF EnterStop, CancelAndAwait, Lifecycle!StopRequested
    <3> QED BY <3>1 DEF Lifecycle!Next
  <2>3. CASE ~SlotBusy
    <3>1. \A r \in Runs : pc[r] = "done"
      BY <2>0, <2>3 DEF OwnerInv, NoOrphan, SlotBusy, Alive
    <3>2. Lifecycle!Stopped
      BY <2>0, <2>1, <2>3, <3>1 DEF EnterStop, ReportOffline, Lifecycle!Stopped
    <3> QED BY <3>2 DEF Lifecycle!Next
  <2> QED BY <2>2, <2>3
<1>4. CASE TaskJoined(c)
  <2>1. \A r \in Runs : pc[r] = "done"
    BY <1>4 DEF TaskJoined, OwnerInv, NoOrphan, Alive
  <2>2. Lifecycle!Stopped
    BY <1>4, <2>1 DEF TaskJoined, OwnerInv, Lifecycle!Stopped
  <2> QED BY <2>2 DEF Lifecycle!Next
<1>5. CASE AwaitCancelled(c) BY <1>5 DEF AwaitCancelled
<1>6. CASE CallReturns(c) BY <1>6 DEF CallReturns
<1>7. CASE TaskCreated(c) BY <1>7 DEF TaskCreated, Free, Alive
<1> QED BY <1>1, <1>2, <1>3, <1>4, <1>5, <1>6, <1>7 DEF CallerStep

\* Each step of the run is a step of the life cycle, or leaves it alone.
LEMMA RunRefines ==
  ASSUME TypeOK, TypeOK', OwnerInv, LifeInv, NEW r \in Runs, RunStep(r)
  PROVE  [Lifecycle!Next]_(Lifecycle!vars)
<1> SUFFICES ASSUME ~crossed' PROVE [Lifecycle!Next]_(Lifecycle!vars)
  BY DEF Lifecycle!Next, Lifecycle!Crossing
<1>c. ~crossed /\ crossed' = crossed
  BY CrossedForGood DEF Next, TypeOK
<1> USE <1>c
<1> DEFINE open == \E q \in Runs : SocketOpen(q)
           stopping == \E c \in Callers : at[c] = "awaiting"
<1> USE DEF Goto, Resumed, runVars, ownerVars
<1>0. Alive(r)
  BY RunsAreAlive
<1>1. /\ at' = at /\ stopping' = stopping
      /\ pc \in [Runs -> RunPoints] /\ pc' \in [Runs -> RunPoints]
      /\ \A q \in Runs : q # r => pc[q] = "done" /\ pc'[q] = "done"
  <2>1. at' = at
    BY DEF RunStep, RunBegins, ReportReturns, ReportRaises, ConnectSucceeds,
       ConnectFails, HandshakeFails, AuthSent, AuthOk, SocketEnds, HeartbeatReaped,
       SocketClosed, ErrorReported, BackoffEnds, CancelDelivered
  <2>2. \E point \in RunPoints : pc' = [pc EXCEPT ![r] = point]
    <3>1. CASE RunBegins(r) \/ BackoffEnds(r)
      BY <3>1 DEF RunBegins, BackoffEnds, LoopTop, RunPoints
    <3>2. CASE ReportReturns(r) \/ ReportRaises(r) \/ ConnectSucceeds(r) \/ ConnectFails(r)
               \/ HandshakeFails(r) \/ AuthSent(r) \/ HeartbeatReaped(r)
      BY <3>2 DEF ReportReturns, ReportRaises, ConnectSucceeds, ConnectFails, HandshakeFails,
                  AuthSent, HeartbeatReaped, RunPoints
    <3>3. CASE AuthOk(r)
      BY <3>3 DEF AuthOk, TypeOK
    <3>4. CASE SocketEnds(r)
      BY <3>4 DEF SocketEnds, LeaveSocket, RunPoints
    <3>5. CASE SocketClosed(r) \/ ErrorReported(r)
      BY <3>5 DEF SocketClosed, ErrorReported, AfterRound, RunPoints
    <3>6. CASE CancelDelivered(r)
      BY <3>6 DEF CancelDelivered, LeaveSocket, RunPoints
    <3> QED BY <3>1, <3>2, <3>3, <3>4, <3>5, <3>6 DEF RunStep
  <2>3. \A q \in Runs : q # r => pc[q] = "done"
    BY <1>0, OneRun DEF Alive
  <2> QED BY <2>1, <2>2, <2>3 DEF TypeOK
<1>2. (open <=> SocketOpen(r)) /\ (open' <=> SocketOpen(r)')
  BY <1>1 DEF SocketOpen
<1>3. stopping => stopSet /\ (~cancelled[r] => pc[r] \in {"reaping", "closing", "failing", "done"})
  BY <1>0, OneRun DEF LifeInv, AwaitedEnds
<1>4. ReportFits(r)
  BY DEF LifeInv
<1> USE <1>1, <1>2, <1>3, <1>4 DEF ReportFits, SocketOpen, Lifecycle!vars
<1>5. CASE RunBegins(r)
  <2>1. Lifecycle!Opening \/ UNCHANGED Lifecycle!vars
    BY <1>5 DEF RunBegins, LoopTop, OpeningReport, Lifecycle!Opening
  <2> QED BY <2>1 DEF Lifecycle!Next
<1>6. CASE ReportReturns(r) \/ ReportRaises(r)
  BY <1>6 DEF ReportReturns, ReportRaises
<1>7. CASE ConnectSucceeds(r)
  <2>1. Lifecycle!Opened
    BY <1>7 DEF ConnectSucceeds, Lifecycle!Opened
  <2> QED BY <2>1 DEF Lifecycle!Next
<1>8. CASE ConnectFails(r)
  <2>1. Lifecycle!Broken
    BY <1>8 DEF ConnectFails, Lifecycle!Broken
  <2> QED BY <2>1 DEF Lifecycle!Next
<1>9. CASE HandshakeFails(r) \/ AuthSent(r) \/ HeartbeatReaped(r)
  BY <1>9 DEF HandshakeFails, AuthSent, HeartbeatReaped
<1>10. CASE AuthOk(r)
  <2>1. Lifecycle!Authenticated
    BY <1>10 DEF AuthOk, Lifecycle!Authenticated
  <2> QED BY <2>1 DEF Lifecycle!Next
<1>11. CASE SocketEnds(r)
  BY <1>11 DEF SocketEnds, LeaveSocket
<1>12. CASE SocketClosed(r)
  <2>1. Lifecycle!Closed \/ Lifecycle!Broken
    BY <1>12 DEF SocketClosed, AfterRound, Lifecycle!Closed, Lifecycle!Broken
  <2> QED BY <2>1 DEF Lifecycle!Next
<1>13. CASE ErrorReported(r)
  BY <1>13 DEF ErrorReported, AfterRound
<1>14. CASE BackoffEnds(r)
  <2>1. Lifecycle!Retrying \/ UNCHANGED Lifecycle!vars
    BY <1>14 DEF BackoffEnds, LoopTop, OpeningReport, Lifecycle!Retrying
  <2> QED BY <2>1 DEF Lifecycle!Next
<1>15. CASE CancelDelivered(r)
  <2>1. Lifecycle!Closed \/ UNCHANGED Lifecycle!vars
    BY <1>15 DEF CancelDelivered, LeaveSocket, Lifecycle!Closed
  <2> QED BY <2>1 DEF Lifecycle!Next
<1> QED
  BY <1>5, <1>6, <1>7, <1>8, <1>9, <1>10, <1>11, <1>12, <1>13, <1>14, <1>15 DEF RunStep

LEMMA StepRefines ==
  ASSUME TypeOK, TypeOK', OwnerInv, LifeInv, [Next]_vars
  PROVE  [Lifecycle!Next]_(Lifecycle!vars)
<1>1. ASSUME NEW r \in Runs, HeartbeatStep(r) PROVE UNCHANGED Lifecycle!vars
  BY <1>1 DEF HeartbeatStep, HeartbeatFails, HeartbeatStops, HeartbeatCancelled,
              Heartbeat, ownerVars, SocketOpen, Lifecycle!vars
<1>2. CASE UNCHANGED vars
  BY <1>2 DEF vars, SocketOpen, Lifecycle!vars
<1> QED BY <1>1, <1>2, CallerRefines, RunRefines DEF Next

\* A LiveConnection is the link of ConnectionLifecycle, however the runs, their
\* heartbeats, the cancellations and the calls interleave, until two calls cross: its
\* reports follow the state diagram, "offline" comes when the socket is closed, and
\* nothing opens while a stop() is under way (connection.py:77-151).
THEOREM LifecycleImplemented == Spec => ImplementsLifecycle
<1>1. Init => Lifecycle!Init
  BY DEF Init, Lifecycle!Init, SocketOpen
<1>2. TypeOK /\ TypeOK' /\ OwnerInv /\ LifeInv /\ [Next]_vars => [Lifecycle!Next]_(Lifecycle!vars)
  BY StepRefines
<1> QED
  BY <1>1, <1>2, TypeCorrect, OwnerInvariant, LifeInvariant, PTL
  DEF Spec, ImplementsLifecycle, Lifecycle!Spec

=============================================================================
