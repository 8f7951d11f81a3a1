-------------------------- MODULE LiveEngineProofs --------------------------
(***************************************************************************)
(* Proofs about LiveEngine, for any owners, delays, gaps and bounds.       *)
(***************************************************************************)
EXTENDS LiveEngine, SequenceTheorems, TLAPS

\* Nothing happens before the first session, none starts in the future.
Begun ==
    /\ startedAt <= clock
    /\ \A c \in Owners : at[c] = "starting" => mine[c] # 0
    /\ session = 0 => /\ link = 0 /\ pending = {}
                      /\ \A l \in Loops : loop[l] = "none"
                      /\ \A c \in Owners : at[c] # "starting"

TypeInv == TypeOK /\ Begun

\* What enqueueing does to the list of suggestions.
LEMMA Enqueued ==
  ASSUME TypeInv, NEW o \in 1..MaxSessions, session # 0, Enqueue(o)
  PROVE  /\ suggestions' \in Seq(Suggestion)
         /\ Len(suggestions') = Len(suggestions) + 1
         /\ Len(suggestions') <= MaxSuggestions
         /\ \A i \in 1..Len(suggestions) : suggestions'[i] = suggestions[i]
         /\ suggestions'[Len(suggestions')] =
                [ts |-> clock, age |-> clock - startedAt, origin |-> o,
                 session |-> session, status |-> "queued"]
         /\ lastEmit' = clock
<1> DEFINE new == [ts |-> clock, age |-> clock - startedAt, origin |-> o,
                   session |-> session, status |-> "queued"]
<1>1. new \in Suggestion
  BY EngineAssumption DEF EngineAssumption, TypeInv, TypeOK, Begun, Suggestion
<1>2. suggestions' = Append(suggestions, new) /\ Len(suggestions) < MaxSuggestions
  BY DEF Enqueue
<1>3. suggestions \in Seq(Suggestion)
  BY DEF TypeInv, TypeOK
<1> HIDE DEF new
<1>4. /\ suggestions' \in Seq(Suggestion)
      /\ Len(suggestions') = Len(suggestions) + 1
      /\ \A i \in 1..Len(suggestions) : suggestions'[i] = suggestions[i]
      /\ suggestions'[Len(suggestions) + 1] = new
  BY <1>1, <1>2, <1>3, AppendProperties
<1>5. Len(suggestions') <= MaxSuggestions
  BY <1>2, <1>3, <1>4, EngineAssumption DEF EngineAssumption
<1> QED
  BY <1>4, <1>5 DEF Enqueue, MarkEmit, new

\* Accepting changes nothing of a suggestion but its status.
LEMMA Accepted ==
  ASSUME TypeInv, Accept
  PROVE  /\ suggestions' \in Seq(Suggestion)
         /\ Len(suggestions') = Len(suggestions)
         /\ \A i \in 1..Len(suggestions) :
                /\ suggestions'[i].ts = suggestions[i].ts
                /\ suggestions'[i].age = suggestions[i].age
                /\ suggestions'[i].origin = suggestions[i].origin
                /\ suggestions'[i].session = suggestions[i].session
<1>1. PICK k \in 1..Len(suggestions) :
          suggestions' = [suggestions EXCEPT ![k].status = "accepted"]
  BY DEF Accept
<1> DEFINE new == [suggestions[k] EXCEPT !.status = "accepted"]
<1>2. suggestions \in Seq(Suggestion)
  BY DEF TypeInv, TypeOK
<1>3. suggestions[k] \in Suggestion
  BY <1>2
<1>4. /\ new \in Suggestion
      /\ new.ts = suggestions[k].ts /\ new.age = suggestions[k].age
      /\ new.origin = suggestions[k].origin /\ new.session = suggestions[k].session
  BY <1>3 DEF Suggestion
<1>5. suggestions' = [suggestions EXCEPT ![k] = new]
  BY <1>1
<1> HIDE DEF new
<1>6. /\ suggestions' \in Seq(Suggestion)
      /\ Len(suggestions') = Len(suggestions)
      /\ \A i \in 1..Len(suggestions) :
             suggestions'[i] = IF i = k THEN new ELSE suggestions[i]
  BY <1>2, <1>4, <1>5, ExceptSeq
<1> QED
  BY <1>4, <1>6

-----------------------------------------------------------------------------
LEMMA TypeInductive == ASSUME TypeInv, [Next]_vars PROVE TypeInv'
<1> USE EngineAssumption DEF EngineAssumption
<1>1. ASSUME NEW c \in Owners, StartRoom(c) PROVE TypeInv'
  <2>1. running' \in BOOLEAN
    BY <1>1 DEF StartRoom, Reset
  <2>2. mine' \in [Owners -> 0..MaxSessions] /\ session' \in 0..MaxSessions /\ session' # 0
    BY <1>1 DEF StartRoom, Reset, TypeInv, TypeOK
  <2>3. Begun'
    BY <1>1, <2>2 DEF StartRoom, Reset, TypeInv, TypeOK, Begun
  <2> QED
    BY <1>1, <2>1, <2>2, <2>3 DEF StartRoom, Reset, TypeInv, TypeOK
<1>2. ASSUME NEW c \in Owners, StartFails(c) \/ Closed(c) PROVE TypeInv'
  BY <1>2 DEF StartFails, Closed, TypeInv, TypeOK, Begun, timeVars
<1>11. ASSUME NEW c \in Owners, StartSucceeds(c) PROVE TypeInv'
  <2>1. Begun'
    BY <1>11 DEF StartSucceeds, TypeInv, TypeOK, Begun, timeVars
  <2> QED
    BY <1>11, <2>1 DEF StartSucceeds, TypeInv, TypeOK, timeVars
<1>12. ASSUME NEW c \in Owners, NEW ended, AfterReap(c, ended)
       PROVE  /\ stopRaised' \in BOOLEAN /\ link' \in {0, link}
              /\ schedTask' \in Loops \cup {None}
              /\ at' \in [Owners -> {"idle", "starting", "reaping", "closing"}]
              /\ \A d \in Owners : at'[d] = "starting" => at[d] = "starting"
  <2>1. stopRaised' \in BOOLEAN /\ link' \in {0, link}
    BY <1>12 DEF AfterReap
  <2> QED
    BY <1>12, <2>1 DEF AfterReap, TypeInv, TypeOK
<1>13. ASSUME NEW c \in Owners, Stop(c) PROVE TypeInv'
  <2>1. running' \in BOOLEAN
    BY <1>13 DEF Stop
  <2>2. CASE SchedLive
    <3>1. UNCHANGED <<stopRaised, session, link, schedTask, mine, timeVars>>
      BY <1>13, <2>2 DEF Stop
    <3>2. /\ loop' \in [Loops -> {"none", "created", "sleeping", "cancelled", "done", "failed"}]
          /\ session # 0
      BY <1>13, <2>2 DEF Stop, SchedLive, Live, TypeInv, TypeOK, Begun
    <3>3. /\ waitsFor' = [waitsFor EXCEPT ![c] = schedTask]
          /\ at' = [at EXCEPT ![c] = "reaping"]
      BY <1>13, <2>2 DEF Stop
    <3>4. waitsFor' \in [Owners -> Loops \cup {None}]
      BY <3>3 DEF TypeInv, TypeOK
    <3>5. /\ at' \in [Owners -> {"idle", "starting", "reaping", "closing"}]
          /\ \A d \in Owners : at'[d] = "starting" => at[d] = "starting"
      BY <3>3 DEF TypeInv, TypeOK
    <3> QED
      BY <2>1, <3>1, <3>2, <3>4, <3>5 DEF TypeInv, TypeOK, Begun, timeVars
  <2>3. CASE ~SchedLive
    <3>1. AfterReap(c, Ended(schedTask)) /\ UNCHANGED <<session, loop, mine, waitsFor, timeVars>>
      BY <1>13, <2>3 DEF Stop
    <3> QED
      BY <2>1, <3>1, <1>12 DEF TypeInv, TypeOK, Begun, timeVars
  <2> QED BY <2>2, <2>3
<1>3. ASSUME NEW c \in Owners, Reaped(c) PROVE TypeInv'
  <2>1. /\ AfterReap(c, loop[waitsFor[c]])
        /\ UNCHANGED <<running, session, loop, mine, timeVars>>
        /\ waitsFor' = [waitsFor EXCEPT ![c] = None]
    BY <1>3 DEF Reaped
  <2> QED
    BY <2>1, <1>12 DEF TypeInv, TypeOK, Begun, timeVars
<1>4. CASE Ingest
  <2>1. [origin |-> link, latest |-> clock + MaxDelay] \in Delayed
    BY <1>4 DEF Ingest, TypeInv, TypeOK, Delayed
  <2> QED
    BY <1>4, <2>1 DEF Ingest, TypeInv, TypeOK, Begun, taskVars
<1>5. ASSUME NEW p \in pending, DelayedEnqueue(p) PROVE TypeInv'
  <2>1. p.origin \in 1..MaxSessions /\ session # 0
    BY DEF TypeInv, TypeOK, Begun, Delayed
  <2>2. CASE Enqueue(p.origin)
    BY <1>5, <2>1, <2>2, Enqueued DEF DelayedEnqueue, TypeInv, TypeOK, Begun, taskVars
  <2>3. CASE UNCHANGED <<lastEmit, suggestions>>
    BY <1>5, <2>3 DEF DelayedEnqueue, TypeInv, TypeOK, Begun, taskVars
  <2> QED
    BY <1>5, <2>2, <2>3 DEF DelayedEnqueue
<1>6. ASSUME NEW l \in Loops, LoopRound(l) PROVE TypeInv'
  <2>1. session \in 1..MaxSessions /\ session # 0
    BY <1>6 DEF LoopRound, TypeInv, TypeOK, Begun
  <2>2. CASE Enqueue(session)
    BY <1>6, <2>1, <2>2, Enqueued DEF LoopRound, TypeInv, TypeOK, Begun
  <2>3. CASE UNCHANGED <<lastEmit, suggestions>>
    BY <1>6, <2>1, <2>3 DEF LoopRound, TypeInv, TypeOK, Begun
  <2> QED
    BY <1>6, <2>2, <2>3 DEF LoopRound
<1>7. ASSUME NEW l \in Loops, LoopBegins(l) \/ LoopRaises(l) \/ LoopCancelled(l) PROVE TypeInv'
  BY <1>7 DEF LoopBegins, LoopRaises, LoopCancelled, TypeInv, TypeOK, Begun, timeVars
<1>8. CASE Accept
  BY <1>8, Accepted DEF Accept, MarkEmit, TypeInv, TypeOK, Begun, taskVars
<1>9. CASE Tick
  BY <1>9 DEF Tick, TypeInv, TypeOK, Begun, taskVars
<1>10. CASE UNCHANGED vars
  BY <1>10 DEF vars, TypeInv, TypeOK, Begun
<1> QED
  BY <1>1, <1>2, <1>3, <1>4, <1>5, <1>6, <1>7, <1>8, <1>9, <1>10,
     <1>11, <1>13 DEF Next

LEMMA InitTyped == ASSUME Init PROVE TypeInv
<1>1. running \in BOOLEAN /\ stopRaised \in BOOLEAN
  BY Zenon DEF Init
<1>2. suggestions \in Seq(Suggestion) /\ Len(suggestions) = 0
  BY DEF Init
<1> QED
  BY <1>1, <1>2, EngineAssumption DEF EngineAssumption, Init, TypeInv, TypeOK, Begun

LEMMA TypeInvariant == Spec => []TypeInv
  BY InitTyped, TypeInductive, PTL DEF Spec

\* Every variable of the engine keeps its type, the list of suggestions and its
\* time stamps included.
THEOREM TypeCorrect == Spec => []TypeOK
<1>1. TypeInv => TypeOK
  BY DEF TypeInv
<1> QED
  BY <1>1, TypeInvariant, PTL
-----------------------------------------------------------------------------
\* The time of the last emission bounds the suggestions of the running session.
Emitted ==
    /\ lastEmit # None => lastEmit <= clock
    /\ \A i \in 1..Len(suggestions) :
        /\ suggestions[i].session <= session
        /\ suggestions[i].session = session
               => lastEmit # None /\ suggestions[i].ts <= lastEmit

GapInv == TypeInv /\ Emitted /\ GapKept

\* The times and the sessions are numbers.
Numbers ==
    /\ clock \in Nat /\ session \in Nat /\ startedAt \in Nat
    /\ lastEmit # None => lastEmit \in Nat
    /\ \A i \in 1..Len(suggestions) :
           suggestions[i].ts \in Nat /\ suggestions[i].session \in Nat

LEMMA NumbersTyped == ASSUME TypeInv PROVE Numbers /\ clock # None
<1>1. \A i \in 1..Len(suggestions) : suggestions[i] \in Suggestion
  BY DEF TypeInv, TypeOK
<1>2. \A i \in 1..Len(suggestions) :
           suggestions[i].ts \in Nat /\ suggestions[i].session \in Nat
  BY <1>1, EngineAssumption DEF EngineAssumption, Suggestion
<1>3. clock \in Nat /\ session \in Nat /\ startedAt \in Nat /\ (lastEmit # None => lastEmit \in Nat)
  BY EngineAssumption DEF EngineAssumption, TypeInv, TypeOK
<1> QED
  BY <1>2, <1>3, EngineAssumption DEF EngineAssumption, Numbers

\* A suggestion made when gap_ok() holds keeps its distance.
LEMMA EnqueueKeepsGap ==
  ASSUME GapInv, NEW o \in 1..MaxSessions, session # 0, GapOk, Enqueue(o),
         UNCHANGED <<clock, session>>
  PROVE  Emitted' /\ GapKept'
<1> USE EngineAssumption DEF EngineAssumption
<1> DEFINE n == Len(suggestions)
<1>1. /\ n \in Nat /\ Len(suggestions') = n + 1
      /\ \A i \in 1..n : suggestions'[i] = suggestions[i]
      /\ suggestions'[n + 1].ts = clock /\ suggestions'[n + 1].session = session
      /\ lastEmit' = clock
  <2>1. TypeInv /\ n \in Nat
    BY DEF GapInv, TypeInv, TypeOK
  <2>2. /\ Len(suggestions') = n + 1 /\ lastEmit' = clock
        /\ \A i \in 1..n : suggestions'[i] = suggestions[i]
        /\ suggestions'[Len(suggestions')] =
                [ts |-> clock, age |-> clock - startedAt, origin |-> o,
                 session |-> session, status |-> "queued"]
    BY <2>1, Enqueued
  <2> QED BY <2>1, <2>2
<1>2. Numbers /\ clock # None
  BY NumbersTyped DEF GapInv
<1>3. \A i \in 1..n : suggestions[i].session = session
                          => clock - suggestions[i].ts >= MinGap
  BY <1>2 DEF Numbers, GapInv, Emitted, GapOk
<1>4. \A i \in 1..n : suggestions[i].session <= session
                      /\ (suggestions[i].session = session => suggestions[i].ts <= clock)
  BY <1>2 DEF Numbers, GapInv, Emitted
<1>5. Emitted'
  BY <1>1, <1>2, <1>4 DEF Numbers, Emitted
<1>6. GapKept'
  <2> SUFFICES ASSUME NEW i \in 1..(n + 1), NEW j \in 1..(n + 1), i < j,
                      suggestions'[i].session = suggestions'[j].session
               PROVE  suggestions'[j].ts - suggestions'[i].ts >= MinGap
    BY <1>1 DEF GapKept
  <2>1. i \in 1..n
    BY <1>1
  <2>2. CASE j = n + 1
    BY <1>1, <1>3, <2>1, <2>2
  <2>3. CASE j \in 1..n
    BY <1>1, <2>1, <2>3 DEF GapInv, GapKept
  <2> QED BY <1>1, <2>2, <2>3
<1> QED BY <1>5, <1>6

LEMMA GapInductive == ASSUME GapInv, [Next]_vars PROVE Emitted' /\ GapKept'
<1> USE EngineAssumption DEF EngineAssumption
<1>1. Numbers /\ clock # None
  BY NumbersTyped DEF GapInv
<1>2. ASSUME NEW c \in Owners, StartRoom(c) PROVE Emitted' /\ GapKept'
  BY <1>1, <1>2 DEF Numbers, StartRoom, Reset, GapInv, Emitted, GapKept
<1>3. ASSUME UNCHANGED <<session, clock, lastEmit, suggestions>>
      PROVE  Emitted' /\ GapKept'
  BY <1>3 DEF GapInv, Emitted, GapKept
<1>4. ASSUME NEW c \in Owners, StartFails(c) \/ StartSucceeds(c) \/ Closed(c)
      PROVE  UNCHANGED <<session, clock, lastEmit, suggestions>>
  BY <1>4 DEF StartFails, StartSucceeds, Closed, timeVars
<1>5. ASSUME NEW c \in Owners, Stop(c) \/ Reaped(c)
      PROVE  UNCHANGED <<session, clock, lastEmit, suggestions>>
  BY <1>5 DEF Stop, Reaped, timeVars
<1>6. ASSUME NEW l \in Loops, LoopBegins(l) \/ LoopRaises(l) \/ LoopCancelled(l)
      PROVE  UNCHANGED <<session, clock, lastEmit, suggestions>>
  BY <1>6 DEF LoopBegins, LoopRaises, LoopCancelled, timeVars
<1>7. CASE Ingest
  BY <1>3, <1>7 DEF Ingest, taskVars
<1>8. ASSUME NEW p \in pending, DelayedEnqueue(p) PROVE Emitted' /\ GapKept'
  <2>1. p.origin \in 1..MaxSessions /\ session # 0
    BY DEF GapInv, TypeInv, TypeOK, Begun, Delayed
  <2>2. UNCHANGED <<clock, session>>
    BY <1>8 DEF DelayedEnqueue, taskVars
  <2> QED
    BY <1>3, <1>8, <2>1, <2>2, EnqueueKeepsGap DEF DelayedEnqueue
<1>9. ASSUME NEW l \in Loops, LoopRound(l) PROVE Emitted' /\ GapKept'
  <2>1. session \in 1..MaxSessions /\ session # 0 /\ UNCHANGED <<clock, session>>
    BY <1>9 DEF LoopRound, GapInv, TypeInv, TypeOK, Begun
  <2> QED
    BY <1>3, <1>9, <2>1, EnqueueKeepsGap DEF LoopRound
<1>10. CASE Accept
  <2>1. UNCHANGED <<clock, session>> /\ lastEmit' = clock
    BY <1>10 DEF Accept, MarkEmit, taskVars
  <2>2. /\ Len(suggestions') = Len(suggestions)
        /\ \A i \in 1..Len(suggestions) :
               /\ suggestions'[i].ts = suggestions[i].ts
               /\ suggestions'[i].session = suggestions[i].session
    BY <1>10, Accepted DEF GapInv
  <2>3. Emitted'
    BY <1>1, <2>1, <2>2 DEF Numbers, GapInv, Emitted
  <2>4. GapKept'
    BY <2>2 DEF GapInv, GapKept
  <2> QED BY <2>3, <2>4
<1>11. CASE Tick
  BY <1>1, <1>11 DEF Numbers, Tick, taskVars, GapInv, Emitted, GapKept
<1>12. CASE UNCHANGED vars
  BY <1>3, <1>12 DEF vars
<1> QED
  BY <1>2, <1>3, <1>4, <1>5, <1>6, <1>7, <1>8, <1>9, <1>10, <1>11, <1>12 DEF Next

\* Whoever starts, stops and accepts, in whatever order, two suggestions of a
\* session are at least min_gap_sec apart: both ways to enqueue look at gap_ok()
\* in the step that enqueues.
THEOREM GapTheorem == Spec => []GapKept
<1>1. Init => GapInv
  <2> SUFFICES ASSUME Init PROVE Emitted /\ GapKept /\ TypeInv
    BY DEF GapInv
  <2>1. Emitted /\ GapKept
    BY DEF Init, Emitted, GapKept
  <2> QED BY <2>1, InitTyped
<1>2. GapInv /\ [Next]_vars => GapInv'
  BY TypeInductive, GapInductive DEF GapInv
<1>3. GapInv => GapKept
  BY DEF GapInv
<1> QED
  BY <1>1, <1>2, <1>3, PTL DEF Spec
-----------------------------------------------------------------------------
\* What an owner's position says of a tidy engine: the calls come one after the
\* other, a start finds no task and no connection.
Held(c) ==
    /\ at[c] # "idle" => \A d \in Owners : d # c => at[d] = "idle"
    /\ at[c] = "starting" => running /\ schedTask = None /\ link = 0 /\ mine[c] = session
    /\ at[c] = "reaping" => waitsFor[c] = schedTask /\ schedTask # None /\ ~running
    /\ at[c] = "closing" => schedTask = None /\ link = 0 /\ ~running

Control ==
    /\ \A c \in Owners : Held(c)
    /\ OneLoop
    /\ link # 0 => schedTask # None
    /\ ~running /\ ~stopRaised /\ (\A c \in Owners : at[c] = "idle") => schedTask = None

ControlInv == TypeInv /\ Control

\* Steps that leave the tasks of the engine alone, or only end a loop.
LEMMA LoopsEnd ==
  ASSUME ControlInv, UNCHANGED <<running, session, schedTask, link, at, mine,
                                 waitsFor, stopRaised>>,
         \A l \in Loops : Live(l)' => Live(l)
  PROVE  Control'
BY DEF ControlInv, Control, Held, OneLoop

LEMMA ControlInductive == ASSUME Tidy, ControlInv, [Next]_vars PROVE Control'
<1> USE EngineAssumption DEF EngineAssumption
<1>1. /\ at \in [Owners -> {"idle", "starting", "reaping", "closing"}]
      /\ loop \in [Loops -> {"none", "created", "sleeping", "cancelled", "done", "failed"}]
      /\ waitsFor \in [Owners -> Loops \cup {None}]
      /\ mine \in [Owners -> 0..MaxSessions]
      /\ schedTask \in Loops \cup {None}
  BY DEF ControlInv, TypeInv, TypeOK
<1>2. ASSUME NEW c \in Owners, StartRoom(c) PROVE Control'
  <2>1. /\ \A d \in Owners : at[d] = "idle"
        /\ link = 0 /\ schedTask = None
        /\ running' /\ session' = session + 1
        /\ mine' = [mine EXCEPT ![c] = session + 1]
        /\ at' = [at EXCEPT ![c] = "starting"]
        /\ UNCHANGED <<schedTask, loop, link, waitsFor>>
    BY <1>2 DEF StartRoom, Reset, MayStart
  <2>2. \A d \in Owners : Held(d)'
    BY <1>1, <2>1 DEF Held
  <2> QED
    BY <2>1, <2>2 DEF ControlInv, Control, OneLoop, Live
<1>3. ASSUME NEW c \in Owners, StartFails(c) \/ Closed(c) PROVE Control'
  <2>1. /\ at[c] = "starting" \/ at[c] = "closing"
        /\ at' = [at EXCEPT ![c] = "idle"]
        /\ UNCHANGED <<running, session, schedTask, loop, link, mine, waitsFor, stopRaised>>
    BY <1>3 DEF StartFails, Closed
  <2>2. schedTask = None /\ link = 0
    BY <2>1 DEF ControlInv, Control, Held
  <2>3. \A d \in Owners : Held(d)'
    BY <1>1, <2>1 DEF ControlInv, Control, Held
  <2> QED
    BY <2>1, <2>2, <2>3 DEF ControlInv, Control, OneLoop, Live
<1>4. ASSUME NEW c \in Owners, StartSucceeds(c) PROVE Control'
  <2>1. PICK l \in Loops :
            loop' = [loop EXCEPT ![l] = "created"] /\ schedTask' = l
    BY <1>4 DEF StartSucceeds
  <2>2. /\ at[c] = "starting" /\ at' = [at EXCEPT ![c] = "idle"]
        /\ UNCHANGED <<running, session, mine, waitsFor, stopRaised>>
    BY <1>4 DEF StartSucceeds
  <2>3. running /\ schedTask = None /\ \A d \in Owners : d # c => at[d] = "idle"
    BY <2>2 DEF ControlInv, Control, Held
  <2>4. \A d \in Owners : at'[d] = "idle"
    BY <1>1, <2>2, <2>3
  <2>5. OneLoop'
    BY <1>1, <2>1, <2>3 DEF ControlInv, Control, OneLoop, Live
  <2> QED
    BY <2>1, <2>2, <2>3, <2>4, <2>5 DEF Control, Held
<1>5. ASSUME NEW c \in Owners, NEW ended, AfterReap(c, ended),
             UNCHANGED <<session, loop, mine>>, ~running', ~SchedLive,
             \A d \in Owners : d # c => at[d] = "idle"
      PROVE  Control'
  <2>1. \A d \in Owners : d # c => at'[d] = "idle"
    BY <1>1, <1>5 DEF AfterReap
  <2>2. \A l \in Loops : ~Live(l)'
    BY <1>5 DEF ControlInv, Control, OneLoop, SchedLive, Live
  <2>3. CASE ended = "failed"
    <3>1. /\ at' = [at EXCEPT ![c] = "idle"] /\ stopRaised'
          /\ UNCHANGED <<schedTask, link>>
      BY <1>5, <2>3 DEF AfterReap
    <3>2. \A d \in Owners : at'[d] = "idle"
      BY <1>1, <2>1, <3>1
    <3> QED
      BY <2>2, <3>1, <3>2 DEF ControlInv, Control, Held, OneLoop
  <2>4. CASE ended # "failed"
    <3>1. at'[c] = "closing" /\ schedTask' = None /\ link' = 0
      BY <1>1, <1>5, <2>4 DEF AfterReap
    <3>2. \A d \in Owners : Held(d)'
      BY <1>5, <2>1, <3>1 DEF Held
    <3> QED
      BY <2>2, <3>1, <3>2 DEF Control, OneLoop
  <2> QED BY <2>3, <2>4
<1>6. ASSUME NEW c \in Owners, Stop(c) PROVE Control'
  <2>1. /\ \A d \in Owners : at[d] = "idle"
        /\ ~running' /\ UNCHANGED <<session, mine>>
    BY <1>6 DEF Stop, MayStop
  <2>2. CASE SchedLive
    <3>1. /\ loop' = [loop EXCEPT ![schedTask] = "cancelled"]
          /\ waitsFor' = [waitsFor EXCEPT ![c] = schedTask]
          /\ at' = [at EXCEPT ![c] = "reaping"]
          /\ UNCHANGED <<schedTask, link, stopRaised>>
      BY <1>6, <2>2 DEF Stop
    <3>2. schedTask \in Loops /\ schedTask # None
      BY <1>1, <2>2 DEF SchedLive
    <3>3. OneLoop'
      BY <1>1, <3>1, <3>2, <2>2 DEF ControlInv, Control, OneLoop, SchedLive, Live
    <3>4. at'[c] = "reaping" /\ \A d \in Owners : d # c => at'[d] = "idle"
      BY <1>1, <2>1, <3>1
    <3>5. \A d \in Owners : Held(d)'
      BY <1>1, <2>1, <3>1, <3>2, <3>4 DEF Held
    <3> QED
      BY <3>1, <3>2, <3>3, <3>4, <3>5 DEF Control
  <2>3. CASE ~SchedLive
    BY <1>5, <1>6, <2>1, <2>3 DEF Stop
  <2> QED BY <2>2, <2>3
<1>7. ASSUME NEW c \in Owners, Reaped(c) PROVE Control'
  <2>1. /\ at[c] = "reaping" /\ ~Live(waitsFor[c])
        /\ AfterReap(c, loop[waitsFor[c]])
        /\ UNCHANGED <<running, session, loop, mine>>
    BY <1>7 DEF Reaped
  <2>2. /\ waitsFor[c] = schedTask /\ ~running
        /\ \A d \in Owners : d # c => at[d] = "idle"
    BY <2>1 DEF ControlInv, Control, Held
  <2>3. ~SchedLive /\ ~running'
    BY <2>1, <2>2 DEF SchedLive
  <2> QED BY <1>5, <2>1, <2>2, <2>3
<1>8. CASE Ingest \/ Accept \/ Tick \/ \E p \in pending : DelayedEnqueue(p)
  BY <1>8, LoopsEnd DEF Ingest, Accept, Tick, DelayedEnqueue, taskVars, Live
<1>9. ASSUME NEW l \in Loops, LoopRound(l) PROVE Control'
  <2>1. loop[l] = "sleeping" /\ loop' \in {loop, [loop EXCEPT ![l] = "done"]}
    BY <1>1, <1>9 DEF LoopRound
  <2>2. \A k \in Loops : Live(k)' => Live(k)
    BY <1>1, <2>1 DEF Live
  <2> QED
    BY <1>9, <2>2, LoopsEnd DEF LoopRound
<1>10. ASSUME NEW l \in Loops, LoopBegins(l) \/ LoopRaises(l) \/ LoopCancelled(l) PROVE Control'
  <2>1. \A k \in Loops : Live(k)' => Live(k)
    BY <1>1, <1>10 DEF LoopBegins, LoopRaises, LoopCancelled, Live
  <2> QED
    BY <1>10, <2>1, LoopsEnd DEF LoopBegins, LoopRaises, LoopCancelled
<1>11. CASE UNCHANGED vars
  BY <1>11, LoopsEnd DEF vars, Live
<1> QED
  BY <1>2, <1>3, <1>4, <1>6, <1>7, <1>8, <1>9, <1>10, <1>11 DEF Next

LEMMA ControlInvariant == ASSUME Tidy PROVE Spec => []ControlInv
<1>1. Init => ControlInv
  <2> SUFFICES ASSUME Init PROVE TypeInv /\ Control
    BY DEF ControlInv
  <2>1. Control
    BY EngineAssumption DEF EngineAssumption, Init, Control, Held, OneLoop, Live
  <2> QED BY <2>1, InitTyped
<1>2. ControlInv /\ [Next]_vars => ControlInv'
  BY TypeInductive, ControlInductive DEF ControlInv
<1> QED
  BY <1>1, <1>2, PTL DEF Spec

\* Of an engine that is started only when stopped, one call after the other,
\* there is never a scheduler loop that stop() would not find.
THEOREM OneLoopTheorem == ASSUME Tidy PROVE Spec => []OneLoop
<1>1. ControlInv => OneLoop
  BY DEF ControlInv, Control
<1> QED
  BY <1>1, ControlInvariant, PTL

\* And after a stop() that did not raise, nothing of it runs.
THEOREM StopTheorem == ASSUME Tidy PROVE Spec => []StopIsCompleteOrRaises
<1>1. ControlInv => StopIsCompleteOrRaises
  <2> SUFFICES ASSUME ControlInv, ~stopRaised, ~running,
                      \A c \in Owners : at[c] = "idle"
               PROVE  link = 0 /\ \A l \in Loops : ~Live(l)
    BY DEF StopIsCompleteOrRaises, StopIsComplete
  <2>1. schedTask = None
    BY DEF ControlInv, Control
  <2> QED
    BY <2>1, EngineAssumption DEF EngineAssumption, ControlInv, Control, OneLoop
<1> QED
  BY <1>1, ControlInvariant, PTL
-----------------------------------------------------------------------------
\* A sleeping task of an earlier session wakes up before the new session may
\* speak; one of the running session fell asleep after the cold start.
Sleeper(p) ==
    /\ clock <= p.latest /\ p.latest <= clock + MaxDelay /\ p.origin <= session
    /\ p.origin # session => p.latest <= startedAt + MaxDelay
    /\ p.origin = session => ColdOver

Silent ==
    /\ link # 0 => link = session
    /\ lastEmit # None => startedAt <= lastEmit
    /\ \A p \in pending : Sleeper(p)

SaidInTime == \A i \in 1..Len(suggestions) :
    suggestions[i].age >= ColdStart /\ suggestions[i].origin = suggestions[i].session

SilentInv == ControlInv /\ Silent /\ SaidInTime

\* The numbers the argument is about.
LEMMA DelayedTyped ==
  ASSUME TypeInv
  PROVE  /\ clock \in Nat /\ startedAt \in Nat /\ session \in Nat /\ link \in Nat
         /\ startedAt <= clock /\ clock # None
         /\ lastEmit # None => lastEmit \in Nat
         /\ \A p \in pending : p.latest \in Nat /\ p.origin \in Nat
<1>1. \A p \in pending : p.latest \in Nat /\ p.origin \in Nat
  BY EngineAssumption DEF EngineAssumption, TypeInv, TypeOK, Delayed
<1> QED
  BY <1>1, NumbersTyped, EngineAssumption DEF EngineAssumption, Numbers, TypeInv, TypeOK, Begun

\* A task that wakes up when the engine may speak belongs to the session.
LEMMA OwnSleeper ==
  ASSUME Patient, TypeInv, Silent, NEW p \in pending, GapOk
  PROVE  p.origin = session /\ ColdOver
<1> USE EngineAssumption DEF EngineAssumption
<1>1. Sleeper(p)
  BY DEF Silent
<1>2. p.latest \in Nat /\ p.origin \in Nat
  BY DelayedTyped
<1>3. CASE p.origin # session
  <2>1. clock - startedAt <= MaxDelay
    BY <1>1, <1>2, <1>3, DelayedTyped DEF Sleeper
  <2>2. lastEmit # None => clock - lastEmit <= MaxDelay
    BY <2>1, DelayedTyped DEF Silent
  <2> QED
    BY <2>1, <2>2, DelayedTyped DEF GapOk, ColdOver, Patient
<1>4. CASE p.origin = session
  BY <1>1, <1>4 DEF Sleeper
<1> QED BY <1>3, <1>4

LEMMA EnqueueInTime ==
  ASSUME TypeInv, SaidInTime, session \in 1..MaxSessions, ColdOver, Enqueue(session)
  PROVE  SaidInTime'
<1> DEFINE n == Len(suggestions)
<1>1. n \in Nat
  BY DEF TypeInv, TypeOK
<1>2. session # 0
  OBVIOUS
<1>3. /\ Len(suggestions') = n + 1
      /\ \A i \in 1..n : suggestions'[i] = suggestions[i]
      /\ suggestions'[Len(suggestions')] =
                [ts |-> clock, age |-> clock - startedAt, origin |-> session,
                 session |-> session, status |-> "queued"]
  BY <1>2, Enqueued
<1>4. suggestions'[n + 1].age >= ColdStart
      /\ suggestions'[n + 1].origin = suggestions'[n + 1].session
  BY <1>3 DEF ColdOver
<1> QED
  BY <1>1, <1>3, <1>4 DEF SaidInTime

LEMMA SilentInductive ==
  ASSUME Tidy, Patient, SilentInv, [Next]_vars PROVE Silent' /\ SaidInTime'
<1> USE EngineAssumption DEF EngineAssumption
<1>1. TypeInv /\ Control
  BY DEF SilentInv, ControlInv
<1>2. ASSUME NEW c \in Owners, StartRoom(c) PROVE Silent' /\ SaidInTime'
  <2>1. /\ session' = session + 1 /\ startedAt' = clock /\ lastEmit' = None
        /\ link = 0 /\ UNCHANGED <<clock, link, pending, suggestions>>
    BY <1>1, <1>2 DEF StartRoom, Reset, MayStart
  <2>2. ASSUME NEW p \in pending PROVE Sleeper(p)'
    <3>1. Sleeper(p) /\ p.latest \in Nat /\ p.origin \in Nat
      BY <1>1, DelayedTyped DEF SilentInv, Silent
    <3>2. p.origin # session'
      BY <1>1, <2>1, <3>1, DelayedTyped DEF Sleeper
    <3> QED
      BY <1>1, <2>1, <3>1, <3>2, DelayedTyped DEF Sleeper
  <2> QED
    BY <2>1, <2>2 DEF SilentInv, Silent, SaidInTime
<1>3. ASSUME UNCHANGED <<session, link, timeVars>> PROVE Silent' /\ SaidInTime'
  BY <1>3 DEF timeVars, SilentInv, Silent, SaidInTime, Sleeper, ColdOver
<1>4. ASSUME UNCHANGED <<session, timeVars>>, link' \in {0, session}
      PROVE  Silent' /\ SaidInTime'
  BY <1>4 DEF timeVars, SilentInv, Silent, SaidInTime, Sleeper, ColdOver
<1>5. ASSUME NEW c \in Owners, StartFails(c) \/ Closed(c) PROVE Silent' /\ SaidInTime'
  BY <1>3, <1>5 DEF StartFails, Closed
<1>6. ASSUME NEW c \in Owners, StartSucceeds(c) PROVE Silent' /\ SaidInTime'
  <2>1. mine[c] = session
    BY <1>1, <1>6 DEF StartSucceeds, Control, Held
  <2> QED
    BY <1>4, <1>6, <2>1 DEF StartSucceeds
<1>7. ASSUME NEW c \in Owners, Stop(c) \/ Reaped(c) PROVE Silent' /\ SaidInTime'
  <2>1. link' \in {0, link} /\ UNCHANGED <<session, timeVars>>
    BY <1>7 DEF Stop, Reaped, AfterReap
  <2> QED
    BY <1>4, <2>1 DEF SilentInv, Silent
<1>8. ASSUME NEW l \in Loops, LoopBegins(l) \/ LoopRaises(l) \/ LoopCancelled(l)
      PROVE  Silent' /\ SaidInTime'
  BY <1>3, <1>8 DEF LoopBegins, LoopRaises, LoopCancelled
<1>9. ASSUME Silent, UNCHANGED <<session, link, clock, startedAt>>,
             lastEmit' \in {lastEmit, clock}, pending' \subseteq pending
      PROVE  Silent'
  BY <1>1, <1>9, DelayedTyped DEF Silent, Sleeper, ColdOver
<1>10. CASE Ingest
  <2>1. /\ link = session /\ ColdOver
        /\ pending' = pending \cup {[origin |-> link, latest |-> clock + MaxDelay]}
        /\ UNCHANGED <<session, link, clock, startedAt, lastEmit, suggestions>>
    BY <1>10 DEF Ingest, taskVars, SilentInv, Silent
  <2>2. Sleeper([origin |-> link, latest |-> clock + MaxDelay])
    BY <1>1, <2>1, DelayedTyped DEF Sleeper
  <2>3. \A p \in pending' : Sleeper(p)
    BY <2>1, <2>2 DEF SilentInv, Silent
  <2>4. \A p \in pending' : Sleeper(p)'
    BY <2>1, <2>3 DEF Sleeper, ColdOver
  <2> QED
    BY <2>1, <2>4 DEF SilentInv, Silent, SaidInTime
<1>11. ASSUME NEW p \in pending, DelayedEnqueue(p) PROVE Silent' /\ SaidInTime'
  <2>1. /\ UNCHANGED <<session, link, clock, startedAt>> /\ pending' \subseteq pending
    BY <1>11 DEF DelayedEnqueue, taskVars
  <2>2. CASE UNCHANGED <<lastEmit, suggestions>>
    BY <1>9, <2>1, <2>2 DEF SilentInv, SaidInTime
  <2>3. CASE GapOk /\ Enqueue(p.origin)
    <3>1. p.origin = session /\ ColdOver
      BY <1>1, <2>3, OwnSleeper DEF SilentInv
    <3>2. session \in 1..MaxSessions
      BY <1>1, <3>1 DEF TypeInv, TypeOK, Delayed
    <3>3. SaidInTime'
      BY <1>1, <2>3, <3>1, <3>2, EnqueueInTime DEF SilentInv
    <3> QED
      BY <1>9, <2>1, <2>3, <3>3 DEF SilentInv, Enqueue, MarkEmit
  <2> QED
    BY <1>11, <2>2, <2>3 DEF DelayedEnqueue
<1>12. ASSUME NEW l \in Loops, LoopRound(l) PROVE Silent' /\ SaidInTime'
  <2>1. UNCHANGED <<session, link, clock, startedAt, pending>>
    BY <1>12 DEF LoopRound
  <2>2. CASE UNCHANGED <<lastEmit, suggestions>>
    BY <1>9, <2>1, <2>2 DEF SilentInv, SaidInTime
  <2>3. CASE ColdOver /\ Enqueue(session)
    <3>1. session \in 1..MaxSessions
      BY <1>1, <1>12 DEF LoopRound, TypeInv, TypeOK, Begun
    <3>2. SaidInTime'
      BY <1>1, <2>3, <3>1, EnqueueInTime DEF SilentInv
    <3> QED
      BY <1>9, <2>1, <2>3, <3>2 DEF SilentInv, Enqueue, MarkEmit
  <2> QED
    BY <1>12, <2>2, <2>3 DEF LoopRound
<1>13. CASE Accept
  <2>1. UNCHANGED <<session, link, clock, startedAt, pending>> /\ lastEmit' = clock
    BY <1>13 DEF Accept, MarkEmit, taskVars
  <2>2. SaidInTime'
    BY <1>1, <1>13, Accepted DEF SilentInv, SaidInTime
  <2> QED
    BY <1>9, <2>1, <2>2 DEF SilentInv
<1>14. CASE Tick
  <2>1. /\ clock' = clock + 1 /\ \A p \in pending : clock < p.latest
        /\ UNCHANGED <<session, link, startedAt, lastEmit, pending, suggestions>>
    BY <1>14 DEF Tick, taskVars
  <2>2. ASSUME NEW p \in pending PROVE Sleeper(p)'
    <3>1. Sleeper(p) /\ p.latest \in Nat
      BY <1>1, DelayedTyped DEF SilentInv, Silent
    <3> QED
      BY <1>1, <2>1, <3>1, DelayedTyped DEF Sleeper, ColdOver
  <2> QED
    BY <2>1, <2>2 DEF SilentInv, Silent, SaidInTime
<1>15. CASE UNCHANGED vars
  BY <1>3, <1>15 DEF vars, timeVars
<1> QED
  BY <1>2, <1>5, <1>6, <1>7, <1>8, <1>10, <1>11, <1>12, <1>13, <1>14, <1>15 DEF Next

LEMMA SilentInvariant == ASSUME Tidy, Patient PROVE Spec => []SilentInv
<1>1. Init => Silent /\ SaidInTime
  BY EngineAssumption DEF EngineAssumption, Init, Silent, SaidInTime
<1>2. SilentInv /\ [Next]_vars => Silent' /\ SaidInTime'
  BY SilentInductive
<1> QED
  BY <1>1, <1>2, ControlInvariant, PTL DEF Spec, SilentInv

\* A session says nothing before its cold start is over, although tasks that
\* sleep survive the stop, the next start and whatever is accepted between.
THEOREM ColdStartTheorem == ASSUME Tidy PROVE Spec => []ColdStartSilent
<1>1. CASE Patient
  <2>1. SilentInv => ColdStartSilent
    BY DEF SilentInv, SaidInTime, ColdStartSilent
  <2> QED BY <1>1, <2>1, SilentInvariant, PTL
<1>2. CASE ~Patient
  <2>1. ColdStartSilent
    BY <1>2 DEF ColdStartSilent
  <2> QED BY <2>1, PTL
<1> QED BY <1>1, <1>2

\* And no suggestion answers an event of an earlier session's room.
THEOREM OwnRoomTheorem == ASSUME Tidy PROVE Spec => []OwnRoomOnly
<1>1. CASE Patient
  <2>1. SilentInv => OwnRoomOnly
    BY DEF SilentInv, SaidInTime, OwnRoomOnly
  <2> QED BY <1>1, <2>1, SilentInvariant, PTL
<1>2. CASE ~Patient
  <2>1. OwnRoomOnly
    BY <1>2 DEF OwnRoomOnly
  <2> QED BY <2>1, PTL
<1> QED BY <1>1, <1>2
-----------------------------------------------------------------------------
(* LiveEngine implements EngineLifecycle.                                  *)

\* What the phases rest on: an engine with a task has its connection, a loop that is
\* not cancelled runs in a running engine, a task that stop() waits for ends well,
\* one that failed stays where every stop() finds it, and the tasks that sleep from
\* this session need its connection.
Phased ==
    /\ schedTask # None => link # 0
    /\ \A l \in Loops : loop[l] \in {"created", "sleeping"} => running
    /\ \A c \in Owners : at[c] = "reaping" => loop[schedTask] \in {"cancelled", "done"}
    /\ ~running /\ link # 0 /\ (\A c \in Owners : at[c] = "idle")
           => loop[schedTask] = "failed"
    /\ \A p \in pending : p.origin = session => link # 0 \/ ~running

LEMMA PhasedInductive ==
  ASSUME Tidy, Patient, SilentInv, Phased, [Next]_vars PROVE Phased'
<1> USE EngineAssumption DEF EngineAssumption
<1>1. TypeInv /\ Control /\ Silent
  BY DEF SilentInv, ControlInv
<1>2. /\ at \in [Owners -> {"idle", "starting", "reaping", "closing"}]
      /\ loop \in [Loops -> {"none", "created", "sleeping", "cancelled", "done", "failed"}]
      /\ mine \in [Owners -> 0..MaxSessions]
      /\ schedTask \in Loops \cup {None} /\ session \in Nat
  BY <1>1, DelayedTyped DEF TypeInv, TypeOK
<1>3. ASSUME NEW c \in Owners, StartRoom(c) PROVE Phased'
  <2>1. /\ link = 0 /\ schedTask = None
        /\ running' /\ session' = session + 1
        /\ at' = [at EXCEPT ![c] = "starting"] /\ \A d \in Owners : at[d] = "idle"
        /\ UNCHANGED <<schedTask, loop, link, pending>>
    BY <1>3 DEF StartRoom, MayStart
  <2>2. \A p \in pending : p.origin # session'
    BY <1>1, <1>2, <2>1, DelayedTyped DEF Silent, Sleeper
  <2> QED BY <1>2, <2>1, <2>2 DEF Phased
<1>4. ASSUME NEW c \in Owners, StartFails(c) \/ Closed(c) PROVE Phased'
  <2>1. /\ at[c] \in {"starting", "closing"} /\ at' = [at EXCEPT ![c] = "idle"]
        /\ UNCHANGED <<running, session, schedTask, loop, link, pending>>
    BY <1>4 DEF StartFails, Closed, timeVars
  <2>2. link = 0
    BY <1>1, <2>1 DEF Control, Held
  <2> QED BY <1>2, <2>1, <2>2 DEF Phased
<1>5. ASSUME NEW c \in Owners, StartSucceeds(c) PROVE Phased'
  <2>1. PICK l \in Loops : loop' = [loop EXCEPT ![l] = "created"]
    BY <1>5 DEF StartSucceeds
  <2>2. /\ at[c] = "starting" /\ link' = mine[c] /\ at' = [at EXCEPT ![c] = "idle"]
        /\ UNCHANGED <<running, session, pending>>
    BY <1>5 DEF StartSucceeds, timeVars
  <2>3. running /\ mine[c] # 0 /\ \A d \in Owners : d # c => at[d] = "idle"
    BY <1>1, <2>2 DEF Control, Held, TypeInv, Begun
  <2> QED BY <1>2, <2>1, <2>2, <2>3 DEF Phased
<1>6. ASSUME NEW c \in Owners, NEW ended, AfterReap(c, ended), ~running',
             UNCHANGED <<session, loop, pending>>, ~SchedLive,
             \A d \in Owners : d # c => at[d] = "idle",
             ended = "failed" => schedTask # None /\ loop[schedTask] = "failed"
      PROVE  Phased'
  <2>1. \A l \in Loops : loop[l] \notin {"created", "sleeping"}
    BY <1>1, <1>6 DEF Control, OneLoop, SchedLive, Live
  <2>2. \A d \in Owners : at'[d] # "reaping"
    BY <1>2, <1>6 DEF AfterReap
  <2>3. CASE ended = "failed"
    BY <1>6, <2>1, <2>2, <2>3 DEF AfterReap, Phased
  <2>4. CASE ended # "failed"
    BY <1>6, <2>1, <2>2, <2>4 DEF AfterReap, Phased
  <2> QED BY <2>3, <2>4
<1>7. ASSUME NEW c \in Owners, Stop(c) PROVE Phased'
  <2>1. /\ ~running' /\ \A d \in Owners : at[d] = "idle"
        /\ UNCHANGED <<session, pending>>
    BY <1>7 DEF Stop, MayStop, timeVars
  <2>2. CASE SchedLive
    <3>1. /\ loop' = [loop EXCEPT ![schedTask] = "cancelled"]
          /\ at' = [at EXCEPT ![c] = "reaping"] /\ UNCHANGED <<schedTask, link>>
      BY <1>7, <2>2 DEF Stop
    <3>2. /\ schedTask \in Loops
          /\ \A l \in Loops : l # schedTask => loop[l] \notin {"created", "sleeping"}
      BY <1>1, <1>2, <2>2 DEF Control, OneLoop, SchedLive, Live
    <3> QED BY <1>2, <2>1, <3>1, <3>2 DEF Phased
  <2>3. CASE ~SchedLive
    <3>1. AfterReap(c, Ended(schedTask)) /\ loop' = loop
      BY <1>7, <2>3 DEF Stop
    <3>2. Ended(schedTask) = "failed" => schedTask # None /\ loop[schedTask] = "failed"
      BY DEF Ended
    <3> QED BY <1>6, <2>1, <2>3, <3>1, <3>2
  <2> QED BY <2>2, <2>3
<1>8. ASSUME NEW c \in Owners, Reaped(c) PROVE Phased'
  <2>1. /\ at[c] = "reaping" /\ ~Live(waitsFor[c])
        /\ AfterReap(c, loop[waitsFor[c]])
        /\ UNCHANGED <<running, session, loop, pending>>
    BY <1>8 DEF Reaped, timeVars
  <2>2. /\ waitsFor[c] = schedTask /\ schedTask # None /\ ~running
        /\ \A d \in Owners : d # c => at[d] = "idle"
    BY <1>1, <2>1 DEF Control, Held
  <2> QED BY <1>6, <2>1, <2>2 DEF SchedLive
<1>9. ASSUME UNCHANGED <<running, session, schedTask, loop, link, at>>,
             pending' \subseteq pending
      PROVE  Phased'
  BY <1>9 DEF Phased
<1>10. CASE Ingest
  <2>1. /\ link # 0 /\ UNCHANGED taskVars
    BY <1>10 DEF Ingest
  <2> QED BY <2>1 DEF Phased, taskVars
<1>11. CASE Accept \/ Tick \/ (\E p \in pending : DelayedEnqueue(p)) \/ UNCHANGED vars
  BY <1>9, <1>11 DEF Accept, Tick, DelayedEnqueue, taskVars, vars
<1>12. ASSUME NEW l \in Loops,
              LoopBegins(l) \/ LoopRound(l) \/ LoopRaises(l) \/ LoopCancelled(l)
       PROVE  Phased'
  <2>1. UNCHANGED <<running, session, schedTask, link, at, pending>>
    BY <1>12 DEF LoopBegins, LoopRound, LoopRaises, LoopCancelled, timeVars
  <2>2. Live(l) /\ schedTask = l
    BY <1>1, <1>12
    DEF LoopBegins, LoopRound, LoopRaises, LoopCancelled, Live, Control, OneLoop
  <2>3. CASE loop[l] \in {"created", "sleeping"}
    <3>1. running /\ \A c \in Owners : at[c] # "reaping"
      BY <2>2, <2>3 DEF Phased
    <3>2. loop' = [loop EXCEPT ![l] = "sleeping"] \/ loop' = [loop EXCEPT ![l] = "failed"]
      BY <1>12, <2>3, <3>1 DEF LoopBegins, LoopRound, LoopRaises, LoopCancelled
    <3> QED BY <1>2, <2>1, <2>2, <3>1, <3>2 DEF Phased
  <2>4. CASE loop[l] = "cancelled"
    <3>1. loop' = [loop EXCEPT ![l] = "done"]
      BY <1>12, <2>4 DEF LoopBegins, LoopRound, LoopRaises, LoopCancelled
    <3> QED BY <1>2, <2>1, <2>2, <2>4, <3>1 DEF Phased
  <2> QED BY <2>2, <2>3, <2>4 DEF Live
<1> QED
  BY <1>3, <1>4, <1>5, <1>7, <1>8, <1>10, <1>11, <1>12 DEF Next

\* Every step is one of EngineLifecycle, or it changes nothing that the host sees.
LEMMA LifecycleStep ==
  ASSUME Tidy, Patient, SilentInv, Phased, [Next]_vars
  PROVE  [Lifecycle!Next]_(Lifecycle!vars)
<1> USE EngineAssumption DEF EngineAssumption
<1> DEFINE Idle == \A d \in Owners : at[d] = "idle"
           Between == IF link = 0 THEN "closed" ELSE IF running THEN "open" ELSE "broken"
<1>1. TypeInv /\ Control /\ Silent
  BY DEF SilentInv, ControlInv
<1>2. /\ at \in [Owners -> {"idle", "starting", "reaping", "closing"}]
      /\ mine \in [Owners -> 0..MaxSessions] /\ schedTask \in Loops \cup {None}
      /\ suggestions \in Seq(Suggestion)
  BY <1>1 DEF TypeInv, TypeOK
<1>3. /\ Idle => Phase = Between
      /\ Idle' => Phase' = Between'
  BY DEF Phase
<1>4. ASSUME NEW c \in Owners, \A d \in Owners : d # c => at[d] = "idle"
      PROVE  /\ at[c] = "starting" => Phase = "starting"
             /\ at[c] \in {"reaping", "closing"} => Phase = "stopping"
  BY <1>4 DEF Phase
<1>5. ASSUME NEW c \in Owners, \A d \in Owners : d # c => at'[d] = "idle"
      PROVE  /\ at'[c] = "starting" => Phase' = "starting"
             /\ at'[c] \in {"reaping", "closing"} => Phase' = "stopping"
  BY <1>5 DEF Phase
<1>6. ASSUME UNCHANGED <<running, link, at>> PROVE Phase' = Phase
  BY <1>6 DEF Phase
<1> HIDE DEF Idle
<1> USE DEF Lifecycle!Next, Lifecycle!vars, Lifecycle!Move
<1>7. ASSUME NEW c \in Owners, StartRoom(c) PROVE Lifecycle!Next
  <2>1. /\ Idle /\ link = 0 /\ UNCHANGED suggestions
        /\ at' = [at EXCEPT ![c] = "starting"]
    BY <1>7 DEF StartRoom, MayStart, Idle
  <2>2. at'[c] = "starting" /\ \A d \in Owners : d # c => at'[d] = "idle"
    BY <1>2, <2>1 DEF Idle
  <2>3. Phase = "closed" /\ Phase' = "starting"
    BY <1>3, <1>5, <2>1, <2>2
  <2> QED BY <2>1, <2>3 DEF Lifecycle!StartRequested
<1>8. ASSUME NEW c \in Owners, StartFails(c) PROVE Lifecycle!Next
  <2>1. /\ at[c] = "starting" /\ at' = [at EXCEPT ![c] = "idle"]
        /\ UNCHANGED <<link, suggestions>>
    BY <1>8 DEF StartFails, timeVars
  <2>2. link = 0 /\ \A d \in Owners : d # c => at[d] = "idle"
    BY <1>1, <2>1 DEF Control, Held
  <2>3. Idle'
    BY <1>2, <2>1, <2>2 DEF Idle
  <2>4. Phase = "starting" /\ Phase' = "closed"
    BY <1>3, <1>4, <2>1, <2>2, <2>3
  <2> QED BY <2>1, <2>4 DEF Lifecycle!Refused
<1>9. ASSUME NEW c \in Owners, StartSucceeds(c) PROVE Lifecycle!Next
  <2>1. /\ at[c] = "starting" /\ at' = [at EXCEPT ![c] = "idle"]
        /\ link' = mine[c] /\ UNCHANGED <<running, suggestions>>
    BY <1>9 DEF StartSucceeds, timeVars
  <2>2. running /\ mine[c] # 0 /\ \A d \in Owners : d # c => at[d] = "idle"
    BY <1>1, <2>1 DEF Control, Held, TypeInv, Begun
  <2>3. Idle'
    BY <1>2, <2>1, <2>2 DEF Idle
  <2>4. Phase = "starting" /\ Phase' = "open"
    BY <1>3, <1>4, <2>1, <2>2, <2>3
  <2> QED BY <2>1, <2>4 DEF Lifecycle!Opened
<1>10. ASSUME NEW c \in Owners, NEW ended, AfterReap(c, ended), ~running', link' \in {0, link},
              \A d \in Owners : d # c => at[d] = "idle", UNCHANGED suggestions,
              ended # "failed" => Phase \in {"closed", "open", "stopping"},
              ended = "failed" => Phase \in {"open", "broken"} /\ link # 0
       PROVE  [Lifecycle!Next]_(Lifecycle!vars)
  <2>1. CASE ended = "failed"
    <3>1. at' = [at EXCEPT ![c] = "idle"] /\ link' = link
      BY <1>10, <2>1 DEF AfterReap
    <3>2. Idle'
      BY <1>2, <1>10, <3>1 DEF Idle
    <3>3. Phase' = "broken"
      BY <1>3, <1>10, <2>1, <3>1, <3>2
    <3> QED BY <1>10, <2>1, <3>3 DEF Lifecycle!StopRaises
  <2>2. CASE ended # "failed"
    <3>1. at'[c] = "closing" /\ \A d \in Owners : d # c => at'[d] = "idle"
      BY <1>2, <1>10, <2>2 DEF AfterReap
    <3>2. Phase' = "stopping"
      BY <1>5, <3>1
    <3> QED BY <1>10, <2>2, <3>2 DEF Lifecycle!StopRequested
  <2> QED BY <2>1, <2>2
<1>11. ASSUME NEW c \in Owners, Stop(c) PROVE [Lifecycle!Next]_(Lifecycle!vars)
  <2>1. /\ Idle /\ Phase = Between /\ ~running' /\ UNCHANGED suggestions
        /\ \A d \in Owners : d # c => at[d] = "idle"
    BY <1>3, <1>11 DEF Stop, MayStop, timeVars, Idle
  <2>2. CASE SchedLive
    <3>1. /\ schedTask # None /\ loop[schedTask] # "failed"
          /\ at'[c] = "reaping" /\ \A d \in Owners : d # c => at'[d] = "idle"
      BY <1>2, <1>11, <2>1, <2>2 DEF Stop, SchedLive, Live
    <3>2. Phase = "open"
      BY <2>1, <3>1 DEF Phased, Idle
    <3>3. Phase' = "stopping"
      BY <1>5, <3>1
    <3> QED BY <2>1, <3>2, <3>3 DEF Lifecycle!StopRequested
  <2>3. CASE ~SchedLive
    <3>1. AfterReap(c, Ended(schedTask)) /\ link' \in {0, link}
      BY <1>11, <2>3 DEF Stop, AfterReap
    <3>2. Ended(schedTask) = "failed" => link # 0 /\ Phase \in {"open", "broken"}
      BY <2>1 DEF Ended, Phased
    <3>3. Ended(schedTask) # "failed" => Phase \in {"closed", "open"}
      <4>1. link # 0 => schedTask # None
        BY <1>1 DEF Control
      <4> QED BY <2>1, <4>1 DEF Ended, Phased, Idle
    <3> QED BY <1>10, <2>1, <3>1, <3>2, <3>3
  <2> QED BY <2>2, <2>3
<1>12. ASSUME NEW c \in Owners, Reaped(c) PROVE [Lifecycle!Next]_(Lifecycle!vars)
  <2>1. /\ at[c] = "reaping" /\ ~Live(waitsFor[c])
        /\ AfterReap(c, loop[waitsFor[c]]) /\ link' \in {0, link}
        /\ UNCHANGED <<running, suggestions>>
    BY <1>12 DEF Reaped, AfterReap, timeVars
  <2>2. /\ waitsFor[c] = schedTask /\ ~running
        /\ \A d \in Owners : d # c => at[d] = "idle"
    BY <1>1, <2>1 DEF Control, Held
  <2>3. loop[waitsFor[c]] # "failed" /\ Phase = "stopping"
    BY <1>4, <2>1, <2>2 DEF Phased
  <2> QED BY <1>10, <2>1, <2>2, <2>3
<1>13. ASSUME NEW c \in Owners, Closed(c) PROVE Lifecycle!Next
  <2>1. /\ at[c] = "closing" /\ at' = [at EXCEPT ![c] = "idle"]
        /\ UNCHANGED <<link, suggestions>>
    BY <1>13 DEF Closed, timeVars
  <2>2. link = 0 /\ \A d \in Owners : d # c => at[d] = "idle"
    BY <1>1, <2>1 DEF Control, Held
  <2>3. Idle'
    BY <1>2, <2>1, <2>2 DEF Idle
  <2>4. Phase = "stopping" /\ Phase' = "closed"
    BY <1>3, <1>4, <2>1, <2>2, <2>3
  <2> QED BY <2>1, <2>4 DEF Lifecycle!Stopped
<1>14. ASSUME NEW o \in 1..MaxSessions, Enqueue(o), session # 0, running, link # 0, Idle,
              UNCHANGED <<running, link, at>>
       PROVE  Lifecycle!Next
  <2>1. Phase = "open" /\ Phase' = Phase
    BY <1>3, <1>6, <1>14
  <2>2. Len(suggestions') = Len(suggestions) + 1
    BY <1>1, <1>14, Enqueued
  <2> QED BY <2>1, <2>2 DEF Lifecycle!Say
<1>15. ASSUME NEW p \in pending, DelayedEnqueue(p) PROVE [Lifecycle!Next]_(Lifecycle!vars)
  <2>1. UNCHANGED <<running, link, at>>
    BY <1>15 DEF DelayedEnqueue, taskVars
  <2>2. CASE UNCHANGED suggestions
    BY <1>6, <2>1, <2>2
  <2>3. CASE running /\ GapOk /\ Enqueue(p.origin)
    <3>1. p.origin = session
      BY <1>1, <2>3, OwnSleeper
    <3>2. link # 0
      BY <2>3, <3>1 DEF Phased
    <3>3. p.origin \in 1..MaxSessions /\ session # 0
      BY <1>1, <3>1 DEF TypeInv, TypeOK, Delayed
    <3>4. Idle
      BY <1>1, <1>2, <2>3, <3>2 DEF Control, Held, Idle
    <3> QED BY <1>14, <2>1, <2>3, <3>2, <3>3, <3>4
  <2> QED BY <1>15, <2>2, <2>3 DEF DelayedEnqueue
<1>16. ASSUME NEW l \in Loops, LoopRound(l) PROVE [Lifecycle!Next]_(Lifecycle!vars)
  <2>1. loop[l] = "sleeping" /\ UNCHANGED <<running, link, at>>
    BY <1>16 DEF LoopRound
  <2>2. CASE UNCHANGED suggestions
    BY <1>6, <2>1, <2>2
  <2>3. CASE Enqueue(session)
    <3>1. running /\ schedTask = l
      BY <1>1, <2>1 DEF Phased, Control, OneLoop, Live
    <3>2. schedTask # None /\ link # 0
      BY <3>1 DEF Phased
    <3>3. session \in 1..MaxSessions /\ session # 0
      BY <1>1, <2>1 DEF TypeInv, TypeOK, Begun
    <3>4. Idle
      BY <1>1, <1>2, <3>1, <3>2 DEF Control, Held, Idle
    <3> QED BY <1>14, <2>1, <2>3, <3>1, <3>2, <3>3, <3>4
  <2> QED BY <1>16, <2>2, <2>3 DEF LoopRound
<1>17. CASE Accept
  <2>1. UNCHANGED <<running, link, at>>
    BY <1>17 DEF Accept, taskVars
  <2>2. Len(suggestions') = Len(suggestions)
    BY <1>1, <1>17, Accepted
  <2> QED BY <1>6, <2>1, <2>2
<1>18. ASSUME UNCHANGED <<running, link, at, suggestions>>
       PROVE  UNCHANGED Lifecycle!vars
  BY <1>6, <1>18
<1>19. CASE \/ Ingest \/ Tick \/ UNCHANGED vars
            \/ \E l \in Loops : LoopBegins(l) \/ LoopRaises(l) \/ LoopCancelled(l)
  BY <1>18, <1>19
  DEF Ingest, Tick, LoopBegins, LoopRaises, LoopCancelled, taskVars, timeVars, vars
<1> QED
  BY <1>7, <1>8, <1>9, <1>11, <1>12, <1>13, <1>15, <1>16, <1>17, <1>19 DEF Next

\* With a tidy host, and delays shorter than the cold start and the gap, LiveEngine
\* implements EngineLifecycle, for any owners, loops and bounds.
THEOREM LifecycleImplemented == ASSUME Tidy, Patient PROVE Spec => ImplementsLifecycle
<1>1. Init => Phased /\ Lifecycle!Init
  <2> SUFFICES ASSUME Init PROVE Phased /\ Lifecycle!Init
    OBVIOUS
  <2>1. Phased
    BY EngineAssumption DEF EngineAssumption, Init, Phased
  <2>2. Phase = "closed" /\ Len(suggestions) = 0
    BY EmptySeq DEF Init, Phase
  <2> QED BY <2>1, <2>2 DEF Lifecycle!Init
<1>2. SilentInv /\ Phased /\ [Next]_vars => Phased' /\ [Lifecycle!Next]_(Lifecycle!vars)
  BY PhasedInductive, LifecycleStep
<1> QED
  BY <1>1, <1>2, SilentInvariant, PTL DEF Spec, ImplementsLifecycle, Lifecycle!Spec
=============================================================================
