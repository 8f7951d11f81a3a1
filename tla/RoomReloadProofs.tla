-------------------------- MODULE RoomReloadProofs --------------------------
(***************************************************************************)
(* Proofs about RoomReload, for any rooms, tasks and engines.              *)
(***************************************************************************)
EXTENDS RoomReload, TLAPS

\* A task at an await has a room and an engine, and one is cancelled by stop_all().
Engaged ==
    \A t \in Tasks :
        /\ task[t].at \in {"starting", "stopping"}
               => task[t].room \in Rooms /\ task[t].engine \in Engines
        /\ task[t].cancelled => host # "running"

TypeInv == TypeOK /\ Engaged

\* Where a task may be after going on.
NextStop(rec) ==
    /\ rec \in Task /\ ~rec.cancelled
    /\ \/ rec.at \in {"starting", "stopping"} /\ rec.room \in Rooms /\ rec.engine \in Engines
       \/ rec = NoTask

\* A task that goes on leaves every variable in its type.
LEMMA GoOnTyped ==
  ASSUME TypeOK, NEW t \in Tasks, NEW adding \in SUBSET Rooms, NEW removing \in SUBSET Rooms,
         NEW tab \in [Rooms -> Engines \cup {None}], NEW opn \in SUBSET Engines,
         GoOn(t, adding, removing, tab, opn)
  PROVE  /\ table' \in [Rooms -> Engines \cup {None}] /\ open' \subseteq Engines
         /\ config' \in [Engines -> 0..MaxEdits]
         /\ store' \in Paths \cup {None}
         /\ attached' \in [Engines -> Paths \cup {None}]
         /\ \E rec : /\ task' = [task EXCEPT ![t] = rec] /\ NextStop(rec)
                     /\ rec = NoTask => ApplyLiveConfig(table')
<1>1. open' \subseteq Engines
  BY DEF GoOn
<1>2. CASE adding # {}
  <2>1. AddNext(t, adding, removing, tab)
    BY <1>2 DEF GoOn
  <2>2. PICK r \in First(adding), e \in Engines :
            /\ AddRoom(r, tab, e)
            /\ task' = [task EXCEPT ![t] =
                  [at |-> "starting", cancelled |-> FALSE, adding |-> adding \ {r},
                   removing |-> removing, room |-> r, engine |-> e]]
    BY <2>1 DEF AddNext
  <2>3. r \in Rooms
    BY <2>2 DEF First
  <2> DEFINE rec == [at |-> "starting", cancelled |-> FALSE, adding |-> adding \ {r},
                     removing |-> removing, room |-> r, engine |-> e]
  <2>4. NextStop(rec) /\ rec.at = "starting" /\ NoTask.at = "idle"
    BY <2>3 DEF Task, NextStop, NoTask
  <2>7. task' = [task EXCEPT ![t] = rec]
    BY <2>2
  <2> HIDE DEF rec
  <2>5. \E s : /\ task' = [task EXCEPT ![t] = s] /\ NextStop(s)
               /\ s = NoTask => ApplyLiveConfig(table')
    BY <2>4, <2>7
  <2>6. /\ table' \in [Rooms -> Engines \cup {None}]
        /\ config' \in [Engines -> 0..MaxEdits]
        /\ attached' \in [Engines -> Paths \cup {None}]
    BY <2>2, <2>3 DEF AddRoom, TypeOK
  <2> QED
    BY <1>1, <2>1, <2>5, <2>6 DEF AddNext, TypeOK
<1>3. CASE adding = {}
  <2> DEFINE busy == {r \in removing : tab[r] \in opn}
  <2>1. RemoveNext(t, removing, tab, opn)
    BY <1>3 DEF GoOn
  <2>2. CASE busy = {}
    <3>1. /\ table' = Without(tab, removing) /\ ApplyLiveConfig(Without(tab, removing))
          /\ task' = [task EXCEPT ![t] = NoTask]
      BY <2>1, <2>2 DEF RemoveNext
    <3>2. NextStop(NoTask)
      BY DEF NoTask, Task, NextStop
    <3>3. \E rec : /\ task' = [task EXCEPT ![t] = rec] /\ NextStop(rec)
                   /\ rec = NoTask => ApplyLiveConfig(table')
      BY <3>1, <3>2
    <3>4. table' \in [Rooms -> Engines \cup {None}]
      BY <3>1 DEF Without
    <3>5. /\ config' \in [Engines -> 0..MaxEdits] /\ store' \in Paths \cup {None}
          /\ attached' \in [Engines -> Paths \cup {None}]
      BY <3>1 DEF ApplyLiveConfig, TypeOK, Snapshot
    <3> QED BY <1>1, <3>3, <3>4, <3>5
  <2>3. CASE busy # {}
    <3>1. PICK next \in First(busy) :
              /\ table' = Without(tab, {r \in removing : r < next})
              /\ task' = [task EXCEPT ![t] =
                     [at |-> "stopping", cancelled |-> FALSE, adding |-> {},
                      removing |-> {r \in removing : r > next},
                      room |-> next, engine |-> tab[next]]]
      BY <2>1, <2>3 DEF RemoveNext
    <3>2. next \in Rooms /\ tab[next] \in Engines
      BY <3>1 DEF First
    <3> DEFINE rec == [at |-> "stopping", cancelled |-> FALSE, adding |-> {},
                       removing |-> {r \in removing : r > next},
                       room |-> next, engine |-> tab[next]]
    <3>3. NextStop(rec) /\ rec.at = "stopping" /\ NoTask.at = "idle"
      BY <3>2 DEF Task, NextStop, NoTask
    <3>7. task' = [task EXCEPT ![t] = rec]
      BY <3>1
    <3> HIDE DEF rec
    <3>4. \E s : /\ task' = [task EXCEPT ![t] = s] /\ NextStop(s)
                 /\ s = NoTask => ApplyLiveConfig(table')
      BY <3>3, <3>7
    <3>5. table' \in [Rooms -> Engines \cup {None}]
      BY <3>1 DEF Without
    <3>6. UNCHANGED <<config, store, attached>>
      BY <2>1, <2>3 DEF RemoveNext
    <3> QED BY <1>1, <3>4, <3>5, <3>6 DEF TypeOK
  <2> QED BY <2>2, <2>3
<1> QED BY <1>2, <1>3

\* What the three steps that go on hand to GoOn.
LEMMA Continued ==
  ASSUME TypeInv, NEW t \in Tasks, Begin(t) \/ Started(t) \/ Stopped(t)
  PROVE  /\ \E adding \in SUBSET Rooms, removing \in SUBSET Rooms, opn \in SUBSET Engines,
               tab \in [Rooms -> Engines \cup {None}] : GoOn(t, adding, removing, tab, opn)
         /\ UNCHANGED <<file, edits, host, awaited, overlapped>>
<1> USE DEF TypeInv
<1>1. task[t] \in Task
  BY DEF TypeOK
<1>2. CASE Begin(t)
  <2>1. file.rooms \ Listed \in SUBSET Rooms /\ Listed \ file.rooms \in SUBSET Rooms
    BY DEF TypeOK, Snapshot, Listed
  <2> QED BY <1>2, <2>1 DEF Begin, TypeOK
<1>3. CASE Started(t)
  <2>1. PICK opn \in {open, open \cup {task[t].engine}} :
            GoOn(t, task[t].adding, task[t].removing, table, opn)
    BY <1>3 DEF Started
  <2>2. task[t].engine \in Engines
    BY <1>3 DEF Started, Engaged
  <2> QED
    BY <1>1, <1>3, <2>1, <2>2 DEF Started, TypeOK, Task
<1>4. CASE Stopped(t)
  <2>1. Without(table, {task[t].room}) \in [Rooms -> Engines \cup {None}]
    BY DEF Without, TypeOK
  <2> QED
    BY <1>1, <1>4, <2>1 DEF Stopped, TypeOK, Task
<1> QED BY <1>2, <1>3, <1>4

\* A task that ends, whether cancelled before its first await or in its last.
LEMMA Ended ==
  ASSUME TypeInv, NEW t \in Tasks, StopCancelled(t) \/ CancelDelivered(t)
  PROVE  /\ task' = [task EXCEPT ![t] = NoTask] /\ host # "running" /\ open' \subseteq open
         /\ UNCHANGED <<file, edits, table, config, store, attached, host, awaited, overlapped>>
BY DEF StopCancelled, CancelDelivered, engineVars, TypeInv, Engaged

LEMMA TypeInductive == ASSUME TypeInv, [Next]_vars PROVE TypeInv'
<1> USE DEF TypeInv
<1>1. ASSUME NEW t \in Tasks, Begin(t) \/ Started(t) \/ Stopped(t) PROVE TypeInv'
  <2>1. /\ UNCHANGED <<file, edits, host, awaited, overlapped>>
        /\ table' \in [Rooms -> Engines \cup {None}] /\ open' \subseteq Engines
        /\ config' \in [Engines -> 0..MaxEdits]
        /\ store' \in Paths \cup {None}
        /\ attached' \in [Engines -> Paths \cup {None}]
        /\ \E rec : task' = [task EXCEPT ![t] = rec] /\ NextStop(rec)
    BY <1>1, Continued, GoOnTyped
  <2>2. PICK rec : task' = [task EXCEPT ![t] = rec] /\ NextStop(rec)
    BY <2>1
  <2>3. task' \in [Tasks -> Task]
    BY <2>2 DEF TypeOK, NextStop
  <2>4. Engaged'
    BY <2>1, <2>2 DEF TypeOK, NextStop, Engaged, NoTask
  <2> QED BY <2>1, <2>3, <2>4 DEF TypeOK
<1>2. ASSUME NEW t \in Tasks, StopCancelled(t) \/ CancelDelivered(t) PROVE TypeInv'
  <2>1. NoTask \in Task
    BY DEF NoTask, Task
  <2>2. task' = [task EXCEPT ![t] = NoTask] /\ host' = host
    BY <1>2, Ended
  <2>3. task' \in [Tasks -> Task]
    BY <2>1, <2>2 DEF TypeOK
  <2>4. NoTask.at = "idle" /\ ~NoTask.cancelled
    BY DEF NoTask
  <2>5. Engaged'
    BY <2>2, <2>4 DEF TypeOK, Engaged
  <2> QED BY <1>2, <2>3, <2>5, Ended DEF TypeOK
<1>3. CASE Edit
  <2>1. PICK t \in Tasks : task' = [task EXCEPT ![t] = [NoTask EXCEPT !.at = "created"]]
    BY <1>3 DEF Edit
  <2>2. [NoTask EXCEPT !.at = "created"] \in Task
    BY DEF NoTask, Task
  <2>3. task' \in [Tasks -> Task]
    BY <2>1, <2>2 DEF TypeOK
  <2>4. Engaged'
    BY <1>3, <2>1 DEF Edit, Engaged, NoTask, TypeOK
  <2>5. file' \in Snapshot /\ edits' \in 0..MaxEdits
    BY <1>3, ReloadAssumption DEF Edit, TypeOK, ReloadAssumption
  <2>6. overlapped' \in BOOLEAN
    BY <1>3 DEF Edit, TypeOK
  <2> QED BY <1>3, <2>3, <2>4, <2>5, <2>6 DEF Edit, TypeOK, engineVars
<1>4. CASE StopAll
  <2>1. \A t \in Tasks : [task[t] EXCEPT !.cancelled = (t \in Active)] \in Task
    <3> SUFFICES ASSUME NEW t \in Tasks
                 PROVE  [task[t] EXCEPT !.cancelled = (t \in Active)] \in Task
      OBVIOUS
    <3>1. (t \in Active) \in BOOLEAN /\ task[t] \in Task
      BY DEF TypeOK
    <3>2. ASSUME NEW b \in BOOLEAN PROVE [task[t] EXCEPT !.cancelled = b] \in Task
      BY <3>1 DEF Task
    <3> QED BY <3>1, <3>2
  <2>2. task' \in [Tasks -> Task]
    BY <1>4, <2>1 DEF StopAll
  <2>3. Engaged'
    <3> SUFFICES ASSUME NEW t \in Tasks, task'[t].at \in {"starting", "stopping"}
                 PROVE  task'[t].room \in Rooms /\ task'[t].engine \in Engines
      BY <1>4 DEF StopAll, Engaged
    <3>1. task[t] \in Task
      BY DEF TypeOK
    <3>2. task'[t] = [task[t] EXCEPT !.cancelled = (t \in Active)]
      BY <1>4 DEF StopAll
    <3>3. /\ task'[t].at = task[t].at /\ task'[t].room = task[t].room
          /\ task'[t].engine = task[t].engine
      BY <3>1, <3>2 DEF Task
    <3> QED BY <3>3 DEF Engaged
  <2> QED BY <1>4, <2>2, <2>3 DEF StopAll, TypeOK, engineVars, Active
<1>5. CASE Gathered
  BY <1>5 DEF Gathered, TypeOK, Engaged, engineVars
<1>6. CASE AllStopped \/ \E e \in Engines : EngineStopped(e)
  BY <1>6 DEF AllStopped, EngineStopped, TypeOK, Engaged, engineVars
<1>7. CASE UNCHANGED vars
  BY <1>7 DEF vars, TypeOK, Engaged
<1> QED
  BY <1>1, <1>2, <1>3, <1>4, <1>5, <1>6, <1>7 DEF Next

LEMMA InitTyped == ASSUME Init PROVE TypeInv
<1>1. NoTask \in Task /\ ~NoTask.cancelled /\ NoTask.at = "idle"
  BY DEF NoTask, Task
<1>2. open \subseteq Engines
  BY DEF Init, Listed
<1>3. Engaged
  BY <1>1 DEF Init, Engaged
<1>4. overlapped \in BOOLEAN
  BY Zenon DEF Init
<1> QED
  BY <1>1, <1>2, <1>3, <1>4, ReloadAssumption DEF Init, TypeInv, TypeOK, Snapshot, ReloadAssumption

\* Every variable of the supervisor keeps its type, the tasks included.
THEOREM TypeCorrect == Spec => []TypeOK
<1>1. TypeInv => TypeOK
  BY DEF TypeInv
<1> QED
  BY <1>1, InitTyped, TypeInductive, PTL DEF Spec

-----------------------------------------------------------------------------
LEMMA UpToDateInductive == ASSUME TypeInv, UpToDate, [Next]_vars PROVE UpToDate'
<1> USE DEF TypeInv
<1>1. ASSUME NEW t \in Tasks, Begin(t) \/ Started(t) \/ Stopped(t) PROVE UpToDate'
  <2>1. /\ UNCHANGED <<file, edits, host>>
        /\ table' \in [Rooms -> Engines \cup {None}]
        /\ \E rec : /\ task' = [task EXCEPT ![t] = rec] /\ NextStop(rec)
                    /\ rec = NoTask => ApplyLiveConfig(table')
    BY <1>1, Continued, GoOnTyped
  <2>2. PICK rec : /\ task' = [task EXCEPT ![t] = rec] /\ NextStop(rec)
                   /\ rec = NoTask => ApplyLiveConfig(table')
    BY <2>1
  <2>3. CASE rec = NoTask
    BY <2>1, <2>2, <2>3 DEF ApplyLiveConfig, UpToDate, Listed
  <2>4. CASE rec # NoTask
    <3>1. task'[t].at # "idle"
      BY <2>2, <2>4 DEF NextStop, TypeOK
    <3> QED BY <3>1 DEF UpToDate, Quiet, Active
  <2> QED BY <2>3, <2>4
<1>2. ASSUME NEW t \in Tasks, StopCancelled(t) \/ CancelDelivered(t) PROVE UpToDate'
  BY <1>2, Ended DEF UpToDate, Quiet
<1>3. CASE Edit
  <2>1. PICK t \in Tasks : task' = [task EXCEPT ![t] = [NoTask EXCEPT !.at = "created"]]
    BY <1>3 DEF Edit
  <2>2. task'[t].at # "idle"
    BY <2>1 DEF TypeOK, NoTask
  <2> QED BY <2>2 DEF UpToDate, Quiet, Active
<1>4. CASE StopAll \/ Gathered \/ AllStopped \/ \E e \in Engines : EngineStopped(e)
  BY <1>4 DEF StopAll, Gathered, AllStopped, EngineStopped, UpToDate, Quiet
<1>5. CASE UNCHANGED vars
  BY <1>5 DEF vars, UpToDate, Quiet, Active, Listed
<1> QED
  BY <1>1, <1>2, <1>3, <1>4, <1>5 DEF Next

\* However many changes overlap: when no reconciliation is under way, the engines
\* in the table have the configuration and the store of the last change.
THEOREM LastChangeApplies == Spec => []UpToDate
<1>1. Init => UpToDate
  BY DEF Init, UpToDate, Listed
<1>2. TypeInv /\ UpToDate /\ [Next]_vars => TypeInv' /\ UpToDate'
  BY TypeInductive, UpToDateInductive
<1> QED
  BY <1>1, <1>2, InitTyped, PTL DEF Spec
-----------------------------------------------------------------------------
\* Changes that come one after the other: at most one task runs, and what it has
\* still to do makes up the difference between the table and the file.
InTable(tab) == {r \in Rooms : tab[r] # None}

OneRoomEach(tab) == \A r, q \in Rooms : tab[r] # None /\ tab[r] = tab[q] => r = q

OpenListed(opn, tab) == \A e \in opn : \E r \in Rooms : tab[r] = e

Ahead(rec, tab, opn) ==
    /\ rec.at = "starting" =>
        /\ tab[rec.room] = rec.engine /\ rec.engine \notin opn
        /\ rec.adding \cap InTable(tab) = {}
        /\ InTable(tab) \cup rec.adding = file.rooms \cup rec.removing
        /\ rec.removing \cap file.rooms = {}
        /\ rec.room \in file.rooms /\ rec.adding \subseteq file.rooms
    /\ rec.at = "stopping" =>
        /\ tab[rec.room] = rec.engine
        /\ InTable(tab) = file.rooms \cup rec.removing \cup {rec.room}
        /\ rec.room \notin file.rooms \cup rec.removing
        /\ rec.removing \cap file.rooms = {}

OneTask == \A t, u \in Active : t = u

StopInOrder ==
    /\ host = "gathering" => Active \subseteq awaited
    /\ host \in {"stopping", "stopped"} => Active = {}
    /\ host = "stopping" => open \subseteq awaited
    /\ host = "stopped" => open = {}

Turn ==
    /\ OneTask /\ OneRoomEach(table) /\ OpenListed(open, table)
    /\ \A t \in Tasks : Ahead(task[t], table, open)
    /\ RoomsConverge /\ StopInOrder

TurnInv == TypeInv /\ (~overlapped => Turn)
\* Going on, the task does the next thing the file asks for.
LEMMA GoOnAhead ==
  ASSUME TypeInv, NEW t \in Tasks, NEW adding \in SUBSET Rooms, NEW removing \in SUBSET Rooms,
         NEW tab \in [Rooms -> Engines \cup {None}], NEW opn \in SUBSET Engines,
         GoOn(t, adding, removing, tab, opn), file' = file,
         OneRoomEach(tab), OpenListed(opn, tab), adding # {} => tab = table,
         adding \cap InTable(tab) = {}, removing \cap file.rooms = {},
         InTable(tab) \cup adding = file.rooms \cup removing,
         adding \subseteq file.rooms
  PROVE  /\ OneRoomEach(table') /\ OpenListed(open', table')
         /\ \E rec : /\ task' = [task EXCEPT ![t] = rec]
                     /\ Ahead(rec, table', open')
                     /\ rec.at = "idle" => InTable(table') = file.rooms
<1> USE ReloadAssumption DEF ReloadAssumption
<1>1. open' = opn
  BY DEF GoOn
<1>2. CASE adding # {}
  <2>1. AddNext(t, adding, removing, tab) /\ tab = table
    BY <1>2 DEF GoOn
  <2>2. PICK r \in First(adding), e \in Engines :
            /\ AddRoom(r, tab, e)
            /\ task' = [task EXCEPT ![t] =
                  [at |-> "starting", cancelled |-> FALSE, adding |-> adding \ {r},
                   removing |-> removing, room |-> r, engine |-> e]]
    BY <2>1 DEF AddNext
  <2> DEFINE rec == [at |-> "starting", cancelled |-> FALSE, adding |-> adding \ {r},
                     removing |-> removing, room |-> r, engine |-> e]
  <2>3. r \in Rooms /\ r \in adding /\ tab[r] = None
    BY <2>2 DEF First, InTable
  <2>4. table' = [tab EXCEPT ![r] = e] /\ \A q \in Rooms : tab[q] # e
    BY <2>1, <2>2, <2>3 DEF AddRoom
  <2>5. e \notin opn
    BY <2>4 DEF OpenListed
  <2>6. table'[r] = e /\ \A q \in Rooms : q # r => table'[q] = tab[q]
    BY <2>3, <2>4
  <2>7. OneRoomEach(table')
    BY <2>4, <2>6 DEF OneRoomEach
  <2>8. OpenListed(open', table')
    BY <1>1, <2>3, <2>6 DEF OpenListed
  <2>9. InTable(table') = InTable(tab) \cup {r}
    BY <2>3, <2>6 DEF InTable
  <2>10. Ahead(rec, table', open')
    BY <1>1, <2>3, <2>5, <2>6, <2>9 DEF Ahead
  <2>11. task' = [task EXCEPT ![t] = rec] /\ rec.at = "starting"
    BY <2>2
  <2> HIDE DEF rec
  <2> QED
    BY <2>7, <2>8, <2>10, <2>11
<1>3. CASE adding = {}
  <2> DEFINE busy == {r \in removing : tab[r] \in opn}
  <2>1. RemoveNext(t, removing, tab, opn)
    BY <1>3 DEF GoOn
  <2>2. CASE busy = {}
    <3>1. table' = Without(tab, removing) /\ task' = [task EXCEPT ![t] = NoTask]
      BY <2>1, <2>2 DEF RemoveNext
    <3>2. InTable(table') = file.rooms
      BY <1>3, <3>1 DEF InTable, Without
    <3>3. OneRoomEach(table')
      BY <3>1 DEF OneRoomEach, Without
    <3>4. OpenListed(open', table')
      BY <1>1, <2>2, <3>1 DEF OpenListed, Without
    <3>5. Ahead(NoTask, table', open')
      BY DEF Ahead, NoTask
    <3> QED BY <3>1, <3>2, <3>3, <3>4, <3>5
  <2>3. CASE busy # {}
    <3>1. PICK next \in First(busy) :
              /\ table' = Without(tab, {r \in removing : r < next})
              /\ task' = [task EXCEPT ![t] =
                     [at |-> "stopping", cancelled |-> FALSE, adding |-> {},
                      removing |-> {r \in removing : r > next},
                      room |-> next, engine |-> tab[next]]]
      BY <2>1, <2>3 DEF RemoveNext
    <3> DEFINE gone == {r \in removing : r < next}
               left == {r \in removing : r > next}
               rec == [at |-> "stopping", cancelled |-> FALSE, adding |-> {},
                       removing |-> left, room |-> next, engine |-> tab[next]]
    <3>2. /\ next \in removing /\ next \in Rooms /\ tab[next] \in opn
          /\ \A r \in gone : tab[r] \notin opn
      BY <3>1 DEF First
    <3>10. next \in Nat /\ \A r \in removing : r \in Nat
      BY <3>2
    <3>11. \A r \in removing : r < next \/ r = next \/ r > next
      BY <3>10
    <3>12. ~(next < next) /\ ~(next > next)
      BY <3>10
    <3>3. removing = gone \cup left \cup {next} /\ next \notin gone \cup left
      BY <3>2, <3>11, <3>12
    <3>4. OneRoomEach(table')
      BY <3>1 DEF OneRoomEach, Without
    <3>5. OpenListed(open', table')
      BY <1>1, <3>1, <3>2 DEF OpenListed, Without
    <3>6. InTable(table') = InTable(tab) \ gone
      BY <3>1 DEF InTable, Without
    <3>7. InTable(table') = file.rooms \cup left \cup {next}
      <4>1. InTable(tab) = file.rooms \cup removing /\ gone \cap file.rooms = {}
        BY <1>3
      <4>2. \A r \in gone : r \notin left /\ r # next
        BY <3>10
      <4> HIDE DEF gone, left
      <4> QED BY <3>3, <3>6, <4>1, <4>2
    <3>8. table'[next] = tab[next]
      BY <3>1, <3>2, <3>3 DEF Without
    <3>9. Ahead(rec, table', open')
      BY <3>2, <3>3, <3>7, <3>8 DEF Ahead
    <3>13. task' = [task EXCEPT ![t] = rec] /\ rec.at = "stopping"
      BY <3>1
    <3> HIDE DEF rec
    <3> QED BY <3>4, <3>5, <3>9, <3>13
  <2> QED BY <2>2, <2>3
<1> QED BY <1>2, <1>3

\* The three steps that go on start from where Ahead says they are.
LEMMA ContinuedAhead ==
  ASSUME TypeInv, Turn, NEW t \in Tasks, Begin(t) \/ Started(t) \/ Stopped(t)
  PROVE  /\ OneRoomEach(table') /\ OpenListed(open', table')
         /\ \E rec : /\ task' = [task EXCEPT ![t] = rec]
                     /\ Ahead(rec, table', open')
                     /\ rec.at = "idle" => InTable(table') = file.rooms
<1> USE ReloadAssumption DEF ReloadAssumption, TypeInv
<1>1. task[t] \in Task /\ table \in [Rooms -> Engines \cup {None}] /\ open \in SUBSET Engines
  BY DEF TypeOK
<1>2. file' = file /\ file.rooms \in SUBSET Rooms
  BY Continued DEF TypeOK, Snapshot
<1>3. CASE Begin(t)
  <2>1. GoOn(t, file.rooms \ InTable(table), InTable(table) \ file.rooms, table, open)
    BY <1>3 DEF Begin, Listed, InTable
  <2>2. /\ InTable(table) \in SUBSET Rooms
        /\ file.rooms \ InTable(table) \in SUBSET Rooms
        /\ InTable(table) \ file.rooms \in SUBSET Rooms
    BY <1>2 DEF InTable
  <2> QED
    BY <1>1, <1>2, <2>1, <2>2, GoOnAhead DEF Turn
<1>4. CASE Started(t)
  <2>1. PICK opn \in {open, open \cup {task[t].engine}} :
            GoOn(t, task[t].adding, task[t].removing, table, opn)
    BY <1>4 DEF Started
  <2>2. /\ task[t].at = "starting" /\ task[t].engine \in Engines /\ task[t].room \in Rooms
        /\ task[t].adding \in SUBSET Rooms /\ task[t].removing \in SUBSET Rooms
    BY <1>1, <1>4 DEF Started, Engaged, Task
  <2>3. /\ table[task[t].room] = task[t].engine
        /\ task[t].adding \cap InTable(table) = {}
        /\ InTable(table) \cup task[t].adding = file.rooms \cup task[t].removing
        /\ task[t].removing \cap file.rooms = {}
        /\ task[t].adding \subseteq file.rooms
    BY <2>2 DEF Turn, Ahead
  <2>4. opn \in SUBSET Engines /\ OpenListed(opn, table)
    BY <1>1, <2>1, <2>2, <2>3 DEF Turn, OpenListed
  <2> QED
    BY <1>1, <1>2, <2>1, <2>2, <2>3, <2>4, GoOnAhead DEF Turn
<1>5. CASE Stopped(t)
  <2> DEFINE tab == Without(table, {task[t].room})
             opn == open \ {task[t].engine}
  <2>1. /\ task[t].at = "stopping" /\ task[t].engine \in Engines /\ task[t].room \in Rooms
        /\ task[t].removing \in SUBSET Rooms
        /\ GoOn(t, {}, task[t].removing, tab, opn)
    BY <1>1, <1>5 DEF Stopped, Engaged, Task
  <2>2. /\ table[task[t].room] = task[t].engine
        /\ InTable(table) = file.rooms \cup task[t].removing \cup {task[t].room}
        /\ task[t].room \notin file.rooms \cup task[t].removing
        /\ task[t].removing \cap file.rooms = {}
    BY <2>1 DEF Turn, Ahead
  <2>3. /\ tab \in [Rooms -> Engines \cup {None}] /\ opn \in SUBSET Engines
        /\ OneRoomEach(tab) /\ OpenListed(opn, tab)
    BY <1>1, <2>2 DEF Without, Turn, OneRoomEach, OpenListed
  <2>4. InTable(tab) = InTable(table) \ {task[t].room}
    BY DEF InTable, Without
  <2>5. InTable(tab) \cup {} = file.rooms \cup task[t].removing
    BY <2>2, <2>4
  <2> HIDE DEF tab, opn
  <2> QED
    BY <1>2, <2>1, <2>2, <2>3, <2>5, GoOnAhead
<1> QED BY <1>3, <1>4, <1>5

\* Turn reads the tasks only, and the file, the table and the connections.
LEMMA TurnInductive ==
  ASSUME TypeInv, ~overlapped => Turn, [Next]_vars, ~overlapped' PROVE Turn'
<1> USE DEF TypeInv
<1>1. ASSUME NEW t \in Tasks, Begin(t) \/ Started(t) \/ Stopped(t) PROVE Turn'
  <2>1. UNCHANGED <<file, edits, host, awaited, overlapped>>
    BY <1>1, Continued
  <2>2. Turn
    BY <2>1
  <2>3. /\ OneRoomEach(table') /\ OpenListed(open', table')
        /\ \E rec : /\ task' = [task EXCEPT ![t] = rec]
                    /\ Ahead(rec, table', open')
                    /\ rec.at = "idle" => InTable(table') = file.rooms
    BY <1>1, <2>2, ContinuedAhead
  <2>4. PICK rec : /\ task' = [task EXCEPT ![t] = rec]
                   /\ Ahead(rec, table', open')
                   /\ rec.at = "idle" => InTable(table') = file.rooms
    BY <2>3
  <2>5. t \in Active /\ \A u \in Tasks : u # t => task[u].at = "idle"
    BY <1>1, <2>2 DEF Turn, OneTask, Active, Begin, Started, Stopped
  <2>6. /\ task'[t] = rec
        /\ \A u \in Tasks : u # t => task'[u].at = "idle"
    BY <2>4, <2>5 DEF TypeOK
  <2>7. OneTask' /\ Active' \subseteq Active
    BY <2>5, <2>6 DEF OneTask, Active
  <2>8. \A u \in Tasks : Ahead(task[u], table, open)'
    BY <2>1, <2>4, <2>6 DEF Ahead, InTable
  <2>9. RoomsConverge'
    BY <2>1, <2>4, <2>6 DEF RoomsConverge, Quiet, Active, Listed, InTable
  <2>10. StopInOrder'
    BY <2>1, <2>2, <2>5, <2>7 DEF Turn, StopInOrder
  <2> QED BY <2>3, <2>7, <2>8, <2>9, <2>10 DEF Turn
<1>2. ASSUME NEW t \in Tasks, StopCancelled(t) \/ CancelDelivered(t) PROVE Turn'
  <2>1. /\ task' = [task EXCEPT ![t] = NoTask] /\ host # "running" /\ open' \subseteq open
        /\ UNCHANGED <<file, table, host, awaited, overlapped>>
    BY <1>2, Ended
  <2>2. Turn
    BY <2>1
  <2>3. /\ task'[t].at = "idle"
        /\ \A u \in Tasks : u # t => task'[u] = task[u]
    BY <2>1 DEF TypeOK, NoTask
  <2>4. Active' \subseteq Active
    BY <2>3 DEF Active
  <2>5. OneTask' /\ RoomsConverge' /\ OpenListed(open, table)' /\ OneRoomEach(table)'
    BY <2>1, <2>2, <2>4 DEF Turn, OneTask, RoomsConverge, Quiet, OpenListed, OneRoomEach
  <2>6. StopInOrder'
    BY <2>1, <2>2, <2>4 DEF Turn, StopInOrder
  <2>7. \A u \in Tasks : Ahead(task[u], table, open)'
    BY <2>1, <2>2, <2>3 DEF Turn, Ahead, InTable
  <2> QED BY <2>5, <2>6, <2>7 DEF Turn
<1>3. CASE Edit
  <2>1. PICK t \in Tasks : task' = [task EXCEPT ![t] = [NoTask EXCEPT !.at = "created"]]
    BY <1>3 DEF Edit
  <2>2. Active = {} /\ host = "running" /\ ~overlapped /\ host' = host
        /\ UNCHANGED <<table, open>>
    BY <1>3 DEF Edit, engineVars
  <2>3. /\ task'[t].at = "created"
        /\ \A u \in Tasks : u # t => task'[u].at = "idle"
    BY <2>1, <2>2 DEF TypeOK, NoTask, Active
  <2>4. OneTask' /\ RoomsConverge' /\ StopInOrder'
    BY <2>2, <2>3 DEF OneTask, RoomsConverge, Quiet, StopInOrder, Active
  <2>5. \A u \in Tasks : Ahead(task[u], table, open)'
    BY <2>3 DEF Ahead
  <2> QED BY <2>2, <2>4, <2>5 DEF Turn, OneRoomEach, OpenListed
<1>4. CASE StopAll
  <2>1. /\ ~overlapped /\ host' = "gathering" /\ awaited' = Active
        /\ UNCHANGED <<file, table, open>>
        /\ \A t \in Tasks : task'[t] = [task[t] EXCEPT !.cancelled = (t \in Active)]
    BY <1>4 DEF StopAll, engineVars
  <2>2. \A t \in Tasks : task[t] \in Task
    BY DEF TypeOK
  <2>3. \A t \in Tasks : /\ task'[t].at = task[t].at /\ task'[t].room = task[t].room
                         /\ task'[t].engine = task[t].engine /\ task'[t].adding = task[t].adding
                         /\ task'[t].removing = task[t].removing
    BY <2>1, <2>2 DEF Task
  <2>4. Active' = Active
    BY <2>3 DEF Active
  <2>5. OneTask' /\ RoomsConverge' /\ StopInOrder'
    BY <2>1, <2>4 DEF Turn, OneTask, RoomsConverge, Quiet, StopInOrder
  <2>6. \A t \in Tasks : Ahead(task[t], table, open)'
    BY <2>1, <2>3 DEF Turn, Ahead, InTable
  <2> QED BY <2>1, <2>5, <2>6 DEF Turn, OneRoomEach, OpenListed
<1>5. ASSUME ~overlapped, UNCHANGED <<file, table, task>>, host # "running", host' # "running",
             open' \subseteq open, StopInOrder'
      PROVE  Turn'
  <2>1. Turn /\ Active' = Active
    BY <1>5 DEF Active
  <2>2. OneTask' /\ RoomsConverge' /\ OpenListed(open, table)' /\ OneRoomEach(table)'
    BY <1>5, <2>1 DEF Turn, OneTask, RoomsConverge, Quiet, OpenListed, OneRoomEach
  <2>3. \A t \in Tasks : Ahead(task[t], table, open)'
    BY <1>5, <2>1 DEF Turn, Ahead, InTable
  <2> QED BY <1>5, <2>2, <2>3 DEF Turn
<1>6. CASE Gathered
  <2>1. /\ ~overlapped /\ host = "gathering" /\ host' = "stopping" /\ awaited \cap Active = {}
        /\ awaited' = {table[r] : r \in Listed} \cap open
        /\ UNCHANGED <<file, table, open, task>>
    BY <1>6 DEF Gathered, engineVars
  <2>2. Active' = {}
    BY <2>1 DEF Turn, StopInOrder, Active
  <2>3. open \subseteq {table[r] : r \in Listed}
    <3> SUFFICES ASSUME NEW e \in open PROVE \E r \in Listed : table[r] = e
      OBVIOUS
    <3>1. PICK r \in Rooms : table[r] = e
      BY <2>1 DEF Turn, OpenListed
    <3>2. r \in Listed
      BY <3>1, ReloadAssumption DEF ReloadAssumption, Listed, TypeOK
    <3> QED BY <3>1, <3>2
  <2>4. StopInOrder'
    BY <2>1, <2>2, <2>3 DEF StopInOrder
  <2> QED BY <1>5, <2>1, <2>4
<1>7. ASSUME NEW e \in Engines, EngineStopped(e) PROVE Turn'
  <2>1. /\ ~overlapped /\ host = "stopping" /\ host' = host
        /\ open' = open \ {e} /\ awaited' = awaited \ {e}
        /\ UNCHANGED <<file, table, task>>
    BY <1>7 DEF EngineStopped
  <2>2. StopInOrder'
    BY <2>1 DEF Turn, StopInOrder, Active
  <2> QED BY <1>5, <2>1, <2>2
<1>8. CASE AllStopped
  <2>1. /\ ~overlapped /\ host = "stopping" /\ host' = "stopped" /\ awaited = {}
        /\ UNCHANGED <<file, table, task, open>>
    BY <1>8 DEF AllStopped, engineVars
  <2>2. StopInOrder'
    BY <2>1 DEF Turn, StopInOrder, Active
  <2> QED BY <1>5, <2>1, <2>2
<1>9. CASE UNCHANGED vars
  BY <1>9 DEF vars, Turn, OneTask, RoomsConverge, Quiet, OpenListed, OneRoomEach,
      Ahead, InTable, StopInOrder, Active, Listed
<1> QED
  BY <1>1, <1>2, <1>3, <1>4, <1>6, <1>7, <1>8, <1>9 DEF Next

LEMMA TurnInvariant == Spec => []TurnInv
<1>1. Init => TurnInv
  <2> SUFFICES ASSUME Init PROVE TypeInv /\ Turn
    BY DEF TurnInv
  <2>1. \A t \in Tasks : task[t].at = "idle"
    BY DEF Init, NoTask
  <2>2. OneTask /\ StopInOrder /\ RoomsConverge /\ \A t \in Tasks : Ahead(task[t], table, open)
    BY <2>1 DEF Init, OneTask, StopInOrder, Active, RoomsConverge, Ahead
  <2>3. OneRoomEach(table)
    BY DEF Init, OneRoomEach, Listed
  <2>4. OpenListed(open, table)
    BY DEF Init, OpenListed, Listed
  <2> QED BY <2>2, <2>3, <2>4, InitTyped DEF Turn
<1>2. TurnInv /\ [Next]_vars => TurnInv'
  BY TypeInductive, TurnInductive DEF TurnInv
<1> QED
  BY <1>1, <1>2, PTL DEF Spec

\* If no change comes while another is applied, the rooms end as the file says.
THEOREM Converges == Spec => []RoomsConvergeInTurn
<1>1. TurnInv => RoomsConvergeInTurn
  BY DEF TurnInv, Turn, RoomsConvergeInTurn
<1> QED
  BY <1>1, TurnInvariant, PTL

\* And no engine that is or will be connected is out of the table.
THEOREM NoEngineLost == Spec => []NoneLost
<1>1. TurnInv => NoneLost
  <2> SUFFICES ASSUME TypeInv, Turn, NEW e \in Engines, e \in open \/ Starting(e)
               PROVE  \E r \in Listed : table[r] = e
    BY DEF TurnInv, NoneLost
  <2>1. \E r \in Rooms : table[r] = e
    BY DEF TypeInv, Engaged, Turn, OpenListed, Starting, Ahead
  <2> QED
    BY <2>1, ReloadAssumption DEF ReloadAssumption, Listed
<1> QED
  BY <1>1, TurnInvariant, PTL

\* No engine is started twice.
THEOREM StartsAreSingle == Spec => []StartedOnce
<1>1. TurnInv => StartedOnce
  BY DEF TurnInv, Turn, StartedOnce, OneTask, Active, Ahead
<1> QED
  BY <1>1, TurnInvariant, PTL

\* After stop_all() nothing of the supervisor runs.
THEOREM StopAllIsComplete == Spec => []StopAllComplete
<1>1. TurnInv => StopAllComplete
  BY DEF TurnInv, Turn, StopAllComplete, StopInOrder
<1> QED
  BY <1>1, TurnInvariant, PTL
-----------------------------------------------------------------------------
(* The supervisor is a tidy host of its engines.                           *)

\* The phase of an engine that only the task rec may have taken up.
PhaseBy(rec, opn, e) ==
    IF rec.at \in {"starting", "stopping"} /\ rec.engine = e THEN rec.at
    ELSE IF e \in opn THEN "open" ELSE "closed"

\* What the task t goes on to, with what it has still to add and to remove.
Takes(t, adding, removing, tab, opn) ==
    /\ open' = opn
    /\ \E rec :
       /\ task' = [task EXCEPT ![t] = rec]
       /\ \/ rec.at = "idle"
          \/ /\ rec.at = "starting" /\ adding # {}
             /\ rec.engine \notin open /\ ~Starting(rec.engine) /\ ~Stopping(rec.engine)
             /\ \A q \in Rooms : table[q] # rec.engine
          \/ /\ rec.at = "stopping" /\ adding = {}
             /\ \E r \in removing : tab[r] = rec.engine
             /\ rec.engine \in opn

\* A task that goes on starts an engine that is closed and new, stops one that is
\* open, or is at its end.
LEMMA GoOnTakes ==
  ASSUME NEW t \in Tasks, NEW adding \in SUBSET Rooms, NEW removing \in SUBSET Rooms,
         NEW tab, NEW opn, GoOn(t, adding, removing, tab, opn),
         adding \cap InTable(tab) = {}
  PROVE  Takes(t, adding, removing, tab, opn)
<1> USE DEF Takes
<1>1. open' = opn
  BY DEF GoOn
<1>2. CASE adding # {}
  <2>1. PICK r \in First(adding), e \in Engines :
            /\ AddRoom(r, tab, e)
            /\ task' = [task EXCEPT ![t] =
                  [at |-> "starting", cancelled |-> FALSE, adding |-> adding \ {r},
                   removing |-> removing, room |-> r, engine |-> e]]
    BY <1>2 DEF GoOn, AddNext
  <2>2. r \in Rooms /\ tab[r] = None
    BY <2>1 DEF First, InTable
  <2>3. e \notin open /\ ~Starting(e) /\ ~Stopping(e) /\ \A q \in Rooms : table[q] # e
    BY <2>1, <2>2 DEF AddRoom
  <2> DEFINE rec == [at |-> "starting", cancelled |-> FALSE, adding |-> adding \ {r},
                     removing |-> removing, room |-> r, engine |-> e]
  <2>4. rec.at = "starting" /\ rec.engine = e /\ task' = [task EXCEPT ![t] = rec]
    BY <2>1
  <2> HIDE DEF rec
  <2> QED BY <1>1, <1>2, <2>3, <2>4
<1>3. CASE adding = {}
  <2>1. RemoveNext(t, removing, tab, opn)
    BY <1>3 DEF GoOn
  <2>2. CASE {r \in removing : tab[r] \in opn} = {}
    <3>1. task' = [task EXCEPT ![t] = NoTask]
      BY <2>1, <2>2 DEF RemoveNext
    <3>2. NoTask.at = "idle"
      BY DEF NoTask
    <3> QED BY <1>1, <3>1, <3>2
  <2>3. CASE {r \in removing : tab[r] \in opn} # {}
    <3>1. PICK next \in First({r \in removing : tab[r] \in opn}) :
            task' = [task EXCEPT ![t] =
                [at |-> "stopping", cancelled |-> FALSE, adding |-> {},
                 removing |-> {r \in removing : r > next},
                 room |-> next, engine |-> tab[next]]]
      BY <2>1, <2>3 DEF RemoveNext
    <3>2. next \in removing /\ tab[next] \in opn
      BY <3>1 DEF First
    <3> DEFINE rec == [at |-> "stopping", cancelled |-> FALSE, adding |-> {},
                       removing |-> {r \in removing : r > next},
                       room |-> next, engine |-> tab[next]]
    <3>3. rec.at = "stopping" /\ rec.engine = tab[next] /\ task' = [task EXCEPT ![t] = rec]
      BY <3>1
    <3> HIDE DEF rec
    <3> QED BY <1>1, <1>3, <3>2, <3>3
  <2> QED BY <2>2, <2>3
<1> QED BY <1>2, <1>3

\* While a task runs, and stop_all() does not stop engines, an engine's phase is
\* what that task and its connection say.
LEMMA PhaseWithTask ==
  ASSUME NEW t \in Tasks, \A u \in Tasks : u # t => task[u].at = "idle", host # "stopping",
         NEW e
  PROVE  Phase(e) = PhaseBy(task[t], open, e)
BY DEF Phase, PhaseBy, Starting, Stopping

\* Going on takes every engine one step through its life cycle.
LEMMA ContinuedTidily ==
  ASSUME TypeInv, Turn, NEW t \in Tasks, Begin(t) \/ Started(t) \/ Stopped(t),
         NEW e \in Engines
  PROVE  Engine(e)!Next \/ UNCHANGED Phase(e)
<1> USE ReloadAssumption DEF ReloadAssumption, TypeInv
<1>1. /\ task[t].at \in {"created", "starting", "stopping"} /\ task[t] \in Task
      /\ \A u \in Tasks : u # t => task[u].at = "idle"
      /\ host # "stopping" /\ host' = host
  BY Continued
  DEF Begin, Started, Stopped, Turn, OneTask, Active, StopInOrder, TypeOK
<1>2. Phase(e) = PhaseBy(task[t], open, e)
  BY <1>1, PhaseWithTask
<1>3. ASSUME NEW rec, task' = [task EXCEPT ![t] = rec]
      PROVE  Phase(e)' = PhaseBy(rec, open', e)
  <2>1. task'[t] = rec /\ \A u \in Tasks : u # t => task'[u].at = "idle"
    BY <1>1, <1>3 DEF TypeOK
  <2> QED BY <1>1, <2>1 DEF Phase, PhaseBy, Starting, Stopping
<1> USE DEF Engine!Next, Engine!Move, PhaseBy
<1>4. CASE Begin(t)
  <2> DEFINE adding == file.rooms \ InTable(table)
             removing == InTable(table) \ file.rooms
  <2>1. /\ GoOn(t, adding, removing, table, open) /\ task[t].at = "created"
        /\ adding \in SUBSET Rooms /\ removing \in SUBSET Rooms
        /\ adding \cap InTable(table) = {}
    BY <1>4 DEF Begin, Listed, InTable, TypeOK, Snapshot
  <2> HIDE DEF adding, removing
  <2>2. /\ open' = open
        /\ \E rec : /\ task' = [task EXCEPT ![t] = rec]
                    /\ \/ rec.at = "idle"
                       \/ rec.at = "starting" /\ rec.engine \notin open
                       \/ rec.at = "stopping" /\ rec.engine \in open
    <3>1. Takes(t, adding, removing, table, open)
      BY <2>1, GoOnTakes
    <3> QED BY <3>1 DEF Takes
  <2> QED
    BY <1>2, <1>3, <2>1, <2>2 DEF Engine!StartRequested, Engine!StopRequested
<1>5. CASE Started(t)
  <2>1. PICK opn \in {open, open \cup {task[t].engine}} :
            GoOn(t, task[t].adding, task[t].removing, table, opn)
    BY <1>5 DEF Started
  <2>2. /\ task[t].at = "starting" /\ task[t].room \in Rooms
        /\ task[t].adding \in SUBSET Rooms /\ task[t].removing \in SUBSET Rooms
        /\ table[task[t].room] = task[t].engine /\ task[t].engine \in Engines
        /\ task[t].engine \notin open
        /\ task[t].adding \cap InTable(table) = {}
        /\ task[t].room \notin task[t].removing
    BY <1>1, <1>5 DEF Started, Turn, Ahead, Engaged, Task
  <2>3. \A r \in task[t].removing : table[r] # task[t].engine
    BY <2>2 DEF Turn, OneRoomEach
  <2>4. /\ open' = opn
        /\ \E rec : /\ task' = [task EXCEPT ![t] = rec]
                    /\ \/ rec.at = "idle"
                       \/ /\ rec.at = "starting" /\ rec.engine \notin open
                          /\ rec.engine # task[t].engine
                       \/ /\ rec.at = "stopping" /\ rec.engine \in opn
                          /\ rec.engine # task[t].engine
    <3>1. /\ open' = opn
          /\ \E rec : /\ task' = [task EXCEPT ![t] = rec]
                      /\ \/ rec.at = "idle"
                         \/ /\ rec.at = "starting" /\ rec.engine \notin open
                            /\ \A q \in Rooms : table[q] # rec.engine
                         \/ /\ rec.at = "stopping" /\ rec.engine \in opn
                            /\ \E r \in task[t].removing : table[r] = rec.engine
      <4>1. Takes(t, task[t].adding, task[t].removing, table, opn)
        BY <2>1, <2>2, GoOnTakes
      <4> QED BY <4>1 DEF Takes
    <3> QED BY <2>2, <2>3, <3>1
  <2> QED
    BY <1>2, <1>3, <2>1, <2>2, <2>4
    DEF Engine!StartRequested, Engine!StopRequested, Engine!Opened, Engine!Refused
<1>6. CASE Stopped(t)
  <2> DEFINE tab == Without(table, {task[t].room})
             opn == open \ {task[t].engine}
  <2>1. /\ GoOn(t, {}, task[t].removing, tab, opn) /\ task[t].at = "stopping"
        /\ task[t].removing \in SUBSET Rooms
    BY <1>1, <1>6 DEF Stopped, Task
  <2> HIDE DEF tab
  <2>2. {} \in SUBSET Rooms /\ {} \cap InTable(tab) = {}
    OBVIOUS
  <2>3. /\ open' = opn
        /\ \E rec : /\ task' = [task EXCEPT ![t] = rec]
                    /\ \/ rec.at = "idle"
                       \/ rec.at = "stopping" /\ rec.engine \in opn
    <3>1. Takes(t, {}, task[t].removing, tab, opn)
      BY <2>1, <2>2, GoOnTakes
    <3> QED BY <3>1 DEF Takes
  <2> QED
    BY <1>2, <1>3, <2>1, <2>3 DEF Engine!StopRequested, Engine!Stopped
<1> QED BY <1>4, <1>5, <1>6

\* So does every other step.
LEMMA TakenTidily ==
  ASSUME TypeInv, Turn, [Next]_vars, ~overlapped', NEW e \in Engines
  PROVE  Engine(e)!Next \/ UNCHANGED Phase(e)
<1> USE ReloadAssumption DEF ReloadAssumption, TypeInv
<1> USE DEF Engine!Next, Engine!Move
<1>1. ASSUME NEW t \in Tasks, StopCancelled(t) \/ CancelDelivered(t)
      PROVE  Engine(e)!Next \/ UNCHANGED Phase(e)
  <2>1. /\ task' = [task EXCEPT ![t] = NoTask] /\ host' = host
        /\ task[t].at \in {"created", "starting", "stopping"}
    BY <1>1, Ended DEF StopCancelled, CancelDelivered
  <2>2. host # "stopping" /\ \A u \in Tasks : u # t => task[u].at = "idle"
    BY <2>1 DEF Turn, OneTask, Active, StopInOrder
  <2>3. task'[t].at = "idle" /\ \A u \in Tasks : u # t => task'[u].at = "idle"
    BY <2>1, <2>2 DEF TypeOK, NoTask
  <2>4. Phase(e) = PhaseBy(task[t], open, e)
    BY <2>2, PhaseWithTask
  <2>5. Phase(e)' = IF e \in open' THEN "open" ELSE "closed"
    BY <2>1, <2>2, <2>3 DEF Phase, Starting, Stopping
  <2>6. CASE task[t].at = "stopping" /\ open' = open \ {task[t].engine}
    BY <2>4, <2>5, <2>6 DEF PhaseBy, Engine!Stopped
  <2>7. CASE task[t].at \in {"created", "starting"} /\ open' = open
    <3>1. task[t].at = "starting" => task[t].engine \notin open
      BY DEF Turn, Ahead
    <3> QED BY <2>4, <2>5, <2>7, <3>1 DEF PhaseBy, Engine!Refused
  <2> QED BY <1>1, <2>6, <2>7 DEF StopCancelled, CancelDelivered, engineVars
<1>2. ASSUME UNCHANGED open, Starting(e)' = Starting(e), Stopping(e)' = Stopping(e)
      PROVE  UNCHANGED Phase(e)
  BY <1>2 DEF Phase
<1>3. CASE Edit
  <2>1. PICK t \in Tasks : task' = [task EXCEPT ![t] = [NoTask EXCEPT !.at = "created"]]
    BY <1>3 DEF Edit
  <2>2. Active = {} /\ host = "running" /\ host' = host /\ UNCHANGED open
    BY <1>3 DEF Edit, engineVars
  <2>3. \A u \in Tasks : task[u].at = "idle" /\ task'[u].at \in {"idle", "created"}
    BY <2>1, <2>2 DEF TypeOK, NoTask, Active
  <2> QED BY <1>2, <2>2, <2>3 DEF Starting, Stopping
<1>4. CASE StopAll
  <2>1. /\ host = "running" /\ host' = "gathering" /\ UNCHANGED open
        /\ \A t \in Tasks : task'[t] = [task[t] EXCEPT !.cancelled = (t \in Active)]
    BY <1>4 DEF StopAll, engineVars
  <2>2. \A t \in Tasks : task'[t].at = task[t].at /\ task'[t].engine = task[t].engine
    BY <2>1 DEF TypeOK, Task
  <2> QED BY <1>2, <2>1, <2>2 DEF Starting, Stopping
<1>5. CASE Gathered
  <2>1. /\ host = "gathering" /\ host' = "stopping" /\ awaited \cap Active = {}
        /\ awaited' \subseteq open /\ UNCHANGED <<open, task>>
    BY <1>5 DEF Gathered, engineVars
  <2>2. \A t \in Tasks : task[t].at = "idle"
    BY <2>1 DEF Turn, StopInOrder, Active
  <2>3. /\ Phase(e) = IF e \in open THEN "open" ELSE "closed"
        /\ Phase(e)' = IF e \in awaited' THEN "stopping"
                       ELSE IF e \in open THEN "open" ELSE "closed"
    BY <2>1, <2>2 DEF Phase, Starting, Stopping
  <2> QED BY <2>1, <2>3 DEF Engine!StopRequested
<1>6. ASSUME NEW f \in Engines, EngineStopped(f) PROVE Engine(e)!Next \/ UNCHANGED Phase(e)
  <2>1. /\ host = "stopping" /\ host' = host /\ f \in awaited
        /\ open' = open \ {f} /\ awaited' = awaited \ {f} /\ UNCHANGED task
    BY <1>6 DEF EngineStopped
  <2>2. \A t \in Tasks : task[t].at = "idle"
    BY <2>1 DEF Turn, StopInOrder, Active
  <2>3. /\ Phase(e) = IF e \in awaited THEN "stopping"
                      ELSE IF e \in open THEN "open" ELSE "closed"
        /\ Phase(e)' = IF e \in awaited' THEN "stopping"
                       ELSE IF e \in open' THEN "open" ELSE "closed"
    BY <2>1, <2>2 DEF Phase, Starting, Stopping
  <2> QED BY <2>1, <2>3 DEF Engine!Stopped
<1>7. CASE AllStopped
  <2>1. host' = "stopped" /\ awaited = {} /\ UNCHANGED <<open, task>>
    BY <1>7 DEF AllStopped, engineVars
  <2> QED BY <1>2, <2>1 DEF Starting, Stopping
<1>8. CASE UNCHANGED vars
  BY <1>2, <1>8 DEF vars, Starting, Stopping
<1> QED
  BY <1>1, <1>3, <1>4, <1>5, <1>6, <1>7, <1>8, ContinuedTidily DEF Next

\* If no change comes while another is applied, the supervisor is the host that
\* LiveEngine's theorems ask for: it starts an engine when it is closed, and neither
\* starts nor stops one that is being started or stopped.
THEOREM TidyHost == Spec => HostIsTidy
<1>1. TurnInv /\ [Next]_vars =>
        [~overlapped' => \A e \in Engines : Engine(e)!Next \/ UNCHANGED Phase(e)]_vars
  <2> SUFFICES ASSUME TurnInv, [Next]_vars, ~overlapped', NEW e \in Engines
               PROVE  Engine(e)!Next \/ UNCHANGED Phase(e)
    OBVIOUS
  <2>1. TypeInv
    BY DEF TurnInv
  <2>2. ~overlapped
    <3>1. overlapped' = overlapped \/ Edit
      <4>1. ASSUME NEW t \in Tasks, Begin(t) \/ Started(t) \/ Stopped(t)
            PROVE  overlapped' = overlapped
        BY <2>1, <4>1, Continued
      <4>2. ASSUME NEW t \in Tasks, StopCancelled(t) \/ CancelDelivered(t)
            PROVE  overlapped' = overlapped
        BY <2>1, <4>2, Ended
      <4> QED BY <4>1, <4>2 DEF Next, StopAll, Gathered, AllStopped, EngineStopped, vars
    <3> QED BY <3>1 DEF Edit
  <2> QED BY <2>1, <2>2, TakenTidily DEF TurnInv
<1> QED
  BY <1>1, TurnInvariant, PTL DEF Spec, HostIsTidy
=============================================================================
