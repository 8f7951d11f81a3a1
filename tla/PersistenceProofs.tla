------------------------- MODULE PersistenceProofs -------------------------
(***************************************************************************)
(* What of an engine's suggestions reaches the databases, that these do    *)
(* what SuggestionLedger says, and that no text is repeated within its     *)
(* window: proofs for any suggestions, texts, databases, objects on each   *)
(* database, and bounds.                                                   *)
(***************************************************************************)
EXTENDS Persistence, WellFoundedInduction, TLAPS

\* A save that is being written, of what its suggestion no longer is.
Outdated(s) == holder[s] # Idle /\ holder[s].status # status[holder[s].save.id]

\* Each suggestion is saved at most once as made and once as accepted.  A held
\* lock is held by a pending save of that object, which took the status as it is
\* or, before the acceptance, as it was; then nobody else writes the acceptance
\* to that file, unless it is recorded as crossed.
LockInv ==
    /\ \A w, v \in saves : w.id = v.id /\ w.cause = v.cause => w = v
    /\ \A s \in Stores : holder[s] # Idle => holder[s].save \in saves /\ holder[s].save.store = s
    /\ \A s \in Stores : Outdated(s) =>
        LET i == holder[s].save.id IN
        /\ holder[s].status = "queued" /\ status[i] = "accepted" /\ holder[s].save.cause = "made"
        /\ i \notin crossed =>
            /\ row[PathOf[s]][i] # "accepted"
            /\ \A w \in saves : w.id = i /\ w.cause = "accepted" =>
                  w.store = s \/ PathOf[w.store] # PathOf[s]

\* Nothing is saved, or to be saved, of a suggestion that is not made, and no
\* row and no save is ahead of it.
RowInv ==
    /\ \A p \in Paths, i \in Ids : /\ row[p][i] = "accepted" => status[i] = "accepted"
                                   /\ row[p][i] # "none" => status[i] # "none"
    /\ \A w \in saves : /\ status[w.id] # "none"
                        /\ w.cause = "accepted" => status[w.id] = "accepted"
    /\ \A i \in mine : status[i] # "none"

\* A save that will write what the suggestion is, as long as it does not fail.
Due(w) ==
    /\ w \in saves
    /\ holder[w.store] # Idle /\ holder[w.store].save = w => holder[w.store].status = status[w.id]

Served(i, S) ==
    home[i] # None => \/ row[home[i]][i] = status[i]
                      \/ \E w \in S : w.id = i /\ PathOf[w.store] = home[i] /\ Due(w)

\* A row that is right stays right: whoever holds a lock with an older status
\* is followed by a save that will not.
ServedInv ==
    /\ \A i \in mine \ (failed \cup crossed) : Served(i, saves)
    /\ at \in {"stopping", "down"} => \A i \in atStop \ (failed \cup crossed) :
          i \in mine /\ status[i] = "accepted" /\ Served(i, awaited)
    /\ at = "down" => awaited = {}

Inv == TypeOK /\ LockInv /\ RowInv /\ ServedInv

-----------------------------------------------------------------------------
LEMMA Begin == Init => Inv
<1> SUFFICES ASSUME Init PROVE Inv
  OBVIOUS
<1>1. TypeOK
  BY PersistenceAssumption DEF Init, TypeOK, Times, Statuses, Saves, Idle
<1>2. LockInv
  BY DEF Init, LockInv, Outdated
<1>3. RowInv
  BY DEF Init, RowInv
<1>4. ServedInv
  BY DEF Init, ServedInv
<1> QED
  BY <1>1, <1>2, <1>3, <1>4 DEF Inv

LEMMA KeepsTypes == TypeOK /\ LockInv /\ [Next]_vars => TypeOK'
<1> SUFFICES ASSUME TypeOK, LockInv, [Next]_vars PROVE TypeOK'
  OBVIOUS
<1> USE PersistenceAssumption DEF TypeOK, Statuses, Times, Work
<1>1. ASSUME NEW i \in Ids, NEW t \in Texts, Enqueue(i, t) PROVE TypeOK'
  BY <1>1 DEF Enqueue, Track, Save, Saves, disk
<1>2. ASSUME NEW i \in Ids, Accept(i) PROVE TypeOK'
  BY <1>2 DEF Accept, TakesUp, Pushed, Track, Save, Saves, disk
<1>3. ASSUME NEW w \in saves, SaveBegins(w) PROVE TypeOK'
  BY <1>3 DEF SaveBegins, Saves, memory
<1>4. ASSUME NEW s \in Stores, SaveEnds(s) PROVE TypeOK'
  <2>1. holder[s].status \in Statuses
    OBVIOUS
  <2>2. row' \in [Paths -> [Ids -> Statuses]]
    BY <1>4, <2>1 DEF SaveEnds
  <2>3. holder' \in [Stores -> [save : Saves \cup {None}, status : Statuses]]
    BY <1>4 DEF SaveEnds, Idle
  <2> QED
    BY <1>4, <2>2, <2>3 DEF SaveEnds, memory
<1>5. ASSUME NEW s \in Stores, SaveFails(s) PROVE TypeOK'
  <2>1. holder' \in [Stores -> [save : Saves \cup {None}, status : Statuses]]
    BY <1>5 DEF SaveFails, Idle
  <2>2. failed' \subseteq Ids
    BY <1>5 DEF SaveFails, LockInv, Saves
  <2> QED
    BY <1>5, <2>1, <2>2 DEF SaveFails, memory
<1>6. ASSUME NEW s \in Stores \cup {None}, Swap(s) PROVE TypeOK'
  BY <1>6 DEF Swap, disk
<1>7. CASE Tick
  BY <1>7 DEF Tick, memory, disk
<1>8. CASE Stop
  BY <1>8 DEF Stop, memory, disk
<1>9. CASE Stopped
  BY <1>9 DEF Stopped, memory, disk
<1>10. CASE Crash
  BY <1>10 DEF Crash, Idle
<1>11. CASE Restart
  BY <1>11 DEF Restart, disk
<1>12. CASE UNCHANGED vars
  BY <1>12 DEF vars
<1> QED
  BY <1>1, <1>2, <1>3, <1>4, <1>5, <1>6, <1>7, <1>8, <1>9, <1>10, <1>11, <1>12 DEF Next

LEMMA KeepsLock == TypeOK /\ LockInv /\ RowInv /\ [Next]_vars => LockInv'
<1> SUFFICES ASSUME TypeOK, LockInv, RowInv, [Next]_vars PROVE LockInv'
  OBVIOUS
<1> USE DEF TypeOK, LockInv, RowInv, Statuses, Outdated
<1>1. ASSUME NEW i \in Ids, NEW t \in Texts, Enqueue(i, t) PROVE LockInv'
  <2>1. holder' = holder /\ row' = row /\ crossed' = crossed /\ saves \subseteq saves'
    BY <1>1 DEF Enqueue, Track, disk
  <2>2. \A w \in saves : status'[w.id] = status[w.id] /\ w.id # i
    BY <1>1 DEF Enqueue, Saves
  <2>3. \A w \in saves' : w \in saves \/ w = Save(i, store, "made")
    BY <1>1 DEF Enqueue, Track
  <2>4. \A w, v \in saves' : w.id = v.id /\ w.cause = v.cause => w = v
    BY <2>2, <2>3 DEF Save
  <2>5. \A w \in saves' : w \in saves \/ w.cause = "made"
    BY <2>3 DEF Save
  <2> QED
    BY <2>1, <2>2, <2>4, <2>5
<1>2. ASSUME NEW i \in Ids, Accept(i) PROVE LockInv'
  <2>1. /\ holder' = holder /\ row' = row /\ saves \subseteq saves' /\ status[i] = "queued"
        /\ crossed' = crossed \cup {j \in {i} : Crossing(j)}
    BY <1>2 DEF Accept, TakesUp, Track, disk
  <2>2. \A w \in saves : status'[w.id] = IF w.id = i THEN "accepted" ELSE status[w.id]
    BY <1>2 DEF Accept, TakesUp, Saves
  <2>3. \A w \in saves' : w \in saves \/ (w = Save(i, store, "accepted") /\ store # None)
    BY <1>2 DEF Accept, Track
  <2>4. \A p \in Paths : row[p][i] # "accepted"
    BY <2>1
  <2>5. \A w \in saves : w.id = i => w.cause = "made"
    BY <2>1 DEF Saves
  <2>6. \A w, v \in saves' : w.id = v.id /\ w.cause = v.cause => w = v
    BY <2>3, <2>5 DEF Save
  <2>7. ASSUME NEW s \in Stores, Outdated(s)'
        PROVE  LET k == holder'[s].save.id IN
               /\ holder'[s].status = "queued" /\ status'[k] = "accepted"
               /\ holder'[s].save.cause = "made"
               /\ k \notin crossed' =>
                   /\ row'[PathOf[s]][k] # "accepted"
                   /\ \A w \in saves' : w.id = k /\ w.cause = "accepted" =>
                         w.store = s \/ PathOf[w.store] # PathOf[s]
    <3> DEFINE k == holder[s].save.id
    <3>1. holder[s] # Idle /\ holder[s].save \in saves /\ holder[s].save.store = s
      BY <2>1, <2>7
    <3>2. CASE k = i
      <4>1. ~Outdated(s)
        BY <2>1, <3>2
      <4>2. holder[s].status = "queued" /\ status'[k] = "accepted" /\ holder[s].save.cause = "made"
        BY <2>1, <2>2, <2>5, <3>1, <3>2, <4>1
      <4>3. ASSUME k \notin crossed', NEW w \in saves', w.id = k, w.cause = "accepted"
            PROVE  w.store = s \/ PathOf[w.store] # PathOf[s]
        <5>1. w = Save(i, store, "accepted") /\ store # None
          BY <2>3, <2>5, <3>2, <4>3
        <5>2. ~Crossing(i)
          BY <2>1, <3>2, <4>3
        <5> QED
          BY <3>1, <3>2, <5>1, <5>2 DEF Crossing, Save
      <4>4. row'[PathOf[s]][k] # "accepted"
        <5>1. PathOf[s] \in Paths
          BY PersistenceAssumption
        <5> QED
          BY <2>1, <2>4, <3>2, <5>1
      <4> QED
        BY <2>1, <4>2, <4>3, <4>4
    <3>3. CASE k # i
      <4>1. Outdated(s) /\ status'[k] = status[k]
        BY <2>1, <2>2, <2>7, <3>1, <3>3
      <4>2. \A w \in saves' : w.id = k => w \in saves
        BY <2>3, <3>3 DEF Save
      <4> QED
        BY <2>1, <4>1, <4>2
    <3> QED
      BY <3>2, <3>3
  <2>8. \A s \in Stores : holder'[s] # Idle => holder'[s].save \in saves' /\ holder'[s].save.store = s
    BY <2>1
  <2> QED
    BY <2>6, <2>7, <2>8
<1>3. ASSUME NEW w \in saves, SaveBegins(w) PROVE LockInv'
  <2>1. w.store \in Stores /\ w.id \in Ids
    BY DEF Saves
  <2>2. holder'[w.store].save = w /\ holder'[w.store].status = status[w.id]
    BY <1>3, <2>1 DEF SaveBegins
  <2>3. \A s \in Stores : s # w.store => holder'[s] = holder[s]
    BY <1>3, <2>1 DEF SaveBegins
  <2>4. status' = status /\ row' = row /\ saves' = saves /\ crossed' = crossed
    BY <1>3 DEF SaveBegins, memory
  <2>5. \A s \in Stores : Outdated(s)' => s # w.store /\ Outdated(s)
    BY <2>2, <2>3, <2>4
  <2>6. \A s \in Stores : holder'[s] # Idle => holder'[s].save \in saves /\ holder'[s].save.store = s
    BY <2>2, <2>3
  <2> QED
    BY <2>3, <2>4, <2>5, <2>6
<1>4. ASSUME NEW s \in Stores, SaveEnds(s) \/ SaveFails(s) PROVE LockInv'
  <2> DEFINE h == holder[s]
  <2>1. holder'[s] = Idle /\ h # Idle /\ \A y \in Stores : y # s => holder'[y] = holder[y]
    BY <1>4 DEF SaveEnds, SaveFails
  <2>2. status' = status /\ saves' = saves \ {h.save} /\ h.save.store = s /\ crossed' = crossed
        /\ h.save \in saves /\ h.save.id \in Ids
    BY <1>4 DEF SaveEnds, SaveFails, memory, Saves
  <2>3. row' = row \/ row' = [row EXCEPT ![PathOf[s]][h.save.id] = h.status]
    BY <1>4 DEF SaveEnds, SaveFails
  \* What another object holds outdated is not written as accepted here.
  <2>4. ASSUME NEW y \in Stores, y # s, Outdated(y), holder[y].save.id \notin crossed
        PROVE  row'[PathOf[y]][holder[y].save.id] # "accepted"
    <3> DEFINE k == holder[y].save.id
    <3>1. row[PathOf[y]][k] # "accepted" /\ holder[y].save \in saves /\ k \in Ids
          /\ holder[y].save.store = y /\ holder[y].save.cause = "made"
      BY <2>4 DEF Saves
    <3>2. CASE h.save.id = k /\ PathOf[s] = PathOf[y]
      <4>1. h.save.cause # "accepted"
        BY <2>2, <2>4, <3>2
      <4>2. h.save.cause = "made"
        BY <2>2, <4>1 DEF Saves
      <4>3. h.save = holder[y].save
        BY <2>2, <3>1, <3>2, <4>2
      <4> QED
        BY <2>2, <2>4, <3>1, <4>3
    <3>3. CASE ~(h.save.id = k /\ PathOf[s] = PathOf[y])
      <4>1. PathOf[s] \in Paths /\ PathOf[y] \in Paths
        BY PersistenceAssumption
      <4> QED
        BY <2>2, <2>3, <3>1, <3>3, <4>1
    <3> QED
      BY <3>2, <3>3
  <2>5. ASSUME NEW y \in Stores, y # s, holder[y] # Idle PROVE holder[y].save \in saves'
    BY <2>2, <2>5
  <2> QED
    BY <2>1, <2>2, <2>4, <2>5
<1>5. CASE \E s \in Stores \cup {None} : Swap(s)
  <2>1. UNCHANGED <<status, holder, row, saves, crossed>>
    BY <1>5 DEF Swap, disk
  <2> QED
    BY <2>1
<1>6. CASE Tick \/ Stop \/ Stopped \/ Restart \/ UNCHANGED vars
  <2>1. UNCHANGED <<status, holder, row, saves, crossed>>
    BY <1>6 DEF Tick, Stop, Stopped, Restart, memory, disk, vars
  <2> QED
    BY <2>1
<1>7. CASE Crash
  BY <1>7 DEF Crash
<1> QED
  BY <1>1, <1>2, <1>3, <1>4, <1>5, <1>6, <1>7 DEF Next

LEMMA KeepsRow == TypeOK /\ LockInv /\ RowInv /\ [Next]_vars => RowInv'
<1> SUFFICES ASSUME TypeOK, LockInv, RowInv, [Next]_vars PROVE RowInv'
  OBVIOUS
<1> USE DEF TypeOK, RowInv, Statuses
<1>1. ASSUME NEW i \in Ids, NEW t \in Texts, Enqueue(i, t) PROVE RowInv'
  <2>1. row' = row /\ mine' = mine \cup {i} /\ status' = [status EXCEPT ![i] = "queued"]
    BY <1>1 DEF Enqueue, disk
  <2>2. \A w \in saves' : w \in saves \/ (w.id = i /\ w.cause = "made")
    BY <1>1 DEF Enqueue, Track, Save
  <2>3. status[i] = "none"
    BY <1>1 DEF Enqueue
  <2> QED
    BY <2>1, <2>2, <2>3 DEF Saves
<1>2. ASSUME NEW i \in Ids, Accept(i) PROVE RowInv'
  <2>1. row' = row /\ mine' = mine /\ status' = [status EXCEPT ![i] = "accepted"]
    BY <1>2 DEF Accept, TakesUp, disk
  <2>2. \A w \in saves' : w \in saves \/ w.id = i
    BY <1>2 DEF Accept, Track, Save
  <2> QED
    BY <2>1, <2>2 DEF Saves
<1>3. ASSUME NEW w \in saves, SaveBegins(w) PROVE RowInv'
  BY <1>3 DEF SaveBegins, memory
<1>4. ASSUME NEW s \in Stores, SaveEnds(s) PROVE RowInv'
  <2>1. mine' = mine /\ status' = status /\ saves' \subseteq saves
    BY <1>4 DEF SaveEnds, memory
  <2>2. row' = [row EXCEPT ![PathOf[s]][holder[s].save.id] = holder[s].status]
    BY <1>4 DEF SaveEnds
  <2>3. /\ holder[s].status = "accepted" => status[holder[s].save.id] = "accepted"
        /\ status[holder[s].save.id] # "none"
    BY <1>4 DEF SaveEnds, LockInv, Outdated
  <2>4. \A p \in Paths, i \in Ids : /\ row'[p][i] = "accepted" => status[i] = "accepted"
                                    /\ row'[p][i] # "none" => status[i] # "none"
    BY <2>2, <2>3
  <2> QED
    BY <2>1, <2>4
<1>5. ASSUME NEW s \in Stores, SaveFails(s) PROVE RowInv'
  BY <1>5 DEF SaveFails, memory
<1>6. CASE \E s \in Stores \cup {None} : Swap(s)
  BY <1>6 DEF Swap, disk
<1>7. CASE Tick \/ Stop \/ Stopped \/ Restart
  BY <1>7 DEF Tick, Stop, Stopped, Restart, memory, disk
<1>8. CASE Crash
  BY <1>8 DEF Crash
<1>9. CASE UNCHANGED vars
  BY <1>9 DEF vars
<1> QED
  BY <1>1, <1>2, <1>3, <1>4, <1>5, <1>6, <1>7, <1>8, <1>9 DEF Next

LEMMA KeepsServed == Inv /\ [Next]_vars => ServedInv'
<1> SUFFICES ASSUME Inv, [Next]_vars PROVE ServedInv'
  OBVIOUS
<1> USE DEF Inv
<1>1. ASSUME NEW i \in Ids, NEW t \in Texts, Enqueue(i, t) PROVE ServedInv'
  <2>1. holder' = holder /\ row' = row /\ saves \subseteq saves' /\ failed' = failed
        /\ atStop' = atStop /\ at' = "up" /\ at = "up" /\ mine' = mine \cup {i} /\ crossed' = crossed
    BY <1>1 DEF Enqueue, Track, disk
  <2>2. \A j \in Ids \ {i} : home'[j] = home[j] /\ status'[j] = status[j]
    BY <1>1 DEF Enqueue, Track, TypeOK
  <2>3. home'[i] # None => Save(i, store, "made") \in saves' /\ home'[i] = PathOf[store] /\ store \in Stores
    BY <1>1 DEF Enqueue, Track, TypeOK
  <2>4. \A w \in saves : w.id # i
    BY <1>1 DEF Enqueue, RowInv
  <2>5. store \in Stores /\ holder[store] # Idle => holder[store].save # Save(i, store, "made")
    BY <2>4 DEF LockInv, Save
  <2>6. Served(i, saves)'
    BY <2>1, <2>3, <2>5 DEF Served, Due, Save
  <2>7. \A j \in (mine \ (failed \cup crossed)) \ {i} : Served(j, saves)'
    BY <2>1, <2>2 DEF Served, Due, ServedInv, TypeOK
  <2> QED
    BY <2>1, <2>6, <2>7 DEF ServedInv
<1>2. ASSUME NEW i \in Ids, Accept(i) PROVE ServedInv'
  <2>1. holder' = holder /\ row' = row /\ saves \subseteq saves' /\ failed' = failed
        /\ atStop' = atStop /\ at' = at /\ mine' = mine /\ awaited' = awaited /\ crossed \subseteq crossed'
    BY <1>2 DEF Accept, TakesUp, Track, disk
  <2>2. \A j \in Ids \ {i} : home'[j] = home[j] /\ status'[j] = status[j]
    BY <1>2 DEF Accept, TakesUp, Track, TypeOK
  <2>3. home'[i] # None => Save(i, store, "accepted") \in saves' /\ home'[i] = PathOf[store] /\ store \in Stores
    BY <1>2 DEF Accept, Track, TypeOK
  <2>4. \A w \in saves : w.id = i => w.cause # "accepted"
    BY <1>2 DEF Accept, TakesUp, RowInv
  <2>5. store \in Stores /\ holder[store] # Idle => holder[store].save # Save(i, store, "accepted")
    BY <2>4 DEF LockInv, Save
  <2>6. Served(i, saves)'
    BY <2>1, <2>3, <2>5 DEF Served, Due, Save
  <2>7. \A j \in (mine \ (failed \cup crossed)) \ {i} : Served(j, saves)'
    BY <2>1, <2>2 DEF Served, Due, ServedInv, TypeOK
  <2>8. ASSUME at \in {"stopping", "down"}, NEW j \in atStop \ (failed \cup crossed)
        PROVE  j \in mine' /\ status'[j] = "accepted" /\ Served(j, awaited)'
    <3>1. j \in Ids /\ j # i
      BY <2>8, <1>2 DEF Accept, TakesUp, ServedInv, TypeOK
    <3> QED
      BY <2>1, <2>2, <2>8, <3>1 DEF Served, Due, ServedInv
  <2> QED
    BY <2>1, <2>6, <2>7, <2>8 DEF ServedInv
<1>3. ASSUME NEW w \in saves, SaveBegins(w) PROVE ServedInv'
  <2>1. status' = status /\ row' = row /\ saves' = saves /\ home' = home /\ mine' = mine
        /\ failed' = failed /\ at' = at /\ atStop' = atStop /\ awaited' = awaited /\ crossed' = crossed
    BY <1>3 DEF SaveBegins, memory
  <2>2. w.store \in Stores /\ holder'[w.store].save = w /\ holder'[w.store].status = status[w.id]
        /\ \A s \in Stores : s # w.store => holder'[s] = holder[s]
    BY <1>3 DEF SaveBegins, TypeOK, Saves
  <2>3. \A v \in saves : Due(v) => Due(v)'
    BY <2>1, <2>2 DEF Due, TypeOK, Saves
  <2>4. \A i \in Ids : /\ Served(i, saves) => Served(i, saves)'
                       /\ Served(i, awaited) => Served(i, awaited)'
    BY <2>1, <2>3 DEF Served, Due
  <2> QED
    BY <2>1, <2>4 DEF ServedInv, TypeOK
<1>4. ASSUME NEW s \in Stores, SaveEnds(s) PROVE ServedInv'
  <2>1. status' = status /\ home' = home /\ mine' = mine /\ failed' = failed
        /\ at' = at /\ atStop' = atStop /\ awaited' = awaited /\ crossed' = crossed
    BY <1>4 DEF SaveEnds, memory
  <2> DEFINE h == holder[s]
  <2>2. h # Idle /\ h.save \in saves /\ h.save.store = s /\ h.save.id \in Ids
        /\ saves' = saves \ {h.save}
    BY <1>4 DEF SaveEnds, LockInv, TypeOK, Saves
  <2>10. PathOf[s] \in Paths
    BY PersistenceAssumption
  <2>3. row' = [row EXCEPT ![PathOf[s]][h.save.id] = h.status] /\ holder' = [holder EXCEPT ![s] = Idle]
    BY <1>4 DEF SaveEnds
  <2>4. \A v \in saves : Due(v) /\ v # h.save => Due(v)'
    BY <2>1, <2>2, <2>3 DEF Due, TypeOK, Saves
  <2>5. h.status # status[h.save.id] /\ h.save.id \notin crossed
          => row[PathOf[s]][h.save.id] # status[h.save.id]
    BY <2>2 DEF LockInv, Outdated
  <2>6. ASSUME NEW i \in Ids \ crossed, home[i] # None, row[home[i]][i] = status[i]
        PROVE  row'[home[i]][i] = status[i]
    <3>1. home[i] \in Paths
      BY <2>6 DEF TypeOK
    <3>2. CASE home[i] = PathOf[s] /\ h.save.id = i
      BY <2>2, <2>3, <2>5, <2>6, <2>10, <3>1, <3>2 DEF TypeOK
    <3>3. CASE ~(home[i] = PathOf[s] /\ h.save.id = i)
      BY <2>2, <2>3, <2>6, <2>10, <3>1, <3>3 DEF TypeOK
    <3> QED
      BY <3>2, <3>3
  <2>7. ASSUME NEW i \in Ids, home[i] # None, h.save.id = i, PathOf[h.save.store] = home[i], Due(h.save)
        PROVE  row'[home[i]][i] = status[i]
    BY <2>2, <2>3, <2>7, <2>10 DEF Due, TypeOK
  <2>8. \A i \in Ids \ crossed : /\ Served(i, saves) => Served(i, saves)'
                                 /\ Served(i, awaited) => Served(i, awaited)'
    BY <2>1, <2>2, <2>4, <2>6, <2>7 DEF Served, Due
  <2> QED
    BY <2>1, <2>8 DEF ServedInv, TypeOK
<1>5. ASSUME NEW s \in Stores, SaveFails(s) PROVE ServedInv'
  <2>1. status' = status /\ home' = home /\ mine' = mine /\ row' = row /\ crossed' = crossed
        /\ at' = at /\ atStop' = atStop /\ awaited' = awaited
    BY <1>5 DEF SaveFails, memory
  <2> DEFINE h == holder[s]
  <2>2. saves' = saves \ {h.save} /\ failed' = failed \cup {h.save.id} /\ holder' = [holder EXCEPT ![s] = Idle]
    BY <1>5 DEF SaveFails
  <2>3. \A v \in saves : Due(v) /\ v # h.save => Due(v)'
    BY <2>1, <2>2 DEF Due, TypeOK, Saves
  <2>4. ASSUME NEW i \in Ids, i \notin failed'
        PROVE  /\ i \notin failed
               /\ Served(i, saves) => Served(i, saves)'
               /\ Served(i, awaited) => Served(i, awaited)'
    BY <2>1, <2>2, <2>3, <2>4 DEF Served, Due
  <2>5. ASSUME NEW i \in mine \ (failed \cup crossed)' PROVE Served(i, saves)'
    <3>1. i \in Ids /\ i \notin failed' /\ i \notin crossed
      BY <2>1 DEF TypeOK
    <3>2. Served(i, saves)
      BY <2>4, <3>1 DEF ServedInv
    <3> QED
      BY <2>4, <3>1, <3>2
  <2>6. ASSUME at \in {"stopping", "down"}, NEW i \in atStop \ (failed \cup crossed)'
        PROVE  i \in mine /\ status[i] = "accepted" /\ Served(i, awaited)'
    <3>1. i \in Ids /\ i \notin failed' /\ i \notin crossed
      BY <2>1 DEF TypeOK
    <3>2. i \in mine /\ status[i] = "accepted" /\ Served(i, awaited)
      BY <2>4, <2>6, <3>1 DEF ServedInv
    <3> QED
      BY <2>4, <3>1, <3>2
  <2> QED
    BY <2>1, <2>5, <2>6 DEF ServedInv
<1>6. CASE (\E s \in Stores \cup {None} : Swap(s)) \/ Tick \/ UNCHANGED vars
  <2>1. UNCHANGED <<status, home, mine, failed, crossed, at, atStop, awaited, saves, holder, row>>
    BY <1>6 DEF Swap, Tick, disk, memory, vars
  <2> QED
    BY <2>1 DEF ServedInv, Served, Due
<1>7. CASE Stop
  <2>1. UNCHANGED <<status, home, mine, failed, crossed, saves, holder, row>> /\ awaited' = saves
        /\ at' = "stopping" /\ atStop' = {i \in mine : status[i] = "accepted"}
    BY <1>7 DEF Stop, disk, memory
  <2> QED
    BY <2>1 DEF ServedInv, Served, Due
<1>8. CASE Stopped
  <2>1. UNCHANGED <<status, home, mine, failed, crossed, saves, holder, row, atStop>> /\ awaited' = {}
        /\ at = "stopping" /\ at' = "down" /\ awaited \cap saves = {}
    BY <1>8 DEF Stopped, disk, memory
  <2> QED
    BY <2>1 DEF ServedInv, Served, Due
<1>9. CASE Crash
  BY <1>9 DEF Crash, ServedInv
<1>10. CASE Restart
  <2>1. UNCHANGED <<status, home, mine, failed, crossed, saves, holder, row>> /\ at' = "up"
    BY <1>10 DEF Restart, disk
  <2> QED
    BY <2>1 DEF ServedInv, Served, Due
<1> QED
  BY <1>1, <1>2, <1>3, <1>4, <1>5, <1>6, <1>7, <1>8, <1>9, <1>10 DEF Next

LEMMA Invariance == Spec => []Inv
<1>1. Init => Inv
  BY Begin
<1>2. Inv /\ [Next]_vars => Inv'
  BY KeepsTypes, KeepsLock, KeepsRow, KeepsServed DEF Inv
<1> QED
  BY <1>1, <1>2, PTL DEF Spec

\* Every variable keeps its type, the rows and the locks of the databases included.
THEOREM TypeCorrect == Spec => []TypeOK
  BY Invariance, PTL DEF Inv

\* Once the saves of a suggestion are over and none failed, its row is up to
\* date, in whatever order they ran (engine.py:105-106, 151-152), with any number
\* of objects on each file, unless one of them was writing the suggestion as it
\* was accepted and another was attached (store.py:51, multi.py:112).
THEOREM RowsFollow == Spec => []RowsCatchUp
<1>1. Inv => RowsCatchUp
  BY DEF Inv, ServedInv, Served, RowsCatchUp
<1> QED
  BY <1>1, Invariance, PTL

\* What was accepted before stop() is in the database after it, if no save of
\* it failed and it was not accepted while an object other than the attached one
\* wrote it to the same file (engine.py:86-87, store.py:51).
THEOREM StopIsFlushed == Spec => []StopFlushes
<1>1. Inv => StopFlushes
  BY DEF Inv, ServedInv, Served, StopFlushes
<1> QED
  BY <1>1, Invariance, PTL

\* Every step of the engine, of the threads that save and of what stops them is
\* one of the ledger or leaves it alone: an acceptance is taken back only of a
\* suggestion that another object was writing to the same file as it was accepted
\* (engine.py:99-109, 138-154, store.py:51, 91-98).
THEOREM LedgerImplemented == Spec => ImplementsLedger
<1>1. Init => Ledger!Init
  BY DEF Init, Ledger!Init
<1>2. Inv /\ [Next]_vars => [Ledger!Next]_(Ledger!vars)
  <2> SUFFICES ASSUME Inv, [Next]_vars PROVE [Ledger!Next]_(Ledger!vars)
    OBVIOUS
  <2>1. ASSUME NEW i \in Ids, NEW t \in Texts, Enqueue(i, t) PROVE Ledger!Next
    BY <2>1 DEF Enqueue, disk, Ledger!Make, Ledger!Next
  <2>2. ASSUME NEW i \in Ids, Accept(i) PROVE Ledger!Next
    BY <2>2 DEF Accept, TakesUp, disk, Ledger!Accept, Ledger!Next
  <2>3. ASSUME NEW s \in Stores, SaveEnds(s) PROVE Ledger!Next
    <3> DEFINE h == holder[s]
               i == h.save.id
               p == PathOf[s]
    <3>1. row' = [row EXCEPT ![p][i] = h.status] /\ UNCHANGED <<status, crossed>> /\ h # Idle
      BY <2>3 DEF SaveEnds, memory
    <3>2. h.save \in saves /\ i \in Ids /\ p \in Paths /\ status[i] # "none"
      BY <3>1, PersistenceAssumption DEF Inv, LockInv, RowInv, TypeOK, Saves
    <3>3. /\ h.status \in {"queued", "accepted"}
          /\ h.status = "accepted" => status[i] = "accepted"
          /\ row[p][i] = "accepted" /\ i \notin crossed => h.status = "accepted"
      BY <3>1, <3>2 DEF Inv, LockInv, Outdated, RowInv, TypeOK, Statuses
    <3> HIDE DEF h, i, p
    <3>4. Ledger!Write(p, i)
      BY <3>1, <3>2, <3>3 DEF Ledger!Write
    <3> QED
      BY <3>2, <3>4 DEF Ledger!Next
  <2>4. CASE \/ \E w \in saves : SaveBegins(w)
             \/ \E s \in Stores : SaveFails(s)
             \/ \E s \in Stores \cup {None} : Swap(s)
             \/ Tick \/ Stop \/ Stopped \/ Crash \/ Restart \/ UNCHANGED vars
    <3>1. UNCHANGED <<status, row, crossed>>
      BY <2>4 DEF SaveBegins, SaveFails, Swap, Tick, Stop, Stopped, Crash, Restart, vars, disk, memory
    <3> QED
      BY <3>1 DEF Ledger!vars
  <2> QED
    BY <2>1, <2>2, <2>3, <2>4 DEF Next
<1> QED
  BY <1>1, <1>2, Invariance, PTL DEF Spec, ImplementsLedger, Ledger!Spec

-----------------------------------------------------------------------------
(* The duplicates filter.                                                  *)

\* Every set of numbers that is not empty has a least element.
LEMMA Least ==
    ASSUME NEW T, T \subseteq Nat, T # {}
    PROVE  \E m \in T : \A k \in T : m <= k
<1>1. PICK R : IsWellFoundedOn(R, Nat) /\ \A k, m \in Nat : k < m => <<k, m>> \in R
  <2>1. IsWellFoundedOn(OpToRel(<, Nat), Nat)
    BY NatLessThanWellFounded, Zenon
  <2>2. \A k, m \in Nat : k < m => <<k, m>> \in OpToRel(<, Nat)
    BY DEF OpToRel
  <2> QED
    BY <2>1, <2>2, Zenon
<1>2. IsWellFoundedOn(R, Nat) /\ T # {} /\ T \subseteq Nat
  BY <1>1
<1>3. PICK m \in T : \A k \in T : ~(<<k, m>> \in R)
  BY <1>2, WFMin, Zenon
<1>4. ASSUME NEW k \in T PROVE m <= k
  <2>1. k \in Nat /\ m \in Nat /\ <<k, m>> \notin R
    BY <1>3
  <2>2. ~(k < m)
    BY <1>1, <2>1, Zenon
  <2> QED
    BY <2>1, <2>2
<1> QED
  BY <1>4

\* A text accepted within the window is one that the filter knows, with a time
\* that is not older, unless that is recorded.
Remembered(i) ==
    Accepted(i) /\ now - ts[i] < Window /\ text[i] \notin beyond
        => said[text[i]] # None /\ (text[i] \notin setBack => said[text[i]] >= ts[i])

\* A time is that of a suggestion of the text.
Sourced(known) ==
    \A t \in Texts : known[t] # None => \E i \in Ids : status[i] # "none" /\ text[i] = t /\ ts[i] = known[t]

\* The inductive invariant behind NoRepeat.
FilterInv ==
    /\ \A w \in saves : w.id \in mine
    /\ at = "dead" => mine = {}
    /\ \A i \in Ids : status[i] # "none" => text[i] \in Texts
    /\ said \in [Texts -> Times \cup {None}]
    /\ Sourced(said)
    /\ \A i \in Ids : Remembered(i)
    /\ repeated \subseteq beyond

\* What the rows N of a database make of what is known of each text.
LEMMA RestoredTimes ==
  ASSUME TypeOK, NEW N \in SUBSET Ids, NEW known \in [Texts -> Times \cup {None}], NEW t \in Texts,
         NEW Of, Of = {i \in N : text[i] = t /\ now - ts[i] <= Horizon}
  PROVE  /\ Of = {} => Restored(N, known)[t] = known[t]
         /\ Of # {} => \E i \in Of : Restored(N, known)[t] = ts[i]
         /\ \A i \in Of : Restored(N, known)[t] <= ts[i]
<1> DEFINE S == {ts[i] : i \in Of}
<1>1. Restored(N, known)[t] = IF Of = {} THEN known[t] ELSE Min(S)
  BY DEF Restored
<1>2. S \subseteq Nat
  BY DEF TypeOK, Times
<1>3. ASSUME Of # {} PROVE Min(S) \in S /\ \A k \in S : Min(S) <= k
  <2>1. S # {}
    BY <1>3
  <2> HIDE DEF S
  <2>2. \E m \in S : \A k \in S : m <= k
    BY <1>2, <2>1, Least
  <2> QED
    BY <2>2, Zenon DEF Min
<1> QED
  BY <1>1, <1>3

\* Restoring the filter from rows N of the database p keeps what it needs: it was
\* right of what this process accepted, and becomes right of the rows.
LEMMA RestoreRemembers ==
  ASSUME TypeOK, RowInv, NEW p \in Paths, NEW N \in Newest(p),
         NEW known \in [Texts -> Times \cup {None}], NEW lost, NEW old,
         \A i \in Ids : status[i] # "none" => text[i] \in Texts,
         Sourced(known),
         \A i \in mine : status[i] = "accepted" /\ now - ts[i] < Window /\ text[i] \notin lost
            => known[text[i]] # None /\ (text[i] \notin old => known[text[i]] >= ts[i])
  PROVE  /\ Restored(N, known) \in [Texts -> Times \cup {None}]
         /\ Sourced(Restored(N, known))
         /\ \A i \in Ids :
              /\ status[i] = "accepted" /\ (i \in mine \/ row[p][i] = "accepted")
              /\ now - ts[i] < Window /\ text[i] \notin lost \cup Missed(p, N, known)
              => /\ Restored(N, known)[text[i]] # None
                 /\ text[i] \notin old \cup SetBackBy(N, known) => Restored(N, known)[text[i]] >= ts[i]
<1> USE PersistenceAssumption DEF TypeOK, Times
<1> DEFINE Of(t) == {i \in N : text[i] = t /\ now - ts[i] <= Horizon}
           time(t) == Restored(N, known)[t]
<1>1. N \subseteq Rows(p) /\ Rows(p) \subseteq Ids /\ \A i \in Rows(p) : status[i] # "none"
  BY DEF Newest, Rows, RowInv
<1>2. \A t \in Texts : /\ Of(t) = {} => time(t) = known[t]
                       /\ Of(t) # {} => \E i \in Of(t) : time(t) = ts[i]
                       /\ \A i \in Of(t) : time(t) <= ts[i]
  <2> SUFFICES ASSUME NEW t \in Texts
               PROVE  /\ Of(t) = {} => time(t) = known[t]
                      /\ Of(t) # {} => \E i \in Of(t) : time(t) = ts[i]
                      /\ \A i \in Of(t) : time(t) <= ts[i]
    OBVIOUS
  <2>1. N \in SUBSET Ids
    BY <1>1
  <2> QED
    BY <2>1, RestoredTimes
<1>3. \A t \in Texts : time(t) \in Times \cup {None} /\ (Of(t) # {} => time(t) \in Times)
  <2> SUFFICES ASSUME NEW t \in Texts
               PROVE  time(t) \in Times \cup {None} /\ (Of(t) # {} => time(t) \in Times)
    OBVIOUS
  <2>1. CASE Of(t) = {}
    BY <1>2, <2>1
  <2>2. CASE Of(t) # {}
    <3>1. PICK i \in Of(t) : time(t) = ts[i]
      BY <1>2, <2>2
    <3> QED
      BY <1>1, <3>1
  <2> QED
    BY <2>1, <2>2
<1>4. Restored(N, known) \in [Texts -> Times \cup {None}]
  <2>1. Restored(N, known) = [t \in Texts |-> time(t)]
    BY DEF Restored
  <2> HIDE DEF time
  <2> QED
    BY <1>3, <2>1
<1>5. Sourced(Restored(N, known))
  <2> SUFFICES ASSUME NEW t \in Texts, time(t) # None
               PROVE  \E i \in Ids : status[i] # "none" /\ text[i] = t /\ ts[i] = time(t)
    BY DEF Sourced
  <2>1. CASE Of(t) = {}
    <3>1. time(t) = known[t]
      BY <1>2, <2>1
    <3> QED
      BY <3>1 DEF Sourced
  <2>2. CASE Of(t) # {}
    <3>1. PICK i \in Of(t) : time(t) = ts[i]
      BY <1>2, <2>2
    <3> QED
      BY <1>1, <3>1
  <2> QED
    BY <2>1, <2>2
<1>6. ASSUME NEW i \in Ids, status[i] = "accepted", i \in mine \/ row[p][i] = "accepted",
             now - ts[i] < Window, text[i] \notin lost \cup Missed(p, N, known)
      PROVE  time(text[i]) # None /\ (text[i] \notin old \cup SetBackBy(N, known) => time(text[i]) >= ts[i])
  <2> DEFINE t == text[i]
  <2>1. t \in Texts /\ ts[i] \in Nat /\ now - ts[i] <= Horizon
    BY <1>6
  \* Its row was read, ...
  <2>2. CASE i \in N
    <3>1. i \in Of(t)
      BY <2>1, <2>2
    <3>2. time(t) \in Nat
      BY <1>3, <2>1, <3>1
    <3>3. t \notin SetBackBy(N, known) => ~(ts[i] > time(t))
      BY <2>1, <2>2, <3>2 DEF SetBackBy
    <3> QED
      BY <2>1, <3>2, <3>3
  \* ... or was not, and the text has a time that is not older, ...
  <2>3. CASE i \in Rows(p) \ N
    <3>1. ~(time(t) = None \/ time(t) < ts[i])
      BY <1>6, <2>1, <2>3 DEF Missed
    <3>2. time(t) \in Nat
      BY <1>3, <2>1, <3>1
    <3> QED
      BY <2>1, <3>1, <3>2
  \* ... or it has none, and was known.
  <2>4. CASE i \notin Rows(p)
    <3>1. i \in mine
      BY <1>6, <2>4 DEF Rows
    <3>2. known[t] # None /\ (t \notin old => known[t] >= ts[i]) /\ known[t] \in Nat
      BY <1>6, <2>1, <3>1
    <3>3. CASE Of(t) = {}
      BY <1>2, <2>1, <3>2, <3>3
    <3>4. CASE Of(t) # {}
      <4>1. time(t) \in Nat
        BY <1>3, <2>1, <3>4
      <4>2. t \notin SetBackBy(N, known) => ~(known[t] > time(t))
        BY <2>1, <3>2, <4>1 DEF SetBackBy
      <4> QED
        BY <2>1, <3>2, <4>1, <4>2
    <3> QED
      BY <3>3, <3>4
  <2> QED
    BY <1>1, <2>2, <2>3, <2>4
<1> QED
  BY <1>4, <1>5, <1>6

LEMMA KeepsFilter == Inv /\ FilterInv /\ [Next]_vars => FilterInv'
<1> SUFFICES ASSUME Inv, FilterInv, [Next]_vars PROVE FilterInv'
  OBVIOUS
<1> USE PersistenceAssumption DEF Inv, TypeOK, Times, Statuses
<1>1. ASSUME NEW i \in Ids, NEW t \in Texts, Enqueue(i, t) PROVE FilterInv'
  <2>1. /\ mine' = mine \cup {i} /\ at' = at /\ at = "up" /\ now' = now /\ said' = said
        /\ UNCHANGED <<row, store, setBack, beyond>>
        /\ status' = [status EXCEPT ![i] = "queued"] /\ status[i] = "none"
        /\ text' = [text EXCEPT ![i] = t] /\ ts' = [ts EXCEPT ![i] = now]
    BY <1>1 DEF Enqueue, disk
  <2>2. \A w \in saves' : w \in saves \/ w.id = i
    BY <1>1 DEF Enqueue, Track, Save
  <2>3. Sourced(said)'
    BY <2>1 DEF FilterInv, Sourced
  \* A text accepted within the window is one that the filter has.
  <2>4. repeated' \subseteq beyond
    <3>1. repeated' = repeated \cup {x \in {t} : Repeats(x)} /\ ~AlreadySaid(t)
      BY <1>1 DEF Enqueue
    <3>2. ASSUME t \notin beyond, Repeats(t) PROVE FALSE
      <4>1. PICK j \in Ids : Accepted(j) /\ text[j] = t /\ now - ts[j] < Window
        BY <3>2 DEF Repeats
      <4>2. said[t] # None /\ said[t] \in Nat /\ (t \notin setBack => said[t] >= ts[j])
        BY <3>2, <4>1 DEF FilterInv, Remembered
      <4>3. PICK k \in Ids : status[k] # "none" /\ text[k] = t /\ ts[k] = said[t]
        BY <4>2 DEF FilterInv, Sourced
      <4>4. t \in setBack => now - said[t] < Window
        BY <3>2, <4>3 DEF Repeats
      <4>5. t \notin setBack => now - said[t] < Window
        BY <4>1, <4>2
      <4> QED
        BY <3>1, <4>2, <4>4, <4>5 DEF AlreadySaid
    <3> QED
      BY <3>1, <3>2 DEF FilterInv
  <2>5. \A j \in Ids : Remembered(j)'
    BY <2>1 DEF FilterInv, Remembered, Accepted
  <2> QED
    BY <2>1, <2>2, <2>3, <2>4, <2>5 DEF FilterInv
<1>2. ASSUME NEW i \in Ids, Accept(i) PROVE FilterInv'
  <2> DEFINE t == text[i]
  <2>1. /\ UNCHANGED <<mine, at, now, repeated, row, store, text, ts, beyond>>
        /\ status' = [status EXCEPT ![i] = "accepted"] /\ status[i] = "queued" /\ i \in mine
        /\ said' = [said EXCEPT ![t] = ts[i]]
        /\ setBack' = setBack \cup {x \in {t} : said[x] # None /\ said[x] > ts[i]}
    BY <1>2 DEF Accept, TakesUp, disk, Pushed
  <2>2. \A w \in saves' : w \in saves \/ w.id = i
    BY <1>2 DEF Accept, Track, Save
  <2>3. t \in Texts /\ ts[i] \in Times /\ said \in [Texts -> Times \cup {None}]
    BY <2>1 DEF FilterInv
  <2>4. said' \in [Texts -> Times \cup {None}]
    BY <2>1, <2>3
  <2>5. Sourced(said)'
    <3> SUFFICES ASSUME NEW x \in Texts, said'[x] # None
                 PROVE  \E k \in Ids : status'[k] # "none" /\ text'[k] = x /\ ts'[k] = said'[x]
      BY DEF Sourced
    <3>1. CASE x = t
      BY <2>1, <2>3, <3>1
    <3>2. CASE x # t
      <4>1. PICK k \in Ids : status[k] # "none" /\ text[k] = x /\ ts[k] = said[x]
        BY <2>1, <2>3, <3>2 DEF FilterInv, Sourced
      <4> QED
        BY <2>1, <2>3, <3>2, <4>1
    <3> QED
      BY <3>1, <3>2
  <2>6. ASSUME NEW j \in Ids, Accepted(j)', now - ts[j] < Window, text[j] \notin beyond
        PROVE  said'[text[j]] # None /\ (text[j] \notin setBack' => said'[text[j]] >= ts[j])
    <3>1. j = i \/ Accepted(j)
      BY <2>1, <2>6 DEF Accepted
    <3>2. j = i \/ (said[text[j]] # None /\ (text[j] \notin setBack => said[text[j]] >= ts[j]))
      BY <2>6, <3>1 DEF FilterInv, Remembered
    <3>3. CASE text[j] = t
      <4>1. said'[t] = ts[i] /\ ts[i] \in Nat /\ ts[j] \in Nat /\ said[t] \in Nat \cup {None}
        BY <2>1, <2>3
      <4>2. t \notin setBack' => t \notin setBack /\ ~(said[t] # None /\ said[t] > ts[i])
        BY <2>1
      <4> QED
        BY <3>2, <3>3, <4>1, <4>2
    <3>4. CASE text[j] # t
      <4>1. text[j] \in Texts /\ j # i
        <5>1. j # i /\ Accepted(j)
          BY <3>1, <3>4
        <5> QED
          BY <5>1 DEF Accepted, FilterInv
      <4>2. said'[text[j]] = said[text[j]] /\ (text[j] \notin setBack' => text[j] \notin setBack)
        BY <2>1, <2>3, <3>4, <4>1
      <4> QED
        BY <3>2, <4>1, <4>2
    <3> QED
      BY <3>3, <3>4
  <2>7. \A j \in Ids : Remembered(j)'
    BY <2>1, <2>6 DEF Remembered
  <2> QED
    BY <2>1, <2>2, <2>4, <2>5, <2>7 DEF FilterInv
<1>3. ASSUME NEW s \in Stores, SaveEnds(s) PROVE FilterInv'
  <2>1. UNCHANGED <<now, at, memory, store>> /\ saves' \subseteq saves
        /\ row' = [row EXCEPT ![PathOf[s]][holder[s].save.id] = holder[s].status]
    BY <1>3 DEF SaveEnds
  <2>2. holder[s].save.id \in mine
    BY <1>3 DEF SaveEnds, LockInv, FilterInv
  <2>3. \A i \in Ids : Accepted(i)' => Accepted(i)
    BY <2>1, <2>2 DEF Accepted, memory
  <2> QED
    BY <2>1, <2>3 DEF FilterInv, Remembered, Sourced, memory, filter
<1>4. CASE \/ \E w \in saves : SaveBegins(w)
           \/ \E s \in Stores : SaveFails(s)
           \/ Stop \/ Stopped \/ UNCHANGED vars
  <2>1. UNCHANGED <<now, memory, store, row>> /\ saves' \subseteq saves
        /\ (at' = "dead" => at = "dead")
    BY <1>4 DEF SaveBegins, SaveFails, Stop, Stopped, vars, disk, memory, filter
  <2> QED
    BY <2>1 DEF FilterInv, Remembered, Accepted, Sourced, memory, filter
<1>5. CASE Tick
  <2>1. UNCHANGED <<at, memory, store, saves, row>> /\ now' = now + 1
    BY <1>5 DEF Tick, disk
  <2>2. \A i \in Ids : now' - ts[i] < Window => now - ts[i] < Window
    BY <2>1
  <2> QED
    BY <2>1, <2>2 DEF FilterInv, Remembered, Accepted, Sourced, memory, filter
<1>6. ASSUME NEW s \in Stores \cup {None}, Swap(s) PROVE FilterInv'
  <2>1. UNCHANGED <<now, at, text, ts, status, mine, saves, row, repeated>>
        /\ store' = s /\ at # "dead"
    BY <1>6 DEF Swap, disk
  <2>2. CASE s = None
    <3>1. UNCHANGED <<said, setBack, beyond>>
      BY <1>6, <2>2 DEF Swap
    <3>2. \A i \in Ids : Accepted(i)' => Accepted(i)
      BY <2>1, <2>2 DEF Accepted
    <3> QED
      BY <2>1, <3>1, <3>2 DEF FilterInv, Remembered, Sourced
  <2>3. CASE s # None
    <3> DEFINE p == PathOf[s]
    <3>1. PICK N \in Newest(p) : /\ said' = Restored(N, said)
                                 /\ setBack' = setBack \cup SetBackBy(N, said)
                                 /\ beyond' = beyond \cup Missed(p, N, said)
      BY <1>6, <2>3 DEF Swap
    <3>2. p \in Paths /\ \A i \in Ids : status[i] # "none" => text[i] \in Texts
      BY <2>3 DEF FilterInv
    <3>3. \A i \in mine : status[i] = "accepted" /\ now - ts[i] < Window /\ text[i] \notin beyond
             => said[text[i]] # None /\ (text[i] \notin setBack => said[text[i]] >= ts[i])
      BY DEF FilterInv, Remembered, Accepted
    <3>4. said \in [Texts -> Times \cup {None}] /\ Sourced(said) /\ TypeOK /\ RowInv
      BY DEF FilterInv
    <3> HIDE DEF p
    <3>5. /\ Restored(N, said) \in [Texts -> Times \cup {None}]
          /\ Sourced(Restored(N, said))
          /\ \A i \in Ids :
               /\ status[i] = "accepted" /\ (i \in mine \/ row[p][i] = "accepted")
               /\ now - ts[i] < Window /\ text[i] \notin beyond \cup Missed(p, N, said)
               => /\ Restored(N, said)[text[i]] # None
                  /\ text[i] \notin setBack \cup SetBackBy(N, said) => Restored(N, said)[text[i]] >= ts[i]
      BY <3>2, <3>3, <3>4, RestoreRemembers
    <3>6. said' \in [Texts -> Times \cup {None}] /\ Sourced(said)'
      BY <2>1, <3>1, <3>5 DEF Sourced
    <3>7. \A i \in Ids : Remembered(i)'
      BY <2>1, <2>3, <3>1, <3>5 DEF Remembered, Accepted, p
    <3> QED
      BY <2>1, <3>1, <3>6, <3>7 DEF FilterInv
  <2> QED
    BY <2>2, <2>3
<1>7. CASE Crash
  <2>1. UNCHANGED <<now, text, ts, status, store, row, filter>> /\ mine' = {} /\ saves' = {}
    BY <1>7 DEF Crash
  <2>2. \A i \in Ids : Accepted(i)' => Accepted(i)
    BY <2>1 DEF Accepted
  <2> QED
    BY <2>1, <2>2 DEF FilterInv, Remembered, Sourced, filter
<1>8. CASE Restart
  <2>1. UNCHANGED <<now, text, ts, status, mine, store, saves, row>>
        /\ mine = {} /\ at' = "up" /\ repeated' = {}
    BY <1>8 DEF Restart, disk, FilterInv
  <2>2. Unknown \in [Texts -> Times \cup {None}] /\ Sourced(Unknown)
    BY DEF Unknown, Sourced
  <2>3. CASE store = None
    <3>1. said' = Unknown
      BY <1>8, <2>3 DEF Restart
    <3>2. Sourced(said)'
      BY <2>1, <2>2, <3>1 DEF Sourced
    <3> QED
      BY <2>1, <2>2, <2>3, <3>1, <3>2 DEF FilterInv, Remembered, Accepted
  <2>4. CASE store # None
    <3> DEFINE p == PathOf[store]
    <3>1. PICK N \in Newest(p) : /\ said' = Restored(N, Unknown)
                                 /\ setBack' = SetBackBy(N, Unknown)
                                 /\ beyond' = Missed(p, N, Unknown)
      BY <1>8, <2>4 DEF Restart
    <3>2. p \in Paths /\ (\A i \in Ids : status[i] # "none" => text[i] \in Texts) /\ TypeOK /\ RowInv
      BY <2>4 DEF FilterInv
    <3>3. \A i \in mine : status[i] = "accepted" /\ now - ts[i] < Window /\ text[i] \notin {}
             => Unknown[text[i]] # None /\ (text[i] \notin {} => Unknown[text[i]] >= ts[i])
      BY <2>1
    <3> HIDE DEF p
    <3>4. /\ Restored(N, Unknown) \in [Texts -> Times \cup {None}]
          /\ Sourced(Restored(N, Unknown))
          /\ \A i \in Ids :
               /\ status[i] = "accepted" /\ (i \in mine \/ row[p][i] = "accepted")
               /\ now - ts[i] < Window /\ text[i] \notin {} \cup Missed(p, N, Unknown)
               => /\ Restored(N, Unknown)[text[i]] # None
                  /\ text[i] \notin {} \cup SetBackBy(N, Unknown) => Restored(N, Unknown)[text[i]] >= ts[i]
      BY <2>2, <3>2, <3>3, RestoreRemembers
    <3>5. said' \in [Texts -> Times \cup {None}] /\ Sourced(said)'
      BY <2>1, <3>1, <3>4 DEF Sourced
    <3>6. \A i \in Ids : Remembered(i)'
      BY <2>1, <2>4, <3>1, <3>4 DEF Remembered, Accepted, p
    <3> QED
      BY <2>1, <3>5, <3>6 DEF FilterInv
  <2> QED
    BY <2>3, <2>4
<1> QED
  BY <1>1, <1>2, <1>3, <1>4, <1>5, <1>6, <1>7, <1>8 DEF Next

\* A text accepted within the window, in this process or before a restart as far
\* as its row was written and is among the Limit newest, is not suggested again,
\* whatever saves, changes of database, stops and crashes come in between.  Where
\* push_reply has put an older time in the place of a newer one, that holds for
\* the window of the text's first suggestion (context.py:17-22, store.py:119-142).
THEOREM NothingIsRepeated == Spec => []NoRepeat
<1>1. Init => FilterInv
  BY PersistenceAssumption
  DEF Init, FilterInv, Remembered, Accepted, Sourced, Times
<1>2. Inv /\ FilterInv /\ [Next]_vars => FilterInv'
  BY KeepsFilter
<1>3. FilterInv => NoRepeat
  BY DEF FilterInv, NoRepeat
<1> QED
  BY <1>1, <1>2, <1>3, Invariance, PTL DEF Spec
=============================================================================
