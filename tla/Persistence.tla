---------------------------- MODULE Persistence ----------------------------
(***************************************************************************)
(* What of an engine's suggestions outlives the process: the save tasks of *)
(* src/livecore/engine.py in their worker threads, the databases of        *)
(* src/livecore/store.py, the duplicates filter of src/livecore/context.py *)
(* and its restoration when an engine is added or the database is changed  *)
(* by a reload (src/livecore/multi.py), with stops and crashes in between. *)
(* There is one room.  A store is a SqliteStore object, with a lock of its *)
(* own; several may be on one path, and write its rows at the same time.  A*)
(* save of a closed store opens it again.                                  *)
(***************************************************************************)
EXTENDS Naturals, FiniteSetsExt

CONSTANTS
    Ids,        \* suggestions
    Texts,      \* what they say
    Stores,     \* SqliteStore objects
    Paths,      \* database files
    PathOf,     \* the file of each object
    None,
    Window,     \* a text is not suggested again for this long (60 s)
    Horizon,    \* rows older than this are not restored (3600 s)
    Limit,      \* no more than the newest so many rows are read (50)
    MaxTime,    \* bound on the clock
    MaxWork     \* bound on what is done: suggestions made, suggestions accepted,
                \* databases changed, saves that fail and crashes, all counted together

ASSUME PersistenceAssumption ==
    /\ None \notin Stores \cup Paths \cup Ids \cup Texts \cup Nat
    /\ PathOf \in [Stores -> Paths]
    /\ MaxTime \in Nat /\ MaxWork \in Nat /\ Limit \in Nat \ {0}
    /\ Window \in 1..MaxTime /\ Horizon \in Nat /\ Window <= Horizon

VARIABLES
    now,
    work,      \* how much has been done
    at,        \* the process: "up", "stopping" (in stop()), "down" (stopped), "dead"
    text, ts,  \* of each suggestion; auxiliary once the process that made it has gone
    status,    \* "none", "queued" or "accepted"
    mine,      \* the suggestions in the engine's list
    said,      \* _last_text: when each text was said, or None
    store,     \* the attached store, or None
    saves,     \* the unfinished tasks of _persist_tasks
    holder,    \* for each store the save that holds its lock, with the status it read
    row,       \* on each path the status in each suggestion's row, or "none"
    awaited,   \* the saves that stop() awaits
    home,      \* auxiliary: the path attached at a suggestion's last change, or None
    failed,    \* auxiliary: suggestions of which a save failed
    crossed,   \* auxiliary: those accepted while another object on the path wrote them
    atStop,    \* auxiliary: the suggestions accepted when stop() began
    repeated,  \* auxiliary: texts suggested again within their window
    setBack,   \* auxiliary: texts of which an older time has replaced a newer one in said
    beyond     \* auxiliary: texts with a row that was not read because of Limit

vars == <<now, work, at, text, ts, status, mine, said, store, saves, holder, row, awaited,
          home, failed, crossed, atStop, repeated, setBack, beyond>>
filter == <<said, repeated, setBack, beyond>>
memory == <<text, ts, status, mine, crossed, filter>>
disk == <<holder, row, failed>>

Idle == [save |-> None, status |-> "none"]
Save(i, s, cause) == [id |-> i, store |-> s, cause |-> cause]
Saves == [id : Ids, store : Stores, cause : {"made", "accepted"}]
Times == 0..MaxTime
Statuses == {"none", "queued", "accepted"}

TypeOK ==
    /\ now \in Times /\ work \in 0..MaxWork /\ at \in {"up", "stopping", "down", "dead"}
    /\ text \in [Ids -> Texts \cup {None}] /\ ts \in [Ids -> Times]
    /\ status \in [Ids -> Statuses] /\ mine \subseteq Ids
    /\ store \in Stores \cup {None}
    /\ saves \subseteq Saves /\ awaited \subseteq Saves
    /\ holder \in [Stores -> [save : Saves \cup {None}, status : Statuses]]
    /\ row \in [Paths -> [Ids -> Statuses]]
    /\ home \in [Ids -> Paths \cup {None}]
    /\ failed \subseteq Ids /\ crossed \subseteq Ids /\ atStop \subseteq Ids

Init ==
    /\ now = 0 /\ work = 0 /\ at = "up" /\ store \in Stores \cup {None}
    /\ text = [i \in Ids |-> None] /\ ts = [i \in Ids |-> 0]
    /\ status = [i \in Ids |-> "none"] /\ mine = {} /\ said = [t \in Texts |-> None]
    /\ saves = {} /\ awaited = {} /\ holder = [s \in Stores |-> Idle]
    /\ row = [p \in Paths |-> [i \in Ids |-> "none"]]
    /\ home = [i \in Ids |-> None] /\ failed = {} /\ crossed = {} /\ atStop = {}
    /\ repeated = {} /\ setBack = {} /\ beyond = {}

-----------------------------------------------------------------------------
Tick == now < MaxTime /\ now' = now + 1
        /\ UNCHANGED <<work, at, memory, store, saves, disk, awaited, home, atStop>>

Work == work < MaxWork /\ work' = work + 1

AlreadySaid(t) == said[t] # None /\ now - said[t] < Window

\* _track(save_suggestion_async(...)), if a store is attached.
Track(i, cause) ==
    /\ home' = [home EXCEPT ![i] = IF store = None THEN None ELSE PathOf[store]]
    /\ saves' = IF store = None THEN saves ELSE saves \cup {Save(i, store, cause)}

\* push_reply: the time of a text is that of the suggestion pushed last.
Pushed(t, time) ==
    /\ said' = [said EXCEPT ![t] = time]
    /\ setBack' = setBack \cup {x \in {t} : said[x] # None /\ said[x] > time}

\* A suggestion that an operator accepted, in this process or by the rows of
\* the database that is attached.
Accepted(i) ==
    status[i] = "accepted" /\ (i \in mine \/ (store # None /\ row[PathOf[store]][i] = "accepted"))

\* Suggesting t would repeat it: it was accepted within the window, and, if its
\* time was set back, no suggestion of it has a time outside the window.
Repeats(t) ==
    /\ \E i \in Ids : Accepted(i) /\ text[i] = t /\ now - ts[i] < Window
    /\ t \in setBack =>
          \A i \in Ids : status[i] # "none" /\ text[i] = t => now - ts[i] < Window

\* _enqueue, of the running engine: a text that was said lately is dropped.
Enqueue(i, t) ==
    /\ Work /\ at = "up" /\ status[i] = "none" /\ ~AlreadySaid(t)
    /\ text' = [text EXCEPT ![i] = t] /\ ts' = [ts EXCEPT ![i] = now]
    /\ status' = [status EXCEPT ![i] = "queued"] /\ mine' = mine \cup {i}
    /\ repeated' = repeated \cup {x \in {t} : Repeats(x)}
    /\ Track(i, "made")
    /\ UNCHANGED <<now, at, said, store, disk, awaited, crossed, atStop, setBack, beyond>>

\* Another object on the path of the attached one is writing what i was.
Crossing(i) ==
    \E s \in Stores \ {store} :
        store # None /\ PathOf[s] = PathOf[store] /\ holder[s] # Idle /\ holder[s].save.id = i

\* What accept() changes apart from the save it schedules.
TakesUp(i) ==
    /\ Work /\ at # "dead" /\ i \in mine /\ status[i] = "queued"
    /\ status' = [status EXCEPT ![i] = "accepted"]
    /\ crossed' = crossed \cup {j \in {i} : Crossing(j)}
    /\ Pushed(text[i], ts[i])
    /\ UNCHANGED <<now, at, text, ts, mine, store, disk, awaited, atStop, repeated, beyond>>

\* Bug: an accepted suggestion is saved only if it was not saved before.
AcceptSavesOnce(i) ==
    TakesUp(i) /\ IF home[i] = None THEN Track(i, "accepted") ELSE UNCHANGED <<saves, home>>

\* accept(), which an operator may call at any time.
Accept(i) == TakesUp(i) /\ Track(i, "accepted")

\* Bug: the save writes what the suggestion was when the save was scheduled.
SaveBeginsStale(w) ==
    /\ w \in saves /\ holder[w.store] = Idle
    /\ holder' = [holder EXCEPT ![w.store] =
          [save |-> w, status |-> IF w.cause = "made" THEN "queued" ELSE "accepted"]]
    /\ UNCHANGED <<now, work, at, memory, store, saves, row, failed, awaited, home, atStop>>

\* save_suggestion in a worker thread: whichever save gets the object's lock
\* first, and it takes the fields of the suggestion as they are by then ...
SaveBegins(w) ==
    /\ w \in saves /\ holder[w.store] = Idle
    /\ holder' = [holder EXCEPT ![w.store] = [save |-> w, status |-> status[w.id]]]
    /\ UNCHANGED <<now, work, at, memory, store, saves, row, failed, awaited, home, atStop>>

\* ... writes and commits the row (INSERT OR REPLACE), one write to the file at
\* a time but in any order with those of other objects, and releases the lock;
SaveEnds(s) ==
    LET h == holder[s] IN
    /\ h # Idle
    /\ row' = [row EXCEPT ![PathOf[s]][h.save.id] = h.status]
    /\ holder' = [holder EXCEPT ![s] = Idle] /\ saves' = saves \ {h.save}
    /\ UNCHANGED <<now, work, at, memory, store, failed, awaited, home, atStop>>

\* ... or the database fails: _persist_done writes to the log and that is all.
SaveFails(s) ==
    LET h == holder[s] IN
    /\ Work /\ h # Idle /\ failed' = failed \cup {h.save.id}
    /\ holder' = [holder EXCEPT ![s] = Idle] /\ saves' = saves \ {h.save}
    /\ UNCHANGED <<now, at, memory, store, row, awaited, home, atStop>>

\* recent_replies: the newest rows, Limit of them at most, whatever their
\* status; which rows of one time come first is up to the database.
Rows(p) == {i \in Ids : row[p][i] # "none"}
Newest(p) == {N \in SUBSET Rows(p) :
                /\ Cardinality(N) = Min({Limit, Cardinality(Rows(p))})
                /\ \A i \in N, j \in Rows(p) \ N : ts[j] <= ts[i]}

\* restore_context of the rows N over what the filter knows: the newest first,
\* so that the oldest one of a text is pushed last.
Restored(N, known) ==
    LET Of(t) == {i \in N : text[i] = t /\ now - ts[i] <= Horizon}
    IN  [t \in Texts |-> IF Of(t) = {} THEN known[t] ELSE Min({ts[i] : i \in Of(t)})]

\* Texts of which the newest time is not the one that is restored: it was known
\* or read before an older one, or its row was not read.
SetBackBy(N, known) ==
    {t \in Texts :
        LET time == Restored(N, known)[t] IN
        /\ time # None
        /\ \/ known[t] # None /\ known[t] > time
           \/ \E i \in N : text[i] = t /\ now - ts[i] <= Horizon /\ ts[i] > time}
Missed(p, N, known) ==
    {t \in Texts :
        LET time == Restored(N, known)[t] IN
        \E i \in Rows(p) \ N : /\ text[i] = t /\ now - ts[i] <= Horizon
                               /\ time = None \/ time < ts[i]}

\* _apply_live_config takes another path or none: the old object is closed
\* (which waits for its lock), and the filter restored from a new one.
Swap(s) ==
    /\ Work /\ at \in {"up", "stopping"} /\ s # store
    /\ store # None => holder[store] = Idle
    /\ s # None => /\ \A w \in saves : w.store # s
                   /\ store # None => PathOf[s] # PathOf[store]
    /\ store' = s
    /\ IF s = None THEN UNCHANGED <<said, setBack, beyond>>
       ELSE \E N \in Newest(PathOf[s]) :
            /\ said' = Restored(N, said)
            /\ setBack' = setBack \cup SetBackBy(N, said)
            /\ beyond' = beyond \cup Missed(PathOf[s], N, said)
    /\ UNCHANGED <<now, at, text, ts, status, mine, saves, disk, awaited, home, crossed, atStop, repeated>>

\* Bug: stop() does not wait for the saves.
StopAtOnce ==
    /\ at = "up" /\ at' = "stopping" /\ awaited' = {}
    /\ atStop' = {i \in mine : status[i] = "accepted"}
    /\ UNCHANGED <<now, work, memory, store, saves, disk, home>>

\* stop(), from the gather that awaits the saves there are by then.
Stop ==
    /\ at = "up" /\ at' = "stopping" /\ awaited' = saves
    /\ atStop' = {i \in mine : status[i] = "accepted"}
    /\ UNCHANGED <<now, work, memory, store, saves, disk, home>>

\* The gather is over; stop_all() closes the store.
Stopped ==
    /\ at = "stopping" /\ awaited \cap saves = {}
    /\ store # None => holder[store] = Idle
    /\ at' = "down" /\ awaited' = {}
    /\ UNCHANGED <<now, work, memory, store, saves, disk, home, atStop>>

\* The process ends, with whatever its threads have not committed.
Crash ==
    /\ Work /\ at # "dead" /\ at' = "dead" /\ mine' = {} /\ saves' = {} /\ awaited' = {}
    /\ holder' = [s \in Stores |-> Idle] /\ atStop' = {}
    /\ UNCHANGED <<now, text, ts, status, store, row, failed, home, crossed, filter>>

Unknown == [t \in Texts |-> None]

\* Bug: a restart begins with an empty filter.
RestartEmpty ==
    /\ at = "dead" /\ at' = "up"
    /\ said' = Unknown /\ repeated' = {} /\ setBack' = {} /\ beyond' = {}
    /\ UNCHANGED <<now, work, text, ts, status, mine, store, saves, disk, awaited, home, crossed, atStop>>

\* A new process on the same database: add_room restores the filter.
Restart ==
    /\ at = "dead" /\ at' = "up" /\ repeated' = {}
    /\ IF store = None THEN said' = Unknown /\ setBack' = {} /\ beyond' = {}
       ELSE \E N \in Newest(PathOf[store]) :
            /\ said' = Restored(N, Unknown)
            /\ setBack' = SetBackBy(N, Unknown)
            /\ beyond' = Missed(PathOf[store], N, Unknown)
    /\ UNCHANGED <<now, work, text, ts, status, mine, store, saves, disk, awaited, home, crossed, atStop>>

Next ==
    \/ Tick \/ Stop \/ Stopped \/ Crash \/ Restart
    \/ \E i \in Ids : Accept(i) \/ \E t \in Texts : Enqueue(i, t)
    \/ \E w \in saves : SaveBegins(w)
    \/ \E s \in Stores : SaveEnds(s) \/ SaveFails(s)
    \/ \E s \in Stores \cup {None} : Swap(s)

Spec == Init /\ [][Next]_vars

-----------------------------------------------------------------------------
(* Properties.                                                             *)

\* However the saves of a suggestion overtake each other, once none of them
\* is left its row says what the suggestion is (engine.py:105-106, 151-152),
\* unless it was accepted while another object was writing it to the same file:
\* two objects have two locks, and the older status may be written last
\* (store.py:51, 91-98, multi.py:112).
RowsCatchUp ==
    \A i \in mine \ (failed \cup crossed) :
        home[i] # None /\ (\A w \in saves : w.id # i) => row[home[i]][i] = status[i]

\* Rows follow their suggestions as entries of a ledger do, whichever threads
\* write them, in whatever order, and whatever a stop or a crash leaves unwritten:
\* no row is ahead of its suggestion, and a write takes an acceptance back only
\* of a suggestion that was being written as it was accepted (store.py:91-98).
Ledger == INSTANCE SuggestionLedger WITH doubtful <- crossed
ImplementsLedger == Ledger!Spec

\* What was accepted before stop() is in the database when stop() has returned,
\* unless the database failed or another object on the same file was writing it
\* as it was accepted (engine.py:86-87, store.py:51).
StopFlushes ==
    at = "down" =>
        \A i \in atStop \ (failed \cup crossed) : home[i] # None => row[home[i]][i] = "accepted"

\* A text that was accepted, in this process or one before it as far as its row
\* was written, is not suggested again within the window, unless its row is not
\* among those that are read again (store.py:119-123).  A text whose newer time
\* push_reply has replaced by an older one (context.py:17) is still not suggested
\* again within the window of its first suggestion.
NoRepeat == repeated \subseteq beyond
=============================================================================
