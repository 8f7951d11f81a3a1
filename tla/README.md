# Models of livecore

TLA+ models of `livecore`: its connections, handshakes and supervision, alerting,
configuration and field-map reloads, engine, persistence and hot reload, and the
decoding of what the platform sends, with the TLC runs that check them and TLAPS
proofs of what must hold for any number of callers, rooms, tasks, configurations,
documents and suggestions, for any frame and for any bytes. Paths are relative
to the repository (`livecore/connection.py` is `src/livecore/connection.py` in
`PROJECT.json`).

## The system

`livecore` keeps websocket connections to live-stream rooms, turns frames into
events, suggests replies, and supervises several rooms behind an API, all on one
asyncio event loop with a few worker threads.

| Part | State | Operations | Talks to |
| --- | --- | --- | --- |
| `LiveConnection` (`connection.py`) | `_stop`, `_task`, the run task's position, its heartbeat task, `attempt` | `start_room`, `start`, `stop`, `_run`, `_heartbeat` | adapter (endpoint, frames), state and event observers |
| `ConnectionSupervisor`, `MultiRoomSupervisor` (`supervisor.py`) | health of a room; `rooms` table | `add`, `remove`, `stop`, `health` | one `LiveConnection` per room |
| `Alerter`, `ReconnectWatch` (`alert.py`) | last alert per key; failure counter per room | `raise_alert`, `record_failure`, `record_success` | sinks; called from the state observer |
| `RoomSupervisor` (`multi.py`) | engines, watches, reload tasks, store | `add_room`, `remove_room`, `start_all`, `stop_all`, reload | engines, alerter, `ConfigStore` listeners |
| `ConfigStore` (`config.py`) | snapshot, remembered mtime, listeners | `load`, `reload`, `maybe_reload`, `save` | the file an editor changes; reload listeners |
| `LiveEngine` (`engine.py`), `BehaviorScheduler` (`scheduler.py`), `WatchSimulator` (`behavior.py`), `RoomContext` (`context.py`) | suggestions, timers, recent events, what was said | `start_room`, `stop`, `accept`, `_ingest`, scheduler loop, delayed suggestions | connection, store, outbound adapter |
| `SqliteStore` (`store.py`) | a database connection and its lock | asynchronous saves in threads, `close`, `restore_context` | engine, `RoomSupervisor` |
| `SchemaStore` (`schema.py`) | protobuf field map from a default file and an overlay | load, validate, `maybe_reload` on each frame | parser |
| Registry and adapters (`platforms/`, `bili_http.py`) | names, aliases, default; signing keys | register, look up; fetch an endpoint, decode frames | connection |
| Protocol and parser (`protocol.py`, `pb.py`, `parser.py`), rules, text functions, `monitor.py`'s event projection | none | pure functions | adapters, engine |

What is hard here, and hard to test: cancellation, which asyncio delivers at the
next suspension point and which a `finally` or an `except` may replace or
swallow; callers that overlap (API requests, reloads, a stop during a start);
state read before an `await` and used after it; hot reloads between any two
steps; an editor writing while a file is loaded; saves that overtake each other in
worker threads, and crashes between them; frames cut short and fields renumbered
under the reader. `PROJECT.json` lists each such
place with the property that covers it.

What makes each part correct: a connection has one socket, leaks no task,
reports in order, stops when told and reconnects otherwise; a supervisor leaks no
connection and its operations return; an alert is earned, and an outage neither
silent nor a flood; the configuration in force is the last valid one in the file,
and its listeners know it; an engine keeps the minimum gap, accepts once and
stops what it started; a reload ends with the engines the file asks for; a row of
the database says what became of a suggestion, and a restart does not repeat it; a
field map in force is sound and follows its files; a frame is told as it was meant,
or with less; a room refused by the platform retries with new keys.

## Modules

* `ConnectionLifecycle` is the abstract specification of a connection: one link,
  open or not, whose reports follow the state diagram; after a stop request
  nothing opens until "offline" answers it. `Crossing` is where the promise ends: two
  calls have crossed.
* `LiveConnection` is `connection.py`. A step is the code between two suspension
  points. `at`/`op`/`awaited` are the callers inside `start_room`, `start` and
  `stop`; `pc` says where each run task is suspended, `leaving` is the outcome
  that the `finally` and the exit of `async with` carry along, `heartbeat` the
  heartbeat task, `cancelled` a `CancelledError` not delivered yet. Every
  ordinary step of a run needs `~cancelled[r]`; `CancelDelivered` says where the
  exception goes from each point. Two places swallow it: `await heartbeat`
  (`HeartbeatReaped`, line 134) and, on Python 3.11, a `wait_for` whose future is
  done already (`BackoffEnds`, line 148). Observers return or raise
  (`ReportRaises`). Run identifiers stand for task objects and are reused once
  nothing refers to them. `crossed` is an auxiliary flag: a call entered `stop()` while
  another was waiting in it, or a `start()` made its task while another call was waiting
  or was about to make one.
* `MultiRoomSupervisor` is `MultiRoomSupervisor` of `supervisor.py`; a client is
  reduced to whether it has a run task, which is what `LiveConnection` guarantees
  of it (one task, a `stop()` that ends it and returns). Callers do what they like: a room
  can be removed, and all can be stopped, while it is being added. `missed` and
  `abandoned` are auxiliary: supervisors that were stopped before they had a run task, or
  whose key the `add()` of an earlier one dropped as it failed, and those whose `add()`
  was cancelled.
* `ReconnectAlert` joins `multi.py`'s state handler with `alert.py`. It takes the
  reports from an INSTANCE of `ConnectionLifecycle`, the specification
  `LiveConnection` is shown to implement, so no report sequence is excluded that
  a connection can produce. `rounds` is an auxiliary count of the rounds that
  really ended.
* `ConfigStore` is `config.py`'s store against an editor, with the system calls of
  `load()` (read, then mtime) as separate steps. An exception of a poll ends the program
  that polls (`Running`), as it ends the loop of `examples/run_supervisor.py`. Auxiliary
  flags: `unsaid`, a `save()` changed the configuration since the listeners were called;
  `slipped`, the editor has written since the load under way read the file; `torn`, the
  remembered mtime is that of such a write.
* `LiveEngine` is `engine.py` with the timers of `scheduler.py`. `at` says where a
  caller of `start_room` or `stop` is suspended: `starting` awaits the endpoint,
  `reaping` the scheduler task, `closing` the end of `client.stop()`. `loop` holds
  the scheduler tasks, `pending` the sleeping `_delayed_enqueue` tasks with the
  latest time they may wake up. `session` counts `start_room()` calls and stands
  for the room; `link` is the session whose room the connection is open to. The
  fields `origin`, `session` and `age` of a suggestion are auxiliary: the room it
  answers, the one it was made in, how long the session had lasted.
  What a rule, the duplicates filter and the check-in and ambient
  intervals decide is a free choice between enqueueing and not.
* `EngineLifecycle` is the abstract specification of an engine as its host sees it:
  closed, starting, open, stopping, or broken by a stop that raised, and speaking only
  while it is open. `LiveEngine` implements it for a tidy host, and `RoomReload` is
  such a host as long as changes come in turn (`HostIsTidy`): what the one assumes of
  its caller the other shows of itself.
* `SuggestionLedger` is the abstract specification of what databases say of
  suggestions: made once, accepted at most once, and an entry is something that has
  been true of its suggestion and is never taken back, unless it is doubtful. Writers and
  crashes do not appear in it.
* `Persistence` joins the save tasks of `engine.py`, `SqliteStore`, the duplicates
  filter `_last_text` of `RoomContext` and `restore_context` as `add_room` and
  `_apply_live_config` use it. A store is a `SqliteStore` object with its own lock, on a
  path; several may be on one path, as after a reload that takes storage off and on again.
  `saves` are the unfinished tasks of `_persist_tasks`; `holder` is for each object the one
  in its lock, with the status it read there (line 96 of `store.py`: not when it was
  scheduled); `row` is for each path what is committed, by whichever object. `Crash`
  drops tasks and locks and keeps rows; `Newest` are the rows that `recent_replies`
  gives back, at most `Limit` (50) of them. Auxiliary are `home` and `failed` (where the
  last change of a suggestion should be found, whose save failed), `atStop` (what was
  accepted when `stop()` began), `crossed` (accepted while another object on the path was
  writing it), `repeated` (texts suggested again within their window), `setBack` (texts
  of which `push_reply`, `context.py` line 17, put an older time in the place of a newer
  one) and `beyond` (texts with a row that was not read because of the limit).
* `SchemaStore` is `schema.py`'s store against an editor of both files. `load()`
  goes through `isfile`, read and `getmtime` of the base document and then of the
  overlay (`at`, `which`), and validates the merge of both and of the inline overlay.
  A document is flattened to its entries, "command.field" or "command.list"; `Empty` is one
  that has commands and no entry in them (`{"commands": {}}`), which is valid and puts the
  empty map in force, `Blank` one that has nothing at all (`{}`), which is refused. `kept`
  (the entries that every readable version of a file has had), `slipped`, `torn` and `removed`
  are auxiliary.
* `Protobuf` is `pb.py` with the `FieldReader` of `schema.py`, byte by byte on a small
  radix; `Protocol` is the packet format of `protocol.py` on cells (a header, a pad,
  a body cell; a compressed body holds a frame); `Parser` is `parser.py` on JSON
  values. They are operators without state. The loops of `decode_packets`, `_parse` and
  `_read_varint` are recursive functions over the places of a buffer (`DecodeFrom`,
  `ParseFrom`, `Digits`), one value for each place the loop can be at, so that they can
  be proved about. `Decoding` puts `_expand`, `decode_frame` of the
  Bilibili adapter and `_handle_frame` of `connection.py` on top and lets the platform
  renumber its fields and the field map follow, also between two packets of a frame,
  since every notification polls the schema files (`parser.py`, line 241). The encoder in it is external: it is
  the platform. `MeantEvents` is the reference definition, from the message and not
  from its bytes.
* `Handshake` is `fetch_danmu_endpoint` with the signer that all rooms share
  (`bili_http.py`). `step` is the request a fetch waits for, `owner` and `queue` the
  signer's lock and its waiters, `keys` the cache. `since`, `asked` and `renewed` are
  auxiliary: which fetches had been refused before keys were asked for.
  `RoomHandshakes` composes it with `MultiRoomSupervisor`: an `add()` begins, ends,
  fails and is cancelled with its fetch.
* `RoomReload` is `multi.py`'s `RoomSupervisor` under hot reload. `file` is the
  snapshot of the `ConfigStore` (rooms and database path) and `edits` its version;
  every accepted change creates a `task`, whose `adding` and `removing` are the
  rooms its two loops still have to go through (lines 99 and 100), and whose steps
  go from one `await` to the next. An engine is open or not (`LiveEngine`), with
  the version of its configuration and the path of its store. `host` follows
  `stop_all()`, `awaited` is what its two `gather` calls wait for. The store swap
  of `_apply_live_config` ends every task in the same step. A cancellation takes
  effect in `start_room()`; in `engine.stop()` most awaits swallow it, so `Stopped`
  is possible for a cancelled task as well as `StopCancelled`. `overlapped` is an
  auxiliary flag: a change came while an earlier one was being applied, or after
  `stop_all()` began.
* `MC...` modules define symmetry sets and small configurations; `...Proofs`
  modules hold the theorems. Definitions introduced by a "Bug:" comment are wrong
  variants of the definition after them; no specification uses them, they show
  that the properties can fail.

## Runs

| Run | Instance | Shows |
| --- | --- | --- |
| `conn_calls` | 2 callers, 2 runs, attempts up to 1 | until two calls cross: one socket, no leaked task, the refinement `ImplementsLifecycle`, a `stop()` that returns; always: the heartbeat never outlives its socket, the slot holds a task nothing told to stop, only a raising observer kills the loop, a lost socket is followed by another attempt |
| `rooms_calls` | 2 rooms, 2 callers, 3 supervisors, calls on a room at any moment of its `add`, any `add` cancellable | with the handshakes, whose keys and lock the calls share: `TableIsTrue` (what runs is in the table or in the hands of a call, what the table lists runs or is being connected, but for the two ways out it names), `StopWaits`, a refused request is retried with new keys, the lock passes on whoever fails or is cancelled, every operation returns |
| `alert_reload` | 3 configurations, 3 rounds, clock to 3 | alerts are earned, an outage is announced again after each cooldown, repeated failure is noticed |
| `config_live` | 3 configurations, 4 writes, at any moment of a load | the snapshot is not stale, listeners follow, the last valid edit comes into force |
| `config_fatal` | 2 configurations, 2 writes | violated: `EditIsNotFatal`, a save that is not UTF-8 ends the program that polls |
| `schema_live` | a field and a list that needs it, 5 documents, 2 writes, at any moment of a load | a store without an error follows both files and the inline overlay, what is in force is sound as a whole and loses no entry to a broken edit, the last edits win |
| `decoding` | gifts, entrances and boards with every choice of their fields, in protobuf and in JSON, eleven other notifications, alone, in pairs, in batches and batches of batches, two numberings, the map changing before or inside a frame, up to 5 cells or bytes missing | a whole frame is told as it was meant; renumbered fields and truncated blobs only lose fields; a cut frame tells a beginning |
| `decoding_partial` | as above | violated: `KeepsWhatCouldBeDecoded`, a frame that lacks its end loses its complete packets too |
| `engine_sessions` | 1 tidy owner, 2 scheduler tasks, 2 sessions, 2 suggestions, clock to 6, cold start and gap 2, delays up to 1 | the gap and the cold start are kept, a session does not answer an earlier room, the engine goes through the phases of `EngineLifecycle` (a stop that returns leaves nothing running, nothing is said outside them), calls return |
| `engine_handler` | as above, 1 session | violated: `StopIsComplete`, after a watch handler raised `stop()` raises too and leaves the connection open |
| `persistence` | 3 suggestions of 2 texts, 2 store objects on one path and 1 on another, or none, clock to 2, window, horizon and limit of rows 1, 5 suggestions, acceptances, failed saves, changes of database and crashes together | rows catch up, `stop()` flushes, databases do what `SuggestionLedger` says, a text is not repeated within its window |
| `rooms_reload` | 2 rooms, 2 tasks, 3 engines, 1 database path or none, 2 changes | the last change applies; if changes come in turn the rooms end as those of the file, no engine is lost, each is started only when closed and stopped once (`HostIsTidy`), and `stop_all()` leaves nothing running; everything ends |

Bounds. Two run tasks are enough until calls cross: `start()` waits for the old task
before it makes a new one, and the proofs hold for any number; a third one would wait for
a free identifier. Two callers are what it takes to cross. `MaxExp` saturates
the attempt counter (the code saturates its exponent at 6); only zero or not
matters to the reports. Three supervisor identifiers let a room be added again
while an older object is being torn down and another room is there; `add()` waits for a
free one. Two rounds reach a threshold
of 3 because a round counts twice; three let it be exceeded, and counters
saturate there. Three time
units (`alert_reload`) are longer than the longest cooldown of the instance. Four writes allow an edit, a bad one, a removal and a repair. Six time units hold
two cold starts with a gap after each, and two suggestions are enough for every
property of pairs; the proofs hold for any number. Two changes make two
overlapping reconciliations (or two in turn), and three engines let a room have an
old engine that is stopping and a new one; nothing in `RoomReload` depends on what
a path is, only on having one or none, or another one than before. Two fetches are enough for
one to cache keys between the refusal and the retry of the other, which is the case
`RetryHasNewKeys` is about; a third would only lengthen the queue. Two writes of the
schema files
allow a change of each, or an edit and its repair, after any initial contents, and the five
documents hold a field, an illegal path, a list without its field, no command and nothing. `Radix` 8 (128 in the code) makes
values of two and three bytes small enough to enumerate, and `MaxDigits` 4 (10) leaves
none too long; the two numberings share no number, and some of their paths are nested.
Three suggestions hold a repetition and a row more than the limit, two objects on one
path a change off and on again while a save is pending, a third on another path a change
there and back, and five things done suggest, accept, change twice and suggest again, or a
failed save and a crash in between; the proofs hold for any number. Symmetry is used where no
liveness is checked and no property names a value: in `persistence` (suggestions, texts
and the two objects on one path).

CHECK_DEADLOCK is off where the system may rest: `rooms_calls` (identifiers of
connections that nobody can stop any more are used up), `config_live` and `config_fatal`
(the program ended), `persistence` and `rooms_reload` (what is bounded has been done).

Fairness. asyncio runs every ready task; connecting, closing, sending, the
backoff and the endpoint request have timeouts; observers are assumed to return
or raise. So every step of a run and of a caller inside a call is weakly fair.
Nothing is assumed of the server (auth replies, frames, closing) nor of new
calls. `MultiRoomSupervisor` assumes the endpoint request ends and cancelled runs
end, which is `StopTerminates` of `LiveConnection`. `ReconnectAlert` assumes that
a connection nobody stops goes on reporting, which is `Reconnects`. `ConfigStore`
assumes a caller that polls until a poll raises, as `examples/run_supervisor.py` does.
`SchemaStore` assumes that events keep coming, each of which polls, and that a load
ends. `RoomHandshakes` assumes that requests end (they have timeouts), that the lock
is handed to the first in the queue, and what `MultiRoomSupervisor` assumes.
`LiveEngine` assumes that the endpoint request and `client.stop()` end
(`StopTerminates` of `LiveConnection`) and that a cancelled task is run, but not
that the scheduler's one-second sleep ends: `stop()` does not wait for it.
`RoomReload` assumes what `LiveEngine` shows of a tidy host, that starts and stops
of engines end, and that a cancelled task is run; nothing is assumed of the file.

Assumed of the surroundings: the wall clock does not go back (`alert.py`,
`scheduler.py`, `context.py` and `engine.py` read `time.time()`), and in `LiveEngine` no sleep ends late by a
whole unit, since a busy loop could delay a sleeping suggestion into the next
session. `ColdStartSilent` and `OwnRoomOnly` are stated for delays shorter than
the cold start and the gap (`Patient`); with the defaults of `EngineConfig` the
two delays together are below 6 s and cold start and gap are at least 12 s.
`DriftOnlyLosesFields` is stated for a platform that does not give a number to another
field, `DecodesWhatWasSent` and `CutFrameTellsPrefix` for frames of which every
notification is read with the numbering it was sent in.
Editors, API callers and reloads are not restricted: where code that overlaps breaks its
promise, a flag in the model says when that happens (`crossed`, `missed`, `abandoned`,
`torn`, `unsaid`, `overlapped`, `setBack`, `beyond`), the property excepts that case
and nothing else, and TLC finds it violated without the exception.
`Tidy` is the host that starts an engine only when it is stopped and does not
overlap its calls.

## Proofs

TLAPS proves, for every value of the constants that satisfies the named
assumptions:

* `LiveConnectionProofs`: the type invariant; for any callers, `SlotKeepsGoing`,
  `HeartbeatHasSocket` and `OnlyObserverKillsLoop`, from `SlotInv`: `stop()` takes
  the task out of the slot before it awaits it, so a task in the slot has not been
  cancelled; only a stop makes a run leave with "return" or "cancel"; a running
  heartbeat belongs to a run that reads, a cancelled one to a run that awaits it.
  Until two calls cross, for any callers, `OneSocket`, `NoOrphan` and `OfflineMeansQuiet`,
  from `OwnerInv`: from the entry of `stop()` to its return the slot is empty and the
  only live task is the awaited one, otherwise it is the one in the slot; in
  `start()`'s own "offline" report the slot is empty; no two calls wait at once. The
  properties alone are not inductive: that there is one socket depends on who holds each
  task. `ImplementsLifecycle`, from `LifeInv`: until calls cross the last report
  fits the place where the run is suspended, and a run that `stop()` awaits has a
  cancellation to come or is on its way out, with `_stop` set; from the crossing on the
  abstract specification promises nothing.
* `MultiRoomSupervisorProofs`: the type invariant, and, for callers that do what they
  like, `TableIsTrue` (`TableTrue`) and `StopWaits`, from `LeakInv`: a supervisor being
  added has not started; it is the one its room maps to, or was stopped meanwhile, or a
  `stop()` is about to; no two rooms or calls share one, and
  a call that tears down has what it still has to stop out of the table. That the
  composition with the handshakes implements `MultiRoomSupervisor` (`HandshakeSpec =>
  Spec`), so that `TableIsTrue` holds there too (`TableTrueWithHandshakes`); `RetryHasNewKeys`, from `RetryInv`: who
  asks for keys has the lock, and asks for them after its own refusal if it had one;
  and `LockServed`, from `QueueInv`: the queue holds the fetches that wait, each in
  one place, and the owner of the lock is the one fetch that asks for keys, so that a
  fetch that fails or is cancelled leaves neither a lock nor a place in the queue.
* `ReconnectAlertProofs`: the type invariant and `AlertIsEarned`, from
  `CountInv`: twice the ended rounds bound the counter, with one to spare while
  the last report is "error", because the "reconnecting" that follows will count
  the same round again; and `OutageStaysAnnounced`, which needs the types only: the
  counter grows in `record_failure` and nowhere else.
* `DecodingProofs`, of the field map: the type invariant; `SchemaFollowsFiles` for any
  editor, from `LoadInv`: a remembered mtime is never ahead of the file's, and
  wherever it is the file's and not torn, what the load under way, or the last one, has
  read of it is still in it; `KeepsDecoding` for any editor: the only step that replaces
  the map validates what it puts in its place, and what a load has read of a file has the
  entries that every version of it had (`KeptInv`), which `MergeEntries` carries through
  the merge.
* `DecodingProofs`, of the packets: for any frames `FramesConcatenate` (decoding one
  frame after another gives the packets of both, or raises with the second),
  `SentIsDecoded` (any number of packets, encoded one after the other, come out as they
  were) and `CutFrameTells` (a frame cut anywhere raises, unless the cut lies between two
  packets, and then it tells exactly those before it). Of protobuf messages, for any
  bytes and any radix, `TruncatedTellsPrefix`: a message cut anywhere yields the first
  entries of the whole one and nothing else. These are inductions over data, for which
  the library's theorems cannot be used (their predicate is an operator parameter). They
  are made over sets of numbers instead: `Least` (a set of numbers that is not empty has
  a least element, from the well-foundedness of `<`) gives `Induction`, and `Backwards`
  and `FromTheLast` from the end of a buffer to its beginning. A loop is a recursive
  function, of which TLA+ says only that it solves its equation if anything does:
  `LoopExists` and `Recursion` construct a solution, which is possible because every
  turn leads further on in the buffer (`Onward`, `EntryLeadsOn`).
* `PersistenceProofs`: the type invariant; `RowsCatchUp`, `StopFlushes` and
  `ImplementsLedger`, from `LockInv` (who holds the lock of an object is an unfinished save
  through it; the status it read is the suggestion's, or the one before an acceptance,
  whose save then waits for the same lock, unless another object was writing as it was
  accepted), `RowInv` (no row and no save is ahead of its suggestion) and
  `ServedInv` (a row that is behind, and of which no save failed or crossed, has a save to
  come that will write the status as it is, and `stop()` awaits one for what was
  accepted). That a save reads the status inside the lock is what makes them inductive: a
  save that was scheduled early and commits late writes the late status. `NoRepeat` follows
  from `FilterInv`: of each text accepted within the window the filter of the engine
  knows it at a time that is not older, if it was accepted in this process or its row is
  in the database in use, unless its row was beyond the limit; of a text whose newer time
  was replaced (`setBack`) it knows the time of some suggestion of it.
* `ConfigStoreProofs`: the type invariant; `NotStale` for any editor,
  from `MtimeInv` (a remembered mtime is never ahead of the file's, and what a
  load has read is still in the file unless the editor slipped in); `ListenersFollow`.
* `LiveEngineProofs`: the type invariant; `GapKept` for any callers, from `GapInv`
  (the last emission is not earlier than any suggestion of the session, and a
  session without emissions has no suggestions); for a tidy host `OneLoop` and
  `StopIsCompleteOrRaises`, from `ControlInv` (what a suspended call says of
  `_sched_task`, connection and `_running`); and `ColdStartSilent` and
  `OwnRoomOnly`, from `SilentInv`: a sleeping task of an earlier session wakes up
  less than `MaxDelay` after the new start, when neither the cold start nor the gap
  after an acceptance can be over, and one of the running session fell asleep after
  the cold start. On top of them `ImplementsLifecycle`, from `Phased`: an engine with a
  scheduler task has its connection, a task that a `stop()` waits for ends well, one that
  failed stays where the next `stop()` finds it, and what sleeps from this session needs
  its connection; so that every step is one of `EngineLifecycle` or changes nothing of it.
* `RoomReloadProofs`: the type invariant; `UpToDate` however changes overlap,
  because the task that ends last reads the snapshot as it is; and, if changes came
  in turn, `RoomsConvergeInTurn`, `NoneLost`, `StartedOnce` and `StopAllComplete`,
  from `TurnInv`: at most one task runs, the rooms it still has to add and to remove
  are exactly the difference between table and file, and every engine that is open
  or being opened is in the table. The properties are not inductive without it:
  that the rooms converge is a fact about the sets a task carries across its awaits.
  `HostIsTidy` follows from it with `Ahead`: an engine that a task starts is in its room's
  place and not open, one that it stops is still in its room's place. It is the assumption `Tidy` of `LiveEngine`, discharged for the
  supervisor when changes come in turn.

The type invariants are proved and not repeated in the runs, nor are
`OfflineMeansQuiet`, `OneLoop`, `StopIsCompleteOrRaises` and `StartedOnce`, which the other properties of their runs would not hold without.

Only model-checked: liveness, since fairness and ENABLED are out of the prover's
reach, and the three invariants of `Decoding`. Those compare what is told with what was
meant through the encoder, batches within batches and the parser, which recurse over
messages and frames (RECURSIVE operators); proved is what they rest on, the framing and
the cut message. Every other property of a passing run is a theorem, and every inductive
invariant was checked with TLC on the instances above before its proof.

## Disagreements between code and documentation

The three "violation" runs, each with its counterexample in a few steps; the
quoted lines are in `PROJECT.json` under "findings". More is visible in the models,
in what the properties have to except or in a comment of an action:

* A `remove()` or `stop()` during an `add()` leaks the connection that the `add()`
  opens afterwards, and an `add()` that fails after its room was removed and added again
  drops the key of the newer one (`missed` in `NoLeak`); an `add()` that is cancelled
  leaves a room that no later `add()` starts (`abandoned` in `ListedIsServed`).
* Overlapping `start()` calls on one connection leave two run tasks with a socket
  each, and a `stop()` beside another `start()` can wait for ever for a run whose
  cancellation was swallowed and whose `_stop` that `start()` has cleared (`crossed` in
  `OneSocket`, `NoOrphan`, `StopTerminates`).
* An alert announces up to twice as many failures as rounds failed: the "error" that
  ends a round and the "reconnecting" that opens the next are both counted.
* A write between the read of a configuration or schema file and its `getmtime()` is
  never noticed (`torn`).
* A reload that takes storage off and on again, or to another path and back, makes a new
  `SqliteStore` with a lock of its own (`multi.py`, line 112; `store.py`, line 51) while
  saves of the old one are pending: one that has read "queued" may be committed after the
  new object's "accepted", and the row stays behind, also after `stop()` (`crossed` in
  `RowsCatchUp`, `StopFlushes` and `ImplementsLedger`).
* Overlapping changes of the room list can end with other rooms than the file's
  (`RoomsConvergeInTurn` needs changes in turn): a room taken out and put back before
  its engine has stopped is removed by the first reconciliation.
* `SchemaStore`: the mtime of a base document is remembered although the overlay is
  refused after it (`schema.py`, line 460); the removal of a file is not noticed until
  another load (513-514), so `Converges` excludes removals; an empty "commands" never
  clears the inline overlay (`bilibili.py`, line 155).
* `push_reply` lets an older time replace a newer one, so an acceptance of an old
  suggestion, or rows restored from the newest to the oldest, shorten the window in
  which a text is not repeated (`setBack` in `NoRepeat`), and a restart reads the newest 50
  rows whatever their texts, so one beyond them may come again (`beyond`).
* A notification that `parse_notify` raises on (a danmaku whose "info" is not a list)
  takes the other packets of its frame with it (`Sound` in `Decoding`).
* The last request of a handshake only decides on a room's real id and its errors
  are passed over, but not its timeout, which ends the fetch (`Fail` in `Handshake`,
  `bili_http.py`, line 212).

## Not modelled

Log texts, the random part of delays and their length; the packets that are sent;
of events their texts' wording, colours, faces and raw data; the values in HTTP
answers (hosts, tokens; a request is answered, refused or fails), and
`fetch_buvid3`, which no handshake calls; sinks of alerts (a sink that raises leaves the watch and ends the
round like any raising observer); wall-clock steps backwards; a "lists" of the overlay that is null. Errors of the operating
system other than a missing file (permissions) leave `load()` as the encoding error
does. A path in a schema document that is a list with something other than a number
raises a `TypeError`, which `schema.py` expects nowhere (lines 108, 437, 490): only a
`ValueError` is modelled. Of the engine: the intervals of check-ins, ambient lines and
watch actions, a caller cancelled inside `stop()`, and what overlapping calls of
`start_room` do to one connection (`LiveConnection` has those). Of the database: the
events table, which nothing reads back into an engine, `prune()`, which deletes rows far
older than any window, and a database that does not open. Of `RoomSupervisor`:
`add_room` and `remove_room` called by the host while reconciliations run, the reload
without an event loop (no engine can be running there), and an `engine.stop()` that
raises (`engine_handler` shows when it does); a room whose start failed stays in the
table with nothing running, and no reload starts it again. The health counters of a
`ConnectionSupervisor`, `behavior.py`'s timers (random intervals, the handler may
raise, which `LiveEngine` has), the registry (a dictionary filled at import), rules,
text functions and `monitor.py` (functions of an event) are left out.

## Plan

1. Done: `ConnectionLifecycle`, `LiveConnection`, `MultiRoomSupervisor`,
   `ReconnectAlert`, `ConfigStore`, `LiveEngine`, `RoomReload`, each with proofs.
2. Done: `SchemaStore` and `Persistence` with proofs; `Protobuf`, `Protocol`, `Parser`
   and `Decoding` against a reference definition; `Handshake`, composed with
   `MultiRoomSupervisor`.
3. The health counters of `ConnectionSupervisor` composed with
   `ConnectionLifecycle`; the delays of `_backoff` and the auth answer that never
   comes; the watch timers of `behavior.py`; a database that does not open during a
   reload.
4. Done: the refinements of `ConnectionLifecycle` and `SuggestionLedger` as theorems, `OutageStaysAnnounced`, `NoRepeat`, `LockServed`.
5. Done: `TableIsTrue`; `EngineLifecycle`, implemented by `LiveEngine` and kept to by
   `RoomReload`; what `decode_packets` and `_parse` make of whole and cut buffers.
6. Proofs: of what a reader of a file may rely on, an abstract specification implemented
   by `ConfigStore` and `SchemaStore`; `_expand` of batches within batches, over the
   depth of a frame.
