----------------------------- MODULE Handshake -----------------------------
(***************************************************************************)
(* fetch_danmu_endpoint (src/livecore/bili_http.py): the requests that     *)
(* resolve a room into an endpoint, for several rooms at a time.  The keys *)
(* that sign them are cached for all rooms in one _WbiSigner, whose lock   *)
(* lets one task at a time ask for new ones; a request refused with -352   *)
(* is tried once more with new keys.  Bodies, hosts and tokens are data; a *)
(* request is answered, refused, or fails in one of the ways that end the  *)
(* fetch with an exception.                                                *)
(***************************************************************************)
EXTENDS SequencesExt

CONSTANTS
    Fetchers,   \* the tasks that fetch an endpoint
    NoKeys,     \* nothing is cached
    NoOne       \* nobody has the lock

VARIABLES
    step,      \* the await a fetch is in: "lock", "nav" (the keys), "info" (the
               \* endpoint), "room" (the room's real id), or "idle"
    refused,   \* it was answered -352 once, and asked for keys with force_refresh
    keys,      \* _keys; `since` is auxiliary: the fetches that were refused before
               \* they were asked for
    owner,     \* who has the lock, and
    queue,     \* who waits for it
    asked,     \* auxiliary: `since` of the keys that are being asked for
    renewed    \* auxiliary: the fetches whose keys were asked for after the refusal

Keys(since) == [since |-> since, expired |-> FALSE]

Init ==
    /\ step = [f \in Fetchers |-> "idle"] /\ refused = {} /\ keys = NoKeys
    /\ owner = NoOne /\ queue = <<>> /\ asked = {} /\ renewed = {}

Usable == keys # NoKeys /\ ~keys.expired

-----------------------------------------------------------------------------
\* f has keys, and asks for the endpoint with them.
Sign(f, since) ==
    /\ step' = [step EXCEPT ![f] = "info"]
    /\ renewed' = IF f \in since THEN renewed \cup {f} ELSE renewed \ {f}

\* f has the lock and asks for keys.
AskForKeys(f) == owner' = f /\ step' = [step EXCEPT ![f] = "nav"] /\ asked' = refused'

\* get_keys() where the cache is of no use: the lock is had at once or waited for.
TakeLock(f) ==
    IF owner = NoOne /\ queue = <<>> THEN AskForKeys(f) /\ UNCHANGED queue
    ELSE /\ queue' = Append(queue, f) /\ step' = [step EXCEPT ![f] = "lock"]
         /\ UNCHANGED <<owner, asked>>

\* fetch_danmu_endpoint up to its first await.
Begin(f) ==
    /\ step[f] = "idle" /\ UNCHANGED <<refused, keys>>
    /\ IF Usable THEN Sign(f, keys.since) /\ UNCHANGED <<owner, queue, asked>>
       ELSE TakeLock(f) /\ UNCHANGED renewed

\* Bug: under the lock, what another task has cached is taken in any case.
LockTakenUnforced(f) ==
    /\ step[f] = "lock" /\ owner = NoOne /\ Head(queue) = f
    /\ queue' = Tail(queue) /\ UNCHANGED <<refused, keys>>
    /\ IF Usable THEN Sign(f, keys.since) /\ UNCHANGED <<owner, asked>>
       ELSE AskForKeys(f) /\ UNCHANGED renewed

\* The lock is had, in turn: meanwhile another task may have cached keys.
LockTaken(f) ==
    /\ step[f] = "lock" /\ owner = NoOne /\ Head(queue) = f
    /\ queue' = Tail(queue) /\ UNCHANGED <<refused, keys>>
    /\ IF f \notin refused /\ Usable
       THEN Sign(f, keys.since) /\ UNCHANGED <<owner, asked>>
       ELSE AskForKeys(f) /\ UNCHANGED renewed

KeysCome(f) ==
    /\ step[f] = "nav"
    /\ keys' = Keys(asked) /\ owner' = NoOne /\ Sign(f, asked)
    /\ UNCHANGED <<refused, queue, asked>>

\* -352 for the first time: the cache is emptied, new keys are asked for.
Refuse(f) ==
    /\ step[f] = "info" /\ f \notin refused
    /\ refused' = refused \cup {f} /\ keys' = NoKeys
    /\ TakeLock(f) /\ UNCHANGED renewed

InfoComes(f) ==
    /\ step[f] = "info" /\ step' = [step EXCEPT ![f] = "room"]
    /\ UNCHANGED <<refused, keys, owner, queue, asked, renewed>>

\* Two hours have passed since the cached keys came.
Expire ==
    /\ Usable /\ keys' = [keys EXCEPT !.expired = TRUE]
    /\ UNCHANGED <<step, refused, owner, queue, asked, renewed>>

-----------------------------------------------------------------------------
(* The ends of a fetch.  Leaving `async with self._lock` releases the lock, *)
(* and a waiter that is cancelled leaves the queue.                         *)

Leave(f) ==
    IF step[f] = "lock"
    THEN \E n \in 1..Len(queue) : queue[n] = f /\ queue' = RemoveAt(queue, n)
    ELSE UNCHANGED queue

EndAround(f) ==
    /\ step' = [step EXCEPT ![f] = "idle"]
    /\ refused' = refused \ {f} /\ renewed' = renewed \ {f} /\ asked' = asked \ {f}
    /\ keys' = IF keys = NoKeys THEN keys ELSE [keys EXCEPT !.since = @ \ {f}]
    /\ owner' = IF owner = f THEN NoOne ELSE owner

\* Bug: a waiter that is cancelled keeps its place.
EndKeepsPlace(f) == EndAround(f) /\ UNCHANGED queue

End(f) == EndAround(f) /\ Leave(f)

\* The last request decides on the real room id only: an error of it is passed over.
Complete(f) == step[f] = "room" /\ End(f)

\* A request fails or is answered with what cannot be used (-352 a second time
\* included), or runs out of time, which no `except` of the code expects.
Fail(f) == step[f] \in {"nav", "info", "room"} /\ End(f)

Cancel(f) == step[f] # "idle" /\ End(f)

Step(f) == LockTaken(f) \/ KeysCome(f) \/ Refuse(f) \/ InfoComes(f)

-----------------------------------------------------------------------------
\* The second request of a fetch is signed with keys that were asked for after
\* its first was refused, whatever other rooms ask for, cache and invalidate in
\* between: else the one retry would be spent on the keys that were just refused
\* (bili_http.py:195-199, 117-135).
RetryHasNewKeys == \A f \in refused : step[f] \in {"info", "room"} => f \in renewed

\* Nobody waits for the lock in vain, however fetches fail and are cancelled under
\* it or in front of it: who holds it has its request under way, who waits is in
\* the queue, and the next in turn is a task that will take it (bili_http.py:117).
LockServed ==
    /\ owner # NoOne => step[owner] = "nav"
    /\ \A f \in Fetchers : step[f] = "lock" => \E n \in 1..Len(queue) : queue[n] = f
    /\ queue # <<>> => step[Head(queue)] = "lock"
=============================================================================
