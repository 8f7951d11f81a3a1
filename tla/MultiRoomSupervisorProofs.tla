--------------------- MODULE MultiRoomSupervisorProofs ---------------------
(***************************************************************************)
(* The connections of MultiRoomSupervisor are those its table lists, for   *)
(* any rooms and callers that add, remove and stop at any time, but for    *)
(* those that a stop() came too early for or that an older add() let go,   *)
(* and so it is with the handshakes its callers share; a handshake that    *)
(* was refused goes on with new keys, and the lock they share is never     *)
(* kept by one that has gone.                                              *)
(***************************************************************************)
EXTENDS RoomHandshakes, SequenceTheorems, TLAPS

\* The type invariant.
THEOREM TypeCorrect == Spec => []TypeOK
<1>1. Init => TypeOK
  BY DEF Init, TypeOK
<1>2. ASSUME TypeOK, [Next]_vars PROVE TypeOK'
  <2> USE <1>2, RoomsAssumption DEF RoomsAssumption, TypeOK
  <2>1. ASSUME NEW c \in Callers, NEW r \in Rooms, Add(c, r) PROVE TypeOK'
    BY <2>1 DEF Add
  <2>2. ASSUME NEW c \in Callers, NEW r \in Rooms, Remove(c, r) PROVE TypeOK'
    BY <2>2 DEF Remove, BeginStop
  <2>3. ASSUME NEW c \in Callers, AddSucceeds(c) \/ AddFails(c) \/ AddCancelled(c)
        PROVE  TypeOK'
    BY <2>3 DEF AddSucceeds, AddFails, AddCancelled, AddEnds
  <2>4. ASSUME NEW c \in Callers, StopAll(c) PROVE TypeOK'
    BY <2>4 DEF StopAll, Taken
  <2>5. ASSUME NEW c \in Callers, StopReturns(c) PROVE TypeOK'
    BY <2>5 DEF StopReturns
  <2>6. ASSUME NEW c \in Callers, NEW s \in Sups, GatheredStopBegins(c, s) PROVE TypeOK'
    BY <2>6 DEF GatheredStopBegins, BeginStop
  <2>7. ASSUME NEW s \in Sups, ClientEnds(s) PROVE TypeOK'
    BY <2>7 DEF ClientEnds
  <2>8. CASE UNCHANGED vars BY <2>8 DEF vars
  <2> QED BY <2>1, <2>2, <2>3, <2>4, <2>5, <2>6, <2>7, <2>8 DEF Next
<1> QED BY <1>1, <1>2, PTL DEF Spec

\* An add() is for the room its supervisor is listed at, if it is listed at all, and
\* its client has not started; only a call of remove() or stop() has clients to wait
\* for, and it has taken them from the table.
AddInv ==
    /\ \A c \in Callers :
        /\ at[c] = "adding" => client[adding[c]] = "off"
        /\ at[c] = "adding" => \A r \in Rooms : rooms[r] = adding[c] => r = room[c]
        /\ at[c] # "adding" => adding[c] = None
        /\ at[c] # "stopping" => todo[c] = {} /\ joining[c] = {}
        /\ \A s \in todo[c] : ~Listed(s)
    \* What is stopped while it is being added is missed.
    /\ \A s \in Sups : BeingAdded(s) =>
        Listed(s) \/ s \in missed \/ \E c \in Callers : s \in todo[c]
    /\ \A r, q \in Rooms : rooms[r] = rooms[q] /\ rooms[r] # None => r = q
    /\ \A c, d \in Callers : adding[c] = adding[d] /\ adding[c] # None => c = d

\* The inductive invariant behind TableIsTrue and StopWaits.
LeakInv == AddInv /\ TableIsTrue /\ StopWaits

LEMMA LeakInvInductive ==
  ASSUME TypeOK, LeakInv, [Next]_vars PROVE LeakInv'
<1> USE RoomsAssumption
    DEF RoomsAssumption, TypeOK, LeakInv, AddInv, TableIsTrue, NoLeak, ListedIsServed,
        StopWaits, Listed, BeingAdded
<1>1. ASSUME NEW c \in Callers, NEW r \in Rooms, Add(c, r) PROVE LeakInv'
  BY <1>1 DEF Add, Free
<1>2. ASSUME NEW c \in Callers, NEW r \in Rooms, Remove(c, r) PROVE LeakInv'
  BY <1>2 DEF Remove, BeginStop
<1>3. ASSUME NEW c \in Callers, AddSucceeds(c) PROVE LeakInv'
  BY <1>3 DEF AddSucceeds, AddEnds
<1>4. ASSUME NEW c \in Callers, AddFails(c) PROVE LeakInv'
  BY <1>4 DEF AddFails, AddEnds
<1>5. ASSUME NEW c \in Callers, AddCancelled(c) PROVE LeakInv'
  BY <1>5 DEF AddCancelled, AddEnds
<1>6. ASSUME NEW c \in Callers, StopAll(c) PROVE LeakInv'
  BY <1>6 DEF StopAll, Taken
<1>7. ASSUME NEW c \in Callers, StopReturns(c) PROVE LeakInv'
  BY <1>7 DEF StopReturns
<1>8. ASSUME NEW c \in Callers, NEW s \in Sups, GatheredStopBegins(c, s) PROVE LeakInv'
  <2>1. /\ UNCHANGED <<rooms, at, room, adding, abandoned>> /\ ~Listed(s)
        /\ todo' = [todo EXCEPT ![c] = @ \ {s}] /\ at[c] = "stopping"
        /\ missed' = IF BeingAdded(s) THEN missed \cup {s} ELSE missed
    BY <1>8 DEF GatheredStopBegins, BeginStop
  <2>2. CASE client[s] = "running"
    <3>1. /\ client' = [client EXCEPT ![s] = "ending"]
          /\ joining' = [joining EXCEPT ![c] = @ \cup {s}]
      BY <1>8, <2>2 DEF GatheredStopBegins, BeginStop
    <3>2. AddInv' BY <2>1, <2>2, <3>1
    <3>3. TableIsTrue' BY <2>1, <2>2, <3>1
    <3>4. StopWaits' BY <2>1, <2>2, <3>1
    <3> QED BY <3>2, <3>3, <3>4
  <2>3. CASE client[s] # "running"
    <3>1. UNCHANGED <<client, joining>>
      BY <1>8, <2>3 DEF GatheredStopBegins, BeginStop
    <3>2. AddInv' BY <2>1, <2>3, <3>1
    <3>3. TableIsTrue' BY <2>1, <2>3, <3>1
    <3>4. StopWaits' BY <2>1, <2>3, <3>1
    <3> QED BY <3>2, <3>3, <3>4
  <2> QED BY <2>2, <2>3
<1>9. ASSUME NEW s \in Sups, ClientEnds(s) PROVE LeakInv'
  BY <1>9 DEF ClientEnds
<1>10. CASE UNCHANGED vars BY <1>10 DEF vars
<1> QED
  BY <1>1, <1>2, <1>3, <1>4, <1>5, <1>6, <1>7, <1>8, <1>9, <1>10 DEF Next

LEMMA LeakInvariant == Spec => []LeakInv
<1>1. Init => LeakInv
  BY RoomsAssumption
  DEF RoomsAssumption, Init, LeakInv, AddInv, TableIsTrue, NoLeak, ListedIsServed,
      StopWaits, Listed, BeingAdded
<1>2. TypeOK /\ LeakInv /\ [Next]_vars => LeakInv'
  BY LeakInvInductive
<1> QED BY <1>1, <1>2, TypeCorrect, PTL DEF Spec

\* Every connection with a run task is in the table or being stopped, and what is in
\* the table is connected or being connected, for any calls at any time; the only ones
\* that get away are those whose stop() came before their run task and those whose key
\* an older add() dropped, the only ones left for dead those whose add() was cancelled
\* (supervisor.py:122-149).
THEOREM TableTrue == Spec => []TableIsTrue
<1>1. LeakInv => TableIsTrue BY DEF LeakInv
<1> QED BY <1>1, LeakInvariant, PTL

\* remove() and stop() return only when the run tasks they took are over, whatever
\* other calls do to the same rooms (supervisor.py:140-149).
THEOREM StopsAreAwaited == Spec => []StopWaits
<1>1. LeakInv => StopWaits BY DEF LeakInv
<1> QED BY <1>1, LeakInvariant, PTL

-----------------------------------------------------------------------------
\* The handshakes only restrict when an add() ends: each step of the composition
\* is a step of MultiRoomSupervisor or leaves it alone (supervisor.py:134).
THEOREM HandshakesRefine == HandshakeSpec => Spec
<1>1. HandshakeInit => Init BY DEF HandshakeInit
<1>2. [HandshakeNext]_HandshakeVars => [Next]_vars
  <2> SUFFICES ASSUME [HandshakeNext]_HandshakeVars PROVE [Next]_vars
    OBVIOUS
  <2>1. ASSUME NEW c \in Callers, NEW r \in Rooms, AddBegins(c, r) PROVE Next
    BY <2>1 DEF AddBegins, Next
  <2>2. ASSUME NEW c \in Callers, Connected(c) \/ HandshakeFails(c) \/ HandshakeCancelled(c)
        PROVE  Next
    BY <2>2 DEF Connected, HandshakeFails, HandshakeCancelled, Next
  <2>3. CASE \E c \in Callers : HandshakeStep(c)
    BY <2>3 DEF HandshakeStep
  <2>4. CASE KeysExpire
    BY <2>4 DEF KeysExpire
  <2>5. ASSUME Elsewhere PROVE Next
    BY <2>5 DEF Elsewhere, Next
  <2>6. CASE UNCHANGED HandshakeVars
    BY <2>6 DEF HandshakeVars
  <2> QED
    BY <2>1, <2>2, <2>3, <2>4, <2>5, <2>6 DEF HandshakeNext
<1> QED
  BY <1>1, <1>2, PTL DEF HandshakeSpec, Spec

\* So it is where add() calls wait for each other's handshakes.
THEOREM TableTrueWithHandshakes == HandshakeSpec => []TableIsTrue
BY HandshakesRefine, TableTrue, PTL

\* Who asks for keys has the lock, and asks for them after its refusal.
RetryInv ==
    /\ step \in [Callers -> {"idle", "lock", "nav", "info", "room"}]
    /\ refused \subseteq Callers
    /\ \A f \in Callers :
        /\ step[f] = "idle" => f \notin refused
        /\ step[f] = "nav" => owner = f /\ (f \in refused => f \in asked)
        /\ step[f] \in {"info", "room"} /\ f \in refused => f \in renewed

LEMMA SigningKeepsRetryInv ==
    ASSUME RetryInv, NEW f \in Callers, NEW since, H!Sign(f, since),
           f \in refused => f \in since,
           UNCHANGED <<refused, asked>>,
           owner' = owner \/ owner = f
    PROVE  RetryInv'
BY DEF RetryInv, H!Sign

LEMMA AskingKeepsRetryInv ==
    ASSUME RetryInv, NEW f \in Callers, H!AskForKeys(f), owner = NoOne,
           refused' \in {refused, refused \cup {f}}, UNCHANGED renewed
    PROVE  RetryInv'
BY HandshakeAssumption DEF RetryInv, H!AskForKeys

LEMMA LockingKeepsRetryInv ==
    ASSUME RetryInv, NEW f \in Callers, H!TakeLock(f),
           refused' \in {refused, refused \cup {f}}, UNCHANGED renewed
    PROVE  RetryInv'
<1>1. CASE owner = NoOne /\ queue = <<>>
  BY <1>1, AskingKeepsRetryInv DEF H!TakeLock
<1>2. CASE ~(owner = NoOne /\ queue = <<>>)
  BY <1>2 DEF H!TakeLock, RetryInv
<1> QED BY <1>1, <1>2

LEMMA EndingKeepsRetryInv ==
    ASSUME RetryInv, NEW f \in Callers, H!End(f)
    PROVE  RetryInv'
<1>1. /\ step' = [step EXCEPT ![f] = "idle"]
      /\ owner' = (IF owner = f THEN NoOne ELSE owner)
      /\ refused' = refused \ {f} /\ renewed' = renewed \ {f} /\ asked' = asked \ {f}
  BY Zenon DEF H!End, H!EndAround
<1> QED BY <1>1 DEF RetryInv

LEMMA StepKeepsRetryInv ==
    ASSUME RetryInv, NEW f \in Callers, H!Step(f)
    PROVE  RetryInv'
<1>1. CASE H!LockTaken(f)
  <2>1. CASE f \notin refused /\ H!Usable
    BY <1>1, <2>1, SigningKeepsRetryInv DEF H!LockTaken
  <2>2. CASE ~(f \notin refused /\ H!Usable)
    BY <1>1, <2>2, AskingKeepsRetryInv DEF H!LockTaken
  <2> QED BY <2>1, <2>2
<1>2. CASE H!KeysCome(f)
  <2>1. owner = f /\ (f \in refused => f \in asked)
    BY <1>2 DEF H!KeysCome, RetryInv
  <2> QED BY <1>2, <2>1, SigningKeepsRetryInv DEF H!KeysCome
<1>3. CASE H!Refuse(f)
  BY <1>3, LockingKeepsRetryInv DEF H!Refuse
<1>4. CASE H!InfoComes(f)
  BY <1>4 DEF H!InfoComes, RetryInv
<1> QED BY <1>1, <1>2, <1>3, <1>4 DEF H!Step

LEMMA RetryInvariant == HandshakeSpec => []RetryInv
<1>1. HandshakeInit => RetryInv
  BY DEF HandshakeInit, H!Init, RetryInv
<1>2. ASSUME RetryInv, [HandshakeNext]_HandshakeVars PROVE RetryInv'
  <2>1. ASSUME NEW c \in Callers, NEW r \in Rooms, AddBegins(c, r) PROVE RetryInv'
    <3>1. H!Begin(c) /\ c \notin refused
      BY <1>2, <2>1 DEF AddBegins, H!Begin, RetryInv
    <3>2. CASE H!Usable
      BY <1>2, <3>1, <3>2, SigningKeepsRetryInv DEF H!Begin
    <3>3. CASE ~H!Usable
      BY <1>2, <3>1, <3>3, LockingKeepsRetryInv DEF H!Begin
    <3> QED BY <3>2, <3>3
  <2>2. ASSUME NEW c \in Callers, Connected(c) \/ HandshakeFails(c) \/ HandshakeCancelled(c)
        PROVE  RetryInv'
    BY <1>2, <2>2, EndingKeepsRetryInv
       DEF Connected, HandshakeFails, HandshakeCancelled, H!Complete, H!Fail, H!Cancel
  <2>3. ASSUME NEW c \in Callers, HandshakeStep(c) PROVE RetryInv'
    BY <1>2, <2>3, StepKeepsRetryInv DEF HandshakeStep
  <2>4. CASE KeysExpire
    BY <1>2, <2>4 DEF KeysExpire, H!Expire, RetryInv
  <2>5. CASE Elsewhere \/ UNCHANGED HandshakeVars
    <3>1. UNCHANGED fetches
      BY <2>5 DEF Elsewhere, HandshakeVars
    <3> QED BY <1>2, <3>1 DEF fetches, RetryInv
  <2> QED
    BY <1>2, <2>1, <2>2, <2>3, <2>4, <2>5 DEF HandshakeNext
<1> QED BY <1>1, <1>2, PTL DEF HandshakeSpec

\* A request that was refused is tried again with keys asked for after the
\* refusal, for any number of rooms being added (bili_http.py:192-195, 113-135).
THEOREM RetriesHaveNewKeys == HandshakeSpec => []RetryHasNewKeys
<1>1. RetryInv => RetryHasNewKeys
  BY DEF RetryInv, RetryHasNewKeys, H!RetryHasNewKeys
<1> QED BY <1>1, RetryInvariant, PTL

-----------------------------------------------------------------------------
(* The lock of the signer.                                                 *)

\* The inductive invariant behind LockServed: the queue is made of the fetches that
\* wait, each in one place, and the lock is held by the one that asks for keys.
QueueInv ==
    /\ queue \in Seq(Callers)
    /\ \A n \in 1..Len(queue) : step[queue[n]] = "lock"
    /\ \A m, n \in 1..Len(queue) : queue[m] = queue[n] => m = n
    /\ \A f \in Callers : step[f] = "lock" => \E n \in 1..Len(queue) : queue[n] = f
    /\ owner # NoOne => owner \in Callers /\ step[owner] = "nav"

LEMMA RemoveAtProperties ==
    ASSUME NEW S, NEW s \in Seq(S), NEW n \in 1..Len(s)
    PROVE  /\ H!RemoveAt(s, n) \in Seq(S)
           /\ Len(H!RemoveAt(s, n)) = Len(s) - 1
           /\ \A m \in 1..Len(s) - 1 : H!RemoveAt(s, n)[m] = IF m < n THEN s[m] ELSE s[m + 1]
<1> DEFINE front == SubSeq(s, 1, n - 1)
           back == SubSeq(s, n + 1, Len(s))
<1>1. Len(s) \in Nat /\ n \in Int /\ \A m \in 1..Len(s) : s[m] \in S
  BY LenProperties, ElementOfSeq
<1>2. front \in Seq(S) /\ Len(front) = n - 1 /\ \A m \in 1..n - 1 : front[m] = s[m]
  BY <1>1, SubSeqProperties
<1>3. back \in Seq(S) /\ Len(back) = Len(s) - n /\ \A m \in 1..Len(s) - n : back[m] = s[m + n]
  BY <1>1, SubSeqProperties
<1> HIDE DEF front, back
<1>4. H!RemoveAt(s, n) = front \o back
  BY DEF H!RemoveAt, front, back
<1>5. /\ front \o back \in Seq(S) /\ Len(front \o back) = Len(front) + Len(back)
      /\ \A m \in 1..Len(front) + Len(back) :
            (front \o back)[m] = IF m <= Len(front) THEN front[m] ELSE back[m - Len(front)]
  BY <1>2, <1>3, ConcatProperties
<1>6. ASSUME NEW m \in 1..Len(s) - 1
      PROVE  (front \o back)[m] = IF m < n THEN s[m] ELSE s[m + 1]
  <2>1. (front \o back)[m] = IF m <= n - 1 THEN front[m] ELSE back[m - (n - 1)]
    BY <1>1, <1>2, <1>3, <1>5
  <2>2. CASE m < n
    BY <1>1, <1>2, <2>1, <2>2
  <2>3. CASE ~(m < n)
    <3>1. m - (n - 1) \in 1..Len(s) - n /\ (m - (n - 1)) + n = m + 1
      BY <1>1, <2>3
    <3> QED BY <1>1, <1>3, <2>1, <2>3, <3>1
  <2> QED BY <2>2, <2>3
<1> QED
  BY <1>1, <1>2, <1>3, <1>4, <1>5, <1>6

\* A fetch that does not wait goes on, without the lock or with it.
LEMMA WalkingKeepsQueueInv ==
    ASSUME RetryInv, QueueInv, NEW f \in Callers, step[f] # "lock",
           NEW s \in {"idle", "info", "room"}, step' = [step EXCEPT ![f] = s],
           owner' = IF owner = f THEN NoOne ELSE owner, UNCHANGED queue
    PROVE  QueueInv'
BY DEF RetryInv, QueueInv

\* A fetch asks for the lock.
LEMMA LockingKeepsQueueInv ==
    ASSUME RetryInv, QueueInv, NEW f \in Callers, step[f] \in {"idle", "info"}, H!TakeLock(f)
    PROVE  QueueInv'
<1>1. CASE owner = NoOne /\ queue = <<>>
  BY <1>1, HandshakeAssumption DEF H!TakeLock, H!AskForKeys, RetryInv, QueueInv
<1>2. CASE ~(owner = NoOne /\ queue = <<>>)
  <2>1. queue' = Append(queue, f) /\ step' = [step EXCEPT ![f] = "lock"] /\ owner' = owner
    BY <1>2 DEF H!TakeLock
  <2>2. /\ queue' \in Seq(Callers) /\ Len(queue') = Len(queue) + 1 /\ Len(queue) \in Nat
        /\ \A n \in 1..Len(queue) : queue'[n] = queue[n]
        /\ queue'[Len(queue) + 1] = f
    BY <2>1, AppendProperties, LenProperties DEF QueueInv
  <2>3. \A n \in 1..Len(queue) : queue[n] # f
    BY DEF QueueInv
  <2> QED BY <2>1, <2>2, <2>3 DEF RetryInv, QueueInv
<1> QED BY <1>1, <1>2

\* A fetch ends, in the queue or elsewhere.
LEMMA EndingKeepsQueueInv ==
    ASSUME RetryInv, QueueInv, NEW f \in Callers, H!End(f)
    PROVE  QueueInv'
<1>1. /\ step' = [step EXCEPT ![f] = "idle"]
      /\ owner' = (IF owner = f THEN NoOne ELSE owner) /\ H!Leave(f)
  BY Zenon DEF H!End, H!EndAround
<1>2. CASE step[f] # "lock"
  BY <1>1, <1>2, WalkingKeepsQueueInv DEF H!Leave
<1>3. CASE step[f] = "lock"
  <2>1. PICK n \in 1..Len(queue) : queue[n] = f /\ queue' = H!RemoveAt(queue, n)
    BY <1>1, <1>3 DEF H!Leave
  <2> DEFINE Before(m) == IF m < n THEN m ELSE m + 1
  <2>2. /\ queue' \in Seq(Callers) /\ Len(queue') = Len(queue) - 1
        /\ \A m \in 1..Len(queue) - 1 : queue'[m] = IF m < n THEN queue[m] ELSE queue[m + 1]
    <3>1. queue \in Seq(Callers)
      BY DEF QueueInv
    <3> QED BY <2>1, <3>1, RemoveAtProperties
  <2>3. Len(queue) \in Nat /\ n \in Int /\ n >= 1
    BY LenProperties DEF QueueInv
  <2>4. ASSUME NEW m \in 1..Len(queue')
        PROVE  Before(m) \in 1..Len(queue) /\ Before(m) # n /\ queue'[m] = queue[Before(m)]
    BY <2>2, <2>3, <2>4
  <2>5. ASSUME NEW m \in 1..Len(queue') PROVE step'[queue'[m]] = "lock"
    <3>1. Before(m) \in 1..Len(queue) /\ Before(m) # n /\ queue'[m] = queue[Before(m)]
      BY <2>4
    <3> HIDE DEF Before
    <3>2. queue[Before(m)] # f /\ step[queue[Before(m)]] = "lock"
      BY <2>1, <3>1 DEF QueueInv
    <3>3. queue[Before(m)] \in Callers
      BY <3>1, ElementOfSeq DEF QueueInv
    <3> QED BY <1>1, <3>1, <3>2, <3>3 DEF RetryInv
  <2>6. ASSUME NEW l \in 1..Len(queue'), NEW m \in 1..Len(queue'), queue'[l] = queue'[m]
        PROVE  l = m
    <3>1. Before(l) = Before(m)
      <4>1. /\ Before(l) \in 1..Len(queue) /\ queue'[l] = queue[Before(l)]
            /\ Before(m) \in 1..Len(queue) /\ queue'[m] = queue[Before(m)]
        BY <2>4
      <4> HIDE DEF Before
      <4>2. queue[Before(l)] = queue[Before(m)]
        BY <2>6, <4>1
      <4>3. \A i, j \in 1..Len(queue) : queue[i] = queue[j] => i = j
        BY DEF QueueInv
      <4> QED BY Zenon, <4>1, <4>2, <4>3
    <3> QED BY <2>2, <2>3, <3>1
  <2>7. ASSUME NEW g \in Callers, step'[g] = "lock"
        PROVE  \E m \in 1..Len(queue') : queue'[m] = g
    <3>1. PICK m \in 1..Len(queue) : queue[m] = g
      BY <1>1, <2>7 DEF QueueInv, RetryInv
    <3>2. m # n
      BY <1>1, <2>1, <2>7, <3>1 DEF RetryInv
    <3>3. CASE m < n
      BY <2>2, <3>1, <3>3
    <3>4. CASE m > n
      <4>1. m - 1 \in 1..Len(queue') /\ queue'[m - 1] = queue[m]
        BY <2>2, <3>4
      <4> QED BY <3>1, <4>1
    <3> QED BY <2>2, <3>2, <3>3, <3>4
  <2>8. owner # f
    BY <1>3, HandshakeAssumption DEF QueueInv
  <2> QED BY <1>1, <2>2, <2>5, <2>6, <2>7, <2>8 DEF QueueInv, RetryInv
<1> QED BY <1>2, <1>3

\* The first of the queue has the lock.
LEMMA TurnKeepsQueueInv ==
    ASSUME RetryInv, QueueInv, NEW f \in Callers, H!LockTaken(f)
    PROVE  QueueInv'
<1>1. /\ step[f] = "lock" /\ owner = NoOne /\ Head(queue) = f /\ queue' = Tail(queue)
      /\ \/ step' = [step EXCEPT ![f] = "info"] /\ owner' = NoOne
         \/ step' = [step EXCEPT ![f] = "nav"] /\ owner' = f
  BY DEF H!LockTaken, H!Sign, H!AskForKeys
<1>2. queue # <<>> /\ queue \in Seq(Callers)
  BY <1>1 DEF QueueInv
<1>3. /\ queue' \in Seq(Callers) /\ Len(queue') = Len(queue) - 1 /\ Len(queue) \in Nat
      /\ \A n \in 1..Len(queue) - 1 : queue'[n] = queue[n + 1]
      /\ queue[1] = f
  BY <1>1, <1>2, HeadTailProperties, LenProperties
<1>4. \A n \in 1..Len(queue') : queue'[n] # f /\ step[queue'[n]] = "lock"
  BY <1>3 DEF QueueInv
<1>5. \A m, n \in 1..Len(queue') : queue'[m] = queue'[n] => m = n
  BY <1>3 DEF QueueInv
<1>6. ASSUME NEW g \in Callers \ {f}, step[g] = "lock"
      PROVE  \E n \in 1..Len(queue') : queue'[n] = g
  <2>1. PICK n \in 1..Len(queue) : queue[n] = g
    BY <1>6 DEF QueueInv
  <2>2. n - 1 \in 1..Len(queue') /\ queue'[n - 1] = g
    BY <1>3, <1>6, <2>1
  <2> QED BY <2>2
<1> QED BY <1>1, <1>3, <1>4, <1>5, <1>6, HandshakeAssumption DEF QueueInv, RetryInv

\* Nobody waits in vain for the lock that the rooms share, for any number of
\* add() calls that fail and are cancelled anywhere in their handshakes
\* (bili_http.py:113-135).
THEOREM LockIsServed == HandshakeSpec => []LockServed
<1>1. HandshakeInit => QueueInv
  BY EmptySeq, HandshakeAssumption DEF HandshakeInit, H!Init, QueueInv
<1>2. ASSUME RetryInv, QueueInv, [HandshakeNext]_HandshakeVars PROVE QueueInv'
  <2>1. ASSUME NEW c \in Callers, NEW r \in Rooms, AddBegins(c, r) PROVE QueueInv'
    <3>1. H!Begin(c) /\ step[c] = "idle" /\ owner # c
      BY <1>2, <2>1, HandshakeAssumption DEF AddBegins, H!Begin, QueueInv
    <3>2. CASE H!Usable
      BY <1>2, <3>1, <3>2, WalkingKeepsQueueInv DEF H!Begin, H!Sign
    <3>3. CASE ~H!Usable
      BY <1>2, <3>1, <3>3, LockingKeepsQueueInv DEF H!Begin
    <3> QED BY <3>2, <3>3
  <2>2. ASSUME NEW c \in Callers, Connected(c) \/ HandshakeFails(c) \/ HandshakeCancelled(c)
        PROVE  QueueInv'
    BY <1>2, <2>2, EndingKeepsQueueInv
       DEF Connected, HandshakeFails, HandshakeCancelled, H!Complete, H!Fail, H!Cancel
  <2>3. ASSUME NEW c \in Callers, H!Step(c) PROVE QueueInv'
    <3>1. CASE H!LockTaken(c)
      BY <1>2, <3>1, TurnKeepsQueueInv
    <3>2. CASE H!KeysCome(c)
      BY <1>2, <3>2, WalkingKeepsQueueInv DEF H!KeysCome, H!Sign, RetryInv
    <3>3. CASE H!Refuse(c)
      BY <1>2, <3>3, LockingKeepsQueueInv DEF H!Refuse
    <3>4. CASE H!InfoComes(c)
      <4>1. owner # c
        BY <1>2, <3>4, HandshakeAssumption DEF H!InfoComes, QueueInv
      <4> QED BY <1>2, <3>4, <4>1, WalkingKeepsQueueInv DEF H!InfoComes
    <3> QED BY <2>3, <3>1, <3>2, <3>3, <3>4 DEF H!Step
  <2>4. CASE KeysExpire \/ Elsewhere \/ UNCHANGED HandshakeVars
    <3>1. UNCHANGED <<step, owner, queue>>
      BY <2>4 DEF KeysExpire, H!Expire, Elsewhere, HandshakeVars, fetches
    <3> QED BY <1>2, <3>1 DEF QueueInv
  <2> QED
    BY <1>2, <2>1, <2>2, <2>3, <2>4 DEF HandshakeNext, HandshakeStep
<1>3. QueueInv => LockServed
  <2> SUFFICES ASSUME QueueInv, queue # <<>> PROVE step[Head(queue)] = "lock"
    BY DEF QueueInv, LockServed, H!LockServed
  <2>1. 1 \in 1..Len(queue) /\ Head(queue) = queue[1]
    BY HeadTailProperties, LenProperties, EmptySeq DEF QueueInv
  <2> QED BY <2>1 DEF QueueInv
<1> QED BY <1>1, <1>2, <1>3, RetryInvariant, PTL DEF HandshakeSpec
=============================================================================
