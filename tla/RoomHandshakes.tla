--------------------------- MODULE RoomHandshakes ---------------------------
(***************************************************************************)
(* MultiRoomSupervisor with the handshakes its add() calls wait for: each  *)
(* add() is in one fetch of an endpoint (src/livecore/supervisor.py:134,   *)
(* connection.py:82-84, platforms/bilibili.py fetch_endpoint), all of them *)
(* share the signer and its lock, and an add() that fails or is cancelled  *)
(* in the middle of its handshake leaves the others theirs.                *)
(***************************************************************************)
EXTENDS MultiRoomSupervisor

CONSTANTS NoKeys, NoOne

ASSUME HandshakeAssumption == NoOne \notin Callers

VARIABLES step, refused, keys, owner, queue, asked, renewed

fetches == <<step, refused, keys, owner, queue, asked, renewed>>

H == INSTANCE Handshake WITH Fetchers <- Callers

HandshakeInit == Init /\ H!Init

\* Steps of both, and of one alone.
AddBegins(c, r) == Add(c, r) /\ H!Begin(c)
Connected(c) == H!Complete(c) /\ AddSucceeds(c)
HandshakeFails(c) == H!Fail(c) /\ AddFails(c)
HandshakeCancelled(c) == H!Cancel(c) /\ AddCancelled(c)
HandshakeStep(c) == H!Step(c) /\ UNCHANGED vars
KeysExpire == H!Expire /\ UNCHANGED vars

Elsewhere ==
    /\ \/ \E c \in Callers, r \in Rooms : Remove(c, r)
       \/ \E c \in Callers : StopAll(c) \/ StopReturns(c)
       \/ \E c \in Callers, s \in Sups : GatheredStopBegins(c, s)
       \/ \E s \in Sups : ClientEnds(s)
    /\ UNCHANGED fetches

HandshakeNext ==
    \/ \E c \in Callers, r \in Rooms : AddBegins(c, r)
    \/ \E c \in Callers :
        Connected(c) \/ HandshakeFails(c) \/ HandshakeCancelled(c) \/ HandshakeStep(c)
    \/ KeysExpire \/ Elsewhere

HandshakeVars == <<vars, fetches>>

\* Requests have timeouts, the lock is handed on, gathered tasks are scheduled
\* and cancelled runs end.
HandshakeSpec ==
    /\ HandshakeInit /\ [][HandshakeNext]_HandshakeVars
    /\ \A c \in Callers :
        /\ WF_HandshakeVars(Connected(c) \/ HandshakeFails(c) \/ HandshakeStep(c))
        /\ WF_HandshakeVars(StopReturns(c) /\ UNCHANGED fetches)
        /\ \A s \in Sups : WF_HandshakeVars(GatheredStopBegins(c, s) /\ UNCHANGED fetches)
    /\ \A s \in Sups : WF_HandshakeVars(ClientEnds(s) /\ UNCHANGED fetches)

-----------------------------------------------------------------------------
\* The keys of a retry are new, whoever else is being added (Handshake).
RetryHasNewKeys == H!RetryHasNewKeys

\* An add() that waits for the lock of the signer will have its turn (Handshake).
LockServed == H!LockServed
=============================================================================
