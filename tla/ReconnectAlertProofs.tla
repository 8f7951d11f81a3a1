------------------------ MODULE ReconnectAlertProofs ------------------------
(***************************************************************************)
(* Proofs about ReconnectAlert, for any configurations and bounds: an      *)
(* alert never announces more than two failures per failed round, and an   *)
(* outage is announced again and again, never closer than the cooldown.    *)
(***************************************************************************)
EXTENDS ReconnectAlert, TLAPS

\* A failed round is counted at most twice: at the "error" that ends it, and at
\* the "reconnecting" that follows.  Once the counters are at their caps there
\* is no more to keep.
CountInv ==
    /\ rounds < MaxRounds /\ reported # "error" => consecutive <= 2 * rounds
    /\ rounds < MaxRounds /\ reported = "error" => consecutive + 1 <= 2 * rounds
    /\ AlertIsEarned

-----------------------------------------------------------------------------
\* Every variable keeps its type: the counters stay within their caps.
THEOREM TypeCorrect == Spec => []TypeOK
<1>1. Init => TypeOK
  BY AlertAssumption DEF AlertAssumption, Init, TypeOK, NoAlert, Link!Init
<1>2. ASSUME TypeOK, [Next]_vars PROVE TypeOK'
  <2> USE <1>2, AlertAssumption DEF AlertAssumption, TypeOK
  <2>1. CASE Report
    <3>1. reported' \in {"connecting", "authenticating", "live", "reconnecting",
                         "offline", "error"}
      BY <2>1 DEF Report, Link!Next, Link!Opening, Link!Opened, Link!Authenticated,
         Link!Broken, Link!Closed, Link!Retrying, Link!StopRequested, Link!Stopped,
         Link!Crossing
    <3>2. rounds' \in 0..MaxRounds
      BY <2>1, <3>1 DEF Report, CountRound, Bump
    <3>3. consecutive' \in 0..2 * MaxRounds
      BY <2>1 DEF Report, StateHandler, RecordSuccess, RecordFailure, Bump
    <3>4. lastSent' \in {Never} \cup 0..MaxTime /\
          alert' \in [failures : 0..2 * MaxRounds, rounds : 0..MaxRounds]
      BY <2>1, <3>2, <3>3
      DEF Report, StateHandler, RecordSuccess, RecordFailure, RaiseAlert
    <3> QED
      BY <2>1, <3>1, <3>2, <3>3, <3>4 DEF Report
  <2>2. CASE LinkMoves
    BY <2>2 DEF LinkMoves
  <2>3. CASE StartFails
    <3>1. rounds' \in 0..MaxRounds /\ consecutive' \in 0..2 * MaxRounds
      BY <2>3 DEF StartFails, RecordFailure, Bump
    <3> QED
      BY <2>3, <3>1 DEF StartFails, RecordFailure, RaiseAlert, linkVars
  <2>4. CASE Reload
    BY <2>4 DEF Reload, linkVars
  <2>5. CASE Tick
    BY <2>5 DEF Tick, linkVars
  <2>6. CASE UNCHANGED vars
    BY <2>6 DEF vars
  <2> QED
    BY <2>1, <2>2, <2>3, <2>4, <2>5, <2>6 DEF Next
<1> QED
  BY <1>1, <1>2, PTL DEF Spec

-----------------------------------------------------------------------------
\* What a failure does to the counters it shares with the alert.
LEMMA FailureRaises ==
  ASSUME TypeOK, TypeOK', AlertIsEarned, threshold' = threshold, RecordFailure,
         consecutive' <= 2 * rounds'
  PROVE  AlertIsEarned'
<1> USE AlertAssumption DEF AlertAssumption, TypeOK, AlertIsEarned, NoAlert
<1>1. CASE consecutive' < threshold
  BY <1>1 DEF RecordFailure
<1>2. CASE ~(consecutive' < threshold)
  BY <1>2 DEF RecordFailure, RaiseAlert
<1> QED
  BY <1>1, <1>2

LEMMA CountInvInductive ==
  ASSUME TypeOK, TypeOK', CountInv, [Next]_vars PROVE CountInv'
<1> USE AlertAssumption DEF AlertAssumption, TypeOK
<1>1. CASE Report
  <2>1. CASE reported' = "live"
    BY <1>1, <2>1 DEF Report, CountRound, StateHandler, RecordSuccess,
                      CountInv, AlertIsEarned, NoAlert
  <2>2. CASE reported' \in {"reconnecting", "error"}
    <3>1. RecordFailure /\ threshold' = threshold
      BY <1>1, <2>2 DEF Report, StateHandler
    <3>2. consecutive' = Bump(consecutive, 2 * MaxRounds)
      BY <3>1 DEF RecordFailure
    <3>3. CASE reported' = "reconnecting" /\ reported = "error"
      <4>1. rounds' = rounds
        BY <1>1, <3>3 DEF Report, CountRound
      <4>2. consecutive' <= 2 * rounds'
        BY <3>2, <3>3, <4>1 DEF CountInv, Bump
      <4> QED
        BY <3>1, <3>3, <4>2, FailureRaises DEF CountInv
    <3>4. CASE ~(reported' = "reconnecting" /\ reported = "error")
      <4>1. rounds' = Bump(rounds, MaxRounds) /\ reported # "error"
        BY <1>1, <2>2, <3>4 DEF Report, CountRound
      <4>2. consecutive' <= 2 * rounds'
        BY <3>2, <4>1 DEF CountInv, Bump
      <4>3. rounds' < MaxRounds => consecutive' + 1 <= 2 * rounds'
        BY <3>2, <4>1 DEF CountInv, Bump
      <4> QED
        BY <3>1, <4>2, <4>3, FailureRaises DEF CountInv
    <3> QED
      BY <3>3, <3>4
  <2>3. CASE reported' \notin {"live", "reconnecting", "error"}
    BY <1>1, <2>3 DEF Report, CountRound, StateHandler, CountInv, AlertIsEarned, NoAlert
  <2> QED
    BY <2>1, <2>2, <2>3
<1>2. CASE StartFails
  <2>1. RecordFailure /\ threshold' = threshold /\ reported' = reported
    BY <1>2 DEF StartFails, linkVars
  <2>2. consecutive' <= 2 * rounds'
    BY <1>2 DEF StartFails, RecordFailure, CountInv, Bump
  <2>3. rounds' < MaxRounds /\ reported = "error" => consecutive' + 1 <= 2 * rounds'
    BY <1>2 DEF StartFails, RecordFailure, CountInv, Bump
  <2> QED
    BY <2>1, <2>2, <2>3, FailureRaises DEF CountInv
<1>3. CASE LinkMoves \/ Reload \/ Tick \/ UNCHANGED vars
  BY <1>3 DEF LinkMoves, Reload, Tick, vars, linkVars, CountInv, AlertIsEarned, NoAlert
<1> QED
  BY <1>1, <1>2, <1>3 DEF Next

\* An alert is earned (alert.py:130-140, multi.py:58-72): it announces at least
\* the threshold, and at most two failures for each round that failed.
THEOREM AlertsAreEarned == Spec => []AlertIsEarned
<1>1. Init => CountInv
  BY AlertAssumption
  DEF AlertAssumption, Init, Link!Init, CountInv, AlertIsEarned, NoAlert
<1>2. CountInv => AlertIsEarned
  BY DEF CountInv
<1> QED
  BY <1>1, <1>2, TypeCorrect, CountInvInductive, PTL DEF Spec
-----------------------------------------------------------------------------
\* An outage is neither silent nor a flood: of a room past its threshold each
\* further failure finds a cooldown running or starts one, and no alert follows
\* another within the cooldown in force (alert.py:93-110, 130-141).
THEOREM OutagesAreAnnounced == Spec => OutageStaysAnnounced
<1> DEFINE Announced ==
      consecutive' > consecutive /\ consecutive' >= threshold /\ config.enabled
        => /\ lastSent' # Never
           /\ lastSent' = clock \/ clock - lastSent' < config.cooldown
           /\ (lastSent' # lastSent /\ lastSent # Never)
                  => lastSent' - lastSent >= config.cooldown
<1>1. ASSUME TypeOK, TypeOK', [Next]_vars PROVE Announced
  <2> SUFFICES ASSUME consecutive' > consecutive, consecutive' >= threshold, config.enabled
               PROVE  /\ lastSent' # Never
                      /\ lastSent' = clock \/ clock - lastSent' < config.cooldown
                      /\ (lastSent' # lastSent /\ lastSent # Never)
                             => lastSent' - lastSent >= config.cooldown
    OBVIOUS
  <2> USE <1>1, AlertAssumption DEF AlertAssumption, TypeOK
  \* Only a failure makes the counter grow.
  <2>1. RecordFailure
    BY DEF Next, Report, LinkMoves, StartFails, Reload, Tick, vars, StateHandler, RecordSuccess
  <2>2. RaiseAlert
    BY <2>1 DEF RecordFailure
  <2>3. CASE ~InCooldown
    BY <2>2, <2>3 DEF RaiseAlert, InCooldown
  <2>4. CASE InCooldown
    BY <2>2, <2>4 DEF RaiseAlert, InCooldown
  <2> QED
    BY <2>3, <2>4
<1> QED
  BY <1>1, TypeCorrect, PTL DEF Spec, OutageStaysAnnounced
=============================================================================
