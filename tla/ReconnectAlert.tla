--------------------------- MODULE ReconnectAlert ---------------------------
(***************************************************************************)
(* The alert path of one room: the state handler of RoomSupervisor         *)
(* (src/livecore/multi.py) feeds the reports of the room's connection into *)
(* a ReconnectWatch, which raises alerts through the Alerter               *)
(* (src/livecore/alert.py).  The connection is the abstract one of         *)
(* ConnectionLifecycle, which LiveConnection implements.  Watches and      *)
(* cooldowns are keyed by room, so rooms do not influence each other here. *)
(* The configuration is hot-reloaded between any two reports.              *)
(***************************************************************************)
EXTENDS Integers

CONSTANTS
    Configs,      \* alert configurations: [enabled, threshold, cooldown]
    Never,        \* no alert sent yet for the key
    MaxRounds,    \* rounds are counted up to this, failures up to twice this
    MaxTime       \* the clock stops here

ASSUME AlertAssumption ==
    /\ MaxRounds \in Nat \ {0} /\ MaxTime \in Nat /\ Never \notin Nat
    /\ \A g \in Configs :
        g.enabled \in BOOLEAN /\ g.threshold \in Nat /\ g.cooldown \in Nat

VARIABLES
    reported, open, stopping,   \* the connection
    config,        \* alerter.config
    threshold,     \* the watch's own copy, taken when the room was added
    consecutive,   \* the watch's counter
    rounds,        \* connection rounds that ended since the last "live"
    clock,
    lastSent,      \* alerter._last_sent of the room's key
    alert          \* the last alert: its failure count, and rounds at that time

linkVars == <<reported, open, stopping>>
vars == <<reported, open, stopping, config, threshold, consecutive, rounds,
          clock, lastSent, alert>>

Link == INSTANCE ConnectionLifecycle WITH crossed <- FALSE

NoAlert == [failures |-> 0, rounds |-> 0]

TypeOK ==
    /\ reported \in {"connecting", "authenticating", "live", "reconnecting",
                     "offline", "error"}
    /\ config \in Configs
    /\ threshold \in {g.threshold : g \in Configs}
    /\ consecutive \in 0..2 * MaxRounds
    /\ rounds \in 0..MaxRounds
    /\ clock \in 0..MaxTime
    /\ lastSent \in {Never} \cup 0..MaxTime
    /\ alert \in [failures : 0..2 * MaxRounds, rounds : 0..MaxRounds]

Init ==
    /\ Link!Init
    /\ config \in Configs
    /\ threshold = config.threshold
    /\ consecutive = 0 /\ rounds = 0
    /\ clock = 0 /\ lastSent = Never
    /\ alert = NoAlert

-----------------------------------------------------------------------------
Bump(n, ceiling) == IF n < ceiling THEN n + 1 ELSE n

InCooldown == lastSent # Never /\ clock - lastSent < config.cooldown

\* Alerter.raise_alert: the cooldown is stamped before any sink is awaited.
RaiseAlert ==
    \/ /\ config.enabled /\ ~InCooldown
       /\ lastSent' = clock
       /\ alert' = [failures |-> consecutive', rounds |-> rounds']
    \/ /\ ~config.enabled \/ InCooldown
       /\ UNCHANGED <<lastSent, alert>>

\* Bugs: the threshold is compared the wrong way round; the counter jumps.
RecordFailureLate ==
    /\ consecutive' = Bump(consecutive, 2 * MaxRounds)
    /\ IF consecutive' >= threshold
       THEN UNCHANGED <<lastSent, alert>>
       ELSE RaiseAlert

RecordFailureTwice ==
    /\ consecutive' = Bump(Bump(consecutive, 2 * MaxRounds), 2 * MaxRounds)
    /\ IF consecutive' < threshold THEN UNCHANGED <<lastSent, alert>> ELSE RaiseAlert

RecordFailureUncapped ==
    /\ consecutive' = consecutive + 1
    /\ IF consecutive' < threshold THEN UNCHANGED <<lastSent, alert>> ELSE RaiseAlert

\* ReconnectWatch.record_failure.
RecordFailure ==
    /\ consecutive' = Bump(consecutive, 2 * MaxRounds)
    /\ IF consecutive' < threshold THEN UNCHANGED <<lastSent, alert>> ELSE RaiseAlert

\* ReconnectWatch.record_success.
RecordSuccess == consecutive' = 0 /\ UNCHANGED <<lastSent, alert>>

\* A round of the connection loop ends with "error", or with the close that a
\* "reconnecting" without "error" before it reports.
CountRound ==
    rounds' = IF reported' = "live" THEN 0
              ELSE IF \/ reported' = "error"
                      \/ reported' = "reconnecting" /\ reported # "error"
                   THEN Bump(rounds, MaxRounds)
                   ELSE rounds

\* Bug: a retry counts as a success.
StateHandlerForgiving ==
    \/ reported' \in {"live", "reconnecting"} /\ RecordSuccess
    \/ reported' = "error" /\ RecordFailure
    \/ /\ reported' \notin {"live", "reconnecting", "error"}
       /\ UNCHANGED <<consecutive, lastSent, alert>>

\* on_state of RoomSupervisor._state_handler.
StateHandler ==
    \/ reported' = "live" /\ RecordSuccess
    \/ reported' \in {"reconnecting", "error"} /\ RecordFailure
    \/ /\ reported' \notin {"live", "reconnecting", "error"}
       /\ UNCHANGED <<consecutive, lastSent, alert>>

\* A step of the connection that hands a report to the handler.
Report ==
    /\ Link!Next
    /\ reported' # reported
    /\ CountRound
    /\ StateHandler
    /\ UNCHANGED <<config, threshold, clock>>

\* A step of the connection without a new report.
LinkMoves ==
    /\ Link!Next
    /\ reported' = reported
    /\ UNCHANGED <<config, threshold, consecutive, rounds, clock, lastSent, alert>>

\* RoomSupervisor._start_one: start_room() raised before any report.  start_all()
\* starts every room of the table, also one that is connected.
StartFails ==
    /\ rounds' = Bump(rounds, MaxRounds)
    /\ RecordFailure
    /\ UNCHANGED <<linkVars, config, threshold, clock>>

\* _apply_live_config replaces the alerter's configuration, not the watches.
Reload ==
    /\ config' \in Configs
    /\ UNCHANGED <<linkVars, threshold, consecutive, rounds, clock, lastSent, alert>>

Tick ==
    /\ clock < MaxTime
    /\ clock' = clock + 1
    /\ UNCHANGED <<linkVars, config, threshold, consecutive, rounds, lastSent, alert>>

Next == Report \/ LinkMoves \/ StartFails \/ Reload \/ Tick

Spec == Init /\ [][Next]_vars

\* The connection goes on reporting while nobody stops it (Reconnects of
\* LiveConnection).
FairSpec == Spec /\ WF_vars(Report /\ ~stopping /\ reported' # "offline")

-----------------------------------------------------------------------------
(* Properties.                                                             *)

\* An alert is earned: at least half as many rounds ended since the room was
\* last live as the alert says failures did, and no fewer than the threshold.
AlertIsEarned ==
    alert # NoAlert => alert.failures <= 2 * alert.rounds /\ alert.failures >= threshold

\* A room that nobody stops, that keeps failing and never gets live again does
\* not fail unnoticed as long as alerts stay enabled.
FailureIsNoticed ==
    [](config.enabled /\ ~stopping) /\ <>[](reported # "live") /\ []<>(reported = "error")
        => <>(alert # NoAlert)

\* While the room is tripped and alerts are enabled, each further failure report
\* finds the key in cooldown or restarts it: an outage is announced again and
\* again, never closer than the cooldown in force.
OutageStaysAnnounced ==
    [][consecutive' > consecutive /\ consecutive' >= threshold /\ config.enabled
        => /\ lastSent' # Never
           /\ lastSent' = clock \/ clock - lastSent' < config.cooldown
           /\ (lastSent' # lastSent /\ lastSent # Never)
                  => lastSent' - lastSent >= config.cooldown]_vars
=============================================================================
