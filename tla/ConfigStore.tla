---------------------------- MODULE ConfigStore ----------------------------
(***************************************************************************)
(* The hot-reloaded configuration file (src/livecore/config.py): load()    *)
(* reads the file and only then its mtime; maybe_reload() compares mtimes  *)
(* and reloads on a difference; save() replaces the file.  The store runs  *)
(* on one thread, so its own calls do not overlap; an editor, another      *)
(* process, changes the file between any two system calls of the store.    *)
(* load() on construction (autoload) is a Reload that comes first.  The    *)
(* program around it is examples/run_supervisor.py, whose loop polls every *)
(* second and ends with any exception of a poll.                           *)
(***************************************************************************)
EXTENDS Naturals

CONSTANTS
    Settings,     \* configurations, after the merge with the defaults
    Default,      \* the one of an empty file, in force before any load
    Unseen,       \* no mtime is remembered
    MaxWrites     \* the file is changed this many times

Gone == "gone"    \* the file does not exist

\* Contents that are no configuration: bad JSON (or a root that is no object),
\* and bytes that are not UTF-8.
Malformed == {"syntax", "encoding"}

ASSUME ConfigAssumption ==
    /\ Default \in Settings
    /\ MaxWrites \in Nat /\ Unseen \notin Nat
    /\ Settings \cap (Malformed \cup {Gone}) = {}

VARIABLES
    file,       \* what the file holds
    stamp,      \* its mtime; every change gives it a new one
    snapshot,   \* _snapshot
    mtime,      \* _mtime
    told,       \* the configuration the reload listeners were last given
    unsaid,     \* a save changed the snapshot since: save() tells no listener
    step,       \* what the store is doing: "idle", "open" or "getmtime"
    raw,        \* the contents load() has read
    outcome,    \* how the last reload ended
    slipped,    \* auxiliary: an editor wrote since the load under way read the file
    torn        \* auxiliary: _mtime is that of a later write than the contents read

vars == <<file, stamp, snapshot, mtime, told, unsaid, step, raw, outcome, slipped, torn>>

Contents == Settings \cup Malformed \cup {Gone}

TypeOK ==
    /\ file \in Contents
    /\ stamp \in 0..MaxWrites
    /\ snapshot \in Settings /\ told \in Settings
    /\ mtime \in 0..MaxWrites \cup {Unseen}
    /\ unsaid \in BOOLEAN
    /\ step \in {"idle", "open", "getmtime"}
    /\ raw \in Settings
    /\ outcome \in {"none", "done", "error", "raised"}
    /\ slipped \in BOOLEAN /\ torn \in BOOLEAN

\* autoload=False, an editor has left anything in the file.
Init ==
    /\ file \in Contents
    /\ stamp = 0
    /\ snapshot = Default /\ told = Default /\ unsaid = FALSE
    /\ mtime = Unseen
    /\ step = "idle" /\ raw = Default /\ outcome = "none"
    /\ slipped = FALSE /\ torn = FALSE

-----------------------------------------------------------------------------
\* The editor saves or removes the file.
Edit ==
    /\ stamp < MaxWrites
    /\ stamp' = stamp + 1
    /\ file' \in Contents
    /\ slipped' = (step = "getmtime")
    /\ UNCHANGED <<snapshot, mtime, told, unsaid, step, raw, outcome, torn>>

\* The program has not ended with the exception of a poll.
Running == step = "idle" /\ outcome # "raised"

\* Bug: the file is polled only until it has been read once.
PollOnce ==
    /\ Running /\ file # Gone /\ mtime = Unseen
    /\ step' = "open"
    /\ UNCHANGED <<file, stamp, snapshot, mtime, told, unsaid, raw, outcome, slipped, torn>>

\* maybe_reload() past the poll interval: a file that cannot be examined and
\* one whose mtime is the remembered one are left alone.
Poll ==
    /\ Running /\ file # Gone
    /\ mtime = Unseen \/ mtime # stamp
    /\ step' = "open"
    /\ UNCHANGED <<file, stamp, snapshot, mtime, told, unsaid, raw, outcome, slipped, torn>>

\* reload(), or load() by construction: whatever the mtime.
Reload ==
    /\ Running
    /\ step' = "open"
    /\ UNCHANGED <<file, stamp, snapshot, mtime, told, unsaid, raw, outcome, slipped, torn>>

\* The part of load() that opens, reads and decodes the file.
Read ==
    /\ step = "open" /\ file \in Settings
    /\ raw' = file
    /\ step' = "getmtime" /\ slipped' = FALSE
    /\ UNCHANGED <<file, stamp, snapshot, mtime, told, unsaid, outcome, torn>>

\* Bug: the mtime is remembered although the edit was refused.
ReadRefusedRemembers ==
    /\ step = "open" /\ file \in {Gone, "syntax"}
    /\ step' = "idle" /\ outcome' = "error"
    /\ mtime' = stamp
    /\ UNCHANGED <<file, stamp, snapshot, told, unsaid, raw, slipped, torn>>

\* No file, or bad JSON: ConfigError, which reload() gives to its error
\* listeners.  Nothing else changes: the next poll tries again.
ReadRefused ==
    /\ step = "open" /\ file \in {Gone, "syntax"}
    /\ step' = "idle" /\ outcome' = "error"
    /\ UNCHANGED <<file, stamp, snapshot, mtime, told, unsaid, raw, slipped, torn>>

\* UnicodeDecodeError is no JSONDecodeError: it passes load() and reload(), and
\* ends the loop that polls (examples/run_supervisor.py:84-88).
ReadRaises ==
    /\ step = "open" /\ file = "encoding"
    /\ step' = "idle" /\ outcome' = "raised"
    /\ UNCHANGED <<file, stamp, snapshot, mtime, told, unsaid, raw, slipped, torn>>

\* Bug: the listeners are told only of a first configuration.
LoadedUntold ==
    /\ step = "getmtime"
    /\ snapshot' = raw
    /\ mtime' = IF file = Gone THEN Unseen ELSE stamp
    /\ IF snapshot # raw /\ told = Default
       THEN told' = raw /\ unsaid' = FALSE
       ELSE UNCHANGED <<told, unsaid>>
    /\ step' = "idle" /\ outcome' = "done" /\ torn' = slipped
    /\ UNCHANGED <<file, stamp, raw, slipped>>

\* The rest of load(): the snapshot, the mtime the file has by now, and the
\* listeners if the configuration differs from the one in force.
Loaded ==
    /\ step = "getmtime"
    /\ snapshot' = raw
    /\ mtime' = IF file = Gone THEN Unseen ELSE stamp
    /\ IF snapshot # raw
       THEN told' = raw /\ unsaid' = FALSE
       ELSE UNCHANGED <<told, unsaid>>
    /\ step' = "idle" /\ outcome' = "done" /\ torn' = slipped
    /\ UNCHANGED <<file, stamp, raw, slipped>>

\* save(): the file is replaced and the snapshot with it; neither _mtime nor
\* the listeners hear of it.
Save ==
    /\ Running /\ stamp < MaxWrites
    /\ stamp' = stamp + 1
    /\ \E s \in Settings :
        /\ file' = s /\ snapshot' = s
        /\ unsaid' = (unsaid \/ s # snapshot)
    /\ UNCHANGED <<mtime, told, step, raw, outcome, slipped, torn>>

Next ==
    \/ Edit \/ Poll \/ Reload \/ Read \/ ReadRefused \/ ReadRaises \/ Loaded \/ Save

Spec == Init /\ [][Next]_vars

\* The program polls until it ends; a call of the store runs to its end.
FairSpec ==
    /\ Spec
    /\ WF_vars(Poll)
    /\ WF_vars(Read \/ ReadRefused \/ ReadRaises \/ Loaded)

-----------------------------------------------------------------------------
(* Properties.                                                             *)

\* "Reads a JSON config file and re-reads it when the mtime changes"
\* (config.py:91): a store that would not read the file again has what is in
\* it, unless an editor wrote between the two calls of the load that its mtime
\* is from, so that the mtime is of a later write than the contents
\* (config.py:110-122).
NotStale == step = "idle" /\ mtime = stamp /\ ~torn => file = snapshot

\* Whatever the edits, the last valid one comes into force, as long as none of
\* them has ended the program that polls and the last one did not slip in
\* between the read and the mtime of a load (config.py:107-128, 150-162).
Converges == <>[](file \in Settings /\ outcome # "raised" /\ ~torn => snapshot = file)

\* The listeners (a supervisor's reconciliation) have the configuration in
\* force, unless a save() replaced it since they were called.
ListenersFollow == unsaid \/ told = snapshot

\* "A malformed edit is *not* fatal: the previous snapshot stays live [...] so a
\* running session survives a bad save" (config.py:7-9): no reload ends with an
\* exception in the program that polls.  A save that is not UTF-8 does.
EditIsNotFatal == outcome # "raised"
=============================================================================
