---------------------------- MODULE SchemaStore ----------------------------
(***************************************************************************)
(* The protobuf field map (src/livecore/schema.py), hot-reloaded under     *)
(* live connections from a base document, an overlay document and an       *)
(* inline overlay.  load() goes through the two files one after the other, *)
(* with isfile(), the read and getmtime() as separate system calls, merges *)
(* what it read and validates the result; the store runs on the thread of  *)
(* the event loop, so its own calls do not overlap, while an editor        *)
(* changes the files between any two system calls.                         *)
(* A document is flattened to a partial function from its entries (a field *)
(* or a list of one command) to field paths.  One without a "commands" key *)
(* is blank: it adds nothing to a merge, and alone is refused, whereas one *)
(* with an empty "commands" is a map without entries.                      *)
(***************************************************************************)
EXTENDS Naturals

CONSTANTS
    Names,        \* the entries "command.field" and "command.list"
    ListOf,       \* the lists among them, each with the field it belongs to
    Numbers,      \* legal field paths
    Illegal,      \* what is refused with a SchemaError or another ValueError
    Documents,    \* the documents an editor or a caller writes
    Blank,        \* no document, or one without "commands"
    Gone,         \* the file does not exist
    Malformed,    \* bad JSON, a root that is no object, not UTF-8
    Unseen,       \* no mtime is remembered (None)
    MaxWrites     \* bound: the files are changed this many times

Files == {"base", "overlay"}

Document == UNION {[D -> Numbers \cup {Illegal}] : D \in SUBSET Names}
Empty == [n \in {} |-> Illegal]
Contents == Documents \cup {Malformed, Gone}

ASSUME SchemaAssumption ==
    /\ Documents \subseteq Document \cup {Blank} /\ Blank \notin Document
    /\ Documents \cap {Malformed, Gone} = {} /\ Malformed # Gone
    /\ DOMAIN ListOf \subseteq Names /\ Illegal \notin Numbers
    /\ MaxWrites \in Nat /\ Unseen \notin Nat

VARIABLES
    file,       \* what each file holds
    stamp,      \* its mtime; every change gives it a new one
    commands,   \* _commands: the parsed map, a valid document
    inline,     \* _inline_overlay
    mtimes,     \* _mtimes
    error,      \* last_error is set
    at,         \* the next system call of load(): "isfile", "read", "mtime",
                \* its end: "parse", or no call: "idle"
    which,      \* the file it is about
    parts,      \* what load() has read of each file
    removed,    \* auxiliary: some file has been removed
    kept,       \* auxiliary: of each file, the entries every version of it had
                \* that could be read
    slipped,    \* auxiliary: an editor changed file `which` since load() read it
    torn        \* auxiliary: of each file, that the remembered mtime is of a later
                \* version than the one read

vars == <<file, stamp, commands, inline, mtimes, error, at, which, parts, removed, kept, slipped, torn>>
disk == <<file, stamp, removed, kept>>

TypeOK ==
    /\ file \in [Files -> Contents] /\ stamp \in [Files -> 0..MaxWrites]
    /\ commands \in Document /\ inline \in Documents \cup {Blank}
    /\ mtimes \in [Files -> 0..MaxWrites \cup {Unseen}]
    /\ error \in BOOLEAN /\ removed \in BOOLEAN
    /\ at \in {"idle", "isfile", "read", "mtime", "parse"} /\ which \in Files
    /\ parts \in [Files -> Documents \cup {Blank}]
    /\ kept \in [Files -> SUBSET Names] /\ slipped \in BOOLEAN /\ torn \in [Files -> BOOLEAN]

-----------------------------------------------------------------------------
\* _deep_merge: entry by entry, the overlay wins.
Merge(base, over) ==
    IF over = Blank THEN base ELSE IF base = Blank THEN over
    ELSE [n \in DOMAIN base \cup DOMAIN over |-> IF n \in DOMAIN over THEN over[n] ELSE base[n]]

\* What load() and _parse_document accept: a document with "commands", be they
\* none, with legal paths, and for every list the field of that name.  Only the
\* merged result is judged: each file on its own may be incomplete or wrong.
Valid(d) ==
    /\ d # Blank
    /\ \A n \in DOMAIN d : d[n] \in Numbers
    /\ \A n \in DOMAIN ListOf : n \in DOMAIN d => ListOf[n] \in DOMAIN d

Merged(p) == Merge(Merge(p["base"], p["overlay"]), inline)

\* The entries that are in a version of a file and in those before it.
StillKept(entries, c) ==
    IF c = Malformed THEN entries ELSE IF c \in {Gone, Blank} THEN {} ELSE entries \cap DOMAIN c

\* The constructor's load() has just begun.
Init ==
    /\ file \in [Files -> Contents] /\ stamp = [f \in Files |-> 0] /\ removed = FALSE
    /\ commands = Empty /\ inline = Blank /\ error = FALSE
    /\ mtimes = [f \in Files |-> Unseen] /\ parts = [f \in Files |-> Blank]
    /\ at = "isfile" /\ which = "base"
    /\ kept = [f \in Files |-> StillKept(Names, file[f])]
    /\ slipped = FALSE /\ torn = [f \in Files |-> FALSE]

\* The editor saves or removes a file.
Edit(f) ==
    /\ stamp["base"] + stamp["overlay"] < MaxWrites
    /\ stamp' = [stamp EXCEPT ![f] = @ + 1]
    /\ \E c \in Contents : file' = [file EXCEPT ![f] = c]
    /\ removed' = (removed \/ (file'[f] = Gone /\ file[f] # Gone))
    /\ kept' = [kept EXCEPT ![f] = StillKept(@, file'[f])]
    /\ slipped' = (slipped \/ (at = "mtime" /\ which = f))
    /\ UNCHANGED <<commands, inline, mtimes, error, at, which, parts, torn>>

StartLoad ==
    /\ at = "idle"
    /\ at' = "isfile" /\ which' = "base" /\ parts' = [f \in Files |-> Blank]
    /\ UNCHANGED <<disk, commands, mtimes, error, slipped, torn>>

\* maybe_reload() past the poll interval: a file that is not there is passed over.
Noticed(f) == file[f] # Gone /\ mtimes[f] # stamp[f]

\* Bug: only the base document is watched.
PollBase == Noticed("base") /\ StartLoad /\ UNCHANGED inline

Poll == (\E f \in Files : Noticed(f)) /\ StartLoad /\ UNCHANGED inline

Reload == StartLoad /\ UNCHANGED inline

\* apply_overlay(): nothing to do for the same overlay; otherwise it stays set
\* whatever the reload says.  apply_protobuf_settings() and store_from_settings()
\* end here for a non-empty "commands" and do nothing for an empty one.
ApplyOverlay ==
    /\ \E i \in (Documents \cup {Blank}) \ {inline} : inline' = i
    /\ StartLoad

\* load() is done with file `which`.
NextFile ==
    IF which = "base" THEN at' = "isfile" /\ which' = "overlay"
                      ELSE at' = "parse" /\ UNCHANGED which

IsFile ==
    /\ at = "isfile"
    /\ IF file[which] = Gone THEN NextFile /\ torn' = [torn EXCEPT ![which] = FALSE]
       ELSE at' = "read" /\ UNCHANGED <<which, torn>>
    /\ UNCHANGED <<disk, commands, inline, mtimes, error, parts, slipped>>

Read ==
    /\ at = "read" /\ file[which] \in Documents
    /\ parts' = [parts EXCEPT ![which] = file[which]]
    /\ at' = "mtime" /\ slipped' = FALSE
    /\ UNCHANGED <<disk, commands, inline, mtimes, error, which, torn>>

\* Bug: a load that fails forgets what was in force.
FailForgets ==
    /\ error' = TRUE /\ at' = "idle" /\ commands' = Empty
    /\ UNCHANGED <<disk, inline, mtimes, which, parts, slipped, torn>>

\* reload() (or the constructor) takes the exception of load().  The mtime of
\* a base document read before the overlay was refused stays remembered.
Fail ==
    /\ error' = TRUE /\ at' = "idle"
    /\ UNCHANGED <<disk, commands, inline, mtimes, which, parts, slipped, torn>>

\* SchemaError, UnicodeDecodeError, or the file vanished after isfile().
ReadRefused == at = "read" /\ file[which] \in {Malformed, Gone} /\ Fail

\* Bug: the mtime is that of the other file.
RememberBase ==
    /\ at = "mtime"
    /\ mtimes' = [mtimes EXCEPT !["base"] = IF file["base"] = Gone THEN Unseen ELSE stamp["base"]]
    /\ NextFile /\ torn' = [torn EXCEPT ![which] = slipped] /\ slipped' = FALSE
    /\ UNCHANGED <<disk, commands, inline, error, parts>>

\* _remember_mtime()
Remember ==
    /\ at = "mtime"
    /\ mtimes' = [mtimes EXCEPT ![which] = IF file[which] = Gone THEN Unseen ELSE stamp[which]]
    /\ NextFile /\ torn' = [torn EXCEPT ![which] = slipped] /\ slipped' = FALSE
    /\ UNCHANGED <<disk, commands, inline, error, parts>>

Parsed ==
    /\ at = "parse" /\ Valid(Merged(parts))
    /\ commands' = Merged(parts) /\ error' = FALSE /\ at' = "idle"
    /\ UNCHANGED <<disk, inline, mtimes, which, parts, slipped, torn>>

Refused == at = "parse" /\ ~Valid(Merged(parts)) /\ Fail

Step == IsFile \/ Read \/ ReadRefused \/ Remember \/ Parsed \/ Refused

Next == (\E f \in Files : Edit(f)) \/ Poll \/ Reload \/ ApplyOverlay \/ Step

Spec == Init /\ [][Next]_vars

\* Events keep coming, each one polls; a call of the store runs to its end.
FairSpec == Spec /\ WF_vars(Poll) /\ WF_vars(Step)

-----------------------------------------------------------------------------
(* Properties.                                                             *)

\* The document the files and the inline overlay amount to now.
Readable == \A f \in Files : file[f] # Malformed
OnDisk == [f \in Files |-> IF file[f] = Gone THEN Blank ELSE file[f]]

\* maybe_reload() would not look at the file again, and its mtime is of what was
\* read.
Settled(f) == ~torn[f] /\ mtimes[f] = IF file[f] = Gone THEN Unseen ELSE stamp[f]

\* A store that is not told of any error and would not read its files again
\* has exactly what they and the inline overlay amount to: no edit is lost
\* because the other file, a failed load or a push came in between
\* (schema.py:455-483 against an editor), unless it came between the read and
\* the getmtime() of its own file (460, 463).
SchemaFollowsFiles ==
    at = "idle" /\ ~error /\ (\A f \in Files : Settled(f)) => commands = Merged(OnDisk)

\* What decodes live frames changes only to another map that is sound as a
\* whole: two documents of which each one may be fine, read at different moments
\* and under an inline overlay, never put an illegal path or a list without its
\* field in force.  And no broken edit takes an entry of a file out of force ("a
\* broken or missing document must never take the connection down",
\* schema.py:438): that takes a version of the file that can be read and has it
\* no longer, or the file's removal.
Sound(map) ==
    \A n \in DOMAIN map :
        map[n] \in Numbers /\ (n \in DOMAIN ListOf => ListOf[n] \in DOMAIN map)

EntriesStay == DOMAIN commands \cap (kept["base"] \cup kept["overlay"]) \subseteq DOMAIN commands'

KeepsDecoding == [][commands' # commands => Sound(commands') /\ EntriesStay]_vars

\* If no file is ever removed, the last edits come into force if they and the
\* inline overlay amount to a valid document, and every load after that ends
\* without an error (schema.py:503-520), unless the last edit of a file came
\* between its read and its getmtime().
Converges ==
    <>[](at = "idle" /\ ~removed /\ Readable /\ (\A f \in Files : ~torn[f]) /\ Valid(Merged(OnDisk))
            => commands = Merged(OnDisk) /\ ~error)
=============================================================================
