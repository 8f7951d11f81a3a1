--------------------------- MODULE DecodingProofs ---------------------------
(***************************************************************************)
(* Proofs about what decoding rests on: the field map of SchemaStore, for  *)
(* any documents, lists and number of edits, the packets of Protocol, for  *)
(* any frames, and the entries of Protobuf, for any bytes.                 *)
(***************************************************************************)
EXTENDS SchemaStore, Protocol, Protobuf, SequenceTheorems, WellFoundedInduction, TLAPS

\* Merging two documents, blank or not, gives one.
LEMMA MergeIsDocument ==
    ASSUME NEW d \in Document \cup {Blank}, NEW e \in Document \cup {Blank}
    PROVE  Merge(d, e) \in Document \cup {Blank}
<1>1. CASE d = Blank \/ e = Blank
    BY <1>1 DEF Merge
<1>2. CASE d # Blank /\ e # Blank
  <2>1. DOMAIN d \cup DOMAIN e \in SUBSET Names
    BY <1>2 DEF Document
  <2>2. \A n \in DOMAIN d \cup DOMAIN e :
          (IF n \in DOMAIN e THEN e[n] ELSE d[n]) \in Numbers \cup {Illegal}
    BY <1>2 DEF Document
  <2>3. Merge(d, e) \in [DOMAIN d \cup DOMAIN e -> Numbers \cup {Illegal}]
    BY <1>2, <2>2 DEF Merge
  <2> QED
    BY <2>1, <2>3 DEF Document
<1> QED
    BY <1>1, <1>2

LEMMA EmptyIsDocument == Empty \in Document
<1>1. Empty \in [{} -> Numbers \cup {Illegal}]
    BY DEF Empty
<1> QED
    BY <1>1 DEF Document

\* What load() merges is a document, if it is anything.
LEMMA MergedIsDocument ==
    ASSUME TypeOK
    PROVE  Merged(parts) \in Document \cup {Blank}
<1>1. /\ parts["base"] \in Document \cup {Blank} /\ parts["overlay"] \in Document \cup {Blank}
      /\ inline \in Document \cup {Blank}
    BY SchemaAssumption DEF TypeOK, Files
<1>2. Merge(parts["base"], parts["overlay"]) \in Document \cup {Blank}
    BY <1>1, MergeIsDocument
<1> QED
    BY <1>1, <1>2, MergeIsDocument DEF Merged

\* Every step keeps the types.
LEMMA TypeStep ==
    ASSUME TypeOK, [Next]_vars
    PROVE  TypeOK'
<1> USE SchemaAssumption
<1>1. ASSUME NEW f \in Files, Edit(f)
      PROVE  TypeOK'
    <2>1. stamp'[f] \in 0..MaxWrites
        BY <1>1 DEF Edit, TypeOK, Files
    <2>2. stamp' \in [Files -> 0..MaxWrites]
        BY <1>1, <2>1 DEF Edit, TypeOK
    <2>3. kept' \in [Files -> SUBSET Names]
        BY <1>1 DEF Edit, TypeOK, StillKept
    <2>4. slipped' \in BOOLEAN /\ removed' \in BOOLEAN
        BY <1>1, Zenon DEF Edit
    <2> QED
        BY <1>1, <2>2, <2>3, <2>4 DEF Edit, TypeOK, Contents
<1>2. CASE Poll
    BY <1>2 DEF Poll, StartLoad, disk, TypeOK, Files
<1>3. CASE Reload
    BY <1>3 DEF Reload, StartLoad, disk, TypeOK, Files
<1>4. CASE ApplyOverlay
    BY <1>4 DEF ApplyOverlay, StartLoad, disk, TypeOK, Files
<1>5. CASE IsFile
    BY <1>5 DEF IsFile, NextFile, disk, TypeOK, Files
<1>6. CASE Read
    BY <1>6 DEF Read, disk, TypeOK, Files
<1>7. CASE ReadRefused
    BY <1>7 DEF ReadRefused, Fail, disk, TypeOK, Files
<1>8. CASE Remember
    BY <1>8 DEF Remember, NextFile, disk, TypeOK, Files
<1>9. CASE Parsed
    BY <1>9, MergedIsDocument DEF Parsed, Valid, disk, TypeOK
<1>10. CASE Refused
    BY <1>10 DEF Refused, Fail, disk, TypeOK
<1>11. CASE UNCHANGED vars
    BY <1>11 DEF vars, TypeOK
<1> QED
    BY <1>1, <1>2, <1>3, <1>4, <1>5, <1>6, <1>7, <1>8, <1>9, <1>10, <1>11 DEF Next, Step

\* Every variable stays within its type, for any instance.
THEOREM Typing == Spec => []TypeOK
<1>1. ASSUME Init PROVE TypeOK
  <2>1. error \in BOOLEAN /\ removed \in BOOLEAN
    BY <1>1, Zenon DEF Init
  <2>2. 0 \in 0..MaxWrites
    BY SchemaAssumption DEF SchemaAssumption
  <2>3. /\ stamp \in [Files -> 0..MaxWrites]
        /\ mtimes \in [Files -> 0..MaxWrites \cup {Unseen}]
        /\ parts \in [Files -> Documents \cup {Blank}]
    BY <1>1, <2>2 DEF Init
  <2>4. kept \in [Files -> SUBSET Names] /\ slipped \in BOOLEAN /\ torn \in [Files -> BOOLEAN]
    BY <1>1 DEF Init, StillKept
  <2> QED
    BY <1>1, <2>1, <2>3, <2>4, EmptyIsDocument DEF Init, TypeOK, Files
<1> QED
    BY <1>1, TypeStep, PTL DEF Spec

-----------------------------------------------------------------------------
\* load() has gone through file f, or no load is running.
Passed(f) == at \in {"idle", "parse"} \/ (which = "overlay" /\ f = "base")

\* What is known of a file load() has gone through: if its mtime is the
\* remembered one, what load() read is still in it; if none is remembered, it
\* was not there.
Fresh(f) ==
    Passed(f) => /\ Settled(f) => parts[f] = OnDisk[f]
                 /\ mtimes[f] = Unseen /\ ~torn[f] => parts[f] = Blank

\* The strengthening of SchemaFollowsFiles: an mtime is never ahead of the
\* file's; between the read and getmtime() the file holds what was read until an
\* edit slips in; a map in force without an error is that of the last load.
LoadInv ==
    /\ \A f \in Files : mtimes[f] # Unseen => mtimes[f] <= stamp[f]
    /\ at = "mtime" /\ ~slipped => file[which] \in Documents /\ parts[which] = file[which]
    /\ at \in {"isfile", "read"} => parts[which] = Blank
    /\ at \in {"isfile", "read", "mtime"} /\ which = "base" => parts["overlay"] = Blank
    /\ at = "idle" /\ ~error => (\A f \in Files : Fresh(f)) /\ commands = Merged(parts)
    /\ at # "idle" => \A f \in Files : Fresh(f)

LEMMA LoadInit == Init => LoadInv
    BY SchemaAssumption DEF Init, LoadInv, Fresh, Passed, Files

\* An editor does not disturb LoadInv, whenever it writes.
LEMMA EditKeepsLoadInv ==
    ASSUME TypeOK, LoadInv, NEW g \in Files, Edit(g)
    PROVE  LoadInv'
<1> USE SchemaAssumption
<1>1. /\ stamp[g] \in Nat /\ stamp'[g] = stamp[g] + 1
      /\ \A f \in Files \ {g} : stamp'[f] = stamp[f] /\ file'[f] = file[f]
      /\ UNCHANGED <<commands, inline, mtimes, error, at, which, parts, torn>>
      /\ file'[g] \in Contents
    BY DEF Edit, TypeOK, Files
<1>2. \A f \in Files : mtimes[f] \in Nat \cup {Unseen} /\ stamp[f] \in Nat
    BY DEF TypeOK
<1>3. \A f \in Files : mtimes'[f] # Unseen => mtimes'[f] <= stamp'[f]
    BY <1>1, <1>2 DEF LoadInv
<1>4. ASSUME NEW f \in Files, Fresh(f) PROVE Fresh(f)'
  <2>1. CASE f # g
    BY <1>1, <1>4, <2>1 DEF Fresh, Passed, Settled, OnDisk
  <2>2. CASE f = g
    <3>1. mtimes'[g] # stamp'[g]
        BY <1>1, <1>2 DEF LoadInv
    <3>2. Settled(g)' => file'[g] = Gone /\ mtimes[g] = Unseen /\ ~torn[g]
        BY <1>1, <3>1 DEF Settled
    <3>3. file'[g] = Gone => OnDisk'[g] = Blank
        BY DEF OnDisk
    <3>4. Passed(g)' = Passed(g)
        BY <1>1 DEF Passed
    <3> QED
        BY <1>1, <1>4, <2>2, <3>2, <3>3, <3>4 DEF Fresh
  <2> QED
    BY <2>1, <2>2
<1>5. Merged(parts)' = Merged(parts)
    BY <1>1 DEF Merged
<1>6. at = "mtime" /\ ~slipped' => ~slipped /\ file'[which] = file[which]
  <2>1. slipped' = (slipped \/ (at = "mtime" /\ which = g))
    BY DEF Edit
  <2>2. at = "mtime" /\ ~slipped' => ~slipped /\ which # g
    BY <2>1, Zenon
  <2> QED
    BY <1>1, <2>2 DEF TypeOK
<1> QED
    BY <1>1, <1>3, <1>4, <1>5, <1>6 DEF LoadInv

\* A load that begins has gone through nothing.
LEMMA StartKeepsLoadInv ==
    ASSUME LoadInv, StartLoad
    PROVE  LoadInv'
    BY DEF StartLoad, LoadInv, Fresh, Passed, disk, Files

\* Going on to the next file, when this one is fresh.
LEMMA NextFileKeepsLoadInv ==
    ASSUME TypeOK, LoadInv, at \in {"isfile", "mtime"}, NextFile,
           UNCHANGED <<disk, commands, inline, error, parts>>,
           \A f \in Files \ {which} : mtimes'[f] = mtimes[f] /\ torn'[f] = torn[f],
           mtimes'[which] # Unseen => mtimes'[which] <= stamp[which],
           ~torn'[which] /\ (mtimes'[which] = IF file[which] = Gone THEN Unseen ELSE stamp[which])
                => parts[which] = OnDisk[which],
           mtimes'[which] = Unseen /\ ~torn'[which] => parts[which] = Blank
    PROVE  LoadInv'
<1>1. /\ file' = file /\ stamp' = stamp /\ parts' = parts /\ OnDisk' = OnDisk
    BY DEF disk, OnDisk
<1>2. \A f \in Files : mtimes'[f] # Unseen => mtimes'[f] <= stamp'[f]
    BY <1>1 DEF LoadInv, TypeOK
<1>3. which' = which \/ (which = "base" /\ which' = "overlay")
    BY DEF NextFile
<1>4. which = "base" => at' = "isfile" /\ which' = "overlay"
    BY DEF NextFile
<1>5. which = "overlay" => at' = "parse" /\ which' = "overlay"
    BY DEF NextFile
<1>6. \A f \in Files : Fresh(f)'
  <2>1. ASSUME NEW f \in Files, f = which PROVE Fresh(f)'
    BY <1>1, <2>1 DEF Fresh, Settled
  <2>2. ASSUME NEW f \in Files, f # which PROVE Fresh(f)'
    <3>1. CASE which = "base"
        BY <1>4, <2>2, <3>1 DEF Fresh, Passed, Files
    <3>2. CASE which = "overlay"
      <4>1. Passed(f) /\ Fresh(f)
        BY <2>2, <3>2 DEF Passed, LoadInv, Files
      <4> QED
        BY <1>1, <2>2, <4>1 DEF Fresh, Settled
    <3> QED
        BY <3>1, <3>2 DEF TypeOK, Files
  <2> QED
    BY <2>1, <2>2
<1>7. at' # "idle" /\ at' # "mtime" /\ at' # "read"
    BY <1>4, <1>5 DEF TypeOK, Files
<1>8. at' = "isfile" => which = "base" /\ which' = "overlay" /\ parts["overlay"] = Blank
    BY <1>4, <1>5 DEF TypeOK, Files, LoadInv
<1> QED
    BY <1>1, <1>2, <1>6, <1>7, <1>8 DEF LoadInv

\* Every step of the store and of the editor keeps LoadInv.
LEMMA LoadStep ==
    ASSUME TypeOK, LoadInv, [Next]_vars
    PROVE  LoadInv'
<1> USE SchemaAssumption
<1>1. ASSUME NEW f \in Files, Edit(f) PROVE LoadInv'
    BY <1>1, EditKeepsLoadInv
<1>2. CASE Poll \/ Reload \/ ApplyOverlay
    BY <1>2, StartKeepsLoadInv DEF Poll, Reload, ApplyOverlay
<1>3. CASE IsFile
  <2>1. CASE file[which] = Gone
    <3>1. OnDisk[which] = Blank
        BY <2>1 DEF OnDisk, TypeOK
    <3>2. UNCHANGED <<disk, commands, inline, error, parts>> /\ mtimes' = mtimes /\ NextFile
          /\ \A f \in Files \ {which} : torn'[f] = torn[f]
        BY <1>3, <2>1 DEF IsFile, TypeOK
    <3> QED
        BY <1>3, <2>1, <3>1, <3>2, NextFileKeepsLoadInv DEF IsFile, LoadInv, TypeOK
  <2>2. CASE file[which] # Gone
    BY <1>3, <2>2 DEF IsFile, LoadInv, Fresh, Passed, Settled, OnDisk, disk
  <2> QED
    BY <2>1, <2>2
<1>4. CASE Read
  <2>1. \A f \in Files : Fresh(f) => Fresh(f)'
    BY <1>4 DEF Read, Fresh, Passed, Settled, OnDisk, disk, TypeOK, Files
  <2> QED
    BY <1>4, <2>1 DEF Read, LoadInv, disk, TypeOK, Files
<1>5. CASE ReadRefused \/ Refused
    BY <1>5 DEF ReadRefused, Refused, Fail, LoadInv, disk
<1>6. CASE Remember
  <2>1. ~slipped => file[which] # Gone /\ OnDisk[which] = parts[which]
    BY <1>6 DEF Remember, LoadInv, OnDisk, TypeOK
  <2>2. mtimes'[which] = IF file[which] = Gone THEN Unseen ELSE stamp[which]
    BY <1>6 DEF Remember, TypeOK
  <2>3. \A f \in Files \ {which} : mtimes'[f] = mtimes[f] /\ torn'[f] = torn[f]
    BY <1>6 DEF Remember, TypeOK
  <2>4. torn'[which] = slipped
    BY <1>6 DEF Remember, TypeOK
  <2>5. ~torn'[which] => mtimes'[which] = stamp[which] /\ parts[which] = OnDisk[which]
    BY <2>1, <2>2, <2>4
  <2>6. stamp[which] \in Nat
    BY DEF TypeOK
  <2>7. mtimes'[which] # Unseen => mtimes'[which] <= stamp[which]
    BY <2>2, <2>6
  <2>8. mtimes'[which] = Unseen /\ ~torn'[which] => parts[which] = Blank
    BY <2>5, <2>6
  <2>9. UNCHANGED <<disk, commands, inline, error, parts>> /\ NextFile /\ at = "mtime"
    BY <1>6 DEF Remember
  <2> QED
    BY <2>3, <2>5, <2>7, <2>8, <2>9, NextFileKeepsLoadInv
<1>7. CASE Parsed
  <2>1. \A f \in Files : Fresh(f)'
    BY <1>7 DEF Parsed, LoadInv, Fresh, Passed, Settled, OnDisk, disk
  <2>2. commands' = Merged(parts)'
    BY <1>7 DEF Parsed, Merged
  <2> QED
    BY <1>7, <2>1, <2>2 DEF Parsed, LoadInv, disk
<1>8. CASE UNCHANGED vars
    BY <1>8 DEF vars, LoadInv, Fresh, Passed, Settled, OnDisk, Merged
<1> QED
    BY <1>1, <1>2, <1>3, <1>4, <1>5, <1>6, <1>7, <1>8 DEF Next, Step

\* A quiet store with nothing to read again has what the files and the inline
\* overlay amount to, whatever was written, removed or pushed in between, except
\* where an edit of a file came between its read and its getmtime().
THEOREM FollowsFiles == Spec => []SchemaFollowsFiles
<1>1. TypeOK /\ LoadInv => SchemaFollowsFiles
  <2> SUFFICES ASSUME TypeOK, LoadInv, at = "idle", ~error, \A f \in Files : Settled(f)
               PROVE  commands = Merged(OnDisk)
    BY DEF SchemaFollowsFiles
  <2>1. \A f \in Files : parts[f] = OnDisk[f]
    BY DEF LoadInv, Fresh, Passed
  <2> QED
    BY <2>1 DEF LoadInv, Merged, Files
<1>2. TypeOK /\ LoadInv /\ [Next]_vars => LoadInv'
    BY LoadStep
<1> QED
    BY <1>1, <1>2, LoadInit, Typing, PTL DEF Spec

-----------------------------------------------------------------------------
\* The entries of a document.
EntriesOf(d) == IF d = Blank THEN {} ELSE DOMAIN d

\* Every entry that a file has kept is in the version there is, if that can be
\* read, and in the one that the load under way has read.
KeptInv ==
    \A f \in Files :
        /\ file[f] # Malformed => kept[f] \subseteq EntriesOf(OnDisk[f])
        /\ (at # "idle" /\ Passed(f)) \/ (at = "mtime" /\ which = f) => kept[f] \subseteq EntriesOf(parts[f])

LEMMA KeptStep ==
    ASSUME TypeOK, LoadInv, KeptInv, [Next]_vars
    PROVE  KeptInv'
<1> USE SchemaAssumption
<1>1. ASSUME NEW g \in Files, Edit(g) PROVE KeptInv'
  <2>1. /\ kept' = [kept EXCEPT ![g] = StillKept(@, file'[g])]
        /\ \A f \in Files \ {g} : file'[f] = file[f]
        /\ UNCHANGED <<at, which, parts>>
    BY <1>1 DEF Edit, TypeOK
  <2>2. kept'[g] = StillKept(kept[g], file'[g]) /\ \A f \in Files \ {g} : kept'[f] = kept[f]
    BY <2>1 DEF TypeOK
  <2>3. \A f \in Files : kept'[f] \subseteq kept[f]
    BY <2>2 DEF StillKept
  <2>4. file'[g] # Malformed => kept'[g] \subseteq EntriesOf(OnDisk'[g])
    BY <2>2 DEF StillKept, OnDisk, EntriesOf
  <2>5. \A f \in Files \ {g} : OnDisk'[f] = OnDisk[f]
    BY <2>1 DEF OnDisk
  <2> QED
    BY <2>1, <2>2, <2>3, <2>4, <2>5 DEF KeptInv, Passed
<1>2. CASE Poll \/ Reload \/ ApplyOverlay
  <2>1. UNCHANGED disk /\ at' = "isfile" /\ which' = "base"
    BY <1>2 DEF Poll, Reload, ApplyOverlay, StartLoad
  <2> QED
    BY <2>1 DEF KeptInv, Passed, OnDisk, disk, Files
<1>3. CASE IsFile
  <2>1. UNCHANGED disk /\ parts' = parts /\ at = "isfile"
    BY <1>3 DEF IsFile
  <2>2. CASE file[which] = Gone
    <3>1. kept[which] = {}
      BY <2>2 DEF KeptInv, OnDisk, EntriesOf, TypeOK
    <3>2. NextFile
      BY <1>3, <2>2 DEF IsFile
    <3> QED
      BY <2>1, <3>1, <3>2 DEF KeptInv, NextFile, Passed, OnDisk, disk, TypeOK, Files
  <2>3. CASE file[which] # Gone
    <3>1. at' = "read" /\ which' = which
      BY <1>3, <2>3 DEF IsFile
    <3> QED
      BY <2>1, <3>1 DEF KeptInv, Passed, OnDisk, disk
  <2> QED
    BY <2>2, <2>3
<1>4. CASE Read
  <2>1. UNCHANGED disk /\ which' = which /\ at' = "mtime" /\ at = "read" /\ file[which] \in Documents
        /\ parts' = [parts EXCEPT ![which] = file[which]]
    BY <1>4 DEF Read
  <2>2. kept[which] \subseteq EntriesOf(parts'[which])
    BY <2>1 DEF KeptInv, OnDisk, TypeOK
  <2>3. \A f \in Files \ {which} : parts'[f] = parts[f]
    BY <2>1 DEF TypeOK
  <2> QED
    BY <2>1, <2>2, <2>3 DEF KeptInv, Passed, OnDisk, disk, Files
<1>5. CASE ReadRefused \/ Refused \/ Parsed
  <2>1. UNCHANGED disk /\ at' = "idle"
    BY <1>5 DEF ReadRefused, Refused, Parsed, Fail
  <2> QED
    BY <2>1 DEF KeptInv, OnDisk, disk
<1>6. CASE Remember
  <2>1. UNCHANGED disk /\ parts' = parts /\ NextFile /\ at = "mtime"
    BY <1>6 DEF Remember
  <2> QED
    BY <2>1 DEF KeptInv, NextFile, Passed, OnDisk, disk, TypeOK, Files
<1>7. CASE UNCHANGED vars
    BY <1>7 DEF vars, KeptInv, Passed, OnDisk
<1> QED
    BY <1>1, <1>2, <1>3, <1>4, <1>5, <1>6, <1>7 DEF Next, Step

\* The entries of a merge are those of its parts.
LEMMA MergeEntries ==
    ASSUME NEW d \in Document \cup {Blank}, NEW e \in Document \cup {Blank}
    PROVE  EntriesOf(d) \cup EntriesOf(e) \subseteq EntriesOf(Merge(d, e))
<1>1. CASE d = Blank \/ e = Blank
    BY <1>1 DEF Merge, EntriesOf
<1>2. CASE d # Blank /\ e # Blank
  <2>1. DOMAIN Merge(d, e) = DOMAIN d \cup DOMAIN e
    BY <1>2 DEF Merge
  <2>2. CASE Merge(d, e) = Blank
    <3>1. Merge(d, e) \in Document
      <4>1. DOMAIN d \cup DOMAIN e \in SUBSET Names
        BY <1>2 DEF Document
      <4>2. \A n \in DOMAIN d \cup DOMAIN e :
              (IF n \in DOMAIN e THEN e[n] ELSE d[n]) \in Numbers \cup {Illegal}
        BY <1>2 DEF Document
      <4>3. Merge(d, e) \in [DOMAIN d \cup DOMAIN e -> Numbers \cup {Illegal}]
        BY <1>2, <4>2 DEF Merge
      <4> QED
        BY <4>1, <4>3 DEF Document
    <3> QED
      BY <2>2, <3>1, SchemaAssumption
  <2>3. CASE Merge(d, e) # Blank
    BY <1>2, <2>1, <2>3 DEF EntriesOf
  <2> QED
    BY <2>2, <2>3
<1> QED
    BY <1>1, <1>2

\* The map in force is only ever replaced by a sound one, with all entries that
\* every readable version of its file has kept, whatever the editor does and
\* whenever (schema.py:354-395, 455-483).
THEOREM SoundForGood == Spec => KeepsDecoding
<1> DEFINE Kept == commands' # commands => Sound(commands') /\ EntriesStay
<1>1. TypeOK /\ LoadInv /\ KeptInv /\ [Next]_vars => [Kept]_vars
  <2> SUFFICES ASSUME TypeOK, LoadInv, KeptInv, [Next]_vars PROVE Kept
    OBVIOUS
  <2>1. CASE UNCHANGED commands
    BY <2>1
  <2>2. CASE Parsed
    <3>1. commands' = Merged(parts) /\ Valid(Merged(parts)) /\ at = "parse"
      BY <2>2 DEF Parsed
    <3>2. Sound(commands')
      BY <3>1 DEF Valid, Sound
    <3>3. \A f \in Files : kept[f] \subseteq EntriesOf(parts[f])
      BY <3>1 DEF KeptInv, Passed
    <3>4. EntriesOf(parts["base"]) \cup EntriesOf(parts["overlay"]) \subseteq DOMAIN Merged(parts)
      <4>1. /\ parts["base"] \in Document \cup {Blank} /\ parts["overlay"] \in Document \cup {Blank}
            /\ inline \in Document \cup {Blank}
        BY SchemaAssumption DEF TypeOK, Files
      <4>2. Merge(parts["base"], parts["overlay"]) \in Document \cup {Blank}
        BY <4>1, MergeIsDocument
      <4>3. Merged(parts) # Blank
        BY <3>1 DEF Valid
      <4> QED
        BY <4>1, <4>2, <4>3, MergeEntries DEF Merged, EntriesOf
    <3> QED
      BY <3>1, <3>2, <3>3, <3>4 DEF EntriesStay, Files
  <2> QED
    BY <2>1, <2>2 DEF Next, Step, Edit, Poll, Reload, ApplyOverlay, StartLoad, IsFile, Read,
        ReadRefused, Fail, Remember, Refused, vars
<1>2. Init => KeptInv
    BY SchemaAssumption DEF Init, KeptInv, StillKept, OnDisk, EntriesOf, Passed, Files, Contents, Document
<1>3. TypeOK /\ LoadInv /\ [Next]_vars => LoadInv'
    BY LoadStep
<1>4. TypeOK /\ LoadInv /\ KeptInv /\ [Next]_vars => KeptInv'
    BY KeptStep
<1> QED
    BY <1>1, <1>2, <1>3, <1>4, LoadInit, Typing, PTL DEF Spec, KeepsDecoding

-----------------------------------------------------------------------------
(* Frames.  The provers cannot instantiate the library's induction          *)
(* theorems, so induction is stated over sets of numbers.                   *)

\* Cells whose lengths are numbers.
Measured(Cells) ==
    \A c \in Cells : c.kind = "header" => c.packet_len \in Nat /\ c.header_len \in Nat

Packets(Cells) ==
    [op : {c.op : c \in Cells}, protover : {c.protover : c \in Cells}, body : Seq(Cells)]

Results(Cells) == [ok : BOOLEAN, packets : Seq(Packets(Cells))]

\* Every set of numbers that is not empty has a least element.
LEMMA Least ==
    ASSUME NEW T, T \subseteq Nat, T # {}
    PROVE  \E m \in T : \A k \in T : m <= k
<1>1. PICK R : IsWellFoundedOn(R, Nat) /\ \A k, m \in Nat : k < m => <<k, m>> \in R
  <2>1. IsWellFoundedOn(OpToRel(<, Nat), Nat)
      BY NatLessThanWellFounded, Zenon
  <2>2. \A k, m \in Nat : k < m => <<k, m>> \in OpToRel(<, Nat)
      BY DEF OpToRel
  <2> QED
      BY <2>1, <2>2, Zenon
<1>2. IsWellFoundedOn(R, Nat) /\ T # {} /\ T \subseteq Nat
    BY <1>1
<1>3. PICK m \in T : \A k \in T : ~(<<k, m>> \in R)
    BY <1>2, WFMin, Zenon
<1>4. ASSUME NEW k \in T PROVE m <= k
  <2>1. k \in Nat /\ m \in Nat /\ <<k, m>> \notin R
      BY <1>3
  <2>2. ~(k < m)
      BY <1>1, <2>1, Zenon
  <2> QED
      BY <2>1, <2>2
<1> QED
    BY <1>4

\* Induction up to N, over a set of numbers instead of a predicate.
LEMMA Induction ==
    ASSUME NEW N \in Nat, NEW Good, 0 \in Good,
           \A n \in 0..N : n \in Good /\ n < N => n + 1 \in Good
    PROVE  \A n \in 0..N : n \in Good
<1> DEFINE T == (0..N) \ Good
<1>1. SUFFICES ASSUME T # {} PROVE FALSE
    OBVIOUS
<1>2. PICK m \in T : \A k \in T : m <= k
  <2>1. T \subseteq Nat
      OBVIOUS
  <2> QED
      BY <1>1, <2>1, Least
<1>3. m \in 0..N /\ m \notin Good /\ m # 0
    OBVIOUS
<1>4. m - 1 \in 0..N /\ m - 1 < N /\ (m - 1) + 1 = m /\ ~(m <= m - 1)
    BY <1>3
<1>5. m - 1 \in Good
    BY <1>2, <1>4
<1> QED
    BY <1>3, <1>4, <1>5

\* Induction from the end of a buffer of N cells to its beginning.
LEMMA Backwards ==
    ASSUME NEW N \in Nat, NEW Good,
           \A pos \in 0..N : (\A k \in (pos + 1)..N : k \in Good) => pos \in Good
    PROVE  \A pos \in 0..N : pos \in Good
<1> DEFINE T == {n \in 0..N : N - n \notin Good}
<1>1. SUFFICES ASSUME T # {} PROVE FALSE
  <2> SUFFICES ASSUME NEW pos \in 0..N, pos \notin Good PROVE T # {}
      OBVIOUS
  <2>1. N - pos \in 0..N /\ N - (N - pos) = pos
      OBVIOUS
  <2> QED
      BY <2>1
<1>2. PICK m \in T : \A k \in T : m <= k
  <2>1. T \subseteq Nat
      OBVIOUS
  <2> QED
      BY <1>1, <2>1, Least
<1>3. m \in 0..N /\ N - m \in 0..N /\ N - m \notin Good
    OBVIOUS
<1>4. ASSUME NEW k \in (N - m + 1)..N PROVE k \in Good
  <2>1. N - k \in 0..N /\ N - (N - k) = k /\ ~(m <= N - k)
      BY <1>3
  <2> QED
      BY <1>2, <2>1
<1> QED
    BY <1>3, <1>4

\* One turn of the loop at `pos`, when `from` holds what the later ones give.
Turn(buf, from, pos) ==
    IF pos = Len(buf) THEN Ok(<<>>)
    ELSE IF ~HeaderFits(buf, pos) THEN Raises
    ELSE Then(Packet(buf, pos), from[pos + buf[pos + 1].packet_len])

\* A header that fits leads further on in the buffer, and not beyond its end.
LEMMA Onward ==
    ASSUME NEW Cells, Measured(Cells), NEW buf \in Seq(Cells),
           NEW pos \in 0..Len(buf), HeaderFits(buf, pos)
    PROVE  /\ pos + 1 \in 1..Len(buf) /\ buf[pos + 1] \in Cells /\ buf[pos + 1].kind = "header"
           /\ buf[pos + 1].packet_len \in Nat /\ buf[pos + 1].header_len \in Nat
           /\ buf[pos + 1].header_len >= 2
           /\ buf[pos + 1].packet_len >= buf[pos + 1].header_len
           /\ pos + buf[pos + 1].packet_len \in (pos + 1)..Len(buf)
<1>1. Len(buf) \in Nat /\ pos + 1 \in 1..Len(buf)
    BY DEF HeaderFits, HEADER_SIZE
<1>2. buf[pos + 1] \in Cells
    BY <1>1, ElementOfSeq
<1> QED
    BY <1>1, <1>2 DEF HeaderFits, HEADER_SIZE, Measured

\* What is sliced out of a buffer is a packet.
LEMMA PacketTyped ==
    ASSUME NEW Cells, Measured(Cells), NEW buf \in Seq(Cells),
           NEW pos \in 0..Len(buf), HeaderFits(buf, pos)
    PROVE  Packet(buf, pos) \in Packets(Cells)
<1> DEFINE from == pos + buf[pos + 1].header_len + 1
           to == pos + buf[pos + 1].packet_len
<1>1. /\ buf[pos + 1] \in Cells /\ from \in Nat \ {0} /\ to \in 0..Len(buf)
    BY Onward
<1>2. \A k \in from..to : buf[k] \in Cells
    BY <1>1, ElementOfSeq
<1>3. SubSeq(buf, from, to) \in Seq(Cells)
  <2> HIDE DEF from, to
  <2> QED
      BY <1>1, <1>2, SubSeqProperties
<1> QED
    BY <1>1, <1>3 DEF Packet, Packets

LEMMA ThenTyped ==
    ASSUME NEW Cells, NEW packet \in Packets(Cells), NEW rest \in Results(Cells)
    PROVE  Then(packet, rest) \in Results(Cells)
<1>1. rest.ok \in BOOLEAN /\ rest.packets \in Seq(Packets(Cells))
    BY DEF Results
<1>2. <<packet>> \o rest.packets \in Seq(Packets(Cells))
    BY <1>1, ConcatProperties
<1> QED
    BY <1>1, <1>2 DEF Then, Ok, Raises, Results

\* The loop is defined: there is a function that every turn agrees with.
LEMMA LoopExists ==
    ASSUME NEW Cells, Measured(Cells), NEW buf \in Seq(Cells)
    PROVE  \E from : from = [pos \in 0..Len(buf) |-> Turn(buf, from, pos)]
<1> DEFINE L == Len(buf)
           Solves(n, g) == g = [pos \in (L - n)..L |-> Turn(buf, g, pos)]
           Good == {n \in 0..L : \E g : Solves(n, g)}
<1>1. L \in Nat
    OBVIOUS
<1>2. 0 \in Good
  <2> DEFINE g == [pos \in L..L |-> Ok(<<>>)]
  <2>1. \A pos \in L..L : Turn(buf, g, pos) = Ok(<<>>)
      BY <1>1 DEF Turn
  <2>2. Solves(0, g)
      BY <1>1, <2>1
  <2>3. \E from : Solves(0, from)
    <3> HIDE DEF g
    <3> QED
        BY <2>2
  <2> QED
      BY <1>1, <2>3
<1>3. ASSUME NEW n \in 0..L, n \in Good, n < L PROVE n + 1 \in Good
  <2>1. n + 1 \in 0..L /\ (L - (n + 1))..L \subseteq 0..L
      BY <1>1, <1>3
  <2>2. PICK g : Solves(n, g)
      BY <1>3
  <2> DEFINE h == [pos \in (L - (n + 1))..L |-> Turn(buf, g, pos)]
  <2>3. \A pos \in (L - n)..L : h[pos] = g[pos]
    <3>1. (L - n)..L \subseteq (L - (n + 1))..L
        BY <1>1
    <3>2. \A pos \in (L - n)..L : g[pos] = Turn(buf, g, pos)
        BY <2>2, Zenon
    <3> HIDE DEF L
    <3> QED
        BY <3>1, <3>2
  <2>4. ASSUME NEW pos \in (L - (n + 1))..L
        PROVE  Turn(buf, h, pos) = Turn(buf, g, pos)
    <3>1. CASE pos = L \/ ~HeaderFits(buf, pos)
        BY <3>1 DEF Turn
    <3>2. CASE pos # L /\ HeaderFits(buf, pos)
      <4>1. pos \in 0..L
          BY <2>1
      <4>2. pos + buf[pos + 1].packet_len \in (pos + 1)..L
          BY <3>2, <4>1, Onward
      <4>3. pos + buf[pos + 1].packet_len \in (L - n)..L
          BY <4>1, <4>2, <1>1
      <4>4. h[pos + buf[pos + 1].packet_len] = g[pos + buf[pos + 1].packet_len]
          BY <2>3, <4>3
      <4> HIDE DEF h
      <4> QED
          BY <4>4, Zenon DEF Turn
    <3> QED
        BY <3>1, <3>2
  <2>5. Solves(n + 1, h)
      BY <2>4, Zenon
  <2> QED
      BY <2>1, <2>5
<1>4. L \in Good
  <2> HIDE DEF Good
  <2>1. \A n \in 0..L : n \in Good
      BY <1>1, <1>2, <1>3, Induction
  <2> QED
      BY <1>1, <2>1
<1>5. PICK g : Solves(L, g)
    BY <1>4
<1>6. L - L = 0
    BY <1>1
<1> QED
    BY <1>5, <1>6

\* DecodeFrom is that function.
LEMMA Loop ==
    ASSUME NEW Cells, Measured(Cells), NEW buf \in Seq(Cells), NEW pos \in 0..Len(buf)
    PROVE  DecodeFrom(buf)[pos] = Turn(buf, DecodeFrom(buf), pos)
<1>1. DecodeFrom(buf) = CHOOSE from : from = [k \in 0..Len(buf) |-> Turn(buf, from, k)]
    BY Zenon DEF DecodeFrom, Turn
<1>2. DecodeFrom(buf) = [k \in 0..Len(buf) |-> Turn(buf, DecodeFrom(buf), k)]
    BY <1>1, LoopExists, Zenon
<1> QED
    BY <1>2, Zenon

LEMMA LoopTypes ==
    ASSUME NEW Cells, Measured(Cells), NEW buf \in Seq(Cells), NEW pos \in 0..Len(buf)
    PROVE  DecodeFrom(buf)[pos] \in Results(Cells)
<1> DEFINE Good == {k \in 0..Len(buf) : DecodeFrom(buf)[k] \in Results(Cells)}
<1>1. Len(buf) \in Nat
    OBVIOUS
<1>2. Ok(<<>>) \in Results(Cells) /\ Raises \in Results(Cells)
    BY DEF Ok, Raises, Results
<1>3. ASSUME NEW k \in 0..Len(buf), \A n \in (k + 1)..Len(buf) : n \in Good
      PROVE  k \in Good
  <2>1. DecodeFrom(buf)[k] = Turn(buf, DecodeFrom(buf), k)
      BY Loop
  <2>2. CASE k = Len(buf) \/ ~HeaderFits(buf, k)
      BY <1>2, <2>1, <2>2 DEF Turn
  <2>3. CASE k # Len(buf) /\ HeaderFits(buf, k)
    <3> DEFINE next == k + buf[k + 1].packet_len
    <3>1. next \in (k + 1)..Len(buf)
        BY <2>3, Onward
    <3>2. DecodeFrom(buf)[next] \in Results(Cells)
        BY <1>3, <3>1
    <3>3. Packet(buf, k) \in Packets(Cells)
        BY <2>3, PacketTyped
    <3>4. DecodeFrom(buf)[k] = Then(Packet(buf, k), DecodeFrom(buf)[next])
        BY <2>1, <2>3 DEF Turn
    <3>5. DecodeFrom(buf)[k] \in Results(Cells)
        BY <3>2, <3>3, <3>4, ThenTyped
    <3> QED
        BY <3>5
  <2> QED
      BY <2>2, <2>3
<1>4. \A k \in 0..Len(buf) : k \in Good
  <2> HIDE DEF Good
  <2> QED
      BY <1>1, <1>3, Backwards
<1> QED
    BY <1>4

\* A slice is a slice wherever its cells are.
LEMMA SliceMoved ==
    ASSUME NEW Cells, NEW s, NEW t, NEW m \in Int, NEW n \in Int, NEW d \in Int,
           \A k \in m..n : s[k] \in Cells /\ t[k + d] = s[k]
    PROVE  SubSeq(t, m + d, n + d) = SubSeq(s, m, n)
<1> DEFINE u == SubSeq(s, m, n)
           v == SubSeq(t, m + d, n + d)
<1>1. /\ u \in Seq(Cells) /\ Len(u) = IF m <= n THEN n - m + 1 ELSE 0
      /\ \A i \in 1..(n - m + 1) : u[i] = s[m + i - 1]
    BY SubSeqProperties
<1>2. \A k \in (m + d)..(n + d) : t[k] \in Cells
  <2> SUFFICES ASSUME NEW k \in (m + d)..(n + d) PROVE t[k] \in Cells
      OBVIOUS
  <2>1. k - d \in m..n /\ (k - d) + d = k
      OBVIOUS
  <2> QED
      BY <2>1
<1>3. /\ v \in Seq(Cells)
      /\ Len(v) = IF m + d <= n + d THEN (n + d) - (m + d) + 1 ELSE 0
      /\ \A i \in 1..((n + d) - (m + d) + 1) : v[i] = t[(m + d) + i - 1]
    BY <1>2, SubSeqProperties
<1>4. ASSUME NEW i \in 1..Len(u) PROVE u[i] = v[i]
  <2>1. i \in 1..(n - m + 1) /\ i \in 1..((n + d) - (m + d) + 1)
      BY <1>1
  <2>2. m + i - 1 \in m..n /\ (m + i - 1) + d = (m + d) + i - 1
      BY <2>1
  <2> QED
      BY <1>1, <1>3, <2>1, <2>2
<1>5. Len(u) = Len(v)
    BY <1>1, <1>3
<1> HIDE DEF u, v
<1>6. u = v
    BY <1>1, <1>3, <1>4, <1>5, SeqEqual
<1> QED
    BY <1>6 DEF u, v

\* Where a buffer that continues another is cut.
LEMMA SubSeqOfLonger ==
    ASSUME NEW S, NEW f \in Seq(S), NEW e \in Seq(S), NEW c \in 0..Len(f)
    PROVE  SubSeq(f \o e, 1, c) = SubSeq(f, 1, c)
<1>1. /\ Len(f) \in Nat /\ Len(e) \in Nat
      /\ \A i \in 1..(Len(f) + Len(e)) : (f \o e)[i] = IF i <= Len(f) THEN f[i] ELSE e[i - Len(f)]
    BY ConcatProperties
<1> DEFINE g == f \o e
<1>2. \A i \in 1..c : f[i] \in S /\ g[i + 0] = f[i]
    BY <1>1, ElementOfSeq
<1> HIDE DEF g
<1>3. SubSeq(g, 1 + 0, c + 0) = SubSeq(f, 1, c)
    BY <1>2, SliceMoved
<1> QED
    BY <1>3 DEF g

LEMMA SubSeqIntoSecond ==
    ASSUME NEW S, NEW f \in Seq(S), NEW e \in Seq(S), NEW i \in 1..Len(e)
    PROVE  SubSeq(f \o e, 1, Len(f) + i) = f \o SubSeq(e, 1, i)
<1> DEFINE g == f \o e
           n == Len(f)
<1>1. /\ g \in Seq(S) /\ Len(g) = n + Len(e) /\ n \in Nat /\ Len(e) \in Nat
      /\ \A j \in 1..(n + Len(e)) : g[j] = IF j <= n THEN f[j] ELSE e[j - n]
    BY ConcatProperties
<1>2. SubSeq(g, 1, n) = f
  <2>1. SubSeq(g, 1, n) = SubSeq(f, 1, n)
      BY <1>1, SubSeqOfLonger
  <2> QED
      BY <2>1, SubSeqFull
<1>3. SubSeq(g, n + 1, n + i) = SubSeq(e, 1, i)
  <2>1. \A j \in 1..i : e[j] \in S /\ g[j + n] = e[j]
    <3> SUFFICES ASSUME NEW j \in 1..i PROVE e[j] \in S /\ g[j + n] = e[j]
        OBVIOUS
    <3>1. j \in 1..Len(e) /\ j + n \in 1..(n + Len(e)) /\ ~(j + n <= n) /\ (j + n) - n = j
        BY <1>1
    <3> HIDE DEF g, n
    <3> QED
        BY <1>1, <3>1, ElementOfSeq
  <2> HIDE DEF g, n
  <2>2. SubSeq(g, 1 + n, i + n) = SubSeq(e, 1, i)
      BY <1>1, <2>1, SliceMoved
  <2>3. 1 + n = n + 1 /\ i + n = n + i
      BY <1>1
  <2> QED
      BY <2>2, <2>3
<1>4. SubSeq(g, 1, n) \o SubSeq(g, n + 1, n + i) = SubSeq(g, 1, n + i)
  <2> HIDE DEF g, n
  <2>1. 1 \in 1..(Len(g) + 1) /\ n \in (1 - 1)..Len(g) /\ n + i \in n..Len(g)
      BY <1>1
  <2> QED
      BY <1>1, <2>1, ConcatAdjacentSubSeq
<1> QED
    BY <1>2, <1>3, <1>4

\* What fits at the end of a buffer fits there after another buffer.
LEMMA Shifted ==
    ASSUME NEW Cells, Measured(Cells), NEW a \in Seq(Cells), NEW b \in Seq(Cells),
           NEW pos \in 0..Len(b), pos # Len(b)
    PROVE  /\ (a \o b)[Len(a) + pos + 1] = b[pos + 1]
           /\ HeaderFits(a \o b, Len(a) + pos) <=> HeaderFits(b, pos)
           /\ HeaderFits(b, pos) => Packet(a \o b, Len(a) + pos) = Packet(b, pos)
<1> DEFINE c == a \o b
<1>1. /\ c \in Seq(Cells) /\ Len(c) = Len(a) + Len(b)
      /\ \A i \in 1..(Len(a) + Len(b)) : c[i] = IF i <= Len(a) THEN a[i] ELSE b[i - Len(a)]
    BY ConcatProperties
<1>2. Len(a) \in Nat /\ Len(b) \in Nat
    OBVIOUS
<1>3. \A k \in 1..Len(b) : c[k + Len(a)] = b[k]
  <2> SUFFICES ASSUME NEW k \in 1..Len(b) PROVE c[k + Len(a)] = b[k]
      OBVIOUS
  <2>1. k + Len(a) \in 1..(Len(a) + Len(b)) /\ ~(k + Len(a) <= Len(a))
        /\ (k + Len(a)) - Len(a) = k
      BY <1>2
  <2> QED
      BY <1>1, <2>1
<1> HIDE DEF c
<1>4. c[Len(a) + pos + 1] = b[pos + 1]
  <2>1. pos + 1 \in 1..Len(b) /\ (pos + 1) + Len(a) = Len(a) + pos + 1
      BY <1>2
  <2> QED
      BY <1>3, <2>1
<1>5. b[pos + 1] \in Cells
    BY <1>2, ElementOfSeq
<1>6. HeaderFits(c, Len(a) + pos) <=> HeaderFits(b, pos)
    BY <1>1, <1>2, <1>4, <1>5 DEF HeaderFits, Measured, HEADER_SIZE
<1>7. ASSUME HeaderFits(b, pos) PROVE Packet(c, Len(a) + pos) = Packet(b, pos)
  <2> DEFINE m == pos + b[pos + 1].header_len + 1
             n == pos + b[pos + 1].packet_len
  <2>1. m \in Nat \ {0} /\ n \in 0..Len(b)
      BY <1>7, Onward
  <2>2. /\ (Len(a) + pos) + b[pos + 1].header_len + 1 = m + Len(a)
        /\ (Len(a) + pos) + b[pos + 1].packet_len = n + Len(a)
      BY <1>2, <1>7, Onward
  <2>3. SubSeq(c, m + Len(a), n + Len(a)) = SubSeq(b, m, n)
    <3> HIDE DEF m, n
    <3>1. \A k \in m..n : k \in 1..Len(b)
        BY <2>1
    <3>2. \A k \in m..n : b[k] \in Cells /\ c[k + Len(a)] = b[k]
        BY <3>1, <1>3, ElementOfSeq
    <3> QED
        BY <1>2, <2>1, <3>2, SliceMoved
  <2> QED
      BY <1>4, <2>2, <2>3 DEF Packet
<1> QED
    BY <1>4, <1>6, <1>7 DEF c

\* What fits in a buffer fits in a longer one.
LEMMA Kept ==
    ASSUME NEW Cells, Measured(Cells), NEW a \in Seq(Cells), NEW b \in Seq(Cells),
           NEW pos \in 0..Len(a), HeaderFits(a, pos)
    PROVE  /\ (a \o b)[pos + 1] = a[pos + 1]
           /\ HeaderFits(a \o b, pos)
           /\ Packet(a \o b, pos) = Packet(a, pos)
<1> DEFINE c == a \o b
<1>1. /\ c \in Seq(Cells) /\ Len(c) = Len(a) + Len(b)
      /\ \A i \in 1..(Len(a) + Len(b)) : c[i] = IF i <= Len(a) THEN a[i] ELSE b[i - Len(a)]
    BY ConcatProperties
<1>2. Len(a) \in Nat /\ Len(b) \in Nat
    OBVIOUS
<1>3. \A k \in 1..Len(a) : c[k] = a[k]
    BY <1>1, <1>2
<1> HIDE DEF c
<1>4. c[pos + 1] = a[pos + 1]
    BY <1>3, Onward
<1>5. HeaderFits(c, pos)
    BY <1>1, <1>2, <1>4, Onward DEF HeaderFits, HEADER_SIZE
<1> DEFINE m == pos + a[pos + 1].header_len + 1
           n == pos + a[pos + 1].packet_len
<1>6. m \in Nat \ {0} /\ n \in 0..Len(a)
    BY Onward
<1>7. SubSeq(c, m, n) = SubSeq(a, m, n)
  <2> HIDE DEF m, n
  <2>1. \A k \in m..n : k \in 1..Len(a)
      BY <1>6
  <2>2. \A k \in m..n : a[k] \in Cells /\ c[k + 0] = a[k]
      BY <2>1, <1>3, ElementOfSeq
  <2>3. m + 0 = m /\ n + 0 = n
      BY <1>6
  <2>4. SubSeq(c, m + 0, n + 0) = SubSeq(a, m, n)
      BY <1>6, <2>2, SliceMoved
  <2> QED
      BY <2>3, <2>4
<1>8. Packet(c, pos) = Packet(a, pos)
    BY <1>4, <1>7 DEF Packet
<1> QED
    BY <1>4, <1>5, <1>8 DEF c

\* The loop that has got past a buffer does with the next what it does with it alone.
LEMMA LoopShifted ==
    ASSUME NEW Cells, Measured(Cells), NEW a \in Seq(Cells), NEW b \in Seq(Cells),
           NEW pos \in 0..Len(b)
    PROVE  DecodeFrom(a \o b)[Len(a) + pos] = DecodeFrom(b)[pos]
<1> DEFINE c == a \o b
           Good == {k \in 0..Len(b) : DecodeFrom(c)[Len(a) + k] = DecodeFrom(b)[k]}
<1>1. c \in Seq(Cells) /\ Len(c) = Len(a) + Len(b) /\ Len(a) \in Nat /\ Len(b) \in Nat
    BY ConcatProperties
<1>2. ASSUME NEW k \in 0..Len(b), \A n \in (k + 1)..Len(b) : n \in Good
      PROVE  k \in Good
  <2> HIDE DEF c
  <2>1. Len(a) + k \in 0..Len(c)
      BY <1>1
  <2>2. /\ DecodeFrom(c)[Len(a) + k] = Turn(c, DecodeFrom(c), Len(a) + k)
        /\ DecodeFrom(b)[k] = Turn(b, DecodeFrom(b), k)
      BY <1>1, <2>1, Loop
  <2>3. CASE k = Len(b)
      BY <1>1, <2>2, <2>3 DEF Turn
  <2>4. CASE k # Len(b)
    <3>1. /\ c[Len(a) + k + 1] = b[k + 1]
          /\ HeaderFits(c, Len(a) + k) <=> HeaderFits(b, k)
          /\ HeaderFits(b, k) => Packet(c, Len(a) + k) = Packet(b, k)
        BY <2>4, Shifted DEF c
    <3>2. Len(a) + k # Len(c)
        BY <1>1, <2>4
    <3>3. CASE ~HeaderFits(b, k)
        BY <2>2, <2>4, <3>1, <3>2, <3>3 DEF Turn
    <3>4. CASE HeaderFits(b, k)
      <4> DEFINE next == k + b[k + 1].packet_len
      <4>1. next \in (k + 1)..Len(b)
          BY <3>4, Onward
      <4>2. DecodeFrom(c)[Len(a) + next] = DecodeFrom(b)[next]
          BY <1>2, <4>1
      <4>3. (Len(a) + k) + b[k + 1].packet_len = Len(a) + next
          BY <1>1, <3>4, Onward
      <4>4. DecodeFrom(b)[k] = Then(Packet(b, k), DecodeFrom(b)[next])
          BY <2>2, <2>4, <3>4 DEF Turn
      <4>5. DecodeFrom(c)[Len(a) + k] = Then(Packet(b, k), DecodeFrom(c)[Len(a) + next])
          BY <2>2, <3>1, <3>2, <3>4, <4>3 DEF Turn
      <4> QED
          BY <4>2, <4>4, <4>5
    <3> QED
        BY <3>3, <3>4
  <2> QED
      BY <2>3, <2>4
<1>3. \A k \in 0..Len(b) : k \in Good
  <2> HIDE DEF Good
  <2> QED
      BY <1>1, <1>2, Backwards
<1> QED
    BY <1>3

\* What decoding two buffers one after the other comes to.
Both(first, second) ==
    IF second.ok THEN Ok(first.packets \o second.packets) ELSE Raises

\* A result is all the packets of the buffer, or none.
LEMMA DecodesAllOrNothing ==
    ASSUME NEW Cells, Measured(Cells), NEW buf \in Seq(Cells)
    PROVE  DecodePackets(buf) = IF DecodePackets(buf).ok THEN Ok(DecodePackets(buf).packets)
                                                         ELSE Raises
<1>1. 0 \in 0..Len(buf)
    OBVIOUS
<1>2. DecodePackets(buf) = Turn(buf, DecodeFrom(buf), 0)
    BY <1>1, Loop DEF DecodePackets
<1>3. DecodePackets(buf) = Raises \/ \E q : DecodePackets(buf) = Ok(q)
    BY <1>2, Zenon DEF Turn, Then
<1> QED
    BY <1>3 DEF Ok, Raises

\* A packet before two buffers is a packet before the first.
LEMMA ThenBoth ==
    ASSUME NEW P, NEW p \in P, NEW first, first.ok, NEW second,
           first.packets \in Seq(P), second.packets \in Seq(P)
    PROVE  Then(p, Both(first, second)) = Both(Then(p, first), second)
<1> DEFINE one == <<p>>
<1>1. one \in Seq(P)
    OBVIOUS
<1> HIDE DEF one
<1>2. (one \o first.packets) \o second.packets = one \o (first.packets \o second.packets)
  <2>1. \A s, t, u \in Seq(P) : (s \o t) \o u = s \o (t \o u)
      BY ConcatAssociative
  <2> QED
      BY <1>1, <2>1, Zenon
<1> USE DEF one
<1>3. Then(p, first) = Ok(one \o first.packets)
    BY DEF Then
<1>4. CASE second.ok
  <2>1. Both(first, second) = Ok(first.packets \o second.packets)
      BY <1>4 DEF Both
  <2>2. Then(p, Both(first, second)) = Ok(one \o (first.packets \o second.packets))
      BY <2>1 DEF Then, Ok
  <2>3. Both(Then(p, first), second) = Ok((one \o first.packets) \o second.packets)
      BY <1>3, <1>4 DEF Both, Ok
  <2> QED
      BY <1>2, <2>2, <2>3
<1>5. CASE ~second.ok
    BY <1>5 DEF Then, Both, Raises
<1> QED
    BY <1>4, <1>5

\* The loop that reaches the end of a buffer goes on with the next.
LEMMA LoopGoesOn ==
    ASSUME NEW Cells, Measured(Cells), NEW a \in Seq(Cells), NEW b \in Seq(Cells),
           NEW pos \in 0..Len(a), DecodeFrom(a)[pos].ok
    PROVE  DecodeFrom(a \o b)[pos] = Both(DecodeFrom(a)[pos], DecodePackets(b))
<1> DEFINE c == a \o b
           Good == {k \in 0..Len(a) : DecodeFrom(a)[k].ok =>
                        DecodeFrom(c)[k] = Both(DecodeFrom(a)[k], DecodePackets(b))}
<1>1. c \in Seq(Cells) /\ Len(c) = Len(a) + Len(b) /\ Len(a) \in Nat /\ Len(b) \in Nat
    BY ConcatProperties
<1>2. DecodePackets(b) \in Results(Cells)
    BY <1>1, LoopTypes DEF DecodePackets
<1>3. ASSUME NEW k \in 0..Len(a), \A n \in (k + 1)..Len(a) : n \in Good, DecodeFrom(a)[k].ok
      PROVE  DecodeFrom(c)[k] = Both(DecodeFrom(a)[k], DecodePackets(b))
  <2>1. DecodeFrom(a)[k] = Turn(a, DecodeFrom(a), k)
      BY Loop
  <2>2. CASE k = Len(a)
    <3>1. DecodeFrom(a)[k] = Ok(<<>>)
        BY <2>1, <2>2 DEF Turn
    <3>2. DecodeFrom(c)[Len(a) + 0] = DecodeFrom(b)[0]
        BY <1>1, LoopShifted
    <3>3. DecodeFrom(c)[k] = DecodePackets(b)
        BY <1>1, <2>2, <3>2 DEF DecodePackets
    <3>4. <<>> \o DecodePackets(b).packets = DecodePackets(b).packets
        BY <1>2, ConcatEmptySeq DEF Results
    <3>5. DecodePackets(b) = IF DecodePackets(b).ok THEN Ok(DecodePackets(b).packets) ELSE Raises
        BY <1>1, DecodesAllOrNothing
    <3> QED
        BY <3>1, <3>3, <3>4, <3>5 DEF Both, Ok
  <2>3. CASE k # Len(a)
    <3>1. HeaderFits(a, k)
        BY <1>3, <2>1, <2>3 DEF Turn, Raises
    <3> DEFINE next == k + a[k + 1].packet_len
               p == Packet(a, k)
    <3>2. next \in (k + 1)..Len(a) /\ next \in 0..Len(a) /\ p \in Packets(Cells)
        BY <3>1, Onward, PacketTyped
    <3>3. DecodeFrom(a)[k] = Then(p, DecodeFrom(a)[next])
        BY <2>1, <2>3, <3>1 DEF Turn
    <3>4. DecodeFrom(a)[next].ok
        BY <1>3, <3>3 DEF Then, Raises
    <3>5. DecodeFrom(c)[next] = Both(DecodeFrom(a)[next], DecodePackets(b))
        BY <1>3, <3>2, <3>4
    <3>6. DecodeFrom(c)[k] = Then(p, DecodeFrom(c)[next])
      <4>1. c[k + 1] = a[k + 1] /\ HeaderFits(c, k) /\ Packet(c, k) = p
          BY <3>1, Kept
      <4>2. k \in 0..Len(c) /\ k # Len(c)
          BY <1>1, <2>3
      <4>3. DecodeFrom(c)[k] = Turn(c, DecodeFrom(c), k)
          BY <1>1, <4>2, Loop
      <4> HIDE DEF c
      <4> QED
          BY <4>1, <4>2, <4>3 DEF Turn
    <3>7. DecodeFrom(a)[next].packets \in Seq(Packets(Cells))
        BY <3>2, LoopTypes DEF Results
    <3>8. DecodePackets(b).packets \in Seq(Packets(Cells))
        BY <1>2 DEF Results
    <3> HIDE DEF next, p, c
    <3>9. Then(p, Both(DecodeFrom(a)[next], DecodePackets(b)))
              = Both(Then(p, DecodeFrom(a)[next]), DecodePackets(b))
        BY <3>2, <3>4, <3>7, <3>8, ThenBoth
    <3> QED
        BY <3>3, <3>5, <3>6, <3>9
  <2> QED
      BY <2>2, <2>3
<1>4. \A k \in 0..Len(a) : k \in Good
  <2>1. \A k \in 0..Len(a) : (\A n \in (k + 1)..Len(a) : n \in Good) => k \in Good
      BY <1>3
  <2> HIDE DEF Good
  <2> QED
      BY <1>1, <2>1, Backwards
<1> QED
    BY <1>4

\* Frames that follow one another in a buffer are decoded one after the other,
\* whatever the second holds: what is wrong in it is wrong with the whole
\* (protocol.py:67-80).
THEOREM FramesConcatenate ==
    ASSUME NEW Cells, Measured(Cells), NEW a \in Seq(Cells), NEW b \in Seq(Cells),
           DecodePackets(a).ok
    PROVE  DecodePackets(a \o b) = Both(DecodePackets(a), DecodePackets(b))
<1>1. 0 \in 0..Len(a)
    OBVIOUS
<1> QED
    BY <1>1, LoopGoesOn DEF DecodePackets

\* The cells that packets with these operations, encodings and bodies are made of.
Wire(Ops, Vers, Cells) ==
    Cells \cup {Pad}
    \cup [kind : {"header"}, packet_len : Nat, header_len : {HEADER_SIZE},
          protover : Vers, op : Ops]

Sent(Ops, Vers, Cells) == [op : Ops, protover : Vers, body : Seq(Cells)]

Encode(p) == EncodePacket(p.op, p.body, p.protover)

LEMMA WireMeasured ==
    ASSUME NEW Ops, NEW Vers, NEW Cells, Measured(Cells)
    PROVE  Measured(Wire(Ops, Vers, Cells))
BY DEF Measured, Wire, Pad, HEADER_SIZE

\* What a packet is made of.
LEMMA Encoding ==
    ASSUME NEW Ops, NEW Vers, NEW Cells, NEW p \in Sent(Ops, Vers, Cells)
    PROVE  /\ Encode(p) \in Seq(Wire(Ops, Vers, Cells))
           /\ Len(Encode(p)) = 2 + Len(p.body) /\ Len(p.body) \in Nat
           /\ Encode(p)[1] = [kind |-> "header", packet_len |-> 2 + Len(p.body), header_len |-> 2,
                              protover |-> p.protover, op |-> p.op]
           /\ \A k \in 1..Len(p.body) : Encode(p)[k + 2] = p.body[k]
<1> DEFINE W == Wire(Ops, Vers, Cells)
           head == [kind |-> "header", packet_len |-> 2 + Len(p.body), header_len |-> 2,
                    protover |-> p.protover, op |-> p.op]
           front == <<head, Pad>>
<1>1. /\ p.op \in Ops /\ p.protover \in Vers /\ p.body \in Seq(Cells) /\ Len(p.body) \in Nat
    BY DEF Sent
<1>2. head \in W /\ Pad \in W
    BY <1>1 DEF Wire, HEADER_SIZE
<1>3. Cells \subseteq W
    BY DEF Wire
<1>4. p.body \in Seq(W)
    BY <1>1, <1>3, SeqMonotonic
<1>5. Encode(p) = front \o p.body
    BY DEF Encode, EncodePacket, HEADER_SIZE
<1> HIDE DEF W, head
<1>6. front \in Seq(W) /\ Len(front) = 2 /\ front[1] = head
    BY <1>2
<1> HIDE DEF front
<1>7. /\ Encode(p) \in Seq(W) /\ Len(Encode(p)) = Len(front) + Len(p.body)
      /\ \A i \in 1..(Len(front) + Len(p.body)) :
            Encode(p)[i] = IF i <= Len(front) THEN front[i] ELSE p.body[i - Len(front)]
  <2>1. \A s1, s2 \in Seq(W) :
            /\ s1 \o s2 \in Seq(W) /\ Len(s1 \o s2) = Len(s1) + Len(s2)
            /\ \A i \in 1..(Len(s1) + Len(s2)) :
                  (s1 \o s2)[i] = IF i <= Len(s1) THEN s1[i] ELSE s2[i - Len(s1)]
      BY ConcatProperties
  <2>2. front \in Seq(W) /\ p.body \in Seq(W)
      BY <1>4, <1>6
  <2>3. /\ front \o p.body \in Seq(W) /\ Len(front \o p.body) = Len(front) + Len(p.body)
        /\ \A i \in 1..(Len(front) + Len(p.body)) :
             (front \o p.body)[i] = IF i <= Len(front) THEN front[i] ELSE p.body[i - Len(front)]
      BY <2>1, <2>2, Zenon
  <2> QED
      BY <1>5, <2>3, Zenon
<1>8. Encode(p)[1] = head
    BY <1>1, <1>6, <1>7
<1>9. ASSUME NEW k \in 1..Len(p.body) PROVE Encode(p)[k + 2] = p.body[k]
  <2>1. k + 2 \in 1..(2 + Len(p.body)) /\ ~(k + 2 <= 2) /\ (k + 2) - 2 = k
      BY <1>1
  <2> QED
      BY <1>6, <1>7, <2>1
<1> QED
    BY <1>1, <1>6, <1>7, <1>8, <1>9 DEF W, head

\* A packet that is whole comes back as it was sent.
LEMMA PacketDecodes ==
    ASSUME NEW Ops, NEW Vers, NEW Cells, Measured(Cells), NEW p \in Sent(Ops, Vers, Cells)
    PROVE  DecodePackets(Encode(p)) = Ok(<<p>>)
<1> DEFINE W == Wire(Ops, Vers, Cells)
           e == Encode(p)
<1>1. /\ e \in Seq(W) /\ Measured(W) /\ Len(e) = 2 + Len(p.body) /\ Len(p.body) \in Nat
      /\ e[1] = [kind |-> "header", packet_len |-> 2 + Len(p.body), header_len |-> 2,
                 protover |-> p.protover, op |-> p.op]
      /\ \A k \in 1..Len(p.body) : e[k + 2] = p.body[k]
    BY Encoding, WireMeasured
<1>2. p = [op |-> p.op, protover |-> p.protover, body |-> p.body] /\ p.body \in Seq(Cells)
    BY DEF Sent
<1> HIDE DEF W, e
<1>3. HeaderFits(e, 0)
    BY <1>1 DEF HeaderFits, HEADER_SIZE
<1>4. Packet(e, 0) = p
  <2>1. SubSeq(e, 1 + 2, Len(p.body) + 2) = SubSeq(p.body, 1, Len(p.body))
    <3>1. \A k \in 1..Len(p.body) : p.body[k] \in Cells /\ e[k + 2] = p.body[k]
        BY <1>1, <1>2, ElementOfSeq
    <3> QED
        BY <1>1, <3>1, SliceMoved
  <2>2. SubSeq(e, 0 + 2 + 1, 0 + (2 + Len(p.body))) = p.body
      BY <1>1, <1>2, <2>1, SubSeqFull
  <2>3. Packet(e, 0) = [op |-> p.op, protover |-> p.protover,
                        body |-> SubSeq(e, 0 + 2 + 1, 0 + (2 + Len(p.body)))]
    <3>1. /\ 0 + 1 = 1 /\ e[1].op = p.op /\ e[1].protover = p.protover
          /\ e[1].header_len = 2 /\ e[1].packet_len = 2 + Len(p.body)
        BY <1>1
    <3> QED
        BY <3>1, Zenon DEF Packet
  <2> QED
      BY <1>2, <2>2, <2>3
<1>5. DecodeFrom(e)[0] = Then(p, DecodeFrom(e)[Len(e)])
  <2>1. 0 \in 0..Len(e) /\ 0 # Len(e) /\ 0 + e[0 + 1].packet_len = Len(e)
      BY <1>1
  <2>2. DecodeFrom(e)[0] = Turn(e, DecodeFrom(e), 0)
      BY <1>1, <2>1, Loop
  <2> QED
      BY <1>3, <1>4, <2>1, <2>2 DEF Turn
<1>6. DecodeFrom(e)[Len(e)] = Ok(<<>>)
  <2>1. DecodeFrom(e)[Len(e)] = Turn(e, DecodeFrom(e), Len(e))
      BY <1>1, Loop
  <2> QED
      BY <2>1 DEF Turn
<1>7. <<p>> \o <<>> = <<p>>
    OBVIOUS
<1> QED
    BY <1>5, <1>6, <1>7 DEF DecodePackets, Then, Ok, e

\* One that lacks cells at its end is refused.
LEMMA CutPacketRaises ==
    ASSUME NEW Ops, NEW Vers, NEW Cells, Measured(Cells), NEW p \in Sent(Ops, Vers, Cells),
           NEW n \in 1..(Len(Encode(p)) - 1)
    PROVE  DecodePackets(SubSeq(Encode(p), 1, n)) = Raises
<1> DEFINE W == Wire(Ops, Vers, Cells)
           e == Encode(p)
           c == SubSeq(e, 1, n)
<1>1. /\ e \in Seq(W) /\ Measured(W) /\ Len(e) = 2 + Len(p.body) /\ Len(p.body) \in Nat
      /\ e[1] = [kind |-> "header", packet_len |-> 2 + Len(p.body), header_len |-> 2,
                 protover |-> p.protover, op |-> p.op]
    BY Encoding, WireMeasured
<1>2. n \in 1..(Len(e) - 1)
    OBVIOUS
<1> HIDE DEF W, e
<1>3. c \in Seq(W) /\ Len(c) = n /\ c[1] = e[1]
  <2>1. \A i \in 1..n : e[i] \in W
      BY <1>1, <1>2, ElementOfSeq
  <2>2. /\ c \in Seq(W) /\ Len(c) = IF 1 <= n THEN n - 1 + 1 ELSE 0
        /\ \A i \in 1..(n - 1 + 1) : c[i] = e[1 + i - 1]
      BY <1>2, <2>1, SubSeqProperties
  <2> QED
      BY <1>2, <2>2
<1> HIDE DEF c
<1>4. ~HeaderFits(c, 0)
    BY <1>1, <1>2, <1>3 DEF HeaderFits
<1>5. DecodeFrom(c)[0] = Turn(c, DecodeFrom(c), 0)
    BY <1>1, <1>2, <1>3, Loop
<1> QED
    BY <1>2, <1>3, <1>4, <1>5 DEF DecodePackets, Turn, c, e

\* frame[k] is the frame of the first k of the packets sent.
Frames(sent, frame) ==
    /\ frame[0] = <<>>
    /\ \A k \in 1..Len(sent) : frame[k] = frame[k - 1] \o Encode(sent[k])

LEMMA EmptyDecodes == DecodePackets(<<>>) = Ok(<<>>)
<1> SUFFICES ASSUME NEW buf, buf = <<>> PROVE DecodePackets(buf) = Ok(<<>>)
    OBVIOUS
<1>1. buf \in Seq({}) /\ Len(buf) = 0 /\ 0 \in 0..Len(buf) /\ Measured({})
    BY DEF Measured
<1>2. DecodeFrom(buf)[0] = Turn(buf, DecodeFrom(buf), 0)
    BY <1>1, Loop, Zenon
<1> QED
    BY <1>1, <1>2 DEF Turn, DecodePackets

\* The packets of a frame come back as they were sent, all of them and in order.
LEMMA FrameDecodes ==
    ASSUME NEW Ops, NEW Vers, NEW Cells, Measured(Cells),
           NEW sent \in Seq(Sent(Ops, Vers, Cells)), NEW frame, Frames(sent, frame),
           NEW k \in 0..Len(sent)
    PROVE  /\ frame[k] \in Seq(Wire(Ops, Vers, Cells))
           /\ DecodePackets(frame[k]) = Ok(SubSeq(sent, 1, k))
<1> DEFINE P == Sent(Ops, Vers, Cells)
           W == Wire(Ops, Vers, Cells)
           Good == {n \in 0..Len(sent) : /\ frame[n] \in Seq(W)
                                         /\ DecodePackets(frame[n]) = Ok(SubSeq(sent, 1, n))}
<1>1. Len(sent) \in Nat /\ Measured(W)
    BY WireMeasured
<1>2. 0 \in Good
  <2>1. frame[0] = <<>> /\ SubSeq(sent, 1, 0) = <<>>
      BY SubSeqEmpty DEF Frames
  <2>2. frame[0] \in Seq(W)
      BY <2>1
  <2>3. DecodePackets(frame[0]) = Ok(SubSeq(sent, 1, 0))
      BY <2>1, EmptyDecodes
  <2>4. 0 \in 0..Len(sent)
      BY <1>1
  <2> HIDE DEF W
  <2> QED
      BY <2>2, <2>3, <2>4, Zenon
<1>3. ASSUME NEW n \in 0..Len(sent), n \in Good, n < Len(sent) PROVE n + 1 \in Good
  <2> DEFINE p == sent[n + 1]
  <2>1. n + 1 \in 1..Len(sent) /\ n + 1 \in 0..Len(sent) /\ (n + 1) - 1 = n
      BY <1>1, <1>3
  <2>2. p \in P
      BY <2>1, ElementOfSeq
  <2>3. frame[n + 1] = frame[n] \o Encode(p)
      BY <2>1 DEF Frames
  <2> HIDE DEF p
  <2>4. Encode(p) \in Seq(W) /\ DecodePackets(Encode(p)) = Ok(<<p>>)
      BY <2>2, Encoding, PacketDecodes
  <2>5. frame[n] \in Seq(W) /\ DecodePackets(frame[n]) = Ok(SubSeq(sent, 1, n))
      BY <1>3
  <2> HIDE DEF Good, W
  <2>6. DecodePackets(frame[n + 1]) = Both(Ok(SubSeq(sent, 1, n)), Ok(<<p>>))
    <3>1. DecodePackets(frame[n]).ok
        BY <2>5 DEF Ok
    <3>2. DecodePackets(frame[n] \o Encode(p)) =
              Both(DecodePackets(frame[n]), DecodePackets(Encode(p)))
        BY <1>1, <2>4, <2>5, <3>1, FramesConcatenate
    <3> QED
        BY <2>3, <2>4, <2>5, <3>2
  <2>7. SubSeq(sent, 1, n) \o <<p>> = SubSeq(sent, 1, n + 1)
    <3>1. 1 \in 1..Len(sent) /\ n + 1 \in 1..Len(sent)
        BY <1>1, <2>1
    <3>2. SubSeq(sent, 1, n + 1) = SubSeq(sent, 1, (n + 1) - 1) \o <<sent[n + 1]>>
        BY <3>1, SubSeqRecursiveSecond
    <3> QED
        BY <2>1, <3>2 DEF p
  <2>8. DecodePackets(frame[n + 1]) = Ok(SubSeq(sent, 1, n + 1))
      BY <2>6, <2>7 DEF Both, Ok
  <2>9. frame[n + 1] \in Seq(W)
      BY <2>3, <2>4, <2>5, ConcatProperties
  <2> QED
      BY <2>1, <2>8, <2>9 DEF Good
<1>4. k \in Good
  <2> HIDE DEF Good
  <2>1. \A n \in 0..Len(sent) : n \in Good
      BY <1>1, <1>2, <1>3, Induction
  <2> QED
      BY <2>1
<1> QED
    BY <1>4

\* A frame that was cut anywhere is refused, unless it was cut between two packets.
LEMMA CutBetweenPackets ==
    ASSUME NEW Ops, NEW Vers, NEW Cells, Measured(Cells),
           NEW sent \in Seq(Sent(Ops, Vers, Cells)), NEW frame, Frames(sent, frame),
           NEW k \in 0..Len(sent), NEW cut \in 0..Len(frame[k])
    PROVE  \/ DecodePackets(SubSeq(frame[k], 1, cut)) = Raises
           \/ \E n \in 0..k : /\ cut = Len(frame[n])
                             /\ SubSeq(frame[k], 1, cut) = frame[n]
<1> DEFINE W == Wire(Ops, Vers, Cells)
           Told(n, c) == \/ DecodePackets(SubSeq(frame[n], 1, c)) = Raises
                         \/ \E m \in 0..n : /\ c = Len(frame[m])
                                           /\ SubSeq(frame[n], 1, c) = frame[m]
           Good == {n \in 0..Len(sent) : \A c \in 0..Len(frame[n]) : Told(n, c)}
<1>1. Len(sent) \in Nat /\ Measured(W)
    BY WireMeasured
<1>2. 0 \in Good
  <2>1. frame[0] = <<>> /\ Len(frame[0]) = 0
      BY DEF Frames
  <2>2. SubSeq(frame[0], 1, 0) = frame[0]
      BY <2>1, SubSeqEmpty
  <2>3. ASSUME NEW c \in 0..Len(frame[0]) PROVE Told(0, c)
    <3>1. c = Len(frame[0]) /\ SubSeq(frame[0], 1, c) = frame[0] /\ 0 \in 0..0
        BY <2>1, <2>2
    <3> QED
        BY <3>1, Zenon
  <2>4. 0 \in 0..Len(sent)
      BY <1>1
  <2> HIDE DEF Told
  <2> QED
      BY <2>3, <2>4, Zenon
<1>3. ASSUME NEW n \in 0..Len(sent), n \in Good, n < Len(sent) PROVE n + 1 \in Good
  <2> DEFINE p == sent[n + 1]
             e == Encode(p)
             f == frame[n]
  <2>1. n + 1 \in 1..Len(sent) /\ n + 1 \in 0..Len(sent) /\ (n + 1) - 1 = n
        /\ 0..n \subseteq 0..(n + 1) /\ n + 1 \in 0..(n + 1)
      BY <1>1, <1>3
  <2>2. p \in Sent(Ops, Vers, Cells)
      BY <2>1, ElementOfSeq
  <2>3. frame[n + 1] = f \o e
      BY <2>1 DEF Frames
  <2> HIDE DEF p
  <2>4. e \in Seq(W) /\ f \in Seq(W) /\ DecodePackets(f) = Ok(SubSeq(sent, 1, n))
    <3>1. e \in Seq(W)
        BY <2>2, Encoding
    <3>2. f \in Seq(W) /\ DecodePackets(f) = Ok(SubSeq(sent, 1, n))
        BY FrameDecodes
    <3> QED
        BY <3>1, <3>2
  <2>5. \A i \in 1..(Len(e) - 1) : DecodePackets(SubSeq(e, 1, i)) = Raises
      BY <2>2, CutPacketRaises
  <2>6. \A c \in 0..Len(f) : Told(n, c)
      BY <1>3
  <2> HIDE DEF Good, W, e, f
  <2>7. /\ f \o e \in Seq(W) /\ Len(f \o e) = Len(f) + Len(e) /\ Len(f) \in Nat /\ Len(e) \in Nat
      BY <2>4, ConcatProperties
  <2>8. ASSUME NEW c \in 0..Len(f \o e) PROVE Told(n + 1, c)
    <3> HIDE DEF Told
    <3>0. c \in Nat /\ c <= Len(f) + Len(e)
        BY <2>7
    <3>1. CASE c <= Len(f)
      <4>1. c \in 0..Len(f)
          BY <2>7, <3>1
      <4>2. SubSeq(f \o e, 1, c) = SubSeq(f, 1, c)
          BY <2>4, <4>1, SubSeqOfLonger
      <4>3. Told(n, c)
          BY <2>6, <4>1
      <4> QED
          BY <2>1, <2>3, <4>2, <4>3, Zenon DEF f, Told
    <3>2. CASE c = Len(f) + Len(e)
      <4>1. SubSeq(f \o e, 1, c) = f \o e
          BY <2>7, <3>2, SubSeqFull
      <4> QED
          BY <2>1, <2>3, <2>7, <3>2, <4>1 DEF Told
    <3>3. CASE Len(f) < c /\ c # Len(f) + Len(e)
      <4> DEFINE i == c - Len(f)
      <4>1. i \in 1..(Len(e) - 1) /\ c = Len(f) + i
        <5>1. \A x, y, z \in Nat : x < z /\ z <= x + y /\ z # x + y
                  => z - x \in 1..(y - 1) /\ z = x + (z - x)
            OBVIOUS
        <5> QED
            BY <2>7, <3>0, <3>3, <5>1, Zenon
      <4>2. SubSeq(f \o e, 1, c) = f \o SubSeq(e, 1, i)
          BY <2>4, <4>1, SubSeqIntoSecond
      <4>3. SubSeq(e, 1, i) \in Seq(W) /\ DecodePackets(SubSeq(e, 1, i)) = Raises
        <5>1. \A j \in 1..i : e[j] \in W
            BY <2>4, <2>7, <4>1, ElementOfSeq
        <5> HIDE DEF i
        <5> QED
            BY <2>5, <4>1, <5>1, SubSeqProperties
      <4>4. DecodePackets(f).ok
          BY <2>4 DEF Ok
      <4> HIDE DEF i
      <4>5. DecodePackets(f \o SubSeq(e, 1, i)) = Both(DecodePackets(f), Raises)
          BY <1>1, <2>4, <4>3, <4>4, FramesConcatenate
      <4>6. DecodePackets(SubSeq(frame[n + 1], 1, c)) = Raises
          BY <2>3, <4>2, <4>5 DEF Both, Raises
      <4> QED
          BY <4>6 DEF Told
    <3> QED
        BY <2>7, <3>0, <3>1, <3>2, <3>3
  <2> QED
      BY <2>1, <2>3, <2>8 DEF Good
<1>4. k \in Good
  <2> HIDE DEF Good
  <2>1. \A n \in 0..Len(sent) : n \in Good
      BY <1>1, <1>2, <1>3, Induction
  <2> QED
      BY <2>1
<1> QED
    BY <1>4

\* Of a frame that lacks its end decode_packets tells what was sent up to there,
\* if it ends between two packets, or else nothing: it raises (protocol.py:74-79).
THEOREM CutFrameTells ==
    ASSUME NEW Ops, NEW Vers, NEW Cells, Measured(Cells),
           NEW sent \in Seq(Sent(Ops, Vers, Cells)), NEW frame, Frames(sent, frame),
           NEW cut \in 0..Len(frame[Len(sent)])
    PROVE  LET told == DecodePackets(SubSeq(frame[Len(sent)], 1, cut))
           IN  \/ told = Raises
               \/ \E n \in 0..Len(sent) : cut = Len(frame[n]) /\ told = Ok(SubSeq(sent, 1, n))
<1> DEFINE told == DecodePackets(SubSeq(frame[Len(sent)], 1, cut))
<1>1. Len(sent) \in 0..Len(sent)
    OBVIOUS
<1>2. \/ told = Raises
      \/ \E n \in 0..Len(sent) : /\ cut = Len(frame[n])
                              /\ SubSeq(frame[Len(sent)], 1, cut) = frame[n]
    BY <1>1, CutBetweenPackets
<1>3. \A n \in 0..Len(sent) : DecodePackets(frame[n]) = Ok(SubSeq(sent, 1, n))
    BY FrameDecodes
<1> QED
    BY <1>2, <1>3, Zenon

\* What FlattenSeq joins, it joins one by one.
LEMMA FlattenJoins ==
    ASSUME NEW S, NEW seqs, Len(seqs) \in Nat, Len(seqs) # 0,
           \A k \in 1..Len(seqs) : seqs[k] \in Seq(S)
    PROVE  \E frame : /\ frame[0] = <<>>
                      /\ \A k \in 1..Len(seqs) : frame[k] = frame[k - 1] \o seqs[k]
                      /\ FlattenSeq(seqs) = frame[Len(seqs)]
<1> DEFINE L == Len(seqs)
           Join(g, i) == IF i = 1 THEN seqs[i] ELSE g[i - 1] \o seqs[i]
           Good == {n \in 0..L : \E g : g = [i \in 1..n |-> Join(g, i)]}
<1>1. 0 \in Good
  <2> DEFINE g == [i \in 1..0 |-> seqs[i]]
  <2>1. g = [i \in 1..0 |-> Join(g, i)]
      OBVIOUS
  <2>2. \E from : from = [i \in 1..0 |-> Join(from, i)]
    <3> HIDE DEF g, Join
    <3> QED
        BY <2>1
  <2>3. 0 \in 0..L
      OBVIOUS
  <2> HIDE DEF Join, L
  <2> QED
      BY <2>2, <2>3, Zenon
<1>2. ASSUME NEW n \in 0..L, n \in Good, n < L PROVE n + 1 \in Good
  <2>1. PICK g : g = [i \in 1..n |-> Join(g, i)]
      BY <1>2
  <2> DEFINE h == [i \in 1..(n + 1) |-> Join(g, i)]
  <2>2. \A i \in 1..n : h[i] = g[i]
    <3>1. 1..n \subseteq 1..(n + 1)
        OBVIOUS
    <3> HIDE DEF Join
    <3>2. \A i \in 1..n : g[i] = Join(g, i)
        BY <2>1, Zenon
    <3> QED
        BY <3>1, <3>2
  <2>3. ASSUME NEW i \in 1..(n + 1) PROVE Join(h, i) = Join(g, i)
    <3>1. CASE i = 1
        BY <3>1
    <3>2. CASE i # 1
      <4>1. i - 1 \in 1..n
          BY <3>2
      <4>2. h[i - 1] = g[i - 1]
          BY <2>2, <4>1
      <4> HIDE DEF h
      <4> QED
          BY <4>2, Zenon
    <3> QED
        BY <3>1, <3>2
  <2>4. h = [i \in 1..(n + 1) |-> Join(h, i)]
    <3> HIDE DEF Join
    <3> QED
        BY <2>3, Zenon
  <2>5. n + 1 \in 0..L
      BY <1>2
  <2> HIDE DEF h, Join, L
  <2> QED
      BY <2>4, <2>5, Zenon
<1>3. \A n \in 0..L : n \in Good
  <2> HIDE DEF Good
  <2> QED
      BY <1>1, <1>2, Induction
<1>4. \E g : g = [i \in 1..L |-> Join(g, i)]
  <2>1. L \in Good
    <3>1. L \in 0..L
        OBVIOUS
    <3> HIDE DEF Good
    <3> QED
        BY <1>3, <3>1
  <2> QED
      BY <2>1
<1> DEFINE flatten == CHOOSE g : g = [i \in 1..L |-> Join(g, i)]
<1>5. FlattenSeq(seqs) = flatten[L]
    BY Zenon DEF FlattenSeq
<1>6. flatten = [i \in 1..L |-> Join(flatten, i)]
  <2> HIDE DEF Join
  <2> QED
      BY <1>4, Zenon
<1> HIDE DEF flatten
<1>7. \A i \in 1..L : flatten[i] = Join(flatten, i)
  <2> HIDE DEF Join
  <2> QED
      BY <1>6, Zenon
<1> DEFINE frame == [k \in 0..L |-> IF k = 0 THEN <<>> ELSE flatten[k]]
<1>8. frame[0] = <<>> /\ frame[L] = flatten[L]
    OBVIOUS
<1>9. ASSUME NEW k \in 1..L PROVE frame[k] = frame[k - 1] \o seqs[k]
  <2>1. k \in 0..L /\ k # 0 /\ k - 1 \in 0..L
      OBVIOUS
  <2>2. frame[k] = Join(flatten, k)
      BY <1>7, <2>1
  <2>3. CASE k = 1
    <3>1. frame[k - 1] = <<>>
        BY <2>3
    <3>2. seqs[k] = <<>> \o seqs[k]
        BY ConcatEmptySeq
    <3> QED
        BY <2>2, <2>3, <3>1, <3>2
  <2>4. CASE k # 1
    <3>1. frame[k - 1] = flatten[k - 1]
        BY <2>1, <2>4
    <3> HIDE DEF frame
    <3> QED
        BY <2>2, <2>4, <3>1
  <2> QED
      BY <2>3, <2>4
<1> HIDE DEF frame
<1> QED
    BY <1>5, <1>8, <1>9

\* Any packets, sent one after the other in a frame, are decoded as they were, all
\* of them and in order (protocol.py:36-37 and 67-80).
THEOREM SentIsDecoded ==
    ASSUME NEW Ops, NEW Vers, NEW Cells, Measured(Cells),
           NEW sent \in Seq(Sent(Ops, Vers, Cells))
    PROVE  DecodePackets(FlattenSeq([k \in DOMAIN sent |-> Encode(sent[k])])) = Ok(sent)
<1> DEFINE seqs == [k \in DOMAIN sent |-> Encode(sent[k])]
           W == Wire(Ops, Vers, Cells)
<1>1. Len(sent) \in Nat /\ DOMAIN sent = 1..Len(sent)
    OBVIOUS
<1>2. \A k \in 1..Len(sent) : seqs[k] = Encode(sent[k]) /\ seqs[k] \in Seq(W)
  <2> SUFFICES ASSUME NEW k \in 1..Len(sent)
               PROVE  seqs[k] = Encode(sent[k]) /\ seqs[k] \in Seq(W)
      OBVIOUS
  <2>1. sent[k] \in Sent(Ops, Vers, Cells)
      BY ElementOfSeq
  <2>2. seqs[k] = Encode(sent[k])
      BY <1>1
  <2> HIDE DEF seqs
  <2> QED
      BY <2>1, <2>2, Encoding
<1>3. seqs \in Seq(Seq(W)) /\ Len(seqs) = Len(sent)
    BY <1>1, <1>2
<1> HIDE DEF seqs, W
<1>4. CASE Len(sent) = 0
  <2>1. sent = <<>> /\ seqs = <<>>
      BY <1>3, <1>4
  <2>2. FlattenSeq(seqs) = <<>>
      BY <1>3, <1>4, <2>1 DEF FlattenSeq
  <2> QED
      BY <2>1, <2>2, EmptyDecodes DEF seqs
<1>5. CASE Len(sent) # 0
  <2>1. PICK frame : /\ frame[0] = <<>>
                     /\ \A k \in 1..Len(seqs) : frame[k] = frame[k - 1] \o seqs[k]
                     /\ FlattenSeq(seqs) = frame[Len(seqs)]
      BY <1>1, <1>2, <1>3, <1>5, FlattenJoins
  <2>2. Frames(sent, frame)
      BY <1>2, <1>3, <2>1 DEF Frames
  <2>3. Len(sent) \in 0..Len(sent) /\ SubSeq(sent, 1, Len(sent)) = sent
      BY <1>1, SubSeqFull
  <2>4. DecodePackets(frame[Len(sent)]) = Ok(SubSeq(sent, 1, Len(sent)))
      BY <2>2, <2>3, FrameDecodes
  <2> QED
      BY <1>3, <2>1, <2>3, <2>4 DEF seqs
<1> QED
    BY <1>4, <1>5
-----------------------------------------------------------------------------
(* Protobuf messages, cut anywhere.                                         *)

\* F tells the value of each of N places from the values of the later ones.
FromLater(N, T, F) ==
    /\ F \in [1..N -> [[1..N -> T] -> T]]
    /\ \A i \in 1..N : \A g, h \in [1..N -> T] :
          (\A k \in (i + 1)..N : g[k] = h[k]) => F[i][g] = F[i][h]

Solves(N, T, F, g) == g \in [1..N -> T] /\ \A i \in 1..N : g[i] = F[i][g]

\* Then all places can be given their values.
LEMMA Recursion ==
    ASSUME NEW N \in Nat, NEW T, T # {}, NEW F, FromLater(N, T, F)
    PROVE  \E g : Solves(N, T, F, g)
<1> DEFINE Solved(n, g) == \A i \in 1..N : i > N - n => g[i] = F[i][g]
           Good == {n \in 0..N : \E g \in [1..N -> T] : Solved(n, g)}
<1>1. 0 \in Good
  <2>1. PICK t \in T : TRUE
      OBVIOUS
  <2>2. [i \in 1..N |-> t] \in [1..N -> T]
      BY <2>1
  <2>3. Solved(0, [i \in 1..N |-> t])
      OBVIOUS
  <2> QED
      BY <2>2, <2>3
<1>2. ASSUME NEW n \in 0..N, n \in Good, n < N PROVE n + 1 \in Good
  <2>1. PICK g \in [1..N -> T] : Solved(n, g)
      BY <1>2
  <2> DEFINE m == N - n
             h == [g EXCEPT ![m] = F[m][g]]
  <2>2. m \in 1..N /\ N - (n + 1) = m - 1 /\ n + 1 \in 0..N
      BY <1>2
  <2>3. F[m][g] \in T
      BY <2>2 DEF FromLater
  <2>4. /\ h \in [1..N -> T] /\ h[m] = F[m][g]
        /\ \A k \in 1..N : k # m => h[k] = g[k]
      BY <2>2, <2>3
  <2>5. ASSUME NEW i \in 1..N, i > m - 1 PROVE h[i] = F[i][h]
    <3> HIDE DEF h
    <3>1. \A k \in (i + 1)..N : g[k] = h[k]
        BY <2>2, <2>4, <2>5
    <3>2. F[i][g] = F[i][h]
        BY <2>4, <3>1 DEF FromLater
    <3>3. i # m => h[i] = g[i] /\ g[i] = F[i][g]
        BY <2>1, <2>2, <2>4, <2>5
    <3> QED
        BY <2>4, <3>2, <3>3
  <2>6. Solved(n + 1, h)
    <3> HIDE DEF h, m
    <3> QED
        BY <2>2, <2>5
  <2> QED
      BY <2>2, <2>4, <2>6
<1>3. N \in Good
  <2> HIDE DEF Good
  <2>1. \A n \in 0..N : n \in Good
      BY <1>1, <1>2, Induction
  <2> QED
      BY <2>1
<1>4. PICK g \in [1..N -> T] : Solved(N, g)
    BY <1>3
<1> QED
    BY <1>4 DEF Solves

\* Induction from the last of N places to the first.
LEMMA FromTheLast ==
    ASSUME NEW N \in Nat, NEW Good,
           \A i \in 1..N : (\A k \in (i + 1)..N : k \in Good) => i \in Good
    PROVE  \A i \in 1..N : i \in Good
<1> DEFINE G == Good \cup {0}
<1>1. \A i \in 0..N : (\A k \in (i + 1)..N : k \in G) => i \in G
    OBVIOUS
<1>2. \A i \in 0..N : i \in G
  <2> HIDE DEF G
  <2> QED
      BY <1>1, Backwards
<1> QED
    BY <1>2

LEMMA DigitTyped ==
    ASSUME NEW x \in Nat, NEW y \in Nat
    PROVE  (x % Radix) + Radix * y \in Nat
<1>1. Radix \in Nat \ {0}
    BY ProtobufAssumption
<1>2. x % Radix \in Nat
    BY <1>1
<1>3. Radix * y \in Nat
    BY <1>1
<1> QED
    BY <1>2, <1>3

\* A varint carries a number.
LEMMA DigitsTyped ==
    ASSUME NEW s \in Seq(Nat) PROVE Digits(s) \in Nat
<1> DEFINE N == Len(s) + 1
           Value(i, g) == IF i > Len(s) THEN 0 ELSE (s[i] % Radix) + Radix * g[i + 1]
           F == [i \in 1..N |-> [g \in [1..N -> Nat] |-> Value(i, g)]]
           from == CHOOSE g : g = [i \in 1..N |-> Value(i, g)]
<1>1. N \in Nat /\ Len(s) \in Nat /\ N = Len(s) + 1
    OBVIOUS
<1>2. \A i \in 1..N : i <= Len(s) => s[i] \in Nat /\ i + 1 \in (i + 1)..N /\ i + 1 \in 1..N
    BY <1>1, ElementOfSeq
<1> HIDE DEF N
<1>3. ASSUME NEW i \in 1..N, NEW g, i <= Len(s) => g[i + 1] \in Nat
      PROVE  Value(i, g) \in Nat
  <2>1. CASE i > Len(s)
      BY <2>1
  <2>2. CASE ~(i > Len(s))
    <3>1. s[i] \in Nat /\ g[i + 1] \in Nat
        BY <1>1, <1>2, <1>3, <2>2
    <3>2. (s[i] % Radix) + Radix * g[i + 1] \in Nat
        BY <3>1, DigitTyped
    <3> QED
        BY <2>2, <3>2
  <2> QED
      BY <2>1, <2>2
<1>4. ASSUME NEW i \in 1..N, NEW g \in [1..N -> Nat] PROVE Value(i, g) \in Nat
  <2>1. i <= Len(s) => g[i + 1] \in Nat
      BY <1>2
  <2> HIDE DEF Value
  <2> QED
      BY <1>3, <2>1
<1>5. \E g : Solves(N, Nat, F, g)
  <2>1. F \in [1..N -> [[1..N -> Nat] -> Nat]]
    <3> HIDE DEF Value
    <3> QED
        BY <1>4
  <2>2. ASSUME NEW i \in 1..N, NEW g \in [1..N -> Nat], NEW h \in [1..N -> Nat],
               \A k \in (i + 1)..N : g[k] = h[k]
        PROVE  F[i][g] = F[i][h]
    <3>1. i <= Len(s) => g[i + 1] = h[i + 1]
        BY <1>2, <2>2
    <3>2. i <= Len(s) \/ i > Len(s)
        BY <1>1
    <3>3. Value(i, g) = Value(i, h)
        BY <3>1, <3>2, Zenon
    <3> HIDE DEF Value
    <3> QED
        BY <3>3
  <2> HIDE DEF F
  <2>3. \A i \in 1..N : \A g, h \in [1..N -> Nat] :
           (\A k \in (i + 1)..N : g[k] = h[k]) => F[i][g] = F[i][h]
      BY <2>2
  <2>4. FromLater(N, Nat, F)
      BY <2>1, <2>3 DEF FromLater
  <2> QED
      BY <1>1, <2>4, Recursion
<1>6. \E g : g = [i \in 1..N |-> Value(i, g)]
  <2>1. PICK g : g \in [1..N -> Nat] /\ \A i \in 1..N : g[i] = F[i][g]
      BY <1>5 DEF Solves
  <2>2. \A i \in 1..N : F[i][g] = Value(i, g)
    <3> HIDE DEF Value
    <3> QED
        BY <2>1
  <2> HIDE DEF Value, F
  <2>3. g = [i \in 1..N |-> Value(i, g)]
      BY <2>1, <2>2
  <2> QED
      BY <2>3
<1>7. from = [i \in 1..N |-> Value(i, from)]
    BY <1>6, Zenon
<1>8. Digits(s) = from[1]
    BY Zenon DEF Digits, N
<1> DEFINE Good == {i \in 1..N : from[i] \in Nat}
<1>9. ASSUME NEW i \in 1..N, \A k \in (i + 1)..N : k \in Good PROVE i \in Good
  <2>1. from[i] = Value(i, from)
    <3> HIDE DEF Value, from
    <3> QED
        BY <1>7
  <2>2. i <= Len(s) => from[i + 1] \in Nat
      BY <1>2, <1>9
  <2> HIDE DEF Value, from
  <2>3. Value(i, from) \in Nat
      BY <1>3, <2>2
  <2> QED
      BY <2>1, <2>3
<1>10. \A i \in 1..N : i \in Good
  <2> HIDE DEF Good
  <2> QED
      BY <1>1, <1>9, FromTheLast
<1> QED
    BY <1>1, <1>8, <1>10

\* The least of a set of numbers is one of them, and no other is less.
LEMMA MinIsLeast ==
    ASSUME NEW S, S \subseteq Nat, S # {}
    PROVE  Min(S) \in S /\ \A k \in S : Min(S) <= k
<1>1. \E m \in S : \A k \in S : m <= k
    BY Least
<1> QED
    BY <1>1, Zenon DEF Min

\* The places at which a varint from i on can end.
VarintEnds(buf, i) == {k \in i..(i + MaxDigits - 1) : k <= Len(buf) /\ buf[k] < Radix}

\* A varint is a number, and leads further on in the buffer.
LEMMA VarintTyped ==
    ASSUME NEW buf \in Seq(Nat), NEW i \in Nat \ {0}, ReadVarint(buf, i) # Truncated
    PROVE  /\ VarintEnds(buf, i) # {}
           /\ Min(VarintEnds(buf, i)) \in i..Len(buf)
           /\ ReadVarint(buf, i) = <<Digits(SubSeq(buf, i, Min(VarintEnds(buf, i)))),
                                     Min(VarintEnds(buf, i)) + 1>>
           /\ ReadVarint(buf, i)[1] \in Nat
           /\ ReadVarint(buf, i)[2] \in (i + 1)..(Len(buf) + 1)
<1> DEFINE ends == VarintEnds(buf, i)
           last == Min(ends)
<1>1. ends # {}
    BY DEF ReadVarint, VarintTo, VarintEnds
<1>2. ends \subseteq i..Len(buf) /\ ends \subseteq Nat
    BY ProtobufAssumption DEF VarintEnds
<1>3. last \in i..Len(buf)
    BY <1>1, <1>2, MinIsLeast
<1>4. ReadVarint(buf, i) = <<Digits(SubSeq(buf, i, last)), last + 1>>
    BY <1>1, Zenon DEF ReadVarint, VarintTo, VarintEnds
<1>5. SubSeq(buf, i, last) \in Seq(Nat)
  <2> HIDE DEF last
  <2>1. i \in Nat /\ last \in Nat /\ \A k \in i..last : k \in 1..Len(buf)
      BY <1>3
  <2>2. \A k \in i..last : buf[k] \in Nat
      BY <2>1, ElementOfSeq
  <2> QED
      BY <2>1, <2>2, SubSeqProperties
<1>6. Digits(SubSeq(buf, i, last)) \in Nat
  <2> HIDE DEF last
  <2> QED
      BY <1>5, DigitsTyped
<1>7. last + 1 \in (i + 1)..(Len(buf) + 1)
  <2> HIDE DEF last
  <2> QED
      BY <1>3
<1> QED
    BY <1>1, <1>3, <1>4, <1>6, <1>7

\* One buffer is the beginning of the other.
Begins(cut, buf) == Len(cut) <= Len(buf) /\ \A k \in 1..Len(cut) : cut[k] = buf[k]

LEMMA SliceKept ==
    ASSUME NEW cut \in Seq(Nat), NEW buf \in Seq(Nat), Begins(cut, buf),
           NEW m \in Nat \ {0}, NEW n \in Int, n <= Len(cut)
    PROVE  SubSeq(buf, m, n) = SubSeq(cut, m, n)
<1>1. \A k \in m..n : k \in 1..Len(cut)
    OBVIOUS
<1>2. \A k \in m..n : cut[k] \in Nat /\ buf[k + 0] = cut[k]
    BY <1>1, ElementOfSeq DEF Begins
<1>3. SubSeq(buf, m + 0, n + 0) = SubSeq(cut, m, n)
    BY <1>2, SliceMoved
<1> QED
    BY <1>3

\* A varint that ends before the cut is the same without it.
LEMMA VarintKept ==
    ASSUME NEW cut \in Seq(Nat), NEW buf \in Seq(Nat), Begins(cut, buf),
           NEW i \in Nat \ {0}, ReadVarint(cut, i) # Truncated
    PROVE  ReadVarint(buf, i) = ReadVarint(cut, i)
<1> DEFINE short == VarintEnds(cut, i)
           long == VarintEnds(buf, i)
           last == Min(short)
<1>1. /\ short # {} /\ last \in i..Len(cut)
      /\ ReadVarint(cut, i) = <<Digits(SubSeq(cut, i, last)), last + 1>>
    BY VarintTyped
<1>2. /\ Len(cut) \in Nat /\ Len(buf) \in Nat /\ MaxDigits \in Nat
      /\ Len(cut) <= Len(buf) /\ \A k \in 1..Len(cut) : cut[k] = buf[k]
    BY ProtobufAssumption DEF Begins
<1>3. short \subseteq long /\ long \subseteq Nat /\ \A k \in long : k <= Len(cut) => k \in short
    BY <1>2 DEF VarintEnds
<1>4. long # {}
    BY <1>1, <1>3
<1>5. Min(long) = last
  <2> DEFINE first == Min(long)
  <2>1. first \in long /\ \A k \in long : first <= k
      BY <1>3, <1>4, MinIsLeast
  <2>2. last \in short /\ \A k \in short : last <= k
      BY <1>1, <1>3, MinIsLeast
  <2> HIDE DEF first, last, short, long
  <2>3. first <= last /\ first \in Nat /\ last \in Nat
      BY <1>3, <2>1, <2>2
  <2>4. first \in short
      BY <1>1, <1>2, <1>3, <2>1, <2>3
  <2>5. first = last
      BY <2>2, <2>3, <2>4
  <2> QED
      BY <2>5 DEF first
<1>6. ReadVarint(buf, i) = <<Digits(SubSeq(buf, i, Min(long))), Min(long) + 1>>
    BY <1>4, Zenon DEF ReadVarint, VarintTo, VarintEnds
<1>7. SubSeq(buf, i, last) = SubSeq(cut, i, last)
  <2> HIDE DEF last
  <2> QED
      BY <1>1, <1>2, SliceKept
<1> QED
    BY <1>1, <1>5, <1>6, <1>7, Zenon

LEMMA TakeKept ==
    ASSUME NEW cut \in Seq(Nat), NEW buf \in Seq(Nat), Begins(cut, buf),
           NEW i \in Nat \ {0}, NEW size \in Nat, Take(cut, i, size) # Truncated
    PROVE  /\ Take(buf, i, size) = Take(cut, i, size)
           /\ Take(cut, i, size)[2] \in i..(Len(cut) + 1)
<1>1. Len(cut) \in Nat /\ Len(buf) \in Nat /\ Len(cut) <= Len(buf)
    BY DEF Begins
<1>2. i + size - 1 <= Len(cut)
    BY DEF Take
<1>3. ~(i + size - 1 > Len(cut)) /\ ~(i + size - 1 > Len(buf))
    BY <1>1, <1>2
<1>4. SubSeq(buf, i, i + size - 1) = SubSeq(cut, i, i + size - 1)
  <2> DEFINE n == i + size - 1
  <2>1. n \in Int /\ n <= Len(cut)
      BY <1>2
  <2> HIDE DEF n
  <2>2. SubSeq(buf, i, n) = SubSeq(cut, i, n)
      BY <2>1, SliceKept
  <2> QED
      BY <2>2 DEF n
<1>5. /\ Take(cut, i, size) = <<SubSeq(cut, i, i + size - 1), i + size>>
      /\ Take(buf, i, size) = <<SubSeq(buf, i, i + size - 1), i + size>>
    BY <1>3, Zenon DEF Take
<1>6. i + size \in i..(Len(cut) + 1)
    BY <1>1, <1>2
<1> QED
    BY <1>4, <1>5, <1>6

\* A value that ends before the cut is the same without it.
LEMMA ValueKept ==
    ASSUME NEW cut \in Seq(Nat), NEW buf \in Seq(Nat), Begins(cut, buf),
           NEW i \in Nat \ {0}, NEW wire, ReadValue(cut, wire, i) # Truncated
    PROVE  /\ ReadValue(buf, wire, i) = ReadValue(cut, wire, i)
           /\ ReadValue(cut, wire, i)[2] \in i..(Len(cut) + 1)
<1> USE DEF VARINT, FIXED64, LENGTH, FIXED32
<1>1. wire \in {0, 1, 2, 5}
    BY DEF ReadValue
<1>2. CASE wire = 0
  <2>1. \A b : ReadValue(b, wire, i) = ReadVarint(b, i)
      BY <1>2 DEF ReadValue
  <2>2. ReadVarint(buf, i) = ReadVarint(cut, i)
      BY <2>1, VarintKept
  <2>3. ReadVarint(cut, i)[2] \in (i + 1)..(Len(cut) + 1)
      BY <2>1, VarintTyped
  <2> QED
      BY <2>1, <2>2, <2>3
<1>3. CASE wire = 2
  <2> DEFINE read == ReadVarint(cut, i)
  <2>1. \A b : ReadValue(b, wire, i) = Sized(b, ReadVarint(b, i))
      BY <1>3 DEF ReadValue
  <2>2. read # Truncated
      BY <2>1, Zenon DEF Sized
  <2>3. ReadVarint(buf, i) = read
      BY <2>2, VarintKept
  <2>4. read[1] \in Nat /\ read[2] \in (i + 1)..(Len(cut) + 1)
      BY <2>2, VarintTyped
  <2> HIDE DEF read
  <2>5. \A b : Sized(b, read) = Take(b, read[2], read[1])
      BY <2>2 DEF Sized
  <2>6. read[2] \in Nat \ {0} /\ \A k \in read[2]..(Len(cut) + 1) : k \in i..(Len(cut) + 1)
      BY <2>4
  <2>7. Take(cut, read[2], read[1]) # Truncated
      BY <2>1, <2>5 DEF read
  <2>8. /\ Take(buf, read[2], read[1]) = Take(cut, read[2], read[1])
        /\ Take(cut, read[2], read[1])[2] \in read[2]..(Len(cut) + 1)
      BY <2>4, <2>6, <2>7, TakeKept
  <2>9. ReadValue(buf, wire, i) = Take(buf, read[2], read[1])
      BY <2>1, <2>3, <2>5
  <2>10. ReadValue(cut, wire, i) = Take(cut, read[2], read[1])
      BY <2>1, <2>5 DEF read
  <2> QED
      BY <2>6, <2>8, <2>9, <2>10
<1>4. CASE wire = 5
  <2>1. \A b : ReadValue(b, wire, i) = Take(b, i, 4)
      BY <1>4 DEF ReadValue
  <2> QED
      BY <2>1, TakeKept
<1>5. CASE wire = 1
  <2>1. \A b : ReadValue(b, wire, i) = Take(b, i, 8)
      BY <1>5 DEF ReadValue
  <2> QED
      BY <2>1, TakeKept
<1> QED
    BY <1>1, <1>2, <1>3, <1>4, <1>5

\* An entry that ends before the cut is the same without it, and leads further on.
LEMMA EntryKept ==
    ASSUME NEW cut \in Seq(Nat), NEW buf \in Seq(Nat), Begins(cut, buf),
           NEW i \in Nat \ {0}, Entry(cut, i) # Truncated
    PROVE  /\ Entry(buf, i) = Entry(cut, i)
           /\ Entry(cut, i)[2] \in (i + 1)..(Len(cut) + 1)
<1> DEFINE key == ReadVarint(cut, i)
           wire == key[1] % 8
           value == ReadValue(cut, wire, key[2])
<1>1. key # Truncated /\ key[1] \div 8 # 0 /\ value # Truncated
    BY Zenon DEF Entry
<1>2. Entry(cut, i) = <<Pb(key[1] \div 8, wire, value[1]), value[2]>>
    BY <1>1, Zenon DEF Entry
<1>3. ReadVarint(buf, i) = key
    BY <1>1, VarintKept
<1>4. key[2] \in (i + 1)..(Len(cut) + 1)
    BY <1>1, VarintTyped
<1>5. /\ ReadValue(buf, wire, key[2]) = value
      /\ value[2] \in key[2]..(Len(cut) + 1)
  <2> HIDE DEF key, wire
  <2>1. key[2] \in Nat \ {0}
      BY <1>4
  <2> QED
      BY <1>1, <2>1, ValueKept
<1>6. Entry(buf, i) = <<Pb(key[1] \div 8, wire, value[1]), value[2]>>
    BY <1>1, <1>3, <1>5, Zenon DEF Entry
<1>7. value[2] \in (i + 1)..(Len(cut) + 1)
  <2> HIDE DEF key, value
  <2> QED
      BY <1>4, <1>5
<1>8. Entry(cut, i)[2] = value[2]
  <2> HIDE DEF key, value, wire
  <2> QED
      BY <1>2
<1> QED
    BY <1>2, <1>6, <1>7, <1>8, Zenon

\* What _parse can find in a buffer.
Found(buf) == {Entry(buf, i)[1] : i \in 1..(Len(buf) + 1)}

\* The entries from i on, when `from` holds those of the later places.
ParseTurn(buf, from, i) ==
    LET entry == Entry(buf, i)
    IN  IF entry = Truncated THEN <<>> ELSE <<entry[1]>> \o from[entry[2]]

LEMMA BeginsItself == ASSUME NEW buf \in Seq(Nat) PROVE Begins(buf, buf)
    BY DEF Begins

\* An entry that can be read leads further on, and not beyond the end.
LEMMA EntryLeadsOn ==
    ASSUME NEW buf \in Seq(Nat), NEW i \in 1..(Len(buf) + 1), Entry(buf, i) # Truncated
    PROVE  /\ Entry(buf, i)[1] \in Found(buf)
           /\ Entry(buf, i)[2] \in (i + 1)..(Len(buf) + 1)
<1>1. i \in Nat \ {0}
    OBVIOUS
<1> QED
    BY <1>1, BeginsItself, EntryKept DEF Found

\* One turn gives entries of the buffer.
LEMMA ParseTurnTyped ==
    ASSUME NEW buf \in Seq(Nat), NEW i \in 1..(Len(buf) + 1), NEW from,
           \A k \in (i + 1)..(Len(buf) + 1) : from[k] \in Seq(Found(buf))
    PROVE  ParseTurn(buf, from, i) \in Seq(Found(buf))
<1>1. CASE Entry(buf, i) = Truncated
  <2>1. ParseTurn(buf, from, i) = <<>>
      BY <1>1, Zenon DEF ParseTurn
  <2> QED
      BY <2>1
<1>2. CASE Entry(buf, i) # Truncated
  <2> DEFINE e == Entry(buf, i)[1]
             k == Entry(buf, i)[2]
             F == Found(buf)
  <2>1. e \in F /\ k \in (i + 1)..(Len(buf) + 1)
      BY <1>2, EntryLeadsOn
  <2>2. ParseTurn(buf, from, i) = <<e>> \o from[k]
      BY <1>2, Zenon DEF ParseTurn
  <2>3. from[k] \in Seq(F)
      BY <2>1
  <2> HIDE DEF e, k, F
  <2>4. <<e>> \o from[k] \in Seq(F)
      BY <2>1, <2>3, ConcatProperties
  <2> QED
      BY <2>2, <2>4 DEF F
<1> QED
    BY <1>1, <1>2

\* The loop of _parse is defined.
LEMMA ParseLoop ==
    ASSUME NEW buf \in Seq(Nat), NEW i \in 1..(Len(buf) + 1)
    PROVE  ParseFrom(buf)[i] = ParseTurn(buf, ParseFrom(buf), i)
<1> DEFINE N == Len(buf) + 1
           T == Seq(Found(buf))
           F == [k \in 1..N |-> [g \in [1..N -> T] |-> ParseTurn(buf, g, k)]]
<1>1. N \in Nat /\ T # {} /\ N = Len(buf) + 1
  <2>1. N \in Nat /\ N = Len(buf) + 1
      OBVIOUS
  <2>2. <<>> \in T
      OBVIOUS
  <2> HIDE DEF N, T
  <2> QED
      BY <2>1, <2>2
<1>2. \A k \in 1..N : \A g \in [1..N -> T] : ParseTurn(buf, g, k) \in T
  <2> SUFFICES ASSUME NEW k \in 1..N, NEW g \in [1..N -> T] PROVE ParseTurn(buf, g, k) \in T
      OBVIOUS
  <2>1. \A n \in (k + 1)..N : g[n] \in Seq(Found(buf))
      BY <1>1
  <2> QED
      BY <2>1, ParseTurnTyped
<1>3. ASSUME NEW k \in 1..N, NEW g, NEW h, \A n \in (k + 1)..N : g[n] = h[n]
      PROVE  ParseTurn(buf, g, k) = ParseTurn(buf, h, k)
  <2>1. CASE Entry(buf, k) = Truncated
      BY <2>1, Zenon DEF ParseTurn
  <2>2. CASE Entry(buf, k) # Truncated
    <3>1. Entry(buf, k)[2] \in (k + 1)..N
        BY <2>2, EntryLeadsOn
    <3>2. g[Entry(buf, k)[2]] = h[Entry(buf, k)[2]]
        BY <1>3, <3>1
    <3> QED
        BY <2>2, <3>2, Zenon DEF ParseTurn
  <2> QED
      BY <2>1, <2>2
<1>4. \E g : Solves(N, T, F, g)
  <2> HIDE DEF N, T
  <2>1. F \in [1..N -> [[1..N -> T] -> T]]
      BY <1>2
  <2>2. \A k \in 1..N : \A g, h \in [1..N -> T] :
           (\A n \in (k + 1)..N : g[n] = h[n]) => F[k][g] = F[k][h]
      BY <1>3
  <2> HIDE DEF F
  <2>3. FromLater(N, T, F)
      BY <2>1, <2>2 DEF FromLater
  <2> QED
      BY <1>1, <2>3, Recursion
<1>5. \E g : g = [k \in 1..N |-> ParseTurn(buf, g, k)]
  <2>1. PICK g : g \in [1..N -> T] /\ \A k \in 1..N : g[k] = F[k][g]
      BY <1>4 DEF Solves
  <2> HIDE DEF N, T
  <2>2. \A k \in 1..N : F[k][g] = ParseTurn(buf, g, k)
      BY <2>1
  <2> HIDE DEF F
  <2>3. g = [k \in 1..N |-> ParseTurn(buf, g, k)]
      BY <2>1, <2>2
  <2> QED
      BY <2>3
<1>6. ParseFrom(buf) = CHOOSE g : g = [k \in 1..N |-> ParseTurn(buf, g, k)]
    BY Zenon DEF ParseFrom, ParseTurn
<1>7. ParseFrom(buf) = [k \in 1..N |-> ParseTurn(buf, ParseFrom(buf), k)]
    BY <1>5, <1>6, Zenon
<1> QED
    BY <1>7, Zenon

LEMMA ParseTyped ==
    ASSUME NEW buf \in Seq(Nat)
    PROVE  \A i \in 1..(Len(buf) + 1) : ParseFrom(buf)[i] \in Seq(Found(buf))
<1> DEFINE N == Len(buf) + 1
           Good == {i \in 1..N : ParseFrom(buf)[i] \in Seq(Found(buf))}
<1>1. N \in Nat
    OBVIOUS
<1>2. ASSUME NEW i \in 1..N, \A k \in (i + 1)..N : k \in Good PROVE i \in Good
  <2>1. \A k \in (i + 1)..N : ParseFrom(buf)[k] \in Seq(Found(buf))
      BY <1>2
  <2> QED
      BY <2>1, ParseLoop, ParseTurnTyped
<1>3. \A i \in 1..N : i \in Good
  <2> HIDE DEF N, Good
  <2> QED
      BY <1>1, <1>2, FromTheLast
<1> QED
    BY <1>3

\* A message cut anywhere yields the first of its entries, and none that is not in
\* it: "a malformed blob simply yields fewer fields" (pb.py:9-10 and 94-139).
THEOREM TruncatedTellsPrefix ==
    ASSUME NEW buf \in Seq(Nat), NEW n \in 0..Len(buf)
    PROVE  \E rest \in Seq(Found(buf)) : Parse(buf) = Parse(SubSeq(buf, 1, n)) \o rest
<1> DEFINE cut == SubSeq(buf, 1, n)
           N == n + 1
           All == Found(buf) \cup Found(cut)
           Good == {i \in 1..N : \E rest \in Seq(Found(buf)) :
                                     ParseFrom(buf)[i] = ParseFrom(cut)[i] \o rest}
<1>1. cut \in Seq(Nat) /\ Len(cut) = n /\ Begins(cut, buf) /\ N \in Nat
  <2>1. \A k \in 1..n : buf[k] \in Nat
      BY ElementOfSeq
  <2>2. cut \in Seq(Nat) /\ Len(cut) = n /\ \A k \in 1..n : cut[k] = buf[k]
      BY <2>1, SubSeqProperties
  <2> QED
      BY <2>2 DEF Begins
<1> HIDE DEF cut
<1>2. \A i \in 1..N : /\ i \in Nat \ {0} /\ i \in 1..(Len(cut) + 1) /\ i \in 1..(Len(buf) + 1)
    BY <1>1
<1>3. ASSUME NEW i \in 1..N, \A k \in (i + 1)..N : k \in Good PROVE i \in Good
  <2>1. /\ ParseFrom(buf)[i] = ParseTurn(buf, ParseFrom(buf), i)
        /\ ParseFrom(cut)[i] = ParseTurn(cut, ParseFrom(cut), i)
      BY <1>1, <1>2, ParseLoop
  <2>2. CASE Entry(cut, i) = Truncated
    <3>1. ParseFrom(cut)[i] = <<>>
        BY <2>1, <2>2, Zenon DEF ParseTurn
    <3>2. ParseFrom(buf)[i] \in Seq(Found(buf))
        BY <1>2, ParseTyped
    <3>3. ParseFrom(buf)[i] = <<>> \o ParseFrom(buf)[i]
        BY <3>2
    <3> QED
        BY <3>1, <3>2, <3>3
  <2>3. CASE Entry(cut, i) # Truncated
    <3> DEFINE e == Entry(cut, i)[1]
               k == Entry(cut, i)[2]
    <3>1. Entry(buf, i) = Entry(cut, i) /\ k \in (i + 1)..N
        BY <1>1, <1>2, <2>3, EntryKept
    <3>2. e \in Found(cut)
        BY <1>1, <1>2, <2>3, EntryLeadsOn
    <3>3. PICK rest \in Seq(Found(buf)) : ParseFrom(buf)[k] = ParseFrom(cut)[k] \o rest
        BY <1>3, <3>1
    <3>4. /\ ParseFrom(buf)[i] = <<e>> \o ParseFrom(buf)[k]
          /\ ParseFrom(cut)[i] = <<e>> \o ParseFrom(cut)[k]
        BY <2>1, <2>3, <3>1, Zenon DEF ParseTurn
    <3>5. k \in 1..N
        BY <3>1
    <3>6. ParseFrom(cut)[k] \in Seq(Found(cut))
        BY <1>1, <1>2, <3>5, ParseTyped
    <3> HIDE DEF e, k
    <3> DEFINE one == <<e>>
               tail == ParseFrom(cut)[k]
    <3>7. one \in Seq(All) /\ tail \in Seq(All) /\ rest \in Seq(All)
        BY <3>2, <3>6
    <3>8. one \o (tail \o rest) = (one \o tail) \o rest
      <4> HIDE DEF one, tail, All
      <4> QED
          BY <3>7, ConcatAssociative
    <3>9. ParseFrom(buf)[i] = ParseFrom(cut)[i] \o rest
        BY <3>3, <3>4, <3>8
    <3> QED
        BY <3>9
  <2> QED
      BY <2>2, <2>3
<1>4. \A i \in 1..N : i \in Good
  <2> HIDE DEF N, Good
  <2> QED
      BY <1>1, <1>3, FromTheLast
<1>5. 1 \in 1..N
    OBVIOUS
<1>6. 1 \in Good
    BY <1>4, <1>5
<1> QED
    BY <1>6 DEF Parse, cut
=============================================================================
