------------------------- MODULE ConfigStoreProofs -------------------------
(* Proofs about ConfigStore, for any configurations and number of writes.  *)
EXTENDS ConfigStore, TLAPS

\* A remembered mtime is never ahead of the file's, and one that is the file's
\* vouches for the snapshot unless it is torn; what a load has read is in the
\* file until an edit slips in.
MtimeInv ==
    /\ mtime # Unseen => mtime <= stamp
    /\ mtime = stamp /\ ~torn => file = snapshot
    /\ step = "getmtime" /\ ~slipped => raw = file

-----------------------------------------------------------------------------
\* Every variable of the store keeps its type, the mtime within the writes.
THEOREM TypeCorrect == Spec => []TypeOK
<1>1. Init => TypeOK
  <2> SUFFICES ASSUME Init PROVE TypeOK
    OBVIOUS
  <2>1. unsaid \in BOOLEAN
    BY Zenon DEF Init
  <2>2. 0 \in 0..MaxWrites
    BY ConfigAssumption DEF ConfigAssumption
  <2> QED
    BY <2>1, <2>2, ConfigAssumption DEF ConfigAssumption, Init, TypeOK
<1>2. TypeOK /\ [Next]_vars => TypeOK'
  <2> SUFFICES ASSUME TypeOK, [Next]_vars PROVE TypeOK'
    OBVIOUS
  <2> USE ConfigAssumption DEF ConfigAssumption, TypeOK
  <2>1. CASE Edit
    BY <2>1 DEF Edit
  <2>2. CASE Poll \/ Reload
    BY <2>2 DEF Poll, Reload, Running
  <2>3. CASE Read \/ ReadRefused \/ ReadRaises
    BY <2>3 DEF Read, ReadRefused, ReadRaises
  <2>4. CASE Loaded
    BY <2>4 DEF Loaded
  <2>5. CASE Save
    BY <2>5 DEF Save, Contents
  <2>6. CASE UNCHANGED vars
    BY <2>6 DEF vars
  <2> QED
    BY <2>1, <2>2, <2>3, <2>4, <2>5, <2>6 DEF Next
<1> QED
  BY <1>1, <1>2, PTL DEF Spec

-----------------------------------------------------------------------------
LEMMA MtimeInvariant == Spec => []MtimeInv
<1>1. Init => MtimeInv
  BY ConfigAssumption DEF ConfigAssumption, Init, MtimeInv
<1>2. TypeOK /\ MtimeInv /\ [Next]_vars => MtimeInv'
  <2> SUFFICES ASSUME TypeOK, MtimeInv, [Next]_vars PROVE MtimeInv'
    OBVIOUS
  <2> USE ConfigAssumption DEF ConfigAssumption, TypeOK, MtimeInv
  <2>1. CASE Edit
    <3>1. step' = step /\ (step = "getmtime" => slipped')
      BY <2>1, Zenon DEF Edit
    <3>2. stamp' = stamp + 1 /\ mtime' = mtime /\ stamp \in Nat
      BY <2>1 DEF Edit
    <3>3. mtime' # stamp' /\ (mtime' # Unseen => mtime' <= stamp')
      BY <3>2
    <3> QED
      BY <3>1, <3>3
  <2>2. CASE Poll \/ Reload
    BY <2>2 DEF Poll, Reload, Running
  <2>3. CASE Read \/ ReadRefused \/ ReadRaises
    BY <2>3 DEF Read, ReadRefused, ReadRaises
  <2>4. CASE Loaded
    <3>1. /\ mtime' = Unseen \/ mtime' = stamp
          /\ stamp' = stamp /\ file' = file /\ step' = "idle" /\ stamp \in Nat
      BY <2>4 DEF Loaded
    <3>2. snapshot' = raw /\ torn' = slipped /\ step = "getmtime"
      BY <2>4 DEF Loaded
    <3>3. ~slipped => raw = file
      BY <3>2 DEF MtimeInv
    <3>4. ASSUME ~torn' PROVE file' = snapshot'
      <4>1. ~slipped
        BY <3>2, <3>4
      <4> QED
        BY <3>1, <3>2, <3>3, <4>1
    <3> QED
      BY <3>1, <3>4
  <2>5. CASE Save
    BY <2>5 DEF Save, Running
  <2>6. CASE UNCHANGED vars
    BY <2>6 DEF vars
  <2> QED
    BY <2>1, <2>2, <2>3, <2>4, <2>5, <2>6 DEF Next
<1> QED
  BY <1>1, <1>2, TypeCorrect, PTL DEF Spec

\* Whenever the editor writes, a store that would not read the file again has
\* what is in it, except where a write slipped in between the read and the mtime
\* of the last load (load, maybe_reload and save of config.py).
THEOREM SnapshotNotStale == Spec => []NotStale
<1>1. MtimeInv => NotStale
  BY DEF MtimeInv, NotStale
<1> QED
  BY <1>1, MtimeInvariant, PTL

\* The listeners have the configuration in force, unless save() replaced it
\* since (config.py:125-136), whenever the editor writes.
THEOREM ListenersInformed == Spec => []ListenersFollow
<1>1. Init => ListenersFollow
  BY DEF Init, ListenersFollow
<1>2. ListenersFollow /\ [Next]_vars => ListenersFollow'
  <2> SUFFICES ASSUME ListenersFollow, [Next]_vars PROVE ListenersFollow'
    OBVIOUS
  <2>1. CASE UNCHANGED <<snapshot, told, unsaid>>
    BY <2>1 DEF ListenersFollow
  <2>2. CASE Loaded
    BY <2>2 DEF ListenersFollow, Loaded
  <2>3. CASE Save
    BY <2>3, Zenon DEF ListenersFollow, Save
  <2> QED
    BY <2>1, <2>2, <2>3
    DEF Next, vars, Edit, Poll, Reload, Read, ReadRefused, ReadRaises
<1> QED
  BY <1>1, <1>2, PTL DEF Spec
=============================================================================
