------------------------ MODULE StagingManagerProofs ------------------------
(***************************************************************************)
(* Lemmas on the operations of DirtyIndex and StagingManager: they keep    *)
(* their types, and a session that is linked to its name shows the bytes   *)
(* of the file under that name.                                            *)
(***************************************************************************)
EXTENDS StagingManager, TLAPS, FiniteSetTheorems

LEMMA IndexStepType ==
  ASSUME IndexTypeOK, NEW p \in Paths,
         \/ MarkDirtyAgain(p) \/ MarkClean(p) \/ LockFile(p) \/ UnlockFile(p)
         \/ \E b \in BOOLEAN : MarkDirtyWithState(p, b)
         \/ UNCHANGED indexVars
  PROVE  IndexTypeOK'
<1>1. CASE MarkDirtyAgain(p)
  BY <1>1 DEF MarkDirtyAgain, BumpGeneration, IndexTypeOK
<1>2. CASE MarkClean(p)
  BY <1>2 DEF MarkClean, NoEntry, IndexTypeOK
<1>3. CASE LockFile(p)
  BY <1>3 DEF LockFile, IndexTypeOK
<1>4. CASE UnlockFile(p)
  BY <1>4 DEF UnlockFile, IndexTypeOK
<1>5. CASE \E b \in BOOLEAN : MarkDirtyWithState(p, b)
  BY <1>5 DEF MarkDirtyWithState, BumpGeneration, IndexTypeOK
<1>6. CASE UNCHANGED indexVars
  BY <1>6 DEF indexVars, IndexTypeOK
<1> QED BY <1>1, <1>2, <1>3, <1>4, <1>5, <1>6

\* What a restart puts in the index has the index's type.
LEMMA RestoreDirtyType ==
  ASSUME NEW found, found \subseteq Paths, RestoreDirty(found)
  PROVE  IndexTypeOK'
<1>1. IsFiniteSet(found) /\ Cardinality(found) \in Nat
  BY PathsAssumption, FS_Subset, FS_CardinalityType
<1>2. dirty' \in [Paths -> Nat]
  <2>1. PICK order \in [found -> 1..Cardinality(found)] :
          dirty' = [p \in Paths |-> IF p \in found THEN order[p] ELSE NoEntry]
    BY DEF RestoreDirty
  <2>2. \A p \in found : order[p] \in Nat
    BY <1>1
  <2> QED BY <2>1, <2>2 DEF NoEntry
<1> QED BY <1>1, <1>2 DEF RestoreDirty, IndexTypeOK

-----------------------------------------------------------------------------
\* A session linked to its name shows what the file under the name holds.
LinkedShowsFile ==
  \A p \in Paths : session[p].linked =>
    session[p].open /\ p \in files /\ disk[p] = session[p].bytes

\* A step keeps the sessions it does not remove, and their names.
KeepsSessions ==
  \A p \in Paths :
    /\ session[p].open => session'[p].open
    /\ session[p].linked => session'[p].linked
    /\ session'[p].open => session[p].open \/ session'[p].linked

LEMMA NewWriteSessionKeeps ==
  ASSUME ManagerTypeOK, LinkedShowsFile, NEW p \in Paths, NEW refs \in Nat,
         NEW isDirty \in BOOLEAN, ~session[p].open,
         NewWriteSession(p, refs, isDirty), tombstones' \subseteq Paths
  PROVE  ManagerTypeOK' /\ LinkedShowsFile' /\ KeepsSessions /\ session'[p].open
<1> DEFINE s == [open |-> TRUE, bytes |-> disk[p], refs |-> refs, dirty |-> isDirty,
                 prefetched |-> FALSE, linked |-> TRUE]
<1>1. s \in Session
  BY DEF ManagerTypeOK, Session
<1>2. session' = [session EXCEPT ![p] = s]
  BY DEF NewWriteSession
<1> HIDE DEF s
<1>3. ManagerTypeOK'
  BY <1>1, <1>2 DEF ManagerTypeOK, NewWriteSession
<1>4. s.open /\ s.linked /\ s.bytes = disk[p]
  BY DEF s
<1>5. LinkedShowsFile'
  BY <1>2, <1>4 DEF LinkedShowsFile, NewWriteSession, ManagerTypeOK
<1> QED BY <1>2, <1>3, <1>4, <1>5 DEF KeepsSessions, ManagerTypeOK, LinkedShowsFile

LEMMA GetOrCreateSessionKeeps ==
  ASSUME ManagerTypeOK, LinkedShowsFile, NEW p \in Paths, GetOrCreateSession(p)
  PROVE  ManagerTypeOK' /\ LinkedShowsFile' /\ KeepsSessions /\ session'[p].open
<1>1. tombstones' \subseteq Paths
  BY DEF GetOrCreateSession, CancelPendingDelete, ManagerTypeOK
<1>2. CASE session[p].open /\ session' = [session EXCEPT ![p].refs = @ + 1]
           /\ UNCHANGED <<files, disk, sidecars>>
  <2>1. session' \in [Paths -> Session]
    BY <1>2 DEF ManagerTypeOK, Session
  <2> QED BY <1>1, <1>2, <2>1
             DEF ManagerTypeOK, LinkedShowsFile, KeepsSessions, Session
<1>3. CASE ~session[p].open /\ NewWriteSession(p, 1, FALSE)
  BY <1>1, <1>3, NewWriteSessionKeeps
<1> QED BY <1>2, <1>3 DEF GetOrCreateSession

LEMMA ReleaseSessionKeeps ==
  ASSUME ManagerTypeOK, LinkedShowsFile, NEW p \in Paths, ReleaseSession(p)
  PROVE  ManagerTypeOK' /\ LinkedShowsFile' /\ KeepsSessions
<1>1. session' \in [Paths -> Session]
  BY DEF ReleaseSession, ManagerTypeOK, Session
<1> QED BY <1>1 DEF ReleaseSession, ManagerTypeOK, LinkedShowsFile, KeepsSessions, Session

LEMMA SetBytesKeeps ==
  ASSUME ManagerTypeOK, LinkedShowsFile, NEW p \in Paths, NEW b \in Bytes,
         NEW detach \in BOOLEAN, session[p].open, SetBytes(p, b, detach)
  PROVE  ManagerTypeOK' /\ LinkedShowsFile' /\ KeepsSessions
<1> DEFINE onName == session[p].linked \/ detach
           s == [session[p] EXCEPT !.bytes = b, !.linked = onName, !.dirty = TRUE]
<1>1. session[p] \in Session /\ onName \in BOOLEAN
  BY DEF ManagerTypeOK, Session
<1>2. s \in Session /\ s.open /\ s.bytes = b /\ s.linked = onName
  BY <1>1 DEF Session
<1>3. session' = [session EXCEPT ![p] = s]
  BY DEF SetBytes, OnName
<1> HIDE DEF s
<1>4. ManagerTypeOK'
  BY <1>2, <1>3 DEF ManagerTypeOK, SetBytes, OnName
<1>5. LinkedShowsFile'
  BY <1>2, <1>3 DEF LinkedShowsFile, SetBytes, OnName, ManagerTypeOK
<1> QED BY <1>2, <1>3, <1>4, <1>5 DEF KeepsSessions, ManagerTypeOK

LEMMA DownloadToFileKeeps ==
  ASSUME ManagerTypeOK, LinkedShowsFile, NEW p \in Paths, NEW b \in Bytes,
         NEW detach \in BOOLEAN, NEW prefetched \in BOOLEAN,
         DownloadToFile(p, b, detach, prefetched)
  PROVE  ManagerTypeOK' /\ LinkedShowsFile' /\ KeepsSessions
<1> DEFINE onName == session[p].open /\ (session[p].linked \/ detach)
           s == [session[p] EXCEPT
                  !.bytes = IF onName THEN b ELSE session[p].bytes,
                  !.linked = onName, !.prefetched = session[p].prefetched \/ prefetched]
<1>1. session[p] \in Session /\ onName \in BOOLEAN
  BY DEF ManagerTypeOK, Session
<1>2. s \in Session /\ s.open = session[p].open /\ s.linked = onName
      /\ s.bytes = IF onName THEN b ELSE session[p].bytes
  BY <1>1 DEF Session
<1>3. session' = [session EXCEPT ![p] = s]
  BY DEF DownloadToFile, OnName
<1> HIDE DEF s
<1>4. ManagerTypeOK'
  BY <1>2, <1>3 DEF ManagerTypeOK, DownloadToFile
<1>5. LinkedShowsFile'
  BY <1>2, <1>3 DEF LinkedShowsFile, DownloadToFile, OnName, ManagerTypeOK
<1> QED BY <1>2, <1>3, <1>4, <1>5 DEF KeepsSessions, ManagerTypeOK, LinkedShowsFile

-----------------------------------------------------------------------------
\* A step removes no session but p's, and adds none.
RemovesOnly(p) ==
  /\ session'[p].open => session[p].open
  /\ session'[p].open => (session[p].linked => session'[p].linked)
  /\ \A q \in Paths \ {p} : session'[q] = session[q]

LEMMA NoSessionType == NoSession \in Session /\ ~NoSession.open /\ ~NoSession.linked
BY MaxWritesAssumption DEF NoSession, Session, Bytes

LEMMA RemoveSessionKeeps ==
  ASSUME ManagerTypeOK, LinkedShowsFile, IndexTypeOK, NEW p \in Paths,
         \/ RemoveSession(p)
         \/ DiscardDeletedStaging(p)
         \/ CleanupSyncedSession(p) /\ UNCHANGED indexVars
  PROVE  ManagerTypeOK' /\ LinkedShowsFile' /\ IndexTypeOK' /\ RemovesOnly(p)
<1>1. IndexTypeOK'
  BY IndexStepType DEF RemoveSession, DiscardDeletedStaging, DropDirtyEntry, indexVars
<1>2. CASE UNCHANGED managerVars
  BY <1>1, <1>2 DEF managerVars, ManagerTypeOK, LinkedShowsFile, RemovesOnly
<1>3. CASE /\ session' = [session EXCEPT ![p] = NoSession]
           /\ files' = files \ {p} /\ disk' = [disk EXCEPT ![p] = {}]
           /\ sidecars' = sidecars \ {p} /\ UNCHANGED tombstones
  BY <1>1, <1>3, NoSessionType
     DEF ManagerTypeOK, LinkedShowsFile, RemovesOnly, Bytes
<1>4. CASE /\ ~session[p].open /\ session' = [session EXCEPT ![p] = NoSession]
           /\ UNCHANGED <<files, disk, tombstones>> /\ sidecars' = sidecars \ {p}
  BY <1>1, <1>4, NoSessionType DEF ManagerTypeOK, LinkedShowsFile, RemovesOnly
<1>5. CASE RemoveSession(p)
  BY <1>2, <1>3, <1>5 DEF RemoveSession, DropDirtyEntry
<1>6. CASE DiscardDeletedStaging(p)
  BY <1>3, <1>4, <1>6 DEF DiscardDeletedStaging, DropDirtyEntry
<1>7. CASE CleanupSyncedSession(p)
  BY <1>3, <1>7 DEF CleanupSyncedSession
<1> QED BY <1>5, <1>6, <1>7

LEMMA RemoveStagingFilesKeeps ==
  ASSUME ManagerTypeOK, LinkedShowsFile, NEW p \in Paths, RemoveStagingFiles(p)
  PROVE  /\ ManagerTypeOK' /\ LinkedShowsFile'
         /\ session'[p].open = session[p].open
         /\ \A q \in Paths \ {p} : session'[q] = session[q]
<1>1. session' \in [Paths -> Session]
  BY DEF RemoveStagingFiles, ManagerTypeOK, Session
<1> QED BY <1>1 DEF RemoveStagingFiles, ManagerTypeOK, LinkedShowsFile, Session, Bytes

LEMMA DiscardIfEmptyKeeps ==
  ASSUME ManagerTypeOK, LinkedShowsFile, NEW p \in Paths, DiscardsSession(p),
         ReleaseSessionDiscardingIfEmpty(p)
  PROVE  ManagerTypeOK' /\ LinkedShowsFile' /\ RemovesOnly(p)
BY NoSessionType DEF ReleaseSessionDiscardingIfEmpty, ManagerTypeOK, LinkedShowsFile, RemovesOnly

\* A restart starts from whatever is on disk: no earlier invariant is needed.
LEMMA RecoverFromDiskKeeps ==
  ASSUME ManagerTypeOK, RecoverFromDisk
  PROVE  /\ ManagerTypeOK' /\ LinkedShowsFile' /\ IndexTypeOK'
         /\ \A p \in Paths : session'[p].open => session'[p].linked
<1> DEFINE s(p) == [open |-> TRUE, bytes |-> disk[p], refs |-> 0, dirty |-> TRUE,
                    prefetched |-> FALSE, linked |-> TRUE]
<1>1. \A p \in Paths : s(p) \in Session /\ s(p).bytes = disk[p] /\ s(p).linked /\ s(p).open
  BY DEF ManagerTypeOK, Session
<1>2. session' = [p \in Paths |-> IF p \in Recovered THEN s(p) ELSE NoSession]
  BY DEF RecoverFromDisk
<1>3. Recovered \subseteq Paths
  BY DEF Recovered, ManagerTypeOK
<1>4. IndexTypeOK'
  BY <1>3, RestoreDirtyType DEF RecoverFromDisk
<1> HIDE DEF s
<1>5. ManagerTypeOK'
  BY <1>1, <1>2, <1>3, NoSessionType DEF RecoverFromDisk, ManagerTypeOK, Bytes
<1>6. LinkedShowsFile'
  BY <1>1, <1>2, NoSessionType DEF LinkedShowsFile, RecoverFromDisk, Recovered
<1> QED BY <1>1, <1>2, <1>4, <1>5, <1>6, NoSessionType

=============================================================================
