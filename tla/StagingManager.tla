--------------------------- MODULE StagingManager ---------------------------
(***************************************************************************)
(* The staging manager (internal/staging/manager.go, session.go,           *)
(* session_upload.go, session_discard.go, tombstone.go): the write         *)
(* sessions, and what it keeps on the staging disk for each path - the     *)
(* staged bytes, the sidecar that says whose bytes they are, and the       *)
(* tombstone of an accepted delete.                                        *)
(*                                                                         *)
(* The bytes of a file are the set of writes they contain, so that losing  *)
(* one write, losing the bytes of the object the file started from, or     *)
(* bringing a deleted file's bytes back, are all visible.                  *)
(*                                                                         *)
(* A staging file is named after its path, and a session holds a           *)
(* descriptor: `linked` is whether the descriptor is still the file under  *)
(* that name.  A session taken out of the manager is closed and every      *)
(* operation on it fails, so only the session in the manager has state.    *)
(***************************************************************************)
EXTENDS DirtyIndex

CONSTANT MaxWrites  \* bound: how many writes clients make

ASSUME MaxWritesAssumption == MaxWrites \in Nat

\* Writes are numbered from 1; 0 stands for the bytes of an object that was in
\* the bucket before the gateway started.
WriteIds == 0..MaxWrites

VARIABLES
  session,          \* session[p]: the write session of p, NoSession without one
  files,            \* paths with a staging file under their name
  disk,             \* disk[p]: the bytes of that file
  sidecars,         \* paths with a sidecar on disk
  tombstones        \* paths with an accepted delete, in memory and on disk

managerVars == <<session, files, disk, sidecars, tombstones>>

Bytes == SUBSET WriteIds

\* dirty is WriteSession.Dirty: bytes were ever written or truncated through
\* the session.  It stays set after a sync.
Session == [open: BOOLEAN, bytes: Bytes, refs: Nat, dirty: BOOLEAN,
            prefetched: BOOLEAN, linked: BOOLEAN]

NoSession == [open |-> FALSE, bytes |-> {}, refs |-> 0, dirty |-> FALSE,
              prefetched |-> FALSE, linked |-> FALSE]

ManagerTypeOK ==
  /\ session \in [Paths -> Session]
  /\ files \subseteq Paths
  /\ disk \in [Paths -> Bytes]
  /\ sidecars \subseteq Paths
  /\ tombstones \subseteq Paths

ManagerInit ==
  /\ session = [p \in Paths |-> NoSession]
  /\ files = {}
  /\ disk = [p \in Paths |-> {}]
  /\ sidecars = {}
  /\ tombstones = {}

HasPendingDelete(p) == p \in tombstones

\* A session that carries data answers whether the file exists.
CarriesData(p) ==
  session[p].dirty \/ session[p].prefetched \/ session[p].bytes # {}

-----------------------------------------------------------------------------
\* A session on the staging file of p, created empty if there is none.  Bytes
\* found under the name are taken over, and the path gets its sidecar.
NewWriteSession(p, refs, isDirty) ==
  /\ session' = [session EXCEPT ![p] =
       [open |-> TRUE, bytes |-> disk[p], refs |-> refs, dirty |-> isDirty,
        prefetched |-> FALSE, linked |-> TRUE]]
  /\ files' = files \union {p}
  /\ sidecars' = sidecars \union {p}
  /\ UNCHANGED disk

CancelPendingDelete(p) == tombstones' = tombstones \ {p}

\* Mutant: a session that is there already is used without counting the user.
GetOrCreateSession_NoRef(p) ==
  /\ CancelPendingDelete(p)
  /\ \/ /\ session[p].open
        /\ UNCHANGED <<session, files, disk, sidecars>>
     \/ /\ ~session[p].open
        /\ NewWriteSession(p, 1, FALSE)

\* A session for a dirty path that has bytes under its name and no session.
RecoverSessionFromStaging(p) ==
  /\ ~session[p].open /\ p \in files
  /\ NewWriteSession(p, 0, TRUE)
  /\ UNCHANGED tombstones

\* Opening for writing recreates the path: an accepted delete is withdrawn.
GetOrCreateSession(p) ==
  /\ CancelPendingDelete(p)
  /\ \/ /\ session[p].open
        /\ session' = [session EXCEPT ![p].refs = @ + 1]
        /\ UNCHANGED <<files, disk, sidecars>>
     \/ /\ ~session[p].open
        /\ NewWriteSession(p, 1, FALSE)

\* Mutant: the count is not kept from going below zero.
ReleaseSession_NoFloor(p) ==
  /\ session' = IF session[p].open THEN [session EXCEPT ![p].refs = @ - 1] ELSE session
  /\ UNCHANGED <<files, disk, sidecars, tombstones>>

\* ReleaseSession goes by path: it is whatever session the path has now that
\* loses a reference, never below zero.
ReleaseSession(p) ==
  /\ session' = IF session[p].open /\ session[p].refs > 0
                THEN [session EXCEPT ![p].refs = @ - 1] ELSE session
  /\ UNCHANGED <<files, disk, sidecars, tombstones>>

\* Mutant: the copy the session moves to is never renamed over the name.
OnName_NoRename(p, detach) == session[p].linked /\ ~detach

\* detachFromUploadsLocked: with an upload reading the staging file (detach) the
\* session moves to a new file, renamed over the name.  Whether the session's
\* file has the name after that.
OnName(p, detach) == session[p].linked \/ detach

\* WriteSession.write and Truncate: the session's bytes become b.
SetBytes(p, b, detach) ==
  LET onName == OnName(p, detach)
  IN  /\ session' = [session EXCEPT ![p] =
           [@ EXCEPT !.bytes = b, !.linked = onName, !.dirty = TRUE]]
      /\ disk' = IF onName THEN [disk EXCEPT ![p] = b] ELSE disk
      /\ files' = IF onName THEN files \union {p} ELSE files
      /\ UNCHANGED <<sidecars, tombstones>>

\* DownloadToFile writes b to whatever file has the name, creating one if need
\* be; the session sees it when the name is its descriptor's.
DownloadToFile(p, b, detach, prefetched) ==
  LET s == session[p]
      onName == s.open /\ OnName(p, detach)
  IN  /\ session' = [session EXCEPT ![p] =
           [s EXCEPT !.bytes = IF onName THEN b ELSE s.bytes,
                     !.linked = onName, !.prefetched = s.prefetched \/ prefetched]]
      /\ disk' = [disk EXCEPT ![p] = b]
      /\ files' = files \union {p}
      /\ UNCHANGED <<sidecars, tombstones>>

\* ReleaseSessionDiscardingIfEmpty: an unused session without data leaves the
\* manager here, and its files go by name after the lock is given up.
DiscardsSession(p) ==
  session[p].open /\ session[p].refs <= 1 /\ ~IsDirty(p) /\ ~CarriesData(p)

ReleaseSessionDiscardingIfEmpty(p) ==
  IF DiscardsSession(p)
  THEN /\ session' = [session EXCEPT ![p] = NoSession]
       /\ UNCHANGED <<files, disk, sidecars, tombstones>>
  ELSE ReleaseSession(p)

RemoveStagingFiles(p) ==
  /\ session' = [session EXCEPT ![p].linked = FALSE]
  /\ files' = files \ {p}
  /\ disk' = [disk EXCEPT ![p] = {}]
  /\ sidecars' = sidecars \ {p}
  /\ UNCHANGED tombstones

\* dropDirtyEntry: the entry (and the claim) and the sidecar, in one step for
\* anything marking the path dirty.
DropDirtyEntry(p) ==
  /\ MarkClean(p)
  /\ sidecars' = sidecars \ {p}

\* markCleanIfUnchanged, where the upload that read generation g stands.  The
\* sidecar goes only with the entry it belongs to.
MarkCleanIfUnchanged(p, g) ==
  /\ IsUnchanged(p, g)
  /\ MarkClean(p)
  /\ sidecars' = IF IsDirty(p) THEN sidecars \ {p} ELSE sidecars

\* removeSessionLocked, with the dirty entry and the staging file; the path is
\* left alone when it has no session.
RemoveSession(p) ==
  IF session[p].open
  THEN /\ session' = [session EXCEPT ![p] = NoSession]
       /\ files' = files \ {p}
       /\ disk' = [disk EXCEPT ![p] = {}]
       /\ DropDirtyEntry(p)
       /\ UNCHANGED tombstones
  ELSE UNCHANGED <<managerVars, indexVars>>

\* discardDeletedStaging, where the delete still stands.
DiscardDeletedStaging(p) ==
  /\ HasPendingDelete(p)
  /\ DropDirtyEntry(p)
  /\ session' = [session EXCEPT ![p] = NoSession]
  /\ files' = IF session[p].open THEN files \ {p} ELSE files
  /\ disk' = IF session[p].open THEN [disk EXCEPT ![p] = {}] ELSE disk
  /\ UNCHANGED tombstones

\* Mutants: the session is cleaned up while it is queued again, or in use.
IsIdleAndSynced_Dirty(p) == session[p].open /\ session[p].refs = 0

IsIdleAndSynced_InUse(p) == session[p].open /\ ~IsDirty(p)

\* cleanupSyncedSession, for the session an upload took its bytes from.
IsIdleAndSynced(p) == session[p].open /\ session[p].refs = 0 /\ ~IsDirty(p)

CleanupSyncedSession(p) ==
  /\ session' = [session EXCEPT ![p] = NoSession]
  /\ files' = files \ {p}
  /\ disk' = [disk EXCEPT ![p] = {}]
  /\ sidecars' = sidecars \ {p}
  /\ UNCHANGED tombstones

-----------------------------------------------------------------------------
\* What a restart finds, once the tombstones are loaded: staged bytes with a
\* sidecar and no tombstone.
Recovered == (files \intersect sidecars) \ tombstones

\* RecoverFromDisk.  Bytes under a tombstone go with their sidecar, a sidecar
\* without bytes goes, and bytes without a sidecar stay where they are.
RecoverFromDisk ==
  LET superseded == files \intersect sidecars \intersect tombstones
  IN  /\ session' = [p \in Paths |->
           IF p \in Recovered
           THEN [open |-> TRUE, bytes |-> disk[p], refs |-> 0, dirty |-> TRUE,
                 prefetched |-> FALSE, linked |-> TRUE]
           ELSE NoSession]
      /\ files' = files \ superseded
      /\ disk' = [p \in Paths |-> IF p \in superseded THEN {} ELSE disk[p]]
      /\ sidecars' = Recovered
      /\ RestoreDirty(Recovered)
      /\ UNCHANGED tombstones

=============================================================================
