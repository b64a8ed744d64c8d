---------------------------- MODULE StagedFiles -----------------------------
(***************************************************************************)
(* Staging files by inode: the sessions, names, sidecars and tombstones of *)
(* the staging manager (internal/staging/manager.go, session.go), with a   *)
(* client writing through a handle and a sync worker uploading and         *)
(* deleting (sync_worker.go).  StagedRename adds what moves them about.    *)
(*                                                                         *)
(* A staging file is an inode that a name points to, so that a descriptor, *)
(* the name it was opened under and the name a rename gives it can be told *)
(* apart.  Bytes are sets of tags: the bytes an object had before, those   *)
(* staged before, and one tag per write.                                   *)
(***************************************************************************)
EXTENDS DirtyIndex

CONSTANTS
  NoPath,
  Writes,           \* the writes clients make
  MaxFiles          \* bound: staging files at any one time

ASSUME FilesAssumption ==
  NoPath \notin Paths /\ MaxFiles \in Nat

Object(p) == <<"object", p>>
Staged(p) == <<"staged", p>>
Tags == {Object(p) : p \in Paths} \union {Staged(p) : p \in Paths}
        \union {<<"write", w>> : w \in Writes}

Files == 1..MaxFiles
NoFile == 0

VARIABLES
  session,          \* session[p]: the session the manager lists under p
  name,             \* name[p]: the inode under p's staging name
  data,             \* data[f]: the bytes of an inode
  sidecars, tombstones,
  renameTargets,    \* paths a rename is moving staged bytes onto
  objects, cos,     \* the bucket
  handle,           \* the client's open file
  worker,           \* the sync worker
  unopened,         \* files the client has yet to open
  unwritten,        \* writes it has yet to make
  content,          \* content[p]: the bytes clients were told p has
  breach            \* events after which nothing is claimed

stagingVars == <<session, name, data, sidecars, tombstones, renameTargets>>
storeVars == <<objects, cos>>
countVars == <<unopened, unwritten>>
ghostVars == <<content, breach>>
filesVars == <<indexVars, stagingVars, storeVars, handle, worker, countVars, ghostVars>>

\* at is StagingPath, the name the session believes its file has.
Session == [open: BOOLEAN, file: 0..MaxFiles, at: Paths \union {NoPath}, refs: Nat]

NoSession == [open |-> FALSE, file |-> NoFile, at |-> NoPath, refs |-> 0]

\* cur is the path the handle's session is listed under now: renames change it,
\* path stays.  NoPath when that session has been closed.
NoHandle == [pc |-> "idle", path |-> NoPath, cur |-> NoPath, w |-> {}]

IdleWorker == [pc |-> "idle", path |-> NoPath, cur |-> NoPath, gen |-> 0, snap |-> {},
               reading |-> FALSE, claim |-> FALSE]

FilesTypeOK ==
  /\ IndexTypeOK
  /\ session \in [Paths -> Session]
  /\ name \in [Paths -> 0..MaxFiles]
  /\ data \in [Files -> SUBSET Tags]
  /\ sidecars \subseteq Paths /\ tombstones \subseteq Paths /\ renameTargets \subseteq Paths
  /\ objects \subseteq Paths /\ cos \in [Paths -> SUBSET Tags]
  /\ {handle.path, handle.cur, worker.path, worker.cur} \subseteq Paths \union {NoPath}
  /\ content \in [Paths -> SUBSET Tags]

\* Some files are staged, as a restart recovers them, over some objects.
FilesInit(staged, inBucket, opened) ==
  /\ LET order == CHOOSE o \in [staged -> 1..Cardinality(staged)] :
                     \A p, q \in staged : o[p] = o[q] => p = q
     IN  name = [p \in Paths |-> IF p \in staged THEN order[p] ELSE NoFile]
  /\ dirty = name
  /\ recorded = staged /\ syncing = {} /\ generation = Cardinality(staged)
  /\ session = [p \in Paths |->
       IF p \in staged THEN [open |-> TRUE, file |-> name[p], at |-> p, refs |-> 0]
       ELSE NoSession]
  /\ data = [f \in Files |-> {Staged(p) : p \in {q \in staged : name[q] = f}}]
  /\ sidecars = staged /\ tombstones = {} /\ renameTargets = {}
  /\ objects = inBucket
  /\ cos = [p \in Paths |-> IF p \in inBucket THEN {Object(p)} ELSE {}]
  /\ handle = NoHandle /\ worker = IdleWorker
  /\ unopened = opened /\ unwritten = Writes
  /\ content = [p \in Paths |-> IF p \in staged THEN {Staged(p)} ELSE cos[p]]
  /\ breach = {}

-----------------------------------------------------------------------------
HasPendingDelete(p) == p \in tombstones

Fresh(used) == CHOOSE f \in Files : f \notin used

\* Inodes some name, session or upload still has.
Used == {name[p] : p \in Paths} \union {session[p].file : p \in Paths}

\* The bytes of inode f become b.
Store(f, b) == data' = [data EXCEPT ![f] = b]

\* OpenUploadSnapshot holds the session's file until the upload is over.
UploadReading(p) == worker.reading /\ worker.cur = p

\* WriteSession.write and Truncate.  With an upload reading its file the session
\* moves to a new one, renamed over the name the session has.
SetBytes(p, b) ==
  IF UploadReading(p)
  THEN LET f == Fresh(Used)
       IN  /\ session' = [session EXCEPT ![p].file = f]
           /\ name' = [name EXCEPT ![session[p].at] = f]
           /\ Store(f, b)
           /\ worker' = [worker EXCEPT !.reading = FALSE]
  ELSE Store(session[p].file, b) /\ UNCHANGED <<session, name, worker>>

\* A path whose name has no file gets an empty one; the sidecar is written.
OpenSession(p, refs) ==
  LET f == IF name[p] = NoFile THEN Fresh(Used) ELSE name[p]
  IN  /\ session' = [session EXCEPT ![p] =
           [open |-> TRUE, file |-> f, at |-> p, refs |-> refs]]
      /\ name' = [name EXCEPT ![p] = f]
      /\ Store(f, IF name[p] = NoFile THEN {} ELSE data[f])
      /\ sidecars' = sidecars \union {p}

\* What holds the session of p, once that session has been closed.
Orphan(proc, p) == IF proc.cur = p THEN [proc EXCEPT !.cur = NoPath] ELSE proc

\* removeSessionLocked and cleanupSyncedSession leave alone a session a rename
\* has moved away.
Stays(p) == session[p].open /\ session[p].at = p

\* The session of p leaves the manager, with its staging file.
RemoveSession(p) ==
  /\ session' = [session EXCEPT ![p] = NoSession]
  /\ name' = [name EXCEPT ![p] = NoFile]
  /\ handle' = Orphan(handle, p)

DropDirtyEntry(p) ==
  /\ MarkClean(p)
  /\ sidecars' = sidecars \ {p}

PutObject(p, b) ==
  /\ objects' = objects \union {p}
  /\ cos' = [cos EXCEPT ![p] = b]

DeleteObject(p) ==
  /\ objects' = objects \ {p}
  /\ cos' = [cos EXCEPT ![p] = {}]

Flag(kinds) == breach' = breach \union kinds

\* The content that changes with the session of p: that of the path whose name
\* its file has.  A file replaced under its session is nobody's content.
Owned(p, b) ==
  LET at == session[p].at
  IN  IF session[p].file = name[at] THEN [content EXCEPT ![at] = b] ELSE content

-----------------------------------------------------------------------------
\* The client's handle: an open that truncates, writes through it, its close.

\* GetOrCreateSession, which withdraws an accepted delete: that of a rename's
\* source too, if the session is still listed under the old name.
Open(p) ==
  /\ handle.pc = "idle" /\ p \in unopened
  /\ unopened' = unopened \ {p}
  /\ tombstones' = tombstones \ {p}
  /\ \/ /\ session[p].open
        /\ session' = [session EXCEPT ![p].refs = @ + 1]
        /\ UNCHANGED <<name, data, sidecars>>
     \/ /\ ~session[p].open
        /\ OpenSession(p, 1)
  /\ handle' = [pc |-> "trunc", path |-> p, cur |-> p, w |-> {}]
  /\ content' = IF session[p].open THEN Owned(p, {}) ELSE [content EXCEPT ![p] = {}]
  /\ Flag(IF session[p].open /\ session[p].at # p THEN {"linger"} ELSE {})
  /\ UNCHANGED <<indexVars, renameTargets, storeVars, worker, unwritten>>

\* A rename has given the file another name: what the handle changes from now
\* on is recorded under the old one.
Renamed == handle.cur \notin {handle.path, NoPath}

\* A rename is replacing the file under the handle, and the copy the session
\* moves to takes the name from the bytes the rename has moved there.
Clobbers == handle.cur \in renameTargets /\ UploadReading(handle.cur)

Truncate ==
  /\ handle.pc = "trunc"
  /\ \/ /\ handle.cur # NoPath
        /\ SetBytes(handle.cur, {})
        /\ handle' = [handle EXCEPT !.pc = "mark"]
        /\ content' = Owned(handle.cur, {})
        /\ Flag((IF Renamed THEN {"handle"} ELSE {}) \union (IF Clobbers THEN {"clobber"} ELSE {}))
     \/ /\ handle.cur = NoPath
        /\ handle' = NoHandle
        /\ Flag({"linger"})
        /\ UNCHANGED <<session, name, data, worker, content>>
  /\ UNCHANGED <<indexVars, sidecars, tombstones, renameTargets, storeVars, countVars>>

Write ==
  /\ handle.pc = "open" /\ handle.cur # NoPath
  /\ \E w \in unwritten :
       /\ unwritten' = unwritten \ {w}
       /\ SetBytes(handle.cur, data[session[handle.cur].file] \union {<<"write", w>>})
       /\ handle' = [handle EXCEPT !.pc = "mark", !.w = {<<"write", w>>}]
  /\ Flag((IF Renamed THEN {"handle"} ELSE {}) \union (IF Clobbers THEN {"clobber"} ELSE {}))
  /\ UNCHANGED <<indexVars, sidecars, tombstones, renameTargets, storeVars,
                 unopened, content>>

\* MarkDirty goes by the path the file was opened under.  A write is accepted
\* once it returns.
Mark ==
  LET p == handle.path
  IN  /\ handle.pc = "mark"
      /\ \/ /\ CanMarkDirtyAgain(p)
            /\ MarkDirtyAgain(p)
            /\ UNCHANGED sidecars
         \/ /\ ~CanMarkDirtyAgain(p)
            /\ MarkDirtyWithState(p, TRUE)
            /\ sidecars' = sidecars \union {p}
      /\ handle' = [handle EXCEPT !.pc = "open", !.w = {}]
      /\ content' = IF handle.cur = NoPath THEN content
                    ELSE Owned(handle.cur, content[session[handle.cur].at] \union handle.w)
      /\ UNCHANGED <<session, name, data, tombstones, renameTargets, storeVars, worker,
                     countVars, breach>>

\* Mutant: the count of whatever session the path has is not kept from going
\* below zero.
Close_NoFloor ==
  /\ handle.pc = "open"
  /\ handle' = NoHandle
  /\ session' = [session EXCEPT ![handle.path].refs = @ - 1]
  /\ UNCHANGED <<indexVars, name, data, sidecars, tombstones, renameTargets, storeVars,
                 worker, countVars, ghostVars>>

\* ReleaseSession goes by path too.
Close ==
  LET p == handle.path
  IN  /\ handle.pc = "open"
      /\ handle' = NoHandle
      /\ session' = IF session[p].refs > 0 THEN [session EXCEPT ![p].refs = @ - 1] ELSE session
      /\ UNCHANGED <<indexVars, name, data, sidecars, tombstones, renameTargets, storeVars,
                     worker, countVars, ghostVars>>

Client == (\E p \in Paths : Open(p)) \/ Truncate \/ Write \/ Mark \/ Close

-----------------------------------------------------------------------------
\* The sync worker: uploads of queued paths, and the accepted deletes.

\* The claim of p the worker drops is not its own any more.
Steals(p) == ~worker.claim /\ p \in syncing

WorkerDone ==
  LET p == worker.path
  IN  /\ worker.pc = "unlock"
      /\ UnlockFile(p)
      /\ worker' = IdleWorker
      /\ Flag(IF Steals(p) THEN {"claim"} ELSE {})
      /\ UNCHANGED <<stagingVars, storeVars, handle, countVars, content>>

\* An entry of the list the worker took: claimed, then looked up again.
Claim(p) ==
  /\ worker.pc = "idle"
  /\ LockFile(p)
  /\ \/ /\ HasPendingDelete(p)
        /\ worker' = [IdleWorker EXCEPT !.pc = "discard", !.path = p, !.claim = TRUE]
     \/ /\ IsDirty(p)
        /\ worker' = [IdleWorker EXCEPT !.pc = "session", !.path = p, !.claim = TRUE]
  /\ UNCHANGED <<stagingVars, storeVars, handle, countVars, ghostVars>>

\* syncFileWithWorker: the pending delete, then the session, or one recovered
\* from the staging file, or an entry with nothing behind it, which is dropped.
UploadSession ==
  LET p == worker.path
  IN  /\ worker.pc = "session"
      /\ \/ /\ HasPendingDelete(p)
            /\ worker' = [worker EXCEPT !.pc = "unlock"]
            /\ UNCHANGED <<indexVars, session, name, data, sidecars>>
         \/ /\ ~HasPendingDelete(p) /\ session[p].open
            /\ worker' = [worker EXCEPT !.pc = "generation", !.cur = p]
            /\ UNCHANGED <<indexVars, session, name, data, sidecars>>
         \/ /\ ~HasPendingDelete(p) /\ ~session[p].open /\ name[p] # NoFile
            /\ OpenSession(p, 0)
            /\ worker' = [worker EXCEPT !.pc = "generation", !.cur = p]
            /\ UNCHANGED indexVars
         \/ /\ ~HasPendingDelete(p) /\ ~session[p].open /\ name[p] = NoFile
            /\ DropDirtyEntry(p)
            /\ worker' = [worker EXCEPT !.pc = "unlock", !.claim = FALSE]
            /\ UNCHANGED <<session, name, data>>
      /\ Flag(IF p \in renameTargets /\ p \in sidecars \ sidecars' THEN {"intent"} ELSE {})
      /\ UNCHANGED <<tombstones, renameTargets, storeVars, handle, countVars, content>>

UploadGeneration ==
  /\ worker.pc = "generation"
  /\ worker' = [worker EXCEPT !.pc = "snapshot", !.gen = dirty[worker.path]]
  /\ UNCHANGED <<indexVars, stagingVars, storeVars, handle, countVars, ghostVars>>

\* The snapshot is of whatever file has the name the session has by now.
UploadSnapshot ==
  LET f == IF worker.cur = NoPath THEN NoFile ELSE name[session[worker.cur].at]
  IN  /\ worker.pc = "snapshot"
      /\ worker' = IF f = NoFile THEN [worker EXCEPT !.pc = "unlock"]
                   ELSE [worker EXCEPT !.pc = "put", !.snap = data[f], !.reading = TRUE]
      /\ UNCHANGED <<indexVars, stagingVars, storeVars, handle, countVars, ghostVars>>

Upload ==
  /\ worker.pc = "put"
  /\ \/ /\ PutObject(worker.path, worker.snap)
        /\ worker' = [worker EXCEPT !.pc = "clean"]
     \/ /\ worker' = [worker EXCEPT !.pc = "unlock", !.reading = FALSE]
        /\ UNCHANGED storeVars
  /\ UNCHANGED <<indexVars, stagingVars, handle, countVars, ghostVars>>

\* markCleanIfUnchanged drops the claim with the entry, whoever has it.  An
\* upload that began after a rename onto the path wrote its sidecar takes that
\* sidecar away; one whose session a rename took elsewhere before it read the
\* generation marks clean a file created since.
UploadClean ==
  LET p == worker.path
  IN  /\ worker.pc = "clean"
      /\ \/ /\ IsUnchanged(p, worker.gen)
            /\ MarkClean(p)
            /\ sidecars' = IF IsDirty(p) THEN sidecars \ {p} ELSE sidecars
            /\ worker' = [worker EXCEPT !.pc = "cleanup", !.claim = FALSE]
            /\ Flag(IF ~IsDirty(p) THEN {} ELSE (IF p \in renameTargets THEN {"intent"} ELSE {})
                                      \union (IF worker.cur # p THEN {"crossed"} ELSE {}))
         \/ /\ ~IsUnchanged(p, worker.gen)
            /\ worker' = [worker EXCEPT !.pc = "unlock", !.reading = FALSE]
            /\ UNCHANGED <<indexVars, sidecars, breach>>
      /\ UNCHANGED <<session, name, data, tombstones, renameTargets, storeVars, handle,
                     countVars, content>>

\* Mutant: a path a rename is moving bytes onto counts as the synced file's.
CanCleanUp_RenameTarget(p) ==
  Stays(p) /\ worker.cur = p /\ session[p].refs = 0 /\ ~IsDirty(p)

\* cleanupSyncedSession
CanCleanUp(p) ==
  /\ Stays(p) /\ worker.cur = p /\ session[p].refs = 0
  /\ ~IsDirty(p) /\ p \notin renameTargets

UploadCleanup ==
  LET p == worker.path
  IN  /\ worker.pc = "cleanup"
      /\ worker' = [worker EXCEPT !.pc = "unlock", !.reading = FALSE, !.cur = NoPath]
      /\ \/ /\ CanCleanUp(p)
            /\ RemoveSession(p)
            /\ sidecars' = sidecars \ {p}
         \/ /\ ~CanCleanUp(p)
            /\ UNCHANGED <<session, name, sidecars, handle>>
      /\ UNCHANGED <<indexVars, data, tombstones, renameTargets, storeVars,
                     countVars, ghostVars>>

\* discardDeletedStaging.  Without a session the staged bytes stay on disk.
DeleteDiscard ==
  LET p == worker.path
  IN  /\ worker.pc = "discard"
      /\ \/ /\ ~HasPendingDelete(p)
            /\ worker' = [worker EXCEPT !.pc = "unlock"]
            /\ UNCHANGED <<indexVars, session, name, sidecars, handle>>
         \/ /\ HasPendingDelete(p)
            /\ DropDirtyEntry(p)
            /\ IF Stays(p) THEN RemoveSession(p) ELSE UNCHANGED <<session, name, handle>>
            /\ worker' = [worker EXCEPT !.pc = "delete", !.claim = FALSE]
      /\ UNCHANGED <<data, tombstones, renameTargets, storeVars, countVars, ghostVars>>

\* The delete was withdrawn after the check, and the path has an object again.
DeletesNew(p) == content[p] \intersect cos[p] # {}

DeleteFromStore ==
  /\ worker.pc = "delete"
  /\ \/ DeleteObject(worker.path) /\ worker' = [worker EXCEPT !.pc = "resolve"]
     \/ worker' = [worker EXCEPT !.pc = "unlock"] /\ UNCHANGED storeVars
  /\ Flag(IF DeletesNew(worker.path) THEN {"delete"} ELSE {})
  /\ UNCHANGED <<indexVars, stagingVars, handle, countVars, content>>

ResolveDelete ==
  /\ worker.pc = "resolve"
  /\ tombstones' = tombstones \ {worker.path}
  /\ worker' = [worker EXCEPT !.pc = "unlock"]
  /\ UNCHANGED <<indexVars, session, name, data, sidecars, renameTargets, storeVars,
                 handle, countVars, ghostVars>>

Sync ==
  \/ \E p \in Paths : Claim(p)
  \/ UploadSession \/ UploadGeneration \/ UploadSnapshot \/ Upload \/ UploadClean
  \/ UploadCleanup \/ DeleteDiscard \/ DeleteFromStore \/ ResolveDelete \/ WorkerDone

-----------------------------------------------------------------------------
\* What a restart finds: staged bytes with a sidecar and no tombstone.
Recovered == {p \in sidecars \ tombstones : name[p] # NoFile}

\* RecoverFromDisk; bytes under a tombstone go with their sidecar.
Restart ==
  /\ session' = [p \in Paths |->
       IF p \in Recovered THEN [open |-> TRUE, file |-> name[p], at |-> p, refs |-> 0]
       ELSE NoSession]
  /\ name' = [p \in Paths |-> IF p \in sidecars \intersect tombstones THEN NoFile ELSE name[p]]
  /\ sidecars' = Recovered
  /\ RestoreDirty(Recovered)
  /\ renameTargets' = {}
  /\ handle' = NoHandle /\ worker' = IdleWorker
  /\ UNCHANGED <<data, tombstones, storeVars, countVars, content>>

\* What a reader of p gets now, and would get after a restart.
Visible(p) ==
  IF HasPendingDelete(p) THEN {}
  ELSE IF session[p].open THEN data[session[p].file] ELSE cos[p]

AfterRestart(p) ==
  IF HasPendingDelete(p) THEN {}
  ELSE IF p \in Recovered THEN data[name[p]] ELSE cos[p]

=============================================================================
