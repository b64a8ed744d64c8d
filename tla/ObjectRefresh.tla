--------------------------- MODULE ObjectRefresh ---------------------------
(***************************************************************************)
(* The object refresh scanner (internal/posix/object_refresh.go) and the   *)
(* conflicts it records in the staging manager (RecordConflict of          *)
(* internal/staging/manager.go), for one path that clients write, the sync *)
(* worker uploads, and others change directly in the bucket.               *)
(*                                                                         *)
(* The scanner knows the objects by their signature in a LIST and compares *)
(* it with the one of its last scan.  It does not know which puts are the  *)
(* gateway's own, and recording a conflict takes no claim on the path.     *)
(***************************************************************************)
EXTENDS Naturals, FiniteSets

CONSTANTS
  MaxStagedWrites,  \* bound: writes through handles
  MaxPuts           \* bound: puts and deletes in the bucket

VARIABLES
  stored,           \* the object: who put it, the write it holds, its signature
  puts,             \* the last signature given out
  signature,        \* the signature of the scanner's last scan, if it had one
  scan,             \* the scan under way
  writer,           \* the handle of the client that writes
  sessionOpen,      \* whether the manager has a session of the path
  bytes,            \* the write the staging file holds, 0 without a file
  indexed,          \* the dirty generation of the path, 0 when it is clean
  conflicted,       \* whether the index has a conflict of the path
  preserved,        \* the write in lost+found, 0 without one
  conflictOnDisk,   \* whether its metadata is there too
  syncer,           \* the upload under way
  writes,           \* the last write made
  told,             \* the last write a client was told is accepted
  uploaded,         \* the writes that were uploaded
  refreshBreach     \* what the code does not keep apart and has happened

refreshVars == <<stored, puts, signature, scan, writer, sessionOpen, bytes, indexed, conflicted,
                 preserved, conflictOnDisk, syncer, writes, told, uploaded, refreshBreach>>

NoScan == [pc |-> "idle", found |-> 0]
NoSyncer == [pc |-> "idle", write |-> 0, generation |-> 0]

Unseen == [observed |-> FALSE, sig |-> 0]

\* The object is from an earlier life of the gateway or from elsewhere, and the
\* path may have been staged before the process started.
RefreshInit ==
  /\ stored \in {[by |-> "nobody", write |-> 0, sig |-> 0], [by |-> "gateway", write |-> 0, sig |-> 1],
                 [by |-> "external", write |-> 0, sig |-> 1]}
  /\ puts = 1
  /\ signature = Unseen
  /\ scan = NoScan
  /\ writer = "closed"
  /\ \/ sessionOpen = FALSE /\ bytes = 0 /\ indexed = 0 /\ writes = 0
     \/ sessionOpen = TRUE /\ bytes = 1 /\ indexed = 1 /\ writes = 1
  /\ told = writes
  /\ conflicted = FALSE
  /\ preserved = 0 /\ conflictOnDisk = FALSE
  /\ syncer = NoSyncer
  /\ uploaded = {}
  /\ refreshBreach = {}

bucketVars == <<stored, puts>>
stageVars == <<sessionOpen, bytes, indexed, conflicted>>
writeVars == <<writes, told>>
lostVars == <<preserved, conflictOnDisk>>

Breaks(b, when) == refreshBreach' = refreshBreach \union (IF when THEN {b} ELSE {})

IsDirtyPath == indexed # 0

\* The scanner is recording a conflict and has the copy, which later writes and
\* uploads do not go into.
Recording == scan.pc \in {"copy", "metadata", "session", "files", "mark"}
Copied == scan.pc \in {"metadata", "session"}

\* The last put is an upload of the gateway's, and what the scanner compares
\* with (or is about to) is older.
OwnUploadUnseen ==
  /\ stored.by = "gateway"
  /\ \/ signature.observed /\ signature.sig # stored.sig
     \/ scan.pc # "idle" /\ scan.found # stored.sig

-----------------------------------------------------------------------------
(* The others, and the client that writes.                                 *)

ExternalPut ==
  /\ puts < MaxPuts
  /\ puts' = puts + 1
  /\ stored' = [by |-> "external", write |-> 0, sig |-> puts + 1]
  /\ UNCHANGED <<signature, scan, writer, stageVars, lostVars, syncer, writeVars, uploaded, refreshBreach>>

ExternalDelete ==
  /\ puts < MaxPuts /\ stored.by # "nobody"
  /\ puts' = puts + 1
  /\ stored' = [by |-> "nobody", write |-> 0, sig |-> 0]
  /\ UNCHANGED <<signature, scan, writer, stageVars, lostVars, syncer, writeVars, uploaded, refreshBreach>>

\* GetOrCreateSession refuses a conflicted path.
OpenStaged ==
  /\ writer = "closed" /\ ~conflicted
  /\ writer' = "open"
  /\ sessionOpen' = TRUE
  /\ UNCHANGED <<bucketVars, signature, scan, bytes, indexed, conflicted, lostVars, syncer, writeVars, uploaded, refreshBreach>>

\* The bytes go to the staging file, unless the session was closed under the
\* handle.
WriteStaged ==
  /\ writer = "open" /\ sessionOpen
  /\ writes < MaxStagedWrites
  /\ writes' = writes + 1
  /\ bytes' = writes + 1
  /\ writer' = "marking"
  /\ Breaks("written", Copied)
  /\ UNCHANGED <<bucketVars, signature, scan, sessionOpen, indexed, conflicted, lostVars, syncer, told, uploaded>>

\* MarkDirty, which does nothing to a conflicted path, and the client is told.
\* The scanner may have yet to see the last upload.
MarkStagedDirty ==
  /\ writer = "marking"
  /\ writer' = "open"
  /\ told' = writes
  /\ indexed' = IF conflicted THEN indexed ELSE writes
  /\ Breaks("itself", OwnUploadUnseen)
  /\ UNCHANGED <<bucketVars, signature, scan, sessionOpen, bytes, conflicted, lostVars, syncer, writes, uploaded>>

CloseStaged ==
  /\ writer = "open"
  /\ writer' = "closed"
  /\ UNCHANGED <<bucketVars, signature, scan, stageVars, lostVars, syncer, writeVars, uploaded, refreshBreach>>

-----------------------------------------------------------------------------
(* The sync worker.                                                        *)

SyncConflictChecked ==
  /\ syncer.pc = "idle"
  /\ IsDirtyPath /\ ~conflicted
  /\ bytes # 0
  /\ syncer' = [pc |-> "put", write |-> bytes, generation |-> indexed]
  /\ UNCHANGED <<bucketVars, signature, scan, writer, stageVars, lostVars, writeVars, uploaded, refreshBreach>>

SyncUploads ==
  /\ syncer.pc = "put"
  /\ \/ /\ puts < MaxPuts
        /\ puts' = puts + 1
        /\ stored' = [by |-> "gateway", write |-> syncer.write, sig |-> puts + 1]
        /\ uploaded' = uploaded \union {syncer.write}
        /\ syncer' = [syncer EXCEPT !.pc = "clean"]
        /\ Breaks("uploading", Recording \/ conflicted)
     \/ /\ syncer' = NoSyncer
        /\ UNCHANGED <<bucketVars, uploaded, refreshBreach>>
  /\ UNCHANGED <<signature, scan, writer, stageVars, lostVars, writeVars>>

\* markCleanIfUnchanged, and the session goes when no handle has it.  A path that
\* was written meanwhile stays dirty, with an upload the scanner has yet to see.
SyncMarksClean ==
  LET unchanged == IsDirtyPath => indexed = syncer.generation
      gone == unchanged /\ writer = "closed" /\ ~conflicted
  IN  /\ syncer.pc = "clean"
      /\ syncer' = NoSyncer
      /\ indexed' = IF unchanged THEN 0 ELSE indexed
      /\ sessionOpen' = IF gone THEN FALSE ELSE sessionOpen
      /\ bytes' = IF gone THEN 0 ELSE bytes
      /\ Breaks("itself", ~unchanged /\ OwnUploadUnseen)
      /\ UNCHANGED <<bucketVars, signature, scan, writer, conflicted, lostVars, writeVars, uploaded>>

-----------------------------------------------------------------------------
(* The scanner.                                                            *)

\* A LIST that fails leaves everything as it was.
ScanList ==
  /\ scan.pc = "idle"
  /\ scan' = [pc |-> "diff", found |-> stored.sig]
  /\ UNCHANGED <<bucketVars, signature, writer, stageVars, lostVars, syncer, writeVars, uploaded, refreshBreach>>

\* Mutant: the first scan has nothing to compare with and calls everything new.
Changed_FirstScanToo(sig) == sig # signature.sig

\* The first scan only takes the signatures.
ChangedSince(sig) == signature.observed /\ sig # signature.sig

\* A changed path that is not dirty is dropped from the caches and reported.
ScanDiff ==
  /\ scan.pc = "diff"
  /\ scan' = [scan EXCEPT !.pc = IF ChangedSince(scan.found) /\ IsDirtyPath THEN "copy" ELSE "save"]
  /\ Breaks("uploading", ChangedSince(scan.found) /\ IsDirtyPath /\ syncer.pc # "idle")
  /\ UNCHANGED <<bucketVars, signature, writer, stageVars, lostVars, syncer, writeVars, uploaded>>

\* Mutant: a copy that fails is taken for done.
RecordFails_GoesOn(next) == next

\* An error of RecordConflict skips the path: its change is not looked at again.
RecordFails(next) == "save"

\* copyFile, synced, into lost+found.  A path that is no longer dirty is left.
RecordCopy ==
  /\ scan.pc = "copy"
  /\ \/ /\ bytes # 0 /\ IsDirtyPath
        /\ preserved' = bytes
        /\ scan' = [scan EXCEPT !.pc = "metadata"]
     \/ /\ scan' = [scan EXCEPT !.pc = IF IsDirtyPath THEN RecordFails("metadata") ELSE "save"]
        /\ UNCHANGED preserved
  /\ UNCHANGED <<bucketVars, signature, writer, stageVars, conflictOnDisk, syncer, writeVars, uploaded, refreshBreach>>

RecordMetadata ==
  /\ scan.pc = "metadata"
  /\ \/ /\ conflictOnDisk' = TRUE
        /\ scan' = [scan EXCEPT !.pc = "session"]
     \/ /\ scan' = [scan EXCEPT !.pc = RecordFails("session")]
        /\ UNCHANGED conflictOnDisk
  /\ UNCHANGED <<bucketVars, signature, writer, stageVars, preserved, syncer, writeVars, uploaded, refreshBreach>>

\* The session leaves the manager and its file is closed: writes through open
\* handles fail from here on.
RecordDropsSession ==
  /\ scan.pc = "session"
  /\ sessionOpen' = FALSE
  /\ scan' = [scan EXCEPT !.pc = "files"]
  /\ UNCHANGED <<bucketVars, signature, writer, bytes, indexed, conflicted, lostVars, syncer, writeVars, uploaded, refreshBreach>>

\* The staging file and its sidecar go.  An open in between has made a session of
\* its own on them.
RecordRemovesFiles ==
  /\ scan.pc = "files"
  /\ bytes' = 0
  /\ scan' = [scan EXCEPT !.pc = "mark"]
  /\ Breaks("written", sessionOpen)
  /\ UNCHANGED <<bucketVars, signature, writer, sessionOpen, indexed, conflicted, lostVars, syncer, writeVars, uploaded>>

\* MarkConflicted: the path leaves the queue, and is conflicted from here on.
RecordMarks ==
  /\ scan.pc = "mark"
  /\ conflicted' = TRUE
  /\ indexed' = 0
  /\ scan' = [scan EXCEPT !.pc = "save"]
  /\ Breaks("written", sessionOpen)
  /\ UNCHANGED <<bucketVars, signature, writer, sessionOpen, bytes, lostVars, syncer, writeVars, uploaded>>

\* The caches are invalidated and the signatures of the LIST become the last.
ScanSave ==
  /\ scan.pc = "save"
  /\ signature' = [observed |-> TRUE, sig |-> scan.found]
  /\ scan' = NoScan
  /\ UNCHANGED <<bucketVars, writer, stageVars, lostVars, syncer, writeVars, uploaded, refreshBreach>>

-----------------------------------------------------------------------------
\* The process dies and recovers: staged files first, the conflicts then.  A copy
\* without its metadata is left behind.
RefreshCrash ==
  /\ signature' = Unseen /\ scan' = NoScan /\ syncer' = NoSyncer
  /\ writer' = "closed"
  /\ sessionOpen' = (bytes # 0)
  /\ conflicted' = conflictOnDisk
  /\ indexed' = IF bytes # 0 /\ ~conflictOnDisk THEN bytes ELSE 0
  /\ UNCHANGED <<bucketVars, bytes, lostVars, writeVars, uploaded, refreshBreach>>

RefreshNext ==
  \/ ExternalPut \/ ExternalDelete
  \/ OpenStaged \/ WriteStaged \/ MarkStagedDirty \/ CloseStaged
  \/ SyncConflictChecked \/ SyncUploads \/ SyncMarksClean
  \/ ScanList \/ ScanDiff \/ RecordCopy \/ RecordMetadata \/ RecordDropsSession
  \/ RecordRemovesFiles \/ RecordMarks \/ ScanSave
  \/ RefreshCrash

-----------------------------------------------------------------------------
\* The last write a client was told of is in the staging area, was uploaded, or
\* is in lost+found with its record: no scan, however it interleaves with writes,
\* uploads and a crash half-way through a conflict, overwrites staged bytes.
ConflictKeepsWrites ==
  refreshBreach = {} =>
    \E kept \in {0, bytes} \union uploaded \union (IF conflictOnDisk THEN {preserved} ELSE {}) :
      kept >= told

\* Where a path is conflicted, the object is somebody else's, or somebody else
\* deleted it: the gateway does not call its own upload a conflict and uploads
\* nothing over the object that won.
ExternalChangeWins ==
  refreshBreach = {} => (conflicted => stored.by # "gateway")

=============================================================================
