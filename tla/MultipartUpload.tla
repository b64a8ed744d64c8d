-------------------------- MODULE MultipartUpload --------------------------
(***************************************************************************)
(* One upload in detail: what staging/sync_worker.go sends to the store    *)
(* for a staged file that is held open and keeps being written, in one PUT *)
(* or in parts (uploadMultipartOnce), with its retries, and the staging    *)
(* file of its own that a change during an upload moves the session to     *)
(* (session_upload.go).  A file is the sequence of its bytes, a byte the   *)
(* number of the change that put it there.                                 *)
(***************************************************************************)
EXTENDS Naturals, Sequences, FiniteSets

CONSTANTS
  Syncers,          \* the sync workers and the callers of TriggerSync
  PartSize,         \* multipartPartSize
  MaxSyncRetries,
  WriteLength,      \* the bytes of one write
  MaxBytes,         \* bound: the size of the file
  MaxModifications, \* bound: changes
  MaxUploads        \* bound: multipart uploads created

VARIABLES
  inode,            \* inode[i]: the bytes of the staging file i
  ws,               \* the session: its file (fileGeneration), uploadReaders, lastWrite
  generation,       \* LocalDirtyGeneration, 0 when the file is clean
  nextGeneration,
  unmarked,         \* a change was made that is not marked dirty yet
  past,             \* what the file has been
  blob,           \* the bytes of the object
  parts,            \* parts[u]: the parts of the multipart upload u, none once it is over
  created,          \* how many multipart uploads there have been
  delayed,          \* the bytes of requests that failed and may still take effect
  sync,             \* sync[s]: the sync
  stopped,          \* Stop was called
  uploadBreach      \* what the code does not keep apart and has happened

uploadVars == <<inode, ws, generation, nextGeneration, unmarked, past, blob, parts, created,
                delayed, sync, stopped, uploadBreach>>
stagedVars == <<inode, ws, nextGeneration, unmarked, past>>
partVars == <<blob, parts, created, delayed>>

NoSync == [pc |-> "idle", gen |-> 0, file |-> 0, size |-> 0, written |-> 0, sent |-> 0,
           body |-> <<>>, upload |-> 0, attempt |-> 1, after |-> "idle"]

Lesser(m, n) == IF m < n THEN m ELSE n

UploadInit ==
  /\ inode = <<<<0>>>>
  /\ ws = [file |-> 1, readers |-> 0, lastWrite |-> 0]
  /\ generation = 0 /\ nextGeneration = 1 /\ unmarked = FALSE
  /\ past = {<<0>>}
  /\ blob = <<0>>
  /\ parts = <<>> /\ created = 0 /\ delayed = {}
  /\ sync = [s \in Syncers |-> NoSync]
  /\ stopped = FALSE
  /\ uploadBreach = {}

Content == inode[ws.file]

-----------------------------------------------------------------------------
\* Mutant: the session goes on in the file that the upload reads.
Detached_Never(bytes) ==
  /\ inode' = [inode EXCEPT ![ws.file] = bytes]
  /\ ws' = [ws EXCEPT !.lastWrite = @ + 1]

\* detachFromUploadsLocked: with an upload snapshot open the session goes on in a
\* new file, which no upload reads.
Detached(bytes) ==
  IF ws.readers = 0
  THEN /\ inode' = [inode EXCEPT ![ws.file] = bytes]
       /\ ws' = [ws EXCEPT !.lastWrite = @ + 1]
  ELSE /\ inode' = Append(inode, bytes)
       /\ ws' = [file |-> Len(inode) + 1, readers |-> 0, lastWrite |-> ws.lastWrite + 1]

\* What the file holds after a write at an offset.
Written(offset, byte) ==
  LET end == offset + WriteLength
  IN  [i \in 1..(IF end < Len(Content) THEN Len(Content) ELSE end) |->
         IF i > offset /\ i <= end THEN byte ELSE IF i <= Len(Content) THEN Content[i] ELSE 0]

WriteBytes(offset) ==
  /\ ~unmarked /\ ws.lastWrite < MaxModifications
  /\ Detached(Written(offset, ws.lastWrite + 1))
  /\ unmarked' = TRUE
  /\ past' = past \union {Content'}
  /\ UNCHANGED <<generation, nextGeneration, partVars, sync, stopped, uploadBreach>>

TruncateTo(size) ==
  /\ ~unmarked /\ ws.lastWrite < MaxModifications
  /\ size < Len(Content)
  /\ Detached(SubSeq(Content, 1, size))
  /\ unmarked' = TRUE
  /\ past' = past \union {Content'}
  /\ UNCHANGED <<generation, nextGeneration, partVars, sync, stopped, uploadBreach>>

\* MarkDirtyWithState and MarkDirtyAgain: every change gets a generation of its own.
MarkModified ==
  /\ unmarked
  /\ unmarked' = FALSE
  /\ generation' = nextGeneration
  /\ nextGeneration' = nextGeneration + 1
  /\ UNCHANGED <<inode, ws, past, partVars, sync, stopped, uploadBreach>>

-----------------------------------------------------------------------------
SyncGoes(s, pc) == sync' = [sync EXCEPT ![s].pc = pc]

\* The sync ends and its snapshot is closed: it holds the session's file no more,
\* unless the session has moved away from it.
SyncEnds(s) ==
  /\ sync' = [sync EXCEPT ![s] = NoSync]
  /\ ws' = IF sync[s].file = ws.file /\ ws.readers > 0 THEN [ws EXCEPT !.readers = @ - 1] ELSE ws

\* processDirtyFiles and TriggerSync only sync what is dirty; it may be clean again
\* once the sync has the lock.
SyncWaits(s) ==
  /\ ~stopped
  /\ sync[s].pc = "idle" /\ generation # 0
  /\ SyncGoes(s, "lock")
  /\ UNCHANGED <<stagedVars, generation, partVars, stopped, uploadBreach>>

\* lockObject: the syncs of a path take turns.
ObjectFree == \A s \in Syncers : sync[s].pc \in {"idle", "lock"}

\* The generation is read before the bytes are.
SyncBegins(s) ==
  /\ sync[s].pc = "lock" /\ ObjectFree
  /\ sync' = [sync EXCEPT ![s] = [NoSync EXCEPT !.pc = "open", !.gen = generation]]
  /\ UNCHANGED <<stagedVars, generation, partVars, stopped, uploadBreach>>

OpenUploadSnapshot(s) ==
  /\ sync[s].pc = "open"
  /\ ws' = [ws EXCEPT !.readers = @ + 1]
  /\ sync' = [sync EXCEPT ![s] = [@ EXCEPT !.file = ws.file, !.size = Len(Content),
                                           !.written = ws.lastWrite,
                                           !.pc = IF Len(Content) >= PartSize THEN "create" ELSE "put"]]
  /\ UNCHANGED <<inode, nextGeneration, unmarked, past, generation, partVars, stopped, uploadBreach>>

\* The next try, or the end of the sync after the last one.
SyncTriesAgain(s, pc) ==
  IF sync[s].attempt < MaxSyncRetries /\ ~stopped
  THEN /\ sync' = [sync EXCEPT ![s] = [@ EXCEPT !.pc = pc, !.attempt = @ + 1, !.sent = 0,
                                               !.body = <<>>]]
       /\ UNCHANGED ws
  ELSE SyncEnds(s)

\* A request may fail and have taken effect, or take effect later.
FailedYetDone(bytes) ==
  \/ UNCHANGED <<blob, delayed>>
  \/ blob' = bytes /\ UNCHANGED delayed
  \/ delayed' = delayed \union {bytes} /\ UNCHANGED blob

\* What is read of the snapshot's file.
SnapshotBytes(s, from, to) ==
  SubSeq(inode[sync[s].file], from, Lesser(to, Len(inode[sync[s].file])))

\* The body of a PUT is read while it is sent.
SendBody(s) ==
  /\ sync[s].pc = "put" /\ ~stopped
  /\ sync[s].sent < sync[s].size
  /\ sync' = [sync EXCEPT ![s] = [@ EXCEPT !.sent = @ + 1,
                !.body = @ \o SnapshotBytes(s, sync[s].sent + 1, sync[s].sent + 1)]]
  /\ UNCHANGED <<stagedVars, generation, partVars, stopped, uploadBreach>>

PutObjectStream(s) ==
  /\ sync[s].pc = "put" /\ ~stopped
  /\ sync[s].sent = sync[s].size
  /\ blob' = sync[s].body
  /\ SyncGoes(s, "clean")
  /\ UNCHANGED <<stagedVars, generation, parts, created, delayed, stopped, uploadBreach>>

\* Half a body has no effect.
PutObjectFails(s) ==
  /\ sync[s].pc = "put"
  /\ IF sync[s].sent = sync[s].size THEN FailedYetDone(sync[s].body) ELSE UNCHANGED <<blob, delayed>>
  /\ SyncTriesAgain(s, "put")
  /\ UNCHANGED <<inode, nextGeneration, unmarked, past, generation, parts, created, stopped, uploadBreach>>

CreateMultipartUpload(s) ==
  /\ sync[s].pc = "create" /\ ~stopped
  /\ created < MaxUploads
  /\ created' = created + 1
  /\ parts' = Append(parts, <<>>)
  /\ sync' = [sync EXCEPT ![s] = [@ EXCEPT !.pc = "parts", !.upload = created + 1, !.sent = 0]]
  /\ UNCHANGED <<stagedVars, generation, blob, delayed, stopped, uploadBreach>>

CreateFails(s) ==
  /\ sync[s].pc = "create"
  /\ SyncTriesAgain(s, "create")
  /\ UNCHANGED <<inode, nextGeneration, unmarked, past, generation, partVars, stopped, uploadBreach>>

\* One part is read from the snapshot and sent.
UploadPart(s) ==
  LET next == Lesser(sync[s].sent + PartSize, sync[s].size)
  IN  /\ sync[s].pc = "parts" /\ ~stopped
      /\ sync[s].sent < sync[s].size
      /\ parts' = [parts EXCEPT ![sync[s].upload] =
                     @ \o SnapshotBytes(s, sync[s].sent + 1, next)]
      /\ sync' = [sync EXCEPT ![s].sent = next]
      /\ UNCHANGED <<stagedVars, generation, blob, created, delayed, stopped, uploadBreach>>

\* AbortMultipartUpload follows whatever ends an upload that is not completed.
GivesUp(s, after) == sync' = [sync EXCEPT ![s] = [@ EXCEPT !.pc = "abort", !.after = after]]

UploadPartFails(s) ==
  /\ sync[s].pc = "parts"
  /\ sync[s].sent < sync[s].size
  /\ GivesUp(s, "create")
  /\ UNCHANGED <<stagedVars, generation, partVars, stopped, uploadBreach>>

\* isSnapshotCurrent: the session's size and last write, then the generation.
SnapshotCurrent(s) ==
  /\ Len(Content) = sync[s].size
  /\ ws.lastWrite = sync[s].written
  /\ generation \in {0, sync[s].gen}

CheckSnapshot(s) ==
  /\ sync[s].pc = "parts"
  /\ sync[s].sent = sync[s].size
  /\ IF SnapshotCurrent(s) THEN SyncGoes(s, "complete") ELSE GivesUp(s, "idle")
  /\ UNCHANGED <<stagedVars, generation, partVars, stopped, uploadBreach>>

CompleteMultipartUpload(s) ==
  /\ sync[s].pc = "complete" /\ ~stopped
  /\ blob' = parts[sync[s].upload]
  /\ parts' = [parts EXCEPT ![sync[s].upload] = <<>>]
  /\ SyncGoes(s, "clean")
  /\ UNCHANGED <<stagedVars, generation, created, delayed, stopped, uploadBreach>>

CompleteFails(s) ==
  /\ sync[s].pc = "complete"
  /\ FailedYetDone(parts[sync[s].upload])
  /\ GivesUp(s, "create")
  /\ UNCHANGED <<stagedVars, generation, parts, created, stopped, uploadBreach>>

\* The abort may fail, and does once the worker is stopped: nothing retries it.  An
\* upload that is aborted is completed no more.
AbortMultipartUpload(s) ==
  /\ sync[s].pc = "abort"
  /\ \/ /\ ~stopped
        /\ parts' = [parts EXCEPT ![sync[s].upload] = <<>>]
        /\ delayed' = delayed \ {parts[sync[s].upload]}
        /\ UNCHANGED uploadBreach
     \/ /\ uploadBreach' = uploadBreach \union {"orphan"}
        /\ UNCHANGED <<parts, delayed>>
  /\ IF sync[s].after = "create" THEN SyncTriesAgain(s, "create") ELSE SyncEnds(s)
  /\ UNCHANGED <<inode, nextGeneration, unmarked, past, generation, blob, created, stopped>>

\* markCleanIfUnchanged.
CleanIfUnchanged(s) ==
  generation' = IF generation = sync[s].gen THEN 0 ELSE generation

SyncMarksFile(s) ==
  /\ sync[s].pc = "clean"
  /\ CleanIfUnchanged(s)
  /\ SyncEnds(s)
  /\ UNCHANGED <<inode, nextGeneration, unmarked, past, partVars, stopped, uploadBreach>>

\* A request that had failed takes effect after all.
TakesEffectLate(bytes) ==
  /\ bytes \in delayed
  /\ blob' = bytes
  /\ delayed' = delayed \ {bytes}
  /\ uploadBreach' = uploadBreach \union (IF blob = bytes THEN {} ELSE {"late"})
  /\ UNCHANGED <<stagedVars, generation, parts, created, sync, stopped>>

\* Stop cancels the requests that are under way, and every later one.
StopSyncing ==
  /\ ~stopped
  /\ stopped' = TRUE
  /\ UNCHANGED <<stagedVars, generation, partVars, sync, uploadBreach>>

UploadNext ==
  \/ \E offset \in 0..(MaxBytes - WriteLength) : WriteBytes(offset)
  \/ \E size \in 0..(MaxBytes - 1) : TruncateTo(size)
  \/ MarkModified
  \/ \E s \in Syncers :
       \/ SyncWaits(s) \/ SyncBegins(s) \/ OpenUploadSnapshot(s)
       \/ SendBody(s) \/ PutObjectStream(s) \/ PutObjectFails(s)
       \/ CreateMultipartUpload(s) \/ CreateFails(s)
       \/ UploadPart(s) \/ UploadPartFails(s) \/ CheckSnapshot(s)
       \/ CompleteMultipartUpload(s) \/ CompleteFails(s) \/ AbortMultipartUpload(s)
       \/ SyncMarksFile(s)
  \/ \E bytes \in delayed : TakesEffectLate(bytes)
  \/ StopSyncing

-----------------------------------------------------------------------------
\* The object is at every moment the whole of one state the file was in, never a mix
\* of two, and the state it is in now when the file is marked clean: writes and
\* truncations during the upload, tries that failed half way and tries that only
\* seemed to fail make no difference.
UploadedWhole ==
  /\ blob \in past
  /\ uploadBreach = {} /\ generation = 0 /\ ~unmarked => blob = Content

=============================================================================
