----------------------------- MODULE DataReads -----------------------------
(***************************************************************************)
(* Reads of a file (Read and ReadAt of internal/vfs/filesystem.go, with    *)
(* readRangeWithCache of internal/posix/operations.go) against the writes, *)
(* the uploads and the invalidations of the same file.                     *)
(*                                                                         *)
(* The file's contents are versions, in the order they were written.  A    *)
(* handle that found staged bytes when it was opened reads those; any      *)
(* other reads chunks of the object, from the cache or from the bucket.    *)
(* Nothing keeps a chunk that was fetched before an upload out of the      *)
(* cache after it: there is a fence for the metadata and none for data.    *)
(***************************************************************************)
EXTENDS DataCache

CONSTANTS
  Readers,          \* the handles that read the file
  Chunks,           \* the chunks of the file, 1..n; the other keys are another file's
  MaxVersion        \* bound: how many versions are written

VARIABLES
  bucketVersion,    \* the version of the object
  stagedVersion,    \* the version staged, 0 without a session
  accepted,         \* the last version a client wrote
  announced,        \* the last version whose upload the caches were told of
  upload,           \* the upload under way
  reader,           \* reader[r]: the handle, and the read it is in the middle of
  flight,           \* flight[k]: the fetch of chunk k under way (singleflight)
  readBreach        \* what the code does not keep apart and has happened

readVars == <<chunkCache, bucketVersion, stagedVersion, accepted, announced, upload, reader,
              flight, readBreach>>

Closed == [pc |-> "closed", staged |-> FALSE, floor |-> 0, first |-> 1, last |-> 1,
           at |-> 1, missing |-> {}, got |-> [k \in Chunks |-> 0]]

NoFlight == [pc |-> "none", value |-> 0, late |-> FALSE, waiters |-> {}]

NoUpload == [pc |-> "idle", version |-> 0, stale |-> FALSE]

ReadError == 0 - 1

ReadsInit ==
  /\ chunkCache = EmptyChunkCache
  /\ bucketVersion = 1 /\ stagedVersion = 0 /\ accepted = 1 /\ announced = 1
  /\ upload = NoUpload
  /\ reader = [r \in Readers |-> Closed]
  /\ flight = [k \in Chunks |-> NoFlight]
  /\ readBreach = {}

fileVars == <<bucketVersion, stagedVersion, accepted, announced, upload>>

-----------------------------------------------------------------------------
(* The writer and the sync worker.                                         *)

WriteFile ==
  /\ accepted < MaxVersion
  /\ accepted' = accepted + 1
  /\ stagedVersion' = accepted + 1
  /\ upload' = [upload EXCEPT !.stale = upload.pc # "idle"]
  /\ UNCHANGED <<chunkCache, bucketVersion, announced, reader, flight, readBreach>>

UploadStart ==
  /\ upload.pc = "idle" /\ stagedVersion > bucketVersion
  /\ upload' = [NoUpload EXCEPT !.pc = "put", !.version = stagedVersion]
  /\ UNCHANGED <<chunkCache, bucketVersion, stagedVersion, accepted, announced, reader, flight, readBreach>>

\* The upload, which may fail.  The caches are told when the file is clean.
UploadPut ==
  /\ upload.pc = "put"
  /\ \/ /\ bucketVersion' = upload.version
        /\ upload' = IF upload.stale THEN NoUpload ELSE [upload EXCEPT !.pc = "drop"]
     \/ /\ upload' = NoUpload
        /\ UNCHANGED bucketVersion
  /\ UNCHANGED <<chunkCache, stagedVersion, accepted, announced, reader, flight, readBreach>>

\* Mutant: the chunks stay, only the whole object's entry goes.
DeleteObject_WholeOnly(d) == d

\* DeleteObject drops the whole object's entry (there is none while files are
\* staged) and then, in a critical section of its own, the chunks.
DeleteObject(d) == Dropped(d, Chunks \intersect Indexed(d))

InvalidateDataPath ==
  /\ upload.pc = "drop"
  /\ chunkCache' = DeleteObject(chunkCache)
  /\ announced' = upload.version
  /\ flight' = [k \in Chunks |-> [flight[k] EXCEPT !.late = flight[k].pc = "fetched"]]
  /\ upload' = [upload EXCEPT !.pc = "release"]
  /\ UNCHANGED <<bucketVersion, stagedVersion, accepted, reader, readBreach>>

\* cleanupSyncedSession: not while a handle has the session, and not when the
\* file was written again.
ReleaseSession ==
  /\ upload.pc = "release"
  /\ upload' = NoUpload
  /\ stagedVersion' = IF upload.stale \/ \E r \in Readers : reader[r].staged THEN stagedVersion ELSE 0
  /\ UNCHANGED <<chunkCache, bucketVersion, accepted, announced, reader, flight, readBreach>>

-----------------------------------------------------------------------------
(* Handles.                                                                *)

Moves(r, h) == reader' = [reader EXCEPT ![r] = h]

\* A read through the handle must not return less than was accepted before the
\* open.
OpenForRead(r) ==
  /\ reader[r].pc = "closed"
  /\ Moves(r, [Closed EXCEPT !.pc = "open", !.staged = stagedVersion # 0, !.floor = accepted])
  /\ UNCHANGED <<chunkCache, fileVars, flight, readBreach>>

CloseReader(r) ==
  /\ reader[r].pc = "open"
  /\ Moves(r, Closed)
  /\ UNCHANGED <<chunkCache, fileVars, flight, readBreach>>

\* A staged file answers from the session; for the others the warm path comes
\* first.  What was announced before the read must be read as well.
ReadAt(r, first, last) ==
  LET h == [reader[r] EXCEPT !.first = first, !.last = last, !.at = first, !.missing = {},
                             !.floor = IF announced > @ THEN announced ELSE @]
  IN  /\ reader[r].pc = "open"
      /\ first <= last
      /\ Moves(r, IF h.staged
                  THEN [h EXCEPT !.pc = "done",
                          !.got = [k \in Chunks |-> IF k \in first..last THEN stagedVersion ELSE 0]]
                  ELSE [h EXCEPT !.pc = "warm", !.got = [k \in Chunks |-> 0]])
      /\ UNCHANGED <<chunkCache, fileVars, flight, readBreach>>

ReadReturns(r) ==
  /\ reader[r].pc = "done"
  /\ Moves(r, [Closed EXCEPT !.pc = "open", !.staged = reader[r].staged, !.floor = reader[r].floor])
  /\ UNCHANGED <<chunkCache, fileVars, flight, readBreach>>

\* Where a read goes on after the chunk it is at: the next one, or what follows
\* the last.  A miss of the warm path starts over, gathering.
NextChunk(h) ==
  IF h.at < h.last THEN [h EXCEPT !.at = @ + 1]
  ELSE IF h.missing = {} THEN [h EXCEPT !.pc = "done"] ELSE [h EXCEPT !.pc = "ahead"]

Missed(h) ==
  IF h.pc = "warm" THEN [h EXCEPT !.pc = "gather", !.at = h.first, !.got = [k \in Chunks |-> 0]]
  ELSE NextChunk([h EXCEPT !.missing = @ \union {h.at}])

\* Read of the data cache: the index under the lock,
LookUpChunk(r) ==
  LET h == reader[r]
  IN  /\ h.pc \in {"warm", "gather"}
      /\ IF Fresh(chunkCache, h.at)
         THEN /\ chunkCache' = Used(chunkCache, h.at)
              /\ Moves(r, [h EXCEPT !.pc = IF @ = "warm" THEN "warmfile" ELSE "gatherfile"])
         ELSE Moves(r, Missed(h)) /\ UNCHANGED chunkCache
      /\ UNCHANGED <<fileVars, flight, readBreach>>

\* and then the file, without it: a file that went in between takes the entry
\* with it, also one that was made since.
ReadChunkFile(r) ==
  LET h == [reader[r] EXCEPT !.pc = IF @ = "warmfile" THEN "warm" ELSE "gather"]
      v == chunkCache.file[h.at]
  IN  /\ reader[r].pc \in {"warmfile", "gatherfile"}
      /\ IF v # 0
         THEN /\ Moves(r, NextChunk([h EXCEPT !.got[h.at] = v]))
              /\ UNCHANGED chunkCache
         ELSE /\ Moves(r, Missed(h))
              /\ chunkCache' = Dropped(chunkCache, {h.at} \intersect Indexed(chunkCache))
      /\ UNCHANGED <<fileVars, flight, readBreach>>

\* Read-ahead: chunks past the request that the index does not have, as far as
\* the window and the size in the metadata cache allow.
ReadAhead(r, upto) ==
  LET h == reader[r]
  IN  /\ h.pc = "ahead"
      /\ upto >= h.last
      /\ Moves(r, [h EXCEPT !.pc = "fetch",
                     !.missing = @ \union {k \in (h.last + 1)..upto : ~Fresh(chunkCache, k)}])
      /\ UNCHANGED <<chunkCache, fileVars, flight, readBreach>>

\* fetchChunkSingleflight: a fetch of the chunk that is under way is shared, one
\* that began before the last announcement too.
FetchChunk(r, k) ==
  /\ reader[r].pc = "fetch" /\ k \in reader[r].missing
  /\ r \notin flight[k].waiters
  /\ flight' = [flight EXCEPT ![k].waiters = @ \union {r},
                              ![k].pc = IF @ = "none" THEN "check" ELSE @]
  /\ readBreach' = readBreach \union (IF flight[k].late THEN {"joined"} ELSE {})
  /\ UNCHANGED <<chunkCache, fileVars, reader>>

\* Every waiter gets the chunk; a read is over when it has them all.  An error
\* fails it if the chunk was asked for.
Delivered(k, v) ==
  [r \in Readers |->
     IF r \notin flight[k].waiters THEN reader[r]
     ELSE LET h == [reader[r] EXCEPT !.missing = @ \ {k}, !.got[k] = v]
          IN  IF h.missing = {} THEN [h EXCEPT !.pc = "done"] ELSE h]

FlightCheck(k) ==
  /\ flight[k].pc = "check"
  /\ IF Fresh(chunkCache, k) /\ chunkCache.file[k] # 0
     THEN /\ chunkCache' = Used(chunkCache, k)
          /\ reader' = Delivered(k, chunkCache.file[k])
          /\ flight' = [flight EXCEPT ![k] = NoFlight]
     ELSE /\ flight' = [flight EXCEPT ![k].pc = "get"]
          /\ UNCHANGED <<chunkCache, reader>>
  /\ UNCHANGED <<fileVars, readBreach>>

\* GetObjectRange, which may fail.
FlightGet(k) ==
  /\ flight[k].pc = "get"
  /\ \/ flight' = [flight EXCEPT ![k].pc = "fetched", ![k].value = bucketVersion]
     \/ flight' = [flight EXCEPT ![k].pc = "failed", ![k].value = ReadError]
  /\ UNCHANGED <<chunkCache, fileVars, reader, readBreach>>

\* WriteChunk, and the answer to the readers that wait for it.
FlightStore(k) ==
  /\ flight[k].pc \in {"fetched", "failed"}
  /\ IF flight[k].pc = "fetched"
     THEN /\ chunkCache' = Cached(chunkCache, k, flight[k].value)
          /\ readBreach' = readBreach \union (IF flight[k].late THEN {"unfenced"} ELSE {})
                             \union (IF \E r \in Readers : reader[r].at = k /\ reader[r].pc \in {"warmfile", "gatherfile"}
                                     THEN {"torn"} ELSE {})
     ELSE UNCHANGED <<chunkCache, readBreach>>
  /\ reader' = Delivered(k, flight[k].value)
  /\ flight' = [flight EXCEPT ![k] = NoFlight]
  /\ UNCHANGED fileVars

-----------------------------------------------------------------------------
(* The rest of the cache's life.                                           *)

CacheOther(k) ==
  /\ k \in CacheKeys \ Chunks
  /\ chunkCache' = Cached(chunkCache, k, 1)
  /\ UNCHANGED <<fileVars, reader, flight, readBreach>>

ChunkExpires(k) ==
  /\ Fresh(chunkCache, k)
  /\ chunkCache' = Expired(chunkCache, k)
  /\ UNCHANGED <<fileVars, reader, flight, readBreach>>

\* The process dies and starts again: the staged bytes and the chunk files stay.
ReadsRestart ==
  /\ chunkCache' = Restarted(chunkCache)
  /\ upload' = NoUpload
  /\ reader' = [r \in Readers |-> Closed]
  /\ flight' = [k \in Chunks |-> NoFlight]
  /\ UNCHANGED <<bucketVersion, stagedVersion, accepted, announced, readBreach>>

ReadsNext ==
  \/ WriteFile \/ UploadStart \/ UploadPut \/ InvalidateDataPath \/ ReleaseSession
  \/ \E r \in Readers :
       \/ OpenForRead(r) \/ CloseReader(r) \/ ReadReturns(r) \/ LookUpChunk(r) \/ ReadChunkFile(r)
       \/ \E first, last \in Chunks : ReadAt(r, first, last)
       \/ \E k \in Chunks : ReadAhead(r, k) \/ FetchChunk(r, k)
  \/ \E k \in Chunks : FlightCheck(k) \/ FlightGet(k) \/ FlightStore(k)
  \/ \E k \in CacheKeys : CacheOther(k) \/ ChunkExpires(k)
  \/ ReadsRestart

-----------------------------------------------------------------------------
\* Every chunk a read returns is of a version no older than the last one that
\* was accepted before the handle was opened, and no older than the last one
\* whose upload was announced before the read began: whichever of the session,
\* the cache, another reader's fetch or the bucket it came from.
ReadsSeeOwnChanges ==
  readBreach = {} =>
    \A r \in Readers : reader[r].pc = "done" =>
      \A k \in reader[r].first..reader[r].last :
        reader[r].got[k] # ReadError => reader[r].got[k] >= reader[r].floor

=============================================================================
