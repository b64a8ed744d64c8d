------------------------------ MODULE WriteBack ------------------------------
(***************************************************************************)
(* The write-back core of the gateway: protocol clients that open, write,  *)
(* truncate, close and remove files through internal/vfs/filesystem.go,    *)
(* the sync workers of internal/staging/sync_worker.go that upload staged  *)
(* files and carry out accepted deletes, the bucket, and a crash of the    *)
(* gateway process at any point followed by RecoverFromDisk.               *)
(*                                                                         *)
(* A client and a worker are processes.  A step is what the code does      *)
(* under one lock, or one request to the object store; between two steps   *)
(* of one process any other process may run.  A request takes effect when  *)
(* the step is taken; one that fails may or may not have taken effect.     *)
(***************************************************************************)
EXTENDS StagingManager

CONSTANTS
  Clients,          \* concurrent file operations of NFS and SMB clients
  Workers,          \* sync worker goroutines (staging.sync_worker_count)
  Modes,            \* open modes clients use, a subset of OpenModes
  CleanAfterSync,   \* staging.clean_after_sync
  NoPath,           \* the path of a process that has none
  MaxOpens,         \* bound: how many times clients open a file for writing
  MaxRemoves,       \* bound: how many removes clients start
  MaxCrashes        \* bound: how many times the gateway crashes

\* "keep" is O_RDWR, "create" O_RDWR|O_CREATE, "trunc" O_RDWR|O_CREATE|O_TRUNC.
OpenModes == {"keep", "create", "trunc"}

ASSUME ConstantsAssumption ==
  /\ Modes \subseteq OpenModes
  /\ CleanAfterSync \in BOOLEAN
  /\ NoPath \notin Paths
  /\ MaxOpens \in Nat /\ MaxRemoves \in Nat /\ MaxCrashes \in Nat

VARIABLES
  objects,          \* keys present in the bucket
  cos,              \* cos[p]: the bytes of p's object
  client,           \* client[c]: what c is doing
  worker,           \* worker[w]: what w is doing
  writes,           \* writes made so far
  opens, removes, crashes,    \* how much of each bound is used
  \* History, written and never read by the system:
  promised,         \* promised[p]: accepted writes the file must still contain
  deleted,          \* deleted[p]: writes of files whose delete was accepted
  breach            \* breach[p]: events on p after which nothing is claimed

storeVars == <<objects, cos>>
countVars == <<writes, opens, removes, crashes>>
ghostVars == <<promised, deleted, breach>>
vars == <<indexVars, managerVars, storeVars, client, worker, countVars, ghostVars>>

-----------------------------------------------------------------------------
OpenSteps   == {"get", "stat", "fetch", "fetching", "discard", "unlink",
                "trunc", "marktrunc", "open", "mark"}
RemoveSteps == {"rmstat", "rmobject", "rmtomb", "rmlock", "rmdiscard",
                "rmunlock", "rmdelete", "rmresolve", "rmcheck", "rmclean"}

\* pend is the HasPendingDelete an open started from; live is whether the
\* handle's session is still the one in the manager; got is what a prefetch
\* downloads; w is the write being accepted, 0 when nothing is promised for
\* it.  loose marks an operation that overlaps a remove of the same path.
Client == [pc: {"idle"} \union OpenSteps \union RemoveSteps,
           path: Paths \union {NoPath}, mode: OpenModes \union {"none"},
           pend: BOOLEAN, live: BOOLEAN, got: Bytes, w: WriteIds, loose: BOOLEAN]

IdleClient == [pc |-> "idle", path |-> NoPath, mode |-> "none", pend |-> FALSE,
               live |-> FALSE, got |-> {}, w |-> 0, loose |-> FALSE]

DeleteSteps == {"dclaim", "ddiscard", "ddelete", "dresolve", "dunlock"}
UploadSteps == {"uclaim", "ucheck", "ulock", "usession", "uforget", "ugeneration",
                "usnapshot", "uput", "uclean", "ucleanup", "uunlock"}

\* gen and snap are the generation and the bytes an upload started from,
\* reading is whether its snapshot still counts in uploadReaders.
Worker == [pc: {"idle"} \union DeleteSteps \union UploadSteps,
           path: Paths \union {NoPath}, gen: Nat, snap: Bytes,
           live: BOOLEAN, reading: BOOLEAN]

IdleWorker == [pc |-> "idle", path |-> NoPath, gen |-> 0, snap |-> {},
               live |-> FALSE, reading |-> FALSE]

Breaches == {"claim", "crash", "unlink", "fetch", "forget", "strand", "reuse",
             "unrecorded", "refs", "stale", "cleanup"}

TypeOK ==
  /\ IndexTypeOK
  /\ ManagerTypeOK
  /\ objects \subseteq Paths
  /\ cos \in [Paths -> Bytes]
  /\ client \in [Clients -> Client]
  /\ worker \in [Workers -> Worker]
  /\ writes \in 0..MaxWrites
  /\ opens \in 0..MaxOpens
  /\ removes \in 0..MaxRemoves
  /\ crashes \in 0..MaxCrashes
  /\ promised \in [Paths -> Bytes]
  /\ deleted \in [Paths -> Bytes]
  /\ breach \in [Paths -> SUBSET Breaches]

\* Any set of objects may be in the bucket when the gateway first starts.
Init ==
  /\ IndexInit
  /\ ManagerInit
  /\ objects \in SUBSET Paths
  /\ cos = [p \in Paths |-> IF p \in objects THEN {0} ELSE {}]
  /\ client = [c \in Clients |-> IdleClient]
  /\ worker = [w \in Workers |-> IdleWorker]
  /\ writes = 0 /\ opens = 0 /\ removes = 0 /\ crashes = 0
  /\ promised = cos
  /\ deleted = [p \in Paths |-> {}]
  /\ breach = [p \in Paths |-> {}]

-----------------------------------------------------------------------------
\* Helpers.
On(p) == {c \in Clients : client[c].path = p}

Step(c, pc) == client' = [client EXCEPT ![c].pc = pc]

Finish(c) == client' = [client EXCEPT ![c] = IdleClient]

StepWorker(w, pc) == worker' = [worker EXCEPT ![w].pc = pc]

FinishWorker(w) == worker' = [worker EXCEPT ![w] = IdleWorker]

\* Prefetch holds its session's mutex until the download is in.
Fetching(p) == \E c \in On(p) : client[c].pc = "fetching" /\ client[c].live

UploadReading(p) == \E w \in Workers : worker[w].path = p /\ worker[w].reading

\* detachFromUploadsLocked: no snapshot is of the current staging file now.
Unread(p) ==
  [w \in Workers |->
    IF worker[w].path = p THEN [worker[w] EXCEPT !.reading = FALSE] ELSE worker[w]]

\* What processes hold once the session of p has left the manager.
Orphan(procs, p) ==
  [q \in DOMAIN procs |->
    IF procs[q].path = p THEN [procs[q] EXCEPT !.live = FALSE] ELSE procs[q]]

\* A handle whose session is gone gives back a reference of its successor.
ReleasesAnother(c) ==
  ~client[c].live /\ session[client[c].path].refs > 0

Flag(p, kinds) == breach' = [breach EXCEPT ![p] = @ \union kinds]

\* Processes that claimed p and still have to act on its staged bytes or its
\* object.  A client's inline delete runs after its claim is given up.
AtObject(p) ==
  {c \in On(p) : \/ client[c].pc \in {"rmdiscard", "rmdelete", "rmresolve"}
                 \/ client[c].pc = "rmunlock" /\ client[c].mode = "none"}
  \union {w \in Workers : worker[w].path = p /\
            worker[w].pc \notin {"idle", "dclaim", "dunlock", "uclaim", "ucleanup", "uunlock"}}

\* Processes whose delete of p's object is under way or not yet noted.
Deleting(p) ==
  {c \in On(p) : client[c].pc \in {"rmdelete", "rmresolve"}}
  \union {w \in Workers : worker[w].path = p /\ worker[w].pc \in {"ddelete", "dresolve"}}

Accept(c) ==
  IF client[c].loose \/ client[c].w = 0
  THEN UNCHANGED promised
  ELSE promised' = [promised EXCEPT ![client[c].path] = @ \union {client[c].w}]

-----------------------------------------------------------------------------
\* OpenFile up to the pending delete check.  Removes and opens that overlap
\* promise nothing about each other; a truncating open gives up the content.
OpenFile(c, p, mode) ==
  LET removing == \E d \in On(p) : client[d].pc \in RemoveSteps
  IN  /\ client[c].pc = "idle"
      /\ opens < MaxOpens
      /\ opens' = opens + 1
      /\ mode = "keep" => ~HasPendingDelete(p)
      /\ client' = [d \in Clients |->
           IF d = c
           THEN [IdleClient EXCEPT !.pc = "get", !.path = p, !.mode = mode,
                                   !.pend = HasPendingDelete(p), !.loose = removing]
           ELSE IF client[d].path = p /\ client[d].pc \in RemoveSteps
           THEN [client[d] EXCEPT !.loose = TRUE] ELSE client[d]]
      /\ promised' = IF mode = "trunc" THEN [promised EXCEPT ![p] = {}] ELSE promised
      /\ UNCHANGED <<indexVars, managerVars, storeVars, worker, writes, removes,
                     crashes, deleted, breach>>

\* An open that does not truncate withdraws the delete of a file whose session,
\* kept while an upload of it is in flight, is still there.
ReusesDeleted(p, mode) ==
  HasPendingDelete(p) /\ mode # "trunc" /\ session[p].open

\* The delete has been withdrawn, nothing was written in its place, and the
\* deleted file's object is still in the bucket.
Undeletes(p) == session[p].open /\ ~session[p].dirty /\ cos[p] \intersect deleted[p] # {}

\* Bytes left under the name without a sidecar are taken over, whatever the
\* file holds by now.
AdoptsStranded(p) ==
  /\ ~session[p].open /\ p \in files \ sidecars
  /\ disk[p] # IF HasPendingDelete(p) THEN {} ELSE cos[p]

GetSession(c) ==
  LET p == client[c].path
      carries == IF session[p].open THEN CarriesData(p) ELSE disk[p] # {}
  IN  /\ client[c].pc = "get"
      /\ GetOrCreateSession(p)
      /\ client' = [client EXCEPT ![c].live = TRUE,
           ![c].pc = IF ~carries THEN "stat"
                     ELSE IF client[c].mode = "trunc" THEN "trunc" ELSE "open"]
      /\ Flag(p, (IF ReusesDeleted(p, client[c].mode) THEN {"reuse"} ELSE {})
                 \union (IF AdoptsStranded(p) THEN {"strand"} ELSE {}))
      /\ UNCHANGED <<indexVars, storeVars, worker, countVars, promised, deleted>>

\* The delete the open saw pending is over, and the object is a newer file's.
StaleDelete(c) ==
  LET p == client[c].path
  IN  client[c].pend /\ p \in objects /\ cos[p] \intersect deleted[p] = {}

\* Mutant: the object's content is never fetched.
StatObject_NoFetch(c) ==
  /\ client[c].pc = "stat"
  /\ Step(c, IF client[c].mode = "trunc" THEN "trunc" ELSE "open")
  /\ UNCHANGED <<indexVars, managerVars, storeVars, worker, countVars, ghostVars>>

\* The existence check.  Failing, it only lets through opens that do not need
\* the object's content.
StatObject(c) ==
  LET p == client[c].path
      ready == IF client[c].mode = "trunc" THEN "trunc" ELSE "open"
  IN  /\ client[c].pc = "stat"
      /\ \/ Step(c, IF p \in objects /\ ~client[c].pend /\ client[c].mode # "trunc"
                    THEN "fetch" ELSE ready)
         \/ Step(c, IF client[c].mode # "trunc" /\ ~client[c].pend
                    THEN "discard" ELSE ready)
      /\ Flag(p, IF StaleDelete(c) THEN {"stale"} ELSE {})
      /\ UNCHANGED <<indexVars, managerVars, storeVars, worker, countVars, promised, deleted>>

-----------------------------------------------------------------------------
\* Prefetch, up to the GET's answer: nothing is left to fetch, the GET fails,
\* or the staging file is opened by name and emptied.  Only Prefetched is
\* looked at, and the file is opened even if the session has been removed.
FetchStart(c) ==
  LET p == client[c].path
      fetched == client[c].live /\ session[p].prefetched
      detach == client[c].live /\ UploadReading(p)
  IN  /\ client[c].pc = "fetch"
      /\ ~Fetching(p)
      /\ \/ /\ Step(c, IF fetched THEN "open" ELSE "discard")
            /\ UNCHANGED <<managerVars, worker, breach>>
         \/ /\ ~fetched /\ p \in objects
            /\ DownloadToFile(p, {}, detach, FALSE)
            /\ worker' = IF detach THEN Unread(p) ELSE worker
            /\ client' = [client EXCEPT ![c].pc = "fetching", ![c].got = cos[p]]
            /\ Flag(p, (IF session[p].dirty \/ ~client[c].live THEN {"fetch"} ELSE {})
                       \union (IF Undeletes(p) THEN {"reuse"} ELSE {}))
      /\ UNCHANGED <<indexVars, storeVars, countVars, promised, deleted>>

\* The download is in, or breaks off and what came of it is cut off again.
FetchEnd(c) ==
  LET p == client[c].path
  IN  /\ client[c].pc = "fetching"
      /\ \/ /\ DownloadToFile(p, client[c].got, FALSE, client[c].live)
            /\ client' = [client EXCEPT ![c].pc = "open", ![c].got = {}]
         \/ /\ client' = [client EXCEPT ![c].pc = "discard", ![c].got = {}]
            /\ UNCHANGED managerVars
      /\ UNCHANGED <<indexVars, storeVars, worker, countVars, ghostVars>>

\* A refused open gives its reference back.  The manager waits for a prefetch
\* of the session before it decides.
Discard(c) ==
  LET p == client[c].path
  IN  /\ client[c].pc = "discard"
      /\ DiscardsSession(p) => ~Fetching(p)
      /\ ReleaseSessionDiscardingIfEmpty(p)
      /\ IF DiscardsSession(p)
         THEN /\ client' = [Orphan(client, p) EXCEPT ![c].pc = "unlink"]
              /\ worker' = Orphan(Unread(p), p)
         ELSE Finish(c) /\ UNCHANGED worker
      /\ Flag(p, IF ReleasesAnother(c) THEN {"refs"} ELSE {})
      /\ UNCHANGED <<indexVars, storeVars, countVars, promised, deleted>>

Unlink(c) ==
  LET p == client[c].path
  IN  /\ client[c].pc = "unlink"
      /\ RemoveStagingFiles(p)
      /\ Finish(c)
      /\ Flag(p, IF session[p].open THEN {"unlink"} ELSE {})
      /\ UNCHANGED <<indexVars, storeVars, worker, countVars, promised, deleted>>

-----------------------------------------------------------------------------
\* An O_TRUNC open, or SetAttr with size zero on an open handle.  Nothing
\* written before must survive it; a removed session refuses.
Truncate(c) ==
  LET p == client[c].path
  IN  /\ client[c].pc = "trunc" \/ (client[c].pc = "open" /\ writes < MaxWrites)
      /\ ~Fetching(p)
      /\ writes' = IF client[c].pc = "open" THEN writes + 1 ELSE writes
      /\ IF client[c].live
         THEN /\ SetBytes(p, {}, UploadReading(p))
              /\ worker' = Unread(p)
              /\ client' = [d \in Clients |->
                   IF d = c
                   THEN [client[d] EXCEPT !.w = 0,
                          !.pc = IF @ = "trunc" THEN "marktrunc" ELSE "mark"]
                   ELSE IF client[d].path = p THEN [client[d] EXCEPT !.w = 0]
                   ELSE client[d]]
              /\ promised' = [promised EXCEPT ![p] = {}]
         ELSE /\ IF client[c].pc = "trunc" THEN Finish(c) ELSE UNCHANGED client
              /\ UNCHANGED <<managerVars, worker, promised>>
      /\ UNCHANGED <<indexVars, storeVars, opens, removes, crashes, deleted, breach>>

\* writeLocked: the bytes first, the dirty entry after.
Write(c) ==
  LET p == client[c].path
  IN  /\ client[c].pc = "open" /\ writes < MaxWrites
      /\ ~Fetching(p)
      /\ writes' = writes + 1
      /\ IF client[c].live
         THEN /\ SetBytes(p, session[p].bytes \union {writes + 1}, UploadReading(p))
              /\ worker' = Unread(p)
              /\ client' = [client EXCEPT ![c].pc = "mark", ![c].w = writes + 1]
         ELSE UNCHANGED <<managerVars, worker, client>>
      /\ UNCHANGED <<indexVars, storeVars, opens, removes, crashes, ghostVars>>

\* MarkDirty returns nil: the write is accepted, the truncating open done.
MarkDirty(c) ==
  LET p == client[c].path
  IN  /\ client[c].pc \in {"mark", "marktrunc"}
      /\ IF CanMarkDirtyAgain(p)
         THEN MarkDirtyAgain(p) /\ UNCHANGED sidecars
         ELSE MarkDirtyWithState(p, TRUE) /\ sidecars' = sidecars \union {p}
      /\ client' = [client EXCEPT ![c].pc = "open", ![c].w = 0]
      /\ Accept(c)
      /\ UNCHANGED <<session, files, disk, tombstones, storeVars, worker, countVars,
                     deleted, breach>>

\* The sidecar cannot be written: the path is queued all the same, and the
\* client gets an error.
MarkDirtyFails(c) ==
  LET p == client[c].path
  IN  /\ client[c].pc \in {"mark", "marktrunc"}
      /\ ~CanMarkDirtyAgain(p)
      /\ MarkDirtyWithState(p, FALSE)
      /\ IF client[c].pc = "mark"
         THEN /\ client' = [client EXCEPT ![c].pc = "open", ![c].w = 0]
              /\ UNCHANGED managerVars
         ELSE Finish(c) /\ ReleaseSession(p)
      /\ Flag(p, IF client[c].pc = "mark" THEN {}
                 ELSE {"unrecorded"} \union (IF ReleasesAnother(c) THEN {"refs"} ELSE {}))
      /\ UNCHANGED <<storeVars, worker, countVars, promised, deleted>>

Close(c) ==
  /\ client[c].pc = "open"
  /\ ReleaseSession(client[c].path)
  /\ Finish(c)
  /\ Flag(client[c].path, (IF ReleasesAnother(c) THEN {"refs"} ELSE {})
                          \union (IF Undeletes(client[c].path) THEN {"reuse"} ELSE {}))
  /\ UNCHANGED <<indexVars, storeVars, worker, countVars, promised, deleted>>

ClientOpen(c) ==
  \/ \E p \in Paths, mode \in Modes : OpenFile(c, p, mode)
  \/ GetSession(c) \/ StatObject(c) \/ FetchStart(c) \/ FetchEnd(c)
  \/ Discard(c) \/ Unlink(c)
  \/ Truncate(c) \/ Write(c) \/ MarkDirty(c) \/ MarkDirtyFails(c) \/ Close(c)

-----------------------------------------------------------------------------
\* Requests to the object store.
PutObject(p, b) ==
  /\ objects' = objects \union {p}
  /\ cos' = [cos EXCEPT ![p] = b]

DeleteObject(p) ==
  /\ objects' = objects \ {p}
  /\ cos' = [cos EXCEPT ![p] = {}]

\* remove returns nil: the delete is accepted.
Removed(c) ==
  /\ Finish(c)
  /\ deleted' = IF client[c].loose THEN deleted
                ELSE [deleted EXCEPT ![client[c].path] = 0..writes]

\* remove, up to the choice between a dirty staged file and anything else.
\* mode is "none" for the first, "keep" for the second.
RemoveFile(c, p) ==
  LET opening == \E d \in On(p) : client[d].pc \in OpenSteps
  IN  /\ client[c].pc = "idle"
      /\ removes < MaxRemoves
      /\ removes' = removes + 1
      /\ client' = [d \in Clients |->
           IF d = c
           THEN [IdleClient EXCEPT !.path = p, !.loose = opening,
                  !.pc = IF IsDirty(p) THEN "rmtomb" ELSE "rmstat",
                  !.mode = IF IsDirty(p) THEN "none" ELSE "keep"]
           ELSE IF client[d].path = p THEN [client[d] EXCEPT !.loose = TRUE]
           ELSE client[d]]
      /\ promised' = [promised EXCEPT ![p] = {}]
      /\ UNCHANGED <<indexVars, managerVars, storeVars, worker, writes, opens,
                     crashes, deleted, breach>>

\* statPath answers from the session, without asking the store.
StatAnswered(p) ==
  session[p].open /\ (session[p].dirty \/ session[p].prefetched \/ session[p].bytes = {})

\* The dirty check again, then Stat.  A dirty path is taken for a directory
\* that is not empty; a path that does not exist is removed already.
RemoveStat(c) ==
  LET p == client[c].path
  IN  /\ client[c].pc = "rmstat"
      /\ \/ /\ IsDirty(p) /\ ~HasPendingDelete(p)
            /\ Finish(c) /\ UNCHANGED deleted
         \/ /\ HasPendingDelete(p) \/ (~IsDirty(p) /\ ~StatAnswered(p) /\ p \notin objects)
            /\ Removed(c)
         \/ /\ ~IsDirty(p) /\ ~HasPendingDelete(p) /\ (session[p].open \/ p \in objects)
            /\ Step(c, "rmobject") /\ UNCHANGED deleted
         \/ /\ ~IsDirty(p) /\ ~HasPendingDelete(p) /\ ~session[p].open   \* Stat fails
            /\ Finish(c) /\ UNCHANGED deleted
      /\ UNCHANGED <<indexVars, managerVars, storeVars, worker, countVars, promised, breach>>

\* The object of a clean file; a delete the store cannot perform is accepted
\* with a tombstone instead.
RemoveObject(c) ==
  LET p == client[c].path
  IN  /\ client[c].pc = "rmobject"
      /\ \/ DeleteObject(p) /\ Step(c, "rmcheck")
         \/ DeleteObject(p) /\ Step(c, "rmtomb")
         \/ UNCHANGED storeVars /\ Step(c, "rmtomb")
      /\ UNCHANGED <<indexVars, managerVars, worker, countVars, ghostVars>>

\* RegisterPendingDelete: the tombstone first; unless it cannot be written.
AddTombstone(c) ==
  LET p == client[c].path
  IN  /\ client[c].pc = "rmtomb"
      /\ \/ /\ tombstones' = tombstones \union {p}
            /\ Step(c, "rmlock")
            /\ Flag(p, IF Deleting(p) # {} THEN {"claim"} ELSE {})
         \/ Finish(c) /\ UNCHANGED <<tombstones, breach>>
      /\ UNCHANGED <<indexVars, session, files, disk, sidecars, storeVars, worker,
                     countVars, promised, deleted>>

\* With the claim taken an upload is in flight, and the delete is left to the
\* workers.
RemoveLock(c) ==
  LET p == client[c].path
  IN  /\ client[c].pc = "rmlock"
      /\ \/ p \in syncing /\ Removed(c) /\ UNCHANGED <<indexVars, breach>>
         \/ /\ LockFile(p)
            /\ Step(c, "rmdiscard")
            /\ Flag(p, IF AtObject(p) # {} THEN {"claim"} ELSE {})
            /\ UNCHANGED deleted
      /\ UNCHANGED <<managerVars, storeVars, worker, countVars, promised>>

RemoveDiscard(c) ==
  LET p == client[c].path
  IN  /\ client[c].pc = "rmdiscard"
      /\ \/ /\ ~HasPendingDelete(p)
            /\ Step(c, "rmunlock")
            /\ UNCHANGED <<indexVars, managerVars, worker>>
         \/ /\ ~Fetching(p)
            /\ DiscardDeletedStaging(p)
            /\ client' = [Orphan(client, p) EXCEPT ![c].pc = "rmunlock"]
            /\ worker' = Orphan(Unread(p), p)
      /\ UNCHANGED <<storeVars, countVars, ghostVars>>

RemoveUnlock(c) ==
  LET p == client[c].path
  IN  /\ client[c].pc = "rmunlock"
      /\ UnlockFile(p)
      /\ \/ client[c].mode = "none" /\ Step(c, "rmdelete") /\ UNCHANGED deleted
         \/ client[c].mode = "keep" /\ Removed(c)
      /\ UNCHANGED <<managerVars, storeVars, worker, countVars, promised, breach>>

RemoveDelete(c) ==
  LET p == client[c].path
  IN  /\ client[c].pc = "rmdelete"
      /\ \/ DeleteObject(p) /\ Step(c, "rmresolve") /\ UNCHANGED deleted
         \/ DeleteObject(p) /\ Removed(c)
         \/ UNCHANGED storeVars /\ Removed(c)
      /\ UNCHANGED <<indexVars, managerVars, worker, countVars, promised, breach>>

RemoveResolve(c) ==
  /\ client[c].pc = "rmresolve"
  /\ tombstones' = tombstones \ {client[c].path}
  /\ Step(c, "rmcheck")
  /\ UNCHANGED <<indexVars, session, files, disk, sidecars, storeVars, worker,
                 countVars, ghostVars>>

\* cleanupCleanStagingSessionAfterDelete, and CleanupSession's refusal.
RemoveCheck(c) ==
  LET p == client[c].path
      inUse == IsDirty(p) /\ (~HasPendingDelete(p) \/ p \in syncing)
  IN  /\ client[c].pc = "rmcheck"
      /\ IF inUse \/ ~session[p].open THEN Removed(c)
         ELSE Step(c, "rmclean") /\ UNCHANGED deleted
      /\ UNCHANGED <<indexVars, managerVars, storeVars, worker, countVars, promised, breach>>

RemoveClean(c) ==
  LET p == client[c].path
  IN  /\ client[c].pc = "rmclean"
      /\ ~Fetching(p)
      /\ RemoveSession(p)
      /\ client' = [Orphan(client, p) EXCEPT ![c] = IdleClient]
      /\ worker' = Orphan(Unread(p), p)
      /\ deleted' = IF client[c].loose THEN deleted ELSE [deleted EXCEPT ![p] = 0..writes]
      /\ Flag(p, (IF session[p].open /\ AtObject(p) # {} THEN {"claim"} ELSE {})
                 \union (IF session[p].open /\ IsDirty(p) THEN {"cleanup"} ELSE {}))
      /\ UNCHANGED <<storeVars, countVars, promised>>

ClientRemove(c) ==
  \/ \E p \in Paths : RemoveFile(c, p)
  \/ RemoveStat(c) \/ RemoveObject(c) \/ AddTombstone(c) \/ RemoveLock(c)
  \/ RemoveDiscard(c) \/ RemoveUnlock(c) \/ RemoveDelete(c) \/ RemoveResolve(c)
  \/ RemoveCheck(c) \/ RemoveClean(c)

-----------------------------------------------------------------------------
\* processPendingDeletes, for one tombstone of the list it took.
SeeDelete(w, p) ==
  /\ worker[w].pc = "idle" /\ HasPendingDelete(p)
  /\ worker' = [worker EXCEPT ![w].pc = "dclaim", ![w].path = p]
  /\ UNCHANGED <<indexVars, managerVars, storeVars, client, countVars, ghostVars>>

\* processDirtyFiles, for one entry of the list it took.  Which entries are
\* due is a matter of size, age and time since the last write.
SeeDirty(w, p) ==
  /\ worker[w].pc = "idle" /\ IsDirty(p)
  /\ worker' = [worker EXCEPT ![w].pc = "uclaim", ![w].path = p]
  /\ UNCHANGED <<indexVars, managerVars, storeVars, client, countVars, ghostVars>>

Claim(w) ==
  LET p == worker[w].path
  IN  /\ worker[w].pc \in {"dclaim", "uclaim"}
      /\ \/ p \in syncing /\ FinishWorker(w) /\ UNCHANGED <<indexVars, breach>>
         \/ /\ LockFile(p)
            /\ StepWorker(w, IF worker[w].pc = "dclaim" THEN "ddiscard" ELSE "ucheck")
            /\ Flag(p, IF AtObject(p) # {} THEN {"claim"} ELSE {})
      /\ UNCHANGED <<managerVars, storeVars, client, countVars, promised, deleted>>

\* Nothing is dropped when the path has been created again.
DeleteDiscard(w) ==
  LET p == worker[w].path
  IN  /\ worker[w].pc = "ddiscard"
      /\ \/ /\ ~HasPendingDelete(p)
            /\ StepWorker(w, "dunlock")
            /\ UNCHANGED <<indexVars, managerVars, client>>
         \/ /\ ~Fetching(p)
            /\ DiscardDeletedStaging(p)
            /\ client' = Orphan(client, p)
            /\ worker' = [Orphan(Unread(p), p) EXCEPT ![w].pc = "ddelete"]
      /\ UNCHANGED <<storeVars, countVars, ghostVars>>

DeleteFromStore(w) ==
  LET p == worker[w].path
  IN  /\ worker[w].pc = "ddelete"
      /\ DeleteObject(p)
      /\ StepWorker(w, "dresolve")
      /\ UNCHANGED <<indexVars, managerVars, client, countVars, ghostVars>>

\* Mutant: a delete the store refused is taken for done.
DeleteFails_Resolved(w) ==
  LET p == worker[w].path
  IN  /\ worker[w].pc = "ddelete"
      /\ DeleteObject(p) \/ UNCHANGED storeVars
      /\ tombstones' = tombstones \ {p}
      /\ StepWorker(w, "dunlock")
      /\ UNCHANGED <<indexVars, session, files, disk, sidecars, client, countVars, ghostVars>>

DeleteFails(w) ==
  LET p == worker[w].path
  IN  /\ worker[w].pc = "ddelete"
      /\ DeleteObject(p) \/ UNCHANGED storeVars
      /\ StepWorker(w, "dunlock")
      /\ UNCHANGED <<indexVars, managerVars, client, countVars, ghostVars>>

DeleteResolve(w) ==
  /\ worker[w].pc = "dresolve"
  /\ tombstones' = tombstones \ {worker[w].path}
  /\ StepWorker(w, "dunlock")
  /\ UNCHANGED <<indexVars, session, files, disk, sidecars, storeVars, client,
                 countVars, ghostVars>>

\* Mutant: the claim is never given up.
Unclaim_KeepsClaim(w) ==
  /\ worker[w].pc \in {"dunlock", "uunlock"}
  /\ FinishWorker(w)
  /\ UNCHANGED <<indexVars, managerVars, storeVars, client, countVars, ghostVars>>

\* UnlockFile releases whatever claim is on the path.
Unclaim(w) ==
  /\ worker[w].pc \in {"dunlock", "uunlock"}
  /\ UnlockFile(worker[w].path)
  /\ FinishWorker(w)
  /\ UNCHANGED <<managerVars, storeVars, client, countVars, ghostVars>>

-----------------------------------------------------------------------------
\* lockObject: another upload of the path is under way, whatever its claim.
ObjectLocked(w, p) ==
  \E v \in Workers \ {w} : worker[v].path = p /\
    worker[v].pc \in UploadSteps \ {"uclaim", "ucheck", "ulock", "uunlock"}

\* The entry again, now that the path is claimed.
UploadCheck(w) ==
  /\ worker[w].pc = "ucheck"
  /\ StepWorker(w, IF IsDirty(worker[w].path) THEN "ulock" ELSE "uunlock")
  /\ UNCHANGED <<indexVars, managerVars, storeVars, client, countVars, ghostVars>>

\* syncFileWithWorker waits for the object lock, and leaves a path with a pending
\* delete to the tombstone pass.
UploadLock(w) ==
  LET p == worker[w].path
  IN  /\ worker[w].pc = "ulock"
      /\ ~ObjectLocked(w, p)
      /\ StepWorker(w, IF HasPendingDelete(p) THEN "uunlock" ELSE "usession")
      /\ UNCHANGED <<indexVars, managerVars, storeVars, client, countVars, ghostVars>>

\* The session, or one recovered from the staging file, or neither is there.
UploadSession(w) ==
  LET p == worker[w].path
  IN  /\ worker[w].pc = "usession"
      /\ \/ /\ session[p].open
            /\ worker' = [worker EXCEPT ![w].pc = "ugeneration", ![w].live = TRUE]
            /\ UNCHANGED managerVars
         \/ /\ RecoverSessionFromStaging(p)
            /\ worker' = [worker EXCEPT ![w].pc = "ugeneration", ![w].live = TRUE]
         \/ /\ ~session[p].open /\ p \notin files
            /\ StepWorker(w, "uforget")
            /\ UNCHANGED managerVars
      /\ UNCHANGED <<indexVars, storeVars, client, countVars, ghostVars>>

ForgetDirty(w) ==
  LET p == worker[w].path
  IN  /\ worker[w].pc = "uforget"
      /\ DropDirtyEntry(p)
      /\ StepWorker(w, "uunlock")
      /\ Flag(p, IF p \in files THEN {"forget"} ELSE {})
      /\ UNCHANGED <<session, files, disk, tombstones, storeVars, client, countVars,
                     promised, deleted>>

\* The generation is read before the bytes are.
UploadGeneration(w) ==
  /\ worker[w].pc = "ugeneration"
  /\ worker' = [worker EXCEPT ![w].pc = "usnapshot", ![w].gen = dirty[worker[w].path]]
  /\ UNCHANGED <<indexVars, managerVars, storeVars, client, countVars, ghostVars>>

\* OpenUploadSnapshot opens the staging file by name, and fails on a session
\* that has been closed.
UploadSnapshot(w) ==
  LET p == worker[w].path
  IN  /\ worker[w].pc = "usnapshot"
      /\ \/ /\ worker[w].live /\ p \in files /\ ~Fetching(p)
            /\ worker' = [worker EXCEPT ![w].pc = "uput", ![w].snap = disk[p],
                                        ![w].reading = TRUE]
         \/ /\ ~worker[w].live \/ p \notin files
            /\ StepWorker(w, "uunlock")
      /\ UNCHANGED <<indexVars, managerVars, storeVars, client, countVars, ghostVars>>

\* Mutant: the generation is read after the bytes have been sent.
Upload_LateGeneration(w) ==
  /\ worker[w].pc = "uput"
  /\ PutObject(worker[w].path, worker[w].snap)
  /\ worker' = [worker EXCEPT ![w].pc = "uclean", ![w].gen = dirty[worker[w].path]]
  /\ UNCHANGED <<indexVars, managerVars, client, countVars, ghostVars>>

Upload(w) ==
  /\ worker[w].pc = "uput"
  /\ PutObject(worker[w].path, worker[w].snap)
  /\ worker' = [worker EXCEPT ![w].pc = "uclean"]
  /\ UNCHANGED <<indexVars, managerVars, client, countVars, ghostVars>>

\* Every attempt failed; any of them may have reached the bucket.
UploadFails(w) ==
  /\ worker[w].pc = "uput"
  /\ PutObject(worker[w].path, worker[w].snap) \/ UNCHANGED storeVars
  /\ worker' = [worker EXCEPT ![w].pc = "uunlock", ![w].reading = FALSE]
  /\ UNCHANGED <<indexVars, managerVars, client, countVars, ghostVars>>

\* The file is clean, unless it changed since its generation was read.
UploadClean(w) ==
  LET p == worker[w].path
  IN  /\ worker[w].pc = "uclean"
      /\ \/ /\ MarkCleanIfUnchanged(p, worker[w].gen)
            /\ UNCHANGED <<session, files, disk, tombstones>>
            /\ IF CleanAfterSync THEN StepWorker(w, "ucleanup")
               ELSE worker' = [worker EXCEPT ![w].pc = "uunlock", ![w].reading = FALSE]
         \/ /\ ~IsUnchanged(p, worker[w].gen)
            /\ worker' = [worker EXCEPT ![w].pc = "uunlock", ![w].reading = FALSE]
            /\ UNCHANGED <<indexVars, managerVars>>
      /\ UNCHANGED <<storeVars, client, countVars, ghostVars>>

UploadCleanup(w) ==
  LET p == worker[w].path
      idle == worker[w].live /\ IsIdleAndSynced(p)
  IN  /\ worker[w].pc = "ucleanup"
      /\ \/ /\ idle /\ ~Fetching(p)
            /\ CleanupSyncedSession(p)
            /\ client' = Orphan(client, p)
            /\ worker' = [Orphan(Unread(p), p) EXCEPT ![w].pc = "uunlock"]
         \/ /\ ~idle
            /\ worker' = [worker EXCEPT ![w].pc = "uunlock", ![w].reading = FALSE]
            /\ UNCHANGED <<managerVars, client>>
      /\ UNCHANGED <<indexVars, storeVars, countVars, ghostVars>>

\* What a worker does on its own, apart from a request that fails.
Progress(w) ==
  \/ \E p \in Paths : SeeDelete(w, p) \/ SeeDirty(w, p)
  \/ Claim(w) \/ DeleteDiscard(w) \/ DeleteResolve(w) \/ Unclaim(w)
  \/ UploadCheck(w) \/ UploadLock(w) \/ UploadSession(w) \/ ForgetDirty(w)
  \/ UploadGeneration(w) \/ UploadSnapshot(w) \/ UploadClean(w) \/ UploadCleanup(w)

Sync(w) ==
  Progress(w) \/ DeleteFromStore(w) \/ DeleteFails(w) \/ Upload(w) \/ UploadFails(w)

-----------------------------------------------------------------------------
\* An empty staging file with a sidecar, of an object whose bytes have not been
\* fetched into it: a restart takes it for the file's staged bytes.
Unloaded(p) == p \in Recovered \intersect objects /\ ~IsDirty(p) /\ disk[p] = {}

\* A truncating open between taking the session and queueing it emptied.
Truncating(p) == \E c \in On(p) :
  client[c].mode = "trunc" /\ client[c].pc \in {"stat", "trunc", "marktrunc"}

\* The process ends at any point and starts again with RecoverFromDisk, which
\* is done before clients are served.
Crash ==
  /\ crashes < MaxCrashes
  /\ crashes' = crashes + 1
  /\ RecoverFromDisk
  /\ client' = [c \in Clients |-> IdleClient]
  /\ worker' = [w \in Workers |-> IdleWorker]
  /\ breach' = [p \in Paths |-> breach[p]
       \union (IF Unloaded(p) THEN {"crash"} ELSE {})
       \union (IF Truncating(p) THEN {"reuse"} ELSE {})]
  /\ UNCHANGED <<storeVars, writes, opens, removes, promised, deleted>>

Next ==
  \/ \E c \in Clients : ClientOpen(c) \/ ClientRemove(c)
  \/ \E w \in Workers : Sync(w)
  \/ Crash

Spec == Init /\ [][Next]_vars

\* Workers run on a ticker, go through both lists on every tick and retry what
\* failed; the object store is not down for ever; a download ends or times
\* out, and a remove that has claimed the path finishes with it.
Fairness ==
  /\ \A w \in Workers :
       /\ WF_vars(Progress(w)) /\ SF_vars(DeleteFromStore(w)) /\ SF_vars(Upload(w))
       /\ \A p \in Paths : SF_vars(SeeDelete(w, p)) /\ SF_vars(SeeDirty(w, p))
  /\ \A c \in Clients :
       WF_vars(FetchEnd(c)) /\ WF_vars(RemoveDiscard(c)) /\ WF_vars(RemoveUnlock(c))

FairSpec == Spec /\ Fairness

-----------------------------------------------------------------------------
\* Properties.  Each is claimed of a path while none of the events in Breaches
\* has happened to it; the README describes those events one by one.

Intact(p) == breach[p] = {}

\* The bytes a restart at this moment would serve.
AfterRestart(p) ==
  IF HasPendingDelete(p) THEN {}
  ELSE IF p \in Recovered THEN disk[p] ELSE cos[p]

\* The bytes a client that opens the path for reading gets.
Visible(p) ==
  IF HasPendingDelete(p) THEN {}
  ELSE IF session[p].open THEN session[p].bytes ELSE cos[p]

\* Crash safety of accepted writes (writeLocked, MarkDirty, RecoverFromDisk):
\* whenever the gateway stops, an acknowledged write, or the content of the
\* object it was made to, is in the bucket or is recovered from staging.
AcceptedSurvivesCrash ==
  \A p \in Paths : Intact(p) /\ ~Unloaded(p) => promised[p] \subseteq AfterRestart(p)

\* No accepted write is forgotten (markCleanIfUnchanged, cleanupSyncedSession):
\* it is in the bucket, or its path is queued and its staging file holds it.
AcceptedQueued ==
  \A p \in Paths : Intact(p) =>
    \/ promised[p] \subseteq cos[p]
    \/ IsDirty(p) /\ p \in files /\ promised[p] \subseteq disk[p]

\* Read after write (OpenFile, AcquireSession, statPath): a reader gets every
\* accepted write, wherever it is on its way to the bucket, except from a
\* session whose open has not yet fetched the object.
ReadsSeeAccepted ==
  \A p \in Paths : Intact(p) /\ (session[p].open => CarriesData(p)) =>
    promised[p] \subseteq Visible(p)

\* An accepted delete never comes back (RegisterPendingDelete,
\* discardDeletedStaging, recoverTombstonesFromDisk): no reader, now or after a
\* restart, gets bytes of a file whose removal was acknowledged.
DeletedStaysDeleted ==
  \A p \in Paths : Intact(p) /\ ~Truncating(p) =>
    deleted[p] \intersect (Visible(p) \union AfterRestart(p)) = {}

\* An upload never takes the bucket back (LockFile, lockObject, the generation
\* check): an accepted write the object holds stays in it until the file is
\* truncated or removed.
NoRollback ==
  [][\A p \in Paths : Intact(p) /\ promised[p] \subseteq cos[p] /\ promised'[p] = promised[p]
       => promised[p] \subseteq cos'[p]]_vars

\* A session's file stays under its name (NewWriteSession,
\* detachFromUploadsLocked, DownloadToFile): the bytes clients read and write
\* through the session are those an upload or a restart opens by name.
StagedUnderName ==
  \A p \in Paths : session[p].open /\ "unlink" \notin breach[p] =>
    p \in files /\ disk[p] = session[p].bytes

\* Clean means uploaded (markCleanIfUnchanged and MarkDirty's order): a session
\* that was changed and is not queued holds what the object holds, truncations
\* included, once every change to it is recorded.
CleanMatchesBucket ==
  \A p \in objects :
    /\ Intact(p) /\ session[p].open /\ session[p].dirty /\ ~IsDirty(p)
    /\ \A c \in On(p) : client[c].pc \notin {"mark", "marktrunc"}
    => session[p].bytes = cos[p]

Handles(p) ==
  {c \in On(p) : client[c].live /\ client[c].pc \in OpenSteps \ {"get", "unlink"}}

\* A session in use is not cleaned up (GetOrCreateSession, ReleaseSession,
\* cleanupSyncedSession): the reference count covers the handles on it.
RefsCountHandles ==
  \A p \in Paths : "refs" \notin breach[p] =>
    Cardinality(Handles(p)) <= session[p].refs

\* MarkDirtyAgain may stay in memory (recordDirtyPathLocked, MarkClean): a
\* staging file queued as recorded has its sidecar, so a restart finds it.
RecordedHasSidecar ==
  \A p \in Paths : Intact(p) /\ p \in recorded \intersect files => p \in sidecars

\* Every accepted write reaches the bucket (processDirtyFiles, syncFileLocked
\* and the retries), through outages and a restart, unless the file is
\* truncated or removed first.
AcceptedReachesBucket ==
  \A p \in Paths, i \in WriteIds :
    i \in promised[p] ~> (i \in cos[p] \/ i \notin promised[p] \/ ~Intact(p))

\* Every accepted delete is carried out or withdrawn (processPendingDeletes):
\* no tombstone stays for ever, whatever uploads and opens get in its way.
PendingDeleteCompletes ==
  \A p \in Paths : HasPendingDelete(p) ~> (~HasPendingDelete(p) \/ ~Intact(p))

-----------------------------------------------------------------------------
\* What the repository says of every path, and the code does not keep to.

\* "Until that sync completes, the gateway must preserve the staged dirty data
\* locally": an accepted write is in the bucket, or queued and staged.
StagedDataPreserved ==
  \A p \in Paths :
    \/ promised[p] \subseteq cos[p]
    \/ IsDirty(p) /\ p \in files /\ promised[p] \subseteq disk[p]

\* OpenFile refuses to go on without the object's bytes, lest an empty copy
\* "later replaces the object": no upload takes from an object the bytes it
\* had, unless a client truncated or removed the file.
OpenKeepsObject ==
  [][\A p \in Paths : 0 \in promised[p] \intersect cos[p] =>
       0 \in cos'[p] \/ 0 \notin promised'[p]]_vars

\* "Tombstones survive restarts so an accepted delete cannot resurrect the
\* file": what was deleted is not read again.
DeleteIsFinal ==
  \A p \in Paths : ~Truncating(p) => deleted[p] \intersect Visible(p) = {}

\* "Claiming the sync lock guarantees no upload is in flight for the path" while
\* a worker deletes the path's object.
DeleteExcludesUpload ==
  \A v, w \in Workers :
    worker[v].pc = "ddelete" /\ worker[w].pc = "uput" => worker[v].path # worker[w].path

=============================================================================
