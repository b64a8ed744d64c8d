----------------------------- MODULE MCTraffic -----------------------------
(***************************************************************************)
(* The gateway's traffic for TLC: names, reads, the refresh, the space of  *)
(* the staging area, the client of the object store and the upload.  Each  *)
(* scene explores one of them and leaves the others where they are.        *)
(***************************************************************************)
EXTENDS Namespace, DataReads, ObjectRefresh, StagingSpace, CosClient, MultipartUpload, TLC

CONSTANTS Scenes, f1, d, n1, n2, s1, s2, w, r1, r2, a, b, w1, w2, c1, c2, y1, y2

VARIABLE scene

MCFiles == {f1}
MCNfs == {n1, n2}
MCSmb == {s1, s2}
MCReaders == {r1, r2}
MCChunks == 1..2
MCCacheKeys == 1..4
MCSizeOf == <<2, 1, 1, 3>>
MCSpaceFiles == {a, b}
MCSpaceWriters == {w1, w2}
MCCalls == {c1, c2}
MCSyncers == {y1, y2}

NameScenes == {"file", "dir", "list", "rmdir", "nfs"}
ReadScenes == {"reads", "chunks"}

MCInit ==
  /\ scene \in Scenes
  /\ NamespaceInit /\ ReadsInit /\ RefreshInit /\ SpaceInit /\ CosInit /\ UploadInit
  /\ IF scene = "dir" THEN marker = (object[f1] = 0) ELSE marker
  /\ scene \notin NameScenes => object[f1] = 0
  /\ scene # "refresh" => stored.by = "nobody" /\ ~sessionOpen
  /\ scene # "space" => mode = "off" /\ ~full

Active == IF scene = "nfs" THEN MCNfs ELSE MCSmb

\* The first client of a protocol makes changes, the second one looks.
NamesInScene ==
  /\ \A c \in {n1, s1} : proc'[c].op \notin {"stat", "readdir"}
  /\ \A c \in {n2, s2} : proc'[c].op \in {"none", "stat", "readdir"}
  /\ LET change == proc'[IF scene = "nfs" THEN n1 ELSE s1]
         look == proc'[IF scene = "nfs" THEN n2 ELSE s2]
         within(r, ops, keys) == r # NoOp => r.op \in ops /\ r.key \in keys
     IN  /\ scene = "nfs" => /\ within(change, {"write", "remove"}, {f1})
                             /\ within(look, {"readdir"}, {d})
         /\ scene = "file" => /\ within(change, {"write", "remove", "setattr"}, {f1})
                              /\ within(look, {"stat"}, {f1})
         /\ scene = "dir" => /\ within(change, {"write", "remove", "mkdir"}, {f1, d})
                             /\ within(look, {"stat"}, {d})
         /\ scene = "list" => /\ within(change, {"write", "remove"}, {f1})
                              /\ within(look, {"readdir"}, {d})
         /\ scene = "rmdir" => /\ within(change, {"remove", "write"}, {f1, d})
                               /\ within(look, {"readdir"}, {d})

\* Outside scene "file" the bucket fails only those who look, and neither the NFS
\* clients nor those who look while a directory is removed.
BucketInScene ==
  scene # "file" =>
    /\ proc[w].pc \in {"put", "drop"} => proc'[w] # NoOp
    /\ \A c \in {n1, n2, s1} : ~proc'[c].failed /\ proc'[c].pc # "stale"
    /\ scene \in {"nfs", "rmdir"} =>
         \A c \in {n2, s2} : proc[c].pc = "children" => proc'[c].pc = "hide"

NameStep ==
  \/ \E c \in Active : ClientStep(c)
  \/ WorkerStep
  \/ \E p \in Active \union {w} : InvalidationStep(p)
  \/ scene = "file" /\ \E k \in Keys : CacheExpire(k)
  \/ scene = "list" /\ CacheExpire(d) /\ Known(d)'
  \/ NfsExpire

\* An answer is returned at once.
NamesScene ==
  /\ IF \E c \in Active : At(c, "done") THEN \E c \in Active : Return(c) ELSE NameStep
  /\ Witnessed
  /\ NamesInScene
  /\ BucketInScene

ReadsScene ==
  /\ ReadsNext
  /\ scene = "reads" => /\ (\A k \in CacheKeys \ Chunks : chunkCache'.file[k] = 0) /\ chunkCache'.expired = {}
                        /\ reader'[r2].last = 1
                        /\ \A k \in Chunks : flight'[k].pc # "failed"
                        /\ ~ReadsRestart
  /\ scene = "chunks" => reader'[r2] = Closed /\ accepted' = 1

\* The second request is a read, the second sync finds the file clean and does not fail.
OutageScene ==
  /\ CosNext
  /\ call'[c2].op = "get" /\ call'[c2].attempt = 0
  /\ ~reachable' => room'

UploadScene ==
  /\ UploadNext
  /\ sync'[y2].gen = 0 /\ sync'[y2].attempt = 1 /\ sync'[y2].pc # "abort"

nameStateVars == <<cacheVars, nameVars>>

MCNext ==
  /\ UNCHANGED scene
  /\ \/ scene \in NameScenes /\ NamesScene
        /\ UNCHANGED <<readVars, refreshVars, spaceVars, cosVars, uploadVars>>
     \/ scene \in ReadScenes /\ ReadsScene
        /\ UNCHANGED <<nameStateVars, refreshVars, spaceVars, cosVars, uploadVars>>
     \/ scene = "refresh" /\ RefreshNext
        /\ UNCHANGED <<nameStateVars, readVars, spaceVars, cosVars, uploadVars>>
     \/ scene = "space" /\ SpaceNext
        /\ UNCHANGED <<nameStateVars, readVars, refreshVars, cosVars, uploadVars>>
     \/ scene = "outage" /\ OutageScene
        /\ UNCHANGED <<nameStateVars, readVars, refreshVars, spaceVars, uploadVars>>
     \/ scene = "upload" /\ UploadScene
        /\ UNCHANGED <<nameStateVars, readVars, refreshVars, spaceVars, cosVars>>

MCVars == <<nameStateVars, readVars, refreshVars, spaceVars, cosVars, uploadVars, scene>>

MCSpec == MCInit /\ [][MCNext]_MCVars

\* A race that is known to break a property is not followed further.
Explored ==
  breach \union readBreach \union refreshBreach \union spaceBreach \union cosBreach
    \union uploadBreach = {}

=============================================================================
