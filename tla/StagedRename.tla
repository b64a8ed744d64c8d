---------------------------- MODULE StagedRename ----------------------------
(***************************************************************************)
(* Renames and server-side copies of files with staged bytes:              *)
(* RenameStagedPath (internal/staging/rename.go), the file and directory   *)
(* renames and the copy built on it (internal/vfs/filesystem.go), and the  *)
(* bucket rename they end in (internal/posix/operations.go), against a     *)
(* client writing through a handle, a sync worker, and a crash.  A path is *)
(* a directory and a name in it.                                           *)
(***************************************************************************)
EXTENDS StagedFiles, Sequences

CONSTANTS
  Dirs, Names,      \* the paths are the pairs of a directory and a name
  Scenes,           \* what is staged and in the bucket at first, what is asked for
  MaxCrashes

ASSUME MovesAssumption ==
  /\ Paths = Dirs \X Names
  /\ MaxCrashes \in Nat
  /\ Scenes \subseteq [staged: SUBSET Paths, objects: SUBSET Paths, opened: SUBSET Paths,
                       kind: {"file", "dir", "copy"}, from: Paths, to: Paths]

VARIABLES
  mover,            \* the client that renames and copies
  asked,            \* what the client has yet to ask for
  crashes

vars == <<filesVars, mover, asked, crashes>>

\* kind is what the client asked for, src and dst the pair in hand.  A directory
\* rename goes from one directory to another (from, to): it has files to move
\* (todo), files moved, targets it claimed, and may be moving files back.  The
\* bucket rename has keys to copy and then to delete (todo again), and the
\* bytes it copied.
IdleMover == [pc |-> "idle", kind |-> "none", src |-> NoPath, dst |-> NoPath,
              from |-> NoPath, to |-> NoPath,
              todo |-> {}, moved |-> <<>>, claims |-> {}, undoing |-> FALSE,
              result |-> "ok", hadSidecar |-> FALSE, discarded |-> FALSE, keys |-> {},
              copied |-> [p \in Paths |-> {}]]

TypeOK ==
  /\ FilesTypeOK
  /\ mover.todo \union mover.claims \union mover.keys \subseteq Paths
  /\ mover.moved \in Seq(Paths)
  /\ mover.copied \in [Paths -> SUBSET Tags]

Init ==
  /\ \E scene \in Scenes :
       /\ FilesInit(scene.staged, scene.objects, scene.opened)
       /\ asked = {<<scene.kind, scene.from, scene.to>>}
  /\ mover = IdleMover /\ crashes = 0

\* Where the rename under way takes p.
Target(p) == IF mover.kind = "dir" THEN <<mover.to, p[2]>> ELSE mover.dst

\* What a step on the staging directory and the index alone leaves.
elsewhere == <<storeVars, handle, worker, countVars, ghostVars>>

-----------------------------------------------------------------------------
\* RenameStagedPath(mover.src, mover.dst), one critical section or file system
\* call at a time.
MoverTo(pc) == mover' = [mover EXCEPT !.pc = pc]

MoverReturns(result) == mover' = [mover EXCEPT !.pc = "return", !.result = result]

\* The rename recreates the destination, so a delete of it is withdrawn.
RenameStat ==
  /\ mover.pc = "stat"
  /\ \/ /\ name[mover.src] = NoFile
        /\ MoverTo("drop")
        /\ UNCHANGED <<renameTargets, tombstones>>
     \/ /\ name[mover.src] # NoFile
        /\ renameTargets' = renameTargets \union {mover.dst}
        /\ tombstones' = tombstones \ {mover.dst}
        /\ MoverTo("intent")
  /\ UNCHANGED <<indexVars, session, name, data, sidecars, elsewhere>>

\* dropEntryWithoutStagedBytes, unless the path has staged bytes again.
RenameDropEntry ==
  /\ mover.pc = "drop"
  /\ DropEntry(mover.src)
  /\ sidecars' = sidecars \ {mover.src}
  /\ MoverReturns("notexist")
  /\ Flag(IF name[mover.src] # NoFile THEN {"forget"} ELSE {})
  /\ UNCHANGED <<session, name, data, tombstones, renameTargets, storeVars, handle, worker,
                 countVars, content>>

\* Durable intent first: the destination's sidecar, or the rename fails.
RenameIntent ==
  /\ mover.pc = "intent"
  /\ Invalidate(mover.dst)
  /\ \/ /\ mover' = [mover EXCEPT !.pc = "move", !.hadSidecar = mover.dst \in sidecars]
        /\ sidecars' = sidecars \union {mover.dst}
        /\ UNCHANGED renameTargets
     \/ /\ MoverReturns("error")
        /\ renameTargets' = renameTargets \ {mover.dst}
        /\ UNCHANGED sidecars
  /\ UNCHANGED <<session, name, data, tombstones, elsewhere>>

\* The source's session follows its file to the new name.  The move fails when
\* the file has gone since it was looked for, or for a reason of the disk.
RenameMove ==
  LET o == mover.src
      n == mover.dst
  IN  /\ mover.pc = "move"
      /\ \/ /\ name[o] # NoFile
            /\ name' = [name EXCEPT ![o] = NoFile, ![n] = name[o]]
            /\ session' = IF session[o].open THEN [session EXCEPT ![o].at = n] ELSE session
            /\ MoverTo("tomb")
            /\ content' = IF o = n THEN content
                          ELSE [content EXCEPT ![o] = {}, ![n] = content[o]]
         \/ /\ mover' = [mover EXCEPT !.pc = "restore",
                           !.result = IF name[o] = NoFile THEN "notexist" ELSE "error"]
            /\ UNCHANGED <<name, session, content>>
      /\ UNCHANGED <<indexVars, data, sidecars, tombstones, renameTargets, storeVars, handle,
                     worker, countVars, breach>>

\* Mutant: a path without a sidecar before is left without one, dirty or not.
RenameRestore_KeepsNothing ==
  /\ mover.pc = "restore"
  /\ sidecars' = IF mover.hadSidecar THEN sidecars \union {mover.dst} ELSE sidecars \ {mover.dst}
  /\ renameTargets' = renameTargets \ {mover.dst}
  /\ MoverTo(IF mover.result = "notexist" THEN "drop" ELSE "return")
  /\ UNCHANGED <<indexVars, session, name, data, tombstones, elsewhere>>

\* restorePathMetadata: the sidecar that was there, or one for a path that has
\* become dirty, if it can be written, or none.
RenameRestore ==
  LET n == mover.dst
  IN  /\ mover.pc = "restore"
      /\ \/ /\ sidecars' = IF mover.hadSidecar \/ IsDirty(n) THEN sidecars \union {n}
                           ELSE sidecars \ {n}
            /\ UNCHANGED <<indexVars, breach>>
         \/ /\ ~mover.hadSidecar /\ IsDirty(n)
            /\ sidecars' = sidecars \ {n}
            /\ MarkUnrecorded(n)
            /\ Flag({"unrecorded"})
      /\ renameTargets' = renameTargets \ {n}
      /\ MoverTo(IF mover.result = "notexist" THEN "drop" ELSE "return")
      /\ UNCHANGED <<session, name, data, tombstones, storeVars, handle, worker,
                     countVars, content>>

\* Mutant: no tombstone is left for the source.
RenameTombstone_None ==
  /\ mover.pc = "tomb"
  /\ sidecars' = sidecars \ {mover.src}
  /\ MoverTo("session")
  /\ UNCHANGED <<indexVars, session, name, data, tombstones, renameTargets, elsewhere>>

\* The source's sidecar goes after its tombstone, and a restart in between makes
\* nothing of it: the bytes have moved.  A tombstone that cannot be written lets
\* the source's object linger.
RenameTombstone ==
  /\ mover.pc = "tomb"
  /\ \/ tombstones' = tombstones \union {mover.src} /\ UNCHANGED breach
     \/ Flag({"linger"}) /\ UNCHANGED tombstones
  /\ sidecars' = sidecars \ {mover.src}
  /\ MoverTo("session")
  /\ UNCHANGED <<indexVars, session, name, data, renameTargets, storeVars, handle,
                 worker, countVars, content>>

\* The destination's session is closed, the source's takes its place.
Rekeyed(proc, o, n) ==
  IF proc.cur = n THEN [proc EXCEPT !.cur = NoPath]
  ELSE IF proc.cur = o THEN [proc EXCEPT !.cur = n] ELSE proc

RenameSession ==
  LET o == mover.src
      n == mover.dst
  IN  /\ mover.pc = "session"
      /\ session' = IF o = n THEN [session EXCEPT ![n] = NoSession]
                    ELSE IF session[o].open
                    THEN [session EXCEPT ![o] = NoSession, ![n] = [session[o] EXCEPT !.at = n]]
                    ELSE [session EXCEPT ![n] = NoSession]
      /\ handle' = Rekeyed(handle, o, n)
      /\ worker' = Rekeyed(worker, o, n)
      /\ MoverTo("index")
      /\ UNCHANGED <<indexVars, name, data, sidecars, tombstones, renameTargets, storeVars,
                     countVars, ghostVars>>

\* The entry goes by path: a file created under the old name since loses its own.
RenameIndex ==
  /\ mover.pc = "index"
  /\ Rekey(mover.src, mover.dst)
  /\ renameTargets' = renameTargets \ {mover.dst}
  /\ MoverReturns("ok")
  /\ Flag(IF session[mover.src].open THEN {"forget"} ELSE {})
  /\ UNCHANGED <<session, name, data, sidecars, tombstones, storeVars, handle, worker,
                 countVars, content>>

RenameStagedPath ==
  \/ RenameStat \/ RenameDropEntry \/ RenameIntent \/ RenameMove
  \/ RenameRestore \/ RenameTombstone \/ RenameSession \/ RenameIndex

-----------------------------------------------------------------------------
\* The bucket rename (posix.RenameFile and renameDirectory).

\* Stat asks the bucket alone, and does not see what is deleted there already.
InBucket(d) == {p \in objects : p[1] = d}

\* A rename that fails here has discarded what was staged at its destination.
BucketFails ==
  /\ mover' = IF mover.kind = "dir" THEN [mover EXCEPT !.pc = "undo", !.undoing = TRUE]
              ELSE IdleMover
  /\ Flag(IF mover.discarded THEN {"discarded"} ELSE {})

\* Mutant: a directory whose staged files have moved is not looked for in the
\* bucket.
BucketStat_StagedOnly ==
  /\ mover.pc = "bstat"
  /\ IF mover.moved # <<>> THEN MoverTo("release")
     ELSE mover' = [mover EXCEPT !.pc = "bcopy", !.keys = InBucket(mover.from),
                                 !.todo = InBucket(mover.from)]
  /\ UNCHANGED filesVars

\* The source is looked up, and for a directory the destination and the keys.
\* A directory with nothing in the bucket is still renamed if staged files moved.
BucketStat ==
  LET keys == IF mover.kind = "dir" THEN InBucket(mover.from)
              ELSE objects \intersect {mover.src}
      seen == IF mover.kind = "dir" THEN keys \ tombstones ELSE keys
      taken == mover.kind = "dir" /\ InBucket(mover.to) \ tombstones # {}
  IN  /\ mover.pc = "bstat"
      /\ \/ /\ mover.kind = "file" /\ mover.src = mover.dst
            /\ mover' = IdleMover /\ UNCHANGED breach
         \/ /\ seen # {} /\ ~taken /\ (mover.kind = "file" => mover.src # mover.dst)
            /\ mover' = [mover EXCEPT !.pc = "bcopy", !.keys = keys, !.todo = keys]
            /\ UNCHANGED breach
         \/ /\ seen = {} /\ mover.moved # <<>>
            /\ MoverTo("release") /\ UNCHANGED breach
         \/ BucketFails
      /\ UNCHANGED <<indexVars, stagingVars, storeVars, handle, worker, countVars, content>>

\* A session that outlived its upload, of a file the bucket rename moves: it
\* stays listed, and answers for its path with its own bytes.
Lingers(p) == session[p].open /\ ~IsDirty(p)

\* The object at t is replaced under a session of t's own, one that outlived its
\* upload or one opened since the destination was looked at.
Occupied(k, t) ==
  session[t].open /\ t \notin mover.claims

\* Objects are copied several at a time, in any order.  A key that is gone, or
\* in a directory has a pending delete, is not copied.
BucketCopy ==
  /\ mover.pc = "bcopy"
  /\ \/ \E k \in mover.todo :
          LET t == Target(k)
              skip == k \notin objects \/ (mover.kind = "dir" /\ HasPendingDelete(k))
          IN  \/ /\ ~skip
                 /\ PutObject(t, cos[k])
                 /\ mover' = [mover EXCEPT !.todo = @ \ {k}, !.copied[k] = cos[k]]
                 /\ content' = IF session[t].open THEN content ELSE [content EXCEPT ![t] = cos[k]]
                 /\ Flag((IF Lingers(k) THEN {"lingering"} ELSE {})
                         \union (IF Occupied(k, t) THEN {"overtaken"} ELSE {}))
              \/ /\ skip /\ mover.kind = "dir"
                 /\ mover' = [mover EXCEPT !.todo = @ \ {k}]
                 /\ UNCHANGED <<storeVars, ghostVars>>
     \/ /\ mover.todo = {}
        /\ mover' = [mover EXCEPT !.pc = "bdelete", !.todo = mover.keys]
        /\ UNCHANGED <<storeVars, ghostVars>>
     \/ /\ mover.todo # {}
        /\ BucketFails
        /\ UNCHANGED <<storeVars, content>>
  /\ UNCHANGED <<indexVars, stagingVars, handle, worker, countVars>>

\* The object deleted is not the one that was copied.
Outrun(k) == ~HasPendingDelete(k) /\ k \in objects /\ cos[k] # mover.copied[k]

BucketDelete ==
  /\ mover.pc = "bdelete"
  /\ \/ \E k \in mover.todo :
          /\ DeleteObject(k)
          /\ mover' = [mover EXCEPT !.todo = @ \ {k}]
          /\ content' = [content EXCEPT ![k] = @ \ mover.copied[k]]
          /\ Flag(IF Outrun(k) THEN {"outrun"} ELSE {})
     \/ /\ mover.todo = {}
        /\ mover' = IF mover.kind = "dir" THEN [mover EXCEPT !.pc = "release"] ELSE IdleMover
        /\ UNCHANGED <<storeVars, ghostVars>>
     \/ /\ mover.todo # {}
        /\ BucketFails
        /\ UNCHANGED <<storeVars, content>>
  /\ UNCHANGED <<indexVars, stagingVars, handle, worker, countVars>>

-----------------------------------------------------------------------------
\* rename, of a file.  A staged source is re-keyed; a clean one goes through
\* the bucket, once what is staged at the destination has been discarded.
RenameFile(o, n) ==
  /\ mover.pc = "idle" /\ ~HasPendingDelete(o)
  /\ mover' = [IdleMover EXCEPT !.kind = "file", !.src = o, !.dst = n,
                                !.pc = IF IsDirty(o) THEN "stat" ELSE "discard"]
  /\ UNCHANGED filesVars

\* The source's object goes at once, unless an upload of it is in flight.
RenameClaim ==
  LET o == mover.src
  IN  /\ mover.pc = "claim"
      /\ \/ o \in syncing /\ mover' = IdleMover /\ UNCHANGED indexVars
         \/ LockFile(o) /\ MoverTo("delete")
      /\ UNCHANGED <<stagingVars, elsewhere>>

RenameDelete ==
  /\ mover.pc = "delete"
  /\ \/ DeleteObject(mover.src) /\ MoverTo("resolve")
     \/ MoverTo("unclaim") /\ UNCHANGED storeVars
  /\ Flag(IF DeletesNew(mover.src) THEN {"delete"} ELSE {})
  /\ UNCHANGED <<indexVars, stagingVars, handle, worker, countVars, content>>

RenameResolve ==
  /\ mover.pc = "resolve"
  /\ tombstones' = tombstones \ {mover.src}
  /\ MoverTo("unclaim")
  /\ UNCHANGED <<indexVars, session, name, data, sidecars, renameTargets, elsewhere>>

\* The claim the mover drops is the worker's.
StealsFrom(p) == worker.claim /\ worker.path = p

\* The end of a file's rename, or of a copy that claimed its destination.
RenameUnclaim ==
  LET p == IF mover.kind = "copy" THEN mover.dst ELSE mover.src
  IN  /\ mover.pc = "unclaim"
      /\ UnlockFile(p)
      /\ mover' = IdleMover
      /\ Flag(IF StealsFrom(p) THEN {"claim"} ELSE {})
      /\ UNCHANGED <<stagingVars, storeVars, handle, worker, countVars, content>>

\* discardStagedDestination, and the busy answer while an upload is in flight.
DiscardDestination ==
  LET n == mover.dst
  IN  /\ mover.pc = "discard"
      /\ \/ ~IsDirty(n) /\ MoverTo("canceldst") /\ UNCHANGED indexVars
         \/ IsDirty(n) /\ n \in syncing /\ mover' = IdleMover /\ UNCHANGED indexVars
         \/ IsDirty(n) /\ LockFile(n) /\ MoverTo("forget")
      /\ UNCHANGED <<stagingVars, elsewhere>>

DiscardForget ==
  LET n == mover.dst
  IN  /\ mover.pc = "forget"
      /\ DropDirtyEntry(n)
      /\ mover' = [mover EXCEPT !.pc = "cleanup", !.discarded = TRUE]
      /\ content' = [content EXCEPT ![n] = {}]
      /\ UNCHANGED <<session, name, data, tombstones, renameTargets, storeVars, handle,
                     worker, countVars, breach>>

DiscardCleanup ==
  LET n == mover.dst
      refused == (IsDirty(n) /\ n \in syncing) \/ ~Stays(n)
  IN  /\ mover.pc = "cleanup"
      /\ MoverTo("canceldst")
      /\ \/ /\ refused
            /\ UNCHANGED <<indexVars, session, name, sidecars, handle, worker, breach>>
         \/ /\ ~refused
            /\ RemoveSession(n)
            /\ DropDirtyEntry(n)
            /\ worker' = Orphan(worker, n)
            /\ Flag(IF content[n] # {} THEN {"cleanup"} ELSE {})
      /\ UNCHANGED <<data, tombstones, renameTargets, storeVars, countVars, content>>

DiscardDone ==
  LET n == mover.dst
  IN  /\ mover.pc = "canceldst"
      /\ IF mover.discarded THEN UnlockFile(n) ELSE UNCHANGED indexVars
      /\ tombstones' = tombstones \ {n}
      /\ MoverTo("bstat")
      /\ Flag(IF mover.discarded /\ StealsFrom(n) THEN {"claim"} ELSE {})
      /\ UNCHANGED <<session, name, data, sidecars, renameTargets, storeVars, handle, worker,
                     countVars, content>>

-----------------------------------------------------------------------------
\* dirtyStagedChildren
Children(d) == {p \in Paths : p[1] = d /\ IsDirty(p) /\ ~HasPendingDelete(p)}

\* rename, of a directory.  The destination must not exist, in staging or in
\* the bucket; staged files go first, then the bucket's objects.
RenameDirectory(d, e) ==
  /\ mover.pc = "idle" /\ d # e
  /\ Children(e) = {}
  /\ Children(d) # {} => InBucket(e) \ tombstones = {}
  /\ mover' = [IdleMover EXCEPT !.kind = "dir", !.from = d, !.to = e, !.todo = Children(d),
                                !.pc = IF Children(d) = {} THEN "bstat" ELSE "next"]
  /\ UNCHANGED filesVars

\* The next staged file, in the order of their names, which is any order here.
\* Its target is claimed, if it can be, to keep it from syncing.
NextChild ==
  /\ mover.pc = "next"
  /\ \/ /\ mover.todo = {}
        /\ MoverTo("bstat")
        /\ UNCHANGED indexVars
     \/ \E c \in mover.todo :
          LET t == Target(c)
          IN  \/ /\ LockFile(t)
                 /\ mover' = [mover EXCEPT !.pc = "stat", !.src = c, !.dst = t,
                                           !.todo = @ \ {c}, !.claims = @ \union {t}]
              \/ /\ t \in syncing
                 /\ mover' = [mover EXCEPT !.pc = "stat", !.src = c, !.dst = t,
                                           !.todo = @ \ {c}]
                 /\ UNCHANGED indexVars
  /\ UNCHANGED <<stagingVars, elsewhere>>

\* Mutant: the files moved so far stay where they are.
UndoNext_Stays ==
  /\ mover.pc = "undo"
  /\ MoverTo("release")
  /\ UNCHANGED filesVars

\* The files moved so far go back, the last one first.
UndoNext ==
  LET m == mover.moved
      c == m[Len(m)]
  IN  /\ mover.pc = "undo"
      /\ mover' = IF m = <<>> THEN [mover EXCEPT !.pc = "release"]
                  ELSE [mover EXCEPT !.pc = "stat", !.src = Target(c), !.dst = c,
                                     !.moved = SubSeq(m, 1, Len(m) - 1)]
      /\ UNCHANGED filesVars

\* RenameStagedPath is over, for the file or for one file of the directory.
\* A file that cannot be moved back stays under its new name.
Returned ==
  LET r == mover.result
      drop == mover.kind = "dir" /\ ~mover.undoing /\ r # "ok" /\ mover.dst \in mover.claims
  IN  /\ mover.pc = "return"
      /\ \/ /\ mover.kind = "file"
            /\ mover' = IF r = "error" THEN IdleMover
                        ELSE [mover EXCEPT !.pc = IF r = "ok" THEN "claim" ELSE "discard"]
            /\ UNCHANGED breach
         \/ /\ mover.kind = "dir" /\ mover.undoing
            /\ MoverTo("undo")
            /\ Flag(IF r = "ok" THEN {} ELSE {"stuck"})
         \/ /\ mover.kind = "dir" /\ ~mover.undoing
            /\ mover' = [mover EXCEPT
                 !.pc = IF r = "error" THEN "undo" ELSE "next",
                 !.undoing = r = "error",
                 !.claims = IF drop THEN @ \ {mover.dst} ELSE @,
                 !.moved = IF r = "ok" THEN Append(@, mover.src) ELSE @]
            /\ Flag(IF drop /\ StealsFrom(mover.dst) THEN {"claim"} ELSE {})
      /\ IF drop THEN UnlockFile(mover.dst) ELSE UNCHANGED indexVars
      /\ UNCHANGED <<stagingVars, storeVars, handle, worker, countVars, content>>

Release ==
  /\ mover.pc = "release"
  /\ syncing' = syncing \ mover.claims
  /\ mover' = IdleMover
  /\ Flag(IF \E p \in mover.claims : StealsFrom(p) THEN {"claim"} ELSE {})
  /\ UNCHANGED <<dirty, recorded, generation, stagingVars, storeVars, handle, worker,
                 countVars, content>>

-----------------------------------------------------------------------------
\* copyFile.  Only a clean source is copied, and a destination staged but never
\* written is discarded first, under its claim.
CopyFile(o, n) ==
  /\ mover.pc = "idle" /\ o # n
  /\ ~IsDirty(o) /\ {o, n} \intersect tombstones = {}
  /\ \/ /\ session[n].open \/ IsDirty(n)
        /\ LockFile(n)
        /\ mover' = [IdleMover EXCEPT !.kind = "copy", !.src = o, !.dst = n, !.pc = "cdiscard",
                                      !.claims = {n}]
     \/ /\ ~session[n].open /\ ~IsDirty(n)
        /\ mover' = [IdleMover EXCEPT !.kind = "copy", !.src = o, !.dst = n, !.pc = "copy"]
        /\ UNCHANGED indexVars
  /\ UNCHANGED <<stagingVars, elsewhere>>

HoldsNoWrittenData(p) == data[session[p].file] = {}

\* DiscardUnwrittenSession, up to the end of the manager's lock.
CopyDiscard ==
  LET n == mover.dst
      ok == session[n].open /\ session[n].refs = 0 /\ HoldsNoWrittenData(n)
  IN  /\ mover.pc = "cdiscard"
      /\ \/ /\ ok
            /\ session' = [session EXCEPT ![n] = NoSession]
            /\ handle' = Orphan(handle, n)
            /\ worker' = Orphan(worker, n)
            /\ mover' = [mover EXCEPT !.pc = "cfiles", !.discarded = TRUE]
         \/ /\ ~ok
            /\ MoverTo(IF session[n].open \/ IsDirty(n) THEN "unclaim" ELSE "copy")
            /\ UNCHANGED <<session, handle, worker>>
      /\ UNCHANGED <<indexVars, name, data, sidecars, tombstones, renameTargets, storeVars,
                     countVars, ghostVars>>

\* The entry goes, and the files go by name, whoever has opened the path since.
CopyRemoveFiles ==
  LET n == mover.dst
  IN  /\ mover.pc = "cfiles"
      /\ DropEntry(n)
      /\ name' = [name EXCEPT ![n] = NoFile]
      /\ sidecars' = sidecars \ {n}
      /\ MoverTo("copy")
      /\ Flag(IF session[n].open THEN {"unlink"} ELSE {})
      /\ UNCHANGED <<session, data, tombstones, renameTargets, storeVars, handle,
                     worker, countVars, content>>

\* A destination nobody had staged is not claimed, and may be opened and synced
\* before the copy lands.
CopyObject ==
  LET after == IF mover.claims = {} THEN IdleMover ELSE [mover EXCEPT !.pc = "unclaim"]
  IN  /\ mover.pc = "copy"
      /\ \/ /\ mover.src \in objects
            /\ PutObject(mover.dst, cos[mover.src])
            /\ content' = IF session[mover.dst].open THEN content
                          ELSE [content EXCEPT ![mover.dst] = cos[mover.src]]
            /\ mover' = after
            /\ Flag(IF session[mover.dst].open /\ mover.claims = {} THEN {"overtaken"} ELSE {})
         \/ /\ mover' = IF mover.discarded THEN [mover EXCEPT !.pc = "crestore"] ELSE after
            /\ UNCHANGED <<storeVars, ghostVars>>
      /\ UNCHANGED <<indexVars, stagingVars, handle, worker, countVars>>

\* RestoreUnwrittenSession: a session opened since is newer, and is kept.
CopyRestore ==
  LET n == mover.dst
  IN  /\ mover.pc = "crestore"
      /\ \/ /\ session[n].open
            /\ MoverTo("unclaim")
            /\ UNCHANGED <<session, name, data, sidecars>>
         \/ /\ ~session[n].open
            /\ OpenSession(n, 0)
            /\ MoverTo("cmark")
      /\ UNCHANGED <<indexVars, tombstones, renameTargets, elsewhere>>

CopyMarkDirty ==
  LET n == mover.dst
  IN  /\ mover.pc = "cmark"
      /\ IF CanMarkDirtyAgain(n) THEN MarkDirtyAgain(n) ELSE MarkDirtyWithState(n, TRUE)
      /\ sidecars' = sidecars \union {n}
      /\ MoverTo("unclaim")
      /\ UNCHANGED <<session, name, data, tombstones, renameTargets, elsewhere>>

Begin(m) ==
  /\ asked' = asked \ {m}
  /\ \/ m[1] = "file" /\ RenameFile(m[2], m[3])
     \/ m[1] = "copy" /\ CopyFile(m[2], m[3])
     \/ m[1] = "dir" /\ RenameDirectory(m[2][1], m[3][1])
  /\ UNCHANGED crashes

Move ==
  \/ RenameStagedPath
  \/ RenameClaim \/ RenameDelete \/ RenameResolve \/ RenameUnclaim
  \/ DiscardDestination \/ DiscardForget \/ DiscardCleanup \/ DiscardDone
  \/ BucketStat \/ BucketCopy \/ BucketDelete
  \/ NextChild \/ Returned \/ UndoNext \/ Release
  \/ CopyDiscard \/ CopyRemoveFiles \/ CopyObject \/ CopyRestore
  \/ CopyMarkDirty

\* A crash in the middle of a rename or copy; WriteBack has the others.
Crash ==
  /\ crashes < MaxCrashes /\ mover.pc # "idle"
  /\ crashes' = crashes + 1
  /\ Restart
  /\ mover' = IdleMover
  /\ Flag({IF mover.discarded THEN "discarded" ELSE "linger"})
  /\ UNCHANGED asked

Next ==
  \/ (Client \/ Sync) /\ UNCHANGED <<mover, asked, crashes>>
  \/ \E m \in asked : Begin(m)
  \/ Move /\ UNCHANGED <<asked, crashes>>
  \/ Crash

Spec == Init /\ [][Next]_vars

-----------------------------------------------------------------------------
\* Properties.  breach names what has happened that the code does not guard
\* against; the README describes the kinds one by one.  Some leave stale bytes
\* behind, or a directory rename half done, but lose none.
Harmless == {"linger", "discarded", "stuck"}

Intact == breach \subseteq Harmless

\* Staged bytes are on their way from mover.src to p.
MovingTo(p) == mover.dst = p /\ mover.pc \in {"tomb", "session", "index"}

\* What a reader of p gets, under either name while p's bytes are being moved.
Seen(p) ==
  IF MovingTo(p) /\ name[p] # NoFile THEN data[name[p]] \union Visible(p) ELSE Visible(p)

\* Renaming, copying and replacing files never loses the bytes of a file that
\* is still there (RenameStagedPath, discardStagedDestination, copyFile): every
\* path has, for its readers, what clients were told it has.
NothingLost == Intact => \A p \in Paths : content[p] \subseteq Seen(p)

\* "The worst crash window leaves both names visible - never data loss"
\* (RenameStagedPath's ordering, restorePathMetadata): whenever the gateway
\* stops, a restart has the bytes of every path, those of a file half renamed
\* under its new name.
NothingLostByCrash == Intact => \A p \in Paths : content[p] \subseteq AfterRestart(p)

StagedTags == {Staged(p) : p \in Paths}

\* Undo (renameDirectoryWithStagedFiles): when a directory rename fails, no
\* staged file it moved is left under the new name, queued to sync there.
FailedRenamePutsBack ==
  mover.pc = "release" /\ mover.undoing /\ breach = {} =>
    \A p \in Paths : p[1] = mover.to /\ IsDirty(p) => content[p] \intersect StagedTags = {}

\* A directory rename that succeeds takes along every staged file the directory
\* had (renameDirectoryWithStagedFiles, whether the file was re-keyed or synced
\* in the meantime and moved in the bucket).
RenameTakesAll ==
  mover.pc = "release" /\ ~mover.undoing /\ breach = {} =>
    \A p \in Paths : p[1] = mover.from => content[p] \intersect StagedTags = {}

Quiescent ==
  /\ handle.pc = "idle" /\ worker.pc = "idle" /\ mover.pc = "idle"
  /\ tombstones = {} /\ \A p \in Paths : ~IsDirty(p)

\* Once everything has synced the bucket holds each file under its own name and
\* nothing under a name it was renamed from, or that was renamed over
\* (tombstones, Invalidate, Rekey, discardStagedDestination).
BucketSettles ==
  Quiescent /\ breach = {} =>
    \A p \in Paths : /\ content[p] \subseteq cos[p]
                     /\ cos[p] \intersect (Tags \ {<<"write", w>> : w \in Writes}) \subseteq content[p]

=============================================================================
