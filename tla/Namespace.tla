----------------------------- MODULE Namespace -----------------------------
(***************************************************************************)
(* The names clients see: Stat, ReadDir, Remove, Mkdir and attribute       *)
(* changes of the filesystem (internal/vfs/filesystem.go) over the bucket, *)
(* the staged files, the metadata cache (internal/posix/operations.go) and *)
(* the listings the NFS server keeps (internal/nfs/cached_filesystem.go).  *)
(*                                                                         *)
(* A file's bytes and attributes are a version, 0 when it is not there.    *)
(* Every request to the bucket is a step that may fail, every critical     *)
(* section of a cache, of a fence or of the staging manager is a step, and *)
(* clients and the sync worker interleave at all of them.                  *)
(*                                                                         *)
(* An answer is right when it was true at some moment between the call and *)
(* the return.  While a change is under way either side of it is, and      *)
(* may[k] is what k may be said to be; seen[c] collects it over c's call.  *)
(***************************************************************************)
EXTENDS MetadataCache

CONSTANTS
  NfsClients, SmbClients,   \* the clients, by the protocol they came in with
  Worker,                   \* the sync worker
  MaxChanges                \* bound: how many changes the clients make

Clients == NfsClients \union SmbClients
Procs == Clients \union {Worker}

VARIABLES
  object,           \* object[f]: the version in the bucket
  marker,           \* whether the bucket has the directory's marker
  session,          \* session[f]: the version staged, 0 without a session
  dirty,            \* files whose staged version the bucket lacks
  claimed,          \* files under the sync worker's claim
  deletes,          \* files with a pending delete
  nfsListing,       \* the listing the NFS server keeps
  nfsGeneration,    \* how many changes it was told of
  proc,             \* proc[p]: the operation p is in the middle of
  changes,          \* how many changes were made
  may, seen,        \* what may be answered now, and over a client's call
  breach            \* what the code does not keep apart and has happened

storeVars == <<object, marker>>
stagingVars == <<session, dirty, claimed, deletes>>
nfsVars == <<nfsListing, nfsGeneration>>
nameVars == <<storeVars, stagingVars, nfsVars, proc, changes, may, seen, breach>>

\* What a lookup answers besides a version: the name alone (from a listing of
\* its directory), or an I/O error.
Listed == MaxChanges + 3
Failed == MaxChanges + 4

NewVersion == changes + 2

NoListing == [kept |-> FALSE, names |-> {}]

NoOp == [op |-> "none", pc |-> "idle", key |-> Dir, generation |-> 0, value |-> 0,
         failed |-> FALSE, names |-> {}, staged |-> {}, counted |-> 0,
         late |-> FALSE, todo |-> <<>>]

Staged == {f \in Files : session[f] # 0}
Objects == {f \in Files : object[f] # 0}

\* What there is to be said of a file: a pending delete hides it, staged bytes
\* come before the bucket's.  The directory is there when the bucket has its
\* marker or a file in it, and may be said to be when a file is staged in it.
FileIs(f) == IF f \in deletes THEN 0 ELSE IF session[f] # 0 THEN session[f] ELSE object[f]

DirIsThere == marker \/ Objects \ deletes # {}

TrueOf(k) ==
  IF k \in Files THEN {FileIs(k)}
  ELSE (IF DirIsThere THEN {1} ELSE {0}) \union (IF Staged \ deletes # {} THEN {1} ELSE {})

\* p's operation is changing what is to be said of k.  The sync worker moves a
\* version from the staging area to the bucket: only the directory changes.
Changing(p, k) ==
  /\ proc[p].op \in {"write", "remove", "setattr", "mkdir", "sync", "retire"}
  /\ \/ k = Dir
     \/ proc[p].key = k /\ p # Worker

\* The keys an answer of c's operation is about.
Asked(c) ==
  CASE proc[c].op = "stat" -> {proc[c].key}
    [] proc[c].op = "readdir" -> Files
    [] proc[c].op = "remove" /\ proc[c].key = Dir -> Files
    [] OTHER -> {}

NoneSeen == [k \in Keys |-> {}]

\* A file is being removed: its object may have gone and its session not yet.
Leaving(k) == IF \E c \in Clients : proc[c].op = "remove" /\ proc[c].key = k THEN {0} ELSE {}

\* How may and seen follow every step.
Witnessed ==
  /\ may' = [k \in Keys |->
       IF \E p \in Procs : Changing(p, k)'
       THEN may[k] \union TrueOf(k)' \union Leaving(k)' ELSE TrueOf(k)']
  /\ seen' = [c \in Clients |-> [k \in Keys |->
       IF k \in Asked(c)'
       THEN may'[k] \union (IF proc[c].op = "none" THEN may[k] ELSE seen[c][k]) ELSE {}]]

NamespaceInit ==
  /\ CacheInit
  /\ object \in [Files -> {0, 1}]
  /\ marker \in BOOLEAN
  /\ session = [f \in Files |-> 0]
  /\ dirty = {} /\ claimed = {} /\ deletes = {}
  /\ nfsListing = NoListing /\ nfsGeneration = 0
  /\ proc = [p \in Procs |-> NoOp]
  /\ changes = 0
  /\ may = [k \in Keys |-> TrueOf(k)]
  /\ seen = [c \in Clients |-> NoneSeen]
  /\ breach = {}

-----------------------------------------------------------------------------
(* How an operation moves on.                                              *)

At(p, pc) == proc[p].pc = pc /\ proc[p].todo = <<>>

Becomes(p, r) == proc' = [proc EXCEPT ![p] = r]

Goto(p, pc) == Becomes(p, [proc[p] EXCEPT !.pc = pc])

Start(p, op, k, pc) ==
  /\ proc[p] = NoOp
  /\ Becomes(p, [NoOp EXCEPT !.op = op, !.key = k, !.pc = pc])

\* p returns once it has done what is left to do.
Finished(p, r, todo) ==
  Becomes(p, IF todo = <<>> THEN NoOp ELSE [r EXCEPT !.pc = "idle", !.todo = todo])

Return(c) ==
  /\ At(c, "done")
  /\ Becomes(c, NoOp)
  /\ UNCHANGED <<cacheVars, storeVars, stagingVars, nfsVars, changes, breach>>

Breach(b) == breach' = breach \union b

Unless(b, cond) == IF cond THEN {} ELSE {b}

-----------------------------------------------------------------------------
(* Invalidation, as the steps it is made of.                               *)

Do(what, k) == [do |-> what, key |-> k]

\* invalidateObjectPath, for a change of f: the lookups under way of f and the
\* listings under way of the directory are fenced, each after the entry went.
InvalidateObjectPath(f) ==
  <<Do("delete", f), Do("lookups", f), Do("delete", Dir), Do("listings", Dir)>>

\* Mutant: the lookups under way are left alone.
InvalidateObjectAfterSync_NoFence(f) ==
  <<Do("delete", f), Do("listings", Dir), Do("unlisted", f)>>

\* InvalidateObjectAfterSync: the listing stays when it names f already.
InvalidateObjectAfterSync(f) ==
  <<Do("delete", f), Do("lookups", f), Do("listings", Dir), Do("unlisted", f)>>

\* invalidateDirectoryMutation: the lookups of the directory and of everything
\* below are fenced, the listings under way of the directory are not.
InvalidateDirectoryMutation ==
  <<Do("delete", Dir), Do("prefix", Dir), Do("lookups", Dir), Do("below", Dir)>>

\* UpdateAttributes only calls InvalidatePath: nothing is fenced.
InvalidatePath(f) == <<Do("unfenced", f), Do("delete", Dir)>>

\* Mutant: the NFS server keeps its listing.
Changed_Kept(p) == <<>>

\* changed of the NFS filesystem, deferred past the operation it wraps.  A new
\* directory's own listing stays.
Counted(p) == IF p \in NfsClients THEN <<Do("count", Dir)>> ELSE <<>>

Changed(p) == IF p \in NfsClients THEN <<Do("count", Dir), Do("drop", Dir)>> ELSE <<>>

\* An answer that q is about to store under k, having passed the fence.
Storing(q, k) ==
  \/ proc[q].pc = "store" /\ proc[q].key = k
  \/ proc[q].pc = "keep" /\ k = Dir

\* A lookup of the directory is not fenced when one of its files changes, which
\* matters where there is no marker: the files are what makes it exist.
Implicit(p, k) ==
  Unless("implicit", k \in Files \/ proc[p].key = Dir \/ marker \/ lookups[Dir].inFlight = 0)

\* One step of what p has left to do.  None of it reaches the answers that are
\* about to be stored.
InvalidationStep(p) ==
  LET s == Head(proc[p].todo)
      left == (IF s.do = "unlisted" /\ ~ListingHas(s.key) THEN <<Do("delete", Dir)>> ELSE <<>>)
              \o Tail(proc[p].todo)
      moved == IF left = <<>> /\ proc[p].pc = "idle" THEN NoOp
               ELSE [proc[p] EXCEPT !.todo = left]
  IN  /\ proc[p].todo # <<>>
      /\ proc' = [q \in Procs |->
           IF q = p THEN moved
           ELSE IF s.do \in {"delete", "lookups", "listings"} /\ Storing(q, s.key) THEN [proc[q] EXCEPT !.late = TRUE]
           ELSE proc[q]]
      /\ \/ /\ s.do = "delete"
            /\ CacheDelete(s.key)
            /\ Breach(Implicit(p, s.key))
            /\ UNCHANGED <<lookups, listings, nfsVars>>
         \/ /\ s.do = "prefix"
            /\ InvalidatePrefix
            /\ UNCHANGED <<lookups, listings, nfsVars, breach>>
         \/ /\ s.do \in {"lookups", "below"}
            /\ lookups' = Invalidate(lookups, IF s.do = "below" THEN Files ELSE {s.key})
            /\ UNCHANGED <<entry, listings, nfsVars, breach>>
         \/ /\ s.do = "listings"
            /\ listings' = Invalidate(listings, {Dir})
            /\ Breach(Implicit(p, Dir))
            /\ UNCHANGED <<entry, lookups, nfsVars>>
         \/ /\ s.do = "unlisted"
            /\ UNCHANGED <<cacheVars, nfsVars, breach>>
         \/ /\ s.do = "unfenced"
            /\ CacheDelete(s.key)
            /\ Breach(Unless("attributes", /\ lookups[s.key].inFlight = 0
                                           /\ \A q \in Procs : ~Storing(q, s.key)))
            /\ UNCHANGED <<lookups, listings, nfsVars>>
         \/ /\ s.do = "count"
            /\ nfsGeneration' = nfsGeneration + 1
            /\ UNCHANGED <<cacheVars, nfsListing, breach>>
         \/ /\ s.do = "drop"
            /\ nfsListing' = NoListing
            /\ Breach(Unless("kept", \A q \in Procs : proc[q].pc # "nfskeep"))
            /\ UNCHANGED <<cacheVars, nfsGeneration>>
      /\ UNCHANGED <<storeVars, stagingVars, changes>>

-----------------------------------------------------------------------------
(* Stat.                                                                   *)

\* What follows the answer of a lookup: Remove treats a path that is not there
\* as removed, and goes on to delete the object, or to list the directory.
Resume(r, v) ==
  CASE r.op = "stat" -> [r EXCEPT !.pc = "done", !.value = v]
    [] r.op = "setattr" -> IF v \in {0, Failed} THEN NoOp ELSE [r EXCEPT !.pc = "copy"]
    [] r.op = "remove" /\ r.key \in Files ->
         IF v \in {0, Failed} THEN NoOp ELSE [r EXCEPT !.pc = "delete"]
    [] r.op = "remove" /\ r.key = Dir ->
         IF v \in {0, Failed} THEN [r EXCEPT !.pc = "done", !.value = Failed]
         ELSE [r EXCEPT !.pc = "listing", !.generation = 0, !.failed = FALSE, !.late = FALSE]

\* statPath: a pending delete hides the path, a session answers for it.
AskStaging(r) ==
  IF r.key \in deletes THEN Resume(r, 0)
  ELSE IF r.key \in Staged THEN Resume(r, session[r.key])
  ELSE [r EXCEPT !.pc = "cache"]

Stat(c, k) ==
  /\ proc[c] = NoOp
  /\ Becomes(c, AskStaging([NoOp EXCEPT !.op = "stat", !.key = k]))
  /\ UNCHANGED <<cacheVars, storeVars, stagingVars, nfsVars, changes, breach>>

RemoveStat(c) ==
  /\ At(c, "staging")
  /\ Becomes(c, AskStaging(proc[c]))
  /\ UNCHANGED <<cacheVars, storeVars, stagingVars, nfsVars, changes, breach>>

\* What a cache entry says of its path.
Says(e) == CASE e.kind = "negative" -> 0 [] e.kind = "file" -> e.version [] OTHER -> 1

StatCached(c) ==
  LET k == proc[c].key
  IN  /\ At(c, "cache")
      /\ \/ /\ Hit(k)
            /\ Becomes(c, Resume(proc[c], Says(entry[k])))
            /\ UNCHANGED lookups
         \/ /\ ~Hit(k)
            /\ lookups' = Begin(lookups, k)
            /\ Becomes(c, [proc[c] EXCEPT !.pc = "head", !.generation = lookups[k].generation])
      /\ UNCHANGED <<entry, listings, storeVars, stagingVars, nfsVars, changes, breach>>

\* The HEADs of the path and of its marker.  Nothing is below a file, so for a
\* file the LIST that follows finds nothing.
StatHead(c) ==
  LET r == proc[c]
      there == IF r.key = Dir THEN IF marker THEN 1 ELSE 0 ELSE object[r.key]
  IN  /\ At(c, "head")
      /\ \/ Becomes(c, [r EXCEPT !.value = there,
                                 !.pc = IF there = 0 /\ r.key = Dir THEN "list" ELSE "end"])
         \/ Becomes(c, [r EXCEPT !.failed = TRUE, !.pc = IF r.key = Dir THEN "list" ELSE "stale"])
      /\ UNCHANGED <<cacheVars, storeVars, stagingVars, nfsVars, changes, breach>>

\* The LIST below the directory: of one object, and when that one is waiting to
\* be deleted, of all of them.
Below(pc) == IF pc = "listall" \/ Objects = {} THEN {Objects} ELSE {{f} : f \in Objects}

StatList(c) ==
  LET r == proc[c]
  IN  /\ r.pc \in {"list", "listall"}
      /\ \/ \E found \in Below(r.pc) :
              Becomes(c, [r EXCEPT !.names = found, !.pc = IF @ = "list" THEN "first" ELSE "all"])
         \/ Becomes(c, [r EXCEPT !.pc = "stale"])
      /\ UNCHANGED <<cacheVars, storeVars, stagingVars, nfsVars, changes, breach>>

StatFilter(c) ==
  LET r == proc[c]
      visible == r.names \ deletes
      none == [r EXCEPT !.names = {}, !.pc = IF r.failed THEN "stale" ELSE "end"]
  IN  /\ r.pc \in {"first", "all"}
      /\ Becomes(c, IF visible # {} THEN [r EXCEPT !.names = {}, !.value = 1, !.pc = "end"]
                    ELSE IF r.pc = "first" /\ r.names # {}
                    THEN [r EXCEPT !.names = {}, !.pc = "listall"] ELSE none)
      /\ UNCHANGED <<cacheVars, storeVars, stagingVars, nfsVars, changes, breach>>

\* The bucket could not say: an entry of any age does, then a listing of the
\* directory, then (for the filesystem's Stat) what is staged.
StatStale(c) ==
  LET k == proc[c].key
      staged == IF proc[c].op = "setattr" THEN Failed
                ELSE IF k = Dir THEN IF Staged \ deletes # {} THEN 1 ELSE Failed
                ELSE IF session[k] # 0 THEN session[k] ELSE Failed
  IN  /\ At(c, "stale")
      /\ lookups' = End(lookups, k)
      /\ Becomes(c, Resume(proc[c],
           IF Known(k) THEN Says(entry[k])
           ELSE IF k \in Files /\ entry[Dir].listed
           THEN IF k \in entry[Dir].names THEN Listed ELSE 0
           ELSE staged))
      /\ UNCHANGED <<entry, listings, storeVars, stagingVars, nfsVars, changes, breach>>

\* An entry that was dropped while the fence has yet to be raised.
HalfDropped(k, fence) ==
  \E q \in Procs : \E i \in DOMAIN proc[q].todo :
    /\ proc[q].todo[i].do = fence /\ proc[q].todo[i].key = k
    /\ \A j \in DOMAIN proc[q].todo : proc[q].todo[j] # Do("delete", k)

StatEnd(c) ==
  LET r == proc[c]
  IN  /\ At(c, "end") /\ r.op # "readdir"
      /\ lookups' = End(lookups, r.key)
      /\ Becomes(c, IF Unchanged(lookups, r.key, r.generation)
                    THEN [r EXCEPT !.pc = "store", !.late = HalfDropped(r.key, "lookups")]
                    ELSE Resume(r, r.value))
      /\ UNCHANGED <<entry, listings, storeVars, stagingVars, nfsVars, changes, breach>>

StatStore(c) ==
  LET r == proc[c]
  IN  /\ At(c, "store")
      /\ CacheSet(r.key, IF r.value = 0 THEN NegativeEntry
                         ELSE IF r.key = Dir THEN DirEntry ELSE FileEntry(r.value))
      /\ Breach(Unless("slipped", ~r.late))
      /\ Becomes(c, Resume(r, r.value))
      /\ UNCHANGED <<lookups, listings, storeVars, stagingVars, nfsVars, changes>>

-----------------------------------------------------------------------------
(* ReadDir, and the listing Remove takes of a directory.                   *)

\* What follows ListDirectory.  Remove has to find the directory empty.
ResumeListed(r, names) ==
  IF r.op = "readdir" THEN [r EXCEPT !.names = names, !.pc = "merge"]
  ELSE [r EXCEPT !.names = names, !.pc = IF names = {} THEN "unmark" ELSE "gone"]

\* The staged sessions are taken before the bucket is listed.
ReadDir(c) ==
  /\ proc[c] = NoOp /\ c \in SmbClients
  /\ Becomes(c, [NoOp EXCEPT !.op = "readdir", !.pc = "listing", !.staged = Staged])
  /\ UNCHANGED <<cacheVars, storeVars, stagingVars, nfsVars, changes, breach>>

\* ReadDir of the NFS filesystem: the listing it keeps, or what is below.
NfsReadDir(c) ==
  LET r == [NoOp EXCEPT !.op = "readdir"]
  IN  /\ proc[c] = NoOp /\ c \in NfsClients
      /\ Becomes(c, IF nfsListing.kept
                    THEN [r EXCEPT !.pc = "done", !.names = nfsListing.names]
                    ELSE [r EXCEPT !.pc = "staged", !.counted = nfsGeneration])
      /\ Breach(Unless("crossing", nfsListing.kept \/ \A q \in SmbClients : ~Changing(q, Dir)))
      /\ UNCHANGED <<cacheVars, storeVars, stagingVars, nfsVars, changes>>

NfsReadStaged(c) ==
  /\ At(c, "staged")
  /\ Becomes(c, [proc[c] EXCEPT !.pc = "listing", !.staged = Staged])
  /\ UNCHANGED <<cacheVars, storeVars, stagingVars, nfsVars, changes, breach>>

\* A file the sync worker has just marked clean is not in the listing yet, and
\* Remove of the directory does not look at the sessions.
Unlisted(c) ==
  Unless("unlisted", proc[c].op = "readdir" \/ \A f \in Staged \ dirty : f \in entry[Dir].names)

ListCached(c) ==
  /\ At(c, "listing")
  /\ \/ /\ Hit(Dir) /\ entry[Dir].listed
        /\ Becomes(c, ResumeListed(proc[c], entry[Dir].names))
        /\ Breach(Unlisted(c))
        /\ UNCHANGED listings
     \/ /\ ~(Hit(Dir) /\ entry[Dir].listed)
        /\ listings' = Begin(listings, Dir)
        /\ Becomes(c, [proc[c] EXCEPT !.pc = "children", !.generation = listings[Dir].generation])
        /\ UNCHANGED breach
  /\ UNCHANGED <<entry, lookups, storeVars, stagingVars, nfsVars, changes>>

\* The LIST.  When it fails, a listing of any age serves; without one, ReadDir
\* still shows what is staged (a partial listing), Remove fails.
ListChildren(c) ==
  LET r == proc[c]
      partial == [r EXCEPT !.failed = TRUE, !.names = {}]
  IN  /\ At(c, "children")
      /\ \/ /\ Becomes(c, [r EXCEPT !.names = Objects, !.pc = "hide"])
            /\ UNCHANGED <<listings, breach>>
         \/ /\ listings' = End(listings, Dir)
            /\ Breach(Unlisted(c))
            /\ Becomes(c, IF entry[Dir].listed THEN ResumeListed(r, entry[Dir].names)
                          ELSE IF r.staged # {} THEN [partial EXCEPT !.pc = "merge"]
                          ELSE [r EXCEPT !.pc = "done", !.value = Failed])
      /\ UNCHANGED <<entry, lookups, storeVars, stagingVars, nfsVars, changes>>

\* Files waiting to be deleted are left out, and the listing is then not cached.
ListHide(c) ==
  /\ At(c, "hide")
  /\ Becomes(c, [proc[c] EXCEPT !.names = @ \ deletes, !.pc = "close",
                                !.failed = proc[c].names \intersect deletes # {}])
  /\ UNCHANGED <<cacheVars, storeVars, stagingVars, nfsVars, changes, breach>>

ListEnd(c) ==
  LET r == proc[c]
      clean == [r EXCEPT !.failed = FALSE]
  IN  /\ At(c, "close")
      /\ listings' = End(listings, Dir)
      /\ Becomes(c, IF ~r.failed /\ Unchanged(listings, Dir, r.generation)
                    THEN [r EXCEPT !.pc = "keep", !.late = HalfDropped(Dir, "listings")]
                    ELSE ResumeListed(clean, r.names))
      /\ UNCHANGED <<entry, lookups, storeVars, stagingVars, nfsVars, changes, breach>>

\* The listing of a directory that is not there is empty, and its entry then
\* says that there is one.
ListStore(c) ==
  LET r == proc[c]
  IN  /\ At(c, "keep")
      /\ SetDirEntries(r.names)
      /\ Breach(Unless("slipped", ~r.late) \union Unless("phantom", marker \/ r.names # {}))
      /\ Becomes(c, ResumeListed([r EXCEPT !.late = FALSE], r.names))
      /\ UNCHANGED <<lookups, listings, storeVars, stagingVars, nfsVars, changes>>

Merge(r) == (r.names \union r.staged) \ deletes

ReadDirMerge(c) ==
  /\ At(c, "merge")
  /\ Becomes(c, [proc[c] EXCEPT !.names = Merge(proc[c]), !.staged = {},
                   !.pc = IF c \in NfsClients THEN "nfsend" ELSE "done"])
  /\ UNCHANGED <<cacheVars, storeVars, stagingVars, nfsVars, changes, breach>>

\* The listing is kept for the NFS clients unless a change was counted since.
NfsEnd(c) ==
  /\ At(c, "nfsend")
  /\ Goto(c, IF nfsGeneration = proc[c].counted THEN "nfskeep" ELSE "done")
  /\ UNCHANGED <<cacheVars, storeVars, stagingVars, nfsVars, changes, breach>>

NfsStore(c) ==
  /\ At(c, "nfskeep")
  /\ nfsListing' = [kept |-> TRUE, names |-> proc[c].names]
  /\ Breach(Unless("partial", ~proc[c].failed))
  /\ Goto(c, "done")
  /\ UNCHANGED <<cacheVars, storeVars, stagingVars, nfsGeneration, changes>>

\* Past its TTL, or dropped by dropExpired.
NfsExpire ==
  /\ nfsListing.kept
  /\ nfsListing' = NoListing
  /\ UNCHANGED <<cacheVars, storeVars, stagingVars, nfsGeneration, proc, changes, breach>>

CacheExpire(k) ==
  /\ Expire(k) \/ Evict(k)
  /\ UNCHANGED <<storeVars, stagingVars, nfsVars, proc, changes, breach>>

-----------------------------------------------------------------------------
(* The changes clients make.                                               *)

\* A change made over SMB is not announced to the listings kept for NFS.
Crossing(c) ==
  Unless("crossing", c \in NfsClients \/ (~nfsListing.kept
                       /\ \A q \in NfsClients : proc[q].op # "readdir"))

StartChange(c, op, k, pc) ==
  /\ changes < MaxChanges
  /\ Start(c, op, k, pc)
  /\ changes' = changes + 1
  /\ Breach(Crossing(c))

\* A file is opened for writing and written: its delete is withdrawn, its bytes
\* are staged, and an upload of the file under way is no longer the latest.
Write(c, f) ==
  /\ changes < MaxChanges
  /\ proc[c] = NoOp
  /\ changes' = changes + 1
  /\ session' = [session EXCEPT ![f] = NewVersion]
  /\ dirty' = dirty \union {f}
  /\ deletes' = deletes \ {f}
  /\ proc' = [proc EXCEPT
       ![c] = IF Changed(c) = <<>> THEN NoOp
              ELSE [NoOp EXCEPT !.op = "write", !.key = f, !.todo = Changed(c)],
       ![Worker].late = @ \/ (proc[Worker].op = "sync" /\ proc[Worker].key = f)]
  /\ Breach(Crossing(c) \union Unless("implicit", marker \/ f \notin deletes))
  /\ UNCHANGED <<cacheVars, storeVars, claimed, nfsVars>>

\* Remove of a file with unsynced bytes records the delete first; of any other
\* path it asks what there is.  A directory with unsynced files is not empty.
Remove(c, k) ==
  /\ StartChange(c, "remove", k, IF k \in dirty THEN "tombstone" ELSE "staging")
  /\ k = Dir => dirty \ deletes = {}
  /\ UNCHANGED <<cacheVars, storeVars, stagingVars, nfsVars>>

\* RegisterPendingDelete: the tombstone, which the disk may refuse,
RemoveTombstone(c) ==
  /\ At(c, "tombstone")
  /\ \/ /\ deletes' = deletes \union {proc[c].key}
        /\ Goto(c, "discard")
     \/ /\ Becomes(c, NoOp)
        /\ UNCHANGED deletes
  /\ UNCHANGED <<cacheVars, storeVars, session, dirty, claimed, nfsVars, changes, breach>>

\* and then, unless an upload has the file, its staged bytes.  Where the object
\* could not be deleted before (failed), the sync worker is left to do it.
RemoveDiscard(c) ==
  LET r == proc[c]
      f == r.key
      deferred == f \in claimed
      gone == ~deferred /\ f \in deletes
  IN  /\ At(c, "discard")
      /\ session' = IF gone THEN [session EXCEPT ![f] = 0] ELSE session
      /\ dirty' = IF gone THEN dirty \ {f} ELSE dirty
      /\ IF deferred \/ r.failed
         THEN Finished(c, r, InvalidateObjectPath(f) \o Changed(c))
         ELSE Goto(c, "retire")
      /\ UNCHANGED <<cacheVars, storeVars, claimed, deletes, nfsVars, changes, breach>>

\* DeleteFile after the tombstone.
RemoveRetire(c) ==
  LET r == proc[c]
  IN  /\ At(c, "retire")
      /\ \/ /\ object' = [object EXCEPT ![r.key] = 0]
            /\ Becomes(c, [r EXCEPT !.pc = "resolve", !.todo = InvalidateObjectPath(r.key)])
         \/ /\ Finished(c, r, InvalidateObjectPath(r.key) \o Changed(c))
            /\ UNCHANGED object
      /\ UNCHANGED <<cacheVars, marker, stagingVars, nfsVars, changes, breach>>

RemoveResolve(c) ==
  /\ At(c, "resolve")
  /\ deletes' = deletes \ {proc[c].key}
  /\ Goto(c, "cleanup")
  /\ UNCHANGED <<cacheVars, storeVars, session, dirty, claimed, nfsVars, changes, breach>>

\* DeleteFile of a file that is not dirty; a failure is turned into a tombstone.
RemoveDelete(c) ==
  LET r == proc[c]
  IN  /\ At(c, "delete")
      /\ \/ /\ object' = [object EXCEPT ![r.key] = 0]
            /\ Becomes(c, [r EXCEPT !.pc = "cleanup", !.todo = InvalidateObjectPath(r.key)])
         \/ /\ Becomes(c, [r EXCEPT !.pc = "tombstone", !.failed = TRUE])
            /\ UNCHANGED object
      /\ UNCHANGED <<cacheVars, marker, stagingVars, nfsVars, changes, breach>>

\* cleanupCleanStagingSessionAfterDelete, which may take the session of a later
\* write before the sync worker has told the caches of its upload.
RemoveCleanup(c) ==
  LET f == proc[c].key
  IN  /\ At(c, "cleanup")
      /\ session' = IF f \in dirty THEN session ELSE [session EXCEPT ![f] = 0]
      /\ Breach(Unless("cleanup", proc[Worker].op = "none" \/ proc[Worker].key # f))
      /\ Finished(c, proc[c], Changed(c))
      /\ UNCHANGED <<cacheVars, storeVars, dirty, claimed, deletes, nfsVars, changes>>

\* Mutant: a listed file is taken for gone without asking.
StillThere_NotAsked(names) == {}

StillThere(names) == names \intersect Objects

\* listedEntriesAreGone, asked of the bucket name by name.
RmdirGone(c) ==
  LET r == proc[c]
  IN  /\ At(c, "gone")
      /\ \/ /\ StillThere(r.names) = {}
            /\ Goto(c, "unmark")
         \/ Becomes(c, [r EXCEPT !.pc = "done", !.value = Failed])
      /\ UNCHANGED <<cacheVars, storeVars, stagingVars, nfsVars, changes, breach>>

\* DeleteDirectory: the marker goes.
RmdirUnmark(c) ==
  LET r == proc[c]
  IN  /\ At(c, "unmark")
      /\ \/ /\ marker' = FALSE
            /\ Becomes(c, [r EXCEPT !.pc = "done", !.value = 1,
                             !.todo = InvalidateDirectoryMutation \o Changed(c)])
         \/ /\ Becomes(c, [r EXCEPT !.pc = "done", !.value = Failed])
            /\ UNCHANGED marker
      /\ UNCHANGED <<cacheVars, object, stagingVars, nfsVars, changes, breach>>

\* CreateDirectory.
Mkdir(c) ==
  /\ StartChange(c, "mkdir", Dir, "mark")
  /\ UNCHANGED <<cacheVars, storeVars, stagingVars, nfsVars>>

\* Stat asks for the marker first and for the files then: it can miss both.
BetweenProbes == \E c \in Clients : proc[c].key = Dir /\ proc[c].pc \in {"list", "first", "listall", "all"}

MkdirMark(c) ==
  /\ At(c, "mark")
  /\ \/ /\ marker' = TRUE
        /\ Breach(Unless("probes", ~BetweenProbes))
        /\ Finished(c, proc[c], InvalidateDirectoryMutation \o Counted(c))
     \/ /\ Becomes(c, NoOp)
        /\ UNCHANGED <<marker, breach>>
  /\ UNCHANGED <<cacheVars, object, stagingVars, nfsVars, changes>>

\* SetAttributes of a staged file is for its next sync to carry, and does not
\* queue one: the change is lost with a session that is clean, or whose upload
\* is under way.
SetAttributes(c, f) ==
  /\ StartChange(c, "setattr", f, IF f \in Staged THEN "apply" ELSE "cache")
  /\ UNCHANGED <<cacheVars, storeVars, stagingVars, nfsVars>>

SetAttributesStaged(c) ==
  LET f == proc[c].key
  IN  /\ At(c, "apply")
      /\ session' = IF f \in Staged THEN [session EXCEPT ![f] = changes + 1] ELSE session
      /\ Breach(Unless("unqueued", f \in dirty /\ f \notin claimed))
      /\ Finished(c, proc[c], Changed(c))
      /\ UNCHANGED <<cacheVars, storeVars, dirty, claimed, deletes, nfsVars, changes>>

\* UpdateAttributes: the object is copied onto itself with new metadata, also
\* when a delete or staged bytes have come to hide it since.
SetAttributesCopy(c) ==
  LET f == proc[c].key
  IN  /\ At(c, "copy")
      /\ \/ /\ object[f] # 0
            /\ object' = [object EXCEPT ![f] = changes + 1]
            /\ Breach(Unless("hidden", f \notin deletes \union Staged))
            /\ Finished(c, proc[c], InvalidatePath(f) \o Changed(c))
         \/ /\ Becomes(c, NoOp)
            /\ UNCHANGED <<object, breach>>
      /\ UNCHANGED <<cacheVars, marker, stagingVars, nfsVars, changes>>

-----------------------------------------------------------------------------
(* The sync worker.                                                        *)

\* syncFile: the claim, and the bytes to upload.
Sync(f) ==
  /\ proc[Worker] = NoOp
  /\ f \in dirty \ (claimed \union deletes)
  /\ claimed' = claimed \union {f}
  /\ Becomes(Worker, [NoOp EXCEPT !.op = "sync", !.key = f, !.pc = "put", !.value = session[f]])
  /\ UNCHANGED <<cacheVars, storeVars, session, dirty, deletes, nfsVars, changes, breach>>

SyncPut ==
  LET r == proc[Worker]
  IN  /\ At(Worker, "put")
      /\ \/ /\ object' = [object EXCEPT ![r.key] = r.value]
            /\ Goto(Worker, "clean")
            /\ UNCHANGED claimed
         \/ /\ claimed' = claimed \ {r.key}
            /\ Becomes(Worker, NoOp)
            /\ UNCHANGED object
      /\ UNCHANGED <<cacheVars, marker, session, dirty, deletes, nfsVars, changes, breach>>

\* markCleanIfUnchanged, and the caches are told only where it did, although the
\* object may be what makes the directory exist.
SyncClean ==
  LET r == proc[Worker]
  IN  /\ At(Worker, "clean")
      /\ IF r.late
         THEN /\ claimed' = claimed \ {r.key}
              /\ Becomes(Worker, NoOp)
              /\ Breach(Unless("implicit", marker))
              /\ UNCHANGED dirty
         ELSE /\ dirty' = dirty \ {r.key}
              /\ claimed' = claimed \ {r.key}
              /\ Becomes(Worker, [r EXCEPT !.pc = "release",
                                    !.todo = InvalidateObjectAfterSync(r.key)])
              /\ UNCHANGED breach
      /\ UNCHANGED <<cacheVars, storeVars, session, deletes, nfsVars, changes>>

\* cleanupSyncedSession, unless the file was written again, or is open.
SyncCleanup ==
  LET f == proc[Worker].key
  IN  /\ At(Worker, "release")
      /\ \/ f \notin dirty /\ session' = [session EXCEPT ![f] = 0]
         \/ UNCHANGED session
      /\ Becomes(Worker, NoOp)
      /\ UNCHANGED <<cacheVars, storeVars, dirty, claimed, deletes, nfsVars, changes, breach>>

\* processPendingDeletes: the claim, the bytes that are still staged, the
\* object, the tombstone, and only then the caches.
Retire(f) ==
  /\ proc[Worker] = NoOp
  /\ f \in deletes \ claimed
  /\ claimed' = claimed \union {f}
  /\ session' = [session EXCEPT ![f] = 0]
  /\ dirty' = dirty \ {f}
  /\ Becomes(Worker, [NoOp EXCEPT !.op = "retire", !.key = f, !.pc = "drop"])
  /\ UNCHANGED <<cacheVars, storeVars, deletes, nfsVars, changes, breach>>

RetireObject ==
  LET f == proc[Worker].key
  IN  /\ At(Worker, "drop")
      /\ \/ /\ object' = [object EXCEPT ![f] = 0]
            /\ Goto(Worker, "untomb")
            /\ UNCHANGED claimed
         \/ /\ claimed' = claimed \ {f}
            /\ Becomes(Worker, NoOp)
            /\ UNCHANGED object
      /\ UNCHANGED <<cacheVars, marker, session, dirty, deletes, nfsVars, changes, breach>>

\* A listing that has the file from the bucket or from its session, and looks
\* for its tombstone only now, shows the file.
Going(f) == Unless("going", \A c \in Clients : f \notin proc[c].names \union proc[c].staged)

\* What was cached while the tombstone hid the file is told to go only after the
\* tombstone has.
Exposed(f) ==
  Unless("exposed", /\ entry[f].kind # "file" /\ f \notin entry[Dir].names
                    /\ lookups[f].inFlight = 0 /\ \A c \in Clients : ~Storing(c, f))

RetireResolve ==
  LET f == proc[Worker].key
  IN  /\ At(Worker, "untomb")
      /\ deletes' = deletes \ {f}
      /\ claimed' = claimed \ {f}
      /\ Breach(Going(f) \union Exposed(f))
      /\ Finished(Worker, proc[Worker], InvalidateObjectPath(f))
      /\ UNCHANGED <<cacheVars, storeVars, session, dirty, nfsVars, changes>>

-----------------------------------------------------------------------------
ClientStep(c) ==
  \/ \E k \in Keys : Stat(c, k) \/ Remove(c, k)
  \/ \E f \in Files : Write(c, f) \/ SetAttributes(c, f)
  \/ ReadDir(c) \/ Mkdir(c) \/ Return(c)
  \/ RemoveStat(c) \/ StatCached(c) \/ StatHead(c) \/ StatList(c) \/ StatFilter(c)
  \/ StatStale(c) \/ StatEnd(c) \/ StatStore(c)
  \/ NfsReadDir(c) \/ NfsReadStaged(c) \/ ListCached(c) \/ ListChildren(c) \/ ListHide(c)
  \/ ListEnd(c) \/ ListStore(c) \/ ReadDirMerge(c) \/ NfsEnd(c) \/ NfsStore(c)
  \/ RemoveTombstone(c) \/ RemoveDiscard(c) \/ RemoveRetire(c) \/ RemoveResolve(c)
  \/ RemoveDelete(c) \/ RemoveCleanup(c) \/ RmdirGone(c) \/ RmdirUnmark(c)
  \/ MkdirMark(c) \/ SetAttributesStaged(c) \/ SetAttributesCopy(c)

WorkerStep ==
  \/ \E f \in Files : Sync(f) \/ Retire(f)
  \/ SyncPut \/ SyncClean \/ SyncCleanup \/ RetireObject \/ RetireResolve

NamespaceNext ==
  /\ \/ \E c \in Clients : ClientStep(c)
     \/ WorkerStep
     \/ \E p \in Procs : InvalidationStep(p)
     \/ \E k \in Keys : CacheExpire(k)
     \/ NfsExpire
  /\ Witnessed

-----------------------------------------------------------------------------
\* Stat answers what was true of the path at some moment of the call: no change
\* that was over when the call began is missing from the answer, whether it
\* comes from the staging area, the cache, the bucket or a stale entry.  A name
\* found in a listing of the directory says that the file is there.
StatSeesOwnChanges ==
  breach = {} => \A c \in Clients :
    At(c, "done") /\ proc[c].op = "stat" =>
      LET v == proc[c].value  s == seen[c][proc[c].key]
      IN  v = Failed \/ v \in s \/ (v = Listed /\ s # {0})

\* ReadDir shows a file only when it was there at some moment of the call, and
\* leaves one out only when it was not (or, where the bucket failed and only
\* the staged files are shown, when it is not staged).
ListingSeesOwnChanges ==
  breach = {} => \A c \in Clients :
    At(c, "done") /\ proc[c].op = "readdir" /\ proc[c].value # Failed =>
      \A f \in Files :
        IF f \in proc[c].names THEN seen[c][f] # {0}
        ELSE 0 \in seen[c][f] \/ proc[c].failed

\* DeleteDirectory removes the directory only when each of its files was absent
\* at some moment of the call.
RemovedDirectoryWasEmpty ==
  breach = {} => \A c \in Clients :
    At(c, "done") /\ proc[c].op = "remove" /\ proc[c].value = 1 =>
      \A f \in Files : 0 \in seen[c][f]

=============================================================================
