---------------------------- MODULE SmbBackend -----------------------------
(***************************************************************************)
(* The SMB share (internal/smb/backend.go, streams.go) over the shared     *)
(* filesystem: opens with their create dispositions and share modes,       *)
(* handles that become writable on the first write, renames through a      *)
(* handle, server-side copies, and named streams kept in the file's        *)
(* attributes.                                                             *)
(*                                                                         *)
(* The SMB server around it (third_party/go-smb-server) runs the requests  *)
(* of its clients concurrently, so every call of the share into the        *)
(* filesystem or the share table is a step of its own; a handle's own      *)
(* calls exclude each other (handle.mu), and so do stream updates          *)
(* (Backend.streamMu).  Each filesystem call is one step here: what        *)
(* happens inside one is the subject of WriteBack and StagedRename.        *)
(*                                                                         *)
(* A file is a sequence of chunks, each the number of the write it holds,  *)
(* 0 for zeros.  A named stream is the set of writes it contains, with 0   *)
(* for its name once it exists.                                            *)
(***************************************************************************)
EXTENDS ShareTable, Sequences, FiniteSetsExt

CONSTANTS
  Paths,            \* the files of the share
  Streams, Main,    \* the named streams, and the unnamed data of a file
  Requests,         \* the opens clients ask for: [disp, access, share]
  MaxChunks,        \* bound: the largest file
  MaxWrites,        \* bound: how many writes clients make
  StreamLimit       \* config.SMBConfig.MaxStreamBytes, in writes and names

ASSUME SmbAssumption == Keys = Paths \X (Streams \union {Main})

Dispositions == {"open", "openif", "create", "overwrite", "overwriteif"}

Writes == 0..MaxWrites

Chunks == UNION {[1..n -> Writes] : n \in 0..MaxChunks}

VARIABLES
  tree,             \* tree[p]: the file p names
  handle,           \* handle[h]: an SMB handle and the call in progress on it
  writes,           \* the last write number used
  saved,            \* history: saved[p][s], the stream as the last change left it
  breach            \* history: the races this run has met, see the actions

smbVars == <<tree, handle, writes, saved, breach>>

\* Times are only ever compared with the ones CopyChunk remembers, so one that no
\* handle remembers is as good as a new one.
Times == 1..(1 + 2 * Cardinality(Handles))

\* staged: whether the gateway holds staged state for the file (IsStaged), and
\* whether a client has written any of it.
File == [there: BOOLEAN, data: Chunks, time: Times, staged: {"no", "zeros", "written"},
         streams: [Streams -> SUBSET Writes]]

NoStreams == [s \in Streams |-> {}]

NoFile == [there |-> FALSE, data |-> <<>>, time |-> 1, staged |-> "no", streams |-> NoStreams]

NoCopy == [set |-> FALSE, src |-> CHOOSE p \in Paths : TRUE, size |-> 0, srcTime |-> 0, dstTime |-> 0]

\* file: handle.file, not open, open read-only or read-write.
\* bytes, dirty: streamHandle.data and .dirty; snap: what updateStream has read.
\* target, only: the rename or the copy in progress.
Closed == [pc |-> "closed", path |-> CHOOSE p \in Paths : TRUE, stream |-> Main, disp |-> "open",
           needs |-> {}, permits |-> {}, exists |-> FALSE, old |-> FALSE, file |-> "none",
           copied |-> NoCopy, bytes |-> {}, dirty |-> FALSE, remove |-> FALSE,
           snap |-> NoStreams, target |-> CHOOSE p \in Paths : TRUE, only |-> FALSE]

SmbTypeOK ==
  /\ ShareTypeOK
  /\ tree \in [Paths -> File]
  /\ \A h \in Handles :
       /\ handle[h].path \in Paths /\ handle[h].stream \in Streams \union {Main}
       /\ handle[h].bytes \subseteq Writes
  /\ saved \in [Paths -> [Streams -> SUBSET Writes]]

SmbInit ==
  /\ ShareInit
  /\ \E there \in SUBSET Paths :
       tree = [p \in Paths |-> IF p \in there
                 THEN [NoFile EXCEPT !.there = TRUE, !.data = [i \in 1..MaxChunks |-> 0]]
                 ELSE NoFile]
  /\ handle = [h \in Handles |-> Closed]
  /\ writes = 0
  /\ saved = [p \in Paths |-> NoStreams]
  /\ breach = {}

Set(h, r) == handle' = [handle EXCEPT ![h] = r]

Now == CHOOSE t \in Times :
         /\ \A h \in Handles : t \notin {handle[h].copied.srcTime, handle[h].copied.dstTime}
         /\ \A u \in 1..(t - 1) :
              \E h \in Handles : u \in {handle[h].copied.srcTime, handle[h].copied.dstTime}

\* A file is changed: it gets a modification time nobody has seen.
Change(p, f) == tree' = [tree EXCEPT ![p] = [f EXCEPT !.time = Now]]

\* A stream update of p is between its read and its write.
UpdatingStreams(p) ==
  \E h \in Handles : handle[h].pc \in {"storing", "filling"} /\ handle[h].path = p

Key(h) == <<handle[h].path, handle[h].stream>>

Open(h) == handle[h].pc # "closed"

-----------------------------------------------------------------------------
\* Backend.Open: Stat.
OpenStat(h, p, r) ==
  /\ handle[h].pc = "closed"
  /\ Set(h, [Closed EXCEPT !.pc = "reserve", !.path = p, !.disp = r.disp, !.needs = r.access,
                           !.permits = r.share, !.exists = tree[p].there,
                           !.old = tree[p].streams # NoStreams])
  /\ UNCHANGED <<shareVars, tree, writes, saved, breach>>

Creates(disp) == disp \notin {"open", "overwrite"}

ReplacesData(disp) == disp \in {"overwrite", "overwriteif"}

\* OpenStream up to the share table.  A file a creating disposition does not find
\* is created; the disposition applies to the stream.
OpenStreamStat(h, p, s, r) ==
  LET exists == tree[p].streams[s] # {}
  IN  /\ handle[h].pc = "closed"
      /\ tree[p].there \/ Creates(r.disp)
      /\ r.disp = "create" => ~exists
      /\ r.disp \in {"open", "overwrite"} => exists
      /\ IF tree[p].there THEN UNCHANGED tree
         ELSE Change(p, [NoFile EXCEPT !.there = TRUE, !.staged = "zeros"])
      /\ Set(h, [Closed EXCEPT !.pc = "reserve", !.path = p, !.stream = s, !.disp = r.disp,
                               !.needs = r.access, !.permits = r.share, !.exists = exists,
                               !.old = tree[p].streams[s] \ {0} # {},
                               !.bytes = IF ReplacesData(r.disp) THEN {} ELSE tree[p].streams[s] \ {0}])
      /\ UNCHANGED <<shareVars, writes, saved, breach>>

\* Open returns the handle.
Opened(x) == [x EXCEPT !.pc = "open", !.disp = "open", !.needs = {}, !.permits = {},
                       !.exists = FALSE, !.old = FALSE]

\* reserve.  A stream that the open creates or empties is saved right away.
Reserve(h) ==
  LET x == handle[h]
      emptied == x.stream # Main /\ (~x.exists \/ (ReplacesData(x.disp) /\ x.old))
  IN  /\ x.pc = "reserve"
      /\ IF CanAcquire(Key(h), x.needs, x.permits)
         THEN /\ Acquire(h, Key(h), x.needs, x.permits)
              /\ Set(h, IF x.stream = Main THEN [x EXCEPT !.pc = "act"]
                        ELSE IF emptied THEN [x EXCEPT !.pc = "creating"] ELSE Opened(x))
         ELSE /\ Set(h, Closed)
              /\ UNCHANGED shareVars
      /\ UNCHANGED <<tree, writes, saved, breach>>

\* Mutant: an open that fails keeps its reservation.
OpenFails_KeepsReservation(h) ==
  /\ handle[h].pc \in {"act", "clear"}
  /\ Set(h, Closed)
  /\ UNCHANGED <<shareVars, tree, writes, saved, breach>>

\* The rest of Open returns an error: the deferred Release runs.
OpenFails(h) ==
  /\ handle[h].pc \in {"act", "clear"}
  /\ Set(h, Closed)
  /\ Release(h)
  /\ UNCHANGED <<tree, writes, saved, breach>>

\* The dispositions that only make a handle.
OpenExisting(h) ==
  LET x == handle[h]
  IN  /\ x.pc = "act" /\ x.exists /\ x.disp \in {"open", "openif"}
      /\ Set(h, Opened(x))
      /\ UNCHANGED <<shareVars, tree, writes, saved, breach>>

\* openWritable: O_TRUNC, with O_CREATE where the disposition creates.  What Stat
\* found decides, and a file made since then is truncated all the same.
OpenWritable(h) ==
  LET x == handle[h]
      f == tree[x.path]
  IN  /\ x.pc = "act"
      /\ \/ ~x.exists /\ Creates(x.disp)
         \/ x.exists /\ ReplacesData(x.disp)
      /\ f.there \/ Creates(x.disp)
      /\ Change(x.path, [f EXCEPT !.there = TRUE, !.data = <<>>, !.staged = "zeros"])
      /\ LET y == [x EXCEPT !.file = "rw"]
         IN  Set(h, IF x.exists /\ x.old /\ ReplacesData(x.disp)
                    THEN [y EXCEPT !.pc = "clear"] ELSE Opened(y))
      /\ UNCHANGED <<shareVars, writes, saved, breach>>

\* "Replacing a file's data replaces the file: its named streams go too": outside
\* streamMu, so a stream update may put them back ("cleared").
OpenClear(h) ==
  LET p == handle[h].path
  IN  /\ handle[h].pc = "clear" /\ tree[p].there
      /\ Change(p, [tree[p] EXCEPT !.streams = NoStreams])
      /\ saved' = [saved EXCEPT ![p] = NoStreams]
      /\ Set(h, Opened(handle[h]))
      /\ breach' = IF UpdatingStreams(p) THEN breach \union {"cleared"} ELSE breach
      /\ UNCHANGED <<shareVars, writes>>

-----------------------------------------------------------------------------
\* fileFor: the handle's file, opened again when it has to become writable.
FileFor(h, write) ==
  LET x == handle[h]
  IN  [x EXCEPT !.file = IF write THEN "rw" ELSE IF @ = "none" THEN "ro" ELSE @,
                !.copied = IF write THEN NoCopy ELSE @]

Usable(h) == handle[h].pc = "open" /\ handle[h].stream = Main /\ tree[handle[h].path].there

Read(h) ==
  /\ Usable(h) /\ handle[h].file = "none"
  /\ Set(h, FileFor(h, FALSE))
  /\ UNCHANGED <<shareVars, tree, writes, saved, breach>>

\* Write of chunk i, with zeros for what lies between.
Write(h, i) ==
  LET p == handle[h].path
      d == tree[p].data
      n == IF i > Len(d) THEN i ELSE Len(d)
  IN  /\ Usable(h) /\ "write" \in access[h] /\ writes < MaxWrites
      /\ writes' = writes + 1
      /\ Change(p, [tree[p] EXCEPT !.staged = "written",
            !.data = [j \in 1..n |-> IF j = i THEN writes + 1 ELSE IF j <= Len(d) THEN d[j] ELSE 0]])
      /\ Set(h, FileFor(h, TRUE))
      /\ UNCHANGED <<shareVars, saved, breach>>

\* SetInfo with an end of file; the bytes added are zeros nobody wrote.
SetEndOfFile(h, n) ==
  LET p == handle[h].path
      d == tree[p].data
  IN  /\ Usable(h) /\ "write" \in access[h] /\ n # Len(d)
      /\ Change(p, [tree[p] EXCEPT !.staged = IF @ = "zeros" THEN @ ELSE "written",
                                   !.data = [j \in 1..n |-> IF j <= Len(d) THEN d[j] ELSE 0]])
      /\ Set(h, FileFor(h, TRUE))
      /\ UNCHANGED <<shareVars, writes, saved, breach>>

\* Close; a stream with writes is saved after its reservation is given up, and a
\* stream opened to be deleted is removed.
Close(h, delete) ==
  LET x == handle[h]
      saves == x.stream # Main /\ (x.dirty \/ delete)
  IN  /\ x.pc = "open"
      /\ delete => x.stream # Main /\ "delete" \in access[h]
      /\ Release(h)
      /\ Set(h, IF saves THEN [x EXCEPT !.pc = "saving", !.remove = delete, !.dirty = FALSE] ELSE Closed)
      /\ UNCHANGED <<tree, writes, saved, breach>>

\* Backend.Remove, which the server calls once the last handle of a file marked for
\* deletion has closed.
RemoveFile(p) ==
  /\ tree[p].there
  /\ \A h \in Handles : Open(h) => handle[h].path # p
  /\ tree' = [tree EXCEPT ![p] = NoFile]
  /\ saved' = [saved EXCEPT ![p] = NoStreams]
  /\ UNCHANGED <<shareVars, handle, writes, breach>>

\* A sync worker uploads the file: from here its time is the object's.  A copy that
\* has yet to look at what it made takes this for its own work ("overtaken").
Uploaded(p) ==
  /\ tree[p].staged # "no"
  /\ \A h \in Handles : handle[h].path = p => handle[h].file # "rw"
  /\ Change(p, [tree[p] EXCEPT !.staged = "no"])
  /\ breach' = IF \E h \in Handles : handle[h].pc = "note" /\ handle[h].path = p
               THEN breach \union {"overtaken"} ELSE breach
  /\ UNCHANGED <<shareVars, handle, writes, saved>>

-----------------------------------------------------------------------------
\* streamsBytes: the names and contents of the streams.
StreamsBytes(ss) == MapThenSumSet(LAMBDA s : Cardinality(ss[s]), Streams)

\* streamHandle.Write and SetInfo: kept in memory until Close.  checkSize counts
\* the other streams as they are now.
WriteStream(h) ==
  LET x == handle[h]
      grown == [tree[x.path].streams EXCEPT ![x.stream] = {0, writes + 1} \union x.bytes]
  IN  /\ x.pc = "open" /\ x.stream # Main /\ "write" \in access[h]
      /\ writes < MaxWrites /\ tree[x.path].there
      /\ StreamsBytes(grown) <= StreamLimit
      /\ writes' = writes + 1
      /\ Set(h, [x EXCEPT !.bytes = @ \union {writes + 1}, !.dirty = TRUE])
      /\ UNCHANGED <<shareVars, tree, saved, breach>>

\* Mutant: updates are not serialized.
StreamMuFree_Always == TRUE

\* Backend.streamMu is held from the read of an update to its write.
StreamMuFree == \A h \in Handles : handle[h].pc \notin {"storing", "filling"}

\* updateStream up to its read; it fails when the file is gone, or a stream to
\* remove is.
UpdateRead(h) ==
  LET x == handle[h]
      f == tree[x.path]
      fails == ~f.there \/ (x.remove /\ f.streams[x.stream] = {})
  IN  /\ x.pc \in {"saving", "creating"}
      /\ StreamMuFree
      /\ IF fails
         THEN Set(h, Closed) /\ Release(h)
         ELSE /\ Set(h, [x EXCEPT !.snap = f.streams,
                                  !.pc = IF x.pc = "saving" THEN "storing" ELSE "filling"])
              /\ UNCHANGED shareVars
      /\ UNCHANGED <<tree, writes, saved, breach>>

\* The streams updateStream writes back.
Updated(h) ==
  LET x == handle[h]
  IN  [x.snap EXCEPT ![x.stream] = IF x.remove THEN {} ELSE {0} \union x.bytes]

\* updateStream from its read on: over the limit it fails and nothing is stored;
\* SetAttributes may fail too.
UpdateWrite(h, ok) ==
  LET x == handle[h]
      p == x.path
      stores == ok /\ tree[p].there /\ (x.remove \/ StreamsBytes(Updated(h)) <= StreamLimit)
  IN  /\ x.pc \in {"storing", "filling"}
      /\ IF stores
         THEN /\ Change(p, [tree[p] EXCEPT !.streams = Updated(h)])
              /\ saved' = [saved EXCEPT ![p][x.stream] = Updated(h)[x.stream]]
         ELSE UNCHANGED <<tree, saved>>
      /\ IF stores /\ x.pc = "filling"
         THEN /\ Set(h, Opened([x EXCEPT !.snap = NoStreams]))
              /\ UNCHANGED shareVars
         ELSE Set(h, Closed) /\ Release(h)
      /\ UNCHANGED <<writes, breach>>

-----------------------------------------------------------------------------
\* The server's checkRename: nobody has the target open, or a stream of the file.
\* Opens still on their way are not in its table.
CanRename(h, q) ==
  \A g \in Handles \ {h} :
     handle[g].pc \notin {"closed", "reserve", "act", "clear", "creating", "filling"} =>
        /\ handle[g].path # q
        /\ handle[g].path = handle[h].path => handle[g].stream = Main

\* handle.Rename: the target is looked at, and the handle's file is closed.
RenameStat(h, q, replace) ==
  LET x == handle[h]
  IN  /\ x.pc = "open" /\ x.stream = Main /\ q # x.path
      /\ "delete" \in access[h]
      /\ CanRename(h, q)
      /\ replace \/ ~tree[q].there
      /\ Set(h, [x EXCEPT !.pc = "rename", !.target = q, !.file = "none"])
      /\ UNCHANGED <<shareVars, tree, writes, saved, breach>>

\* fs.Rename, which fails when the file is gone.
RenameFile(h) ==
  LET x == handle[h]
      p == x.path
  IN  /\ x.pc = "rename"
      /\ IF tree[p].there
         THEN /\ tree' = [tree EXCEPT ![p] = NoFile, ![x.target] = tree[p]]
              /\ saved' = [saved EXCEPT ![p] = NoStreams, ![x.target] = saved[p]]
              /\ breach' = IF UpdatingStreams(p) \/ UpdatingStreams(x.target)
                           THEN breach \union {"cleared"} ELSE breach
              /\ Set(h, [x EXCEPT !.pc = "renamed", !.copied = NoCopy])
         ELSE /\ Set(h, [x EXCEPT !.pc = "open", !.target = Closed.target])
              /\ UNCHANGED <<tree, saved, breach>>
      /\ UNCHANGED <<shareVars, writes>>

\* The opens follow the file, and may meet opens of the target made since the
\* check ("merged"); only this handle learns the new path.
RenameDone(h) ==
  LET x == handle[h]
  IN  /\ x.pc = "renamed"
      /\ RenameOpens(<<x.path, Main>>, <<x.target, Main>>)
      /\ Set(h, [x EXCEPT !.pc = "open", !.path = x.target, !.target = Closed.target])
      /\ breach' = IF opens[<<x.target, Main>>] # {} THEN breach \union {"merged"} ELSE breach
      /\ UNCHANGED <<tree, writes, saved>>

-----------------------------------------------------------------------------
\* Mutant: staged state on either side is not asked for.
StillCopied_NotAsked(h, p) ==
  LET c == handle[h].copied
      dst == tree[handle[h].path]
  IN  /\ c.set /\ c.src = p
      /\ tree[p].there /\ Len(tree[p].data) = c.size /\ tree[p].time = c.srcTime
      /\ dst.there /\ Len(dst.data) = c.size /\ dst.time = c.dstTime

\* stillCopied, for a source named p: both files are as they were right after the
\* copy.
StillCopied(h, p) ==
  LET c == handle[h].copied
      dst == tree[handle[h].path]
  IN  /\ c.set /\ c.src = p
      /\ tree[p].there /\ Len(tree[p].data) = c.size /\ tree[p].time = c.srcTime
      /\ tree[p].staged = "no" /\ dst.staged = "no"
      /\ dst.there /\ Len(dst.data) = c.size /\ dst.time = c.dstTime

\* CopyChunk of n chunks from the first, up to the copy: a chunk of the whole
\* source over a destination no longer than it, or a destination as long as the
\* source that must turn out to hold no written bytes (only).
CopyDecide(h, g, n) ==
  LET x == handle[h]
      p == handle[g].path
      size == Len(tree[p].data)
      dstSize == IF tree[x.path].there THEN Len(tree[x.path].data) ELSE 0
  IN  /\ g # h /\ x.pc = "open" /\ x.stream = Main /\ "write" \in access[h]
      /\ handle[g].pc = "open" /\ handle[g].stream = Main /\ tree[p].there
      /\ n <= size /\ ~x.copied.set
      /\ (n = size /\ dstSize <= size) \/ dstSize = size
      /\ Set(h, [x EXCEPT !.pc = "copy", !.target = p, !.file = "none",
                          !.only = ~(n = size /\ dstSize <= size),
                          !.copied = [set |-> FALSE, src |-> p, size |-> size,
                                      srcTime |-> tree[p].time, dstTime |-> 0]])
      /\ UNCHANGED <<shareVars, tree, writes, saved, breach>>

\* A later chunk of a copy that no longer stands: the server copies it itself.
CopyForget(h, g) ==
  LET x == handle[h]
  IN  /\ g # h /\ x.pc = "open" /\ x.copied.set /\ handle[g].pc = "open" /\ handle[g].stream = Main
      /\ tree[handle[g].path].there /\ ~StillCopied(h, handle[g].path)
      /\ Set(h, [x EXCEPT !.copied = NoCopy])
      /\ UNCHANGED <<shareVars, tree, writes, saved, breach>>

\* copyFile declines a staged source, a destination a client has written or holds
\* open for writing, and without staged state a copy that may only replace it.
CanCopy(h) ==
  LET x == handle[h]
      dst == tree[x.path]
  IN  \/ x.target = x.path
      \/ /\ tree[x.target].there /\ tree[x.target].staged = "no"
         /\ dst.staged = "no" => ~x.only
         /\ dst.staged # "no" =>
              /\ dst.staged = "zeros"
              /\ \A g \in Handles \ {h} : handle[g].path = x.path => handle[g].file # "rw"

CopyFile(h) ==
  LET x == handle[h]
      p == x.path
      src == tree[x.target]
  IN  /\ x.pc = "copy"
      /\ \/ /\ CanCopy(h) /\ p # x.target
            /\ Change(p, [tree[p] EXCEPT !.there = TRUE, !.data = src.data, !.staged = "no",
                            !.streams = IF tree[p].staged = "no" THEN src.streams ELSE @])
            /\ saved' = IF tree[p].staged = "no"
                        THEN [saved EXCEPT ![p] = src.streams] ELSE saved
            /\ breach' = IF UpdatingStreams(p) THEN breach \union {"cleared"} ELSE breach
            /\ Set(h, [x EXCEPT !.pc = "note"])
         \/ /\ CanCopy(h) /\ p = x.target
            /\ Set(h, [x EXCEPT !.pc = "note"])
            /\ UNCHANGED <<tree, saved, breach>>
         \/ /\ Set(h, [x EXCEPT !.pc = "open", !.copied = NoCopy, !.target = Closed.target, !.only = FALSE])
            /\ UNCHANGED <<tree, saved, breach>>
      /\ UNCHANGED <<shareVars, writes>>

\* The destination as the copy left it, or as another handle has by now.
CopyNote(h) ==
  LET x == handle[h]
      dst == tree[x.path]
  IN  /\ x.pc = "note"
      /\ Set(h, [x EXCEPT !.pc = "open", !.target = Closed.target, !.only = FALSE,
                          !.copied = IF dst.there /\ Len(dst.data) = x.copied.size
                                     THEN [@ EXCEPT !.set = TRUE, !.dstTime = dst.time] ELSE NoCopy])
      /\ UNCHANGED <<shareVars, tree, writes, saved, breach>>

-----------------------------------------------------------------------------
\* Every call but Close, which also ends the locks of the handle.
SmbCall ==
  \/ \E h \in Handles :
       \/ \E p \in Paths, r \in Requests :
             OpenStat(h, p, r) \/ \E s \in Streams : OpenStreamStat(h, p, s, r)
       \/ Reserve(h) \/ OpenFails(h) \/ OpenExisting(h) \/ OpenWritable(h) \/ OpenClear(h)
       \/ Read(h) \/ \E i \in 1..MaxChunks : Write(h, i)
       \/ \E n \in 0..MaxChunks : SetEndOfFile(h, n)
       \/ WriteStream(h) \/ UpdateRead(h) \/ \E ok \in BOOLEAN : UpdateWrite(h, ok)
       \/ \E q \in Paths, replace \in BOOLEAN : RenameStat(h, q, replace)
       \/ RenameFile(h) \/ RenameDone(h)
       \/ \E g \in Handles : CopyForget(h, g) \/ \E n \in 1..MaxChunks : CopyDecide(h, g, n)
       \/ CopyFile(h) \/ CopyNote(h)
  \/ \E p \in Paths : RemoveFile(p) \/ Uploaded(p)

-----------------------------------------------------------------------------
\* Share modes hold among the opens of a file (Acquire, conflicts), through every
\* rename, while no open of the target slips in between the server's check and
\* the move of the reservations.
ShareModesHold == "merged" \notin breach => SharesCompatible

\* An open holds exactly one reservation from the moment Open got it until Close
\* or an error on the way (the deferred Release of Open), wherever renames have
\* moved it: none leaks and none is released twice.
ReservationsMatch ==
  \A h \in Handles :
     Cardinality({k \in Keys : h \in opens[k]}) =
       IF handle[h].pc \in {"closed", "reserve", "saving", "storing"} THEN 0 ELSE 1

\* "later chunks of the same copy are acknowledged without moving anything, as
\* long as neither file has changed since": wherever CopyChunk would acknowledge
\* a chunk, the destination holds the bytes of the source, unless a write by
\* another handle was uploaded before CopyChunk looked at its copy.
AcknowledgedIsCopied ==
  "overtaken" \notin breach => \A h \in Handles, p \in Paths :
     handle[h].pc = "open" /\ StillCopied(h, p) => tree[handle[h].path].data = tree[p].data

\* "Changes are serialized so two handles closing different streams of one file do
\* not lose either": a file's streams are what the last update of each left,
\* unless the file was replaced, copied over or renamed in the middle of one.
StreamUpdatesKept ==
  "cleared" \notin breach => \A p \in Paths : tree[p].there => tree[p].streams = saved[p]

=============================================================================
