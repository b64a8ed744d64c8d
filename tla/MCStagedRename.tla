--------------------------- MODULE MCStagedRename ---------------------------
(***************************************************************************)
(* Two directories of two names each: enough for a directory rename with   *)
(* staged and clean files, and for a file renamed over another.            *)
(***************************************************************************)
EXTENDS StagedRename

MCDirs == {"a", "b"}
MCNames == {"x", "y"}
MCPaths == MCDirs \X MCNames
MCWrites == {"w1"}

ax == <<"a", "x">>
ay == <<"a", "y">>
bx == <<"b", "x">>

Scene(staged, inBucket, opened, kind, from, to) ==
  [staged |-> staged, objects |-> inBucket, opened |-> opened, kind |-> kind, from |-> from,
   to |-> to]

\* A staged file renamed to a name with an object, and over a staged file; a
\* clean file over a staged one; a clean file copied over a staged one; a
\* directory of staged files, and of staged and clean ones.  The client has
\* the source open, or the destination.
MCScenes ==
  {Scene({ax}, {ax, bx}, {p}, "file", ax, bx) : p \in {ax, bx}}
  \union {Scene({ax, bx}, {ax}, {p}, "file", ax, bx) : p \in {ax, bx}}
  \union {Scene({bx}, {ax}, {bx}, "file", ax, bx)}
  \union {Scene({}, {ax}, {bx}, "copy", ax, bx), Scene({bx}, {ax, bx}, {}, "copy", ax, bx)}
  \union {Scene({ax, ay}, {ax}, {}, "dir", ax, bx)}
  \union {Scene({ay}, {ax}, {ay}, "dir", ax, bx)}

\* Nothing is claimed of a behaviour after a breach, except that a crash which
\* leaves both names loses nothing later on either.
Explored ==
  /\ FilesTypeOK
  /\ breach = {} \/ (crashes = 1 /\ breach = {"linger"})

\* Generations and inodes are only ever compared: states that differ in their
\* numbers alone are one.
MCView ==
  <<[p \in Paths |-> IsDirty(p)], recorded, syncing,
    [p \in Paths |-> <<[session[p] EXCEPT !.file = 0], session[p].open /\ session[p].file = name[p],
                       session[p].open /\ session[p].at \in Paths /\ session[p].file = name[session[p].at]>>],
    [p \in Paths |-> IF session[p].open THEN data[session[p].file] ELSE {}],
    [p \in Paths |-> name[p] # NoFile], [p \in Paths |-> IF name[p] = NoFile THEN {} ELSE data[name[p]]],
    sidecars, tombstones, renameTargets, objects, cos, handle,
    [worker EXCEPT !.gen = 0], worker.pc # "idle" /\ worker.gen = dirty[worker.path],
    unopened, unwritten, content, breach, mover, asked, crashes>>

=============================================================================
