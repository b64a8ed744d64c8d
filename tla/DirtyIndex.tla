----------------------------- MODULE DirtyIndex -----------------------------
(***************************************************************************)
(* The dirty file index of the staging manager (internal/staging/          *)
(* metadata.go): which paths hold staged bytes the bucket does not have,   *)
(* the generation each of them was last changed at, and the sync claims.   *)
(*                                                                         *)
(* Every operation below is one critical section of DirtyFileIndex.mu, so  *)
(* it is one conjunct of an action of the modules that extend this one.    *)
(* A generation is only ever compared with a generation of the same path,  *)
(* and 0 stands for "no entry": the counter starts handing out at 1, and a *)
(* sync worker that finds no entry keeps the zero value.                   *)
(***************************************************************************)
EXTENDS Naturals, FiniteSets

CONSTANT Paths      \* the file paths clients use

ASSUME PathsAssumption == IsFiniteSet(Paths)

VARIABLES
  dirty,            \* dirty[p]: LocalDirtyGeneration of p's entry, 0 without one
  recorded,         \* dirty paths whose sidecar is known to be on disk
  syncing,          \* claimed paths: a claim carries no owner
  generation        \* the last generation handed out

indexVars == <<dirty, recorded, syncing, generation>>

NoEntry == 0

IndexTypeOK ==
  /\ dirty \in [Paths -> Nat]
  /\ recorded \subseteq Paths
  /\ syncing \subseteq Paths
  /\ generation \in Nat

IndexInit ==
  /\ dirty = [p \in Paths |-> NoEntry]
  /\ recorded = {}
  /\ syncing = {}
  /\ generation = 0

IsDirty(p) == dirty[p] # NoEntry

\* MarkDirtyAgain succeeds only on an entry whose sidecar is on disk.
CanMarkDirtyAgain(p) == IsDirty(p) /\ p \in recorded

\* The entry of p gets a generation no entry has carried.
BumpGeneration(p) ==
  /\ generation' = generation + 1
  /\ dirty' = [dirty EXCEPT ![p] = generation + 1]

MarkDirtyAgain(p) ==
  /\ BumpGeneration(p)
  /\ UNCHANGED <<recorded, syncing>>

\* Mutant: an entry whose sidecar could not be written counts as recorded.
MarkDirtyWithState_AlwaysRecorded(p, sidecarOnDisk) ==
  /\ BumpGeneration(p)
  /\ recorded' = recorded \union {p}
  /\ UNCHANGED syncing

\* sidecarOnDisk is "state # nil": the sidecar has just been written.
MarkDirtyWithState(p, sidecarOnDisk) ==
  /\ BumpGeneration(p)
  /\ recorded' = IF sidecarOnDisk THEN recorded \union {p} ELSE recorded \ {p}
  /\ UNCHANGED syncing

\* MarkClean deletes the entry and, with it, whatever claim is on the path.
MarkClean(p) ==
  /\ dirty' = [dirty EXCEPT ![p] = NoEntry]
  /\ recorded' = recorded \ {p}
  /\ syncing' = syncing \ {p}
  /\ UNCHANGED generation

\* Mutant: the generation is not compared.
IsUnchanged_NotCompared(p, g) == TRUE

\* The upload that read generation g may mark the path clean.
IsUnchanged(p, g) == IsDirty(p) => dirty[p] = g

LockFile(p) ==
  /\ p \notin syncing
  /\ syncing' = syncing \union {p}
  /\ UNCHANGED <<dirty, recorded, generation>>

UnlockFile(p) ==
  /\ syncing' = syncing \ {p}
  /\ UNCHANGED <<dirty, recorded, generation>>

\* The entry of p, if there is one, is changed for an upload in flight.
Invalidate(p) ==
  IF IsDirty(p) THEN MarkDirtyAgain(p) ELSE UNCHANGED indexVars

\* DropEntry leaves the claims alone, where MarkClean does not.
DropEntry(p) ==
  /\ dirty' = [dirty EXCEPT ![p] = NoEntry]
  /\ recorded' = recorded \ {p}
  /\ UNCHANGED <<syncing, generation>>

\* The entry of o becomes n's, whether or not there is one.
Rekey(o, n) ==
  /\ generation' = generation + 1
  /\ dirty' = [dirty EXCEPT ![o] = NoEntry, ![n] = generation + 1]
  /\ recorded' = (recorded \ {o}) \union {n}
  /\ UNCHANGED syncing

MarkUnrecorded(p) ==
  /\ recorded' = recorded \ {p}
  /\ UNCHANGED <<dirty, syncing, generation>>

\* A restart: an empty index, then one RestoreDirty per path of found, in the
\* order the staging directory lists them.
RestoreDirty(found) ==
  /\ \E order \in [found -> 1..Cardinality(found)] :
       /\ \A p, q \in found : order[p] = order[q] => p = q
       /\ dirty' = [p \in Paths |-> IF p \in found THEN order[p] ELSE NoEntry]
  /\ recorded' = found
  /\ syncing' = {}
  /\ generation' = Cardinality(found)

=============================================================================
