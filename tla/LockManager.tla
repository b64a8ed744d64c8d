---------------------------- MODULE LockManager ----------------------------
(***************************************************************************)
(* The byte-range lock table the NFS and SMB servers share                 *)
(* (internal/lock/manager.go, reached through internal/nfs/locker.go and   *)
(* internal/smb/locker.go): the ranges each owner holds of each file, the  *)
(* index of the files an owner holds ranges of, and a count per client.    *)
(*                                                                         *)
(* Every method is one critical section of Manager.mu.  A refused Lock     *)
(* (ErrInvalid, a conflict, ErrLimit), and Test and Locks, change nothing. *)
(* Offsets run from 0 to EOF, the range end that means "to end of file".   *)
(***************************************************************************)
EXTENDS SequencesExt

CONSTANTS
  Files,                \* the keys of the table
  Clients, OwnerIds,    \* an owner is a client and a holder within it
  EOF,
  MaxLocksPerFile, MaxLocksPerClient

ASSUME LockAssumption == EOF \in Nat \ {0} /\ MaxLocksPerFile \in Nat \ {0}
                                           /\ MaxLocksPerClient \in Nat \ {0}

Owners == Clients \X OwnerIds

Modes == {"shared", "exclusive"}

VARIABLES
  ranges,           \* ranges[f][o]: Manager.files, the owner's held ranges
  owned,            \* owned[o]: the files o holds ranges of
  clientLocks       \* clientLocks[c]: how many ranges the client's owners hold

lockVars == <<ranges, owned, clientLocks>>

LockRanges == {r \in [start: 0..EOF, end: 0..EOF] : r.start < r.end}

Held == {h \in [start: 0..EOF, end: 0..EOF, mode: Modes] : h.start < h.end}

LockTypeOK ==
  /\ ranges \in [Files -> [Owners -> Seq(Held)]]
  /\ owned \in [Owners -> SUBSET Files]
  /\ clientLocks \in [Clients -> Nat]

LockInit ==
  /\ ranges = [f \in Files |-> [o \in Owners |-> <<>>]]
  /\ owned = [o \in Owners |-> {}]
  /\ clientLocks = [c \in Clients |-> 0]

Overlaps(h, r) == h.start < r.end /\ r.start < h.end

\* conflictLocked: another owner's range stands in the way of this lock.
Conflicts(o, f, r, mode) ==
  \E q \in Owners \ {o} : \E h \in ToSet(ranges[f][q]) :
     Overlaps(h, r) /\ ~(h.mode = "shared" /\ mode = "shared")

\* Mutant: pieces without bytes are kept.
LeftOf_KeepsEmpty(h, r) ==
  IF Overlaps(h, r) THEN <<[h EXCEPT !.end = r.start], [h EXCEPT !.start = r.end]>> ELSE <<h>>

\* What is left of the held range h once r is taken out of it.
LeftOf(h, r) ==
  IF Overlaps(h, r)
  THEN SelectSeq(<<[h EXCEPT !.end = r.start], [h EXCEPT !.start = r.end]>>,
                 LAMBDA x : x.start < x.end)
  ELSE <<h>>

\* Mutant: what is left behind the range taken out is dropped.
Subtract_KeepsFront(hs, r) ==
  FlattenSeq([i \in DOMAIN hs |->
    SelectSeq(LeftOf(hs[i], r), LAMBDA x : ~Overlaps(hs[i], r) \/ x.end <= r.start)])

Subtract(hs, r) == FlattenSeq([i \in DOMAIN hs |-> LeftOf(hs[i], r)])

\* coalesce, one range at a time in the order of their starts.
Merge(out, h) ==
  IF out # <<>> /\ Last(out).mode = h.mode /\ h.start <= Last(out).end
  THEN Front(out) \o <<[Last(out) EXCEPT !.end = IF h.end > @ THEN h.end ELSE @]>>
  ELSE Append(out, h)

\* Mutant: ranges are appended without being merged.
Coalesce_None(hs) == SortSeq(hs, LAMBDA a, b : a.start < b.start)

Coalesce(hs) == FoldLeft(Merge, <<>>, SortSeq(hs, LAMBDA a, b : a.start < b.start))

FileLockCount(f) == FoldFunction(LAMBDA hs, n : Len(hs) + n, 0, ranges[f])

\* Mutant: a release without ranges leaves the client's count.
SetLocked_KeepsCount(o, f, hs, delta) ==
  /\ ranges' = [ranges EXCEPT ![f][o] = hs]
  /\ owned' = [owned EXCEPT ![o] = IF hs = <<>> THEN @ \ {f} ELSE @ \union {f}]
  /\ clientLocks' = IF hs = <<>> THEN clientLocks
                    ELSE [clientLocks EXCEPT ![o[1]] = @ + delta]

\* setLocked: the ranges with the index and the count; an empty list is no entry.
SetLocked(o, f, hs, delta) ==
  /\ ranges' = [ranges EXCEPT ![f][o] = hs]
  /\ owned' = [owned EXCEPT ![o] = IF hs = <<>> THEN @ \ {f} ELSE @ \union {f}]
  /\ clientLocks' = [clientLocks EXCEPT ![o[1]] = IF @ + delta > 0 THEN @ + delta ELSE 0]

-----------------------------------------------------------------------------
Lock(o, f, r, mode) ==
  LET before == ranges[f][o]
      after == Coalesce(Append(Subtract(before, r),
                               [start |-> r.start, end |-> r.end, mode |-> mode]))
      delta == Len(after) - Len(before)
  IN  /\ ~Conflicts(o, f, r, mode)
      /\ delta > 0 => /\ FileLockCount(f) + delta <= MaxLocksPerFile
                      /\ clientLocks[o[1]] + delta <= MaxLocksPerClient
      /\ SetLocked(o, f, after, delta)

Unlock(o, f, r) ==
  LET after == Subtract(ranges[f][o], r)
  IN  SetLocked(o, f, after, Len(after) - Len(ranges[f][o]))

\* releaseOwnerLocked for each of these owners of one client: their ranges of
\* every file the index names.
ReleaseOwners(os) ==
  LET drops(f, o) == o \in os /\ f \in owned[o]
      dropped(c) == FoldFunction(+, 0, [fo \in Files \X {o \in os : o[1] = c} |->
                       IF drops(fo[1], fo[2]) THEN Len(ranges[fo[1]][fo[2]]) ELSE 0])
  IN  /\ ranges' = [f \in Files |-> [o \in Owners |->
                      IF drops(f, o) THEN <<>> ELSE ranges[f][o]]]
      /\ owned' = [o \in Owners |-> IF o \in os THEN {} ELSE owned[o]]
      /\ clientLocks' = [c \in Clients |->
           IF clientLocks[c] > dropped(c) THEN clientLocks[c] - dropped(c) ELSE 0]

ReleaseOwner(o) == ReleaseOwners({o})

ReleaseClient(c) == ReleaseOwners({c} \X OwnerIds)

-----------------------------------------------------------------------------
\* The mode of the range of hs that covers byte b.
ModeAt(hs, b) ==
  LET covering == {h \in ToSet(hs) : h.start <= b /\ b < h.end}
  IN  IF covering = {} THEN "none" ELSE (CHOOSE h \in covering : TRUE).mode

HeldBytes ==
  [f \in Files |-> [o \in Owners |-> [b \in 0..(EOF - 1) |-> ModeAt(ranges[f][o], b)]]]

PerByte == INSTANCE ByteLocks WITH Bytes <- 0..(EOF - 1), held <- HeldBytes

\* The range arithmetic of subtract and coalesce implements one lock per byte:
\* every Lock, Unlock and release, splits and merges included, is a step of
\* ByteLocks, so no byte is ever granted against another owner or lost.  (This is
\* PerByte!ByteSpec with the stuttering steps, where the table or its bytes stay
\* as they are, told apart first.)
ImplementsByteLocks ==
  /\ PerByte!ByteInit
  /\ [][UNCHANGED lockVars \/ UNCHANGED HeldBytes \/ PerByte!ByteNext]_HeldBytes

\* The table is kept normal ("sorted by start", "bounding growth from repeated
\* small locks"): an owner's ranges of a file are sorted and disjoint, and no
\* two of them that touch have the same mode.
RangesNormal ==
  \A f \in Files, o \in Owners :
     LET hs == ranges[f][o]
     IN  \A i \in 1..(Len(hs) - 1) :
            /\ hs[i].end <= hs[i + 1].start
            /\ hs[i].mode = hs[i + 1].mode => hs[i].end < hs[i + 1].start

\* setLocked "keeps the indexes and client count in step": a release by owner or
\* by client finds every range, and a client is charged for exactly its ranges.
IndexesInStep ==
  /\ \A o \in Owners : owned[o] = {f \in Files : ranges[f][o] # <<>>}
  /\ \A c \in Clients : clientLocks[c] =
        FoldFunction(+, 0, [fo \in Files \X ({c} \X OwnerIds) |-> Len(ranges[fo[1]][fo[2]])])

=============================================================================
