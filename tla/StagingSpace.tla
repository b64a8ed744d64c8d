---------------------------- MODULE StagingSpace ----------------------------
(***************************************************************************)
(* The space staged bytes may take (ReserveWrite of internal/staging/      *)
(* manager.go, with Write, Truncate and Prefetch of session.go): a write   *)
(* works out how much it grows its file, reserves that much or is made to  *)
(* wait or refused, writes, and gives the reservation back.  While it      *)
(* writes, its bytes may be counted twice.                                 *)
(*                                                                         *)
(* The growth is worked out before the reservation and before the          *)
(* session's lock is taken; a prefetch reserves nothing.                   *)
(***************************************************************************)
EXTENDS Integers, FiniteSets

LOCAL INSTANCE FiniteSetsExt

CONSTANTS
  SpaceFiles, SpaceWriters,
  Quota, HighBytes, CriticalBytes,    \* max_staging_size and its watermarks
  MaxLength                           \* bound: the length of a file

ASSUME SpaceAssumption == 0 < HighBytes /\ HighBytes <= CriticalBytes /\ CriticalBytes <= Quota

VARIABLES
  mode,             \* "off", "reject" or "block": backpressure, as configured
  size,             \* size[f]: the size of f's session, 0 without one
  reservedBytes,    \* the growth of the writes under way
  space,            \* space[w]: the write w is in the middle of
  full,             \* whether the bucket refuses writes for its hard quota
  spaceBreach       \* what the code does not keep apart and has happened

spaceVars == <<mode, size, reservedBytes, space, full, spaceBreach>>

NoWrite == [pc |-> "idle", file |-> CHOOSE f \in SpaceFiles : TRUE, length |-> 0, grow |-> 0, cut |-> FALSE]

SpaceInit ==
  /\ mode \in {"off", "reject", "block"}
  /\ size = [f \in SpaceFiles |-> 0]
  /\ reservedBytes = 0
  /\ space = [w \in SpaceWriters |-> NoWrite]
  /\ full \in BOOLEAN
  /\ spaceBreach = {}

GetTotalStagingSize == MapThenSumSet(LAMBDA f : size[f], SpaceFiles)

Busy(f) == \E w \in SpaceWriters : space[w].pc # "idle" /\ space[w].file = f

\* Write at the end of the file or within it, and Truncate (cut): only one that
\* extends the file reserves.  A full bucket refuses writes before they start.
StartWrite(w, f, length, cut) ==
  LET grow == IF length > size[f] THEN length - size[f] ELSE 0
      asks == ~cut \/ grow > 0
  IN  /\ space[w].pc = "idle"
      /\ ~(asks /\ full)
      /\ space' = [space EXCEPT ![w] = [pc |-> IF asks THEN "reserve" ELSE "apply", file |-> f,
                                        length |-> length, grow |-> grow, cut |-> cut]]
      /\ UNCHANGED <<mode, size, reservedBytes, full, spaceBreach>>

\* pressureStateLocked.
Projected(grow) == GetTotalStagingSize + reservedBytes + grow

Level(grow) ==
  IF Projected(grow) >= CriticalBytes THEN "critical"
  ELSE IF Projected(grow) >= HighBytes THEN "high" ELSE "normal"

Allowed(grow) ==
  CASE mode = "off" -> Projected(grow) <= Quota
    [] mode = "reject" -> Level(grow) # "critical"
    [] mode = "block" -> Level(grow) = "normal"

\* Mutant: the growth is checked and not reserved.
Reserve_NotHeld(w) ==
  /\ space[w].pc = "reserve"
  /\ Allowed(space[w].grow)
  /\ space' = [space EXCEPT ![w].pc = "apply"]
  /\ UNCHANGED <<mode, size, reservedBytes, full, spaceBreach>>

Reserve(w) ==
  /\ space[w].pc = "reserve"
  /\ Allowed(space[w].grow)
  /\ reservedBytes' = reservedBytes + space[w].grow
  /\ space' = [space EXCEPT ![w].pc = "apply"]
  /\ UNCHANGED <<mode, size, full, spaceBreach>>

\* Refused: at once, after waiting out the timeout, or because the disk has less
\* than the quota says.  A blocked write asks again until then.
Refused(w) ==
  /\ space[w].pc = "reserve"
  /\ space' = [space EXCEPT ![w] = NoWrite]
  /\ UNCHANGED <<mode, size, reservedBytes, full, spaceBreach>>

\* The bytes are written under the session's lock.
Apply(w) ==
  LET r == space[w]
      now == IF r.cut \/ r.length > size[r.file] THEN r.length ELSE size[r.file]
      waiting == \E v \in SpaceWriters \ {w} : space[v].file = r.file /\ space[v].pc \in {"reserve", "apply"}
  IN  /\ r.pc = "apply"
      /\ size' = [size EXCEPT ![r.file] = now]
      /\ spaceBreach' = spaceBreach \union (IF now < size[r.file] /\ waiting THEN {"shrunk"} ELSE {})
      /\ space' = [space EXCEPT ![w].pc = "release"]
      /\ UNCHANGED <<mode, reservedBytes, full>>

\* releaseReservation, which never takes the reservations below zero.
Release(w) ==
  LET r == space[w]
  IN  /\ r.pc = "release"
      /\ reservedBytes' = IF r.cut /\ r.grow = 0 THEN reservedBytes
                          ELSE IF r.grow > reservedBytes THEN 0 ELSE reservedBytes - r.grow
      /\ space' = [space EXCEPT ![w] = NoWrite]
      /\ UNCHANGED <<mode, size, full, spaceBreach>>

\* A writable open of an object brings its bytes into the staging area.
PrefetchObject(f, length) ==
  /\ size[f] = 0 /\ ~Busy(f)
  /\ size' = [size EXCEPT ![f] = length]
  /\ spaceBreach' = spaceBreach \union (IF ~Allowed(length) THEN {"prefetch"} ELSE {})
  /\ UNCHANGED <<mode, reservedBytes, space, full>>

\* The file was uploaded and its session cleaned up.
Drained(f) ==
  /\ size[f] > 0 /\ ~Busy(f)
  /\ size' = [size EXCEPT ![f] = 0]
  /\ UNCHANGED <<mode, reservedBytes, space, full, spaceBreach>>

\* The object store says that the bucket is full, or the flag runs out.
BucketFills ==
  /\ full' = ~full
  /\ UNCHANGED <<mode, size, reservedBytes, space, spaceBreach>>

SpaceNext ==
  \/ \E w \in SpaceWriters, f \in SpaceFiles, length \in 0..MaxLength, cut \in BOOLEAN :
       StartWrite(w, f, length, cut)
  \/ \E w \in SpaceWriters : Reserve(w) \/ Refused(w) \/ Apply(w) \/ Release(w)
  \/ \E f \in SpaceFiles, length \in 1..MaxLength : PrefetchObject(f, length)
  \/ \E f \in SpaceFiles : Drained(f)
  \/ BucketFills

-----------------------------------------------------------------------------
\* The staged bytes stay within the quota, and below the critical watermark
\* where backpressure is on, however writes, truncations, uploads and prefetches
\* interleave; what is reserved never falls short of what is yet to be written.
UsedWithinQuota ==
  spaceBreach = {} =>
    /\ GetTotalStagingSize <= IF mode = "off" THEN Quota ELSE CriticalBytes - 1
    /\ reservedBytes = MapThenSumSet(LAMBDA w : IF space[w].pc \in {"apply", "release"}
                                                THEN space[w].grow ELSE 0, SpaceWriters)

=============================================================================
