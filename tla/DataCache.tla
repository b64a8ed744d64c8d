----------------------------- MODULE DataCache -----------------------------
(***************************************************************************)
(* The disk cache of object chunks (internal/cache/data.go over lru.go).   *)
(* Every operation is one critical section of DataCache.mu, and is written *)
(* as the cache it leaves behind.  A cache is a record of the index in the *)
(* order of use (oldest first), the keys of it that are past their TTL,    *)
(* the chunk files on disk (0 for no file, else the version of the object  *)
(* the bytes are of) and the size the cache believes it has.               *)
(***************************************************************************)
EXTENDS Integers, Sequences, FiniteSets

LOCAL INSTANCE SequencesExt
LOCAL INSTANCE FiniteSetsExt

CONSTANTS
  CacheKeys,        \* the chunks that may be cached
  SizeOf,           \* SizeOf[k]: the bytes of chunk k
  MaxSize,          \* the bytes the cache may take
  MaxEntries        \* the entries the index may have

VARIABLE chunkCache

EmptyChunkCache == [index |-> <<>>, expired |-> {}, file |-> [k \in CacheKeys |-> 0],
                    currentSize |-> 0]

Indexed(d) == ToSet(d.index)

Bytes(ks) == MapThenSumSet(LAMBDA k : SizeOf[k], ks)

OnDisk(d) == {k \in CacheKeys : d.file[k] # 0}

\* Keys leave the index.  onEvict deletes their files, and takes from the size
\* what was on disk.
Dropped(d, ks) ==
  [index |-> SelectSeq(d.index, LAMBDA k : k \notin ks),
   expired |-> d.expired \ ks,
   file |-> [k \in CacheKeys |-> IF k \in ks THEN 0 ELSE d.file[k]],
   currentSize |-> d.currentSize - Bytes(ks \intersect OnDisk(d))]

\* A file is there to be read (index.Get): the entry becomes the latest used.
Fresh(d, k) == k \in Indexed(d) \ d.expired

Used(d, k) == [d EXCEPT !.index = Append(SelectSeq(@, LAMBDA j : j # k), k)]

\* Mutant: the bytes about to be written are not counted.
Evicted_BeforeFull(d, size) ==
  LET oldest(n) == Dropped(d, {d.index[i] : i \in 1..n})
      enough == {n \in 0..Len(d.index) : oldest(n).currentSize <= MaxSize}
  IN  oldest(IF enough = {} THEN Len(d.index) ELSE Min(enough))

\* The eviction loop of Write: the oldest entries go until the bytes fit, or
\* until nothing is left to evict.
Evicted(d, size) ==
  LET oldest(n) == Dropped(d, {d.index[i] : i \in 1..n})
      enough == {n \in 0..Len(d.index) : oldest(n).currentSize + size <= MaxSize}
  IN  oldest(IF enough = {} THEN Len(d.index) ELSE Min(enough))

\* Write: an entry of the key makes way first, one past its TTL does not, so
\* its bytes are counted twice.  A chunk larger than the cache is not kept.
Cached(d, k, v) ==
  LET room == Evicted(IF Fresh(d, k) THEN Dropped(d, {k}) ELSE d, SizeOf[k])
      stored == [Used(room, k) EXCEPT !.file[k] = v, !.expired = @ \ {k},
                                      !.currentSize = @ + SizeOf[k]]
  IN  IF SizeOf[k] > MaxSize THEN d
      ELSE IF Len(stored.index) > MaxEntries THEN Dropped(stored, {Head(stored.index)})
      ELSE stored

Expired(d, k) == [d EXCEPT !.expired = @ \union {k}]

\* A process that starts finds the files and not the index.
Restarted(d) == [EmptyChunkCache EXCEPT !.file = d.file, !.currentSize = Bytes(OnDisk(d))]

-----------------------------------------------------------------------------
\* The chunks the index knows take no more than the cache may, and the cache
\* never believes itself smaller than what is on disk, so eviction starts in
\* time: through rewrites of a chunk, evictions, entries past their TTL that are
\* written again, invalidations and files left over from before a restart.
DataCacheWithinLimit ==
  /\ Bytes(Indexed(chunkCache) \intersect OnDisk(chunkCache)) <= MaxSize
  /\ chunkCache.currentSize >= Bytes(OnDisk(chunkCache))

=============================================================================
