--------------------------- MODULE MetadataCache ---------------------------
(***************************************************************************)
(* The metadata cache (internal/cache/metadata.go over lru.go) and the     *)
(* fence that keeps an answer taken before a change out of it              *)
(* (internal/posix/listing_fence.go), for one directory and the files in   *)
(* it.  Every operation is one critical section of the cache's or the      *)
(* fence's mutex; they are two mutexes, so storing an answer takes two     *)
(* steps, and so does dropping one.                                        *)
(*                                                                         *)
(* The least recently used entry goes when other paths fill the cache, so  *)
(* an entry may leave at any time; an expired entry stays for GetStale.    *)
(***************************************************************************)
EXTENDS Naturals, Sequences, FiniteSets

CONSTANTS
  Files,            \* the files of the directory
  Dir               \* the directory

Keys == Files \union {Dir}

VARIABLES
  entry,            \* entry[k]: what is cached under k, NoEntry without an entry
  lookups,          \* the fence of the HEADs and LISTs that stat a path
  listings          \* the fence of the LISTs that fill a directory's listing

cacheVars == <<entry, lookups, listings>>

\* A negative entry says that the path is not there, a file entry which version
\* is, a dir entry that the directory is; listed when it carries ChildEntries.
NoEntry == [kind |-> "none", version |-> 0, listed |-> FALSE, names |-> {}, fresh |-> FALSE]

NegativeEntry == [NoEntry EXCEPT !.kind = "negative", !.fresh = TRUE]

FileEntry(v) == [NoEntry EXCEPT !.kind = "file", !.version = v, !.fresh = TRUE]

DirEntry == [NoEntry EXCEPT !.kind = "dir", !.fresh = TRUE]

Idle == [inFlight |-> 0, generation |-> 0]

CacheInit ==
  /\ entry = [k \in Keys |-> NoEntry]
  /\ lookups = [k \in Keys |-> Idle]
  /\ listings = [k \in {Dir} |-> Idle]

-----------------------------------------------------------------------------
\* Get: an expired entry is a miss.
Hit(k) == entry[k].fresh

\* GetStale: an entry that is there answers, whatever its age.
Known(k) == entry[k].kind # "none"

\* cachedListingHas, of a listing that has not expired.
ListingHas(f) == Hit(Dir) /\ entry[Dir].listed /\ f \in entry[Dir].names

CacheSet(k, e) == entry' = [entry EXCEPT ![k] = e]

\* SetDirEntries: the listing becomes part of the directory's entry.
SetDirEntries(names) ==
  CacheSet(Dir, [DirEntry EXCEPT !.listed = TRUE, !.names = names])

CacheDelete(k) == CacheSet(k, NoEntry)

\* InvalidatePrefix: everything below the directory.
InvalidatePrefix == entry' = [k \in Keys |-> IF k \in Files THEN NoEntry ELSE entry[k]]

Expire(k) ==
  /\ entry[k].fresh
  /\ entry' = [entry EXCEPT ![k].fresh = FALSE]
  /\ UNCHANGED <<lookups, listings>>

\* evictOldest and CleanExpired.
Evict(k) ==
  /\ Known(k)
  /\ CacheDelete(k)
  /\ UNCHANGED <<lookups, listings>>

-----------------------------------------------------------------------------
\* begin: one more answer is being taken under k, of the current generation.
Begin(fence, k) == [fence EXCEPT ![k].inFlight = @ + 1]

\* end: the generation is forgotten with the last answer being taken.
End(fence, k) ==
  [fence EXCEPT ![k] = IF @.inFlight <= 1 THEN Idle ELSE [@ EXCEPT !.inFlight = @ - 1]]

\* end's answer: no change was announced since begin.
Unchanged(fence, k, generation) ==
  fence[k].inFlight > 0 /\ fence[k].generation = generation

\* invalidate: the answers being taken under ks are out of date.
Invalidate(fence, ks) ==
  [k \in DOMAIN fence |->
     IF k \in ks /\ fence[k].inFlight > 0
     THEN [fence[k] EXCEPT !.generation = @ + 1] ELSE fence[k]]

=============================================================================
