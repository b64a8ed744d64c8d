----------------------------- MODULE ByteLocks -----------------------------
(***************************************************************************)
(* What the lock table promises its callers (internal/lock/manager.go, the *)
(* comments on Mode, Lock and Unlock): every byte of a file has its own    *)
(* advisory lock per owner.  A shared lock coexists with the other owners' *)
(* shared locks, an exclusive lock with none of their locks; an owner's    *)
(* new lock replaces what it held on the same bytes and nothing else.      *)
(* LockManager keeps ranges, caps and indexes; it implements this.         *)
(***************************************************************************)
EXTENDS Naturals

CONSTANTS
  Files,            \* the files locks are taken on
  Clients,          \* the protocol clients
  OwnerIds,         \* the holders within a client
  Bytes             \* the byte offsets of a file

Owners == Clients \X OwnerIds

Modes == {"shared", "exclusive"}

VARIABLE held       \* held[f][o][b]: the mode owner o holds byte b of f in, or "none"

ByteTypeOK == held \in [Files -> [Owners -> [Bytes -> Modes \union {"none"}]]]

ByteInit == held = [f \in Files |-> [o \in Owners |-> [b \in Bytes |-> "none"]]]

\* The bytes of bs and what the other owners hold of them allow o this mode.
Grantable(o, f, bs, mode) ==
  \A q \in Owners \ {o} : \A b \in bs :
     held[f][q][b] = "none" \/ (held[f][q][b] = "shared" /\ mode = "shared")

\* The owner's bytes of bs are held in this mode, or in none.
Hold(o, f, bs, mode) ==
  held' = [held EXCEPT ![f] = [@ EXCEPT ![o] =
             [b \in Bytes |-> IF b \in bs THEN mode ELSE held[f][o][b]]]]

ByteLock(o, f, bs, mode) ==
  /\ Grantable(o, f, bs, mode)
  /\ Hold(o, f, bs, mode)

ByteUnlock(o, f, bs) == Hold(o, f, bs, "none")

\* Owners that close or go away hold nothing any more, in any file.
ByteRelease(os) ==
  held' = [f \in Files |-> [o \in Owners |->
             IF o \in os THEN [b \in Bytes |-> "none"] ELSE held[f][o]]]

ByteNext ==
  \/ \E o \in Owners, f \in Files, bs \in SUBSET Bytes :
        \/ \E mode \in Modes : ByteLock(o, f, bs, mode)
        \/ ByteUnlock(o, f, bs)
  \/ \E o \in Owners : ByteRelease({o})
  \/ \E c \in Clients : ByteRelease({c} \X OwnerIds)

ByteSpec == ByteInit /\ [][ByteNext]_held

\* "Exclusive locks conflict with every other owner's lock on overlapping
\* bytes": no byte one owner holds exclusively is held by another.
ExclusiveExcludes ==
  \A f \in Files : \A o, q \in Owners : \A b \in Bytes :
     (o # q /\ held[f][o][b] = "exclusive") => held[f][q][b] = "none"

=============================================================================
