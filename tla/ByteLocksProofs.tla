-------------------------- MODULE ByteLocksProofs --------------------------
(***************************************************************************)
(* What a lock per byte is for: an exclusive lock keeps every other owner  *)
(* off its bytes, for all files, clients, owners and bytes.                *)
(***************************************************************************)
EXTENDS ByteLocks, TLAPS

ByteIInv == ByteTypeOK /\ ExclusiveExcludes

\* Holding bytes in a mode the others allow, or letting them go, keeps them apart.
LEMMA HoldInv ==
  ASSUME ByteIInv, NEW o \in Owners, NEW f \in Files, NEW bs \in SUBSET Bytes,
         NEW mode \in Modes \union {"none"},
         mode # "none" => Grantable(o, f, bs, mode), Hold(o, f, bs, mode)
  PROVE  ByteIInv'
<1> DEFINE n == [b \in Bytes |-> IF b \in bs THEN mode ELSE held[f][o][b]]
<1>0. ByteTypeOK /\ ExclusiveExcludes
  BY DEF ByteIInv
<1>1. n \in [Bytes -> Modes \union {"none"}]
  BY <1>0 DEF ByteTypeOK
<1>2. held' = [held EXCEPT ![f] = [@ EXCEPT ![o] = n]]
  BY DEF Hold
<1>3. \A b \in Bytes : n[b] = IF b \in bs THEN mode ELSE held[f][o][b]
  OBVIOUS
<1> HIDE DEF n
<1>4. ByteTypeOK'
  BY <1>0, <1>1, <1>2 DEF ByteTypeOK
<1>5. \A g \in Files : \A q \in Owners : held'[g][q] = IF g = f /\ q = o THEN n ELSE held[g][q]
  BY <1>0, <1>2 DEF ByteTypeOK
<1>6. ExclusiveExcludes'
  <2> SUFFICES ASSUME NEW g \in Files, NEW p \in Owners, NEW q \in Owners, NEW b \in Bytes,
                      p # q, held'[g][p][b] = "exclusive"
               PROVE  held'[g][q][b] = "none"
    BY DEF ExclusiveExcludes
  <2>1. held[g][p][b] = "exclusive" => held[g][q][b] = "none"
    BY <1>0 DEF ExclusiveExcludes
  <2>2. held[g][q][b] = "exclusive" => held[g][p][b] = "none"
    BY <1>0 DEF ExclusiveExcludes
  <2>3. held[g][q][b] \in Modes \union {"none"} /\ held[g][p][b] \in Modes \union {"none"}
    BY <1>0 DEF ByteTypeOK
  <2>4. CASE g = f /\ p = o
    BY <2>1, <2>3, <2>4, <1>3, <1>5 DEF Grantable, Modes
  <2>5. CASE g = f /\ q = o
    BY <2>1, <2>2, <2>3, <2>5, <1>3, <1>5 DEF Grantable, Modes
  <2>6. CASE ~(g = f /\ (p = o \/ q = o))
    BY <2>1, <2>6, <1>5
  <2>7. QED
    BY <2>4, <2>5, <2>6
<1>7. QED
  BY <1>4, <1>6 DEF ByteIInv

\* Owners that go leave every byte to the others.
LEMMA ReleaseInv ==
  ASSUME ByteIInv, NEW os, ByteRelease(os)
  PROVE  ByteIInv'
<1>1. ByteTypeOK'
  BY DEF ByteIInv, ByteTypeOK, ByteRelease
<1>2. ExclusiveExcludes'
  BY DEF ByteIInv, ByteTypeOK, ByteRelease, ExclusiveExcludes
<1>3. QED
  BY <1>1, <1>2 DEF ByteIInv

\* "Exclusive locks conflict with every other owner's lock on overlapping bytes"
\* (Mode, Lock of internal/lock/manager.go): no byte one owner holds exclusively
\* is held by another, for any number of owners and bytes.  LockManager's table
\* implements this specification.
THEOREM ByteLocksExclude == ByteSpec => []ExclusiveExcludes
<1>1. ByteInit => ByteIInv
  BY DEF ByteInit, ByteIInv, ByteTypeOK, ExclusiveExcludes, Modes
<1>2. ByteIInv /\ [ByteNext]_held => ByteIInv'
  <2> SUFFICES ASSUME ByteIInv, [ByteNext]_held PROVE ByteIInv'
    OBVIOUS
  <2>1. ASSUME NEW o \in Owners, NEW f \in Files, NEW bs \in SUBSET Bytes, NEW mode \in Modes,
               ByteLock(o, f, bs, mode)
        PROVE  ByteIInv'
    BY <2>1, HoldInv DEF ByteLock
  <2>2. ASSUME NEW o \in Owners, NEW f \in Files, NEW bs \in SUBSET Bytes, ByteUnlock(o, f, bs)
        PROVE  ByteIInv'
    BY <2>2, HoldInv DEF ByteUnlock
  <2>3. ASSUME UNCHANGED held PROVE ByteIInv'
    BY <2>3 DEF ByteIInv, ByteTypeOK, ExclusiveExcludes
  <2>4. QED
    BY <2>1, <2>2, <2>3, ReleaseInv DEF ByteNext
<1>3. QED
  BY <1>1, <1>2, PTL DEF ByteSpec, ByteIInv

=============================================================================
