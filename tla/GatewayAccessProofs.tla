------------------------ MODULE GatewayAccessProofs ------------------------
(***************************************************************************)
(* Share modes hold among the opens of every file, and a closed handle     *)
(* owns no lock, for all paths, handles, requests and lock owners.         *)
(*                                                                         *)
(* Neither is inductive.  An open may be recorded because the handle has   *)
(* no other entry, and a handle may go because it has no locks or releases *)
(* them all, so the invariant ties the share table, the lock table and the *)
(* index of its owners to where each handle is in its calls.               *)
(***************************************************************************)
EXTENDS GatewayAccess, TLAPS

\* The fields of a handle; only its path and the target of its rename matter.
Fields == DOMAIN Closed

HandleOK(x) ==
  /\ DOMAIN x = Fields
  /\ x.pc # "closed" => x.path \in Paths
  /\ x.pc \in {"rename", "renamed"} => x.target \in Paths

\* Where a handle has no entry in the share table, and where it may own locks.
Free == {"closed", "reserve", "saving", "storing"}
Locks == {"open", "rename", "renamed", "copy", "note"}

HandlesOK == DOMAIN handle = Handles /\ \A h \in Handles : HandleOK(handle[h])

TableOK ==
  /\ opens \in [Keys -> SUBSET Handles]
  /\ DOMAIN access = Handles /\ DOMAIN share = Handles

Unreserved == \A h \in Handles : handle[h].pc \in Free => \A k \in Keys : h \notin opens[k]

LockTableOK ==
  /\ DOMAIN ranges = Files /\ \A f \in Files : DOMAIN ranges[f] = Owners
  /\ DOMAIN owned = Owners
  /\ \A o \in Owners : owned[o] = {f \in Files : ranges[f][o] # <<>>}

Unlocked ==
  \A h \in Handles : handle[h].pc \notin Locks => \A f \in Files : ranges[f][<<"smb", h>>] = <<>>

ShareInv == HandlesOK /\ TableOK /\ Unreserved /\ ShareModesHold

AccessIInv == ShareInv /\ LockTableOK /\ Unlocked

-----------------------------------------------------------------------------
\* The fields a handle has.
LEMMA FieldsAre ==
  /\ {"pc", "path", "stream", "disp", "needs", "permits", "exists", "old", "file", "copied",
      "bytes", "dirty", "remove", "snap", "target", "only"} = Fields
  /\ Closed.pc = "closed" /\ HandleOK(Closed)
<1>1. DOMAIN Closed = {"pc", "path", "stream", "disp", "needs", "permits", "exists", "old", "file",
                       "copied", "bytes", "dirty", "remove", "snap", "target", "only"}
  BY DEF Closed
<1>2. Closed.pc = "closed"
  BY DEF Closed
<1>3. QED
  BY <1>1, <1>2 DEF Fields, HandleOK

\* Setting one handle.
LEMMA SetFacts ==
  ASSUME HandlesOK, NEW h \in Handles, NEW r, HandleOK(r), Set(h, r)
  PROVE  /\ HandlesOK'
         /\ handle'[h] = r
         /\ \A g \in Handles : g # h => handle'[g] = handle[g]
<1>1. DOMAIN handle' = Handles
  BY DEF HandlesOK, Set
<1>2. handle'[h] = r /\ \A g \in Handles : g # h => handle'[g] = handle[g]
  BY DEF HandlesOK, Set
<1>3. \A g \in Handles : HandleOK(handle'[g])
  BY <1>2, Zenon DEF HandlesOK
<1>4. QED
  BY <1>1, <1>2, <1>3 DEF HandlesOK, HandleOK

\* A step of one handle that leaves both tables alone.
LEMMA StepInv ==
  ASSUME AccessIInv, NEW h \in Handles, NEW r, HandleOK(r), Set(h, r),
         r.pc \in Free => handle[h].pc \in Free,
         r.pc \notin Locks => handle[h].pc \notin Locks,
         UNCHANGED <<shareVars, lockVars>>, breach \subseteq breach'
  PROVE  AccessIInv'
<1>0. HandlesOK /\ TableOK /\ Unreserved /\ ShareModesHold /\ LockTableOK /\ Unlocked
  BY DEF AccessIInv, ShareInv
<1>1. /\ HandlesOK' /\ handle'[h] = r
      /\ \A g \in Handles : g # h => handle'[g] = handle[g]
  BY <1>0, SetFacts
<1>2. UNCHANGED <<opens, access, share>> /\ UNCHANGED <<ranges, owned, clientLocks>>
  BY DEF shareVars, lockVars
<1>3. TableOK' /\ LockTableOK'
  BY <1>0, <1>2 DEF TableOK, LockTableOK
<1>4. Unreserved'
  BY <1>0, <1>1, <1>2 DEF Unreserved
<1>5. Unlocked'
  BY <1>0, <1>1, <1>2 DEF Unlocked
<1>6. ShareModesHold'
  BY <1>0, <1>2 DEF ShareModesHold, SharesCompatible, ShareConflict
<1>7. QED
  BY <1>1, <1>3, <1>4, <1>5, <1>6 DEF AccessIInv, ShareInv

\* Release takes one open out of the table, wherever it is.
LEMMA ReleaseFacts ==
  ASSUME TableOK, ShareModesHold, NEW h \in Handles, Release(h), breach' = breach
  PROVE  /\ TableOK' /\ ShareModesHold'
         /\ \A k \in Keys : opens'[k] = opens[k] \ {h}
<1>1. TableOK' /\ \A k \in Keys : opens'[k] = opens[k] \ {h}
  BY DEF TableOK, Release
<1>2. \A g \in Handles : g # h => access'[g] = access[g] /\ share'[g] = share[g]
  BY DEF TableOK, Release
<1>3. SharesCompatible => SharesCompatible'
  BY <1>1, <1>2 DEF TableOK, SharesCompatible, ShareConflict
<1>4. QED
  BY <1>1, <1>3 DEF ShareModesHold

\* A handle that gives up its reservation on the way of a failed call.
LEMMA FailInv ==
  ASSUME AccessIInv, NEW h \in Handles, Set(h, Closed), handle[h].pc \notin Locks,
         Release(h), UNCHANGED lockVars, breach' = breach
  PROVE  AccessIInv'
<1>0. HandlesOK /\ TableOK /\ Unreserved /\ ShareModesHold /\ LockTableOK /\ Unlocked
  BY DEF AccessIInv, ShareInv
<1>1. /\ HandlesOK' /\ handle'[h] = Closed
      /\ \A g \in Handles : g # h => handle'[g] = handle[g]
  BY <1>0, SetFacts, FieldsAre
<1>2. /\ TableOK' /\ ShareModesHold'
      /\ \A k \in Keys : opens'[k] = opens[k] \ {h}
  BY <1>0, ReleaseFacts
<1>3. Unreserved'
  BY <1>0, <1>1, <1>2 DEF Unreserved
<1>4. LockTableOK' /\ Unlocked'
  BY <1>0, <1>1 DEF LockTableOK, Unlocked, lockVars
<1>5. QED
  BY <1>1, <1>2, <1>3, <1>4 DEF AccessIInv, ShareInv

\* Acquire records an open that is compatible with the others under its key.
LEMMA AcquireInv ==
  ASSUME AccessIInv, NEW h \in Handles, NEW r, HandleOK(r), Set(h, r), handle[h].pc = "reserve",
         r.pc \notin Free, NEW k, NEW needs, NEW permits, Acquire(h, k, needs, permits),
         UNCHANGED lockVars, breach' = breach
  PROVE  AccessIInv'
<1>0. HandlesOK /\ TableOK /\ Unreserved /\ ShareModesHold /\ LockTableOK /\ Unlocked
  BY DEF AccessIInv, ShareInv
<1>1. /\ HandlesOK' /\ handle'[h] = r
      /\ \A g \in Handles : g # h => handle'[g] = handle[g]
  BY <1>0, SetFacts
<1>2. /\ \A g \in opens[k] : ~ShareConflict(needs, permits, g)
      /\ opens' = [opens EXCEPT ![k] = @ \union {h}]
      /\ access' = [access EXCEPT ![h] = needs]
      /\ share' = [share EXCEPT ![h] = permits]
  BY DEF Acquire, CanAcquire
<1>3. TableOK'
  BY <1>0, <1>2 DEF TableOK
<1>4. \A l \in Keys : opens'[l] = IF l = k THEN opens[l] \union {h} ELSE opens[l]
  BY <1>0, <1>2 DEF TableOK
<1>5. /\ access'[h] = needs /\ share'[h] = permits
      /\ \A g \in Handles : g # h => access'[g] = access[g] /\ share'[g] = share[g]
  BY <1>0, <1>2 DEF TableOK
<1>6. \A l \in Keys : h \notin opens[l] /\ opens[l] \subseteq Handles
  BY <1>0 DEF Unreserved, Free, TableOK
<1>7. SharesCompatible => SharesCompatible'
  BY <1>2, <1>4, <1>5, <1>6 DEF SharesCompatible, ShareConflict
<1>8. ShareModesHold'
  BY <1>0, <1>7 DEF ShareModesHold
<1>9. Unreserved'
  BY <1>0, <1>1, <1>4 DEF Unreserved
<1>10. LockTableOK' /\ Unlocked'
  BY <1>0, <1>1 DEF LockTableOK, Unlocked, lockVars, Locks
<1>11. QED
  BY <1>1, <1>3, <1>8, <1>9, <1>10 DEF AccessIInv, ShareInv

\* The entries of a renamed file move to a name without entries, or are "merged".
LEMMA RenameDoneInv ==
  ASSUME AccessIInv, NEW h \in Handles, RenameDone(h), UNCHANGED lockVars
  PROVE  AccessIInv'
<1> DEFINE x == handle[h]
           k == <<x.path, Main>>
           l == <<x.target, Main>>
           r == [x EXCEPT !.pc = "open", !.path = x.target, !.target = Closed.target]
<1>0. HandlesOK /\ TableOK /\ Unreserved /\ ShareModesHold /\ LockTableOK /\ Unlocked
  BY DEF AccessIInv, ShareInv
<1>1. /\ x.pc = "renamed" /\ Set(h, r) /\ RenameOpens(k, l)
      /\ breach' = IF opens[l] # {} THEN breach \union {"merged"} ELSE breach
  BY DEF RenameDone
<1>2. HandleOK(x) /\ x.path \in Paths /\ x.target \in Paths
  BY <1>0, <1>1 DEF HandlesOK, HandleOK
<1>3. HandleOK(r) /\ r.pc = "open"
  BY <1>2, FieldsAre DEF HandleOK
<1>4. k \in Keys /\ l \in Keys
  BY <1>2, SmbAssumption
<1> HIDE DEF x, k, l, r
<1>5. /\ HandlesOK' /\ handle'[h] = r
      /\ \A g \in Handles : g # h => handle'[g] = handle[g]
  BY <1>0, <1>1, <1>3, SetFacts
<1>6. /\ TableOK' /\ access' = access /\ share' = share
      /\ k = l => opens' = opens
      /\ k # l => \A m \in Keys : opens'[m] = IF m = k THEN {} ELSE IF m = l THEN opens[l] \union opens[k]
                                             ELSE opens[m]
  BY <1>0, <1>1, <1>4 DEF RenameOpens, TableOK
<1>7. ShareModesHold'
  <2> SUFFICES ASSUME "merged" \notin breach' PROVE SharesCompatible'
    BY DEF ShareModesHold
  <2>1. opens[l] = {} /\ SharesCompatible
    BY <1>0, <1>1 DEF ShareModesHold
  <2>2. CASE k = l
    BY <2>1, <2>2, <1>6 DEF SharesCompatible, ShareConflict
  <2>3. CASE k # l
    BY <2>1, <2>3, <1>4, <1>6 DEF SharesCompatible, ShareConflict
  <2>4. QED
    BY <2>2, <2>3
<1>8. Unreserved'
  <2>1. \A g \in Handles : handle'[g].pc \in Free => handle[g].pc \in Free
    BY <1>3, <1>5 DEF Free
  <2>2. \A g \in Handles : (\A m \in Keys : g \notin opens[m]) => \A m \in Keys : g \notin opens'[m]
    BY <1>4, <1>6
  <2>3. QED
    BY <1>0, <2>1, <2>2 DEF Unreserved
<1>9. LockTableOK' /\ Unlocked'
  BY <1>0, <1>3, <1>5 DEF LockTableOK, Unlocked, lockVars, Locks
<1>10. QED
  BY <1>5, <1>6, <1>7, <1>8, <1>9 DEF AccessIInv, ShareInv

-----------------------------------------------------------------------------
\* setLocked keeps the index of an owner's files in step with its ranges.
LEMMA SetLockedFacts ==
  ASSUME LockTableOK, NEW o \in Owners, NEW f \in Files, NEW hs, NEW delta, SetLocked(o, f, hs, delta)
  PROVE  /\ LockTableOK'
         /\ \A g \in Files : \A q \in Owners : q # o => ranges'[g][q] = ranges[g][q]
<1>1. ranges' = [ranges EXCEPT ![f] = [ranges[f] EXCEPT ![o] = hs]]
  BY DEF SetLocked
<1>2. owned' = [owned EXCEPT ![o] = IF hs = <<>> THEN owned[o] \ {f} ELSE owned[o] \union {f}]
  BY DEF SetLocked
<1>3. \A g \in Files : \A q \in Owners :
        ranges'[g][q] = IF g = f /\ q = o THEN hs ELSE ranges[g][q]
  BY <1>1 DEF LockTableOK
<1>4. DOMAIN ranges' = Files /\ \A g \in Files : DOMAIN ranges'[g] = Owners
  BY <1>1 DEF LockTableOK
<1>5. DOMAIN owned' = Owners
  BY <1>2 DEF LockTableOK
<1>6. \A q \in Owners : owned'[q] = {g \in Files : ranges'[g][q] # <<>>}
  BY <1>2, <1>3 DEF LockTableOK
<1>7. QED
  BY <1>3, <1>4, <1>5, <1>6 DEF LockTableOK

\* A release by owner or by client finds every range: the index names its files.
LEMMA ReleaseOwnersFacts ==
  ASSUME LockTableOK, NEW os, ReleaseOwners(os)
  PROVE  /\ LockTableOK'
         /\ \A f \in Files : \A o \in Owners :
              ranges'[f][o] = IF o \in os THEN <<>> ELSE ranges[f][o]
<1>1. ranges' = [f \in Files |-> [o \in Owners |->
                   IF o \in os /\ f \in owned[o] THEN <<>> ELSE ranges[f][o]]]
  BY DEF ReleaseOwners
<1>2. owned' = [o \in Owners |-> IF o \in os THEN {} ELSE owned[o]]
  BY DEF ReleaseOwners
<1>3. \A f \in Files : \A o \in Owners :
         ranges'[f][o] = IF o \in os THEN <<>> ELSE ranges[f][o]
  BY <1>1 DEF LockTableOK
<1>4. DOMAIN ranges' = Files /\ (\A f \in Files : DOMAIN ranges'[f] = Owners) /\ DOMAIN owned' = Owners
  BY <1>1, <1>2
<1>5. \A o \in Owners : owned'[o] = {f \in Files : ranges'[f][o] # <<>>}
  BY <1>2, <1>3 DEF LockTableOK
<1>6. QED
  BY <1>3, <1>4, <1>5 DEF LockTableOK

\* Lock owners of either server.
LEMMA OwnersAre ==
  ASSUME NEW h \in Handles
  PROVE  /\ <<"smb", h>> \in Owners /\ <<"nfs", h>> \in Owners
         /\ \A g \in Handles : <<"smb", h>> # <<"nfs", g>>
         /\ \A g \in Handles : g # h => <<"smb", g>> # <<"smb", h>>
BY AccessAssumption DEF Owners

\* Steps of the lock table: only an open handle takes locks.
LEMMA LockingInv ==
  ASSUME AccessIInv, Locking
  PROVE  AccessIInv'
<1>0. HandlesOK /\ ShareInv /\ LockTableOK /\ Unlocked
  BY DEF AccessIInv, ShareInv
<1>1. UNCHANGED <<opens, access, share, handle, breach>>
  BY DEF Locking, SmbLock, NfsLock, NfsRelease, NfsExpire, shareVars, smbVars
<1>2. ShareInv'
  BY <1>0, <1>1 DEF ShareInv, HandlesOK, HandleOK, TableOK, Unreserved, ShareModesHold,
                    SharesCompatible, ShareConflict
<1>3. ASSUME NEW o \in Owners, NEW f \in Files, NEW hs, NEW delta, SetLocked(o, f, hs, delta),
             \A h \in Handles : handle[h].pc \notin Locks => o # <<"smb", h>>
      PROVE  LockTableOK' /\ Unlocked'
  <2>1. LockTableOK' /\ \A g \in Files : \A q \in Owners : q # o => ranges'[g][q] = ranges[g][q]
    BY <1>0, <1>3, SetLockedFacts
  <2>2. QED
    BY <1>0, <1>1, <1>3, <2>1, OwnersAre DEF Unlocked
<1>4. ASSUME NEW os, ReleaseOwners(os) PROVE LockTableOK' /\ Unlocked'
  <2>1. LockTableOK' /\ \A f \in Files : \A o \in Owners :
                          ranges'[f][o] = IF o \in os THEN <<>> ELSE ranges[f][o]
    BY <1>0, <1>4, ReleaseOwnersFacts
  <2>2. QED
    BY <1>0, <1>1, <2>1, OwnersAre DEF Unlocked
<1>5. ASSUME NEW h \in Handles, SmbLock(h) PROVE LockTableOK' /\ Unlocked'
  <2>1. <<"smb", h>> \in Owners /\ handle[h].path \in Files
    BY <1>0, <1>5, OwnersAre, AccessAssumption DEF SmbLock, HandlesOK, HandleOK
  <2>2. \A g \in Handles : handle[g].pc \notin Locks => <<"smb", h>> # <<"smb", g>>
    BY <1>5 DEF SmbLock, Locks
  <2>3. PICK hs, delta : SetLocked(<<"smb", h>>, handle[h].path, hs, delta)
    BY <1>5 DEF SmbLock, Lock, Unlock
  <2>4. QED
    BY <1>3, <2>1, <2>2, <2>3
<1>6. ASSUME NEW i \in OwnerIds, NfsLock(i) PROVE LockTableOK' /\ Unlocked'
  <2>1. <<"nfs", i>> \in Owners /\ \A g \in Handles : <<"nfs", i>> # <<"smb", g>>
    BY OwnersAre, AccessAssumption
  <2>2. PICK f \in Files : \E hs, delta : SetLocked(<<"nfs", i>>, f, hs, delta)
    BY <1>6 DEF NfsLock, Lock, Unlock
  <2>3. QED
    BY <1>3, <2>1, <2>2
<1>7. LockTableOK' /\ Unlocked'
  BY <1>4, <1>5, <1>6 DEF Locking, NfsRelease, NfsExpire, ReleaseOwner, ReleaseClient
<1>8. QED
  BY <1>2, <1>7 DEF AccessIInv

\* Close gives up the reservation and, with the server's call, every lock.
LEMMA ClosingInv ==
  ASSUME AccessIInv, NEW h \in Handles, NEW delete, SmbClose(h, delete)
  PROVE  AccessIInv'
<1> DEFINE x == handle[h]
           saves == x.stream # Main /\ (x.dirty \/ delete)
           r == IF saves THEN [x EXCEPT !.pc = "saving", !.remove = delete, !.dirty = FALSE] ELSE Closed
<1>0. HandlesOK /\ TableOK /\ Unreserved /\ ShareModesHold /\ LockTableOK /\ Unlocked
  BY DEF AccessIInv, ShareInv
<1>1. x.pc = "open" /\ Set(h, r) /\ Release(h) /\ breach' = breach /\ ReleaseOwners({<<"smb", h>>})
  BY DEF SmbClose, Close, ReleaseOwner
<1>2. HandleOK(r) /\ r.pc \in Free
  <2>1. CASE saves
    <3>1. HandleOK(x) /\ x.path \in Paths
      BY <1>0, <1>1 DEF HandlesOK, HandleOK
    <3>2. QED
      BY <2>1, <3>1, FieldsAre DEF HandleOK, Free
  <2>2. CASE ~saves
    BY <2>2, FieldsAre DEF Free
  <2>3. QED
    BY <2>1, <2>2
<1> HIDE DEF r, x
<1>3. /\ HandlesOK' /\ handle'[h] = r
      /\ \A g \in Handles : g # h => handle'[g] = handle[g]
  BY <1>0, <1>1, <1>2, SetFacts
<1>4. /\ TableOK' /\ ShareModesHold'
      /\ \A k \in Keys : opens'[k] = opens[k] \ {h}
  BY <1>0, <1>1, ReleaseFacts
<1>5. Unreserved'
  BY <1>0, <1>3, <1>4 DEF Unreserved
<1>6. LockTableOK' /\ \A f \in Files : \A o \in Owners :
                        ranges'[f][o] = IF o \in {<<"smb", h>>} THEN <<>> ELSE ranges[f][o]
  BY <1>0, <1>1, ReleaseOwnersFacts
<1>7. Unlocked'
  BY <1>0, <1>3, <1>6, OwnersAre DEF Unlocked
<1>8. QED
  BY <1>3, <1>4, <1>5, <1>6, <1>7 DEF AccessIInv, ShareInv

-----------------------------------------------------------------------------
\* What an open handle stands for, and the handle an open returns.
LEMMA HandleFacts ==
  ASSUME AccessIInv, NEW h \in Handles
  PROVE  /\ HandleOK(handle[h])
         /\ handle[h].pc # "closed" => handle[h].path \in Paths
BY DEF AccessIInv, ShareInv, HandlesOK, HandleOK

LEMMA OpenedFacts ==
  ASSUME NEW x, HandleOK(x), x.pc # "closed"
  PROVE  HandleOK(Opened(x)) /\ Opened(x).pc = "open"
BY FieldsAre DEF HandleOK, Opened

\* The first look of an open at the tree.
LEMMA OpenStatInv ==
  ASSUME AccessIInv, UNCHANGED lockVars, NEW h \in Handles, NEW p \in Paths, NEW q \in Requests,
         OpenStat(h, p, q) \/ \E s \in Streams : OpenStreamStat(h, p, s, q)
  PROVE  AccessIInv'
<1>1. handle[h].pc = "closed" /\ UNCHANGED shareVars /\ breach' = breach
  BY DEF OpenStat, OpenStreamStat
<1>2. PICK r : Set(h, r) /\ DOMAIN r = Fields /\ r.pc = "reserve" /\ r.path = p
  <2>1. CASE OpenStat(h, p, q)
    <3> DEFINE r == [Closed EXCEPT !.pc = "reserve", !.path = p, !.disp = q.disp, !.needs = q.access,
                           !.permits = q.share, !.exists = tree[p].there,
                           !.old = tree[p].streams # NoStreams]
    <3>1. Set(h, r)
      BY <2>1 DEF OpenStat
    <3>2. DOMAIN r = Fields /\ r.pc = "reserve" /\ r.path = p
      BY FieldsAre DEF HandleOK
    <3>3. QED
      BY <3>1, <3>2
  <2>2. CASE \E s \in Streams : OpenStreamStat(h, p, s, q)
    <3>1. PICK s \in Streams : OpenStreamStat(h, p, s, q)
      BY <2>2
    <3> DEFINE r == [Closed EXCEPT !.pc = "reserve", !.path = p, !.stream = s, !.disp = q.disp,
                           !.needs = q.access, !.permits = q.share,
                           !.exists = tree[p].streams[s] # {}, !.old = tree[p].streams[s] \ {0} # {},
                           !.bytes = IF ReplacesData(q.disp) THEN {} ELSE tree[p].streams[s] \ {0}]
    <3>2. Set(h, r)
      BY <3>1 DEF OpenStreamStat
    <3>3. DOMAIN r = Fields /\ r.pc = "reserve" /\ r.path = p
      BY FieldsAre DEF HandleOK
    <3>4. QED
      BY <3>2, <3>3
  <2>3. QED
    BY <2>1, <2>2
<1>3. HandleOK(r)
  BY <1>2 DEF HandleOK
<1>4. QED
  BY <1>1, <1>2, <1>3, StepInv DEF Free, Locks

\* The reservation, granted or refused.
LEMMA ReserveInv ==
  ASSUME AccessIInv, UNCHANGED lockVars, NEW h \in Handles, Reserve(h)
  PROVE  AccessIInv'
<1> DEFINE x == handle[h]
<1>1. x.pc = "reserve" /\ breach' = breach /\ HandleOK(x) /\ x.path \in Paths
  BY HandleFacts DEF Reserve
<1>2. CASE Set(h, Closed) /\ UNCHANGED shareVars
  BY <1>1, <1>2, FieldsAre, StepInv DEF Free, Locks
<1>3. CASE Acquire(h, Key(h), x.needs, x.permits)
           /\ \E r : Set(h, r) /\ (r = [x EXCEPT !.pc = "act"] \/ r = [x EXCEPT !.pc = "creating"] \/ r = Opened(x))
  <2>1. PICK r : /\ Set(h, r)
                 /\ r = [x EXCEPT !.pc = "act"] \/ r = [x EXCEPT !.pc = "creating"] \/ r = Opened(x)
    BY <1>3
  <2>2. HandleOK(r) /\ r.pc \notin Free
    <3>1. CASE r = Opened(x)
      BY <1>1, <3>1, OpenedFacts DEF Free
    <3>2. CASE r = [x EXCEPT !.pc = "act"] \/ r = [x EXCEPT !.pc = "creating"]
      BY <1>1, <3>2, FieldsAre DEF HandleOK, Free
    <3>3. QED
      BY <2>1, <3>1, <3>2
  <2>3. QED
    BY <1>1, <1>3, <2>1, <2>2, AcquireInv
<1>4. QED
  BY <1>2, <1>3 DEF Reserve

\* The rest of an open.
LEMMA OpenInv ==
  ASSUME AccessIInv, UNCHANGED lockVars, NEW h \in Handles,
         OpenFails(h) \/ OpenExisting(h) \/ OpenWritable(h) \/ OpenClear(h)
  PROVE  AccessIInv'
<1> DEFINE x == handle[h]
<1>1. HandleOK(x) /\ x.pc \in {"act", "clear"} /\ x.path \in Paths
  BY HandleFacts DEF OpenFails, OpenExisting, OpenWritable, OpenClear
<1>2. CASE OpenFails(h)
  BY <1>1, <1>2, FailInv DEF OpenFails, Locks
<1>3. CASE OpenExisting(h) \/ OpenClear(h)
  <2>1. Set(h, Opened(x)) /\ UNCHANGED shareVars /\ breach \subseteq breach'
    BY <1>3 DEF OpenExisting, OpenClear
  <2>2. QED
    BY <1>1, <2>1, OpenedFacts, StepInv DEF Free, Locks
<1>4. CASE OpenWritable(h)
  <2> DEFINE y == [x EXCEPT !.file = "rw"]
  <2>1. HandleOK(y) /\ y.pc = x.pc /\ y.path = x.path
    BY <1>1, FieldsAre DEF HandleOK
  <2>2. PICK r : Set(h, r) /\ (r = [y EXCEPT !.pc = "clear"] \/ r = Opened(y))
    BY <1>4 DEF OpenWritable
  <2> HIDE DEF y
  <2>3. HandleOK(r) /\ r.pc \in {"clear", "open"}
    <3>1. CASE r = Opened(y)
      BY <1>1, <2>1, <3>1, OpenedFacts
    <3>2. CASE r = [y EXCEPT !.pc = "clear"]
      BY <1>1, <2>1, <3>2, FieldsAre DEF HandleOK
    <3>3. QED
      BY <2>2, <3>1, <3>2
  <2>4. UNCHANGED shareVars /\ breach' = breach
    BY <1>4 DEF OpenWritable
  <2>5. QED
    BY <1>1, <2>2, <2>3, <2>4, StepInv DEF Free, Locks
<1>5. QED
  BY <1>2, <1>3, <1>4

\* Reads, writes and the steps of a stream update.
LEMMA DataInv ==
  ASSUME AccessIInv, UNCHANGED lockVars, NEW h \in Handles,
         \/ Read(h) \/ \E i \in 1..MaxChunks : Write(h, i)
         \/ \E n \in 0..MaxChunks : SetEndOfFile(h, n)
         \/ WriteStream(h)
  PROVE  AccessIInv'
<1> DEFINE x == handle[h]
<1>1. /\ x.pc = "open" /\ HandleOK(x) /\ x.path \in Paths
      /\ UNCHANGED shareVars /\ breach' = breach
  BY HandleFacts DEF Read, Write, SetEndOfFile, WriteStream, Usable
<1>2. PICK r : Set(h, r) /\ DOMAIN r = Fields /\ r.pc = x.pc /\ r.path = x.path
  <2>1. CASE WriteStream(h)
    <3> DEFINE r == [x EXCEPT !.bytes = x.bytes \union {writes + 1}, !.dirty = TRUE]
    <3>1. Set(h, r)
      BY <2>1 DEF WriteStream
    <3>2. DOMAIN r = Fields /\ r.pc = x.pc /\ r.path = x.path
      BY <1>1, FieldsAre DEF HandleOK
    <3>3. QED
      BY <3>1, <3>2
  <2>2. CASE ~WriteStream(h)
    <3>1. PICK write \in BOOLEAN : Set(h, FileFor(h, write))
      BY <2>2 DEF Read, Write, SetEndOfFile
    <3>2. /\ DOMAIN FileFor(h, write) = Fields
          /\ FileFor(h, write).pc = x.pc /\ FileFor(h, write).path = x.path
      BY <1>1, FieldsAre DEF HandleOK, FileFor
    <3>3. QED
      BY <3>1, <3>2
  <2>3. QED
    BY <2>1, <2>2
<1>3. HandleOK(r)
  BY <1>1, <1>2 DEF HandleOK
<1>4. QED
  BY <1>1, <1>2, <1>3, StepInv DEF Free, Locks

\* updateStream: a call that fails gives up what it has.
LEMMA UpdateInv ==
  ASSUME AccessIInv, UNCHANGED lockVars, NEW h \in Handles,
         UpdateRead(h) \/ \E ok \in BOOLEAN : UpdateWrite(h, ok)
  PROVE  AccessIInv'
<1> DEFINE x == handle[h]
<1>1. /\ x.pc \in {"saving", "creating", "storing", "filling"} /\ HandleOK(x) /\ x.path \in Paths
      /\ breach' = breach
  BY HandleFacts DEF UpdateRead, UpdateWrite
<1>2. CASE Set(h, Closed) /\ Release(h)
  BY <1>1, <1>2, FailInv DEF Locks
<1>3. CASE UpdateRead(h) /\ ~(Set(h, Closed) /\ Release(h))
  <2> DEFINE r == [x EXCEPT !.snap = tree[x.path].streams,
                            !.pc = IF x.pc = "saving" THEN "storing" ELSE "filling"]
  <2>1. x.pc \in {"saving", "creating"} /\ Set(h, r) /\ UNCHANGED shareVars
    BY <1>3 DEF UpdateRead
  <2>2. HandleOK(r) /\ r.pc = IF x.pc = "saving" THEN "storing" ELSE "filling"
    BY <1>1, FieldsAre DEF HandleOK
  <2> HIDE DEF r
  <2>3. QED
    BY <1>1, <2>1, <2>2, StepInv DEF Free, Locks
<1>4. CASE (\E ok \in BOOLEAN : UpdateWrite(h, ok)) /\ ~(Set(h, Closed) /\ Release(h))
  <2> DEFINE y == [x EXCEPT !.snap = NoStreams]
  <2>1. x.pc = "filling" /\ Set(h, Opened(y)) /\ UNCHANGED shareVars
    BY <1>4 DEF UpdateWrite
  <2>2. HandleOK(y) /\ y.pc = x.pc
    BY <1>1, FieldsAre DEF HandleOK
  <2> HIDE DEF y
  <2>3. HandleOK(Opened(y)) /\ Opened(y).pc = "open"
    BY <1>1, <2>2, OpenedFacts
  <2>4. QED
    BY <1>1, <2>1, <2>3, StepInv DEF Free, Locks
<1>5. QED
  BY <1>2, <1>3, <1>4

\* A rename up to the share table, and a server-side copy.
LEMMA CopyInv ==
  ASSUME AccessIInv, UNCHANGED lockVars, NEW h \in Handles,
         \/ \E q \in Paths, replace \in BOOLEAN : RenameStat(h, q, replace)
         \/ RenameFile(h)
         \/ \E g \in Handles : CopyForget(h, g) \/ \E n \in 1..MaxChunks : CopyDecide(h, g, n)
         \/ CopyFile(h) \/ CopyNote(h)
  PROVE  AccessIInv'
<1> DEFINE x == handle[h]
<1>1. /\ x.pc \in Locks /\ HandleOK(x) /\ x.path \in Paths
      /\ x.pc = "rename" => x.target \in Paths
  BY HandleFacts DEF RenameStat, RenameFile, CopyForget, CopyDecide, CopyFile, CopyNote, Locks, HandleOK
<1>2. UNCHANGED shareVars /\ breach \subseteq breach'
  BY DEF RenameStat, RenameFile, CopyForget, CopyDecide, CopyFile, CopyNote
<1>3. ASSUME NEW r, Set(h, r), DOMAIN r = Fields, r.pc \in Locks, r.path = x.path,
             r.pc \in {"rename", "renamed"} => r.target \in Paths
      PROVE  AccessIInv'
  <2>1. HandleOK(r)
    BY <1>1, <1>3 DEF HandleOK
  <2>2. r.pc \notin Free
    BY <1>3 DEF Free, Locks
  <2>3. QED
    BY <1>1, <1>2, <1>3, <2>1, <2>2, StepInv
<1>4. CASE \E q \in Paths, replace \in BOOLEAN : RenameStat(h, q, replace)
  <2>1. PICK q \in Paths : Set(h, [x EXCEPT !.pc = "rename", !.target = q, !.file = "none"])
    BY <1>4 DEF RenameStat
  <2>2. QED
    BY <1>1, <1>3, <2>1, FieldsAre DEF HandleOK, Locks
<1>5. CASE RenameFile(h)
  <2>1. \/ Set(h, [x EXCEPT !.pc = "renamed", !.copied = NoCopy])
        \/ Set(h, [x EXCEPT !.pc = "open", !.target = Closed.target])
    BY <1>5 DEF RenameFile
  <2>2. x.target \in Paths
    BY <1>1, <1>5 DEF RenameFile
  <2>3. QED
    BY <1>1, <1>3, <2>1, <2>2, FieldsAre DEF HandleOK, Locks
<1>6. CASE \E g \in Handles : CopyForget(h, g)
  <2>1. Set(h, [x EXCEPT !.copied = NoCopy]) /\ x.pc = "open"
    BY <1>6 DEF CopyForget
  <2>2. QED
    BY <1>1, <1>3, <2>1, FieldsAre DEF HandleOK, Locks
<1>7. CASE \E g \in Handles : \E n \in 1..MaxChunks : CopyDecide(h, g, n)
  <2>1. PICK p, only, copied :
          Set(h, [x EXCEPT !.pc = "copy", !.target = p, !.file = "none", !.only = only, !.copied = copied])
    BY <1>7 DEF CopyDecide
  <2>2. QED
    BY <1>1, <1>3, <2>1, FieldsAre DEF HandleOK, Locks
<1>8. CASE CopyFile(h)
  <2>1. \/ Set(h, [x EXCEPT !.pc = "note"])
        \/ Set(h, [x EXCEPT !.pc = "open", !.copied = NoCopy, !.target = Closed.target, !.only = FALSE])
    BY <1>8 DEF CopyFile
  <2>2. QED
    BY <1>1, <1>3, <2>1, FieldsAre DEF HandleOK, Locks
<1>9. CASE CopyNote(h)
  <2>1. PICK copied :
          Set(h, [x EXCEPT !.pc = "open", !.target = Closed.target, !.only = FALSE, !.copied = copied])
    BY <1>9 DEF CopyNote
  <2>2. QED
    BY <1>1, <1>3, <2>1, FieldsAre DEF HandleOK, Locks
<1>10. QED
  BY <1>4, <1>5, <1>6, <1>7, <1>8, <1>9

\* What leaves the handles and the tables alone.
LEMMA StandInv ==
  ASSUME AccessIInv, UNCHANGED <<handle, shareVars, lockVars>>, breach \subseteq breach'
  PROVE  AccessIInv'
<1>1. UNCHANGED <<opens, access, share, ranges, owned, handle>>
  BY DEF shareVars, lockVars
<1>2. QED
  BY <1>1 DEF AccessIInv, ShareInv, HandlesOK, HandleOK, TableOK, Unreserved, ShareModesHold,
              SharesCompatible, ShareConflict, LockTableOK, Unlocked

-----------------------------------------------------------------------------
LEMMA AccessNextInv ==
  ASSUME AccessIInv, [AccessNext]_accessVars
  PROVE  AccessIInv'
<1>1. CASE SmbCall /\ UNCHANGED lockVars
  <2>1. CASE \E p \in Paths : RemoveFile(p) \/ Uploaded(p)
    <3>1. UNCHANGED <<handle, shareVars>> /\ breach \subseteq breach'
      BY <2>1 DEF RemoveFile, Uploaded
    <3>2. QED
      BY <1>1, <3>1, StandInv
  <2>2. QED
    BY <1>1, <2>1, OpenStatInv, ReserveInv, OpenInv, DataInv, UpdateInv, CopyInv, RenameDoneInv
       DEF SmbCall
<1>2. CASE Locking
  BY <1>2, LockingInv
<1>3. CASE Closing
  BY <1>3, ClosingInv DEF Closing
<1>4. CASE UNCHANGED accessVars
  BY <1>4, StandInv DEF accessVars, smbVars
<1>5. QED
  BY <1>1, <1>2, <1>3, <1>4 DEF AccessNext

LEMMA AccessInitInv == AccessInit => AccessIInv
<1> SUFFICES ASSUME AccessInit PROVE AccessIInv
  OBVIOUS
<1>1. /\ opens = [k \in Keys |-> {}] /\ access = [h \in Handles |-> {}] /\ share = [h \in Handles |-> {}]
      /\ handle = [h \in Handles |-> Closed]
  BY DEF AccessInit, SmbInit, ShareInit
<1>2. ranges = [f \in Files |-> [o \in Owners |-> <<>>]] /\ owned = [o \in Owners |-> {}]
  BY DEF AccessInit, LockInit
<1>3. HandlesOK /\ TableOK /\ Unreserved /\ ShareModesHold
  BY <1>1, FieldsAre DEF HandlesOK, TableOK, Unreserved, ShareModesHold, SharesCompatible
<1>4. LockTableOK /\ Unlocked
  BY <1>2, OwnersAre DEF LockTableOK, Unlocked
<1>5. QED
  BY <1>3, <1>4 DEF AccessIInv, ShareInv

\* "each open's access must be permitted by what the other shares": no two opens
\* of a file conflict, through opens that fail, closes and renames, as long as no
\* rename moved its opens onto a target opened since the server's check.
THEOREM ShareModesAlwaysHold == AccessSpec => []ShareModesHold
<1>1. AccessIInv => ShareModesHold
  BY DEF AccessIInv, ShareInv
<1>2. QED
  BY <1>1, AccessInitInv, AccessNextInv, PTL DEF AccessSpec

\* handleClose of the SMB server releases what the handle held: no range of a
\* closed handle stays in the lock table, whatever else was locked since.
THEOREM CloseReleasesLocks == AccessSpec => []ClosedOwnsNoLock
<1>1. AccessIInv => ClosedOwnsNoLock
  BY DEF AccessIInv, Unlocked, Locks, ClosedOwnsNoLock
<1>2. QED
  BY <1>1, AccessInitInv, AccessNextInv, PTL DEF AccessSpec

=============================================================================
