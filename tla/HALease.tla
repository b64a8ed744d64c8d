------------------------------ MODULE HALease ------------------------------
(***************************************************************************)
(* The bucket lease that keeps a second gateway out (internal/ha/lease.go, *)
(* and what cmd/bluestone/main.go does with it): Acquire, the heartbeat    *)
(* loop and Release of each host, over an object that has no compare and   *)
(* swap, with reads and writes that fail, a bucket over its quota, crashes *)
(* and restarts.                                                           *)
(*                                                                         *)
(* Time is kept as ages and timers rather than as a clock: how long ago    *)
(* the lease was renewed, how long ago a gateway last wrote it, how long   *)
(* until its next heartbeat or until its heartbeat's context ends.  Hosts  *)
(* agree on the time, and the write and the read back of a start, which    *)
(* have no deadline of their own, take an interval at the most each.       *)
(***************************************************************************)
EXTENDS Naturals

CONSTANTS
  Hosts, NoHost,
  NamePrefixes,     \* <<h, g>>: the name of h is a proper prefix of g's
  Forced,           \* hosts configured to take the lease over by force
  Interval,         \* heartbeatInterval
  QuotaRecheck,     \* quotaRecheckInterval, if shorter than the heartbeat's
  LeaseTimeout,
  MaxStarts,        \* bound: gateways started
  MaxChanges        \* bound: changes of what the bucket does for a host

ASSUME LeaseAssumption ==
  /\ Interval \in Nat \ {0} /\ QuotaRecheck \in 1..Interval /\ LeaseTimeout \in Nat /\ MaxStarts \in Nat /\ MaxChanges \in Nat
  /\ LeaseTimeout > 2 * Interval  \* validateHAConfig
  /\ NamePrefixes \subseteq Hosts \X Hosts /\ Forced \subseteq Hosts /\ NoHost \notin Hosts

VARIABLES
  lease,            \* the lease object; id 0 without one
  full,             \* the bucket is over its hard quota and refuses writes
  cut,              \* hosts that get no answer from the object store
  changes,
  marker,           \* hosts with a marker that names them, on their staging disk
  node,             \* node[h]: the gateway of h
  starts,
  overlap,          \* how long two gateways have been serving
  blind,            \* why heartbeats since then went on without seeing a lease
  unverified        \* hosts that have started without reading the lease

vars == <<lease, full, cut, changes, marker, node, starts, overlap, blind, unverified>>

\* Times beyond these are not told apart.
MaxAge == LeaseTimeout + 2 * Interval + 1
MaxOverlap == 3 * Interval + 1

NoLease == [host |-> NoHost, id |-> 0, epoch |-> 0, age |-> 0]

\* id tells the processes of a host apart; readOk is whether the heartbeat (or
\* Release) could read the lease; age is the time since lastRenewed, why
\* the reason it was fenced for.
Down(why) == [pc |-> "down", id |-> 0, epoch |-> 0, readOk |-> TRUE,
              age |-> 0, timer |-> 0, why |-> why]

Started(id, epoch) == [pc |-> "acqwrite", id |-> id, epoch |-> epoch, readOk |-> TRUE,
                       age |-> 0, timer |-> 0, why |-> "none"]

Steps == {"down", "acqwrite", "acqback", "serving", "hbwrite",
          "reldelete"}

Node == [pc: Steps, id: 0..MaxStarts, epoch: Nat, readOk: BOOLEAN,
         age: 0..MaxAge, timer: 0..Interval,
         why: {"none", "taken", "own", "unreachable"}]

TypeOK ==
  /\ lease \in [host: Hosts \union {NoHost}, id: 0..(MaxStarts + 1), epoch: Nat, age: 0..LeaseTimeout]
  /\ full \in BOOLEAN /\ cut \subseteq Hosts /\ changes \in 0..MaxChanges /\ marker \subseteq Hosts
  /\ node \in [Hosts -> Node]
  /\ starts \in 0..MaxStarts /\ overlap \in 0..MaxOverlap
  /\ blind \subseteq {"unread", "unwritten", "quota"} /\ unverified \subseteq Hosts

\* The bucket and the staging disks as gateways that ran before left them: a
\* marker on each host that has served, and the lease one of them did not delete.
Left(h, epoch, age) == [host |-> h, id |-> MaxStarts + 1, epoch |-> epoch, age |-> age]

Init ==
  /\ marker \in SUBSET Hosts
  /\ lease \in {NoLease} \union {Left(h, 2, a) : h \in marker, a \in {0, LeaseTimeout}}
  /\ full = FALSE /\ cut = {} /\ changes = 0
  /\ node = [h \in Hosts |-> Down("none")]
  /\ starts = 0 /\ overlap = 0 /\ blind = {} /\ unverified = {}

Serving(h) == node[h].pc \in {"serving", "hbwrite"}

Absent == lease.id = 0
Holds(h) == lease.id # 0 /\ lease.id = node[h].id

-----------------------------------------------------------------------------
Stop(h, why) == node' = [node EXCEPT ![h] = Down(why)]

\* The lease of h, stamped a time ago: RenewedAt is set before the write.
Put(h, epoch, a) ==
  lease' = [host |-> h, id |-> node[h].id, epoch |-> epoch, age |-> a]

\* Acquire returns: the marker is written and the heartbeat timer starts.
Serve(h, age) ==
  /\ node' = [node EXCEPT ![h] =
       [@ EXCEPT !.pc = "serving", !.timer = Interval, !.age = age]]
  /\ marker' = marker \union {h}

\* localMarkerMatches: the lease is this node's own, going by the name alone.
MarkerMatches(h) ==
  h \in marker /\ (lease.host = h \/ <<h, lease.host>> \in NamePrefixes)

\* A fresh lease of another gateway.
Refuses(h) ==
  lease.age < LeaseTimeout /\ h \notin Forced /\ ~MarkerMatches(h)

\* Acquire up to its write.  There is a lease, or none, or no answer, which only
\* the marker or the operator can make up for.
AcquireRead(h) ==
  LET mayStart == IF h \in cut THEN h \in marker \union Forced ELSE Absent \/ ~Refuses(h)
      epoch == IF h \in cut THEN 1 ELSE lease.epoch + 1
  IN  /\ node[h].pc = "down" /\ starts < MaxStarts
      /\ starts' = starts + 1
      /\ node' = [node EXCEPT ![h] = IF mayStart THEN Started(starts + 1, epoch) ELSE Down("none")]
      /\ unverified' = unverified \union (cut \intersect {h})
      /\ UNCHANGED <<lease, full, cut, changes, marker>>

\* Starting without the lease, for the marker or the operator's word.
StartUnwritten(h) ==
  IF h \in marker \union Forced
  THEN \E a \in {0, Interval} : Serve(h, a)
  ELSE Stop(h, "none") /\ UNCHANGED marker

\* The write is carried out and answered, carried out without an answer, or not
\* carried out.
AcquireWrite(h) ==
  /\ node[h].pc = "acqwrite"
  /\ \/ /\ ~full
        /\ \E a \in {0, Interval} : Put(h, node[h].epoch, a)
        /\ IF h \in cut THEN StartUnwritten(h)
           ELSE /\ node' = [node EXCEPT ![h] =
                     [@ EXCEPT !.pc = "acqback", !.age = 0, !.timer = Interval]]
                /\ UNCHANGED marker
     \/ (full \/ h \in cut) /\ StartUnwritten(h) /\ UNCHANGED lease
  /\ UNCHANGED <<full, cut, changes, starts, unverified>>

\* lostAcquireRace.  A read that fails proves nothing.
AcquireReadBack(h) ==
  /\ node[h].pc = "acqback"
  /\ IF h \in cut \/ Absent \/ Holds(h) THEN Serve(h, node[h].age)
     ELSE Stop(h, "none") /\ UNCHANGED marker
  /\ UNCHANGED <<lease, full, cut, changes, starts, unverified>>

-----------------------------------------------------------------------------
\* Mutant: any lease that is not this process's counts as a takeover.
TakenBy_AnyOther(h) == ~Absent /\ ~Holds(h)

\* Mutant: a lease with an older epoch is not a takeover, whoever wrote it.
TakenBy_ByEpoch(h) == ~Absent /\ ~Holds(h) /\ lease.epoch >= node[h].epoch

\* takenBy: not by this node's own lease from before a restart.
TakenBy(h) ==
  ~Absent /\ ~Holds(h) /\ ~(lease.host = h /\ lease.epoch < node[h].epoch)

\* The timer fires and the lease is read; the write has what is left of an
\* interval.  On a loss the gateway stops at once, and does not release the lease.
HeartbeatRead(h) ==
  /\ node[h].pc = "serving" /\ node[h].timer = 0
  /\ IF h \notin cut /\ TakenBy(h)
     THEN Stop(h, IF lease.host = h THEN "own" ELSE "taken")
     ELSE node' = [node EXCEPT ![h] =
            [@ EXCEPT !.pc = "hbwrite", !.timer = Interval, !.readOk = h \notin cut]]
  /\ UNCHANGED <<lease, full, cut, changes, marker, starts, unverified>>

\* The heartbeat is over and the timer is set again.
Rest(h, age, next) ==
  node' = [node EXCEPT ![h] =
    [@ EXCEPT !.pc = "serving", !.timer = next, !.age = age, !.readOk = TRUE]]

\* Mutant: the loss is reported once the lease has been failing for its timeout
\* since the second heartbeat before.
HeartbeatFails_Late(h) ==
  IF node[h].age > LeaseTimeout + 2 * Interval THEN Stop(h, "unreachable")
  ELSE Rest(h, node[h].age, Interval)

HeartbeatFails(h) ==
  IF node[h].age > LeaseTimeout THEN Stop(h, "unreachable") ELSE Rest(h, node[h].age, Interval)

\* The write replaces whatever is there: without a look at it when the read
\* failed.  It gets there before the context ends, or not at all.
HeartbeatWrite(h) ==
  /\ node[h].pc = "hbwrite"
  /\ \/ /\ ~full /\ node[h].timer > 0
        /\ Put(h, node[h].epoch, Interval - node[h].timer)
        /\ IF h \in cut THEN HeartbeatFails(h) ELSE Rest(h, 0, Interval)
     \/ /\ full /\ h \notin cut
        /\ IF node[h].readOk THEN Rest(h, 0, QuotaRecheck) ELSE HeartbeatFails(h)
        /\ UNCHANGED lease
     \/ /\ h \in cut \/ node[h].timer = 0
        /\ HeartbeatFails(h)
        /\ UNCHANGED lease
  /\ UNCHANGED <<full, cut, changes, marker, starts, unverified>>

-----------------------------------------------------------------------------
\* Release, once the servers have stopped and the heartbeat loop has ended: it
\* reads the lease, and deletes it unless it is seen to be another's.
Release(h) ==
  /\ Serving(h)
  /\ IF h \in cut \/ Absent \/ Holds(h)
     THEN node' = [node EXCEPT ![h].pc = "reldelete"]
     ELSE Stop(h, "none")
  /\ UNCHANGED <<lease, full, cut, changes, marker, starts, unverified>>

ReleaseDelete(h) ==
  /\ node[h].pc = "reldelete"
  /\ Stop(h, "none")
  /\ lease' \in IF h \in cut THEN {NoLease, lease} ELSE {NoLease}
  /\ UNCHANGED <<full, cut, changes, marker, starts, unverified>>

Crash(h) ==
  /\ node[h].pc # "down"
  /\ Stop(h, "none")
  /\ UNCHANGED <<lease, full, cut, changes, marker, starts, unverified>>

\* The bucket fills up or is emptied, the store is lost to a host or comes back.
StoreChanges ==
  /\ changes < MaxChanges
  /\ changes' = changes + 1
  /\ \/ full' = ~full /\ UNCHANGED cut
     \/ \E h \in Hosts : cut' \in {cut \ {h}, cut \union {h}} \ {cut} /\ UNCHANGED full
  /\ UNCHANGED <<lease, marker, node, starts, unverified>>

Timed(h) == Serving(h) \/ node[h].pc = "acqback"

Older(a, max) == IF a < max THEN a + 1 ELSE max

Aged(n) == [n EXCEPT !.timer = n.timer - 1, !.age = Older(n.age, MaxAge)]

\* Time passes, but no timer that has run out is kept waiting and no heartbeat
\* outlives its context.
Tick ==
  /\ \A h \in Hosts : Timed(h) => node[h].timer > 0
  /\ lease' = IF Absent THEN lease ELSE [lease EXCEPT !.age = Older(@, LeaseTimeout)]
  /\ node' = [h \in Hosts |->
       IF Timed(h) THEN Aged(node[h])
       ELSE node[h]]
  /\ UNCHANGED <<full, cut, changes, marker, starts, unverified>>

TwoServe == \E g, h \in Hosts : g # h /\ Serving(g) /\ Serving(h)

Gateway(h) ==
  \/ AcquireRead(h) \/ AcquireWrite(h) \/ AcquireReadBack(h)
  \/ HeartbeatRead(h) \/ HeartbeatWrite(h)
  \/ Release(h) \/ ReleaseDelete(h) \/ Crash(h)

\* A heartbeat step of h that goes on without having seen a lease: the read
\* fails, or there is none and it cannot be written.
Blinds(h) ==
  {why \in {"unread", "unwritten", "quota"} :
     \/ why = "unread" /\ node[h].pc = "serving" /\ node'[h].pc = "hbwrite" /\ h \in cut
     \/ why = "unwritten" /\ node[h].pc = "hbwrite" /\ node'[h].pc = "serving" /\ Absent /\ ~full
     \/ why = "quota" /\ node[h].pc = "hbwrite" /\ node'[h].pc = "serving" /\ Absent /\ full}

Next ==
  \/ /\ \E h \in Hosts : Gateway(h)
     /\ overlap' = IF TwoServe' THEN overlap ELSE 0
     /\ blind' = IF TwoServe' THEN blind \union UNION {Blinds(h) : h \in Hosts} ELSE {}
  \/ StoreChanges /\ UNCHANGED <<overlap, blind>>
  \/ Tick /\ overlap' = (IF TwoServe THEN Older(overlap, MaxOverlap) ELSE 0) /\ UNCHANGED blind

Spec == Init /\ [][Next]_vars

-----------------------------------------------------------------------------
\* A gateway that cannot renew the lease stops (heartbeatLoop, reportLoss): no
\* gateway serves for longer than the lease timeout and two intervals since it
\* last wrote the lease, or saw a full bucket refuse it.
FencedInTime == \A h \in Hosts : Serving(h) => node[h].age <= LeaseTimeout + 2 * Interval

\* "exactly one gateway may serve this bucket", as far as the lease goes
\* (Acquire, lostAcquireRace, heartbeatLoop): whether they started together, one
\* took over by force, without having read the lease or while the other was
\* being released, two gateways that see a lease serve at the same time for
\* three intervals at the most.
OverlapBounded == blind = {} => overlap <= 3 * Interval

\* A gateway is never fenced by its own lease from before a restart (takenBy),
\* if it could read the lease when it started.
NotFencedByOwnLease == \A h \in Hosts \ unverified : node[h].why # "own"

=============================================================================
