---------------------------- MODULE HALeaseProofs ----------------------------
(***************************************************************************)
(* Theorems on HALease, for any number of hosts, any interval and timeout  *)
(* validateHAConfig accepts, and any number of starts and changes of the   *)
(* store: a gateway that cannot renew its lease is fenced in time, and one *)
(* that read the lease when it started is never fenced by its own.         *)
(*                                                                         *)
(* FencedInTime is not inductive: how old a renewal may be depends on how  *)
(* far the timer has run in each step of the loop (Timely).  Neither is    *)
(* NotFencedByOwnLease: what takenBy goes by is that the lease a process   *)
(* finds under its own host's name is its own or carries an older epoch    *)
(* (OlderUnlessHeld).                                                      *)
(***************************************************************************)
EXTENDS HALease, TLAPS

LeaseType == [host: Hosts \union {NoHost}, id: 0..(MaxStarts + 1), epoch: Nat, age: 0..LeaseTimeout]

\* The age of the last renewal and what is left on the timer, step by step.
Timely(n) ==
  /\ n.pc = "acqback" => n.age + n.timer <= Interval
  /\ n.pc = "serving" => n.age + n.timer <= LeaseTimeout + Interval
  /\ n.pc = "hbwrite" => n.age + n.timer <= LeaseTimeout + 2 * Interval

\* A lease under the host's name is the process's or older, unless the process
\* started without having read one.
OlderUnlessHeld(h) ==
  node[h].pc # "down" /\ h \notin unverified /\ lease.host = h =>
    lease.id = node[h].id \/ lease.epoch < node[h].epoch

Types == lease \in LeaseType /\ node \in [Hosts -> Node] /\ starts \in 0..MaxStarts

IInv ==
  /\ Types
  /\ \A h \in Hosts : Timely(node[h])
  /\ \A h \in Hosts : OlderUnlessHeld(h)
  /\ NotFencedByOwnLease

\* What a step of the gateway of h may do to it.
Keeps(h, n) == n \in Node /\ Timely(n)

LEMMA DownKeeps ==
  ASSUME NEW h \in Hosts, NEW why \in {"none", "taken", "own", "unreachable"}
  PROVE  Keeps(h, Down(why))
BY LeaseAssumption DEF Keeps, Down, Node, Steps, Timely, MaxAge

LEMMA IInvFencedInTime == IInv => FencedInTime
BY LeaseAssumption DEF IInv, Types, FencedInTime, Serving, Timely, Node

LEMMA InitIInv == Init => IInv
<1> SUFFICES ASSUME Init PROVE IInv
  OBVIOUS
<1>1. \A h \in Hosts : node[h] = Down("none") /\ Keeps(h, node[h])
  BY DownKeeps DEF Init
<1>2. lease \in LeaseType
  BY LeaseAssumption DEF Init, LeaseType, NoLease, Left
<1>3. node \in [Hosts -> Node]
  BY <1>1 DEF Init, Keeps
<1> QED
  BY <1>1, <1>2, <1>3, LeaseAssumption
  DEF Init, IInv, Types, Keeps, OlderUnlessHeld, NotFencedByOwnLease, Down

-----------------------------------------------------------------------------
(* The step of one gateway: what it makes of its node.                     *)

StepOf(h, n) == node' = [node EXCEPT ![h] = n]

\* The step keeps the process, its epoch and its reason as they are.
Continues(h) ==
  /\ StepOf(h, node'[h]) /\ Keeps(h, node'[h])
  /\ node'[h].id = node[h].id /\ node'[h].epoch = node[h].epoch
  /\ node'[h].why = node[h].why

LEMMA NodeStep ==
  ASSUME Types, NEW h \in Hosts, NEW n,
         node' = [node EXCEPT ![h] = n], n \in Node, Timely(n),
         n.id = node[h].id, n.epoch = node[h].epoch, n.why = node[h].why
  PROVE  Continues(h)
<1>1. node'[h] = n
  BY DEF Types
<1> QED
  BY <1>1 DEF Continues, StepOf, Keeps

LEMMA RestKeeps ==
  ASSUME Types, NEW h \in Hosts, NEW age \in 0..LeaseTimeout, NEW next \in 0..Interval,
         Rest(h, age, next)
  PROVE  Continues(h)
<1> DEFINE n == [node[h] EXCEPT !.pc = "serving", !.timer = next, !.age = age, !.readOk = TRUE]
<1>1. age \in 0..MaxAge /\ "serving" \in Steps
  BY LeaseAssumption DEF MaxAge, Steps, Timely, Types, Node
<1>2. /\ n \in Node
      /\ n.pc = "serving" /\ n.timer = next /\ n.age = age
      /\ n.id = node[h].id /\ n.epoch = node[h].epoch /\ n.why = node[h].why
  BY <1>1 DEF Types, Node
<1>3. node' = [node EXCEPT ![h] = n]
  BY Zenon DEF Rest
<1> HIDE DEF n
<1>4. Timely(n)
  BY <1>1, <1>2, LeaseAssumption DEF Timely
<1> QED
  BY <1>2, <1>3, <1>4, NodeStep

LEMMA ServeKeeps ==
  ASSUME Types, NEW h \in Hosts, NEW age \in 0..Interval, Serve(h, age)
  PROVE  Continues(h)
<1> DEFINE n == [node[h] EXCEPT !.pc = "serving", !.timer = Interval, !.age = age]
<1>1. age \in 0..MaxAge /\ Interval \in 0..Interval /\ "serving" \in Steps
  BY LeaseAssumption DEF MaxAge, Steps, Timely, Types, Node
<1>2. /\ n \in Node
      /\ n.pc = "serving" /\ n.timer = Interval /\ n.age = age
      /\ n.id = node[h].id /\ n.epoch = node[h].epoch /\ n.why = node[h].why
  BY <1>1 DEF Types, Node
<1>3. node' = [node EXCEPT ![h] = n]
  BY Zenon DEF Serve
<1> HIDE DEF n
<1>4. Timely(n)
  BY <1>1, <1>2, LeaseAssumption DEF Timely
<1> QED
  BY <1>2, <1>3, <1>4, NodeStep

LEMMA StopKeeps ==
  ASSUME Types, NEW h \in Hosts, NEW why \in {"none", "taken", "own", "unreachable"},
         Stop(h, why)
  PROVE  /\ StepOf(h, node'[h]) /\ Keeps(h, node'[h])
         /\ node'[h].pc = "down" /\ node'[h].why = why
<1>1. node'[h] = Down(why) /\ StepOf(h, node'[h])
  BY DEF Types, Stop, StepOf
<1>2. Down(why).pc = "down" /\ Down(why).why = why
  BY DEF Down
<1> QED
  BY <1>1, <1>2, DownKeeps, Zenon

-----------------------------------------------------------------------------
(* The actions.  Each of them stops the gateway, or lets the process go    *)
(* on; the lease it writes is its own.                                     *)

OwnPut(h) ==
  \E a \in 0..LeaseTimeout : Put(h, node[h].epoch, a)

\* The lease stays, goes, or is written by h.
LeaseStep(h) == lease' = lease \/ lease' = NoLease \/ OwnPut(h)

StopsUnfenced(h) ==
  /\ StepOf(h, node'[h]) /\ Keeps(h, node'[h])
  /\ node'[h].pc = "down" /\ (h \notin unverified => node'[h].why # "own")

Proceeds(h) ==
  /\ Continues(h) \/ StopsUnfenced(h)
  /\ node[h].pc # "down" /\ LeaseStep(h)
  /\ UNCHANGED <<starts, unverified>>

LEMMA StartUnwrittenProceeds ==
  ASSUME Types, NEW h \in Hosts, StartUnwritten(h)
  PROVE  Continues(h) \/ StopsUnfenced(h)
<1>1. CASE h \in marker \union Forced
  <2>1. PICK a \in {0, Interval} : Serve(h, a)
    BY <1>1 DEF StartUnwritten
  <2>2. a \in 0..Interval
    BY LeaseAssumption
  <2> QED
    BY <2>1, <2>2, ServeKeeps
<1>2. CASE h \notin marker \union Forced
  BY <1>2, StopKeeps DEF StartUnwritten, StopsUnfenced
<1> QED
  BY <1>1, <1>2

LEMMA AcquireWriteProceeds ==
  ASSUME IInv, NEW h \in Hosts, AcquireWrite(h)
  PROVE  Proceeds(h)
<1>1. ASSUME \E a \in {0, Interval} : Put(h, node[h].epoch, a)
      PROVE  OwnPut(h)
  BY <1>1, LeaseAssumption DEF OwnPut
<1>2. ASSUME node' = [node EXCEPT ![h] = [@ EXCEPT !.pc = "acqback", !.age = 0, !.timer = Interval]]
      PROVE  Continues(h)
  <2> DEFINE n == [node[h] EXCEPT !.pc = "acqback", !.age = 0, !.timer = Interval]
  <2>1. 0 \in 0..MaxAge /\ Interval \in 0..Interval /\ "acqback" \in Steps
    BY LeaseAssumption DEF MaxAge, Steps
  <2>2. /\ n \in Node
        /\ n.pc = "acqback" /\ n.timer = Interval /\ n.age = 0
        /\ n.id = node[h].id /\ n.epoch = node[h].epoch /\ n.why = node[h].why
    BY <2>1 DEF IInv, Types, Node
  <2>3. node' = [node EXCEPT ![h] = n]
    BY <1>2, Zenon
  <2> HIDE DEF n
  <2>4. Timely(n)
    BY <2>2, LeaseAssumption DEF Timely
  <2> QED
    BY <2>2, <2>3, <2>4, NodeStep DEF IInv
<1> QED
  BY <1>1, <1>2, StartUnwrittenProceeds DEF AcquireWrite, Proceeds, LeaseStep, IInv

LEMMA AcquireReadBackProceeds ==
  ASSUME IInv, NEW h \in Hosts, AcquireReadBack(h)
  PROVE  Proceeds(h)
<1>1. node[h].age \in 0..Interval
  BY LeaseAssumption DEF AcquireReadBack, IInv, Types, Timely, Node
<1>2. Continues(h) \/ StopsUnfenced(h)
  BY <1>1, ServeKeeps, StopKeeps DEF AcquireReadBack, StopsUnfenced, IInv
<1> QED
  BY <1>2 DEF AcquireReadBack, Proceeds, LeaseStep

LEMMA HeartbeatReadProceeds ==
  ASSUME IInv, NEW h \in Hosts, HeartbeatRead(h)
  PROVE  Proceeds(h)
<1>1. CASE h \notin cut /\ TakenBy(h)
  <2>1. h \notin unverified => lease.host # h
    BY <1>1 DEF HeartbeatRead, TakenBy, Absent, Holds, IInv, OlderUnlessHeld
  <2>2. StopsUnfenced(h)
    BY <1>1, <2>1, StopKeeps DEF HeartbeatRead, StopsUnfenced, IInv
  <2> QED
    BY <2>2 DEF HeartbeatRead, Proceeds, LeaseStep
<1>2. CASE ~(h \notin cut /\ TakenBy(h))
  <2> DEFINE n == [node[h] EXCEPT !.pc = "hbwrite", !.timer = Interval, !.readOk = h \notin cut]
  <2>1. /\ Interval \in 0..Interval /\ "hbwrite" \in Steps /\ (h \notin cut) \in BOOLEAN
        /\ node[h].age \in Nat /\ node[h].age <= LeaseTimeout + Interval
    BY LeaseAssumption DEF Steps, HeartbeatRead, IInv, Types, Timely, Node
  <2>2. /\ n \in Node
        /\ n.pc = "hbwrite" /\ n.timer = Interval /\ n.age = node[h].age
        /\ n.id = node[h].id /\ n.epoch = node[h].epoch /\ n.why = node[h].why
    BY <2>1 DEF IInv, Types, Node
  <2>3. node' = [node EXCEPT ![h] = n]
    BY <1>2, Zenon DEF HeartbeatRead
  <2> HIDE DEF n
  <2>4. Timely(n)
    BY <2>1, <2>2, LeaseAssumption DEF Timely
  <2>5. Continues(h)
    BY <2>2, <2>3, <2>4, NodeStep DEF IInv
  <2> QED
    BY <2>5 DEF HeartbeatRead, Proceeds, LeaseStep
<1> QED
  BY <1>1, <1>2

LEMMA HeartbeatWriteProceeds ==
  ASSUME IInv, NEW h \in Hosts, HeartbeatWrite(h)
  PROVE  Proceeds(h)
<1>1. node[h].age \in Nat /\ node[h].timer \in 0..Interval
  BY DEF IInv, Types, Node
<1>2. ASSUME HeartbeatFails(h) PROVE Continues(h) \/ StopsUnfenced(h)
  <2>1. CASE node[h].age > LeaseTimeout
    BY <1>2, <2>1, StopKeeps DEF HeartbeatFails, StopsUnfenced, IInv
  <2>2. CASE ~(node[h].age > LeaseTimeout)
    <3>1. node[h].age \in 0..LeaseTimeout /\ Interval \in 0..Interval
      BY <1>1, <2>2, LeaseAssumption
    <3> QED
      BY <1>2, <2>2, <3>1, RestKeeps DEF HeartbeatFails, IInv
  <2> QED
    BY <2>1, <2>2
<1>3. ASSUME NEW next \in {Interval, QuotaRecheck}, Rest(h, 0, next) PROVE Continues(h)
  <2>1. 0 \in 0..LeaseTimeout /\ next \in 0..Interval
    BY LeaseAssumption
  <2> QED
    BY <1>3, <2>1, RestKeeps DEF IInv
<1>4. Interval - node[h].timer \in 0..LeaseTimeout
  BY <1>1, LeaseAssumption
<1>5. Continues(h) \/ StopsUnfenced(h)
  BY <1>2, <1>3 DEF HeartbeatWrite
<1>6. LeaseStep(h)
  BY <1>4 DEF HeartbeatWrite, LeaseStep, OwnPut
<1> QED
  BY <1>5, <1>6 DEF HeartbeatWrite, Proceeds

LEMMA ReleaseProceeds ==
  ASSUME IInv, NEW h \in Hosts, Release(h)
  PROVE  Proceeds(h)
<1>1. CASE h \in cut \/ Absent \/ Holds(h)
  <2> DEFINE n == [node[h] EXCEPT !.pc = "reldelete"]
  <2>1. /\ n \in Node /\ n.pc = "reldelete"
        /\ n.id = node[h].id /\ n.epoch = node[h].epoch /\ n.why = node[h].why
    BY DEF IInv, Types, Node, Steps
  <2>2. node' = [node EXCEPT ![h] = n]
    BY <1>1 DEF Release
  <2> HIDE DEF n
  <2>3. Continues(h)
    BY <2>1, <2>2, NodeStep DEF IInv, Timely
  <2> QED
    BY <2>3 DEF Release, Serving, Proceeds, LeaseStep
<1>2. CASE ~(h \in cut \/ Absent \/ Holds(h))
  BY <1>2, StopKeeps DEF Release, Serving, Proceeds, LeaseStep, StopsUnfenced, IInv
<1> QED
  BY <1>1, <1>2

LEMMA StopProceeds ==
  ASSUME IInv, NEW h \in Hosts, ReleaseDelete(h) \/ Crash(h)
  PROVE  Proceeds(h)
BY StopKeeps DEF ReleaseDelete, Crash, Proceeds, LeaseStep, StopsUnfenced, IInv

\* A step of a running gateway.  Another host's process is left alone, and what
\* is under that host's name stays as old as it was.
LEMMA ProceedsIInv ==
  ASSUME IInv, NEW h \in Hosts, Proceeds(h)
  PROVE  IInv'
<1>1. StepOf(h, node'[h]) /\ Keeps(h, node'[h])
  BY DEF Proceeds, Continues, StopsUnfenced
<1>2. \A g \in Hosts \ {h} : node'[g] = node[g]
  BY <1>1 DEF StepOf, IInv, Types
<1>3. node' \in [Hosts -> Node]
  BY <1>1 DEF StepOf, Keeps, IInv, Types
<1>4. lease' \in LeaseType
  <2>1. NoLease \in LeaseType
    BY LeaseAssumption DEF NoLease, LeaseType
  <2>2. ASSUME OwnPut(h) PROVE lease' \in LeaseType
    <3>1. node[h].id \in 0..(MaxStarts + 1) /\ node[h].epoch \in Nat
      BY LeaseAssumption DEF IInv, Types, Node
    <3> QED
      BY <2>2, <3>1 DEF OwnPut, Put, LeaseType
  <2> QED
    BY <2>1, <2>2 DEF Proceeds, LeaseStep, IInv, Types
<1>5. \A g \in Hosts : Timely(node'[g])
  BY <1>1, <1>2 DEF Keeps, IInv
<1>6. ASSUME NEW g \in Hosts PROVE OlderUnlessHeld(g)'
  <2>1. lease'.host = g => g = h \/ (lease'.id = lease.id /\ lease'.epoch = lease.epoch /\ lease.host = g)
    BY LeaseAssumption DEF Proceeds, LeaseStep, OwnPut, Put, NoLease
  <2>2. CASE g = h
    <3>1. CASE OwnPut(h)
      BY <2>2, <3>1 DEF Proceeds, Continues, StopsUnfenced, OwnPut, Put, OlderUnlessHeld
    <3>2. CASE lease' = lease
      BY <2>2, <3>2 DEF Proceeds, Continues, StopsUnfenced, OlderUnlessHeld, IInv
    <3>3. CASE lease' = NoLease
      BY <2>2, <3>3, LeaseAssumption DEF NoLease, OlderUnlessHeld
    <3> QED
      BY <3>1, <3>2, <3>3 DEF Proceeds, LeaseStep
  <2>3. CASE g # h
    BY <1>2, <2>1, <2>3 DEF Proceeds, OlderUnlessHeld, IInv
  <2> QED
    BY <2>2, <2>3
<1>7. NotFencedByOwnLease'
  BY <1>2 DEF Proceeds, Continues, StopsUnfenced, NotFencedByOwnLease, IInv
<1> QED
  BY <1>3, <1>4, <1>5, <1>6, <1>7 DEF IInv, Types, Proceeds

\* A start reads the lease that is there and takes the epoch after its own.
LEMMA AcquireReadIInv ==
  ASSUME IInv, NEW h \in Hosts, AcquireRead(h)
  PROVE  IInv'
<1> DEFINE epoch == IF h \in cut THEN 1 ELSE lease.epoch + 1
           started == Started(starts + 1, epoch)
<1>1. /\ starts \in 0..MaxStarts /\ starts < MaxStarts /\ starts' = starts + 1
      /\ lease' = lease /\ lease \in LeaseType /\ lease.epoch \in Nat
      /\ unverified' = unverified \union (cut \intersect {h})
  BY DEF AcquireRead, IInv, Types, LeaseType
<1>2. /\ started \in Node /\ started.pc = "acqwrite" /\ started.why = "none"
      /\ h \notin cut => started.epoch = lease.epoch + 1
  BY <1>1, LeaseAssumption DEF Started, Node, Steps, MaxAge
<1>3. PICK n \in {started, Down("none")} : node' = [node EXCEPT ![h] = n]
  BY DEF AcquireRead
<1> HIDE DEF started
<1>4. Keeps(h, n) /\ n.why = "none"
  <2>1. Keeps(h, started)
    BY <1>2 DEF Keeps, Timely
  <2>2. Keeps(h, Down("none")) /\ Down("none").why = "none"
    <3>1. Down("none").why = "none"
      BY DEF Down
    <3> QED
      BY <3>1, DownKeeps
  <2> QED
    BY <1>2, <1>3, <2>1, <2>2, Zenon
<1>5. node'[h] = n /\ \A g \in Hosts \ {h} : node'[g] = node[g]
  BY <1>3 DEF IInv, Types
<1>6. node' \in [Hosts -> Node]
  BY <1>3, <1>4 DEF IInv, Types, Keeps
<1>7. ASSUME NEW g \in Hosts PROVE OlderUnlessHeld(g)'
  <2>1. CASE g = h
    BY <1>1, <1>2, <1>3, <1>5, <2>1 DEF OlderUnlessHeld, Down
  <2>2. CASE g # h
    BY <1>1, <1>5, <2>2 DEF OlderUnlessHeld, IInv
  <2> QED
    BY <2>1, <2>2
<1>8. NotFencedByOwnLease'
  BY <1>1, <1>4, <1>5 DEF NotFencedByOwnLease, IInv
<1>9. \A g \in Hosts : Timely(node'[g])
  BY <1>4, <1>5 DEF Keeps, IInv
<1> QED
  BY <1>1, <1>6, <1>7, <1>8, <1>9, LeaseAssumption DEF IInv, Types

LEMMA TickIInv ==
  ASSUME IInv, Tick
  PROVE  IInv'
<1>1. ASSUME NEW g \in Hosts
      PROVE  /\ node'[g] \in Node /\ Timely(node'[g])
             /\ node'[g].pc = node[g].pc /\ node'[g].id = node[g].id
             /\ node'[g].epoch = node[g].epoch /\ node'[g].why = node[g].why
  <2>1. CASE Timed(g)
    <3> DEFINE n == Aged(node[g])
    <3>1. /\ node[g].timer \in 1..Interval /\ node[g].age \in 0..MaxAge /\ MaxAge \in Nat
          /\ Timely(node[g])
      BY <2>1, LeaseAssumption DEF Tick, IInv, Types, Node, MaxAge
    <3>2. node[g].timer - 1 \in 0..Interval /\ Older(node[g].age, MaxAge) \in 0..MaxAge
      BY <3>1, LeaseAssumption DEF Older
    <3>3. /\ n \in Node /\ n.pc = node[g].pc /\ n.id = node[g].id
          /\ n.epoch = node[g].epoch /\ n.why = node[g].why
          /\ n.timer = node[g].timer - 1 /\ n.age = Older(node[g].age, MaxAge)
      BY <3>2 DEF IInv, Types, Node, Aged
    <3>4. node'[g] = n
      BY <2>1, Zenon DEF Tick
    <3> HIDE DEF n
    <3>5. Timely(n)
      BY <3>1, <3>3, LeaseAssumption DEF Timely, Older
    <3> QED
      BY <3>3, <3>4, <3>5
  <2>2. CASE ~Timed(g)
    BY <2>2 DEF Tick, IInv, Types
  <2> QED
    BY <2>1, <2>2
<1>2. node' \in [Hosts -> Node]
  BY <1>1 DEF Tick
<1>3. lease' \in LeaseType /\ lease'.host = lease.host /\ lease'.id = lease.id /\ lease'.epoch = lease.epoch
  <2>1. CASE Absent
    BY <2>1 DEF Tick, IInv, Types
  <2>2. CASE ~Absent
    <3>1. lease' = [lease EXCEPT !.age = Older(@, LeaseTimeout)]
      BY <2>2 DEF Tick
    <3>2. Older(lease.age, LeaseTimeout) \in 0..LeaseTimeout
      BY LeaseAssumption DEF Older, IInv, Types, LeaseType
    <3> QED
      BY <3>1, <3>2 DEF IInv, Types, LeaseType
  <2> QED
    BY <2>1, <2>2
<1> QED
  BY <1>1, <1>2, <1>3 DEF Tick, IInv, Types, OlderUnlessHeld, NotFencedByOwnLease

LEMMA NextIInv == IInv /\ [Next]_vars => IInv'
<1> SUFFICES ASSUME IInv, [Next]_vars PROVE IInv'
  OBVIOUS
<1>1. ASSUME NEW h \in Hosts, Gateway(h) PROVE IInv'
  BY <1>1, ProceedsIInv, AcquireReadIInv, AcquireWriteProceeds, AcquireReadBackProceeds,
     HeartbeatReadProceeds, HeartbeatWriteProceeds, ReleaseProceeds, StopProceeds
  DEF Gateway
<1>2. CASE StoreChanges
  BY <1>2 DEF StoreChanges, IInv, Types, OlderUnlessHeld, NotFencedByOwnLease
<1>3. CASE UNCHANGED vars
  BY <1>3 DEF vars, IInv, Types, OlderUnlessHeld, NotFencedByOwnLease
<1> QED
  BY <1>1, <1>2, <1>3, TickIInv DEF Next

-----------------------------------------------------------------------------
\* A gateway that cannot renew its lease stops serving within the lease timeout
\* and two intervals of its last renewal (heartbeatLoop, reportLoss).
THEOREM FencesInTime == Spec => []FencedInTime
<1> QED
  BY InitIInv, NextIInv, IInvFencedInTime, PTL DEF Spec

\* A gateway that read the lease when it started is never stopped by a lease of
\* its own host from before that start (takenBy).
THEOREM KeepsOwnLease == Spec => []NotFencedByOwnLease
<1>1. IInv => NotFencedByOwnLease
  BY DEF IInv
<1> QED
  BY InitIInv, NextIInv, <1>1, PTL DEF Spec

=============================================================================
