-------------------------- MODULE CosClientProofs --------------------------
(***************************************************************************)
(* The gateway stops refusing requests in time once the object store is    *)
(* back, for every number of requests under way and every threshold,       *)
(* interval and timeout of the breaker and of the quota mark.              *)
(*                                                                         *)
(* RefusalsEnd bounds the time since the store recovered, and nothing in   *)
(* the code measures that.  What the code measures is the time since the   *)
(* last probe: the invariant says that the store cannot have been back for *)
(* longer than that without a probe being under way that it will answer.   *)
(***************************************************************************)
EXTENDS CosClient, TLAPS

CallRecord ==
  [pc: {"idle", "sent", "backoff"}, op: Ops, attempt: Nat, age: Nat, dead: BOOLEAN, probe: BOOLEAN]

CosTypeOK ==
  /\ circuit \in [open: BOOLEAN, fails: Nat, sinceProbe: Nat]
  /\ reachable \in BOOLEAN /\ upFor \in Nat
  /\ room \in BOOLEAN /\ roomFor \in Nat
  /\ fullFor \in Nat
  /\ call \in [Calls -> CallRecord]
  /\ asked \in BOOLEAN

\* A probe is due after every interval, and goes to whoever asks first.
ProbesDue ==
  circuit.open => /\ circuit.sinceProbe <= ProbeInterval
                  /\ asked => circuit.sinceProbe < ProbeInterval

\* A probe the store has got.
LiveProbe(r) == call[r].pc = "sent" /\ ~call[r].dead /\ call[r].probe

Answered(r) == LiveProbe(r) /\ call[r].age <= 1 /\ upFor <= ProbeInterval + call[r].age

Recovering ==
  cosBreach = {} /\ circuit.open /\ reachable =>
     upFor <= circuit.sinceProbe \/ \E r \in Calls : Answered(r)

MarkLapses ==
  /\ fullFor <= BucketFullFor
  /\ fullFor > 0 /\ room => roomFor + fullFor <= BucketFullFor

CosIInv == CosTypeOK /\ ProbesDue /\ Recovering /\ MarkLapses

-----------------------------------------------------------------------------
\* The thresholds and intervals are positive numbers.
LEMMA Positive ==
  /\ FailureThreshold \in Nat /\ FailureThreshold > 0
  /\ ProbeInterval \in Nat /\ ProbeInterval > 0
  /\ RequestTimeout \in Nat /\ RequestTimeout > 0
  /\ BucketFullFor \in Nat /\ BucketFullFor > 0
<1>1. \A n \in Nat \ {0} : n > 0
  OBVIOUS
<1>2. QED
  BY <1>1, CosAssumption

\* A counter below Long counts on, and never runs ahead of what it counts.
LEMMA LaterFacts ==
  ASSUME NEW n \in Nat
  PROVE  /\ Later(n) \in Nat /\ Later(n) <= n + 1
         /\ n <= ProbeInterval => Later(n) = n + 1
<1>1. Long \in Nat /\ ProbeInterval < Long
  BY Positive DEF Long
<1>2. QED
  BY <1>1, Positive DEF Later

\* A client that has not yet asked for anything.
LEMMA NoCallType == NoCall \in CallRecord
BY DEF NoCall, CallRecord, Ops

\* Init establishes the invariant: the circuit is closed and the bucket has room.
LEMMA CosInitInv == CosInit => CosIInv
<1> SUFFICES ASSUME CosInit PROVE CosIInv
  OBVIOUS
<1>1. CosTypeOK
  BY NoCallType DEF CosInit, CosTypeOK
<1>2. ProbesDue /\ Recovering /\ MarkLapses
  BY Positive DEF CosInit, ProbesDue, Recovering, MarkLapses
<1>3. QED
  BY <1>1, <1>2 DEF CosIInv

-----------------------------------------------------------------------------
\* A request that asks, whether it is admitted as the probe, admitted or refused.
LEMMA AdmitInv ==
  ASSUME CosIInv, NEW r \in Calls, NEW c \in CallRecord,
         call[r].pc \in {"idle", "backoff"}, Admit(r, c), asked' = TRUE,
         UNCHANGED <<worldVars, fullFor, cosBreach>>
  PROVE  CosIInv'
<1> DEFINE n == [c EXCEPT !.pc = "sent", !.age = 0, !.dead = ~reachable, !.probe = circuit.open]
<1>0. CosTypeOK /\ ProbesDue /\ Recovering /\ MarkLapses
  BY DEF CosIInv
<1>1. /\ n \in CallRecord /\ n.pc = "sent" /\ n.age = 0
      /\ n.dead = ~reachable /\ n.probe = circuit.open
  BY <1>0 DEF CosTypeOK, CallRecord
<1>2. UNCHANGED <<reachable, upFor, room, roomFor, fullFor, cosBreach>>
  BY DEF worldVars
<1>3. MarkLapses'
  BY <1>0, <1>2 DEF MarkLapses
<1>4. \A w \in Calls : Answered(w) => w # r
  BY DEF Answered, LiveProbe
<1> HIDE DEF n
<1>5. CASE ~circuit.open \/ circuit.sinceProbe >= ProbeInterval
  <2>1. call' = [call EXCEPT ![r] = n]
    BY <1>5 DEF Admit, n
  <2>2. circuit' = IF circuit.open THEN [circuit EXCEPT !.sinceProbe = 0] ELSE circuit
    BY <1>5 DEF Admit
  <2>3. /\ circuit' \in [open: BOOLEAN, fails: Nat, sinceProbe: Nat]
        /\ circuit'.open = circuit.open
        /\ circuit.open => circuit'.sinceProbe = 0
    BY <1>0, <2>2 DEF CosTypeOK
  <2>4. CosTypeOK'
    BY <1>0, <1>1, <1>2, <2>1, <2>3 DEF CosTypeOK
  <2>5. ProbesDue'
    BY <2>3, Positive DEF ProbesDue
  <2>6. Recovering'
    <3> SUFFICES ASSUME cosBreach = {}, circuit.open, reachable PROVE \E w \in Calls : Answered(w)'
      BY <1>2, <2>3 DEF Recovering
    <3>1. CASE upFor <= circuit.sinceProbe
      <4>1. upFor <= ProbeInterval
        BY <1>0, <3>1, Positive DEF ProbesDue, CosTypeOK
      <4>2. call'[r] = n
        BY <1>0, <2>1 DEF CosTypeOK
      <4>3. LiveProbe(r)'
        BY <4>2, <1>1, Zenon DEF LiveProbe
      <4>4. call'[r].age <= 1 /\ upFor' <= ProbeInterval + call'[r].age
        BY <4>1, <4>2, <1>1, <1>2, <1>0, Positive DEF CosTypeOK
      <4>5. QED
        BY <4>3, <4>4, Zenon DEF Answered
    <3>2. CASE \E w \in Calls : Answered(w)
      <4>1. PICK w \in Calls : Answered(w)
        BY <3>2
      <4>2. call'[w] = call[w]
        BY <4>1, <1>4, <2>1, <1>0 DEF CosTypeOK
      <4>3. QED
        BY <4>1, <4>2, <1>2 DEF Answered, LiveProbe
    <3>3. QED
      BY <3>1, <3>2, <1>0 DEF Recovering
  <2>7. QED
    BY <2>4, <2>5, <2>6, <1>3 DEF CosIInv
<1>6. CASE circuit.open /\ ~(circuit.sinceProbe >= ProbeInterval)
  <2>1. call' = [call EXCEPT ![r] = NoCall] /\ circuit' = circuit
    BY <1>6 DEF Admit
  <2>2. CosTypeOK'
    BY <1>0, <1>2, <2>1, NoCallType DEF CosTypeOK
  <2>3. ProbesDue'
    BY <1>0, <1>6, <2>1, Positive DEF ProbesDue, CosTypeOK
  <2>4. Recovering'
    BY <1>0, <1>2, <1>4, <2>1 DEF Recovering, Answered, LiveProbe, CosTypeOK
  <2>5. QED
    BY <2>2, <2>3, <2>4, <1>3 DEF CosIInv
<1>7. QED
  BY <1>5, <1>6, <1>0 DEF CosTypeOK

\* A response, of whatever kind, closes the circuit.
LEMMA ClosesInv ==
  ASSUME CosIInv, Closes, call' \in [Calls -> CallRecord], UNCHANGED <<worldVars, asked, cosBreach>>,
         fullFor' = fullFor \/ fullFor' = IF room THEN 0 ELSE BucketFullFor
  PROVE  CosIInv'
<1>0. CosTypeOK /\ MarkLapses
  BY DEF CosIInv
<1>1. circuit' \in [open: BOOLEAN, fails: Nat, sinceProbe: Nat] /\ ~circuit'.open
  BY <1>0 DEF Closes, CosTypeOK
<1>2. UNCHANGED <<reachable, upFor, room, roomFor, asked>>
  BY DEF worldVars
<1>3. fullFor' \in Nat /\ MarkLapses'
  BY <1>0, <1>2, Positive DEF MarkLapses, CosTypeOK
<1>4. CosTypeOK'
  BY <1>0, <1>1, <1>2, <1>3 DEF CosTypeOK
<1>5. ProbesDue' /\ Recovering'
  BY <1>1 DEF ProbesDue, Recovering
<1>6. QED
  BY <1>3, <1>4, <1>5 DEF CosIInv

\* A request that failed is idle or waits to be tried again: it is no probe.
LEMMA FailedCallFacts ==
  ASSUME CosTypeOK, NEW r \in Calls, FailedCall(r)
  PROVE  /\ call' \in [Calls -> CallRecord]
         /\ \A w \in Calls : w # r => call'[w] = call[w]
<1> DEFINE n == IF call[r].op = "get" /\ call[r].attempt < MaxRetries
               THEN [call[r] EXCEPT !.pc = "backoff", !.probe = FALSE] ELSE NoCall
<1>1. n \in CallRecord
  BY NoCallType DEF CosTypeOK, CallRecord
<1>2. call' = [call EXCEPT ![r] = n]
  BY DEF FailedCall
<1> HIDE DEF n
<1>3. QED
  BY <1>1, <1>2 DEF CosTypeOK

\* A failure opens the circuit only while the store is away, or is "late".
LEMMA RecordFailureInv ==
  ASSUME CosIInv, NEW r \in Calls, RecordFailure(r)
  PROVE  CosIInv'
<1> DEFINE opens == ~circuit.open /\ circuit.fails + 1 >= FailureThreshold
<1>0. CosTypeOK /\ ProbesDue /\ Recovering /\ MarkLapses
  BY DEF CosIInv
<1>1. /\ UNCHANGED <<reachable, upFor, room, roomFor, fullFor, asked>>
      /\ call[r].dead
      /\ cosBreach' = cosBreach \union (IF opens /\ reachable THEN {"late"} ELSE {})
      /\ FailedCall(r)
  BY DEF RecordFailure, worldVars
<1>2. /\ circuit' \in [open: BOOLEAN, fails: Nat, sinceProbe: Nat]
      /\ circuit'.open = (circuit.open \/ opens)
      /\ circuit'.sinceProbe = IF opens THEN 0 ELSE circuit.sinceProbe
  BY <1>0, Positive DEF RecordFailure, CosTypeOK
<1>3. /\ call' \in [Calls -> CallRecord]
      /\ \A w \in Calls : w # r => call'[w] = call[w]
  BY <1>0, <1>1, FailedCallFacts
<1>4. CosTypeOK'
  BY <1>0, <1>1, <1>2, <1>3 DEF CosTypeOK
<1>5. MarkLapses'
  BY <1>0, <1>1 DEF MarkLapses
<1>6. opens => ~circuit.open
  OBVIOUS
<1> HIDE DEF opens
<1>7. ProbesDue'
  BY <1>0, <1>1, <1>2, Positive DEF ProbesDue, CosTypeOK
<1>8. Recovering'
  <2> SUFFICES ASSUME cosBreach' = {}, circuit'.open, reachable'
               PROVE  upFor' <= circuit'.sinceProbe \/ \E w \in Calls : Answered(w)'
    BY DEF Recovering
  <2>1. cosBreach = {} /\ ~opens /\ reachable
    BY <1>1
  <2>2. circuit.open /\ circuit'.sinceProbe = circuit.sinceProbe
    BY <1>2, <2>1
  <2>3. CASE upFor <= circuit.sinceProbe
    BY <2>2, <2>3, <1>1
  <2>4. CASE \E w \in Calls : Answered(w)
    BY <2>4, <1>1, <1>3 DEF Answered, LiveProbe
  <2>5. QED
    BY <2>1, <2>2, <2>3, <2>4, <1>0 DEF Recovering
<1>9. QED
  BY <1>4, <1>5, <1>7, <1>8 DEF CosIInv

\* A caller gives up: on the probe of an open circuit, that is a breach.
LEMMA CancelledInv ==
  ASSUME CosIInv, NEW r \in Calls, Cancelled(r)
  PROVE  CosIInv'
<1>0. CosTypeOK /\ ProbesDue /\ Recovering /\ MarkLapses
  BY DEF CosIInv
<1>1. /\ UNCHANGED <<circuit, reachable, upFor, room, roomFor, fullFor, asked>>
      /\ call' = [call EXCEPT ![r] = NoCall]
      /\ cosBreach' = cosBreach \union (IF call[r].probe /\ circuit.open THEN {"cancelled"} ELSE {})
  BY DEF Cancelled, worldVars
<1>2. CosTypeOK' /\ ProbesDue' /\ MarkLapses'
  BY <1>0, <1>1, NoCallType DEF CosTypeOK, ProbesDue, MarkLapses
<1>3. Recovering'
  <2> SUFFICES ASSUME cosBreach' = {}, circuit.open, reachable
               PROVE  upFor <= circuit.sinceProbe \/ \E w \in Calls : Answered(w)'
    BY <1>1 DEF Recovering
  <2>1. cosBreach = {} /\ ~call[r].probe
    BY <1>1
  <2>2. \A w \in Calls : Answered(w) => w # r
    BY <2>1 DEF Answered, LiveProbe
  <2>3. \A w \in Calls : Answered(w) => Answered(w)'
    BY <2>2, <1>0, <1>1 DEF Answered, LiveProbe, CosTypeOK
  <2>4. QED
    BY <2>1, <2>3, <1>0 DEF Recovering
<1>4. QED
  BY <1>2, <1>3 DEF CosIInv

\* A tick ages everything alike; the store answers what it got before the second.
LEMMA CosTickInv ==
  ASSUME CosIInv, CosTick
  PROVE  CosIInv'
<1>0. CosTypeOK /\ ProbesDue /\ Recovering /\ MarkLapses
  BY DEF CosIInv
<1> DEFINE aged(w) == [call[w] EXCEPT !.age = IF call[w].pc = "sent" THEN @ + 1 ELSE @]
<1>1. /\ UNCHANGED <<reachable, room, cosBreach>>
      /\ upFor' = (IF reachable THEN Later(upFor) ELSE 0)
      /\ roomFor' = (IF room THEN Later(roomFor) ELSE 0)
      /\ fullFor' = (IF fullFor = 0 THEN 0 ELSE fullFor - 1)
      /\ asked' = FALSE
      /\ circuit.open => asked
      /\ call' = [w \in Calls |-> aged(w)]
  BY DEF CosTick
<1>2. \A w \in Calls : /\ aged(w) \in CallRecord
                       /\ aged(w).pc = call[w].pc /\ aged(w).dead = call[w].dead
                       /\ aged(w).probe = call[w].probe
                       /\ call[w].pc = "sent" => aged(w).age = call[w].age + 1
  <2> SUFFICES ASSUME NEW w \in Calls
               PROVE  /\ aged(w) \in CallRecord
                      /\ aged(w).pc = call[w].pc /\ aged(w).dead = call[w].dead
                      /\ aged(w).probe = call[w].probe
                      /\ call[w].pc = "sent" => aged(w).age = call[w].age + 1
    OBVIOUS
  <2>1. call[w] \in CallRecord
    BY <1>0 DEF CosTypeOK
  <2>2. QED
    BY <2>1 DEF CallRecord
<1>3. \A w \in Calls : LiveProbe(w) => call[w].age < 1
  BY DEF CosTick, LiveProbe
<1> HIDE DEF aged
<1>4. /\ circuit' \in [open: BOOLEAN, fails: Nat, sinceProbe: Nat]
      /\ circuit'.open = circuit.open
      /\ circuit'.sinceProbe = Later(circuit.sinceProbe)
  BY <1>0, LaterFacts DEF CosTick, CosTypeOK
<1>5. CosTypeOK'
  <2>1. call' \in [Calls -> CallRecord]
    BY <1>1, <1>2
  <2>2. upFor' \in Nat /\ roomFor' \in Nat /\ fullFor' \in Nat
    BY <1>0, <1>1, LaterFacts DEF CosTypeOK
  <2>3. QED
    BY <1>0, <1>1, <1>4, <2>1, <2>2 DEF CosTypeOK
<1>6. ProbesDue'
  BY <1>0, <1>1, <1>4, LaterFacts, Positive DEF ProbesDue, CosTypeOK
<1>7. MarkLapses'
  <2>1. Later(roomFor) <= roomFor + 1 /\ Later(roomFor) \in Nat
    BY <1>0, LaterFacts DEF CosTypeOK
  <2>2. QED
    BY <2>1, <1>0, <1>1, Positive DEF MarkLapses, CosTypeOK
<1>8. Recovering'
  <2> SUFFICES ASSUME cosBreach = {}, circuit.open, reachable
               PROVE  upFor' <= circuit'.sinceProbe \/ \E w \in Calls : Answered(w)'
    BY <1>1, <1>4 DEF Recovering
  <2>1. upFor' = Later(upFor) /\ circuit.sinceProbe < ProbeInterval
    BY <1>0, <1>1 DEF ProbesDue
  <2>2. CASE upFor <= circuit.sinceProbe
    <3>1. Later(upFor) = upFor + 1 /\ Later(circuit.sinceProbe) = circuit.sinceProbe + 1
      BY <2>1, <2>2, <1>0, LaterFacts, Positive DEF CosTypeOK
    <3>2. QED
      BY <3>1, <2>1, <2>2, <1>0, <1>4 DEF CosTypeOK
  <2>3. CASE \E w \in Calls : Answered(w)
    <3>1. PICK w \in Calls : Answered(w)
      BY <2>3
    <3>2. LiveProbe(w) /\ call[w].age <= 1 /\ upFor <= ProbeInterval + call[w].age
      BY <3>1 DEF Answered
    <3>3. call'[w] = aged(w) /\ call[w].pc = "sent" /\ call[w].age \in Nat
      BY <3>2, <1>0, <1>1 DEF LiveProbe, CosTypeOK, CallRecord
    <3>4. LiveProbe(w)'
      BY <3>2, <3>3, <1>2, Zenon DEF LiveProbe
    <3>5. call'[w].age = 1 /\ upFor' <= ProbeInterval + 1
      BY <3>2, <3>3, <1>0, <1>2, <1>3, <2>1, LaterFacts, Positive DEF CosTypeOK
    <3>6. Answered(w)'
      BY <3>4, <3>5, Positive DEF Answered
    <3>7. QED
      BY <3>6
  <2>4. QED
    BY <2>2, <2>3, <1>0 DEF Recovering
<1>9. QED
  BY <1>5, <1>6, <1>7, <1>8 DEF CosIInv

\* The store goes away, or comes back: then it has been back for no time at all.
LEMMA OutageInv ==
  ASSUME CosIInv, Outage
  PROVE  CosIInv'
<1>0. CosTypeOK /\ ProbesDue /\ Recovering /\ MarkLapses
  BY DEF CosIInv
<1>1. /\ UNCHANGED <<circuit, room, roomFor, fullFor, asked>>
      /\ reachable' = ~reachable /\ upFor' = 0
      /\ call' = [r \in Calls |-> [call[r] EXCEPT !.dead = call[r].pc = "sent"]]
  BY DEF Outage
<1>2. call' \in [Calls -> CallRecord]
  <2>1. \A r \in Calls : [call[r] EXCEPT !.dead = call[r].pc = "sent"] \in CallRecord
    BY <1>0 DEF CosTypeOK, CallRecord
  <2>2. QED
    BY <2>1, <1>1
<1>3. CosTypeOK'
  BY <1>0, <1>1, <1>2 DEF CosTypeOK
<1>4. ProbesDue' /\ MarkLapses'
  BY <1>0, <1>1 DEF ProbesDue, MarkLapses
<1>5. Recovering'
  BY <1>0, <1>1 DEF Recovering, CosTypeOK
<1>6. QED
  BY <1>3, <1>4, <1>5 DEF CosIInv

\* The bucket fills up, or has room again, for no time yet.
LEMMA QuotaChangesInv ==
  ASSUME CosIInv, QuotaChanges
  PROVE  CosIInv'
<1>0. CosTypeOK /\ ProbesDue /\ Recovering /\ MarkLapses
  BY DEF CosIInv
<1>1. /\ UNCHANGED <<circuit, reachable, upFor, fullFor, call, asked, cosBreach>>
      /\ room' = ~room /\ roomFor' = 0
  BY DEF QuotaChanges
<1>2. CosTypeOK' /\ ProbesDue' /\ Recovering'
  BY <1>0, <1>1 DEF CosTypeOK, ProbesDue, Recovering, Answered, LiveProbe
<1>3. MarkLapses'
  BY <1>0, <1>1, Positive DEF MarkLapses, CosTypeOK
<1>4. QED
  BY <1>2, <1>3 DEF CosIInv

\* Every step of a request, of the store or of time preserves the invariant.
LEMMA CosNextInv == CosIInv /\ [CosNext]_cosVars => CosIInv'
<1> SUFFICES ASSUME CosIInv, [CosNext]_cosVars PROVE CosIInv'
  OBVIOUS
<1>0. CosTypeOK
  BY DEF CosIInv
<1>1. ASSUME NEW r \in Calls, NEW op \in Ops, Send(r, op) PROVE CosIInv'
  <2>1. [NoCall EXCEPT !.op = op] \in CallRecord
    BY DEF NoCall, CallRecord, Ops
  <2>2. QED
    BY <1>1, <2>1, AdmitInv DEF Send
<1>2. ASSUME NEW r \in Calls, Retry(r) PROVE CosIInv'
  <2>1. [call[r] EXCEPT !.attempt = @ + 1] \in CallRecord
    BY <1>0 DEF CosTypeOK, CallRecord
  <2>2. QED
    BY <1>2, <2>1, AdmitInv DEF Retry
<1>3. ASSUME NEW r \in Calls, Answers(r) PROVE CosIInv'
  <2>1. call' \in [Calls -> CallRecord]
    BY <1>0, <1>3, NoCallType DEF Answers, CosTypeOK
  <2>2. QED
    BY <1>3, <2>1, ClosesInv DEF Answers
<1>4. ASSUME NEW r \in Calls, BodyFails(r) PROVE CosIInv'
  <2>1. call' \in [Calls -> CallRecord]
    BY <1>0, <1>4, FailedCallFacts DEF BodyFails
  <2>2. QED
    BY <1>4, <2>1, ClosesInv DEF BodyFails
<1>5. ASSUME NEW r \in Calls, NoteWrite(r) PROVE CosIInv'
  <2>1. call' \in [Calls -> CallRecord]
    BY <1>0, <1>5, NoCallType DEF NoteWrite, CosTypeOK
  <2>2. QED
    BY <1>5, <2>1, ClosesInv DEF NoteWrite
<1>6. ASSUME UNCHANGED cosVars PROVE CosIInv'
  BY <1>6 DEF cosVars, CosIInv, CosTypeOK, ProbesDue, Recovering, MarkLapses, Answered, LiveProbe
<1>7. QED
  BY <1>1, <1>2, <1>3, <1>4, <1>5, <1>6, RecordFailureInv, CancelledInv, OutageInv,
     QuotaChangesInv, CosTickInv DEF CosNext

\* However requests, outages and the quota interleave, an open circuit closes
\* within a probe interval and the time of an answer once the store is back, and
\* the mark of a full bucket lapses (admit, recordSuccess, recordFailure,
\* noteWrite), for every number of requests and every setting.
THEOREM GatewayStopsRefusing == CosSpec => []RefusalsEnd
<1>1. CosIInv => RefusalsEnd
  <2> SUFFICES ASSUME CosIInv PROVE RefusalsEnd
    OBVIOUS
  <2>0. CosTypeOK /\ ProbesDue /\ Recovering /\ MarkLapses
    BY DEF CosIInv
  <2>1. ASSUME cosBreach = {}, circuit.open, reachable PROVE upFor <= ProbeInterval + 1
    <3>1. CASE upFor <= circuit.sinceProbe
      BY <2>0, <2>1, <3>1, Positive DEF ProbesDue, CosTypeOK
    <3>2. CASE \E r \in Calls : Answered(r)
      BY <2>0, <3>2, Positive DEF Answered, CosTypeOK, CallRecord
    <3>3. QED
      BY <2>0, <2>1, <3>1, <3>2 DEF Recovering
  <2>2. fullFor > 0 /\ room => roomFor <= BucketFullFor
    BY <2>0, Positive DEF MarkLapses, CosTypeOK
  <2>3. QED
    BY <2>1, <2>2 DEF RefusalsEnd
<1>2. QED
  BY <1>1, CosInitInv, CosNextInv, PTL DEF CosSpec

=============================================================================
