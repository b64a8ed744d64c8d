----------------------------- MODULE CosClient -----------------------------
(***************************************************************************)
(* What stands between the gateway and the object store: the circuit       *)
(* breaker (internal/cos/breaker.go), the flag of a bucket over its hard   *)
(* quota (quota.go) and the requests that pass through both (client.go).   *)
(*                                                                         *)
(* Time passes in ticks.  A store that is reachable answers within one; a  *)
(* request it was not reachable for may hang for RequestTimeout of them.   *)
(* While the circuit is open clients keep asking.                          *)
(***************************************************************************)
EXTENDS Naturals, FiniteSets

CONSTANTS
  Calls,                    \* the requests that may be under way
  FailureThreshold, ProbeInterval, RequestTimeout, BucketFullFor, MaxRetries,
  MaxOutages                \* bound: how often the store or its room comes and goes

ASSUME CosAssumption ==
  {FailureThreshold, ProbeInterval, RequestTimeout, BucketFullFor} \subseteq Nat \ {0}

VARIABLES
  circuit,          \* the breaker: open, consecutiveFails, ticks since lastProbe
  reachable, upFor, \* the store, and for how long it has been reachable
  room, roomFor,    \* whether the bucket takes writes, and for how long it has
  fullFor,          \* the ticks until fullUntil, 0 when it is not set or past
  call,             \* call[r]: the request
  asked,            \* whether a request was made in this tick
  outages,          \* how often the store or its room changed
  cosBreach         \* what the code does not keep apart and has happened

cosVars == <<circuit, reachable, upFor, room, roomFor, fullFor, call, asked, outages, cosBreach>>
worldVars == <<reachable, upFor, room, roomFor, outages>>

Ops == {"get", "look", "write"}

NoCall == [pc |-> "idle", op |-> "get", attempt |-> 0, age |-> 0, dead |-> FALSE, probe |-> FALSE]

\* Past this many ticks, one more makes no difference.
Long == ProbeInterval + BucketFullFor + RequestTimeout + 2

Later(n) == IF n < Long THEN n + 1 ELSE n

CosInit ==
  /\ circuit = [open |-> FALSE, fails |-> 0, sinceProbe |-> 0]
  /\ reachable = TRUE /\ upFor = 0
  /\ room = TRUE /\ roomFor = 0
  /\ fullFor = 0
  /\ call = [r \in Calls |-> NoCall]
  /\ asked = FALSE
  /\ outages = 0
  /\ cosBreach = {}

-----------------------------------------------------------------------------
\* Mutant: a request that is turned away puts the next probe off.
Admit_Rearms(r, c) ==
  IF ~circuit.open \/ circuit.sinceProbe >= ProbeInterval
  THEN /\ call' = [call EXCEPT ![r] = [c EXCEPT !.pc = "sent", !.age = 0, !.dead = ~reachable,
                                               !.probe = circuit.open]]
       /\ circuit' = IF circuit.open THEN [circuit EXCEPT !.sinceProbe = 0] ELSE circuit
  ELSE /\ call' = [call EXCEPT ![r] = NoCall]
       /\ circuit' = [circuit EXCEPT !.sinceProbe = 0]

\* admit: everything while the circuit is closed, one request per interval while
\* it is open.  The others fail at once, and are not retried.
Admit(r, c) ==
  IF ~circuit.open \/ circuit.sinceProbe >= ProbeInterval
  THEN /\ call' = [call EXCEPT ![r] = [c EXCEPT !.pc = "sent", !.age = 0, !.dead = ~reachable,
                                               !.probe = circuit.open]]
       /\ circuit' = IF circuit.open THEN [circuit EXCEPT !.sinceProbe = 0] ELSE circuit
  ELSE /\ call' = [call EXCEPT ![r] = NoCall]
       /\ UNCHANGED circuit

Send(r, op) ==
  /\ call[r].pc = "idle"
  /\ Admit(r, [NoCall EXCEPT !.op = op])
  /\ asked' = TRUE
  /\ UNCHANGED <<worldVars, fullFor, cosBreach>>

\* GetObject tries again after a pause, up to MaxRetries times.
Retry(r) ==
  /\ call[r].pc = "backoff"
  /\ Admit(r, [call[r] EXCEPT !.attempt = @ + 1])
  /\ asked' = TRUE
  /\ UNCHANGED <<worldVars, fullFor, cosBreach>>

Closes == circuit' = [circuit EXCEPT !.open = FALSE, !.fails = 0]

\* A failed get is tried again, anything else is over.
FailedCall(r) ==
  call' = [call EXCEPT ![r] =
             IF call[r].op = "get" /\ call[r].attempt < MaxRetries
             THEN [call[r] EXCEPT !.pc = "backoff", !.probe = FALSE] ELSE NoCall]

\* A response of any status closes the circuit: what was asked for, or that it is
\* not there.
Answers(r) ==
  /\ call[r].pc = "sent" /\ reachable
  /\ call[r].op # "write"
  /\ Closes
  /\ call' = [call EXCEPT ![r] = NoCall]
  /\ UNCHANGED <<worldVars, fullFor, asked, cosBreach>>

\* The response came, and its body breaks off.
BodyFails(r) ==
  /\ call[r].pc = "sent" /\ reachable
  /\ call[r].op = "get"
  /\ Closes
  /\ FailedCall(r)
  /\ UNCHANGED <<worldVars, fullFor, asked, cosBreach>>

\* noteWrite: a write that is refused for the quota marks the bucket full for a
\* while, one that succeeds clears the mark.
NoteWrite(r) ==
  /\ call[r].pc = "sent" /\ reachable
  /\ call[r].op = "write"
  /\ Closes
  /\ fullFor' = IF room THEN 0 ELSE BucketFullFor
  /\ call' = [call EXCEPT ![r] = NoCall]
  /\ UNCHANGED <<worldVars, asked, cosBreach>>

\* recordFailure.  A request may fail for an outage that is over.
RecordFailure(r) ==
  LET opens == ~circuit.open /\ circuit.fails + 1 >= FailureThreshold
  IN  /\ call[r].pc = "sent" /\ call[r].dead
      /\ circuit' = [open |-> circuit.open \/ opens,
                     fails |-> IF circuit.fails < FailureThreshold THEN circuit.fails + 1 ELSE circuit.fails,
                     sinceProbe |-> IF opens THEN 0 ELSE circuit.sinceProbe]
      /\ cosBreach' = cosBreach \union (IF opens /\ reachable THEN {"late"} ELSE {})
      /\ FailedCall(r)
      /\ UNCHANGED <<worldVars, fullFor, asked>>

\* A request its caller gives up on says nothing about the store, also when it was
\* the probe.
Cancelled(r) ==
  /\ call[r].pc \in {"sent", "backoff"}
  /\ call' = [call EXCEPT ![r] = NoCall]
  /\ cosBreach' = cosBreach \union (IF call[r].probe /\ circuit.open THEN {"cancelled"} ELSE {})
  /\ UNCHANGED <<circuit, worldVars, fullFor, asked>>

-----------------------------------------------------------------------------
\* The store goes away or comes back; requests under way are lost with it.
Outage ==
  /\ outages < MaxOutages
  /\ outages' = outages + 1
  /\ reachable' = ~reachable
  /\ upFor' = 0
  /\ call' = [r \in Calls |-> [call[r] EXCEPT !.dead = call[r].pc = "sent"]]
  /\ UNCHANGED <<circuit, room, roomFor, fullFor, asked, cosBreach>>

QuotaChanges ==
  /\ outages < MaxOutages
  /\ outages' = outages + 1
  /\ room' = ~room
  /\ roomFor' = 0
  /\ UNCHANGED <<circuit, reachable, upFor, fullFor, call, asked, cosBreach>>

CosTick ==
  /\ circuit.open => asked
  /\ \A r \in Calls : call[r].pc = "sent" =>
       call[r].age < IF call[r].dead THEN RequestTimeout ELSE 1
  /\ circuit' = [circuit EXCEPT !.sinceProbe = Later(@)]
  /\ upFor' = IF reachable THEN Later(upFor) ELSE 0
  /\ roomFor' = IF room THEN Later(roomFor) ELSE 0
  /\ fullFor' = IF fullFor = 0 THEN 0 ELSE fullFor - 1
  /\ call' = [r \in Calls |-> [call[r] EXCEPT !.age = IF call[r].pc = "sent" THEN @ + 1 ELSE @]]
  /\ asked' = FALSE
  /\ UNCHANGED <<reachable, room, outages, cosBreach>>

CosNext ==
  \/ \E r \in Calls :
       \/ \E op \in Ops : Send(r, op)
       \/ Retry(r) \/ Answers(r) \/ BodyFails(r) \/ NoteWrite(r) \/ RecordFailure(r) \/ Cancelled(r)
  \/ Outage \/ QuotaChanges \/ CosTick

CosSpec == CosInit /\ [][CosNext]_cosVars

-----------------------------------------------------------------------------
\* The gateway stops refusing requests soon after the store is back: an open
\* circuit closes within a probe interval and the time of an answer, and the mark
\* of a full bucket lapses after its time, also when nothing is left to retry.
RefusalsEnd ==
  cosBreach = {} =>
    /\ circuit.open /\ reachable => upFor <= ProbeInterval + 1
    /\ fullFor > 0 /\ room => roomFor <= BucketFullFor

=============================================================================
