---------------------------- MODULE ShareTable -----------------------------
(***************************************************************************)
(* The table of open files (internal/lock/share.go): under every key, the  *)
(* opens that hold it, with what each needs (access) and what each permits *)
(* the others (share).  Every method is one critical section of            *)
(* ShareTable.mu.                                                          *)
(***************************************************************************)
EXTENDS Naturals, FiniteSets

CONSTANTS
  Keys,             \* the names opens are recorded under
  Handles,          \* the opens: each has at most one entry
  MaxOpensPerFile

ASSUME ShareAssumption == MaxOpensPerFile \in Nat /\ IsFiniteSet(Handles)

Uses == {"read", "write", "delete"}

VARIABLES
  opens,            \* opens[k]: the handles with an entry under k
  access, share     \* access[h], share[h]: what the entry of h says

shareVars == <<opens, access, share>>

ShareTypeOK ==
  /\ opens \in [Keys -> SUBSET Handles]
  /\ access \in [Handles -> SUBSET Uses]
  /\ share \in [Handles -> SUBSET Uses]

ShareInit ==
  /\ opens = [k \in Keys |-> {}]
  /\ access = [h \in Handles |-> {}]
  /\ share = [h \in Handles |-> {}]

\* The handles with an entry.
Reserved == UNION {opens[k] : k \in Keys}

\* Mutant: only what the new open needs is compared.
ShareConflict_OneWay(needs, permits, g) == ~(needs \subseteq share[g])

\* conflicts: each open's access must be permitted by what the other shares.
ShareConflict(needs, permits, g) ==
  ~(needs \subseteq share[g]) \/ ~(access[g] \subseteq permits)

\* Where Acquire grants the open.
CanAcquire(k, needs, permits) ==
  /\ Cardinality(opens[k]) < MaxOpensPerFile
  /\ \A g \in opens[k] : ~ShareConflict(needs, permits, g)

Acquire(h, k, needs, permits) ==
  /\ CanAcquire(k, needs, permits)
  /\ opens' = [opens EXCEPT ![k] = @ \union {h}]
  /\ access' = [access EXCEPT ![h] = needs]
  /\ share' = [share EXCEPT ![h] = permits]

\* Release finds the entry where a Rename has moved it; a second one does nothing.
Release(h) ==
  /\ opens' = [k \in Keys |-> opens[k] \ {h}]
  /\ access' = [access EXCEPT ![h] = {}]
  /\ share' = [share EXCEPT ![h] = {}]

\* Rename moves the entries of a key to another one, whatever is there.
RenameOpens(k, l) ==
  /\ opens' = IF k = l THEN opens
              ELSE [opens EXCEPT ![k] = {}, ![l] = @ \union opens[k]]
  /\ UNCHANGED <<access, share>>

\* "each open's access must be permitted by what the other shares": no two opens
\* recorded under one key are in conflict.
SharesCompatible ==
  \A k \in Keys : \A g, h \in opens[k] :
     g # h => ~ShareConflict(access[h], share[h], g)

=============================================================================
