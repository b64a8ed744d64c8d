----------------------------- MODULE MCWriteBack -----------------------------
(***************************************************************************)
(* WriteBack for TLC: clients and workers are interchangeable.             *)
(***************************************************************************)
EXTENDS WriteBack, TLC

Symmetry == Permutations(Clients) \union Permutations(Workers)

\* The properties speak of intact paths and breach only grows, so a state
\* without an intact path has nothing left to check after it.
SomeIntact == \E p \in Paths : Intact(p)

=============================================================================
