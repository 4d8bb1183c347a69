---------------------------- MODULE Transactions ----------------------------
(***************************************************************************)
(* What the back-office services share: requests served at the same time,  *)
(* one database transaction each (READ COMMITTED), and the bookkeeping of  *)
(* stale reads.  A request is on a subject (a supplier, a rate's slot) and *)
(* is overtaken when another one commits on that subject after its first   *)
(* read; a subject is raced when an overtaken request commits on it.  Both *)
(* are history: the code knows nothing of them.                            *)
(***************************************************************************)
EXTENDS Integers, Sequences, FiniteSets

CONSTANT Requests     \* the requests being served at the same time

ASSUME RequestsAssumption == IsFiniteSet(Requests)

\* The open requests of a table after r ended and, if it wrote to the subject of
\* another, made that one's reads old.
AfterCommit(table, r, idle) ==
  [x \in Requests |->
     IF x = r THEN idle
     ELSE IF table[x].subject = table[r].subject THEN [table[x] EXCEPT !.overtaken = TRUE]
     ELSE table[x]]

RacedAfter(raced, q) == IF q.overtaken THEN raced \cup {q.subject} ELSE raced
============================================================================
