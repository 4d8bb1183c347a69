-------------------------- MODULE MCCollaborations --------------------------
(* Two companies, which may request, refuse and take up a collaboration again. *)
EXTENDS Collaborations, TLC

MCOpenings == {[rate |-> "low", currency |-> "x"]}

\* A new rate; the currency, asked for as it is, is not written.
MCUpdates == {[rate |-> "high", currency |-> "x"]}

\* The companies and the requests are interchangeable.
Symmetry == Permutations(Companies) \cup Permutations(Requests)
============================================================================
