------------------------------- MODULE Sublists -------------------------------
(***************************************************************************)
(* Keeping some entries of a sequence and dropping the others, in order:   *)
(* what the loops of mrn that skip a record leave.  The kept entries are   *)
(* named by their places, so that what is kept can be counted and proved   *)
(* about; SelectSeq is opaque to the prover.                               *)
(***************************************************************************)
EXTENDS Naturals, Sequences, FiniteSets

\* How many of the places P are i or before it.
UpTo(P, i) == Cardinality({j \in P : j <= i})

\* The k-th of the places P.
Place(P, k) == CHOOSE i \in P : UpTo(P, i) = k

\* The entries of s at the places P.
Picked(s, P) == [k \in 1..Cardinality(P) |-> s[Place(P, k)]]
=============================================================================
