----------------------------- MODULE MCServices -----------------------------
(***************************************************************************)
(* An instance of Services for TLC.                                        *)
(***************************************************************************)
EXTENDS Services

CONSTANTS p1, p2

S(n, r, p) == [name |-> n, repo |-> r, pid |-> p]

\* No service yet, one that is stopped beside one that runs.
MCTables == {<<>>, <<S("a", "r1", NoPid), S("b", "r2", p1)>>}
=============================================================================
