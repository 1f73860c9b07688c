----------------------------- MODULE MCJobStore -----------------------------
(***************************************************************************)
(* Instances of JobStore for TLC.                                          *)
(***************************************************************************)
EXTENDS JobStore

CONSTANTS c1, c2, c3, d1

J(n, f) == [name |-> n, file |-> f]
MCName == {"a", "b", "c"}
MCFile == {"f", "g", "h"}
\* Three jobs that live together and one that clashes with two of them.
MCJob == {J("a", "f"), J("b", "g"), J("c", "h"), J("c", "f")}
\* The same without the clash.
MCPlainJob == {J("a", "f"), J("b", "g"), J("c", "h")}
\* Two jobs and one that clashes with both, for the runs with the most processes.
MCFewJobs == {J("a", "f"), J("b", "g"), J("b", "f")}
TwoJobs == {<<J("a", "f"), J("b", "g")>>}
FewTables == {<<>>, <<J("a", "f")>>, <<J("a", "f"), J("b", "g")>>}
NoTable == {<<>>}
=============================================================================
