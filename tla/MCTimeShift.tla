---------------------------- MODULE MCTimeShift ----------------------------
(***************************************************************************)
(* An instance of TimeShift, and so of Resources, for TLC.                 *)
(***************************************************************************)
EXTENDS TimeShift, TLC

CONSTANTS p1, p2, j1, j2

S(n, r, p) == [name |-> n, repo |-> r, pid |-> p]

\* One service, or one that runs and one that does not.
MCProjects == {<<S("a", "r1", p1)>>, <<S("a", "r1", p1), S("b", "r2", NoPid)>>}

\* 0.29 of a core, and 0.01, in hundredths; cores * 100000 in double and in float.
MCCpu == {29, 1}
MCQuota == [c \in MCCpu |-> IF c = 29 THEN 28999 ELSE 999]
MCFileCpu == [c \in MCCpu |-> IF c = 29 THEN 29000 ELSE 1000]

\* No step looks into a table of jobs but to see whether it is empty.
JobsSymmetry == Permutations({j1, j2})
=============================================================================
