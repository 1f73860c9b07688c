----------------------------- MODULE MCJobDaemon -----------------------------
(***************************************************************************)
(* Instances of JobDaemon for TLC.                                         *)
(***************************************************************************)
EXTENDS JobDaemon

CONSTANTS j1, j2

MCInterval == [j \in {j1, j2} |-> IF j = j1 THEN 1 ELSE 2]
MCOne == <<j2>>
MCTwo == <<j2, j1>>
=============================================================================
