--------------------------- MODULE MCDaemonControl ---------------------------
(***************************************************************************)
(* Instances of DaemonControl for TLC.                                     *)
(***************************************************************************)
EXTENDS DaemonControl

CONSTANTS p1, p2, p3

\* What is left of a pid when a digit is lost is a pid too, and here always
\* p3, which the machine may give to anybody.
MCFirst(p) == p3
MCRest(p) == p3
=============================================================================
