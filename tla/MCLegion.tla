------------------------------- MODULE MCLegion -------------------------------
(***************************************************************************)
(* Instances of Legion for TLC.                                            *)
(***************************************************************************)
EXTENDS Legion, TLC

CONSTANTS d1, d2

\* Two daemons: one may end while the other is started or stopped, and one
\* may be dropped by the unregistration of the other.
TwoDaemons == {d1, d2}
===============================================================================
