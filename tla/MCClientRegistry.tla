--------------------------- MODULE MCClientRegistry ---------------------------
(***************************************************************************)
(* Instances of ClientRegistry for TLC.                                    *)
(***************************************************************************)
EXTENDS ClientRegistry, TLC

CONSTANTS c1, c2, c3, n1, n2

\* Three clients for two slots: the table fills up, slots are reused and a
\* connection is refused.
ThreeClients == {c1, c2, c3}
TwoNames     == {n1, n2}

\* Two clients, for the liveness properties.
TwoClients == {c1, c2}

\* Neither Init nor Next distinguishes one client, or one name, from another.
Symmetry == Permutations(ThreeClients) \cup Permutations(TwoNames)
===============================================================================
