-------------------------------- MODULE MCJeux --------------------------------
(***************************************************************************)
(* Instances of Jeux for TLC.                                              *)
(***************************************************************************)
EXTENDS Jeux, TLC

CONSTANTS c1, c2, c3, v1, v2

TwoClients == {c1, c2}
OneInv == {v1}
TwoInvs == {v1, v2}

Symmetry == Permutations(Clients) \cup Permutations(Invs)
===============================================================================
