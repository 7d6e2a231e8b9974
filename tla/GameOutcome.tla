----------------------------- MODULE GameOutcome -----------------------------
(***************************************************************************)
(* The abstract specification of one game: a turn passes back and forth    *)
(* between the two roles until a move or a resignation ends the game.      *)
(***************************************************************************)
EXTENDS GameRules

VARIABLE outcome

Init == outcome = NewOutcome

Move(role)   == outcome' \in AfterMove(outcome, role)
Resign(role) == ~outcome.isOver /\ outcome' = AfterResign(outcome, role)

Next == \E role \in PlayerRole : Move(role) \/ Resign(role)

Spec == Init /\ [][Next]_outcome
==============================================================================
