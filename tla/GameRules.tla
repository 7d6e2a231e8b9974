------------------------------ MODULE GameRules ------------------------------
(***************************************************************************)
(* What the rest of the server can see of a GAME object                    *)
(* (hw5/src/game.c): whose turn it is, whether it is over and who won.     *)
(* The board is abstracted away; module Game keeps it, and shows that      *)
(* every call of game.c is one of the steps allowed here.                  *)
(***************************************************************************)
EXTENDS Integers

\* enum game_role
NULL_ROLE          == 0
FIRST_PLAYER_ROLE  == 1
SECOND_PLAYER_ROLE == 2
PlayerRole == {FIRST_PLAYER_ROLE, SECOND_PLAYER_ROLE}
GameRole   == PlayerRole \cup {NULL_ROLE}

\* Mutant of Opponent: "the next role" without wrapping around.
OpponentNoWrap(role) == role + 1

Opponent(role) == IF role = FIRST_PLAYER_ROLE THEN SECOND_PLAYER_ROLE
                                              ELSE FIRST_PLAYER_ROLE

\* The visible part of struct game.
Outcome == [turn : GameRole, isOver : BOOLEAN, winner : GameRole]

\* game_create
NewOutcome == [turn |-> FIRST_PLAYER_ROLE, isOver |-> FALSE, winner |-> NULL_ROLE]

Ended(winner) == [turn |-> NULL_ROLE, isOver |-> TRUE, winner |-> winner]

\* The outcomes game_apply_move can leave when it returns 0; the set is
\* empty when the mover is not on turn, in particular once the game is over.
AfterMove(o, role) ==
    IF o.turn = role
    THEN {[turn |-> Opponent(role), isOver |-> o.isOver, winner |-> o.winner],
          Ended(role), Ended(NULL_ROLE)}
    ELSE {}

\* game_resign: it returns -1 and changes nothing when the game is over.
AfterResign(o, role) == IF o.isOver THEN o ELSE Ended(Opponent(role))
==============================================================================
