--------------------------------- MODULE Game ---------------------------------
(***************************************************************************)
(* The tic-tac-toe game of hw5/src/game.c.  Each of its functions is one   *)
(* critical section of game->mutex, so one action here.  The two service   *)
(* threads of the players call them in any order; a call that returns -1   *)
(* leaves the game as it was and is a stuttering step.                     *)
(***************************************************************************)
EXTENDS GameRules, FiniteSets

VARIABLES state,    \* game->state, the nine spaces numbered as in a move
          turn, isOver, winner

vars == <<state, turn, isOver, winner>>

Space == 1..9
Piece == {"X", "O"}
EMPTY == " "

PieceOf(role)  == IF role = FIRST_PLAYER_ROLE THEN "X" ELSE "O"
RoleOf(piece)  == IF piece = "X" THEN FIRST_PLAYER_ROLE ELSE SECOND_PLAYER_ROLE

Board == [Space -> Piece \cup {EMPTY}]

\* The line of spaces that shares the row, or the column, of a space, and the
\* two diagonals.
Row(s)    == {r \in Space : (r - 1) \div 3 = (s - 1) \div 3}
Column(s) == {r \in Space : (r - 1) % 3 = (s - 1) % 3}
Diagonal     == {1, 5, 9}
AntiDiagonal == {3, 5, 7}

\* Mutant of LinesAfter: the anti-diagonal is forgotten.
LinesAfterNoAntiDiagonal(s) == <<Row(s), Column(s), Diagonal, Diagonal>>

\* The lines game_apply_move looks at after a move to s, in its order: both
\* diagonals are looked at even when s is on neither.
LinesAfter(s) == <<Row(s), Column(s), Diagonal, AntiDiagonal>>

Holds(b, line, piece) == \A s \in line : b[s] = piece
Complete(b, line)     == \E piece \in Piece : Holds(b, line, piece)
Full(b)               == \A s \in Space : b[s] # EMPTY

-------------------------------------------------------------------------------
Init ==
    /\ state = [s \in Space |-> EMPTY]
    /\ turn = FIRST_PLAYER_ROLE
    /\ isOver = FALSE
    /\ winner = NULL_ROLE

\* The first complete line after a move to s decides the game for the owner
\* of its pieces, whoever moved.
Win(b, s) ==
    \E i \in 1..4, piece \in Piece :
        /\ Holds(b, LinesAfter(s)[i], piece)
        /\ \A j \in 1..(i - 1) : ~Complete(b, LinesAfter(s)[j])
        /\ winner' = RoleOf(piece)
        /\ isOver' = TRUE
        /\ turn' = NULL_ROLE

\* Mutant of Draw: the turn is not reset when the board fills up.
DrawKeepsTurn(b, s) ==
    /\ \A i \in 1..4 : ~Complete(b, LinesAfter(s)[i])
    /\ Full(b)
    /\ isOver' = TRUE
    /\ UNCHANGED <<winner, turn>>

\* Mutant of Draw: a full board is a draw, whatever its last move completed.
DrawWhenFull(b, s) ==
    /\ Full(b)
    /\ winner' = NULL_ROLE
    /\ isOver' = TRUE
    /\ turn' = NULL_ROLE

Draw(b, s) ==
    /\ \A i \in 1..4 : ~Complete(b, LinesAfter(s)[i])
    /\ Full(b)
    /\ winner' = NULL_ROLE
    /\ isOver' = TRUE
    /\ turn' = NULL_ROLE

Continue(b, s, role) ==
    /\ \A i \in 1..4 : ~Complete(b, LinesAfter(s)[i])
    /\ ~Full(b)
    /\ turn' = Opponent(role)
    /\ UNCHANGED <<isOver, winner>>

\* Mutant of ApplyMove: the mover is not compared with the turn.
ApplyMoveAnyTurn(role, s) ==
    /\ ~isOver
    /\ state[s] = EMPTY
    /\ state' = [state EXCEPT ![s] = PieceOf(role)]
    /\ \/ Win(state', s)
       \/ Draw(state', s)
       \/ Continue(state', s, role)

\* game_apply_move(game, move) of a player's own role.  The two early returns
\* are the guards; isOver is never consulted, only that nobody is on turn.
ApplyMove(role, s) ==
    /\ state[s] = EMPTY
    /\ turn = role
    /\ state' = [state EXCEPT ![s] = PieceOf(role)]
    /\ \/ Win(state', s)
       \/ Draw(state', s)
       \/ Continue(state', s, role)

\* Mutant of Resign: a finished game is not refused.
ResignAnyTime(role) ==
    /\ isOver' = TRUE
    /\ turn' = NULL_ROLE
    /\ winner' = Opponent(role)
    /\ UNCHANGED state

\* game_resign(game, role)
Resign(role) ==
    /\ ~isOver
    /\ isOver' = TRUE
    /\ turn' = NULL_ROLE
    /\ winner' = Opponent(role)
    /\ UNCHANGED state

Next == \E role \in PlayerRole : \/ \E s \in Space : ApplyMove(role, s)
                                 \/ Resign(role)

Spec == Init /\ [][Next]_vars

-------------------------------------------------------------------------------
TypeOK ==
    /\ state \in Board
    /\ turn \in GameRole
    /\ isOver \in BOOLEAN
    /\ winner \in GameRole

\* The eight lines of the board, as the rules of the game name them and not
\* as the code looks for them.
WinningLines == {{1,2,3}, {4,5,6}, {7,8,9}, {1,4,7}, {2,5,8}, {3,6,9},
                 {1,5,9}, {3,5,7}}
HasLine(b, piece) == \E line \in WinningLines : Holds(b, line, piece)

\* A game that is still in progress has no complete line on its board and an
\* empty space left: game_apply_move, which looks only at lines near the last
\* move, never overlooks the end of a game.
InProgressUndecided ==
    ~isOver => /\ \A piece \in Piece : ~HasLine(state, piece)
               /\ ~Full(state)

\* game_get_winner agrees with the board: a side with a line is the winner,
\* and a drawn game has a full board without any line.
WinnerMatchesBoard ==
    /\ \A piece \in Piece : HasLine(state, piece) => isOver /\ winner = RoleOf(piece)
    /\ isOver /\ winner = NULL_ROLE => Full(state)

\* Players alternate: X has placed as many pieces as O when X is on turn, and
\* one more when O is, whatever calls the two threads made.
Count(piece) == Cardinality({s \in Space : state[s] = piece})
TurnMatchesPieces ==
    /\ turn = FIRST_PLAYER_ROLE  => Count("X") = Count("O")
    /\ turn = SECOND_PLAYER_ROLE => Count("X") = Count("O") + 1

\* A game that is over never changes again: a late move or resignation of the
\* other thread (checked only through the turn, not through isOver) is refused.
OverIsFinal == [][~isOver]_vars

\* Nobody is on turn exactly when the game is over; this is what lets
\* game_apply_move do without a test of isOver.
OverIffNoTurn == isOver <=> turn = NULL_ROLE

\* Every call is a step of the abstract game the rest of the server sees.
Abstract == INSTANCE GameOutcome
                WITH outcome <- [turn |-> turn, isOver |-> isOver, winner |-> winner]
RefinesGameOutcome == Abstract!Spec
===============================================================================
