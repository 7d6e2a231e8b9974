------------------------------ MODULE GameProofs ------------------------------
(***************************************************************************)
(* Proofs about module Game.  The invariant that carries them is           *)
(* GameInvariant: neither "the winner matches the board" nor "a game in    *)
(* progress is undecided" is inductive alone, because game_apply_move      *)
(* only looks at the lines through the last move and at the diagonals.     *)
(***************************************************************************)
EXTENDS Game, FiniteSetTheorems, TLAPS

GameInvariant ==
    /\ TypeOK
    /\ OverIffNoTurn
    /\ InProgressUndecided
    /\ WinnerMatchesBoard

-------------------------------------------------------------------------------
\* The geometry of the board.

\* The row a space lies on, as computed by move->space / 3.
LEMMA RowIs ==
    ASSUME NEW s \in Space
    PROVE  Row(s) = IF s <= 3 THEN {1,2,3} ELSE IF s <= 6 THEN {4,5,6} ELSE {7,8,9}
  <1>1. \A r \in Space : (r - 1) \div 3 = IF r <= 3 THEN 0 ELSE IF r <= 6 THEN 1 ELSE 2
    BY SMT DEF Space
  <1>2. \A r \in Space : r \in Row(s) <=> (r - 1) \div 3 = (s - 1) \div 3
    BY DEF Row
  <1>3. Row(s) \subseteq Space
    BY DEF Row
  <1> QED
    BY <1>1, <1>2, <1>3, SMT DEF Space

\* The column a space lies on, as computed by move->space % 3.
LEMMA ColumnIs ==
    ASSUME NEW s \in Space
    PROVE  Column(s) = IF s \in {1,4,7} THEN {1,4,7}
                       ELSE IF s \in {2,5,8} THEN {2,5,8} ELSE {3,6,9}
  <1>1. \A r \in Space : (r - 1) % 3 = IF r \in {1,4,7} THEN 0
                                       ELSE IF r \in {2,5,8} THEN 1 ELSE 2
    BY SMT DEF Space
  <1>2. \A r \in Space : r \in Column(s) <=> (r - 1) % 3 = (s - 1) % 3
    BY DEF Column
  <1>3. Column(s) \subseteq Space
    BY DEF Column
  <1> QED
    BY <1>1, <1>2, <1>3, SMT DEF Space

\* Every winning line through a space is among the lines that
\* game_apply_move looks at after a move there.
LEMMA LineThroughIsSeen ==
    ASSUME NEW s \in Space, NEW line \in WinningLines, s \in line
    PROVE  \E i \in 1..4 : line = LinesAfter(s)[i]
  <1>1. line \in {Row(s), Column(s), Diagonal, AntiDiagonal}
    BY RowIs, ColumnIs, SMT DEF WinningLines, Space, Diagonal, AntiDiagonal
  <1>2. /\ LinesAfter(s)[1] = Row(s)   /\ LinesAfter(s)[2] = Column(s)
        /\ LinesAfter(s)[3] = Diagonal /\ LinesAfter(s)[4] = AntiDiagonal
    BY DEF LinesAfter
  <1> QED
    BY <1>1, <1>2, SMT

\* Conversely it looks at nothing but winning lines.
LEMMA LinesAfterAreWinning ==
    ASSUME NEW s \in Space, NEW i \in 1..4
    PROVE  LinesAfter(s)[i] \in WinningLines
  <1>1. /\ Row(s) \in WinningLines   /\ Column(s) \in WinningLines
        /\ Diagonal \in WinningLines /\ AntiDiagonal \in WinningLines
    BY RowIs, ColumnIs, SMT DEF WinningLines, Diagonal, AntiDiagonal
  <1>2. i = 1 \/ i = 2 \/ i = 3 \/ i = 4
    BY SMT
  <1> QED
    BY <1>1, <1>2 DEF LinesAfter

\* On a board without a complete line, a piece placed on s can complete only
\* lines through s, and only with the placed piece.
LEMMA PlacedPieceCompletes ==
    ASSUME NEW b \in Board, NEW s \in Space, NEW placed \in Piece,
           \A piece \in Piece : ~HasLine(b, piece),
           NEW piece \in Piece, NEW line \in WinningLines,
           Holds([b EXCEPT ![s] = placed], line, piece)
    PROVE  piece = placed /\ s \in line
  <1>1. line \subseteq Space
    BY SMT DEF WinningLines, Space
  <1>2. s \in line
    <2>1. SUFFICES ASSUME s \notin line PROVE FALSE
      OBVIOUS
    <2>2. Holds(b, line, piece)
      BY <1>1, <2>1 DEF Holds, Board
    <2> QED
      BY <2>2 DEF HasLine
  <1>3. [b EXCEPT ![s] = placed][s] = placed
    BY DEF Board
  <1> QED
    BY <1>2, <1>3 DEF Holds

-------------------------------------------------------------------------------
\* The invariant holds of a fresh game.
LEMMA InitInvariant == Init => GameInvariant
  <1> SUFFICES ASSUME Init PROVE GameInvariant
    OBVIOUS
  <1>1. TypeOK
    BY DEF Init, TypeOK, Board, GameRole, PlayerRole, FIRST_PLAYER_ROLE, NULL_ROLE
  <1>2. OverIffNoTurn
    BY DEF Init, OverIffNoTurn, FIRST_PLAYER_ROLE, NULL_ROLE
  <1>3. \A piece \in Piece : ~HasLine(state, piece)
    <2>1. \A line \in WinningLines : line \subseteq Space /\ \E s \in Space : s \in line
      BY SMT DEF WinningLines, Space
    <2>2. \A s \in Space, piece \in Piece : state[s] # piece
      BY DEF Init, Piece, EMPTY
    <2> QED
      BY <2>1, <2>2 DEF HasLine, Holds
  <1>4. ~Full(state)
    BY DEF Init, Full, Space
  <1> QED
    BY <1>1, <1>2, <1>3, <1>4 DEF Init, GameInvariant, InProgressUndecided, WinnerMatchesBoard

\* A move or a resignation of either thread preserves the invariant.
LEMMA NextInvariant == GameInvariant /\ [Next]_vars => GameInvariant'
  <1> SUFFICES ASSUME GameInvariant, [Next]_vars PROVE GameInvariant'
    OBVIOUS
  <1> USE DEF GameInvariant
  <1>1. ASSUME NEW role \in PlayerRole, NEW s \in Space, ApplyMove(role, s)
        PROVE  GameInvariant'
    <2> DEFINE placed == PieceOf(role)
    <2>1. /\ state \in Board
          /\ state' = [state EXCEPT ![s] = placed]
          /\ placed \in Piece
          /\ state' \in Board
      BY <1>1 DEF ApplyMove, TypeOK, Board, Piece, PieceOf
    <2>2. ~isOver /\ \A piece \in Piece : ~HasLine(state, piece)
      BY <1>1 DEF ApplyMove, OverIffNoTurn, InProgressUndecided, PlayerRole,
                  NULL_ROLE, FIRST_PLAYER_ROLE, SECOND_PLAYER_ROLE
    \* Only the mover can have a line now.
    <2>3. ASSUME NEW piece \in Piece, NEW line \in WinningLines, Holds(state', line, piece)
          PROVE  piece = placed /\ s \in line
      BY <2>1, <2>2, <2>3, PlacedPieceCompletes
    <2>4. ASSUME NEW piece \in Piece, HasLine(state', piece)
          PROVE  \E i \in 1..4 : Complete(state', LinesAfter(s)[i])
      <3>1. PICK line \in WinningLines : Holds(state', line, piece)
        BY <2>4 DEF HasLine
      <3>2. PICK i \in 1..4 : line = LinesAfter(s)[i]
        BY <3>1, <2>3, LineThroughIsSeen
      <3> QED
        BY <3>1, <3>2 DEF Complete
    <2>5. CASE Win(state', s)
      <3>1. PICK i \in 1..4, piece \in Piece :
                /\ Holds(state', LinesAfter(s)[i], piece)
                /\ winner' = RoleOf(piece)
        BY <2>5 DEF Win
      <3>2. piece = placed
        BY <3>1, <2>3, LinesAfterAreWinning
      <3>3. isOver' = TRUE /\ turn' = NULL_ROLE
        BY <2>5 DEF Win
      <3>4. winner' \in PlayerRole
        BY <3>1 DEF RoleOf, PlayerRole
      <3>5. \A q \in Piece : HasLine(state', q) => winner' = RoleOf(q)
        BY <2>3, <3>1, <3>2 DEF HasLine
      <3>6. TypeOK' /\ OverIffNoTurn'
        BY <2>1, <3>3, <3>4 DEF TypeOK, OverIffNoTurn, GameRole
      <3>7. InProgressUndecided'
        BY <3>3 DEF InProgressUndecided
      <3>8. WinnerMatchesBoard'
        BY <3>3, <3>4, <3>5 DEF WinnerMatchesBoard, PlayerRole, NULL_ROLE,
                                FIRST_PLAYER_ROLE, SECOND_PLAYER_ROLE
      <3> QED
        BY <3>6, <3>7, <3>8
    <2>6. CASE Draw(state', s)
      <3>1. \A piece \in Piece : ~HasLine(state', piece)
        BY <2>4, <2>6 DEF Draw
      <3>2. isOver' = TRUE /\ turn' = NULL_ROLE /\ winner' = NULL_ROLE /\ Full(state')
        BY <2>6 DEF Draw
      <3>3. TypeOK' /\ OverIffNoTurn'
        BY <2>1, <3>2 DEF TypeOK, OverIffNoTurn, GameRole
      <3> QED
        BY <3>1, <3>2, <3>3 DEF InProgressUndecided, WinnerMatchesBoard
    <2>7. CASE Continue(state', s, role)
      <3>1. \A piece \in Piece : ~HasLine(state', piece)
        BY <2>4, <2>7 DEF Continue
      <3>2. /\ turn' = Opponent(role) /\ isOver' = isOver /\ winner' = winner
            /\ ~Full(state')
        BY <2>7 DEF Continue
      <3>3. turn' \in PlayerRole
        BY <3>2 DEF Opponent, PlayerRole
      <3>4. TypeOK' /\ OverIffNoTurn'
        BY <2>1, <2>2, <3>2, <3>3 DEF TypeOK, OverIffNoTurn, GameRole, PlayerRole,
                     NULL_ROLE, FIRST_PLAYER_ROLE, SECOND_PLAYER_ROLE
      <3> QED
        BY <2>2, <3>1, <3>2, <3>4 DEF InProgressUndecided, WinnerMatchesBoard
    <2> QED
      BY <1>1, <2>5, <2>6, <2>7 DEF ApplyMove
  <1>2. ASSUME NEW role \in PlayerRole, Resign(role)
        PROVE  GameInvariant'
    <2>1. /\ ~isOver /\ isOver' = TRUE /\ turn' = NULL_ROLE
          /\ winner' = Opponent(role) /\ state' = state
      BY <1>2 DEF Resign
    <2>2. winner' \in PlayerRole
      BY <2>1 DEF Opponent, PlayerRole
    <2>3. \A piece \in Piece : ~HasLine(state', piece)
      BY <2>1 DEF InProgressUndecided
    <2>4. TypeOK' /\ OverIffNoTurn'
      BY <2>1, <2>2 DEF TypeOK, OverIffNoTurn, GameRole
    <2>5. winner' # NULL_ROLE
      BY <2>2 DEF PlayerRole, NULL_ROLE, FIRST_PLAYER_ROLE, SECOND_PLAYER_ROLE
    <2> QED
      BY <2>1, <2>3, <2>4, <2>5 DEF InProgressUndecided, WinnerMatchesBoard
  <1>3. CASE UNCHANGED vars
    BY <1>3 DEF vars, TypeOK, OverIffNoTurn, InProgressUndecided, WinnerMatchesBoard,
                HasLine, Holds, Full
  <1> QED
    BY <1>1, <1>2, <1>3 DEF Next

\* Every reachable state of the game satisfies the invariant.
THEOREM InvariantHolds == Spec => []GameInvariant
  BY InitInvariant, NextInvariant, PTL DEF Spec

\* Type correctness of struct game's fields.
THEOREM TypeCorrect == Spec => []TypeOK
  <1>1. GameInvariant => TypeOK
    BY DEF GameInvariant
  <1> QED
    BY <1>1, InvariantHolds, PTL

\* game_apply_move never overlooks the end of a game: a game in progress has
\* no complete line and a free space.
THEOREM InProgressIsUndecided == Spec => []InProgressUndecided
  <1>1. GameInvariant => InProgressUndecided
    BY DEF GameInvariant
  <1> QED
    BY <1>1, InvariantHolds, PTL

\* game_get_winner agrees with the board whenever the game is over.
THEOREM WinnerIsRight == Spec => []WinnerMatchesBoard
  <1>1. GameInvariant => WinnerMatchesBoard
    BY DEF GameInvariant
  <1> QED
    BY <1>1, InvariantHolds, PTL

\* Nobody is on turn exactly when the game is over, the fact that spares
\* game_apply_move a test of isOver.
THEOREM OverMeansNoTurn == Spec => []OverIffNoTurn
  <1>1. GameInvariant => OverIffNoTurn
    BY DEF GameInvariant
  <1> QED
    BY <1>1, InvariantHolds, PTL

\* A piece placed on an empty space raises the count of its own kind by one
\* and leaves the other's.
LEMMA PlacedPieceCounts ==
    ASSUME TypeOK, NEW role \in PlayerRole, NEW s \in Space, ApplyMove(role, s),
           NEW piece \in Piece
    PROVE  /\ Count(piece) \in Nat
           /\ Count(piece)' = IF piece = PieceOf(role) THEN Count(piece) + 1 ELSE Count(piece)
  <1> DEFINE before == {r \in Space : state[r] = piece}
             after  == {r \in Space : state'[r] = piece}
  <1>1. IsFiniteSet(before)
    <2>1. IsFiniteSet(1..9)
      BY FS_Interval, 1 \in Int, 9 \in Int
    <2>2. before \in SUBSET (1..9)
      BY DEF Space
    <2> QED
      BY <2>1, <2>2, FS_Subset
  <1>2. /\ state \in Board /\ state[s] = EMPTY
        /\ state' = [state EXCEPT ![s] = PieceOf(role)]
    BY DEF ApplyMove, TypeOK
  <1>3. s \notin before
    BY <1>2 DEF Piece, EMPTY
  <1>4. after = IF piece = PieceOf(role) THEN before \cup {s} ELSE before
    BY <1>2, <1>3 DEF Board
  <1>5. Cardinality(before) \in Nat /\ Cardinality(before \cup {s}) = Cardinality(before) + 1
    BY <1>1, <1>3, FS_CardinalityType, FS_AddElement
  <1>6. Count(piece) = Cardinality(before) /\ Count(piece)' = Cardinality(after)
    BY DEF Count
  <1> QED
    BY <1>4, <1>5, <1>6

\* The players alternate: the side on turn has not placed more pieces than
\* the other, and the counts differ by one at most.
THEOREM PlayersAlternate == Spec => []TurnMatchesPieces
  <1>1. Init => TurnMatchesPieces
    <2> SUFFICES ASSUME Init PROVE TurnMatchesPieces
      OBVIOUS
    <2>1. {s \in Space : state[s] = "X"} = {s \in Space : state[s] = "O"}
      BY DEF Init, EMPTY
    <2> QED
      BY <2>1 DEF Count, Init, TurnMatchesPieces, FIRST_PLAYER_ROLE, SECOND_PLAYER_ROLE
  <1>2. TypeOK /\ TurnMatchesPieces /\ [Next]_vars => TurnMatchesPieces'
    <2> SUFFICES ASSUME TypeOK, TurnMatchesPieces, [Next]_vars PROVE TurnMatchesPieces'
      OBVIOUS
    <2>1. ASSUME NEW role \in PlayerRole, NEW s \in Space, ApplyMove(role, s)
          PROVE  TurnMatchesPieces'
      <3>1. CASE turn' = NULL_ROLE
        BY <3>1 DEF TurnMatchesPieces, NULL_ROLE, FIRST_PLAYER_ROLE, SECOND_PLAYER_ROLE
      <3>2. CASE turn' = Opponent(role)
        <4>1. /\ Count("X") \in Nat /\ Count("O") \in Nat
              /\ Count("X")' = IF "X" = PieceOf(role) THEN Count("X") + 1 ELSE Count("X")
              /\ Count("O")' = IF "O" = PieceOf(role) THEN Count("O") + 1 ELSE Count("O")
          BY <2>1, PlacedPieceCounts DEF Piece
        <4>2. turn = role
          BY <2>1 DEF ApplyMove
        <4>3. CASE role = FIRST_PLAYER_ROLE
          <5>1. Count("X") = Count("O") /\ turn' = SECOND_PLAYER_ROLE
            BY <3>2, <4>2, <4>3 DEF TurnMatchesPieces, Opponent
          <5>2. Count("X")' = Count("X") + 1 /\ Count("O")' = Count("O")
            BY <4>1, <4>3 DEF PieceOf
          <5> QED
            BY <5>1, <5>2 DEF TurnMatchesPieces, FIRST_PLAYER_ROLE, SECOND_PLAYER_ROLE
        <4>4. CASE role = SECOND_PLAYER_ROLE
          <5>1. Count("X") = Count("O") + 1 /\ turn' = FIRST_PLAYER_ROLE
            BY <3>2, <4>2, <4>4 DEF TurnMatchesPieces, Opponent, FIRST_PLAYER_ROLE,
                                    SECOND_PLAYER_ROLE
          <5>2. Count("X")' = Count("X") /\ Count("O")' = Count("O") + 1
            BY <4>1, <4>4 DEF PieceOf, FIRST_PLAYER_ROLE, SECOND_PLAYER_ROLE
          <5> QED
            BY <5>1, <5>2 DEF TurnMatchesPieces, FIRST_PLAYER_ROLE, SECOND_PLAYER_ROLE
        <4> QED
          BY <4>3, <4>4 DEF PlayerRole
      <3> QED
        BY <2>1, <3>1, <3>2 DEF ApplyMove, Win, Draw, Continue
    <2>2. ASSUME NEW role \in PlayerRole, Resign(role)
          PROVE  TurnMatchesPieces'
      BY <2>2 DEF Resign, TurnMatchesPieces, NULL_ROLE, FIRST_PLAYER_ROLE, SECOND_PLAYER_ROLE
    <2>3. CASE UNCHANGED vars
      BY <2>3 DEF vars, TurnMatchesPieces, Count
    <2> QED
      BY <2>1, <2>2, <2>3 DEF Next
  <1> QED
    BY <1>1, <1>2, TypeCorrect, PTL DEF Spec

\* No call changes a game that is over; game_apply_move tests only the turn,
\* so this rests on OverIffNoTurn.
THEOREM OverStaysOver == Spec => OverIsFinal
  <1>1. GameInvariant /\ [Next]_vars => [~isOver]_vars
    <2> SUFFICES ASSUME GameInvariant, Next PROVE ~isOver
      OBVIOUS
    <2>1. ASSUME NEW role \in PlayerRole, NEW s \in Space, ApplyMove(role, s) PROVE ~isOver
      BY <2>1 DEF ApplyMove, GameInvariant, OverIffNoTurn, PlayerRole,
                  NULL_ROLE, FIRST_PLAYER_ROLE, SECOND_PLAYER_ROLE
    <2>2. ASSUME NEW role \in PlayerRole, Resign(role) PROVE ~isOver
      BY <2>2 DEF Resign
    <2> QED
      BY <2>1, <2>2 DEF Next
  <1> QED
    BY <1>1, InvariantHolds, PTL DEF Spec, OverIsFinal

-------------------------------------------------------------------------------
\* Every step of the game is a step of the abstract game, or changes nothing
\* that the rest of the server can see.
LEMMA StepRefines == GameInvariant /\ [Next]_vars =>
    [Abstract!Next]_([turn |-> turn, isOver |-> isOver, winner |-> winner])
  <1> DEFINE o == [turn |-> turn, isOver |-> isOver, winner |-> winner]
  <1> SUFFICES ASSUME GameInvariant, [Next]_vars PROVE [Abstract!Next]_o
    OBVIOUS
  <1>1. ASSUME NEW role \in PlayerRole, NEW s \in Space, ApplyMove(role, s)
        PROVE  Abstract!Move(role)
    <2>1. turn = role /\ o.turn = role
      BY <1>1 DEF ApplyMove
    <2>2. isOver = FALSE
      BY <2>1 DEF GameInvariant, OverIffNoTurn, TypeOK, PlayerRole,
                  NULL_ROLE, FIRST_PLAYER_ROLE, SECOND_PLAYER_ROLE
    <2>3. state' = [state EXCEPT ![s] = PieceOf(role)] /\ state' \in Board
      BY <1>1 DEF ApplyMove, GameInvariant, TypeOK, Board, Piece, PieceOf
    <2>4. CASE Win(state', s)
      <3>1. PICK i \in 1..4, piece \in Piece :
                /\ Holds(state', LinesAfter(s)[i], piece)
                /\ winner' = RoleOf(piece) /\ isOver' = TRUE /\ turn' = NULL_ROLE
        BY <2>4 DEF Win
      <3>2. PieceOf(role) \in Piece
        BY DEF Piece, PieceOf
      <3>3. piece = PieceOf(role)
        BY <2>2, <2>3, <3>1, <3>2, PlacedPieceCompletes, LinesAfterAreWinning
           DEF GameInvariant, TypeOK, InProgressUndecided
      <3>4. winner' = role
        BY <3>1, <3>3 DEF RoleOf, PieceOf, PlayerRole
      <3>5. o' = Abstract!Ended(role)
        BY <3>1, <3>4 DEF Abstract!Ended, Abstract!NULL_ROLE, NULL_ROLE
      <3> QED
        BY <2>1, <3>5 DEF Abstract!Move, Abstract!AfterMove
    <2>5. CASE Draw(state', s)
      BY <2>1, <2>5 DEF Draw, Abstract!Move, Abstract!AfterMove, Abstract!Ended,
                        Abstract!NULL_ROLE, NULL_ROLE
    <2>6. CASE Continue(state', s, role)
      <3>1. o' = [turn |-> Abstract!Opponent(role), isOver |-> o.isOver, winner |-> o.winner]
        BY <2>6 DEF Continue, Abstract!Opponent, Opponent, FIRST_PLAYER_ROLE,
                    SECOND_PLAYER_ROLE, Abstract!FIRST_PLAYER_ROLE, Abstract!SECOND_PLAYER_ROLE
      <3> QED
        BY <2>1, <3>1 DEF Abstract!Move, Abstract!AfterMove
    <2> QED
      BY <1>1, <2>4, <2>5, <2>6 DEF ApplyMove
  <1>2. ASSUME NEW role \in PlayerRole, Resign(role)
        PROVE  Abstract!Resign(role)
    BY <1>2 DEF Resign, Abstract!Resign, Abstract!AfterResign, Abstract!Ended,
                Abstract!Opponent, Opponent, NULL_ROLE, Abstract!NULL_ROLE, FIRST_PLAYER_ROLE,
                SECOND_PLAYER_ROLE, Abstract!FIRST_PLAYER_ROLE, Abstract!SECOND_PLAYER_ROLE
  <1>3. CASE UNCHANGED vars
    BY <1>3 DEF vars
  <1>4. Abstract!PlayerRole = PlayerRole
    BY DEF PlayerRole, Abstract!PlayerRole, FIRST_PLAYER_ROLE, SECOND_PLAYER_ROLE,
           Abstract!FIRST_PLAYER_ROLE, Abstract!SECOND_PLAYER_ROLE
  <1> QED
    BY <1>1, <1>2, <1>3, <1>4 DEF Next, Abstract!Next

\* game.c implements the abstract game.
THEOREM Refinement == Spec => RefinesGameOutcome
  <1>1. Init => Abstract!Init
    BY DEF Init, Abstract!Init, Abstract!NewOutcome, Abstract!NULL_ROLE, NULL_ROLE,
           Abstract!FIRST_PLAYER_ROLE, FIRST_PLAYER_ROLE
  <1> QED
    BY <1>1, StepRefines, InvariantHolds, PTL DEF Spec, RefinesGameOutcome, Abstract!Spec
===============================================================================
