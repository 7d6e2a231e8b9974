SPECIFICATION Spec
INVARIANTS TypeOK InProgressUndecided WinnerMatchesBoard TurnMatchesPieces
PROPERTIES OverIsFinal RefinesGameOutcome
CHECK_DEADLOCK FALSE
