CONSTANT MaxCrashes = 1
SPECIFICATION FairSpec
INVARIANTS TypeOK TerminalIsWhole RowTells OutcomeSurvivesRestart
PROPERTIES RowMovesForward StreamEnds
CHECK_DEADLOCK FALSE
