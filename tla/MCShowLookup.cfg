CONSTANTS
    c1 = c1
    c2 = c2
    Callers = {c1, c2}
    a = a
    b = b
    TmdbIDs = {a, b}
    MaxCrashes = 1
SPECIFICATION FairSpec
INVARIANTS KnownIsNotAskedAgain NilWasAsked AnswersStand EnsuredStays
PROPERTY EveryLookupEnds
CHECK_DEADLOCK FALSE
