CONSTANTS
    e1 = e1
    e2 = e2
    Exports = {e1, e2}
    a = a
    b = b
    Series = {a, b}
    zero = zero
    Unknown = zero
    ShowLists <- Lists
    Episodes <- Content
    EnvMaxConns = {3, 4}
SPECIFICATION FairSpec
INVARIANTS SavedWhole ConnectionsAreHeld ReadsBack
PROPERTY EveryExportEnds
CHECK_DEADLOCK FALSE
