\* One export alone, with the pool size the server has when nothing is set.
CONSTANTS
    e1 = e1
    Exports = {e1}
    a = a
    Series = {a}
    zero = zero
    Unknown = zero
    ShowLists <- Lists
    Episodes <- Content
    unset = unset
    EnvMaxConns = {unset}
SPECIFICATION FairSpec
PROPERTY EveryExportEndsAlways
CHECK_DEADLOCK FALSE
