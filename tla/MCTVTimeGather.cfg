CONSTANTS
    MaxObjects <- Most
    EpisodesOf <- Content
    WatchOf <- History
    PageLimit = 2
    maxPageRetries = 1
    maxConsecutivePageFails = 2
    maxEmptyRetries = 2
    TVTIME_GATHER_CONCURRENCY = 2
SPECIFICATION FairSpec
INVARIANTS GapsAreExplained NothingLeftBehind HistoryIsTrue
PROPERTY EveryGatherEnds
CHECK_DEADLOCK FALSE
