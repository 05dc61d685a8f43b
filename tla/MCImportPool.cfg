CONSTANTS
    NumShows = 3
    NameOf <- Titles
    MaxActiveShows = 1
    LookupConcurrency = 2
    ImportConcurrency = 2
    progressPersistEvery = 2
SPECIFICATION FairSpec
INVARIANTS SummaryAddsUp ImportedAtMostOnce ProgressTellsTheWork
PROPERTY ImplementsImportBatch
CHECK_DEADLOCK FALSE
