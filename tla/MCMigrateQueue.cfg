\* Four jobs over two slots: one may hang, and one of the others is watched.
CONSTANTS
    j1 = j1
    j2 = j2
    j3 = j3
    j4 = j4
    Jobs = {j1, j2, j3, j4}
    Watched = {j2}
    Hanging = {j1}
    EnvConcurrency = 2
SPECIFICATION FairSpec
INVARIANTS TypeOK SlotBound NoIdleSlot QueueConsistent
PROPERTIES EveryJobServed ImplementsJobServer ReportsMoveForward
\* The system stops when every job is served and no client polls.
CHECK_DEADLOCK FALSE
