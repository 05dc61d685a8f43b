CONSTANT MaxCrashes = 1
SPECIFICATION FairSpec
PROPERTY StatusSettles
CHECK_DEADLOCK FALSE
