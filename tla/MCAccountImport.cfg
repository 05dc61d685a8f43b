CONSTANTS
    j1 = j1
    j2 = j2
    Jobs = {j1, j2}
    this = this
    other = other
    This = this
    Other = other
    TVShows <- Shows
    SerializdShows <- Answers
    MaxChanges = 1
SPECIFICATION Spec
SYMMETRY Symmetric
INVARIANTS NothingBesides ImportedIsWhole DroppedComesLast
CHECK_DEADLOCK FALSE
