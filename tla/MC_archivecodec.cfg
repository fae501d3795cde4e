\* Identity assignment of archiveParamsSetUuid over every posted value.
CONSTANTS
    Absent = Absent
    Idx <- MCIdx
    Lens <- MCLens
    MaxPairs = 2
    LastWins = TRUE
    PostedPair <- MCPostedPair
SPECIFICATION ArchiveSpec
INVARIANT ArchiveTypeOK IdsComplete IdsStable
