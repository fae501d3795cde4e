\* A save without an archive field overwrites the archive setting.
CONSTANTS
    Absent = Absent
    Idx <- MCIdx
    Lens <- MCLens
    MaxPairs = 2
    LastWins = TRUE
    PostedPair <- MCPostedPair
SPECIFICATION ArchiveSpec
PROPERTY ArchiveKeptWhenNotPosted
