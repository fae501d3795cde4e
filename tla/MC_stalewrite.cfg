\* Spec section 8: a write with a version <= the stored one increases it.
CONSTANTS
    kMerge = kMerge
    kPlain = kPlain
    kLoc = kLoc
    kConf = kConf
    v1 = v1
    v2 = v2
    t1 = t1
    t2 = t2
    NoRow = NoRow
    Keys <- KeysAll
    Configurable <- KeysConfigurable
    Mergeable <- KeysMerge
    Localized <- KeysLoc
    Values <- MCValues
    Clients <- OneClient
    Groups <- OneGroup
    ClientGroup <- MCClientGroup
    Online <- OneClient
    Threads <- OneThread
    UseInputs <- MCUseInputs
    Posted <- MCPosted
    MaxTime = 1
    MaxVer = 2
SYMMETRY ValueSymmetry
SPECIFICATION Spec
PROPERTY StaleWriteStrictlyIncreases
