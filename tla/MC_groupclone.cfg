\* groupadd provisions a group scope from the global rows, ids reused.
CONSTANTS
    kMerge = kMerge
    kPlain = kPlain
    kLoc = kLoc
    kConf = kConf
    v1 = v1
    v2 = v2
    t1 = t1
    t2 = t2
    nLow = nLow
    nUp = nUp
    NoRow = NoRow
    NoGroup = NoGroup
    Keys <- KeysMerge
    Configurable <- KeysMerge
    Mergeable <- KeysMerge
    Localized <- NoKeys
    Values <- OneValue
    Clients <- OneClient
    Groups <- OneGroup
    ClientGroup <- MCClientGroup
    Online <- OneClient
    Threads <- OneThread
    UseInputs <- GroupUseInputs
    Posted <- MCPosted
    Names <- MCNames
    Lower <- MCLower
    MaxTime = 0
    MaxVer = 0

SPECIFICATION GroupsSpec
INVARIANT GroupsTypeOK
PROPERTY FreshGroupIsGlobalClone
