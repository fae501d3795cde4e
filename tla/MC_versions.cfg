\* Version arbitration of updateSetting across clock restarts.
CONSTANTS
    kMerge = kMerge
    kPlain = kPlain
    kLoc = kLoc
    kConf = kConf
    v1 = v1
    v2 = v2
    t1 = t1
    t2 = t2
    NoRow = NoRow
    Keys <- KeysMerge
    Configurable <- KeysMerge
    Mergeable <- KeysMerge
    Localized <- NoKeys
    Values <- MCValues
    Clients <- OneClient
    Groups <- NoKeys
    ClientGroup <- MCClientGroup
    Online <- OneClient
    Threads <- OneThread
    UseInputs <- MCUseInputs
    Posted <- MCPosted
    MaxTime = 2
    MaxVer = 4
SYMMETRY ValueSymmetry
SPECIFICATION Spec

PROPERTY VersionNeverRegresses
