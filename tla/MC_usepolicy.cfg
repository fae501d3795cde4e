\* Use-mode normalisation of updateClientSettings kept in every stored row.
CONSTANTS
    kMerge = kMerge
    kPlain = kPlain
    kLoc = kLoc
    kConf = kConf
    v1 = v1
    v2 = v2
    t1 = t1
    t2 = t2
    NoRow = NoRow
    Keys <- KeysPolicy
    Configurable <- KeysLoc
    Mergeable <- NoKeys
    Localized <- KeysLoc
    Values <- MCValues
    Clients <- OneClient
    Groups <- NoKeys
    ClientGroup <- MCClientGroup
    Online <- OneClient
    Threads <- OneThread
    UseInputs <- MCUseInputs
    Posted <- MCPosted
    MaxTime = 1
    MaxVer = 2
SYMMETRY ValueSymmetry
SPECIFICATION Spec
INVARIANT TypeOK UsePolicy
