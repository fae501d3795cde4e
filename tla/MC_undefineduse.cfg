\* Spec section 8: an undefined requested use preserves the stored use, on a
\* configurable key that is neither mergeable nor localized (line 536).
CONSTANTS
    kMerge = kMerge
    kPlain = kPlain
    kLoc = kLoc
    kConf = kConf
    v1 = v1
    v2 = v2
    t1 = t1
    t2 = t2
    NoRow = NoRow
    Keys <- KeysConf
    Configurable <- KeysConf
    Mergeable <- NoKeys
    Localized <- NoKeys
    Values <- MCValues
    Clients <- OneClient
    Groups <- OneGroup
    ClientGroup <- MCClientGroup
    Online <- OneClient
    Threads <- OneThread
    UseInputs <- MCUseInputs
    Posted <- MCPosted
    MaxTime = 1
    MaxVer = 2
SYMMETRY ValueSymmetry
SPECIFICATION Spec
PROPERTY UndefinedUsePreserved
