\* Two concurrent updateRights of one user leave rows that neither posted.
CONSTANTS
    n1 = n1
    p1 = p1
    p2 = p2
    r1 = r1
    r2 = r2
    w1 = w1
    w2 = w2
    NoUser = NoUser
    UserIds <- MCUserIds
    UserNames <- MCUserNames
    Pws <- MCPws
    Rights <- MCRights
    Workers <- TwoWorkers
    MaxRights = 2
SPECIFICATION UsersSpec
INVARIANT RightsFromSomeRequest
