SPECIFICATION FairSpec
CONSTANTS
    ana = ana
    bruno = bruno
    it = it
    hr = hr
    hr2 = hr2
    nIt = nIt
    nHr = nHr
    nGeneral = nGeneral
    l1 = l1
    l2 = l2
    l3 = l3
    NoDn = NoDn
    NoRow = NoRow
    Users = {ana}
    Depts = {it, hr, hr2}
    Names = {nIt, nHr, nGeneral}
    SlugOf <- OneClash
    Others = {nGeneral}
    Logins = {l1, l2, l3}
    MovesInLogin = FALSE
    MaxMoves = 1
INVARIANTS
    TypeOK
    FailsOnlyOnNameClash
PROPERTIES
    LoginEndsInLockstep
    OwnChannelsKept
    LoginsEnd
