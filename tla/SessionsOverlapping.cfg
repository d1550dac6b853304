SPECIFICATION FairSpec
CONSTANTS
    ana = ana
    bruno = bruno
    j1 = j1
    j2 = j2
    j3 = j3
    r1 = r1
    r2 = r2
    None = None
    Users = {ana}
    Jtis = {j1, j2, j3}
    Requests = {r1, r2}
    MaxChanges = 1
CHECK_DEADLOCK FALSE
INVARIANTS
    SuccessorInherits
    HandedTokenWorks
    SingleUseUnlessRaced
PROPERTY
    RequestsEnd
