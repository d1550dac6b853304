SPECIFICATION FairSpec
CONSTANTS
    ana = ana
    bruno = bruno
    t1 = t1
    t2 = t2
    t3 = t3
    api1 = api1
    api2 = api2
    Users = {ana, bruno}
    Sockets = {t1, t2, t3}
    Instances = {api1}
    UserOf <- TwoTabsAndOne
    InstanceOf <- AllOnOne
    MaxCrashes = 0
    MaxInFlight = 1
INVARIANTS
    TypeOK
    MultiTabCorrect
    ViewsConverge
PROPERTIES
    NoGhostUser
    TabSeesItself
