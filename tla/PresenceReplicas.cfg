SPECIFICATION Spec
CONSTANTS
    ana = ana
    bruno = bruno
    t1 = t1
    t2 = t2
    t3 = t3
    api1 = api1
    api2 = api2
    Users = {ana}
    Sockets = {t1, t2}
    Instances = {api1, api2}
    UserOf <- TwoTabs
    InstanceOf <- TabsApart
    MaxCrashes = 0
    MaxInFlight = 1
INVARIANT
    MultiTabCorrect
