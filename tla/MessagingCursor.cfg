SPECIFICATION FairSpec
CONSTANTS
    ana = ana
    bruno = bruno
    it = it
    hr = hr
    m1 = m1
    m2 = m2
    plain = plain
    other = other
    link = link
    r1 = r1
    r2 = r2
    Blank = Blank
    None = None
    Users = {ana}
    Channels = {it, hr}
    Msgs = {m1}
    Texts = {link}
    Links = {link}
    Requests = {r1, r2}
    Ops = {"send", "read"}
    MaxClock = 2
    MaxRetries = 1
    MaxPrunes = 1
INVARIANT
    CursorPointsHome
PROPERTY
    WorkEnds
