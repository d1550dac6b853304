SPECIFICATION Spec
CONSTANTS
    ana = ana
    bruno = bruno
    it = it
    hr = hr
    m1 = m1
    m2 = m2
    plain = plain
    other = other
    link = link
    r1 = r1
    r2 = r2
    Blank = Blank
    None = None
    Users = {ana, bruno}
    Channels = {it}
    Msgs = {m1}
    Texts = {plain, link}
    Links = {link}
    Requests = {r1, r2}
    Ops = {"send", "edit", "delete"}
    MaxClock = 1
    MaxRetries = 1
    MaxPrunes = 0
SYMMETRY Symmetry
INVARIANTS
    DeletedIsEmptyUnlessRaced
    TabsConvergeUnlessRaced
PROPERTY
    LogSpec
