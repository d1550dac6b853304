SPECIFICATION FairSpec
CONSTANTS
    report = report
    secret = secret
    Cards = {report, secret}
    PageCount = 1
    Outcome <- MCOutcome
    Unpaintable = {}
    MaxInputs = 3
INVARIANTS
    TypeOK
    PageShowsLatest
    EachUnderWayOnce
PROPERTY
    RequestsAnswered
CHECK_DEADLOCK FALSE
