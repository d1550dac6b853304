SPECIFICATION FairSpec
CONSTANTS
    report = report
    secret = secret
    Cards = {report}
    PageCount = 1
    Outcome <- OneGood
    Unpaintable = {}
    MaxInputs = 0
PROPERTY
    CardSettles
CHECK_DEADLOCK FALSE
