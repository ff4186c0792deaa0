\* Two files of an account, the default intervals, one upset.
SPECIFICATION FairSpec
CONSTANTS
    a = a  fake = fake  dropin = dropin
    Accounts = {a}
    Files = {fake, dropin}
    OwnerOf <- MCOwnerOf
    PlaceOf <- MCPlaceOf
    Named = {dropin}
    Outside = {}
    Stubborn = {fake}
    Every <- MCEvery
    AuditLookback = 12
    Lookback = 4
    Limit = 4
    Cap = 2
    Active = TRUE
    MaxRun <- MCMaxRun
    MaxUpsets = 1
INVARIANTS TypeOK AlarmedInTime
PROPERTY EventuallyContained
