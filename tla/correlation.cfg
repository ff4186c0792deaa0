\* Three events in batches of two, late commits, an inventory that changes.
SPECIFICATION FairSpec
CONSTANTS
    e1 = e1  e2 = e2  e3 = e3  a = a  b = b  tmp = tmp  cron = cron
    Events = {e1, e2, e3}
    Accounts = {a, b}
    Signatures = {tmp, cron}
    Plugins <- MCPlugins
    SigOf <- MCSigOf
    AccountOf <- MCAccountOf
    SeverityOf <- MCSeverityOf
    Inventories <- MCInventories
    Batch = 2
    Window = 1
    Delay = 1
    MaxTime = 2
    MaxDeaths = 1
    Unknown = Unknown
    None = None
INVARIANTS TypeOK Partition Faithful OneOpenPerWindow
PROPERTIES CauseShared EventuallyCorrelated
