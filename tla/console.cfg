\* One job, one user name, one session, two requests at a time, two faults.
SPECIFICATION FairSpec
CONSTANTS
    job1 = job1
    Jobs = {job1}
    Order <- MCOrder
    Names = {root}
    Tokens = {t}
    Requests = {q1, q2}
    Grace = 3
    None = None
    Command = Command
    MaxRun = 1
    MaxFaults = 2
INVARIANTS TypeOK OneRowEach HealthTruth
PROPERTY RevokedForEver
PROPERTY EventuallyHealthy
