\* One session at a time, but a session may die before it commits.
SPECIFICATION Spec
CONSTANTS
    f1 = f1  f2 = f2  f3 = f3  p1 = p1  p2 = p2
    x = x  y = y  acc = acc  index = index
    s1 = s1  s2 = s2  s3 = s3  s4 = s4
    Findings = {f1, f2, f3}
    Paths = {p1, p2}
    Accounts = {acc}
    Names = {index}
    Contents = {x, y}
    Sessions = {s1, s2, s3, s4}
    PathOf <- MCPathOf
    AccountOf <- MCAccountOf
    NameOf <- MCNameOf
    Detected <- MCDetected
    DetectedAt <- MCDetectedAt
    ProcessOf <- MCProcessOf
    Critical = {f1, f2, f3}
    Covered = {p1}
    Requests = {"quarantine", "restore", "delete", "acknowledge", "auto"}
    Mode = "active"
    Cap = 2
    Overlap = FALSE
    OwnerEdits = FALSE
    FsFaults = FALSE
    SessionsDie = TRUE
    Absent = Absent
    Sidecar = Sidecar
    SidecarName = SidecarName
    None = None
PROPERTIES RestoresWhatWasTaken
CHECK_DEADLOCK FALSE
