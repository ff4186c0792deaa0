\* A restore and a delete of one quarantined finding overlap; nothing fails.
SPECIFICATION Spec
CONSTANTS
    f1 = f1  f2 = f2  f3 = f3  p1 = p1  p2 = p2
    x = x  y = y  acc = acc  index = index
    s1 = s1  s2 = s2  s3 = s3  s4 = s4
    Findings = {f1, f2}
    Paths = {p1, p2}
    Accounts = {acc}
    Names = {index}
    Contents = {x, y}
    Sessions = {s1, s2, s3}
    PathOf <- MCPathOf
    AccountOf <- MCAccountOf
    NameOf <- MCNameOf
    Detected <- MCDetected
    DetectedAt <- MCDetectedAt
    ProcessOf <- MCProcessOf
    Critical = {f1, f2}
    Covered = {p1}
    Requests = {"restore", "delete", "auto"}
    Mode = "active"
    Cap = 1
    Overlap = TRUE
    OwnerEdits = FALSE
    FsFaults = FALSE
    SessionsDie = FALSE
    Absent = Absent
    Sidecar = Sidecar
    SidecarName = SidecarName
    None = None
PROPERTIES DeadEnds
CHECK_DEADLOCK FALSE
