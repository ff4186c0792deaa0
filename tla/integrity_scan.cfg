\* Two scans and two remediations over two accounts, one with two files.
SPECIFICATION Spec
CONSTANTS
    p1 = p1  p2 = p2  p3 = p3  x = x  y = y  z = z  home1 = home1  home2 = home2
    Paths = {p1, p2, p3}
    Accounts = {home1, home2}
    AccountOf <- MCAccountOf
    Files <- MCFiles
    Homes <- MCHomes
    Excluded = {}
    Oversize = {z}
    Scans = {s1, s2}
    Remedies = {r1, r2}
    MaxEdits = 1
    Faults = TRUE
    Absent = Absent
    None = None
INVARIANTS TypeOK
PROPERTIES NoSilentChange ScanContract OwnMovesUnreported
CHECK_DEADLOCK FALSE
