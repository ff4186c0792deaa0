\* Discovery beside two runs of one of the jobs below it, on a server that changes.
SPECIFICATION FairSpec
CONSTANTS
    d = d  r1 = r1  r2 = r2  a = a  b = b  s = s  k1 = k1  k2 = k2  p = p  on = on  off = off
    Runs = {d, r1, r2}
    Discoverers = {d}
    Kinds = {"discovery", "inventory", "configuration", "wordpress_inventory", "temp_file_scan"}
    Accounts = {a, b}
    Sites = {s}
    Paths = {p}
    OwnerOf <- MCOwnerOf
    Keys = {k1, k2}
    Values = {on, off}
    On = on
    Required = {k2}
    IniKeys = {}
    Suspicious = {k1}
    Listings <- MCListings
    Contents <- MCContents
    MaxEdits = 1
    MaxDeaths = 1
    Absent = Absent
    None = None
INVARIANTS TypeOK OneRowPerKey OneAlertPerFile
PROPERTIES CommitsWhatItSaw EventuallyMirrored
