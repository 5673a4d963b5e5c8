\* One process sweeps; the owner checks in, then revokes the release that is out.
SPECIFICATION SwitchSpec
CONSTANTS
    Hosts = {w1}
    Tabs = {t1}
    Contacts = {k1, k2}
    Interval = 1
    Grace = 1
    MaxTime = 3
    MaxReleases = 3
    MaxEvents = 2
CHECK_DEADLOCK FALSE
INVARIANT SuppressesOnlyLapses
