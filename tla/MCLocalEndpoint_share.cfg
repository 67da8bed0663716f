SPECIFICATION ESpec
CONSTANTS
    Procs = {p1, p2, p3}
    Clients = {c1}
    NoFile = nofile
    Dead = dead
    Probe = probe
    MaxBacklog = 2
INVARIANTS
    AloneServes
    NoLitter
PROPERTIES
    EarlierServiceKept
    QueuedEnds
