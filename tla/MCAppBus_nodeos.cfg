SPECIFICATION BusSpec
CONSTANTS
    Plugins <- CyclePlugins
    Requires <- CycleRequires
    Autostart <- NodeosAutostart
    Servers = {"http"}
    Signals = {"SIGINT"}
    Users = {"chain", "schedule"}
    MaxSlots = 2
    MaxPublished = 2
CHECK_DEADLOCK FALSE
INVARIANTS
    OnceInOrder
    RequiredFirst
    ShutdownReversed
    HeardInOrder
    NoneMissed
    OnlyOverwrittenLeft
PROPERTIES
    CalledWhileAlive
    QuitEnds
    PostedIsDelivered
