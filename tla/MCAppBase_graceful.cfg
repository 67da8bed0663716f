SPECIFICATION BSpec
CONSTANTS
    Plugins <- NodeosPlugins
    Requires <- NodeosRequires
    Autostart <- NodeosAutostart
    Servers = {"http"}
    Signals = {"SIGINT", "SIGTERM", "SIGPIPE"}
CHECK_DEADLOCK FALSE
INVARIANTS
    GracefulExit
