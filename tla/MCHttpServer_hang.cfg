SPECIFICATION HSpec
CONSTANTS
    Conns = {c1, c2}
    ReadCalls = {"get_info"}
    WriteCalls = {"push_transaction"}
    OtherUrls = {"unknown"}
    Options <- MCPlain
    Requests <- MCRequests
    LocalName = "127.0.0.1"
PROPERTIES
    EveryRequestAnswered
CHECK_DEADLOCK FALSE
