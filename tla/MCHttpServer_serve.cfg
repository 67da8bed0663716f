SPECIFICATION HSpec
CONSTANTS
    Conns = {c1, c2}
    ReadCalls = {"get_info"}
    WriteCalls = {"push_transaction"}
    OtherUrls = {"unknown"}
    Options <- MCOptions
    Requests <- MCRequests
    LocalName = "127.0.0.1"
INVARIANTS
    RegisteredIsFound
    OwnAddressServed
    StrangerRefused
    LimitApplied
    UnansweredExactly
PROPERTIES
    ParsedAnswered
CHECK_DEADLOCK FALSE
