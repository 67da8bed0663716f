SPECIFICATION ToolSpec
CONSTANTS
    ProducerKey = producer
    OtherKey = other
    NoData <- MCNoData
    alice = alice
    bob = bob
    Key = alice
    BufferSize = 2
    VarintBase = 2
    MaxVarint = 5
    CommandLines <- MCCommandLines
    Beyond <- MCBeyond
CHECK_DEADLOCK FALSE
INVARIANTS
    HexRoundTrip
    SignedPasses
    TextKept
    PackInjective
    ToolJudgesAsNode
