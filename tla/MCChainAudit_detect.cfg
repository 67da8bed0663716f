SPECIFICATION ASpec
CONSTANTS
    ProducerKey = producer
    OtherKey = other
    NoData = nodata
    t1 = t1
    t2 = t2
    Pools <- MCPools
    Times = {1, 2}
    MaxBlocks = 3
INVARIANTS
    DetectionExact
    ReportIsNear
