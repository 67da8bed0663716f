SPECIFICATION Spec
CONSTANTS
    ProducerKey = producer
    OtherKey = other
    NoData = nodata
    alice = alice
    bob = bob
    d1 = d1
    d2 = d2
    TrxParams <- MCTrxParams
    Times = {1}
    MaxBlocks = 4
    MaxAccepted = 2
    MaxSqlErrors = 1
INVARIANTS
    CompleteMeansStored
