SPECIFICATION BatchSpec
CONSTANTS
    ProducerKey = producer
    OtherKey = other
    NoData = nodata
    iot = iot
    Runs = {r1, r2}
    NoRun = norun
    IotTrx <- MCIotTrx
    EmptyTrx <- MCEmptyTrx
    TrxParams <- MCTrxParams
    Times = {1}
    MaxBlocks = 2
    MaxAccepted = 2
    MaxSqlErrors = 0
    MaxEdits = 1
    MaxCpErrors = 0
PROPERTIES
    LastRowKept
CONSTRAINT
    QuickCps
