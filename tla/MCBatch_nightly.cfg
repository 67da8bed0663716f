SPECIFICATION BatchSpec
CONSTANTS
    ProducerKey = producer
    OtherKey = other
    NoData = nodata
    iot = iot
    Runs = {r1, r2}
    NoRun = norun
    IotTrx <- MCIotTrx
    EmptyTrx <- MCEmptyTrx
    TrxParams <- MCTrxParams
    Times = {1}
    MaxBlocks = 2
    MaxAccepted = 2
    MaxSqlErrors = 1
    MaxEdits = 1
    MaxCpErrors = 1
INVARIANTS
    CalmRunStores
    BackupIsPast
PROPERTIES
    BackupOnlyGrows
    LastRowKeptByOwner
SYMMETRY
    RunsSymmetry
VIEW
    BatchView
CONSTRAINT
    Bounded
