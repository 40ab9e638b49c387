SPECIFICATION Spec
CONSTANTS
    Gauges <- McGauges
    ShutdownTo = 2
    InitialPools <- McInitialPools
    Migrated <- McMigrated
    MaxAdded = 1
    Foreign = {"g5", "g6"}
    Mortal = {"g3"}
    Fickle = {"g1"}
    MaxGenerated = 2
INVARIANTS OneHome SwitchedAtOnce FilesLeaveNoGauge
PROPERTIES MovesKeepGauges MigrationCompletes
CHECK_DEADLOCK FALSE
