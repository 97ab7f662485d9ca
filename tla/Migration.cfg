SPECIFICATION FairSpec
CONSTANTS
    Processes = {p1, p2}
    Binaries <- MCBinaries
    MaxMishaps = 2
INVARIANTS TypeOK RecordedIsDone InVersionOrder NeverHalfMigrated
PROPERTIES RestartsComplete
