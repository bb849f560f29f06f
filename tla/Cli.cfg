SPECIFICATION Spec
CONSTANTS
    Dir <- MCDir
    Name <- MCName
    Configs <- MCConfigs
    Flags <- MCFlags
    Uint32 = 4
    Elapsed = {1, 3}
    Forever = 7
INVARIANTS
    TypeOK
    TalliesExact
    StatsOrdered
PROPERTY
    Exits
