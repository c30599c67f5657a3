\* Two clients of two messages fill the four appends; one fault and one
\* restart let a stream break, a segment open fail or the spooler die.
CONSTANTS
    MaxAppends = 4
    SegmentCap = 2
    LogBufCap = 2
    IdxBufCap = 3
    MaxRestarts = 1
    MaxFaults = 1
    NumMessages = 2
    c1 = c1
    c2 = c2
    Clients <- MCClients
    None = None
SPECIFICATION IngestSpec
INVARIANTS
    WalTypeOK
    IndexMatchesLog
    BSearchMatchesReference
    IngestTypeOK
    ClientOkMeansAllAppended
PROPERTIES
    WalRefinesSpoolLog
    EveryClientFinishes
CHECK_DEADLOCK FALSE
