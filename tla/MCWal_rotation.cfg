\* The spooler idles once no more messages arrive; the bounds end input.
CONSTANTS
    MaxAppends = 6
    SegmentCap = 2
    LogBufCap = 2
    IdxBufCap = 3
    MaxRestarts = 2
    None = None
SPECIFICATION WalSpec
INVARIANT
    SpoolerNeverFaults
CHECK_DEADLOCK FALSE
