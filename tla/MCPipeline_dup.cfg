\* One segment that never fills and a spooler that may stop but is not
\* restarted: the processor's read, commit and restart logic on its own.
CONSTANTS
    MaxAppends = 4
    SegmentCap = 4
    LogBufCap = 2
    IdxBufCap = 3
    MaxRestarts = 0
    MaxBatch = 2
    MaxProcRestarts = 0
    None = None
SPECIFICATION Spec
INVARIANT
    ProcessedAtMostOnce
