\* One segment that never fills and a spooler that may stop but is not
\* restarted: the processor's read, commit and restart logic on its own.
CONSTANTS
    MaxAppends = 6
    SegmentCap = 6
    LogBufCap = 2
    IdxBufCap = 3
    MaxRestarts = 1
    MaxBatch = 2
    MaxProcRestarts = 1
    None = None
SPECIFICATION Spec
INVARIANT
    NoMessageSkipped
