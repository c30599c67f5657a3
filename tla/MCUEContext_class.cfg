\* UEContext::update as its tests drive it, with target ECGIs, against
\* the spec's handover state machine.
CONSTANTS
    None = None
    c1 = c1
    c2 = c2
    i1 = i1
    u1 = u1
    n1 = n1
    e1 = e1
    Msgs <- MCTargetMsgs
    Records <- MCRecords
    ContextExpiry = 1
    MaxTime = 3
SPECIFICATION ClassSpec
PROPERTIES HandoverRefinement
