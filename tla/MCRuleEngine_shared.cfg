\* Two sequence rules that start on HandoverRequest.
CONSTANTS
    k1 = k1
    k2 = k2
    Keys <- MCKeys
    MsgTypes = {"HandoverRequest", "HandoverNotify", "HandoverCancel"}
    SingleRules <- MCSingleRules
    SeqRules <- MCSharedFirstRules
    MaxSequenceAge = 2
    MaxMsgs = 3
    MaxTime = 3
SPECIFICATION RESpec
SYMMETRY Symmetry
INVARIANTS
    SequenceRuleWithinWindow
