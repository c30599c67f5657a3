\* One sequence rule (window 1 unit, cap 2 units) and one single-message rule.
CONSTANTS
    k1 = k1
    k2 = k2
    Keys <- MCKeys
    MsgTypes = {"HandoverRequest", "HandoverNotify"}
    SingleRules <- MCSingleRules
    SeqRules <- MCSeqRules
    MaxSequenceAge = 2
    MaxMsgs = 4
    MaxTime = 3
SPECIFICATION RESpec
SYMMETRY Symmetry
INVARIANTS
    RETypeOK
    SequenceRuleWithinWindow
