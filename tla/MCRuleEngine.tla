---------------------------- MODULE MCRuleEngine ----------------------------
EXTENDS RuleEngine, TLC

CONSTANTS k1, k2

MCKeys == {k1, k2}

\* A handover rule as in the repository's README ruleset (window scaled to
\* one clock unit) and a single-message rule on the same first message.
MCSingleRules == << [name |-> "Mobility.Handover.Requested", type |-> "HandoverRequest"] >>

MCSeqRules ==
    << [name |-> "Mobility.Handover.Completed", first |-> "HandoverRequest",
        second |-> "HandoverNotify", window |-> 1] >>

\* Two sequence rules that start on the same message type.
MCSharedFirstRules ==
    << [name |-> "Mobility.Handover.Completed", first |-> "HandoverRequest",
        second |-> "HandoverNotify", window |-> 1],
       [name |-> "Mobility.Handover.Cancelled", first |-> "HandoverRequest",
        second |-> "HandoverCancel", window |-> 1] >>

\* A sequence rule whose window is longer than the 60 s cap.
MCLongWindowRules ==
    << [name |-> "Mobility.Handover.Completed", first |-> "HandoverRequest",
        second |-> "HandoverNotify", window |-> 2] >>

Symmetry == Permutations(MCKeys)
==============================================================================
