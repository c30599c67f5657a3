---------------------------- MODULE MCCorrelator ----------------------------
EXTENDS Correlator, TLC

CONSTANTS i1, i2, t1, m1, m2, n1

MCImsis   == {i1, i2}
MCTmsis   == {t1}
MCNoTmsis == {}
MCImeisvs == {}
MCMmeIds  == {m1, m2}
MCOneMmeId == {m1}
MCEnbIds  == {n1}
MCTeids   == {}

\* UE-associated S1AP messages carry the eNB-UE-S1AP-ID; the MME-UE-S1AP-ID
\* is absent only from InitialUEMessage; NAS identities ride in NAS-PDUs.
\* UEContextReleaseComplete carries both S1AP ids and nothing else.
MCMessages ==
    [imsi : Opt(Imsis), tmsi : Opt(Tmsis), imeisv : {None}, mme : Opt(MmeIds),
     enb : EnbIds, teids : {{}}, release : {FALSE}]
    \cup ReleaseFrames

Symmetry == Permutations(MCImsis) \cup Permutations(MmeIds)
==============================================================================
