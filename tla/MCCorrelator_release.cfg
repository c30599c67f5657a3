\* Two IMSIs, one TMSI, two MME-UE-S1AP-IDs and one eNB-UE-S1AP-ID (shared
\* by UEs of different eNBs), two subscriber records.
CONSTANTS
    i1 = i1
    i2 = i2
    t1 = t1
    m1 = m1
    m2 = m2
    n1 = n1
    None = None
    Imsis <- MCImsis
    Tmsis <- MCTmsis
    Imeisvs <- MCImeisvs
    MmeIds <- MCMmeIds
    EnbIds <- MCEnbIds
    Teids <- MCTeids
    Messages <- MCMessages
    MaxSubscribers = 2
    MaxUnknown = 1
SPECIFICATION CorrSpec
SYMMETRY Symmetry
\* The processor may stop receiving messages at any point.
CHECK_DEADLOCK FALSE

PROPERTY ReleaseKeepsOtherSubscribers
