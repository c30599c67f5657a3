\* Two IMSIs, one TMSI, one value of each S1AP id (so every UE shares them
\* over time), two subscriber records.
CONSTANTS
    i1 = i1
    i2 = i2
    t1 = t1
    m1 = m1
    m2 = m2
    n1 = n1
    None = None
    Imsis <- MCImsis
    Tmsis <- MCTmsis
    Imeisvs <- MCImeisvs
    MmeIds <- MCOneMmeId
    EnbIds <- MCEnbIds
    Teids <- MCTeids
    Messages <- MCMessages
    MaxSubscribers = 2
    MaxUnknown = 1
SPECIFICATION CorrSpec
SYMMETRY Symmetry
\* The processor may stop receiving messages at any point.
CHECK_DEADLOCK FALSE
PROPERTY SubscriberIdentityMerge
