CONSTANTS
    i1 = i1  i2 = i2  t1 = t1  t2 = t2  e1 = e1
    m1 = m1  m2 = m2  n1 = n1  x1 = x1  x2 = x2
    None = None
    Imsis <- MCImsis
    Tmsis <- MCTmsis
    Imeisvs <- MCImeisvs
    MmeIds <- MCMmeIds
    EnbIds <- MCEnbIds
    Teids <- MCTeids
    MaxSubscribers = 2
SYMMETRY Symmetry
SPECIFICATION Spec
INVARIANT
    StableIdentityUnique
