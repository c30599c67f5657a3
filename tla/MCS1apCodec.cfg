\* Decoding may go on forever; every state has a successor.
CONSTANTS
    None = None
    Pdus <- MCPdus
    Framings <- MCFramings
SPECIFICATION CodecSpec
INVARIANTS
    DecodeRecoversPdu
    StoreGetsTmsiAndTeids
PROPERTIES
    S1apIdsStable
