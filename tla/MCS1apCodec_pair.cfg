\* UEContextReleaseCommand messages that carry UE-S1AP-IDs.
CONSTANTS
    None = None
    Pdus <- MCPairPdus
    Framings <- MCIdFramings
SPECIFICATION CodecSpec
INVARIANTS
    S1apReadersAgree
