\* UEs whose MME UE S1AP ids are 0, 70000 and 0x80011170.
CONSTANTS
    None = None
    Pdus <- MCCollidingPdus
    Framings <- MCIdFramings
SPECIFICATION CodecSpec
PROPERTIES
    S1apIdsDistinguishUes
