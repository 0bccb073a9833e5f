SPECIFICATION FairSpec
CONSTANTS
    Sides = {"client", "server"}
    StreamLen = 22
    Starts <- MCStarts
    RtpStarts <- MCRtpStarts
    UnitLen <- MCUnitLen
INVARIANTS TypeOK NoByteLost InOrderDelivery AlignedReads
PROPERTY ImplementsDeframer
