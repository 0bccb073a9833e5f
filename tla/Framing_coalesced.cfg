SPECIFICATION FairSpec
CONSTANTS
    Sides = {"client"}
    StreamLen = 22
    Starts <- MCStarts
    RtpStarts <- MCRtpStarts
    UnitLen <- MCUnitLen
PROPERTY EveryUnitDelivered
