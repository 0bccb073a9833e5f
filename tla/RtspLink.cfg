SPECIFICATION FairSpec
CONSTANTS
    NMedia = 2
    Offers <- MCOffers
    Schemes <- MCSchemes
    Grants <- MCGrants
    MaxPackets = 3
INVARIANTS TypeOK PacketsToTheirMedium SecretDecides SessionAgreed
PROPERTIES FlowEnds
