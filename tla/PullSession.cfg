SPECIFICATION FairSpec
CONSTANTS
    Scripts <- MCScripts
    MaxPackets = 2
INVARIANTS WriteOwnsFront WakeupPending ThreadEndsFirst
PROPERTIES SendsAll RequestsSent SessionEnds
