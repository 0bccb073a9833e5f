SPECIFICATION Spec
CONSTANTS
    NMedia = 2
    Aggregates <- MCBoth
    Policies <- MCOpen
    Pipelining <- MCYes
    DrawnIds <- MCIds
    Reorder = FALSE
    RefuseSetup <- MCBoth
    UserCalls <- MCTeardown
    MaxUserCalls = 0
    Overlap = FALSE
    SecondWalk = FALSE
INVARIANTS RefusalReported
