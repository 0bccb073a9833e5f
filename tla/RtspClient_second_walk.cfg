SPECIFICATION Spec
CONSTANTS
    NMedia = 2
    Aggregates <- MCNo
    Policies <- MCOpen
    Pipelining <- MCNo
    DrawnIds <- MCIds
    Reorder = FALSE
    RefuseSetup <- MCNever
    UserCalls <- MCTeardown
    MaxUserCalls = 1
    Overlap = FALSE
    SecondWalk = TRUE
INVARIANTS WalkInBounds
