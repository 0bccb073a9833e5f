SPECIFICATION Spec
CONSTANTS
    NMedia = 2
    Aggregates <- MCBoth
    Policies <- MCOpen
    Pipelining <- MCNo
    DrawnIds <- MCIds
    Reorder = FALSE
    RefuseSetup <- MCNever
    UserCalls <- MCKeepAlive
    MaxUserCalls = 2
    Overlap = TRUE
    SecondWalk = FALSE
INVARIANTS AnswersMatched
