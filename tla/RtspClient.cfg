SPECIFICATION FairSpec
CONSTANTS
    NMedia = 2
    Aggregates <- MCBoth
    Pipelining <- MCBoth
    Policies <- MCPolicies
    DrawnIds <- MCIds
    Reorder = TRUE
    RefuseSetup <- MCNo
    UserCalls <- MCEveryCall
    MaxUserCalls = 2
    Overlap = FALSE
    SecondWalk = FALSE
INVARIANTS TypeOK AnswersMatched OneAtATime StreamAfterSetup WalkVisitsEach StaysDefined PipelineMatches
PROPERTIES FlowCompletes PipelineDrains
