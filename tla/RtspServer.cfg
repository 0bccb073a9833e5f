SPECIFICATION FairSpec
CONSTANTS
    Methods <- MCMethods
    ServerMethods <- MCServerMethods
    Answerable <- MCAnswerable
    SessionIds <- MCSessionIds
    NoSession = "none"
    PipeIds <- MCPipeIds
    NeedAuth = TRUE
    Digest = TRUE
    MaxRequests = 3
    MaxPushed = 2
    MaxOutstanding = 1
INVARIANTS TypeOK AnsweredOnce LateInOrder SessionSticky ResponseReachesHandler
PROPERTIES HandlersSeeAdmitted ImplementsRequestReply
