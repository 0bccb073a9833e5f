SPECIFICATION Spec
CONSTANTS
    Methods <- MCMethods
    ServerMethods <- MCServerMethods
    Answerable <- MCAnswerable
    SessionIds <- MCSessionIds
    NoSession = "none"
    PipeIds <- MCPipeIds
    NeedAuth = FALSE
    Digest = TRUE
    MaxRequests = 3
    MaxPushed = 2
    MaxOutstanding = 1
INVARIANT SetupOpensSession
