---------------------------- MODULE MCRtspClient ----------------------------
(* Two media.  The peer challenges nothing, everything (as ServerHandle     *)
(* does), or only the requests that set up or start the stream.            *)
EXTENDS RtspClient

MCBoth == BOOLEAN
MCYes == {TRUE}
MCNo == {FALSE}
MCNever == {}
MCIds == {1}
MCAll == {"OPTIONS", "DESCRIBE", "ANNOUNCE", "SETUP", "PLAY", "RECORD", "PAUSE",
          "TEARDOWN", "GET_PARAMETER", "SET_PARAMETER"}
MCPolicies ==
    [p \in BOOLEAN |-> {{}, MCAll, {"DESCRIBE"}} \cup
                        IF p THEN {} ELSE {{"SETUP"}, {"PLAY", "RECORD"}}]
MCOpen == [p \in BOOLEAN |-> {{}}]
MCEveryCall == {"getParmeters", "setParmeters", "pause", "play", "teardown"}
MCKeepAlive == {"getParmeters", "pause"}
MCTeardown == {"teardown"}
=============================================================================
