---------------------------- MODULE MCPullSession ----------------------------
EXTENDS PullSession

MCScripts ==
    {<<"PLAY", "TEARDOWN">>, <<"PLAY", "PAUSE">>, <<"PLAY", "PLAY">>, <<"OTHER", "PLAY">>}
=============================================================================
