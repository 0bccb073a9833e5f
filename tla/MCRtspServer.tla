---------------------------- MODULE MCRtspServer ----------------------------
(* One connection: three requests of a client that may authenticate or not, *)
(* quote a right or a foreign session, pipeline or not; two requests of the *)
(* server, one with a response handler and one without.                     *)
EXTENDS RtspServer

MCMethods == {"SETUP", "PLAY"}
MCServerMethods == {"OPTIONS", "TEARDOWN", "PLAY_NOTIFY"}
MCAnswerable == {"OPTIONS", "TEARDOWN"}
MCSessionIds == {"s1", "s2"}
MCPipeIds == {1}
=============================================================================
