-------------------------------- MODULE MCSdp -------------------------------
(* Descriptions of up to five lines with absolute, relative, rooted, "*"   *)
(* and empty control URLs, under a base URL with and without final slash.  *)
EXTENDS Sdp

MCBases == {<<"rtsp", "/", "cam">>, <<"rtsp", "/", "cam", "/">>}
MCRequestUrl == <<"rtsp", "/", "cam">>
MCNames == {"video", "audio"}
MCAttributes == {"rtpmap", "fmtp"}
MCSessionControls == {<<>>, <<"*">>, <<"live">>, <<"/", "live">>, <<"rtsp", "/", "live", "/">>}
MCMediaControls == {<<>>, <<"track1">>, <<"/", "track2">>, <<"rtsp", "/", "track1">>}
=============================================================================
