----------------------------- MODULE MCRtspLink -----------------------------
(* Two media, audio first, with the channels that the example clients ask   *)
(* for: 2-3 for audio, 0-1 for video.  A server that counts assigns them    *)
(* the other way round.                                                     *)
EXTENDS RtspLink

MCOffers ==
    [i \in 1..2 |-> [TransportDefaults EXCEPT
        !.proto = "TCP", !.cast = "UNICAST", !.mode = "PLAY",
        !.interleaved = IF i = 1 THEN <<2, 3>> ELSE <<0, 1>>]]
MCSchemes == {"", "Basic", "Digest"}
MCGrants == {"keep", "count", "refuse"}
=============================================================================
