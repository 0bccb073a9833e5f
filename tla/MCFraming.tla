----------------------------- MODULE MCFraming ------------------------------
(* A response, two packets, a request, a packet and two responses back to *)
(* back; input() may be given any chunking of these bytes.                 *)
EXTENDS Framing

MCStarts == {1, 4, 9, 13, 15, 20, 22}
MCRtpStarts == {4, 9, 15}
MCUnitLen == [s \in MCStarts |->
    CASE s = 1 -> 3 [] s = 4 -> 5 [] s = 9 -> 4 [] s = 13 -> 2
      [] s = 15 -> 5 [] s = 20 -> 2 [] s = 22 -> 1]
=============================================================================
