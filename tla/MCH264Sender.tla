---------------------------- MODULE MCH264Sender ----------------------------
(***************************************************************************)
(* Every file of up to ten bytes.  Units of more than two bytes, up to      *)
(* seven, are sent as fragments, and numbers wrap after four packets.       *)
(***************************************************************************)
EXTENDS H264Sender

MCFiles == UNION {[1..n -> {0, 1, 7}] : n \in 0..10}
=============================================================================
