------------------------------ MODULE Transport -----------------------------
(***************************************************************************)
(* The Transport header (Rtsp2Transport.cpp): TransportV1::toString and    *)
(* decodeTransportV1.  A header is a function from the parameters it holds *)
(* to their values; -1 and "" are the values of parameters never set.      *)
(***************************************************************************)
EXTENDS Integers

Unset == <<-1, -1>>

TransportDefaults ==
    [proto |-> "unset", cast |-> "unset", mode |-> "unset",
     interleaved |-> Unset, client_port |-> Unset, server_port |-> Unset,
     ttl |-> -1, port |-> -1, destination |-> "", ssrc |-> ""]

\* The parameters that toString writes so that they can be read back: it
\* writes destination without "=", which decodeTransportV1 then skips.
Written(t) ==
    {"proto", "cast", "mode"}
      \cup (IF t.proto = "TCP"
              THEN {"interleaved"}
              ELSE {k \in {"client_port", "server_port"} : t[k][1] > 0})
      \cup {k \in {"ttl", "port"} : t.cast = "MULTICAST" /\ t[k] > 0}
      \cup {k \in {"ssrc"} : t[k] # ""}

Encode(t) == [k \in Written(t) |-> t[k]]

\* Parameters that are absent keep the value of their initialiser; proto, cast
\* and mode have none, but toString always writes them.
Decode(h) == [k \in DOMAIN TransportDefaults |-> IF k \in DOMAIN h THEN h[k] ELSE TransportDefaults[k]]

NoTransport == [k \in {} |-> ""]
=============================================================================
