---------------------------- MODULE Authenticate ----------------------------
(***************************************************************************)
(* Authenticate (Rtsp2Authenticate.cpp) and ServerHandle::verifyAuthParams *)
(* (Rtsp2Server.cpp): what a challenge and a credential carry from one     *)
(* peer to the other.  A header is its scheme and the rest of its text:    *)
(* the key="value" pairs of Digest, or whatever follows "Basic".  MD5 and  *)
(* Base64 are taken as injective, so a tuple stands for the digest of its  *)
(* parts.  domain and opaque decide nothing.                               *)
(***************************************************************************)
Keys == {"scheme", "username", "password", "realm", "nonce", "uri", "method", "response"}

\* The keys that parser knows.
ParsedKeys == {"realm", "nonce", "username", "uri", "response"}

EmptyAuth == [k \in Keys |-> ""]

NoHeader == [scheme |-> "", rest |-> <<>>]

\* Authenticate::parser: keys that the header does not have keep their value.
Taken(a, h, keys) ==
    IF h.scheme = "Basic"
       THEN [a EXCEPT !.scheme = "Basic", !.response = h.rest]
       ELSE [k \in Keys |->
               IF k = "scheme" THEN "Digest"
               ELSE IF k \in keys \cap DOMAIN h.rest THEN h.rest[k]
               ELSE a[k]]

ParserNoNonce(a, h) == Taken(a, h, ParsedKeys \ {"nonce"})
Parser(a, h) == Taken(a, h, ParsedKeys)

GenAuthInfoBare(a) == [scheme |-> a.scheme, rest |-> [k \in {"realm"} |-> a[k]]]
GenAuthInfo(a) ==
    [scheme |-> a.scheme,
     rest |-> [k \in (IF a.scheme = "Basic" THEN {"realm"} ELSE {"realm", "nonce"}) |-> a[k]]]

\* md5(md5(username:realm:password):nonce:md5(method:uri)).
MakeResponse(a) == <<<<a.username, a.realm, a.password>>, a.nonce, <<a.method, a.uri>>>>

BasicText(a) == <<a.username, a.password>>

Credentials(a) ==
    IF a.scheme = "Basic"
       THEN [scheme |-> "Basic", rest |-> BasicText(a)]
       ELSE [scheme |-> a.scheme,
             rest |-> [k \in {"username", "nonce", "uri", "response"} |->
                         IF k = "response" THEN MakeResponse(a) ELSE a[k]]]

\* verifyAuthParams: param is authParam_, method that of the request.
Verify(param, method, h) ==
    LET auth == Parser(EmptyAuth, h)
        expected == [param EXCEPT !.method = method, !.uri = auth.uri]
    IN  /\ h # NoHeader
        /\ auth.scheme = param.scheme
        /\ IF param.scheme = "Basic"
              THEN auth.response = BasicText(param)
              ELSE auth.nonce = param.nonce /\ auth.response = MakeResponse(expected)
=============================================================================
