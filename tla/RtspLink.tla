------------------------------ MODULE RtspLink ------------------------------
(***************************************************************************)
(* A Client and a ServerHandle on one connection, with what their headers  *)
(* carry: challenges and nonces, session ids, channels of interleaved      *)
(* packets.  The connection keeps order and may deliver any number of      *)
(* units at once; Client::input handles packets up to and including one    *)
(* message and leaves the rest in cache_ (see Framing).                    *)
(*                                                                         *)
(* The client plays or pushes a session of NMedia media with aggregate     *)
(* control, as the example clients do, to the example servers; the whole   *)
(* request API is in RtspClient, and late answers are in RtspServer.       *)
(* URI 0 is the session.                                                   *)
(***************************************************************************)
EXTENDS Transport, Authenticate, Sequences, SequencesExt

CONSTANTS
    NMedia,        \* media of the session
    Offers,        \* the transport that the application asks for, for each medium
    Schemes,       \* what getAuthParam may ask for; "" is no authentication
    Grants,        \* what handleSetup does: "keep" the channels it was asked for,
                   \* "count" up its own, or "refuse"
    MaxPackets     \* bound: packets the server sends

ASSUME LinkAssumption ==
    /\ NMedia \in Nat \ {0} /\ MaxPackets \in Nat
    /\ Offers = [m \in 1..NMedia |-> Offers[m]]
    /\ Schemes \subseteq {"", "Basic", "Digest"} /\ Grants \subseteq {"keep", "count", "refuse"}

\* Interleaved, as the examples ask for it, and no channel twice.
ASSUME OffersAssumption ==
    /\ \A m \in 1..NMedia :
          /\ DOMAIN Offers[m] = DOMAIN TransportDefaults
          /\ Offers[m].proto = "TCP" /\ Offers[m].interleaved \in Nat \X Nat
    /\ \A m, n \in 1..NMedia : \A k, l \in {1, 2} :
          Offers[m].interleaved[k] = Offers[n].interleaved[l] => m = n /\ k = l

VARIABLES
    \* the client
    auth,          \* auth_: credentials, the last challenge, the last method and uri
    needAuth,      \* needAuth_
    cseq,          \* cseq_
    session,       \* sessionId_, "" is none
    transports,    \* transports_
    setupIter,     \* setupIter_
    pipelines,     \* pipelines_[id]
    cache,         \* cache_ and the current chunk: units not handled yet
    reading,       \* inside input()
    outcome,       \* what the application knows: "", "playing", "auth", "refused",
                   \* "error" of input(), or "threw" out of it
    \* the connection
    toServer, toClient,
    \* the server
    authParam,     \* authParam_
    serverSession, \* sessionId_
    granted,       \* the transports handleSetup agreed to
    setups,        \* how often it was called: interleaved_ of the example
    announced,     \* sdp_ of the push server has the media
    started,       \* PLAY or RECORD was handled
    packets,       \* packets sent, by the server or by a client that pushes
    \* chosen once: scheme, grant, whether the passwords agree, pipelining,
    \* whether OPTIONS comes first, the direction, and whether the control of
    \* the first medium is part of the URLs of the others
    world,
    \* histories
    challenges,    \* 401 responses
    delivered      \* packets handled, and the medium and channel kind they were given to

clientVars == <<auth, needAuth, cseq, session, transports, setupIter, pipelines, outcome>>
inputVars  == <<cache, reading>>
serverVars == <<authParam, serverSession, granted, setups, announced, started, packets>>
vars == <<clientVars, inputVars, toServer, toClient, serverVars, world, challenges, delivered>>

Worlds ==
    {w \in [scheme : Schemes, grant : Grants, rightPassword : BOOLEAN, pipelined : BOOLEAN,
            greets : BOOLEAN, push : BOOLEAN, nested : BOOLEAN] :
        (w.push => w.grant # "count") /\ (w.nested => w.push)}

Password(w) == IF w.rightPassword THEN "right" ELSE "wrong"

\* What the application asks first, for the media, and for the stream.
Offer == IF world.push THEN "ANNOUNCE" ELSE "DESCRIBE"
First == IF world.greets THEN "OPTIONS" ELSE Offer
Start == IF world.push THEN "RECORD" ELSE "PLAY"

Init ==
    /\ world \in Worlds
    /\ auth = [EmptyAuth EXCEPT !.username = "user", !.password = Password(world),
                                !.method = First, !.uri = 0]
    /\ needAuth = FALSE /\ cseq = 1 /\ session = "" /\ transports = <<>> /\ setupIter = 1
    /\ pipelines = <<>> /\ cache = <<>> /\ reading = FALSE /\ outcome = ""
    /\ toServer = <<[type |-> "request", cseq |-> 0, method |-> First, uri |-> 0, credentials |-> NoHeader,
                     session |-> "", pipe |-> FALSE, transport |-> NoTransport,
                     body |-> First = "ANNOUNCE"]>>
    /\ toClient = <<>>
    /\ authParam = EmptyAuth /\ serverSession = ""
    /\ granted = [m \in 1..NMedia |-> TransportDefaults] /\ setups = 0
    /\ announced = FALSE /\ started = FALSE /\ packets = 0
    /\ challenges = 0 /\ delivered = <<>>

-----------------------------------------------------------------------------
(* ServerHandle.                                                           *)

Reply(q, status) ==
    [type |-> "response", cseq |-> q.cseq, status |-> status, challenge |-> NoHeader,
     session |-> serverSession, pipe |-> q.pipe, transport |-> NoTransport]

\* 401 and 454 are sent before the Session and Pipelined-Requests headers are set.
Rejection(q, status) == [Reply(q, status) EXCEPT !.session = "", !.pipe = FALSE]

\* createNonce: a new text each time.
Nonce(n) == ToString(n)

GetAuthParam(n) ==
    [EmptyAuth EXCEPT !.scheme = world.scheme, !.username = "user", !.password = "right",
                      !.realm = "rtsp2-server", !.nonce = Nonce(n)]

Authorized(q) == world.scheme = "" \/ Verify(authParam, q.method, q.credentials)

SessionMatchesAlways(q) == q.session = serverSession
SessionMatches(q) ==
    IF q.session # "" THEN q.session = serverSession ELSE serverSession = "" \/ q.pipe

Challenge(q) ==
    /\ ~Authorized(q)
    /\ challenges' = challenges + 1
    /\ authParam' = GetAuthParam(challenges')
    /\ toClient' = Append(toClient,
          [Rejection(q, "Unauthorized") EXCEPT !.challenge = GenAuthInfo(authParam')])
    /\ UNCHANGED <<serverSession, granted, setups, announced, started>>

RejectSession(q) ==
    /\ Authorized(q) /\ ~SessionMatches(q)
    /\ toClient' = Append(toClient, Rejection(q, "SessionNotFound"))
    /\ UNCHANGED <<authParam, serverSession, granted, setups, announced, started, challenges>>

RefuseTransport(q) ==
    /\ Authorized(q) /\ SessionMatches(q) /\ q.method = "SETUP"
    /\ q.transport = NoTransport \/ world.grant = "refuse"
    /\ toClient' = Append(toClient, Reply(q, "UnsupportedTransport"))
    /\ UNCHANGED <<authParam, serverSession, granted, setups, announced, started, challenges>>

\* replaySetup around the handleSetup of the push server ("keep") or of the
\* pull server ("count").  The push server looks for the first medium of the
\* announced description whose control is part of the URL.
Slot(u) == IF world.nested THEN 1 ELSE u
Grant(t) ==
    IF world.grant = "count"
       THEN [t EXCEPT !.proto = "TCP", !.cast = "UNICAST", !.interleaved = <<2 * setups, 2 * setups + 1>>]
       ELSE t

ReplaySetup(q) ==
    LET t == Grant(Decode(q.transport)) IN
    /\ Authorized(q) /\ SessionMatches(q) /\ q.method = "SETUP"
    /\ q.transport # NoTransport /\ world.grant # "refuse"
    /\ granted' = IF world.push /\ ~announced THEN granted ELSE [granted EXCEPT ![Slot(q.uri)] = t]
    /\ setups' = setups + 1
    /\ serverSession' = "session"
    /\ toClient' = Append(toClient,
          [Reply(q, "OK") EXCEPT !.session = serverSession', !.transport = Encode(t)])
    /\ UNCHANGED <<authParam, announced, started, challenges>>

HandleOther(q) ==
    /\ Authorized(q) /\ SessionMatches(q) /\ q.method # "SETUP"
    /\ announced' = IF q.method = "ANNOUNCE" THEN q.body ELSE announced
    /\ started' = (started \/ q.method \in {"PLAY", "RECORD"})
    /\ toClient' = Append(toClient, Reply(q, "OK"))
    /\ UNCHANGED <<authParam, serverSession, granted, setups, challenges>>

HandleRequest ==
    /\ toServer # <<>> /\ Head(toServer).type = "request"
    /\ toServer' = Tail(toServer)
    /\ LET q == Head(toServer)
       IN  Challenge(q) \/ RejectSession(q) \/ RefuseTransport(q) \/ ReplaySetup(q) \/ HandleOther(q)
    /\ UNCHANGED <<clientVars, inputVars, packets, world, delivered>>

\* sendRtpRtcp: kind 1 is RTP, 2 is RTCP.
SendRtpRtcp ==
    /\ started /\ ~world.push /\ packets < MaxPackets
    /\ \E m \in 1..NMedia, kind \in {1, 2} :
       /\ granted[m] # TransportDefaults
       /\ toClient' = Append(toClient, [type |-> "packet", medium |-> m, kind |-> kind,
                                        channel |-> granted[m].interleaved[kind]])
    /\ packets' = packets + 1
    /\ UNCHANGED <<clientVars, inputVars, toServer, authParam, serverSession, granted, setups,
                   announced, started, world, challenges, delivered>>

\* handleRtp of the push server: whichever of its transports comes first.
HandleRtp ==
    /\ toServer # <<>> /\ Head(toServer).type = "packet"
    /\ LET packet == Head(toServer)
           owners == {o \in (1..NMedia) \X {1, 2} : granted[o[1]].interleaved[o[2]] = packet.channel}
       IN  \E given \in IF owners = {} THEN {<<>>} ELSE owners :
              delivered' = Append(delivered, [sent |-> <<packet.medium, packet.kind>>, given |-> given])
    /\ toServer' = Tail(toServer)
    /\ UNCHANGED <<clientVars, inputVars, toClient, serverVars, world, challenges>>

-----------------------------------------------------------------------------
(* Client: requests.  A call is the method, the URI and the transport.     *)

Call(m, u) == [method |-> m, uri |-> u, transport |-> NoTransport]
SetupCall(i) == [method |-> "SETUP", uri |-> i, transport |-> Encode(transports'[i])]

CallAuth(a, c) == [a EXCEPT !.method = c.method, !.uri = c.uri]

MakeRequest(n, c, pipe) ==
    [type |-> "request", cseq |-> n, method |-> c.method, uri |-> c.uri,
     credentials |-> IF needAuth THEN Credentials(CallAuth(auth, c)) ELSE NoHeader,
     session |-> session', pipe |-> pipe, transport |-> c.transport, body |-> c.method = "ANNOUNCE"]

\* Requests for all calls, pipelined or not; transports' and session' are given.
SendAll(calls, pipe) ==
    LET reqs == [i \in DOMAIN calls |-> MakeRequest(cseq + i - 1, calls[i], pipe)]
    IN  /\ auth' = (IF calls = <<>> THEN auth ELSE CallAuth(auth, Last(calls)))
        /\ cseq' = cseq + Len(calls)
        /\ toServer' = toServer \o reqs
        /\ pipelines' = IF pipe THEN pipelines \o reqs ELSE pipelines
        /\ UNCHANGED needAuth

SendNone == SendAll(<<>>, FALSE)
Knows(what) == outcome' = what

-----------------------------------------------------------------------------
(* Client: responses.                                                      *)

\* handleUnAuth, without Session, Pipelined-Requests, Transport and body; CSeq is
\* assigned as a char, and -n stands for the character of code n.
HandleUnAuth(res) ==
    /\ res.status = "Unauthorized" /\ ~needAuth
    /\ auth' = Parser(auth, res.challenge) /\ needAuth' = TRUE
    /\ cseq' = cseq + 1
    /\ toServer' = Append(toServer,
          [type |-> "request", cseq |-> -cseq, method |-> auth.method, uri |-> auth.uri, credentials |-> Credentials(auth'),
           session |-> "", pipe |-> FALSE, transport |-> NoTransport, body |-> FALSE])
    /\ UNCHANGED <<session, transports, setupIter, pipelines, outcome>>

AuthFailed(res) ==
    /\ res.status = "Unauthorized" /\ needAuth
    /\ UNCHANGED <<session, transports, setupIter>> /\ SendNone /\ Knows("auth")

Accepted(res) == res.status # "Unauthorized" /\ (session = "" \/ res.session # "")

SessionError(res) ==
    /\ res.status # "Unauthorized" /\ ~Accepted(res)
    /\ UNCHANGED <<session, transports, setupIter>> /\ SendNone /\ Knows("error")

\* The request is found by its CSeq; a SETUP response takes no transport over.
HandlePipelineResponse(res) ==
    LET i == SelectInSeq(pipelines, LAMBDA q : q.cseq = res.cseq)
        isSetup == pipelines[i].method = "SETUP"
    IN  /\ Accepted(res) /\ res.pipe
        /\ IF isSetup /\ res.transport = NoTransport
              THEN Knows("threw") /\ UNCHANGED <<session, pipelines>>
              ELSE /\ session' = IF isSetup /\ session = "" THEN res.session ELSE session
                   /\ pipelines' = RemoveAt(pipelines, i)
                   /\ Knows(IF isSetup THEN outcome ELSE "playing")
        /\ UNCHANGED <<auth, needAuth, cseq, transports, setupIter, toServer>>

Plain(res, method) == Accepted(res) /\ ~res.pipe /\ auth.method = method

\* The callbacks of the examples: OPTIONS leads to DESCRIBE or ANNOUNCE, that to
\* SETUP, ...

HandleOptions(res) ==
    /\ Plain(res, "OPTIONS")
    /\ UNCHANGED <<session, transports, setupIter, outcome>>
    /\ SendAll(<<Call(Offer, auth.uri)>>, FALSE)

HandleOffer(res) ==
    /\ Plain(res, Offer)
    /\ transports' = Offers /\ UNCHANGED <<session, outcome>>
    /\ IF world.pipelined
          THEN /\ setupIter' = NMedia + 1
               /\ SendAll([i \in 1..NMedia |-> SetupCall(i)] \o <<Call(Start, 0)>>, TRUE)
          ELSE setupIter' = 1 /\ SendAll(<<SetupCall(1)>>, FALSE)

StoredOffer(t) == transports[setupIter]
Stored(t) == t

AfterSame(i) == i
After(i) == i + 1

\* handleSetupResponse: PLAY or RECORD from the callback of the last one.
HandleSetup(res) ==
    /\ Plain(res, "SETUP") /\ res.status = "OK"
    /\ session' = IF session = "" THEN res.session ELSE session
    /\ transports' = [transports EXCEPT ![setupIter] = Stored(Decode(res.transport))]
    /\ setupIter' = After(setupIter)
    /\ SendAll(<<IF setupIter = NMedia THEN Call(Start, 0) ELSE SetupCall(setupIter')>>, FALSE)
    /\ UNCHANGED outcome

SetupRefused(res) ==
    /\ Plain(res, "SETUP") /\ res.status # "OK"
    /\ UNCHANGED <<session, transports, setupIter>> /\ SendNone /\ Knows("refused")

HandleStart(res) ==
    /\ Plain(res, Start)
    /\ UNCHANGED <<session, transports, setupIter>> /\ SendNone
    /\ Knows(IF res.status = "OK" THEN "playing" ELSE "refused")

HandleResponse(res) ==
    \/ HandleUnAuth(res) \/ AuthFailed(res) \/ SessionError(res)
    \/ HandlePipelineResponse(res)
    \/ HandleOptions(res) \/ HandleOffer(res) \/ HandleSetup(res) \/ SetupRefused(res)
    \/ HandleStart(res)

\* pushInterleavedBinaryData from the timer of the application, with the
\* channels that it had asked for.
PushPacket ==
    /\ world.push /\ outcome = "playing" /\ packets < MaxPackets
    /\ \E m \in 1..NMedia, kind \in {1, 2} :
          toServer' = Append(toServer, [type |-> "packet", medium |-> m, kind |-> kind,
                                        channel |-> Offers[m].interleaved[kind]])
    /\ packets' = packets + 1
    /\ UNCHANGED <<clientVars, inputVars, toClient, authParam, serverSession, granted, setups,
                   announced, started, world, challenges, delivered>>

-----------------------------------------------------------------------------
(* Client::input.                                                          *)

Open == outcome \notin {"error", "threw"}

Input ==
    /\ Open /\ ~reading
    /\ \E n \in 1..Len(toClient) :
          /\ cache' = cache \o SubSeq(toClient, 1, n)
          /\ toClient' = SubSeq(toClient, n + 1, Len(toClient))
    /\ reading' = TRUE
    /\ UNCHANGED <<clientVars, toServer, serverVars, world, challenges, delivered>>

\* The first of transports_ with the channel of the packet gets it.
OwnersOf(channel) ==
    {i \in DOMAIN transports : \E kind \in {1, 2} : transports[i].interleaved[kind] = channel}
Owner(channel) ==
    IF OwnersOf(channel) = {} THEN <<>>
    ELSE LET i == CHOOSE i \in OwnersOf(channel) : \A j \in OwnersOf(channel) : i <= j
         IN  <<i, IF transports[i].interleaved[1] = channel THEN 1 ELSE 2>>

CutPacket ==
    /\ Open /\ reading /\ cache # <<>> /\ Head(cache).type = "packet"
    /\ delivered' = Append(delivered, [sent |-> <<Head(cache).medium, Head(cache).kind>>,
                                       given |-> Owner(Head(cache).channel)])
    /\ cache' = Tail(cache)
    /\ UNCHANGED <<clientVars, reading, toServer, toClient, serverVars, world, challenges>>

CutMessage ==
    /\ Open /\ reading /\ cache # <<>> /\ Head(cache).type = "response"
    /\ HandleResponse(Head(cache))
    /\ cache' = Tail(cache) /\ reading' = FALSE
    /\ UNCHANGED <<toClient, serverVars, world, challenges, delivered>>

EndOfChunk ==
    /\ reading /\ cache = <<>>
    /\ reading' = FALSE
    /\ UNCHANGED <<clientVars, cache, toServer, toClient, serverVars, world, challenges, delivered>>

\* Nothing is on its way, or input() failed.
Quiet ==
    /\ ~Open \/ (toServer = <<>> /\ toClient = <<>> /\ ~reading)
    /\ UNCHANGED vars

Next ==
    \/ HandleRequest \/ HandleRtp \/ SendRtpRtcp
    \/ PushPacket \/ Input \/ CutPacket \/ CutMessage \/ EndOfChunk \/ Quiet

Spec == Init /\ [][Next]_vars

\* Both sides are given what arrives, and input() runs to its end.
FairSpec ==
    /\ Spec
    /\ WF_vars(HandleRequest \/ HandleRtp) /\ WF_vars(Input)
    /\ WF_vars(CutPacket \/ CutMessage \/ EndOfChunk)
-----------------------------------------------------------------------------
TypeOK ==
    /\ DOMAIN auth = Keys /\ auth.uri \in 0..NMedia
    /\ {needAuth, reading, announced, started} \subseteq BOOLEAN
    /\ cseq \in Nat /\ session \in {"", "session"} /\ serverSession \in {"", "session"}
    /\ Len(transports) \in {0, NMedia} /\ setupIter \in 1..(NMedia + 1)
    /\ outcome \in {"", "playing", "auth", "refused", "error", "threw"}
    /\ packets \in 0..MaxPackets /\ setups \in 0..NMedia /\ challenges \in Nat
    /\ \A m \in 1..NMedia : DOMAIN granted[m] = DOMAIN TransportDefaults

\* The transports_ of the client are not the server's: pipelined responses do
\* not update them.
Assigned == world.pipelined /\ world.grant = "count"

\* An ANNOUNCE that is the request to be challenged is repeated without its
\* description.
Undescribed == world.push /\ ~world.greets /\ world.scheme # ""

\* A packet reaches the callback of the medium, and of the kind, for which the
\* server sent it, whatever channels the server assigned and however packets
\* and responses share the connection; the push server takes what is pushed
\* for the medium it was pushed for, unless it finds the control of one medium
\* in the URL of another or was told of no media.
PacketsToTheirMedium ==
    ~Assigned /\ ~world.nested /\ ~Undescribed => \A i \in DOMAIN delivered : delivered[i].given = delivered[i].sent

\* The password alone decides: the right one is asked for once and never
\* reported, a wrong one opens no session, starts nothing, and is reported
\* before a third challenge.
SecretDecides ==
    world.scheme # "" =>
        IF world.rightPassword
           THEN challenges <= 1 /\ outcome # "auth"
           ELSE challenges <= 2 /\ serverSession = "" /\ ~started

\* Client and server never differ on the session: input() reports no session
\* error and the server rejects no request for its Session header.
SessionAgreed ==
    /\ session \in {"", serverSession} /\ outcome # "error"
    /\ \A i \in DOMAIN toClient : toClient[i].type = "response" => toClient[i].status # "SessionNotFound"

\* Without pipelining the flow ends, in the way that the world allows.
FlowEnds ==
    ~world.pipelined =>
        <>(outcome = IF world.scheme # "" /\ ~world.rightPassword THEN "auth"
                     ELSE IF world.grant = "refuse" THEN "refused" ELSE "playing")
=============================================================================
