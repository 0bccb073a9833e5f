--------------------------- MODULE RtspLinkProofs ---------------------------
(***************************************************************************)
(* For every number of media, all transports and any server, with and       *)
(* without credentials: the password alone decides, both sides mean the      *)
(* same session, the walk over the media stays within them, and packets      *)
(* come to the medium for which they were sent.                             *)
(***************************************************************************)
EXTENDS RtspLink, SequenceTheorems, WellFoundedInduction, TLAPS

\* A value of class Authenticate.
Filled(a) == a = [k \in Keys |-> a[k]]

\* What the client and the server have to agree on, but for the password.
Alike(a, p) ==
    /\ a.scheme = p.scheme /\ a.username = p.username
    /\ p.scheme = "Digest" => a.realm = p.realm /\ a.nonce = p.nonce

-----------------------------------------------------------------------------
(* Credentials.                                                            *)

\* A request without credentials is challenged.
LEMMA NoneVerified == ASSUME NEW p, NEW m PROVE ~Verify(p, m, NoHeader)
  BY DEF Verify

\* What a header of the client is read as.
LEMMA CredentialsRead ==
    ASSUME NEW a, Filled(a), a.scheme \in {"Basic", "Digest"}
    PROVE  LET read == Parser(EmptyAuth, Credentials(a))
           IN  /\ read.scheme = a.scheme
               /\ a.scheme = "Basic" => read.response = BasicText(a)
               /\ a.scheme = "Digest" => /\ read.nonce = a.nonce /\ read.uri = a.uri
                                         /\ read.response = MakeResponse(a)
<1>1. CASE a.scheme = "Basic"
  BY <1>1 DEF Parser, Taken, Credentials, EmptyAuth, Keys
<1>2. CASE a.scheme = "Digest"
  BY <1>2 DEF Parser, Taken, Credentials, EmptyAuth, Keys, ParsedKeys
<1> QED BY <1>1, <1>2

\* The credentials of the client are accepted if the passwords are the same ...
LEMMA RightVerified ==
    ASSUME NEW a, NEW p, NEW m, Filled(a), Filled(p), p.scheme \in {"Basic", "Digest"},
           Alike(a, p), a.password = p.password
    PROVE  Verify(p, a.method, Credentials(a))
<1>1. Credentials(a) # NoHeader
  BY DEF Credentials, NoHeader, Alike
<1>2. CASE p.scheme = "Basic"
  BY <1>1, <1>2, CredentialsRead DEF Verify, Alike, BasicText
<1>3. CASE p.scheme = "Digest"
  <2> DEFINE e == [p EXCEPT !.method = a.method, !.uri = a.uri]
  <2>1. e.username = p.username /\ e.realm = p.realm /\ e.password = p.password /\ e.nonce = p.nonce
        /\ e.method = a.method /\ e.uri = a.uri
    BY DEF Filled, Keys
  <2>2. MakeResponse(e) = MakeResponse(a)
    BY <1>3, <2>1 DEF MakeResponse, Alike
  <2> QED BY <1>1, <1>3, <2>2, CredentialsRead DEF Verify, Alike
<1> QED BY <1>2, <1>3

\* ... and rejected if they differ.
LEMMA WrongRejected ==
    ASSUME NEW a, NEW p, NEW m, Filled(a), Filled(p), p.scheme \in {"Basic", "Digest"},
           a.scheme = p.scheme, a.password # p.password
    PROVE  ~Verify(p, m, Credentials(a))
<1>1. CASE p.scheme = "Basic"
  <2>1. BasicText(a) # BasicText(p)
    BY DEF BasicText
  <2> QED BY <1>1, <2>1, CredentialsRead DEF Verify
<1>2. CASE p.scheme = "Digest"
  <2> DEFINE e == [p EXCEPT !.method = m, !.uri = a.uri]
  <2>1. e.password = p.password
    BY DEF Filled, Keys
  <2>2. MakeResponse(a) # MakeResponse(e)
    BY <2>1 DEF MakeResponse
  <2> QED BY <1>2, <2>2, CredentialsRead DEF Verify
<1> QED BY <1>1, <1>2

\* A challenge tells the client all but the password.
LEMMA ChallengeRead ==
    ASSUME NEW a, NEW p, Filled(a), Filled(p), p.scheme \in {"Basic", "Digest"},
           a.username = p.username
    PROVE  LET b == Parser(a, GenAuthInfo(p))
           IN  Filled(b) /\ Alike(b, p) /\ b.password = a.password /\ b.method = a.method
<1>1. CASE p.scheme = "Basic"
  BY <1>1 DEF Parser, Taken, GenAuthInfo, Filled, Alike, Keys
<1>2. CASE p.scheme = "Digest"
  BY <1>2 DEF Parser, Taken, GenAuthInfo, Filled, Alike, Keys, ParsedKeys
<1> QED BY <1>1, <1>2

-----------------------------------------------------------------------------
(* The invariant: the phases of a protected connection.                    *)

Protected == world.scheme # ""

ClientAuth == Filled(auth) /\ auth.username = "user" /\ auth.password = Password(world)

\* Nothing is on its way to the client, or one 401.
Silent == toClient = <<>> /\ cache = <<>>
Coming(r) ==
    /\ r.type = "response" /\ r.status = "Unauthorized" /\ r.challenge = GenAuthInfo(authParam)
    /\ \/ toClient = <<r>> /\ cache = <<>>
       \/ toClient = <<>> /\ cache = <<r>>

Nothing == serverSession = "" /\ ~started

\* The first request is open; it has no credentials.
Asked ==
    /\ challenges = 0 /\ ~needAuth /\ Nothing /\ outcome = "" /\ Silent
    /\ \E q : toServer = <<q>> /\ q.type = "request" /\ q.credentials = NoHeader

\* It was challenged.
Challenged ==
    /\ challenges = 1 /\ ~needAuth /\ Nothing /\ outcome = "" /\ toServer = <<>>
    /\ authParam = GetAuthParam(1)
    /\ \E r : Coming(r)

\* The right password: every request from then on answers the one challenge.
Agreed ==
    /\ challenges = 1 /\ needAuth /\ outcome # "auth"
    /\ authParam = GetAuthParam(1) /\ Alike(auth, authParam)
Accepting ==
    \E S : toServer \in Seq(S) /\ \A q \in S : q.type = "request" => Authorized(q)
Unchallenged ==
    \E S : /\ toClient \in Seq(S) /\ cache \in Seq(S)
           /\ \A r \in S : r.type = "response" => r.status # "Unauthorized"
Trusted == world.rightPassword /\ Agreed /\ Accepting /\ Unchallenged

\* A wrong one: the repetition is open, it was challenged too, and the
\* application has been told.
Retried ==
    /\ ~world.rightPassword
    /\ challenges = 1 /\ needAuth /\ Nothing /\ outcome = "" /\ Silent
    /\ \E q : toServer = <<q>> /\ q.type = "request" /\ ~Authorized(q)

Reported ==
    /\ ~world.rightPassword
    /\ challenges = 2 /\ needAuth /\ Nothing /\ outcome = "" /\ toServer = <<>>
    /\ \E r : Coming(r)

Ended ==
    /\ ~world.rightPassword
    /\ challenges = 2 /\ Nothing /\ outcome = "auth" /\ toServer = <<>> /\ Silent

Phases == Asked \/ Challenged \/ Trusted \/ Retried \/ Reported \/ Ended

IInv == world \in Worlds /\ (Protected => ClientAuth /\ Phases)

-----------------------------------------------------------------------------
(* What the steps leave alone.                                             *)

\* A server that asks for credentials knows a scheme and a password.
LEMMA WorldFacts ==
    ASSUME world \in Worlds, Protected
    PROVE  world.scheme \in {"Basic", "Digest"} /\ world.rightPassword \in BOOLEAN
  BY LinkAssumption DEF Worlds, Protected

\* Neither changes during the connection.
LEMMA WorldKept == [Next]_vars => world' = world
  BY DEF Next, vars, HandleRequest, HandleRtp, SendRtpRtcp, PushPacket, Input, CutPacket,
         CutMessage, EndOfChunk, Quiet

\* The server's parameters are complete, and have the right password.
LEMMA ParamFacts ==
    ASSUME NEW n
    PROVE  /\ Filled(GetAuthParam(n)) /\ GetAuthParam(n).scheme = world.scheme
           /\ GetAuthParam(n).username = "user" /\ GetAuthParam(n).password = "right"
  BY DEF GetAuthParam, EmptyAuth, Filled, Keys

\* One challenge, when the only request is not accepted.
LEMMA RequestChallenged ==
    ASSUME NEW q, toServer = <<q>>, ~Authorized(q), HandleRequest, Silent, NEW n \in Nat, challenges = n
    PROVE  /\ toServer' = <<>> /\ challenges' = n + 1 /\ authParam' = GetAuthParam(n + 1)
           /\ \E r : Coming(r)'
           /\ UNCHANGED <<needAuth, auth, outcome, serverSession, started, world>>
<1>1. Head(toServer) = q /\ Tail(toServer) = <<>>
  OBVIOUS
<1>2. Challenge(q) /\ toServer' = <<>> /\ UNCHANGED <<clientVars, inputVars, world>>
  BY <1>1 DEF HandleRequest, RejectSession, RefuseTransport, ReplaySetup, HandleOther
<1>3. PICK r : r = [Rejection(q, "Unauthorized") EXCEPT !.challenge = GenAuthInfo(authParam')]
  OBVIOUS
<1>4. toClient' = <<r>> /\ cache' = <<>>
  BY <1>2, <1>3 DEF Challenge, Silent, inputVars
<1>5. r.type = "response" /\ r.status = "Unauthorized" /\ r.challenge = GenAuthInfo(authParam')
  BY <1>3 DEF Rejection, Reply
<1>6. Coming(r)'
  BY <1>4, <1>5 DEF Coming
<1> QED BY <1>2, <1>6 DEF Challenge, clientVars

phaseVars == <<clientVars, toServer, toClient, cache, serverSession, started, authParam, world, challenges>>

\* A phase lasts while its variables stay.
LEMMA PhaseKept == IInv /\ UNCHANGED phaseVars => IInv'
<1> SUFFICES ASSUME IInv, UNCHANGED phaseVars PROVE IInv'
  OBVIOUS
<1>1. /\ UNCHANGED <<auth, needAuth, outcome, toServer, toClient, cache, serverSession, started>>
      /\ UNCHANGED <<authParam, world, challenges>>
  BY DEF phaseVars, clientVars
<1>2. ClientAuth => ClientAuth'
  BY <1>1 DEF ClientAuth, Password
<1>3. Silent' = Silent /\ Nothing' = Nothing /\ (\A r : Coming(r)' = Coming(r))
  BY <1>1 DEF Silent, Nothing, Coming
<1>4. GetAuthParam(1)' = GetAuthParam(1) /\ \A q : Authorized(q)' = Authorized(q)
  BY <1>1 DEF GetAuthParam, Authorized
<1>5. (Asked => Asked') /\ (Retried => Retried') /\ (Ended => Ended')
  BY <1>1, <1>3, <1>4 DEF Asked, Retried, Ended
<1>6. (Challenged => Challenged') /\ (Reported => Reported')
  BY <1>1, <1>3, <1>4 DEF Challenged, Reported
<1>7. Trusted => Trusted'
  BY <1>1, <1>4 DEF Trusted, Agreed, Accepting, Unchallenged
<1> QED BY <1>1, <1>2, <1>5, <1>6, <1>7 DEF IInv, Protected, Phases

\* While nothing was started, nobody sends packets.
LEMMA NoPackets ==
    ASSUME Nothing, outcome # "playing", [Next]_vars,
           toServer = <<>> \/ \E q : toServer = <<q>> /\ q.type = "request",
           Silent \/ \E r : Coming(r)
    PROVE  HandleRequest \/ Input \/ CutMessage \/ UNCHANGED phaseVars
<1>1. ~HandleRtp
  BY DEF HandleRtp
<1>2. ~SendRtpRtcp /\ ~PushPacket
  BY DEF SendRtpRtcp, PushPacket, Nothing
<1>3. ~CutPacket
  BY DEF CutPacket, Silent, Coming
<1>4. EndOfChunk \/ Quiet \/ UNCHANGED vars => UNCHANGED phaseVars
  BY DEF EndOfChunk, Quiet, vars, phaseVars, serverVars, inputVars, clientVars
<1> QED BY <1>1, <1>2, <1>3, <1>4 DEF Next

\* Silence gives input() nothing to do.
LEMMA SilentIdle == Silent => ~Input /\ ~CutMessage
  BY DEF Silent, Input, CutMessage

\* A rejection reaches the client whole.
LEMMA InputComing ==
    ASSUME NEW r, Coming(r), Input
    PROVE  Coming(r)' /\ UNCHANGED <<clientVars, toServer, serverVars, world, challenges>>
<1>1. PICK n \in 1..Len(toClient) :
         /\ cache' = cache \o SubSeq(toClient, 1, n)
         /\ toClient' = SubSeq(toClient, n + 1, Len(toClient))
  BY DEF Input
<1>2. toClient = <<r>> /\ cache = <<>> /\ n = 1
  BY <1>1 DEF Coming
<1>3. cache' = <<r>> /\ toClient' = <<>>
  <2>1. PICK s : s = <<r>>
    OBVIOUS
  <2>2. s \in Seq({r}) /\ Len(s) = 1
    BY <2>1
  <2>3. SubSeq(s, 1, 1) = s
    BY <2>2, SubSeqFull
  <2>4. SubSeq(s, 1 + 1, Len(s)) = <<>>
    BY <2>2, SubSeqEmpty
  <2>5. <<>> \o s = s
    BY <2>2, ConcatEmptySeq
  <2> QED BY <1>1, <1>2, <2>1, <2>3, <2>4, <2>5
<1>4. UNCHANGED <<clientVars, toServer, serverVars, world, challenges>>
  BY DEF Input
<1> QED BY <1>3, <1>4 DEF Coming, serverVars

\* The open request is challenged: the first, or a repetition with a wrong password.
LEMMA AskedStep == ASSUME IInv, Protected, Asked, [Next]_vars PROVE IInv'
<1>1. PICK q : toServer = <<q>> /\ q.type = "request" /\ q.credentials = NoHeader
  BY DEF Asked
<1>2. CASE UNCHANGED phaseVars
  BY <1>2, PhaseKept
<1>3. CASE HandleRequest
  <2>1. ~Authorized(q)
    BY <1>1, NoneVerified DEF Authorized, Protected
  <2>2. /\ toServer' = <<>> /\ challenges' = 1 /\ authParam' = GetAuthParam(1)
        /\ \E r : Coming(r)'
        /\ UNCHANGED <<needAuth, auth, outcome, serverSession, started, world>>
    <3>1. challenges = 0 /\ Silent /\ 0 \in Nat
      BY DEF Asked
    <3>2. 0 + 1 = 1
      OBVIOUS
    <3> QED BY <1>1, <1>3, <2>1, <3>1, <3>2, RequestChallenged, Zenon
  <2>3. Challenged'
    BY <2>2 DEF Asked, Challenged, Nothing, GetAuthParam
  <2> QED BY <2>2, <2>3 DEF IInv, Protected, ClientAuth, Phases, Password
<1> QED BY <1>1, <1>2, <1>3, NoPackets, SilentIdle DEF Asked

\* A repetition whose password is wrong is challenged again and reported.
LEMMA RetriedStep == ASSUME IInv, Protected, Retried, [Next]_vars PROVE IInv'
<1>1. PICK q : toServer = <<q>> /\ q.type = "request" /\ ~Authorized(q)
  BY DEF Retried
<1>2. CASE UNCHANGED phaseVars
  BY <1>2, PhaseKept
<1>3. CASE HandleRequest
  <2>1. /\ toServer' = <<>> /\ challenges' = 2
        /\ \E r : Coming(r)'
        /\ UNCHANGED <<needAuth, auth, outcome, serverSession, started, world>>
    <3>1. challenges = 1 /\ Silent /\ 1 \in Nat
      BY DEF Retried
    <3>2. 1 + 1 = 2
      OBVIOUS
    <3> QED BY <1>1, <1>3, <3>1, <3>2, RequestChallenged, Zenon
  <2>2. Reported'
    BY <2>1 DEF Retried, Reported, Nothing
  <2> QED BY <2>1, <2>2 DEF IInv, Protected, ClientAuth, Phases, Password
<1> QED BY <1>1, <1>2, <1>3, NoPackets, SilentIdle DEF Retried

\* Nothing is open and nothing is sent any more.
LEMMA EndedStep == ASSUME IInv, Protected, Ended, [Next]_vars PROVE IInv'
<1>1. ~HandleRequest
  BY DEF Ended, HandleRequest
<1> QED BY <1>1, PhaseKept, NoPackets, SilentIdle DEF Ended

-----------------------------------------------------------------------------
(* A rejection.                                                            *)

\* A response that comes first is the one handled.
LEMMA ComingHandled ==
    ASSUME NEW r, Coming(r), CutMessage
    PROVE  /\ Silent' /\ UNCHANGED <<serverVars, world, challenges>>
           /\ IF needAuth THEN AuthFailed(r) ELSE HandleUnAuth(r)
<1>1. cache = <<r>> /\ toClient = <<>>
  BY DEF CutMessage, Coming
<1>2. Head(cache) = r /\ Tail(cache) = <<>>
  BY <1>1
<1>3. Silent' /\ HandleResponse(r) /\ UNCHANGED <<serverVars, world, challenges>>
  BY <1>1, <1>2 DEF CutMessage, Silent
<1>4. r.status = "Unauthorized"
  BY DEF Coming
<1>5. HandleUnAuth(r) \/ AuthFailed(r)
  BY <1>3, <1>4 DEF HandleResponse, SessionError, HandlePipelineResponse, Accepted, HandleOptions,
        HandleOffer, HandleSetup, SetupRefused, HandleStart, Plain
<1> QED BY <1>3, <1>5 DEF HandleUnAuth, AuthFailed

\* The client repeats its request with credentials.
LEMMA ChallengedStep == ASSUME IInv, Protected, Challenged, [Next]_vars PROVE IInv'
<1>1. PICK r : Coming(r)
  BY DEF Challenged
<1>2. HandleRequest \/ Input \/ CutMessage \/ UNCHANGED phaseVars
  BY <1>1, NoPackets DEF Challenged
<1>3. ~HandleRequest
  BY DEF Challenged, HandleRequest
<1>4. CASE UNCHANGED phaseVars
  BY <1>4, PhaseKept
<1>5. CASE Input
  <2>1. Coming(r)' /\ UNCHANGED <<clientVars, toServer, serverVars, world, challenges>>
    BY <1>1, <1>5, InputComing
  <2>2. UNCHANGED <<auth, needAuth, outcome, toServer, authParam, serverSession, started, world, challenges>>
    BY <2>1 DEF clientVars, serverVars
  <2>3. Challenged'
    BY <2>1, <2>2 DEF Challenged, Nothing, GetAuthParam
  <2> QED BY <2>2, <2>3 DEF IInv, Protected, ClientAuth, Password, Phases
<1>6. CASE CutMessage
  <2>1. Silent' /\ UNCHANGED <<serverVars, world, challenges>> /\ HandleUnAuth(r)
    BY <1>1, <1>6, ComingHandled DEF Challenged
  <2>2. UNCHANGED <<authParam, serverSession, started, world, challenges, outcome>>
    BY <2>1 DEF serverVars, HandleUnAuth
  <2>3. /\ Filled(auth) /\ auth.username = "user" /\ auth.password = Password(world)
        /\ authParam = GetAuthParam(1) /\ toServer = <<>>
        /\ world.scheme \in {"Basic", "Digest"} /\ world.rightPassword \in BOOLEAN
    BY WorldFacts DEF IInv, ClientAuth, Challenged
  <2>4. /\ Filled(authParam) /\ authParam.scheme = world.scheme
        /\ authParam.username = "user" /\ authParam.password = "right"
    BY <2>3, ParamFacts
  <2>5. auth' = Parser(auth, GenAuthInfo(authParam)) /\ needAuth'
    BY <1>1, <2>1 DEF HandleUnAuth, Coming
  <2>6. /\ Filled(auth') /\ Alike(auth', authParam) /\ auth'.password = Password(world)
        /\ auth'.method = auth.method
    BY <2>3, <2>4, <2>5, ChallengeRead
  <2>7. PICK q : /\ toServer' = Append(toServer, q) /\ q.type = "request" /\ q.method = auth'.method
                 /\ q.credentials = Credentials(auth')
    <3>1. PICK q : q = [type |-> "request", cseq |-> -cseq, method |-> auth.method, uri |-> auth.uri,
                        credentials |-> Credentials(auth'), session |-> "", pipe |-> FALSE,
                        transport |-> NoTransport, body |-> FALSE]
      OBVIOUS
    <3>2. toServer' = Append(toServer, q)
      BY <2>1, <3>1 DEF HandleUnAuth
    <3>3. q.type = "request" /\ q.method = auth.method /\ q.credentials = Credentials(auth')
      BY <3>1
    <3> QED BY <2>6, <3>2, <3>3
  <2>8. toServer' = <<q>>
    BY <2>3, <2>7
  <2>9. ClientAuth'
    BY <2>2, <2>4, <2>6 DEF ClientAuth, Alike, Password
  <2>10. CASE world.rightPassword
    <3>1. auth'.password = authParam.password
      BY <2>4, <2>6, <2>10 DEF Password
    <3>2. Verify(authParam, auth'.method, Credentials(auth'))
      BY <2>3, <2>4, <2>6, <3>1, RightVerified
    <3>3. Authorized(q)'
      BY <2>2, <2>7, <3>2 DEF Authorized
    <3>4. toServer' \in Seq({q}) /\ \A s \in {q} : (s.type = "request" => Authorized(s)')
      BY <2>8, <3>3
    <3>5. Accepting'
      BY <3>4 DEF Accepting
    <3>6. Unchallenged'
      <4>1. toClient' \in Seq({}) /\ cache' \in Seq({})
        BY <2>1, EmptySeq DEF Silent
      <4> QED BY <4>1 DEF Unchallenged
    <3>7. Agreed'
      BY <2>2, <2>3, <2>5, <2>6 DEF Agreed, Challenged, GetAuthParam
    <3> QED BY <2>2, <2>9, <2>10, <3>5, <3>6, <3>7 DEF IInv, Phases, Trusted
  <2>11. CASE ~world.rightPassword
    <3>1. auth'.password # authParam.password
      BY <2>4, <2>6, <2>11 DEF Password
    <3>2. ~Verify(authParam, q.method, Credentials(auth'))
      BY <2>3, <2>4, <2>6, <3>1, WrongRejected DEF Alike
    <3>3. ~Authorized(q)'
      BY <2>2, <2>3, <2>7, <3>2 DEF Authorized
    <3>4. Retried'
      BY <2>1, <2>2, <2>5, <2>7, <2>8, <2>11, <3>3 DEF Retried, Challenged, Nothing
    <3> QED BY <2>2, <2>9, <3>4 DEF IInv, Phases
  <2> QED BY <2>3, <2>10, <2>11
<1> QED BY <1>2, <1>3, <1>4, <1>5, <1>6

\* The application is told of the second one.
LEMMA ReportedStep == ASSUME IInv, Protected, Reported, [Next]_vars PROVE IInv'
<1>1. PICK r : Coming(r)
  BY DEF Reported
<1>2. HandleRequest \/ Input \/ CutMessage \/ UNCHANGED phaseVars
  BY <1>1, NoPackets DEF Reported
<1>3. ~HandleRequest
  BY DEF Reported, HandleRequest
<1>4. CASE UNCHANGED phaseVars
  BY <1>4, PhaseKept
<1>5. CASE Input
  <2>1. Coming(r)' /\ UNCHANGED <<clientVars, toServer, serverVars, world, challenges>>
    BY <1>1, <1>5, InputComing
  <2>2. UNCHANGED <<auth, needAuth, outcome, toServer, authParam, serverSession, started, world, challenges>>
    BY <2>1 DEF clientVars, serverVars
  <2>3. Reported'
    BY <2>1, <2>2 DEF Reported, Nothing
  <2> QED BY <2>2, <2>3 DEF IInv, Protected, ClientAuth, Password, Phases
<1>6. CASE CutMessage
  <2>1. Silent' /\ UNCHANGED <<serverVars, world, challenges>> /\ AuthFailed(r)
    BY <1>1, <1>6, ComingHandled DEF Reported
  <2>2. UNCHANGED <<authParam, serverSession, started, world, challenges>>
    BY <2>1 DEF serverVars
  <2>3. outcome' = "auth" /\ auth' = auth /\ toServer' = toServer \o <<>>
    BY <2>1 DEF AuthFailed, SendNone, SendAll, Knows
  <2>4. toServer' = <<>>
    <3>1. toServer = <<>> /\ <<>> \in Seq({})
      BY EmptySeq DEF Reported
    <3>2. <<>> \o <<>> = <<>>
      BY <3>1, ConcatEmptySeq
    <3> QED BY <2>3, <3>1, <3>2
  <2>5. Ended'
    BY <2>1, <2>2, <2>3, <2>4 DEF Reported, Ended, Nothing
  <2> QED BY <2>2, <2>3, <2>5 DEF IInv, Protected, ClientAuth, Password, Phases
<1> QED BY <1>2, <1>3, <1>4, <1>5, <1>6

-----------------------------------------------------------------------------
(* Trust: requests carry the credentials, and responses are no challenges. *)

\* The credentials for a call are accepted.
LEMMA CallAccepted ==
    ASSUME IInv, Protected, Trusted, NEW c, NEW n, NEW pipe
    PROVE  /\ Filled(CallAuth(auth, c)) /\ Alike(CallAuth(auth, c), authParam)
           /\ CallAuth(auth, c).username = "user" /\ CallAuth(auth, c).password = Password(world)
           /\ Authorized(MakeRequest(n, c, pipe))
<1>1. /\ Filled(auth) /\ auth.username = "user" /\ auth.password = "right" /\ Password(world) = "right"
      /\ Alike(auth, authParam) /\ authParam = GetAuthParam(1) /\ needAuth
  BY DEF IInv, ClientAuth, Trusted, Agreed, Password
<1>2. Filled(authParam) /\ authParam.scheme = world.scheme /\ authParam.password = "right"
  BY <1>1, ParamFacts
<1>3. PICK a : a = CallAuth(auth, c)
  OBVIOUS
<1>4. /\ Filled(a) /\ a.scheme = auth.scheme /\ a.username = auth.username
      /\ a.password = auth.password /\ a.realm = auth.realm /\ a.nonce = auth.nonce /\ a.method = c.method
  BY <1>1, <1>3 DEF CallAuth, Filled, Keys
<1>5. Alike(a, authParam)
  BY <1>1, <1>4 DEF Alike
<1>6. authParam.scheme \in {"Basic", "Digest"}
  BY <1>2, WorldFacts DEF IInv
<1>7. Verify(authParam, a.method, Credentials(a))
  BY <1>1, <1>2, <1>4, <1>5, <1>6, RightVerified
<1>8. MakeRequest(n, c, pipe).method = c.method /\ MakeRequest(n, c, pipe).credentials = Credentials(a)
  BY <1>1, <1>3 DEF MakeRequest
<1> QED BY <1>1, <1>3, <1>4, <1>5, <1>7, <1>8 DEF Authorized

\* All requests that the client sends are.
LEMMA SendAllTrusted ==
    ASSUME IInv, Protected, Trusted, NEW C, NEW calls \in Seq(C), NEW pipe, SendAll(calls, pipe),
           UNCHANGED <<authParam, world, challenges>>, outcome' # "auth", Unchallenged'
    PROVE  IInv'
<1>1. PICK S : toServer \in Seq(S) /\ \A q \in S : q.type = "request" => Authorized(q)
  BY DEF Trusted, Accepting
<1> DEFINE R == {MakeRequest(cseq + i - 1, calls[i], pipe) : i \in 1..Len(calls)}
           reqs == [i \in 1..Len(calls) |-> MakeRequest(cseq + i - 1, calls[i], pipe)]
<1>2. toServer' = toServer \o reqs /\ needAuth' = needAuth
      /\ auth' = (IF calls = <<>> THEN auth ELSE CallAuth(auth, Last(calls)))
  BY DEF SendAll
<1>3. reqs \in Seq(R)
  BY DEF Seq
<1>4. toServer' \in Seq(S \cup R)
  <2>1. PICK s : s = reqs
    OBVIOUS
  <2>2. s \in Seq(S \cup R) /\ toServer \in Seq(S \cup R)
    BY <1>1, <1>3, <2>1, SeqMonotonic
  <2> QED BY <1>2, <2>1, <2>2, ConcatProperties
<1>5. \A q \in R : Authorized(q)
  BY CallAccepted
<1>6. Accepting'
  <2>1. \A q : Authorized(q)' = Authorized(q)
    BY DEF Authorized
  <2>2. \A q \in S \cup R : q.type = "request" => Authorized(q)'
    BY <1>1, <1>5, <2>1
  <2> QED BY <1>4, <2>2 DEF Accepting
<1>7. ClientAuth' /\ Alike(auth, authParam)'
  <2>1. CASE calls = <<>>
    BY <1>2, <2>1 DEF IInv, ClientAuth, Password, Trusted, Agreed
  <2>2. CASE calls # <<>>
    BY <1>2, <2>2, CallAccepted DEF ClientAuth, Password
  <2> QED BY <2>1, <2>2
<1>8. Agreed'
  BY <1>2, <1>7 DEF Trusted, Agreed, GetAuthParam
<1> QED BY <1>6, <1>7, <1>8 DEF IInv, Phases, Trusted

\* One unit more, or one less, on either side.
LEMMA ClientTold ==
    ASSUME Unchallenged, NEW r, r.type = "response" => r.status # "Unauthorized",
           toClient' = Append(toClient, r), cache' = cache
    PROVE  Unchallenged'
<1>1. PICK S : /\ toClient \in Seq(S) /\ cache \in Seq(S)
               /\ \A u \in S : u.type = "response" => u.status # "Unauthorized"
  BY DEF Unchallenged
<1>2. toClient \in Seq(S \cup {r}) /\ cache \in Seq(S \cup {r}) /\ r \in S \cup {r}
  BY <1>1, SeqMonotonic
<1>3. toClient' \in Seq(S \cup {r}) /\ cache' \in Seq(S \cup {r})
  BY <1>2, AppendProperties
<1>4. \A u \in S \cup {r} : u.type = "response" => u.status # "Unauthorized"
  BY <1>1
<1> QED BY <1>3, <1>4 DEF Unchallenged

\* Taking a unit off the buffer brings no challenge.
LEMMA ClientTakes ==
    ASSUME Unchallenged, cache # <<>>, cache' = Tail(cache), toClient' = toClient
    PROVE  Unchallenged' /\ (Head(cache).type = "response" => Head(cache).status # "Unauthorized")
<1>1. PICK S : /\ toClient \in Seq(S) /\ cache \in Seq(S)
               /\ \A u \in S : u.type = "response" => u.status # "Unauthorized"
  BY DEF Unchallenged
<1>2. Head(cache) \in S /\ cache' \in Seq(S)
  BY <1>1, HeadTailProperties
<1> QED BY <1>1, <1>2 DEF Unchallenged

\* The server accepts what is sent with credentials, behind what it has.
LEMMA ServerTold ==
    ASSUME Accepting, NEW q, q.type = "request" => Authorized(q),
           toServer' = Append(toServer, q), UNCHANGED <<authParam, world>>
    PROVE  Accepting'
<1>1. PICK S : toServer \in Seq(S) /\ \A u \in S : u.type = "request" => Authorized(u)
  BY DEF Accepting
<1>2. toServer \in Seq(S \cup {q}) /\ q \in S \cup {q}
  BY <1>1, SeqMonotonic
<1>3. toServer' \in Seq(S \cup {q})
  BY <1>2, AppendProperties
<1>4. \A u \in S \cup {q} : u.type = "request" => Authorized(u)'
  BY <1>1 DEF Authorized
<1> QED BY <1>3, <1>4 DEF Accepting

\* And goes on accepting the rest.
LEMMA ServerTakes ==
    ASSUME Accepting, toServer # <<>>, toServer' = Tail(toServer)
    PROVE  /\ UNCHANGED <<authParam, world>> => Accepting'
           /\ Head(toServer).type = "request" => Authorized(Head(toServer))
<1>1. PICK S : toServer \in Seq(S) /\ \A u \in S : u.type = "request" => Authorized(u)
  BY DEF Accepting
<1>2. Head(toServer) \in S /\ toServer' \in Seq(S)
  BY <1>1, HeadTailProperties
<1> QED BY <1>1, <1>2 DEF Accepting, Authorized

\* What the requests of a trusted client lead to.
LEMMA TrustedRequest == ASSUME IInv, Protected, Trusted, HandleRequest PROVE IInv'
<1>1. PICK q : q = Head(toServer)
  OBVIOUS
<1>2. /\ toServer # <<>> /\ q.type = "request" /\ toServer' = Tail(toServer)
      /\ UNCHANGED <<clientVars, cache, world>>
      /\ Challenge(q) \/ RejectSession(q) \/ RefuseTransport(q) \/ ReplaySetup(q) \/ HandleOther(q)
  BY <1>1 DEF HandleRequest, inputVars
<1>3. Authorized(q)
  BY <1>1, <1>2, ServerTakes DEF Trusted
<1>4. /\ UNCHANGED <<authParam, challenges>>
      /\ \E r : toClient' = Append(toClient, r) /\ r.status # "Unauthorized"
  <2>1. ASSUME NEW status, status # "Unauthorized"
        PROVE  /\ Rejection(q, status).status # "Unauthorized" /\ Reply(q, status).status # "Unauthorized"
               /\ \A s, t : [Reply(q, status) EXCEPT !.session = s, !.transport = t].status # "Unauthorized"
    BY <2>1 DEF Rejection, Reply
  <2>2. CASE RejectSession(q)
    BY <2>1, <2>2 DEF RejectSession
  <2>3. CASE RefuseTransport(q)
    BY <2>1, <2>3 DEF RefuseTransport
  <2>4. CASE ReplaySetup(q)
    BY <2>1, <2>4 DEF ReplaySetup
  <2>5. CASE HandleOther(q)
    BY <2>1, <2>5 DEF HandleOther
  <2> QED BY <1>2, <1>3, <2>2, <2>3, <2>4, <2>5 DEF Challenge
<1>5. Unchallenged'
  BY <1>2, <1>4, ClientTold DEF Trusted
<1>6. Accepting'
  BY <1>2, <1>4, ServerTakes DEF Trusted
<1>7. Agreed' /\ ClientAuth' /\ world.rightPassword'
  BY <1>2, <1>4 DEF IInv, Trusted, Agreed, ClientAuth, Password, GetAuthParam, clientVars
<1> QED BY <1>2, <1>5, <1>6, <1>7 DEF IInv, Phases, Trusted

\* Its responses.
LEMMA TrustedMessage == ASSUME IInv, Protected, Trusted, CutMessage PROVE IInv'
<1>1. PICK r : r = Head(cache)
  OBVIOUS
<1>2. /\ cache # <<>> /\ r.type = "response" /\ cache' = Tail(cache) /\ HandleResponse(r)
      /\ UNCHANGED <<toClient, authParam, world, challenges>>
  BY <1>1 DEF CutMessage, serverVars
<1>3. Unchallenged' /\ r.status # "Unauthorized"
  BY <1>1, <1>2, ClientTakes DEF Trusted
<1>4. outcome # "auth"
  BY DEF Trusted, Agreed
<1>5. ASSUME NEW C, NEW calls \in Seq(C), NEW pipe, SendAll(calls, pipe), outcome' # "auth"
      PROVE  IInv'
  BY <1>2, <1>3, <1>5, SendAllTrusted
<1>6. <<>> \in Seq({}) /\ \A c : <<c>> \in Seq({c})
  BY EmptySeq
<1>7. CASE SessionError(r)
  BY <1>5, <1>6, <1>7 DEF SessionError, SendNone, Knows
<1>8. CASE HandlePipelineResponse(r)
  <2>1. UNCHANGED <<auth, needAuth, toServer>> /\ outcome' # "auth"
    BY <1>4, <1>8 DEF HandlePipelineResponse, Knows
  <2>2. Accepting' /\ Agreed' /\ ClientAuth'
    BY <1>2, <2>1 DEF IInv, Trusted, Accepting, Authorized, Agreed, GetAuthParam, ClientAuth, Password
  <2> QED BY <1>2, <1>3, <2>2 DEF IInv, Phases, Trusted
<1>9. CASE HandleOptions(r)
  BY <1>4, <1>5, <1>6, <1>9 DEF HandleOptions
<1>10. CASE HandleOffer(r)
  <2>1. outcome' # "auth"
    BY <1>4, <1>10 DEF HandleOffer
  <2>2. CASE ~world.pipelined
    BY <1>5, <1>6, <1>10, <2>1, <2>2 DEF HandleOffer
  <2>3. CASE world.pipelined
    <3> DEFINE C == {SetupCall(i) : i \in 1..NMedia} \cup {Call(Start, 0)}
               setups_ == [i \in 1..NMedia |-> SetupCall(i)]
    <3>1. setups_ \in Seq(C)
      <4>1. \A i \in 1..NMedia : SetupCall(i) \in C
        OBVIOUS
      <4> HIDE DEF C
      <4>2. setups_ \in [1..NMedia -> C]
        BY <4>1
      <4>3. PICK s : s = setups_
        OBVIOUS
      <4>4. s \in [1..NMedia -> C] /\ NMedia \in Nat
        BY <4>2, <4>3, LinkAssumption
      <4>5. s \in Seq(C)
        BY <4>4 DEF Seq
      <4> QED BY <4>3, <4>5
    <3>2. PICK s : s = setups_
      OBVIOUS
    <3>3. PICK c : c = Call(Start, 0)
      OBVIOUS
    <3>4. s \in Seq(C) /\ <<c>> \in Seq(C)
      BY <3>1, <3>2, <3>3
    <3>5. s \o <<c>> \in Seq(C)
      BY <3>4, ConcatProperties
    <3>6. SendAll(s \o <<c>>, TRUE)
      BY <1>10, <2>3, <3>2, <3>3 DEF HandleOffer
    <3> HIDE DEF C
    <3> QED BY <1>5, <2>1, <3>5, <3>6
  <2> QED BY <2>2, <2>3
<1>11. CASE HandleSetup(r)
  BY <1>4, <1>5, <1>6, <1>11 DEF HandleSetup
<1>12. CASE SetupRefused(r)
  BY <1>5, <1>6, <1>12 DEF SetupRefused, SendNone, Knows
<1>13. CASE HandleStart(r)
  BY <1>5, <1>6, <1>13 DEF HandleStart, SendNone, Knows
<1> QED BY <1>2, <1>3, <1>7, <1>8, <1>9, <1>10, <1>11, <1>12, <1>13 DEF HandleResponse, HandleUnAuth,
            AuthFailed

\* Packets, and input(), change nothing of it.
LEMMA TrustedPacket ==
    ASSUME IInv, Protected, Trusted, HandleRtp \/ SendRtpRtcp \/ PushPacket \/ Input \/ CutPacket
    PROVE  IInv'
<1>1. UNCHANGED <<clientVars, authParam, world, challenges>>
  BY DEF HandleRtp, SendRtpRtcp, PushPacket, Input, CutPacket, serverVars
<1>2. Agreed' /\ ClientAuth' /\ world.rightPassword'
  BY <1>1 DEF IInv, Trusted, Agreed, ClientAuth, Password, GetAuthParam, clientVars
<1> SUFFICES Accepting' /\ Unchallenged'
  BY <1>1, <1>2 DEF IInv, Phases, Trusted
<1>3. UNCHANGED toServer => Accepting'
  BY <1>1 DEF Trusted, Accepting, Authorized
<1>4. UNCHANGED <<toClient, cache>> => Unchallenged'
  BY DEF Trusted, Unchallenged
<1>5. CASE HandleRtp
  BY <1>1, <1>4, <1>5, ServerTakes DEF HandleRtp, Trusted, inputVars
<1>6. CASE SendRtpRtcp
  <2>1. PICK packet : toClient' = Append(toClient, packet) /\ packet.type = "packet"
    BY <1>6 DEF SendRtpRtcp
  <2>2. UNCHANGED <<cache, toServer>>
    BY <1>6 DEF SendRtpRtcp, inputVars
  <2> QED BY <1>3, <2>1, <2>2, ClientTold DEF Trusted
<1>7. CASE PushPacket
  <2>1. PICK packet : toServer' = Append(toServer, packet) /\ packet.type = "packet"
    BY <1>7 DEF PushPacket
  <2>2. UNCHANGED <<cache, toClient>>
    BY <1>7 DEF PushPacket, inputVars
  <2> QED BY <1>1, <1>4, <2>1, <2>2, ServerTold DEF Trusted
<1>8. CASE Input
  <2>1. PICK S : /\ toClient \in Seq(S) /\ cache \in Seq(S)
                 /\ \A u \in S : u.type = "response" => u.status # "Unauthorized"
    BY DEF Trusted, Unchallenged
  <2>2. PICK n \in 1..Len(toClient) :
           /\ cache' = cache \o SubSeq(toClient, 1, n)
           /\ toClient' = SubSeq(toClient, n + 1, Len(toClient))
    BY <1>8 DEF Input
  <2>3. \A i \in 1..Len(toClient) : toClient[i] \in S
    BY <2>1
  <2>4. Len(toClient) \in Nat
    BY <2>1
  <2>5. SubSeq(toClient, 1, n) \in Seq(S)
    BY <2>3, <2>4, SubSeqProperties
  <2>6. SubSeq(toClient, n + 1, Len(toClient)) \in Seq(S)
    BY <2>3, <2>4, SubSeqProperties
  <2>7. cache' \in Seq(S) /\ toClient' \in Seq(S)
    BY <2>1, <2>2, <2>5, <2>6, ConcatProperties
  <2>8. Unchallenged'
    BY <2>1, <2>7 DEF Unchallenged
  <2> QED BY <1>3, <1>8, <2>8 DEF Input
<1>9. CASE CutPacket
  BY <1>3, <1>9, ClientTakes DEF CutPacket, Trusted
<1> QED BY <1>5, <1>6, <1>7, <1>8, <1>9

\* Once accepted, the client is challenged no more.
LEMMA TrustedStep == ASSUME IInv, Protected, Trusted, [Next]_vars PROVE IInv'
<1>1. EndOfChunk \/ Quiet \/ UNCHANGED vars => UNCHANGED phaseVars
  BY DEF EndOfChunk, Quiet, vars, phaseVars, serverVars, inputVars, clientVars
<1> QED BY <1>1, PhaseKept, TrustedRequest, TrustedPacket, TrustedMessage DEF Next

-----------------------------------------------------------------------------
\* The first request is on its way.
LEMMA InitIInv == Init => IInv
<1> SUFFICES ASSUME Init, Protected PROVE IInv
  BY DEF Init, IInv
<1>1. Filled(auth) /\ auth.username = "user" /\ auth.password = Password(world)
  BY DEF Init, EmptyAuth, Filled, Keys
<1>2. PICK q : q = [type |-> "request", cseq |-> 0, method |-> First, uri |-> 0,
                    credentials |-> NoHeader, session |-> "", pipe |-> FALSE,
                    transport |-> NoTransport, body |-> First = "ANNOUNCE"]
  OBVIOUS
<1>3. toServer = <<q>> /\ q.type = "request" /\ q.credentials = NoHeader
  BY <1>2 DEF Init
<1>4. Asked
  BY <1>3 DEF Init, Asked, Nothing, Silent
<1> QED BY <1>1, <1>4 DEF Init, IInv, ClientAuth, Phases

\* Every step ends in one of the phases.
LEMMA StepKeepsIInv == IInv /\ [Next]_vars => IInv'
<1> SUFFICES ASSUME IInv, [Next]_vars PROVE IInv'
  OBVIOUS
<1>1. CASE Protected
  BY <1>1, AskedStep, ChallengedStep, TrustedStep, RetriedStep, ReportedStep, EndedStep DEF IInv, Phases
<1>2. CASE ~Protected
  BY <1>2, WorldKept DEF IInv, Protected
<1> QED BY <1>1, <1>2

\* Each phase keeps to what the application is promised.
LEMMA IInvDecides == IInv => SecretDecides
<1> SUFFICES ASSUME IInv, Protected PROVE SecretDecides
  BY DEF SecretDecides, Protected
<1>1. CASE world.rightPassword
  <2>1. challenges \in {0, 1} /\ outcome # "auth"
    BY <1>1 DEF IInv, Phases, Asked, Challenged, Trusted, Agreed, Retried, Reported, Ended
  <2>2. challenges <= 1
    BY <2>1
  <2> QED BY <1>1, <2>1, <2>2, Zenon DEF SecretDecides
<1>2. CASE ~world.rightPassword
  <2>1. challenges \in {0, 1, 2} /\ Nothing
    BY <1>2 DEF IInv, Phases, Asked, Challenged, Trusted, Retried, Reported, Ended
  <2>2. challenges <= 2
    BY <2>1
  <2> QED BY <1>2, <2>1, <2>2, Zenon DEF SecretDecides, Nothing
<1> QED BY <1>1, <1>2

\* Whatever the media, the transports and the packets in between: the right
\* password is asked for once and never reported; a wrong one opens no session,
\* starts nothing and is reported before a third challenge.
THEOREM SecretAlwaysDecides == Spec => []SecretDecides
<1> QED BY InitIInv, StepKeepsIInv, IInvDecides, PTL DEF Spec

-----------------------------------------------------------------------------
(* The session.  Without pipelining one request is open, or its response on *)
(* the way; the requests sent together are all pipelined, and of their       *)
(* responses those behind one with a session have it too.                   *)

Units == cache \o toClient
Answer(r) == r.type = "response" /\ r.status # "Unauthorized"

\* SETUP and the request after it were sent together.
Batch == world.pipelined /\ setupIter # 1

ClientStream == \E S : cache \in Seq(S) /\ toClient \in Seq(S)
ServerStream == \E S : toServer \in Seq(S)
Streams == ClientStream /\ ServerStream

Known ==
    /\ serverSession \in {"", "session"} /\ session \in {"", serverSession} /\ outcome # "error"
    /\ Filled(auth)

Answers ==
    /\ \A i \in DOMAIN Units : Units[i].type = "response" =>
          Units[i].status # "SessionNotFound" /\ (Units[i].status = "Unauthorized" => Protected)
    /\ \A i \in DOMAIN Units : Answer(Units[i]) =>
          Units[i].session \in {"", serverSession} /\ (session # "" => Units[i].session # "")
    /\ \A i, j \in DOMAIN Units :
          i < j /\ Answer(Units[i]) /\ Answer(Units[j]) /\ Units[i].session # "" => Units[j].session # ""

Together == Batch =>
    /\ \A i \in DOMAIN Units : Answer(Units[i]) => Units[i].pipe
    /\ \A i \in DOMAIN toServer : toServer[i].type = "request" =>
          toServer[i].pipe /\ toServer[i].session \in {"", serverSession}

OneOpen ==
    /\ \A i, j \in DOMAIN Units : Units[i].type = "response" /\ Units[j].type = "response" => i = j
    /\ \A i, j \in DOMAIN toServer : toServer[i].type = "request" /\ toServer[j].type = "request" => i = j
    /\ \A i \in DOMAIN Units, j \in DOMAIN toServer :
          ~(Units[i].type = "response" /\ toServer[j].type = "request")

Alone == ~Batch =>
    /\ OneOpen
    /\ \A i \in DOMAIN Units : Answer(Units[i]) => ~Units[i].pipe /\ Units[i].session = serverSession
    /\ \A i \in DOMAIN toServer : toServer[i].type = "request" =>
          /\ ~toServer[i].pipe /\ toServer[i].session = serverSession /\ session = serverSession
          /\ toServer[i].method = auth.method
    /\ session # serverSession => auth.method = "SETUP"
    /\ world.pipelined => auth.method # "SETUP"

\* The request that is challenged comes before all that.
Greeting == Protected /\ ~needAuth => ~Batch

SInv == IInv /\ Streams /\ Known /\ Answers /\ Together /\ Alone /\ Greeting

-----------------------------------------------------------------------------
(* How the units on their way change.                                      *)

\* Behind both parts, and in front of both.
LEMMA AppendBehind ==
    ASSUME NEW S, NEW s \in Seq(S), NEW t \in Seq(S), NEW e \in S
    PROVE  s \o Append(t, e) = Append(s \o t, e)
<1>1. <<e>> \in Seq(S) /\ s \o t \in Seq(S)
  BY ConcatProperties
<1>2. Append(t, e) = t \o <<e>> /\ Append(s \o t, e) = (s \o t) \o <<e>>
  BY <1>1, AppendIsConcat
<1>3. (s \o t) \o <<e>> = s \o (t \o <<e>>)
  BY <1>1, ConcatAssociative
<1> QED BY <1>2, <1>3

\* Taking the first of the front part takes the first of the whole.
LEMMA TailInFront ==
    ASSUME NEW S, NEW s \in Seq(S), NEW t \in Seq(S), s # <<>>
    PROVE  /\ Tail(s \o t) = Tail(s) \o t /\ Head(s \o t) = Head(s)
           /\ s \o t \in Seq(S) /\ s \o t # <<>>
<1>1. s \o t \in Seq(S) /\ Len(s \o t) = Len(s) + Len(t) /\ Len(s) \in Nat \ {0} /\ Len(t) \in Nat
  BY ConcatProperties, EmptySeq
<1>2. \A i \in 1..(Len(s) + Len(t)) : (s \o t)[i] = IF i <= Len(s) THEN s[i] ELSE t[i - Len(s)]
  BY ConcatProperties
<1>3. s \o t # <<>>
  BY <1>1, EmptySeq
<1>4. /\ Tail(s \o t) \in Seq(S) /\ Len(Tail(s \o t)) = Len(s) + Len(t) - 1
      /\ \A i \in 1..(Len(s) + Len(t) - 1) : Tail(s \o t)[i] = (s \o t)[i + 1]
  BY <1>1, <1>3, HeadTailProperties
<1>5. /\ Tail(s) \in Seq(S) /\ Len(Tail(s)) = Len(s) - 1
      /\ \A i \in 1..(Len(s) - 1) : Tail(s)[i] = s[i + 1]
  BY HeadTailProperties
<1>6. /\ Tail(s) \o t \in Seq(S) /\ Len(Tail(s) \o t) = Len(s) - 1 + Len(t)
      /\ \A i \in 1..(Len(s) - 1 + Len(t)) :
            (Tail(s) \o t)[i] = IF i <= Len(s) - 1 THEN Tail(s)[i] ELSE t[i - (Len(s) - 1)]
  BY <1>5, ConcatProperties
<1>7. ASSUME NEW i \in 1..(Len(s) + Len(t) - 1) PROVE Tail(s \o t)[i] = (Tail(s) \o t)[i]
  <2>1. Tail(s \o t)[i] = IF i + 1 <= Len(s) THEN s[i + 1] ELSE t[i + 1 - Len(s)]
    BY <1>1, <1>2, <1>4
  <2>2. (Tail(s) \o t)[i] = IF i <= Len(s) - 1 THEN s[i + 1] ELSE t[i - (Len(s) - 1)]
    BY <1>1, <1>5, <1>6
  <2>3. i - (Len(s) - 1) = i + 1 - Len(s)
    BY <1>1
  <2> QED BY <1>1, <2>1, <2>2, <2>3
<1>8. Tail(s \o t) = Tail(s) \o t
  <2>1. Len(Tail(s \o t)) = Len(Tail(s) \o t)
    BY <1>1, <1>4, <1>6
  <2> QED BY <1>4, <1>6, <1>7, <2>1, SeqEqual
<1> QED BY <1>1, <1>2, <1>3, <1>8

\* A unit for the client.
LEMMA UnitAdded ==
    ASSUME Streams, NEW r, cache' = cache, toClient' = Append(toClient, r)
    PROVE  Units' = Append(Units, r) /\ \E S : Units \in Seq(S)
<1>1. PICK S : cache \in Seq(S) /\ toClient \in Seq(S)
  BY DEF Streams, ClientStream
<1>2. cache \in Seq(S \cup {r}) /\ toClient \in Seq(S \cup {r}) /\ r \in S \cup {r}
  BY <1>1, SeqMonotonic
<1> QED BY <1>2, AppendBehind, ConcatProperties DEF Units

\* The client handles a unit.
LEMMA UnitTaken ==
    ASSUME Streams, cache # <<>>, cache' = Tail(cache), toClient' = toClient
    PROVE  /\ Units' = Tail(Units) /\ Head(Units) = Head(cache)
           /\ Units # <<>> /\ \E S : Units \in Seq(S)
<1>1. PICK S : cache \in Seq(S) /\ toClient \in Seq(S)
  BY DEF Streams, ClientStream
<1> QED BY <1>1, TailInFront DEF Units

\* What a sequence is afterwards, element by element.
LEMMA AfterAppend ==
    ASSUME NEW S, NEW s \in Seq(S), NEW e
    PROVE  LET t == Append(s, e) IN
           /\ Len(s) \in Nat /\ DOMAIN s = 1..Len(s) /\ DOMAIN t = 1..(Len(s) + 1)
           /\ (\A i \in DOMAIN s : t[i] = s[i]) /\ t[Len(s) + 1] = e
<1>1. s \in Seq(S \cup {e}) /\ e \in S \cup {e}
  BY SeqMonotonic
<1>2. PICK t : t = Append(s, e)
  OBVIOUS
<1>3. /\ t \in Seq(S \cup {e}) /\ Len(t) = Len(s) + 1
      /\ \A i \in 1..Len(s) : t[i] = s[i]
      /\ t[Len(s) + 1] = e
  BY <1>1, <1>2, AppendProperties
<1> QED BY <1>2, <1>3

\* What is left is numbered one less.
LEMMA AfterTail ==
    ASSUME NEW S, NEW s \in Seq(S), s # <<>>
    PROVE  LET t == Tail(s) IN
           /\ Len(s) \in Nat \ {0} /\ DOMAIN s = 1..Len(s) /\ DOMAIN t = 1..(Len(s) - 1)
           /\ (\A i \in DOMAIN t : t[i] = s[i + 1]) /\ s[1] = Head(s)
<1>1. PICK t : t = Tail(s)
  OBVIOUS
<1>2. t \in Seq(S) /\ Len(t) = Len(s) - 1 /\ \A i \in 1..Len(t) : t[i] = s[i + 1]
  BY <1>1, HeadTailProperties
<1>3. Len(s) \in Nat \ {0} /\ Head(s) = s[1]
  BY EmptySeq
<1> QED BY <1>1, <1>2, <1>3

\* The same of the units.
LEMMA UnitMore ==
    ASSUME Streams, NEW r, cache' = cache, toClient' = Append(toClient, r)
    PROVE  \E n \in Nat : /\ DOMAIN Units = 1..n /\ DOMAIN Units' = 1..(n + 1)
                         /\ (\A i \in 1..n : Units'[i] = Units[i]) /\ Units'[n + 1] = r
<1>1. PICK S : Units \in Seq(S)
  BY UnitAdded
<1>2. Units' = Append(Units, r)
  BY UnitAdded
<1>3. PICK u, t : u = Units /\ t = Append(u, r) /\ u \in Seq(S)
  BY <1>1
<1>4. /\ Len(u) \in Nat /\ DOMAIN u = 1..Len(u) /\ DOMAIN t = 1..(Len(u) + 1)
      /\ (\A i \in DOMAIN u : t[i] = u[i]) /\ t[Len(u) + 1] = r
  BY <1>3, AfterAppend
<1>5. Units = u /\ Units' = t
  BY <1>2, <1>3
<1> QED BY <1>4, <1>5

\* What is on its way to the client moves up by one.
LEMMA UnitLess ==
    ASSUME Streams, cache # <<>>, cache' = Tail(cache), toClient' = toClient
    PROVE  \E n \in Nat : /\ DOMAIN Units = 1..(n + 1) /\ DOMAIN Units' = 1..n
                         /\ (\A i \in 1..n : Units'[i] = Units[i + 1]) /\ Units[1] = Head(cache)
                         /\ 1 \in DOMAIN Units /\ \A i \in 1..n : i + 1 \in DOMAIN Units /\ i + 1 # 1
<1>1. PICK S : Units \in Seq(S)
  BY UnitTaken
<1>2. Units' = Tail(Units) /\ Head(Units) = Head(cache) /\ Units # <<>>
  BY UnitTaken
<1>3. PICK u, t : u = Units /\ t = Tail(u) /\ u \in Seq(S) /\ u # <<>>
  BY <1>1, <1>2
<1>4. /\ Len(u) \in Nat \ {0} /\ DOMAIN u = 1..Len(u) /\ DOMAIN t = 1..(Len(u) - 1)
      /\ (\A i \in DOMAIN t : t[i] = u[i + 1]) /\ u[1] = Head(u)
  BY <1>3, AfterTail
<1>5. PICK n : n = Len(u) - 1
  OBVIOUS
<1>6. n \in Nat /\ n + 1 = Len(u) /\ 1 \in 1..(n + 1) /\ \A i \in 1..n : i + 1 \in 1..(n + 1) /\ i + 1 # 1
  BY <1>4, <1>5
<1>7. Units = u /\ Units' = t /\ Head(u) = Head(cache)
  BY <1>2, <1>3
<1>8. /\ DOMAIN u = 1..(n + 1) /\ DOMAIN t = 1..n
      /\ (\A i \in 1..n : t[i] = u[i + 1]) /\ u[1] = Head(cache)
      /\ 1 \in DOMAIN u /\ \A i \in 1..n : i + 1 \in DOMAIN u /\ i + 1 # 1
  BY <1>4, <1>5, <1>6, <1>7
<1> QED BY <1>6, <1>7, <1>8

\* input() is given units.
LEMMA UnitsGiven == ASSUME Streams, Input PROVE Units' = Units
<1>1. PICK S : cache \in Seq(S) /\ toClient \in Seq(S)
  BY DEF Streams, ClientStream
<1>2. PICK n \in 1..Len(toClient) :
         /\ cache' = cache \o SubSeq(toClient, 1, n)
         /\ toClient' = SubSeq(toClient, n + 1, Len(toClient))
  BY DEF Input
<1>3. Len(toClient) \in Nat /\ \A i \in 1..Len(toClient) : toClient[i] \in S
  BY <1>1
<1>4. PICK a, b : a = SubSeq(toClient, 1, n) /\ b = SubSeq(toClient, n + 1, Len(toClient))
  OBVIOUS
<1>5. a \in Seq(S) /\ b \in Seq(S)
  <2>1. \A i \in 1..n : toClient[i] \in S
    BY <1>3
  <2>2. \A i \in (n + 1)..Len(toClient) : toClient[i] \in S
    BY <1>3
  <2> QED BY <1>3, <1>4, <2>1, <2>2, SubSeqProperties
<1>6. a \o b = toClient
  <2>1. 1 \in 1..(Len(toClient) + 1) /\ n \in (1 - 1)..Len(toClient) /\ Len(toClient) \in n..Len(toClient)
    BY <1>3
  <2>2. SubSeq(toClient, 1, n) \o SubSeq(toClient, n + 1, Len(toClient)) = SubSeq(toClient, 1, Len(toClient))
    BY <1>1, <2>1, ConcatAdjacentSubSeq
  <2> QED BY <1>1, <1>4, <2>2, SubSeqFull
<1>7. (cache \o a) \o b = cache \o (a \o b)
  <2>1. cache \in Seq(S)
    BY <1>1
  <2>2. PICK c \in Seq(S) : c = cache
    BY <2>1
  <2>3. (c \o a) \o b = c \o (a \o b)
    BY <1>5, ConcatAssociative, SMTT(30)
  <2> QED BY <2>2, <2>3
<1> QED BY <1>2, <1>4, <1>6, <1>7 DEF Units

\* Whatever happens, the streams stay sequences.
LEMMA ClientStreamKept ==
    ASSUME ClientStream, NEW r,
           \/ cache' = cache /\ toClient' \in {toClient, Append(toClient, r)}
           \/ cache # <<>> /\ cache' = Tail(cache) /\ toClient' = toClient
           \/ \E n \in 1..Len(toClient) : /\ cache' = cache \o SubSeq(toClient, 1, n)
                                         /\ toClient' = SubSeq(toClient, n + 1, Len(toClient))
    PROVE  ClientStream'
<1>1. PICK S : cache \in Seq(S) /\ toClient \in Seq(S)
  BY DEF ClientStream
<1>2. CASE cache' = cache /\ toClient' \in {toClient, Append(toClient, r)}
  <2>1. cache \in Seq(S \cup {r}) /\ toClient \in Seq(S \cup {r}) /\ r \in S \cup {r}
    BY <1>1, SeqMonotonic
  <2>2. Append(toClient, r) \in Seq(S \cup {r})
    BY <2>1, AppendProperties
  <2> QED BY <1>2, <2>1, <2>2 DEF ClientStream
<1>3. CASE cache # <<>> /\ cache' = Tail(cache) /\ toClient' = toClient
  BY <1>1, <1>3, HeadTailProperties DEF ClientStream
<1>4. CASE \E n \in 1..Len(toClient) : /\ cache' = cache \o SubSeq(toClient, 1, n)
                                     /\ toClient' = SubSeq(toClient, n + 1, Len(toClient))
  <2>1. PICK n \in 1..Len(toClient) :
           /\ cache' = cache \o SubSeq(toClient, 1, n)
           /\ toClient' = SubSeq(toClient, n + 1, Len(toClient))
    BY <1>4
  <2>2. Len(toClient) \in Nat /\ \A i \in 1..Len(toClient) : toClient[i] \in S
    BY <1>1
  <2>3. SubSeq(toClient, 1, n) \in Seq(S)
    BY <2>2, SubSeqProperties
  <2>4. SubSeq(toClient, n + 1, Len(toClient)) \in Seq(S)
    BY <2>2, SubSeqProperties
  <2>5. cache' \in Seq(S) /\ toClient' \in Seq(S)
    BY <1>1, <2>1, <2>3, <2>4, ConcatProperties
  <2> QED BY <2>5 DEF ClientStream
<1> QED BY <1>2, <1>3, <1>4

\* Sending behind and reading in front leave a stream to the server.
LEMMA ServerStreamKept ==
    ASSUME ServerStream,
           \/ toServer' = toServer
           \/ toServer # <<>> /\ toServer' = Tail(toServer)
           \/ \E B : \E b \in Seq(B) : toServer' = toServer \o b
           \/ \E e : toServer' = Append(toServer, e)
    PROVE  ServerStream'
<1>1. PICK S : toServer \in Seq(S)
  BY DEF ServerStream
<1>2. ASSUME NEW B, NEW b \in Seq(B), toServer' = toServer \o b PROVE ServerStream'
  <2>1. toServer \in Seq(S \cup B) /\ b \in Seq(S \cup B)
    BY <1>1, SeqMonotonic
  <2>2. toServer' \in Seq(S \cup B)
    BY <1>2, <2>1, ConcatProperties
  <2> QED BY <2>2 DEF ServerStream
<1>3. ASSUME NEW e, toServer' = Append(toServer, e) PROVE ServerStream'
  <2>1. toServer \in Seq(S \cup {e}) /\ e \in S \cup {e}
    BY <1>1, SeqMonotonic
  <2>2. toServer' \in Seq(S \cup {e})
    BY <1>3, <2>1, AppendProperties
  <2> QED BY <2>2 DEF ServerStream
<1>4. toServer # <<>> /\ toServer' = Tail(toServer) => ServerStream'
  BY <1>1, HeadTailProperties DEF ServerStream
<1> QED BY <1>1, <1>2, <1>3, <1>4 DEF ServerStream

-----------------------------------------------------------------------------
(* The server handles a request.                                           *)

\* It is answered; only SETUP opens a session.
Answered(q, r, opened) ==
    /\ r.status \in {"OK", "UnsupportedTransport"} /\ r.session = opened /\ r.pipe = q.pipe
    /\ opened \in {serverSession, "session"}
    /\ opened # serverSession => q.method = "SETUP"

Refused(r, opened) == r.status = "Unauthorized" /\ Protected /\ opened = serverSession

\* Every request of the client is answered by one response, with a session if there is
\* one.
LEMMA RequestAnswered ==
    ASSUME SInv, HandleRequest, NEW q, q = Head(toServer)
    PROVE  /\ toServer # <<>> /\ q.type = "request" /\ toServer' = Tail(toServer)
           /\ UNCHANGED <<session, auth, needAuth, setupIter, outcome, world, cache>>
           /\ \E r : /\ toClient' = Append(toClient, r) /\ r.type = "response"
                     /\ Answered(q, r, serverSession') \/ Refused(r, serverSession')
<1>1. q = Head(toServer)
  OBVIOUS
<1>2. /\ toServer # <<>> /\ q.type = "request" /\ toServer' = Tail(toServer)
      /\ UNCHANGED <<session, auth, needAuth, setupIter, outcome, world, cache>>
      /\ Challenge(q) \/ RejectSession(q) \/ RefuseTransport(q) \/ ReplaySetup(q) \/ HandleOther(q)
  BY <1>1 DEF HandleRequest, inputVars, clientVars
<1>3. \A status : Reply(q, status).type = "response" /\ Reply(q, status).status = status
                 /\ Reply(q, status).session = serverSession /\ Reply(q, status).pipe = q.pipe
  BY DEF Reply
<1>4. CASE Challenge(q)
  <2>1. PICK r : r = [Rejection(q, "Unauthorized") EXCEPT !.challenge = GenAuthInfo(authParam')]
    OBVIOUS
  <2>2. r.type = "response" /\ r.status = "Unauthorized"
    BY <2>1 DEF Rejection, Reply
  <2>3. Protected
    BY <1>4 DEF Challenge, Authorized, Protected
  <2> QED BY <1>1, <1>2, <1>4, <2>1, <2>2, <2>3 DEF Challenge, Refused
<1>5. ~RejectSession(q)
  <2>1. 1 \in DOMAIN toServer /\ toServer[1] = q
    BY <1>1, <1>2, AfterTail DEF SInv, Streams, ServerStream
  <2>2. CASE Batch
    BY <1>2, <2>1, <2>2 DEF SInv, Together, RejectSession, SessionMatches
  <2>3. CASE ~Batch
    BY <1>2, <2>1, <2>3 DEF SInv, Alone, RejectSession, SessionMatches
  <2> QED BY <2>2, <2>3
<1>6. CASE RefuseTransport(q)
  BY <1>1, <1>2, <1>3, <1>6 DEF RefuseTransport, Answered
<1>7. CASE ReplaySetup(q)
  <2>1. PICK t : toClient' = Append(toClient, [Reply(q, "OK") EXCEPT !.session = serverSession', !.transport = Encode(t)])
                 /\ serverSession' = "session" /\ q.method = "SETUP"
    BY <1>7 DEF ReplaySetup
  <2>2. PICK r : r = [Reply(q, "OK") EXCEPT !.session = serverSession', !.transport = Encode(t)]
    OBVIOUS
  <2>3. r.type = "response" /\ r.status = "OK" /\ r.session = serverSession' /\ r.pipe = q.pipe
    BY <2>2 DEF Reply
  <2> QED BY <1>1, <1>2, <2>1, <2>2, <2>3 DEF Answered
<1>8. CASE HandleOther(q)
  BY <1>1, <1>2, <1>3, <1>8 DEF HandleOther, Answered
<1> QED BY <1>2, <1>4, <1>5, <1>6, <1>7, <1>8

\* Bounds that the provers have to be told.
LEMMA LastOrBefore ==
    ASSUME NEW n \in Nat, NEW i \in 1..(n + 1)
    PROVE  (i = n + 1 \/ i \in 1..n) /\ \A j \in 1..(n + 1) : i < j => i \in 1..n
  OBVIOUS

\* Answering keeps the order of the responses.
LEMMA RequestKeepsSInv == ASSUME SInv, IInv', HandleRequest PROVE SInv'
<1>0a. PICK q : q = Head(toServer)
  OBVIOUS
<1>0b. PICK r : /\ toClient' = Append(toClient, r) /\ r.type = "response"
                /\ Answered(q, r, serverSession') \/ Refused(r, serverSession')
  BY <1>0a, RequestAnswered
<1>1. /\ q = Head(toServer) /\ toServer # <<>> /\ q.type = "request" /\ toServer' = Tail(toServer)
      /\ UNCHANGED <<session, auth, needAuth, setupIter, outcome, world, cache>>
      /\ toClient' = Append(toClient, r) /\ r.type = "response"
      /\ Answered(q, r, serverSession') \/ Refused(r, serverSession')
  <2>1. /\ toServer # <<>> /\ q.type = "request" /\ toServer' = Tail(toServer)
        /\ UNCHANGED <<session, auth, needAuth, setupIter, outcome, world, cache>>
    BY <1>0a, RequestAnswered
  <2> QED BY <1>0a, <1>0b, <2>1
<1>2. Streams'
  BY <1>1, ClientStreamKept, ServerStreamKept DEF SInv, Streams
<1>3. Batch' = Batch /\ Protected' = Protected
  BY <1>1 DEF Batch, Protected
<1>4. PICK n \in Nat : /\ DOMAIN Units = 1..n /\ DOMAIN Units' = 1..(n + 1)
                       /\ (\A i \in 1..n : Units'[i] = Units[i]) /\ Units'[n + 1] = r
  BY <1>1, UnitMore DEF SInv
<1>5. PICK m \in Nat : /\ 1 \in DOMAIN toServer /\ toServer[1] = q
                       /\ DOMAIN toServer = 1..(m + 1) /\ DOMAIN toServer' = 1..m
                       /\ \A i \in 1..m : toServer'[i] = toServer[i + 1]
  <2>1. PICK k \in Nat \ {0} :
           /\ DOMAIN toServer = 1..k /\ DOMAIN toServer' = 1..(k - 1)
           /\ \A i \in 1..(k - 1) : toServer'[i] = toServer[i + 1]
           /\ toServer[1] = q
    BY <1>1, AfterTail DEF SInv, Streams, ServerStream
  <2>2. k - 1 \in Nat /\ (k - 1) + 1 = k /\ 1 \in 1..k
    BY <2>1
  <2> QED BY <2>1, <2>2
<1>6. Known'
  BY <1>1 DEF SInv, Known, Answered, Refused
<1>7. Answers'
  <2>1. r.status # "SessionNotFound" /\ (r.status = "Unauthorized" => Protected)
    BY <1>1 DEF Answered, Refused
  <2>2. Answer(r) => r.session = serverSession'
    BY <1>1 DEF Answered, Refused, Answer
  <2>3. /\ serverSession # "" => serverSession' = serverSession
        /\ session # "" => serverSession # ""
    BY <1>1 DEF SInv, Known, Answered, Refused
  <2>4. \A i \in DOMAIN Units : Answer(Units[i]) => Units[i].session \in {"", serverSession}
    BY DEF SInv, Answers
  <2>5. (Answer(r) <=> Answer(r)') /\ \A i \in 1..n : Answer(Units'[i]) <=> Answer(Units[i])
    BY <1>4 DEF Answer
  <2>6. \A i \in DOMAIN Units' : Units'[i].type = "response" =>
           Units'[i].status # "SessionNotFound" /\ (Units'[i].status = "Unauthorized" => Protected)
    <3>1. \A i \in DOMAIN Units : Units[i].type = "response" =>
           Units[i].status # "SessionNotFound" /\ (Units[i].status = "Unauthorized" => Protected)
      BY DEF SInv, Answers
    <3> SUFFICES ASSUME NEW i \in 1..(n + 1), Units'[i].type = "response"
                 PROVE  Units'[i].status # "SessionNotFound" /\ (Units'[i].status = "Unauthorized" => Protected)
      BY <1>4
    <3>2. CASE i = n + 1
      BY <1>4, <2>1, <3>2
    <3>3. CASE i \in 1..n
      BY <1>4, <3>1, <3>3
    <3> QED BY <3>2, <3>3
  <2>7. \A i \in DOMAIN Units' : Answer(Units'[i]) =>
           Units'[i].session \in {"", serverSession'} /\ (session # "" => Units'[i].session # "")
    <3> SUFFICES ASSUME NEW i \in 1..(n + 1), Answer(Units'[i])
                 PROVE  Units'[i].session \in {"", serverSession'} /\ (session # "" => Units'[i].session # "")
      BY <1>4
    <3>1. CASE i = n + 1
      BY <1>4, <2>2, <2>3, <2>5, <3>1
    <3>2. CASE i \in 1..n
      BY <1>4, <2>3, <2>4, <2>5, <3>2 DEF SInv, Answers
    <3> QED BY <3>1, <3>2, LastOrBefore
  <2>8. ASSUME NEW i \in DOMAIN Units', NEW j \in DOMAIN Units', i < j, Answer(Units'[i]), Answer(Units'[j]),
               Units'[i].session # ""
        PROVE  Units'[j].session # ""
    <3>0. i \in 1..(n + 1) /\ j \in 1..(n + 1)
      BY <1>4
    <3>1. i \in 1..n /\ (j = n + 1 \/ j \in 1..n)
      BY <2>8, <3>0, LastOrBefore
    <3>2. CASE j \in 1..n
      BY <1>4, <2>5, <2>8, <3>1, <3>2 DEF SInv, Answers
    <3>3. CASE j = n + 1
      BY <1>4, <2>2, <2>3, <2>4, <2>5, <2>8, <3>1, <3>3
    <3> QED BY <3>1, <3>2, <3>3
  <2> QED BY <1>1, <1>3, <2>6, <2>7, <2>8 DEF Answers, Answer
<1>8. Together'
  <2>1. Batch => q.pipe
    BY <1>1, <1>5 DEF SInv, Together
  <2>2. Answer(r) => r.pipe = q.pipe
    BY <1>1 DEF Answered, Refused, Answer
  <2>3. serverSession # "" => serverSession' = serverSession
    BY <1>1 DEF SInv, Known, Answered, Refused
  <2> SUFFICES ASSUME Batch PROVE Together'
    BY <1>3 DEF Together
  <2>4. \A i \in DOMAIN Units' : Answer(Units'[i]) => Units'[i].pipe
    <3> SUFFICES ASSUME NEW i \in 1..(n + 1), Answer(Units'[i]) PROVE Units'[i].pipe
      BY <1>4
    <3>1. CASE i = n + 1
      BY <1>4, <2>1, <2>2, <3>1 DEF Answer
    <3>2. CASE i \in 1..n
      BY <1>4, <3>2 DEF SInv, Together, Answer
    <3> QED BY <3>1, <3>2
  <2>5. \A i \in DOMAIN toServer' : toServer'[i].type = "request" =>
           toServer'[i].pipe /\ toServer'[i].session \in {"", serverSession'}
    <3>1. \A i \in 1..m : i + 1 \in DOMAIN toServer
      BY <1>5
    <3>2. \A i \in DOMAIN toServer : toServer[i].type = "request" =>
             toServer[i].pipe /\ toServer[i].session \in {"", serverSession}
      BY DEF SInv, Together
    <3>3. serverSession \in {"", serverSession'}
      BY <2>3
    <3> QED BY <1>5, <3>1, <3>2, <3>3
  <2> QED BY <2>4, <2>5 DEF Together, Answer
<1>9. Alone'
  <2> SUFFICES ASSUME ~Batch PROVE Alone'
    BY <1>3 DEF Alone
  <2>1. OneOpen /\ ~q.pipe /\ q.session = serverSession /\ session = serverSession /\ q.method = auth.method
    BY <1>1, <1>5 DEF SInv, Alone
  <2>2. \A i \in 1..n : Units[i].type # "response"
    BY <1>1, <1>4, <1>5, <2>1 DEF OneOpen
  <2>3. \A i \in 1..m : toServer'[i].type # "request"
    <3>1. \A i \in 1..m : i + 1 \in DOMAIN toServer /\ i + 1 # 1
      BY <1>5
    <3> QED BY <1>1, <1>5, <2>1, <3>1 DEF OneOpen
  <2>4. OneOpen'
    BY <1>4, <1>5, <2>2, <2>3 DEF OneOpen
  <2>5. Answer(r) => ~r.pipe /\ r.session = serverSession'
    BY <1>1, <2>1 DEF Answered, Refused, Answer
  <2>6. session # serverSession' => auth.method = "SETUP"
    BY <1>1, <2>1 DEF Answered, Refused
  <2> QED BY <1>1, <1>3, <1>4, <1>5, <2>2, <2>3, <2>4, <2>5, <2>6 DEF SInv, Alone, Answer
<1>10. Greeting'
  BY <1>1, <1>3 DEF SInv, Greeting
<1> QED BY <1>2, <1>6, <1>7, <1>8, <1>9, <1>10 DEF SInv

-----------------------------------------------------------------------------
(* The client handles a response.                                          *)

\* What SendAll sends: nothing, one request, and many.
LEMMA SentNone ==
    ASSUME ServerStream, SendNone
    PROVE  toServer' = toServer /\ auth' = auth /\ needAuth' = needAuth
<1>1. PICK S : toServer \in Seq(S)
  BY DEF ServerStream
<1>2. [i \in DOMAIN <<>> |-> MakeRequest(cseq + i - 1, <<>>[i], FALSE)] = <<>>
  OBVIOUS
<1>3. toServer \o <<>> = toServer
  BY <1>1, ConcatEmptySeq
<1> QED BY <1>2, <1>3 DEF SendNone, SendAll

\* One request, under the session the client knows.
LEMMA SentOne ==
    ASSUME ServerStream, Filled(auth), NEW c, NEW pipe \in BOOLEAN, SendAll(<<c>>, pipe)
    PROVE  /\ \E q : /\ toServer' = Append(toServer, q) /\ q.type = "request" /\ q.pipe = pipe
                     /\ q.session = session' /\ q.method = c.method
           /\ Filled(auth)' /\ auth'.method = c.method /\ needAuth' = needAuth
<1>1. PICK S : toServer \in Seq(S)
  BY DEF ServerStream
<1>2. PICK q : q = MakeRequest(cseq + 1 - 1, c, pipe)
  OBVIOUS
<1>3. PICK s : s = <<c>>
  OBVIOUS
<1>4. Len(s) = 1 /\ DOMAIN s = 1..1 /\ s[1] = c /\ Last(s) = c /\ s # <<>>
  BY <1>3 DEF Last
<1>5. [i \in DOMAIN s |-> MakeRequest(cseq + i - 1, s[i], pipe)] = <<q>>
  BY <1>2, <1>4
<1>6. toServer' = toServer \o <<q>> /\ auth' = CallAuth(auth, c) /\ needAuth' = needAuth
  BY <1>3, <1>4, <1>5 DEF SendAll
<1>7. toServer' = Append(toServer, q)
  <2>1. toServer \in Seq(S \cup {q}) /\ q \in S \cup {q}
    BY <1>1, SeqMonotonic
  <2> QED BY <1>6, <2>1, AppendIsConcat
<1>8. q.type = "request" /\ q.pipe = pipe /\ q.session = session' /\ q.method = c.method
  BY <1>2 DEF MakeRequest
<1>9. Filled(auth)' /\ auth'.method = c.method
  BY <1>6 DEF CallAuth, Filled, Keys
<1> QED BY <1>6, <1>7, <1>8, <1>9

\* A batch of pipelined ones.
LEMMA SentMany ==
    ASSUME ServerStream, Filled(auth), NEW C, NEW calls \in Seq(C), NEW pipe \in BOOLEAN,
           SendAll(calls, pipe)
    PROVE  /\ \E B : \E b \in Seq(B) :
                 /\ toServer' = toServer \o b
                 /\ \A q \in B : q.type = "request" /\ q.pipe = pipe /\ q.session = session'
           /\ Filled(auth)' /\ needAuth' = needAuth
<1> DEFINE B == {MakeRequest(cseq + i - 1, calls[i], pipe) : i \in 1..Len(calls)}
           reqs == [i \in 1..Len(calls) |-> MakeRequest(cseq + i - 1, calls[i], pipe)]
<1>1. toServer' = toServer \o reqs /\ needAuth' = needAuth
      /\ auth' = (IF calls = <<>> THEN auth ELSE CallAuth(auth, Last(calls)))
  BY DEF SendAll
<1>2. reqs \in Seq(B)
  BY DEF Seq
<1>3. \A q \in B : q.type = "request" /\ q.pipe = pipe /\ q.session = session'
  BY DEF MakeRequest
<1>4. Filled(auth)'
  BY <1>1 DEF CallAuth, Filled, Keys
<1> HIDE DEF B, reqs
<1> QED BY <1>1, <1>2, <1>3, <1>4

\* The first unit is taken off.
LEMMA MessageTaken ==
    ASSUME SInv, CutMessage, NEW r, r = Head(cache)
    PROVE  /\ cache # <<>> /\ r.type = "response" /\ cache' = Tail(cache) /\ HandleResponse(r)
           /\ UNCHANGED <<toClient, serverSession, world>>
           /\ ClientStream' /\ Protected' = Protected
           /\ \E n \in Nat : /\ DOMAIN Units = 1..(n + 1) /\ DOMAIN Units' = 1..n
                             /\ (\A i \in 1..n : Units'[i] = Units[i + 1]) /\ Units[1] = r
                             /\ 1 \in DOMAIN Units /\ \A i \in 1..n : i + 1 \in DOMAIN Units /\ i + 1 # 1
<1>1. /\ cache # <<>> /\ r.type = "response" /\ cache' = Tail(cache) /\ HandleResponse(r)
      /\ UNCHANGED <<toClient, serverSession, world>>
  BY DEF CutMessage, serverVars
<1>2. ClientStream' /\ Protected' = Protected
  BY <1>1, ClientStreamKept DEF SInv, Streams, Protected
<1>3. \E n \in Nat : /\ DOMAIN Units = 1..(n + 1) /\ DOMAIN Units' = 1..n
                     /\ (\A i \in 1..n : Units'[i] = Units[i + 1]) /\ Units[1] = r
                     /\ 1 \in DOMAIN Units /\ \A i \in 1..n : i + 1 \in DOMAIN Units /\ i + 1 # 1
  BY <1>1, UnitLess DEF SInv
<1> QED BY <1>1, <1>2, <1>3

\* The responses behind it are as they were.
LEMMA Shifted ==
    ASSUME NEW n \in Nat, NEW i \in 1..n
    PROVE  1 < i + 1 /\ \A j \in 1..n : i < j => i + 1 < j + 1
  OBVIOUS

\* The responses behind the one that is read stay in order.
LEMMA RestOrdered ==
    ASSUME SInv, CutMessage
    PROVE  /\ \A i \in DOMAIN Units' : Units'[i].type = "response" =>
                 Units'[i].status # "SessionNotFound" /\ (Units'[i].status = "Unauthorized" => Protected)
           /\ \A i, j \in DOMAIN Units' :
                 i < j /\ Answer(Units'[i]) /\ Answer(Units'[j]) /\ Units'[i].session # ""
                    => Units'[j].session # ""
<1>0. PICK r : r = Head(cache)
  OBVIOUS
<1>1. PICK n \in Nat :
         /\ DOMAIN Units = 1..(n + 1) /\ DOMAIN Units' = 1..n
         /\ (\A i \in 1..n : Units'[i] = Units[i + 1]) /\ Units[1] = r
         /\ 1 \in DOMAIN Units /\ \A i \in 1..n : i + 1 \in DOMAIN Units /\ i + 1 # 1
  BY <1>0, MessageTaken
<1>2. \A i \in DOMAIN Units' : Units'[i].type = "response" =>
         Units'[i].status # "SessionNotFound" /\ (Units'[i].status = "Unauthorized" => Protected)
  BY <1>1 DEF SInv, Answers
<1>3. ASSUME NEW i \in 1..n, NEW j \in 1..n, i < j, Answer(Units'[i]), Answer(Units'[j]),
             Units'[i].session # ""
      PROVE  Units'[j].session # ""
  <2>1. i + 1 < j + 1
    BY <1>3, Shifted
  <2>2. Answer(Units[i + 1]) /\ Answer(Units[j + 1]) /\ Units[i + 1].session # ""
    BY <1>1, <1>3 DEF Answer
  <2>3. i + 1 \in DOMAIN Units /\ j + 1 \in DOMAIN Units
    BY <1>1
  <2>4. Units[j + 1].session # ""
    BY <2>1, <2>2, <2>3 DEF SInv, Answers
  <2> QED BY <1>1, <2>4
<1> QED BY <1>1, <1>2, <1>3

\* And behind one that does not change the session all is as before.
LEMMA RestKept ==
    ASSUME SInv, CutMessage, NEW r, r = Head(cache), session' = session
    PROVE  Answers' /\ (~Batch => /\ \A i \in DOMAIN Units' : Units'[i].type # "response"
                                  /\ \A i \in DOMAIN toServer : toServer[i].type # "request")
<1>1. PICK n \in Nat :
         /\ DOMAIN Units = 1..(n + 1) /\ DOMAIN Units' = 1..n
         /\ (\A i \in 1..n : Units'[i] = Units[i + 1]) /\ Units[1] = r
         /\ 1 \in DOMAIN Units /\ \A i \in 1..n : i + 1 \in DOMAIN Units /\ i + 1 # 1
  BY MessageTaken
<1>2. UNCHANGED serverSession /\ Protected' = Protected /\ r.type = "response"
  BY MessageTaken
<1>3. Answers'
  <2>2. \A i \in DOMAIN Units' : Answer(Units'[i]) =>
           Units'[i].session \in {"", serverSession} /\ (session # "" => Units'[i].session # "")
    BY <1>1, ZenonT(40) DEF SInv, Answers, Answer
  <2> QED BY <1>2, <2>2, RestOrdered DEF Answers, Answer
<1>4. ASSUME ~Batch
      PROVE  /\ \A i \in DOMAIN Units' : Units'[i].type # "response"
             /\ \A i \in DOMAIN toServer : toServer[i].type # "request"
  <2>1. OneOpen
    BY <1>4 DEF SInv, Alone
  <2> QED BY <1>1, <1>2, <2>1 DEF OneOpen
<1> QED BY <1>3, <1>4

\* Responses that the client only takes note of; a pipelined one may bring the
\* session.
LEMMA NothingSent ==
    ASSUME SInv, IInv', CutMessage, NEW r, r = Head(cache),
           UNCHANGED <<toServer, auth, needAuth, setupIter>>, outcome' # "error",
           session' = session \/ (session = "" /\ session' = r.session /\ Batch /\ Answer(r))
    PROVE  SInv'
<1>1. PICK n \in Nat :
         /\ DOMAIN Units = 1..(n + 1) /\ DOMAIN Units' = 1..n
         /\ (\A i \in 1..n : Units'[i] = Units[i + 1]) /\ Units[1] = r
         /\ 1 \in DOMAIN Units /\ \A i \in 1..n : i + 1 \in DOMAIN Units /\ i + 1 # 1
  BY MessageTaken
<1>2. /\ UNCHANGED <<serverSession, world>> /\ Protected' = Protected /\ r.type = "response"
      /\ ClientStream'
  BY MessageTaken
<1>3. Streams' /\ Batch' = Batch /\ Greeting'
  BY <1>2 DEF SInv, Streams, ServerStream, Batch, Greeting
<1>4. Together'
  <2>1. Batch => \A i \in DOMAIN Units' : Answer(Units'[i]) => Units'[i].pipe
    BY <1>1 DEF SInv, Together, Answer
  <2> QED BY <1>2, <1>3, <2>1 DEF SInv, Together, Answer
<1>5. CASE session' = session
  <2>1. Answers'
    BY <1>5, RestKept
  <2>2. Known'
    BY <1>2, <1>5 DEF SInv, Known, Filled
  <2>3. Alone'
    <3> SUFFICES ASSUME ~Batch PROVE Alone'
      BY <1>3 DEF Alone
    <3>1. /\ \A i \in DOMAIN Units' : Units'[i].type # "response"
          /\ \A i \in DOMAIN toServer : toServer[i].type # "request"
      BY <1>5, RestKept
    <3>2. OneOpen'
      BY <3>1 DEF OneOpen
    <3>3. /\ session # serverSession => auth.method = "SETUP"
          /\ world.pipelined => auth.method # "SETUP"
      BY DEF SInv, Alone
    <3> QED BY <1>2, <1>5, <3>1, <3>2, <3>3 DEF Alone, Answer
  <2> QED BY <1>3, <1>4, <2>1, <2>2, <2>3 DEF SInv
<1>6. CASE session = "" /\ session' = r.session /\ Batch /\ Answer(r)
  <2>1. session' \in {"", serverSession}
    BY <1>1, <1>6 DEF SInv, Answers
  <2>2. Known'
    BY <1>2, <2>1 DEF SInv, Known, Filled
  <2>3. \A i \in DOMAIN Units' : Answer(Units'[i]) =>
           Units'[i].session \in {"", serverSession} /\ (session' # "" => Units'[i].session # "")
    <3> SUFFICES ASSUME NEW i \in 1..n, Answer(Units'[i])
                 PROVE  Units'[i].session \in {"", serverSession} /\ (session' # "" => Units'[i].session # "")
      BY <1>1
    <3>0. 1 < i + 1
      BY Shifted
    <3>1. i + 1 \in DOMAIN Units /\ Answer(Units[i + 1])
      BY <1>1 DEF Answer
    <3>2. Units[i + 1].session \in {"", serverSession}
      BY <3>1 DEF SInv, Answers
    <3>3. r.session # "" => Units[i + 1].session # ""
      BY <1>1, <1>6, <3>0, <3>1 DEF SInv, Answers
    <3> QED BY <1>1, <1>6, <3>2, <3>3
  <2>4. Answers'
    BY <1>2, <2>3, RestOrdered DEF Answers, Answer
  <2>5. Alone'
    BY <1>3, <1>6 DEF Alone
  <2> QED BY <1>3, <1>4, <2>2, <2>4, <2>5 DEF SInv
<1> QED BY <1>5, <1>6

\* One request for the response to the one that was open.
LEMMA OneSent ==
    ASSUME SInv, IInv', CutMessage, ~Batch, ~Batch', session' = serverSession,
           outcome' # "error", Filled(auth)',
           \E q : /\ toServer' = Append(toServer, q) /\ q.type = "request" /\ ~q.pipe
                  /\ q.session = serverSession /\ q.method = auth'.method,
           world.pipelined => auth'.method # "SETUP"
    PROVE  SInv'
<1>0. PICK r : r = Head(cache)
  OBVIOUS
<1>1. /\ UNCHANGED <<serverSession, world>> /\ Protected' = Protected /\ r.type = "response"
      /\ ClientStream'
  BY <1>0, MessageTaken
<1>2. PICK n \in Nat :
         /\ DOMAIN Units = 1..(n + 1) /\ DOMAIN Units' = 1..n
         /\ (\A i \in 1..n : Units'[i] = Units[i + 1]) /\ Units[1] = r
         /\ 1 \in DOMAIN Units /\ \A i \in 1..n : i + 1 \in DOMAIN Units /\ i + 1 # 1
  BY <1>0, MessageTaken
<1>3. PICK q : /\ toServer' = Append(toServer, q) /\ q.type = "request" /\ ~q.pipe
               /\ q.session = serverSession /\ q.method = auth'.method
  OBVIOUS
<1>4. OneOpen
  BY DEF SInv, Alone
<1>5. \A i \in DOMAIN Units' : Units'[i].type # "response"
  BY <1>1, <1>2, <1>4 DEF OneOpen
<1>6. \A i \in DOMAIN toServer : toServer[i].type # "request"
  BY <1>1, <1>2, <1>4 DEF OneOpen
<1>7. PICK m \in Nat : /\ DOMAIN toServer = 1..m /\ DOMAIN toServer' = 1..(m + 1)
                       /\ (\A i \in 1..m : toServer'[i] = toServer[i]) /\ toServer'[m + 1] = q
  <2>1. PICK S : toServer \in Seq(S)
    BY DEF SInv, Streams, ServerStream
  <2> QED BY <1>3, <2>1, AfterAppend
<1>8. ASSUME NEW i \in DOMAIN toServer', toServer'[i].type = "request"
      PROVE  i = m + 1
  BY <1>6, <1>7, <1>8, LastOrBefore
<1>9. Streams'
  BY <1>1, <1>3, ServerStreamKept DEF SInv, Streams
<1>10. Known'
  BY <1>1 DEF SInv, Known
<1>11. Answers'
  BY <1>1, <1>5, RestOrdered DEF Answers, Answer
<1>12. Alone'
  <2>1. OneOpen'
    BY <1>5, <1>8 DEF OneOpen
  <2>2. \A i \in DOMAIN toServer' : toServer'[i].type = "request" =>
          /\ ~toServer'[i].pipe /\ toServer'[i].session = serverSession' /\ session' = serverSession'
          /\ toServer'[i].method = auth'.method
    BY <1>1, <1>3, <1>7, <1>8
  <2> QED BY <1>1, <1>5, <2>1, <2>2 DEF Alone, Answer
<1>13. Together' /\ Greeting'
  BY DEF Together, Greeting
<1> QED BY <1>9, <1>10, <1>11, <1>12, <1>13 DEF SInv

\* The elements of a longer stream.
LEMMA AfterConcat ==
    ASSUME NEW S, NEW s \in Seq(S), NEW B, NEW b \in Seq(B)
    PROVE  \A i \in DOMAIN (s \o b) :
              (i \in DOMAIN s /\ (s \o b)[i] = s[i]) \/ (s \o b)[i] \in B
<1>1. s \in Seq(S \cup B) /\ b \in Seq(S \cup B)
  BY SeqMonotonic
<1>2. PICK t : t = s \o b
  OBVIOUS
<1>3. /\ t \in Seq(S \cup B) /\ Len(t) = Len(s) + Len(b)
      /\ \A i \in 1..(Len(s) + Len(b)) : t[i] = IF i <= Len(s) THEN s[i] ELSE b[i - Len(s)]
  BY <1>1, <1>2, ConcatProperties
<1>4. Len(s) \in Nat /\ Len(b) \in Nat /\ DOMAIN s = 1..Len(s) /\ \A i \in 1..Len(b) : b[i] \in B
  OBVIOUS
<1>5. ASSUME NEW i \in 1..(Len(s) + Len(b))
      PROVE  (i \in DOMAIN s /\ t[i] = s[i]) \/ t[i] \in B
  <2>1. CASE i <= Len(s)
    BY <1>3, <1>4, <1>5, <2>1
  <2>2. CASE ~(i <= Len(s))
    <3>1. i - Len(s) \in 1..Len(b)
      BY <1>4, <1>5, <2>2
    <3> QED BY <1>3, <1>4, <2>2, <3>1
  <2> QED BY <2>1, <2>2
<1> QED BY <1>2, <1>3, <1>5

\* All the rest at once.
LEMMA ManySent ==
    ASSUME SInv, IInv', CutMessage, ~Batch, Batch', session' = session,
           Protected => needAuth', outcome' # "error", Filled(auth)',
           \E B : \E b \in Seq(B) :
              /\ toServer' = toServer \o b
              /\ \A q \in B : q.type = "request" /\ q.pipe = TRUE /\ q.session = session'
    PROVE  SInv'
<1>0. PICK r : r = Head(cache)
  OBVIOUS
<1>1. /\ UNCHANGED <<serverSession, world>> /\ Protected' = Protected /\ r.type = "response"
      /\ ClientStream'
  BY <1>0, MessageTaken
<1>2. PICK B, b : /\ b \in Seq(B) /\ toServer' = toServer \o b
                  /\ \A q \in B : q.type = "request" /\ q.pipe = TRUE /\ q.session = session'
  OBVIOUS
<1>3. /\ \A i \in DOMAIN Units' : Units'[i].type # "response"
      /\ \A i \in DOMAIN toServer : toServer[i].type # "request"
  BY <1>0, RestKept
<1>4. \A i \in DOMAIN toServer' : toServer'[i].type = "request" =>
         toServer'[i].pipe /\ toServer'[i].session \in {"", serverSession'}
  <2>1. PICK S : toServer \in Seq(S)
    BY DEF SInv, Streams, ServerStream
  <2>2. \A i \in DOMAIN toServer' :
           (i \in DOMAIN toServer /\ toServer'[i] = toServer[i]) \/ toServer'[i] \in B
    BY <1>2, <2>1, AfterConcat
  <2>3. session' \in {"", serverSession'}
    BY <1>1 DEF SInv, Known
  <2> QED BY <1>2, <1>3, <2>2, <2>3
<1>5. Streams'
  BY <1>1, <1>2, ServerStreamKept DEF SInv, Streams
<1>6. Known'
  BY <1>1 DEF SInv, Known
<1>7. Answers'
  BY <1>0, RestKept
<1>8. Together' /\ Alone' /\ Greeting'
  BY <1>1, <1>3, <1>4 DEF Together, Alone, Greeting, Answer
<1> QED BY <1>5, <1>6, <1>7, <1>8 DEF SInv

\* Before it has credentials a client reads nothing but a challenge.
LEMMA OnlyChallenge ==
    ASSUME IInv, Protected, ~needAuth, cache # <<>>
    PROVE  Nothing /\ Head(cache).status = "Unauthorized" /\ Filled(auth)
<1>1. Challenged
  BY DEF IInv, Phases, Asked, Silent, Trusted, Agreed, Retried, Reported, Ended
<1>2. PICK r : Coming(r)
  BY <1>1 DEF Challenged
<1>3. Head(cache) = r
  BY <1>2 DEF Coming
<1> QED BY <1>1, <1>2, <1>3 DEF Challenged, Coming, IInv, ClientAuth

\* The method outlives the challenge.
LEMMA MethodKept ==
    ASSUME NEW a, NEW h, Filled(a)
    PROVE  Filled(Parser(a, h)) /\ Parser(a, h).method = a.method
  BY DEF Parser, Taken, Filled, Keys, ParsedKeys

\* A response, and what the client sends for it, keeps both sides agreed.
LEMMA MessageKeepsSInv == ASSUME SInv, IInv', CutMessage PROVE SInv'
<1>1. PICK r : r = Head(cache)
  OBVIOUS
<1>2. /\ cache # <<>> /\ r.type = "response" /\ HandleResponse(r)
      /\ UNCHANGED <<serverSession, world>> /\ Protected' = Protected
  BY <1>1, MessageTaken
<1>3. /\ 1 \in DOMAIN Units /\ Units[1] = r
  BY <1>1, MessageTaken
<1>4. /\ r.status = "Unauthorized" => Protected
      /\ Answer(r) => r.session \in {"", serverSession} /\ (session # "" => r.session # "")
      /\ Batch /\ Answer(r) => r.pipe
      /\ ~Batch /\ Answer(r) => ~r.pipe /\ r.session = serverSession
  BY <1>2, <1>3 DEF SInv, Answers, Together, Alone
<1>5. /\ outcome # "error" /\ Filled(auth) /\ session \in {"", serverSession} /\ ServerStream
      /\ ~Batch => /\ session # serverSession => auth.method = "SETUP"
                   /\ world.pipelined => auth.method # "SETUP"
      /\ Protected /\ ~needAuth => ~Batch
  BY DEF SInv, Known, Streams, Alone, Greeting
<1>6. world.push \in BOOLEAN /\ Offer \in {"ANNOUNCE", "DESCRIBE"} /\ Start \in {"RECORD", "PLAY"}
  BY DEF SInv, IInv, Worlds, Offer, Start
<1>7. \A method : Plain(r, method) => ~Batch /\ Answer(r) /\ auth.method = method
                                      /\ (session # serverSession => method = "SETUP")
  BY <1>2, <1>4, <1>5 DEF Plain, Accepted, Answer
<1>8. CASE HandleUnAuth(r)
  <2>1. /\ Protected /\ ~needAuth /\ UNCHANGED <<session, setupIter, outcome>>
        /\ auth' = Parser(auth, r.challenge)
    BY <1>4, <1>8 DEF HandleUnAuth
  <2>2. serverSession = "" /\ session = ""
    BY <1>2, <1>5, <2>1, OnlyChallenge DEF SInv, Nothing
  <2>3. PICK q : /\ toServer' = Append(toServer, q) /\ q.type = "request" /\ ~q.pipe /\ q.session = ""
                 /\ q.method = auth.method
    <3>1. PICK q : q = [type |-> "request", cseq |-> -cseq, method |-> auth.method, uri |-> auth.uri,
                        credentials |-> Credentials(auth'), session |-> "", pipe |-> FALSE,
                        transport |-> NoTransport, body |-> FALSE]
      OBVIOUS
    <3>2. toServer' = Append(toServer, q)
      BY <1>8, <3>1 DEF HandleUnAuth
    <3>3. q.type = "request" /\ ~q.pipe /\ q.session = "" /\ q.method = auth.method
      BY <3>1
    <3> QED BY <3>2, <3>3
  <2>4. Filled(auth)' /\ auth'.method = auth.method
    BY <1>5, <2>1, MethodKept
  <2>5. ~Batch /\ ~Batch'
    BY <1>2, <1>5, <2>1 DEF Batch
  <2> QED BY <1>5, <2>1, <2>2, <2>3, <2>4, <2>5, OneSent
<1>9. ASSUME SendNone, UNCHANGED <<session, setupIter>>, outcome' # "error"
      PROVE  SInv'
  <2>1. UNCHANGED <<toServer, auth, needAuth, setupIter>>
    BY <1>5, <1>9, SentNone
  <2> QED BY <1>1, <1>9, <2>1, NothingSent
<1>10. CASE AuthFailed(r)
  BY <1>9, <1>10 DEF AuthFailed, Knows
<1>11. ~SessionError(r)
  BY <1>2, <1>4 DEF SessionError, Accepted, Answer
<1>12. CASE HandlePipelineResponse(r)
  <2>1. UNCHANGED <<toServer, auth, needAuth, setupIter>> /\ outcome' # "error"
    BY <1>5, <1>12 DEF HandlePipelineResponse, Knows
  <2>2. Answer(r) /\ Batch
    BY <1>2, <1>4, <1>12 DEF HandlePipelineResponse, Accepted, Answer
  <2>3. session' = session \/ (session = "" /\ session' = r.session)
    BY <1>12 DEF HandlePipelineResponse
  <2> QED BY <1>1, <2>1, <2>2, <2>3, NothingSent
<1>13. ASSUME NEW c, SendAll(<<c>>, FALSE), ~Batch, ~Batch', session' = serverSession,
              outcome' = outcome, world.pipelined => c.method # "SETUP"
       PROVE  SInv'
  <2>1. /\ \E q : /\ toServer' = Append(toServer, q) /\ q.type = "request" /\ q.pipe = FALSE
                  /\ q.session = session' /\ q.method = c.method
        /\ Filled(auth)' /\ auth'.method = c.method /\ needAuth' = needAuth
    BY <1>5, <1>13, SentOne
  <2>2. PICK q : /\ toServer' = Append(toServer, q) /\ q.type = "request" /\ q.pipe = FALSE
                 /\ q.session = session' /\ q.method = c.method
    BY <2>1
  <2>3. \E p : /\ toServer' = Append(toServer, p) /\ p.type = "request" /\ ~p.pipe
               /\ p.session = serverSession /\ p.method = auth'.method
    BY <1>13, <2>1, <2>2
  <2> QED BY <1>5, <1>13, <2>1, <2>3, OneSent
<1>14. CASE HandleOptions(r)
  <2>1. SendAll(<<Call(Offer, auth.uri)>>, FALSE) /\ UNCHANGED <<session, setupIter, outcome>>
        /\ Plain(r, "OPTIONS")
    BY <1>14 DEF HandleOptions
  <2>2. ~Batch /\ ~Batch' /\ session' = serverSession
    BY <1>2, <1>7, <2>1 DEF Batch
  <2>3. Call(Offer, auth.uri).method # "SETUP"
    BY <1>6 DEF Call
  <2> QED BY <1>13, <2>1, <2>2, <2>3
<1>15. CASE HandleOffer(r)
  <2>1. Plain(r, Offer) /\ UNCHANGED <<session, outcome>> /\ ~Batch /\ Answer(r)
    BY <1>7, <1>15 DEF HandleOffer
  <2>2. session = serverSession
    BY <1>6, <1>7, <2>1
  <2>3. CASE ~world.pipelined
    BY <1>2, <1>13, <1>15, <2>1, <2>2, <2>3 DEF HandleOffer, Batch
  <2>4. CASE world.pipelined
    <3> DEFINE C == {SetupCall(i) : i \in 1..NMedia} \cup {Call(Start, 0)}
               setups_ == [i \in 1..NMedia |-> SetupCall(i)]
    <3>1. PICK s, c : s = setups_ /\ c = Call(Start, 0)
      OBVIOUS
    <3>2. s \in [1..NMedia -> C] /\ c \in C
      BY <3>1
    <3>3. setupIter' = NMedia + 1 /\ SendAll(s \o <<c>>, TRUE)
      BY <1>15, <2>4, <3>1 DEF HandleOffer
    <3> HIDE DEF C
    <3>4. s \in Seq(C) /\ <<c>> \in Seq(C)
      <4>1. NMedia \in Nat
        BY LinkAssumption
      <4>2. s \in Seq(C)
        BY <3>2, <4>1 DEF Seq
      <4> QED BY <3>2, <4>2
    <3>5. s \o <<c>> \in Seq(C)
      BY <3>4, ConcatProperties
    <3>6. /\ \E B : \E b \in Seq(B) :
                 /\ toServer' = toServer \o b
                 /\ \A q \in B : q.type = "request" /\ q.pipe = TRUE /\ q.session = session'
          /\ Filled(auth)' /\ needAuth' = needAuth
      BY <1>5, <3>3, <3>5, SentMany
    <3>7. Batch'
      <4>1. NMedia \in Nat \ {0}
        BY LinkAssumption
      <4>2. NMedia + 1 # 1
        BY <4>1
      <4> QED BY <1>2, <2>4, <3>3, <4>2 DEF Batch
    <3>8. Protected => needAuth'
      BY <1>1, <1>2, <2>1, <3>6, OnlyChallenge DEF SInv, Answer
    <3> QED BY <1>5, <2>1, <3>6, <3>7, <3>8, ManySent
  <2> QED BY <2>3, <2>4
<1>16. CASE HandleSetup(r)
  <2>1. PICK c : SendAll(<<c>>, FALSE)
    BY <1>16 DEF HandleSetup
  <2>2. Plain(r, "SETUP") /\ outcome' = outcome /\ session' = IF session = "" THEN r.session ELSE session
    BY <1>16 DEF HandleSetup
  <2>3. ~Batch /\ ~world.pipelined /\ r.session = serverSession
    BY <1>4, <1>5, <1>7, <2>2
  <2>4. ~Batch' /\ session' = serverSession
    BY <1>2, <1>5, <2>2, <2>3 DEF Batch
  <2> QED BY <1>13, <2>1, <2>2, <2>3, <2>4
<1>17. CASE SetupRefused(r)
  BY <1>9, <1>17 DEF SetupRefused, Knows
<1>18. CASE HandleStart(r)
  BY <1>9, <1>18 DEF HandleStart, Knows
<1> QED BY <1>2, <1>8, <1>10, <1>11, <1>12, <1>14, <1>15, <1>16, <1>17, <1>18 DEF HandleResponse

-----------------------------------------------------------------------------
(* Packets.                                                                *)

\* Requests and responses are where they were, or one place further on.
LEMMA ShiftFacts ==
    ASSUME NEW d \in {0, 1}, NEW i \in Nat, NEW j \in Nat
    PROVE  (i + d = j + d => i = j) /\ (i < j => i + d < j + d)
  OBVIOUS

\* Packets between the messages change nothing of them.
LEMMA PacketKeepsSInv ==
    ASSUME SInv, IInv', Streams', NEW d \in {0, 1}, NEW e \in {0, 1},
           UNCHANGED <<session, serverSession, auth, needAuth, setupIter, outcome, world>>,
           \A i \in DOMAIN Units' : i \in Nat /\
              (Units'[i].type = "response" => i + d \in DOMAIN Units /\ Units[i + d] = Units'[i]),
           \A i \in DOMAIN toServer' : i \in Nat /\
              (toServer'[i].type = "request" => i + e \in DOMAIN toServer /\ toServer[i + e] = toServer'[i])
    PROVE  SInv'
<1>1. Batch' = Batch /\ Protected' = Protected
  BY DEF Batch, Protected
<1>2. Known' /\ Greeting'
  BY <1>1 DEF SInv, Known, Greeting, Filled
<1>3. Answers'
  <2>1. \A i \in DOMAIN Units' : Units'[i].type = "response" =>
           Units'[i].status # "SessionNotFound" /\ (Units'[i].status = "Unauthorized" => Protected)
    BY DEF SInv, Answers
  <2>2. \A i \in DOMAIN Units' : Answer(Units'[i]) =>
           Units'[i].session \in {"", serverSession} /\ (session # "" => Units'[i].session # "")
    BY DEF SInv, Answers, Answer
  <2>3. ASSUME NEW i \in DOMAIN Units', NEW j \in DOMAIN Units', i < j,
               Answer(Units'[i]), Answer(Units'[j]), Units'[i].session # ""
        PROVE  Units'[j].session # ""
    <3>1. /\ i + d \in DOMAIN Units /\ j + d \in DOMAIN Units
          /\ Units[i + d] = Units'[i] /\ Units[j + d] = Units'[j]
      BY <2>3 DEF Answer
    <3>2. i + d < j + d
      BY <2>3, ShiftFacts
    <3> QED BY <2>3, <3>1, <3>2 DEF SInv, Answers
  <2> QED BY <1>1, <2>1, <2>2, <2>3 DEF Answers, Answer
<1>4. Together'
  <2> SUFFICES ASSUME Batch PROVE Together'
    BY <1>1 DEF Together
  <2>1. \A i \in DOMAIN Units' : Answer(Units'[i]) => Units'[i].pipe
    BY ZenonT(40) DEF SInv, Together, Answer
  <2>2. \A i \in DOMAIN toServer' : toServer'[i].type = "request" =>
           toServer'[i].pipe /\ toServer'[i].session \in {"", serverSession}
    BY ZenonT(40) DEF SInv, Together
  <2> QED BY <2>1, <2>2 DEF Together, Answer
<1>5. Alone'
  <2> SUFFICES ASSUME ~Batch PROVE Alone'
    BY <1>1 DEF Alone
  <2>1. OneOpen
    BY DEF SInv, Alone
  <2>2. OneOpen'
    <3>1. \A i, j \in DOMAIN Units' : Units'[i].type = "response" /\ Units'[j].type = "response" => i = j
      <4> SUFFICES ASSUME NEW i \in DOMAIN Units', NEW j \in DOMAIN Units',
                          Units'[i].type = "response", Units'[j].type = "response"
                   PROVE  i = j
        OBVIOUS
      <4>1. i + d = j + d
        BY <2>1 DEF OneOpen
      <4> QED BY <4>1, ShiftFacts
    <3>2. \A i, j \in DOMAIN toServer' :
             toServer'[i].type = "request" /\ toServer'[j].type = "request" => i = j
      <4> SUFFICES ASSUME NEW i \in DOMAIN toServer', NEW j \in DOMAIN toServer',
                          toServer'[i].type = "request", toServer'[j].type = "request"
                   PROVE  i = j
        OBVIOUS
      <4>1. i + e = j + e
        BY <2>1 DEF OneOpen
      <4> QED BY <4>1, ShiftFacts
    <3>3. \A i \in DOMAIN Units', j \in DOMAIN toServer' :
             ~(Units'[i].type = "response" /\ toServer'[j].type = "request")
      BY <2>1 DEF OneOpen
    <3> QED BY <3>1, <3>2, <3>3 DEF OneOpen
  <2>3. \A i \in DOMAIN Units' : Answer(Units'[i]) => ~Units'[i].pipe /\ Units'[i].session = serverSession
    BY DEF SInv, Alone, Answer
  <2>4. \A i \in DOMAIN toServer' : toServer'[i].type = "request" =>
           /\ ~toServer'[i].pipe /\ toServer'[i].session = serverSession /\ session = serverSession
           /\ toServer'[i].method = auth.method
    BY DEF SInv, Alone
  <2>5. /\ session # serverSession => auth.method = "SETUP"
        /\ world.pipelined => auth.method # "SETUP"
    BY DEF SInv, Alone
  <2> QED BY <2>2, <2>3, <2>4, <2>5 DEF Alone, Answer
<1> QED BY <1>2, <1>3, <1>4, <1>5 DEF SInv

\* Where that is.
LEMMA UnitsSame == ASSUME Streams, Units' = Units PROVE \A i \in DOMAIN Units' :
    i \in Nat /\ i + 0 \in DOMAIN Units /\ Units[i + 0] = Units'[i]
<1>1. PICK S : cache \in Seq(S) /\ toClient \in Seq(S)
  BY DEF Streams, ClientStream
<1>2. Units \in Seq(S)
  BY <1>1, ConcatProperties DEF Units
<1>3. PICK u : u = Units
  OBVIOUS
<1>4. \A i \in DOMAIN u : i \in Nat /\ i + 0 \in DOMAIN u /\ u[i + 0] = u[i]
  BY <1>2, <1>3
<1> QED BY <1>3, <1>4

\* A stream nobody touches is the same stream.
LEMMA ServerSame ==
    ASSUME ServerStream, toServer' = toServer
    PROVE  \A i \in DOMAIN toServer' : i \in Nat /\ i + 0 \in DOMAIN toServer /\ toServer[i + 0] = toServer'[i]
<1>1. PICK S : toServer \in Seq(S)
  BY DEF ServerStream
<1> QED BY <1>1

\* The steps of packets are such.
LEMMA PacketStep ==
    ASSUME SInv, IInv', HandleRtp \/ SendRtpRtcp \/ PushPacket \/ Input \/ CutPacket
    PROVE  SInv'
<1>1. /\ UNCHANGED <<session, serverSession, auth, needAuth, setupIter, outcome, world>>
      /\ Streams /\ ServerStream /\ ClientStream
  BY DEF SInv, Streams, HandleRtp, SendRtpRtcp, PushPacket, Input, CutPacket, serverVars, clientVars
<1>2. 0 \in {0, 1} /\ 1 \in {0, 1}
  OBVIOUS
<1>3. UNCHANGED <<cache, toClient>> => Units' = Units /\ ClientStream'
  BY <1>1 DEF Units, ClientStream
<1>4. UNCHANGED toServer => ServerStream'
  BY <1>1, ServerStreamKept
<1>5. CASE HandleRtp
  <2>1. UNCHANGED <<cache, toClient>> /\ toServer # <<>> /\ toServer' = Tail(toServer)
    BY <1>5 DEF HandleRtp, inputVars
  <2>2. \A i \in DOMAIN toServer' : i \in Nat /\ i + 1 \in DOMAIN toServer /\ toServer[i + 1] = toServer'[i]
    <3>1. PICK S : toServer \in Seq(S)
      BY <1>1 DEF ServerStream
    <3>2. PICK k \in Nat \ {0} :
             /\ DOMAIN toServer = 1..k /\ DOMAIN toServer' = 1..(k - 1)
             /\ \A i \in 1..(k - 1) : toServer'[i] = toServer[i + 1]
      BY <2>1, <3>1, AfterTail
    <3> QED BY <3>2
  <2>3. Streams'
    BY <1>1, <1>3, <2>1, ServerStreamKept DEF Streams
  <2> QED BY <1>1, <1>2, <1>3, <2>1, <2>2, <2>3, UnitsSame, PacketKeepsSInv
<1>6. CASE PushPacket
  <2>1. PICK packet : toServer' = Append(toServer, packet) /\ packet.type = "packet"
    BY <1>6 DEF PushPacket
  <2>2. UNCHANGED <<cache, toClient>>
    BY <1>6 DEF PushPacket, inputVars
  <2>3. \A i \in DOMAIN toServer' : i \in Nat /\
           (toServer'[i].type = "request" => i + 0 \in DOMAIN toServer /\ toServer[i + 0] = toServer'[i])
    <3>1. PICK S : toServer \in Seq(S)
      BY <1>1 DEF ServerStream
    <3>2. PICK m \in Nat : /\ DOMAIN toServer = 1..m /\ DOMAIN toServer' = 1..(m + 1)
                           /\ (\A i \in 1..m : toServer'[i] = toServer[i]) /\ toServer'[m + 1] = packet
      BY <2>1, <3>1, AfterAppend
    <3>3. ASSUME NEW i \in 1..(m + 1), toServer'[i].type = "request"
          PROVE  i + 0 \in DOMAIN toServer /\ toServer[i + 0] = toServer'[i]
      <4>1. i \in 1..m
        BY <2>1, <3>2, <3>3, LastOrBefore
      <4>2. i + 0 = i
        OBVIOUS
      <4> QED BY <3>2, <4>1, <4>2
    <3> QED BY <3>2, <3>3
  <2>4. Streams'
    BY <1>1, <1>3, <2>1, <2>2, ServerStreamKept DEF Streams
  <2> QED BY <1>1, <1>2, <1>3, <2>2, <2>3, <2>4, UnitsSame, PacketKeepsSInv
<1>7. CASE SendRtpRtcp
  <2>1. PICK packet : toClient' = Append(toClient, packet) /\ packet.type = "packet"
    BY <1>7 DEF SendRtpRtcp
  <2>2. UNCHANGED <<cache, toServer>>
    BY <1>7 DEF SendRtpRtcp, inputVars
  <2>3. \A i \in DOMAIN Units' : i \in Nat /\
           (Units'[i].type = "response" => i + 0 \in DOMAIN Units /\ Units[i + 0] = Units'[i])
    <3>1. PICK n \in Nat : /\ DOMAIN Units = 1..n /\ DOMAIN Units' = 1..(n + 1)
                           /\ (\A i \in 1..n : Units'[i] = Units[i]) /\ Units'[n + 1] = packet
      BY <1>1, <2>1, <2>2, UnitMore
    <3>2. ASSUME NEW i \in 1..(n + 1), Units'[i].type = "response"
          PROVE  i + 0 \in DOMAIN Units /\ Units[i + 0] = Units'[i]
      <4>1. i \in 1..n
        BY <2>1, <3>1, <3>2, LastOrBefore
      <4>2. i + 0 = i
        OBVIOUS
      <4> QED BY <3>1, <4>1, <4>2
    <3> QED BY <3>1, <3>2
  <2>4. Streams'
    BY <1>1, <1>4, <2>1, <2>2, ClientStreamKept DEF Streams
  <2> QED BY <1>1, <1>2, <2>2, <2>3, <2>4, ServerSame, PacketKeepsSInv
<1>8. CASE Input
  <2>1. Units' = Units
    BY <1>1, <1>8, UnitsGiven
  <2>2. UNCHANGED toServer /\ \E n \in 1..Len(toClient) :
           /\ cache' = cache \o SubSeq(toClient, 1, n)
           /\ toClient' = SubSeq(toClient, n + 1, Len(toClient))
    BY <1>8 DEF Input
  <2>3. Streams'
    BY <1>1, <1>4, <2>2, ClientStreamKept DEF Streams
  <2> QED BY <1>1, <1>2, <2>1, <2>2, <2>3, UnitsSame, ServerSame, PacketKeepsSInv
<1>9. CASE CutPacket
  <2>1. cache # <<>> /\ cache' = Tail(cache) /\ UNCHANGED <<toClient, toServer>>
    BY <1>9 DEF CutPacket
  <2>2. \A i \in DOMAIN Units' : i \in Nat /\ i + 1 \in DOMAIN Units /\ Units[i + 1] = Units'[i]
    BY <1>1, <2>1, UnitLess
  <2>3. Streams'
    BY <1>1, <1>4, <2>1, ClientStreamKept DEF Streams
  <2> QED BY <1>1, <1>2, <2>1, <2>2, <2>3, ServerSame, PacketKeepsSInv
<1> QED BY <1>5, <1>6, <1>7, <1>8, <1>9

\* Steps that send and take nothing.
LEMMA IdleKeepsSInv ==
    ASSUME SInv, IInv', EndOfChunk \/ Quiet \/ UNCHANGED vars
    PROVE  SInv'
<1>1. /\ UNCHANGED <<session, serverSession, auth, needAuth, setupIter, outcome, world>>
      /\ UNCHANGED <<cache, toClient, toServer>>
  BY DEF EndOfChunk, Quiet, vars, clientVars, serverVars, inputVars
<1>2. Streams /\ ServerStream
  BY DEF SInv, Streams
<1>3. Streams' /\ Units' = Units /\ 0 \in {0, 1}
  BY <1>1, <1>2 DEF Streams, ClientStream, ServerStream, Units
<1> QED BY <1>1, <1>2, <1>3, UnitsSame, ServerSame, PacketKeepsSInv

\* Every step keeps both sides agreed.
LEMMA StepKeepsSInv == SInv /\ [Next]_vars => SInv'
<1> SUFFICES ASSUME SInv, [Next]_vars PROVE SInv'
  OBVIOUS
<1>1. IInv'
  BY StepKeepsIInv DEF SInv
<1> QED BY <1>1, RequestKeepsSInv, MessageKeepsSInv, PacketStep, IdleKeepsSInv DEF Next

\* They agree while there is no session.
LEMMA InitSInv == Init => SInv
<1> SUFFICES ASSUME Init PROVE SInv
  OBVIOUS
<1>1. PICK q : q = [type |-> "request", cseq |-> 0, method |-> First, uri |-> 0,
                    credentials |-> NoHeader, session |-> "", pipe |-> FALSE,
                    transport |-> NoTransport, body |-> First = "ANNOUNCE"]
  OBVIOUS
<1>2. q.type = "request" /\ ~q.pipe /\ q.session = "" /\ q.method = First
  BY <1>1
<1>3. toServer = <<q>> /\ cache = <<>> /\ toClient = <<>>
  BY <1>1 DEF Init
<1>4. Streams
  <2>1. <<>> \in Seq({}) /\ <<q>> \in Seq({q})
    OBVIOUS
  <2> QED BY <1>3, <2>1 DEF Streams, ClientStream, ServerStream
<1>5. DOMAIN Units = {}
  <2>1. <<>> \o <<>> = <<>>
    OBVIOUS
  <2> QED BY <1>3, <2>1 DEF Units
<1>6. DOMAIN toServer = {1} /\ toServer[1] = q
  BY <1>3
<1>7. auth.method = First /\ Filled(auth) /\ First # "SETUP"
  BY DEF Init, EmptyAuth, Filled, Keys, First, Offer, Worlds
<1>8. session = "" /\ serverSession = "" /\ outcome = "" /\ ~Batch
  BY DEF Init, Batch
<1>9. Known /\ Answers /\ Together /\ Greeting
  BY <1>5, <1>7, <1>8 DEF Known, Answers, Together, Greeting
<1>10. Alone
  BY <1>2, <1>5, <1>6, <1>7, <1>8 DEF Alone, OneOpen
<1> QED BY <1>4, <1>9, <1>10, InitIInv DEF SInv

\* What the invariant says of the session is what the property asks.
LEMMA SInvAgrees == SInv => SessionAgreed
<1> SUFFICES ASSUME SInv PROVE SessionAgreed
  OBVIOUS
<1>1. PICK S : cache \in Seq(S) /\ toClient \in Seq(S)
  BY DEF SInv, Streams, ClientStream
<1>2. ASSUME NEW i \in DOMAIN toClient, toClient[i].type = "response"
      PROVE  toClient[i].status # "SessionNotFound"
  <2>1. Len(cache) \in Nat /\ Len(toClient) \in Nat /\ i \in 1..Len(toClient)
    BY <1>1
  <2>2. PICK j : j = Len(cache) + i
    OBVIOUS
  <2>3. j \in 1..(Len(cache) + Len(toClient)) /\ ~(j <= Len(cache)) /\ j - Len(cache) = i
    BY <2>1, <2>2
  <2>4. j \in DOMAIN Units /\ Units[j] = toClient[i]
    BY <1>1, <2>3, ConcatProperties DEF Units
  <2> QED BY <1>2, <2>4 DEF SInv, Answers
<1> QED BY <1>2 DEF SInv, Known, SessionAgreed

\* However many media, and whether or not the requests are pipelined: input()
\* reports no session error, the server rejects no request for its Session
\* header, and the client has the session of the server or none.
THEOREM SessionAlwaysAgreed == Spec => []SessionAgreed
<1> QED BY InitSInv, StepKeepsSInv, SInvAgrees, PTL DEF Spec

-----------------------------------------------------------------------------
(* The walk over the media.  SETUP for one medium after the other, in the   *)
(* order in which they arrive: the server is never asked for one twice.     *)

\* A SETUP that asks for a transport; the repetition of a challenged one does not.
Asking(q) == q.type = "request" /\ q.method = "SETUP" /\ q.transport # NoTransport

\* For how many media the client has sent one.
Requested == IF auth.method = "SETUP" THEN setupIter ELSE setupIter - 1

Domains ==
    /\ transports = <<>> \/ transports = [m \in 1..NMedia |-> transports[m]]
    /\ granted = [m \in 1..NMedia |-> granted[m]]

Walk ==
    /\ auth.method \in {"OPTIONS", Offer} => setupIter = 1
    /\ auth.method = "SETUP" => setupIter <= NMedia
    /\ setups <= Requested

InTurn ==
    /\ \A i \in DOMAIN toServer : Asking(toServer[i]) =>
          toServer[i].uri \in Nat /\ setups < toServer[i].uri /\ toServer[i].uri <= Requested
    /\ \A i, j \in DOMAIN toServer :
          i < j /\ Asking(toServer[i]) /\ Asking(toServer[j]) => toServer[i].uri < toServer[j].uri

Bodies == \A i \in DOMAIN toServer : toServer[i].type = "request" => toServer[i].body \in BOOLEAN

TInv == SInv /\ TypeOK /\ Domains /\ Walk /\ InTurn /\ Bodies

\* What the counters are.
LEMMA CountFacts ==
    ASSUME TInv
    PROVE  /\ NMedia \in Nat \ {0} /\ setups \in Nat /\ setupIter \in Nat \ {0} /\ Requested \in 0..NMedia
           /\ setups <= Requested
<1>1. /\ NMedia \in Nat \ {0} /\ setupIter \in 1..(NMedia + 1) /\ setups \in 0..NMedia
      /\ setups <= Requested /\ (auth.method = "SETUP" => setupIter <= NMedia)
  BY LinkAssumption DEF TInv, TypeOK, Walk
<1>2. Requested \in 0..NMedia
  <2>1. CASE auth.method = "SETUP"
    BY <1>1, <2>1 DEF Requested
  <2>2. CASE auth.method # "SETUP"
    BY <1>1, <2>2 DEF Requested
  <2> QED BY <2>1, <2>2
<1> QED BY <1>1, <1>2

\* A list of all media has as many entries.
LEMMA LengthOfAll == ASSUME NEW f, f = [m \in 1..NMedia |-> f[m]] PROVE Len(f) = NMedia
<1>1. NMedia \in Nat
  BY LinkAssumption
<1>2. PICK S : S = {f[m] : m \in 1..NMedia}
  OBVIOUS
<1>3. f \in [1..NMedia -> S]
  BY <1>2
<1> QED BY <1>1, <1>3 DEF Seq

\* Requests that are only moved up stay in turn.
LEMMA TurnKept ==
    ASSUME TInv, setups' = setups, NEW e \in {0, 1}, Requested' \in Nat, Requested <= Requested',
           \A i \in DOMAIN toServer' : i \in Nat /\
              (Asking(toServer'[i]) => i + e \in DOMAIN toServer /\ toServer[i + e] = toServer'[i])
    PROVE  InTurn'
<1>1. /\ \A i \in DOMAIN toServer : Asking(toServer[i]) =>
            toServer[i].uri \in Nat /\ setups < toServer[i].uri /\ toServer[i].uri <= Requested
      /\ \A i, j \in DOMAIN toServer :
            i < j /\ Asking(toServer[i]) /\ Asking(toServer[j]) => toServer[i].uri < toServer[j].uri
  BY DEF TInv, InTurn
<1>2. Requested \in Nat /\ setups \in Nat
  BY CountFacts
<1>3. ASSUME NEW i \in DOMAIN toServer', Asking(toServer'[i])
      PROVE  toServer'[i].uri \in Nat /\ setups < toServer'[i].uri /\ toServer'[i].uri <= Requested'
  <2>1. i + e \in DOMAIN toServer /\ toServer[i + e] = toServer'[i]
    BY <1>3
  <2>2. toServer'[i].uri \in Nat /\ setups < toServer'[i].uri /\ toServer'[i].uri <= Requested
    BY <1>1, <1>3, <2>1
  <2> QED BY <1>2, <2>2
<1>4. ASSUME NEW i \in DOMAIN toServer', NEW j \in DOMAIN toServer', i < j,
             Asking(toServer'[i]), Asking(toServer'[j])
      PROVE  toServer'[i].uri < toServer'[j].uri
  <2>1. /\ i + e \in DOMAIN toServer /\ toServer[i + e] = toServer'[i]
        /\ j + e \in DOMAIN toServer /\ toServer[j + e] = toServer'[j]
    BY <1>4
  <2>2. i + e < j + e
    BY <1>4, ShiftFacts
  <2> QED BY <1>1, <1>4, <2>1, <2>2
<1> QED BY <1>3, <1>4 DEF InTurn, Asking

\* One more request behind them, for the next medium if it asks for one.
LEMMA TurnOne ==
    ASSUME TInv, setups' = setups, Requested' \in Nat, Requested <= Requested', NEW q,
           toServer' = Append(toServer, q),
           Asking(q) => q.uri = Requested' /\ Requested < Requested'
    PROVE  InTurn'
<1>1. /\ \A i \in DOMAIN toServer : Asking(toServer[i]) =>
            toServer[i].uri \in Nat /\ setups < toServer[i].uri /\ toServer[i].uri <= Requested
      /\ \A i, j \in DOMAIN toServer :
            i < j /\ Asking(toServer[i]) /\ Asking(toServer[j]) => toServer[i].uri < toServer[j].uri
  BY DEF TInv, InTurn
<1>2. PICK old \in Nat, new \in Nat : old = Requested /\ new = Requested' /\ setups \in Nat /\ setups <= old
                              /\ old <= new
  BY CountFacts
<1>3. PICK m \in Nat : /\ DOMAIN toServer = 1..m /\ DOMAIN toServer' = 1..(m + 1)
                       /\ (\A i \in 1..m : toServer'[i] = toServer[i]) /\ toServer'[m + 1] = q
  <2>1. PICK S : toServer \in Seq(S)
    BY DEF TInv, SInv, Streams, ServerStream
  <2>2. toServer \in Seq(S) /\ toServer' = Append(toServer, q)
    BY <2>1
  <2> QED BY <2>2, AfterAppend
<1>4. ASSUME NEW i \in 1..m, Asking(toServer'[i])
      PROVE  toServer'[i].uri \in Nat /\ setups < toServer'[i].uri /\ toServer'[i].uri <= Requested
  BY <1>1, <1>3, <1>4
<1>5. ASSUME NEW i \in 1..(m + 1), Asking(toServer'[i])
      PROVE  toServer'[i].uri \in Nat /\ setups < toServer'[i].uri /\ toServer'[i].uri <= Requested'
  <2>1. CASE i = m + 1
    BY <1>2, <1>3, <1>5, <2>1
  <2>2. CASE i \in 1..m
    <3>1. toServer'[i].uri \in Nat /\ setups < toServer'[i].uri /\ toServer'[i].uri <= old
      BY <1>2, <1>4, <1>5, <2>2
    <3>2. PICK u : u = toServer'[i].uri
      OBVIOUS
    <3>3. u \in Nat /\ u <= old /\ old <= new /\ old \in Nat /\ new \in Nat
      BY <1>2, <3>1, <3>2
    <3>4. u <= new
      BY ONLY <3>3
    <3> QED BY <1>2, <3>1, <3>2, <3>4
  <2> QED BY <2>1, <2>2, LastOrBefore
<1>6. ASSUME NEW i \in 1..(m + 1), NEW j \in 1..(m + 1), i < j,
             Asking(toServer'[i]), Asking(toServer'[j])
      PROVE  toServer'[i].uri < toServer'[j].uri
  <2>1. i \in 1..m /\ (j = m + 1 \/ j \in 1..m)
    BY <1>6, LastOrBefore
  <2>2. CASE j \in 1..m
    BY <1>1, <1>3, <1>6, <2>1, <2>2
  <2>3. CASE j = m + 1
    <3>1. toServer'[i].uri \in Nat /\ toServer'[i].uri <= old
      BY <1>2, <1>4, <1>6, <2>1
    <3>2. toServer'[j].uri = new /\ old < new
      BY <1>2, <1>3, <1>6, <2>3
    <3>3. PICK u : u = toServer'[i].uri
      OBVIOUS
    <3>4. u \in Nat /\ u <= old /\ old < new /\ old \in Nat /\ new \in Nat
      BY <1>2, <3>1, <3>2, <3>3
    <3>5. u < new
      BY ONLY <3>4
    <3> QED BY <3>2, <3>3, <3>5
  <2> QED BY <2>1, <2>2, <2>3
<1> QED BY <1>3, <1>5, <1>6 DEF InTurn, Asking

\* All media at once, while nothing else is asked for.
LEMMA TurnMany ==
    ASSUME TInv, setups' = setups, Requested = 0, Requested' = NMedia,
           NEW B, NEW b \in Seq(B), toServer' = toServer \o b,
           \A i \in 1..Len(b) : Asking(b[i]) => b[i].uri = i /\ i <= NMedia
    PROVE  InTurn'
<1>1. setups = 0 /\ NMedia \in Nat
  BY CountFacts
<1>2. \A i \in DOMAIN toServer : ~Asking(toServer[i])
  <2> SUFFICES ASSUME NEW i \in DOMAIN toServer, Asking(toServer[i]) PROVE FALSE
    OBVIOUS
  <2>1. PICK u : u = toServer[i].uri
    OBVIOUS
  <2>2. u \in Nat /\ 0 < u /\ u <= 0
    BY <1>1, <2>1 DEF TInv, InTurn
  <2> QED BY ONLY <2>2
<1>3. PICK n \in Nat : /\ n = Len(b) /\ \A i \in 1..n : i \in Nat
  OBVIOUS
<1>4. PICK k \in Nat : \A i \in DOMAIN toServer' : i \in Nat /\
         IF i <= k THEN i \in DOMAIN toServer /\ toServer'[i] = toServer[i]
                   ELSE i - k \in 1..n /\ toServer'[i] = b[i - k]
  <2>1. PICK S : toServer \in Seq(S)
    BY DEF TInv, SInv, Streams, ServerStream
  <2>2. PICK s : s \in Seq(S) /\ s = toServer
    BY <2>1
  <2>3. s \in Seq(S \cup B) /\ b \in Seq(S \cup B)
    BY <2>2, SeqMonotonic
  <2>4. PICK t : t = s \o b
    OBVIOUS
  <2>5. /\ t \in Seq(S \cup B) /\ Len(t) = Len(s) + n
        /\ \A i \in 1..(Len(s) + n) : t[i] = IF i <= Len(s) THEN s[i] ELSE b[i - Len(s)]
    BY <1>3, <2>3, <2>4, ConcatProperties
  <2>6. Len(s) \in Nat /\ DOMAIN s = 1..Len(s) /\ DOMAIN t = 1..(Len(s) + n)
    BY <2>2, <2>5
  <2>7. ASSUME NEW i \in 1..(Len(s) + n)
        PROVE  i \in Nat /\ IF i <= Len(s) THEN i \in DOMAIN s /\ t[i] = s[i]
                                           ELSE i - Len(s) \in 1..n /\ t[i] = b[i - Len(s)]
    BY <2>5, <2>6
  <2> QED BY <2>2, <2>4, <2>6, <2>7
<1>5. ASSUME NEW i \in DOMAIN toServer', Asking(toServer'[i])
      PROVE  toServer'[i].uri \in Nat /\ toServer'[i].uri = i - k /\ 0 < i - k /\ i - k <= NMedia
  <2>1. ~(i <= k)
    BY <1>2, <1>4, <1>5
  <2>2. i - k \in 1..n /\ toServer'[i] = b[i - k]
    BY <1>4, <2>1
  <2>3. b[i - k].uri = i - k /\ i - k <= NMedia
    BY <1>3, <1>5, <2>2
  <2> QED BY <1>3, <2>2, <2>3
<1>6. ASSUME NEW i \in DOMAIN toServer', NEW j \in DOMAIN toServer', i < j,
             Asking(toServer'[i]), Asking(toServer'[j])
      PROVE  toServer'[i].uri < toServer'[j].uri
  <2>1. toServer'[i].uri = i - k /\ toServer'[j].uri = j - k /\ i \in Nat /\ j \in Nat
    BY <1>4, <1>5, <1>6
  <2>2. i - k < j - k
    BY <1>6, <2>1
  <2> QED BY <2>1, <2>2
<1> QED BY <1>1, <1>5, <1>6 DEF InTurn, Asking

\* What the one request asks for.
LEMMA SentOneFor ==
    ASSUME ServerStream, Filled(auth), NEW c, NEW pipe, SendAll(<<c>>, pipe)
    PROVE  /\ \E q : /\ toServer' = Append(toServer, q) /\ q.method = c.method
                     /\ q.uri = c.uri /\ q.transport = c.transport /\ q.body \in BOOLEAN
           /\ auth'.method = c.method /\ auth'.uri = c.uri /\ cseq' = cseq + 1
<1>1. PICK S : toServer \in Seq(S)
  BY DEF ServerStream
<1>2. PICK q : q = MakeRequest(cseq + 1 - 1, c, pipe)
  OBVIOUS
<1>3. PICK s : s = <<c>>
  OBVIOUS
<1>4. Len(s) = 1 /\ DOMAIN s = 1..1 /\ s[1] = c /\ Last(s) = c /\ s # <<>>
  BY <1>3 DEF Last
<1>5. [i \in DOMAIN s |-> MakeRequest(cseq + i - 1, s[i], pipe)] = <<q>>
  BY <1>2, <1>4
<1>6. toServer' = toServer \o <<q>> /\ auth' = CallAuth(auth, c) /\ cseq' = cseq + 1
  BY <1>3, <1>4, <1>5 DEF SendAll
<1>7. toServer' = Append(toServer, q)
  <2>1. toServer \in Seq(S \cup {q}) /\ q \in S \cup {q}
    BY <1>1, SeqMonotonic
  <2> QED BY <1>6, <2>1, AppendIsConcat
<1>8. q.method = c.method /\ q.uri = c.uri /\ q.transport = c.transport /\ q.body \in BOOLEAN
  BY <1>2 DEF MakeRequest
<1>9. auth'.method = c.method /\ auth'.uri = c.uri
  BY <1>6 DEF CallAuth, Filled, Keys
<1> QED BY <1>6, <1>7, <1>8, <1>9

\* Requests for these calls, with or without a body.
RequestsFor(calls, n, b) ==
    /\ Len(b) = n
    /\ \A i \in 1..n : /\ b[i].method = calls[i].method /\ b[i].uri = calls[i].uri
                       /\ b[i].transport = calls[i].transport /\ b[i].body \in BOOLEAN

\* What the requests of a batch ask for.
LEMMA SentManyFor ==
    ASSUME ServerStream, Filled(auth), NEW C, NEW calls \in Seq(C), NEW pipe \in BOOLEAN, NEW n \in Nat \ {0},
           Len(calls) = n, SendAll(calls, pipe)
    PROVE  /\ \E B : \E b \in Seq(B) : toServer' = toServer \o b /\ RequestsFor(calls, n, b)
           /\ auth'.method = calls[n].method /\ auth'.uri = calls[n].uri /\ cseq' = cseq + n
<1> DEFINE B == {MakeRequest(cseq + i - 1, calls[i], pipe) : i \in 1..n}
           reqs == [i \in 1..n |-> MakeRequest(cseq + i - 1, calls[i], pipe)]
<1>1. DOMAIN calls = 1..n /\ calls # <<>> /\ Last(calls) = calls[n]
  BY DEF Last
<1>2. toServer' = toServer \o reqs /\ cseq' = cseq + n /\ auth' = CallAuth(auth, calls[n])
  BY <1>1 DEF SendAll
<1>3. reqs \in Seq(B) /\ Len(reqs) = n
  BY DEF Seq
<1>4. \A i \in 1..n : /\ reqs[i].method = calls[i].method /\ reqs[i].uri = calls[i].uri
                      /\ reqs[i].transport = calls[i].transport /\ reqs[i].body \in BOOLEAN
  BY DEF MakeRequest
<1>5. auth'.method = calls[n].method /\ auth'.uri = calls[n].uri
  BY <1>2 DEF CallAuth, Filled, Keys
<1> HIDE DEF B, reqs
<1>6. RequestsFor(calls, n, reqs)
  BY <1>3, <1>4 DEF RequestsFor
<1> QED BY <1>2, <1>3, <1>5, <1>6

\* A body is there or not.
LEMMA BodiesKept ==
    ASSUME Bodies, NEW e \in {0, 1},
           \A i \in DOMAIN toServer' : i \in Nat /\
              (toServer'[i].type = "request" => i + e \in DOMAIN toServer /\ toServer[i + e] = toServer'[i])
    PROVE  Bodies'
  BY DEF Bodies

\* ... or in a batch sent behind it, ...
LEMMA BodiesMore ==
    ASSUME Bodies, ServerStream, NEW B, NEW b \in Seq(B), toServer' = toServer \o b,
           \A i \in 1..Len(b) : b[i].body \in BOOLEAN
    PROVE  Bodies'
<1>1. PICK S : toServer \in Seq(S)
  BY DEF ServerStream
<1>2. PICK C : C = {b[i] : i \in 1..Len(b)}
  OBVIOUS
<1>3. b \in Seq(C)
  <2>1. b \in [1..Len(b) -> C] /\ Len(b) \in Nat
    BY <1>2
  <2> QED BY <2>1
<1>4. \A i \in DOMAIN toServer' :
         (i \in DOMAIN toServer /\ toServer'[i] = toServer[i]) \/ toServer'[i] \in C
  BY <1>1, <1>3, AfterConcat
<1>5. \A q \in C : q.body \in BOOLEAN
  BY <1>2
<1> QED BY <1>4, <1>5 DEF Bodies

\* ... or in one request.
LEMMA BodiesOne ==
    ASSUME Bodies, ServerStream, NEW q, toServer' = Append(toServer, q),
           q.type = "request" => q.body \in BOOLEAN
    PROVE  Bodies'
<1>1. PICK S : toServer \in Seq(S)
  BY DEF ServerStream
<1>2. PICK s : s \in Seq(S) /\ s = toServer
  BY <1>1
<1>3. PICK m \in Nat : /\ DOMAIN toServer = 1..m /\ DOMAIN toServer' = 1..(m + 1)
                       /\ (\A i \in 1..m : toServer'[i] = toServer[i]) /\ toServer'[m + 1] = q
  BY <1>2, AfterAppend
<1>4. \A i \in 1..(m + 1) : i = m + 1 \/ i \in 1..m
  BY LastOrBefore
<1> QED BY <1>3, <1>4 DEF Bodies

\* The first request taken off.
LEMMA ServerLess ==
    ASSUME ServerStream, toServer # <<>>, toServer' = Tail(toServer)
    PROVE  /\ \A i \in DOMAIN toServer' :
                 i \in Nat /\ i + 1 \in DOMAIN toServer /\ toServer[i + 1] = toServer'[i] /\ 1 < i + 1
           /\ 1 \in DOMAIN toServer /\ toServer[1] = Head(toServer)
<1>1. PICK S : toServer \in Seq(S)
  BY DEF ServerStream
<1>2. PICK s, t : s \in Seq(S) /\ s = toServer /\ t = Tail(s)
  BY <1>1
<1>3. PICK k \in Nat \ {0} :
         /\ DOMAIN s = 1..k /\ DOMAIN t = 1..(k - 1)
         /\ (\A i \in 1..(k - 1) : t[i] = s[i + 1]) /\ s[1] = Head(s)
  BY <1>2, AfterTail
<1>4. 1 \in 1..k /\ \A i \in 1..(k - 1) : i \in Nat /\ i + 1 \in 1..k /\ 1 < i + 1
  BY <1>3
<1> QED BY <1>2, <1>3, <1>4

-----------------------------------------------------------------------------
(* The steps of the walk.                                                  *)

\* A new transport is agreed on, for a medium that had none.
LEMMA SetupKeepsTInv ==
    ASSUME TInv, SInv', HandleRequest, NEW q, q = Head(toServer), ReplaySetup(q)
    PROVE  TInv'
<1>1. /\ toServer # <<>> /\ q.type = "request" /\ toServer' = Tail(toServer)
      /\ UNCHANGED <<auth, setupIter, world, cseq, transports, needAuth, reading, outcome, session, packets>>
      /\ UNCHANGED <<announced, started, challenges>> /\ serverSession' = "session"
      /\ setups' = setups + 1
  BY DEF HandleRequest, ReplaySetup, inputVars, clientVars
<1>2. ServerStream /\ ServerStream'
  BY DEF TInv, SInv, Streams
<1>3. /\ \A i \in DOMAIN toServer' :
            i \in Nat /\ i + 1 \in DOMAIN toServer /\ toServer[i + 1] = toServer'[i] /\ 1 < i + 1
      /\ 1 \in DOMAIN toServer /\ toServer[1] = q
  BY <1>1, <1>2, ServerLess
<1>4. Asking(q)
  BY <1>1 DEF ReplaySetup, Asking
<1>5. PICK u : u = q.uri
  OBVIOUS
<1>6. u \in Nat /\ setups \in Nat /\ setups < u /\ u <= Requested /\ Requested \in 0..NMedia /\ NMedia \in Nat
  BY <1>3, <1>4, <1>5, CountFacts DEF TInv, InTurn
<1>7. Requested' = Requested /\ setups + 1 <= Requested /\ setups + 1 \in 0..NMedia /\ setups + 1 <= u
  BY <1>1, <1>6 DEF Requested
<1>8. ASSUME NEW i \in DOMAIN toServer', Asking(toServer'[i])
      PROVE  toServer'[i].uri \in Nat /\ setups + 1 < toServer'[i].uri /\ toServer'[i].uri <= Requested
  <2>1. PICK v : v = toServer'[i].uri
    OBVIOUS
  <2>2. v \in Nat /\ u < v /\ v <= Requested
    BY <1>3, <1>4, <1>5, <1>8, <2>1 DEF TInv, InTurn
  <2>3. setups + 1 < v
    BY ONLY <1>6, <1>7, <2>2
  <2> QED BY <2>1, <2>2, <2>3
<1>9. ASSUME NEW i \in DOMAIN toServer', NEW j \in DOMAIN toServer', i < j,
             Asking(toServer'[i]), Asking(toServer'[j])
      PROVE  toServer'[i].uri < toServer'[j].uri
  <2>1. i + 1 < j + 1
    BY <1>3, <1>9
  <2> QED BY <1>3, <1>9, <2>1 DEF TInv, InTurn
<1>10. InTurn'
  BY <1>1, <1>7, <1>8, <1>9 DEF InTurn, Asking
<1>11. Bodies'
  BY <1>3, BodiesKept DEF TInv
<1>12. /\ granted' = [m \in 1..NMedia |-> granted'[m]]
       /\ \A m \in 1..NMedia : DOMAIN granted'[m] = DOMAIN TransportDefaults
  <2>1. PICK t : /\ t = Grant(Decode(q.transport))
                 /\ granted' = IF world.push /\ ~announced THEN granted ELSE [granted EXCEPT ![Slot(q.uri)] = t]
    BY DEF ReplaySetup
  <2>2. DOMAIN t = DOMAIN TransportDefaults
    BY <2>1 DEF Grant, Decode
  <2>3. granted = [m \in 1..NMedia |-> granted[m]] /\ \A m \in 1..NMedia : DOMAIN granted[m] = DOMAIN TransportDefaults
    BY DEF TInv, Domains, TypeOK
  <2> QED BY <2>1, <2>2, <2>3
<1>13. Domains' /\ Walk'
  BY <1>1, <1>7, <1>12 DEF TInv, Domains, Walk, Offer
<1>14. TypeOK'
  BY <1>1, <1>7, <1>12 DEF TInv, TypeOK
<1> QED BY <1>10, <1>11, <1>13, <1>14 DEF TInv

\* Steps that leave the walk where it is.
LEMMA ElsewhereKeepsTInv ==
    ASSUME TInv, SInv', TypeOK', NEW e \in {0, 1},
           UNCHANGED <<auth, setupIter, world, transports, granted, setups>>,
           \A i \in DOMAIN toServer' : i \in Nat /\
              (toServer'[i].type = "request" => i + e \in DOMAIN toServer /\ toServer[i + e] = toServer'[i])
    PROVE  TInv'
<1>1. Requested' = Requested /\ Requested \in Nat
  BY CountFacts DEF Requested
<1>2. InTurn'
  <2>1. \A i \in DOMAIN toServer' : i \in Nat /\
           (Asking(toServer'[i]) => i + e \in DOMAIN toServer /\ toServer[i + e] = toServer'[i])
    BY DEF Asking
  <2> QED BY <1>1, <2>1, TurnKept
<1>3. Bodies'
  BY BodiesKept DEF TInv
<1>4. Domains' /\ Walk'
  BY <1>1 DEF TInv, Domains, Walk, Offer
<1> QED BY <1>2, <1>3, <1>4 DEF TInv

\* Every request.
LEMMA RequestKeepsTInv == ASSUME TInv, SInv', HandleRequest PROVE TInv'
<1>1. PICK q : q = Head(toServer)
  OBVIOUS
<1>2. /\ toServer # <<>> /\ q.type = "request" /\ toServer' = Tail(toServer)
      /\ UNCHANGED <<clientVars, inputVars, packets, world>>
      /\ Challenge(q) \/ RejectSession(q) \/ RefuseTransport(q) \/ ReplaySetup(q) \/ HandleOther(q)
  BY <1>1 DEF HandleRequest
<1>3. ServerStream
  BY DEF TInv, SInv, Streams
<1>4. /\ \A i \in DOMAIN toServer' : i \in Nat /\ i + 1 \in DOMAIN toServer /\ toServer[i + 1] = toServer'[i]
      /\ 1 \in DOMAIN toServer /\ toServer[1] = q
  BY <1>1, <1>2, <1>3, ServerLess
<1>5. CASE ReplaySetup(q)
  BY <1>1, <1>5, SetupKeepsTInv
<1>6. CASE ~ReplaySetup(q)
  <2>1. /\ UNCHANGED <<granted, setups, serverSession>> /\ challenges' \in {challenges, challenges + 1}
        /\ announced' \in {announced, q.body}
    BY <1>2, <1>6 DEF Challenge, RejectSession, RefuseTransport, HandleOther
  <2>2. q.body \in BOOLEAN
    BY <1>2, <1>4 DEF TInv, Bodies
  <2>3. started' \in BOOLEAN
    <3>1. CASE HandleOther(q)
      BY <3>1 DEF HandleOther
    <3>2. CASE ~HandleOther(q)
      <4>1. started' = started
        BY <1>2, <1>6, <3>2 DEF Challenge, RejectSession, RefuseTransport
      <4> QED BY <4>1 DEF TInv, TypeOK
    <3> QED BY <3>1, <3>2
  <2>4. TypeOK'
    <3>1. announced' \in BOOLEAN /\ challenges' \in Nat
      <4>1. announced \in BOOLEAN /\ challenges \in Nat
        BY DEF TInv, TypeOK
      <4>2. challenges' \in Nat
        BY <2>1, <4>1
      <4>3. announced' \in BOOLEAN
        BY <2>1, <2>2, <4>1, Zenon
      <4> QED BY <4>2, <4>3
    <3>2. UNCHANGED <<auth, needAuth, cseq, session, transports, setupIter, outcome, reading, packets>>
      BY <1>2 DEF clientVars, inputVars
    <3> QED BY <2>1, <2>3, <3>1, <3>2 DEF TInv, TypeOK
  <2>5. UNCHANGED <<auth, setupIter, world, transports, granted, setups>>
    BY <1>2, <2>1 DEF clientVars
  <2> QED BY <1>4, <2>4, <2>5, ElsewhereKeepsTInv
<1> QED BY <1>5, <1>6

\* Packets, and parts of the stream.
LEMMA PacketKeepsTInv ==
    ASSUME TInv, SInv', HandleRtp \/ SendRtpRtcp \/ PushPacket \/ Input \/ CutPacket \/ EndOfChunk
                        \/ Quiet \/ UNCHANGED vars
    PROVE  TInv'
<1>1. /\ UNCHANGED <<auth, setupIter, world, transports, granted, setups, needAuth, cseq, session, outcome>>
      /\ UNCHANGED <<serverSession, announced, started, challenges>>
  BY DEF HandleRtp, SendRtpRtcp, PushPacket, Input, CutPacket, EndOfChunk, Quiet, vars, clientVars, serverVars
<1>2. reading' \in BOOLEAN
  BY DEF HandleRtp, SendRtpRtcp, PushPacket, Input, CutPacket, EndOfChunk, Quiet, vars, inputVars, TInv, TypeOK
<1>3. packets' \in 0..MaxPackets
  <2>1. packets \in 0..MaxPackets /\ MaxPackets \in Nat
    BY LinkAssumption DEF TInv, TypeOK
  <2>2. packets' = packets \/ (packets' = packets + 1 /\ packets < MaxPackets)
    BY DEF HandleRtp, SendRtpRtcp, PushPacket, Input, CutPacket, EndOfChunk, Quiet, vars, serverVars
  <2> QED BY <2>1, <2>2
<1>4. TypeOK'
  BY <1>1, <1>2, <1>3 DEF TInv, TypeOK
<1>5. ServerStream
  BY DEF TInv, SInv, Streams
<1>6. CASE HandleRtp
  <2>1. toServer # <<>> /\ toServer' = Tail(toServer)
    BY <1>6 DEF HandleRtp
  <2>2. \A i \in DOMAIN toServer' : i \in Nat /\ i + 1 \in DOMAIN toServer /\ toServer[i + 1] = toServer'[i]
    BY <1>5, <2>1, ServerLess
  <2> QED BY <1>1, <1>4, <2>2, ElsewhereKeepsTInv
<1>7. CASE PushPacket
  <2>1. PICK packet : toServer' = Append(toServer, packet) /\ packet.type = "packet"
    BY <1>7 DEF PushPacket
  <2>2. Requested' = Requested /\ Requested \in Nat
    BY <1>1, CountFacts DEF Requested
  <2>3. ~Asking(packet) /\ packet.type # "request"
    BY <2>1 DEF Asking
  <2>4. InTurn'
    BY <1>1, <2>1, <2>2, <2>3, TurnOne
  <2>5. Bodies'
    BY <1>5, <2>1, <2>3, BodiesOne DEF TInv
  <2>6. Domains' /\ Walk'
    BY <1>1, <2>2 DEF TInv, Domains, Walk, Offer
  <2> QED BY <1>4, <2>4, <2>5, <2>6 DEF TInv
<1>8. CASE ~HandleRtp /\ ~PushPacket
  <2>1. toServer' = toServer
    BY <1>8 DEF SendRtpRtcp, Input, CutPacket, EndOfChunk, Quiet, vars
  <2>2. \A i \in DOMAIN toServer' : i \in Nat /\ i + 0 \in DOMAIN toServer /\ toServer[i + 0] = toServer'[i]
    BY <1>5, <2>1, ServerSame
  <2> QED BY <1>1, <1>4, <2>2, ElsewhereKeepsTInv
<1> QED BY <1>6, <1>7, <1>8

\* A challenge says nothing of the uri.
LEMMA UriKept ==
    ASSUME NEW a, NEW p, Filled(a)
    PROVE  Parser(a, GenAuthInfo(p)).uri = a.uri
<1>1. CASE p.scheme = "Basic"
  BY <1>1 DEF Parser, Taken, GenAuthInfo, Filled, Keys
<1>2. CASE p.scheme # "Basic"
  BY <1>2 DEF Parser, Taken, GenAuthInfo, Filled, Keys, ParsedKeys
<1> QED BY <1>1, <1>2

\* What a client without credentials is challenged with.
LEMMA ChallengeOfServer ==
    ASSUME IInv, Protected, ~needAuth, cache # <<>>
    PROVE  \E p : Head(cache).challenge = GenAuthInfo(p)
<1>1. Challenged
  BY DEF IInv, Phases, Asked, Silent, Trusted, Agreed, Retried, Reported, Ended
<1>2. PICK r : Coming(r)
  BY <1>1 DEF Challenged
<1>3. Head(cache) = r
  BY <1>2 DEF Coming
<1> QED BY <1>2, <1>3 DEF Coming

\* The callbacks that ask for one thing more.
LEMMA AskedForOne ==
    ASSUME TInv, SInv', NEW c, SendAll(<<c>>, FALSE),
           UNCHANGED <<world, granted, setups, serverSession, announced, started, packets, challenges>>,
           reading' = FALSE, outcome' = outcome, c.uri \in 0..NMedia,
           transports' = <<>> \/ transports' = [m \in 1..NMedia |-> transports'[m]],
           setupIter' \in 1..(NMedia + 1), c.method \in {"OPTIONS", Offer} => setupIter' = 1,
           IF c.method = "SETUP" THEN setupIter' <= NMedia /\ Requested < setupIter' /\ c.uri = setupIter'
                                 ELSE Requested <= setupIter' - 1
    PROVE  TInv'
<1>1. ServerStream /\ Filled(auth) /\ cseq \in Nat
  BY DEF TInv, SInv, Streams, Known, TypeOK
<1>2. /\ \E q : /\ toServer' = Append(toServer, q) /\ q.method = c.method
                /\ q.uri = c.uri /\ q.transport = c.transport /\ q.body \in BOOLEAN
      /\ auth'.method = c.method /\ auth'.uri = c.uri /\ cseq' = cseq + 1
  BY <1>1, SentOneFor
<1>3. PICK q : /\ toServer' = Append(toServer, q) /\ q.method = c.method
               /\ q.uri = c.uri /\ q.transport = c.transport /\ q.body \in BOOLEAN
  BY <1>2
<1>4. /\ NMedia \in Nat \ {0} /\ setups \in Nat /\ Requested \in 0..NMedia /\ setups <= Requested
  BY CountFacts
<1>5. /\ Requested' \in 0..NMedia /\ Requested <= Requested'
      /\ c.method = "SETUP" => c.uri = Requested' /\ Requested < Requested'
  <2>1. CASE c.method = "SETUP"
    BY <1>2, <1>4, <2>1 DEF Requested
  <2>2. CASE c.method # "SETUP"
    <3>1. Requested' = setupIter' - 1
      BY <1>2, <2>2 DEF Requested
    <3> QED BY <1>4, <2>2, <3>1
  <2> QED BY <2>1, <2>2
<1>6. InTurn'
  <2>1. Asking(q) => q.uri = Requested' /\ Requested < Requested'
    BY <1>3, <1>5 DEF Asking
  <2> QED BY <1>3, <1>5, <2>1, TurnOne
<1>7. Bodies'
  BY <1>1, <1>3, BodiesOne DEF TInv
<1>8. Walk'
  <2>1. setups' <= Requested'
    BY <1>4, <1>5
  <2> QED BY <1>2, <2>1 DEF Walk, Offer
<1>9. Domains'
  BY DEF TInv, Domains
<1>10. TypeOK'
  <2>1. DOMAIN auth' = Keys /\ needAuth' = needAuth /\ session' \in {"", "session"}
    <3>1. Filled(auth)' /\ session' \in {"", serverSession'} /\ serverSession' \in {"", "session"}
      BY DEF SInv, Known
    <3>2. needAuth' = needAuth
      BY DEF SendAll
    <3> QED BY <3>1, <3>2 DEF Filled
  <2>2. Len(transports') \in {0, NMedia}
    <3>1. transports' = <<>> => Len(transports') = 0
      OBVIOUS
    <3> QED BY <3>1, LengthOfAll
  <2>3. cseq' \in Nat
    BY <1>1, <1>2
  <2> QED BY <1>2, <2>1, <2>2, <2>3 DEF TInv, TypeOK
<1> QED BY <1>6, <1>7, <1>8, <1>9, <1>10 DEF TInv

\* Every response.
LEMMA MessageKeepsTInv == ASSUME TInv, SInv', CutMessage PROVE TInv'
<1>1. PICK r : r = Head(cache)
  OBVIOUS
<1>2. /\ cache # <<>> /\ HandleResponse(r) /\ reading' = FALSE
      /\ UNCHANGED <<world, granted, setups, serverSession, announced, started, packets, challenges>>
  BY <1>1 DEF CutMessage, serverVars
<1>3. SInv /\ IInv /\ ServerStream /\ Filled(auth)
  BY DEF TInv, SInv, Streams, Known
<1>4. /\ NMedia \in Nat \ {0} /\ Requested \in 0..NMedia /\ setupIter \in 1..(NMedia + 1)
      /\ auth.uri \in 0..NMedia
      /\ transports = <<>> \/ transports = [m \in 1..NMedia |-> transports[m]]
  BY CountFacts DEF TInv, TypeOK, Domains
<1>5. /\ world.push \in BOOLEAN
      /\ (Offer = "ANNOUNCE" /\ Start = "RECORD") \/ (Offer = "DESCRIBE" /\ Start = "PLAY")
  BY <1>3 DEF IInv, Worlds, Offer, Start
<1>6. ASSUME UNCHANGED <<toServer, auth, needAuth, cseq, setupIter, transports>>,
             outcome' \in {"", "playing", "auth", "refused", "error", "threw"}
      PROVE  TInv'
  <2>1. TypeOK'
    <3>1. session' \in {"", "session"}
      BY DEF SInv, Known
    <3> QED BY <1>2, <1>6, <3>1 DEF TInv, TypeOK
  <2>2. \A i \in DOMAIN toServer' : i \in Nat /\ i + 0 \in DOMAIN toServer /\ toServer[i + 0] = toServer'[i]
    BY <1>3, <1>6, ServerSame
  <2> QED BY <1>2, <1>6, <2>1, <2>2, ElsewhereKeepsTInv
<1>7. ASSUME SendNone, UNCHANGED <<transports, setupIter>>,
             outcome' \in {"", "playing", "auth", "refused", "error", "threw"}
      PROVE  TInv'
  <2>1. toServer' = toServer /\ auth' = auth /\ needAuth' = needAuth
    BY <1>3, <1>7, SentNone
  <2>2. cseq' = cseq
    <3>1. cseq' = cseq + Len(<<>>) /\ cseq \in Nat
      BY <1>7 DEF SendNone, SendAll, TInv, TypeOK
    <3> QED BY <3>1
  <2> QED BY <1>6, <1>7, <2>1, <2>2
<1>8. CASE HandleUnAuth(r)
  <2>1. Protected /\ ~needAuth
    <3>1. 1 \in DOMAIN Units /\ Units[1] = r /\ r.type = "response"
      BY <1>1, <1>3, MessageTaken DEF CutMessage
    <3> QED BY <1>3, <1>8, <3>1 DEF HandleUnAuth, SInv, Answers
  <2>2. PICK p : r.challenge = GenAuthInfo(p)
    BY <1>1, <1>2, <1>3, <2>1, ChallengeOfServer
  <2>3. auth'.method = auth.method /\ auth'.uri = auth.uri /\ Filled(auth)'
    BY <1>3, <1>8, <2>2, MethodKept, UriKept DEF HandleUnAuth
  <2>4. PICK q : /\ toServer' = Append(toServer, q) /\ q.transport = NoTransport /\ q.body = FALSE
    <3>1. PICK q : q = [type |-> "request", cseq |-> -cseq, method |-> auth.method, uri |-> auth.uri,
                        credentials |-> Credentials(auth'), session |-> "", pipe |-> FALSE,
                        transport |-> NoTransport, body |-> FALSE]
      OBVIOUS
    <3>2. toServer' = Append(toServer, q)
      BY <1>8, <3>1 DEF HandleUnAuth
    <3>3. q.transport = NoTransport /\ q.body = FALSE
      BY <3>1
    <3> QED BY <3>2, <3>3
  <2>5. /\ UNCHANGED <<session, transports, setupIter, outcome>> /\ needAuth' = TRUE /\ cseq' = cseq + 1
    BY <1>8 DEF HandleUnAuth
  <2>6. Requested' = Requested
    BY <2>3, <2>5 DEF Requested
  <2>7. InTurn' /\ Bodies'
    <3>1. ~Asking(q)
      BY <2>4 DEF Asking
    <3>2. Requested' \in Nat /\ Requested <= Requested' /\ setups' = setups
      BY <1>2, <1>4, <2>6
    <3>3. InTurn'
      BY <2>4, <3>1, <3>2, TurnOne
    <3>4. Bodies'
      BY <1>3, <2>4, BodiesOne DEF TInv
    <3> QED BY <3>3, <3>4
  <2>8. Domains' /\ Walk'
    BY <1>2, <2>3, <2>5, <2>6 DEF TInv, Domains, Walk, Offer
  <2>9. TypeOK'
    <3>1. DOMAIN auth' = Keys /\ auth'.uri \in 0..NMedia
      BY <1>4, <2>3 DEF Filled
    <3>2. cseq' \in Nat
      <4>1. cseq \in Nat
        BY DEF TInv, TypeOK
      <4> QED BY <2>5, <4>1
    <3> QED BY <1>2, <2>5, <3>1, <3>2 DEF TInv, TypeOK
  <2> QED BY <2>7, <2>8, <2>9 DEF TInv
<1>9. CASE AuthFailed(r)
  BY <1>7, <1>9 DEF AuthFailed, Knows
<1>10. CASE SessionError(r)
  BY <1>7, <1>10 DEF SessionError, Knows
<1>11. CASE HandlePipelineResponse(r)
  <2>1. outcome \in {"", "playing", "auth", "refused", "error", "threw"}
    BY DEF TInv, TypeOK
  <2>2. outcome' \in {"", "playing", "auth", "refused", "error", "threw"}
    BY <1>11, <2>1 DEF HandlePipelineResponse, Knows
  <2>3. UNCHANGED <<toServer, auth, needAuth, cseq, setupIter, transports>>
    BY <1>11 DEF HandlePipelineResponse
  <2> QED BY <1>6, <2>2, <2>3
<1>12. CASE HandleOptions(r)
  <2>1. PICK c : c = Call(Offer, auth.uri)
    OBVIOUS
  <2>2. c.method = Offer /\ c.uri = auth.uri
    BY <2>1 DEF Call
  <2>3. SendAll(<<c>>, FALSE) /\ UNCHANGED <<transports, setupIter, outcome>> /\ auth.method = "OPTIONS"
    BY <1>12, <2>1 DEF HandleOptions, Plain
  <2>4. setupIter = 1
    BY <2>3 DEF TInv, Walk
  <2>5. Requested = 0 /\ c.method # "SETUP"
    BY <1>5, <2>2, <2>3, <2>4 DEF Requested
  <2>6. /\ Requested <= setupIter' - 1 /\ setupIter' = 1 /\ setupIter' \in 1..(NMedia + 1)
        /\ c.uri \in 0..NMedia
        /\ transports' = <<>> \/ transports' = [m \in 1..NMedia |-> transports'[m]]
    BY <1>4, <2>2, <2>3, <2>4, <2>5
  <2> QED BY <1>2, <2>3, <2>5, <2>6, AskedForOne
<1>13. CASE HandleOffer(r)
  <2>1. auth.method = Offer /\ outcome' = outcome /\ transports' = Offers
    BY <1>13 DEF HandleOffer, Plain
  <2>2. setupIter = 1 /\ Requested = 0 /\ setups = 0
    <3>1. setupIter = 1
      BY <2>1 DEF TInv, Walk
    <3>2. Requested = 0
      BY <1>5, <2>1, <3>1 DEF Requested
    <3> QED BY <3>1, <3>2, CountFacts
  <2>3. transports' = [m \in 1..NMedia |-> transports'[m]]
    BY <2>1, LinkAssumption
  <2>4. CASE ~world.pipelined
    <3>1. PICK c : c = SetupCall(1)
      OBVIOUS
    <3>2. c.method = "SETUP" /\ c.uri = 1
      BY <3>1 DEF SetupCall
    <3>3. SendAll(<<c>>, FALSE) /\ setupIter' = 1
      BY <1>13, <2>4, <3>1 DEF HandleOffer
    <3>4. /\ setupIter' = 1 /\ setupIter' \in 1..(NMedia + 1) /\ c.uri \in 0..NMedia
          /\ setupIter' <= NMedia /\ Requested < setupIter' /\ c.uri = setupIter'
      BY <1>4, <2>2, <3>2, <3>3
    <3> QED BY <1>2, <2>1, <2>3, <3>2, <3>3, <3>4, AskedForOne
  <2>5. CASE world.pipelined
    <3> DEFINE C == {SetupCall(i) : i \in 1..NMedia} \cup {Call(Start, 0)}
               setups_ == [i \in 1..NMedia |-> SetupCall(i)]
    <3>1. PICK s, c : s = setups_ /\ c = Call(Start, 0)
      OBVIOUS
    <3>2. /\ s \in [1..NMedia -> C] /\ c \in C /\ c.method = Start /\ c.uri = 0
          /\ \A i \in 1..NMedia : s[i].uri = i
      BY <3>1 DEF Call, SetupCall
    <3>3. setupIter' = NMedia + 1 /\ SendAll(s \o <<c>>, TRUE)
      BY <1>13, <2>5, <3>1 DEF HandleOffer
    <3> HIDE DEF C
    <3>4. s \in Seq(C) /\ <<c>> \in Seq(C) /\ Len(s) = NMedia /\ Len(<<c>>) = 1 /\ <<c>>[1] = c
      <4>1. NMedia \in Nat
        BY <1>4
      <4>2. s \in Seq(C)
        BY <3>2, <4>1
      <4>3. Len(s) = NMedia
        BY <3>2, <4>1, <4>2
      <4> QED BY <3>2, <4>2, <4>3
    <3>5. PICK calls \in Seq(C) : /\ calls = s \o <<c>> /\ Len(calls) = NMedia + 1
                                  /\ \A i \in 1..NMedia : calls[i].uri = i
                                  /\ calls[NMedia + 1] = c
      <4>1. /\ s \o <<c>> \in Seq(C) /\ Len(s \o <<c>>) = NMedia + 1
            /\ \A i \in 1..(NMedia + 1) :
                  (s \o <<c>>)[i] = IF i <= NMedia THEN s[i] ELSE <<c>>[i - NMedia]
        BY <3>4, ConcatProperties
      <4>2. NMedia + 1 \in 1..(NMedia + 1) /\ ~(NMedia + 1 <= NMedia) /\ NMedia + 1 - NMedia = 1
        BY <1>4
      <4>3. \A i \in 1..NMedia : i \in 1..(NMedia + 1) /\ i <= NMedia
        BY <1>4
      <4>4. PICK t : t = s \o <<c>>
        OBVIOUS
      <4>5. t \in Seq(C) /\ Len(t) = NMedia + 1 /\ t[NMedia + 1] = <<c>>[1]
        BY <4>1, <4>2, <4>4
      <4>6. \A i \in 1..NMedia : t[i] = s[i]
        BY <4>1, <4>3, <4>4
      <4>7. \A i \in 1..NMedia : t[i].uri = i
        BY <3>2, <4>6
      <4> QED BY <3>4, <4>4, <4>5, <4>7
    <3>6. PICK n \in Nat \ {0} : n = NMedia + 1
      BY <1>4
    <3>7. /\ \E B : \E b \in Seq(B) : toServer' = toServer \o b /\ RequestsFor(calls, n, b)
          /\ auth'.method = calls[n].method /\ auth'.uri = calls[n].uri /\ cseq' = cseq + n
      <4>1. SendAll(calls, TRUE) /\ Len(calls) = n
        BY <3>3, <3>5, <3>6
      <4> QED BY <1>3, <4>1, SentManyFor
    <3>8. PICK B : \E b \in Seq(B) : toServer' = toServer \o b /\ RequestsFor(calls, n, b)
      BY <3>7
    <3>9. PICK b \in Seq(B) :
                /\ toServer' = toServer \o b /\ Len(b) = n
                /\ \A i \in 1..n : /\ b[i].method = calls[i].method /\ b[i].uri = calls[i].uri
                                   /\ b[i].transport = calls[i].transport /\ b[i].body \in BOOLEAN
      BY <3>8 DEF RequestsFor
    <3>10. auth'.method = Start /\ auth'.uri = 0 /\ Requested' = NMedia
      <4>1. auth'.method = Start /\ auth'.uri = 0
        BY <3>2, <3>5, <3>6, <3>7
      <4>2. Requested' = setupIter' - 1
        BY <1>5, <4>1 DEF Requested
      <4> QED BY <1>4, <3>3, <4>1, <4>2
    <3>11. InTurn'
      <4>1. ASSUME NEW i \in 1..n, Asking(b[i]) PROVE b[i].uri = i /\ i <= NMedia
        <5>1. i \in 1..NMedia \/ i = NMedia + 1
          BY <1>4, <3>6
        <5>2. i # NMedia + 1
          BY <1>5, <3>2, <3>5, <3>6, <3>9, <4>1 DEF Asking
        <5>3. i \in 1..NMedia
          BY <5>1, <5>2
        <5>4. b[i].uri = calls[i].uri
          BY <3>9
        <5>5. i <= NMedia
          BY <1>4, <5>3
        <5> QED BY <3>5, <5>3, <5>4, <5>5
      <4> QED BY <1>2, <2>2, <3>9, <3>10, <4>1, TurnMany
    <3>12. Bodies'
      BY <1>3, <3>9, BodiesMore DEF TInv
    <3>13. Walk' /\ Domains'
      <4>1. auth'.method \notin {"OPTIONS", Offer, "SETUP"}
        BY <1>5, <3>10
      <4>2. Offer' = Offer /\ setups' <= Requested'
        BY <1>2, <1>4, <2>2, <3>10 DEF Offer
      <4>3. Domains'
        BY <1>2, <2>3 DEF TInv, Domains
      <4> QED BY <4>1, <4>2, <4>3 DEF Walk
    <3>14. TypeOK'
      <4>1. DOMAIN auth' = Keys /\ session' \in {"", "session"} /\ needAuth' = needAuth
        <5>1. Filled(auth)' /\ session' \in {"", serverSession'} /\ serverSession' \in {"", "session"}
          BY DEF SInv, Known
        <5>2. needAuth' = needAuth
          BY <3>3 DEF SendAll
        <5> QED BY <5>1, <5>2 DEF Filled
      <4>2. Len(transports') = NMedia
        BY <2>3, LengthOfAll
      <4>3. cseq' \in Nat /\ setupIter' \in 1..(NMedia + 1) /\ auth'.uri \in 0..NMedia
        <5>1. cseq \in Nat
          BY DEF TInv, TypeOK
        <5> QED BY <1>4, <3>3, <3>7, <3>10, <5>1
      <4> QED BY <1>2, <2>1, <4>1, <4>2, <4>3 DEF TInv, TypeOK
    <3> QED BY <3>11, <3>12, <3>13, <3>14 DEF TInv
  <2> QED BY <2>4, <2>5
<1>14. CASE HandleSetup(r)
  <2>1. /\ auth.method = "SETUP" /\ outcome' = outcome /\ setupIter' = setupIter + 1
        /\ SendAll(<<IF setupIter = NMedia THEN Call(Start, 0) ELSE SetupCall(setupIter')>>, FALSE)
    BY <1>14 DEF HandleSetup, Plain, After
  <2>2. transports' = <<>> \/ transports' = [m \in 1..NMedia |-> transports'[m]]
    <3>1. PICK t : transports' = [transports EXCEPT ![setupIter] = t]
      BY <1>14 DEF HandleSetup
    <3>2. CASE transports = <<>>
      BY <3>1, <3>2
    <3>3. CASE transports = [m \in 1..NMedia |-> transports[m]]
      BY <3>1, <3>3
    <3> QED BY <1>4, <3>2, <3>3
  <2>3. PICK c : c = IF setupIter = NMedia THEN Call(Start, 0) ELSE SetupCall(setupIter')
    OBVIOUS
  <2>4. setupIter <= NMedia /\ Requested = setupIter
    BY <2>1 DEF TInv, Walk, Requested
  <2>5. CASE setupIter = NMedia
    <3>1. c.method = Start /\ c.uri = 0
      BY <2>3, <2>5 DEF Call
    <3>2. c.method \notin {"OPTIONS", Offer, "SETUP"}
      BY <1>5, <3>1
    <3>3. setupIter' \in 1..(NMedia + 1) /\ Requested <= setupIter' - 1 /\ c.uri \in 0..NMedia
      BY <1>4, <2>1, <2>4, <2>5, <3>1
    <3> QED BY <1>2, <2>1, <2>2, <2>3, <3>2, <3>3, AskedForOne
  <2>6. CASE setupIter # NMedia
    <3>1. c.method = "SETUP" /\ c.uri = setupIter'
      BY <2>3, <2>6 DEF SetupCall
    <3>2. c.method \notin {"OPTIONS", Offer}
      BY <1>5, <3>1
    <3>3. /\ setupIter' \in 1..(NMedia + 1) /\ Requested < setupIter' /\ setupIter' <= NMedia
          /\ c.uri \in 0..NMedia
      BY <1>4, <2>1, <2>4, <2>6, <3>1
    <3> QED BY <1>2, <2>1, <2>2, <2>3, <3>1, <3>2, <3>3, AskedForOne
  <2> QED BY <2>5, <2>6
<1>15. CASE SetupRefused(r)
  BY <1>7, <1>15 DEF SetupRefused, Knows
<1>16. CASE HandleStart(r)
  <2>1. outcome' \in {"playing", "refused"}
    BY <1>16 DEF HandleStart, Knows
  <2> QED BY <1>7, <1>16, <2>1 DEF HandleStart
<1> QED BY <1>2, <1>8, <1>9, <1>10, <1>11, <1>12, <1>13, <1>14, <1>15, <1>16 DEF HandleResponse

\* The invariant of the walk is inductive.
LEMMA StepKeepsTInv == TInv /\ [Next]_vars => TInv'
<1> SUFFICES ASSUME TInv, [Next]_vars PROVE TInv'
  OBVIOUS
<1>1. SInv'
  BY StepKeepsSInv DEF TInv
<1> QED BY <1>1, RequestKeepsTInv, MessageKeepsTInv, PacketKeepsTInv DEF Next

\* Nothing is asked for at first.
LEMMA InitTInv == Init => TInv
<1> SUFFICES ASSUME Init PROVE TInv
  OBVIOUS
<1>1. PICK q : q = [type |-> "request", cseq |-> 0, method |-> First, uri |-> 0,
                    credentials |-> NoHeader, session |-> "", pipe |-> FALSE,
                    transport |-> NoTransport, body |-> First = "ANNOUNCE"]
  OBVIOUS
<1>2. q.transport = NoTransport /\ q.body \in BOOLEAN
  BY <1>1
<1>3. DOMAIN toServer = {1} /\ toServer[1] = q
  <2>1. toServer = <<q>>
    BY <1>1 DEF Init
  <2> QED BY <2>1
<1>4. InTurn /\ Bodies
  BY <1>2, <1>3 DEF InTurn, Bodies, Asking
<1>5. auth.method = First /\ auth.uri = 0 /\ DOMAIN auth = Keys /\ First # "SETUP"
  BY DEF Init, EmptyAuth, Keys, First, Offer, Worlds
<1>6. NMedia \in Nat \ {0} /\ MaxPackets \in Nat
  BY LinkAssumption
<1>7. setupIter = 1 /\ setups = 0 /\ Requested = 0
  <2>1. setupIter = 1 /\ setups = 0
    BY DEF Init
  <2> QED BY <1>5, <2>1 DEF Requested
<1>8. Domains /\ Walk
  <2>1. transports = <<>> /\ granted = [m \in 1..NMedia |-> TransportDefaults]
    BY DEF Init
  <2>2. Domains
    BY <2>1 DEF Domains
  <2> QED BY <1>5, <1>6, <1>7, <2>2 DEF Walk
<1>9. TypeOK
  <2>1. Len(transports) = 0
    BY DEF Init
  <2>2. /\ setupIter \in 1..(NMedia + 1) /\ packets \in 0..MaxPackets /\ setups \in 0..NMedia
        /\ auth.uri \in 0..NMedia
    <3>1. packets = 0
      BY DEF Init
    <3> QED BY <1>5, <1>6, <1>7, <3>1
  <2>3. \A m \in 1..NMedia : DOMAIN granted[m] = DOMAIN TransportDefaults
    BY DEF Init
  <2> QED BY <1>5, <2>1, <2>2, <2>3 DEF TypeOK, Init
<1> QED BY <1>4, <1>8, <1>9, InitSInv DEF TInv

\* Every variable keeps its type; in particular the client never steps past its
\* last medium, and the server never counts more SETUPs than there are media.
THEOREM TypeAlwaysCorrect == Spec => []TypeOK
<1>1. TInv => TypeOK
  BY DEF TInv
<1> QED BY <1>1, InitTInv, StepKeepsTInv, PTL DEF Spec

-----------------------------------------------------------------------------
(* The Transport header.                                                   *)

\* What reading a written header gives.
LEMMA ReadBack ==
    ASSUME NEW t, DOMAIN t = DOMAIN TransportDefaults
    PROVE  /\ Written(t) \subseteq DOMAIN TransportDefaults /\ DOMAIN Encode(t) = Written(t)
           /\ \A k \in Written(t) : Encode(t)[k] = t[k]
           /\ DOMAIN Decode(Encode(t)) = DOMAIN TransportDefaults
           /\ \A k \in DOMAIN TransportDefaults :
                 Decode(Encode(t))[k] = IF k \in Written(t) THEN t[k] ELSE TransportDefaults[k]
<1>1. DOMAIN Encode(t) = Written(t) /\ \A k \in Written(t) : Encode(t)[k] = t[k]
  BY DEF Encode
<1>2. DOMAIN TransportDefaults = {"proto", "cast", "mode", "interleaved", "client_port", "server_port",
                                  "ttl", "port", "destination", "ssrc"}
  BY DEF TransportDefaults
<1>3. Written(t) \subseteq DOMAIN TransportDefaults
  <2>1. Written(t) \subseteq {"proto", "cast", "mode", "interleaved", "client_port", "server_port",
                              "ttl", "port", "ssrc"}
    BY DEF Written
  <2> QED BY <1>2, <2>1
<1> QED BY <1>1, <1>3 DEF Decode

\* A server that grants what it was asked for answers with the header that it was
\* sent: what is read from a header and written again is that header.
THEOREM HeaderEchoed ==
    ASSUME NEW t, DOMAIN t = DOMAIN TransportDefaults
    PROVE  Encode(Decode(Encode(t))) = Encode(t)
<1>1. PICK u : u = Decode(Encode(t))
  OBVIOUS
<1>2. /\ DOMAIN u = DOMAIN TransportDefaults
      /\ \A k \in DOMAIN TransportDefaults : u[k] = IF k \in Written(t) THEN t[k] ELSE TransportDefaults[k]
  BY <1>1, ReadBack
<1>3. /\ TransportDefaults.client_port[1] = -1 /\ TransportDefaults.server_port[1] = -1
      /\ TransportDefaults.ttl = -1 /\ TransportDefaults.port = -1 /\ TransportDefaults.ssrc = ""
      /\ {"proto", "cast", "mode", "interleaved", "client_port", "server_port", "ttl", "port", "ssrc"}
            \subseteq DOMAIN TransportDefaults
  <2>1. Unset[1] = -1
    BY DEF Unset
  <2> QED BY <2>1 DEF TransportDefaults
<1>4. u["proto"] = t["proto"] /\ u["cast"] = t["cast"]
  <2>1. {"proto", "cast"} \subseteq Written(t)
    BY DEF Written
  <2> QED BY <1>2, <1>3, <2>1
<1>5. Written(u) = Written(t)
  <2>1. "ssrc" \in Written(t) <=> t["ssrc"] # ""
    BY DEF Written
  <2>2. u["ssrc"] # "" <=> t["ssrc"] # ""
    BY <1>2, <1>3, <2>1
  <2>3. ASSUME NEW k \in {"ttl", "port"}
        PROVE  t.cast = "MULTICAST" => (u[k] > 0 <=> t[k] > 0)
    <3>1. k \in Written(t) <=> t.cast = "MULTICAST" /\ t[k] > 0
      BY DEF Written
    <3>2. k \in DOMAIN TransportDefaults /\ TransportDefaults[k] = -1
      BY <1>3
    <3>3. ~(-1 > 0)
      OBVIOUS
    <3> QED BY <1>2, <3>1, <3>2, <3>3
  <2>4. ASSUME NEW k \in {"client_port", "server_port"}
        PROVE  t.proto # "TCP" => (u[k][1] > 0 <=> t[k][1] > 0)
    <3>1. k \in Written(t) <=> t.proto # "TCP" /\ t[k][1] > 0
      BY DEF Written
    <3>2. k \in DOMAIN TransportDefaults /\ TransportDefaults[k][1] = -1
      BY <1>3
    <3>3. ~(-1 > 0)
      OBVIOUS
    <3> QED BY <1>2, <3>1, <3>2, <3>3
  <2>5. {k \in {"ssrc"} : u[k] # ""} = {k \in {"ssrc"} : t[k] # ""}
    BY <2>2
  <2>6. {k \in {"ttl", "port"} : u.cast = "MULTICAST" /\ u[k] > 0}
           = {k \in {"ttl", "port"} : t.cast = "MULTICAST" /\ t[k] > 0}
    BY <1>4, <2>3
  <2>7. t.proto # "TCP" => {k \in {"client_port", "server_port"} : u[k][1] > 0}
                              = {k \in {"client_port", "server_port"} : t[k][1] > 0}
    BY <2>4
  <2> QED BY <1>4, <2>5, <2>6, <2>7 DEF Written
<1>6. \A k \in Written(t) : u[k] = t[k]
  BY <1>2, ReadBack
<1>7. Encode(u) = [k \in Written(t) |-> u[k]] /\ Encode(t) = [k \in Written(t) |-> t[k]]
  BY <1>5 DEF Encode
<1> QED BY <1>1, <1>6, <1>7

-----------------------------------------------------------------------------
(* Packets.  Both sides come to use the channels that the server agreed to,  *)
(* and nobody sends before that.                                            *)

\* The channels of a medium.
Chan(m) == IF world.grant = "count" THEN <<2 * (m - 1), 2 * (m - 1) + 1>> ELSE Offers[m].interleaved

Granted(m) == granted[m].interleaved = Chan(m)
AllGranted == \A m \in 1..NMedia : Granted(m)

\* All media have been asked for.
Ready == transports # <<>> /\ setupIter = NMedia + 1
Starts == {"PLAY", "RECORD"}

Marked(p) == p.medium \in 1..NMedia /\ p.kind \in {1, 2} /\ p.channel = Chan(p.medium)[p.kind]

\* What is on its way to the server: transports as offered and in turn, no
\* stream before all media, no announcement without a description.
Proper(q) ==
    /\ Asking(q) => /\ Decode(q.transport).proto = "TCP"
                    /\ Decode(q.transport).interleaved = Offers[q.uri].interleaved
                    /\ ~Batch => q.uri = setupIter
                    /\ world.grant = "count" => q.uri = setups + 1
    /\ q.type = "request" /\ q.method \in Starts => Ready
    /\ q.type = "request" /\ q.method = "ANNOUNCE" /\ world.push => q.body = TRUE
    /\ q.type = "packet" => AllGranted /\ Marked(q)
Requests == \A i \in DOMAIN toServer : Proper(toServer[i])

\* And to the client: without pipelining, the transport of the medium it asked for.
Told(r) ==
    /\ ~Batch /\ auth.method = "SETUP" /\ r.type = "response" /\ r.status = "OK" =>
          /\ Granted(setupIter) /\ Decode(r.transport).interleaved = Chan(setupIter)
          /\ world.grant = "count" => setups = setupIter
    /\ auth.method = "ANNOUNCE" /\ world.push /\ Answer(r) => announced
    /\ r.type = "packet" => Ready /\ Marked(r)
Replies == \A i \in DOMAIN Units : Told(Units[i])

\* What they have.
Fits ==
    /\ \A m \in 1..NMedia : granted[m] = TransportDefaults \/ Granted(m)
    /\ ~Batch => \A m \in 1..NMedia : m < setupIter => Granted(m)
    /\ transports # <<>> => \A m \in 1..NMedia :
          IF m < setupIter THEN transports[m].interleaved = Chan(m) ELSE transports[m] = Offers[m]
    /\ auth.method \notin {"OPTIONS", Offer} => transports # <<>>
    /\ auth.method \in Starts \/ started => Ready
    /\ world.push /\ auth.method \notin {"OPTIONS", "ANNOUNCE"} => announced
    /\ outcome = "playing" => AllGranted
    /\ Protected /\ ~needAuth => auth.method = First

\* A batch is answered in order, the request for the stream last.
Pending == {pipelines[i] : i \in DOMAIN pipelines}
Pipelined ==
    /\ \E S : pipelines \in Seq(S)
    /\ \A p \in Pending : p.cseq \in Nat
    /\ \A p, q \in Pending : p.method # "SETUP" => q.cseq <= p.cseq
    /\ \A p, q \in Pending : p.cseq = q.cseq => p.method = q.method
Listed ==
    /\ \A i \in DOMAIN toServer : toServer[i].type = "request" => toServer[i] \in Pending
    /\ \A i \in DOMAIN Units : Answer(Units[i]) => \E p \in Pending : p.cseq = Units[i].cseq
Queued ==
    /\ \A i, j \in DOMAIN toServer : i < j /\ toServer[i].type = "request" /\ toServer[j].type = "request" =>
          toServer[i].cseq < toServer[j].cseq
    /\ \A i, j \in DOMAIN Units : i < j /\ Answer(Units[i]) /\ Answer(Units[j]) => Units[i].cseq < Units[j].cseq
    /\ \A i \in DOMAIN Units, j \in DOMAIN toServer :
          Answer(Units[i]) /\ toServer[j].type = "request" => Units[i].cseq < toServer[j].cseq
Ordered == IF Batch THEN (Protected => world.rightPassword) /\ Pipelined /\ Listed /\ Queued ELSE pipelines = <<>>

\* Every medium of the batch is granted, still asked for, or refused.
Waiting(m) == \E i \in DOMAIN toServer : Asking(toServer[i]) /\ toServer[i].uri = m
Refusal(r) ==
    /\ Answer(r) /\ r.transport = NoTransport
    /\ \A p \in Pending : p.cseq = r.cseq => p.method = "SETUP"
Settled == Batch => \A m \in 1..NMedia :
    Granted(m) \/ Waiting(m) \/ outcome = "threw" \/ \E i \in DOMAIN Units : Refusal(Units[i])

Given == \A i \in DOMAIN delivered : delivered[i].given = delivered[i].sent

\* What PacketsToTheirMedium leaves out.
Clear == ~Assigned /\ ~world.nested /\ ~Undescribed

PParts == Fits /\ Requests /\ Replies /\ Ordered /\ Settled /\ Given
PInv == TInv /\ (\E S : delivered \in Seq(S)) /\ (Clear => PParts)

-----------------------------------------------------------------------------
(* Channels.                                                               *)

\* No two media or kinds share a channel.
LEMMA ChannelsApart ==
    ASSUME NEW m \in 1..NMedia, NEW n \in 1..NMedia, NEW k \in {1, 2}, NEW l \in {1, 2}
    PROVE  Chan(m)[k] = Chan(n)[l] => m = n /\ k = l
<1>1. NMedia \in Nat
  BY LinkAssumption
<1>2. CASE world.grant = "count"
  <2>1. /\ Chan(m)[1] = 2 * (m - 1) /\ Chan(m)[2] = 2 * (m - 1) + 1
        /\ Chan(n)[1] = 2 * (n - 1) /\ Chan(n)[2] = 2 * (n - 1) + 1
    BY <1>2 DEF Chan
  <2>2. m \in Int /\ n \in Int
    BY <1>1
  <2> QED BY <2>1, <2>2
<1>3. CASE world.grant # "count"
  BY <1>3, OffersAssumption DEF Chan
<1> QED BY <1>2, <1>3

\* What a Transport header keeps of an interleaved transport.
LEMMA InterleavedCarried ==
    ASSUME NEW t, DOMAIN t = DOMAIN TransportDefaults, t.proto = "TCP"
    PROVE  /\ Encode(t) # NoTransport
           /\ Decode(Encode(t)).proto = "TCP" /\ Decode(Encode(t)).interleaved = t.interleaved
<1>1. {"proto", "interleaved"} \subseteq Written(t)
  BY DEF Written
<1>2. DOMAIN Encode(t) = Written(t) /\ Encode(t)["proto"] = "TCP" /\ Encode(t)["interleaved"] = t["interleaved"]
  BY <1>1 DEF Encode
<1>3. {"proto", "interleaved"} \subseteq DOMAIN TransportDefaults
  BY DEF TransportDefaults
<1>4. DOMAIN NoTransport = {}
  BY DEF NoTransport
<1>5. Encode(t) # NoTransport
  BY <1>1, <1>2, <1>4
<1>6. Decode(Encode(t))["proto"] = "TCP" /\ Decode(Encode(t))["interleaved"] = t["interleaved"]
  BY <1>1, <1>2, <1>3 DEF Decode
<1> QED BY <1>5, <1>6

\* The server's, once all are granted.
LEMMA ServerFinds ==
    ASSUME AllGranted, NEW m \in 1..NMedia, NEW k \in {1, 2}
    PROVE  {o \in (1..NMedia) \X {1, 2} : granted[o[1]].interleaved[o[2]] = Chan(m)[k]} = {<<m, k>>}
<1>1. ASSUME NEW n \in 1..NMedia, NEW l \in {1, 2}
      PROVE  granted[n].interleaved[l] = Chan(m)[k] <=> n = m /\ l = k
  BY ChannelsApart DEF AllGranted, Granted
<1> QED BY <1>1

\* And the client's.
LEMMA ClientFinds ==
    ASSUME \A n \in 1..NMedia : transports[n].interleaved = Chan(n), DOMAIN transports = 1..NMedia,
           NEW m \in 1..NMedia, NEW k \in {1, 2}
    PROVE  Owner(Chan(m)[k]) = <<m, k>>
<1>1. ASSUME NEW n \in 1..NMedia, NEW l \in {1, 2}
      PROVE  transports[n].interleaved[l] = Chan(m)[k] <=> n = m /\ l = k
  BY ChannelsApart
<1>2. OwnersOf(Chan(m)[k]) = {m}
  BY <1>1 DEF OwnersOf
<1>3. (CHOOSE i \in {m} : \A j \in {m} : i <= j) = m
  <2>1. NMedia \in Nat
    BY LinkAssumption
  <2>2. m \in Int
    BY <2>1
  <2>3. m <= m
    BY <2>2
  <2> QED BY <2>3
<1>4. (IF transports[m].interleaved[1] = Chan(m)[k] THEN 1 ELSE 2) = k
  BY <1>1
<1> QED BY <1>2, <1>3, <1>4 DEF Owner

-----------------------------------------------------------------------------
(* Packets between the messages.                                           *)

\* The messages on their way stay in order.
LEMMA QueueKept ==
    ASSUME Queued, NEW d \in {0, 1}, NEW e \in {0, 1},
           \A i \in DOMAIN Units' : i \in Nat /\
              (Units'[i].type = "response" => i + d \in DOMAIN Units /\ Units[i + d] = Units'[i]),
           \A i \in DOMAIN toServer' : i \in Nat /\
              (toServer'[i].type = "request" => i + e \in DOMAIN toServer /\ toServer[i + e] = toServer'[i])
    PROVE  Queued'
<1>1. ASSUME NEW i \in DOMAIN toServer', NEW j \in DOMAIN toServer', i < j,
             toServer'[i].type = "request", toServer'[j].type = "request"
      PROVE  toServer'[i].cseq < toServer'[j].cseq
  <2>1. i + e < j + e
    BY <1>1, ShiftFacts
  <2> QED BY <1>1, <2>1 DEF Queued
<1>2. ASSUME NEW i \in DOMAIN Units', NEW j \in DOMAIN Units', i < j, Answer(Units'[i]), Answer(Units'[j])
      PROVE  Units'[i].cseq < Units'[j].cseq
  <2>1. i + d < j + d
    BY <1>2, ShiftFacts
  <2>2. /\ i + d \in DOMAIN Units /\ Units[i + d] = Units'[i]
        /\ j + d \in DOMAIN Units /\ Units[j + d] = Units'[j]
    BY <1>2 DEF Answer
  <2> QED BY <1>2, <2>1, <2>2 DEF Queued
<1>3. ASSUME NEW i \in DOMAIN Units', NEW j \in DOMAIN toServer', Answer(Units'[i]), toServer'[j].type = "request"
      PROVE  Units'[i].cseq < toServer'[j].cseq
  <2>1. /\ i + d \in DOMAIN Units /\ Units[i + d] = Units'[i]
        /\ j + e \in DOMAIN toServer /\ toServer[j + e] = toServer'[j]
    BY <1>3 DEF Answer
  <2> QED BY <1>3, <2>1 DEF Queued
<1> QED BY <1>1, <1>2, <1>3 DEF Queued, Answer

\* What is on its way is as it should be, and its messages are those that were.
UnitsRest(d) ==
    /\ \A i \in DOMAIN Units' : i \in Nat /\ Told(Units'[i]) /\
          (Units'[i].type = "response" => i + d \in DOMAIN Units /\ Units[i + d] = Units'[i])
    /\ \A i \in DOMAIN Units : Units[i].type = "response" => \E j \in DOMAIN Units' : Units'[j] = Units[i]
ServerRest(e) ==
    /\ \A i \in DOMAIN toServer' : i \in Nat /\ Proper(toServer'[i]) /\
          (toServer'[i].type = "request" => i + e \in DOMAIN toServer /\ toServer[i + e] = toServer'[i])
    /\ \A i \in DOMAIN toServer : toServer[i].type = "request" =>
          \E j \in DOMAIN toServer' : toServer'[j] = toServer[i]

\* Steps that neither send nor take a message.
LEMMA ElsewhereKeepsPParts ==
    ASSUME TInv, Fits, Ordered, Settled, NEW d \in {0, 1}, NEW e \in {0, 1},
           UNCHANGED <<auth, needAuth, transports, setupIter, pipelines, granted, setups, announced,
                       started, outcome, world>>,
           UnitsRest(d), ServerRest(e)
    PROVE  Fits' /\ Requests' /\ Replies' /\ Ordered' /\ Settled'
<1>1. /\ Batch' = Batch /\ Ready' = Ready /\ Protected' = Protected /\ Pending' = Pending
      /\ AllGranted' = AllGranted /\ Offer' = Offer /\ First' = First
      /\ \A m : Granted(m)' = Granted(m) /\ Chan(m)' = Chan(m)
  BY DEF Batch, Ready, Protected, Pending, AllGranted, Granted, Chan, Offer, First
<1>2. Fits'
  BY <1>1 DEF Fits
<1>3. \A q : Proper(q)' = Proper(q)
  BY <1>1 DEF Proper, Asking, Marked
<1>4. \A r : Told(r)' = Told(r)
  BY <1>1 DEF Told, Answer, Marked
<1>5. Requests' /\ Replies'
  BY <1>3, <1>4 DEF Requests, Replies, UnitsRest, ServerRest
<1>6. Ordered'
  <2>1. CASE ~Batch
    BY <1>1, <2>1 DEF Ordered
  <2>2. CASE Batch
    <3>1. Pipelined' /\ (Protected' => world.rightPassword')
      BY <1>1, <2>2 DEF Ordered, Pipelined
    <3>2. Listed'
      BY <1>1, <2>2 DEF Ordered, Listed, Answer, UnitsRest, ServerRest
    <3>3. Queued'
      BY <2>2, QueueKept DEF Ordered, UnitsRest, ServerRest
    <3> QED BY <1>1, <2>2, <3>1, <3>2, <3>3 DEF Ordered
  <2> QED BY <2>1, <2>2
<1>7. Settled'
  <2> SUFFICES ASSUME Batch, NEW m \in 1..NMedia
               PROVE  Granted(m)' \/ Waiting(m)' \/ outcome' = "threw" \/ \E i \in DOMAIN Units' : Refusal(Units[i])'
    BY <1>1 DEF Settled
  <2>1. Waiting(m) => Waiting(m)'
    BY DEF Waiting, Asking, ServerRest
  <2>2. \A r : Refusal(r)' = Refusal(r)
    BY <1>1 DEF Refusal, Answer
  <2>3. (\E i \in DOMAIN Units : Refusal(Units[i])) => \E i \in DOMAIN Units' : Refusal(Units[i])'
    BY <2>2 DEF Refusal, Answer, UnitsRest
  <2> QED BY <1>1, <2>1, <2>3 DEF Settled
<1> QED BY <1>2, <1>5, <1>6, <1>7

\* Streams that nobody touches are such.
LEMMA UnitsAsBefore == ASSUME Streams, Replies, Units' = Units PROVE UnitsRest(0)
<1>1. \A i \in DOMAIN Units' : i \in Nat /\ i + 0 \in DOMAIN Units /\ Units[i + 0] = Units'[i]
  BY UnitsSame
<1>2. \A i \in DOMAIN Units' : Told(Units'[i])
  BY DEF Replies
<1> QED BY <1>1, <1>2 DEF UnitsRest

\* On the other side, too.
LEMMA ServerAsBefore == ASSUME ServerStream, Requests, toServer' = toServer PROVE ServerRest(0)
<1>1. \A i \in DOMAIN toServer' : i \in Nat /\ i + 0 \in DOMAIN toServer /\ toServer[i + 0] = toServer'[i]
  BY ServerSame
<1>2. \A i \in DOMAIN toServer' : Proper(toServer'[i])
  BY DEF Requests
<1> QED BY <1>1, <1>2 DEF ServerRest

\* So are those from which a packet is taken, by the client, ...
LEMMA PacketTaken ==
    ASSUME Streams, Replies, cache # <<>>, Head(cache).type = "packet", cache' = Tail(cache), toClient' = toClient
    PROVE  UnitsRest(1) /\ Told(Head(cache))
<1>1. PICK n \in Nat : /\ DOMAIN Units = 1..(n + 1) /\ DOMAIN Units' = 1..n
                       /\ (\A i \in 1..n : Units'[i] = Units[i + 1]) /\ Units[1] = Head(cache)
                       /\ 1 \in DOMAIN Units /\ \A i \in 1..n : i + 1 \in DOMAIN Units /\ i + 1 # 1
  BY UnitLess
<1>2. \A i \in DOMAIN Units' : i \in Nat /\ i + 1 \in DOMAIN Units /\ Units[i + 1] = Units'[i]
  BY <1>1
<1>3. \A i \in DOMAIN Units' : Told(Units'[i])
  BY <1>2 DEF Replies
<1>4. ASSUME NEW i \in DOMAIN Units, Units[i].type = "response"
      PROVE  \E j \in DOMAIN Units' : Units'[j] = Units[i]
  <2>1. i # 1
    BY <1>1, <1>4
  <2>2. i - 1 \in 1..n /\ (i - 1) + 1 = i
    BY <1>1, <2>1
  <2> QED BY <1>1, <2>2
<1> QED BY <1>1, <1>2, <1>3, <1>4 DEF UnitsRest, Replies

\* ... by the server, ...
LEMMA PacketReceived ==
    ASSUME ServerStream, Requests, toServer # <<>>, Head(toServer).type = "packet", toServer' = Tail(toServer)
    PROVE  ServerRest(1) /\ Proper(Head(toServer))
<1>1. PICK S : toServer \in Seq(S)
  BY DEF ServerStream
<1>2. PICK k \in Nat \ {0} :
         /\ DOMAIN toServer = 1..k /\ DOMAIN toServer' = 1..(k - 1)
         /\ (\A i \in 1..(k - 1) : toServer'[i] = toServer[i + 1]) /\ toServer[1] = Head(toServer)
  BY <1>1, AfterTail
<1>3. 1 \in 1..k /\ \A i \in 1..(k - 1) : i \in Nat /\ i + 1 \in 1..k
  BY <1>2
<1>4. ASSUME NEW i \in DOMAIN toServer, toServer[i].type = "request"
      PROVE  \E j \in DOMAIN toServer' : toServer'[j] = toServer[i]
  <2>1. i # 1
    BY <1>2, <1>4
  <2>2. i - 1 \in 1..(k - 1) /\ (i - 1) + 1 = i
    BY <1>2, <2>1
  <2> QED BY <1>2, <2>2
<1> QED BY <1>2, <1>3, <1>4 DEF ServerRest, Requests

\* ... and those to which one is added, by the server, ...
LEMMA PacketSent ==
    ASSUME Streams, Replies, NEW p, p.type = "packet", Told(p), cache' = cache, toClient' = Append(toClient, p)
    PROVE  UnitsRest(0)
<1>1. PICK n \in Nat : /\ DOMAIN Units = 1..n /\ DOMAIN Units' = 1..(n + 1)
                       /\ (\A i \in 1..n : Units'[i] = Units[i]) /\ Units'[n + 1] = p
  BY UnitMore
<1>2. ASSUME NEW i \in 1..(n + 1)
      PROVE  Told(Units'[i]) /\ (Units'[i].type = "response" => i + 0 \in DOMAIN Units /\ Units[i + 0] = Units'[i])
  <2>1. CASE i = n + 1
    BY <1>1, <2>1
  <2>2. CASE i \in 1..n
    <3>1. i + 0 = i
      BY <2>2
    <3> QED BY <1>1, <2>2, <3>1 DEF Replies
  <2> QED BY <2>1, <2>2, LastOrBefore
<1>3. \A i \in 1..n : i \in 1..(n + 1)
  OBVIOUS
<1> QED BY <1>1, <1>2, <1>3 DEF UnitsRest

\* ... and by the client.
LEMMA PacketPushed ==
    ASSUME ServerStream, Requests, NEW p, p.type = "packet", Proper(p), toServer' = Append(toServer, p)
    PROVE  ServerRest(0)
<1>0. PICK S : toServer \in Seq(S)
  BY DEF ServerStream
<1>1. PICK n \in Nat : /\ DOMAIN toServer = 1..n /\ DOMAIN toServer' = 1..(n + 1)
                       /\ (\A i \in 1..n : toServer'[i] = toServer[i]) /\ toServer'[n + 1] = p
  BY <1>0, AfterAppend
<1>2. ASSUME NEW i \in 1..(n + 1)
      PROVE  Proper(toServer'[i]) /\
             (toServer'[i].type = "request" => i + 0 \in DOMAIN toServer /\ toServer[i + 0] = toServer'[i])
  <2>1. CASE i = n + 1
    BY <1>1, <2>1
  <2>2. CASE i \in 1..n
    <3>1. i + 0 = i
      BY <2>2
    <3> QED BY <1>1, <2>2, <3>1 DEF Requests
  <2> QED BY <2>1, <2>2, LastOrBefore
<1>3. \A i \in 1..n : i \in 1..(n + 1)
  OBVIOUS
<1> QED BY <1>1, <1>2, <1>3 DEF ServerRest

\* One more packet given to whom it was sent for.
LEMMA GivenOne ==
    ASSUME \E S : delivered \in Seq(S), Given, NEW x, x.given = x.sent, delivered' = Append(delivered, x)
    PROVE  Given' /\ \E S : delivered' \in Seq(S)
<1>1. PICK S : delivered \in Seq(S)
  OBVIOUS
<1>2. PICK m \in Nat : /\ DOMAIN delivered = 1..m /\ DOMAIN delivered' = 1..(m + 1)
                       /\ (\A i \in 1..m : delivered'[i] = delivered[i]) /\ delivered'[m + 1] = x
  BY <1>1, AfterAppend
<1>3. \A i \in 1..(m + 1) : i = m + 1 \/ i \in 1..m
  BY LastOrBefore
<1>4. delivered' \in Seq(S \cup {x})
  <2>1. delivered \in Seq(S \cup {x}) /\ x \in S \cup {x}
    BY <1>1, SeqMonotonic
  <2> QED BY <2>1, AppendProperties
<1> QED BY <1>2, <1>3, <1>4 DEF Given

\* Whatever the packets do, they are given to their medium.
LEMMA PacketKeepsPParts ==
    ASSUME TInv, PParts, \E S : delivered \in Seq(S),
           HandleRtp \/ SendRtpRtcp \/ PushPacket \/ Input \/ CutPacket \/ EndOfChunk \/ Quiet \/ UNCHANGED vars
    PROVE  PParts'
<1>1. /\ UNCHANGED <<auth, needAuth, transports, setupIter, pipelines, granted, setups, announced>>
      /\ UNCHANGED <<started, outcome, world>>
  BY DEF HandleRtp, SendRtpRtcp, PushPacket, Input, CutPacket, EndOfChunk, Quiet, vars, clientVars, serverVars
<1>2. Streams /\ ServerStream /\ world \in Worlds /\ 0 \in {0, 1} /\ 1 \in {0, 1}
  BY DEF TInv, SInv, IInv, Streams
<1>3. Fits /\ Requests /\ Replies /\ Ordered /\ Settled /\ Given
  BY DEF PParts
<1>4. UNCHANGED <<cache, toClient>> => UnitsRest(0)
  BY <1>2, <1>3, UnitsAsBefore DEF Units
<1>5. UNCHANGED toServer => ServerRest(0)
  BY <1>2, <1>3, ServerAsBefore
<1>6. ASSUME NEW d \in {0, 1}, NEW e \in {0, 1}, UnitsRest(d), ServerRest(e), Given'
      PROVE  PParts'
  BY <1>1, <1>3, <1>6, ElsewhereKeepsPParts DEF PParts
<1>7. UNCHANGED delivered => Given'
  BY <1>3 DEF Given
<1>8. \A x : x.given = x.sent /\ delivered' = Append(delivered, x) => Given'
  BY <1>3, GivenOne
<1>9. CASE HandleRtp
  <2>1. PICK p : p = Head(toServer) /\ p.type = "packet" /\ toServer # <<>> /\ toServer' = Tail(toServer)
    BY <1>9 DEF HandleRtp
  <2>2. ServerRest(1) /\ Proper(p)
    BY <1>2, <1>3, <2>1, PacketReceived
  <2>3. AllGranted /\ p.medium \in 1..NMedia /\ p.kind \in {1, 2} /\ p.channel = Chan(p.medium)[p.kind]
    BY <2>1, <2>2 DEF Proper, Marked
  <2>4. {o \in (1..NMedia) \X {1, 2} : granted[o[1]].interleaved[o[2]] = p.channel} = {<<p.medium, p.kind>>}
    BY <2>3, ServerFinds
  <2>5. delivered' = Append(delivered, [sent |-> <<p.medium, p.kind>>, given |-> <<p.medium, p.kind>>])
    BY <1>9, <2>1, <2>4 DEF HandleRtp
  <2>6. Given'
    BY <1>8, <2>5
  <2>7. UnitsRest(0)
    BY <1>4, <1>9 DEF HandleRtp, inputVars
  <2> QED BY <1>2, <1>6, <2>2, <2>6, <2>7
<1>10. CASE PushPacket
  <2>0. PICK m \in 1..NMedia, k \in {1, 2} :
           toServer' = Append(toServer, [type |-> "packet", medium |-> m, kind |-> k,
                                         channel |-> Offers[m].interleaved[k]])
    BY <1>10 DEF PushPacket
  <2>1. PICK p : /\ p = [type |-> "packet", medium |-> m, kind |-> k, channel |-> Offers[m].interleaved[k]]
                 /\ toServer' = Append(toServer, p)
    BY <2>0
  <2>2. p.type = "packet" /\ p.medium = m /\ p.kind = k /\ p.channel = Offers[m].interleaved[k]
    BY <2>1
  <2>3. world.push /\ outcome = "playing" /\ UNCHANGED <<cache, toClient, delivered>>
    BY <1>10 DEF PushPacket, inputVars
  <2>4. Chan(m) = Offers[m].interleaved
    BY <1>2, <2>3 DEF Chan, Worlds
  <2>5. Proper(p)
    BY <1>3, <2>2, <2>3, <2>4 DEF Proper, Asking, Marked, Fits
  <2>6. ServerRest(0)
    BY <1>2, <1>3, <2>1, <2>2, <2>5, PacketPushed
  <2> QED BY <1>2, <1>4, <1>6, <1>7, <2>3, <2>6
<1>11. CASE SendRtpRtcp
  <2>0. PICK m \in 1..NMedia, k \in {1, 2} :
           /\ granted[m] # TransportDefaults
           /\ toClient' = Append(toClient, [type |-> "packet", medium |-> m, kind |-> k,
                                            channel |-> granted[m].interleaved[k]])
    BY <1>11 DEF SendRtpRtcp
  <2>1. PICK p : /\ p = [type |-> "packet", medium |-> m, kind |-> k, channel |-> granted[m].interleaved[k]]
                 /\ toClient' = Append(toClient, p) /\ granted[m] # TransportDefaults
    BY <2>0
  <2>2. p.type = "packet" /\ p.medium = m /\ p.kind = k /\ p.channel = granted[m].interleaved[k]
    BY <2>1
  <2>3. started /\ UNCHANGED <<cache, toServer, delivered>>
    BY <1>11 DEF SendRtpRtcp, inputVars
  <2>4. Granted(m) /\ Ready
    BY <1>3, <2>1, <2>3 DEF Fits
  <2>5. Told(p)
    BY <2>2, <2>4 DEF Told, Answer, Marked, Granted
  <2>6. UnitsRest(0)
    BY <1>2, <1>3, <2>1, <2>2, <2>3, <2>5, PacketSent
  <2> QED BY <1>2, <1>5, <1>6, <1>7, <2>3, <2>6
<1>12. CASE Input
  <2>1. Units' = Units /\ UNCHANGED <<toServer, delivered>>
    BY <1>2, <1>12, UnitsGiven DEF Input
  <2> QED BY <1>2, <1>3, <1>5, <1>6, <1>7, <2>1, UnitsAsBefore
<1>13. CASE CutPacket
  <2>1. PICK p : /\ p = Head(cache) /\ p.type = "packet" /\ cache # <<>> /\ cache' = Tail(cache)
                 /\ UNCHANGED <<toClient, toServer>>
                 /\ delivered' = Append(delivered, [sent |-> <<p.medium, p.kind>>, given |-> Owner(p.channel)])
    BY <1>13 DEF CutPacket
  <2>2. UnitsRest(1) /\ Told(p)
    BY <1>2, <1>3, <2>1, PacketTaken
  <2>3. Ready /\ p.medium \in 1..NMedia /\ p.kind \in {1, 2} /\ p.channel = Chan(p.medium)[p.kind]
    BY <2>1, <2>2 DEF Told, Marked
  <2>4. DOMAIN transports = 1..NMedia /\ \A n \in 1..NMedia : transports[n].interleaved = Chan(n)
    <3>1. NMedia \in Nat
      BY LinkAssumption
    <3>2. \A n \in 1..NMedia : n < NMedia + 1
      BY <3>1
    <3>3. \A n \in 1..NMedia : n < setupIter
      BY <2>3, <3>2 DEF Ready
    <3> QED BY <1>3, <2>3, <3>3 DEF Fits, Ready, TInv, Domains
  <2>5. Owner(p.channel) = <<p.medium, p.kind>>
    BY <2>3, <2>4, ClientFinds
  <2>6. Given'
    BY <1>8, <2>1, <2>5
  <2> QED BY <1>2, <1>5, <1>6, <2>1, <2>2, <2>6
<1>14. CASE EndOfChunk \/ Quiet \/ UNCHANGED vars
  <2>1. UNCHANGED <<cache, toClient, toServer, delivered>>
    BY <1>14 DEF EndOfChunk, Quiet, vars, inputVars
  <2> QED BY <1>2, <1>4, <1>5, <1>6, <1>7, <2>1
<1> QED BY <1>9, <1>10, <1>11, <1>12, <1>13, <1>14

-----------------------------------------------------------------------------
(* The server handles a request.                                           *)

\* A client that pipelines has been accepted before.
LEMMA BatchTrusted ==
    ASSUME TInv, Batch, Ordered
    PROVE  /\ \A i \in DOMAIN toServer : toServer[i].type = "request" => Authorized(toServer[i])
           /\ cache # <<>> /\ Head(cache).type = "response" => Head(cache).status # "Unauthorized"
<1>1. CASE ~Protected
  <2>1. \A q : Authorized(q)
    BY <1>1 DEF Authorized, Protected
  <2>2. cache # <<>> => 1 \in DOMAIN Units /\ Units[1] = Head(cache)
    <3> SUFFICES ASSUME cache # <<>> PROVE 1 \in DOMAIN Units /\ Units[1] = Head(cache)
      OBVIOUS
    <3>1. PICK S : cache \in Seq(S) /\ toClient \in Seq(S)
      BY DEF TInv, SInv, Streams, ClientStream
    <3>2. Units \in Seq(S) /\ Units # <<>> /\ Head(Units) = Head(cache)
      BY <3>1, TailInFront DEF Units
    <3> QED BY <3>2
  <2>3. \A i \in DOMAIN Units : Units[i].type = "response" => Units[i].status # "Unauthorized"
    BY <1>1 DEF TInv, SInv, Answers
  <2> QED BY <2>1, <2>2, <2>3
<1>2. CASE Protected
  <2>1. needAuth /\ world.rightPassword
    BY <1>2 DEF TInv, SInv, Greeting, Ordered
  <2>2. Trusted
    BY <1>2, <2>1 DEF TInv, SInv, IInv, Phases, Asked, Challenged, Retried, Reported, Ended
  <2>3. PICK S : toServer \in Seq(S) /\ \A q \in S : q.type = "request" => Authorized(q)
    BY <2>2 DEF Trusted, Accepting
  <2>4. PICK R : cache \in Seq(R) /\ \A r \in R : r.type = "response" => r.status # "Unauthorized"
    BY <2>2 DEF Trusted, Unchallenged
  <2>5. cache # <<>> => Head(cache) \in R
    BY <2>4
  <2> QED BY <2>3, <2>4, <2>5
<1> QED BY <1>1, <1>2

\* What the server does with a request, and what it says.
Handled(q, r) ==
    \/ /\ r.status = "Unauthorized" /\ ~Authorized(q)
       /\ UNCHANGED <<granted, setups, announced, started>>
    \/ /\ r.status = "UnsupportedTransport" /\ q.method = "SETUP" /\ r.transport = NoTransport
       /\ UNCHANGED <<granted, setups, announced, started>>
    \/ /\ r.status = "OK" /\ q.method = "SETUP" /\ q.transport # NoTransport
       /\ r.transport = Encode(Grant(Decode(q.transport)))
       /\ granted' = IF world.push /\ ~announced THEN granted
                     ELSE [granted EXCEPT ![Slot(q.uri)] = Grant(Decode(q.transport))]
       /\ setups' = setups + 1 /\ UNCHANGED <<announced, started>>
    \/ /\ r.status = "OK" /\ q.method # "SETUP"
       /\ announced' = IF q.method = "ANNOUNCE" THEN q.body ELSE announced
       /\ started' = (started \/ q.method \in Starts) /\ UNCHANGED <<granted, setups>>

\* Every request is answered by one response, with its CSeq.
LEMMA ReplyOf ==
    ASSUME SInv, HandleRequest, NEW q, q = Head(toServer)
    PROVE  \E r : /\ toClient' = Append(toClient, r) /\ r.type = "response" /\ r.cseq = q.cseq
                  /\ Handled(q, r)
<1>1. /\ toServer # <<>> /\ q.type = "request"
      /\ Challenge(q) \/ RejectSession(q) \/ RefuseTransport(q) \/ ReplaySetup(q) \/ HandleOther(q)
  BY DEF HandleRequest
<1>2. ~RejectSession(q)
  <2>1. 1 \in DOMAIN toServer /\ toServer[1] = q
    BY <1>1, ServerLess, AfterTail DEF SInv, Streams, ServerStream
  <2> QED BY <1>1, <2>1 DEF SInv, Together, Alone, RejectSession, SessionMatches
<1>3. CASE Challenge(q)
  <2>1. PICK r : r = [Rejection(q, "Unauthorized") EXCEPT !.challenge = GenAuthInfo(authParam')]
    OBVIOUS
  <2>2. r.type = "response" /\ r.status = "Unauthorized" /\ r.cseq = q.cseq
    BY <2>1 DEF Rejection, Reply
  <2> QED BY <1>3, <2>1, <2>2 DEF Challenge, Handled
<1>4. CASE RefuseTransport(q)
  <2>1. PICK r : r = Reply(q, "UnsupportedTransport")
    OBVIOUS
  <2>2. r.type = "response" /\ r.status = "UnsupportedTransport" /\ r.cseq = q.cseq /\ r.transport = NoTransport
    BY <2>1 DEF Reply
  <2> QED BY <1>4, <2>1, <2>2 DEF RefuseTransport, Handled
<1>5. CASE ReplaySetup(q)
  <2>1. PICK r : r = [Reply(q, "OK") EXCEPT !.session = serverSession',
                                            !.transport = Encode(Grant(Decode(q.transport)))]
    OBVIOUS
  <2>2. /\ r.type = "response" /\ r.status = "OK" /\ r.cseq = q.cseq
        /\ r.transport = Encode(Grant(Decode(q.transport)))
    BY <2>1 DEF Reply
  <2>3. toClient' = Append(toClient, r)
    BY <1>5, <2>1 DEF ReplaySetup
  <2> QED BY <1>5, <2>2, <2>3 DEF ReplaySetup, Handled
<1>6. CASE HandleOther(q)
  <2>1. PICK r : r = Reply(q, "OK")
    OBVIOUS
  <2>2. r.type = "response" /\ r.status = "OK" /\ r.cseq = q.cseq
    BY <2>1 DEF Reply
  <2> QED BY <1>6, <2>1, <2>2 DEF HandleOther, Handled, Starts
<1> QED BY <1>1, <1>2, <1>3, <1>4, <1>5, <1>6

\* A SETUP gives its medium the channels of that medium, and says so.
LEMMA SetupGrants ==
    ASSUME TInv, Fits, Clear, 1 \in DOMAIN toServer, NEW q, q = toServer[1], Asking(q), Proper(q),
           granted' = IF world.push /\ ~announced THEN granted
                      ELSE [granted EXCEPT ![Slot(q.uri)] = Grant(Decode(q.transport))]
    PROVE  /\ q.uri \in 1..NMedia /\ granted'[q.uri].interleaved = Chan(q.uri)
           /\ \A m \in 1..NMedia : m # q.uri => granted'[m] = granted[m]
           /\ Decode(Encode(Grant(Decode(q.transport)))).interleaved = Chan(q.uri)
<1>1. PICK u \in Int : u = q.uri /\ u \in 1..NMedia
  <2>1. PICK u : u = q.uri
    OBVIOUS
  <2>2. u \in Nat /\ setups < u /\ u <= Requested
    BY <2>1 DEF TInv, InTurn
  <2>3. NMedia \in Nat /\ setups \in Nat /\ Requested \in 0..NMedia
    BY CountFacts
  <2>4. u \in 1..NMedia
    BY ONLY <2>2, <2>3
  <2> QED BY <2>1, <2>2, <2>4
<1>2. PICK d, t : d = Decode(q.transport) /\ t = Grant(d)
  OBVIOUS
<1>3. /\ DOMAIN d = DOMAIN TransportDefaults /\ {"proto", "cast", "interleaved"} \subseteq DOMAIN d
      /\ d.proto = "TCP" /\ d.interleaved = Offers[u].interleaved
      /\ world.grant = "count" => u = setups + 1
  BY <1>1, <1>2 DEF Decode, TransportDefaults, Proper
<1>4. t.proto = "TCP" /\ DOMAIN t = DOMAIN TransportDefaults /\ t.interleaved = Chan(u)
  <2>1. CASE world.grant = "count"
    <3>1. /\ t = [d EXCEPT !.proto = "TCP", !.cast = "UNICAST", !.interleaved = <<2 * setups, 2 * setups + 1>>]
      BY <1>2, <2>1 DEF Grant
    <3>2. t.proto = "TCP" /\ DOMAIN t = DOMAIN d /\ t.interleaved = <<2 * setups, 2 * setups + 1>>
      BY <1>3, <3>1
    <3>3. setups \in Nat /\ u - 1 = setups
      BY <1>3, <2>1, CountFacts
    <3> QED BY <1>3, <2>1, <3>2, <3>3 DEF Chan
  <2>2. CASE world.grant # "count"
    BY <1>2, <1>3, <2>2 DEF Grant, Chan
  <2> QED BY <2>1, <2>2
<1>5. world.push => announced
  <2>1. q.method = "SETUP" /\ q.type = "request"
    BY DEF Asking
  <2>2. CASE Batch
    <3>1. setupIter # 1
      BY <2>2 DEF Batch
    <3>2. auth.method \notin {"OPTIONS", Offer}
      BY <3>1 DEF TInv, Walk
    <3> QED BY <3>2 DEF Fits, Offer
  <2>3. CASE ~Batch
    BY <2>1, <2>3 DEF TInv, SInv, Alone, Fits
  <2> QED BY <2>2, <2>3
<1>6. granted' = [granted EXCEPT ![u] = t]
  BY <1>1, <1>2, <1>5 DEF Clear, Slot
<1>7. granted = [m \in 1..NMedia |-> granted[m]]
  BY DEF TInv, Domains
<1>8. granted'[u] = t /\ \A m \in 1..NMedia : m # u => granted'[m] = granted[m]
  BY <1>1, <1>6, <1>7
<1>9. Decode(Encode(t)).interleaved = Chan(u)
  BY <1>4, InterleavedCarried
<1> QED BY <1>1, <1>2, <1>4, <1>8, <1>9

\* What was granted stays so, and what is granted is what both sides expect.
LEMMA GrantsStay ==
    ASSUME TInv, Fits, Clear, NEW q, NEW r, 1 \in DOMAIN toServer, q = toServer[1], q.type = "request", Proper(q),
           Handled(q, r), world' = world
    PROVE  \A m \in 1..NMedia : /\ Granted(m) => Granted(m)'
                                /\ granted'[m] = TransportDefaults \/ Granted(m)'
<1>1. ASSUME NEW m \in 1..NMedia, granted' = granted
      PROVE  (Granted(m) => Granted(m)') /\ (granted'[m] = TransportDefaults \/ Granted(m)')
  BY <1>1 DEF Fits, Granted, Chan
<1>2. CASE granted' = granted
  BY <1>1, <1>2
<1>3. CASE granted' # granted
  <2>1. Asking(q)
    BY <1>3 DEF Handled, Asking
  <2>2. /\ granted'[q.uri].interleaved = Chan(q.uri)
        /\ \A m \in 1..NMedia : m # q.uri => granted'[m] = granted[m]
    BY <1>3, <2>1, SetupGrants DEF Handled
  <2> QED BY <2>2 DEF Fits, Granted, Chan
<1> QED BY <1>2, <1>3

\* Without pipelining the response says what the client asked for.
LEMMA ReplyTold ==
    ASSUME TInv, Fits, Clear, NEW q, NEW r, 1 \in DOMAIN toServer, q = toServer[1], q.type = "request", Proper(q),
           Handled(q, r), r.type = "response", UNCHANGED <<world, auth, setupIter>>
    PROVE  Told(r)'
<1>1. Batch' = Batch /\ \A m : Chan(m)' = Chan(m)
  BY DEF Batch, Chan
<1>2. ASSUME ~Batch, auth.method = "SETUP", r.status = "OK"
      PROVE  /\ Granted(setupIter)' /\ Decode(r.transport).interleaved = Chan(setupIter)
             /\ world.grant = "count" => setups' = setupIter
  <2>1. q.method = "SETUP"
    BY <1>2 DEF TInv, SInv, Alone
  <2>2. /\ Asking(q) /\ r.transport = Encode(Grant(Decode(q.transport))) /\ setups' = setups + 1
        /\ granted' = IF world.push /\ ~announced THEN granted
                      ELSE [granted EXCEPT ![Slot(q.uri)] = Grant(Decode(q.transport))]
    BY <1>2, <2>1 DEF Handled, Asking
  <2>3. q.uri = setupIter /\ (world.grant = "count" => q.uri = setups + 1)
    BY <1>2, <2>2 DEF Proper
  <2>4. granted'[q.uri].interleaved = Chan(q.uri) /\ Decode(r.transport).interleaved = Chan(q.uri)
    BY <2>2, SetupGrants
  <2> QED BY <1>1, <2>2, <2>3, <2>4 DEF Granted
<1>3. ASSUME auth.method = "ANNOUNCE", world.push, Answer(r) PROVE announced'
  <2>1. ~Batch
    BY <1>3 DEF TInv, Walk, Offer, Batch
  <2>2. q.method = "ANNOUNCE"
    BY <1>3, <2>1 DEF TInv, SInv, Alone
  <2> QED BY <1>3, <2>2 DEF Handled, Proper, Answer
<1> QED BY <1>1, <1>2, <1>3 DEF Told, Answer

\* Every request keeps the two sides fitting.
LEMMA RequestKeepsFits ==
    ASSUME TInv, Fits, Clear, NEW q, NEW r, 1 \in DOMAIN toServer, q = toServer[1], q.type = "request", Proper(q),
           Handled(q, r), UNCHANGED <<clientVars, world>>
    PROVE  Fits' /\ (world.push /\ announced => announced')
<1>1. UNCHANGED <<auth, needAuth, transports, setupIter, outcome, world>>
  BY DEF clientVars
<1>2. /\ Batch' = Batch /\ Ready' = Ready /\ Protected' = Protected /\ Offer' = Offer /\ First' = First
      /\ \A m : Chan(m)' = Chan(m)
  BY <1>1 DEF Batch, Ready, Protected, Offer, First, Chan
<1>3. \A m \in 1..NMedia : (Granted(m) => Granted(m)') /\ (granted'[m] = TransportDefaults \/ Granted(m)')
  BY <1>1, GrantsStay
<1>4. started' => Ready
  BY DEF Handled, Proper, Fits
<1>5. world.push /\ announced => announced'
  BY DEF Handled, Proper
<1>6. AllGranted => AllGranted'
  BY <1>3 DEF AllGranted
<1>7. ~Batch => \A m \in 1..NMedia : m < setupIter => Granted(m)'
  BY <1>3 DEF Fits
<1>8. /\ transports # <<>> => \A m \in 1..NMedia :
          IF m < setupIter THEN transports[m].interleaved = Chan(m) ELSE transports[m] = Offers[m]
      /\ auth.method \notin {"OPTIONS", Offer} => transports # <<>>
      /\ auth.method \in Starts => Ready
      /\ world.push /\ auth.method \notin {"OPTIONS", "ANNOUNCE"} => announced
      /\ outcome = "playing" => AllGranted
      /\ Protected /\ ~needAuth => auth.method = First
  BY DEF Fits
<1> QED BY <1>1, <1>2, <1>3, <1>4, <1>5, <1>6, <1>7, <1>8 DEF Fits

\* Every request.
LEMMA RequestKeepsPParts == ASSUME TInv, Clear, PParts, HandleRequest PROVE PParts'
<1>1. PICK q : q = Head(toServer)
  OBVIOUS
<1>2. /\ toServer # <<>> /\ q.type = "request" /\ toServer' = Tail(toServer)
      /\ UNCHANGED <<clientVars, inputVars, world, delivered>>
  BY <1>1 DEF HandleRequest
<1>3. SInv /\ Streams /\ ServerStream
  BY DEF TInv, SInv, Streams
<1>4. PICK r : /\ toClient' = Append(toClient, r) /\ r.type = "response" /\ r.cseq = q.cseq
               /\ Handled(q, r)
  BY <1>1, <1>3, ReplyOf
<1>5. PICK n \in Nat : /\ DOMAIN Units = 1..n /\ DOMAIN Units' = 1..(n + 1)
                       /\ (\A i \in 1..n : Units'[i] = Units[i]) /\ Units'[n + 1] = r
  BY <1>2, <1>3, <1>4, UnitMore DEF inputVars
<1>6. /\ \A i \in DOMAIN toServer' :
            i \in Nat /\ i + 1 \in DOMAIN toServer /\ toServer[i + 1] = toServer'[i] /\ 1 < i + 1
      /\ 1 \in DOMAIN toServer /\ toServer[1] = q
  BY <1>1, <1>2, <1>3, ServerLess
<1>7. Fits /\ Requests /\ Replies /\ Ordered /\ Settled /\ Given /\ Proper(q)
  BY <1>6 DEF PParts, Requests
<1>8. UNCHANGED <<auth, needAuth, transports, setupIter, pipelines, outcome, world>>
  BY <1>2 DEF clientVars
<1>9. Fits' /\ (world.push /\ announced => announced') /\ Told(r)'
  BY <1>2, <1>4, <1>6, <1>7, <1>8, RequestKeepsFits, ReplyTold
<1>10. \A m \in 1..NMedia : Granted(m) => Granted(m)'
  BY <1>4, <1>2, <1>6, <1>7, GrantsStay
<1>11. /\ Batch' = Batch /\ Ready' = Ready /\ Protected' = Protected /\ Pending' = Pending
       /\ \A m : Chan(m)' = Chan(m)
  BY <1>8 DEF Batch, Ready, Protected, Pending, Chan
<1>12. ~Batch => /\ \A i \in DOMAIN Units : Units[i].type # "response"
                 /\ \A i \in DOMAIN toServer' : toServer'[i].type # "request"
  <2> SUFFICES ASSUME ~Batch
               PROVE  /\ \A i \in DOMAIN Units : Units[i].type # "response"
                      /\ \A i \in DOMAIN toServer' : toServer'[i].type # "request"
    OBVIOUS
  <2>1. OneOpen
    BY <1>3 DEF SInv, Alone
  <2>2. \A i \in DOMAIN Units : Units[i].type # "response"
    BY <1>2, <1>6, <2>1 DEF OneOpen
  <2>3. ASSUME NEW i \in DOMAIN toServer' PROVE toServer'[i].type # "request"
    <3>1. i + 1 # 1
      BY <1>6
    <3> QED BY <1>2, <1>6, <2>1, <3>1 DEF OneOpen
  <2> QED BY <2>2, <2>3
<1>13. Requests'
  <2>1. ASSUME NEW p, Proper(p), ~Batch => p.type # "request" PROVE Proper(p)'
    <3>1. Asking(p) => Batch /\ world.grant # "count"
      BY <2>1 DEF Asking, Batch, Clear, Assigned
    <3>2. p.type = "packet" => AllGranted' /\ Marked(p)'
      BY <1>10, <1>11, <2>1 DEF Proper, AllGranted, Marked
    <3>3. Asking(p) => /\ Decode(p.transport).proto = "TCP"
                       /\ Decode(p.transport).interleaved = Offers[p.uri].interleaved
      BY <2>1 DEF Proper
    <3>4. /\ p.type = "request" /\ p.method \in Starts => Ready
          /\ p.type = "request" /\ p.method = "ANNOUNCE" /\ world.push => p.body = TRUE
      BY <2>1 DEF Proper
    <3> QED BY <1>8, <1>11, <3>1, <3>2, <3>3, <3>4 DEF Proper, Asking
  <2>2. ASSUME NEW i \in DOMAIN toServer' PROVE Proper(toServer[i])'
    <3>1. PICK p : p = toServer'[i]
      OBVIOUS
    <3>2. Proper(p) /\ (~Batch => p.type # "request")
      BY <1>6, <1>7, <1>12, <3>1 DEF Requests
    <3> QED BY <2>1, <3>1, <3>2
  <2> QED BY <2>2 DEF Requests
<1>14. Replies'
  <2>1. ASSUME NEW u, Told(u), ~Batch => u.type # "response" PROVE Told(u)'
    BY <1>8, <1>9, <1>11, <2>1 DEF Told, Answer, Marked
  <2>2. ASSUME NEW i \in 1..(n + 1) PROVE Told(Units[i])'
    <3>1. CASE i = n + 1
      BY <1>5, <1>9, <3>1
    <3>2. CASE i \in 1..n
      <4>1. PICK u : u = Units[i]
        OBVIOUS
      <4>2. Told(u)'
        BY <1>5, <1>7, <1>12, <2>1, <3>2, <4>1 DEF Replies
      <4> QED BY <1>5, <3>2, <4>1, <4>2
    <3> QED BY <3>1, <3>2, LastOrBefore
  <2> QED BY <1>5, <2>2 DEF Replies
<1>15. Given'
  BY <1>2, <1>7 DEF Given
<1>16. CASE ~Batch
  BY <1>7, <1>8, <1>9, <1>11, <1>13, <1>14, <1>15, <1>16 DEF PParts, Ordered, Settled
<1>17. CASE Batch
  <2>1. Pipelined /\ Listed /\ Queued /\ (Protected => world.rightPassword)
    BY <1>7, <1>17 DEF Ordered
  <2>2. q \in Pending
    BY <1>2, <1>6, <2>1 DEF Listed
  <2>3. Pipelined'
    BY <1>8, <1>11, <2>1 DEF Pipelined
  <2>4. Listed'
    <3>1. \A i \in DOMAIN toServer' : toServer'[i].type = "request" => toServer'[i] \in Pending
      BY <1>6, <2>1 DEF Listed
    <3>2. ASSUME NEW i \in 1..(n + 1), Answer(Units'[i]) PROVE \E p \in Pending : p.cseq = Units'[i].cseq
      <4>1. CASE i = n + 1
        BY <1>4, <1>5, <2>2, <4>1
      <4>2. CASE i \in 1..n
        BY <1>5, <2>1, <3>2, <4>2 DEF Listed, Answer
      <4> QED BY <4>1, <4>2, LastOrBefore
    <3> QED BY <1>5, <1>11, <3>1, <3>2 DEF Listed, Answer
  <2>5. Queued'
    <3>1. ASSUME NEW i \in DOMAIN toServer', NEW j \in DOMAIN toServer', i < j,
                 toServer'[i].type = "request", toServer'[j].type = "request"
          PROVE  toServer'[i].cseq < toServer'[j].cseq
      <4>1. i + 1 < j + 1
        BY <1>6, <3>1
      <4> QED BY <1>6, <2>1, <3>1, <4>1 DEF Queued
    <3>2. ASSUME NEW i \in 1..(n + 1), NEW j \in 1..(n + 1), i < j, Answer(Units'[i]), Answer(Units'[j])
          PROVE  Units'[i].cseq < Units'[j].cseq
      <4>1. i \in 1..n /\ (j = n + 1 \/ j \in 1..n) /\ Answer(Units[i]) /\ Units'[i] = Units[i]
        BY <1>5, <3>2, LastOrBefore DEF Answer
      <4>2. CASE j \in 1..n
        BY <1>5, <2>1, <3>2, <4>1, <4>2 DEF Queued, Answer
      <4>3. CASE j = n + 1
        BY <1>2, <1>4, <1>5, <1>6, <2>1, <4>1, <4>3 DEF Queued
      <4> QED BY <4>1, <4>2, <4>3
    <3>3. ASSUME NEW i \in 1..(n + 1), NEW j \in DOMAIN toServer', Answer(Units'[i]), toServer'[j].type = "request"
          PROVE  Units'[i].cseq < toServer'[j].cseq
      <4>1. j + 1 \in DOMAIN toServer /\ toServer[j + 1] = toServer'[j] /\ 1 < j + 1
        BY <1>6
      <4>2. CASE i = n + 1
        BY <1>2, <1>4, <1>5, <1>6, <2>1, <3>3, <4>1, <4>2 DEF Queued
      <4>3. CASE i \in 1..n
        BY <1>5, <2>1, <3>3, <4>1, <4>3 DEF Queued, Answer
      <4> QED BY <4>2, <4>3, LastOrBefore
    <3> QED BY <1>5, <3>1, <3>2, <3>3 DEF Queued, Answer
  <2>6. Ordered'
    BY <1>8, <1>11, <1>17, <2>1, <2>3, <2>4, <2>5 DEF Ordered
  <2>7. Settled'
    <3> SUFFICES ASSUME NEW m \in 1..NMedia
                 PROVE  \/ Granted(m)' \/ Waiting(m)' \/ outcome' = "threw"
                        \/ \E i \in DOMAIN Units' : Refusal(Units[i])'
      BY DEF Settled
    <3>1. CASE Granted(m)
      BY <1>10, <3>1
    <3>2. CASE outcome = "threw"
      BY <1>8, <3>2
    <3>3. \A u : Refusal(u)' = Refusal(u)
      BY <1>11 DEF Refusal, Answer
    <3>4. CASE \E i \in DOMAIN Units : Refusal(Units[i])
      <4>1. PICK i \in 1..n : Refusal(Units[i])
        BY <1>5, <3>4
      <4>2. i \in 1..(n + 1) /\ Units'[i] = Units[i]
        BY <1>5
      <4> QED BY <1>5, <3>3, <4>1, <4>2
    <3>5. CASE Waiting(m)
      <4>1. PICK i \in DOMAIN toServer : Asking(toServer[i]) /\ toServer[i].uri = m
        BY <3>5 DEF Waiting
      <4>2. CASE i = 1
        <5>1. Asking(q) /\ q.uri = m /\ q.method = "SETUP"
          BY <1>6, <4>1, <4>2 DEF Asking
        <5>2. Authorized(q)
          BY <1>2, <1>6, <1>7, <1>17, BatchTrusted
        <5>3. CASE r.status = "OK"
          BY <1>4, <1>6, <1>7, <1>11, <5>1, <5>3, SetupGrants DEF Handled, Granted
        <5>4. CASE r.status # "OK"
          <6>1. r.status = "UnsupportedTransport" /\ r.transport = NoTransport
            BY <1>4, <5>1, <5>2, <5>4 DEF Handled
          <6>2. Refusal(r)
            BY <1>4, <2>1, <2>2, <5>1, <6>1 DEF Refusal, Answer, Pipelined
          <6>3. n + 1 \in DOMAIN Units'
            BY <1>5
          <6> QED BY <1>5, <3>3, <6>2, <6>3
        <5> QED BY <5>3, <5>4
      <4>3. CASE i # 1
        <5>1. PICK k : DOMAIN toServer = 1..k /\ DOMAIN toServer' = 1..(k - 1) /\ k \in Nat \ {0}
          <6>1. PICK S : toServer \in Seq(S)
            BY <1>3 DEF ServerStream
          <6> QED BY <1>2, <6>1, AfterTail
        <5>2. i - 1 \in DOMAIN toServer' /\ (i - 1) + 1 = i
          BY <4>3, <5>1
        <5>3. toServer'[i - 1] = toServer[i]
          BY <1>6, <5>2
        <5> QED BY <4>1, <5>2, <5>3 DEF Waiting, Asking
      <4> QED BY <4>2, <4>3
    <3> QED BY <1>7, <1>17, <3>1, <3>2, <3>4, <3>5 DEF Settled
  <2> QED BY <1>9, <1>13, <1>14, <1>15, <2>6, <2>7 DEF PParts
<1> QED BY <1>16, <1>17

-----------------------------------------------------------------------------
(* The client handles a response.                                          *)

\* Without pipelining a response is the only message on its way.
LEMMA RestTold ==
    ASSUME TInv, PParts, CutMessage, ~Batch, Ready => Ready'
    PROVE  /\ Replies' /\ Given'
           /\ \A i \in DOMAIN Units' : Units'[i].type # "response"
           /\ \A i \in DOMAIN toServer : toServer[i].type # "request"
           /\ \A q : Proper(q) /\ q.type # "request" => Proper(q)'
           /\ UNCHANGED <<granted, setups, announced, started, world>>
<1>1. PICK r : r = Head(cache)
  OBVIOUS
<1>2. UNCHANGED <<granted, setups, announced, started, world, delivered>>
  BY DEF CutMessage, serverVars
<1>3. SInv /\ Requests /\ Replies /\ Given
  BY DEF TInv, PParts
<1>4. PICK n \in Nat :
         /\ DOMAIN Units = 1..(n + 1) /\ DOMAIN Units' = 1..n
         /\ (\A i \in 1..n : Units'[i] = Units[i + 1]) /\ Units[1] = r
         /\ 1 \in DOMAIN Units /\ \A i \in 1..n : i + 1 \in DOMAIN Units /\ i + 1 # 1
  BY <1>1, <1>3, MessageTaken
<1>5. r.type = "response" /\ OneOpen
  BY <1>1, <1>3, MessageTaken DEF SInv, Alone
<1>6. \A i \in DOMAIN toServer : toServer[i].type # "request"
  BY <1>4, <1>5 DEF OneOpen
<1>7. \A i \in DOMAIN Units' : Units'[i].type # "response" /\ Told(Units[i + 1])
  BY <1>3, <1>4, <1>5 DEF OneOpen, Replies
<1>8. \A m : Chan(m)' = Chan(m) /\ Granted(m)' = Granted(m)
  BY <1>2 DEF Chan, Granted
<1>9. \A u : Told(u) /\ u.type # "response" => Told(u)'
  BY <1>8 DEF Told, Answer, Marked
<1>10. Replies'
  BY <1>4, <1>7, <1>9 DEF Replies
<1>11. \A q : Proper(q) /\ q.type # "request" => Proper(q)'
  BY <1>8 DEF Proper, Asking, Marked, AllGranted
<1>12. Given'
  BY <1>2, <1>3 DEF Given
<1> QED BY <1>2, <1>6, <1>7, <1>10, <1>11, <1>12

\* A response after which nothing is sent.
LEMMA ToldNothing ==
    ASSUME TInv, PParts, CutMessage, ~Batch,
           UNCHANGED <<toServer, auth, needAuth, setupIter, transports, pipelines>>,
           outcome' = "playing" => AllGranted
    PROVE  PParts'
<1>1. Ready' = Ready
  BY DEF Ready
<1>2. /\ Replies' /\ Given'
      /\ \A i \in DOMAIN toServer : toServer[i].type # "request"
      /\ \A q : Proper(q) /\ q.type # "request" => Proper(q)'
      /\ UNCHANGED <<granted, setups, announced, started, world>>
  BY <1>1, RestTold
<1>3. /\ Batch' = Batch /\ Protected' = Protected /\ Offer' = Offer /\ First' = First
      /\ AllGranted' = AllGranted /\ \A m : Chan(m)' = Chan(m) /\ Granted(m)' = Granted(m)
  BY <1>2 DEF Batch, Protected, Offer, First, AllGranted, Chan, Granted
<1>4. Fits'
  BY <1>1, <1>2, <1>3 DEF PParts, Fits
<1>5. Requests'
  <2>1. ASSUME NEW i \in DOMAIN toServer PROVE Proper(toServer[i])'
    <3>1. PICK q : q = toServer[i]
      OBVIOUS
    <3>2. Proper(q)'
      BY <1>2, <3>1 DEF PParts, Requests
    <3> QED BY <3>1, <3>2
  <2> QED BY <2>1 DEF Requests
<1>6. Ordered' /\ Settled'
  BY <1>3 DEF PParts, Ordered, Settled
<1> QED BY <1>2, <1>4, <1>5, <1>6 DEF PParts

\* A response after which one request is sent.
LEMMA OneAsked ==
    ASSUME TInv, PParts, CutMessage, ~Batch, ~Batch', pipelines' = pipelines, Ready => Ready', Fits',
           \E q : toServer' = Append(toServer, q) /\ Proper(q)'
    PROVE  PParts'
<1>1. /\ Replies' /\ Given'
      /\ \A i \in DOMAIN toServer : toServer[i].type # "request"
      /\ \A q : Proper(q) /\ q.type # "request" => Proper(q)'
  BY RestTold
<1>2. PICK q : toServer' = Append(toServer, q) /\ Proper(q)'
  OBVIOUS
<1>3. PICK m \in Nat : /\ DOMAIN toServer = 1..m /\ DOMAIN toServer' = 1..(m + 1)
                       /\ (\A i \in 1..m : toServer'[i] = toServer[i]) /\ toServer'[m + 1] = q
  <2>1. PICK S : toServer \in Seq(S)
    BY DEF TInv, SInv, Streams, ServerStream
  <2>2. toServer \in Seq(S) /\ toServer' = Append(toServer, q)
    BY <1>2, <2>1
  <2> QED BY ONLY <2>2, AfterAppend
<1>4. ASSUME NEW i \in 1..(m + 1) PROVE Proper(toServer[i])'
  <2>1. CASE i = m + 1
    BY <1>2, <1>3, <2>1
  <2>2. CASE i \in 1..m
    <3>1. PICK p : p = toServer[i]
      OBVIOUS
    <3>2. Proper(p)'
      BY <1>1, <1>3, <2>2, <3>1 DEF PParts, Requests
    <3> QED BY <1>3, <2>2, <3>1, <3>2
  <2> QED BY <2>1, <2>2, LastOrBefore
<1>5. Requests'
  BY <1>3, <1>4 DEF Requests
<1>6. Ordered' /\ Settled'
  BY DEF PParts, Ordered, Settled
<1> QED BY <1>1, <1>5, <1>6 DEF PParts

\* What that request says.
LEMMA SentOneAs ==
    ASSUME ServerStream, Filled(auth), NEW c, SendAll(<<c>>, FALSE)
    PROVE  /\ \E q : /\ toServer' = Append(toServer, q) /\ q.type = "request" /\ q.method = c.method
                     /\ q.uri = c.uri /\ q.transport = c.transport
                     /\ c.method = "ANNOUNCE" => q.body = TRUE
           /\ auth'.method = c.method /\ needAuth' = needAuth /\ pipelines' = pipelines
<1>1. PICK S : toServer \in Seq(S)
  BY DEF ServerStream
<1>2. PICK pipe, q : pipe = FALSE /\ q = MakeRequest(cseq + 1 - 1, c, pipe)
  OBVIOUS
<1>3. PICK s : s = <<c>>
  OBVIOUS
<1>4. Len(s) = 1 /\ DOMAIN s = 1..1 /\ s[1] = c /\ Last(s) = c /\ s # <<>>
  BY <1>3 DEF Last
<1>5. [i \in DOMAIN s |-> MakeRequest(cseq + i - 1, s[i], pipe)] = <<q>>
  BY <1>2, <1>4
<1>6. /\ toServer' = toServer \o <<q>> /\ auth' = CallAuth(auth, c)
      /\ needAuth' = needAuth /\ pipelines' = pipelines
  <2>1. SendAll(s, pipe) /\ pipe = FALSE
    BY <1>2, <1>3
  <2> QED BY <1>4, <1>5, <2>1 DEF SendAll
<1>7. toServer' = Append(toServer, q)
  <2>1. toServer \in Seq(S \cup {q}) /\ q \in S \cup {q}
    BY <1>1, SeqMonotonic
  <2> QED BY <1>6, <2>1, AppendIsConcat
<1>8. q.type = "request" /\ q.method = c.method /\ q.uri = c.uri /\ q.transport = c.transport
  BY <1>2 DEF MakeRequest
<1>9. c.method = "ANNOUNCE" => q.body = TRUE
  BY <1>2 DEF MakeRequest
<1>10. auth'.method = c.method
  BY <1>6 DEF CallAuth, Filled, Keys
<1> QED BY <1>6, <1>7, <1>8, <1>9, <1>10

\* A response that is not pipelined answers the one request.
LEMMA PlainAnswer ==
    ASSUME SInv, CutMessage, NEW r, r = Head(cache), NEW method, Plain(r, method)
    PROVE  /\ ~Batch /\ Answer(r) /\ auth.method = method /\ (Protected => needAuth)
           /\ 1 \in DOMAIN Units /\ Units[1] = r
<1>1. r.type = "response" /\ cache # <<>> /\ 1 \in DOMAIN Units /\ Units[1] = r
  BY MessageTaken
<1>2. r.status # "Unauthorized" /\ ~r.pipe /\ auth.method = method
  BY DEF Plain, Accepted
<1>3. ~Batch /\ Answer(r)
  BY <1>1, <1>2 DEF SInv, Together, Answer
<1>4. Protected => needAuth
  BY <1>1, <1>2, OnlyChallenge DEF SInv
<1> QED BY <1>1, <1>2, <1>3, <1>4

\* A call whose request is as it should be.
LEMMA CallAsked ==
    ASSUME TInv, PParts, CutMessage, ~Batch, ~Batch', Ready => Ready', Fits',
           NEW c, SendAll(<<c>>, FALSE),
           c.method = "SETUP" /\ c.transport # NoTransport =>
              /\ Decode(c.transport).proto = "TCP"
              /\ Decode(c.transport).interleaved = Offers[c.uri].interleaved
              /\ c.uri = setupIter' /\ (world.grant = "count" => c.uri = setups + 1),
           c.method \in Starts => Ready'
    PROVE  PParts'
<1>1. ServerStream /\ Filled(auth)
  BY DEF TInv, SInv, Streams, Known
<1>2. /\ \E q : /\ toServer' = Append(toServer, q) /\ q.type = "request" /\ q.method = c.method
                /\ q.uri = c.uri /\ q.transport = c.transport
                /\ c.method = "ANNOUNCE" => q.body = TRUE
      /\ pipelines' = pipelines
  BY <1>1, SentOneAs
<1>3. PICK q : /\ toServer' = Append(toServer, q) /\ q.type = "request" /\ q.method = c.method
               /\ q.uri = c.uri /\ q.transport = c.transport
               /\ c.method = "ANNOUNCE" => q.body = TRUE
  BY <1>2
<1>4. UNCHANGED <<world, setups>>
  BY DEF CutMessage, serverVars
<1>5. Asking(q) => /\ Decode(q.transport).proto = "TCP"
                   /\ Decode(q.transport).interleaved = Offers[q.uri].interleaved
                   /\ q.uri = setupIter' /\ (world'.grant = "count" => q.uri = setups' + 1)
  BY <1>3, <1>4 DEF Asking
<1>6. Proper(q)'
  BY <1>3, <1>5 DEF Proper, Asking
<1> QED BY <1>2, <1>3, <1>6, OneAsked

\* The challenge: First is asked for again.
LEMMA ChallengeKeepsPParts ==
    ASSUME TInv, PParts, Clear, CutMessage, NEW r, r = Head(cache), HandleUnAuth(r)
    PROVE  PParts'
<1>1. SInv /\ IInv /\ Filled(auth) /\ Fits
  BY DEF TInv, SInv, Known, PParts
<1>2. cache # <<>> /\ r.type = "response" /\ 1 \in DOMAIN Units /\ Units[1] = r
  BY <1>1, MessageTaken
<1>3. Protected /\ ~needAuth /\ ~Batch
  BY <1>1, <1>2 DEF HandleUnAuth, SInv, Answers, Greeting
<1>4. /\ UNCHANGED <<transports, setupIter, pipelines, outcome>> /\ needAuth' = TRUE
      /\ auth' = Parser(auth, r.challenge)
  BY DEF HandleUnAuth
<1>5. UNCHANGED <<granted, setups, announced, started, world>>
  BY DEF CutMessage, serverVars
<1>6. auth'.method = auth.method /\ auth.method = First
  BY <1>1, <1>3, <1>4, MethodKept DEF Fits
<1>7. /\ Batch' = Batch /\ Ready' = Ready /\ Offer' = Offer /\ First' = First /\ AllGranted' = AllGranted
      /\ \A m : Chan(m)' = Chan(m) /\ Granted(m)' = Granted(m)
  BY <1>4, <1>5 DEF Batch, Ready, Offer, First, AllGranted, Chan, Granted
<1>8. Fits'
  BY <1>1, <1>4, <1>5, <1>6, <1>7 DEF Fits
<1>9. PICK q : /\ toServer' = Append(toServer, q) /\ q.type = "request" /\ q.method = auth.method
               /\ q.transport = NoTransport
  <2>1. PICK q : q = [type |-> "request", cseq |-> -cseq, method |-> auth.method, uri |-> auth.uri,
                      credentials |-> Credentials(auth'), session |-> "", pipe |-> FALSE,
                      transport |-> NoTransport, body |-> FALSE]
    OBVIOUS
  <2>2. toServer' = Append(toServer, q)
    BY <2>1 DEF HandleUnAuth
  <2>3. q.type = "request" /\ q.method = auth.method /\ q.transport = NoTransport
    BY <2>1
  <2> QED BY <2>2, <2>3
<1>10. q.method \notin Starts /\ ~(q.method = "ANNOUNCE" /\ world.push)
  BY <1>3, <1>6, <1>9 DEF First, Offer, Starts, Clear, Undescribed, Protected
<1>11. Proper(q)'
  BY <1>5, <1>9, <1>10 DEF Proper, Asking
<1> QED BY <1>3, <1>4, <1>7, <1>8, <1>9, <1>11, OneAsked

\* OPTIONS was answered: the application asks for the media.
LEMMA OptionsKeepsPParts ==
    ASSUME TInv, PParts, CutMessage, NEW r, r = Head(cache), HandleOptions(r)
    PROVE  PParts'
<1>1. SInv /\ ServerStream /\ Filled(auth) /\ Fits
  BY DEF TInv, SInv, Streams, Known, PParts
<1>2. Plain(r, "OPTIONS") /\ UNCHANGED <<transports, setupIter, outcome>>
  BY DEF HandleOptions
<1>3. ~Batch /\ auth.method = "OPTIONS" /\ (Protected => needAuth)
  BY <1>1, <1>2, PlainAnswer
<1>4. PICK c : c = Call(Offer, auth.uri)
  OBVIOUS
<1>5. SendAll(<<c>>, FALSE) /\ c.method = Offer
  BY <1>4 DEF HandleOptions, Call
<1>6. auth'.method = Offer /\ needAuth' = needAuth
  BY <1>1, <1>5, SentOneAs
<1>7. UNCHANGED <<granted, setups, announced, started, world>>
  BY DEF CutMessage, serverVars
<1>8. /\ Batch' = Batch /\ Ready' = Ready /\ Offer' = Offer /\ First' = First /\ AllGranted' = AllGranted
      /\ Protected' = Protected /\ \A m : Chan(m)' = Chan(m) /\ Granted(m)' = Granted(m)
  BY <1>2, <1>7 DEF Batch, Ready, Offer, First, AllGranted, Protected, Chan, Granted
<1>9. Offer \notin Starts \cup {"SETUP"} /\ (world.push => Offer = "ANNOUNCE")
  BY DEF Offer, Starts
<1>10. Fits'
  BY <1>1, <1>2, <1>3, <1>6, <1>7, <1>8, <1>9 DEF Fits
<1> QED BY <1>3, <1>5, <1>8, <1>9, <1>10, CallAsked

\* What the client is told with the answer about the media.
LEMMA OfferAnswered ==
    ASSUME TInv, PParts, CutMessage, NEW r, r = Head(cache), HandleOffer(r)
    PROVE  /\ ~Batch /\ auth.method = Offer /\ (Protected => needAuth) /\ (world.push => announced)
           /\ setupIter = 1 /\ setups = 0 /\ ~started /\ ~Ready /\ outcome' = outcome
           /\ transports' = Offers /\ Offers # <<>>
           /\ \A m \in 1..NMedia : /\ Encode(Offers[m]) # NoTransport
                                   /\ Decode(Encode(Offers[m])).proto = "TCP"
                                   /\ Decode(Encode(Offers[m])).interleaved = Offers[m].interleaved
<1>1. SInv /\ Fits /\ Replies
  BY DEF TInv, PParts
<1>2. Plain(r, Offer) /\ outcome' = outcome /\ transports' = Offers
  BY DEF HandleOffer
<1>3. ~Batch /\ Answer(r) /\ auth.method = Offer /\ (Protected => needAuth) /\ 1 \in DOMAIN Units /\ Units[1] = r
  BY <1>1, <1>2, PlainAnswer
<1>4. world.push => announced
  BY <1>1, <1>3 DEF Replies, Told, Offer
<1>5. NMedia \in Nat \ {0} /\ setups \in Nat /\ setups <= Requested
  BY CountFacts
<1>6. setupIter = 1
  BY <1>3 DEF TInv, Walk
<1>7. setups = 0
  <2>1. Requested = 0
    BY <1>3, <1>6 DEF Requested, Offer
  <2> QED BY <1>5, <2>1
<1>8. ~Ready
  BY <1>5, <1>6 DEF Ready
<1>9. ~started
  BY <1>1, <1>8 DEF Fits
<1>10. Offers # <<>>
  <2>1. PICK S : Offers \in [1..NMedia -> S]
    <3>1. Offers = [m \in 1..NMedia |-> Offers[m]]
      BY LinkAssumption
    <3>2. Offers \in [1..NMedia -> {Offers[m] : m \in 1..NMedia}]
      BY <3>1
    <3> QED BY <3>2
  <2>2. 1 \in DOMAIN Offers
    BY <1>5, <2>1
  <2>3. 1 \notin DOMAIN <<>>
    OBVIOUS
  <2> QED BY <2>2, <2>3, Zenon
<1>11. ASSUME NEW m \in 1..NMedia
       PROVE  /\ Encode(Offers[m]) # NoTransport
              /\ Decode(Encode(Offers[m])).proto = "TCP"
              /\ Decode(Encode(Offers[m])).interleaved = Offers[m].interleaved
  BY OffersAssumption, InterleavedCarried
<1> QED BY <1>2, <1>3, <1>4, <1>6, <1>7, <1>8, <1>9, <1>10, <1>11

\* The first SETUP.
LEMMA OfferKeepsPParts ==
    ASSUME TInv, PParts, CutMessage, NEW r, r = Head(cache), HandleOffer(r), ~world.pipelined
    PROVE  PParts'
<1>1. /\ ~Batch /\ auth.method = Offer /\ (Protected => needAuth) /\ (world.push => announced)
      /\ setupIter = 1 /\ setups = 0 /\ ~started /\ ~Ready /\ outcome' = outcome
      /\ transports' = Offers /\ Offers # <<>>
      /\ \A m \in 1..NMedia : /\ Encode(Offers[m]) # NoTransport
                              /\ Decode(Encode(Offers[m])).proto = "TCP"
                              /\ Decode(Encode(Offers[m])).interleaved = Offers[m].interleaved
  BY OfferAnswered
<1>2. ServerStream /\ Filled(auth) /\ Fits
  BY DEF TInv, SInv, Streams, Known, PParts
<1>3. PICK c : c = SetupCall(1)
  OBVIOUS
<1>4. SendAll(<<c>>, FALSE) /\ setupIter' = 1
  BY <1>3 DEF HandleOffer
<1>5. c.method = "SETUP" /\ c.uri = 1 /\ c.transport = Encode(Offers[1])
  BY <1>1, <1>3 DEF SetupCall
<1>6. auth'.method = "SETUP" /\ needAuth' = needAuth
  BY <1>2, <1>4, <1>5, SentOneAs
<1>7. UNCHANGED <<granted, setups, announced, started, world>>
  BY DEF CutMessage, serverVars
<1>8. /\ ~Batch' /\ Offer' = Offer /\ First' = First /\ AllGranted' = AllGranted
      /\ Protected' = Protected /\ \A m : Chan(m)' = Chan(m) /\ Granted(m)' = Granted(m)
  BY <1>7 DEF Batch, Offer, First, AllGranted, Protected, Chan, Granted
<1>9. NMedia \in Nat \ {0} /\ 1 \in 1..NMedia /\ 0 + 1 = 1 /\ \A m \in 1..NMedia : ~(m < 1)
  BY CountFacts
<1>10. Fits'
  BY <1>1, <1>2, <1>4, <1>6, <1>7, <1>8, <1>9 DEF Fits, Starts
<1>11. /\ Decode(c.transport).proto = "TCP"
       /\ Decode(c.transport).interleaved = Offers[c.uri].interleaved
       /\ c.uri = setupIter' /\ c.uri = setups + 1 /\ c.method \notin Starts
  BY <1>1, <1>4, <1>5, <1>9 DEF Starts
<1> QED BY <1>1, <1>4, <1>8, <1>10, <1>11, CallAsked

\* The transport of one medium is stored, and the next one is asked for.
LEMMA SetupKeepsPParts ==
    ASSUME TInv, PParts, CutMessage, NEW r, r = Head(cache), HandleSetup(r)
    PROVE  PParts'
<1>1. SInv /\ ServerStream /\ Filled(auth) /\ Fits /\ Replies
  BY DEF TInv, SInv, Streams, Known, PParts
<1>2. /\ Plain(r, "SETUP") /\ r.status = "OK" /\ outcome' = outcome
      /\ transports' = [transports EXCEPT ![setupIter] = Decode(r.transport)]
      /\ setupIter' = setupIter + 1
  BY DEF HandleSetup, Stored, After
<1>3. /\ ~Batch /\ Answer(r) /\ auth.method = "SETUP" /\ (Protected => needAuth)
      /\ 1 \in DOMAIN Units /\ Units[1] = r
  BY <1>1, <1>2, PlainAnswer
<1>4. ~world.pipelined
  BY <1>1, <1>3 DEF SInv, Alone
<1>5. PICK n \in Nat \ {0}, k \in Nat \ {0} : n = NMedia /\ k = setupIter /\ k \in 1..n
  <2>1. NMedia \in Nat \ {0} /\ setupIter \in Nat \ {0} /\ setupIter <= NMedia
    BY <1>3, CountFacts DEF TInv, Walk
  <2> QED BY <2>1
<1>6. /\ Granted(k) /\ Decode(r.transport).interleaved = Chan(k)
      /\ world.grant = "count" => setups = k
  BY <1>1, <1>2, <1>3, <1>5 DEF Replies, Told, Answer
<1>7. UNCHANGED <<granted, setups, announced, started, world>>
  BY DEF CutMessage, serverVars
<1>8. /\ ~Batch' /\ Offer' = Offer /\ First' = First /\ AllGranted' = AllGranted
      /\ Protected' = Protected /\ \A m : Chan(m)' = Chan(m) /\ Granted(m)' = Granted(m)
  BY <1>4, <1>7 DEF Batch, Offer, First, AllGranted, Protected, Chan, Granted
<1>9. Offer \in {"ANNOUNCE", "DESCRIBE"} /\ (world.push => announced)
  BY <1>1, <1>3 DEF Offer, Fits
<1>10. k # n + 1 /\ k + 1 = setupIter' /\ \A m \in 1..n : (m < k + 1 => m = k \/ m < k) /\ (~(m < k + 1) => m # k /\ ~(m < k))
  BY <1>2, <1>5
<1>11. ~Ready /\ ~started
  BY <1>1, <1>5, <1>10 DEF Ready, Fits
<1>12. transports # <<>> /\ transports = [m \in 1..n |-> transports[m]]
  BY <1>1, <1>3, <1>5, <1>9 DEF Fits, TInv, Domains
<1>13. transports'[k] = Decode(r.transport) /\ \A m \in 1..n : m # k => transports'[m] = transports[m]
  BY <1>2, <1>5, <1>12
<1>14. transports' # <<>>
  <2>1. k \in DOMAIN transports
    <3>1. DOMAIN [m \in 1..n |-> transports[m]] = 1..n
      OBVIOUS
    <3> QED BY <1>5, <1>12, <3>1, Zenon
  <2>2. DOMAIN transports' = DOMAIN transports
    BY <1>2
  <2> QED BY <2>1, <2>2
<1>15. /\ \A m \in 1..n : m < k => transports[m].interleaved = Chan(m)
       /\ \A m \in 1..n : ~(m < k) => transports[m] = Offers[m]
       /\ \A m \in 1..n : m < k => Granted(m)
  BY <1>1, <1>3, <1>5, <1>12 DEF Fits
<1>16. \A m \in 1..n : /\ m < k + 1 => Granted(m) /\ transports'[m].interleaved = Chan(m)
                       /\ ~(m < k + 1) => transports'[m] = Offers[m]
  BY <1>6, <1>10, <1>13, <1>15
<1>17. PICK c : c = IF setupIter = NMedia THEN Call(Start, 0) ELSE SetupCall(setupIter')
  OBVIOUS
<1>18. SendAll(<<c>>, FALSE)
  BY <1>17 DEF HandleSetup, After
<1>19. auth'.method = c.method /\ needAuth' = needAuth
  BY <1>1, <1>18, SentOneAs
<1>20. CASE k = n
  <2>1. c.method = Start /\ Start \in Starts /\ Start \notin {"OPTIONS", "SETUP", "ANNOUNCE", "DESCRIBE"}
    BY <1>5, <1>17, <1>20 DEF Call, Start, Starts
  <2>2. Ready'
    BY <1>5, <1>10, <1>14, <1>20 DEF Ready
  <2>3. Fits'
    BY <1>1, <1>2, <1>3, <1>5, <1>7, <1>8, <1>9, <1>10, <1>11, <1>14, <1>16, <1>19, <2>1, <2>2 DEF Fits
  <2> QED BY <1>3, <1>8, <1>11, <1>18, <2>1, <2>2, <2>3, CallAsked
<1>21. CASE k # n
  <2>1. c.method = "SETUP" /\ c.uri = k + 1 /\ c.transport = Encode(transports'[k + 1])
    BY <1>5, <1>10, <1>17, <1>21 DEF SetupCall
  <2>2. k + 1 \in 1..n /\ ~(k + 1 < k + 1)
    BY <1>5, <1>21
  <2>3. c.transport = Encode(Offers[k + 1])
    BY <1>16, <2>1, <2>2
  <2>4. /\ Decode(Encode(Offers[k + 1])).proto = "TCP"
        /\ Decode(Encode(Offers[k + 1])).interleaved = Offers[k + 1].interleaved
    BY <1>5, <2>2, OffersAssumption, InterleavedCarried
  <2>5. Fits'
    BY <1>1, <1>2, <1>3, <1>5, <1>7, <1>8, <1>9, <1>10, <1>11, <1>14, <1>16, <1>19, <2>1 DEF Fits, Starts
  <2>6. c.method \notin Starts
    BY <2>1 DEF Starts
  <2>7. /\ Decode(c.transport).proto = "TCP"
        /\ Decode(c.transport).interleaved = Offers[c.uri].interleaved
        /\ c.uri = setupIter' /\ (world.grant = "count" => c.uri = setups + 1)
    BY <1>6, <1>10, <2>1, <2>3, <2>4
  <2> QED BY <1>3, <1>8, <1>11, <1>18, <2>5, <2>6, <2>7, CallAsked
<1> QED BY <1>20, <1>21

\* The stream has started, with all media granted, or nothing is sent any more.
LEMMA LastKeepsPParts ==
    ASSUME TInv, PParts, CutMessage, NEW r, r = Head(cache), ~Batch,
           AuthFailed(r) \/ SetupRefused(r) \/ HandleStart(r)
    PROVE  PParts'
<1>1. SInv /\ ServerStream /\ Fits
  BY DEF TInv, SInv, Streams, PParts
<1>2. SendNone /\ UNCHANGED <<transports, setupIter>>
  BY DEF AuthFailed, SetupRefused, HandleStart
<1>3. toServer' = toServer /\ auth' = auth /\ needAuth' = needAuth
  BY <1>1, <1>2, SentNone
<1>4. pipelines' = pipelines
  BY <1>2 DEF SendNone, SendAll
<1>5. outcome' = "playing" => AllGranted
  <2> SUFFICES ASSUME outcome' = "playing" PROVE AllGranted
    OBVIOUS
  <2>1. HandleStart(r)
    BY DEF AuthFailed, SetupRefused, Knows
  <2>2. auth.method \in Starts
    BY <2>1 DEF HandleStart, Plain, Start, Starts
  <2>3. setupIter = NMedia + 1
    BY <1>1, <2>2 DEF Fits, Ready
  <2>4. NMedia \in Nat /\ \A m \in 1..NMedia : m < NMedia + 1
    BY CountFacts
  <2> QED BY <1>1, <2>3, <2>4 DEF Fits, AllGranted
<1> QED BY <1>2, <1>3, <1>4, <1>5, ToldNothing

-----------------------------------------------------------------------------
(* A batch is sent.                                                        *)

\* The parts of a longer stream, in both directions.
Joined(t, s, b, k) ==
    /\ \A i \in DOMAIN t : i \in Nat /\
          IF i <= k THEN i \in DOMAIN s /\ t[i] = s[i]
                    ELSE i - k \in 1..Len(b) /\ t[i] = b[i - k]
    /\ \A j \in 1..Len(b) : k + j \in DOMAIN t /\ t[k + j] = b[j]

\* Where they are.
LEMMA BothParts ==
    ASSUME NEW S, NEW s \in Seq(S), NEW B, NEW b \in Seq(B)
    PROVE  \E k \in Nat : Joined(s \o b, s, b, k)
<1>1. PICK n \in Nat : n = Len(b)
  OBVIOUS
<1>2. PICK t : t = s \o b
  OBVIOUS
<1>3. s \in Seq(S \cup B) /\ b \in Seq(S \cup B)
  BY SeqMonotonic
<1>4. /\ t \in Seq(S \cup B) /\ Len(t) = Len(s) + n
      /\ \A i \in 1..(Len(s) + n) : t[i] = IF i <= Len(s) THEN s[i] ELSE b[i - Len(s)]
  BY <1>1, <1>2, <1>3, ConcatProperties
<1>5. PICK k \in Nat : k = Len(s) /\ DOMAIN s = 1..k /\ DOMAIN t = 1..(k + n)
  BY <1>4
<1>6. ASSUME NEW i \in 1..(k + n)
      PROVE  i \in Nat /\ IF i <= k THEN i \in DOMAIN s /\ t[i] = s[i]
                                    ELSE i - k \in 1..n /\ t[i] = b[i - k]
  BY <1>4, <1>5
<1>7. ASSUME NEW j \in 1..n PROVE k + j \in DOMAIN t /\ t[k + j] = b[j]
  <2>1. k + j \in 1..(k + n) /\ ~(k + j <= k) /\ (k + j) - k = j
    OBVIOUS
  <2> QED BY <1>4, <1>5, <2>1
<1> QED BY <1>1, <1>2, <1>5, <1>6, <1>7 DEF Joined

\* A SETUP for each medium, and the request for the stream.
Batched(b) ==
    /\ Len(b) = NMedia + 1
    /\ \A i \in 1..(NMedia + 1) : b[i].type = "request" /\ b[i].cseq = cseq + i - 1
    /\ \A i \in 1..NMedia : b[i].method = "SETUP" /\ b[i].uri = i /\ b[i].transport = Encode(Offers[i])
    /\ b[NMedia + 1].method = Start

\* That is what is sent together.
LEMMA SentBatch ==
    ASSUME Filled(auth), pipelines = <<>>, NEW r, HandleOffer(r), world.pipelined
    PROVE  /\ \E B : \E b \in Seq(B) : toServer' = toServer \o b /\ pipelines' = b /\ Batched(b)
           /\ auth'.method = Start /\ needAuth' = needAuth /\ setupIter' = NMedia + 1
<1>1. PICK n \in Nat \ {0} : n = NMedia
  BY LinkAssumption
<1> DEFINE C == {SetupCall(i) : i \in 1..n} \cup {Call(Start, 0)}
           setups_ == [i \in 1..n |-> SetupCall(i)]
<1>2. PICK s, c : s = setups_ /\ c = Call(Start, 0)
  OBVIOUS
<1>3. /\ s \in [1..n -> C] /\ c \in C /\ c.method = Start
      /\ \A i \in 1..n : s[i].method = "SETUP" /\ s[i].uri = i /\ s[i].transport = Encode(transports'[i])
  BY <1>2 DEF Call, SetupCall
<1>4. PICK pipe : pipe = TRUE
  OBVIOUS
<1>5. setupIter' = NMedia + 1 /\ SendAll(s \o <<c>>, pipe) /\ transports' = Offers
  BY <1>1, <1>2, <1>4 DEF HandleOffer
<1> HIDE DEF C
<1>6. s \in Seq(C) /\ <<c>> \in Seq(C) /\ Len(s) = n /\ Len(<<c>>) = 1 /\ <<c>>[1] = c
  <2>1. s \in Seq(C)
    BY <1>3
  <2>2. Len(s) = n
    BY <1>3, <2>1
  <2> QED BY <1>3, <2>1, <2>2
<1>7. PICK calls \in Seq(C) : /\ calls = s \o <<c>> /\ Len(calls) = n + 1
                              /\ \A i \in 1..n : calls[i] = s[i]
                              /\ calls[n + 1] = c
  <2>1. PICK t : t = s \o <<c>>
    OBVIOUS
  <2>2. /\ t \in Seq(C) /\ Len(t) = n + 1
        /\ \A i \in 1..(n + 1) : t[i] = IF i <= n THEN s[i] ELSE <<c>>[i - n]
    BY <1>6, <2>1, ConcatProperties
  <2>3. n + 1 \in 1..(n + 1) /\ ~(n + 1 <= n) /\ n + 1 - n = 1
    OBVIOUS
  <2>4. t[n + 1] = c
    BY <1>6, <2>2, <2>3
  <2>5. \A i \in 1..n : i \in 1..(n + 1) /\ i <= n
    OBVIOUS
  <2>6. \A i \in 1..n : t[i] = s[i]
    BY <2>2, <2>5
  <2> QED BY <2>1, <2>2, <2>4, <2>6
<1> DEFINE B == {MakeRequest(cseq + i - 1, calls[i], pipe) : i \in 1..(n + 1)}
           reqs == [i \in 1..(n + 1) |-> MakeRequest(cseq + i - 1, calls[i], pipe)]
<1>8. DOMAIN calls = 1..(n + 1) /\ calls # <<>> /\ Last(calls) = calls[n + 1]
  BY <1>7 DEF Last
<1>9. /\ toServer' = toServer \o reqs /\ auth' = CallAuth(auth, calls[n + 1])
      /\ pipelines' = IF pipe THEN pipelines \o reqs ELSE pipelines
      /\ needAuth' = needAuth
  BY <1>5, <1>7, <1>8 DEF SendAll
<1>10. reqs \in Seq(B) /\ Len(reqs) = n + 1
  BY DEF Seq
<1>11. \A i \in 1..(n + 1) : /\ reqs[i].type = "request" /\ reqs[i].cseq = cseq + i - 1
                            /\ reqs[i].method = calls[i].method /\ reqs[i].uri = calls[i].uri
                            /\ reqs[i].transport = calls[i].transport
  BY DEF MakeRequest
<1>12. auth'.method = calls[n + 1].method
  BY <1>9 DEF CallAuth, Filled, Keys
<1> HIDE DEF B, reqs
<1>13. PICK b : b = reqs
  OBVIOUS
<1>14. Batched(b)
  <2>1. \A i \in 1..n : i \in 1..(n + 1)
    OBVIOUS
  <2>2. \A i \in 1..n : b[i].method = "SETUP" /\ b[i].uri = i /\ b[i].transport = Encode(Offers[i])
    <3> SUFFICES ASSUME NEW i \in 1..n
                 PROVE  b[i].method = "SETUP" /\ b[i].uri = i /\ b[i].transport = Encode(Offers[i])
      OBVIOUS
    <3>1. s[i].method = "SETUP" /\ s[i].uri = i /\ s[i].transport = Encode(Offers[i])
      BY <1>3, <1>5
    <3>2. /\ b[i].method = calls[i].method /\ b[i].uri = calls[i].uri
          /\ b[i].transport = calls[i].transport
      BY <1>11, <1>13, <2>1
    <3> QED BY <1>7, <3>1, <3>2
  <2>3. n + 1 \in 1..(n + 1)
    OBVIOUS
  <2>4. b[n + 1].method = Start
    BY <1>3, <1>7, <1>11, <1>13, <2>3
  <2> QED BY <1>1, <1>10, <1>11, <1>13, <2>2, <2>4 DEF Batched
<1>15. pipelines' = b
  <2>1. <<>> \o b = b
    BY <1>10, <1>13, ConcatEmptySeq
  <2> QED BY <1>4, <1>9, <1>13, <2>1
<1> QED BY <1>3, <1>5, <1>7, <1>9, <1>10, <1>12, <1>13, <1>14, <1>15

\* What the server's stream is then.
LEMMA BatchStream ==
    ASSUME ServerStream, NEW B, NEW b \in Seq(B), toServer' = toServer \o b, Batched(b),
           \A i \in DOMAIN toServer : toServer[i].type # "request"
    PROVE  \E k \in Nat :
              /\ \A i \in DOMAIN toServer' : i \in Nat /\
                    \/ ~(k < i) /\ i \in DOMAIN toServer /\ toServer'[i] = toServer[i] /\ toServer'[i].type # "request"
                    \/ k < i /\ i - k \in 1..(NMedia + 1) /\ toServer'[i] = b[i - k]
              /\ \A j \in 1..(NMedia + 1) : k + j \in DOMAIN toServer' /\ toServer'[k + j] = b[j]
<1>1. PICK S : toServer \in Seq(S)
  BY DEF ServerStream
<1>2. PICK n \in Nat : n = NMedia + 1 /\ n = Len(b)
  <2>1. NMedia \in Nat
    BY LinkAssumption
  <2>2. Len(b) = NMedia + 1
    BY DEF Batched
  <2> QED BY <2>1, <2>2
<1>3. PICK s, t : s = toServer /\ t = toServer' /\ t = s \o b /\ s \in Seq(S)
  BY <1>1
<1>4. PICK k \in Nat :
         /\ \A i \in DOMAIN t : i \in Nat /\
               IF i <= k THEN i \in DOMAIN s /\ t[i] = s[i]
                         ELSE i - k \in 1..n /\ t[i] = b[i - k]
         /\ \A j \in 1..n : k + j \in DOMAIN t /\ t[k + j] = b[j]
  <2>1. PICK k \in Nat : Joined(s \o b, s, b, k)
    BY <1>3, BothParts
  <2>2. Joined(t, s, b, k) /\ n = Len(b)
    BY <1>2, <1>3, <2>1
  <2>3. /\ \A i \in DOMAIN t : i \in Nat /\
               IF i <= k THEN i \in DOMAIN s /\ t[i] = s[i]
                         ELSE i - k \in 1..n /\ t[i] = b[i - k]
        /\ \A j \in 1..n : k + j \in DOMAIN t /\ t[k + j] = b[j]
    BY <2>2 DEF Joined
  <2> QED BY <2>3
<1>5. ASSUME NEW i \in DOMAIN t
      PROVE  i \in Nat /\
             \/ ~(k < i) /\ i \in DOMAIN s /\ t[i] = s[i] /\ t[i].type # "request"
             \/ k < i /\ i - k \in 1..n /\ t[i] = b[i - k]
  <2>1. i \in Nat
    BY <1>4
  <2>2. CASE i <= k
    <3>1. i \in DOMAIN s /\ t[i] = s[i]
      BY <1>4, <2>2
    <3>2. ~(k < i)
      BY <2>1, <2>2
    <3> QED BY <1>3, <2>1, <3>1, <3>2
  <2>3. CASE ~(i <= k)
    <3>1. i - k \in 1..n /\ t[i] = b[i - k]
      BY <1>4, <2>3
    <3>2. k < i
      BY <2>1, <2>3
    <3> QED BY <2>1, <3>1, <3>2
  <2> QED BY <2>2, <2>3
<1>6. DOMAIN t = DOMAIN toServer' /\ \A i \in DOMAIN t : t[i] = toServer'[i]
  BY <1>3
<1>7. \A i \in DOMAIN toServer' : i \in Nat /\
         \/ ~(k < i) /\ i \in DOMAIN toServer /\ toServer'[i] = toServer[i] /\ toServer'[i].type # "request"
         \/ k < i /\ i - k \in 1..(NMedia + 1) /\ toServer'[i] = b[i - k]
  BY <1>2, <1>3, <1>5, <1>6
<1>8. \A j \in 1..(NMedia + 1) : k + j \in DOMAIN toServer' /\ toServer'[k + j] = b[j]
  BY <1>2, <1>4, <1>6
<1> QED BY <1>7, <1>8

\* A batch of its own is in order.
LEMMA BatchOrdered ==
    ASSUME cseq \in Nat, NEW B, NEW b \in Seq(B), pipelines' = b, Batched(b)
    PROVE  /\ Pipelined' /\ \A i \in 1..(NMedia + 1) : b[i] \in Pending'
           /\ \A i, j \in 1..(NMedia + 1) : i < j => b[i].cseq < b[j].cseq
<1>1. PICK n \in Nat, c \in Nat : n = NMedia + 1 /\ c = cseq
  <2>1. NMedia \in Nat
    BY LinkAssumption
  <2> QED BY <2>1
<1>2. DOMAIN b = 1..n /\ Pending' = {b[i] : i \in 1..n}
  BY <1>1 DEF Batched, Pending
<1>3. \A i \in 1..n : i \in Nat /\ 1 <= i /\ i <= n /\ b[i].cseq = c + i - 1
  BY <1>1 DEF Batched
<1>4. \A i, j \in 1..n : /\ i < j => b[i].cseq < b[j].cseq
                         /\ b[i].cseq = b[j].cseq => i = j
                         /\ b[i].cseq <= b[n].cseq /\ b[i].cseq \in Nat
  <2> SUFFICES ASSUME NEW i \in Nat, NEW j \in Nat, 1 <= i, i <= n, 1 <= j, j <= n
               PROVE  /\ i < j => b[i].cseq < b[j].cseq
                      /\ b[i].cseq = b[j].cseq => i = j
                      /\ b[i].cseq <= b[n].cseq /\ b[i].cseq \in Nat
    BY <1>3
  <2>1. i \in 1..n /\ j \in 1..n /\ n \in 1..n
    OBVIOUS
  <2>2. b[i].cseq = c + i - 1 /\ b[j].cseq = c + j - 1 /\ b[n].cseq = c + n - 1
    BY <1>3, <2>1
  <2>3. /\ i < j => c + i - 1 < c + j - 1
        /\ c + i - 1 = c + j - 1 => i = j
        /\ c + i - 1 <= c + n - 1 /\ c + i - 1 \in Nat
    OBVIOUS
  <2> QED BY <2>2, <2>3
<1>5. \A i \in 1..n : b[i].method # "SETUP" => i = n
  <2> SUFFICES ASSUME NEW i \in 1..n, i # n PROVE b[i].method = "SETUP"
    OBVIOUS
  <2>1. NMedia \in Nat
    BY LinkAssumption
  <2>2. i \in 1..NMedia
    BY <1>1, <2>1
  <2> QED BY <2>2 DEF Batched
<1>6. Pipelined'
  <2>1. \A p \in Pending' : p.cseq \in Nat
    BY <1>2, <1>4
  <2>2. \A p, q \in Pending' : p.method # "SETUP" => q.cseq <= p.cseq
    BY <1>2, <1>4, <1>5
  <2>3. \A p, q \in Pending' : p.cseq = q.cseq => p.method = q.method
    BY <1>2, <1>4
  <2> QED BY <2>1, <2>2, <2>3 DEF Pipelined
<1> QED BY <1>1, <1>2, <1>4, <1>6

\* A client that is answered has the right password.
LEMMA AnswerTrusted ==
    ASSUME SInv, CutMessage, NEW r, r = Head(cache), r.status # "Unauthorized", Protected
    PROVE  world.rightPassword
<1>1. needAuth /\ cache # <<>>
  BY OnlyChallenge DEF SInv, CutMessage
<1>2. ~Reported
  <2> SUFFICES ASSUME Reported PROVE FALSE
    OBVIOUS
  <2>1. PICK s : Coming(s)
    BY DEF Reported
  <2> QED BY <1>1, <2>1 DEF Coming
<1> QED BY <1>1, <1>2 DEF SInv, IInv, Phases, Asked, Challenged, Trusted, Retried, Ended, Silent

\* All that is asked for is as it should be, and so are both sides.
LEMMA BatchKeepsPParts ==
    ASSUME TInv, PParts, Clear, CutMessage, NEW r, r = Head(cache), HandleOffer(r), world.pipelined
    PROVE  PParts'
<1>1. /\ ~Batch /\ auth.method = Offer /\ (Protected => needAuth) /\ (world.push => announced)
      /\ setupIter = 1 /\ setups = 0 /\ ~started /\ ~Ready /\ outcome' = outcome
      /\ transports' = Offers /\ Offers # <<>>
      /\ \A m \in 1..NMedia : /\ Encode(Offers[m]) # NoTransport
                              /\ Decode(Encode(Offers[m])).proto = "TCP"
                              /\ Decode(Encode(Offers[m])).interleaved = Offers[m].interleaved
  BY OfferAnswered
<1>2. SInv /\ ServerStream /\ Filled(auth) /\ Fits /\ Requests /\ pipelines = <<>> /\ cseq \in Nat
  BY <1>1 DEF TInv, TypeOK, SInv, Streams, Known, PParts, Ordered
<1>3. PICK B : \E b \in Seq(B) : toServer' = toServer \o b /\ pipelines' = b /\ Batched(b)
  BY <1>2, SentBatch
<1>4. PICK b \in Seq(B) : toServer' = toServer \o b /\ pipelines' = b /\ Batched(b)
  BY <1>3
<1>5. auth'.method = Start /\ needAuth' = needAuth /\ setupIter' = NMedia + 1
  BY <1>2, SentBatch
<1>6. /\ Replies' /\ Given'
      /\ \A i \in DOMAIN Units' : Units'[i].type # "response"
      /\ \A i \in DOMAIN toServer : toServer[i].type # "request"
      /\ \A q : Proper(q) /\ q.type # "request" => Proper(q)'
      /\ UNCHANGED <<granted, setups, announced, started, world>>
  BY <1>1, RestTold
<1>7. world.grant # "count"
  BY DEF Clear, Assigned
<1>8. NMedia \in Nat \ {0} /\ NMedia + 1 # 1 /\ \A m \in 1..NMedia : m < NMedia + 1 /\ m \in 1..(NMedia + 1)
  BY CountFacts
<1>9. /\ Batch' /\ Ready' /\ Offer' = Offer /\ First' = First /\ AllGranted' = AllGranted
      /\ Protected' = Protected /\ \A m : Chan(m)' = Chan(m) /\ Granted(m)' = Granted(m)
  BY <1>1, <1>5, <1>6, <1>8 DEF Batch, Ready, Offer, First, AllGranted, Protected, Chan, Granted
<1>10. Start \in Starts /\ Start \notin {"SETUP", "ANNOUNCE"}
  BY DEF Start, Starts
<1>11. Fits'
  <2>1. \A m \in 1..NMedia : m < setupIter' /\ transports'[m].interleaved = Chan(m)'
    BY <1>1, <1>5, <1>7, <1>8, <1>9 DEF Chan
  <2> QED BY <1>1, <1>2, <1>5, <1>6, <1>9, <2>1 DEF Fits
<1>12. PICK k \in Nat :
          /\ \A i \in DOMAIN toServer' : i \in Nat /\
                \/ ~(k < i) /\ i \in DOMAIN toServer /\ toServer'[i] = toServer[i] /\ toServer'[i].type # "request"
                \/ k < i /\ i - k \in 1..(NMedia + 1) /\ toServer'[i] = b[i - k]
          /\ \A j \in 1..(NMedia + 1) : k + j \in DOMAIN toServer' /\ toServer'[k + j] = b[j]
  BY <1>2, <1>4, <1>6, BatchStream
<1>13. ASSUME NEW j \in 1..(NMedia + 1) PROVE Proper(b[j])'
  <2>1. PICK q : q = b[j]
    OBVIOUS
  <2>2. CASE j \in 1..NMedia
    <3>1. /\ q.method = "SETUP" /\ q.uri = j /\ q.transport = Encode(Offers[j])
      BY <1>4, <2>1, <2>2 DEF Batched
    <3>2. /\ Decode(q.transport).proto = "TCP" /\ Decode(q.transport).interleaved = Offers[q.uri].interleaved
      BY <1>1, <2>2, <3>1
    <3>3. q.type = "request" /\ q.method \notin Starts \cup {"ANNOUNCE"}
      BY <1>4, <2>1, <3>1 DEF Batched, Starts
    <3>4. Proper(q)'
      BY <1>6, <1>7, <1>9, <3>2, <3>3 DEF Proper, Asking
    <3> QED BY <1>4, <2>1, <3>4 DEF Proper, Asking
  <2>3. CASE j = NMedia + 1
    <3>1. q.method = Start /\ q.type = "request"
      BY <1>4, <2>1, <2>3 DEF Batched
    <3>2. Proper(q)'
      BY <1>9, <1>10, <3>1 DEF Proper, Asking
    <3> QED BY <1>4, <2>1, <3>2 DEF Proper, Asking
  <2> QED BY <1>8, <2>2, <2>3
<1>14. Requests'
  <2>1. ASSUME NEW i \in DOMAIN toServer' PROVE Proper(toServer[i])'
    <3>1. CASE i \in DOMAIN toServer /\ toServer'[i] = toServer[i] /\ toServer'[i].type # "request"
      <4>1. PICK p : p = toServer[i]
        OBVIOUS
      <4>2. Proper(p)'
        BY <1>2, <1>6, <3>1, <4>1 DEF Requests
      <4> QED BY <3>1, <4>1, <4>2
    <3>2. CASE i - k \in 1..(NMedia + 1) /\ toServer'[i] = b[i - k]
      <4>1. PICK p : p = b[i - k]
        OBVIOUS
      <4>2. PICK j \in 1..(NMedia + 1) : j = i - k
        BY <3>2
      <4>3. Proper(b[j])'
        BY <1>13
      <4>4. Proper(p)'
        BY <1>4, <4>1, <4>2, <4>3 DEF Proper, Asking
      <4> QED BY <3>2, <4>1, <4>4
    <3> QED BY <1>12, <3>1, <3>2
  <2> QED BY <2>1 DEF Requests
<1>15. /\ Pipelined' /\ \A i \in 1..(NMedia + 1) : b[i] \in Pending'
       /\ \A i, j \in 1..(NMedia + 1) : i < j => b[i].cseq < b[j].cseq
  BY <1>2, <1>4, BatchOrdered
<1>16. Protected' => world'.rightPassword
  <2>1. r.status # "Unauthorized"
    BY DEF HandleOffer, Plain, Accepted
  <2> QED BY <1>2, <1>6, <1>9, <2>1, AnswerTrusted
<1>17. Listed'
  BY <1>6, <1>12, <1>15 DEF Listed, Answer
<1>18. Queued'
  <2>1. ASSUME NEW i \in DOMAIN toServer', NEW j \in DOMAIN toServer', i < j,
               toServer'[i].type = "request", toServer'[j].type = "request"
        PROVE  toServer'[i].cseq < toServer'[j].cseq
    <3>1. /\ i \in Nat /\ i - k \in 1..(NMedia + 1) /\ toServer'[i] = b[i - k]
          /\ j \in Nat /\ j - k \in 1..(NMedia + 1) /\ toServer'[j] = b[j - k]
      BY <1>12, <2>1
    <3>2. i - k < j - k
      BY <2>1, <3>1
    <3> QED BY <1>15, <3>1, <3>2
  <2> QED BY <1>6, <2>1 DEF Queued, Answer
<1>19. Ordered'
  BY <1>9, <1>15, <1>16, <1>17, <1>18 DEF Ordered
<1>20. Settled'
  <2>1. ASSUME NEW m \in 1..NMedia PROVE Waiting(m)'
    <3>1. /\ b[m].method = "SETUP" /\ b[m].uri = m /\ b[m].transport = Encode(Offers[m])
          /\ b[m].type = "request"
      BY <1>4, <1>8 DEF Batched
    <3>2. k + m \in DOMAIN toServer' /\ toServer'[k + m] = b[m]
      BY <1>8, <1>12
    <3> QED BY <1>1, <3>1, <3>2 DEF Waiting, Asking
  <2> QED BY <2>1 DEF Settled
<1> QED BY <1>6, <1>11, <1>14, <1>19, <1>20 DEF PParts

-----------------------------------------------------------------------------
(* The answers of the batch.                                               *)

\* Natural numbers have a least one among them.
LEMMA LeastExists ==
    ASSUME NEW S \in SUBSET Nat, S # {}
    PROVE  Min(S) \in S /\ \A y \in S : Min(S) <= y
<1>1. \E x \in S : \A y \in S : <<y, x>> \notin OpToRel(<, Nat)
  BY NatLessThanWellFounded, WFMin
<1>2. PICK x \in S : \A y \in S : <<y, x>> \notin OpToRel(<, Nat)
  BY <1>1
<1>3. \A y \in S : ~(y < x)
  <2> TAKE y \in S
  <2>1. y \in Nat /\ x \in Nat
    OBVIOUS
  <2>2. <<y, x>> \in Nat \X Nat
    BY <2>1
  <2>3. y < x => <<y, x>> \in OpToRel(<, Nat)
    BY <2>2 DEF OpToRel
  <2> QED BY <2>3, <1>2
<1>4. \A y \in S : x <= y
  BY <1>3
<1> QED BY <1>4 DEF Min

\* The request that HandlePipelineResponse finds.
IndexOf(r) == SelectInSeq(pipelines, LAMBDA q : q.cseq = r.cseq)

\* An answer finds a request with its number.
LEMMA FoundPending ==
    ASSUME NEW S, pipelines \in Seq(S), NEW r, NEW p \in Pending, p.cseq = r.cseq
    PROVE  IndexOf(r) \in DOMAIN pipelines /\ pipelines[IndexOf(r)].cseq = r.cseq
<1>1. PICK n \in Nat : n = Len(pipelines) /\ DOMAIN pipelines = 1..n
  OBVIOUS
<1>2. PICK I : I = {i \in 1..n : pipelines[i].cseq = r.cseq}
  OBVIOUS
<1>3. I \subseteq Nat /\ I # {}
  BY <1>1, <1>2 DEF Pending
<1>4. Min(I) \in I
  BY <1>3, LeastExists
<1> QED BY <1>1, <1>2, <1>3, <1>4 DEF IndexOf, SelectInSeq

\* One element is taken out of a sequence, the others keep their order.
LEMMA RemoveAtFacts ==
    ASSUME NEW S, NEW s \in Seq(S), NEW k \in DOMAIN s
    PROVE  /\ RemoveAt(s, k) \in Seq(S) /\ Len(RemoveAt(s, k)) = Len(s) - 1
           /\ DOMAIN RemoveAt(s, k) = 1..(Len(s) - 1)
           /\ \A j \in 1..(Len(s) - 1) : RemoveAt(s, k)[j] = IF j < k THEN s[j] ELSE s[j + 1]
<1>1. PICK n \in Nat : n = Len(s) /\ DOMAIN s = 1..n /\ \A i \in 1..n : s[i] \in S
  BY LenProperties, ElementOfSeq
<1>2. PICK a \in Seq(S) : a = SubSeq(s, 1, k - 1) /\ Len(a) = k - 1 /\ \A i \in 1..(k - 1) : a[i] = s[i]
  <2>1. \A i \in 1..(k - 1) : s[i] \in S /\ 1 + i - 1 = i
    BY <1>1
  <2>2. k - 1 \in Int /\ (1 <= k - 1 => k - 1 - 1 + 1 = k - 1) /\ (~(1 <= k - 1) => k - 1 = 0) /\ k - 1 - 1 + 1 = k - 1
    BY <1>1
  <2>3. /\ SubSeq(s, 1, k - 1) \in Seq(S)
        /\ Len(SubSeq(s, 1, k - 1)) = IF 1 <= k - 1 THEN k - 1 - 1 + 1 ELSE 0
        /\ \A i \in 1..(k - 1 - 1 + 1) : SubSeq(s, 1, k - 1)[i] = s[1 + i - 1]
    BY <2>1, <2>2, SubSeqProperties
  <2>4. Len(SubSeq(s, 1, k - 1)) = k - 1
    BY <1>1, <2>3
  <2>5. \A i \in 1..(k - 1) : SubSeq(s, 1, k - 1)[i] = s[i]
    BY <1>1, <2>3
  <2> QED BY <2>3, <2>4, <2>5
<1>3. PICK b \in Seq(S) : /\ b = SubSeq(s, k + 1, n) /\ Len(b) = n - k
                          /\ \A i \in 1..(n - k) : b[i] = s[k + i]
  <2>1. \A i \in (k + 1)..n : s[i] \in S
    BY <1>1
  <2>2. /\ k + 1 \in Int /\ n \in Int /\ n - (k + 1) + 1 = n - k /\ (~(k + 1 <= n) => n - k = 0)
        /\ \A i \in 1..(n - k) : k + 1 + i - 1 = k + i
    BY <1>1
  <2>3. /\ SubSeq(s, k + 1, n) \in Seq(S)
        /\ Len(SubSeq(s, k + 1, n)) = IF k + 1 <= n THEN n - (k + 1) + 1 ELSE 0
        /\ \A i \in 1..(n - (k + 1) + 1) : SubSeq(s, k + 1, n)[i] = s[k + 1 + i - 1]
    BY <2>1, <2>2, SubSeqProperties, SMTT(30)
  <2>4. Len(SubSeq(s, k + 1, n)) = n - k
    BY <1>1, <2>3
  <2>5. \A i \in 1..(n - k) : SubSeq(s, k + 1, n)[i] = s[k + i]
    <3> TAKE i \in 1..(n - k)
    <3>1. i \in 1..(n - (k + 1) + 1) /\ k + 1 + i - 1 = k + i
      BY <1>1
    <3> QED BY <2>3, <3>1
  <2> QED BY <2>3, <2>4, <2>5
<1>4. RemoveAt(s, k) = a \o b
  BY <1>1, <1>2, <1>3 DEF RemoveAt
<1>5. /\ a \o b \in Seq(S) /\ Len(a \o b) = n - 1
      /\ \A j \in 1..(n - 1) : (a \o b)[j] = IF j <= k - 1 THEN a[j] ELSE b[j - (k - 1)]
  <2>1. Len(a) + Len(b) = n - 1
    BY <1>1, <1>2, <1>3, SMTT(30)
  <2> QED BY <1>2, <2>1, ConcatProperties, SMTT(30)
<1>6. \A j \in 1..(n - 1) : (a \o b)[j] = IF j < k THEN s[j] ELSE s[j + 1]
  <2> TAKE j \in 1..(n - 1)
  <2>1. CASE j < k
    BY <1>1, <1>2, <1>5, <2>1
  <2>2. CASE ~(j < k)
    <3>1. ~(j <= k - 1) /\ j - (k - 1) \in 1..(n - k) /\ k + (j - (k - 1)) = j + 1
      BY <1>1, <2>2
    <3> QED BY <1>3, <1>5, <2>2, <3>1
  <2> QED BY <2>1, <2>2
<1>7. DOMAIN (a \o b) = 1..(n - 1)
  BY <1>5, LenProperties
<1> QED BY <1>1, <1>4, <1>5, <1>6, <1>7

\* All but one element are left.
LEMMA PendingLess ==
    ASSUME NEW S, pipelines \in Seq(S), NEW k \in DOMAIN pipelines, pipelines' = RemoveAt(pipelines, k)
    PROVE  /\ \E B : pipelines' \in Seq(B)
           /\ Pending' \subseteq Pending
           /\ \A p \in Pending : p.cseq # pipelines[k].cseq => p \in Pending'
<1>1. PICK s, t : s \in Seq(S) /\ s = pipelines /\ k \in DOMAIN s /\ t = RemoveAt(s, k)
  OBVIOUS
<1>2. PICK n \in Nat : n = Len(s) /\ DOMAIN s = 1..n /\ k \in 1..n
  BY <1>1
<1>3. /\ t \in Seq(S) /\ DOMAIN t = 1..(n - 1)
      /\ \A j \in 1..(n - 1) : t[j] = IF j < k THEN s[j] ELSE s[j + 1]
  BY <1>1, <1>2, RemoveAtFacts
<1>4. \A j \in 1..(n - 1) : t[j] \in {s[i] : i \in 1..n}
  <2> TAKE j \in 1..(n - 1)
  <2>1. j \in 1..n /\ j + 1 \in 1..n
    BY <1>2
  <2> QED BY <1>3, <2>1
<1>5. ASSUME NEW i \in 1..n, s[i].cseq # s[k].cseq
      PROVE  \E j \in 1..(n - 1) : t[j] = s[i]
  <2>1. CASE i < k
    <3>1. i \in 1..(n - 1)
      BY <1>2, <2>1
    <3> QED BY <1>3, <2>1, <3>1
  <2>2. CASE i > k
    <3>1. i - 1 \in 1..(n - 1) /\ ~(i - 1 < k) /\ i - 1 + 1 = i
      BY <1>2, <2>2
    <3> QED BY <1>3, <3>1
  <2>3. i # k
    BY <1>5
  <2> QED BY <1>2, <2>1, <2>2, <2>3
<1>6. pipelines' = t /\ Pending = {s[i] : i \in 1..n} /\ Pending' = {t[i] : i \in 1..(n - 1)}
  BY <1>1, <1>2, <1>3 DEF Pending
<1>7. Pending' \subseteq Pending
  BY <1>4, <1>6
<1>8. ASSUME NEW p \in Pending, p.cseq # s[k].cseq PROVE p \in Pending'
  <2>1. PICK i \in 1..n : p = s[i]
    BY <1>6
  <2> QED BY <1>5, <1>6, <1>8, <2>1
<1>9. \E B : pipelines' \in Seq(B)
  BY <1>3, <1>6
<1> QED BY <1>1, <1>7, <1>8, <1>9

\* The first answer on its way is that to the first request.
LEMMA FirstAnswer ==
    ASSUME SInv, Pipelined, Listed, Queued, CutMessage, NEW r, r = Head(cache), Answer(r)
    PROVE  /\ \E p \in Pending : p.cseq = r.cseq
           /\ \E n \in Nat :
                 /\ DOMAIN Units = 1..(n + 1) /\ DOMAIN Units' = 1..n /\ Units[1] = r
                 /\ \A i \in 1..n : i + 1 \in DOMAIN Units /\ Units'[i] = Units[i + 1]
                 /\ \A i \in 1..n : Answer(Units'[i]) =>
                       \E p \in Pending : p.cseq = Units'[i].cseq /\ p.cseq # r.cseq
                 /\ \A i \in 1..n : Answer(Units'[i]) => \E p \in Pending : p.method = "SETUP" /\ p.cseq = r.cseq
           /\ \A i \in DOMAIN toServer : toServer[i].type = "request" =>
                 toServer[i].cseq # r.cseq /\ \E p \in Pending : p.method = "SETUP" /\ p.cseq = r.cseq
<1>1. PICK n \in Nat :
         /\ DOMAIN Units = 1..(n + 1) /\ DOMAIN Units' = 1..n
         /\ (\A i \in 1..n : Units'[i] = Units[i + 1]) /\ Units[1] = r
         /\ 1 \in DOMAIN Units /\ \A i \in 1..n : i + 1 \in DOMAIN Units /\ i + 1 # 1
  BY MessageTaken
<1>2. PICK p \in Pending : p.cseq = r.cseq
  BY <1>1 DEF Listed
<1>3. p.cseq \in Nat
  BY DEF Pipelined
<1>4. ASSUME NEW q \in Pending, r.cseq < q.cseq PROVE q.cseq # r.cseq /\ p.method = "SETUP"
  <2>1. PICK a \in Nat, b \in Nat : a = r.cseq /\ b = q.cseq /\ a < b
    BY <1>2, <1>3, <1>4 DEF Pipelined
  <2>2. a # b /\ ~(b <= a)
    BY <2>1
  <2>3. p.method # "SETUP" => q.cseq <= p.cseq
    BY DEF Pipelined
  <2> QED BY <1>2, <2>1, <2>2, <2>3
<1>5. ASSUME NEW i \in 1..n, Answer(Units'[i])
      PROVE  (\E q \in Pending : q.cseq = Units'[i].cseq /\ q.cseq # r.cseq) /\ p.method = "SETUP"
  <2>1. i + 1 \in DOMAIN Units /\ Units[i + 1] = Units'[i] /\ 1 < i + 1
    BY <1>1, Shifted
  <2>2. r.cseq < Units'[i].cseq
    BY <1>1, <1>5, <2>1 DEF Queued
  <2>3. PICK q \in Pending : q.cseq = Units'[i].cseq
    BY <1>5, <2>1 DEF Listed
  <2> QED BY <1>4, <2>2, <2>3
<1>6. ASSUME NEW i \in DOMAIN toServer, toServer[i].type = "request"
      PROVE  toServer[i].cseq # r.cseq /\ p.method = "SETUP"
  <2>1. r.cseq < toServer[i].cseq /\ toServer[i] \in Pending
    BY <1>1, <1>6 DEF Queued, Listed
  <2> QED BY <1>4, <2>1
<1> QED BY <1>1, <1>2, <1>5, <1>6

\* One answer less.
LEMMA PipelinedKeepsPParts ==
    ASSUME TInv, PParts, CutMessage, NEW r, r = Head(cache), HandlePipelineResponse(r)
    PROVE  PParts'
<1>1. /\ SInv /\ ServerStream /\ Fits /\ Requests /\ Replies /\ Ordered /\ Settled /\ Given
  BY DEF TInv, SInv, Streams, PParts
<1>2. r.type = "response" /\ 1 \in DOMAIN Units /\ Units[1] = r
  BY <1>1, MessageTaken
<1>3. Answer(r) /\ Batch
  BY <1>1, <1>2 DEF HandlePipelineResponse, Accepted, Answer, SInv, Alone
<1>4. Pipelined /\ Listed /\ Queued /\ (Protected => world.rightPassword)
  BY <1>1, <1>3 DEF Ordered
<1>5. IndexOf(r) \in DOMAIN pipelines /\ pipelines[IndexOf(r)].cseq = r.cseq
  <2>1. PICK S : pipelines \in Seq(S)
    BY <1>4 DEF Pipelined
  <2>2. PICK p \in Pending : p.cseq = r.cseq
    BY <1>1, <1>3, <1>4, FirstAnswer
  <2> QED BY <2>1, <2>2, FoundPending
<1>6. PICK k : k = IndexOf(r) /\ k \in DOMAIN pipelines /\ pipelines[k].cseq = r.cseq
  BY <1>5
<1>7. PICK isSetup \in BOOLEAN :
         /\ isSetup = (pipelines[k].method = "SETUP")
         /\ \A p \in Pending : p.cseq = r.cseq => (p.method = "SETUP") = isSetup
  <2>1. pipelines[k] \in Pending
    BY <1>6 DEF Pending
  <2>2. \A p \in Pending : p.cseq = r.cseq => p.method = pipelines[k].method
    BY <1>4, <1>6, <2>1 DEF Pipelined
  <2> QED BY <2>2
<1>8. \/ isSetup /\ r.transport = NoTransport /\ outcome' = "threw" /\ pipelines' = pipelines
      \/ /\ ~(isSetup /\ r.transport = NoTransport)
         /\ pipelines' = RemoveAt(pipelines, k)
         /\ outcome' = IF isSetup THEN outcome ELSE "playing"
  BY <1>6, <1>7 DEF HandlePipelineResponse, IndexOf, Knows
<1>9. UNCHANGED <<auth, needAuth, transports, setupIter, toServer, granted, setups, announced, started, world, delivered>>
  BY DEF HandlePipelineResponse, CutMessage, serverVars
<1>10. /\ Batch' = Batch /\ Ready' = Ready /\ Protected' = Protected /\ Offer' = Offer /\ First' = First
       /\ AllGranted' = AllGranted /\ \A m : Chan(m)' = Chan(m) /\ Granted(m)' = Granted(m)
  BY <1>9 DEF Batch, Ready, Protected, Offer, First, AllGranted, Chan, Granted
<1>11. PICK n \in Nat :
          /\ DOMAIN Units = 1..(n + 1) /\ DOMAIN Units' = 1..n /\ Units[1] = r
          /\ \A i \in 1..n : i + 1 \in DOMAIN Units /\ Units'[i] = Units[i + 1]
          /\ \A i \in 1..n : Answer(Units'[i]) =>
                \E p \in Pending : p.cseq = Units'[i].cseq /\ p.cseq # r.cseq
          /\ \A i \in 1..n : Answer(Units'[i]) => \E p \in Pending : p.method = "SETUP" /\ p.cseq = r.cseq
  BY <1>1, <1>3, <1>4, FirstAnswer
<1>12. \A i \in DOMAIN toServer : toServer[i].type = "request" =>
          /\ toServer[i] \in Pending /\ toServer[i].cseq # r.cseq
          /\ \E p \in Pending : p.method = "SETUP" /\ p.cseq = r.cseq
  BY <1>1, <1>3, <1>4, FirstAnswer DEF Listed
<1>13. /\ \E S : pipelines' \in Seq(S)
       /\ Pending' \subseteq Pending /\ \A p \in Pending : p.cseq # r.cseq => p \in Pending'
  <2>1. PICK S : pipelines \in Seq(S)
    BY <1>4 DEF Pipelined
  <2>2. CASE pipelines' = pipelines
    BY <2>1, <2>2 DEF Pending
  <2>3. CASE pipelines' = RemoveAt(pipelines, k)
    BY <1>6, <2>1, <2>3, PendingLess
  <2> QED BY <1>8, <2>2, <2>3
<1>14. Requests'
  <2>1. \A q : Proper(q)' = Proper(q)
    BY <1>9, <1>10 DEF Proper, Asking, Marked
  <2> QED BY <1>1, <1>9, <2>1 DEF Requests
<1>15. Replies'
  <2>1. \A u : Told(u)' = Told(u)
    BY <1>9, <1>10 DEF Told, Answer, Marked
  <2> QED BY <1>1, <1>11, <2>1 DEF Replies
<1>16. Given'
  BY <1>1, <1>9 DEF Given
<1>17. Ordered'
  <2>1. Pipelined'
    BY <1>4, <1>13 DEF Pipelined
  <2>2. Listed'
    BY <1>9, <1>11, <1>12, <1>13 DEF Listed, Answer
  <2>3. Queued'
    <3>1. \A i \in DOMAIN Units' : i \in Nat /\
             (Units'[i].type = "response" => i + 1 \in DOMAIN Units /\ Units[i + 1] = Units'[i])
      BY <1>11
    <3>2. \A i \in DOMAIN toServer' : i \in Nat /\
             (toServer'[i].type = "request" => i + 0 \in DOMAIN toServer /\ toServer[i + 0] = toServer'[i])
      BY <1>1, <1>9, ServerSame
    <3> QED BY <1>4, <3>1, <3>2, QueueKept
  <2> QED BY <1>3, <1>4, <1>9, <1>10, <2>1, <2>2, <2>3 DEF Ordered
<1>18. outcome # "threw"
  BY DEF CutMessage, Open
<1>19. ASSUME NEW m \in 1..NMedia, ~Granted(m)
       PROVE  Waiting(m) \/ \E i \in DOMAIN Units : Refusal(Units[i])
  BY <1>1, <1>3, <1>18, <1>19 DEF Settled
<1>20. outcome' = "playing" => AllGranted
  <2> SUFFICES ASSUME outcome' = "playing", outcome # "playing", NEW m \in 1..NMedia, ~Granted(m) PROVE FALSE
    BY <1>1 DEF Fits, AllGranted
  <2>1. ~isSetup
    BY <1>8
  <2>2. ~Waiting(m)
    BY <1>7, <1>12, <2>1 DEF Waiting, Asking
  <2>3. ASSUME NEW i \in DOMAIN Units, Refusal(Units[i]) PROVE FALSE
    <3>1. CASE i = 1
      <4>1. \A p \in Pending : p.cseq = r.cseq => p.method = "SETUP"
        BY <1>2, <2>3, <3>1 DEF Refusal
      <4>2. pipelines[k] \in Pending
        BY <1>6 DEF Pending
      <4> QED BY <1>6, <1>7, <2>1, <4>1, <4>2
    <3>2. CASE i # 1
      <4>1. i - 1 \in 1..n /\ (i - 1) + 1 = i
        BY <1>11, <3>2
      <4>2. Answer(Units'[i - 1])
        BY <1>11, <2>3, <4>1 DEF Refusal, Answer
      <4> QED BY <1>7, <1>11, <2>1, <4>1, <4>2
    <3> QED BY <3>1, <3>2
  <2> QED BY <1>19, <2>2, <2>3
<1>21. Fits'
  BY <1>1, <1>9, <1>10, <1>20 DEF Fits
<1>22. Settled'
  <2> SUFFICES ASSUME outcome' # "threw", NEW m \in 1..NMedia, ~Granted(m)
               PROVE  Waiting(m)' \/ \E i \in DOMAIN Units' : Refusal(Units[i])'
    BY <1>10 DEF Settled
  <2>1. Waiting(m) => Waiting(m)'
    BY <1>9 DEF Waiting, Asking
  <2>2. ASSUME NEW i \in DOMAIN Units, Refusal(Units[i])
        PROVE  \E j \in DOMAIN Units' : Refusal(Units[j])'
    <3>1. i # 1
      <4> SUFFICES ASSUME i = 1 PROVE FALSE
        OBVIOUS
      <4>1. r.transport = NoTransport /\ \A p \in Pending : p.cseq = r.cseq => p.method = "SETUP"
        BY <1>2, <2>2 DEF Refusal
      <4>2. pipelines[k] \in Pending
        BY <1>6 DEF Pending
      <4> QED BY <1>6, <1>7, <1>8, <4>1, <4>2
    <3>2. i - 1 \in 1..n /\ (i - 1) + 1 = i
      BY <1>11, <3>1
    <3>3. Units'[i - 1] = Units[i]
      BY <1>11, <3>2
    <3>4. PICK u : u = Units[i]
      OBVIOUS
    <3>5. Refusal(u)'
      BY <1>13, <2>2, <3>4 DEF Refusal, Answer
    <3> QED BY <1>11, <3>2, <3>3, <3>4, <3>5
  <2> QED BY <1>19, <2>1, <2>2
<1> QED BY <1>14, <1>15, <1>16, <1>17, <1>21, <1>22 DEF PParts

-----------------------------------------------------------------------------
(* All of it.                                                              *)

\* Whatever the client is answered.
LEMMA MessageKeepsPParts ==
    ASSUME TInv, Clear, PParts, CutMessage
    PROVE  PParts'
<1>1. PICK r : r = Head(cache)
  OBVIOUS
<1>2. SInv /\ Ordered
  BY DEF TInv, PParts
<1>3. cache # <<>> /\ r.type = "response" /\ HandleResponse(r) /\ 1 \in DOMAIN Units /\ Units[1] = r
  BY <1>1, <1>2, MessageTaken
<1>4. CASE HandleUnAuth(r)
  BY <1>1, <1>4, ChallengeKeepsPParts
<1>5. CASE AuthFailed(r)
  <2>1. r.status = "Unauthorized"
    BY <1>5 DEF AuthFailed
  <2>2. ~Batch
    BY <1>1, <1>2, <1>3, <2>1, BatchTrusted
  <2> QED BY <1>1, <1>5, <2>2, LastKeepsPParts
<1>6. CASE SessionError(r)
  <2>1. Answer(r) /\ session # "" /\ r.session = ""
    BY <1>3, <1>6 DEF SessionError, Accepted, Answer
  <2>2. FALSE
    BY <1>2, <1>3, <2>1 DEF SInv, Answers
  <2> QED BY <2>2
<1>7. CASE HandlePipelineResponse(r)
  BY <1>1, <1>7, PipelinedKeepsPParts
<1>8. CASE HandleOptions(r)
  BY <1>1, <1>8, OptionsKeepsPParts
<1>9. CASE HandleOffer(r)
  BY <1>1, <1>9, BatchKeepsPParts, OfferKeepsPParts
<1>10. CASE HandleSetup(r)
  BY <1>1, <1>10, SetupKeepsPParts
<1>11. CASE SetupRefused(r) \/ HandleStart(r)
  <2>1. ~Batch
    BY <1>1, <1>2, <1>11, PlainAnswer DEF SetupRefused, HandleStart
  <2> QED BY <1>1, <1>11, <2>1, LastKeepsPParts
<1> QED BY <1>3, <1>4, <1>5, <1>6, <1>7, <1>8, <1>9, <1>10, <1>11 DEF HandleResponse

\* What was delivered stays delivered.
LEMMA DeliveredKept ==
    ASSUME \E S : delivered \in Seq(S), [Next]_vars
    PROVE  \E S : delivered' \in Seq(S)
<1>1. \/ delivered' = delivered
      \/ \E x : delivered' = Append(delivered, x)
  BY DEF Next, HandleRequest, HandleRtp, SendRtpRtcp, PushPacket, Input, CutPacket, CutMessage, EndOfChunk,
         Quiet, vars
<1>2. ASSUME NEW x, delivered' = Append(delivered, x) PROVE \E S : delivered' \in Seq(S)
  <2>1. PICK S : delivered \in Seq(S)
    OBVIOUS
  <2>2. delivered \in Seq(S \cup {x}) /\ x \in S \cup {x}
    BY <2>1, SeqMonotonic
  <2>3. delivered' \in Seq(S \cup {x})
    BY <1>2, <2>2, AppendProperties
  <2> QED BY <2>3
<1> QED BY <1>1, <1>2

\* The world stays what it is.
LEMMA StepKeepsPInv == PInv /\ [Next]_vars => PInv'
<1> SUFFICES ASSUME PInv, [Next]_vars PROVE PInv'
  OBVIOUS
<1>1. TInv /\ (\E S : delivered \in Seq(S)) /\ (Clear => PParts)
  BY DEF PInv
<1>2. TInv' /\ \E S : delivered' \in Seq(S)
  BY <1>1, StepKeepsTInv, DeliveredKept
<1>3. Clear' = Clear
  BY WorldKept DEF Clear, Assigned, Undescribed
<1>4. ASSUME Clear PROVE PParts'
  <2>1. PParts
    BY <1>1, <1>4
  <2>2. CASE HandleRequest
    BY <1>1, <1>4, <2>1, <2>2, RequestKeepsPParts
  <2>3. CASE CutMessage
    BY <1>1, <1>4, <2>1, <2>3, MessageKeepsPParts
  <2>4. CASE HandleRtp \/ SendRtpRtcp \/ PushPacket \/ Input \/ CutPacket \/ EndOfChunk \/ Quiet \/ UNCHANGED vars
    BY <1>1, <2>1, <2>4, PacketKeepsPParts
  <2> QED BY <2>2, <2>3, <2>4 DEF Next
<1> QED BY <1>2, <1>3, <1>4 DEF PInv

\* Nothing is agreed, asked for or sent at first.
LEMMA InitPInv == Init => PInv
<1> SUFFICES ASSUME Init PROVE PInv
  OBVIOUS
<1>1. PICK q : q = [type |-> "request", cseq |-> 0, method |-> First, uri |-> 0,
                    credentials |-> NoHeader, session |-> "", pipe |-> FALSE,
                    transport |-> NoTransport, body |-> First = "ANNOUNCE"]
  OBVIOUS
<1>2. q.type = "request" /\ q.method = First /\ (First = "ANNOUNCE" => q.body = TRUE)
  BY <1>1
<1>3. DOMAIN toServer = {1} /\ toServer[1] = q
  <2>1. toServer = <<q>>
    BY <1>1 DEF Init
  <2> QED BY <2>1
<1>4. DOMAIN Units = {}
  <2>1. <<>> \o <<>> = <<>>
    OBVIOUS
  <2>2. cache = <<>> /\ toClient = <<>>
    BY DEF Init
  <2> QED BY <2>1, <2>2 DEF Units
<1>5. First \in {"OPTIONS", Offer} /\ Offer \in {"ANNOUNCE", "DESCRIBE"} /\ (world.push => Offer = "ANNOUNCE")
  BY DEF First, Offer
<1>6. /\ setupIter = 1 /\ transports = <<>> /\ outcome = "" /\ started = FALSE /\ pipelines = <<>>
      /\ delivered = <<>> /\ auth.method = First /\ ~Batch
  BY DEF Init, EmptyAuth, Keys, Batch
<1>7. Fits
  <2>1. \A m \in 1..NMedia : granted[m] = TransportDefaults
    BY DEF Init
  <2>2. \A m \in 1..NMedia : ~(m < setupIter)
    <3>1. NMedia \in Nat /\ setupIter = 1
      BY <1>6, LinkAssumption
    <3>2. \A m \in 1..NMedia : ~(m < 1)
      BY <3>1
    <3> QED BY <3>1, <3>2
  <2> QED BY <1>5, <1>6, <2>1, <2>2 DEF Fits, Starts
<1>8. Requests
  BY <1>2, <1>3, <1>5 DEF Requests, Proper, Asking, Starts
<1>9. Replies /\ Ordered /\ Settled /\ Given
  <2>1. Replies
    BY <1>4 DEF Replies
  <2>2. Ordered /\ Settled
    BY <1>6 DEF Ordered, Settled
  <2>3. Given
    <3>1. PICK d \in Seq({}) : d = delivered
      <4>1. <<>> \in Seq({})
        OBVIOUS
      <4> QED BY <1>6, <4>1
    <3>2. \A i \in DOMAIN d : d[i] \in {}
      BY ElementOfSeq, LenProperties
    <3> QED BY <3>1, <3>2 DEF Given
  <2> QED BY <2>1, <2>2, <2>3
<1>10. \E S : delivered \in Seq(S)
  <2>1. <<>> \in Seq({})
    OBVIOUS
  <2> QED BY <1>6, <2>1
<1> QED BY <1>7, <1>8, <1>9, <1>10, InitTInv DEF PInv, PParts

\* However many media, whichever channels the application asks for and the server
\* grants, with and without pipelining, and however packets and messages share the
\* connection: a packet is given to the medium and the kind for which it was sent,
\* on both sides.
THEOREM PacketsAlwaysReachTheirMedium == Spec => []PacketsToTheirMedium
<1>1. PInv => PacketsToTheirMedium
  BY DEF PInv, Clear, PParts, Given, PacketsToTheirMedium
<1> QED BY <1>1, InitPInv, StepKeepsPInv, PTL DEF Spec
=============================================================================
