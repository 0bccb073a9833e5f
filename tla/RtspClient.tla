----------------------------- MODULE RtspClient -----------------------------
(***************************************************************************)
(* Client (Rtsp2Client.cpp, Rtsp2Client.h): the request calls of the API,  *)
(* the dispatch of responses, and the walks over the media that both share *)
(* through auth_.method, setupIter_ and mediaStep_.                        *)
(*                                                                         *)
(* A callback re-enters the API, so a response is handled in three parts:  *)
(* up to the callback (Receive...), the calls the callback makes (todo,    *)
(* one step each), and what the handler does after it (Return).  The       *)
(* application is the one of README.md and the example clients: it looks   *)
(* at the status of a SETUP and may go on after any other response.  The   *)
(* peer answers as ServerHandle does.  Media are 1..NMedia with distinct   *)
(* names and control URLs; URI 0 is the URL of the session.                *)
(***************************************************************************)
EXTENDS Integers, Sequences, SequencesExt

CONSTANTS
    NMedia,         \* media in the session description
    Aggregates,     \* may it have a session-level control URL?  subset of BOOLEAN
    Pipelining,     \* may the application pipeline SETUP and PLAY (README.md:303-314)?
                    \* subset of BOOLEAN
    Policies,       \* sets of methods for which the peer may demand credentials, with
                    \* and without pipelining
    DrawnIds,       \* what randomInt(65535) may return in startPipeline
    Reorder,        \* the peer may answer a later request first
    RefuseSetup,    \* the peer may refuse a SETUP: with, without pipelining, both, never
    UserCalls,      \* calls the user may make while the stream plays
    MaxUserCalls,   \* bound on their number
    Overlap,        \* ... also while a request is unanswered (a keep-alive timer)
    SecondWalk      \* ... also pause/teardown of a session without aggregate control

ASSUME ClientAssumption ==
    /\ NMedia \in Nat \ {0} /\ MaxUserCalls \in Nat
    /\ Aggregates \subseteq BOOLEAN /\ Pipelining \subseteq BOOLEAN /\ RefuseSetup \subseteq BOOLEAN
    /\ DOMAIN Policies = BOOLEAN /\ DrawnIds \subseteq Nat
    /\ {Reorder, Overlap, SecondWalk} \subseteq BOOLEAN
    /\ UserCalls \subseteq {"getParmeters", "setParmeters", "pause", "play", "teardown"}

VARIABLES
    needAuth,      \* needAuth_
    method,        \* auth_.method: of the request sent last
    uri,           \* auth_.uri: of the request sent last
    cseq,          \* cseq_
    hasSession,    \* sessionId_ is set
    medias,        \* size of sdp_.mediaDescriptions
    isAggregate,   \* isAggregate_
    mediaStep,     \* mediaStep_
    transports,    \* transports_: has the entry the transport the server chose?
    setupIter,     \* setupIter_, 1 is begin(), Len(transports) + 1 is end()
    pipeId,        \* pipelinedRequestId_, 0 is off
    pipelines,     \* pipelines_[pipeId]: pipelined requests not answered yet
    pc,            \* "idle", "app" in the application's code, "closed" after an
                   \* error of input(), "threw" after an exception out of it,
                   \* "undefined" after an access outside a container
    then,          \* what the handler does when the callback returns
    todo,          \* the calls the application's code still makes
    setups,        \* the application's count of successful SETUP callbacks
    userCalls,     \* calls made by the user so far
    open,          \* requests sent and not answered yet
    peerSession,   \* the peer has created a session
    pipelining,    \* the application pipelines SETUP and PLAY
    policy,        \* methods for which the peer demands credentials
    rightPassword, \* the credentials satisfy the peer
    aggregate,     \* the session has a session-level control URL
    pushing,       \* the client records instead of playing
    sent,          \* history: all requests sent
    callbacks      \* history: the callbacks, and the requests they were about

authVars == <<needAuth, method, uri, cseq>>
walkVars == <<medias, isAggregate, mediaStep, transports, setupIter>>
pipeVars == <<pipeId, pipelines>>
appVars  == <<pc, then, todo, setups, userCalls>>
worldVars == <<pipelining, policy, rightPassword, aggregate, pushing>>
peerVars == <<peerSession, worldVars>>
vars == <<authVars, hasSession, walkVars, pipeVars, appVars, open, peerVars, sent, callbacks>>

-----------------------------------------------------------------------------
(* Requests.                                                               *)

\* MakeV1RequstByName; only setup() adds a Transport header.  again is no
\* header: the method and URI a repeated request was meant to repeat.
MakeRequest(n, m, u) ==
    [cseq |-> n, method |-> m, uri |-> u, auth |-> needAuth, session |-> hasSession,
     pipe |-> pipeId, transport |-> m = "SETUP", again |-> <<>>]

\* Requests of one method for the URIs us, sent behind those in pending.
Issue(pending, m, us) ==
    LET reqs == [i \in DOMAIN us |-> MakeRequest(cseq + i - 1, m, us[i])]
    IN  /\ method' = m /\ uri' = Last(us) /\ cseq' = cseq + Len(us)
        /\ open' = pending \o reqs /\ sent' = sent \o reqs
        /\ pipelines' = IF pipeId > 0 THEN pipelines \o reqs ELSE pipelines
        /\ UNCHANGED <<needAuth, pipeId>>

Init ==
    /\ needAuth = FALSE /\ method = "OPTIONS" /\ uri = 0 /\ cseq = 0
    /\ hasSession = FALSE /\ medias = 0 /\ isAggregate = FALSE /\ mediaStep = 0
    /\ transports = <<>> /\ setupIter = 1 /\ pipeId = 0 /\ pipelines = <<>>
    /\ pc = "app" /\ then = "nothing" /\ todo = <<"options">>
    /\ setups = 0 /\ userCalls = 0 /\ open = <<>> /\ peerSession = FALSE
    /\ pipelining \in Pipelining /\ policy \in Policies[pipelining] /\ rightPassword \in BOOLEAN
    /\ aggregate \in Aggregates /\ pushing \in BOOLEAN
    /\ sent = <<>> /\ callbacks = <<>>

-----------------------------------------------------------------------------
(* The API.                                                                *)

Calls(api) ==
    /\ pc = "app" /\ todo # <<>> /\ Head(todo) = api
    /\ todo' = Tail(todo)
    /\ UNCHANGED <<then, setups, userCalls, hasSession, peerVars, callbacks>>

\* options, describe, getParmeters, setParmeters: to whatever URI was used last.
Plain(api, m) ==
    /\ Calls(api) /\ Issue(open, m, <<uri>>)
    /\ UNCHANGED <<pc, walkVars>>

PlainCall ==
    \/ Plain("options", "OPTIONS")
    \/ Plain("describe", "DESCRIBE")
    \/ Plain("getParmeters", "GET_PARAMETER")
    \/ Plain("setParmeters", "SET_PARAMETER")

\* announce: the description is the caller's, so it is processed at once.
Announce ==
    /\ Calls("announce") /\ Issue(open, "ANNOUNCE", <<uri>>)
    /\ medias' = NMedia /\ isAggregate' = (isAggregate \/ aggregate)
    /\ UNCHANGED <<pc, mediaStep, transports, setupIter>>

\* setup(transports) of no media returns before it does anything.
SetupNothing ==
    /\ Calls("setup") /\ medias = 0
    /\ UNCHANGED <<authVars, walkVars, pipeVars, pc, open, sent>>

\* setup(transports): the first medium, or all of them when pipelining.
Setup ==
    /\ Calls("setup") /\ medias > 0
    /\ transports' = [i \in 1..medias |-> FALSE]
    /\ IF pipeId > 0
          THEN Issue(open, "SETUP", [i \in 1..medias |-> i]) /\ setupIter' = medias + 1
          ELSE Issue(open, "SETUP", <<1>>) /\ setupIter' = 1
    /\ UNCHANGED <<pc, medias, isAggregate, mediaStep>>

\* The next media of a walk: one, or all that are left when pipelining.
NextMedia(m) ==
    IF pipeId > 0 /\ m # "TEARDOWN"
       THEN [i \in 1..(medias - mediaStep) |-> mediaStep + i]
       ELSE <<mediaStep + 1>>

\* mediaDescriptions[mediaStep_++], unchecked; mediaStep_ is never reset.
StepWalk(pending, m, us) ==
    IF mediaStep < medias
       THEN Issue(pending, m, us) /\ mediaStep' = mediaStep + Len(us) /\ UNCHANGED pc
       ELSE /\ pc' = "undefined" /\ open' = pending
            /\ UNCHANGED <<authVars, pipeVars, sent, mediaStep>>

\* play, record, pause, teardown: the session, or the media from mediaStep_ on.
Walk(api, m) ==
    /\ Calls(api)
    /\ IF isAggregate
          THEN Issue(open, m, <<0>>) /\ UNCHANGED <<pc, mediaStep>>
          ELSE StepWalk(open, m, NextMedia(m))
    /\ UNCHANGED <<medias, isAggregate, transports, setupIter>>

WalkCall ==
    \/ Walk("play", "PLAY")
    \/ Walk("record", "RECORD")
    \/ Walk("pause", "PAUSE")
    \/ Walk("teardown", "TEARDOWN")

StartPipeline ==
    /\ Calls("startPipeline")
    /\ pipeId' \in DrawnIds
    /\ UNCHANGED <<authVars, walkVars, pipelines, pc, open, sent>>

StopPipeline ==
    /\ Calls("stopPipeline")
    /\ pipeId' = 0
    /\ UNCHANGED <<authVars, walkVars, pipelines, pc, open, sent>>

ApiCall ==
    \/ PlainCall \/ Announce \/ SetupNothing \/ Setup \/ WalkCall
    \/ StartPipeline \/ StopPipeline

-----------------------------------------------------------------------------
(* The application: what its callback for a response to kind does.         *)

StreamCall == IF pushing THEN "record" ELSE "play"

\* OnOption, OnDescribe and OnAnnounce go on whatever the status; OnSetUp tests it.
Script(kind, ok) ==
    CASE kind = "OPTIONS" -> IF pushing THEN <<"announce">> ELSE <<"describe">>
      [] kind \in {"DESCRIBE", "ANNOUNCE"} ->
            IF pipelining THEN <<"startPipeline", "setup", StreamCall, "stopPipeline">>
                         ELSE <<"setup">>
      [] kind = "SETUP" /\ ok /\ ~pipelining /\ setups + 1 = NMedia -> <<StreamCall>>
      [] OTHER -> <<>>

\* An application that tests every status (README.md:70) stops after a failed response.
MayCall(kind, ok) == {Script(kind, ok)} \cup IF ok THEN {} ELSE {<<>>}

Callback(kind, q, res, after) ==
    /\ pc' = "app" /\ then' = after
    /\ todo' \in MayCall(kind, res.ok)
    /\ setups' = IF kind = "SETUP" /\ res.ok THEN setups + 1 ELSE setups
    /\ callbacks' = Append(callbacks, [kind |-> kind, of |-> q.method, ok |-> res.ok])
    /\ UNCHANGED userCalls

NoCallback == UNCHANGED <<then, todo, setups, userCalls, callbacks>>

Playing == \E i \in DOMAIN callbacks : callbacks[i].ok /\ callbacks[i].kind \in {"PLAY", "RECORD"}

\* The user, or a timer, makes a call outside any callback.
UserCall ==
    /\ pc = "idle" /\ Playing /\ userCalls < MaxUserCalls
    /\ Overlap \/ open = <<>>
    /\ \E api \in UserCalls :
          /\ api \in {"getParmeters", "setParmeters"} \/ aggregate \/ SecondWalk
          /\ todo' = <<api>>
    /\ pc' = "app" /\ then' = "nothing" /\ userCalls' = userCalls + 1
    /\ UNCHANGED <<authVars, hasSession, walkVars, pipeVars, setups, open, peerVars, sent, callbacks>>

-----------------------------------------------------------------------------
(* The peer: ServerHandle::handleRequest with handlers that may refuse.    *)

MayAnswer(q, status) ==
    LET challenged == q.method \in policy /\ ~(q.auth /\ rightPassword)
        foreign == peerSession /\ ~q.session /\ q.pipe = 0
    IN  CASE status = "Unauthorized" -> challenged
          [] status = "SessionNotFound" -> ~challenged /\ foreign
          [] status = "OK" -> ~challenged /\ ~foreign /\ (q.method = "SETUP" => q.transport)
          [] status = "Error" -> /\ ~challenged /\ ~foreign
                                 /\ (q.method = "SETUP" /\ q.transport) => pipelining \in RefuseSetup

\* Neither 401 nor 454 repeats the Session or Pipelined-Requests header.
Response(q, status) ==
    LET passed == status \in {"OK", "Error"}
        accepted == status = "OK" /\ q.method = "SETUP"
    IN  [unauthorized |-> status = "Unauthorized", ok |-> status = "OK",
         session |-> passed /\ (peerSession \/ accepted),
         pipe |-> IF passed THEN q.pipe ELSE 0, transport |-> accepted]

-----------------------------------------------------------------------------
(* handleResponse.  q is the request the response answers, rest the        *)
(* requests still open; the code sees only the response.                   *)

SessionMissing(res) == hasSession /\ ~res.session

\* The first 401: repeat the last request with credentials, and no headers of
\* its own.  CSeq is assigned as a char: -n stands for the character of code n.
HandleUnAuth(q, rest) ==
    LET retry == [MakeRequest(-cseq, method, uri) EXCEPT
                     !.auth = TRUE, !.session = FALSE, !.pipe = 0, !.transport = FALSE,
                     !.again = <<q.method, q.uri>>]
    IN  /\ ~needAuth /\ needAuth' = TRUE
        /\ cseq' = cseq + 1
        /\ open' = Append(rest, retry) /\ sent' = Append(sent, retry)
        /\ UNCHANGED <<method, uri, hasSession, walkVars, pipeVars, pc>>
        /\ NoCallback

\* Any later 401 is reported.
AuthFailed(q, res, rest) ==
    /\ needAuth
    /\ Callback("AUTH", q, res, "nothing")
    /\ open' = rest
    /\ UNCHANGED <<authVars, hasSession, walkVars, pipeVars, sent>>

SessionError(rest) ==
    /\ pc' = "closed"
    /\ open' = rest
    /\ UNCHANGED <<authVars, hasSession, walkVars, pipeVars, sent>>
    /\ NoCallback

\* handlePipelineResponse: the request is found by its CSeq and erased (after
\* its callback, which only appends).  DESCRIBE, which is not erased, and a
\* CSeq that is not found do not occur with this application and this peer.
PipelinedLast(q) == Len(pipelines)
PipelinedRequest(q) == SelectInSeq(pipelines, LAMBDA r : r.cseq = q.cseq)
ErasedNone(i) == pipelines
ErasedFirst(i) == Tail(pipelines)
Erased(i) == RemoveAt(pipelines, i)
HandlePipelineResponse(q, res, rest) ==
    LET i == PipelinedRequest(q)
        kind == pipelines[i].method
    IN  /\ IF kind = "SETUP" /\ ~res.transport
              THEN /\ pc' = "threw"
                   /\ UNCHANGED <<hasSession, pipelines>> /\ NoCallback
              ELSE /\ hasSession' = (hasSession \/ (kind = "SETUP" /\ res.session))
                   /\ pipelines' = Erased(i)
                   /\ Callback(kind, q, res, "nothing")
        /\ open' = rest
        /\ UNCHANGED <<authVars, walkVars, pipeId, sent>>

\* Dispatch by auth_.method: of the request sent last.
HandlePlain(q, res, rest) ==
    /\ method \in {"OPTIONS", "ANNOUNCE", "GET_PARAMETER", "SET_PARAMETER"}
    /\ Callback(method, q, res, "nothing")
    /\ open' = rest
    /\ UNCHANGED <<authVars, hasSession, walkVars, pipeVars, sent>>

\* handleDescribeResponse: whatever the status, the body is the description.
HandleDescribe(q, res, rest) ==
    /\ method = "DESCRIBE"
    /\ medias' = (IF res.ok /\ q.method = "DESCRIBE" THEN NMedia ELSE 0)
    /\ isAggregate' = (isAggregate \/ (aggregate /\ medias' > 0))
    /\ Callback("DESCRIBE", q, res, "nothing")
    /\ open' = rest
    /\ UNCHANGED <<authVars, hasSession, mediaStep, transports, setupIter, pipeVars, sent>>

\* handleSetupResponse up to its callback: *setupIter_ is read unchecked, and a
\* successful response needs a Transport header.
HandleSetup(q, res, rest) ==
    /\ method = "SETUP"
    /\ IF setupIter > Len(transports) \/ (res.ok /\ ~res.transport)
          THEN /\ pc' = (IF setupIter > Len(transports) THEN "undefined" ELSE "threw")
               /\ UNCHANGED <<hasSession, transports>> /\ NoCallback
          ELSE /\ hasSession' = (hasSession \/ (res.ok /\ res.session))
               /\ transports' = (IF res.ok THEN [transports EXCEPT ![setupIter] = TRUE] ELSE transports)
               /\ Callback("SETUP", q, res, IF res.ok THEN "nextSetup" ELSE "nothing")
    /\ open' = rest
    /\ UNCHANGED <<authVars, medias, isAggregate, mediaStep, setupIter, pipeVars, sent>>

\* handlePlay-, Record-, Pause- and TeardownResponse: report, or go on with the
\* next medium; a refused PAUSE or TEARDOWN does not stop the walk.
WalkEndsAtFirst(res) == TRUE
WalkEndsLate(res) ==
    \/ isAggregate
    \/ method \in {"PLAY", "RECORD"} /\ ~res.ok
    \/ mediaStep > medias
WalkEnds(res) ==
    \/ isAggregate
    \/ method \in {"PLAY", "RECORD"} /\ ~res.ok
    \/ mediaStep >= medias

ReportWalk(q, res, rest) ==
    /\ method \in {"PLAY", "RECORD", "PAUSE", "TEARDOWN"} /\ WalkEnds(res)
    /\ Callback(method, q, res, "nothing")
    /\ open' = rest
    /\ UNCHANGED <<authVars, hasSession, walkVars, pipeVars, sent>>

ContinueWalk(q, res, rest) ==
    /\ method \in {"PLAY", "RECORD", "PAUSE", "TEARDOWN"} /\ ~WalkEnds(res)
    /\ StepWalk(rest, method, <<mediaStep + 1>>)
    /\ UNCHANGED <<hasSession, medias, isAggregate, transports, setupIter>>
    /\ NoCallback

Receive(q, res, rest) ==
    IF res.unauthorized
       THEN HandleUnAuth(q, rest) \/ AuthFailed(q, res, rest)
    ELSE IF SessionMissing(res)
       THEN SessionError(rest)
    ELSE IF res.pipe > 0
       THEN HandlePipelineResponse(q, res, rest)
    ELSE \/ HandlePlain(q, res, rest) \/ HandleDescribe(q, res, rest)
         \/ HandleSetup(q, res, rest)
         \/ ReportWalk(q, res, rest) \/ ContinueWalk(q, res, rest)

HandleResponse ==
    /\ pc = "idle"
    /\ \E i \in DOMAIN open, status \in {"Unauthorized", "SessionNotFound", "OK", "Error"} :
          /\ Reorder \/ i = 1
          /\ MayAnswer(open[i], status)
          /\ Receive(open[i], Response(open[i], status), RemoveAt(open, i))
          /\ peerSession' = (peerSession \/ Response(open[i], status).transport)
    /\ UNCHANGED worldVars

\* The callback is over.  handleSetupResponse goes on with the next medium.
NextAfterSame(i) == i
NextAfterSkips(i) == i + 2
NextAfter(i) == i + 1
Return ==
    /\ pc = "app" /\ todo = <<>>
    /\ pc' = "idle" /\ then' = "nothing"
    /\ IF then = "nextSetup"
          THEN /\ setupIter' = NextAfter(setupIter)
               /\ IF setupIter' <= Len(transports)
                     THEN Issue(open, "SETUP", <<setupIter'>>)
                     ELSE UNCHANGED <<authVars, pipeVars, open, sent>>
          ELSE UNCHANGED <<setupIter, authVars, pipeVars, open, sent>>
    /\ UNCHANGED <<hasSession, medias, isAggregate, mediaStep, transports,
                   todo, setups, userCalls, peerVars, callbacks>>

\* Nothing is outstanding, or the connection is gone.
Quiet ==
    /\ pc \in {"closed", "threw", "undefined"} \/ (pc = "idle" /\ open = <<>>)
    /\ UNCHANGED vars

Next == ApiCall \/ UserCall \/ HandleResponse \/ Return \/ Quiet

Spec == Init /\ [][Next]_vars

\* Callbacks run to their end, and the peer answers what it is asked.
FairSpec == Spec /\ WF_vars(ApiCall \/ Return) /\ WF_vars(HandleResponse)
-----------------------------------------------------------------------------
Methods == {"OPTIONS", "DESCRIBE", "ANNOUNCE", "SETUP", "PLAY", "RECORD", "PAUSE", "TEARDOWN",
            "GET_PARAMETER", "SET_PARAMETER"}
Repeated == {<<>>} \cup (Methods \X (0..NMedia))
Requests ==
    [cseq : Int, method : Methods, uri : 0..NMedia, auth : BOOLEAN, session : BOOLEAN,
     pipe : Nat, transport : BOOLEAN, again : Repeated]

TypeOK ==
    /\ {needAuth, hasSession, isAggregate, peerSession} \subseteq BOOLEAN
    /\ method \in Methods /\ uri \in 0..NMedia /\ cseq \in Nat /\ pipeId \in Nat
    /\ medias \in {0, NMedia} /\ mediaStep \in 0..NMedia
    /\ transports \in Seq(BOOLEAN) /\ setupIter \in 1..(Len(transports) + 1)
    /\ setups \in 0..NMedia /\ userCalls \in 0..MaxUserCalls
    /\ pc \in {"idle", "app", "closed", "threw", "undefined"}
    /\ then \in {"nothing", "nextSetup"}
    /\ \A s \in {open, sent, pipelines} : s \in Seq(Requests)

\* Requests of these methods went out for every medium, each once and in order.
SentFor(ms) == {i \in DOMAIN sent : sent[i].method \in ms}
EachOnce(ms) ==
    /\ {sent[i].uri : i \in SentFor(ms)} = 1..NMedia
    /\ \A i, j \in SentFor(ms) : i < j => sent[i].uri < sent[j].uri

\* Responses are told apart by auth_.method or by CSeq, never by both.  Still,
\* every callback is the one for the request that was answered, and what is
\* repeated after a 401 is the request that was challenged.
AnswersMatched ==
    /\ \A i \in DOMAIN callbacks : callbacks[i].kind \in {callbacks[i].of, "AUTH"}
    /\ \A i \in DOMAIN sent :
          sent[i].again # <<>> => sent[i].again = <<sent[i].method, sent[i].uri>>

\* Without pipelining the library itself keeps to one open request, whoever
\* sends the next one: the callback, the handler after it, or a repetition.
OneAtATime == ~pipelining => Len(open) <= 1

\* Without pipelining, PLAY or RECORD goes out only when every medium was asked for once, in order,
\* and setupIter_ was left at the transport the server chose for it each time.
StreamAfterSetup ==
    ~pipelining /\ SentFor({"PLAY", "RECORD"}) # {} =>
        EachOnce({"SETUP"}) /\ \A i \in DOMAIN transports : transports[i]

\* Without aggregate control, PLAY or RECORD is not reported as successful before every medium
\* was started, each once: in the one callback of a walk, or in any of those of a pipelined one,
\* where each answer has its own.
WalkVisitsEach ==
    Playing /\ ~aggregate => EachOnce({"PLAY", "RECORD"})

\* The application goes on after a description that was refused.
DescriptionRefused == \E i \in DOMAIN callbacks : callbacks[i].kind = "DESCRIBE" /\ ~callbacks[i].ok

\* No exception leaves input(), and no access falls outside mediaDescriptions or transports_: the
\* indices and iterators outlive the calls that set them.  The one exception is the pipelining
\* application that takes no notice of a refused DESCRIBE: its play() reads the first of no media
\* (rtsp_v1_client_pipiline_asio.cpp:111-138, Rtsp2Client.cpp:247).
StaysDefined ==
    /\ pc # "threw"
    /\ pc = "undefined" => pipelining /\ DescriptionRefused /\ medias = 0

\* pipelines_ holds exactly the pipelined requests still unanswered, in
\* whatever order the answers come and whatever they say.
PipelineMatches ==
    LET numbers(s) == {s[i].cseq : i \in {j \in DOMAIN s : s[j].pipe > 0}}
    IN  /\ numbers(pipelines) = numbers(open)
        /\ \A i, j \in DOMAIN pipelines : i # j => pipelines[i].cseq # pipelines[j].cseq

\* The flow of README.md without pipelining ends: the stream plays, or the application has been
\* told (a failed response, the password, an error of input()).
Told == pc = "closed" \/ \E i \in DOMAIN callbacks : ~callbacks[i].ok
FlowCompletes == ~pipelining => <>(Playing \/ Told)

\* Pipelined requests do not stay in pipelines_ for ever.
PipelineDrains == (pipelines # <<>>) ~> (pipelines = <<>>)

\* TEARDOWN can end either flow: README.md:52-60 and 108-112 have a pull and a
\* push client set a callback for its response.
WalkInBounds == pc # "undefined"

\* rtsp_v1_client_pipiline_asio.cpp:147-152: the SETUP callback is told of a
\* refused transport.
RefusalReported == pc # "threw"
=============================================================================
