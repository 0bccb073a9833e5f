-------------------------- MODULE RtspClientProofs --------------------------
(***************************************************************************)
(* For every number of media, with and without aggregate control, every     *)
(* peer and every call of the user while nothing is outstanding: a client   *)
(* that does not pipeline has one open request, gives each response to the  *)
(* callback of the request it answers, stays inside its containers, and     *)
(* sets up every medium before it starts one; a client that pipelines tells *)
(* the responses apart, whatever their order.                               *)
(***************************************************************************)
EXTENDS RtspClient, FiniteSetTheorems, SequenceTheorems, TLAPS

Early     == {"OPTIONS", "DESCRIBE", "ANNOUNCE"}
FirstApis == {"options", "describe", "announce", "setup"}
WalkApis  == {"play", "record", "pause", "teardown"}
Apis      == FirstApis \cup WalkApis \cup {"getParmeters", "setParmeters"}

\* auth_ describes the open request, so responses can be told apart by it.
LastIsOpen ==
    /\ pipeId = 0 /\ pipelines = <<>>
    /\ open # <<>> => Len(open) = 1 /\ open[1].method = method /\ open[1].uri = uri /\ open[1].pipe = 0

\* Whose turn it is to send the next request: the call that a callback makes,
\* the handler after it, or the user; never two of them.
Turn ==
    /\ pc = "idle" => todo = <<>> /\ then = "nothing"
    /\ todo # <<>> => open = <<>> /\ pc = "app" /\ \E api \in Apis : todo = <<api>>
    /\ then = "nextSetup" =>
          /\ setupIter \in 1..NMedia
          /\ setupIter < NMedia => method = "SETUP" /\ todo = <<>> /\ open = <<>>

\* Where in the flow the client is: setupIter_ counts with the application's
\* callbacks, and mediaStep_ is at the first medium when the walk begins.
Phase ==
    /\ method \in Early => setups = 0 /\ mediaStep = 0 /\ then = "nothing"
    /\ method \notin Early => medias = NMedia /\ Len(transports) = NMedia
    /\ method = "ANNOUNCE" => medias = NMedia
    /\ \A api \in Apis : todo = <<api>> =>
          /\ api \in FirstApis \ {"setup"} => method = "OPTIONS"
          /\ api = "setup" => method \in {"DESCRIBE", "ANNOUNCE"}
          /\ api \notin FirstApis => method \notin Early
          /\ api \in WalkApis /\ ~aggregate => mediaStep = 0
    /\ method = "SETUP" => mediaStep = 0
    /\ method = "SETUP" /\ open # <<>> => setupIter \in 1..NMedia /\ setups = setupIter - 1
    /\ then = "nextSetup" => setups = setupIter
    /\ Playing => method \notin Early
    /\ isAggregate => aggregate
    /\ medias = NMedia => isAggregate = aggregate
    /\ method = "OPTIONS" \/ (method = "DESCRIBE" /\ open # <<>>) => ~isAggregate

CallbackRecords == [kind : Methods \cup {"AUTH"}, of : Methods, ok : BOOLEAN]

\* TypeOK, as the facts that the proofs use.
Types ==
    /\ needAuth \in BOOLEAN /\ hasSession \in BOOLEAN /\ isAggregate \in BOOLEAN
    /\ peerSession \in BOOLEAN
    /\ method \in Methods /\ uri \in 0..NMedia /\ cseq \in Nat
    /\ medias \in {0, NMedia} /\ mediaStep \in 0..NMedia
    /\ transports \in Seq(BOOLEAN) /\ setupIter \in 1..(Len(transports) + 1)
    /\ setups \in 0..NMedia /\ userCalls \in 0..MaxUserCalls
    /\ pc \in {"idle", "app", "closed", "threw", "undefined"}
    /\ then \in {"nothing", "nextSetup"}
    /\ open \in Seq(Requests) /\ sent \in Seq(Requests)
    /\ callbacks \in Seq(CallbackRecords)

\* StaysDefined without its exception, a pipelined description that was refused.
Defined == pc \notin {"undefined", "threw"}

Lockstep == Types /\ LastIsOpen /\ Turn /\ Phase /\ Defined /\ AnswersMatched

\* The session's control URL and the media are the world's, not the client's.
World == aggregate \in BOOLEAN /\ pipelining \in BOOLEAN

IInv == World /\ (~pipelining => Lockstep)

-----------------------------------------------------------------------------
(* Sequences of one element.                                               *)

\* Taking the only request away leaves none.
LEMMA RemoveOnly ==
    ASSUME NEW S, NEW s \in Seq(S), Len(s) = 1
    PROVE  RemoveAt(s, 1) = <<>>
  BY DEF RemoveAt

\* What is sent behind nothing is what is open.
LEMMA SendOne ==
    ASSUME NEW r
    PROVE  /\ [i \in DOMAIN <<0>> |-> r] = <<r>>
           /\ <<>> \o <<r>> = <<r>> /\ Len(<<r>>) = 1 /\ <<r>>[1] = r /\ <<r>> # <<>>
  OBVIOUS

\* Fields of requests are of their types.
LEMMA RequestFacts ==
    ASSUME NEW q \in Requests
    PROVE  q.method \in Methods /\ q.uri \in 0..NMedia /\ q.pipe \in Nat
  BY DEF Requests

-----------------------------------------------------------------------------
(* Sending.                                                                *)

\* One request goes out for method m and URI u; r.again is empty or repeats them.
Sends(m, u) ==
    /\ \E r \in Requests :
          /\ open' = <<r>> /\ sent' = Append(sent, r)
          /\ r.method = m /\ r.uri = u /\ r.pipe = 0 /\ r.again \in {<<>>, <<m, u>>}
    /\ method' = m /\ uri' = u /\ cseq' \in Nat
    /\ needAuth' \in BOOLEAN /\ pipeId' = 0 /\ pipelines' = <<>>

\* What is open is no repetition.
Original == open # <<>> /\ open[1].again = <<>>

\* An API call for one URI sends one request.
LEMMA IssueOne ==
    ASSUME Types, LastIsOpen, NEW m \in Methods, NEW u \in 0..NMedia, Issue(<<>>, m, <<u>>)
    PROVE  Sends(m, u) /\ Original' /\ open'[1].auth = needAuth /\ needAuth' = needAuth
<1>1. PICK r : r = MakeRequest(cseq, m, u)
  OBVIOUS
<1>2. /\ r.method = m /\ r.uri = u /\ r.pipe = 0 /\ r.again = <<>>
      /\ r.cseq = cseq /\ r.auth = needAuth /\ r.session = hasSession /\ r.transport = (m = "SETUP")
  BY <1>1 DEF MakeRequest, LastIsOpen
<1>3. r \in Requests
  <2>1. <<>> \in Repeated
    BY Zenon DEF Repeated
  <2> QED BY <1>1, <2>1 DEF MakeRequest, Requests, Types, LastIsOpen
<1>4. [i \in DOMAIN <<u>> |-> MakeRequest(cseq + i - 1, m, <<u>>[i])] = <<r>>
  <2>1. \A i \in 1..1 : cseq + i - 1 = cseq /\ <<u>>[i] = u
    BY DEF Types
  <2>2. \A i \in 1..1 : MakeRequest(cseq + i - 1, m, <<u>>[i]) = r
    BY <1>1, <2>1, Zenon
  <2>3. DOMAIN <<u>> = 1..1
    OBVIOUS
  <2>4. [i \in DOMAIN <<u>> |-> MakeRequest(cseq + i - 1, m, <<u>>[i])] = [i \in 1..1 |-> r]
    BY <2>2, <2>3, Zenon
  <2>5. [i \in 1..1 |-> r] = <<r>>
    OBVIOUS
  <2> QED BY <2>4, <2>5, Zenon
<1>5. Last(<<u>>) = u /\ Len(<<u>>) = 1
  BY DEF Last
<1>6. open' = <<r>> /\ sent' = Append(sent, r)
  <2>1. open' = <<>> \o <<r>> /\ sent' = sent \o <<r>>
    BY <1>4 DEF Issue
  <2> QED BY <1>3, <2>1, SendOne, AppendIsConcat DEF Types
<1>7. method' = m /\ uri' = u /\ cseq' = cseq + 1 /\ pipelines' = <<>> /\ UNCHANGED <<needAuth, pipeId>>
  BY <1>5 DEF Issue, LastIsOpen
<1> QED BY <1>2, <1>3, <1>6, <1>7 DEF Sends, Original, Types, LastIsOpen

\* The two halves of AnswersMatched.
CallbacksMatched == \A i \in DOMAIN callbacks : callbacks[i].kind \in {callbacks[i].of, "AUTH"}
RepeatsMatched ==
    \A i \in DOMAIN sent :
       sent[i].again # <<>> => sent[i].again = <<sent[i].method, sent[i].uri>>

\* Matching speaks of callbacks and of repetitions.
LEMMA Halves == AnswersMatched <=> CallbacksMatched /\ RepeatsMatched
  BY Zenon DEF AnswersMatched, CallbacksMatched, RepeatsMatched

\* A request that was sent is the open one, and repeats what auth_ says.
LEMMA SendKeeps ==
    ASSUME Types, RepeatsMatched, NEW m, NEW u, Sends(m, u)
    PROVE  /\ open' \in Seq(Requests) /\ sent' \in Seq(Requests) /\ open' # <<>>
           /\ LastIsOpen' /\ RepeatsMatched'
<1>1. PICK r \in Requests :
          /\ open' = <<r>> /\ sent' = Append(sent, r)
          /\ r.method = m /\ r.uri = u /\ r.pipe = 0 /\ r.again \in {<<>>, <<m, u>>}
  BY DEF Sends
<1>2. open' \in Seq(Requests) /\ open' # <<>> /\ Len(open') = 1 /\ open'[1] = r
  BY <1>1
<1>3. LastIsOpen'
  BY <1>1, <1>2 DEF LastIsOpen, Sends
<1>4. /\ sent' \in Seq(Requests) /\ DOMAIN sent' = 1..(Len(sent) + 1) /\ DOMAIN sent = 1..Len(sent)
      /\ Len(sent) \in Nat
      /\ sent'[Len(sent) + 1] = r /\ \A i \in 1..Len(sent) : sent'[i] = sent[i]
  BY <1>1, AppendProperties, LenProperties DEF Types
<1>5. RepeatsMatched'
  <2> SUFFICES ASSUME NEW i \in 1..(Len(sent) + 1), sent'[i].again # <<>>
               PROVE  sent'[i].again = <<sent'[i].method, sent'[i].uri>>
    BY <1>4 DEF RepeatsMatched
  <2>1. CASE i = Len(sent) + 1
    BY <1>1, <1>4, <2>1
  <2>2. CASE i # Len(sent) + 1
    <3>1. i \in DOMAIN sent /\ sent'[i] = sent[i]
      BY <1>4, <2>2
    <3> QED BY <3>1 DEF RepeatsMatched
  <2> QED BY <2>1, <2>2
<1> QED BY <1>2, <1>3, <1>4, <1>5

-----------------------------------------------------------------------------
(* The API.                                                                *)

\* Only one call is to be made, and nothing is outstanding.
LEMMA CallFacts ==
    ASSUME Lockstep, NEW api, Calls(api)
    PROVE  /\ todo = <<api>> /\ api \in Apis /\ todo' = <<>> /\ open = <<>> /\ pc = "app"
           /\ UNCHANGED <<then, setups, userCalls, hasSession, peerSession, aggregate, pipelining, callbacks>>
<1>1. todo # <<>> /\ Head(todo) = api /\ todo' = Tail(todo) /\ pc = "app"
  BY DEF Calls
<1>2. PICK a \in Apis : todo = <<a>>
  BY <1>1 DEF Lockstep, Turn
<1>3. a = api /\ todo' = <<>>
  BY <1>1, <1>2
<1>4. open = <<>>
  BY <1>1 DEF Lockstep, Turn
<1> QED BY <1>1, <1>2, <1>3, <1>4 DEF Calls, peerVars, worldVars

\* What no call changes in Playing.
LEMMA PlayingSame == ASSUME callbacks' = callbacks PROVE Playing' <=> Playing
  BY DEF Playing

\* A call that sends one request and leaves the walk over the media alone, or
\* takes its first step.
LEMMA CallSends ==
    ASSUME Lockstep, NEW api, Calls(api), NEW m \in Methods, NEW u \in 0..NMedia, Sends(m, u),
           UNCHANGED <<pc, medias, isAggregate, transports, setupIter>>,
           mediaStep' \in 0..NMedia, mediaStep' = mediaStep \/ m \notin Early \cup {"SETUP"},
           api # "setup", m # "ANNOUNCE",
           api \in FirstApis => m \in Early,
           api \notin FirstApis => m \notin Early \cup {"SETUP"}
    PROVE  Lockstep'
<1>1. /\ todo = <<api>> /\ api \in Apis /\ todo' = <<>> /\ open = <<>> /\ pc = "app"
      /\ UNCHANGED <<then, setups, userCalls, hasSession, peerSession, aggregate, pipelining, callbacks>>
  BY CallFacts
<1>2. /\ open' \in Seq(Requests) /\ sent' \in Seq(Requests) /\ open' # <<>>
      /\ LastIsOpen' /\ RepeatsMatched'
  BY SendKeeps, Halves DEF Lockstep
<1>3. method' = m /\ uri' = u /\ cseq' \in Nat /\ needAuth' \in BOOLEAN
  BY DEF Sends
<1>4. Types'
  BY <1>1, <1>2, <1>3 DEF Lockstep, Types
<1>5. AnswersMatched'
  <2>1. CallbacksMatched'
    BY <1>1, Halves DEF Lockstep, CallbacksMatched
  <2> QED BY <1>2, <2>1, Halves, PTL
<1>6. Turn'
  BY <1>1 DEF Lockstep, Turn, Types
<1>7. Playing' <=> Playing
  BY <1>1, PlayingSame
<1>8. /\ api \in FirstApis \ {"setup"} => method = "OPTIONS"
      /\ api \notin FirstApis => method \notin Early
  BY <1>1 DEF Lockstep, Phase
<1>9. Phase'
  BY <1>1, <1>3, <1>7, <1>8 DEF Lockstep, Phase, Turn, Types, Early
<1> QED BY <1>1, <1>2, <1>4, <1>5, <1>6, <1>9 DEF Lockstep, Defined

\* The calls to the URI used last.
LEMMA PlainKeeps ==
    ASSUME Lockstep, NEW api, NEW m \in Methods, Plain(api, m),
           m # "ANNOUNCE",
           \/ api \in {"options", "describe"} /\ m \in Early
           \/ api \in {"getParmeters", "setParmeters"} /\ m \notin Early \cup {"SETUP"}
    PROVE  Lockstep'
<1>1. Calls(api) /\ Issue(open, m, <<uri>>) /\ UNCHANGED <<pc, walkVars>>
  BY DEF Plain
<1>2. open = <<>>
  BY <1>1, CallFacts
<1>3. uri \in 0..NMedia
  BY DEF Lockstep, Types
<1>4. Sends(m, uri)
  BY <1>1, <1>2, <1>3, IssueOne DEF Lockstep
<1>5. UNCHANGED <<pc, medias, isAggregate, transports, setupIter, mediaStep>>
  BY <1>1 DEF walkVars
<1>6. mediaStep' \in 0..NMedia
  BY <1>5 DEF Lockstep, Types
<1>7. /\ api # "setup" /\ (api \in FirstApis => m \in Early)
      /\ (api \notin FirstApis => m \notin Early \cup {"SETUP"})
  BY DEF FirstApis
<1> QED BY <1>1, <1>3, <1>4, <1>5, <1>6, <1>7, CallSends

\* options, describe, getParmeters, setParmeters.
LEMMA PlainCallKeeps == ASSUME Lockstep, PlainCall PROVE Lockstep'
<1>1. CASE Plain("options", "OPTIONS")
  BY <1>1, PlainKeeps DEF Early, Methods
<1>2. CASE Plain("describe", "DESCRIBE")
  BY <1>2, PlainKeeps DEF Early, Methods
<1>3. CASE Plain("getParmeters", "GET_PARAMETER")
  BY <1>3, PlainKeeps DEF Early, Methods
<1>4. CASE Plain("setParmeters", "SET_PARAMETER")
  BY <1>4, PlainKeeps DEF Early, Methods
<1> QED BY <1>1, <1>2, <1>3, <1>4 DEF PlainCall

\* The parts of Lockstep that a call with one request establishes wherever
\* setupIter_ and the description are changed too.
LEMMA CallSendsFirst ==
    ASSUME Lockstep, NEW api, Calls(api), NEW m, NEW u, Sends(m, u), UNCHANGED pc
    PROVE  /\ open' \in Seq(Requests) /\ sent' \in Seq(Requests) /\ LastIsOpen' /\ Defined'
           /\ AnswersMatched' /\ (Playing' <=> Playing)
<1>1. /\ open' \in Seq(Requests) /\ sent' \in Seq(Requests) /\ LastIsOpen' /\ RepeatsMatched'
  BY SendKeeps, Halves DEF Lockstep
<1>2. callbacks' = callbacks /\ pc = "app"
  BY CallFacts
<1>3. CallbacksMatched'
  BY <1>2, Halves DEF Lockstep, CallbacksMatched
<1>4. AnswersMatched'
  BY <1>1, <1>3, Halves, PTL
<1> QED BY <1>1, <1>2, <1>4, PlayingSame DEF Defined

\* announce knows the media at once.
LEMMA AnnounceKeeps == ASSUME World, Lockstep, Announce PROVE Lockstep'
<1>1. /\ Calls("announce") /\ Issue(open, "ANNOUNCE", <<uri>>)
      /\ medias' = NMedia /\ isAggregate' = (isAggregate \/ aggregate)
      /\ UNCHANGED <<pc, mediaStep, transports, setupIter>>
  BY DEF Announce
<1>2. /\ todo = <<"announce">> /\ todo' = <<>> /\ open = <<>> /\ pc = "app"
      /\ UNCHANGED <<then, setups, userCalls, hasSession, peerSession, aggregate, callbacks>>
  BY <1>1, CallFacts
<1>3. uri \in 0..NMedia
  BY DEF Lockstep, Types
<1>4. Sends("ANNOUNCE", uri)
  BY <1>1, <1>2, <1>3, IssueOne DEF Lockstep, Methods
<1>5. /\ open' \in Seq(Requests) /\ sent' \in Seq(Requests) /\ LastIsOpen' /\ Defined'
      /\ AnswersMatched' /\ (Playing' <=> Playing)
  BY <1>1, <1>4, CallSendsFirst
<1>6. method' = "ANNOUNCE" /\ uri' = uri /\ cseq' \in Nat /\ needAuth' \in BOOLEAN
  BY <1>4 DEF Sends
<1>7. aggregate \in BOOLEAN /\ aggregate' = aggregate /\ isAggregate' = aggregate
  BY <1>1, <1>2 DEF World, Lockstep, Phase, Types
<1>8. Types'
  BY <1>1, <1>2, <1>5, <1>6, <1>7 DEF Lockstep, Types, Methods
<1>9. method = "OPTIONS"
  BY <1>2 DEF Lockstep, Phase, Apis, FirstApis
<1>10. Turn' /\ Phase'
  <2>1. then = "nothing" /\ setups = 0 /\ mediaStep = 0 /\ ~Playing
    BY <1>9 DEF Lockstep, Phase, Early
  <2>2. Turn'
    BY <1>1, <1>2, <2>1 DEF Turn
  <2>3. Phase'
    BY <1>1, <1>2, <1>5, <1>6, <1>7, <2>1 DEF Phase, Early
  <2> QED BY <2>2, <2>3
<1> QED BY <1>5, <1>8, <1>10 DEF Lockstep

\* setup of no media, after a refused description, sends nothing.
LEMMA SetupNothingKeeps == ASSUME Lockstep, SetupNothing PROVE Lockstep'
<1>1. /\ Calls("setup")
      /\ UNCHANGED <<needAuth, method, uri, cseq, medias, isAggregate, mediaStep, transports, setupIter,
                     pipeId, pipelines, pc, open, sent>>
  BY DEF SetupNothing, authVars, walkVars, pipeVars
<1>2. /\ todo = <<"setup">> /\ todo' = <<>>
      /\ UNCHANGED <<then, setups, userCalls, hasSession, peerSession, aggregate, callbacks>>
  BY <1>1, CallFacts
<1>3. Types' /\ LastIsOpen' /\ Defined' /\ AnswersMatched'
  BY <1>1, <1>2 DEF Lockstep, Types, LastIsOpen, Defined, AnswersMatched
<1>4. method \in {"DESCRIBE", "ANNOUNCE"}
  BY <1>2 DEF Lockstep, Phase, Apis, FirstApis
<1>5. then = "nothing" /\ (Playing' <=> Playing)
  BY <1>2, <1>4, PlayingSame DEF Lockstep, Phase, Early
<1>6. Turn' /\ Phase'
  BY <1>1, <1>2, <1>5 DEF Lockstep, Turn, Phase
<1> QED BY <1>3, <1>6 DEF Lockstep

\* setup asks for the first medium and points setupIter_ at its transport.
LEMMA SetupKeeps == ASSUME Lockstep, Setup PROVE Lockstep'
<1>1. /\ Calls("setup") /\ transports' = [i \in 1..medias |-> FALSE]
      /\ Issue(open, "SETUP", <<1>>) /\ setupIter' = 1
      /\ UNCHANGED <<pc, medias, isAggregate, mediaStep>>
  BY DEF Setup, Lockstep, LastIsOpen
<1>2. /\ todo = <<"setup">> /\ todo' = <<>> /\ open = <<>> /\ pc = "app"
      /\ UNCHANGED <<then, setups, userCalls, hasSession, peerSession, aggregate, callbacks>>
  BY <1>1, CallFacts
<1>3. NMedia \in Nat \ {0} /\ 1 \in 0..NMedia
  BY ClientAssumption
<1>4. Sends("SETUP", 1)
  BY <1>1, <1>2, <1>3, IssueOne DEF Lockstep, Methods
<1>5. /\ open' \in Seq(Requests) /\ sent' \in Seq(Requests) /\ LastIsOpen' /\ Defined'
      /\ AnswersMatched' /\ (Playing' <=> Playing)
  BY <1>1, <1>4, CallSendsFirst
<1>6. method' = "SETUP" /\ uri' = 1 /\ cseq' \in Nat /\ needAuth' \in BOOLEAN
  BY <1>4 DEF Sends
<1>7. method \in {"DESCRIBE", "ANNOUNCE"} /\ medias = NMedia
  <2>1. medias > 0 /\ medias \in {0, NMedia}
    BY DEF Setup, Lockstep, Types
  <2> QED BY <1>2, <2>1 DEF Lockstep, Phase, Apis, FirstApis
<1>8. transports' \in Seq(BOOLEAN) /\ Len(transports') = NMedia
  BY <1>1, <1>3, <1>7
<1>9. Types'
  BY <1>1, <1>2, <1>3, <1>5, <1>6, <1>8 DEF Lockstep, Types, Methods
<1>10. Turn' /\ Phase'
  <2>1. then = "nothing" /\ setups = 0 /\ mediaStep = 0 /\ ~Playing
    BY <1>7 DEF Lockstep, Phase, Early
  <2>2. Turn'
    BY <1>1, <1>2, <2>1 DEF Turn
  <2>3. (isAggregate => aggregate) /\ isAggregate = aggregate
    BY <1>7 DEF Lockstep, Phase
  <2>4. Phase'
    BY <1>1, <1>2, <1>3, <1>5, <1>6, <1>7, <1>8, <2>1, <2>3 DEF Phase, Early
  <2> QED BY <2>2, <2>4
<1> QED BY <1>5, <1>9, <1>10 DEF Lockstep

\* A walk begins at the first medium, or addresses the session.
LEMMA WalkSends ==
    ASSUME Lockstep, NEW api \in WalkApis, NEW m \in {"PLAY", "RECORD", "PAUSE", "TEARDOWN"},
           Walk(api, m)
    PROVE  /\ Calls(api) /\ UNCHANGED <<pc, medias, isAggregate, transports, setupIter>>
           /\ m \in Methods /\ m \notin Early \cup {"SETUP"} /\ api # "setup" /\ api \notin FirstApis
           /\ \E u \in 0..NMedia : Sends(m, u) /\ (~aggregate => u = 1)
           /\ Original' /\ (aggregate => mediaStep' = mediaStep) /\ (~aggregate => mediaStep' = 1)
           /\ mediaStep' \in 0..NMedia
<1>1. /\ Calls(api) /\ UNCHANGED <<medias, isAggregate, transports, setupIter>>
      /\ IF isAggregate
            THEN Issue(open, m, <<0>>) /\ UNCHANGED <<pc, mediaStep>>
            ELSE StepWalk(open, m, NextMedia(m))
  BY DEF Walk
<1>2. open = <<>> /\ todo = <<api>> /\ api \in Apis
  BY <1>1, CallFacts
<1>3. NMedia \in Nat \ {0} /\ mediaStep \in 0..NMedia
  BY ClientAssumption DEF Lockstep, Types
<1>4. m \in Methods /\ m \notin Early \cup {"SETUP"} /\ api # "setup" /\ api \notin FirstApis
  BY DEF Early, WalkApis, FirstApis, Methods
<1>5. CASE isAggregate
  <2>1. 0 \in 0..NMedia
    BY <1>3
  <2>2. Sends(m, 0) /\ Original' /\ UNCHANGED <<pc, mediaStep>>
    BY <1>1, <1>2, <1>4, <1>5, <2>1, IssueOne DEF Lockstep
  <2>3. aggregate
    BY <1>5 DEF Lockstep, Phase
  <2> QED BY <1>1, <1>3, <1>4, <2>1, <2>2, <2>3
<1>6. CASE ~isAggregate
  <2>1. method \notin Early /\ medias = NMedia /\ isAggregate = aggregate
    BY <1>2, <1>4 DEF Lockstep, Phase
  <2>2. mediaStep = 0
    BY <1>2, <1>6, <2>1 DEF Lockstep, Phase
  <2>3. NextMedia(m) = <<mediaStep + 1>>
    BY DEF NextMedia, Lockstep, LastIsOpen
  <2>4. Issue(open, m, <<mediaStep + 1>>) /\ mediaStep' = mediaStep + 1 /\ UNCHANGED pc
    BY <1>1, <1>3, <1>6, <2>1, <2>2, <2>3 DEF StepWalk
  <2>5. mediaStep + 1 \in 0..NMedia /\ mediaStep' \in 0..NMedia
    BY <1>3, <2>2, <2>4
  <2>6. Sends(m, mediaStep + 1) /\ Original'
    BY <1>2, <1>4, <2>4, <2>5, IssueOne DEF Lockstep
  <2>7. mediaStep + 1 = 1 /\ ~aggregate
    BY <1>6, <2>1, <2>2
  <2> QED BY <1>1, <1>4, <2>4, <2>5, <2>6, <2>7
<1> QED BY <1>5, <1>6

\* A request on every medium, or the one of the session, keeps the client in lockstep.
LEMMA WalkKeeps ==
    ASSUME Lockstep, NEW api \in WalkApis, NEW m \in {"PLAY", "RECORD", "PAUSE", "TEARDOWN"},
           Walk(api, m)
    PROVE  Lockstep'
<1>1. /\ Calls(api) /\ UNCHANGED <<pc, medias, isAggregate, transports, setupIter>>
      /\ m \in Methods /\ m \notin Early \cup {"SETUP"} /\ api # "setup" /\ api \notin FirstApis
      /\ mediaStep' \in 0..NMedia
  BY WalkSends
<1>2. PICK u \in 0..NMedia : Sends(m, u)
  BY WalkSends
<1> QED BY <1>1, <1>2, CallSends

\* play, record, pause, teardown.
LEMMA WalkCallKeeps == ASSUME Lockstep, WalkCall PROVE Lockstep'
<1>1. CASE Walk("play", "PLAY")
  BY <1>1, WalkKeeps DEF WalkApis
<1>2. CASE Walk("record", "RECORD")
  BY <1>2, WalkKeeps DEF WalkApis
<1>3. CASE Walk("pause", "PAUSE")
  BY <1>3, WalkKeeps DEF WalkApis
<1>4. CASE Walk("teardown", "TEARDOWN")
  BY <1>4, WalkKeeps DEF WalkApis
<1> QED BY <1>1, <1>2, <1>3, <1>4 DEF WalkCall

\* Every call; the two about pipelining are not made.
LEMMA ApiKeeps == ASSUME World, Lockstep, ApiCall PROVE Lockstep'
<1>1. CASE StartPipeline \/ StopPipeline
  <2>1. \E api \in {"startPipeline", "stopPipeline"} : Calls(api)
    BY <1>1 DEF StartPipeline, StopPipeline
  <2>2. PICK api \in {"startPipeline", "stopPipeline"} : Calls(api)
    BY <2>1
  <2>3. api \in Apis
    BY <2>2, CallFacts
  <2> QED BY <2>2, <2>3 DEF Apis, FirstApis, WalkApis
<1> QED BY <1>1, PlainCallKeeps, AnnounceKeeps, SetupNothingKeeps, SetupKeeps, WalkCallKeeps DEF ApiCall

\* The user calls only when nothing is outstanding; without aggregate control,
\* nothing that walks over the media.
LEMMA UserKeeps == ASSUME ~Overlap, ~SecondWalk, Lockstep, UserCall PROVE Lockstep'
<1>1. /\ pc = "idle" /\ Playing /\ userCalls < MaxUserCalls /\ open = <<>>
      /\ pc' = "app" /\ then' = "nothing" /\ userCalls' = userCalls + 1
      /\ UNCHANGED <<needAuth, method, uri, cseq, hasSession, medias, isAggregate, mediaStep, transports,
                    setupIter, pipeId, pipelines, setups, open, peerSession, aggregate, sent, callbacks>>
  BY DEF UserCall, authVars, walkVars, pipeVars, peerVars, worldVars
<1>2. PICK api \in UserCalls :
          /\ api \in {"getParmeters", "setParmeters"} \/ aggregate
          /\ todo' = <<api>>
  BY DEF UserCall
<1>3. api \in Apis \ FirstApis /\ (api \in WalkApis => aggregate)
  BY <1>2, ClientAssumption DEF Apis, FirstApis, WalkApis
<1>4. Types'
  BY <1>1, ClientAssumption DEF Lockstep, Types
<1>5. LastIsOpen' /\ Defined' /\ (Playing' <=> Playing)
  BY <1>1, PlayingSame DEF Lockstep, LastIsOpen, Defined
<1>6. AnswersMatched'
  BY <1>1 DEF Lockstep, AnswersMatched
<1>7. Turn'
  BY <1>1, <1>2, <1>3 DEF Turn
<1>8. method \notin Early
  BY <1>1 DEF Lockstep, Phase
<1>9. Phase'
  <2>1. \A a \in Apis : todo' = <<a>> => a = api
    BY <1>2
  <2>2. \A a \in Apis : todo' = <<a>> =>
           a \notin FirstApis /\ method' \notin Early /\ (a \in WalkApis => aggregate')
    BY <1>1, <1>3, <1>8, <2>1
  <2>3. FirstApis \ {"setup"} \subseteq FirstApis /\ "setup" \in FirstApis
    BY DEF FirstApis
  <2>4. \A a \in Apis : todo' = <<a>> =>
           /\ a \in FirstApis \ {"setup"} => method' = "OPTIONS"
           /\ a = "setup" => method' \in {"DESCRIBE", "ANNOUNCE"}
           /\ a \notin FirstApis => method' \notin Early
           /\ a \in WalkApis /\ ~aggregate' => mediaStep' = 0
    BY <2>2, <2>3
  <2> HIDE DEF Apis
  <2> QED BY <1>1, <1>5, <1>8, <2>4 DEF Lockstep, Phase
<1> QED BY <1>4, <1>5, <1>6, <1>7, <1>9 DEF Lockstep

-----------------------------------------------------------------------------
(* Responses.                                                              *)

\* What a callback calls.
LEMMA ScriptFacts ==
    ASSUME NEW kind, NEW ok \in BOOLEAN, NEW calls \in MayCall(kind, ok),
           ~pipelining \/ calls = <<>> \/ kind \notin {"DESCRIBE", "ANNOUNCE"}
    PROVE  \/ calls = <<>>
           \/ kind = "OPTIONS" /\ calls \in {<<"announce">>, <<"describe">>}
           \/ kind \in {"DESCRIBE", "ANNOUNCE"} /\ calls = <<"setup">>
           \/ /\ ok /\ kind = "SETUP" /\ ~pipelining /\ setups + 1 = NMedia
              /\ calls \in {<<"play">>, <<"record">>}
<1>1. calls = <<>> \/ calls = Script(kind, ok)
  BY DEF MayCall
<1>2. CASE kind = "OPTIONS"
  BY <1>1, <1>2 DEF Script
<1>3. CASE kind \in {"DESCRIBE", "ANNOUNCE"}
  BY <1>1, <1>3 DEF Script
<1>4. CASE kind = "SETUP" /\ ok /\ ~pipelining /\ setups + 1 = NMedia
  BY <1>1, <1>4 DEF Script, StreamCall
<1>5. CASE kind = "SETUP" /\ ~(ok /\ ~pipelining /\ setups + 1 = NMedia)
  BY <1>1, <1>5 DEF Script
<1>6. CASE kind \notin {"OPTIONS", "DESCRIBE", "ANNOUNCE", "SETUP"}
  BY <1>1, <1>6 DEF Script
<1> QED BY <1>2, <1>3, <1>4, <1>5, <1>6

\* ... that of the description everything, when it pipelines,
LEMMA ScriptPipelines ==
    ASSUME pipelining, NEW kind \in {"DESCRIBE", "ANNOUNCE"}, NEW ok, NEW calls \in MayCall(kind, ok),
           calls # <<>>
    PROVE  \E api \in {"play", "record"} : calls = <<"startPipeline", "setup", api, "stopPipeline">>
<1>1. calls = Script(kind, ok)
  BY DEF MayCall
<1> QED BY <1>1 DEF Script, StreamCall

\* ... and that of a SETUP nothing, if it was refused or not for the last medium.
LEMMA ScriptWaits ==
    ASSUME NEW ok \in BOOLEAN, NEW calls \in MayCall("SETUP", ok), ~ok \/ setups + 1 # NMedia
    PROVE  calls = <<>>
<1>1. calls = <<>> \/ calls = Script("SETUP", ok)
  BY DEF MayCall
<1> QED BY <1>1 DEF Script

\* What every callback leaves behind.
Reports(kind, ok, after) ==
    /\ pc' = "app" /\ then' = after /\ userCalls' = userCalls /\ todo' \in MayCall(kind, ok)
    /\ setups' = IF kind = "SETUP" /\ ok THEN setups + 1 ELSE setups
    /\ callbacks' \in Seq(CallbackRecords) /\ CallbacksMatched' /\ Defined'
    /\ Playing' => Playing \/ kind \in {"PLAY", "RECORD"}
    /\ kind = "DESCRIBE" /\ ~ok => DescriptionRefused'

\* A callback is recorded with the request it is about.
LEMMA CallbackReports ==
    ASSUME Types, CallbacksMatched, NEW q \in Requests, NEW res, NEW ok \in BOOLEAN, ok = res.ok,
           NEW kind, kind \in {q.method, "AUTH"}, NEW after, Callback(kind, q, res, after)
    PROVE  Reports(kind, ok, after)
<1>1. /\ pc' = "app" /\ then' = after /\ userCalls' = userCalls /\ todo' \in MayCall(kind, ok)
      /\ setups' = IF kind = "SETUP" /\ ok THEN setups + 1 ELSE setups
  BY DEF Callback
<1>2. PICK c : c = [kind |-> kind, of |-> q.method, ok |-> ok]
  OBVIOUS
<1>3. c.kind = kind /\ c.of = q.method /\ c \in CallbackRecords /\ callbacks' = Append(callbacks, c)
  BY <1>2, RequestFacts DEF Callback, CallbackRecords
<1>4. /\ callbacks' \in Seq(CallbackRecords) /\ Len(callbacks) \in Nat
      /\ DOMAIN callbacks' = 1..(Len(callbacks) + 1) /\ DOMAIN callbacks = 1..Len(callbacks)
      /\ callbacks'[Len(callbacks) + 1] = c
      /\ \A i \in 1..Len(callbacks) : callbacks'[i] = callbacks[i]
  BY <1>3, AppendProperties, LenProperties DEF Types
<1>5. \A i \in DOMAIN callbacks' : callbacks'[i] = c \/ (i \in DOMAIN callbacks /\ callbacks'[i] = callbacks[i])
  BY <1>4
<1>6. CallbacksMatched'
  BY <1>3, <1>5 DEF CallbacksMatched
<1>7. Playing' => Playing \/ kind \in {"PLAY", "RECORD"}
  BY <1>3, <1>5 DEF Playing
<1>8. kind = "DESCRIBE" /\ ~ok => DescriptionRefused'
  <2>1. c.ok = ok /\ Len(callbacks) + 1 \in DOMAIN callbacks'
    BY <1>2, <1>4
  <2> QED BY <1>3, <1>4, <2>1 DEF DescriptionRefused
<1> QED BY <1>1, <1>4, <1>6, <1>7, <1>8 DEF Reports, Defined

\* In lockstep too.
LEMMA CallbackFacts ==
    ASSUME Lockstep, NEW q \in Requests, NEW res, NEW ok \in BOOLEAN, ok = res.ok,
           NEW kind, kind \in {q.method, "AUTH"}, NEW after, Callback(kind, q, res, after)
    PROVE  Reports(kind, ok, after)
<1>1. Types /\ CallbacksMatched
  BY Halves DEF Lockstep
<1> QED BY <1>1, CallbackReports, Zenon

\* The response to the open request, on its way into handleResponse.
Answered(q, res) ==
    /\ pc = "idle" /\ open # <<>> /\ Len(open) = 1 /\ q = open[1] /\ q \in Requests
    /\ q.method = method /\ q.uri = uri
    /\ res.ok \in BOOLEAN /\ res.session \in BOOLEAN /\ (res.ok /\ q.method = "SETUP" => res.transport)
    /\ res.pipe = 0 /\ peerSession' \in BOOLEAN /\ aggregate' = aggregate

\* What the peer accepts: a SETUP with a transport, which opens the session, and
\* after that no request without it.  What it refuses to look at: a request
\* without the credentials it demands.
Accepted(q, res) ==
    /\ res.ok /\ q.method = "SETUP" => q.transport /\ peerSession'
    /\ res.ok /\ peerSession => q.session
    /\ peerSession => peerSession'
    /\ ~res.unauthorized /\ q.method \in policy => q.auth /\ rightPassword

\* A callback that is told of a response and changes nothing but the turn.
LEMMA ReportKeeps ==
    ASSUME Lockstep, NEW q, NEW res, Answered(q, res),
           NEW kind \in {q.method, "AUTH"}, kind \notin {"SETUP", "DESCRIBE"},
           ~pipelining \/ todo' = <<>> \/ kind # "ANNOUNCE",
           Callback(kind, q, res, "nothing"), open' = <<>>,
           UNCHANGED <<authVars, hasSession, walkVars, pipeVars, sent>>
    PROVE  Lockstep'
<1>1. /\ pc' = "app" /\ then' = "nothing" /\ userCalls' = userCalls /\ todo' \in MayCall(kind, res.ok)
      /\ setups' = setups /\ callbacks' \in Seq(CallbackRecords) /\ CallbacksMatched' /\ Defined'
      /\ Playing' => Playing \/ kind \in {"PLAY", "RECORD"}
  <2>1. q \in Requests /\ res.ok \in BOOLEAN
    BY DEF Answered
  <2>2. Reports(kind, res.ok, "nothing")
    BY <2>1, CallbackFacts, Zenon
  <2>3. kind # "SETUP"
    OBVIOUS
  <2>4. setups' = setups
    BY <2>2, <2>3 DEF Reports
  <2> QED BY <2>2, <2>4 DEF Reports
<1>2. UNCHANGED <<needAuth, method, uri, cseq, hasSession, medias, isAggregate, mediaStep, transports,
                  setupIter, pipeId, pipelines, sent>>
  BY DEF authVars, walkVars, pipeVars
<1>3. \/ todo' = <<>>
      \/ kind = "OPTIONS" /\ todo' \in {<<"announce">>, <<"describe">>}
      \/ kind = "ANNOUNCE" /\ todo' = <<"setup">>
  BY <1>1, ScriptFacts DEF Answered
<1>4. RepeatsMatched'
  BY <1>2, Halves DEF Lockstep, RepeatsMatched
<1>5. AnswersMatched'
  BY <1>1, <1>4, Halves, PTL
<1>6. open' \in Seq(Requests)
  BY EmptySeq
<1>7. Types'
  BY <1>1, <1>2, <1>6 DEF Lockstep, Types, Answered
<1>8. LastIsOpen'
  BY <1>2 DEF Lockstep, LastIsOpen
<1>9. Turn'
  BY <1>1, <1>3 DEF Turn, Apis, FirstApis
<1>10. kind # "AUTH" => method = kind
  BY DEF Answered
<1>11. Phase'
  <2>1. \A a \in Apis : todo' = <<a>> =>
           \/ a \in FirstApis \ {"setup"} /\ method = "OPTIONS"
           \/ a = "setup" /\ method = "ANNOUNCE"
    BY <1>3, <1>10 DEF Lockstep, Phase, FirstApis
  <2>2. \A a \in Apis : todo' = <<a>> =>
           /\ a \in FirstApis \ {"setup"} => method' = "OPTIONS"
           /\ a = "setup" => method' \in {"DESCRIBE", "ANNOUNCE"}
           /\ a \notin FirstApis => method' \notin Early
           /\ a \in WalkApis /\ ~aggregate' => mediaStep' = 0
    BY <1>2, <2>1 DEF FirstApis, WalkApis
  <2>3. Playing' => method' \notin Early
    BY <1>1, <1>2, <1>10 DEF Lockstep, Phase, Early
  <2>4. aggregate' = aggregate
    BY DEF Answered
  <2> QED BY <1>1, <1>2, <2>2, <2>3, <2>4 DEF Lockstep, Phase
<1> QED BY <1>1, <1>5, <1>7, <1>8, <1>9, <1>11 DEF Lockstep

\* The first 401: the repetition is the open request.
LEMMA RepeatKeeps ==
    ASSUME Lockstep, NEW q, NEW res, Answered(q, res), HandleUnAuth(q, <<>>)
    PROVE  Lockstep'
<1>1. PICK r : r = [MakeRequest(-cseq, method, uri) EXCEPT
                      !.auth = TRUE, !.session = FALSE, !.pipe = 0, !.transport = FALSE,
                      !.again = <<q.method, q.uri>>]
  OBVIOUS
<1>2. /\ r.method = method /\ r.uri = uri /\ r.pipe = 0 /\ r.again = <<method, uri>>
      /\ r = [cseq |-> -cseq, method |-> method, uri |-> uri, auth |-> TRUE, session |-> FALSE,
              pipe |-> 0, transport |-> FALSE, again |-> <<method, uri>>]
  BY <1>1 DEF MakeRequest, Answered
<1>3. method \in Methods /\ uri \in 0..NMedia /\ cseq \in Nat
  BY DEF Lockstep, Types
<1>4. r \in Requests
  <2>1. <<method, uri>> \in Repeated
    BY <1>3, Zenon DEF Repeated
  <2>2. -cseq \in Int
    BY <1>3
  <2>3. 0 \in Nat
    OBVIOUS
  <2> QED BY <1>2, <1>3, <2>1, <2>2, <2>3 DEF Requests
<1>5. open' = <<r>> /\ sent' = Append(sent, r) /\ needAuth' = TRUE /\ cseq' = cseq + 1
  BY <1>1 DEF HandleUnAuth
<1>6. /\ UNCHANGED <<method, uri, hasSession, medias, isAggregate, mediaStep, transports,
                     setupIter, pipeId, pipelines, pc, then, todo, setups, userCalls, callbacks>>
  BY DEF HandleUnAuth, NoCallback, walkVars, pipeVars
<1>7. Sends(method, uri)
  BY <1>2, <1>3, <1>4, <1>5, <1>6 DEF Sends, Lockstep, LastIsOpen
<1>8. /\ open' \in Seq(Requests) /\ sent' \in Seq(Requests) /\ open' # <<>>
      /\ LastIsOpen' /\ RepeatsMatched'
  BY <1>7, SendKeeps, Halves DEF Lockstep
<1>9. CallbacksMatched'
  BY <1>6, Halves DEF Lockstep, CallbacksMatched
<1>10. AnswersMatched'
  BY <1>8, <1>9, Halves, PTL
<1>11. Types'
  BY <1>3, <1>5, <1>6, <1>8 DEF Lockstep, Types, Answered
<1>12. Turn' /\ Defined'
  BY <1>6 DEF Lockstep, Turn, Answered, Defined
<1>13. Phase'
  <2>1. open # <<>> /\ aggregate' = aggregate /\ (Playing' <=> Playing)
    BY <1>6, PlayingSame DEF Answered
  <2> QED BY <1>6, <2>1 DEF Lockstep, Phase
<1> QED BY <1>8, <1>10, <1>11, <1>12, <1>13 DEF Lockstep

\* The session is gone: the caller closes the connection.
LEMMA SessionErrorKeeps ==
    ASSUME Lockstep, NEW q, NEW res, Answered(q, res), SessionError(<<>>)
    PROVE  Lockstep'
<1>1. /\ pc' = "closed" /\ open' = <<>> /\ todo = <<>> /\ then = "nothing"
      /\ UNCHANGED <<needAuth, method, uri, cseq, hasSession, medias, isAggregate, mediaStep, transports,
                     setupIter, pipeId, pipelines, sent, then, todo, setups, userCalls, callbacks>>
  BY DEF SessionError, NoCallback, authVars, walkVars, pipeVars, Lockstep, Turn, Answered
<1>2. open' \in Seq(Requests)
  BY <1>1, EmptySeq
<1>3. Types'
  BY <1>1, <1>2 DEF Lockstep, Types, Answered
<1>4. LastIsOpen' /\ Turn' /\ Defined'
  BY <1>1 DEF Lockstep, LastIsOpen, Turn, Defined
<1>5. AnswersMatched'
  BY <1>1 DEF Lockstep, AnswersMatched
<1>6. Phase'
  <2>1. aggregate' = aggregate /\ (Playing' <=> Playing)
    BY <1>1, PlayingSame DEF Answered
  <2> QED BY <1>1, <2>1 DEF Lockstep, Phase
<1> QED BY <1>3, <1>4, <1>5, <1>6 DEF Lockstep

\* The description arrives, or is refused and taken for empty.
LEMMA DescribeKeeps ==
    ASSUME World, Lockstep, NEW q, NEW res, Answered(q, res), HandleDescribe(q, res, <<>>),
           ~pipelining \/ todo' = <<>>
    PROVE  Lockstep'
<1>1. /\ method = "DESCRIBE" /\ q.method = "DESCRIBE" /\ q \in Requests /\ res.ok \in BOOLEAN
      /\ Callback("DESCRIBE", q, res, "nothing") /\ open' = <<>>
      /\ medias' = IF res.ok THEN NMedia ELSE 0
      /\ isAggregate' = (isAggregate \/ (aggregate /\ medias' > 0))
      /\ UNCHANGED <<needAuth, method, uri, cseq, hasSession, mediaStep, transports,
                     setupIter, pipeId, pipelines, sent>>
      /\ aggregate' = aggregate
  BY DEF HandleDescribe, Answered, authVars, pipeVars
<1>2. /\ pc' = "app" /\ then' = "nothing" /\ userCalls' = userCalls /\ todo' \in MayCall("DESCRIBE", res.ok)
      /\ setups' = setups /\ callbacks' \in Seq(CallbackRecords) /\ CallbacksMatched' /\ Defined'
      /\ Playing' => Playing
  <2>1. Reports("DESCRIBE", res.ok, "nothing")
    <3>1. "DESCRIBE" \in {q.method, "AUTH"}
      BY <1>1
    <3> QED BY <1>1, <3>1, CallbackFacts, Zenon
  <2> QED BY <2>1 DEF Reports
<1>3. todo' = <<>> \/ todo' = <<"setup">>
  BY <1>1, <1>2, ScriptFacts
<1>4. NMedia > 0 /\ NMedia \in Nat
  BY ClientAssumption
<1>5. (isAggregate => aggregate) /\ setups = 0 /\ mediaStep = 0 /\ ~Playing
  BY <1>1 DEF Lockstep, Phase, Early
<1>6. isAggregate' \in BOOLEAN /\ (isAggregate' => aggregate) /\ (medias' = NMedia => isAggregate' = aggregate)
  BY <1>1, <1>4, <1>5 DEF World
<1>7. RepeatsMatched'
  BY <1>1, Halves DEF Lockstep, RepeatsMatched
<1>8. AnswersMatched'
  BY <1>2, <1>7, Halves, PTL
<1>9. open' \in Seq(Requests)
  BY <1>1, EmptySeq
<1>10. Types'
  BY <1>1, <1>2, <1>6, <1>9 DEF Lockstep, Types, Answered
<1>11. LastIsOpen'
  BY <1>1 DEF Lockstep, LastIsOpen
<1>12. Turn'
  BY <1>1, <1>2, <1>3 DEF Turn, Apis, FirstApis
<1>13. Phase'
  <2>1. \A a \in Apis : todo' = <<a>> => a = "setup"
    BY <1>3
  <2> HIDE DEF Apis
  <2> QED BY <1>1, <1>2, <1>5, <1>6, <2>1 DEF Phase, Early, FirstApis, WalkApis
<1> QED BY <1>2, <1>8, <1>10, <1>11, <1>12, <1>13 DEF Lockstep

\* The transport the server chose goes to the medium that setupIter_ is at.
LEMMA HandleSetupKeeps ==
    ASSUME ~pipelining, Lockstep, NEW q, NEW res, Answered(q, res), HandleSetup(q, res, <<>>)
    PROVE  Lockstep'
<1>1. /\ method = "SETUP" /\ q.method = "SETUP" /\ q \in Requests /\ res.ok \in BOOLEAN /\ open # <<>>
      /\ res.ok => res.transport
      /\ aggregate' = aggregate
  BY DEF HandleSetup, Answered
<1>2. /\ setupIter \in 1..NMedia /\ Len(transports) = NMedia /\ medias = NMedia /\ setups = setupIter - 1
      /\ mediaStep = 0 /\ NMedia \in Nat
  BY <1>1, ClientAssumption DEF Lockstep, Phase, Early
<1>3. PICK after : after = IF res.ok THEN "nextSetup" ELSE "nothing"
  OBVIOUS
<1>4. /\ Callback("SETUP", q, res, after) /\ open' = <<>>
      /\ hasSession' = (hasSession \/ (res.ok /\ res.session))
      /\ transports' = (IF res.ok THEN [transports EXCEPT ![setupIter] = TRUE] ELSE transports)
      /\ UNCHANGED <<needAuth, method, uri, cseq, medias, isAggregate, mediaStep, setupIter,
                     pipeId, pipelines, sent>>
  BY <1>1, <1>2, <1>3 DEF HandleSetup, authVars, pipeVars
<1>5. /\ pc' = "app" /\ then' = after /\ userCalls' = userCalls /\ todo' \in MayCall("SETUP", res.ok)
      /\ setups' = (IF res.ok THEN setups + 1 ELSE setups) /\ callbacks' \in Seq(CallbackRecords)
      /\ CallbacksMatched' /\ Defined'
      /\ Playing' => Playing
  <2>1. Reports("SETUP", res.ok, after)
    <3>1. "SETUP" \in {q.method, "AUTH"}
      BY <1>1
    <3> QED BY <1>1, <1>4, <3>1, CallbackFacts, Zenon
  <2> QED BY <2>1 DEF Reports
<1>6. todo' = <<>> \/ (setups + 1 = NMedia /\ res.ok /\ todo' \in {<<"play">>, <<"record">>})
  BY <1>1, <1>5, ScriptFacts
<1>7. transports' \in Seq(BOOLEAN) /\ Len(transports') = NMedia
  <2>1. transports \in Seq(BOOLEAN) /\ setupIter \in 1..Len(transports)
    BY <1>2 DEF Lockstep, Types
  <2>2. CASE res.ok
    BY <1>2, <1>4, <2>1, <2>2, ExceptSeq
  <2>3. CASE ~res.ok
    BY <1>2, <1>4, <2>1, <2>3
  <2> QED BY <1>1, <2>2, <2>3
<1>8. RepeatsMatched'
  BY <1>4, Halves DEF Lockstep, RepeatsMatched
<1>9. AnswersMatched'
  BY <1>5, <1>8, Halves, PTL
<1>10. open' \in Seq(Requests)
  BY <1>4, EmptySeq
<1>11. hasSession' \in BOOLEAN /\ after \in {"nothing", "nextSetup"} /\ setups' \in 0..NMedia
  BY <1>1, <1>2, <1>3, <1>4, <1>5 DEF Lockstep, Types, Answered
<1>12. Types'
  BY <1>2, <1>4, <1>5, <1>7, <1>10, <1>11 DEF Lockstep, Types, Answered
<1>13. LastIsOpen'
  BY <1>4 DEF Lockstep, LastIsOpen
<1>14. then' = "nextSetup" => res.ok /\ setups' = setupIter
  BY <1>2, <1>3, <1>5
<1>15. Turn'
  <2>1. setupIter < NMedia => todo' = <<>>
    BY <1>2, <1>6
  <2>2. todo' # <<>> => \E api \in Apis : todo' = <<api>>
    BY <1>6 DEF Apis, WalkApis
  <2> QED BY <1>1, <1>2, <1>4, <1>5, <2>1, <2>2 DEF Turn
<1>16. Phase'
  <2>1. \A a \in Apis : todo' = <<a>> => a \in {"play", "record"}
    BY <1>6
  <2> HIDE DEF Apis
  <2>2. (isAggregate => aggregate) /\ (medias = NMedia => isAggregate = aggregate)
    BY DEF Lockstep, Phase
  <2> QED BY <1>1, <1>2, <1>4, <1>5, <1>7, <1>14, <2>1, <2>2 DEF Phase, Early, FirstApis
<1> QED BY <1>5, <1>9, <1>12, <1>13, <1>15, <1>16 DEF Lockstep

\* The walk goes on with the next medium: mediaStep_ is inside the description.
LEMMA ContinueKeeps ==
    ASSUME Lockstep, NEW q, NEW res, Answered(q, res), ContinueWalk(q, res, <<>>)
    PROVE  Lockstep'
<1>1. /\ method \in {"PLAY", "RECORD", "PAUSE", "TEARDOWN"} /\ ~WalkEnds(res)
      /\ StepWalk(<<>>, method, <<mediaStep + 1>>)
      /\ UNCHANGED <<hasSession, medias, isAggregate, transports, setupIter, then, todo, setups, userCalls,
                     callbacks>>
      /\ aggregate' = aggregate
  BY DEF ContinueWalk, NoCallback, Answered
<1>2. method \in Methods /\ method \notin Early \cup {"SETUP"}
  BY <1>1 DEF Early, Methods
<1>3. medias = NMedia /\ mediaStep \in 0..NMedia /\ NMedia \in Nat
  BY <1>2, ClientAssumption DEF Lockstep, Phase, Types
<1>4. mediaStep < medias
  BY <1>1, <1>3 DEF WalkEnds
<1>5. Issue(<<>>, method, <<mediaStep + 1>>) /\ mediaStep' = mediaStep + 1 /\ UNCHANGED pc
  BY <1>1, <1>3, <1>4 DEF StepWalk
<1>6. mediaStep + 1 \in 0..NMedia
  BY <1>3, <1>4
<1>7. Sends(method, mediaStep + 1)
  BY <1>2, <1>5, <1>6, IssueOne DEF Lockstep
<1>8. /\ open' \in Seq(Requests) /\ sent' \in Seq(Requests) /\ open' # <<>>
      /\ LastIsOpen' /\ RepeatsMatched'
  BY <1>7, SendKeeps, Halves DEF Lockstep
<1>9. CallbacksMatched'
  BY <1>1, Halves DEF Lockstep, CallbacksMatched
<1>10. AnswersMatched'
  BY <1>8, <1>9, Halves, PTL
<1>11. method' = method /\ uri' = mediaStep + 1 /\ cseq' \in Nat /\ needAuth' \in BOOLEAN
  BY <1>7 DEF Sends
<1>12. Types'
  BY <1>1, <1>5, <1>6, <1>8, <1>11 DEF Lockstep, Types, Answered
<1>13. Turn' /\ Defined'
  BY <1>1, <1>5 DEF Lockstep, Turn, Answered, Defined
<1>14. todo = <<>> /\ then = "nothing"
  BY DEF Lockstep, Turn, Answered
<1>15. Phase'
  <2>1. Playing' <=> Playing
    BY <1>1, PlayingSame
  <2> QED BY <1>1, <1>2, <1>11, <1>14, <2>1 DEF Lockstep, Phase
<1> QED BY <1>8, <1>10, <1>12, <1>13, <1>15 DEF Lockstep

\* handleResponse: a response outside a pipeline, to the only request there is.
LEMMA ReceiveKeeps ==
    ASSUME IInv, ~pipelining, Lockstep, NEW q, NEW res, Answered(q, res), Receive(q, res, <<>>),
           UNCHANGED worldVars
    PROVE  Lockstep'
<1>1. CASE HandleUnAuth(q, <<>>)
  BY <1>1, RepeatKeeps
<1>2. CASE AuthFailed(q, res, <<>>)
  <2>1. /\ Callback("AUTH", q, res, "nothing") /\ "AUTH" \in {q.method, "AUTH"}
        /\ "AUTH" \notin {"SETUP", "DESCRIBE"}
    BY <1>2 DEF AuthFailed
  <2>2. open' = <<>> /\ UNCHANGED <<authVars, hasSession, walkVars, pipeVars, sent>>
    BY <1>2 DEF AuthFailed
  <2> QED BY <2>1, <2>2, ReportKeeps
<1>3. CASE SessionError(<<>>)
  BY <1>3, SessionErrorKeeps
<1>4. CASE HandlePlain(q, res, <<>>) \/ ReportWalk(q, res, <<>>)
  <2>1. /\ method \in {q.method, "AUTH"} /\ method \notin {"SETUP", "DESCRIBE"}
        /\ Callback(method, q, res, "nothing")
    BY <1>4 DEF HandlePlain, ReportWalk, Answered
  <2>2. open' = <<>> /\ UNCHANGED <<authVars, hasSession, walkVars, pipeVars, sent>>
    BY <1>4 DEF HandlePlain, ReportWalk
  <2>3. PICK kind : kind = method
    OBVIOUS
  <2>4. Callback(kind, q, res, "nothing") /\ kind \in {q.method, "AUTH"} /\ kind \notin {"SETUP", "DESCRIBE"}
    BY <2>1, <2>3, Zenon
  <2> QED BY <2>2, <2>4, ReportKeeps
<1>5. CASE HandleDescribe(q, res, <<>>)
  BY <1>5, DescribeKeeps DEF IInv
<1>6. CASE HandleSetup(q, res, <<>>)
  BY <1>6, HandleSetupKeeps
<1>7. CASE ContinueWalk(q, res, <<>>)
  BY <1>7, ContinueKeeps
<1>8. ~(res.pipe > 0)
  BY DEF Answered
<1> QED BY <1>1, <1>2, <1>3, <1>4, <1>5, <1>6, <1>7, <1>8 DEF Receive

\* In lockstep the response is that of the one open request.
LEMMA OneHandled ==
    ASSUME Lockstep, HandleResponse
    PROVE  \E q, res : Answered(q, res) /\ Accepted(q, res) /\ Receive(q, res, <<>>)
<1>1. PICK i \in DOMAIN open, status \in {"Unauthorized", "SessionNotFound", "OK", "Error"} :
          /\ MayAnswer(open[i], status)
          /\ Receive(open[i], Response(open[i], status), RemoveAt(open, i))
          /\ peerSession' = (peerSession \/ Response(open[i], status).transport)
  BY DEF HandleResponse
<1>2. pc = "idle" /\ UNCHANGED worldVars
  BY DEF HandleResponse
<1>3. open \in Seq(Requests)
  BY DEF Lockstep, Types
<1>4. open # <<>>
  BY <1>1
<1>5. Len(open) = 1 /\ open[1].method = method /\ open[1].uri = uri /\ open[1].pipe = 0
  BY <1>4 DEF Lockstep, LastIsOpen
<1>6. i = 1 /\ open[1] \in Requests /\ RemoveAt(open, i) = <<>>
  <2>1. i = 1 /\ open[1] \in Requests
    BY <1>1, <1>3, <1>5, SMTT(30)
  <2> QED BY <2>1, <1>3, <1>5, RemoveOnly
<1>7. PICK q, res : q = open[1] /\ res = Response(q, status)
  OBVIOUS
<1>8. q = open[i]
  BY <1>6, <1>7
<1>9. Receive(q, res, <<>>)
  BY <1>1, <1>6, <1>7, <1>8, Zenon
<1>10. peerSession' = (peerSession \/ res.transport)
  BY <1>1, <1>7, <1>8, Zenon
<1>11. Answered(q, res) /\ Accepted(q, res)
  <2>0. MayAnswer(q, status)
    BY <1>1, <1>7, <1>8, Zenon
  <2>1. /\ res.ok = (status = "OK") /\ res.transport = (status = "OK" /\ q.method = "SETUP")
        /\ res.session = (status \in {"OK", "Error"} /\ (peerSession \/ (status = "OK" /\ q.method = "SETUP")))
        /\ res.pipe = IF status \in {"OK", "Error"} THEN q.pipe ELSE 0
        /\ res.unauthorized = (status = "Unauthorized")
    BY <1>7 DEF Response
  <2>2. aggregate' = aggregate
    BY <1>2 DEF worldVars
  <2>3. Answered(q, res)
    <3>1. res.ok /\ q.method = "SETUP" => res.transport
      BY <2>1
    <3> QED BY <1>2, <1>4, <1>5, <1>6, <1>7, <1>10, <2>1, <2>2, <3>1 DEF Answered, Lockstep, Types
  <2>4. Accepted(q, res)
    <3>1. /\ res.ok => /\ q.method = "SETUP" => q.transport
                       /\ ~(peerSession /\ ~q.session /\ q.pipe = 0)
          /\ ~res.unauthorized => (q.method \in policy => q.auth /\ rightPassword)
      BY <2>0, <2>1 DEF MayAnswer
    <3>2. peerSession \in BOOLEAN /\ q.session \in BOOLEAN /\ q.pipe = 0
      BY <1>5, <1>6, <1>7 DEF Lockstep, Types, Requests
    <3> QED BY <1>10, <2>1, <3>1, <3>2 DEF Accepted
  <2> QED BY <2>3, <2>4
<1> QED BY <1>9, <1>11

\* Whatever the response is, the client stays in lockstep.
LEMMA HandleResponseKeeps == ASSUME IInv, ~pipelining, Lockstep, HandleResponse PROVE Lockstep'
<1>1. PICK q, res : Answered(q, res) /\ Receive(q, res, <<>>)
  BY OneHandled
<1>2. UNCHANGED worldVars
  BY DEF HandleResponse
<1> QED BY <1>1, <1>2, ReceiveKeeps

\* The callback is over; after a SETUP the next medium is asked for.
LEMMA ReturnKeeps == ASSUME Lockstep, Return PROVE Lockstep'
<1>1. /\ pc' = "idle" /\ then' = "nothing" /\ todo = <<>> /\ todo' = <<>>
      /\ UNCHANGED <<hasSession, medias, isAggregate, mediaStep, transports, setups, userCalls, peerSession,
                     aggregate, callbacks>>
  BY DEF Return, peerVars, worldVars
<1>2. NMedia \in Nat /\ (Playing' <=> Playing)
  BY <1>1, ClientAssumption, PlayingSame
<1>3. CASE then # "nextSetup"
  <2>1. UNCHANGED <<setupIter, needAuth, method, uri, cseq, pipeId, pipelines, open, sent>>
    BY <1>3 DEF Return, authVars, pipeVars
  <2>2. Types' /\ LastIsOpen' /\ Defined'
    BY <1>1, <2>1 DEF Lockstep, Types, LastIsOpen, Defined
  <2>3. Turn'
    BY <1>1 DEF Turn
  <2>4. AnswersMatched'
    BY <1>1, <2>1 DEF Lockstep, AnswersMatched
  <2>5. Phase'
    BY <1>1, <1>2, <2>1 DEF Lockstep, Phase
  <2> QED BY <2>2, <2>3, <2>4, <2>5 DEF Lockstep
<1>4. CASE then = "nextSetup"
  <2>1. /\ setupIter \in 1..NMedia /\ Len(transports) = NMedia /\ medias = NMedia /\ setups = setupIter
        /\ method \notin Early
    BY <1>4 DEF Lockstep, Turn, Phase
  <2>2. setupIter' = setupIter + 1
    BY <1>4 DEF Return, NextAfter
  <2>3. CASE setupIter' <= Len(transports)
    <3>1. setupIter < NMedia /\ setupIter + 1 \in 0..NMedia
      BY <1>2, <2>1, <2>2, <2>3
    <3>2. open = <<>> /\ method = "SETUP" /\ mediaStep = 0
      BY <1>4, <3>1 DEF Lockstep, Turn, Phase
    <3>3. Issue(<<>>, "SETUP", <<setupIter + 1>>)
      BY <1>4, <2>2, <2>3, <3>2 DEF Return
    <3>4. Sends("SETUP", setupIter + 1)
      BY <3>1, <3>3, IssueOne DEF Lockstep, Methods
    <3>5. /\ open' \in Seq(Requests) /\ sent' \in Seq(Requests)
          /\ LastIsOpen' /\ RepeatsMatched'
      BY <3>4, SendKeeps, Halves DEF Lockstep
    <3>6. CallbacksMatched'
      BY <1>1, Halves DEF Lockstep, CallbacksMatched
    <3>7. AnswersMatched'
      BY <3>5, <3>6, Halves, PTL
    <3>8. method' = "SETUP" /\ uri' = setupIter + 1 /\ cseq' \in Nat /\ needAuth' \in BOOLEAN
      BY <3>4 DEF Sends
    <3>9. setupIter' \in 1..(Len(transports') + 1) /\ setupIter' \in 1..NMedia
      BY <1>1, <2>1, <2>2, <3>1
    <3>10. Types'
      BY <1>1, <3>1, <3>5, <3>8, <3>9 DEF Lockstep, Types, Methods
    <3>11. Turn' /\ Defined'
      BY <1>1 DEF Turn, Defined
    <3>12. setups' = setupIter' - 1
      BY <1>1, <2>1, <2>2
    <3>13. (isAggregate => aggregate) /\ (medias = NMedia => isAggregate = aggregate)
      BY DEF Lockstep, Phase
    <3>14. Phase'
      BY <1>1, <1>2, <2>1, <3>2, <3>8, <3>9, <3>12, <3>13 DEF Phase, Early
    <3> QED BY <3>5, <3>7, <3>10, <3>11, <3>14 DEF Lockstep
  <2>4. CASE ~(setupIter' <= Len(transports))
    <3>1. UNCHANGED <<needAuth, method, uri, cseq, pipeId, pipelines, open, sent>>
      BY <1>4, <2>4 DEF Return, authVars, pipeVars
    <3>2. setupIter' \in 1..(Len(transports') + 1)
      BY <1>1, <1>2, <2>1, <2>2
    <3>3. Types' /\ LastIsOpen' /\ Defined'
      BY <1>1, <3>1, <3>2 DEF Lockstep, Types, LastIsOpen, Defined
    <3>4. Turn'
      BY <1>1 DEF Turn
    <3>5. AnswersMatched'
      BY <1>1, <3>1 DEF Lockstep, AnswersMatched
    <3>6. method = "SETUP" => open = <<>>
      <4>1. method = "SETUP" /\ open # <<>> => setups = setupIter - 1
        BY DEF Lockstep, Phase
      <4> QED BY <2>1, <4>1
    <3>7. Phase'
      BY <1>1, <1>2, <3>1, <3>6 DEF Lockstep, Phase
    <3> QED BY <3>3, <3>4, <3>5, <3>7 DEF Lockstep
  <2> QED BY <2>3, <2>4
<1> QED BY <1>3, <1>4

-----------------------------------------------------------------------------
(* The theorems.                                                           *)

\* A client that has sent nothing is in lockstep.
LEMMA InitLockstep == Init => World /\ Lockstep
<1> SUFFICES ASSUME Init PROVE World /\ Lockstep
  OBVIOUS
<1>1. World
  BY ClientAssumption DEF Init, World
<1>2. NMedia \in Nat \ {0} /\ MaxUserCalls \in Nat
  BY ClientAssumption
<1>3. open \in Seq(Requests) /\ sent \in Seq(Requests) /\ callbacks \in Seq(CallbackRecords)
      /\ transports \in Seq(BOOLEAN) /\ Len(transports) = 0
  BY EmptySeq DEF Init
<1>4. Types
  <2>1. setupIter \in 1..(Len(transports) + 1) /\ cseq \in Nat
    BY <1>3 DEF Init
  <2>2. medias \in {0, NMedia} /\ mediaStep \in 0..NMedia /\ uri \in 0..NMedia /\ setups \in 0..NMedia
        /\ userCalls \in 0..MaxUserCalls
    BY <1>2 DEF Init
  <2>3. /\ needAuth \in BOOLEAN /\ hasSession \in BOOLEAN /\ isAggregate \in BOOLEAN /\ peerSession \in BOOLEAN
        /\ method \in Methods /\ pc = "app" /\ then = "nothing"
    BY DEF Init, Methods
  <2> QED BY <1>3, <2>1, <2>2, <2>3 DEF Types
<1>5. LastIsOpen /\ Defined /\ AnswersMatched
  BY DEF Init, LastIsOpen, Defined, AnswersMatched
<1>6. Turn
  BY DEF Init, Turn, Apis, FirstApis
<1>7. Phase
  <2>1. ~Playing
    BY DEF Init, Playing
  <2>2. \A a \in Apis : todo = <<a>> => a = "options"
    BY DEF Init
  <2> HIDE DEF Apis
  <2> QED BY <1>2, <2>1, <2>2 DEF Init, Phase, Early, FirstApis, WalkApis
<1> QED BY <1>1, <1>4, <1>5, <1>6, <1>7 DEF Lockstep

\* Pipelining or not.
LEMMA InitIInv == Init => IInv
  BY InitLockstep DEF IInv

\* Every call, every response and every callback keeps a client in lockstep.
LEMMA StepKeeps == ASSUME ~Overlap, ~SecondWalk, IInv, [Next]_vars PROVE IInv'
<1>1. UNCHANGED <<aggregate, pipelining>>
  BY DEF vars, Next, ApiCall, PlainCall, Plain, Announce, SetupNothing, Setup, WalkCall, Walk, StartPipeline,
         StopPipeline, Calls, UserCall, HandleResponse, Return, Quiet, peerVars, worldVars
<1>2. World'
  BY <1>1 DEF IInv, World
<1>3. ASSUME ~pipelining PROVE Lockstep'
  <2>1. Lockstep
    BY <1>3 DEF IInv
  <2>2. CASE ApiCall
    BY <2>1, <2>2, ApiKeeps DEF IInv
  <2>3. CASE UserCall
    BY <2>1, <2>3, UserKeeps
  <2>4. CASE HandleResponse
    BY <1>3, <2>1, <2>4, HandleResponseKeeps
  <2>5. CASE Return
    BY <2>1, <2>5, ReturnKeeps
  <2>6. CASE UNCHANGED vars
    <3>1. UNCHANGED <<needAuth, method, uri, cseq, hasSession, medias, isAggregate, mediaStep, transports,
                      setupIter, pipeId, pipelines, pc, then, todo, setups, userCalls, open, peerSession,
                      aggregate, sent, callbacks>>
      BY <2>6 DEF vars, authVars, walkVars, pipeVars, appVars, peerVars, worldVars
    <3>2. Types' /\ LastIsOpen' /\ Turn' /\ Defined' /\ AnswersMatched'
      BY <2>1, <3>1 DEF Lockstep, Types, LastIsOpen, Turn, Defined, AnswersMatched
    <3>3. Phase'
      BY <2>1, <3>1, PlayingSame DEF Lockstep, Phase
    <3> QED BY <3>2, <3>3 DEF Lockstep
  <2> QED BY <2>2, <2>3, <2>4, <2>5, <2>6 DEF Next, Quiet
<1> QED BY <1>1, <1>2, <1>3 DEF IInv

\* A client that does not pipeline is in lockstep for good, unless requests overlap
\* or a walk is begun twice (findings 3 and 4).
THEOREM InvariantHolds == ASSUME ~Overlap, ~SecondWalk PROVE Spec => []IInv
<1>1. IInv /\ [Next]_vars => IInv'
  BY StepKeeps
<1> QED BY InitIInv, <1>1, PTL DEF Spec

\* The types of the invariant are those of the module.
LEMMA TypesImplyTypeOK == ASSUME Types, LastIsOpen PROVE TypeOK
<1>1. {needAuth, hasSession, isAggregate, peerSession} \subseteq BOOLEAN
  BY DEF Types
<1>2. pipeId \in Nat /\ pipelines \in Seq(Requests)
  BY EmptySeq DEF LastIsOpen
<1>3. \A s \in {open, sent, pipelines} : s \in Seq(Requests)
  BY <1>2 DEF Types
<1> QED BY <1>1, <1>2, <1>3 DEF Types, TypeOK

\* Without pipelining the client's state keeps its type, for every number of
\* media: setupIter_ and mediaStep_ stay within or one past their containers.
THEOREM LockstepTypeCorrect ==
    ASSUME ~Overlap, ~SecondWalk PROVE Spec => [](~pipelining => TypeOK)
<1>1. IInv => (~pipelining => TypeOK)
  BY TypesImplyTypeOK DEF IInv, Lockstep
<1> QED BY InvariantHolds, <1>1, PTL

\* Without pipelining there is never more than one unanswered request: the
\* callbacks, the handlers after them and the repetition after a 401 take turns
\* (Rtsp2Client.cpp:115-390).
THEOREM LockstepOneAtATime == ASSUME ~Overlap, ~SecondWalk PROVE Spec => []OneAtATime
<1>1. IInv => OneAtATime
  <2> SUFFICES ASSUME IInv, ~pipelining PROVE Len(open) <= 1
    BY DEF OneAtATime
  <2>1. open # <<>> => Len(open) = 1
    BY DEF IInv, Lockstep, LastIsOpen
  <2>2. open = <<>> => Len(open) = 0
    OBVIOUS
  <2> QED BY <2>1, <2>2
<1> QED BY InvariantHolds, <1>1, PTL

\* ... so auth_.method is enough to dispatch by: each response reaches the
\* callback of its request, and what follows a 401 repeats the challenged one.
THEOREM LockstepAnswersMatched ==
    ASSUME ~Overlap, ~SecondWalk PROVE Spec => [](~pipelining => AnswersMatched)
<1>1. IInv => (~pipelining => AnswersMatched)
  BY DEF IInv, Lockstep
<1> QED BY InvariantHolds, <1>1, PTL

\* ... and no handler uses an iterator or an index outside its container: a
\* user who does not walk twice over a session without aggregate control is
\* safe with any number of media, and without pipelining there is no exception
\* to StaysDefined, whatever answers the application takes no notice of.
THEOREM LockstepStaysDefined ==
    ASSUME ~Overlap, ~SecondWalk
    PROVE  Spec => [](~pipelining => StaysDefined /\ pc # "undefined")
<1>1. IInv => (~pipelining => StaysDefined /\ pc # "undefined")
  BY DEF IInv, Lockstep, Defined, StaysDefined
<1> QED BY InvariantHolds, <1>1, PTL

-----------------------------------------------------------------------------
(* The walks.  auth_.method says which media were asked for: during SETUP   *)
(* those up to setupIter_, during PLAY or RECORD those up to mediaStep_.  A *)
(* repetition of either request leads nowhere: it lacks the transport, or   *)
(* the session.                                                            *)

Starts == {"PLAY", "RECORD"}

\* EachOnce, of the first k media.
Visited(ms, k) ==
    /\ {sent[i].uri : i \in SentFor(ms)} = 1..k
    /\ \A i, j \in SentFor(ms) : i < j => sent[i].uri < sent[j].uri

Before == method \in Early => SentFor({"SETUP"}) = {} /\ SentFor(Starts) = {} /\ ~Playing

\* A SETUP is open, was accepted, or has failed.
SetupOpen ==
    /\ Original /\ then = "nothing" /\ todo = <<>>
    /\ Visited({"SETUP"}, setupIter) /\ \A i \in 1..(setupIter - 1) : transports[i]
SetupDone ==
    /\ then = "nextSetup" /\ open = <<>> /\ peerSession
    /\ Visited({"SETUP"}, setupIter) /\ \A i \in 1..setupIter : transports[i]
    /\ todo \in {<<>>, <<"play">>, <<"record">>} /\ (setupIter = NMedia => todo # <<>>)
SetupFailed == then = "nothing" /\ todo = <<>> /\ (open # <<>> => ~open[1].transport)

Asking == method = "SETUP" =>
    SentFor(Starts) = {} /\ ~Playing /\ (SetupOpen \/ SetupDone \/ SetupFailed)

SetUp == method \notin Early \cup {"SETUP"} =>
    Visited({"SETUP"}, NMedia) /\ peerSession /\ \A i \in DOMAIN transports : transports[i]

StartOpen == Original /\ Visited(Starts, mediaStep)
StartFailed == todo = <<>> /\ (open # <<>> => open[1].again # <<>> /\ ~open[1].session)

Walking == ~aggregate =>
    /\ method \in Starts /\ ~Playing => StartOpen \/ StartFailed
    /\ Playing => Visited(Starts, NMedia) /\ method \notin {"PAUSE", "TEARDOWN"}
    /\ method \in Starts /\ Playing => open = <<>>

Calling == \A api \in WalkApis : todo = <<api>> => method = "SETUP" \/ aggregate

Flow == Before /\ Asking /\ SetUp /\ Walking /\ Calling

\* What one more request adds to the walks.
LEMMA SentGrows ==
    ASSUME Types, NEW r \in Requests, sent' = Append(sent, r), NEW ms
    PROVE  /\ r.method \notin ms => SentFor(ms)' = SentFor(ms) /\ \A k : Visited(ms, k) => Visited(ms, k)'
           /\ \A k \in Nat : r.method \in ms /\ r.uri = k + 1 /\ Visited(ms, k) => Visited(ms, k + 1)'
<1>1. PICK n \in Nat : /\ DOMAIN sent = 1..n /\ DOMAIN sent' = 1..(n + 1)
                       /\ sent'[n + 1] = r /\ \A i \in 1..n : sent'[i] = sent[i]
  BY AppendProperties, LenProperties DEF Types
<1>2. ASSUME r.method \notin ms PROVE SentFor(ms)' = SentFor(ms)
  BY <1>1, <1>2 DEF SentFor
<1>3. ASSUME r.method \notin ms, NEW k, Visited(ms, k) PROVE Visited(ms, k)'
  <2>1. SentFor(ms)' = SentFor(ms)
    BY <1>2, <1>3
  <2>2. \A i \in SentFor(ms) : sent'[i] = sent[i]
    BY <1>1 DEF SentFor
  <2>3. {sent'[i].uri : i \in SentFor(ms)} = {sent[i].uri : i \in SentFor(ms)}
    BY <2>2
  <2>4. \A i, j \in SentFor(ms) : i < j => sent'[i].uri < sent'[j].uri
    BY <1>3, <2>2 DEF Visited
  <2>5. {sent'[i].uri : i \in SentFor(ms)} = 1..k
    BY <1>3, <2>3 DEF Visited
  <2> QED BY <2>1, <2>4, <2>5 DEF Visited
<1>4. ASSUME NEW k \in Nat, r.method \in ms, r.uri = k + 1, Visited(ms, k) PROVE Visited(ms, k + 1)'
  <2>1. SentFor(ms)' = SentFor(ms) \cup {n + 1} /\ \A i \in SentFor(ms) : i \in 1..n /\ sent'[i] = sent[i]
    BY <1>1, <1>4 DEF SentFor
  <2>2. {sent'[i].uri : i \in SentFor(ms)'} = {sent[i].uri : i \in SentFor(ms)} \cup {k + 1}
    BY <1>1, <1>4, <2>1
  <2>3. 1..(k + 1) = (1..k) \cup {k + 1}
    BY <1>4
  <2>4. \A i \in SentFor(ms) : sent[i].uri \in 1..k
    BY <1>4 DEF Visited
  <2>5. ASSUME NEW i \in SentFor(ms)', NEW j \in SentFor(ms)', i < j PROVE sent'[i].uri < sent'[j].uri
    <3>1. i \in 1..(n + 1) /\ j \in 1..(n + 1)
      BY <1>1, <2>1
    <3>2. i # n + 1
      BY <1>1, <2>5, <3>1
    <3>3. i \in SentFor(ms) /\ sent'[i].uri = sent[i].uri
      BY <2>1, <3>2
    <3>4. CASE j = n + 1
      BY <1>1, <1>4, <2>4, <3>3, <3>4
    <3>5. CASE j # n + 1
      BY <1>4, <2>1, <2>5, <3>3, <3>5 DEF Visited
    <3> QED BY <3>4, <3>5
  <2> QED BY <1>4, <2>2, <2>3, <2>5 DEF Visited
<1> QED BY <1>2, <1>3, <1>4

\* A walk that sent nothing visited nobody.
LEMMA NoneVisited == ASSUME NEW ms, SentFor(ms) = {} PROVE Visited(ms, 0)
<1>1. 1..0 = {}
  OBVIOUS
<1> QED BY <1>1 DEF Visited

\* Walks are told from what was sent.
LEMMA VisitedSame ==
    ASSUME sent' = sent, NEW ms
    PROVE  SentFor(ms)' = SentFor(ms) /\ \A k : Visited(ms, k)' <=> Visited(ms, k)
  BY DEF SentFor, Visited

\* ... and one request sent by any of the calls or handlers.
LEMMA SendVisits ==
    ASSUME Types, NEW m, NEW u, Sends(m, u), NEW ms
    PROVE  /\ method' = m
           /\ m \notin ms => SentFor(ms)' = SentFor(ms) /\ \A k : Visited(ms, k) => Visited(ms, k)'
           /\ \A k \in Nat : m \in ms /\ u = k + 1 /\ Visited(ms, k) => Visited(ms, k + 1)'
<1>1. PICK r \in Requests : sent' = Append(sent, r) /\ r.method = m /\ r.uri = u
  BY DEF Sends
<1> QED BY <1>1, SentGrows DEF Sends

\* options, describe and announce come before any walk.
LEMMA EarlyFlow ==
    ASSUME Lockstep, Flow, NEW api \in FirstApis \ {"setup"}, Calls(api),
           NEW m \in Early, NEW u, Sends(m, u)
    PROVE  Flow'
<1>1. todo = <<api>> /\ api \in Apis /\ todo' = <<>> /\ callbacks' = callbacks
  BY CallFacts
<1>2. method = "OPTIONS" /\ (Playing' <=> Playing)
  BY <1>1, PlayingSame DEF Lockstep, Phase
<1>3. m \notin {"SETUP"} /\ m \notin Starts /\ m \notin {"PAUSE", "TEARDOWN"}
  BY DEF Early, Starts
<1>4. method' = m /\ SentFor({"SETUP"})' = SentFor({"SETUP"}) /\ SentFor(Starts)' = SentFor(Starts)
  BY <1>3, SendVisits DEF Lockstep
<1>5. SentFor({"SETUP"}) = {} /\ SentFor(Starts) = {} /\ ~Playing
  BY <1>2 DEF Flow, Before, Early
<1>6. Before'
  BY <1>2, <1>4, <1>5 DEF Before
<1>7. Asking' /\ SetUp' /\ Walking' /\ Calling'
  BY <1>1, <1>2, <1>3, <1>4, <1>5 DEF Asking, SetUp, Walking, Calling
<1> QED BY <1>6, <1>7 DEF Flow

\* setup of no media begins no walk.
LEMMA SetupNothingFlow == ASSUME Lockstep, Flow, SetupNothing PROVE Flow'
<1>1. Calls("setup") /\ UNCHANGED <<method, mediaStep, transports, setupIter, open, sent>>
  BY DEF SetupNothing, authVars, walkVars
<1>2. todo = <<"setup">> /\ todo' = <<>> /\ UNCHANGED <<then, aggregate, callbacks, peerSession>>
  BY <1>1, CallFacts
<1>3. method \in Early /\ (Playing' <=> Playing)
  BY <1>2, PlayingSame DEF Lockstep, Phase, Apis, FirstApis, Early
<1>4. ~Playing /\ SentFor({"SETUP"}) = {} /\ SentFor(Starts) = {}
  BY <1>3 DEF Flow, Before
<1>5. SentFor({"SETUP"})' = SentFor({"SETUP"}) /\ SentFor(Starts)' = SentFor(Starts)
  BY <1>1, VisitedSame
<1>6. method # "SETUP" /\ method \notin Starts
  BY <1>3 DEF Early, Starts
<1> QED BY <1>1, <1>2, <1>3, <1>4, <1>5, <1>6 DEF Flow, Before, Asking, SetUp, Walking, Calling

\* setup begins the first walk.
LEMMA SetupFlow == ASSUME Lockstep, Flow, Setup PROVE Flow'
<1>1. /\ Calls("setup") /\ Issue(open, "SETUP", <<1>>) /\ setupIter' = 1
  BY DEF Setup, Lockstep, LastIsOpen
<1>2. /\ todo = <<"setup">> /\ todo' = <<>> /\ open = <<>> /\ callbacks' = callbacks /\ then' = then
  BY <1>1, CallFacts
<1>3. 1 \in 0..NMedia /\ "SETUP" \in Methods
  BY ClientAssumption DEF Methods
<1>4. Sends("SETUP", 1) /\ Original'
  BY <1>1, <1>2, <1>3, IssueOne DEF Lockstep
<1>5. method \in {"DESCRIBE", "ANNOUNCE"}
  BY <1>2 DEF Lockstep, Phase, Apis, FirstApis
<1>6. SentFor({"SETUP"}) = {} /\ SentFor(Starts) = {} /\ ~Playing /\ then = "nothing" /\ ~Playing'
  BY <1>2, <1>5, PlayingSame DEF Flow, Before, Early, Lockstep, Phase
<1>7. method' = "SETUP" /\ SentFor(Starts)' = {} /\ Visited({"SETUP"}, 1)'
  <2>1. "SETUP" \notin Starts /\ "SETUP" \in {"SETUP"} /\ 0 \in Nat /\ 1 = 0 + 1 /\ 0 + 1 = 1
    BY DEF Starts
  <2>2. Visited({"SETUP"}, 0)
    BY <1>6, NoneVisited
  <2>3. Visited({"SETUP"}, 0 + 1)'
    BY <1>4, <2>1, <2>2, SendVisits DEF Lockstep
  <2>4. SentFor(Starts)' = SentFor(Starts)
    BY <1>4, <2>1, SendVisits DEF Lockstep
  <2> QED BY <1>4, <1>6, <2>1, <2>3, <2>4 DEF Sends, Visited
<1>8. SetupOpen'
  <2>1. \A i \in 1..(1 - 1) : transports'[i]
    OBVIOUS
  <2> QED BY <1>1, <1>2, <1>4, <1>6, <1>7, <2>1 DEF SetupOpen, Visited
<1>9. Before' /\ Asking' /\ SetUp' /\ Walking' /\ Calling'
  BY <1>2, <1>6, <1>7, <1>8 DEF Before, Asking, SetUp, Walking, Calling, Early, Starts
<1> QED BY <1>9 DEF Flow

\* A call that the callbacks left to the user, or the one after the last SETUP.
LEMMA WalkFlow ==
    ASSUME Lockstep, Flow, NEW api \in WalkApis, NEW m \in {"PLAY", "RECORD", "PAUSE", "TEARDOWN"},
           Walk(api, m)
    PROVE  Flow'
<1>1. /\ Calls(api) /\ UNCHANGED <<transports, setupIter>>
      /\ m \notin Early \cup {"SETUP"} /\ api \notin FirstApis
      /\ Original' /\ (~aggregate => mediaStep' = 1)
  BY WalkSends
<1>2. PICK u \in 0..NMedia : Sends(m, u) /\ (~aggregate => u = 1)
  BY WalkSends
<1>3. /\ todo = <<api>> /\ api \in Apis /\ todo' = <<>> /\ UNCHANGED <<callbacks, aggregate, peerSession>>
  BY <1>1, CallFacts
<1>4. (Playing' <=> Playing) /\ method \notin Early
  BY <1>1, <1>3, PlayingSame DEF Lockstep, Phase
<1>5. method' = m /\ \A k : Visited({"SETUP"}, k) => Visited({"SETUP"}, k)'
  BY <1>1, <1>2, SendVisits DEF Lockstep
<1>6. SetUp'
  <2>1. Visited({"SETUP"}, NMedia) /\ peerSession /\ \A i \in DOMAIN transports : transports[i]
    <3>1. CASE method = "SETUP"
      <4>1. SetupDone
        BY <1>3, <3>1 DEF Flow, Asking, SetupOpen, SetupFailed
      <4>2. setupIter = NMedia
        BY <1>3, <4>1, ClientAssumption DEF SetupDone, Lockstep, Turn
      <4>3. DOMAIN transports = 1..NMedia
        BY <1>4 DEF Lockstep, Phase, Types
      <4> QED BY <4>1, <4>2, <4>3 DEF SetupDone
    <3>2. CASE method # "SETUP"
      BY <1>4, <3>2 DEF Flow, SetUp
    <3> QED BY <3>1, <3>2
  <2> QED BY <1>1, <1>3, <1>5, <2>1 DEF SetUp, Visited
<1>7. Walking'
  <2>1. SUFFICES ASSUME ~aggregate PROVE Walking'
    BY <1>3 DEF Walking
  <2>2. method = "SETUP"
    BY <1>3, <2>1 DEF Flow, Calling
  <2>3. SentFor(Starts) = {} /\ ~Playing
    BY <2>2 DEF Flow, Asking
  <2>4. ASSUME m \in Starts PROVE StartOpen'
    <3>1. Visited(Starts, 0) /\ 0 \in Nat /\ u = 0 + 1 /\ 0 + 1 = 1
      BY <1>2, <2>1, <2>3, NoneVisited
    <3>2. Visited(Starts, 0 + 1)'
      BY <1>2, <2>4, <3>1, SendVisits DEF Lockstep
    <3> QED BY <1>1, <2>1, <3>1, <3>2 DEF StartOpen, Visited
  <2> QED BY <1>4, <1>5, <2>3, <2>4 DEF Walking
<1>8. Before' /\ Asking' /\ Calling'
  BY <1>1, <1>3, <1>5 DEF Before, Asking, Calling
<1> QED BY <1>6, <1>7, <1>8 DEF Flow

\* Keep-alives are no part of a walk.
LEMMA KeepAliveFlow ==
    ASSUME Lockstep, Flow, NEW api \in {"getParmeters", "setParmeters"}, Calls(api),
           NEW m \in {"GET_PARAMETER", "SET_PARAMETER"}, NEW u, Sends(m, u),
           UNCHANGED <<transports, setupIter>>
    PROVE  Flow'
<1>1. todo = <<api>> /\ api \in Apis /\ todo' = <<>> /\ UNCHANGED <<callbacks, aggregate, peerSession>>
  BY CallFacts
<1>2. (Playing' <=> Playing) /\ method \notin Early
  BY <1>1, PlayingSame DEF Lockstep, Phase, FirstApis
<1>3. method # "SETUP"
  BY <1>1 DEF Flow, Asking, SetupOpen, SetupDone, SetupFailed
<1>4. m \notin Early \cup {"SETUP"} /\ m \notin Starts /\ m \notin {"PAUSE", "TEARDOWN"}
  BY DEF Early, Starts
<1>5. /\ method' = m /\ \A k : Visited({"SETUP"}, k) => Visited({"SETUP"}, k)'
      /\ \A k : Visited(Starts, k) => Visited(Starts, k)'
  BY <1>4, SendVisits DEF Lockstep
<1>6. SetUp'
  BY <1>1, <1>2, <1>3, <1>5 DEF Flow, SetUp, Visited
<1>7. Walking'
  BY <1>1, <1>2, <1>4, <1>5 DEF Flow, Walking, Visited
<1>8. Before' /\ Asking' /\ Calling'
  BY <1>1, <1>4, <1>5 DEF Before, Asking, Calling
<1> QED BY <1>6, <1>7, <1>8 DEF Flow

\* The application calls what its flow asks for next.
LEMMA ApiFlow == ASSUME Lockstep, Flow, ApiCall PROVE Flow'
<1>1. uri \in 0..NMedia
  BY DEF Lockstep, Types
<1>2. ASSUME NEW api, NEW m \in Methods, Plain(api, m)
      PROVE  Calls(api) /\ Sends(m, uri) /\ UNCHANGED <<transports, setupIter>>
  <2>1. Calls(api) /\ Issue(open, m, <<uri>>) /\ UNCHANGED <<transports, setupIter>>
    BY <1>2 DEF Plain, walkVars
  <2>2. open = <<>>
    BY <2>1, CallFacts
  <2> QED BY <1>1, <2>1, <2>2, IssueOne DEF Lockstep
<1>3. CASE Plain("options", "OPTIONS")
  BY <1>2, <1>3, EarlyFlow DEF Early, FirstApis, Methods
<1>4. CASE Plain("describe", "DESCRIBE")
  BY <1>2, <1>4, EarlyFlow DEF Early, FirstApis, Methods
<1>5. CASE Plain("getParmeters", "GET_PARAMETER")
  BY <1>2, <1>5, KeepAliveFlow DEF Methods
<1>6. CASE Plain("setParmeters", "SET_PARAMETER")
  BY <1>2, <1>6, KeepAliveFlow DEF Methods
<1>7. CASE Announce
  <2>1. Calls("announce") /\ Issue(open, "ANNOUNCE", <<uri>>)
    BY <1>7 DEF Announce
  <2>2. open = <<>> /\ "ANNOUNCE" \in Methods
    BY <2>1, CallFacts DEF Methods
  <2>3. Sends("ANNOUNCE", uri)
    BY <1>1, <2>1, <2>2, IssueOne DEF Lockstep
  <2> QED BY <2>1, <2>3, EarlyFlow DEF Early, FirstApis
<1>8. CASE Setup \/ SetupNothing
  BY <1>8, SetupFlow, SetupNothingFlow
<1>9. CASE WalkCall
  <2>1. {"play", "record", "pause", "teardown"} \subseteq WalkApis
    BY DEF WalkApis
  <2> QED BY <1>9, <2>1, WalkFlow DEF WalkCall
<1>10. ~StartPipeline /\ ~StopPipeline
  <2>1. ASSUME NEW api \in {"startPipeline", "stopPipeline"}, Calls(api) PROVE FALSE
    <3>1. api \in Apis
      BY <2>1, CallFacts
    <3> QED BY <3>1 DEF Apis, FirstApis, WalkApis
  <2> QED BY <2>1 DEF StartPipeline, StopPipeline
<1> QED BY <1>3, <1>4, <1>5, <1>6, <1>7, <1>8, <1>9, <1>10 DEF ApiCall, PlainCall

\* While the stream plays no walk is under way.
LEMMA UserFlow == ASSUME ~Overlap, ~SecondWalk, Lockstep, Flow, UserCall PROVE Flow'
<1>1. /\ pc = "idle" /\ Playing
      /\ UNCHANGED <<method, mediaStep, transports, setupIter, open, peerSession, aggregate, sent, callbacks>>
  BY DEF UserCall, authVars, walkVars, peerVars, worldVars
<1>2. PICK api \in UserCalls : (api \in {"getParmeters", "setParmeters"} \/ aggregate) /\ todo' = <<api>>
  BY DEF UserCall
<1>3. \A a \in WalkApis : todo' = <<a>> => aggregate
  BY <1>2 DEF WalkApis
<1>4. Playing' /\ method \notin Early /\ method # "SETUP"
  BY <1>1, PlayingSame DEF Lockstep, Phase, Flow, Asking
<1>5. Before' /\ Asking' /\ Calling'
  BY <1>1, <1>3, <1>4 DEF Before, Asking, Calling
<1>6. SetUp'
  BY <1>1, <1>4, VisitedSame DEF Flow, SetUp, Visited
<1>7. Walking'
  BY <1>1, <1>4, VisitedSame DEF Flow, Walking, Visited
<1> QED BY <1>5, <1>6, <1>7 DEF Flow

\* The repetition of a SETUP lacks its transport, that of a PLAY the session.
LEMMA RepeatFlow ==
    ASSUME Lockstep, Flow, NEW q, NEW res, Answered(q, res), Accepted(q, res), HandleUnAuth(q, <<>>)
    PROVE  Flow'
<1>1. PICK r : r = [MakeRequest(-cseq, method, uri) EXCEPT
                      !.auth = TRUE, !.session = FALSE, !.pipe = 0, !.transport = FALSE,
                      !.again = <<q.method, q.uri>>]
  OBVIOUS
<1>2. /\ r.method = method /\ ~r.session /\ ~r.transport /\ r.again # <<>>
      /\ r = [cseq |-> -cseq, method |-> method, uri |-> uri, auth |-> TRUE, session |-> FALSE,
              pipe |-> 0, transport |-> FALSE, again |-> <<method, uri>>]
  BY <1>1 DEF MakeRequest, Answered
<1>3. open' = <<r>> /\ sent' = Append(sent, r)
  BY <1>1 DEF HandleUnAuth
<1>4. UNCHANGED <<method, mediaStep, transports, setupIter, then, todo, callbacks>>
  BY DEF HandleUnAuth, NoCallback, walkVars
<1>5. method \in Methods /\ uri \in 0..NMedia /\ cseq \in Nat
  BY DEF Lockstep, Types
<1>6. r \in Requests
  <2>1. <<method, uri>> \in Repeated
    BY <1>5, Zenon DEF Repeated
  <2>2. -cseq \in Int /\ 0 \in Nat
    BY <1>5
  <2> QED BY <1>2, <1>5, <2>1, <2>2 DEF Requests
<1>7. \A ms : method \notin ms => SentFor(ms)' = SentFor(ms) /\ \A k : Visited(ms, k) => Visited(ms, k)'
  BY <1>2, <1>3, <1>6, SentGrows DEF Lockstep
<1>8. /\ then = "nothing" /\ todo = <<>> /\ open # <<>> /\ aggregate' = aggregate /\ (Playing' <=> Playing)
      /\ peerSession => peerSession'
  BY <1>4, PlayingSame DEF Lockstep, Turn, Answered, Accepted
<1>9. open'[1] = r /\ open' # <<>>
  BY <1>3
<1>10. Before'
  BY <1>4, <1>7, <1>8 DEF Flow, Before, Early, Starts
<1>11. Asking'
  <2> SUFFICES ASSUME method = "SETUP" PROVE Asking'
    BY <1>4 DEF Asking
  <2>1. SentFor(Starts)' = {} /\ ~Playing'
    BY <1>7, <1>8 DEF Flow, Asking, Starts
  <2>2. SetupFailed'
    BY <1>2, <1>4, <1>8, <1>9 DEF SetupFailed
  <2> QED BY <2>1, <2>2 DEF Asking
<1>12. SetUp'
  BY <1>4, <1>7, <1>8 DEF Flow, SetUp, Visited
<1>13. Walking'
  <2> SUFFICES ASSUME ~aggregate PROVE Walking'
    BY <1>8 DEF Walking
  <2>1. StartFailed'
    BY <1>2, <1>4, <1>8, <1>9 DEF StartFailed
  <2>2. Playing => method \notin Starts
    BY <1>8 DEF Flow, Walking
  <2>3. Playing => Visited(Starts, NMedia)' /\ method \notin {"PAUSE", "TEARDOWN"}
    BY <1>7, <2>2 DEF Flow, Walking
  <2> QED BY <1>4, <1>8, <2>1, <2>2, <2>3 DEF Walking, Visited
<1>14. Calling'
  BY <1>4, <1>8 DEF Calling
<1> QED BY <1>10, <1>11, <1>12, <1>13, <1>14 DEF Flow

\* A callback adds its kind to Playing.
LEMMA PlayingNext ==
    ASSUME Types, NEW q \in Requests, NEW res, res.ok \in BOOLEAN, NEW kind \in Methods \cup {"AUTH"},
           NEW after, Callback(kind, q, res, after)
    PROVE  Playing' <=> Playing \/ (res.ok /\ kind \in Starts)
<1>1. PICK c : c = [kind |-> kind, of |-> q.method, ok |-> res.ok]
  OBVIOUS
<1>2. c.kind = kind /\ c.ok = res.ok /\ c \in CallbackRecords /\ callbacks' = Append(callbacks, c)
  BY <1>1, RequestFacts DEF Callback, CallbackRecords
<1>3. PICK n \in Nat : /\ DOMAIN callbacks = 1..n /\ DOMAIN callbacks' = 1..(n + 1)
                       /\ callbacks'[n + 1] = c /\ \A i \in 1..n : callbacks'[i] = callbacks[i]
  BY <1>2, AppendProperties, LenProperties DEF Types
<1>4. n + 1 \in 1..(n + 1) /\ \A i \in 1..(n + 1) : i = n + 1 \/ i \in 1..n
  OBVIOUS
<1> QED BY <1>2, <1>3, <1>4 DEF Playing, Starts

\* A callback ends a SETUP or a walk, or tells of the media that were started.
LEMMA ReportFlow ==
    ASSUME ~pipelining, Lockstep, Flow, NEW q, NEW res, Answered(q, res), Accepted(q, res),
           NEW kind \in {q.method, "AUTH"}, kind # "SETUP", Callback(kind, q, res, "nothing"),
           open' = <<>>, UNCHANGED <<method, mediaStep, transports, setupIter, sent>>,
           kind \in Starts /\ res.ok /\ ~aggregate => mediaStep = NMedia
    PROVE  Flow'
<1>1. /\ pc = "idle" /\ todo = <<>> /\ open # <<>> /\ q = open[1] /\ q \in Requests /\ q.method = method
      /\ res.ok \in BOOLEAN /\ aggregate' = aggregate
  BY DEF Answered, Lockstep, Turn
<1>2. then' = "nothing" /\ todo' \in MayCall(kind, res.ok)
  BY DEF Callback
<1>3. todo' = <<>> \/ (kind \in Early /\ todo' \in {<<"announce">>, <<"describe">>, <<"setup">>})
  BY <1>1, <1>2, ScriptFacts DEF Early
<1>4. Playing' <=> Playing \/ (res.ok /\ kind \in Starts)
  <2>1. kind \in Methods \cup {"AUTH"}
    BY <1>1 DEF Lockstep, Types
  <2> QED BY <1>1, <2>1, PlayingNext DEF Lockstep
<1>5. kind = method \/ kind = "AUTH"
  BY <1>1
<1>6. peerSession => peerSession'
  BY DEF Accepted
<1>7. Before'
  BY <1>4, <1>5, VisitedSame DEF Flow, Before, Early, Starts
<1>8. Asking'
  <2> SUFFICES ASSUME method = "SETUP" PROVE Asking'
    BY DEF Asking
  <2>1. SetupFailed'
    BY <1>2, <1>3, <1>5 DEF SetupFailed, Early
  <2> QED BY <1>4, <1>5, <2>1, VisitedSame DEF Flow, Asking, Starts
<1>9. SetUp'
  BY <1>6, VisitedSame DEF Flow, SetUp, Visited
<1>10. Walking'
  <2> SUFFICES ASSUME ~aggregate PROVE Walking'
    BY <1>1 DEF Walking
  <2>1. method \in Starts => StartFailed'
    BY <1>3, <1>5 DEF StartFailed, Early, Starts
  <2>2. CASE Playing
    BY <1>4, <2>1, <2>2, VisitedSame DEF Flow, Walking, Visited
  <2>3. CASE ~Playing /\ res.ok /\ kind \in Starts
    <3>1. method \in Starts /\ mediaStep = NMedia /\ method \notin Early \cup {"SETUP"}
      BY <1>5, <2>3 DEF Starts, Early
    <3>2. peerSession
      BY <3>1 DEF Flow, SetUp
    <3>3. q.session
      BY <2>3, <3>2 DEF Accepted
    <3>4. Visited(Starts, NMedia)
      BY <1>1, <2>3, <3>1, <3>3 DEF Flow, Walking, StartOpen, StartFailed
    <3> QED BY <1>4, <2>1, <3>1, <3>4, VisitedSame DEF Walking, Visited, Starts
  <2>4. CASE ~Playing /\ ~(res.ok /\ kind \in Starts)
    BY <1>4, <2>1, <2>4 DEF Walking
  <2> QED BY <2>2, <2>3, <2>4
<1>11. Calling'
  BY <1>3 DEF Calling, WalkApis
<1> QED BY <1>7, <1>8, <1>9, <1>10, <1>11 DEF Flow

\* A refused request ends the flow.
LEMMA SessionErrorFlow ==
    ASSUME Lockstep, Flow, NEW q, NEW res, Answered(q, res), Accepted(q, res), SessionError(<<>>)
    PROVE  Flow'
<1>1. /\ open' = <<>> /\ todo = <<>> /\ then = "nothing" /\ aggregate' = aggregate
      /\ UNCHANGED <<method, mediaStep, transports, setupIter, sent, then, todo, callbacks>>
      /\ peerSession => peerSession'
  BY DEF SessionError, NoCallback, authVars, walkVars, Lockstep, Turn, Answered, Accepted
<1>2. Playing' <=> Playing
  BY <1>1, PlayingSame
<1>3. SetupFailed' /\ StartFailed'
  BY <1>1 DEF SetupFailed, StartFailed
<1>4. Before' /\ Asking' /\ Calling'
  BY <1>1, <1>2, <1>3, VisitedSame DEF Flow, Before, Asking, Calling
<1>5. SetUp'
  BY <1>1, VisitedSame DEF Flow, SetUp, Visited
<1>6. Walking'
  BY <1>1, <1>2, <1>3, VisitedSame DEF Flow, Walking, Visited
<1> QED BY <1>4, <1>5, <1>6 DEF Flow

\* The transport is for the medium asked for last; after the last the stream starts.
LEMMA HandleSetupFlow ==
    ASSUME ~pipelining, Lockstep, Flow, NEW q, NEW res, Answered(q, res), Accepted(q, res),
           HandleSetup(q, res, <<>>)
    PROVE  Flow'
<1>1. /\ method = "SETUP" /\ q.method = "SETUP" /\ q = open[1] /\ open # <<>> /\ pc = "idle"
      /\ q \in Requests /\ res.ok \in BOOLEAN /\ (res.ok => res.transport)
      /\ then = "nothing" /\ todo = <<>>
  BY DEF HandleSetup, Answered, Lockstep, Turn
<1>2. /\ setupIter \in 1..NMedia /\ Len(transports) = NMedia /\ setups = setupIter - 1 /\ NMedia \in Nat
      /\ DOMAIN transports = 1..NMedia
  BY <1>1, ClientAssumption DEF Lockstep, Phase, Early, Types
<1>3. PICK after : after = IF res.ok THEN "nextSetup" ELSE "nothing"
  OBVIOUS
<1>4. /\ Callback("SETUP", q, res, after) /\ open' = <<>>
      /\ transports' = (IF res.ok THEN [transports EXCEPT ![setupIter] = TRUE] ELSE transports)
      /\ UNCHANGED <<method, mediaStep, setupIter, sent>>
  BY <1>1, <1>2, <1>3 DEF HandleSetup, authVars
<1>5. then' = after /\ todo' \in MayCall("SETUP", res.ok)
  BY <1>4 DEF Callback
<1>6. SentFor(Starts)' = {} /\ ~Playing'
  <2>1. "SETUP" \in Methods \cup {"AUTH"} /\ "SETUP" \notin Starts
    BY DEF Methods, Starts
  <2>2. Playing' <=> Playing
    BY <1>1, <1>4, <2>1, PlayingNext DEF Lockstep
  <2> QED BY <1>1, <1>4, <2>2, VisitedSame DEF Flow, Asking
<1>7. ASSUME res.ok PROVE SetupDone'
  <2>1. q.transport /\ peerSession'
    BY <1>1, <1>7 DEF Accepted
  <2>2. SetupOpen
    BY <1>1, <2>1 DEF Flow, Asking, SetupDone, SetupFailed
  <2>3. Visited({"SETUP"}, setupIter)'
    BY <1>4, <2>2, VisitedSame DEF SetupOpen, Visited
  <2>4. \A i \in 1..setupIter : transports'[i]
    <3> TAKE i \in 1..setupIter
    <3>1. i \in 1..NMedia /\ (i = setupIter \/ i \in 1..(setupIter - 1))
      BY <1>2
    <3> QED BY <1>2, <1>4, <1>7, <2>2, <3>1 DEF SetupOpen
  <2>5. /\ todo' \in {<<>>, <<"play">>, <<"record">>}
        /\ setupIter = NMedia => todo' # <<>>
    <3>1. CASE setupIter = NMedia
      <4>1. todo' = <<StreamCall>>
        BY <1>2, <1>5, <1>7, <3>1 DEF Script, MayCall
      <4> QED BY <4>1 DEF StreamCall
    <3>2. CASE setupIter # NMedia
      BY <1>1, <1>2, <1>5, <3>2, ScriptWaits
    <3> QED BY <3>1, <3>2
  <2> QED BY <1>3, <1>4, <1>5, <1>7, <2>1, <2>3, <2>4, <2>5 DEF SetupDone, Visited
<1>8. ASSUME ~res.ok PROVE SetupFailed'
  BY <1>1, <1>3, <1>4, <1>5, <1>8, ScriptWaits DEF SetupFailed
<1>9. Asking'
  BY <1>1, <1>6, <1>7, <1>8 DEF Asking
<1>10. Before' /\ SetUp' /\ Walking' /\ Calling'
  BY <1>1, <1>4, <1>6 DEF Before, SetUp, Walking, Calling, Early, Starts
<1> QED BY <1>9, <1>10 DEF Flow

\* The next medium of a walk: only an accepted PLAY or RECORD goes on.
LEMMA ContinueFlow ==
    ASSUME IInv, Lockstep, Flow, NEW q, NEW res, Answered(q, res), Accepted(q, res),
           ContinueWalk(q, res, <<>>)
    PROVE  Flow'
<1>1. /\ method \in {"PLAY", "RECORD", "PAUSE", "TEARDOWN"} /\ ~WalkEnds(res)
      /\ StepWalk(<<>>, method, <<mediaStep + 1>>)
      /\ UNCHANGED <<transports, setupIter, then, todo, callbacks>>
      /\ todo = <<>> /\ open # <<>> /\ q = open[1] /\ aggregate' = aggregate
      /\ peerSession => peerSession'
  BY DEF ContinueWalk, NoCallback, Lockstep, Turn, Answered, Accepted
<1>2. method \in Methods /\ method \notin Early \cup {"SETUP"}
  BY <1>1 DEF Early, Methods
<1>3. medias = NMedia /\ mediaStep \in 0..NMedia /\ NMedia \in Nat /\ ~isAggregate /\ ~aggregate
  BY <1>1, <1>2, ClientAssumption DEF Lockstep, Phase, Types, WalkEnds, IInv, World
<1>4. mediaStep < medias
  BY <1>1, <1>3 DEF WalkEnds
<1>5. Issue(<<>>, method, <<mediaStep + 1>>) /\ mediaStep' = mediaStep + 1
  BY <1>1, <1>3, <1>4 DEF StepWalk
<1>6. mediaStep + 1 \in 0..NMedia
  BY <1>3, <1>4
<1>7. Sends(method, mediaStep + 1) /\ Original'
  BY <1>2, <1>5, <1>6, IssueOne DEF Lockstep
<1>8. /\ method' = method /\ \A k : Visited({"SETUP"}, k) => Visited({"SETUP"}, k)'
      /\ \A k \in Nat : method \in Starts /\ mediaStep + 1 = k + 1 /\ Visited(Starts, k)
                           => Visited(Starts, k + 1)'
  <2>1. method \notin {"SETUP"}
    BY <1>2
  <2> QED BY <1>7, <2>1, SendVisits DEF Lockstep
<1>9. ~Playing /\ ~Playing'
  BY <1>1, <1>3, PlayingSame DEF Flow, Walking, Starts
<1>10. SetUp'
  BY <1>1, <1>2, <1>8 DEF Flow, SetUp, Visited
<1>11. Walking'
  <2> SUFFICES ASSUME method \in Starts PROVE StartOpen'
    BY <1>8, <1>9 DEF Walking
  <2>1. res.ok
    BY <1>1 DEF WalkEnds, Starts
  <2>2. peerSession
    BY <1>2 DEF Flow, SetUp
  <2>3. q.session
    BY <2>1, <2>2 DEF Accepted
  <2>4. StartOpen
    BY <1>1, <1>3, <1>9, <2>3 DEF Flow, Walking, StartFailed
  <2>5. PICK k \in Nat : k = mediaStep
    BY <1>3
  <2>6. Visited(Starts, k + 1)'
    BY <1>8, <2>4, <2>5 DEF StartOpen
  <2> QED BY <1>5, <1>7, <2>5, <2>6 DEF StartOpen, Visited
<1>12. Before' /\ Asking' /\ Calling'
  BY <1>1, <1>2, <1>8 DEF Before, Asking, Calling
<1> QED BY <1>10, <1>11, <1>12 DEF Flow

\* A response leads to the next request of the flow.
LEMMA ResponseFlow ==
    ASSUME IInv, ~pipelining, Lockstep, Flow, HandleResponse
    PROVE  Flow'
<1>1. PICK q, res : Answered(q, res) /\ Accepted(q, res) /\ Receive(q, res, <<>>)
  BY OneHandled
<1>2. CASE HandleUnAuth(q, <<>>)
  BY <1>1, <1>2, RepeatFlow
<1>3. CASE AuthFailed(q, res, <<>>)
  <2>1. /\ Callback("AUTH", q, res, "nothing") /\ "AUTH" \in {q.method, "AUTH"}
        /\ "AUTH" # "SETUP" /\ "AUTH" \notin Starts
        /\ open' = <<>> /\ UNCHANGED <<method, mediaStep, transports, setupIter, sent>>
    BY <1>3 DEF AuthFailed, Starts, authVars, walkVars
  <2> QED BY <1>1, <2>1, ReportFlow
<1>4. CASE SessionError(<<>>)
  BY <1>1, <1>4, SessionErrorFlow
<1>5. CASE HandlePlain(q, res, <<>>) \/ ReportWalk(q, res, <<>>) \/ HandleDescribe(q, res, <<>>)
  <2>1. PICK kind : kind = method
    OBVIOUS
  <2>2. q.method = method
    BY <1>1 DEF Answered
  <2>3. /\ kind \in {q.method, "AUTH"} /\ kind # "SETUP" /\ Callback(kind, q, res, "nothing")
        /\ open' = <<>> /\ UNCHANGED <<method, mediaStep, transports, setupIter, sent>>
    BY <1>5, <2>1, <2>2, Zenon DEF HandlePlain, ReportWalk, HandleDescribe, authVars, walkVars
  <2>4. kind \in Starts /\ res.ok /\ ~aggregate => mediaStep = NMedia
    <3> SUFFICES ASSUME kind \in Starts, res.ok, ~aggregate PROVE mediaStep = NMedia
      OBVIOUS
    <3>1. ReportWalk(q, res, <<>>)
      BY <1>5, <2>1 DEF HandlePlain, HandleDescribe, Starts
    <3>2. medias = NMedia /\ ~isAggregate /\ mediaStep \in 0..NMedia /\ NMedia \in Nat
      BY <2>1, ClientAssumption DEF Lockstep, Phase, Types, Early, Starts
    <3>3. mediaStep >= medias
      BY <3>1, <3>2 DEF ReportWalk, WalkEnds
    <3> QED BY <3>2, <3>3
  <2> QED BY <1>1, <2>3, <2>4, ReportFlow
<1>6. CASE HandleSetup(q, res, <<>>)
  BY <1>1, <1>6, HandleSetupFlow
<1>7. CASE ContinueWalk(q, res, <<>>)
  BY <1>1, <1>7, ContinueFlow
<1>8. ~(res.pipe > 0)
  BY <1>1 DEF Answered
<1> QED BY <1>1, <1>2, <1>3, <1>4, <1>5, <1>6, <1>7, <1>8 DEF Receive

\* The handler asks for the next medium.
LEMMA ReturnFlow == ASSUME Lockstep, Flow, Return PROVE Flow'
<1>1. /\ then' = "nothing" /\ todo = <<>> /\ todo' = <<>>
      /\ UNCHANGED <<mediaStep, transports, peerSession, aggregate, callbacks>>
  BY DEF Return, peerVars, worldVars
<1>2. Playing' <=> Playing
  BY <1>1, PlayingSame
<1>3. CASE method = "SETUP" /\ then = "nextSetup"
  <2>1. SetupDone /\ SentFor(Starts) = {} /\ ~Playing
    BY <1>3 DEF Flow, Asking, SetupOpen, SetupFailed
  <2>2. /\ setupIter \in 1..NMedia /\ setupIter < NMedia /\ NMedia \in Nat /\ Len(transports) = NMedia
        /\ open = <<>>
    BY <1>1, <1>3, <2>1, ClientAssumption DEF SetupDone, Lockstep, Turn, Phase, Early
  <2>3. setupIter' = setupIter + 1
    BY <1>3 DEF Return, NextAfter
  <2>4. Issue(<<>>, "SETUP", <<setupIter + 1>>) /\ setupIter + 1 \in 0..NMedia
    BY <1>3, <2>2, <2>3 DEF Return
  <2>5. Sends("SETUP", setupIter + 1) /\ Original'
    BY <2>4, IssueOne DEF Lockstep, Methods
  <2>0. PICK k \in Nat : k = setupIter
    BY <2>2
  <2>6. method' = "SETUP" /\ SentFor(Starts)' = {} /\ Visited({"SETUP"}, k + 1)'
    <3>1. "SETUP" \notin Starts /\ "SETUP" \in {"SETUP"}
      BY DEF Starts
    <3>2. SentFor(Starts)' = SentFor(Starts) /\ method' = "SETUP"
      BY <2>5, <3>1, SendVisits DEF Lockstep
    <3>3. Visited({"SETUP"}, k + 1)'
      BY <2>1, <2>5, <2>0, <3>1, SendVisits DEF SetupDone, Lockstep
    <3> QED BY <2>1, <3>2, <3>3
  <2>7. \A i \in 1..(setupIter' - 1) : transports'[i]
    BY <1>1, <2>1, <2>2, <2>3 DEF SetupDone
  <2>8. SetupOpen'
    BY <1>1, <2>3, <2>5, <2>6, <2>7, <2>0 DEF SetupOpen, Visited
  <2> QED BY <1>1, <1>2, <2>1, <2>6, <2>8 DEF Flow, Before, Asking, SetUp, Walking, Calling, Early, Starts
<1>4. CASE ~(method = "SETUP" /\ then = "nextSetup")
  <2>1. UNCHANGED <<method, open, sent>> /\ (method = "SETUP" => setupIter' = setupIter)
    <3>1. CASE then # "nextSetup"
      BY <3>1 DEF Return, authVars
    <3>2. CASE then = "nextSetup"
      <4>1. setupIter \in 1..NMedia /\ ~(setupIter < NMedia) /\ Len(transports) = NMedia /\ NMedia \in Nat
        BY <1>4, <3>2, ClientAssumption DEF Lockstep, Turn, Phase
      <4>2. ~(setupIter' <= Len(transports))
        BY <3>2, <4>1 DEF Return, NextAfter
      <4> QED BY <1>4, <3>2, <4>2 DEF Return, authVars
    <3> QED BY <3>1, <3>2
  <2>2. SetUp' /\ Before' /\ Calling'
    BY <1>1, <1>2, <2>1, VisitedSame DEF Flow, SetUp, Before, Calling, Visited
  <2>3. Walking'
    BY <1>1, <1>2, <2>1, VisitedSame DEF Flow, Walking, StartOpen, StartFailed, Original, Visited
  <2>4. Asking'
    <3> SUFFICES ASSUME method = "SETUP" PROVE Asking'
      BY <2>1 DEF Asking
    <3>1. SetupOpen \/ SetupFailed
      BY <1>4 DEF Flow, Asking, SetupDone
    <3>2. SetupOpen' \/ SetupFailed'
      BY <1>1, <2>1, <3>1, VisitedSame DEF SetupOpen, SetupFailed, Original, Visited
    <3> QED BY <1>2, <2>1, <3>2, VisitedSame DEF Flow, Asking
  <2> QED BY <2>2, <2>3, <2>4 DEF Flow
<1> QED BY <1>3, <1>4

\* Nothing changes when nothing happens.
LEMMA StutterFlow == ASSUME Flow, UNCHANGED vars PROVE Flow'
<1>1. UNCHANGED <<method, mediaStep, transports, setupIter, then, todo, open, peerSession, aggregate, sent,
                  callbacks>>
  BY DEF vars, authVars, walkVars, pipeVars, appVars, peerVars, worldVars
<1>2. Before' /\ Calling' /\ SetUp'
  BY <1>1, PlayingSame, VisitedSame DEF Flow, Before, Calling, SetUp, Visited
<1>3. Asking'
  BY <1>1, PlayingSame, VisitedSame
     DEF Flow, Asking, SetupOpen, SetupDone, SetupFailed, Original, Visited
<1>4. Walking'
  BY <1>1, PlayingSame, VisitedSame DEF Flow, Walking, StartOpen, StartFailed, Original, Visited
<1> QED BY <1>2, <1>3, <1>4 DEF Flow

WalksInv == IInv /\ (~pipelining => Flow)

\* A client in lockstep asks for every medium before it starts any, and starts each
\* once, as far as the server accepts.
THEOREM WalksInvariant == ASSUME ~Overlap, ~SecondWalk PROVE Spec => []WalksInv
<1>1. Init => WalksInv
  <2> SUFFICES ASSUME Init PROVE Flow
    BY InitIInv DEF WalksInv
  <2> QED BY DEF Init, Flow, Before, Asking, SetUp, Walking, Calling, SentFor, Playing, Early, Starts, WalkApis
<1>2. WalksInv /\ [Next]_vars => WalksInv'
  <2> SUFFICES ASSUME WalksInv, [Next]_vars PROVE WalksInv'
    OBVIOUS
  <2>1. IInv' /\ pipelining' = pipelining
    BY StepKeeps
       DEF WalksInv, vars, Next, ApiCall, PlainCall, Plain, Announce, SetupNothing, Setup, WalkCall, Walk,
           StartPipeline, StopPipeline, Calls, UserCall, HandleResponse, Return, Quiet, peerVars, worldVars
  <2>2. ASSUME ~pipelining PROVE Flow'
    <3>1. IInv /\ Lockstep /\ Flow
      BY <2>2 DEF WalksInv, IInv
    <3> QED BY <2>2, <3>1, ApiFlow, UserFlow, ResponseFlow, ReturnFlow, StutterFlow DEF Next, Quiet
  <2> QED BY <2>1, <2>2 DEF WalksInv
<1> QED BY <1>1, <1>2, PTL DEF Spec

\* Without pipelining, when the first PLAY or RECORD goes out, every medium was
\* asked for by one SETUP, in the order of the description, and each transport
\* the server chose was put where its medium is (Rtsp2Client.cpp:238-275).
THEOREM StreamAlwaysAfterSetup == ASSUME ~Overlap, ~SecondWalk PROVE Spec => []StreamAfterSetup
<1>1. WalksInv => StreamAfterSetup
  <2> SUFFICES ASSUME WalksInv, ~pipelining, SentFor({"PLAY", "RECORD"}) # {}
               PROVE  EachOnce({"SETUP"}) /\ \A i \in DOMAIN transports : transports[i]
    BY DEF StreamAfterSetup
  <2>1. method \notin Early \cup {"SETUP"}
    BY DEF WalksInv, Flow, Before, Asking, Starts
  <2> QED BY <2>1 DEF WalksInv, Flow, SetUp, Visited, EachOnce
<1> QED BY WalksInvariant, <1>1, PTL

\* Without pipelining and without aggregate control, the one callback for PLAY
\* or RECORD follows a walk that started every medium once, and the walk is never taken up again.
THEOREM LockstepWalkVisitsEach ==
    ASSUME ~Overlap, ~SecondWalk PROVE Spec => [](~pipelining => WalkVisitsEach)
<1>1. WalksInv => (~pipelining => WalkVisitsEach)
  BY DEF WalksInv, Flow, Walking, WalkVisitsEach, Visited, EachOnce, Starts
<1> QED BY WalksInvariant, <1>1, PTL

-----------------------------------------------------------------------------
(* Pipelining.  The client is in lockstep until the description is known;   *)
(* then all SETUPs and the first PLAY or RECORD are sent at once, and their *)
(* responses are told apart by CSeq until none is left.                     *)

\* An id is drawn (randomInt may return 0, which is none), the peer refuses no
\* pipelined SETUP, and it challenges these requests only if it challenged OPTIONS.
PipelinedPeer ==
    /\ 0 \notin DrawnIds /\ TRUE \notin RefuseSetup
    /\ \A p \in Policies[TRUE] : p \cap {"SETUP", "PLAY", "RECORD"} # {} => "OPTIONS" \in p

Numbered(s) == \A i, j \in DOMAIN s : i # j => s[i].cseq # s[j].cseq
Setups == {r \in Range(open) : r.method = "SETUP"}

\* The credentials that the peer demands are known since OPTIONS.
Cleared == "OPTIONS" \in policy => needAuth /\ rightPassword
Unanswered ==
    /\ method = "OPTIONS" /\ todo \in {<<>>, <<"options">>}
    /\ open # <<>> /\ open[1].auth => needAuth

Peer == policy \in Policies[pipelining] /\ (hasSession => peerSession)

\* Nothing is pipelined yet, or everything was answered.
Single ==
    /\ Lockstep /\ method # "SETUP" /\ todo # <<"setup">>
    /\ Cleared \/ Unanswered

\* The response to this request is its own, whatever the others say.
Secured(r) ==
    /\ r.pipe > 0 /\ r.cseq < cseq /\ r.method \in {"SETUP"} \cup Starts
    /\ r.method = "SETUP" => r.transport
    /\ r.method \in policy => r.auth /\ rightPassword

Pipelined ==
    /\ Types /\ Defined /\ AnswersMatched /\ pipelines \in Seq(Requests) /\ pipeId \in Nat
    /\ then = "nothing" /\ medias = NMedia /\ isAggregate = aggregate /\ Cleared
    /\ Range(open) = Range(pipelines) /\ Numbered(open) /\ Numbered(pipelines)
    /\ \A r \in Range(open) : Secured(r)
    /\ IsFiniteSet(Setups) /\ Cardinality(Setups) + setups <= NMedia

\* The callback for the description has these calls left to make.
Unsent == open = <<>> /\ pipelines = <<>> /\ mediaStep = 0 /\ setups = 0 /\ method \in Early
Asked == method = "SETUP" /\ mediaStep = 0 /\ Len(transports) = NMedia
Starting ==
    /\ Pipelined /\ pc = "app"
    /\ \E api \in {"play", "record"} :
          \/ todo = <<"startPipeline", "setup", api, "stopPipeline">> /\ pipeId = 0 /\ Unsent
          \/ todo = <<"setup", api, "stopPipeline">> /\ pipeId > 0 /\ Unsent
          \/ todo = <<api, "stopPipeline">> /\ pipeId > 0 /\ Asked
          \/ /\ todo = <<"stopPipeline">> /\ pipeId > 0 /\ method \in Starts
             /\ Len(transports) = NMedia

\* All are sent, and their responses arrive.
Draining ==
    /\ Pipelined /\ todo = <<>> /\ pc \in {"idle", "app"} /\ pipeId = 0
    /\ method \in Starts /\ Len(transports) = NMedia

\* The description was refused and the application went on: nothing is sent, and
\* play or record looks for the first of no media.
Misled ==
    /\ Types /\ AnswersMatched /\ DescriptionRefused
    /\ open = <<>> /\ pipelines = <<>> /\ pipeId \in Nat /\ medias = 0 /\ ~isAggregate
    /\ \/ pc = "undefined"
       \/ /\ pc = "app"
          /\ \E api \in {"play", "record"} :
                todo \in {<<"startPipeline", "setup", api, "stopPipeline">>,
                          <<"setup", api, "stopPipeline">>, <<api, "stopPipeline">>}

PipelineInv == World /\ (pipelining => Peer /\ (Single \/ Starting \/ Draining \/ Misled))

\* One element is taken out of a sequence, the others keep their order.
LEMMA RemoveAtFacts ==
    ASSUME NEW S, NEW s \in Seq(S), NEW k \in DOMAIN s
    PROVE  /\ RemoveAt(s, k) \in Seq(S) /\ Len(RemoveAt(s, k)) = Len(s) - 1
           /\ DOMAIN RemoveAt(s, k) = 1..(Len(s) - 1)
           /\ \A j \in 1..(Len(s) - 1) : RemoveAt(s, k)[j] = IF j < k THEN s[j] ELSE s[j + 1]
<1>1. PICK n \in Nat : n = Len(s) /\ DOMAIN s = 1..n /\ \A i \in 1..n : s[i] \in S
  BY LenProperties, ElementOfSeq
<1>2. PICK a \in Seq(S) : a = SubSeq(s, 1, k - 1) /\ Len(a) = k - 1 /\ \A i \in 1..(k - 1) : a[i] = s[i]
  <2>1. \A i \in 1..(k - 1) : s[i] \in S /\ 1 + i - 1 = i
    BY <1>1
  <2>2. k - 1 \in Int /\ (1 <= k - 1 => k - 1 - 1 + 1 = k - 1) /\ (~(1 <= k - 1) => k - 1 = 0) /\ k - 1 - 1 + 1 = k - 1
    BY <1>1
  <2>3. /\ SubSeq(s, 1, k - 1) \in Seq(S)
        /\ Len(SubSeq(s, 1, k - 1)) = IF 1 <= k - 1 THEN k - 1 - 1 + 1 ELSE 0
        /\ \A i \in 1..(k - 1 - 1 + 1) : SubSeq(s, 1, k - 1)[i] = s[1 + i - 1]
    BY <2>1, <2>2, SubSeqProperties
  <2>4. Len(SubSeq(s, 1, k - 1)) = k - 1
    BY <1>1, <2>3
  <2>5. \A i \in 1..(k - 1) : SubSeq(s, 1, k - 1)[i] = s[i]
    BY <1>1, <2>3
  <2> QED BY <2>3, <2>4, <2>5
<1>3. PICK b \in Seq(S) : /\ b = SubSeq(s, k + 1, n) /\ Len(b) = n - k
                          /\ \A i \in 1..(n - k) : b[i] = s[k + i]
  <2>1. \A i \in (k + 1)..n : s[i] \in S
    BY <1>1
  <2>2. /\ k + 1 \in Int /\ n \in Int /\ n - (k + 1) + 1 = n - k /\ (~(k + 1 <= n) => n - k = 0)
        /\ \A i \in 1..(n - k) : k + 1 + i - 1 = k + i
    BY <1>1
  <2>3. /\ SubSeq(s, k + 1, n) \in Seq(S)
        /\ Len(SubSeq(s, k + 1, n)) = IF k + 1 <= n THEN n - (k + 1) + 1 ELSE 0
        /\ \A i \in 1..(n - (k + 1) + 1) : SubSeq(s, k + 1, n)[i] = s[k + 1 + i - 1]
    BY <2>1, <2>2, SubSeqProperties, SMTT(30)
  <2>4. Len(SubSeq(s, k + 1, n)) = n - k
    BY <1>1, <2>3
  <2>5. \A i \in 1..(n - k) : SubSeq(s, k + 1, n)[i] = s[k + i]
    <3> TAKE i \in 1..(n - k)
    <3>1. i \in 1..(n - (k + 1) + 1) /\ k + 1 + i - 1 = k + i
      BY <1>1
    <3> QED BY <2>3, <3>1
  <2> QED BY <2>3, <2>4, <2>5
<1>4. RemoveAt(s, k) = a \o b
  BY <1>1, <1>2, <1>3 DEF RemoveAt
<1>5. /\ a \o b \in Seq(S) /\ Len(a \o b) = n - 1
      /\ \A j \in 1..(n - 1) : (a \o b)[j] = IF j <= k - 1 THEN a[j] ELSE b[j - (k - 1)]
  <2>1. Len(a) + Len(b) = n - 1
    BY <1>1, <1>2, <1>3, SMTT(30)
  <2> QED BY <1>2, <2>1, ConcatProperties, SMTT(30)
<1>6. \A j \in 1..(n - 1) : (a \o b)[j] = IF j < k THEN s[j] ELSE s[j + 1]
  <2> TAKE j \in 1..(n - 1)
  <2>1. CASE j < k
    BY <1>1, <1>2, <1>5, <2>1
  <2>2. CASE ~(j < k)
    <3>1. ~(j <= k - 1) /\ j - (k - 1) \in 1..(n - k) /\ k + (j - (k - 1)) = j + 1
      BY <1>1, <2>2
    <3> QED BY <1>3, <1>5, <2>2, <3>1
  <2> QED BY <2>1, <2>2
<1>7. DOMAIN (a \o b) = 1..(n - 1)
  BY <1>5, LenProperties
<1> QED BY <1>1, <1>4, <1>5, <1>6, <1>7

\* ... so with distinct numbers only that one is gone.
LEMMA RemoveNumbered ==
    ASSUME NEW S, NEW s \in Seq(S), Numbered(s), NEW k \in DOMAIN s
    PROVE  Numbered(RemoveAt(s, k)) /\ Range(RemoveAt(s, k)) = Range(s) \ {s[k]}
<1>1. PICK n \in Nat : n = Len(s) /\ DOMAIN s = 1..n
  BY LenProperties
<1>2. PICK t : t = RemoveAt(s, k)
  OBVIOUS
<1>3. /\ DOMAIN t = 1..(n - 1)
      /\ \A j \in 1..(n - 1) : t[j] = IF j < k THEN s[j] ELSE s[j + 1]
  BY <1>1, <1>2, RemoveAtFacts
<1>4. \A j \in 1..(n - 1) : \E i \in 1..n : t[j] = s[i] /\ i = (IF j < k THEN j ELSE j + 1) /\ i # k
  <2> TAKE j \in 1..(n - 1)
  <2>1. CASE j < k
    BY <1>1, <1>3, <2>1
  <2>2. CASE ~(j < k)
    <3>1. j + 1 \in 1..n /\ j + 1 # k
      BY <1>1, <2>2
    <3> QED BY <1>3, <2>2, <3>1
  <2> QED BY <2>1, <2>2
<1>5. ASSUME NEW i \in DOMAIN t, NEW j \in DOMAIN t, i # j PROVE t[i].cseq # t[j].cseq
  <2>1. PICK a \in 1..n : t[i] = s[a] /\ a = IF i < k THEN i ELSE i + 1
    BY <1>3, <1>4
  <2>2. PICK b \in 1..n : t[j] = s[b] /\ b = IF j < k THEN j ELSE j + 1
    BY <1>3, <1>4
  <2>3. a # b
    BY <1>1, <1>3, <1>5, <2>1, <2>2
  <2> QED BY <1>1, <2>1, <2>2, <2>3 DEF Numbered
<1>6. Range(t) \subseteq Range(s) \ {s[k]}
  <2> SUFFICES ASSUME NEW j \in 1..(n - 1) PROVE t[j] \in Range(s) \ {s[k]}
    BY <1>3 DEF Range
  <2>1. PICK i \in 1..n : t[j] = s[i] /\ i # k
    BY <1>4
  <2>2. s[i] # s[k]
    BY <1>1, <2>1 DEF Numbered
  <2> QED BY <1>1, <2>1, <2>2 DEF Range
<1>7. Range(s) \ {s[k]} \subseteq Range(t)
  <2> SUFFICES ASSUME NEW i \in 1..n, s[i] # s[k] PROVE s[i] \in Range(t)
    BY <1>1 DEF Range
  <2>1. CASE i < k
    <3>1. i \in 1..(n - 1)
      BY <1>1, <2>1
    <3> QED BY <1>3, <2>1, <3>1 DEF Range
  <2>2. CASE i > k
    <3>1. i - 1 \in 1..(n - 1) /\ ~(i - 1 < k) /\ i - 1 + 1 = i
      BY <1>1, <2>2
    <3>2. t[i - 1] = s[i]
      BY <1>3, <3>1
    <3> QED BY <1>3, <3>1, <3>2 DEF Range
  <2>3. i # k
    OBVIOUS
  <2> QED BY <1>1, <2>1, <2>2, <2>3
<1>8. Numbered(t) /\ Range(t) = Range(s) \ {s[k]}
  <2>1. Range(t) = Range(s) \ {s[k]}
    BY <1>6, <1>7, Zenon
  <2> QED BY <1>5, <2>1 DEF Numbered
<1> QED BY <1>2, <1>8

\* A number finds its request.
LEMMA FoundByNumber ==
    ASSUME NEW S, NEW s \in Seq(S), Numbered(s), NEW k \in DOMAIN s
    PROVE  {i \in 1..Len(s) : s[i].cseq = s[k].cseq} = {k} /\ Min({k}) = k
<1>1. DOMAIN s = 1..Len(s) /\ Len(s) \in Nat
  BY LenProperties
<1>2. {i \in 1..Len(s) : s[i].cseq = s[k].cseq} = {k}
  BY <1>1 DEF Numbered
<1>3. Min({k}) = k
  BY <1>1 DEF Min
<1> QED BY <1>2, <1>3

\* Requests with new numbers are added to those with old ones.
LEMMA AddNumbered ==
    ASSUME NEW S, NEW s \in Seq(S), NEW t \in Seq(S), Numbered(s), Numbered(t),
           \A i \in DOMAIN s, j \in DOMAIN t : s[i].cseq # t[j].cseq
    PROVE  Numbered(s \o t) /\ Range(s \o t) = Range(s) \cup Range(t)
<1>1. PICK m \in Nat, n \in Nat : /\ m = Len(s) /\ n = Len(t) /\ DOMAIN s = 1..m /\ DOMAIN t = 1..n
                                  /\ DOMAIN (s \o t) = 1..(m + n)
                                  /\ \A i \in 1..(m + n) : (s \o t)[i] = IF i <= m THEN s[i] ELSE t[i - m]
  BY ConcatProperties, LenProperties
<1>2. PICK u : u = s \o t
  OBVIOUS
<1>3. \A i \in 1..(m + n) : \/ i \in 1..m /\ u[i] = s[i]
                            \/ ~(i \in 1..m) /\ i - m \in 1..n /\ u[i] = t[i - m]
  <2> TAKE i \in 1..(m + n)
  <2>1. CASE i <= m
    BY <1>1, <1>2, <2>1
  <2>2. CASE ~(i <= m)
    BY <1>1, <1>2, <2>2
  <2> QED BY <2>1, <2>2
<1>4. ASSUME NEW i \in 1..(m + n), NEW j \in 1..(m + n), i # j PROVE u[i].cseq # u[j].cseq
  <2>1. CASE i \in 1..m /\ j \in 1..m
    BY <1>1, <1>3, <1>4, <2>1 DEF Numbered
  <2>2. CASE i \in 1..m /\ j \notin 1..m
    <3>1. i \in DOMAIN s /\ j - m \in DOMAIN t /\ u[i] = s[i] /\ u[j] = t[j - m]
      BY <1>1, <1>3, <2>2
    <3>2. s[i].cseq # t[j - m].cseq
      BY <3>1
    <3> QED BY <3>1, <3>2
  <2>3. CASE i \notin 1..m /\ j \in 1..m
    <3>1. j \in DOMAIN s /\ i - m \in DOMAIN t /\ u[j] = s[j] /\ u[i] = t[i - m]
      BY <1>1, <1>3, <2>3
    <3>2. s[j].cseq # t[i - m].cseq
      BY <3>1
    <3> QED BY <3>1, <3>2
  <2>4. CASE i \notin 1..m /\ j \notin 1..m
    <3>1. i - m # j - m
      BY <1>1, <1>4
    <3>2. i - m \in DOMAIN t /\ j - m \in DOMAIN t /\ u[i] = t[i - m] /\ u[j] = t[j - m]
      BY <1>1, <1>3, <2>4
    <3> QED BY <3>1, <3>2 DEF Numbered
  <2> QED BY <2>1, <2>2, <2>3, <2>4
<1>5. Range(u) \subseteq Range(s) \cup Range(t)
  BY <1>1, <1>2, <1>3 DEF Range
<1>6. Range(s) \subseteq Range(u)
  <2> SUFFICES ASSUME NEW i \in 1..m PROVE s[i] \in Range(u)
    BY <1>1 DEF Range
  <2>1. i \in 1..(m + n) /\ i <= m
    BY <1>1
  <2> QED BY <1>1, <1>2, <2>1 DEF Range
<1>7. Range(t) \subseteq Range(u)
  <2> SUFFICES ASSUME NEW i \in 1..n PROVE t[i] \in Range(u)
    BY <1>1 DEF Range
  <2>1. m + i \in 1..(m + n) /\ ~(m + i <= m) /\ m + i - m = i
    BY <1>1
  <2>2. u[m + i] = t[i]
    BY <1>1, <1>2, <2>1
  <2> QED BY <1>1, <1>2, <2>1, <2>2 DEF Range
<1>8. Numbered(u) /\ Range(u) = Range(s) \cup Range(t)
  <2>1. Numbered(u)
    BY <1>1, <1>2, <1>4 DEF Numbered
  <2> QED BY <1>5, <1>6, <1>7, <2>1
<1> QED BY <1>2, <1>8

\* An API call with pipelining on sends a request for each URI.
LEMMA PipeIssue ==
    ASSUME Pipelined, pipeId > 0, NEW m \in Methods, NEW us \in Seq(0..NMedia), us # <<>>, Issue(open, m, us)
    PROVE  /\ \E reqs \in Seq(Requests) :
                 /\ open' = open \o reqs /\ sent' = sent \o reqs /\ pipelines' = pipelines \o reqs
                 /\ Len(reqs) = Len(us)
                 /\ \A i \in 1..Len(us) :
                       /\ reqs[i].cseq = cseq + i - 1 /\ reqs[i].method = m /\ reqs[i].pipe = pipeId
                       /\ reqs[i].again = <<>> /\ reqs[i].transport = (m = "SETUP")
                       /\ reqs[i].auth = needAuth /\ reqs[i].uri = us[i]
           /\ method' = m /\ uri' \in 0..NMedia /\ cseq' = cseq + Len(us)
           /\ needAuth' = needAuth /\ pipeId' = pipeId
<1>1. PICK n \in Nat : n = Len(us) /\ DOMAIN us = 1..n /\ \A i \in 1..n : us[i] \in 0..NMedia
  BY LenProperties, ElementOfSeq
<1>2. n > 0
  BY <1>1, EmptySeq
<1>3. PICK reqs : reqs = [i \in DOMAIN us |-> MakeRequest(cseq + i - 1, m, us[i])]
  OBVIOUS
<1>4. /\ method' = m /\ uri' = Last(us) /\ cseq' = cseq + Len(us)
      /\ open' = open \o reqs /\ sent' = sent \o reqs /\ pipelines' = pipelines \o reqs
      /\ needAuth' = needAuth /\ pipeId' = pipeId
  BY <1>3 DEF Issue
<1>5. \A i \in 1..n : reqs[i] = MakeRequest(cseq + i - 1, m, us[i])
  BY <1>1, <1>3
<1>6. \A i \in 1..n : /\ reqs[i].cseq = cseq + i - 1 /\ reqs[i].method = m /\ reqs[i].pipe = pipeId
                      /\ reqs[i].again = <<>> /\ reqs[i].transport = (m = "SETUP")
                      /\ reqs[i].auth = needAuth /\ reqs[i].uri = us[i]
  <2> TAKE i \in 1..n
  <2>1. reqs[i] = [cseq |-> cseq + i - 1, method |-> m, uri |-> us[i], auth |-> needAuth,
                   session |-> hasSession, pipe |-> pipeId, transport |-> m = "SETUP", again |-> <<>>]
    BY <1>5 DEF MakeRequest
  <2> QED BY <2>1
<1>7. \A i \in 1..n : reqs[i] \in Requests
  <2> TAKE i \in 1..n
  <2>1. <<>> \in Repeated
    BY Zenon DEF Repeated
  <2>2. cseq + i - 1 \in Int /\ us[i] \in 0..NMedia /\ pipeId \in Nat /\ needAuth \in BOOLEAN /\ hasSession \in BOOLEAN
    BY <1>1 DEF Pipelined, Types
  <2>3. PICK c \in Int, u \in 0..NMedia, s \in BOOLEAN :
             c = cseq + i - 1 /\ u = us[i] /\ s = (m = "SETUP")
    BY <2>2
  <2>4. reqs[i] = [cseq |-> c, method |-> m, uri |-> u, auth |-> needAuth, session |-> hasSession,
                   pipe |-> pipeId, transport |-> s, again |-> <<>>]
    BY <1>5, <2>3 DEF MakeRequest
  <2> QED BY <2>1, <2>2, <2>4 DEF Requests
<1>8. reqs \in Seq(Requests) /\ Len(reqs) = n
  BY <1>1, <1>3, <1>7
<1>9. uri' \in 0..NMedia
  BY <1>1, <1>2, <1>4 DEF Last
<1> QED BY <1>1, <1>4, <1>6, <1>8, <1>9

\* A sequence has no more elements than places.
LEMMA RangeSize ==
    ASSUME NEW S, NEW s \in Seq(S)
    PROVE  IsFiniteSet(Range(s)) /\ Cardinality(Range(s)) <= Len(s)
<1>1. PICK n \in Nat : n = Len(s) /\ DOMAIN s = 1..n
  BY LenProperties
<1>2. s = [i \in 1..n |-> s[i]]
  BY <1>1, SeqDef
<1>3. s \in Surjection(1..n, Range(s))
  BY <1>1, <1>2 DEF Surjection, Range
<1>4. IsFiniteSet(1..n) /\ Cardinality(1..n) = n
  <2>1. 1 \in Int /\ n \in Int /\ (1 > n => n = 0) /\ n - 1 + 1 = n
    OBVIOUS
  <2> QED BY <2>1, FS_Interval
<1>5. IsFiniteSet(Range(s)) /\ Cardinality(Range(s)) <= Cardinality(1..n)
  BY <1>3, <1>4, FS_Surjection
<1> QED BY <1>1, <1>4, <1>5

\* What is sent behind pipelined requests is pipelined like them.
LEMMA PipeSend ==
    ASSUME PipelinedPeer, World, Peer, pipelining, Pipelined, pipeId > 0,
           NEW m \in {"SETUP"} \cup Starts, NEW us \in Seq(0..NMedia), us # <<>>, Issue(open, m, us),
           UNCHANGED worldVars
    PROVE  /\ open' \in Seq(Requests) /\ sent' \in Seq(Requests) /\ pipelines' \in Seq(Requests)
           /\ RepeatsMatched'
           /\ Range(open') = Range(pipelines') /\ Numbered(open') /\ Numbered(pipelines')
           /\ \A r \in Range(open') : Secured(r)'
           /\ m \in Starts => Setups' = Setups
           /\ open = <<>> => IsFiniteSet(Setups') /\ Cardinality(Setups') <= Len(us)
           /\ method' = m /\ uri' \in 0..NMedia /\ cseq' \in Nat
           /\ needAuth' = needAuth /\ pipeId' = pipeId
<1>1. m \in Methods
  BY DEF Starts, Methods
<1>2. PICK n \in Nat : n = Len(us)
  BY LenProperties
<1>3. PICK reqs \in Seq(Requests) :
          /\ open' = open \o reqs /\ sent' = sent \o reqs /\ pipelines' = pipelines \o reqs
          /\ Len(reqs) = n
          /\ \A i \in 1..n : /\ reqs[i].cseq = cseq + i - 1 /\ reqs[i].method = m /\ reqs[i].pipe = pipeId
                             /\ reqs[i].again = <<>> /\ reqs[i].transport = (m = "SETUP")
                             /\ reqs[i].auth = needAuth
  BY <1>1, <1>2, PipeIssue, ZenonT(40)
<1>4. /\ method' = m /\ uri' \in 0..NMedia /\ cseq' = cseq + n /\ needAuth' = needAuth /\ pipeId' = pipeId
      /\ cseq \in Nat /\ cseq' \in Nat /\ pipeId \in Nat
  <2>1. cseq \in Nat /\ pipeId \in Nat
    BY DEF Pipelined, Types
  <2> QED BY <1>1, <1>2, <2>1, PipeIssue
<1>5. /\ open \in Seq(Requests) /\ sent \in Seq(Requests) /\ pipelines \in Seq(Requests)
      /\ Numbered(open) /\ Numbered(pipelines) /\ Range(open) = Range(pipelines)
      /\ \A r \in Range(open) : Secured(r)
  BY DEF Pipelined, Types
<1>6. DOMAIN reqs = 1..n /\ \A i \in 1..n : reqs[i] \in Requests
  BY <1>3, LenProperties, ElementOfSeq
<1>7. Numbered(reqs)
  <2> SUFFICES ASSUME NEW i \in 1..n, NEW j \in 1..n, i # j PROVE reqs[i].cseq # reqs[j].cseq
    BY <1>6 DEF Numbered
  <2>1. cseq + i - 1 # cseq + j - 1
    BY <1>4
  <2> QED BY <1>3, <2>1
<1>8. \A r \in Range(open) : r.cseq < cseq /\ r \in Requests
  BY <1>5, ElementOfSeq, LenProperties DEF Secured, Range
<1>9. ASSUME NEW s \in Seq(Requests), Range(s) = Range(open), Numbered(s)
      PROVE  Numbered(s \o reqs) /\ Range(s \o reqs) = Range(open) \cup Range(reqs)
  <2>1. ASSUME NEW i \in DOMAIN s, NEW j \in DOMAIN reqs PROVE s[i].cseq # reqs[j].cseq
    <3>1. s[i].cseq < cseq /\ s[i] \in Requests
      BY <1>8, <1>9 DEF Range
    <3>2. reqs[j].cseq = cseq + j - 1 /\ j \in Nat /\ j >= 1
      BY <1>3, <1>6
    <3>3. s[i].cseq \in Int
      BY <3>1 DEF Requests
    <3>4. ASSUME NEW c \in Nat, NEW a \in Int, NEW b \in Nat, a < c, b >= 1 PROVE a # c + b - 1
      BY <3>4
    <3> QED BY <1>4, <3>1, <3>2, <3>3, <3>4, Zenon
  <2> QED BY <1>7, <1>9, <2>1, AddNumbered
<1>10. /\ Numbered(open') /\ Numbered(pipelines')
       /\ Range(open') = Range(open) \cup Range(reqs) /\ Range(pipelines') = Range(open')
  BY <1>3, <1>5, <1>9
<1>11. UNCHANGED <<policy, rightPassword>> /\ policy \in Policies[TRUE]
  BY DEF worldVars, World, Peer
<1>12. m \in policy => needAuth /\ rightPassword
  <2>1. m \in policy => policy \cap {"SETUP", "PLAY", "RECORD"} # {}
    BY DEF Starts
  <2> QED BY <1>11, <2>1 DEF PipelinedPeer, Pipelined, Cleared
<1>13. ASSUME NEW r \in Range(open') PROVE Secured(r)'
  <2>1. CASE r \in Range(open)
    <3>1. r.cseq < cseq' /\ Secured(r)
      <4>1. r.cseq \in Int
        BY <1>8, <2>1 DEF Requests
      <4> QED BY <1>4, <1>5, <1>8, <2>1, <4>1
    <3> QED BY <1>11, <3>1 DEF Secured
  <2>2. CASE r \in Range(reqs)
    <3>1. PICK i \in 1..n : r = reqs[i]
      BY <1>6, <2>2 DEF Range
    <3>2. cseq + i - 1 < cseq'
      BY <1>4
    <3>3. /\ r.cseq < cseq' /\ r.method = m /\ r.pipe > 0 /\ (r.method = "SETUP" => r.transport)
          /\ r.auth = needAuth
      BY <1>3, <3>1, <3>2
    <3> QED BY <1>11, <1>12, <3>3 DEF Secured
  <2> QED BY <1>10, <1>13, <2>1, <2>2
<1>14. ASSUME m \in Starts PROVE Setups' = Setups
  <2>1. \A r \in Range(reqs) : r.method # "SETUP"
    BY <1>3, <1>6, <1>14 DEF Range, Starts
  <2> QED BY <1>10, <2>1 DEF Setups
<1>15. ASSUME open = <<>> PROVE IsFiniteSet(Setups') /\ Cardinality(Setups') <= n
  <2>1. Range(open) = {}
    BY <1>15 DEF Range
  <2>2. Setups' \subseteq Range(reqs)
    BY <1>10, <2>1 DEF Setups
  <2>3. IsFiniteSet(Range(reqs)) /\ Cardinality(Range(reqs)) <= n
    BY <1>3, RangeSize
  <2>4. /\ IsFiniteSet(Setups') /\ Cardinality(Setups') <= Cardinality(Range(reqs))
        /\ Cardinality(Setups') \in Nat /\ Cardinality(Range(reqs)) \in Nat
    BY <2>2, <2>3, FS_Subset, FS_CardinalityType
  <2> QED BY <2>3, <2>4
<1>16. /\ open' \in Seq(Requests) /\ sent' \in Seq(Requests) /\ pipelines' \in Seq(Requests)
  BY <1>3, <1>5, ConcatProperties
<1>17. RepeatsMatched'
  <2>1. RepeatsMatched
    BY Halves DEF Pipelined
  <2>2. PICK l \in Nat : l = Len(sent) /\ DOMAIN sent = 1..l
    BY <1>5, LenProperties
  <2>3. /\ DOMAIN sent' = 1..(l + n)
        /\ \A i \in 1..(l + n) : sent'[i] = IF i <= l THEN sent[i] ELSE reqs[i - l]
    <3>1. /\ sent \o reqs \in Seq(Requests) /\ Len(sent \o reqs) = l + n
          /\ \A i \in 1..(l + n) : (sent \o reqs)[i] = IF i <= l THEN sent[i] ELSE reqs[i - l]
      BY <1>3, <1>5, <2>2, ConcatProperties, ZenonT(40)
    <3>2. DOMAIN (sent \o reqs) = 1..(l + n)
      BY <3>1, LenProperties
    <3> QED BY <1>3, <3>1, <3>2
  <2>4. \A i \in 1..(l + n) : \/ i \in DOMAIN sent /\ sent'[i] = sent[i]
                              \/ sent'[i].again = <<>>
    <3> TAKE i \in 1..(l + n)
    <3>1. CASE i <= l
      BY <2>2, <2>3, <3>1
    <3>2. CASE ~(i <= l)
      BY <1>3, <2>2, <2>3, <3>2
    <3> QED BY <3>1, <3>2
  <2> QED BY <2>1, <2>3, <2>4 DEF RepeatsMatched
<1> QED BY <1>2, <1>4, <1>10, <1>13, <1>14, <1>15, <1>16, <1>17

\* What is sent behind open requests is numbered on, and kept in pipelines_.
LEMMA PipeKeeps ==
    ASSUME PipelinedPeer, World, Peer, pipelining, Pipelined, pipeId > 0,
           NEW m \in {"SETUP"} \cup Starts, NEW us \in Seq(0..NMedia), us # <<>>, Issue(open, m, us),
           UNCHANGED <<pc, then, setups, userCalls, hasSession, medias, isAggregate, peerSession, callbacks,
                       worldVars>>,
           mediaStep' \in 0..NMedia, transports' \in Seq(BOOLEAN), setupIter' \in 1..(Len(transports') + 1),
           m \in Starts \/ (Unsent /\ Len(us) = NMedia)
    PROVE  Pipelined' /\ method' = m /\ pipeId' = pipeId
<1>1. UNCHANGED worldVars
  OBVIOUS
<1>2. /\ open' \in Seq(Requests) /\ sent' \in Seq(Requests) /\ pipelines' \in Seq(Requests)
      /\ RepeatsMatched'
      /\ Range(open') = Range(pipelines') /\ Numbered(open') /\ Numbered(pipelines')
      /\ \A r \in Range(open') : Secured(r)'
      /\ m \in Starts => Setups' = Setups
      /\ open = <<>> => IsFiniteSet(Setups') /\ Cardinality(Setups') <= Len(us)
      /\ method' = m /\ uri' \in 0..NMedia /\ cseq' \in Nat
      /\ needAuth' = needAuth /\ pipeId' = pipeId
  BY <1>1, PipeSend
<1>3. m \in Methods /\ UNCHANGED <<aggregate, policy, rightPassword>>
  BY DEF Starts, Methods, worldVars
<1>4. Types'
  BY <1>2, <1>3 DEF Pipelined, Types
<1>5. AnswersMatched'
  <2>1. CallbacksMatched'
    BY Halves DEF Pipelined, CallbacksMatched
  <2> QED BY <1>2, <2>1, Halves, PTL
<1>6. Cleared' /\ Defined'
  BY <1>2, <1>3 DEF Pipelined, Cleared, Defined
<1>7. IsFiniteSet(Setups') /\ Cardinality(Setups') + setups' <= NMedia
  <2>1. CASE m \in Starts
    BY <1>2, <2>1 DEF Pipelined
  <2>2. CASE Unsent /\ Len(us) = NMedia
    <3>1. IsFiniteSet(Setups') /\ Cardinality(Setups') <= NMedia /\ setups' = 0
      BY <1>2, <2>2 DEF Unsent
    <3>2. Cardinality(Setups') \in Nat /\ NMedia \in Nat
      BY <3>1, FS_CardinalityType, ClientAssumption
    <3> QED BY <3>1, <3>2
  <2> QED BY <2>1, <2>2
<1>8. /\ then' = "nothing" /\ medias' = NMedia /\ isAggregate' = aggregate' /\ pipeId' \in Nat
  BY <1>2, <1>3 DEF Pipelined
<1> QED BY <1>2, <1>4, <1>5, <1>6, <1>7, <1>8 DEF Pipelined

\* The only call that the callback makes next.
LEMMA NextCall ==
    ASSUME ApiCall, NEW api, todo # <<>>, Head(todo) = api
    PROVE  /\ todo' = Tail(todo) /\ UNCHANGED <<then, setups, userCalls, hasSession, peerVars, callbacks>>
           /\ api = "startPipeline" => StartPipeline
           /\ api = "setup" => SetupNothing \/ Setup
           /\ api = "play" => Walk("play", "PLAY")
           /\ api = "record" => Walk("record", "RECORD")
           /\ api = "stopPipeline" => StopPipeline
<1>1. \E a : Calls(a)
  BY DEF ApiCall, PlainCall, Plain, Announce, SetupNothing, Setup, WalkCall, Walk, StartPipeline, StopPipeline
<1>2. \A a : Calls(a) => a = api
  BY DEF Calls
<1> QED BY <1>1, <1>2
        DEF ApiCall, PlainCall, Plain, Announce, SetupNothing, Setup, WalkCall, Walk, StartPipeline,
            StopPipeline, Calls

\* The media in order.
LEMMA EachMedium ==
    /\ [i \in 1..NMedia |-> i] \in Seq(0..NMedia) /\ [i \in 1..NMedia |-> i] # <<>>
    /\ Len([i \in 1..NMedia |-> i]) = NMedia
    /\ [i \in 1..NMedia |-> FALSE] \in Seq(BOOLEAN) /\ Len([i \in 1..NMedia |-> FALSE]) = NMedia
<1>1. NMedia \in Nat \ {0}
  BY ClientAssumption
<1> QED BY <1>1

\* setup asks for all the media.
LEMMA PipelinedSetup ==
    ASSUME PipelinedPeer, World, Peer, pipelining, Pipelined, Unsent, pipeId > 0, pc = "app",
           todo # <<>>, Head(todo) = "setup", ApiCall
    PROVE  /\ Pipelined' /\ todo' = Tail(todo) /\ pc' = "app" /\ pipeId' = pipeId /\ mediaStep' = 0
           /\ method' = "SETUP" /\ Len(transports') = NMedia /\ Peer'
<1>2. medias = NMedia
  BY DEF Pipelined
<1>1. /\ todo' = Tail(todo) /\ UNCHANGED <<then, setups, userCalls, hasSession, peerVars, callbacks>> /\ Setup
  BY <1>2, NextCall, ClientAssumption DEF SetupNothing
<1>3. /\ transports' = [i \in 1..NMedia |-> FALSE] /\ Issue(open, "SETUP", [i \in 1..NMedia |-> i])
      /\ setupIter' = NMedia + 1 /\ UNCHANGED <<pc, medias, isAggregate, mediaStep>>
  BY <1>1, <1>2 DEF Setup
<1>4. /\ UNCHANGED <<pc, then, setups, userCalls, hasSession, medias, isAggregate, peerSession, callbacks,
                     worldVars>>
      /\ mediaStep' = 0 /\ Peer'
  BY <1>1, <1>3 DEF peerVars, worldVars, Unsent, Peer
<1>5. NMedia \in Nat \ {0} /\ transports' \in Seq(BOOLEAN) /\ Len(transports') = NMedia
  BY <1>3, EachMedium, ClientAssumption
<1>6. mediaStep' \in 0..NMedia /\ setupIter' \in 1..(Len(transports') + 1)
  BY <1>3, <1>4, <1>5
<1>7. PICK us : us = [i \in 1..NMedia |-> i]
  OBVIOUS
<1>8. us \in Seq(0..NMedia) /\ us # <<>> /\ Len(us) = NMedia /\ Issue(open, "SETUP", us)
  BY <1>3, <1>7, EachMedium
<1>9. Pipelined' /\ pipeId' = pipeId /\ method' = "SETUP"
  BY <1>4, <1>5, <1>6, <1>8, PipeKeeps
<1> QED BY <1>1, <1>3, <1>4, <1>5, <1>9

\* play or record starts the session, or all the media.
LEMMA PipelinedWalk ==
    ASSUME PipelinedPeer, World, Peer, pipelining, Pipelined, mediaStep = 0, pipeId > 0, pc = "app",
           Len(transports) = NMedia,
           NEW api \in {"play", "record"}, todo # <<>>, Head(todo) = api, ApiCall
    PROVE  /\ Pipelined' /\ todo' = Tail(todo) /\ pc' = "app" /\ pipeId' = pipeId /\ method' \in Starts
           /\ Len(transports') = NMedia /\ Peer'
<1>1. PICK m \in Starts : Walk(api, m)
  BY NextCall DEF Starts
<1>2. todo' = Tail(todo) /\ UNCHANGED <<then, setups, userCalls, hasSession, peerVars, callbacks>>
  BY NextCall
<1>3. UNCHANGED <<medias, isAggregate, transports, setupIter>>
  BY <1>1 DEF Walk
<1>4. UNCHANGED <<peerSession, worldVars>> /\ Peer'
  BY <1>2 DEF peerVars, worldVars, Peer
<1>5. medias = NMedia /\ NMedia \in Nat \ {0} /\ isAggregate \in BOOLEAN
  BY ClientAssumption DEF Pipelined, Types
<1>6. \E us \in Seq(0..NMedia) : us # <<>> /\ Issue(open, m, us) /\ pc' = pc /\ mediaStep' \in 0..NMedia
  <2>1. CASE isAggregate
    <3>1. <<0>> \in Seq(0..NMedia) /\ <<0>> # <<>> /\ mediaStep \in 0..NMedia
      BY <1>5
    <3>2. Issue(open, m, <<0>>) /\ UNCHANGED <<pc, mediaStep>>
      BY <1>1, <2>1 DEF Walk
    <3> QED BY <3>1, <3>2
  <2>2. CASE ~isAggregate
    <3>1. StepWalk(open, m, NextMedia(m))
      BY <1>1, <2>2 DEF Walk
    <3>2. NextMedia(m) = [i \in 1..NMedia |-> i]
      <4>1. m # "TEARDOWN" /\ medias - mediaStep = NMedia
        BY <1>5 DEF Starts
      <4>2. NextMedia(m) = [i \in 1..(medias - mediaStep) |-> mediaStep + i]
        BY <4>1 DEF NextMedia
      <4> QED BY <4>1, <4>2
    <3>3. PICK us : us = NextMedia(m) /\ us \in Seq(0..NMedia) /\ us # <<>> /\ Len(us) = NMedia
      BY <3>2, EachMedium
    <3>4. Issue(open, m, us) /\ mediaStep' = mediaStep + Len(us) /\ pc' = pc
      BY <1>5, <3>1, <3>3 DEF StepWalk
    <3> QED BY <1>5, <3>3, <3>4
  <2> QED BY <1>5, <2>1, <2>2
<1>7. PICK us \in Seq(0..NMedia) : us # <<>> /\ Issue(open, m, us) /\ pc' = pc /\ mediaStep' \in 0..NMedia
  BY <1>6
<1>8. transports' \in Seq(BOOLEAN) /\ setupIter' \in 1..(Len(transports') + 1)
  BY <1>3 DEF Pipelined, Types
<1>9. Pipelined' /\ method' = m /\ pipeId' = pipeId
  BY <1>2, <1>3, <1>4, <1>7, <1>8, PipeKeeps
<1> QED BY <1>2, <1>3, <1>4, <1>7, <1>9

\* startPipeline draws an id; stopPipeline only forgets it.
LEMMA PipelinedSwitch ==
    ASSUME PipelinedPeer, Peer, Pipelined, pc = "app", todo # <<>>,
           Head(todo) \in {"startPipeline", "stopPipeline"}, ApiCall
    PROVE  /\ Pipelined' /\ todo' = Tail(todo) /\ Peer'
           /\ UNCHANGED <<pc, open, pipelines, mediaStep, setups, method, transports>>
           /\ Head(todo) = "startPipeline" => pipeId' > 0
           /\ Head(todo) = "stopPipeline" => pipeId' = 0
<1>1. /\ todo' = Tail(todo)
      /\ UNCHANGED <<then, setups, userCalls, hasSession, peerSession, pipelining, policy, rightPassword,
                     aggregate, callbacks>>
  BY NextCall DEF peerVars, worldVars
<1>2. /\ UNCHANGED <<needAuth, method, uri, cseq, medias, isAggregate, mediaStep, transports, setupIter,
                     pipelines, pc, open, sent>>
      /\ pipeId' \in Nat
      /\ Head(todo) = "startPipeline" => pipeId' > 0
      /\ Head(todo) = "stopPipeline" => pipeId' = 0
  <2>1. CASE Head(todo) = "startPipeline"
    <3>1. StartPipeline
      BY <2>1, NextCall
    <3>2. pipeId' \in DrawnIds /\ DrawnIds \subseteq Nat /\ 0 \notin DrawnIds
      BY <3>1, ClientAssumption DEF StartPipeline, PipelinedPeer
    <3> QED BY <2>1, <3>1, <3>2 DEF StartPipeline, authVars, walkVars
  <2>2. CASE Head(todo) = "stopPipeline"
    <3>1. StopPipeline
      BY <2>2, NextCall
    <3> QED BY <2>2, <3>1 DEF StopPipeline, authVars, walkVars
  <2> QED BY <2>1, <2>2
<1>3. Types' /\ Defined' /\ AnswersMatched'
  BY <1>1, <1>2 DEF Pipelined, Types, Defined, AnswersMatched
<1>4. \A r : Secured(r)' <=> Secured(r)
  BY <1>1, <1>2 DEF Secured
<1>5. Setups' = Setups /\ Cleared' /\ Peer'
  BY <1>1, <1>2 DEF Setups, Pipelined, Cleared, Peer
<1>6. Pipelined'
  BY <1>1, <1>2, <1>3, <1>4, <1>5 DEF Pipelined
<1> QED BY <1>1, <1>2, <1>5, <1>6

\* The calls of the callback for the description, one after the other.
LEMMA StartingKeeps ==
    ASSUME PipelinedPeer, World, Peer, pipelining, Starting, ApiCall
    PROVE  (Starting \/ Draining)' /\ Peer'
<1>1. Pipelined /\ pc = "app"
  BY DEF Starting
<1>2. PICK api \in {"play", "record"} :
          \/ todo = <<"startPipeline", "setup", api, "stopPipeline">> /\ pipeId = 0 /\ Unsent
          \/ todo = <<"setup", api, "stopPipeline">> /\ pipeId > 0 /\ Unsent
          \/ todo = <<api, "stopPipeline">> /\ pipeId > 0 /\ Asked
          \/ /\ todo = <<"stopPipeline">> /\ pipeId > 0 /\ method \in Starts
             /\ Len(transports) = NMedia
  BY DEF Starting
<1>3. CASE todo = <<"startPipeline", "setup", api, "stopPipeline">> /\ pipeId = 0 /\ Unsent
  <2>1. /\ todo # <<>> /\ Head(todo) = "startPipeline" /\ Tail(todo) = <<"setup", api, "stopPipeline">>
    BY <1>3
  <2>2. /\ Pipelined' /\ todo' = Tail(todo) /\ Peer' /\ pipeId' > 0
        /\ UNCHANGED <<pc, open, pipelines, mediaStep, setups, method>>
    BY <1>1, <2>1, PipelinedSwitch
  <2>3. Unsent'
    BY <1>3, <2>2 DEF Unsent
  <2> QED BY <1>1, <2>1, <2>2, <2>3 DEF Starting
<1>4. CASE todo = <<"setup", api, "stopPipeline">> /\ pipeId > 0 /\ Unsent
  <2>1. /\ todo # <<>> /\ Head(todo) = "setup" /\ Tail(todo) = <<api, "stopPipeline">>
    BY <1>4
  <2>2. /\ Pipelined' /\ todo' = Tail(todo) /\ pc' = "app" /\ pipeId' = pipeId /\ Asked' /\ Peer'
    BY <1>1, <1>4, <2>1, PipelinedSetup DEF Asked
  <2> QED BY <1>4, <2>1, <2>2 DEF Starting
<1>5. CASE todo = <<api, "stopPipeline">> /\ pipeId > 0 /\ Asked
  <2>1. /\ todo # <<>> /\ Head(todo) = api /\ Tail(todo) = <<"stopPipeline">>
    BY <1>5
  <2>2. /\ Pipelined' /\ todo' = Tail(todo) /\ pc' = "app" /\ pipeId' = pipeId /\ method' \in Starts
        /\ Len(transports') = NMedia /\ Peer'
    BY <1>1, <1>5, <2>1, PipelinedWalk DEF Asked
  <2> QED BY <1>5, <2>1, <2>2 DEF Starting
<1>6. CASE todo = <<"stopPipeline">> /\ pipeId > 0 /\ method \in Starts /\ Len(transports) = NMedia
  <2>1. /\ todo # <<>> /\ Head(todo) = "stopPipeline" /\ Tail(todo) = <<>>
    BY <1>6
  <2>2. /\ Pipelined' /\ todo' = Tail(todo) /\ Peer' /\ pipeId' = 0 /\ UNCHANGED <<pc, method, transports>>
    BY <1>1, <2>1, PipelinedSwitch
  <2> QED BY <1>1, <1>6, <2>1, <2>2 DEF Draining
<1> QED BY <1>2, <1>3, <1>4, <1>5, <1>6

\* A pipelined request gets the response it is owed.
LEMMA PipelinedAnswer ==
    ASSUME PipelinedPeer, World, Peer, pipelining, Pipelined, HandleResponse
    PROVE  \E k, res :
              /\ k \in DOMAIN open /\ res.ok \in BOOLEAN /\ res.session \in BOOLEAN
              /\ open[k].method = "SETUP" => res.ok /\ res.transport
              /\ HandlePipelineResponse(open[k], res, RemoveAt(open, k))
              /\ peerSession' = (peerSession \/ res.transport) /\ res.transport \in BOOLEAN
<1>1. PICK k \in DOMAIN open, status \in {"Unauthorized", "SessionNotFound", "OK", "Error"} :
          /\ MayAnswer(open[k], status)
          /\ Receive(open[k], Response(open[k], status), RemoveAt(open, k))
          /\ peerSession' = (peerSession \/ Response(open[k], status).transport)
  BY DEF HandleResponse
<1>2. PICK q, res : q = open[k] /\ res = Response(q, status)
  OBVIOUS
<1>3. MayAnswer(q, status) /\ Receive(q, res, RemoveAt(open, k)) /\ peerSession' = (peerSession \/ res.transport)
  BY <1>1, <1>2, Zenon
<1>4. Secured(q) /\ q \in Requests
  BY <1>2, ElementOfSeq, LenProperties DEF Pipelined, Types, Range
<1>5. peerSession \in BOOLEAN /\ hasSession \in BOOLEAN /\ q.pipe \in Nat /\ q.pipe > 0
  BY <1>4 DEF Pipelined, Types, Secured, Requests
<1>6. /\ res.unauthorized = (status = "Unauthorized") /\ res.ok = (status = "OK")
      /\ res.transport = (status = "OK" /\ q.method = "SETUP")
      /\ res.session = (status \in {"OK", "Error"} /\ (peerSession \/ (status = "OK" /\ q.method = "SETUP")))
      /\ res.pipe = IF status \in {"OK", "Error"} THEN q.pipe ELSE 0
  BY <1>2 DEF Response
<1>7. status \in {"OK", "Error"}
  <2>1. CASE status = "Unauthorized"
    BY <1>3, <1>4, <2>1 DEF MayAnswer, Secured
  <2>2. CASE status = "SessionNotFound"
    BY <1>3, <1>5, <2>2 DEF MayAnswer
  <2> QED BY <2>1, <2>2
<1>8. q.method = "SETUP" => status = "OK"
  <2> SUFFICES ASSUME q.method = "SETUP", status = "Error" PROVE FALSE
    BY <1>7
  <2>1. pipelining \in RefuseSetup
    BY <1>3, <1>4 DEF MayAnswer, Secured
  <2>2. pipelining = TRUE
    BY DEF World
  <2> QED BY <2>1, <2>2 DEF PipelinedPeer
<1>9. ~SessionMissing(res)
  BY <1>5, <1>6, <1>7 DEF SessionMissing, Peer
<1>10. HandlePipelineResponse(q, res, RemoveAt(open, k))
  BY <1>3, <1>5, <1>6, <1>7, <1>9 DEF Receive
<1>11. res.ok \in BOOLEAN /\ res.session \in BOOLEAN /\ res.transport \in BOOLEAN
  BY <1>5, <1>6
<1>12. q.method = "SETUP" => res.ok /\ res.transport
  BY <1>6, <1>8
<1> QED BY <1>2, <1>3, <1>10, <1>11, <1>12

\* Its request is found by CSeq and erased; the callback is the request's own.
LEMMA DrainingAnswer ==
    ASSUME PipelinedPeer, World, Peer, pipelining, Draining, HandleResponse
    PROVE  Draining' /\ Peer'
<1>1. Pipelined /\ todo = <<>> /\ pipeId = 0 /\ method \in Starts /\ Len(transports) = NMedia
  BY DEF Draining
<1>2. PICK k, res :
          /\ k \in DOMAIN open /\ res.ok \in BOOLEAN /\ res.session \in BOOLEAN
          /\ open[k].method = "SETUP" => res.ok /\ res.transport
          /\ HandlePipelineResponse(open[k], res, RemoveAt(open, k))
          /\ peerSession' = (peerSession \/ res.transport) /\ res.transport \in BOOLEAN
  BY <1>1, PipelinedAnswer
<1>3. UNCHANGED worldVars
  BY DEF HandleResponse
<1>4. /\ open \in Seq(Requests) /\ pipelines \in Seq(Requests) /\ Numbered(open) /\ Numbered(pipelines)
      /\ Range(open) = Range(pipelines) /\ \A r \in Range(open) : Secured(r)
  BY <1>1 DEF Pipelined, Types
<1>5. PICK q : q = open[k]
  OBVIOUS
<1>6. q \in Requests /\ q \in Range(open) /\ Secured(q)
  BY <1>2, <1>4, <1>5, ElementOfSeq, LenProperties DEF Range
<1>7. PICK j \in DOMAIN pipelines : pipelines[j] = q
  BY <1>4, <1>6 DEF Range
<1>8. PipelinedRequest(q) = j
  <2>1. {i \in 1..Len(pipelines) : pipelines[i].cseq = pipelines[j].cseq} = {j} /\ Min({j}) = j
    BY <1>4, FoundByNumber, Zenon
  <2>2. {i \in 1..Len(pipelines) : pipelines[i].cseq = q.cseq} = {j}
    BY <1>7, <2>1
  <2> QED BY <2>1, <2>2 DEF PipelinedRequest, SelectInSeq
<1>9. HandlePipelineResponse(q, res, RemoveAt(open, k))
  BY <1>2, <1>5
<1>10. PICK kind : kind = q.method
  OBVIOUS
<1>11. ~(kind = "SETUP" /\ ~res.transport)
  BY <1>2, <1>5, <1>10
<1>12. /\ hasSession' = (hasSession \/ (kind = "SETUP" /\ res.session)) /\ pipelines' = RemoveAt(pipelines, j)
       /\ Callback(kind, q, res, "nothing") /\ open' = RemoveAt(open, k)
       /\ UNCHANGED <<authVars, walkVars, pipeId, sent>>
  BY <1>7, <1>8, <1>9, <1>10, <1>11, Zenon DEF HandlePipelineResponse, Erased
<1>13. UNCHANGED <<needAuth, method, uri, cseq, medias, isAggregate, mediaStep, transports, setupIter,
                   pipeId, sent, aggregate, policy, rightPassword, pipelining>>
  BY <1>3, <1>12 DEF authVars, walkVars, worldVars
<1>14. Reports(kind, res.ok, "nothing")
  <2>1. Types /\ CallbacksMatched
    BY <1>1, Halves DEF Pipelined
  <2>2. kind \in {q.method, "AUTH"}
    BY <1>10
  <2>3. res.ok \in BOOLEAN
    BY <1>2
  <2> QED BY <1>6, <1>12, <2>1, <2>2, <2>3, CallbackReports, Zenon
<1>15. kind \in {"SETUP"} \cup Starts
  BY <1>6, <1>10 DEF Secured
<1>16. /\ pc' = "app" /\ then' = "nothing" /\ userCalls' = userCalls /\ todo' = <<>>
       /\ setups' = IF kind = "SETUP" THEN setups + 1 ELSE setups
       /\ callbacks' \in Seq(CallbackRecords) /\ CallbacksMatched' /\ Defined'
  <2>1. kind = "SETUP" => res.ok
    BY <1>2, <1>5, <1>10
  <2>2. \A calls \in MayCall(kind, res.ok) : calls = <<>>
    <3>1. kind \notin {"OPTIONS", "DESCRIBE", "ANNOUNCE"}
      BY <1>15 DEF Starts
    <3> QED BY <1>2, <3>1, ScriptFacts
  <2> QED BY <1>14, <2>1, <2>2 DEF Reports
<1>17. /\ Range(open') = Range(open) \ {q} /\ Range(pipelines') = Range(open')
       /\ Numbered(open') /\ Numbered(pipelines')
       /\ open' \in Seq(Requests) /\ pipelines' \in Seq(Requests)
  <2>1. Range(open') = Range(open) \ {q} /\ Numbered(open') /\ open' \in Seq(Requests)
    BY <1>2, <1>4, <1>5, <1>12, RemoveNumbered, RemoveAtFacts
  <2>2. Range(pipelines') = Range(pipelines) \ {q} /\ Numbered(pipelines') /\ pipelines' \in Seq(Requests)
    BY <1>4, <1>7, <1>12, RemoveNumbered, RemoveAtFacts
  <2> QED BY <1>4, <2>1, <2>2
<1>18. \A r \in Range(open') : Secured(r)'
  BY <1>4, <1>13, <1>17 DEF Secured
<1>19. IsFiniteSet(Setups') /\ Cardinality(Setups') + setups' <= NMedia /\ setups' \in 0..NMedia
  <2>1. /\ IsFiniteSet(Setups) /\ Cardinality(Setups) + setups <= NMedia /\ setups \in 0..NMedia
        /\ NMedia \in Nat
    BY <1>1, ClientAssumption DEF Pipelined, Types
  <2>2. CASE kind = "SETUP"
    <3>1. q \in Setups /\ Setups' = Setups \ {q}
      BY <1>6, <1>10, <1>17, <2>2 DEF Setups
    <3>2. /\ IsFiniteSet(Setups') /\ Cardinality(Setups') = Cardinality(Setups) - 1
          /\ Cardinality(Setups) \in Nat /\ Cardinality(Setups') \in Nat
      BY <2>1, <3>1, FS_RemoveElement, FS_CardinalityType
    <3>3. setups' = setups + 1
      BY <1>16, <2>2
    <3> QED BY <2>1, <3>2, <3>3
  <2>3. CASE kind # "SETUP"
    <3>1. Setups' = Setups
      BY <1>10, <1>17, <2>3 DEF Setups
    <3> QED BY <1>16, <2>1, <2>3, <3>1
  <2> QED BY <2>2, <2>3
<1>20. hasSession' \in BOOLEAN /\ peerSession' \in BOOLEAN /\ Peer'
  <2>1. hasSession \in BOOLEAN /\ peerSession \in BOOLEAN
    BY <1>1 DEF Pipelined, Types
  <2>2. hasSession' \in BOOLEAN /\ peerSession' \in BOOLEAN /\ (hasSession' => peerSession')
    BY <1>2, <1>11, <1>12, <2>1 DEF Peer
  <2> QED BY <1>13, <2>2 DEF Peer
<1>21. Types'
  BY <1>1, <1>13, <1>16, <1>17, <1>19, <1>20 DEF Pipelined, Types
<1>22. AnswersMatched'
  <2>1. RepeatsMatched'
    BY <1>1, <1>13, Halves DEF Pipelined, RepeatsMatched
  <2> QED BY <1>16, <2>1, Halves, PTL
<1>23. Cleared' /\ isAggregate' = aggregate' /\ medias' = NMedia /\ pipeId' \in Nat
  BY <1>1, <1>13 DEF Pipelined, Cleared
<1>24. Pipelined'
  BY <1>16, <1>17, <1>18, <1>19, <1>21, <1>22, <1>23 DEF Pipelined
<1> QED BY <1>1, <1>13, <1>16, <1>20, <1>24 DEF Draining

\* When the last response is in, the client is in lockstep again.
LEMMA DrainedIsSingle == ASSUME Draining, open = <<>> PROVE Single
<1>1. /\ Types /\ Defined /\ AnswersMatched /\ pipelines \in Seq(Requests) /\ then = "nothing"
      /\ medias = NMedia /\ isAggregate = aggregate /\ Cleared /\ Range(open) = Range(pipelines)
      /\ todo = <<>> /\ pc \in {"idle", "app"} /\ pipeId = 0 /\ method \in Starts
      /\ Len(transports) = NMedia
  BY DEF Draining, Pipelined
<1>2. pipelines = <<>>
  <2>1. Range(open) = {}
    BY DEF Range
  <2>2. DOMAIN pipelines = {}
    BY <1>1, <2>1 DEF Range
  <2> QED BY <1>1, <2>2, EmptySeq, LenProperties
<1>3. method \notin Early \cup {"SETUP"} /\ method \notin {"OPTIONS", "DESCRIBE"}
  BY <1>1 DEF Starts, Early
<1>4. LastIsOpen /\ Turn /\ Phase
  BY <1>1, <1>2, <1>3 DEF LastIsOpen, Turn, Phase
<1> QED BY <1>1, <1>3, <1>4 DEF Single, Lockstep

\* No call of the API touches the credentials.
LEMMA ApiFacts ==
    ASSUME ApiCall
    PROVE  needAuth' = needAuth /\ \E api : Calls(api)
<1>1. CASE PlainCall
  BY <1>1 DEF PlainCall, Plain, Issue
<1>2. CASE Announce
  BY <1>2 DEF Announce, Issue
<1>3. CASE Setup \/ SetupNothing
  BY <1>3 DEF Setup, SetupNothing, Issue, authVars
<1>4. CASE WalkCall
  BY <1>4 DEF WalkCall, Walk, StepWalk, Issue, authVars
<1>5. CASE StartPipeline \/ StopPipeline
  BY <1>5 DEF StartPipeline, StopPipeline, authVars
<1> QED BY <1>1, <1>2, <1>3, <1>4, <1>5 DEF ApiCall

\* Until the description is known a pipelining client has one open request: it sends
\* the first one, or everything at once.
LEMMA SingleApi ==
    ASSUME World, Peer, pipelining, Single, ApiCall
    PROVE  Single' /\ Peer'
<1>1. Lockstep /\ method # "SETUP" /\ todo # <<"setup">> /\ (Cleared \/ Unanswered)
  BY DEF Single
<1>2. PICK api : Calls(api)
  BY ApiFacts
<1>3. /\ todo = <<api>> /\ todo' = <<>> /\ open = <<>> /\ api \in Apis
      /\ UNCHANGED <<hasSession, peerSession, pipelining, policy, rightPassword>>
  BY <1>1, <1>2, CallFacts DEF Calls, peerVars, worldVars
<1>4. Lockstep'
  BY <1>1, ApiKeeps
<1>5. needAuth' = needAuth
  BY ApiFacts
<1>6. method' # "SETUP"
  <2>1. ~Calls("setup") /\ ~Calls("startPipeline") /\ ~Calls("stopPipeline")
    <3>1. \A a \in {"setup", "startPipeline", "stopPipeline"} : Calls(a) => a = api
      BY <1>3 DEF Calls
    <3>2. api # "setup" /\ api # "startPipeline" /\ api # "stopPipeline"
      BY <1>1, <1>3 DEF Apis, FirstApis, WalkApis
    <3> QED BY <3>1, <3>2
  <2>2. PlainCall \/ Announce \/ WalkCall
    BY <2>1 DEF ApiCall, SetupNothing, Setup, StartPipeline, StopPipeline
  <2>3. CASE PlainCall \/ Announce
    BY <2>3 DEF PlainCall, Plain, Announce, Issue
  <2>4. CASE WalkCall
    BY <1>1, <2>4 DEF WalkCall, Walk, StepWalk, Issue, authVars
  <2> QED BY <2>2, <2>3, <2>4
<1>7. Cleared => Cleared'
  BY <1>3, <1>5 DEF Cleared
<1>8. ASSUME Unanswered PROVE Unanswered'
  <2>1. api = "options"
    BY <1>3, <1>8 DEF Unanswered
  <2>2. \A a : Calls(a) => a = "options"
    BY <1>3, <2>1 DEF Calls
  <2>3. Plain("options", "OPTIONS")
    BY <2>2 DEF ApiCall, PlainCall, Plain, Announce, SetupNothing, Setup, WalkCall, Walk, StartPipeline,
                StopPipeline
  <2>4. Issue(<<>>, "OPTIONS", <<uri>>) /\ "OPTIONS" \in Methods /\ uri \in 0..NMedia
    BY <1>1, <1>3, <2>3 DEF Plain, Methods, Lockstep, Types
  <2>5. Sends("OPTIONS", uri) /\ open'[1].auth = needAuth
    BY <1>1, <2>4, IssueOne DEF Lockstep
  <2> QED BY <1>3, <1>5, <2>5 DEF Unanswered, Sends
<1> QED BY <1>1, <1>3, <1>4, <1>6, <1>7, <1>8 DEF Single, Peer

\* Nor does the user send a second one.
LEMMA SingleUser ==
    ASSUME ~Overlap, ~SecondWalk, World, Peer, pipelining, Single, UserCall
    PROVE  Single' /\ Peer'
<1>1. Lockstep /\ method # "SETUP" /\ (Cleared \/ Unanswered)
  BY DEF Single
<1>2. Lockstep'
  BY <1>1, UserKeeps
<1>3. /\ Playing
      /\ UNCHANGED <<needAuth, method, hasSession, peerSession, pipelining, policy, rightPassword>>
  BY DEF UserCall, authVars, peerVars, worldVars
<1>4. todo' # <<"setup">>
  <2>1. PICK api \in UserCalls : todo' = <<api>>
    BY DEF UserCall
  <2> QED BY <2>1, ClientAssumption
<1>5. Cleared
  BY <1>1, <1>3 DEF Lockstep, Phase, Early, Unanswered
<1> QED BY <1>1, <1>2, <1>3, <1>4, <1>5 DEF Single, Peer, Cleared

\* The callback for the description makes all the calls in a row.
LEMMA StartsPipelining ==
    ASSUME World, Peer, pipelining, Single, NEW q, NEW res, Answered(q, res), todo' # <<>>,
           NEW kind \in {"DESCRIBE", "ANNOUNCE"}, kind = method, Callback(kind, q, res, "nothing"),
           open' = <<>>, medias' = NMedia, isAggregate' = aggregate,
           UNCHANGED <<needAuth, method, uri, cseq, hasSession, mediaStep, transports, setupIter,
                       pipeId, pipelines, sent, worldVars>>
    PROVE  Starting'
<1>1. Lockstep /\ Cleared
  BY DEF Single, Unanswered
<1>2. /\ Types /\ CallbacksMatched /\ RepeatsMatched /\ pipeId = 0 /\ pipelines = <<>>
      /\ setups = 0 /\ mediaStep = 0
  BY <1>1, Halves DEF Lockstep, LastIsOpen, Phase, Early
<1>3. q \in Requests /\ kind = q.method /\ res.ok \in BOOLEAN /\ peerSession' \in BOOLEAN
  BY DEF Answered
<1>4. Reports(kind, res.ok, "nothing")
  <2>1. kind \in {q.method, "AUTH"}
    BY <1>3
  <2> QED BY <1>2, <1>3, <2>1, CallbackReports, Zenon
<1>5. /\ pc' = "app" /\ then' = "nothing" /\ userCalls' = userCalls /\ setups' = 0
      /\ callbacks' \in Seq(CallbackRecords) /\ CallbacksMatched' /\ Defined'
  BY <1>2, <1>4 DEF Reports
<1>6. PICK api \in {"play", "record"} : todo' = <<"startPipeline", "setup", api, "stopPipeline">>
  <2> QED BY <1>4, ScriptPipelines DEF Reports
<1>7. UNCHANGED <<aggregate, policy, rightPassword>> /\ aggregate \in BOOLEAN
  BY DEF worldVars, World
<1>8. open' \in Seq(Requests) /\ pipelines' \in Seq(Requests)
  BY <1>2, EmptySeq
<1>9. Types'
  BY <1>2, <1>3, <1>5, <1>7, <1>8, ClientAssumption DEF Types
<1>10. AnswersMatched'
  <2>1. RepeatsMatched'
    BY <1>2 DEF RepeatsMatched
  <2> QED BY <1>5, <2>1, Halves, PTL
<1>11. /\ Range(open') = {} /\ Range(pipelines') = {} /\ Numbered(open') /\ Numbered(pipelines')
  BY <1>2 DEF Range, Numbered
<1>12. IsFiniteSet(Setups') /\ Cardinality(Setups') + setups' <= NMedia
  <2>1. Setups' = {}
    BY <1>11 DEF Setups
  <2> QED BY <1>5, <2>1, FS_EmptySet, ClientAssumption
<1>13. Cleared' /\ pipeId' = 0
  BY <1>1, <1>2, <1>7 DEF Cleared
<1>14. Pipelined'
  BY <1>5, <1>7, <1>8, <1>9, <1>10, <1>11, <1>12, <1>13 DEF Pipelined
<1>15. method' \in Early
  BY DEF Early
<1> QED BY <1>2, <1>5, <1>6, <1>13, <1>14, <1>15 DEF Starting, Unsent

\* ... also for one that was refused and has no media.
LEMMA MisledBegins ==
    ASSUME pipelining, Single, NEW q, NEW res, Answered(q, res), ~res.ok, todo' # <<>>,
           HandleDescribe(q, res, <<>>)
    PROVE  Misled'
<1>1. /\ method = "DESCRIBE" /\ q.method = "DESCRIBE" /\ q \in Requests /\ res.ok \in BOOLEAN /\ open # <<>>
      /\ Callback("DESCRIBE", q, res, "nothing") /\ open' = <<>> /\ medias' = 0
      /\ isAggregate' = (isAggregate \/ (aggregate /\ medias' > 0))
      /\ UNCHANGED <<needAuth, method, uri, cseq, hasSession, mediaStep, transports, setupIter, pipeId,
                     pipelines, sent>>
      /\ peerSession' \in BOOLEAN
  BY DEF HandleDescribe, Answered, authVars, pipeVars
<1>2. Types /\ CallbacksMatched /\ RepeatsMatched /\ pipeId = 0 /\ pipelines = <<>> /\ setups \in 0..NMedia
  BY Halves DEF Single, Lockstep, LastIsOpen, Types
<1>3. isAggregate' = FALSE
  <2>1. ~isAggregate
    BY <1>1 DEF Single, Lockstep, Phase
  <2>2. ~(medias' > 0)
    BY <1>1
  <2> QED BY <1>1, <2>1, <2>2
<1>4. Reports("DESCRIBE", res.ok, "nothing")
  <2>1. "DESCRIBE" \in {q.method, "AUTH"}
    BY <1>1
  <2> QED BY <1>1, <1>2, <2>1, CallbackReports, Zenon
<1>5. /\ pc' = "app" /\ then' = "nothing" /\ userCalls' = userCalls /\ setups' = setups
      /\ callbacks' \in Seq(CallbackRecords) /\ CallbacksMatched' /\ DescriptionRefused'
  BY <1>4 DEF Reports
<1>6. PICK api \in {"play", "record"} : todo' = <<"startPipeline", "setup", api, "stopPipeline">>
  BY <1>4, ScriptPipelines DEF Reports
<1>7. open' \in Seq(Requests)
  BY <1>1, EmptySeq
<1>8. Types'
  BY <1>1, <1>2, <1>3, <1>5, <1>7 DEF Types
<1>9. AnswersMatched'
  <2>1. RepeatsMatched'
    BY <1>1, <1>2 DEF RepeatsMatched
  <2> QED BY <1>5, <2>1, Halves, PTL
<1> QED BY <1>1, <1>2, <1>3, <1>5, <1>6, <1>8, <1>9 DEF Misled

\* The next call of a misled application is without effect, or the last.
LEMMA MisledCall ==
    ASSUME Misled, Next, ~UNCHANGED vars
    PROVE  /\ UNCHANGED <<then, setups, userCalls, hasSession, peerSession, pipelining, policy, rightPassword,
                          aggregate, callbacks>>
           /\ UNCHANGED <<needAuth, method, uri, cseq, medias, isAggregate, mediaStep, transports, setupIter,
                          pipelines, open, sent>>
           /\ pipeId' \in Nat
           /\ \E api \in {"play", "record"} :
                 \/ pc' = "undefined" /\ todo' = <<"stopPipeline">>
                 \/ pc' = "app" /\ todo' \in {<<"setup", api, "stopPipeline">>, <<api, "stopPipeline">>}
<1>1. (pc = "app" => todo # <<>>) /\ pc \in {"app", "undefined"}
  BY DEF Misled
<1>2. ApiCall /\ pc = "app" /\ todo # <<>>
  <2>1. ~UserCall /\ ~HandleResponse /\ ~Return
    BY <1>1 DEF UserCall, HandleResponse, Return
  <2>2. ApiCall
    BY <2>1 DEF Next, Quiet
  <2>3. \E api : Calls(api)
    BY <2>2, ApiFacts
  <2> QED BY <2>2, <2>3 DEF Calls
<1>3. PICK api \in {"play", "record"} :
         todo \in {<<"startPipeline", "setup", api, "stopPipeline">>,
                   <<"setup", api, "stopPipeline">>, <<api, "stopPipeline">>}
  BY <1>2 DEF Misled
<1>4. /\ todo' = Tail(todo)
      /\ UNCHANGED <<then, setups, userCalls, hasSession, peerSession, pipelining, policy, rightPassword,
                     aggregate, callbacks>>
  BY <1>2, NextCall DEF peerVars, worldVars
<1>5. Types /\ open = <<>> /\ pipelines = <<>> /\ pipeId \in Nat /\ medias = 0 /\ ~isAggregate
  BY DEF Misled
<1>6. /\ UNCHANGED <<needAuth, method, uri, cseq, medias, isAggregate, mediaStep, transports, setupIter,
                     pipelines, open, sent>>
      /\ pipeId' \in Nat
      /\ \/ pc' = "undefined" /\ todo' = <<"stopPipeline">>
         \/ pc' = "app" /\ todo' \in {<<"setup", api, "stopPipeline">>, <<api, "stopPipeline">>}
  <2>1. CASE todo = <<"startPipeline", "setup", api, "stopPipeline">>
    <3>1. Head(todo) = "startPipeline" /\ Tail(todo) = <<"setup", api, "stopPipeline">>
      BY <2>1
    <3>2. StartPipeline
      BY <1>2, <3>1, NextCall
    <3> QED BY <1>2, <1>4, <3>1, <3>2, ClientAssumption DEF StartPipeline, authVars, walkVars
  <2>2. CASE todo = <<"setup", api, "stopPipeline">>
    <3>1. Head(todo) = "setup" /\ Tail(todo) = <<api, "stopPipeline">>
      BY <2>2
    <3>2. SetupNothing
      BY <1>2, <1>5, <3>1, NextCall DEF Setup
    <3> QED BY <1>2, <1>4, <1>5, <3>1, <3>2 DEF SetupNothing, authVars, walkVars, pipeVars
  <2>3. CASE todo = <<api, "stopPipeline">>
    <3>1. Head(todo) = api
      BY <2>3
    <3>2. \E m : Walk(api, m)
      BY <1>2, <1>3, <3>1, NextCall
    <3>3. ~(mediaStep < medias)
      BY <1>5, ClientAssumption DEF Types
    <3>4. todo' = <<"stopPipeline">>
      BY <1>4, <2>3
    <3> QED BY <1>5, <3>2, <3>3, <3>4 DEF Walk, StepWalk, authVars, pipeVars
  <2> QED BY <1>3, <2>1, <2>2, <2>3
<1> QED BY <1>4, <1>6

\* So it stays misled.
LEMMA MisledKeeps ==
    ASSUME Peer, Misled, Next, ~UNCHANGED vars
    PROVE  Misled' /\ Peer'
<1>1. /\ Types /\ AnswersMatched /\ DescriptionRefused
      /\ open = <<>> /\ pipelines = <<>> /\ pipeId \in Nat /\ medias = 0 /\ ~isAggregate
  BY DEF Misled
<1>2. Types' /\ AnswersMatched' /\ DescriptionRefused'
  BY <1>1, MisledCall DEF Types, AnswersMatched, DescriptionRefused
<1>3. Peer'
  BY MisledCall DEF Peer
<1> QED BY <1>1, <1>2, <1>3, MisledCall DEF Misled

\* A response while one request is open, as without pipelining.
LEMMA SingleAnswer ==
    ASSUME World, Peer, pipelining, Single, HandleResponse
    PROVE  (Single \/ Starting \/ Misled)' /\ Peer'
<1>1. Lockstep /\ method # "SETUP" /\ (Cleared \/ Unanswered)
  BY DEF Single
<1>2. PICK q, res : Answered(q, res) /\ Accepted(q, res) /\ Receive(q, res, <<>>)
  BY <1>1, OneHandled
<1>3. UNCHANGED worldVars /\ UNCHANGED <<pipelining, policy, rightPassword>>
  BY DEF HandleResponse, worldVars
<1>4. /\ todo = <<>> /\ q = open[1] /\ open # <<>> /\ q.method = method /\ res.ok \in BOOLEAN
      /\ peerSession => peerSession'
  BY <1>1, <1>2 DEF Answered, Accepted, Lockstep, Turn
<1>5. ~(res.pipe > 0) /\ ~HandleSetup(q, res, <<>>)
  BY <1>1, <1>2 DEF Answered, HandleSetup
<1>6. needAuth' = needAuth => (Cleared => Cleared')
  BY <1>3 DEF Cleared
<1>7. hasSession' = hasSession => Peer'
  <2>1. hasSession \in BOOLEAN /\ peerSession \in BOOLEAN
    BY <1>1 DEF Lockstep, Types
  <2>2. hasSession' = hasSession => (hasSession' => peerSession')
    BY <1>4, <2>1 DEF Peer
  <2>3. policy' \in Policies[pipelining']
    BY <1>3 DEF Peer
  <2> QED BY <2>2, <2>3 DEF Peer
<1>8. CASE HandleUnAuth(q, <<>>)
  <2>1. Lockstep'
    BY <1>1, <1>2, <1>8, RepeatKeeps
  <2>2. ~needAuth /\ needAuth' = TRUE /\ UNCHANGED <<method, todo, hasSession>>
    BY <1>8 DEF HandleUnAuth, NoCallback
  <2>3. Cleared => Cleared'
    BY <1>3, <2>2 DEF Cleared
  <2>4. Unanswered => Unanswered'
    BY <2>2 DEF Unanswered
  <2> QED BY <1>1, <1>4, <1>7, <2>1, <2>2, <2>3, <2>4 DEF Single
<1>9. ASSUME NEW kind,
             \/ kind = "AUTH"
             \/ /\ kind = method /\ kind # "DESCRIBE" /\ ~res.unauthorized
                /\ kind # "ANNOUNCE" \/ todo' = <<>>,
             Callback(kind, q, res, "nothing"), open' = <<>>,
             UNCHANGED <<authVars, hasSession, walkVars, pipeVars, sent>>
      PROVE  Single' /\ Peer'
  <2>1. /\ kind \in {q.method, "AUTH"} /\ kind \notin {"SETUP", "DESCRIBE"}
        /\ ~pipelining \/ todo' = <<>> \/ kind # "ANNOUNCE"
    BY <1>1, <1>4, <1>9
  <2>2. Lockstep'
    BY <1>1, <1>2, <1>9, <2>1, ReportKeeps
  <2>3. todo' \in MayCall(kind, res.ok) /\ UNCHANGED <<method, needAuth, hasSession>>
    BY <1>9 DEF Callback, authVars
  <2>4. todo' = <<>> \/ (kind = "OPTIONS" /\ todo' \in {<<"announce">>, <<"describe">>})
    BY <1>4, <2>1, <2>3, ScriptFacts
  <2>5. Unanswered => Cleared' \/ Unanswered'
    <3>1. CASE kind = "OPTIONS"
      BY <1>2, <1>3, <1>4, <1>9, <2>3, <3>1 DEF Unanswered, Cleared, Accepted
    <3>2. CASE kind # "OPTIONS"
      BY <1>9, <2>3, <2>4, <3>2 DEF Unanswered
    <3> QED BY <3>1, <3>2
  <2> QED BY <1>1, <1>6, <1>7, <2>2, <2>3, <2>4, <2>5 DEF Single
<1>10. CASE AuthFailed(q, res, <<>>)
  BY <1>9, <1>10 DEF AuthFailed
<1>11. CASE SessionError(<<>>)
  <2>1. Lockstep'
    BY <1>1, <1>2, <1>11, SessionErrorKeeps
  <2>2. open' = <<>> /\ UNCHANGED <<method, needAuth, todo, hasSession>>
    BY <1>11 DEF SessionError, NoCallback, authVars
  <2>3. Unanswered => Unanswered'
    BY <2>2 DEF Unanswered
  <2> QED BY <1>1, <1>4, <1>6, <1>7, <2>1, <2>2, <2>3 DEF Single
<1>12. CASE ~res.unauthorized /\ (HandlePlain(q, res, <<>>) \/ ReportWalk(q, res, <<>>))
  <2>1. PICK kind : kind = method
    OBVIOUS
  <2>2. /\ Callback(kind, q, res, "nothing") /\ open' = <<>> /\ kind # "DESCRIBE"
        /\ UNCHANGED <<authVars, hasSession, walkVars, pipeVars, sent>>
    BY <1>12, <2>1, Zenon DEF HandlePlain, ReportWalk
  <2>3. CASE kind = "ANNOUNCE" /\ todo' # <<>>
    <3>1. medias = NMedia /\ isAggregate = aggregate
      BY <1>1, <2>1, <2>3 DEF Lockstep, Phase
    <3>2. UNCHANGED <<needAuth, method, uri, cseq, hasSession, medias, isAggregate, mediaStep, transports,
                      setupIter, pipeId, pipelines, sent>>
      BY <2>2 DEF authVars, walkVars, pipeVars
    <3>3. medias' = NMedia /\ isAggregate' = aggregate /\ kind \in {"DESCRIBE", "ANNOUNCE"} /\ todo' # <<>>
      BY <2>3, <3>1, <3>2
    <3>4. Starting'
      BY <1>2, <1>3, <2>1, <2>2, <3>2, <3>3, StartsPipelining
    <3> QED BY <1>7, <3>2, <3>4
  <2>4. CASE ~(kind = "ANNOUNCE" /\ todo' # <<>>)
    BY <1>9, <1>12, <2>1, <2>2, <2>4
  <2> QED BY <2>3, <2>4
<1>13. CASE HandleDescribe(q, res, <<>>)
  <2>1. /\ method = "DESCRIBE" /\ Callback("DESCRIBE", q, res, "nothing") /\ open' = <<>>
        /\ medias' = (IF res.ok THEN NMedia ELSE 0)
        /\ isAggregate' = (isAggregate \/ (aggregate /\ medias' > 0))
        /\ UNCHANGED <<needAuth, method, uri, cseq, hasSession, mediaStep, transports, setupIter, pipeId,
                       pipelines, sent>>
    BY <1>4, <1>13 DEF HandleDescribe, authVars, pipeVars
  <2>2. CASE res.ok /\ todo' # <<>>
    <3>1. NMedia > 0 /\ (isAggregate => aggregate) /\ isAggregate \in BOOLEAN /\ aggregate \in BOOLEAN
      BY <1>1, ClientAssumption DEF Lockstep, Phase, Types, World
    <3>2. medias' = NMedia /\ isAggregate' = aggregate
      BY <2>1, <2>2, <3>1
    <3>3. Starting'
      BY <1>2, <1>3, <2>1, <2>2, <3>2, StartsPipelining
    <3> QED BY <1>7, <2>1, <3>3
  <2>3. CASE todo' = <<>>
    <3>1. Lockstep'
      BY <1>1, <1>2, <1>13, <2>3, DescribeKeeps
    <3>2. Cleared'
      BY <1>1, <1>6, <2>1 DEF Unanswered
    <3> QED BY <1>1, <1>7, <2>1, <2>3, <3>1, <3>2 DEF Single
  <2>4. CASE ~res.ok /\ todo' # <<>>
    <3>1. Misled'
      BY <1>2, <1>13, <2>4, MisledBegins
    <3> QED BY <1>7, <2>1, <3>1
  <2> QED BY <1>4, <2>2, <2>3, <2>4
<1>14. CASE ContinueWalk(q, res, <<>>)
  <2>1. Lockstep'
    BY <1>1, <1>2, <1>14, ContinueKeeps
  <2>2. /\ method \in {"PLAY", "RECORD", "PAUSE", "TEARDOWN"} /\ UNCHANGED <<hasSession, todo>>
        /\ StepWalk(<<>>, method, <<mediaStep + 1>>)
    BY <1>14 DEF ContinueWalk, NoCallback
  <2>3. method' = method /\ needAuth' = needAuth
    BY <2>2 DEF StepWalk, Issue, authVars
  <2>4. Cleared'
    BY <1>1, <1>6, <2>2, <2>3 DEF Unanswered
  <2> QED BY <1>1, <1>4, <1>7, <2>1, <2>2, <2>3, <2>4 DEF Single
<1> QED BY <1>2, <1>5, <1>8, <1>10, <1>11, <1>12, <1>13, <1>14 DEF Receive

\* The handler that returns leaves the open request alone.
LEMMA SingleReturn ==
    ASSUME Peer, Single, Return
    PROVE  Single' /\ Peer' /\ UNCHANGED <<method, open, sent>>
<1>1. Lockstep /\ method # "SETUP" /\ (Cleared \/ Unanswered)
  BY DEF Single
<1>2. Lockstep'
  BY <1>1, ReturnKeeps
<1>3. /\ todo = <<>> /\ todo' = <<>>
      /\ UNCHANGED <<hasSession, peerSession, pipelining, policy, rightPassword>>
  BY DEF Return, peerVars, worldVars
<1>4. UNCHANGED <<needAuth, method, open, sent>>
  <2>1. CASE then # "nextSetup"
    BY <2>1 DEF Return, authVars
  <2>2. CASE then = "nextSetup"
    <3>1. setupIter \in 1..NMedia /\ ~(setupIter < NMedia) /\ NMedia \in Nat
      BY <1>1, <2>2, ClientAssumption DEF Lockstep, Turn
    <3>2. method \notin Early
      BY <1>1, <2>2 DEF Lockstep, Phase
    <3>3. Len(transports) = NMedia
      BY <1>1, <3>2 DEF Lockstep, Phase
    <3>4. ~(setupIter' <= Len(transports))
      BY <2>2, <3>1, <3>3 DEF Return, NextAfter
    <3> QED BY <2>2, <3>4 DEF Return, authVars
  <2> QED BY <2>1, <2>2
<1>5. Cleared' \/ Unanswered'
  BY <1>1, <1>3, <1>4 DEF Cleared, Unanswered
<1> QED BY <1>1, <1>2, <1>3, <1>4, <1>5 DEF Single, Peer

\* A pipelining client starts alone.
LEMMA PipelineInvInit == Init => PipelineInv
<1> SUFFICES ASSUME Init PROVE PipelineInv
  OBVIOUS
<1>1. World
  BY InitIInv DEF IInv
<1>2. Peer
  BY DEF Init, Peer
<1>3. Lockstep
  BY InitLockstep
<1>4. Single
  BY <1>3 DEF Init, Single, Unanswered
<1> QED BY <1>1, <1>2, <1>4 DEF PipelineInv

\* A callback that is pipelining has a call to make.
LEMMA StartingCalls == Starting => todo # <<>>
<1> SUFFICES ASSUME Starting PROVE todo # <<>>
  OBVIOUS
<1>1. PICK api \in {"play", "record"} :
         todo \in {<<"startPipeline", "setup", api, "stopPipeline">>, <<"setup", api, "stopPipeline">>,
                   <<api, "stopPipeline">>, <<"stopPipeline">>}
  BY DEF Starting
<1> QED BY <1>1

\* What is open while pipelined requests are answered is pipelined.
LEMMA PipelinedOpen == Pipelined /\ LastIsOpen => open = <<>>
<1> SUFFICES ASSUME Pipelined, LastIsOpen PROVE open = <<>>
  OBVIOUS
<1>1. open \in Seq(Requests) /\ Range(open) = Range(pipelines) /\ pipelines = <<>>
  BY DEF Pipelined, Types, LastIsOpen
<1>2. Range(open) = {}
  BY <1>1 DEF Range
<1>3. DOMAIN open = {}
  BY <1>2 DEF Range
<1> QED BY <1>1, <1>3, EmptySeq, LenProperties

\* One thing at a time, then everything at once, then one thing at a time.
LEMMA PipelineInvStep ==
    ASSUME PipelinedPeer, ~Overlap, ~SecondWalk, PipelineInv, pipelining, [Next]_vars
    PROVE  (Single \/ Starting \/ Draining \/ Misled)' /\ Peer'
<1>1. World /\ Peer /\ (Single \/ Starting \/ Draining \/ Misled)
  BY DEF PipelineInv
<1>2. CASE UNCHANGED vars
  <2>1. UNCHANGED <<needAuth, method, uri, cseq, hasSession, medias, isAggregate, mediaStep, transports,
                    setupIter, pipeId, pipelines, pc, then, todo, setups, userCalls, open, peerSession,
                    pipelining, policy, rightPassword, aggregate, sent, callbacks>>
    BY <1>2 DEF vars, authVars, walkVars, pipeVars, appVars, peerVars, worldVars
  <2>2. Peer' /\ (Cleared => Cleared') /\ (Unanswered => Unanswered') /\ (Playing' <=> Playing)
    BY <1>1, <2>1, PlayingSame DEF Peer, Cleared, Unanswered
  <2>3. /\ Types => Types' /\ (Defined => Defined') /\ (AnswersMatched => AnswersMatched')
    BY <2>1 DEF Types, Defined, AnswersMatched
  <2>4. Single => Single'
    <3>1. Lockstep => LastIsOpen' /\ Turn' /\ Phase'
      BY <2>1, <2>2 DEF Lockstep, LastIsOpen, Turn, Phase
    <3> QED BY <2>1, <2>2, <2>3, <3>1 DEF Single, Lockstep
  <2>5. Pipelined => Pipelined'
    <3>1. Setups' = Setups /\ \A r : Secured(r)' <=> Secured(r)
      BY <2>1 DEF Setups, Secured
    <3> QED BY <2>1, <2>2, <2>3, <3>1 DEF Pipelined
  <2>6. (Starting => Starting') /\ (Draining => Draining')
    BY <2>1, <2>5 DEF Starting, Draining, Unsent, Asked
  <2>7. Misled => Misled'
    BY <2>1, <2>3 DEF Misled, DescriptionRefused
  <2> QED BY <1>1, <2>2, <2>4, <2>6, <2>7
<1>3. CASE Single /\ ~UNCHANGED vars
  BY <1>1, <1>3, SingleApi, SingleUser, SingleAnswer, SingleReturn DEF Next, Quiet
<1>4. CASE Starting /\ ~UNCHANGED vars
  <2>1. pc = "app" /\ todo # <<>>
    BY <1>4, StartingCalls DEF Starting
  <2>2. ApiCall
    BY <1>4, <2>1 DEF Next, Quiet, UserCall, HandleResponse, Return
  <2> QED BY <1>1, <1>4, <2>2, StartingKeeps
<1>5. CASE Draining /\ ~UNCHANGED vars
  <2>1. todo = <<>> /\ then = "nothing"
    BY <1>5 DEF Draining, Pipelined
  <2>2. ~ApiCall
    BY <2>1, ApiFacts DEF Calls
  <2>3. CASE UserCall
    <3>1. open = <<>>
      BY <2>3 DEF UserCall
    <3>2. Single
      BY <1>5, <3>1, DrainedIsSingle
    <3> QED BY <1>1, <2>3, <3>2, SingleUser
  <2>4. CASE HandleResponse
    BY <1>1, <1>5, <2>4, DrainingAnswer
  <2>5. CASE Return
    <3>1. /\ pc' = "idle" /\ then' = "nothing"
          /\ UNCHANGED <<needAuth, method, uri, cseq, hasSession, medias, isAggregate, mediaStep, transports,
                         setupIter, pipeId, pipelines, todo, setups, userCalls, open, peerSession,
                         pipelining, policy, rightPassword, aggregate, sent, callbacks>>
      BY <2>1, <2>5 DEF Return, authVars, pipeVars, peerVars, worldVars
    <3>2. Pipelined
      BY <1>5 DEF Draining
    <3>3. Types' /\ Defined' /\ AnswersMatched' /\ Cleared'
      BY <3>1, <3>2 DEF Pipelined, Types, Defined, AnswersMatched, Cleared
    <3>4. Setups' = Setups /\ \A r : Secured(r)' <=> Secured(r)
      BY <3>1 DEF Setups, Secured
    <3>5. Pipelined'
      BY <3>1, <3>2, <3>3, <3>4 DEF Pipelined
    <3> QED BY <1>1, <1>5, <3>1, <3>5 DEF Draining, Peer
  <2> QED BY <1>5, <2>2, <2>3, <2>4, <2>5 DEF Next, Quiet
<1>6. CASE Misled /\ ~UNCHANGED vars
  BY <1>1, <1>6, MisledKeeps
<1> QED BY <1>1, <1>2, <1>3, <1>4, <1>5, <1>6

\* A pipelining client has one open request, then all it ever pipelines, then fewer
\* of them with every response; or its description was refused and it stumbles over that.
THEOREM PipelinedInvariant ==
    ASSUME PipelinedPeer, ~Overlap, ~SecondWalk PROVE Spec => [](IInv /\ PipelineInv)
<1>1. Init => IInv /\ PipelineInv
  BY InitIInv, PipelineInvInit
<1>2. IInv /\ PipelineInv /\ [Next]_vars => (IInv /\ PipelineInv)'
  <2> SUFFICES ASSUME IInv, PipelineInv, [Next]_vars PROVE (IInv /\ PipelineInv)'
    OBVIOUS
  <2>1. IInv' /\ UNCHANGED <<pipelining, aggregate>>
    BY StepKeeps
       DEF vars, Next, ApiCall, PlainCall, Plain, Announce, SetupNothing, Setup, WalkCall, Walk, StartPipeline,
           StopPipeline, Calls, UserCall, HandleResponse, Return, Quiet, peerVars, worldVars
  <2>2. pipelining => (Single \/ Starting \/ Draining \/ Misled)' /\ Peer'
    BY PipelineInvStep
  <2> QED BY <2>1, <2>2 DEF IInv, World, PipelineInv
<1> QED BY <1>1, <1>2, PTL DEF Spec

\* What pipelining has in common with lockstep, and what is its own.
LEMMA EitherWay ==
    ASSUME IInv, PipelineInv
    PROVE  /\ Types /\ StaysDefined /\ AnswersMatched
           /\ LastIsOpen \/ Pipelined \/ Misled
<1>1. Lockstep \/ Pipelined \/ (pipelining /\ Misled)
  BY DEF IInv, PipelineInv, Single, Starting, Draining
<1>2. CASE Lockstep \/ Pipelined
  BY <1>2 DEF Lockstep, Pipelined, Defined, StaysDefined
<1>3. CASE pipelining /\ Misled
  BY <1>3 DEF Misled, StaysDefined
<1> QED BY <1>1, <1>2, <1>3

\* Pipelined or not, the client's state keeps its type: mediaStep_ and the
\* iterator of setupIter_ stay within or one past their containers
\* (Rtsp2Client.cpp:238-360) for every number of media and every policy.
THEOREM TypeCorrect == ASSUME PipelinedPeer, ~Overlap, ~SecondWalk PROVE Spec => []TypeOK
<1>1. IInv /\ PipelineInv => TypeOK
  <2> SUFFICES ASSUME IInv, PipelineInv PROVE TypeOK
    OBVIOUS
  <2>1. CASE LastIsOpen
    BY <2>1, EitherWay, TypesImplyTypeOK
  <2>2. CASE Pipelined
    <3>1. {needAuth, hasSession, isAggregate, peerSession} \subseteq BOOLEAN
      BY EitherWay DEF Types
    <3>2. \A s \in {open, sent, pipelines} : s \in Seq(Requests)
      BY <2>2, EitherWay DEF Types, Pipelined
    <3> QED BY <2>2, <3>1, <3>2, EitherWay DEF Types, Pipelined, TypeOK
  <2>3. CASE Misled
    <3>1. {needAuth, hasSession, isAggregate, peerSession} \subseteq BOOLEAN
      BY EitherWay DEF Types
    <3>2. \A s \in {open, sent, pipelines} : s \in Seq(Requests)
      BY <2>3, EmptySeq, EitherWay DEF Types, Misled
    <3> QED BY <2>3, <3>1, <3>2, EitherWay DEF Types, Misled, TypeOK
  <2> QED BY <2>1, <2>2, <2>3, EitherWay
<1> QED BY PipelinedInvariant, <1>1, PTL

\* ... each response reaches the callback of its own request, found by
\* auth_.method or, in pipelines_, by CSeq (Rtsp2Client.cpp:60-115, 650-660).
THEOREM AnswersAlwaysMatched ==
    ASSUME PipelinedPeer, ~Overlap, ~SecondWalk PROVE Spec => []AnswersMatched
<1>1. IInv /\ PipelineInv => AnswersMatched
  BY EitherWay
<1> QED BY PipelinedInvariant, <1>1, PTL

\* ... and no handler uses an iterator or index outside its container, nor does
\* an exception leave input(), in whatever order the pipelined responses come, but
\* for the play() of a pipelining application whose DESCRIBE was refused: there, and
\* nowhere else, mediaDescriptions is read without a medium in it.
THEOREM AlwaysStaysDefined ==
    ASSUME PipelinedPeer, ~Overlap, ~SecondWalk PROVE Spec => []StaysDefined
<1>1. IInv /\ PipelineInv => StaysDefined
  BY EitherWay
<1> QED BY PipelinedInvariant, <1>1, PTL

\* pipelines_ holds exactly the pipelined requests still unanswered, under
\* numbers of their own: what addPipeline puts in, a response takes out.
THEOREM PipelineAlwaysMatches ==
    ASSUME PipelinedPeer, ~Overlap, ~SecondWalk PROVE Spec => []PipelineMatches
<1>1. IInv /\ PipelineInv => PipelineMatches
  <2> SUFFICES ASSUME IInv, PipelineInv PROVE PipelineMatches
    OBVIOUS
  <2> DEFINE numbers(s) == {s[i].cseq : i \in {j \in DOMAIN s : s[j].pipe > 0}}
  <2>1. CASE LastIsOpen
    <3>1. pipelines = <<>> /\ numbers(pipelines) = {}
      BY <2>1 DEF LastIsOpen
    <3>2. \A j \in DOMAIN open : ~(open[j].pipe > 0)
      <4> SUFFICES ASSUME NEW j \in DOMAIN open PROVE ~(open[j].pipe > 0)
        OBVIOUS
      <4>1. open \in Seq(Requests) /\ j \in 1..Len(open)
        BY EitherWay DEF Types
      <4>2. Len(open) = 1 /\ open[1].pipe = 0
        BY <2>1, <4>1 DEF LastIsOpen
      <4> QED BY <4>1, <4>2
    <3>3. numbers(open) = {}
      BY <3>2
    <3> QED BY <3>1, <3>3 DEF PipelineMatches
  <2>2. CASE Pipelined
    <3>1. Range(open) = Range(pipelines) /\ \A r \in Range(open) : r.pipe > 0
      BY <2>2 DEF Pipelined, Secured
    <3>2. ASSUME NEW s \in {open, pipelines} PROVE numbers(s) = {r.cseq : r \in Range(open)}
      <4>1. Range(s) = Range(open) /\ Range(s) = {s[i] : i \in DOMAIN s}
        BY <3>1, <3>2 DEF Range
      <4>2. \A i \in DOMAIN s : s[i].pipe > 0
        BY <3>1, <4>1
      <4>3. numbers(s) = {s[i].cseq : i \in DOMAIN s}
        BY <4>2
      <4>4. {r.cseq : r \in Range(s)} = {s[i].cseq : i \in DOMAIN s}
        BY <4>1
      <4> QED BY <4>1, <4>3, <4>4
    <3>3. Numbered(pipelines)
      BY <2>2 DEF Pipelined
    <3> QED BY <3>2, <3>3 DEF PipelineMatches, Numbered
  <2>3. CASE Misled
    BY <2>3 DEF Misled, PipelineMatches
  <2> QED BY <2>1, <2>2, <2>3, EitherWay
<1> QED BY PipelinedInvariant, <1>1, PTL

-----------------------------------------------------------------------------
(* The pipelined walk.  All media are started by one call, whose requests   *)
(* are never repeated, and nothing that comes later walks again.            *)

Launched ==
    /\ method \in Early \cup {"SETUP"} => SentFor(Starts) = {} /\ ~Playing
    /\ ~aggregate =>
          /\ method \notin Early \cup {"SETUP"} => EachOnce(Starts) /\ method \notin {"PAUSE", "TEARDOWN"}
          /\ LastIsOpen => (method \in Starts => open = <<>>) /\ \A api \in WalkApis : todo # <<api>>

\* What a batch of requests adds to the walks.
LEMMA SentGrowsBy ==
    ASSUME Types, NEW reqs \in Seq(Requests), sent' = sent \o reqs, NEW ms
    PROVE  /\ (\A i \in 1..Len(reqs) : reqs[i].method \notin ms) => SentFor(ms)' = SentFor(ms)
           /\ /\ SentFor(ms) = {} /\ Len(reqs) = NMedia
              /\ \A i \in 1..NMedia : reqs[i].method \in ms /\ reqs[i].uri = i
              => EachOnce(ms)'
<1>1. PICK n \in Nat, k \in Nat :
          /\ n = Len(sent) /\ k = Len(reqs) /\ DOMAIN sent = 1..n /\ DOMAIN sent' = 1..(n + k)
          /\ \A i \in 1..(n + k) : sent'[i] = IF i <= n THEN sent[i] ELSE reqs[i - n]
  <2>1. sent \in Seq(Requests)
    BY DEF Types
  <2>2. /\ Len(sent) \in Nat /\ Len(reqs) \in Nat /\ DOMAIN sent = 1..Len(sent)
        /\ Len(sent \o reqs) = Len(sent) + Len(reqs)
        /\ DOMAIN (sent \o reqs) = 1..(Len(sent) + Len(reqs))
        /\ \A i \in 1..(Len(sent) + Len(reqs)) :
              (sent \o reqs)[i] = IF i <= Len(sent) THEN sent[i] ELSE reqs[i - Len(sent)]
    BY <2>1, ConcatProperties, LenProperties
  <2> QED BY <2>2
<1>2. ASSUME \A i \in 1..k : reqs[i].method \notin ms PROVE SentFor(ms)' = SentFor(ms)
  <2>1. ASSUME NEW i \in 1..(n + k) PROVE sent'[i].method \in ms <=> i <= n /\ sent[i].method \in ms
    <3>1. CASE i <= n
      BY <1>1, <3>1
    <3>2. CASE ~(i <= n)
      <4>1. i - n \in 1..k /\ sent'[i] = reqs[i - n]
        BY <1>1, <3>2
      <4> QED BY <1>2, <3>2, <4>1
    <3> QED BY <3>1, <3>2
  <2> QED BY <1>1, <2>1 DEF SentFor
<1>3. ASSUME SentFor(ms) = {}, k = NMedia,
             \A i \in 1..NMedia : reqs[i].method \in ms /\ reqs[i].uri = i
      PROVE  EachOnce(ms)'
  <2>1. ASSUME NEW i \in 1..(n + k)
        PROVE  /\ i \in SentFor(ms)' <=> i > n
               /\ i > n => sent'[i].uri = i - n
    <3>1. CASE i <= n
      <4>1. sent'[i] = sent[i] /\ i \in DOMAIN sent
        BY <1>1, <3>1
      <4> QED BY <1>3, <3>1, <4>1 DEF SentFor
    <3>2. CASE i > n
      <4>1. i - n \in 1..k /\ sent'[i] = reqs[i - n]
        BY <1>1, <3>2
      <4> QED BY <1>1, <1>3, <3>2, <4>1 DEF SentFor
    <3> QED BY <1>1, <3>1, <3>2
  <2>2. \A i \in SentFor(ms)' : i \in 1..(n + k) /\ i > n /\ sent'[i].uri = i - n
    BY <1>1, <2>1 DEF SentFor
  <2>3. \A u \in 1..k : u + n \in SentFor(ms)' /\ sent'[u + n].uri = u
    <3> TAKE u \in 1..k
    <3>1. u + n \in 1..(n + k) /\ u + n > n /\ (u + n) - n = u
      OBVIOUS
    <3> QED BY <2>1, <3>1
  <2>4. \A i \in SentFor(ms)' : sent'[i].uri \in 1..k
    BY <1>1, <2>2
  <2>5. {sent'[i].uri : i \in SentFor(ms)'} = 1..NMedia
    BY <1>3, <2>3, <2>4
  <2>6. \A i, j \in SentFor(ms)' : i < j => sent'[i].uri < sent'[j].uri
    BY <1>1, <2>2
  <2> QED BY <2>5, <2>6 DEF EachOnce
<1> QED BY <1>1, <1>2, <1>3

\* Whether each medium was asked once is told from what was sent.
LEMMA EachOnceSame ==
    ASSUME sent' = sent, NEW ms
    PROVE  SentFor(ms)' = SentFor(ms) /\ (EachOnce(ms)' <=> EachOnce(ms))
  BY DEF SentFor, EachOnce

\* A request that starts nothing leaves the walk as it is.
LEMMA OtherSend ==
    ASSUME Types, NEW r \in Requests, sent' = Append(sent, r), NEW ms, r.method \notin ms
    PROVE  SentFor(ms)' = SentFor(ms) /\ (EachOnce(ms) => EachOnce(ms)')
<1>1. SentFor(ms)' = SentFor(ms) /\ \A k : Visited(ms, k) => Visited(ms, k)'
  BY SentGrows
<1>2. EachOnce(ms) <=> Visited(ms, NMedia)
  BY DEF EachOnce, Visited
<1>3. EachOnce(ms)' <=> Visited(ms, NMedia)'
  BY DEF EachOnce, Visited
<1> QED BY <1>1, <1>2, <1>3

\* The call that sends everything at once sends each once.
LEMMA SingleApiLaunched ==
    ASSUME World, pipelining, Single, Launched, ApiCall
    PROVE  Launched'
<1>1. Lockstep /\ LastIsOpen /\ Types /\ method # "SETUP"
  BY DEF Single, Lockstep
<1>2. PICK api : Calls(api)
  BY ApiFacts
<1>3. /\ todo = <<api>> /\ todo' = <<>> /\ open = <<>> /\ api \in Apis /\ callbacks' = callbacks
      /\ aggregate' = aggregate
  BY <1>1, <1>2, CallFacts
<1>4. Playing' <=> Playing
  BY <1>3, PlayingSame
<1>5. \A a : Calls(a) => a = api
  BY <1>3 DEF Calls
<1>6. \A a \in WalkApis : todo' # <<a>>
  BY <1>3
<1>7. ASSUME NEW m \in Methods \ (Starts \cup {"SETUP", "PAUSE", "TEARDOWN"}), Sends(m, uri),
             m \in Early => method = "OPTIONS", m \notin Early => method \notin Early
      PROVE  Launched'
  <2>1. PICK r \in Requests : sent' = Append(sent, r) /\ r.method = m /\ method' = m
    BY <1>7 DEF Sends
  <2>2. SentFor(Starts)' = SentFor(Starts) /\ (EachOnce(Starts) => EachOnce(Starts)')
    BY <1>1, <1>7, <2>1, OtherSend
  <2>3. CASE m \in Early
    BY <1>3, <1>4, <1>6, <1>7, <2>1, <2>2, <2>3 DEF Launched, Early
  <2>4. CASE m \notin Early
    BY <1>1, <1>3, <1>4, <1>6, <1>7, <2>1, <2>2, <2>4 DEF Launched, Early
  <2> QED BY <2>3, <2>4
<1>8. uri \in 0..NMedia
  BY <1>1 DEF Types
<1>9. /\ api \in FirstApis \ {"setup"} => method = "OPTIONS"
      /\ api \notin FirstApis => method \notin Early
  BY <1>1, <1>3 DEF Lockstep, Phase
<1>10. CASE PlainCall \/ Announce
  <2>1. PICK m \in {"OPTIONS", "DESCRIBE", "ANNOUNCE", "GET_PARAMETER", "SET_PARAMETER"} :
            /\ Issue(<<>>, m, <<uri>>) /\ (m \in Early => method = "OPTIONS")
            /\ m \notin Early => method \notin Early
    BY <1>3, <1>5, <1>9, <1>10 DEF PlainCall, Plain, Announce, Early, FirstApis
  <2>2. m \in Methods \ (Starts \cup {"SETUP", "PAUSE", "TEARDOWN"})
    BY DEF Methods, Starts
  <2>3. Sends(m, uri)
    BY <1>1, <1>8, <2>1, <2>2, IssueOne
  <2> QED BY <1>7, <2>1, <2>2, <2>3
<1>11. CASE WalkCall
  <2>1. api \in WalkApis
    BY <1>5, <1>11 DEF WalkCall, Walk, WalkApis
  <2>2. aggregate
    BY <1>1, <1>3, <2>1 DEF Launched
  <2>3. method' \notin Early \cup {"SETUP"}
    <3>1. method \notin Early \cup {"SETUP"}
      BY <1>1, <1>9, <2>1 DEF WalkApis, FirstApis
    <3> QED BY <1>11, <3>1 DEF WalkCall, Walk, StepWalk, Issue, authVars, Early
  <2> QED BY <1>3, <2>2, <2>3 DEF Launched
<1>12. ~Setup /\ ~SetupNothing /\ ~StartPipeline /\ ~StopPipeline
  <2>1. api # "setup" /\ api # "startPipeline" /\ api # "stopPipeline"
    BY <1>3 DEF Single, Apis, FirstApis, WalkApis
  <2> QED BY <1>5, <2>1 DEF Setup, SetupNothing, StartPipeline, StopPipeline
<1> QED BY <1>10, <1>11, <1>12 DEF ApiCall

\* The user starts the media by one call of play() or record().
LEMMA SingleUserLaunched ==
    ASSUME ~Overlap, ~SecondWalk, Single, Launched, UserCall
    PROVE  Launched'
<1>1. UNCHANGED <<method, pipeId, pipelines, uri, open, sent, callbacks, aggregate>>
  BY DEF UserCall, authVars, pipeVars, peerVars, worldVars
<1>2. PICK api \in UserCalls : (api \in {"getParmeters", "setParmeters"} \/ aggregate) /\ todo' = <<api>>
  BY DEF UserCall
<1>3. ~aggregate => \A a \in WalkApis : todo' # <<a>>
  BY <1>2 DEF WalkApis
<1>4. LastIsOpen
  BY DEF Single, Lockstep
<1> QED BY <1>1, <1>3, <1>4, EachOnceSame, PlayingSame DEF Launched

\* Only what was challenged is repeated, and PLAY is not.
LEMMA SingleAnswerLaunched ==
    ASSUME World, pipelining, Single, Launched, HandleResponse
    PROVE  Launched'
<1>1. Lockstep /\ LastIsOpen /\ Types /\ method # "SETUP"
  BY DEF Single, Lockstep
<1>2. PICK q, res : Answered(q, res) /\ Accepted(q, res) /\ Receive(q, res, <<>>)
  BY <1>1, OneHandled
<1>3. /\ todo = <<>> /\ open # <<>> /\ q \in Requests /\ q.method = method /\ res.ok \in BOOLEAN
      /\ aggregate' = aggregate /\ ~(res.pipe > 0)
  BY <1>1, <1>2 DEF Answered, Lockstep, Turn
<1>4. ~aggregate => method \notin Starts \cup {"PAUSE", "TEARDOWN"}
  BY <1>1, <1>3 DEF Launched, Early
<1>5. ~HandleSetup(q, res, <<>>)
  BY <1>1 DEF HandleSetup
<1>6. CASE HandleUnAuth(q, <<>>)
  <2>1. /\ UNCHANGED <<method, uri, callbacks, todo>>
        /\ \E r \in Requests : r.method = method /\ sent' = Append(sent, r)
    <3>1. PICK r : r = [MakeRequest(-cseq, method, uri) EXCEPT
                           !.auth = TRUE, !.session = FALSE, !.pipe = 0, !.transport = FALSE,
                           !.again = <<q.method, q.uri>>]
      OBVIOUS
    <3>2. sent' = Append(sent, r) /\ UNCHANGED <<method, uri, callbacks, todo>>
      BY <1>6, <3>1 DEF HandleUnAuth, NoCallback
    <3>3. r = [cseq |-> -cseq, method |-> method, uri |-> uri, auth |-> TRUE, session |-> FALSE,
               pipe |-> 0, transport |-> FALSE, again |-> <<q.method, q.uri>>]
      BY <3>1 DEF MakeRequest
    <3>4. /\ -cseq \in Int /\ 0 \in Nat /\ method \in Methods /\ uri \in 0..NMedia
          /\ q.method \in Methods /\ q.uri \in 0..NMedia
      BY <1>1, <1>3 DEF Types, Requests
    <3>5. <<q.method, q.uri>> \in Repeated
      BY <3>4, Zenon DEF Repeated
    <3>6. r \in Requests
      BY <3>3, <3>4, <3>5 DEF Requests
    <3> QED BY <3>2, <3>3, <3>6
  <2>2. \A a \in WalkApis : todo' # <<a>>
    BY <1>3, <2>1
  <2>3. Playing' <=> Playing
    BY <2>1, PlayingSame
  <2>4. CASE method \notin Starts
    <3>1. SentFor(Starts)' = SentFor(Starts) /\ (EachOnce(Starts) => EachOnce(Starts)')
      BY <1>1, <2>1, <2>4, OtherSend
    <3> QED BY <1>3, <2>1, <2>2, <2>3, <2>4, <3>1 DEF Launched
  <2>5. CASE method \in Starts
    <3>1. aggregate /\ method \notin Early \cup {"SETUP"}
      BY <1>4, <2>5 DEF Starts, Early
    <3> QED BY <1>3, <2>1, <3>1 DEF Launched
  <2> QED BY <2>4, <2>5
<1>7. ASSUME NEW kind \in {method, "AUTH"}, Callback(kind, q, res, "nothing"), open' = <<>>,
             UNCHANGED <<method, sent>>
      PROVE  Launched'
  <2>1. Playing' <=> Playing \/ (res.ok /\ kind \in Starts)
    <3>1. kind \in Methods \cup {"AUTH"}
      BY <1>1 DEF Types
    <3> QED BY <1>1, <1>3, <1>7, <3>1, PlayingNext
  <2>2. kind \in Starts => method \notin Early \cup {"SETUP"}
    BY DEF Starts, Early
  <2>3. \A a \in WalkApis : todo' # <<a>>
    <3>1. todo' \in MayCall(kind, res.ok)
      BY <1>7 DEF Callback
    <3>2. \/ todo' \in {<<>>, <<"announce">>, <<"describe">>}
          \/ todo' = <<"startPipeline", "setup", StreamCall, "stopPipeline">>
      BY <3>1 DEF MayCall, Script
    <3> QED BY <3>2 DEF WalkApis
  <2> QED BY <1>3, <1>7, <2>1, <2>2, <2>3, EachOnceSame DEF Launched
<1>8. CASE AuthFailed(q, res, <<>>)
  BY <1>7, <1>8 DEF AuthFailed, authVars
<1>9. CASE SessionError(<<>>)
  <2>1. open' = <<>> /\ UNCHANGED <<method, sent, todo, callbacks>>
    BY <1>9 DEF SessionError, NoCallback, authVars
  <2> QED BY <1>3, <2>1, EachOnceSame, PlayingSame DEF Launched
<1>10. CASE HandlePlain(q, res, <<>>) \/ ReportWalk(q, res, <<>>) \/ HandleDescribe(q, res, <<>>)
  <2>1. PICK kind : kind = method
    OBVIOUS
  <2>2. Callback(kind, q, res, "nothing") /\ open' = <<>> /\ UNCHANGED <<method, sent>>
    BY <1>10, <2>1, Zenon DEF HandlePlain, ReportWalk, HandleDescribe, authVars
  <2> QED BY <1>7, <2>1, <2>2
<1>11. CASE ContinueWalk(q, res, <<>>)
  <2>1. method \in Starts \cup {"PAUSE", "TEARDOWN"}
    BY <1>11 DEF ContinueWalk, Starts
  <2>2. method' = method
    BY <1>11 DEF ContinueWalk, StepWalk, Issue, authVars
  <2>3. aggregate /\ method \notin Early \cup {"SETUP"}
    BY <1>4, <2>1 DEF Starts, Early
  <2> QED BY <1>3, <2>2, <2>3 DEF Launched
<1> QED BY <1>2, <1>3, <1>5, <1>6, <1>8, <1>9, <1>10, <1>11 DEF Receive

\* SETUP starts nothing, then one call starts everything.
LEMMA StartingLaunched ==
    ASSUME PipelinedPeer, World, Peer, pipelining, Starting, Launched, ApiCall
    PROVE  Launched'
<1>1. Pipelined /\ Types /\ pc = "app" /\ pipelines \in Seq(Requests)
  BY DEF Starting, Pipelined
<1>2. PICK api \in {"play", "record"} :
          \/ todo = <<"startPipeline", "setup", api, "stopPipeline">> /\ pipeId = 0 /\ Unsent
          \/ todo = <<"setup", api, "stopPipeline">> /\ pipeId > 0 /\ Unsent
          \/ todo = <<api, "stopPipeline">> /\ pipeId > 0 /\ Asked
          \/ /\ todo = <<"stopPipeline">> /\ pipeId > 0 /\ method \in Starts
             /\ Len(transports) = NMedia
  BY DEF Starting
<1>3. UNCHANGED <<aggregate, callbacks>> /\ (Playing' <=> Playing)
  <2>1. UNCHANGED <<aggregate, callbacks>>
    BY ApiFacts DEF Calls, peerVars, worldVars
  <2> QED BY <2>1, PlayingSame
<1>4. CASE todo = <<"startPipeline", "setup", api, "stopPipeline">> /\ pipeId = 0 /\ Unsent
  <2>1. todo # <<>> /\ Head(todo) = "startPipeline" /\ Tail(todo) = <<"setup", api, "stopPipeline">>
    BY <1>4
  <2>2. StartPipeline /\ todo' = Tail(todo)
    BY <2>1, NextCall
  <2>3. UNCHANGED <<method, open, sent>> /\ method \in Early
    BY <1>4, <2>2 DEF StartPipeline, authVars, Unsent
  <2>4. \A a : todo' # <<a>>
    BY <2>1, <2>2, SMTT(30)
  <2> QED BY <1>3, <2>3, <2>4, EachOnceSame DEF Launched, Early, Starts
<1>5. CASE todo = <<"setup", api, "stopPipeline">> /\ pipeId > 0 /\ Unsent
  <2>1. /\ todo # <<>> /\ Head(todo) = "setup" /\ medias = NMedia /\ method \in Early
    BY <1>1, <1>5 DEF Pipelined, Unsent
  <2>2. PICK us : us = [i \in 1..NMedia |-> i]
    OBVIOUS
  <2>3. Issue(open, "SETUP", us) /\ us \in Seq(0..NMedia) /\ us # <<>> /\ Len(us) = NMedia
    <3>1. Setup
      BY <2>1, NextCall, ClientAssumption DEF SetupNothing
    <3> QED BY <1>5, <2>1, <2>2, <3>1, EachMedium DEF Setup
  <2>4. PICK reqs \in Seq(Requests) :
            sent' = sent \o reqs /\ Len(reqs) = Len(us) /\ \A i \in 1..Len(us) : reqs[i].method = "SETUP"
    BY <1>1, <1>5, <2>3, PipeIssue, ZenonT(40) DEF Methods
  <2>5. SentFor(Starts)' = SentFor(Starts) /\ method' = "SETUP" /\ pipeId' = pipeId
    BY <1>1, <1>5, <2>3, <2>4, SentGrowsBy DEF Starts, Issue
  <2>6. ~LastIsOpen'
    BY <1>5, <2>5 DEF LastIsOpen
  <2> QED BY <1>3, <2>1, <2>5, <2>6 DEF Launched
<1>6. CASE todo = <<api, "stopPipeline">> /\ pipeId > 0 /\ Asked
  <2>1. /\ todo # <<>> /\ Head(todo) = api /\ method = "SETUP" /\ mediaStep = 0 /\ medias = NMedia
        /\ isAggregate = aggregate /\ NMedia \in Nat \ {0} /\ SentFor(Starts) = {}
    BY <1>1, <1>6, ClientAssumption DEF Asked, Pipelined, Launched
  <2>2. PICK m \in Starts : Walk(api, m)
    BY <2>1, NextCall DEF Starts
  <2>3. m \in Methods /\ m \notin Early \cup {"SETUP", "PAUSE", "TEARDOWN"}
    BY DEF Starts, Methods, Early
  <2>4. CASE aggregate
    <3>1. Issue(open, m, <<0>>)
      BY <2>1, <2>2, <2>4 DEF Walk
    <3>2. method' = m
      BY <3>1 DEF Issue
    <3> QED BY <1>3, <2>3, <2>4, <3>2 DEF Launched
  <2>5. CASE ~aggregate
    <3>1. NextMedia(m) = [i \in 1..NMedia |-> i]
      <4>1. m # "TEARDOWN" /\ medias - mediaStep = NMedia
        BY <2>1, <2>3
      <4>2. NextMedia(m) = [i \in 1..(medias - mediaStep) |-> mediaStep + i]
        BY <1>6, <4>1 DEF NextMedia
      <4> QED BY <2>1, <4>1, <4>2
    <3>2. PICK us : us = NextMedia(m) /\ us \in Seq(0..NMedia) /\ us # <<>> /\ Len(us) = NMedia
                    /\ \A i \in 1..NMedia : us[i] = i
      BY <3>1, EachMedium
    <3>3. Issue(open, m, us)
      BY <2>1, <2>2, <2>5, <3>2 DEF Walk, StepWalk
    <3>4. PICK reqs \in Seq(Requests) :
              /\ sent' = sent \o reqs /\ Len(reqs) = Len(us)
              /\ \A i \in 1..Len(us) : reqs[i].method = m /\ reqs[i].uri = us[i]
      <4>1. pipeId > 0 /\ m \in Methods
        BY <1>6, <2>3
      <4>2. us \in Seq(0..NMedia) /\ us # <<>>
        BY <3>2
      <4>3. \E reqs \in Seq(Requests) :
                 /\ open' = open \o reqs /\ sent' = sent \o reqs /\ pipelines' = pipelines \o reqs
                 /\ Len(reqs) = Len(us)
                 /\ \A i \in 1..Len(us) :
                       /\ reqs[i].cseq = cseq + i - 1 /\ reqs[i].method = m /\ reqs[i].pipe = pipeId
                       /\ reqs[i].again = <<>> /\ reqs[i].transport = (m = "SETUP")
                       /\ reqs[i].auth = needAuth /\ reqs[i].uri = us[i]
        BY <1>1, <3>3, <4>1, <4>2, PipeIssue
      <4> QED BY <4>3, Zenon
    <3>5. EachOnce(Starts)'
      BY <1>1, <2>1, <3>2, <3>4, SentGrowsBy
    <3>6. method' = m /\ pipeId' = pipeId
      BY <3>3 DEF Issue
    <3>7. ~LastIsOpen'
      BY <1>6, <3>6 DEF LastIsOpen
    <3> QED BY <2>3, <3>5, <3>6, <3>7 DEF Launched
  <2> QED BY <2>4, <2>5
<1>7. CASE todo = <<"stopPipeline">> /\ pipeId > 0 /\ method \in Starts /\ Len(transports) = NMedia
  <2>1. todo # <<>> /\ Head(todo) = "stopPipeline" /\ Tail(todo) = <<>>
    BY <1>7
  <2>2. StopPipeline /\ todo' = <<>>
    BY <2>1, NextCall
  <2>3. UNCHANGED <<method, open, sent, pipelines>>
    BY <2>2 DEF StopPipeline, authVars
  <2>4. (LastIsOpen => open = <<>>)'
    <3>1. Pipelined'
      BY <1>1, <2>1, PipelinedSwitch
    <3> QED BY <3>1, PipelinedOpen, PTL
  <2> QED BY <1>3, <1>7, <2>2, <2>3, <2>4, EachOnceSame DEF Launched, Early, Starts
<1> QED BY <1>2, <1>4, <1>5, <1>6, <1>7

\* No response starts a medium again.
LEMMA DrainingAnswerLaunched ==
    ASSUME PipelinedPeer, World, Peer, pipelining, Draining, Launched, HandleResponse
    PROVE  Launched'
<1>1. Pipelined /\ method \in Starts /\ method \notin Early \cup {"SETUP"} /\ todo = <<>>
  BY DEF Draining, Starts, Early
<1>2. PICK k, res : k \in DOMAIN open /\ HandlePipelineResponse(open[k], res, RemoveAt(open, k))
  BY <1>1, PipelinedAnswer
<1>3. UNCHANGED <<method, sent>>
  BY <1>2 DEF HandlePipelineResponse, authVars
<1>4. Draining' /\ UNCHANGED aggregate
  BY DrainingAnswer DEF HandleResponse, worldVars
<1>5. (LastIsOpen => open = <<>>)'
  <2>1. Pipelined'
    BY <1>4 DEF Draining
  <2> QED BY <2>1, PipelinedOpen, PTL
<1>6. \A a \in WalkApis : todo' # <<a>>
  BY <1>4 DEF Draining
<1> QED BY <1>1, <1>3, <1>4, <1>5, <1>6, EachOnceSame DEF Launched

\* Where there are no media, none is started.
LEMMA MisledLaunched ==
    ASSUME Misled, Launched, Next, ~UNCHANGED vars
    PROVE  Launched'
<1>1. UNCHANGED <<method, open, sent, callbacks, aggregate>> /\ open = <<>>
  BY MisledCall DEF Misled
<1>2. PICK api : todo' \in {<<"setup", api, "stopPipeline">>, <<api, "stopPipeline">>, <<"stopPipeline">>}
  BY MisledCall
<1>3. \A a \in WalkApis : todo' # <<a>>
  BY <1>2 DEF WalkApis
<1> QED BY <1>1, <1>3, EachOnceSame, PlayingSame DEF Launched

LaunchedInv == IInv /\ PipelineInv /\ (pipelining => Launched)

\* Of the requests that start media, each goes out once, all in one step.
THEOREM LaunchedInvariant ==
    ASSUME PipelinedPeer, ~Overlap, ~SecondWalk PROVE Spec => []LaunchedInv
<1>1. Init => Launched
  <2> SUFFICES ASSUME Init PROVE Launched
    OBVIOUS
  <2>1. SentFor(Starts) = {} /\ ~Playing /\ method = "OPTIONS" /\ open = <<>> /\ todo = <<"options">>
    BY DEF Init, SentFor, Playing
  <2> QED BY <2>1 DEF Launched, Early, WalkApis
<1>2. IInv /\ PipelineInv /\ (pipelining => Launched) /\ [Next]_vars => (pipelining => Launched)'
  <2> SUFFICES ASSUME IInv, PipelineInv, pipelining => Launched, [Next]_vars, pipelining' PROVE Launched'
    OBVIOUS
  <2>1. pipelining' = pipelining
    BY DEF vars, Next, ApiCall, PlainCall, Plain, Announce, Setup, WalkCall, Walk, StartPipeline,
           StopPipeline, SetupNothing, Calls, UserCall, HandleResponse, Return, Quiet, peerVars, worldVars
  <2>2. pipelining /\ World /\ Peer /\ Launched /\ (Single \/ Starting \/ Draining \/ Misled)
    BY <2>1 DEF PipelineInv
  <2>3. CASE UNCHANGED vars
    <3>1. UNCHANGED <<method, uri, pipeId, pipelines, open, todo, sent, callbacks, aggregate>>
      BY <2>3 DEF vars, authVars, pipeVars, appVars, peerVars, worldVars
    <3> QED BY <2>2, <3>1, EachOnceSame, PlayingSame DEF Launched, LastIsOpen
  <2>4. CASE Misled /\ ~UNCHANGED vars
    BY <2>2, <2>4, MisledLaunched
  <2>5. CASE ~Misled /\ ApiCall
    <3>1. ~Draining
      BY <2>5, ApiFacts DEF Draining, Calls
    <3> QED BY <2>2, <2>5, <3>1, SingleApiLaunched, StartingLaunched
  <2>6. CASE ~Misled /\ UserCall
    <3>1. open = <<>> /\ pc = "idle"
      BY <2>6 DEF UserCall
    <3>2. Single
      BY <2>2, <2>6, <3>1, DrainedIsSingle DEF Starting
    <3> QED BY <2>2, <2>6, <3>2, SingleUserLaunched
  <2>7. CASE ~Misled /\ HandleResponse
    <3>1. ~Starting
      BY <2>7 DEF HandleResponse, Starting
    <3> QED BY <2>2, <2>7, <3>1, SingleAnswerLaunched, DrainingAnswerLaunched
  <2>8. CASE ~Misled /\ Return
    <3>1. UNCHANGED <<method, open, sent, callbacks, aggregate, todo>> /\ todo = <<>>
      <4>1. UNCHANGED <<callbacks, aggregate, todo>> /\ todo = <<>>
        BY <2>8 DEF Return, peerVars, worldVars
      <4>2. CASE Single
        BY <2>2, <2>8, <4>1, <4>2, SingleReturn
      <4>3. CASE Draining
        <5>1. then # "nextSetup"
          BY <4>3 DEF Draining, Pipelined
        <5> QED BY <2>8, <4>1, <5>1 DEF Return, authVars
      <4>4. ~Starting
        BY <4>1, StartingCalls
      <4> QED BY <2>2, <2>8, <4>2, <4>3, <4>4
    <3>2. LastIsOpen' => (method \in Starts /\ ~aggregate => open' = <<>>)
      <4>1. CASE Single
        BY <2>2, <3>1, <4>1 DEF Single, Lockstep, Launched
      <4>2. CASE Draining
        <5>1. Pipelined /\ then # "nextSetup"
          BY <4>2 DEF Draining, Pipelined
        <5>2. UNCHANGED <<uri, pipeId, pipelines>>
          BY <2>8, <5>1 DEF Return, authVars, pipeVars
        <5> QED BY <3>1, <5>1, <5>2, PipelinedOpen DEF LastIsOpen
      <4>3. ~Starting
        BY <3>1, StartingCalls
      <4> QED BY <2>2, <2>8, <4>1, <4>2, <4>3
    <3> QED BY <2>2, <3>1, <3>2, EachOnceSame, PlayingSame DEF Launched
  <2> QED BY <2>3, <2>4, <2>5, <2>6, <2>7, <2>8 DEF Next, Quiet
<1>3. Spec => [](IInv /\ PipelineInv)
  BY PipelinedInvariant
<1> QED BY <1>1, <1>2, <1>3, PTL DEF Spec, LaunchedInv

\* Pipelined or not, without aggregate control any callback that reports PLAY or
\* RECORD as done follows requests that started every medium, each once and in
\* order, whatever was challenged, refused or overtaken (Rtsp2Client.cpp:277-360).
THEOREM WalkAlwaysVisitsEach ==
    ASSUME PipelinedPeer, ~Overlap, ~SecondWalk PROVE Spec => []WalkVisitsEach
<1>1. LaunchedInv => (pipelining => WalkVisitsEach)
  BY DEF LaunchedInv, Launched, WalkVisitsEach, Starts
<1>2. Spec => [](~pipelining => WalkVisitsEach)
  BY LockstepWalkVisitsEach
<1> QED BY LaunchedInvariant, <1>1, <1>2, PTL
=============================================================================
