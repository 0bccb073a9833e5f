----------------------------- MODULE RtspServer -----------------------------
(***************************************************************************)
(* ServerHandle (Rtsp2Server.cpp, Rtsp2Server.h): one RTSP connection on   *)
(* the server side.  Each call of handleRequest / handleResponse, and each *)
(* call of the derived class into sendResponse / sendRtspMessage, is one   *)
(* step.  What the virtual handlers decide is left open: they may answer   *)
(* with any status or return non-zero to answer later.                     *)
(***************************************************************************)
EXTENDS Integers, Sequences

CONSTANTS
    Methods,          \* request methods the client uses
    ServerMethods,    \* methods of requests the server sends to the client
    Answerable,       \* those of them with a handleXxxResponse handler
    SessionIds,       \* what createSessionId may return, or a client may quote
    NoSession,        \* the empty session id
    PipeIds,          \* Pipelined-Requests values; 0 is "no such header"
    NeedAuth,         \* needAuth()
    Digest,           \* the scheme getAuthParam() asks for: Digest, else Basic
    MaxRequests,      \* bound: requests the client sends
    MaxPushed,        \* bound: requests the server sends
    MaxOutstanding    \* how many of those the application leaves unanswered

ASSUME ServerAssumption ==
    /\ NoSession \notin SessionIds
    /\ 0 \notin PipeIds /\ PipeIds \subseteq Nat
    /\ NeedAuth \in BOOLEAN /\ Digest \in BOOLEAN
    /\ MaxRequests \in Nat /\ MaxPushed \in Nat /\ MaxOutstanding \in Nat
    /\ Answerable \subseteq ServerMethods

VARIABLES
    sessionId,     \* sessionId_
    authParam,     \* authParam_: the number of the challenge it was sent with, 0 before
    deferred,      \* pipelineReqests_: requests whose handler returned non-zero
    currentReq,    \* currentReq_.method()
    received,      \* number of requests read; request n has CSeq n
    handled,       \* history: the requests given to a handler
    replies,       \* history: the responses sent
    outstanding,   \* methods of server requests the client has not answered yet
    pushed,        \* number of server requests sent
    dispatched     \* history: <<handler that ran, method of the request answered>>

reqVars  == <<sessionId, authParam, deferred, received, handled, replies>>
pushVars == <<currentReq, outstanding, pushed, dispatched>>
vars     == <<reqVars, pushVars>>

-----------------------------------------------------------------------------
(* Messages.  auth is the credential a request carries: 0 none, n > 0 the  *)
(* right password with the nonce of challenge n, -1 a wrong password.      *)

Request(c) ==
    {r \in [cseq : {c}, method : Methods, session : SessionIds \cup {NoSession},
            pipe : PipeIds \cup {0}, auth : {-1} \cup 0..authParam, transport : BOOLEAN] :
        r.transport => r.method = "SETUP"}

RequestType ==
    [cseq : Nat, method : Methods, session : SessionIds \cup {NoSession},
     pipe : PipeIds \cup {0}, auth : Int, transport : BOOLEAN]

Statuses == {"OK", "Unauthorized", "SessionNotFound", "UnsupportedTransport", "Error"}

ReplyType ==
    [cseq : Nat, method : Methods, status : Statuses,
     session : SessionIds \cup {NoSession}, pipe : PipeIds \cup {0},
     challenge : Nat, late : BOOLEAN]

\* A response: CSeq copied from the request it answers.  method and late (it
\* was sent by sendResponse) are not on the wire; properties speak of them.
Reply(r, status, session, pipe) ==
    [cseq |-> r.cseq, method |-> r.method, status |-> status,
     session |-> session, pipe |-> pipe, challenge |-> 0, late |-> FALSE]

Send(m) == replies' = Append(replies, m)

\* verifyAuthParams: the scheme is compared first, so nothing verifies before
\* the first challenge; a Digest response also has to use the latest nonce.
VerifyAnyNonce(r) == r.auth > 0 /\ authParam > 0
Verify(r) == r.auth > 0 /\ authParam > 0 /\ (Digest => r.auth = authParam)

Authorized(r) == ~NeedAuth \/ Verify(r)

\* The session test of handleRequest.  prePipeRequest_ is never filled, so a
\* pipelined request without Session always passes.
SessionMatches(r) ==
    IF r.session # NoSession THEN r.session = sessionId
                             ELSE sessionId = NoSession \/ r.pipe # 0

Admitted(r) == Authorized(r) /\ SessionMatches(r)

NeedsTransport(r) == r.method = "SETUP" /\ ~r.transport

-----------------------------------------------------------------------------
Init ==
    /\ sessionId = NoSession /\ authParam = 0 /\ deferred = <<>>
    /\ received = 0 /\ handled = {} /\ replies = <<>>
    /\ currentReq = "" /\ outstanding = <<>> /\ pushed = 0 /\ dispatched = <<>>

\* 401 with a fresh challenge; the handlers do not see the request.
Challenge(r) ==
    /\ ~Authorized(r)
    /\ authParam' = authParam + 1
    /\ Send([Reply(r, "Unauthorized", NoSession, 0) EXCEPT !.challenge = authParam + 1])
    /\ received' = r.cseq
    /\ UNCHANGED <<sessionId, deferred, handled, pushVars>>

\* 454: a wrong Session, or none once the session exists.
RejectSession(r) ==
    /\ Authorized(r) /\ ~SessionMatches(r)
    /\ Send(Reply(r, "SessionNotFound", NoSession, 0))
    /\ received' = r.cseq
    /\ UNCHANGED <<sessionId, authParam, deferred, handled, pushVars>>

\* replaySetup without a Transport header: 461, handleSetup is not called.
RefuseTransport(r) ==
    /\ Admitted(r) /\ NeedsTransport(r)
    /\ Send(Reply(r, "UnsupportedTransport", sessionId, r.pipe))
    /\ received' = r.cseq
    /\ UNCHANGED <<sessionId, authParam, deferred, handled, pushVars>>

\* The session after a SETUP that the handler accepted with status.
SessionAfter(r, status, id) ==
    IF r.method = "SETUP" /\ status = "OK" /\ sessionId = NoSession THEN id ELSE sessionId

\* The handler returns 0: the response goes out at once.
Answer(r, status, id) ==
    /\ Admitted(r) /\ ~NeedsTransport(r)
    /\ sessionId' = SessionAfter(r, status, id)
    /\ Send(Reply(r, status, sessionId', r.pipe))
    /\ handled' = handled \cup {r}
    /\ received' = r.cseq
    /\ UNCHANGED <<authParam, deferred, pushVars>>

KeepFirst(r) == <<r>> \o deferred
KeepNothing(r) == deferred
KeepMovedFrom(r) == Append(deferred, [r EXCEPT !.method = ""])
Keep(r) == Append(deferred, r)

\* The handler returns non-zero: no response now; a SETUP opens no session.
Defer(r) ==
    /\ Admitted(r) /\ ~NeedsTransport(r)
    /\ deferred' = Keep(r)
    /\ handled' = handled \cup {r}
    /\ received' = r.cseq
    /\ UNCHANGED <<sessionId, authParam, replies, pushVars>>

HandleRequest ==
    /\ received < MaxRequests
    /\ \E r \in Request(received + 1) :
          \/ Challenge(r)
          \/ RejectSession(r)
          \/ RefuseTransport(r)
          \/ \E status \in {"OK", "Error"}, id \in SessionIds : Answer(r, status, id)
          \/ Defer(r)

AnsweredButKept == deferred
AfterSend == Tail(deferred)

LateSessionMissing == NoSession
LateSession == sessionId

\* sendResponse: answers the oldest deferred request; an error (and no step)
\* when there is none.
SendResponse ==
    /\ deferred # <<>>
    /\ \E status \in {"OK", "Error"} :
          Send([Reply(Head(deferred), status, LateSession, Head(deferred).pipe)
                   EXCEPT !.late = TRUE])
    /\ deferred' = AfterSend
    /\ UNCHANGED <<sessionId, authParam, received, handled, pushVars>>

RememberFirst(m) == IF currentReq = "" THEN m ELSE currentReq
Remember(m) == m

\* sendRtspMessage / notifyClient: only the latest request is remembered.
SendRtspMessage ==
    /\ pushed < MaxPushed /\ Len(outstanding) < MaxOutstanding
    /\ \E m \in ServerMethods :
          /\ currentReq' = Remember(m)
          /\ outstanding' = Append(outstanding, m)
    /\ pushed' = pushed + 1
    /\ UNCHANGED <<reqVars, dispatched>>

\* handleResponse: the client answers its oldest open request; the handler is
\* chosen by the method of currentReq_, and for some methods there is none.
HandleResponse ==
    /\ outstanding # <<>>
    /\ outstanding' = Tail(outstanding)
    /\ dispatched' = IF currentReq \in Answerable
                        THEN Append(dispatched, <<currentReq, Head(outstanding)>>)
                        ELSE dispatched
    /\ UNCHANGED <<reqVars, currentReq, pushed>>

Done ==
    /\ received = MaxRequests /\ deferred = <<>> /\ outstanding = <<>>
    /\ UNCHANGED vars

Next == HandleRequest \/ SendResponse \/ SendRtspMessage \/ HandleResponse \/ Done

Spec == Init /\ [][Next]_vars

\* The derived class answers what it deferred once it can (Rtsp2Server.h:43,
\* README.md:189-193).
FairSpec == Spec /\ WF_vars(SendResponse)
-----------------------------------------------------------------------------
TypeOK ==
    /\ sessionId \in SessionIds \cup {NoSession}
    /\ authParam \in Nat /\ received \in Nat /\ pushed \in Nat
    /\ deferred \in Seq(RequestType)
    /\ replies \in Seq(ReplyType)
    /\ currentReq \in ServerMethods \cup {""}
    /\ outstanding \in Seq(ServerMethods)
    /\ dispatched \in Seq(ServerMethods \X ServerMethods)

\* Every request read so far has exactly one response or waits exactly once in
\* pipelineReqests_: none is dropped and none is answered twice, whichever of
\* the exits of handleRequest it took.
AnsweredOnce ==
    /\ \A i, j \in DOMAIN replies : i # j => replies[i].cseq # replies[j].cseq
    /\ \A i, j \in DOMAIN deferred : i # j => deferred[i].cseq # deferred[j].cseq
    /\ \A i \in DOMAIN replies, j \in DOMAIN deferred :
          replies[i].cseq # deferred[j].cseq
    /\ 1..received = {replies[i].cseq : i \in DOMAIN replies}
                        \cup {deferred[j].cseq : j \in DOMAIN deferred}

\* sendResponse takes no request as argument: the application relies on the
\* late responses going out in the order in which the requests were deferred.
LateInOrder ==
    /\ \A i, j \in DOMAIN replies :
          i < j /\ replies[i].late /\ replies[j].late => replies[i].cseq < replies[j].cseq
    /\ \A i \in DOMAIN replies, j \in DOMAIN deferred :
          replies[i].late => replies[i].cseq < deferred[j].cseq
    /\ \A i, j \in DOMAIN deferred : i < j => deferred[i].cseq < deferred[j].cseq

\* Once a response told the client its session id, every later response that
\* passed the gates carries that same id, from whichever of the send sites it
\* comes (the client takes a response without it for an error).
SessionSticky ==
    \A i, j \in DOMAIN replies :
        /\ i < j
        /\ replies[i].session # NoSession
        /\ replies[j].status \notin {"Unauthorized", "SessionNotFound"}
        => replies[j].session = replies[i].session

LastChallenge ==
    LET ns == {replies[i].challenge : i \in DOMAIN replies} \cup {0}
    IN  CHOOSE n \in ns : \A m \in ns : m <= n

Announced == {replies[i].session : i \in DOMAIN replies} \ {NoSession}

\* A handler sees a request only if it answers the challenge the client was
\* last sent (any challenge, for Basic), and, when the client was told of a
\* session, only inside that session or pipelined without a Session header.
HandlersSeeAdmitted ==
    [][\A r \in handled' \ handled :
          /\ NeedAuth => LastChallenge > 0 /\ r.auth > 0
          /\ NeedAuth /\ Digest => r.auth = LastChallenge
          /\ Announced # {} => r.session \in Announced \/ (r.session = NoSession /\ r.pipe # 0)
      ]_vars

\* A response of the client reaches the handler of the request it answers.
\* (Holds while the application keeps one request outstanding: a second
\* sendRtspMessage would overwrite currentReq_.)
ResponseReachesHandler == \A i \in DOMAIN dispatched : dispatched[i][1] = dispatched[i][2]

\* To the client the server is a request/reply service that answers everything.
RR == INSTANCE RequestReply WITH
        Requests <- 1..MaxRequests, asked <- 1..received,
        answered <- {replies[i].cseq : i \in DOMAIN replies}
ImplementsRequestReply == RR!SafeSpec /\ RR!AllAnswered

\* README.md:245-246: createSessionId is called "when the first setup request
\* arrives", so a successful SETUP response carries a session.
SetupOpensSession ==
    \A i \in DOMAIN replies :
        replies[i].method = "SETUP" /\ replies[i].status = "OK" => replies[i].session # NoSession
=============================================================================
