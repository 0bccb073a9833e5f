-------------------------- MODULE RtspServerProofs --------------------------
(***************************************************************************)
(* For every client, every choice of the handlers and every bound: the     *)
(* server's bookkeeping of requests, responses and the session is right.   *)
(***************************************************************************)
EXTENDS RtspServer, SequenceTheorems, TLAPS

-----------------------------------------------------------------------------
(* What the steps do to the logs, one fact each.                           *)

\* A step that handles a request answers it or keeps it, never both.
Answers(r) ==
    \E m \in ReplyType :
        /\ m.cseq = r.cseq /\ ~m.late
        /\ replies' = Append(replies, m)
        /\ deferred' = deferred
        /\ m.session \in {sessionId', NoSession}
        /\ m.challenge <= authParam'
        /\ authParam' = authParam \/ m.challenge = authParam'
        /\ m.status \notin {"Unauthorized", "SessionNotFound"} => m.session = sessionId'

Keeps(r) ==
    /\ deferred' = Append(deferred, r)
    /\ UNCHANGED <<replies, sessionId, authParam>>

Handles(r) == Challenge(r) \/ RejectSession(r) \/ RefuseTransport(r) \/ Defer(r)
                \/ \E status \in {"OK", "Error"}, id \in SessionIds : Answer(r, status, id)

\* A request of the domain is typed and is the next one.
LEMMA RequestFacts ==
    ASSUME TypeOK, NEW r \in Request(received + 1)
    PROVE  r \in RequestType /\ r.cseq = received + 1 /\ r.cseq \in Nat
<1>1. r \in [cseq : {received + 1}, method : Methods, session : SessionIds \cup {NoSession},
             pipe : PipeIds \cup {0}, auth : {-1} \cup 0..authParam, transport : BOOLEAN]
  BY Zenon DEF Request
<1>2. received \in Nat /\ authParam \in Nat
  BY Zenon DEF TypeOK
<1>3. {-1} \cup 0..authParam \subseteq Int /\ {received + 1} \subseteq Nat
  BY <1>2
<1>4. r.cseq = received + 1
  BY <1>1
<1> QED BY <1>1, <1>2, <1>3, <1>4 DEF RequestType

\* The status codes that the model names.
LEMMA StatusFacts ==
    /\ "OK" \in Statuses /\ "Error" \in Statuses /\ "Unauthorized" \in Statuses
    /\ "SessionNotFound" \in Statuses /\ "UnsupportedTransport" \in Statuses
    /\ \A s \in {"OK", "Error"} : s \in Statuses
  BY DEF Statuses

\* An immediate response: enough to know which request it answers.
LEMMA AnswerFacts ==
    ASSUME NEW r \in RequestType, NEW m \in ReplyType,
           m.cseq = r.cseq, m.late = FALSE,
           replies' = Append(replies, m), deferred' = deferred,
           m.session \in {sessionId', NoSession},
           m.challenge <= authParam',
           authParam' = authParam \/ m.challenge = authParam',
           m.status \notin {"Unauthorized", "SessionNotFound"} => m.session = sessionId'
    PROVE  Answers(r)
  BY Zenon DEF Answers

\* Whatever exit handleRequest takes, the request is answered or kept, and the
\* session can only be opened, not changed.
LEMMA HandleFacts ==
    ASSUME TypeOK, NEW r \in Request(received + 1), Handles(r)
    PROVE  /\ received' = received + 1
           /\ sessionId' \in SessionIds \cup {NoSession}
           /\ sessionId # NoSession => sessionId' = sessionId
           /\ Answers(r) \/ Keeps(r)
           /\ UNCHANGED pushVars /\ authParam' \in Nat /\ authParam' >= authParam
<1>1. r \in RequestType /\ r.cseq = received + 1
  BY RequestFacts
<1>2. sessionId \in SessionIds \cup {NoSession} /\ authParam \in Nat
  BY DEF TypeOK
<1>3. NoSession \in SessionIds \cup {NoSession} /\ 0 \in PipeIds \cup {0}
        /\ r.pipe \in PipeIds \cup {0}
  BY <1>1 DEF RequestType
<1>4. CASE Challenge(r)
  <2>1. /\ Reply(r, "Unauthorized", NoSession, 0) \in ReplyType
        /\ Reply(r, "Unauthorized", NoSession, 0).cseq = r.cseq
        /\ Reply(r, "Unauthorized", NoSession, 0).late = FALSE
        /\ Reply(r, "Unauthorized", NoSession, 0).session = NoSession
        /\ Reply(r, "Unauthorized", NoSession, 0).status = "Unauthorized"
    BY <1>1, <1>3, StatusFacts DEF Reply, ReplyType, RequestType
  <2>2. PICK m : /\ m = [Reply(r, "Unauthorized", NoSession, 0) EXCEPT !.challenge = authParam + 1]
                 /\ replies' = Append(replies, m)
    BY <1>4 DEF Challenge, Send
  <2>3. m \in ReplyType /\ m.cseq = r.cseq /\ m.late = FALSE /\ m.session = NoSession
        /\ m.status = "Unauthorized" /\ m.challenge = authParam + 1
    BY <2>1, <2>2, <1>2, SMTT(30) DEF ReplyType
  <2>4. deferred' = deferred /\ sessionId' = sessionId /\ authParam' = authParam + 1
        /\ received' = r.cseq /\ UNCHANGED pushVars
    BY <1>4 DEF Challenge
  <2>5. Answers(r)
    <3>1. m.challenge <= authParam' /\ (authParam' = authParam \/ m.challenge = authParam')
      BY <1>2, <2>2, <2>3, <2>4
    <3> QED BY <1>1, <2>2, <2>3, <2>4, <3>1, AnswerFacts, Zenon
  <2> QED BY <1>1, <1>2, <2>4, <2>5
<1>5. CASE RejectSession(r)
  <2>1. PICK m : /\ m = Reply(r, "SessionNotFound", NoSession, 0)
                 /\ replies' = Append(replies, m)
    BY <1>5 DEF RejectSession, Send
  <2>2. m \in ReplyType /\ m.cseq = r.cseq /\ m.late = FALSE /\ m.session = NoSession
        /\ m.status = "SessionNotFound" /\ m.challenge = 0
    BY <1>1, <1>3, <2>1, StatusFacts DEF Reply, ReplyType, RequestType
  <2>3. deferred' = deferred /\ sessionId' = sessionId /\ authParam' = authParam
        /\ received' = r.cseq /\ UNCHANGED pushVars
    BY <1>5 DEF RejectSession
  <2>4. Answers(r)
    <3>1. m.challenge <= authParam' /\ (authParam' = authParam \/ m.challenge = authParam')
      BY <1>2, <2>1, <2>2, <2>3
    <3> QED BY <1>1, <2>1, <2>2, <2>3, <3>1, AnswerFacts, Zenon
  <2> QED BY <1>1, <1>2, <2>3, <2>4
<1>6. CASE RefuseTransport(r)
  <2>1. PICK m : /\ m = Reply(r, "UnsupportedTransport", sessionId, r.pipe)
                 /\ replies' = Append(replies, m)
    BY <1>6 DEF RefuseTransport, Send
  <2>2. m \in ReplyType /\ m.cseq = r.cseq /\ m.late = FALSE /\ m.session = sessionId
        /\ m.challenge = 0
    BY <1>1, <1>2, <2>1, StatusFacts DEF Reply, ReplyType, RequestType
  <2>3. deferred' = deferred /\ sessionId' = sessionId /\ authParam' = authParam
        /\ received' = r.cseq /\ UNCHANGED pushVars
    BY <1>6 DEF RefuseTransport
  <2>4. Answers(r)
    <3>1. m.challenge <= authParam' /\ (authParam' = authParam \/ m.challenge = authParam')
      BY <1>2, <2>1, <2>2, <2>3
    <3> QED BY <1>1, <2>1, <2>2, <2>3, <3>1, AnswerFacts, Zenon
  <2> QED BY <1>1, <1>2, <2>3, <2>4
<1>7. CASE Defer(r)
  BY <1>1, <1>2, <1>7 DEF Defer, Keep, Keeps
<1>8. ASSUME NEW status \in {"OK", "Error"}, NEW id \in SessionIds, Answer(r, status, id)
      PROVE  /\ received' = received + 1 /\ Answers(r) /\ UNCHANGED pushVars
             /\ sessionId' \in SessionIds \cup {NoSession} /\ authParam' \in Nat
             /\ authParam' >= authParam
             /\ sessionId # NoSession => sessionId' = sessionId
  <2>1. /\ sessionId' \in SessionIds \cup {NoSession}
        /\ sessionId # NoSession => sessionId' = sessionId
    BY <1>2, <1>8 DEF Answer, SessionAfter
  <2>2. PICK m : m = Reply(r, status, sessionId', r.pipe) /\ replies' = Append(replies, m)
    BY <1>8 DEF Answer, Send
  <2>3. m \in ReplyType /\ m.cseq = r.cseq /\ m.late = FALSE /\ m.session = sessionId'
        /\ m.challenge = 0
    BY <1>1, <2>1, <2>2, StatusFacts DEF Reply, ReplyType, RequestType
  <2>4. deferred' = deferred /\ authParam' = authParam /\ received' = r.cseq
        /\ UNCHANGED pushVars
    BY <1>8 DEF Answer
  <2>5. Answers(r)
    <3>1. m.challenge <= authParam' /\ (authParam' = authParam \/ m.challenge = authParam')
      BY <1>2, <2>2, <2>3, <2>4
    <3> QED BY <1>1, <2>2, <2>3, <2>4, <3>1, AnswerFacts, Zenon
  <2> QED BY <1>1, <1>2, <2>1, <2>4, <2>5
<1> QED BY <1>4, <1>5, <1>6, <1>7, <1>8 DEF Handles

-----------------------------------------------------------------------------
(* Sequences that grow at the back and shrink at the front.                *)

\* A longer log keeps what it had.
LEMMA AppendFacts ==
    ASSUME NEW S, NEW s \in Seq(S), NEW e \in S
    PROVE  /\ Append(s, e) \in Seq(S)
           /\ Len(s) \in Nat
           /\ DOMAIN s = 1..Len(s)
           /\ DOMAIN Append(s, e) = 1..(Len(s) + 1)
           /\ \A i \in 1..Len(s) : Append(s, e)[i] = s[i]
           /\ Append(s, e)[Len(s) + 1] = e
           /\ Len(Append(s, e)) = Len(s) + 1
  BY AppendProperties, LenProperties

\* A queue without its front is numbered one less.
LEMMA TailFacts ==
    ASSUME NEW S, NEW s \in Seq(S), s # <<>>
    PROVE  /\ Tail(s) \in Seq(S)
           /\ Len(s) \in Nat /\ Len(s) >= 1
           /\ Head(s) = s[1] /\ Head(s) \in S
           /\ DOMAIN s = 1..Len(s)
           /\ DOMAIN Tail(s) = 1..(Len(s) - 1)
           /\ \A i \in 1..(Len(s) - 1) : Tail(s)[i] = s[i + 1]
           /\ Len(Tail(s)) = Len(s) - 1
<1>1. Len(s) \in Nat /\ Len(s) >= 1 /\ DOMAIN s = 1..Len(s)
  BY LenProperties, EmptySeq
<1>2. Tail(s) \in Seq(S) /\ Head(s) \in S /\ Len(Tail(s)) = Len(s) - 1
  BY HeadTailProperties
<1>3. DOMAIN Tail(s) = 1..Len(Tail(s))
  BY <1>2, LenProperties
<1> QED BY <1>1, <1>2, <1>3

-----------------------------------------------------------------------------
(* Every step is one of: a request is answered, a request is kept, the     *)
(* oldest kept request is answered, or requests and replies are untouched. *)

AnswersLate(m) ==
    /\ m.cseq = Head(deferred).cseq /\ m.late /\ m.session = sessionId /\ m.challenge = 0
    /\ replies' = Append(replies, m)
    /\ deferred' = Tail(deferred)
    /\ UNCHANGED <<sessionId, received, authParam>>

\* sendResponse() answers the front of pipelineReqests_.
LEMMA LateFacts ==
    ASSUME TypeOK, SendResponse
    PROVE  /\ deferred # <<>> /\ UNCHANGED pushVars
           /\ \E m \in ReplyType : AnswersLate(m)
<1>1. deferred # <<>> /\ deferred' = Tail(deferred) /\ UNCHANGED pushVars
      /\ UNCHANGED <<sessionId, received, authParam>>
  BY DEF SendResponse, AfterSend
<1>2. deferred \in Seq(RequestType) /\ sessionId \in SessionIds \cup {NoSession}
  BY Zenon DEF TypeOK
<1>3. PICK h \in RequestType : h = Head(deferred)
  BY <1>1, <1>2, TailFacts
<1>4. PICK status \in {"OK", "Error"} :
         replies' = Append(replies, [Reply(h, status, sessionId, h.pipe) EXCEPT !.late = TRUE])
  BY <1>3 DEF SendResponse, Send, LateSession
<1>5. PICK m : m = [Reply(h, status, sessionId, h.pipe) EXCEPT !.late = TRUE]
               /\ replies' = Append(replies, m)
  BY <1>4
<1>6. m \in ReplyType /\ m.cseq = h.cseq /\ m.late = TRUE /\ m.session = sessionId
      /\ m.challenge = 0
  BY <1>2, <1>3, <1>5, StatusFacts DEF Reply, ReplyType, RequestType
<1>7. AnswersLate(m)
  BY <1>1, <1>3, <1>5, <1>6 DEF AnswersLate
<1> QED BY <1>1, <1>6, <1>7

\* A step handles a request, answers a late one, or leaves both logs alone.
LEMMA StepKinds ==
    ASSUME TypeOK, [Next]_vars
    PROVE  \/ \E r \in Request(received + 1) : Handles(r)
           \/ SendResponse
           \/ SendRtspMessage /\ UNCHANGED reqVars
           \/ HandleResponse /\ UNCHANGED reqVars
           \/ UNCHANGED vars
<1>1. CASE HandleRequest
  BY <1>1, Zenon DEF HandleRequest, Handles
<1>2. CASE SendRtspMessage
  BY <1>2 DEF SendRtspMessage
<1>3. CASE HandleResponse
  BY <1>3 DEF HandleResponse
<1>4. CASE Done
  BY <1>4 DEF Done
<1> QED BY <1>1, <1>2, <1>3, <1>4 DEF Next

-----------------------------------------------------------------------------
(* The numbers in the logs.                                                *)

Answered == {replies[i].cseq : i \in DOMAIN replies}
Kept == {deferred[j].cseq : j \in DOMAIN deferred}

\* Both properties of the logs together; they are inductive with the types.
Logs == AnsweredOnce /\ LateInOrder

\* Both logs speak of requests that were received.
LEMMA LogNumbers ==
    ASSUME TypeOK, AnsweredOnce
    PROVE  /\ \A i \in DOMAIN replies : replies[i].cseq \in 1..received
           /\ \A j \in DOMAIN deferred : deferred[j].cseq \in 1..received
<1>1. 1..received = Answered \cup Kept
  BY DEF AnsweredOnce, Answered, Kept
<1> QED BY <1>1 DEF Answered, Kept

\* A request that is answered at once keeps the logs in order.
LEMMA AnswerKeepsLogs ==
    ASSUME TypeOK, Logs, NEW r, r.cseq = received + 1, Answers(r), received' = received + 1
    PROVE  Logs'
<1>1. PICK m \in ReplyType : /\ m.cseq = r.cseq /\ ~m.late
                             /\ replies' = Append(replies, m) /\ deferred' = deferred
  BY Zenon DEF Answers
<1>2. replies \in Seq(ReplyType) /\ received \in Nat
  BY Zenon DEF TypeOK
<1>3. /\ Len(replies) \in Nat
      /\ DOMAIN replies = 1..Len(replies) /\ DOMAIN replies' = 1..(Len(replies) + 1)
      /\ \A i \in 1..Len(replies) : replies'[i] = replies[i]
      /\ replies'[Len(replies) + 1] = m
  BY <1>1, <1>2, AppendFacts
<1>4. /\ \A i \in DOMAIN replies : replies[i].cseq \in 1..received
      /\ \A j \in DOMAIN deferred : deferred[j].cseq \in 1..received
  BY LogNumbers DEF Logs
<1>5. AnsweredOnce'
  <2>1. Answered' = Answered \cup {received + 1} /\ Kept' = Kept
    BY <1>1, <1>3 DEF Answered, Kept
  <2>2. 1..received = Answered \cup Kept
    BY DEF Logs, AnsweredOnce, Answered, Kept
  <2>3. 1..received' = Answered' \cup Kept'
    <3>1. 1..received' = 1..received \cup {received + 1}
      BY <1>2
    <3> QED BY <2>1, <2>2, <3>1
  <2>4. \A i, j \in DOMAIN replies' : i # j => replies'[i].cseq # replies'[j].cseq
    BY <1>1, <1>2, <1>3, <1>4 DEF Logs, AnsweredOnce
  <2>5. \A i, j \in DOMAIN deferred' : i # j => deferred'[i].cseq # deferred'[j].cseq
    BY <1>1 DEF Logs, AnsweredOnce
  <2>6. \A i \in DOMAIN replies', j \in DOMAIN deferred' : replies'[i].cseq # deferred'[j].cseq
    BY <1>1, <1>2, <1>3, <1>4 DEF Logs, AnsweredOnce
  <2> QED BY <2>3, <2>4, <2>5, <2>6 DEF AnsweredOnce, Answered, Kept
<1>6. LateInOrder'
  <2>1. \A i, j \in DOMAIN replies' :
          i < j /\ replies'[i].late /\ replies'[j].late => replies'[i].cseq < replies'[j].cseq
    BY <1>1, <1>3 DEF Logs, LateInOrder
  <2>2. \A i \in DOMAIN replies', j \in DOMAIN deferred' :
          replies'[i].late => replies'[i].cseq < deferred'[j].cseq
    BY <1>1, <1>3 DEF Logs, LateInOrder
  <2>3. \A i, j \in DOMAIN deferred' : i < j => deferred'[i].cseq < deferred'[j].cseq
    BY <1>1 DEF Logs, LateInOrder
  <2> QED BY <2>1, <2>2, <2>3 DEF LateInOrder
<1> QED BY <1>5, <1>6 DEF Logs

\* So does one that is kept.
LEMMA KeepKeepsLogs ==
    ASSUME TypeOK, Logs, NEW r \in RequestType, r.cseq = received + 1, Keeps(r),
           received' = received + 1
    PROVE  Logs'
<1>1. deferred' = Append(deferred, r) /\ replies' = replies
  BY DEF Keeps
<1>2. deferred \in Seq(RequestType) /\ received \in Nat
  BY Zenon DEF TypeOK
<1>3. /\ Len(deferred) \in Nat
      /\ DOMAIN deferred = 1..Len(deferred) /\ DOMAIN deferred' = 1..(Len(deferred) + 1)
      /\ \A i \in 1..Len(deferred) : deferred'[i] = deferred[i]
      /\ deferred'[Len(deferred) + 1] = r
  BY <1>1, <1>2, AppendFacts
<1>4. /\ \A i \in DOMAIN replies : replies[i].cseq \in 1..received
      /\ \A j \in DOMAIN deferred : deferred[j].cseq \in 1..received
  BY LogNumbers DEF Logs
<1>5. AnsweredOnce'
  <2>1. Answered' = Answered /\ Kept' = Kept \cup {received + 1}
    BY <1>1, <1>3 DEF Answered, Kept
  <2>2. 1..received = Answered \cup Kept
    BY DEF Logs, AnsweredOnce, Answered, Kept
  <2>3. 1..received' = Answered' \cup Kept'
    <3>1. 1..received' = 1..received \cup {received + 1}
      BY <1>2
    <3> QED BY <2>1, <2>2, <3>1
  <2>4. \A i, j \in DOMAIN replies' : i # j => replies'[i].cseq # replies'[j].cseq
    BY <1>1 DEF Logs, AnsweredOnce
  <2>5. \A i, j \in DOMAIN deferred' : i # j => deferred'[i].cseq # deferred'[j].cseq
    BY <1>1, <1>2, <1>3, <1>4 DEF Logs, AnsweredOnce
  <2>6. \A i \in DOMAIN replies', j \in DOMAIN deferred' : replies'[i].cseq # deferred'[j].cseq
    BY <1>1, <1>2, <1>3, <1>4 DEF Logs, AnsweredOnce
  <2> QED BY <2>3, <2>4, <2>5, <2>6 DEF AnsweredOnce, Answered, Kept
<1>6. LateInOrder'
  <2>1. \A i, j \in DOMAIN replies' :
          i < j /\ replies'[i].late /\ replies'[j].late => replies'[i].cseq < replies'[j].cseq
    BY <1>1 DEF Logs, LateInOrder
  <2>2. \A i \in DOMAIN replies', j \in DOMAIN deferred' :
          replies'[i].late => replies'[i].cseq < deferred'[j].cseq
    BY <1>1, <1>2, <1>3, <1>4 DEF Logs, LateInOrder
  <2>3. \A i, j \in DOMAIN deferred' : i < j => deferred'[i].cseq < deferred'[j].cseq
    BY <1>1, <1>2, <1>3, <1>4 DEF Logs, LateInOrder
  <2> QED BY <2>1, <2>2, <2>3 DEF LateInOrder
<1> QED BY <1>5, <1>6 DEF Logs

\* And a late answer, which takes the front.
LEMMA LateKeepsLogs ==
    ASSUME TypeOK, Logs, deferred # <<>>, NEW m \in ReplyType, AnswersLate(m)
    PROVE  Logs'
<1>1. /\ replies' = Append(replies, m) /\ deferred' = Tail(deferred)
      /\ m.cseq = Head(deferred).cseq /\ received' = received
  BY DEF AnswersLate
<1>2. deferred \in Seq(RequestType) /\ replies \in Seq(ReplyType) /\ received \in Nat
  BY Zenon DEF TypeOK
<1>3. /\ Len(replies) \in Nat
      /\ DOMAIN replies = 1..Len(replies) /\ DOMAIN replies' = 1..(Len(replies) + 1)
      /\ \A i \in 1..Len(replies) : replies'[i] = replies[i]
      /\ replies'[Len(replies) + 1] = m
  BY <1>1, <1>2, AppendFacts
<1>4. /\ Len(deferred) \in Nat /\ Len(deferred) >= 1 /\ m.cseq = deferred[1].cseq
      /\ DOMAIN deferred = 1..Len(deferred) /\ DOMAIN deferred' = 1..(Len(deferred) - 1)
      /\ \A i \in 1..(Len(deferred) - 1) : deferred'[i] = deferred[i + 1]
  BY <1>1, <1>2, TailFacts
<1>5. /\ \A i \in DOMAIN replies : replies[i].cseq \in 1..received
      /\ \A j \in DOMAIN deferred : deferred[j].cseq \in 1..received
  BY LogNumbers DEF Logs
<1>0. /\ 1 \in DOMAIN deferred
      /\ \A j \in DOMAIN deferred : j = 1 \/ (j - 1 \in DOMAIN deferred' /\ deferred'[j - 1] = deferred[j])
      /\ \A j \in DOMAIN deferred' : /\ j + 1 \in DOMAIN deferred /\ 1 < j + 1
                                    /\ deferred'[j] = deferred[j + 1]
  BY <1>4
<1>6. AnsweredOnce'
  <2>1. Answered' = Answered \cup {deferred[1].cseq}
    <3>1. Answered' = Answered \cup {m.cseq}
      BY <1>3 DEF Answered
    <3> QED BY <1>4, <3>1
  <2>2. Kept = Kept' \cup {deferred[1].cseq}
    <3>1. Kept \subseteq Kept' \cup {deferred[1].cseq}
      BY <1>0 DEF Kept
    <3>2. Kept' \cup {deferred[1].cseq} \subseteq Kept
      BY <1>0 DEF Kept
    <3> QED BY <3>1, <3>2
  <2>3. 1..received' = Answered' \cup Kept'
    <3>1. 1..received = Answered \cup Kept
      BY DEF Logs, AnsweredOnce, Answered, Kept
    <3> QED BY <1>1, <2>1, <2>2, <3>1
  <2>4. \A i, j \in DOMAIN replies' : i # j => replies'[i].cseq # replies'[j].cseq
    <3> TAKE i, j \in DOMAIN replies'
    <3> HAVE i # j
    <3>1. \A k \in DOMAIN replies : replies[k].cseq # m.cseq
      BY <1>0, <1>4 DEF Logs, AnsweredOnce
    <3>2. CASE i \in DOMAIN replies /\ j \in DOMAIN replies
      BY <1>3, <3>2 DEF Logs, AnsweredOnce
    <3>3. CASE i \in DOMAIN replies /\ j = Len(replies) + 1
      BY <1>3, <3>1, <3>3
    <3>4. CASE i = Len(replies) + 1 /\ j \in DOMAIN replies
      BY <1>3, <3>1, <3>4
    <3> QED BY <1>3, <3>2, <3>3, <3>4
  <2>5. \A i, j \in DOMAIN deferred' : i # j => deferred'[i].cseq # deferred'[j].cseq
    <3> TAKE i, j \in DOMAIN deferred'
    <3> HAVE i # j
    <3>1. i + 1 \in DOMAIN deferred /\ j + 1 \in DOMAIN deferred /\ i + 1 # j + 1
      BY <1>0, <1>4
    <3>2. deferred[i + 1].cseq # deferred[j + 1].cseq
      BY <3>1 DEF Logs, AnsweredOnce
    <3> QED BY <1>0, <3>2
  <2>6. \A i \in DOMAIN replies', j \in DOMAIN deferred' : replies'[i].cseq # deferred'[j].cseq
    <3> TAKE i \in DOMAIN replies', j \in DOMAIN deferred'
    <3>1. j + 1 \in DOMAIN deferred /\ 1 # j + 1 /\ deferred'[j] = deferred[j + 1]
      BY <1>0, <1>4
    <3>2. CASE i \in DOMAIN replies
      BY <1>3, <3>1, <3>2 DEF Logs, AnsweredOnce
    <3>3. CASE i = Len(replies) + 1
      <4>1. deferred[1].cseq # deferred[j + 1].cseq
        BY <1>0, <3>1 DEF Logs, AnsweredOnce
      <4> QED BY <1>3, <1>4, <3>1, <3>3, <4>1
    <3> QED BY <1>3, <3>2, <3>3
  <2> QED BY <2>3, <2>4, <2>5, <2>6 DEF AnsweredOnce, Answered, Kept
<1>7. LateInOrder'
  <2>1. \A i, j \in DOMAIN replies' :
          i < j /\ replies'[i].late /\ replies'[j].late => replies'[i].cseq < replies'[j].cseq
    <3> TAKE i, j \in DOMAIN replies'
    <3> HAVE i < j /\ replies'[i].late /\ replies'[j].late
    <3>1. \A k \in DOMAIN replies : replies[k].late => replies[k].cseq < m.cseq
      BY <1>0, <1>4 DEF Logs, LateInOrder
    <3>2. i \in DOMAIN replies /\ replies'[i] = replies[i]
      BY <1>3
    <3>3. CASE j \in DOMAIN replies
      BY <1>3, <3>2, <3>3 DEF Logs, LateInOrder
    <3>4. CASE j = Len(replies) + 1
      BY <1>3, <3>1, <3>2, <3>4
    <3> QED BY <1>3, <3>3, <3>4
  <2>2. \A i \in DOMAIN replies', j \in DOMAIN deferred' :
          replies'[i].late => replies'[i].cseq < deferred'[j].cseq
    <3> TAKE i \in DOMAIN replies', j \in DOMAIN deferred'
    <3>1. j + 1 \in DOMAIN deferred /\ 1 < j + 1 /\ deferred'[j] = deferred[j + 1]
      BY <1>0
    <3>2. CASE i \in DOMAIN replies
      BY <1>3, <3>1, <3>2 DEF Logs, LateInOrder
    <3>3. CASE i = Len(replies) + 1
      <4>1. deferred[1].cseq < deferred[j + 1].cseq
        BY <1>0, <3>1 DEF Logs, LateInOrder
      <4> QED BY <1>3, <1>4, <3>1, <3>3, <4>1
    <3> QED BY <1>3, <3>2, <3>3
  <2>3. \A i, j \in DOMAIN deferred' : i < j => deferred'[i].cseq < deferred'[j].cseq
    BY <1>4 DEF Logs, LateInOrder
  <2> QED BY <2>1, <2>2, <2>3 DEF LateInOrder
<1> QED BY <1>6, <1>7 DEF Logs

-----------------------------------------------------------------------------
(* The session and the challenge as the client was told them.              *)

\* What makes SessionSticky inductive: the client only ever hears of the
\* current session, and LastChallenge is the nonce authParam_ holds.
Told ==
    /\ SessionSticky
    /\ \A i \in DOMAIN replies : replies[i].session \in {sessionId, NoSession}
    /\ \A i \in DOMAIN replies : replies[i].challenge <= authParam
    /\ authParam = 0 \/ \E i \in DOMAIN replies : replies[i].challenge = authParam

\* The one request whose response is awaited is the one remembered.
OneOpen ==
    /\ ResponseReachesHandler
    /\ outstanding # <<>> => Len(outstanding) = 1 /\ outstanding[1] = currentReq

\* A response tells the client the session and the latest challenge.
LEMMA ReplyKeepsTold ==
    ASSUME TypeOK, Told, NEW m \in ReplyType, replies' = Append(replies, m),
           sessionId' \in SessionIds \cup {NoSession},
           sessionId # NoSession => sessionId' = sessionId,
           m.session \in {sessionId', NoSession},
           m.status \notin {"Unauthorized", "SessionNotFound"} => m.session = sessionId',
           authParam' \in Nat, authParam' >= authParam, m.challenge <= authParam',
           authParam' = authParam \/ m.challenge = authParam'
    PROVE  Told'
<1>1. replies \in Seq(ReplyType) /\ authParam \in Nat
  BY Zenon DEF TypeOK
<1>2. /\ Len(replies) \in Nat
      /\ DOMAIN replies = 1..Len(replies) /\ DOMAIN replies' = 1..(Len(replies) + 1)
      /\ \A i \in 1..Len(replies) : replies'[i] = replies[i]
      /\ replies'[Len(replies) + 1] = m
  BY <1>1, AppendFacts
<1>3. \A i \in 1..Len(replies) : replies[i] \in ReplyType
  BY <1>1, ElementOfSeq
<1>4. \A i \in DOMAIN replies' : replies'[i].session \in {sessionId', NoSession}
  BY <1>2 DEF Told
<1>5. \A i \in DOMAIN replies' : replies'[i].challenge <= authParam'
  BY <1>1, <1>2, <1>3 DEF Told, ReplyType
<1>6. authParam' = 0 \/ \E i \in DOMAIN replies' : replies'[i].challenge = authParam'
  BY <1>1, <1>2 DEF Told
<1>7. SessionSticky'
  <2> SUFFICES ASSUME NEW i \in DOMAIN replies', NEW j \in DOMAIN replies', i < j,
                      replies'[i].session # NoSession,
                      replies'[j].status \notin {"Unauthorized", "SessionNotFound"}
               PROVE  replies'[j].session = replies'[i].session
    BY DEF SessionSticky
  <2>1. i \in DOMAIN replies /\ replies'[i] = replies[i]
    BY <1>2
  <2>2. CASE j \in DOMAIN replies
    BY <1>2, <2>1, <2>2 DEF Told, SessionSticky
  <2>3. CASE j = Len(replies) + 1
    <3>1. replies[i].session = sessionId /\ sessionId' = sessionId
      BY <2>1 DEF Told
    <3> QED BY <1>2, <2>1, <2>3, <3>1
  <2> QED BY <1>2, <2>2, <2>3
<1> QED BY <1>4, <1>5, <1>6, <1>7 DEF Told

\* LastChallenge and Announced are what the server itself remembers.
LEMMA ToldFacts ==
    ASSUME TypeOK, Told
    PROVE  /\ LastChallenge = authParam
           /\ Announced # {} => Announced = {sessionId} /\ sessionId # NoSession
<1>1. authParam \in Nat /\ replies \in Seq(ReplyType)
  BY Zenon DEF TypeOK
<1>2. \A i \in DOMAIN replies : replies[i].challenge \in Nat
  <2>1. \A i \in DOMAIN replies : replies[i] \in ReplyType
    BY <1>1
  <2> QED BY <2>1 DEF ReplyType
<1> DEFINE ns == {replies[i].challenge : i \in DOMAIN replies} \cup {0}
<1>3. authParam \in ns /\ \A n \in ns : n <= authParam /\ n \in Nat
  BY <1>1, <1>2 DEF Told
<1>4. \A n \in ns : (\A k \in ns : k <= n) => n = authParam
  <2> HIDE DEF ns
  <2> TAKE n \in ns
  <2> HAVE \A k \in ns : k <= n
  <2>1. authParam <= n /\ n <= authParam /\ n \in Nat
    BY <1>3
  <2> QED BY <1>1, <2>1
<1>5. LastChallenge = CHOOSE n \in ns : \A k \in ns : k <= n
  BY DEF LastChallenge
<1>6. LastChallenge \in ns /\ \A k \in ns : k <= LastChallenge
  BY <1>3, <1>5, Zenon
<1>7. LastChallenge = authParam
  BY <1>4, <1>6, Zenon
<1>8. Announced # {} => Announced = {sessionId} /\ sessionId # NoSession
  BY DEF Announced, Told
<1> QED BY <1>7, <1>8

-----------------------------------------------------------------------------
(* The inductive invariant and what follows from it.                       *)

IInv == TypeOK /\ Logs /\ Told

\* The logs are empty at first.
LEMMA InitInv == Init => IInv
<1> SUFFICES ASSUME Init PROVE IInv
  OBVIOUS
<1>0. /\ DOMAIN replies = {} /\ DOMAIN deferred = {}
      /\ received = 0 /\ authParam = 0 /\ 1..received = {}
  <2>1. replies = <<>> /\ deferred = <<>> /\ received = 0 /\ authParam = 0
    BY Zenon DEF Init
  <2>2. DOMAIN replies = {} /\ DOMAIN deferred = {}
    BY <2>1
  <2>3. 1..received = {}
    BY <2>1
  <2> QED BY <2>1, <2>2, <2>3
<1>1. TypeOK
  <2>1. \A S : <<>> \in Seq(S)
    BY EmptySeq
  <2> QED BY <2>1 DEF Init, TypeOK
<1>2. Logs
  BY <1>0 DEF Logs, AnsweredOnce, LateInOrder
<1>3. Told
  BY <1>0 DEF Told, SessionSticky
<1> QED BY <1>1, <1>2, <1>3 DEF IInv

\* Every step keeps the types.
LEMMA TypeStep == TypeOK /\ [Next]_vars => TypeOK'
<1> SUFFICES ASSUME TypeOK, [Next]_vars PROVE TypeOK'
  OBVIOUS
<1>1. /\ sessionId \in SessionIds \cup {NoSession}
      /\ authParam \in Nat /\ received \in Nat /\ pushed \in Nat
      /\ deferred \in Seq(RequestType) /\ replies \in Seq(ReplyType)
      /\ currentReq \in ServerMethods \cup {""}
      /\ outstanding \in Seq(ServerMethods)
  BY Zenon DEF TypeOK
<1>0. dispatched \in Seq(ServerMethods \X ServerMethods)
  BY Zenon DEF TypeOK
<1>7. received \in Nat /\ pushed \in Nat /\ received + 1 \in Nat /\ pushed + 1 \in Nat
  <2>1. received \in Nat /\ pushed \in Nat
    BY <1>1
  <2> QED BY ONLY <2>1
<1>2. ASSUME NEW r \in Request(received + 1), Handles(r)
      PROVE  TypeOK'
  <2>1. r \in RequestType /\ received' = received + 1
        /\ sessionId' \in SessionIds \cup {NoSession}
        /\ UNCHANGED pushVars /\ authParam' \in Nat
    BY <1>2, RequestFacts, HandleFacts
  <2>2. deferred' \in Seq(RequestType) /\ replies' \in Seq(ReplyType)
    <3>1. CASE Answers(r)
      <4>1. PICK m \in ReplyType : replies' = Append(replies, m) /\ deferred' = deferred
        BY <3>1, Zenon DEF Answers
      <4> QED BY <1>1, <4>1, AppendFacts
    <3>2. CASE Keeps(r)
      BY <1>1, <2>1, <3>2, AppendFacts DEF Keeps
    <3> QED BY <1>2, <3>1, <3>2, HandleFacts
  <2>3. received' \in Nat
    BY <1>7, <2>1, Zenon
  <2> QED BY <1>0, <1>1, <2>1, <2>2, <2>3, Zenon DEF TypeOK, pushVars
<1>3. CASE SendResponse
  <2>1. deferred # <<>> /\ UNCHANGED pushVars
        /\ \E m \in ReplyType : AnswersLate(m)
    BY <1>3, LateFacts
  <2>2. deferred' \in Seq(RequestType) /\ replies' \in Seq(ReplyType)
    <3>1. PICK m \in ReplyType : replies' = Append(replies, m) /\ deferred' = Tail(deferred)
      BY <2>1, Zenon DEF AnswersLate
    <3> QED BY <1>1, <2>1, <3>1, AppendFacts, TailFacts
  <2> QED BY <1>0, <1>1, <2>1, <2>2, Zenon DEF TypeOK, pushVars, AnswersLate
<1>4. CASE SendRtspMessage /\ UNCHANGED reqVars
  <2>1. PICK m \in ServerMethods : currentReq' = m /\ outstanding' = Append(outstanding, m)
    BY <1>4 DEF SendRtspMessage, Remember
  <2>2. outstanding' \in Seq(ServerMethods)
    BY <1>1, <2>1, AppendFacts
  <2>3. pushed' \in Nat /\ dispatched' = dispatched
    BY <1>7, <1>4, Zenon DEF SendRtspMessage
  <2> QED BY <1>0, <1>1, <1>4, <2>1, <2>2, <2>3, Zenon DEF TypeOK, reqVars
<1>5. CASE HandleResponse /\ UNCHANGED reqVars
  <2>1. outstanding # <<>> /\ outstanding' = Tail(outstanding)
        /\ currentReq' = currentReq /\ pushed' = pushed
    BY <1>5 DEF HandleResponse
  <2>2. outstanding' \in Seq(ServerMethods) /\ Head(outstanding) \in ServerMethods
    BY <1>1, <2>1, TailFacts
  <2>3. dispatched' \in Seq(ServerMethods \X ServerMethods)
    <3>1. CASE currentReq \in Answerable
      <4>1. <<currentReq, Head(outstanding)>> \in ServerMethods \X ServerMethods
        BY <2>2, <3>1, ServerAssumption
      <4>2. dispatched' = Append(dispatched, <<currentReq, Head(outstanding)>>)
        BY <1>5, <3>1 DEF HandleResponse
      <4> QED BY <1>0, <4>1, <4>2, AppendFacts
    <3>2. CASE currentReq \notin Answerable
      BY <1>0, <1>5, <3>2, Zenon DEF HandleResponse
    <3> QED BY <3>1, <3>2
  <2> QED BY <1>1, <1>5, <2>1, <2>2, <2>3, Zenon DEF TypeOK, reqVars
<1>6. CASE UNCHANGED vars
  BY <1>0, <1>1, <1>6, Zenon DEF TypeOK, vars, reqVars, pushVars
<1> QED BY <1>2, <1>3, <1>4, <1>5, <1>6, StepKinds

\* Every step keeps the logs in order.
LEMMA LogsStep == TypeOK /\ Logs /\ [Next]_vars => Logs'
<1> SUFFICES ASSUME TypeOK, Logs, [Next]_vars PROVE Logs'
  OBVIOUS
<1>1. ASSUME NEW r \in Request(received + 1), Handles(r)
      PROVE  Logs'
  <2>1. r \in RequestType /\ r.cseq = received + 1 /\ received' = received + 1
        /\ (Answers(r) \/ Keeps(r))
    BY <1>1, RequestFacts, HandleFacts
  <2>2. CASE Answers(r)
    BY <2>1, <2>2, AnswerKeepsLogs
  <2>3. CASE Keeps(r)
    BY <2>1, <2>3, KeepKeepsLogs
  <2> QED BY <2>1, <2>2, <2>3
<1>2. CASE SendResponse
  BY <1>2, LateFacts, LateKeepsLogs
<1>3. CASE UNCHANGED reqVars
  BY <1>3 DEF reqVars, Logs, AnsweredOnce, LateInOrder
<1> QED BY <1>1, <1>2, <1>3, StepKinds DEF vars

\* Every step keeps what the client was told in line with what the server stores.
LEMMA ToldStep == TypeOK /\ Told /\ [Next]_vars => Told'
<1> SUFFICES ASSUME TypeOK, Told, [Next]_vars PROVE Told'
  OBVIOUS
<1>0. authParam \in Nat /\ sessionId \in SessionIds \cup {NoSession}
  BY Zenon DEF TypeOK
<1>1. ASSUME NEW r \in Request(received + 1), Handles(r)
      PROVE  Told'
  <2>1. /\ sessionId' \in SessionIds \cup {NoSession}
        /\ sessionId # NoSession => sessionId' = sessionId
        /\ authParam' \in Nat /\ authParam' >= authParam
        /\ Answers(r) \/ Keeps(r)
    BY <1>1, HandleFacts
  <2>2. CASE Answers(r)
    <3>1. PICK m \in ReplyType :
             /\ replies' = Append(replies, m)
             /\ m.session \in {sessionId', NoSession}
             /\ m.challenge <= authParam'
             /\ authParam' = authParam \/ m.challenge = authParam'
             /\ m.status \notin {"Unauthorized", "SessionNotFound"} => m.session = sessionId'
      BY <2>2, Zenon DEF Answers
    <3> QED BY <2>1, <3>1, ReplyKeepsTold
  <2>3. CASE Keeps(r)
    <3>1. replies' = replies /\ sessionId' = sessionId /\ authParam' = authParam
      BY <2>3 DEF Keeps
    <3> QED BY <3>1 DEF Told, SessionSticky
  <2> QED BY <2>1, <2>2, <2>3
<1>2. CASE SendResponse
  <2>1. PICK m \in ReplyType : AnswersLate(m)
    BY <1>2, LateFacts
  <2>2. /\ replies' = Append(replies, m) /\ m.session = sessionId /\ m.challenge = 0
        /\ sessionId' = sessionId /\ authParam' = authParam
    BY <2>1 DEF AnswersLate
  <2>3. m.challenge <= authParam' /\ authParam' >= authParam
    BY <1>0, <2>2
  <2> QED BY <1>0, <2>2, <2>3, ReplyKeepsTold
<1>3. CASE UNCHANGED reqVars
  BY <1>3 DEF reqVars, Told, SessionSticky
<1> QED BY <1>1, <1>2, <1>3, StepKinds DEF vars

\* The inductive invariant holds in every reachable state.
THEOREM Invariance == Spec => []IInv
<1>1. Init => IInv
  BY InitInv
<1>2. IInv /\ [Next]_vars => IInv'
  BY TypeStep, LogsStep, ToldStep DEF IInv
<1> QED BY <1>1, <1>2, PTL DEF Spec

\* Type correctness of the server's state.
THEOREM TypeCorrect == Spec => []TypeOK
<1>1. IInv => TypeOK
  BY DEF IInv
<1> QED BY <1>1, Invariance, PTL

\* However many requests arrive and however the handlers answer them, now or
\* later, each has one response or waits once in pipelineReqests_.
THEOREM NoneLostNoneTwice == Spec => []AnsweredOnce
<1>1. IInv => AnsweredOnce
  BY DEF IInv, Logs
<1> QED BY <1>1, Invariance, PTL

\* Late responses are sent in the order in which their requests were deferred.
THEOREM LateAnswersInOrder == Spec => []LateInOrder
<1>1. IInv => LateInOrder
  BY DEF IInv, Logs
<1> QED BY <1>1, Invariance, PTL

\* The client never hears of two sessions on a connection, and of none after one.
THEOREM OneSession == Spec => []SessionSticky
<1>1. IInv => SessionSticky
  BY DEF IInv, Told
<1> QED BY <1>1, Invariance, PTL

-----------------------------------------------------------------------------
(* Requests in the other direction.                                        *)

\* With one server request at a time, the open one is currentReq_.
LEMMA OneOpenStep ==
    ASSUME MaxOutstanding <= 1, TypeOK, OneOpen, [Next]_vars
    PROVE  OneOpen'
<1>1. /\ outstanding \in Seq(ServerMethods) /\ MaxOutstanding \in Nat
      /\ currentReq \in ServerMethods \cup {""}
  BY ServerAssumption, Zenon DEF TypeOK
<1>0. dispatched \in Seq(ServerMethods \X ServerMethods)
  BY Zenon DEF TypeOK
<1>2. CASE SendRtspMessage
  <2>1. PICK m \in ServerMethods : currentReq' = m /\ outstanding' = Append(outstanding, m)
    BY <1>2, Zenon DEF SendRtspMessage, Remember
  <2>2. Len(outstanding) = 0 /\ dispatched' = dispatched
    <3>1. Len(outstanding) < MaxOutstanding /\ Len(outstanding) \in Nat
      BY <1>1, <1>2, LenProperties DEF SendRtspMessage
    <3>2. dispatched' = dispatched
      BY <1>2 DEF SendRtspMessage
    <3>3. Len(outstanding) = 0
      <4>1. MaxOutstanding \in Nat /\ MaxOutstanding <= 1
        BY ServerAssumption
      <4> QED BY ONLY <3>1, <4>1
    <3> QED BY <3>2, <3>3
  <2>3. Len(outstanding') = 1 /\ outstanding'[1] = m
    <3>1. /\ Len(Append(outstanding, m)) = Len(outstanding) + 1
          /\ Append(outstanding, m)[Len(outstanding) + 1] = m
      BY <1>1, AppendFacts, ZenonT(40)
    <3> QED BY <2>1, <2>2, <3>1
  <2> QED BY <2>1, <2>2, <2>3 DEF OneOpen, ResponseReachesHandler
<1>3. CASE HandleResponse
  <2>1. /\ outstanding # <<>> /\ outstanding' = Tail(outstanding)
        /\ currentReq' = currentReq
    BY <1>3 DEF HandleResponse
  <2>2. Len(outstanding) = 1 /\ Head(outstanding) = currentReq
    BY <1>1, <2>1, TailFacts DEF OneOpen
  <2>3. outstanding' = <<>>
    <3>1. outstanding' \in Seq(ServerMethods) /\ Len(outstanding') = 0
      <4>1. Tail(outstanding) \in Seq(ServerMethods) /\ Len(Tail(outstanding)) = Len(outstanding) - 1
        BY <1>1, <2>1, TailFacts
      <4> QED BY <2>1, <2>2, <4>1
    <3> QED BY <3>1, EmptySeq, LenProperties
  <2>4. ResponseReachesHandler'
    <3>1. CASE dispatched' = dispatched
      BY <3>1 DEF OneOpen, ResponseReachesHandler
    <3>2. CASE dispatched' = Append(dispatched, <<currentReq, currentReq>>) /\ currentReq \in ServerMethods
      <4>1. PICK e \in ServerMethods \X ServerMethods :
               e[1] = e[2] /\ dispatched' = Append(dispatched, e)
        BY <3>2
      <4>2. /\ Len(dispatched) \in Nat /\ DOMAIN dispatched = 1..Len(dispatched)
            /\ DOMAIN dispatched' = 1..(Len(dispatched) + 1)
            /\ \A i \in 1..Len(dispatched) : dispatched'[i] = dispatched[i]
            /\ dispatched'[Len(dispatched) + 1] = e
        BY <1>0, <4>1, AppendFacts
      <4>3. \A i \in DOMAIN dispatched' : dispatched'[i][1] = dispatched'[i][2]
        BY <4>1, <4>2 DEF OneOpen, ResponseReachesHandler
      <4> QED BY <4>3 DEF ResponseReachesHandler
    <3> QED BY <1>3, <2>2, <3>1, <3>2, ServerAssumption DEF HandleResponse
  <2> QED BY <2>3, <2>4 DEF OneOpen
<1>4. CASE UNCHANGED pushVars
  BY <1>4 DEF OneOpen, ResponseReachesHandler, pushVars
<1> QED BY <1>2, <1>3, <1>4, StepKinds, HandleFacts, LateFacts DEF vars

\* A response of the client reaches the handler of the request it answers,
\* provided the application waits for it before it sends another request.
THEOREM ResponsesDispatched ==
    ASSUME MaxOutstanding <= 1 PROVE Spec => []ResponseReachesHandler
<1>1. Init => OneOpen
  <2> SUFFICES ASSUME Init PROVE OneOpen
    OBVIOUS
  <2>1. dispatched = <<>> /\ outstanding = <<>>
    BY DEF Init
  <2>2. DOMAIN dispatched = {}
    BY <2>1
  <2> QED BY <2>1, <2>2 DEF OneOpen, ResponseReachesHandler
<1>2. TypeOK /\ OneOpen /\ [Next]_vars => OneOpen'
  BY OneOpenStep
<1>3. OneOpen => ResponseReachesHandler
  BY DEF OneOpen
<1> QED BY <1>1, <1>2, <1>3, TypeCorrect, PTL DEF Spec

-----------------------------------------------------------------------------
(* The gates.                                                              *)

Gate(r) ==
    /\ NeedAuth => LastChallenge > 0 /\ r.auth > 0
    /\ NeedAuth /\ Digest => r.auth = LastChallenge
    /\ Announced # {} => r.session \in Announced \/ (r.session = NoSession /\ r.pipe # 0)

\* A request that reaches a handler has answered the latest challenge.
LEMMA AdmittedPassesGate ==
    ASSUME TypeOK, Told, NEW r, Admitted(r) PROVE Gate(r)
<1>1. /\ LastChallenge = authParam
      /\ Announced # {} => Announced = {sessionId} /\ sessionId # NoSession
  BY ToldFacts
<1>2. NeedAuth \in BOOLEAN /\ Digest \in BOOLEAN
  BY ServerAssumption
<1>3. NeedAuth => authParam > 0 /\ r.auth > 0
  BY <1>2 DEF Admitted, Authorized, Verify
<1>4. NeedAuth /\ Digest => r.auth = authParam
  BY <1>2 DEF Admitted, Authorized, Verify
<1>5. ASSUME Announced # {}
      PROVE  r.session \in Announced \/ (r.session = NoSession /\ r.pipe # 0)
  BY <1>1, <1>5 DEF Admitted, SessionMatches
<1> QED BY <1>1, <1>3, <1>4, <1>5 DEF Gate

\* Only requests that answer the latest challenge the client was sent, inside
\* the session the client was told of, ever reach a handler.
THEOREM GatesHold == Spec => HandlersSeeAdmitted
<1>1. TypeOK /\ Told /\ [Next]_vars => [\A r \in handled' \ handled : Gate(r)]_vars
  <2> SUFFICES ASSUME TypeOK, Told, Next, NEW q \in handled' \ handled
               PROVE  Gate(q)
    OBVIOUS
  <2>1. PICK r \in Request(received + 1) : Handles(r)
    <3>1. handled' # handled
      OBVIOUS
    <3> QED BY <3>1, StepKinds
            DEF SendResponse, reqVars, vars
  <2>2. Admitted(r) /\ handled' = handled \cup {r}
    BY <2>1 DEF Handles, Challenge, RejectSession, RefuseTransport, Defer, Answer
  <2>3. q = r
    BY <2>2
  <2> QED BY <2>2, <2>3, AdmittedPassesGate
<1>2. IInv => TypeOK /\ Told
  BY DEF IInv
<1>3. Spec => [][\A r \in handled' \ handled : Gate(r)]_vars
  BY <1>1, <1>2, Invariance, PTL DEF Spec
<1> QED BY <1>3 DEF HandlersSeeAdmitted, Gate

-----------------------------------------------------------------------------
(* Refinement: the safety part of RequestReply (that everything is         *)
(* answered needs fairness and is model-checked).                          *)

\* Handling a request receives it, and answers it or keeps it.
LEMMA HandleRefines ==
    ASSUME TypeOK, received < MaxRequests, NEW r \in Request(received + 1), Handles(r)
    PROVE  RR!Next
<1>1. /\ r.cseq = received + 1 /\ received' = received + 1 /\ (Answers(r) \/ Keeps(r))
      /\ received \in Nat /\ MaxRequests \in Nat /\ replies \in Seq(ReplyType)
  BY RequestFacts, HandleFacts, ServerAssumption, Zenon DEF TypeOK
<1>2. /\ received + 1 \in 1..MaxRequests /\ received + 1 \notin 1..received
      /\ 1..received' = 1..received \cup {received + 1}
  <2>1. received \in Nat /\ MaxRequests \in Nat /\ received < MaxRequests /\ received' = received + 1
    BY <1>1
  <2> QED BY ONLY <2>1
<1>3. CASE Answers(r)
  <2>1. PICK m \in ReplyType : m.cseq = r.cseq /\ replies' = Append(replies, m)
    BY <1>3, Zenon DEF Answers
  <2>2. /\ DOMAIN replies = 1..Len(replies) /\ DOMAIN replies' = 1..(Len(replies) + 1)
        /\ \A i \in 1..Len(replies) : replies'[i] = replies[i]
        /\ replies'[Len(replies) + 1] = m /\ Len(replies) \in Nat
    BY <1>1, <2>1, AppendFacts
  <2>3. Answered' = Answered \cup {received + 1}
    BY <1>1, <2>1, <2>2 DEF Answered
  <2>4. PICK c \in 1..MaxRequests : c = received + 1
    BY <1>2
  <2>5. RR!AskAndAnswer(c)
    <3>1. c \notin 1..received /\ 1..received' = 1..received \cup {c} /\ Answered' = Answered \cup {c}
      BY <1>2, <2>3, <2>4
    <3> QED BY <3>1, Zenon DEF RR!AskAndAnswer, Answered
  <2> QED BY <2>5, Zenon DEF RR!Next
<1>4. CASE Keeps(r)
  <2>1. Answered' = Answered
    BY <1>4 DEF Keeps, Answered
  <2>2. RR!Ask(received + 1)
    BY <1>2, <2>1, Zenon DEF RR!Ask, Answered
  <2> QED BY <1>2, <2>2, Zenon DEF RR!Next
<1> QED BY <1>1, <1>3, <1>4

\* A late answer answers the request that has waited longest.
LEMMA LateRefines ==
    ASSUME TypeOK, Logs, received <= MaxRequests, SendResponse
    PROVE  RR!Next
<1>1. PICK m \in ReplyType : AnswersLate(m)
  BY LateFacts
<1>2. /\ deferred # <<>> /\ m.cseq = Head(deferred).cseq
      /\ replies' = Append(replies, m) /\ received' = received
  BY <1>1, LateFacts DEF AnswersLate
<1>3. /\ replies \in Seq(ReplyType) /\ deferred \in Seq(RequestType)
      /\ received \in Nat /\ MaxRequests \in Nat
  BY ServerAssumption, Zenon DEF TypeOK
<1>4. 1 \in DOMAIN deferred /\ m.cseq = deferred[1].cseq
  <2>1. Len(deferred) \in Nat /\ Len(deferred) >= 1 /\ DOMAIN deferred = 1..Len(deferred)
        /\ Head(deferred) = deferred[1]
    BY <1>2, <1>3, TailFacts
  <2> QED BY <1>2, <2>1
<1>5. m.cseq \in 1..received /\ m.cseq \notin Answered
  <2>1. m.cseq \in 1..received
    BY <1>4, LogNumbers DEF Logs
  <2>2. m.cseq \notin Answered
    BY <1>4 DEF Logs, AnsweredOnce, Answered
  <2> QED BY <2>1, <2>2
<1>6. m.cseq \in 1..MaxRequests
  <2>1. received \in Nat /\ MaxRequests \in Nat /\ received <= MaxRequests /\ m.cseq \in 1..received
    BY <1>3, <1>5
  <2> QED BY ONLY <2>1
<1>7. Answered' = Answered \cup {m.cseq}
  <2>1. /\ DOMAIN replies = 1..Len(replies) /\ DOMAIN replies' = 1..(Len(replies) + 1)
        /\ \A i \in 1..Len(replies) : replies'[i] = replies[i]
        /\ replies'[Len(replies) + 1] = m /\ Len(replies) \in Nat
    BY <1>2, <1>3, AppendFacts
  <2> QED BY <2>1 DEF Answered
<1>8. RR!Answer(m.cseq)
  BY <1>2, <1>5, <1>7, Zenon DEF RR!Answer, Answered
<1> QED BY <1>6, <1>8, Zenon DEF RR!Next

Bounded == received <= MaxRequests

\* The bound on requests is looked at first.
LEMMA BoundedStep ==
    ASSUME TypeOK, Bounded, [Next]_vars
    PROVE  Bounded' /\ (HandleRequest => received < MaxRequests)
<1>1. received \in Nat /\ MaxRequests \in Nat /\ received <= MaxRequests
  BY ServerAssumption, Zenon DEF TypeOK, Bounded
<1>2. CASE HandleRequest
  <2>1. received < MaxRequests /\ received' = received + 1
    BY <1>2, HandleFacts DEF HandleRequest, Handles
  <2> QED BY <1>1, <2>1 DEF Bounded
<1>3. CASE UNCHANGED received
  BY <1>1, <1>3, <1>2 DEF Bounded
<1> QED BY <1>2, <1>3
        DEF Next, SendResponse, SendRtspMessage, HandleResponse, Done, vars, reqVars

\* To the client the server is the request/reply service of RequestReply:
\* every step asks, answers or changes nothing the client can see.
THEOREM ServerRefinesRequestReply == Spec => RR!SafeSpec
<1>1. Init => RR!Init /\ Bounded
  <2> SUFFICES ASSUME Init PROVE RR!Init /\ Bounded
    OBVIOUS
  <2>1. replies = <<>> /\ received = 0 /\ MaxRequests \in Nat
    BY ServerAssumption DEF Init
  <2>2. DOMAIN replies = {} /\ 1..received = {} /\ received <= MaxRequests
    BY <2>1
  <2> QED BY <2>2 DEF RR!Init, Bounded
<1>2. IInv /\ Bounded /\ [Next]_vars => Bounded'
  BY BoundedStep DEF IInv
<1>3. IInv /\ Bounded /\ [Next]_vars => [RR!Next]_(RR!rrvars)
  <2> SUFFICES ASSUME TypeOK, Logs, Bounded, [Next]_vars PROVE [RR!Next]_(RR!rrvars)
    BY DEF IInv
  <2>1. CASE HandleRequest
    <3>1. PICK r \in Request(received + 1) : Handles(r)
      BY <2>1, Zenon DEF HandleRequest, Handles
    <3> QED BY <2>1, <3>1, BoundedStep, HandleRefines
  <2>2. CASE SendResponse
    BY <2>2, LateRefines DEF Bounded
  <2>3. CASE UNCHANGED reqVars
    BY <2>3 DEF reqVars, RR!rrvars
  <2> QED BY <2>1, <2>2, <2>3
          DEF Next, SendRtspMessage, HandleResponse, Done, vars
<1> QED BY <1>1, <1>2, <1>3, Invariance, PTL DEF Spec, RR!SafeSpec
=============================================================================
