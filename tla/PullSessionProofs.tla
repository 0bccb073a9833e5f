------------------------- MODULE PullSessionProofs --------------------------
(***************************************************************************)
(* For every number of packets, every order of the two threads and of       *)
(* libuv's callbacks, and every client: the session's write request, its    *)
(* wake-ups and the end of its thread; and that its send queue, and the     *)
(* client's, implement the Outbox.                                          *)
(***************************************************************************)
EXTENDS PullSession, SequenceTheorems, TLAPS

\* A response is pushed only for a request that was read.
ReplyKnown == loop = "respond" => reply \in Requests

\* A write fails only on a socket that is no longer open.
FailedOnlyGone == wh = "failed" => sock # "open"

\* The thread exists since the first PLAY.
PlayerPlayed == player # "none" => plays >= 1

\* The bound on packets is looked at before a packet is pushed.
BelowBound == player = "push" => packets < MaxPackets

\* On its own none of the three is inductive: a wake-up is not lost in
\* on_tcp_write because a running write has the flag set.
IInv ==
    /\ ServerTypeOK /\ ReplyKnown /\ FailedOnlyGone /\ PlayerPlayed /\ BelowBound
    /\ WriteOwnsFront /\ WakeupPending /\ ThreadEndsFirst

-----------------------------------------------------------------------------
(* The steps that several actions share.                                   *)

\* Pushing keeps the types and the front of the queue.
LEMMA PushFacts ==
    ASSUME sendList \in Seq(Messages), NEW m \in Messages, Push(m)
    PROVE  /\ sendList' \in Seq(Messages) /\ sendList' # <<>>
           /\ writeInProgress' = writeInProgress
           /\ sendList # <<>> => /\ Head(sendList') = Head(sendList)
                                 /\ Tail(sendList') = Append(Tail(sendList), m)
<1>1. sendList' = Append(sendList, m) /\ writeInProgress' = writeInProgress
  BY DEF Push
<1>2. Append(sendList, m) \in Seq(Messages) /\ Append(sendList, m) # <<>>
  BY AppendProperties
<1>3. sendList # <<>> => /\ Head(Append(sendList, m)) = Head(sendList)
                         /\ Tail(Append(sendList, m)) = Append(Tail(sendList), m)
  BY HeadTailAppend
<1> QED BY <1>1, <1>2, <1>3

\* A list that is not empty has a front and a rest.
LEMMA FrontFacts ==
    ASSUME sendList \in Seq(Messages), sendList # <<>>
    PROVE  /\ Head(sendList) \in Messages /\ Tail(sendList) \in Seq(Messages)
           /\ Tail(sendList) # <<>> => Head(Tail(sendList)) \in Messages
  BY HeadTailProperties

\* The session starts with nothing to write and no thread.
LEMMA InitIInv == ServerInit => IInv
<1> SUFFICES ASSUME ServerInit PROVE IInv
  OBVIOUS
<1>1. sendList \in Seq(Messages)
  BY EmptySeq DEF ServerInit
<1>2. ServerTypeOK
  <2>1. packets \in 0..MaxPackets /\ plays \in Nat
    BY PacketsAssumption DEF ServerInit
  <2> QED BY <1>1, <2>1, Zenon DEF ServerInit, ServerTypeOK, PlayerStates
<1> QED BY <1>2 DEF ServerInit, IInv, ReplyKnown, FailedOnlyGone, PlayerPlayed, BelowBound,
                    WriteOwnsFront, WakeupPending, ThreadEndsFirst

-----------------------------------------------------------------------------
(* The invariant and the loop thread.                                      *)

\* A request changes no queue; a second PLAY ends the process.
LEMMA ReadIInv == ASSUME IInv, NEW r \in Requests, Read(r) PROVE IInv'
<1> USE DEF IInv
<1>1. UNCHANGED <<sendList, writeInProgress, writeAsync, closeAsync, flag, packets, wh, uvbuf, last>>
  BY DEF Read, queueVars, asyncVars
<1>2. /\ reply' = r /\ loop = "poll" /\ sock = "open"
      /\ startPlay' \in BOOLEAN /\ teardown' \in BOOLEAN
      /\ \/ loop' = "respond" /\ sock' = sock /\ plays' = plays /\ player' = player
         \/ /\ loop' = "respond" /\ sock' = sock /\ plays' = plays + 1
            /\ player = "none" /\ player' = "check"
         \/ /\ loop' = "terminated" /\ sock' = "closed" /\ plays' = plays + 1
            /\ player # "none" /\ player' = player
  BY DEF Read, Requests, HandlePlay, HandlePause, HandleTearDown, HandleOther, flagVars, ServerTypeOK
<1>3. ServerTypeOK'
  BY <1>1, <1>2 DEF ServerTypeOK, PlayerStates
<1>4. ReplyKnown' /\ FailedOnlyGone' /\ PlayerPlayed' /\ BelowBound' /\ WriteOwnsFront'
  BY <1>1, <1>2 DEF ReplyKnown, FailedOnlyGone, PlayerPlayed, BelowBound, WriteOwnsFront, ServerTypeOK
<1>5. WakeupPending'
  BY <1>1, <1>2 DEF WakeupPending
<1>6. ThreadEndsFirst'
  BY <1>1, <1>2 DEF ThreadEndsFirst, PlayerPlayed, ServerTypeOK
<1> QED BY <1>3, <1>4, <1>5, <1>6

\* The callback of a write takes the front away and writes the next one, or
\* gives the flag back when there is none.
LEMMA WrittenIInv == ASSUME IInv, OnTcpWrite PROVE IInv'
<1> USE DEF IInv
<1>1. /\ loop = "poll" /\ wh # "idle" /\ sendList' = Tail(sendList)
      /\ UNCHANGED <<startPlay, teardown, player, packets, loop, reply, plays, sock, last, writeAsync>>
      /\ closeAsync' \in BOOLEAN /\ flag' \in BOOLEAN
  BY DEF OnTcpWrite, CloseSession, asyncVars, flagVars, playVars, loopVars, ServerTypeOK
<1>2. /\ sendList # <<>> /\ writeInProgress
      /\ Tail(sendList) \in Seq(Messages)
      /\ Tail(sendList) # <<>> => Head(Tail(sendList)) \in Messages
  BY <1>1, FrontFacts DEF ServerTypeOK, WriteOwnsFront
<1>3. \/ Tail(sendList) = <<>> /\ writeInProgress' = FALSE /\ wh' = "idle" /\ uvbuf' = NoMessage
      \/ Tail(sendList) # <<>> /\ writeInProgress' /\ wh' = "idle" /\ uvbuf' = NoMessage
      \/ Tail(sendList) # <<>> /\ writeInProgress' /\ wh' = "queued" /\ uvbuf' = Head(Tail(sendList))
  BY <1>2 DEF OnTcpWrite, WriteNext, UvWrite
<1>4. writeInProgress' \in BOOLEAN
  BY <1>2 DEF OnTcpWrite, WriteNext, ServerTypeOK
<1>5. ServerTypeOK'
  BY <1>1, <1>2, <1>3, <1>4 DEF ServerTypeOK
<1>6. ReplyKnown' /\ FailedOnlyGone' /\ PlayerPlayed' /\ BelowBound' /\ ThreadEndsFirst'
  BY <1>1, <1>3 DEF ReplyKnown, FailedOnlyGone, PlayerPlayed, BelowBound, ThreadEndsFirst
<1>7. WriteOwnsFront' /\ WakeupPending'
  BY <1>1, <1>3 DEF WriteOwnsFront, WakeupPending
<1> QED BY <1>5, <1>6, <1>7

\* The wake-up is used up only when a write is under way or nothing waits.
LEMMA StartIInv == ASSUME IInv, StartTcpWrite PROVE IInv'
<1> USE DEF IInv
<1>1. /\ loop = "poll" /\ sock \in {"open", "reset"} /\ writeAsync' = FALSE
      /\ UNCHANGED <<sendList, closeAsync, flag, startPlay, teardown, player, packets, loop, reply, plays,
                     sock, last>>
  BY DEF StartTcpWrite, flagVars, playVars, loopVars
<1>2. CASE NothingToStart
  <2>1. UNCHANGED <<writeInProgress, wh, uvbuf>>
    BY <1>2 DEF StartTcpWrite
  <2>2. ServerTypeOK'
    BY <1>1, <2>1, ZenonT(40) DEF ServerTypeOK
  <2>3. ReplyKnown' /\ FailedOnlyGone' /\ PlayerPlayed' /\ BelowBound' /\ ThreadEndsFirst'
    BY <1>1, <2>1 DEF ReplyKnown, FailedOnlyGone, PlayerPlayed, BelowBound, ThreadEndsFirst
  <2>4. WriteOwnsFront' /\ WakeupPending'
    BY <1>1, <1>2, <2>1 DEF NothingToStart, WriteOwnsFront, WakeupPending
  <2> QED BY <2>2, <2>3, <2>4
<1>3. CASE ~NothingToStart
  <2>1. sendList # <<>> /\ Head(sendList) \in Messages
    BY <1>3, FrontFacts DEF NothingToStart, ServerTypeOK
  <2>2. writeInProgress' = TRUE /\ wh' = "queued" /\ uvbuf' = Head(sendList)
    BY <1>1, <1>3 DEF StartTcpWrite, UvWrite
  <2> QED BY <1>1, <2>1, <2>2, ZenonT(40) DEF ServerTypeOK, ReplyKnown, FailedOnlyGone,
                PlayerPlayed, BelowBound, WriteOwnsFront, WakeupPending, ThreadEndsFirst
<1> QED BY <1>2, <1>3

\* Closing the socket leaves the queue and the thread alone.
LEMMA CloseIInv == ASSUME IInv, CloseTcp PROVE IInv'
<1>1. /\ sendList' = sendList /\ writeInProgress' = writeInProgress /\ writeAsync' = writeAsync
      /\ flag' = flag /\ startPlay' = startPlay /\ teardown' = teardown
      /\ player' = player /\ packets' = packets /\ loop' = loop /\ reply' = reply
      /\ plays' = plays /\ wh' = wh /\ uvbuf' = uvbuf /\ last' = last
  BY DEF CloseTcp, queueVars, flagVars, playVars, loopVars
<1>2. closeAsync' = FALSE /\ sock' = "closing"
  BY DEF CloseTcp
<1>3. ServerTypeOK'
  <2>1. sock' \in {"open", "reset", "closing", "closed"} /\ closeAsync' \in BOOLEAN
    BY <1>2
  <2> QED BY <1>1, <2>1 DEF IInv, ServerTypeOK
<1>4. ReplyKnown' /\ FailedOnlyGone' /\ PlayerPlayed' /\ BelowBound' /\ ThreadEndsFirst'
  BY <1>1, <1>2 DEF IInv, ServerTypeOK, ReplyKnown, FailedOnlyGone, PlayerPlayed, BelowBound, ThreadEndsFirst
<1>5. WriteOwnsFront' /\ WakeupPending'
  BY <1>1, <1>2 DEF IInv, ServerTypeOK, WriteOwnsFront, WakeupPending
<1> QED BY <1>3, <1>4, <1>5 DEF IInv

\* What the loop does otherwise.
LEMMA LoopIInv == ASSUME IInv, Loop PROVE IInv'
<1> USE DEF IInv, ServerTypeOK, ReplyKnown, FailedOnlyGone, PlayerPlayed, BelowBound, WriteOwnsFront,
            WakeupPending, ThreadEndsFirst
<1>1. CASE Respond
  <2>1. reply \in Messages
    BY <1>1 DEF Respond, Messages
  <2>2. /\ sendList' \in Seq(Messages) /\ sendList' # <<>>
        /\ writeInProgress' = writeInProgress
        /\ sendList # <<>> => Head(sendList') = Head(sendList)
    BY <1>1, <2>1, PushFacts DEF Respond
  <2> QED BY <1>1, <2>2 DEF Respond, asyncVars, flagVars, playVars, sockVars
<1>2. CASE SignalResponse
  BY <1>2 DEF SignalResponse, WakeWriter, queueVars, flagVars, playVars, sockVars
<1>3. CASE StartTcpWrite
  BY <1>3, StartIInv
<1>4. CASE OnTcpWrite
  BY <1>4, WrittenIInv
<1>5. CASE CloseTcp
  BY <1>5, CloseIInv
<1>6. CASE OnClosed
  BY <1>6 DEF OnClosed, TeardownSet, JoinOrDelete, queueVars, asyncVars, playVars
<1>7. CASE Joined
  BY <1>7 DEF Joined, queueVars, asyncVars, flagVars, playVars, sockVars
<1> QED BY <1>1, <1>2, <1>3, <1>4, <1>5, <1>6, <1>7 DEF Loop

-----------------------------------------------------------------------------
(* The invariant and the others.                                           *)

\* playThread pushes before it signals.
LEMMA PlayerIInv == ASSUME IInv, Player PROVE IInv'
<1> USE DEF IInv, ServerTypeOK, ReplyKnown, FailedOnlyGone, PlayerPlayed, BelowBound, WriteOwnsFront,
            WakeupPending, ThreadEndsFirst, PlayerStates, PlayerVarsKept, flagVars, loopVars, sockVars
<1>1. CASE Check
  BY <1>1 DEF Check, queueVars, asyncVars
<1>2. CASE NextFrame
  BY <1>2 DEF NextFrame, queueVars, asyncVars
<1>3. CASE EndOfFile
  BY <1>3 DEF EndOfFile, queueVars, asyncVars
<1>4. CASE PushPacket
  <2>1. packets' \in 0..MaxPackets
    BY <1>4, PacketsAssumption DEF PushPacket
  <2>2. /\ sendList' \in Seq(Messages) /\ sendList' # <<>>
        /\ writeInProgress' = writeInProgress
        /\ sendList # <<>> => Head(sendList') = Head(sendList)
    BY <1>4, PushFacts DEF PushPacket, Messages
  <2> QED BY <1>4, <2>1, <2>2 DEF PushPacket, asyncVars
<1>5. CASE SignalPacket
  BY <1>5 DEF SignalPacket, WakeWriter, queueVars
<1>6. CASE NotifyClient
  <2>1. /\ sendList' \in Seq(Messages) /\ sendList' # <<>>
        /\ writeInProgress' = writeInProgress
        /\ sendList # <<>> => Head(sendList') = Head(sendList)
    BY <1>6, PushFacts DEF NotifyClient, Messages
  <2> QED BY <1>6, <2>1 DEF NotifyClient, asyncVars
<1>7. CASE SignalNotify
  BY <1>7 DEF SignalNotify, WakeWriter, queueVars
<1>8. CASE EndPlayer
  BY <1>8 DEF EndPlayer, CloseSession, queueVars
<1> QED BY <1>1, <1>2, <1>3, <1>4, <1>5, <1>6, <1>7, <1>8 DEF Player

\* Every step of the session, of its socket and of libuv.
LEMMA NextIInv == IInv /\ [ServerNext]_svars => IInv'
<1> SUFFICES ASSUME IInv, [ServerNext]_svars PROVE IInv'
  OBVIOUS
<1> USE DEF IInv, ServerTypeOK, ReplyKnown, FailedOnlyGone, PlayerPlayed, BelowBound,
            WriteOwnsFront, WakeupPending, ThreadEndsFirst
<1>1. ASSUME NEW r \in Requests, Read(r) PROVE IInv'
  BY <1>1, ReadIInv
<1>2. CASE ReadFailed
  BY <1>2 DEF ReadFailed, CloseSession, queueVars, flagVars, playVars, loopVars, sockVars
<1>3. CASE Transmit
  BY <1>3 DEF Transmit, queueVars, asyncVars, flagVars, playVars, loopVars
<1>4. CASE FailWrite
  BY <1>4 DEF FailWrite, queueVars, asyncVars, flagVars, playVars, loopVars
<1>5. CASE Reset
  BY <1>5 DEF Reset, queueVars, asyncVars, flagVars, playVars, loopVars
<1>6. CASE Loop
  BY <1>6, LoopIInv
<1>7. CASE Player
  BY <1>7, PlayerIInv
<1>8. CASE UNCHANGED svars
  BY <1>8 DEF svars, queueVars, asyncVars, flagVars, playVars, loopVars, sockVars
<1> QED BY <1>1, <1>2, <1>3, <1>4, <1>5, <1>6, <1>7, <1>8 DEF ServerNext

\* The invariant of the session, whoever its peer is.
LEMMA ServerIInv == ServerSpec => []IInv
  BY InitIInv, NextIInv, PTL DEF ServerSpec

-----------------------------------------------------------------------------
(* The session and the Outbox.                                             *)

\* What is waiting after a push: one message more at the back.
LEMMA PushAccepted ==
    ASSUME IInv, NEW m \in Messages, Push(m), UNCHANGED <<wh, uvbuf, sock, last>>
    PROVE  [O!Next]_(O!ovars)
<1>1. Gone' = Gone
  BY DEF Gone
<1>2. CASE Gone
  BY <1>1, <1>2 DEF ToWrite, O!ovars
<1>3. CASE ~Gone
  <2>1. ToWrite' = Append(ToWrite, m)
    <3>1. CASE wh = "written"
      <4>1. sendList # <<>> /\ Tail(sendList') = Append(Tail(sendList), m)
        BY <3>1, PushFacts DEF IInv, ServerTypeOK, WriteOwnsFront
      <4> QED BY <1>1, <1>3, <3>1, <4>1 DEF ToWrite
    <3>2. CASE wh # "written"
      BY <1>1, <1>3, <3>2 DEF ToWrite, Push
    <3> QED BY <3>1, <3>2
  <2> QED BY <1>1, <1>3, <2>1 DEF O!Next, O!Accept
<1> QED BY <1>2, <1>3

\* A step that leaves the queue and the write request alone is a stutter, or
\* breaks the connection.
LEMMA QuietStep ==
    ASSUME IInv, UNCHANGED <<sendList, wh, last>>, sock = "open" \/ sock' # "open"
    PROVE  [O!Next]_(O!ovars)
<1>1. CASE Gone' = Gone
  BY <1>1 DEF ToWrite, O!ovars
<1>2. CASE Gone' # Gone
  <2>1. ~Gone /\ Gone'
    BY <1>2 DEF Gone
  <2> QED BY <2>1 DEF ToWrite, O!Next, O!Break
<1> QED BY <1>1, <1>2

\* The session starts with an empty outbox.
LEMMA OutboxInit == ServerInit => O!Init
  BY DEF ServerInit, O!Init, ToWrite, Gone

\* The loop accepts responses; what it writes, the kernel takes later.
LEMMA LoopOutbox == ASSUME IInv, Loop PROVE [O!Next]_(O!ovars)
<1>1. CASE Respond
  <2>1. reply \in Messages /\ Push(reply) /\ UNCHANGED <<wh, uvbuf, sock, last>>
    BY <1>1 DEF Respond, Messages, sockVars, IInv, ReplyKnown
  <2> QED BY <2>1, PushAccepted
<1>2. CASE SignalResponse
  BY <1>2, QuietStep DEF SignalResponse, queueVars, sockVars
<1>3. CASE StartTcpWrite
  <2>1. UNCHANGED <<sendList, sock, last>>
    BY <1>3 DEF StartTcpWrite
  <2>2. wh' = wh \/ (wh = "idle" /\ wh' # "written")
    BY <1>3 DEF StartTcpWrite, NothingToStart, UvWrite, IInv, WriteOwnsFront
  <2> QED BY <2>1, <2>2 DEF Gone, ToWrite, O!ovars
<1>4. CASE OnTcpWrite
  <2>1. UNCHANGED <<sock, last>> /\ sendList' = Tail(sendList) /\ wh' # "written"
    BY <1>4 DEF OnTcpWrite, WriteNext, UvWrite
  <2>2. wh = "written" \/ sock # "open"
    BY <1>4 DEF OnTcpWrite, IInv, FailedOnlyGone
  <2> QED BY <2>1, <2>2 DEF Gone, ToWrite, O!ovars
<1>5. CASE CloseTcp
  BY <1>5, QuietStep DEF CloseTcp, queueVars
<1>6. CASE OnClosed
  BY <1>6, QuietStep DEF OnClosed, queueVars
<1>7. CASE Joined
  BY <1>7, QuietStep DEF Joined, queueVars, sockVars
<1> QED BY <1>1, <1>2, <1>3, <1>4, <1>5, <1>6, <1>7 DEF Loop

\* The thread accepts packets and the notification.
LEMMA PlayerOutbox == ASSUME IInv, Player PROVE [O!Next]_(O!ovars)
<1> USE DEF PlayerVarsKept, sockVars
<1>1. CASE PushPacket
  <2>1. Push("packet") /\ UNCHANGED <<wh, uvbuf, sock, last>> /\ "packet" \in Messages
    BY <1>1 DEF PushPacket, Messages
  <2> QED BY <2>1, PushAccepted
<1>2. CASE NotifyClient
  <2>1. Push("PLAY_NOTIFY") /\ UNCHANGED <<wh, uvbuf, sock, last>> /\ "PLAY_NOTIFY" \in Messages
    BY <1>2 DEF NotifyClient, Messages
  <2> QED BY <2>1, PushAccepted
<1>3. CASE Check \/ NextFrame \/ EndOfFile \/ SignalPacket \/ SignalNotify \/ EndPlayer
  <2>1. UNCHANGED <<sendList, wh, sock, last>>
    BY <1>3 DEF Check, NextFrame, EndOfFile, SignalPacket, SignalNotify, EndPlayer, queueVars
  <2> QED BY <2>1, QuietStep
<1> QED BY <1>1, <1>2, <1>3 DEF Player

\* Every step is a step of the Outbox or is seen by nobody.
LEMMA OutboxStep == IInv /\ [ServerNext]_svars => [O!Next]_(O!ovars)
<1> SUFFICES ASSUME IInv, [ServerNext]_svars PROVE [O!Next]_(O!ovars)
  OBVIOUS
<1>1. ASSUME NEW r \in Requests, Read(r) PROVE [O!Next]_(O!ovars)
  <2>1. UNCHANGED <<sendList, wh, last>> /\ sock = "open"
    BY <1>1 DEF Read, queueVars
  <2> QED BY <2>1, QuietStep
<1>2. CASE ReadFailed
  BY <1>2, QuietStep DEF ReadFailed, queueVars, sockVars
<1>3. CASE Transmit
  <2>1. /\ ~Gone /\ ~Gone' /\ ToWrite = sendList /\ ToWrite' = Tail(sendList)
        /\ sendList # <<>> /\ last' = Head(sendList)
    BY <1>3 DEF Transmit, Gone, ToWrite, queueVars, IInv, WriteOwnsFront
  <2>2. Gone' = Gone
    BY <1>3 DEF Transmit, Gone
  <2> QED BY <2>1, <2>2 DEF O!Next, O!Write
<1>4. CASE FailWrite
  <2>1. Gone /\ Gone' = Gone /\ last' = last
    BY <1>4 DEF FailWrite, Gone
  <2> QED BY <2>1 DEF ToWrite, O!ovars
<1>5. CASE Reset
  BY <1>5, QuietStep DEF Reset, queueVars
<1>6. CASE Loop
  BY <1>6, LoopOutbox
<1>7. CASE Player
  BY <1>7, PlayerOutbox
<1>8. CASE UNCHANGED svars
  BY <1>8, QuietStep DEF svars, queueVars, sockVars
<1> QED BY <1>1, <1>2, <1>3, <1>4, <1>5, <1>6, <1>7, <1>8 DEF ServerNext

\* Two threads push and one writes with a single request: what send() was given
\* goes out in the order of the pushes, each message once.
THEOREM ServerImplementsOutbox == ServerSpec => SendsInOrder
  BY OutboxInit, OutboxStep, ServerIInv, PTL DEF ServerSpec, SendsInOrder, O!SafeSpec

-----------------------------------------------------------------------------
(* The connection: the session with its client.                            *)

\* The flag that the code does without: a write is under way exactly as long
\* as the list is not empty, until the socket is closed.
QueueIsFlag ==
    /\ write = "none" => sendLists = <<>> \/ stopped
    /\ write # "none" => sendLists # <<>>

\* Nothing is handed to the kernel on a closed socket.
NoWriteAfterStop == stopped => write # "started"

QueueInv == Client!WriterTypeOK /\ QueueIsFlag /\ NoWriteAfterStop

\* The queue starts empty.
LEMMA InitQueue == Client!WriteInit => QueueInv
  BY EmptySeq DEF Client!WriteInit, QueueInv, Client!WriterTypeOK, QueueIsFlag, NoWriteAfterStop

\* Every call and every completion keeps the two facts about the queue.
LEMMA NextQueue == QueueInv /\ [Client!WriteNext]_(Client!wvars) => QueueInv'
<1> SUFFICES ASSUME QueueInv, [Client!WriteNext]_(Client!wvars)
             PROVE  QueueInv'
  OBVIOUS
<1> USE DEF QueueInv, Client!WriterTypeOK, QueueIsFlag, NoWriteAfterStop
<1>1. ASSUME NEW m \in Requests, Client!Send(m)
      PROVE  QueueInv'
  BY <1>1 DEF Client!Send, Client!DoWrite
<1>2. CASE Client!Transmit
  <2>1. Head(sendLists) \in Requests
    BY <1>2, HeadTailProperties DEF Client!Transmit
  <2> QED BY <1>2, <2>1 DEF Client!Transmit
<1>3. CASE Client!Lose
  BY <1>3 DEF Client!Lose
<1>4. CASE Client!OnWritten
  <2>1. Tail(sendLists) \in Seq(Requests)
    BY <1>4, HeadTailProperties DEF Client!OnWritten
  <2> QED BY <1>4, <2>1 DEF Client!OnWritten, Client!DoWrite
<1>5. CASE Client!OnWriteFailed
  BY <1>5 DEF Client!OnWriteFailed
<1>6. CASE Client!Stop
  BY <1>6 DEF Client!Stop
<1>7. CASE UNCHANGED Client!wvars
  BY <1>7 DEF Client!wvars
<1> QED BY <1>1, <1>2, <1>3, <1>4, <1>5, <1>6, <1>7 DEF Client!WriteNext, Client!Handler

\* Both facts hold whenever a handler runs.
LEMMA QueueHolds == Client!WriteSpec => []QueueInv
  BY InitQueue, NextQueue, PTL DEF Client!WriteSpec

\* A queue without messages is an outbox without messages.
LEMMA RequestsInit == Client!WriteInit => Client!O!Init
  BY DEF Client!WriteInit, Client!O!Init, Client!Waiting, Client!Broken

\* A call of send() is accepted, or ignored on a broken connection; the
\* kernel takes the front; the rest is seen by nobody or breaks the connection.
LEMMA RequestsStep == QueueInv /\ [Client!WriteNext]_(Client!wvars) => [Client!O!Next]_(Client!O!ovars)
<1> SUFFICES ASSUME QueueInv, [Client!WriteNext]_(Client!wvars)
             PROVE  [Client!O!Next]_(Client!O!ovars)
  OBVIOUS
<1> USE DEF QueueInv, Client!WriterTypeOK, QueueIsFlag, NoWriteAfterStop
<1>1. ASSUME NEW m \in Requests, Client!Send(m)
      PROVE  [Client!O!Next]_(Client!O!ovars)
  <2>1. CASE Client!Broken
    BY <1>1, <2>1 DEF Client!Send, Client!DoWrite, Client!Broken, Client!Waiting, Client!O!ovars
  <2>2. CASE ~Client!Broken
    <3>1. ~Client!Broken' /\ asked' = asked
      BY <1>1, <2>2 DEF Client!Send, Client!DoWrite, Client!Broken
    <3>2. Client!Waiting' = Append(Client!Waiting, m)
      <4>1. CASE sendLists = <<>>
        BY <1>1, <2>2, <4>1 DEF Client!Send, Client!DoWrite, Client!Broken, Client!Waiting
      <4>2. CASE sendLists # <<>>
        BY <1>1, <2>2, <3>1, <4>2, HeadTailAppend DEF Client!Send, Client!Waiting
      <4> QED BY <4>1, <4>2
    <3>3. Client!Broken' = Client!Broken
      BY <2>2, <3>1 DEF Client!Broken
    <3> QED BY <2>2, <3>1, <3>2, <3>3 DEF Client!O!Next, Client!O!Accept
  <2> QED BY <2>1, <2>2
<1>2. CASE Client!Transmit
  <2>1. ~Client!Broken /\ ~Client!Broken' /\ Client!Waiting = sendLists /\ Client!Waiting' = Tail(sendLists)
    BY <1>2 DEF Client!Transmit, Client!Broken, Client!Waiting
  <2>2. asked' = Head(sendLists) /\ sendLists # <<>>
    BY <1>2 DEF Client!Transmit
  <2>3. Client!Broken' = Client!Broken
    BY <1>2 DEF Client!Transmit, Client!Broken
  <2> QED BY <2>1, <2>2, <2>3 DEF Client!O!Next, Client!O!Write
<1>3. CASE Client!Lose
  BY <1>3 DEF Client!Lose, Client!Broken, Client!Waiting, Client!O!Next, Client!O!Break
<1>4. CASE Client!OnWritten
  <2>1. CASE stopped
    BY <1>4, <2>1 DEF Client!OnWritten, Client!DoWrite, Client!Broken, Client!Waiting, Client!O!ovars
  <2>2. CASE ~stopped
    BY <1>4, <2>2 DEF Client!OnWritten, Client!DoWrite, Client!Broken, Client!Waiting, Client!O!ovars
  <2> QED BY <2>1, <2>2
<1>5. CASE Client!OnWriteFailed
  BY <1>5 DEF Client!OnWriteFailed, Client!Broken, Client!Waiting, Client!O!ovars
<1>6. CASE Client!Stop
  <2>1. Client!Broken' /\ Client!Waiting' = <<>> /\ asked' = asked
    BY <1>6 DEF Client!Stop, Client!Broken, Client!Waiting
  <2>2. CASE Client!Broken
    BY <2>1, <2>2 DEF Client!Broken, Client!Waiting, Client!O!ovars
  <2>3. CASE ~Client!Broken
    BY <1>6, <2>1, <2>3 DEF Client!Stop, Client!Broken, Client!O!Next, Client!O!Break
  <2> QED BY <2>2, <2>3
<1>7. CASE UNCHANGED Client!wvars
  BY <1>7 DEF Client!wvars, Client!Broken, Client!Waiting, Client!O!ovars
<1> QED BY <1>1, <1>2, <1>3, <1>4, <1>5, <1>6, <1>7 DEF Client!WriteNext, Client!Handler

\* What the application hands to OnOutput or send() goes out in order and
\* once, though nothing but the list itself says whether a write is under way.
THEOREM WriterImplementsOutbox == Client!WriteSpec => Client!SendsInOrder
  BY RequestsInit, RequestsStep, QueueHolds, PTL DEF Client!WriteSpec, Client!SendsInOrder, Client!O!SafeSpec

\* What is on its way to the server, or will be, are requests.
ConnInv ==
    /\ QueueInv
    /\ toServer \in Seq(Requests) /\ script \in Seq(Requests)

\* Both queues start empty.
LEMMA InitConnInv == Init => ConnInv
<1> SUFFICES ASSUME Init PROVE ConnInv
  OBVIOUS
<1>1. QueueInv
  BY InitQueue DEF Init, Client!WriteInit
<1> QED BY <1>1, EmptySeq, SessionAssumption DEF Init, ConnInv

\* The client's steps are steps of its send queue.
LEMMA ClientSteps ==
    ASSUME ConnInv, [Next]_vars
    PROVE  [Client!WriteNext]_(Client!wvars)
<1>1. CASE SendRequest
  <2>1. Head(script) \in Requests
    BY <1>1, HeadTailProperties DEF SendRequest, ConnInv
  <2>2. Client!Send(Head(script))
    BY <1>1, Zenon DEF SendRequest, Client!Send, Client!DoWrite
  <2> QED BY <2>1, <2>2 DEF Client!WriteNext
<1>2. CASE Request
  BY <1>2 DEF Request, Client!Transmit, Client!WriteNext
<1>3. CASE ClientHandler
  BY <1>3 DEF ClientHandler, Client!Handler, Client!OnWritten, Client!OnWriteFailed, Client!DoWrite,
              Client!WriteNext
<1>4. CASE ClientStop
  BY <1>4 DEF ClientStop, Client!Stop, Client!WriteNext
<1>5. CASE ClientLosesWrite
  BY <1>5 DEF ClientLosesWrite, Client!Lose, Client!WriteNext
<1>6. CASE UNCHANGED clientVars
  BY <1>6 DEF clientVars, Client!wvars
<1>7. CASE Quiet \/ UNCHANGED vars
  BY <1>7, <1>6 DEF Quiet, vars
<1> QED BY <1>1, <1>2, <1>3, <1>4, <1>5, <1>6, <1>7 DEF Next, ReadRequest, ReadEnd, ServerStep

\* The server's steps are steps of the session, on requests.
LEMMA ServerSteps ==
    ASSUME ConnInv, [Next]_vars
    PROVE  [ServerNext]_svars
<1>1. CASE ReadRequest
  <2>1. Head(toServer) \in Requests
    BY <1>1, HeadTailProperties DEF ReadRequest, ConnInv
  <2> QED BY <1>1, <2>1 DEF ReadRequest, ServerNext
<1>2. CASE ReadEnd
  BY <1>2 DEF ReadEnd, ServerNext
<1>3. CASE \/ ServerStep(Loop) \/ ServerStep(Transmit) \/ ServerStep(FailWrite)
           \/ ServerStep(Reset) \/ ServerStep(Player)
  BY <1>3 DEF ServerStep, ServerNext
<1>4. CASE UNCHANGED svars
  BY <1>4
<1> QED BY <1>1, <1>2, <1>3, <1>4 DEF Next, SendRequest, Request, ClientHandler, ClientStop,
                                     ClientLosesWrite, Quiet, vars

\* What is read was sent.
LEMMA NextConnInv == ConnInv /\ [Next]_vars => ConnInv'
<1> SUFFICES ASSUME ConnInv, [Next]_vars PROVE ConnInv'
  OBVIOUS
<1>1. QueueInv'
  BY ClientSteps, NextQueue DEF ConnInv
<1>2. script' \in Seq(Requests)
  <2>1. CASE SendRequest
    BY <2>1, HeadTailProperties DEF SendRequest, ConnInv
  <2>2. CASE UNCHANGED script
    BY <2>2 DEF ConnInv
  <2> QED BY <2>1, <2>2 DEF Next, Request, ClientHandler, ClientStop, ClientLosesWrite, ReadRequest,
                            ReadEnd, ServerStep, Quiet, vars
<1>3. toServer' \in Seq(Requests)
  <2>1. CASE Request
    <3>1. asked' \in Requests
      BY <2>1, HeadTailProperties
         DEF Request, Client!Transmit, ConnInv, QueueInv, Client!WriterTypeOK, QueueIsFlag
    <3> QED BY <2>1, <3>1, AppendProperties DEF Request, ConnInv
  <2>2. CASE ReadRequest
    BY <2>2, HeadTailProperties DEF ReadRequest, ConnInv
  <2>3. CASE UNCHANGED toServer
    BY <2>3 DEF ConnInv
  <2> QED BY <2>1, <2>2, <2>3 DEF Next, SendRequest, ClientHandler, ClientStop, ClientLosesWrite,
                                  ReadEnd, ServerStep, Quiet, vars
<1> QED BY <1>1, <1>2, <1>3 DEF ConnInv

\* Whatever happens on the connection is a behaviour of the session.
LEMMA SessionOfConnection == Spec => ServerSpec
<1>1. Init => ServerInit
  BY DEF Init
<1> QED BY <1>1, InitConnInv, NextConnInv, ServerSteps, PTL DEF Spec, ServerSpec

\* The variables of the connection keep their types.
THEOREM TypeCorrect == Spec => []TypeOK
<1>1. IInv /\ ConnInv => TypeOK
  BY DEF IInv, ConnInv, TypeOK, QueueInv, Client!WriterTypeOK
<1> QED BY <1>1, SessionOfConnection, ServerIInv, InitConnInv, NextConnInv, PTL DEF Spec

\* The one write request writes the front of the queue, and nobody starts a
\* second write with it.
THEOREM FrontIsWritten == Spec => []WriteOwnsFront
<1>1. IInv => WriteOwnsFront
  BY DEF IInv
<1> QED BY <1>1, SessionOfConnection, ServerIInv, PTL

\* Messages that wait always have a write under way or a wake-up to come.
THEOREM NoLostWakeup == Spec => []WakeupPending
<1>1. IInv => WakeupPending
  BY DEF IInv
<1> QED BY <1>1, SessionOfConnection, ServerIInv, PTL

\* No session is deleted under its thread, and one PLAY never terminates.
THEOREM JoinedBeforeDelete == Spec => []ThreadEndsFirst
<1>1. IInv => ThreadEndsFirst
  BY DEF IInv
<1> QED BY <1>1, SessionOfConnection, ServerIInv, PTL

\* The client's requests go out in the order of the calls, each once, whatever
\* the server does to the connection meanwhile.
THEOREM RequestsInOrder == Spec => Client!SendsInOrder
<1>1. Init => Client!WriteInit
  BY DEF Init, Client!WriteInit
<1>2. Spec => Client!WriteSpec
  BY <1>1, InitConnInv, NextConnInv, ClientSteps, PTL DEF Spec, Client!WriteSpec
<1>3. Client!WriteSpec => Client!SendsInOrder
  BY WriterImplementsOutbox
<1> QED BY <1>2, <1>3
=============================================================================
