----------------------------- MODULE PullServer -----------------------------
(***************************************************************************)
(* Session of the pull server example (rtsp_v1_server_use_libuv.cpp): the   *)
(* loop thread of libuv and playThread around one send queue.  send() may   *)
(* be called by both: it pushes under mtx and wakes the loop, which alone    *)
(* writes.  close() may be called by both too; the loop then closes the     *)
(* socket, waits for playThread and deletes the session.                    *)
(*                                                                         *)
(* One step is a critical section, a call of libuv, or a stretch of code    *)
(* that looks at nothing the other thread writes.  Which requests reach     *)
(* their handler is the subject of RtspServer; "OTHER" stands for all that  *)
(* are answered and change nothing here.                                    *)
(*                                                                         *)
(* libuv, as the code uses it: uv_async_send is remembered, not counted;    *)
(* callbacks run one at a time in the loop; uv_close lets a pending write   *)
(* complete with an error before the close callback runs, and uv_write on   *)
(* a closing handle fails without a callback.                              *)
(***************************************************************************)
EXTENDS Naturals, Sequences

CONSTANT MaxPackets   \* bound: frames after these are passed over without a packet

ASSUME PacketsAssumption == MaxPackets \in Nat

Requests == {"PLAY", "PAUSE", "TEARDOWN", "OTHER"}
Messages == Requests \cup {"packet", "PLAY_NOTIFY"}   \* a response is known by its request
NoMessage == "none"

VARIABLES
    \* shared by the threads
    sendList, writeInProgress,   \* under mtx
    writeAsync, closeAsync,      \* uv_async_send was called, its callback has not run
    flag,                        \* close() has been called: the once_flag
    startPlay, teardown,
    player,       \* playThread: "none", "check", "frame", "push" and
                  \* "notify" before pushing, "signal" and "signalNotify" after it,
                  \* "close", "done"
    packets,      \* packets pushed so far
    \* the loop thread
    loop,         \* "poll", "respond" and "signal" in handleRequest, "join",
                  \* "deleted", or "terminated" with the whole process
    reply,        \* the request that is being answered
    plays,        \* PLAY requests handled
    \* the socket
    wh,           \* the write request: "idle", "queued", "written", "failed"; the
                  \* callback of the last two has not run yet
    uvbuf,        \* what wh writes
    sock,         \* "open", "reset" by the peer, "closing", "closed"
    last          \* the message that the kernel passed on last

queueVars == <<sendList, writeInProgress>>
asyncVars == <<writeAsync, closeAsync, flag>>
flagVars  == <<startPlay, teardown>>
playVars  == <<player, packets>>
loopVars  == <<loop, reply, plays>>
sockVars  == <<wh, uvbuf, sock, last>>
svars == <<queueVars, asyncVars, flagVars, playVars, loopVars, sockVars>>

ServerInit ==
    /\ sendList = <<>> /\ writeInProgress = FALSE
    /\ writeAsync = FALSE /\ closeAsync = FALSE /\ flag = FALSE
    /\ startPlay = FALSE /\ teardown = FALSE
    /\ player = "none" /\ packets = 0
    /\ loop = "poll" /\ reply = NoMessage /\ plays = 0
    /\ wh = "idle" /\ uvbuf = NoMessage /\ sock = "open" /\ last = NoMessage

-----------------------------------------------------------------------------
(* send() and close(), from either thread.                                 *)

Push(m) == sendList' = Append(sendList, m) /\ UNCHANGED writeInProgress
WakeWriter == writeAsync' = TRUE /\ UNCHANGED <<closeAsync, flag>>

\* std::call_once around uv_async_send(&close_async).
CloseSession ==
    /\ closeAsync' = (closeAsync \/ ~flag) /\ flag' = TRUE
    /\ UNCHANGED writeAsync

-----------------------------------------------------------------------------
(* The loop thread: doRead and handleRequest.                              *)

\* handlePlay assigns a new thread to playThread; while that is joinable, the
\* assignment calls std::terminate.
HandlePlay ==
    /\ startPlay' = TRUE /\ plays' = plays + 1
    /\ IF player = "none"
          THEN player' = "check" /\ loop' = "respond" /\ UNCHANGED sock
          ELSE player' = player /\ loop' = "terminated" /\ sock' = "closed"
    /\ UNCHANGED teardown

HandlePause ==
    /\ startPlay' = FALSE /\ loop' = "respond"
    /\ UNCHANGED <<teardown, player, plays, sock>>

HandleTearDown ==
    /\ teardown' = TRUE /\ loop' = "respond"
    /\ UNCHANGED <<startPlay, player, plays, sock>>

HandleOther == loop' = "respond" /\ UNCHANGED <<flagVars, player, plays, sock>>

Read(r) ==
    /\ loop = "poll" /\ sock = "open"
    /\ reply' = r
    /\ CASE r = "PLAY" -> HandlePlay
         [] r = "PAUSE" -> HandlePause
         [] r = "TEARDOWN" -> HandleTearDown
         [] OTHER -> HandleOther
    /\ UNCHANGED <<queueVars, asyncVars, packets, wh, uvbuf, last>>

\* The peer closed the connection or it was lost: close(), each time.
ReadFailed ==
    /\ loop = "poll" /\ sock \in {"open", "reset"}
    /\ CloseSession
    /\ UNCHANGED <<queueVars, flagVars, playVars, loopVars, sockVars>>

Respond ==
    /\ loop = "respond"
    /\ Push(reply) /\ reply' = NoMessage /\ loop' = "signal"
    /\ UNCHANGED <<asyncVars, flagVars, playVars, plays, sockVars>>

SignalResponse ==
    /\ loop = "signal"
    /\ WakeWriter /\ loop' = "poll"
    /\ UNCHANGED <<queueVars, flagVars, playVars, reply, plays, sockVars>>

-----------------------------------------------------------------------------
(* The loop thread: writing.                                               *)

\* uv_write of the message m with the one request that the session has.
UvWrite(m) ==
    IF sock = "closing" THEN wh' = "idle" /\ uvbuf' = NoMessage
                        ELSE wh' = "queued" /\ uvbuf' = m

NothingToStartUnguarded == sendList = <<>>
NothingToStart == sendList = <<>> \/ writeInProgress

StartTcpWrite ==
    /\ loop = "poll" /\ sock \in {"open", "reset"} /\ writeAsync
    /\ writeAsync' = FALSE
    /\ IF NothingToStart
          THEN UNCHANGED <<writeInProgress, wh, uvbuf>>
          ELSE writeInProgress' = TRUE /\ UvWrite(Head(sendList))
    /\ UNCHANGED <<sendList, closeAsync, flag, flagVars, playVars, loopVars, sock, last>>

WriteNextUnflagged(list) ==
    /\ writeInProgress' = FALSE
    /\ IF list = <<>> THEN wh' = "idle" /\ uvbuf' = NoMessage ELSE UvWrite(Head(list))
WaitForSignal(list) == writeInProgress' = FALSE /\ wh' = "idle" /\ uvbuf' = NoMessage
WriteNext(list) ==
    IF list = <<>> THEN writeInProgress' = FALSE /\ wh' = "idle" /\ uvbuf' = NoMessage
                   ELSE UNCHANGED writeInProgress /\ UvWrite(Head(list))

\* The callback of wh.  After uv_close it runs before the close callback, with
\* an error if the write was still queued.

OnTcpWrite ==
    /\ loop = "poll"
    /\ \/ wh \in {"written", "failed"}
       \/ wh = "queued" /\ sock = "closing"
    /\ IF wh = "written" THEN UNCHANGED asyncVars ELSE CloseSession
    /\ sendList' = Tail(sendList)
    /\ WriteNext(Tail(sendList))
    /\ UNCHANGED <<flagVars, playVars, loopVars, sock, last>>

\* The kernel.
Transmit ==
    /\ wh = "queued" /\ sock = "open"
    /\ wh' = "written" /\ last' = uvbuf
    /\ UNCHANGED <<queueVars, asyncVars, flagVars, playVars, loopVars, uvbuf, sock>>

FailWrite ==
    /\ wh = "queued" /\ sock = "reset"
    /\ wh' = "failed"
    /\ UNCHANGED <<queueVars, asyncVars, flagVars, playVars, loopVars, uvbuf, sock, last>>

Reset ==
    /\ sock = "open"
    /\ sock' = "reset"
    /\ UNCHANGED <<queueVars, asyncVars, flagVars, playVars, loopVars, wh, uvbuf, last>>

-----------------------------------------------------------------------------
(* The loop thread: the end of the session.                                *)

CloseTcp ==
    /\ loop = "poll" /\ sock \in {"open", "reset"} /\ closeAsync
    /\ closeAsync' = FALSE
    /\ sock' = "closing"
    /\ UNCHANGED <<queueVars, writeAsync, flag, flagVars, playVars, loopVars, wh, uvbuf, last>>

JoinForgotten == "deleted"
JoinOrDelete == IF player = "none" THEN "deleted" ELSE "join"

TeardownUnset == teardown
TeardownSet == TRUE

\* The close callback up to join(), which blocks the loop.
OnClosed ==
    /\ loop = "poll" /\ sock = "closing" /\ wh = "idle"
    /\ sock' = "closed"
    /\ teardown' = TeardownSet /\ startPlay' = FALSE
    /\ loop' = JoinOrDelete
    /\ UNCHANGED <<queueVars, asyncVars, playVars, reply, plays, wh, uvbuf, last>>

Joined ==
    /\ loop = "join" /\ player = "done"
    /\ loop' = "deleted"
    /\ UNCHANGED <<queueVars, asyncVars, flagVars, playVars, reply, plays, sockVars>>

-----------------------------------------------------------------------------
(* playThread.                                                             *)

PlayerVarsKept == UNCHANGED <<flagVars, loopVars, sockVars>>
Alive == loop # "terminated"

\* The wait of 40 ms, before the first frame and after each, and then the
\* loop's condition.
Check ==
    /\ Alive /\ player = "check"
    /\ player' = IF teardown THEN "close" ELSE "frame"
    /\ UNCHANGED <<queueVars, asyncVars, packets>> /\ PlayerVarsKept

\* GetNextFrame and the test of startPlay.
NextFrame ==
    /\ Alive /\ player = "frame"
    /\ player' = IF startPlay /\ packets < MaxPackets THEN "push" ELSE "check"
    /\ UNCHANGED <<queueVars, asyncVars, packets>> /\ PlayerVarsKept

EndOfFile ==
    /\ Alive /\ player = "frame"
    /\ player' = "notify"
    /\ UNCHANGED <<queueVars, asyncVars, packets>> /\ PlayerVarsKept

PushPacket ==
    /\ Alive /\ player = "push"
    /\ Push("packet") /\ packets' = packets + 1
    /\ player' = "signal"
    /\ UNCHANGED asyncVars /\ PlayerVarsKept

\* A frame is one packet, or several for which no flag is looked at.
SignalPacket ==
    /\ Alive /\ player = "signal"
    /\ WakeWriter
    /\ player' \in {"check"} \cup (IF packets < MaxPackets THEN {"push"} ELSE {})
    /\ UNCHANGED <<queueVars, packets>> /\ PlayerVarsKept

NotifyClient ==
    /\ Alive /\ player = "notify"
    /\ Push("PLAY_NOTIFY")
    /\ player' = "signalNotify"
    /\ UNCHANGED <<asyncVars, packets>> /\ PlayerVarsKept

SignalNotify ==
    /\ Alive /\ player = "signalNotify"
    /\ WakeWriter
    /\ player' = "close"
    /\ UNCHANGED <<queueVars, packets>> /\ PlayerVarsKept

EndPlayer ==
    /\ Alive /\ player = "close"
    /\ CloseSession
    /\ player' = "done"
    /\ UNCHANGED <<queueVars, packets>> /\ PlayerVarsKept

-----------------------------------------------------------------------------
Loop == Respond \/ SignalResponse \/ StartTcpWrite \/ OnTcpWrite \/ CloseTcp \/ OnClosed \/ Joined

Player ==
    \/ Check \/ NextFrame \/ EndOfFile \/ PushPacket \/ SignalPacket
    \/ NotifyClient \/ SignalNotify \/ EndPlayer

ServerNext ==
    \/ \E r \in Requests : Read(r)
    \/ ReadFailed \/ Loop \/ Transmit \/ FailWrite \/ Reset \/ Player

ServerSpec == ServerInit /\ [][ServerNext]_svars
-----------------------------------------------------------------------------
PlayerStates ==
    {"none", "check", "frame", "push", "notify", "signal", "signalNotify", "close", "done"}

ServerTypeOK ==
    /\ sendList \in Seq(Messages) /\ writeInProgress \in BOOLEAN
    /\ writeAsync \in BOOLEAN /\ closeAsync \in BOOLEAN /\ flag \in BOOLEAN
    /\ startPlay \in BOOLEAN /\ teardown \in BOOLEAN
    /\ player \in PlayerStates /\ packets \in 0..MaxPackets
    /\ loop \in {"poll", "respond", "signal", "join", "deleted", "terminated"}
    /\ reply \in Requests \cup {NoMessage} /\ plays \in Nat
    /\ wh \in {"idle", "queued", "written", "failed"}
    /\ uvbuf \in Messages \cup {NoMessage} /\ last \in Messages \cup {NoMessage}
    /\ sock \in {"open", "reset", "closing", "closed"}

\* The bytes that libuv still reads are those of the front of sendList, and
\* writeInProgress stands for the one write request: whoever pushes meanwhile
\* neither moves the message nor starts a second write with the same request.
WriteOwnsFront ==
    wh # "idle" => /\ writeInProgress
                   /\ sendList # <<>> /\ uvbuf = Head(sendList)

\* No wake-up is lost: if messages wait and no write is under way, the loop
\* will be woken, though send() pushes before it signals, signals are merged,
\* and on_tcp_write may find the queue empty in between.
WakeupPending ==
    sock \in {"open", "reset"} /\ sendList # <<>> /\ ~writeInProgress =>
        writeAsync \/ loop = "signal" \/ player \in {"signal", "signalNotify"}

\* The thread that uses the session ends before the session: it is joined
\* before delete, and the process is terminated over a joinable thread only
\* by a second PLAY.
ThreadEndsFirst ==
    /\ loop = "deleted" => player \in {"none", "done"}
    /\ loop = "terminated" => plays > 1

Gone == sock # "open"
ToWrite == IF Gone THEN <<>> ELSE IF wh = "written" THEN Tail(sendList) ELSE sendList

\* Two threads send, one writes: what send() was given goes out in the order
\* of the pushes, each message once.
O == INSTANCE Outbox WITH queue <- ToWrite, broken <- Gone
SendsInOrder == O!SafeSpec
SendsAll == O!Spec

\* Whoever closes, and whenever: the session ends and the thread is joined; so
\* does a TEARDOWN while it plays.
SessionEnds ==
    (flag \/ (teardown /\ player # "none")) ~> (loop \in {"deleted", "terminated"})
=============================================================================
