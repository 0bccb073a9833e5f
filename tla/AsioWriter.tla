----------------------------- MODULE AsioWriter -----------------------------
(***************************************************************************)
(* The send queue of the asio examples: OnOutput or send() and do_write().  *)
(* There is no flag for a write that is under way: it is taken to be under  *)
(* way as long as sendLists_ is not empty, so the front stays in the list   *)
(* until its completion handler has run.  The kernel may have passed the    *)
(* bytes on, and the peer may have answered, before that handler runs.      *)
(***************************************************************************)
EXTENDS Sequences

CONSTANTS Messages, NoMessage

VARIABLES
    sendLists,   \* sendLists_
    write,       \* the async_write: "none", "started", "done", "failed"; the
                 \* handler of the last two has not run yet
    stopped,     \* stop() was called: the socket is closed
    last         \* the message that the kernel passed on last

wvars == <<sendLists, write, stopped, last>>

WriteInit == sendLists = <<>> /\ write = "none" /\ stopped = FALSE /\ last = NoMessage

\* do_write: on a closed socket the operation fails at once.
DoWrite == write' = IF stopped THEN "failed" ELSE "started"

SendAlways(m) ==
    /\ sendLists' = Append(sendLists, m)
    /\ DoWrite
    /\ UNCHANGED <<stopped, last>>
Send(m) ==
    /\ sendLists' = Append(sendLists, m)
    /\ IF sendLists = <<>> THEN DoWrite ELSE UNCHANGED write
    /\ UNCHANGED <<stopped, last>>

Transmit ==
    /\ write = "started"
    /\ write' = "done" /\ last' = Head(sendLists)
    /\ UNCHANGED <<sendLists, stopped>>

\* The connection is lost under the write.
Lose ==
    /\ write = "started"
    /\ write' = "failed"
    /\ UNCHANGED <<sendLists, stopped, last>>

\* The completion handler without an error.
OnWritten ==
    /\ write = "done"
    /\ sendLists' = Tail(sendLists)
    /\ IF sendLists' = <<>> THEN write' = "none" ELSE DoWrite
    /\ UNCHANGED <<stopped, last>>

\* ... with one: sendLists_ keeps the message, so nothing is written again.
OnWriteFailed ==
    /\ write = "failed"
    /\ write' = "none" /\ stopped' = TRUE
    /\ UNCHANGED <<sendLists, last>>

\* stop() after a read error, a failed input() or from the application; a
\* write that has not completed is aborted.
Stop ==
    /\ ~stopped
    /\ stopped' = TRUE
    /\ write' = IF write = "started" THEN "failed" ELSE write
    /\ UNCHANGED <<sendLists, last>>

Handler == OnWritten \/ OnWriteFailed

WriteNext == (\E m \in Messages : Send(m)) \/ Transmit \/ Lose \/ Handler \/ Stop

WriteSpec == WriteInit /\ [][WriteNext]_wvars
-----------------------------------------------------------------------------
WriterTypeOK ==
    /\ sendLists \in Seq(Messages)
    /\ write \in {"none", "started", "done", "failed"}
    /\ stopped \in BOOLEAN
    /\ last \in Messages \cup {NoMessage}

Broken == stopped \/ write = "failed"

Waiting ==
    IF Broken THEN <<>> ELSE IF write = "done" THEN Tail(sendLists) ELSE sendLists

\* What is handed to OnOutput or send() goes out in order and once, whatever
\* completes in between and whoever calls it from which handler.
O == INSTANCE Outbox WITH queue <- Waiting, broken <- Broken
SendsInOrder == O!SafeSpec
SendsAll == O!Spec
=============================================================================
