---------------------------- MODULE PullSession -----------------------------
(***************************************************************************)
(* A connection between the pipelining asio client and the pull server, as  *)
(* their sockets and queues see it: the client's sendLists_, what is on its  *)
(* way to the server, and the session with its two threads.  What the        *)
(* messages say is the subject of RtspLink.                                 *)
(***************************************************************************)
EXTENDS PullServer

CONSTANT Scripts   \* bound: what the client's user asks for, in order

ASSUME SessionAssumption == Scripts \subseteq Seq(Requests)

VARIABLES
    sendLists, write, stopped, asked,   \* the client's queue, see AsioWriter
    toServer,                           \* passed on and not read yet
    script                              \* what remains to be asked for

clientVars == <<sendLists, write, stopped, asked>>
vars == <<svars, clientVars, toServer, script>>

Client == INSTANCE AsioWriter WITH Messages <- Requests, last <- asked

Init == ServerInit /\ Client!WriteInit /\ toServer = <<>> /\ script \in Scripts

SendRequest ==
    /\ script # <<>>
    /\ Client!Send(Head(script)) /\ script' = Tail(script)
    /\ UNCHANGED <<svars, toServer>>

Request ==
    /\ Client!Transmit
    /\ toServer' = Append(toServer, asked')
    /\ UNCHANGED <<svars, script>>

ClientHandler == Client!Handler /\ UNCHANGED <<svars, toServer, script>>

\* The user who has asked for everything, or the end of the stream when the
\* server has closed or the connection is lost.
ClientStop ==
    /\ script = <<>> \/ sock # "open"
    /\ Client!Stop
    /\ UNCHANGED <<svars, toServer, script>>

\* A write fails when the server has closed, or the connection is lost.
ClientLosesWrite ==
    /\ sock # "open"
    /\ Client!Lose
    /\ UNCHANGED <<svars, toServer, script>>

ReadRequest ==
    /\ toServer # <<>>
    /\ Read(Head(toServer)) /\ toServer' = Tail(toServer)
    /\ UNCHANGED <<clientVars, script>>

ReadEnd ==
    /\ stopped \/ sock = "reset"
    /\ ReadFailed
    /\ UNCHANGED <<clientVars, toServer, script>>

ServerStep(A) == A /\ UNCHANGED <<clientVars, toServer, script>>

\* The process or the session is gone, or nobody has anything to say.
Quiet ==
    /\ \/ loop \in {"deleted", "terminated"}
       \/ loop = "poll" /\ toServer = <<>> /\ script = <<>>
    /\ UNCHANGED vars

Next ==
    \/ SendRequest \/ Request \/ ClientHandler \/ ClientStop \/ ClientLosesWrite
    \/ ReadRequest \/ ReadEnd
    \/ ServerStep(Loop) \/ ServerStep(Transmit) \/ ServerStep(FailWrite) \/ ServerStep(Reset)
    \/ ServerStep(Player)
    \/ Quiet

Spec == Init /\ [][Next]_vars

\* Each side's loop gets round to every event that is waiting, threads run, and
\* peers take what is sent to them.
FairSpec ==
    /\ Spec
    /\ WF_vars(Request) /\ WF_vars(ClientHandler) /\ WF_vars(ReadRequest)
    /\ WF_vars(ServerStep(Respond)) /\ WF_vars(ServerStep(SignalResponse))
    /\ WF_vars(ServerStep(StartTcpWrite)) /\ WF_vars(ServerStep(OnTcpWrite))
    /\ WF_vars(ServerStep(CloseTcp)) /\ WF_vars(ServerStep(OnClosed)) /\ WF_vars(ServerStep(Joined))
    /\ WF_vars(ServerStep(Transmit)) /\ WF_vars(ServerStep(FailWrite))
    /\ WF_vars(ServerStep(Player))
-----------------------------------------------------------------------------
TypeOK ==
    /\ ServerTypeOK /\ Client!WriterTypeOK
    /\ toServer \in Seq(Requests) /\ script \in Seq(Requests)

\* What the application hands to OnOutput goes to the server in order and once.
RequestsSent == Client!SendsAll
=============================================================================
