# Verification of rtsp2

TLA+ models of rtsp2, a C++ library for RTSP clients and servers over one
connection. The library does no I/O and starts no thread: the application
passes received bytes to `input()`, the library calls back with requests and
responses, and hands bytes to send to `out_` / `send()`. Queues, threads and
media are the business of the example applications, which are modelled too.

This document says what the system consists of, which module models which part
and how, what TLC checks on small instances, what TLAPS proves for every value
of the constants, what was found, and what is left.

## 1. The system

| Component | Code | State | Operations |
|---|---|---|---|
| receive loop | `Client::input`, `ServerHandle::input`, `rtpOverRtsp`, `RtspRequest::read`, `RtspResponse::read` | `cache_`, `needMoreRtspMessage_` | append a chunk, cut packets and messages off the front, keep the rest |
| `ServerHandle` | `Rtsp2Server.cpp`, `Rtsp2Server.h` | `sessionId_`, `authParam_`, `pipelineReqests_`, `currentReq_`, `prePipeRequest_` | `handleRequest`, `handleResponse`, `sendResponse`, `sendRtspMessage`, `notifyClient`, `sendRtpRtcp` |
| `Client` | `Rtsp2Client.cpp`, `Rtsp2Client.h` | `auth_`, `needAuth_`, `cseq_`, `sessionId_`, `sdp_`, `isAggregate_`, `mediaStep_`, `transports_`, `setupIter_`, `pipelinedRequestId_`, `pipelines_` | the request calls (`options` ... `teardown`), `startPipeline`, `stopPipeline`, the dispatch of responses, the repetition after 401 |
| `Authenticate` | `Rtsp2Authenticate.cpp` | the fields of a challenge or credential | parse, generate, `makeResponse` |
| `Sdp`, `Transport`, message, header fields, `Url` | `Rtsp2Sdp.cpp`, `Rtsp2Transport.cpp`, `Rtsp2Message.cpp`, `Rtsp2Request.cpp`, `Rtsp2Response.cpp`, `Rtsp2HeadField.cpp`, `Rtsp2Url.cpp` | none | parsers and formatters |
| utility | `Rtsp2Utility.cpp` | `MD5`: `cache_`, `total_`, `state_`; a static random distribution | MD5, Base64, clock, strings, random numbers |
| asio examples | `example/rtsp_v1_client_pipiline_asio.cpp`, `..._client_push_asio.cpp`, `..._push_server_asio.cpp` | `sendLists_`, the socket; the push server's transports and `sdp_` | `OnOutput` / `send`, `do_write`, `stop`; the push server's handlers |
| pull server | `example/rtsp_v1_server_use_libuv.cpp` | `sendList`, `writeInProgress`, `startPlay`, `teardown`, two `uv_async_t`, one `uv_write_t`, `playThread` | the virtual handlers, `send`, `close`, the callbacks of libuv, the sender thread |
| media source and packer | `example/h264meidasource.h`, `example/rtp_h264_packer.cpp` | `buf_`, `offset_`, `seq` | `GetNextFrame`, `pack` |
| `RtpPacket` | `example/RtpPacket.cpp` | none | a codec that no program calls |
| http-parser | a submodule, absent from the repository | a parser's state | splits one message |

How they interact. The application calls `input()`, which calls
`handleRequest` / `handleResponse`; these call the application's callbacks (the
client) or virtual handlers (the server), *from inside `input()`*, and the
client's callbacks normally call the request API again. A request call writes
to `out_` before it returns. So in the library there is one thread per
connection, and what is hard is not preemption but re-entrancy and order. The
pull server is the exception: its loop thread and its `playThread` share a
queue, two flags and the end of the session.

* **chunks**: TCP delivers any prefix of anything; a packet of four header
  bytes, a message, or several of both may be cut anywhere or arrive together;
* **matching**: the client recognises a response by the request it sent *last*
  (`auth_.method`), or by CSeq when the response has a `Pipelined-Requests`
  header; the server remembers its last own request only (`currentReq_`);
* **walks**: SETUP, and without aggregate control PLAY, RECORD, PAUSE and
  TEARDOWN, go through the media one response at a time, with iterators and
  indices (`setupIter_`, `mediaStep_`) that outlive the call that set them;
* **late answers**: a server handler returns non-zero and the application
  answers later through `sendResponse`, which takes no request as argument;
* **credentials**: every 401 draws a new nonce, and the client repeats a
  request that it rebuilds from `auth_`;
* **queues**: a message is handed over while a write is under way, from a
  callback or from another thread; who starts the next write is decided by
  whether the list is empty (asio), or by a flag and merged wake-ups (libuv);
* **ends**: a session may be closed from four places in two threads, with a
  write pending, and is deleted under a thread that uses it;
* **failure**: a refused request, a missing header, or an error or exception
  out of `input()` has to end in something that the application sees.

What makes each component correct:

* receive loop: no byte is lost or repeated, units reach the handlers in order
  and once, and as soon as they are complete;
* `ServerHandle`: every request is answered exactly once, now or later; late
  responses go out in order; a handler only sees a request that passed the
  credential and the session test; the client is told of one session, always;
  a response of the client reaches the handler of the request it answers;
* `Client`: a response reaches the callback of its own request; at most one
  request is open unless pipelining; every medium is set up before the stream
  starts; the walks visit every medium and stay inside the containers; the
  flow ends;
* `Sdp`: what a description says of a medium is attributed to it, and every
  medium gets a URL of its own;
* both together: the password decides, both sides mean the same session, and a
  packet reaches the medium for which it was sent;
* send queues: messages go out in the order in which they were handed over,
  each once, and none is left behind while the connection lasts;
* pull server: the session ends, after its thread;
* source and packer: every unit of the file arrives whole, its fragments meet;
* MD5: what is digested depends on the content and not on how it is cut, as long
  as its integers are wide enough;
* codecs: parsing inverts formatting, and terminates.

The hazards, each at its line and with the properties aimed at it, are listed
in `PROJECT.json` under `hazards`.

## 2. Modules

| Module | Models | Abstract specification |
|---|---|---|
| `Stream` | the bytes a peer writes: positions, unit starts and lengths | |
| `Deframer` | | what a receiver promises |
| `Framing` | the two receive loops, one of them per behaviour (`side`) | `Deframer` |
| `FramingProofs` | theorems about `Framing` | |
| `RequestReply` | | what a server promises a connection |
| `RtspServer` | `ServerHandle` behind the receive loop | `RequestReply` |
| `RtspServerProofs` | theorems about `RtspServer` | |
| `RtspClient` | `Client` behind the receive loop, the application of the README and the examples, a peer | |
| `RtspClientProofs` | theorems about `RtspClient` | |
| `Sdp` | `parser` of a description and `Client::processSdp` | |
| `SdpProofs` | theorems about `Sdp` | |
| `Authenticate` | challenges and credentials, `verifyAuthParams` | |
| `Transport` | the Transport header, both ways | |
| `RtspLink` | `Client` and `ServerHandle` on one connection; uses the two above | |
| `RtspLinkProofs` | theorems about `RtspLink`, and lemmas about `Authenticate` | |
| `Outbox` | | what a send queue promises |
| `AsioWriter` | the send queue of the asio examples | `Outbox` |
| `PullServer` | a session of the pull server: loop thread, `playThread`, libuv | `Outbox` |
| `PullSession` | the asio client's queue and the pull server on one connection; uses the two above | |
| `PullSessionProofs` | theorems about the three | |
| `H264Sender` | `GetNextFrame` and `pack` | |
| `H264Proofs` | theorems about `H264Sender` | |
| `MD5` | `MD5::sum`, `final`, `reset` up to the blocks given to `processChunk` | RFC 1321, as an operator |
| `MD5Proofs` | theorems about `MD5` | |
| `MC...` | constants for TLC | |

### Framing

A byte is known by its position in the stream, so "lost", "repeated" and
"reordered" are visible, and what parsers look at is reduced to which positions
begin a unit and how long the unit is. http-parser is an oracle: `MessageRead`
returns 0 before the whole message is there, its length afterwards, and a
negative number when the bytes do not begin a message. One turn of the loop is
one step:

| Action | Code |
|---|---|
| `Input(n)` | entry of `input()`: the chunk is appended to `cache_`, or used in place when `cache_` is empty |
| `CutPacket`, `PartialPacket` | `*p == '$'` and not `needMoreRtspMessage_`: `rtpOverRtsp` |
| `CutMessage`, `PartialMessage` | `read` of a request or a response |
| `Failed` | the returns of an error, which leave `cache_` alone |
| `Return` | the epilogue that saves the rest in `cache_` |

`side` is chosen in `Init`: the client's loop breaks after a message, the
server's goes on. `p` and `len` are the code's; `Buffer` is what `p` points into.
After an error return the connection is closed, as the example clients do; the
model does not call `input()` again.

### RtspServer

One call of `handleRequest`, `handleResponse`, `sendResponse` or
`sendRtspMessage` is one step, because `input()` is one call and the virtual
handlers return before anything else happens. The exits of `handleRequest` are
the disjuncts of `HandleRequest`:

| Action | Code |
|---|---|
| `Challenge` | the 401 exit: `authParam_` is replaced |
| `RejectSession` | the two 454 exits |
| `RefuseTransport` | `replaySetup` without a Transport header: 461 |
| `Answer` | the handler returned 0; for SETUP, `createSessionId` on success |
| `Defer` | the handler returned non-zero: the request moves to `pipelineReqests_` |
| `SendResponse` | `sendResponse`: the front of `pipelineReqests_` is answered |
| `SendRtspMessage` | `sendRtspMessage`, also through `notifyClient` |
| `HandleResponse` | `handleResponse`: the handler is chosen by `currentReq_` |

What the derived class decides (status, answer now or later, the id that
`createSessionId` returns) and what the client sends (method, Session,
credentials, Pipelined-Requests, Transport) is left open. A credential is
abstracted to the challenge whose nonce it uses; `Verify` translates
`verifyAuthParams`, with the scheme test that makes everything fail before the
first challenge. `prePipeRequest_` is never filled by the code, so the session
test does not mention it. Request *n* is given CSeq *n*: the code copies CSeq
and never reads it. `sendRtpRtcp` changes no state.

`handled`, `replies` and `dispatched` are histories. They, and the fields
`method` and `late` of a reply, exist for the properties only.

### RtspClient

A callback re-enters the API, so the client's handling of a response is three
kinds of steps: `Receive` (inside `HandleResponse`) up to the callback, one
`ApiCall` for each call the callback makes (`todo`), and `Return`, what the
handler does after it (`handleSetupResponse` advances `setupIter_` and sends
the next SETUP). `pc = "app"` is the application's code, "closed" an error of
`input()`, "threw" an exception out of it, and "undefined" an access outside a
container.

The application is the one of `src/README.md` and of the example clients:
OPTIONS, then DESCRIBE (or ANNOUNCE when pushing), SETUP of all media, PLAY (or
RECORD) when all were set up; with pipelining, SETUP and PLAY from the DESCRIBE
callback; then calls of the user while the stream plays. `Script` is that
program. The examples test the status of a SETUP and of nothing else
(`src/example/rtsp_v1_client_pipiline_asio.cpp:104-154`), so `Script` goes on
after OPTIONS, DESCRIBE or ANNOUNCE whatever the answer was; the application of
`src/README.md:67-85` tests every status, so after a failure `MayCall` also has
the one that makes no call. Where a description was refused there are no media:
`setup` with no transports does nothing (`SetupNothing`), and what becomes of
`play` is the exception of `StaysDefined`. The peer behaves as `ServerHandle`: it may challenge (`policy` is the
set of methods for which it does), it compares Session, copies the
Pipelined-Requests header, and may refuse. The variables `pipelining`,
`policy`, `rightPassword`, `aggregate` and `pushing` are chosen once, in
`Init`, from the constants `Pipelining`, `Policies` and `Aggregates`;
`RefuseSetup` says with which value of `pipelining` a SETUP may be refused.

Details that are kept because properties depend on them: the repeated request
after 401 carries only what `handleUnAuth` puts in it (no Session, no
Transport, no Pipelined-Requests); its CSeq is assigned as a `char`, which the
model keeps apart from the decimal ones as a negative number; `auth_.uri` is
only moved by the calls that look up a medium; `mediaStep_` is never reset;
`isAggregate_` is never cleared.

Left out: the overloads for one medium when the application calls them,
answers to requests of the server and `pushInterleavedBinaryData` (see `RtspLink`; both change
no state), several media of one name, and the branches that this application
with this peer cannot reach (a pipelined DESCRIBE, a pipelined request that is challenged or meets 454, a
CSeq that is not found).

### Sdp

One line is one step. A line is what the two functions tell apart: an
attribute, `a=control`, `m=`, an `m=` with `<port>/<number of ports>`, one with
a number that `std::stoi` rejects, and any other. `lines` is a history;
`session` and `media` are the two parts of the description. A URL is a sequence
of names and slashes, because everything in `processSdp` is about the slash
between two parts.

| Action | Code |
|---|---|
| `ReadAttribute`, `ReadControl` | `parserAttr`: into the last medium, or the session |
| `ReadMedia` | `mediaProcess++`, a new `MediaDescription` |
| `ReadPorts` | the loop in `Media::parser` that increments its bound: "looping" |
| `ReadBad` | the exception of `std::stoi`: "threw" |
| `EndOfText` | the end of `readLines` |
| `ResolveSession` | lines 693-708 of `processSdp`: `*`, a relative or an absolute URL, or none |
| `InheritUrl`, `KeepUrl`, `ResolveUrl` | the three cases for a medium |

`isAggregate_` starts with either value, as it may be left over from an earlier
description. The assertion that media without a control URL are single stops
the builds that have it ("aborted"); both builds are explored. The two URL
properties exclude the leftover (`Stale`), with which `processSdp` joins to an
empty session URL; that is a listed hazard.

### Authenticate, Transport, RtspLink

`Authenticate` and `Transport` have no state: they translate the two codecs
into functions from keys to values, with what each header leaves out, and with
what a reader keeps when it is left out. A digest is the tuple of what is
hashed. `RtspLink` puts client and server on one connection and passes these
headers between them, so that nonce, realm, session and channels are those that
the other side really wrote.

| Action | Code |
|---|---|
| `HandleRequest` | `ServerHandle::handleRequest` with its exits, as in `RtspServer`; handlers answer at once |
| `SendRtpRtcp` | the pull server's application sends a packet on a channel of a medium that was set up |
| `PushPacket` | `pushInterleavedBinaryData` of the push client, on the channels it asked for |
| `HandleRtp` | `handleRtp` of the push server, which looks the channel up in its transports |
| `Input` | `Client::input` is called with any number of units that are on their way |
| `CutPacket` | a packet: the first of `transports_` with its channel gets it |
| `CutMessage` | a message, its handler, the callback and the requests that it makes; the loop ends |
| `EndOfChunk` | nothing is left |

The callbacks are those of the example clients. `world` is chosen once: the
direction (`push`), the scheme (none, Basic or Digest), whether the password is
right, whether the client pipelines, whether it greets with OPTIONS or begins
with the description, and what `handleSetup` does with the transport it is
asked for: keep it (as the push server), count up channels (as the pull
server), or refuse. The push server attributes a SETUP to the first announced
medium whose control is part of the URL; in a `nested` world the control of the
first medium is part of every URL (`trackID=1` and `trackID=10`).

### Outbox, AsioWriter, PullServer, PullSession

`Outbox` is a queue on a connection that may break: accept, write the front,
break and lose the rest. `AsioWriter` and `PullServer` each map their queue to
it without the message that the kernel has already passed on but whose
completion handler has not run (`Waiting`, `ToWrite`).

| Action of `AsioWriter` | Code (`rtsp_v1_client_pipiline_asio.cpp`, and the like in the other two) |
|---|---|
| `Send` | `OnOutput` / `send`: push, and `do_write` if the list was empty |
| `Transmit`, `Lose` | the kernel takes the front, or the connection is lost under it |
| `OnWritten`, `OnWriteFailed` | the completion handler of `async_write`: pop and go on, or `stop()` |
| `Stop` | `stop()`: the socket is closed, a write that is pending is aborted |

In `PullServer` one step is a critical section, a call of libuv, or a stretch of
code that looks at nothing the other thread writes. `send()` is therefore two
steps in either thread, pushing and signalling.

| Action of `PullServer` | Code (`rtsp_v1_server_use_libuv.cpp`) |
|---|---|
| `Read(r)` | `doRead` and the handler: `handlePlay` starts the thread, `handlePause`, `handleTearDown` set a flag |
| `Respond`, `SignalResponse` | `send` of the answer in the loop thread |
| `ReadFailed` | `doRead` with an error: `close()` |
| `StartTcpWrite` | the callback of `write_async` |
| `OnTcpWrite` | the callback of `uv_write`: pop, write the next or clear `writeInProgress`; `close()` on an error |
| `Transmit`, `FailWrite`, `Reset` | the kernel and the peer |
| `CloseTcp`, `OnClosed`, `Joined` | the callback of `close_async`, the close callback up to `join()`, and the `delete` behind it |
| `Check` ... `EndPlayer` | `playThread`: the wait, `teardown`, the next frame, `startPlay`, its packets, PLAY_NOTIFY at the end of the file, `close()` |

libuv is modelled from its use and marked external: `uv_async_send` is
remembered and not counted, callbacks run one at a time, `uv_close` lets a
pending write complete with an error before the close callback. The accesses
to `startPlay` and `teardown` without a lock are taken as atomic. "terminated"
is `std::terminate` over a joinable thread.

`PullSession` connects the two: requests that the client's kernel has passed on
are in `toServer` until the server reads them. `Scripts` is what the user asks
for; what the messages say is the subject of `RtspLink`.

### H264Sender

A byte is known by its position; the file is a sequence of numbers of which
the scanner tells 0, 1 and others apart. `GetNextFrame` finds the next start
code and the end of its frame, with the scan that gives up five bytes before
the end. `Single`, `FirstFragment`, `MiddleFragment` and `LastFragment` are one
packet each of `pack`, and `NothingLeft` the end of its loop without one. A
packet is what it says of itself: the positions it carries, the start and the
end bit, the sequence number. `Units` is the reference: the units of the byte
stream format, independent of the code's scan.

### MD5

As in `Framing`, a byte of the content is known by its position, and the bytes
that `final()` appends by what they are for. `chunks` is all that was given to
`processChunk`, of which the digest is a function; the rounds are not computed.
`SumBytes` keeps the two peculiarities of `sum()`: the length that decides how
many blocks are processed is that of the new data although `cache_` stands in
front of it, and `final()` hands `cache_` to `sum()` as new data behind itself.
Widths are those of the code: `total_` has 64 bits; `length` and `i` in `sum()`
have 32, so from 2^32 - 64 on the loop runs past the message and does not end
(`pc = "runaway"`), and of a longer piece only what is left modulo 2^32 is seen.
The last byte of the length is `total_ >> 52`, as in the code, and that of RFC
1321 in `RfcMessage`, the reference. The module has no constants, and its
numbers are beyond TLC, so there is no run of it, only theorems: of `Spec` for
pieces of any length, and of `SpecWithin` for those that fit: a piece, and what
`final()` hands to `sum()`, below 2^32 - 64 bytes, and a content below 2^49.

## 3. What TLC checks

| Run | Shows |
|---|---|
| `framing_loops` | all chunkings, both loops, all error returns: `NoByteLost`, `InOrderDelivery`, `AlignedReads`, and `Deframer` is implemented: whenever the server's loop asks for more, every complete unit has been handled |
| `framing_coalesced` | *violated*: `EveryUnitDelivered`, finding 1 |
| `server_session` | a connection with Digest, pipelining, late responses and server requests: seven properties |
| `server_deferred_setup` | *violated*: `SetupOpensSession`, finding 2 |
| `client_flow` | the flow with and without pipelining, challenges and refusals anywhere, answers in any order: nine properties |
| `client_keepalive` | *violated*: `AnswersMatched` when a keep-alive overlaps a request, finding 3 |
| `client_second_walk` | *violated*: `WalkInBounds`, finding 4 |
| `client_refused_setup` | *violated*: `RefusalReported`, finding 5 |
| `sdp` | every description of up to five lines: `SectionsKept`, `UrlsResolved`, `MediaToldApart` |
| `link` | all worlds, playing and pushing: `PacketsToTheirMedium`, `SecretDecides`, `SessionAgreed`, `FlowEnds` |
| `pull_session` | both threads, both sockets, a connection that may be lost at any point: `WriteOwnsFront`, `WakeupPending`, `ThreadEndsFirst`, `SessionEnds`, and both queues implement `Outbox` with its liveness (`SendsAll`, `RequestsSent`) |
| `h264_sender` | every file of up to ten bytes: `FragmentsMeet`, `UnitsArrive`, `Advances` |

Every property of a passing run has a mutant under `mutants` in `PROJECT.json`:
a definition such as `KeepNothing` or `ParserNoNonce`, which no module uses,
stands before the one it imitates and differs from it as a plausible bug in the
code would. With it in that place TLC finds the property violated.

**Bounds, and why they are enough.**
*Framing*: 22 bytes in seven units. Every ordered pair of kinds of
neighbours (packet-packet, packet-message, message-packet, message-message)
occurs; there is a packet with no payload, one whose payload can be cut, and a
message of one byte; and every cut of the stream into chunks is explored,
among them cuts inside the four header bytes. Longer units add positions of
the same kinds; for any stream the theorems apply.
*RtspServer*: three requests (one to open the session or be challenged, one to
be deferred, one to overtake it), two session ids (the right one and a foreign
one), two server requests, one open at a time. Again the theorems remove the
bounds. `MaxOutstanding = 1` is not a bound but a condition:
`ResponseReachesHandler` is false with two open server requests, and the
property says so.
*RtspClient*: two media, the least at which a walk has a middle and an end;
two calls of the user; one value of `randomInt`, since only its sign matters.
`DrawnIds` leaves out 0, which `randomInt(65535)` may return and which means
"not pipelining" (a listed hazard). When pipelining no SETUP is refused in
`client_flow` (finding 5 is about that), and DESCRIBE or everything is
challenged, or nothing: a challenge of SETUP only would make the pipelined
requests fail together, see the hazards for `pipelines_`. Without pipelining the
theorems remove the bounds.
*Sdp*: five lines, enough for a session section and two media with a control
URL or an attribute each; `parser` keeps no other state than the last section,
and `processSdp` treats media one after the other. Control URLs are empty, `*`,
relative, relative with a slash in front, absolute, absolute with a slash
behind; bases have a final slash or none. Names below the base are distinct.
*RtspLink*: two media, in the order in which the channels the client asks for
(2-3 for audio, 0-1 for video) and those that a counting server assigns cross
over, so that a stale table gives a packet to the wrong medium and not to none;
three packets, so that some are before, between and behind responses of one
chunk. The connection holds every request, so its bound is the length of the
flow. `PacketsToTheirMedium` has three exceptions, each a listed hazard, where
packets do go astray: pipelining with a counting server (the responses to
pipelined SETUPs do not update `transports_`), nested controls, and an ANNOUNCE
that is itself challenged (its repetition has no body).
*PullSession*: two packets, so that one can wait behind another, behind an
answer and behind PLAY_NOTIFY, and the list can run empty in between; scripts of
two requests, among them those that end the thread, pause it, and start it
twice. The queue is never longer than both threads make it; no code looks at
its length other than whether it is empty.
*H264Sender*: ten bytes over an alphabet of three with payloads of two bytes
hold two units with a short and a long start code between them, and units with
a first, two middle and a last fragment; numbers wrap after four packets.

**Fairness.** `Framing`: `input()` runs to completion, and the network delivers
what was written; hence weak fairness of the loop and of `Input`. `RtspServer`:
the application answers what it deferred (`Rtsp2Server.h:43`,
`README.md:189-193`); hence weak fairness of `SendResponse` and of nothing
else, so that a client may stop at any point. `RtspClient`: callbacks return,
and the peer answers what it is asked; hence weak fairness of the client's own
steps and of `HandleResponse`. `RtspLink`: both sides are given what arrives,
and `input()` runs to its end; hence weak fairness of `HandleRequest` and
`HandleRtp`, `Input` and the steps of the loop, and none of `SendRtpRtcp` or
`PushPacket`. `PullSession`: an event loop gets round to every callback that is
due, a thread that can run does, and peers take what is sent to them; hence
weak fairness of each callback of the loop, of `playThread` as a whole, of the
kernel's part and of the client's handlers, and none of `Reset`, `ClientStop`,
`ReadEnd` or the user. `ReadEnd` needs none because `SessionEnds` speaks of
sessions that were told to end, by `close()` or by TEARDOWN. `FlowEnds` is stated
without pipelining: with it, the responses behind the first wait in `cache_`
for bytes that may never come (finding 1). No property relies on the user calling, on a
particular answer, or on a particular order of answers.

Deadlock is checked in every run: the states in which the system may stop are
the explicit `Closed`, `Done` and `Quiet` steps, so that an early return that
leaves both sides waiting in any other way would be reported.

## 4. What is proved

`FramingProofs`, for every stream that satisfies `StreamAssumption` (units
back to back, a packet at least its four header bytes), every chunking and
both loops:

* `TypeCorrect`, `InOrder`, `Conservation`, `Alignment`;
* `LoopsImplementDeframer`: both loops refine `Deframer` (the safety part; that
  the server's eventually delivers is left to TLC).

The inductive invariant `IInv` says where the loop is in the stream: the
buffer, and `cache_` between calls, are consecutive positions that end at
`arrived`, of which the last `len` are those after the last delivered unit.
`NoByteLost` alone is not inductive, because it does not say what lies before
`p` in the buffer, which `Return` cuts off, nor that the chunk follows
`cache_`. A cut moves `p` by the length of the unit, and by `StreamAssumption`
to the start of another unit (`CutPoint`), which is why the parsers never fail
on a correct stream. For the refinement, `Prompt` adds that between calls no
complete unit is left; it holds for the server and not for the client.

`RtspServerProofs`, for every client, every choice of the handlers, all sets of
methods, sessions and ids and every bound that satisfy `ServerAssumption`:

* `TypeCorrect`, `NoneLostNoneTwice`, `LateAnswersInOrder`, `OneSession`;
* `GatesHold`: the action property `HandlersSeeAdmitted`;
* `ResponsesDispatched`, with the assumption `MaxOutstanding <= 1`;
* `ServerRefinesRequestReply` (the safety part).

`HandleFacts` reduces the exits of `handleRequest` to two: the request is
answered (`Answers`) or kept (`Keeps`); the other lemmas never look at the
exits again. `AnsweredOnce` and `LateInOrder` need each other (a late response
takes the front of the queue, and only the order of the queue says that the
response is new and the last). `SessionSticky` and `HandlersSeeAdmitted` speak
of what the client was told, the code of `sessionId_` and `authParam_`; `Told`
relates the two: every announced session is `sessionId_`, and the last
challenge sent is `authParam_`. `OneOpen` says that an open server request is
the one in `currentReq_`.

`RtspClientProofs`, for every number of media, both kinds of control, every
policy and every choice of the peer, under the assumptions `~Overlap` and
`~SecondWalk`, whose negations are findings 3 and 4. For a client that does not
pipeline:

* `LockstepTypeCorrect`, `LockstepOneAtATime`, `LockstepAnswersMatched`,
  `LockstepStaysDefined`;
* `StreamAlwaysAfterSetup`, `LockstepWalkVisitsEach`.

None of the first four is inductive. That a response reaches its callback depends on
`auth_.method` and `auth_.uri` describing the one open request (`LastIsOpen`).
That there is only one depends on whose turn it is to send: the callback's
call, the handler after it (`then`), or the user, never two of them (`Turn`).
And that the handler of the last SETUP sends nothing while the callback has
sent PLAY depends on the position in the flow: `setupIter_` counts with the
application's callbacks, `mediaStep_` is 0 until the stream starts, `medias`
is known once the description was accepted (`Phase`). With `StaysDefined` and
the matching itself they are inductive together (`Lockstep`). For the other two,
`Flow` says of each phase for which media a SETUP, a PLAY or a RECORD was sent:
none before the description is known, the first `setups` of them while
`setupIter_` advances, all of them afterwards, and of the walk exactly those
before `mediaStep_`, or that one was refused and nothing follows.

Pipelining or not, under one more assumption on the peer, `PipelinedPeer`:

* `TypeCorrect`, `AnswersAlwaysMatched`, `AlwaysStaysDefined`,
  `PipelineAlwaysMatches`, `WalkAlwaysVisitsEach`.

`PipelinedPeer` leaves out what is known to go wrong, and a server that is not
this one: the drawn id is not 0 (a hazard: pipelining is off, and nothing after
the first SETUP is sent), no pipelined SETUP is refused (finding 5), and who
challenges a pipelined request has challenged OPTIONS before, as `ServerHandle`
does, whose gate looks at `needAuth_` and never at the method. A pipelining
client is first as good as one in lockstep (`Single`), sends all its SETUPs and
the first PLAY or RECORD in the callbacks of one response (`Starting`), and then
only loses requests (`Draining`); or its description was refused and it goes on
without media (`Misled`): `startPipeline` and `setup` then send nothing, and
`play` or `record` ends in the access that `StaysDefined` names. While draining,
the requests in `pipelines_` are those that are open, whatever order the peer answers in, and no two have the
same CSeq, so the search by CSeq finds the request that was answered, and
`erase` removes that one. `Launched` adds that the requests that start media
all go out in that one step, which is why none goes out twice.

`PullSessionProofs`, for every bound, every script, and every interleaving of
threads, callbacks and failures:

* `TypeCorrect`, `FrontIsWritten`, `NoLostWakeup`, `JoinedBeforeDelete`;
* `ServerImplementsOutbox` and `RequestsInOrder`: both queues refine `Outbox`
  (the safety part), the client's by `WriterImplementsOutbox`, which is about
  the asio queue alone.

`WakeupPending` needs `WriteOwnsFront`: that `on_tcp_write` may find the list
empty and clear the flag is harmless only because a running write has it set.
`ThreadEndsFirst` needs `PlayerPlayed` (there is a thread only after a PLAY). For the asio queue the
invariant supplies the flag that the code does without: a write is under way
exactly as long as the list is not empty, until the socket is closed
(`QueueIsFlag`), and nothing is given to a closed socket (`NoWriteAfterStop`).

`H264Proofs`, for every file, payload size and modulus: `SenderTypeCorrect` (no
position behind the end of the file), `FragmentsAlwaysMeet`, `SenderAdvances`
and `UnitsAlwaysArrive`. The invariant adds that what is left of a unit ends where
its frame ends (`RestOfFrame`), and that the packet before is the fragment that
ends at `p` (`Resumes`). For the units, the scan is related to the byte stream
format, which knows prefixes and nothing of scans: a scan that begins where it
cuts no code (`Clean`) finds the first prefix behind its begin, with the zero
before it (`ScanFinds`), it may miss only those that `UnitsArrive` leaves out
(`ScanFindsNone`), and the places where `GetNextFrame` scans cut none, which is
why it may begin three bytes into a code of four (`ScansClean`, `CodesApart`). A
frame then ends where the unit does (`FrameIsUnit`), and the units received are
those whose prefix was passed, but for the one that is packed and those of
`MaxPayload + 1` bytes (`UInv`).

`RtspLinkProofs`, for any number of media, all transports, schemes and grants
and any number of packets: `SecretAlwaysDecides`, `SessionAlwaysAgreed`,
`TypeAlwaysCorrect` and `PacketsAlwaysReachTheirMedium`. `SecretDecides` counts
challenges, and says nothing of why there is no further one. The invariant names
the phases of a connection that asks for credentials: the first request is open
(`Asked`), its 401 is on the way (`Challenged`), and then either everything sent
carries credentials that `verifyAuthParams` accepts and no 401 is on the way
(`Trusted`), or the one repetition, its 401, and silence (`Retried`, `Reported`,
`Ended`). Before the first success nobody sends packets (`NoPackets`), so in the
other phases one unit at most is on the connection. `RightVerified` and
`WrongRejected` are the lemmas about the codec: what `Credentials` writes is
accepted for the same password and for no other, after `GenAuthInfo` and
`parser` have carried the rest (`ChallengeRead`). MD5 and Base64 are taken as
injective, and nonces as never repeated within a connection.

That both sides agree on the session is a matter of what is on the connection.
The server's is made once, so what carries a session carries that one (`Known`,
`Answers`), and behind a response with a session all have one. Without
pipelining at most one request or response is on its way (`Alone`), and it
carries the server's session, which the client lacks only while the SETUP that
made it is answered. In a batch (`Together`) requests leave before the client
knows of a session, but all of them are pipelined, and the gate lets those pass
without one.

The types are no matter of course either: that the client stays within its list
of transports, and that the server hands out channels for at most `NMedia`
SETUPs, holds because the walk over the media asks for one after the other
(`Walk`) and the requests on their way are in that order, all for media that the
server was not asked for before (`InTurn`). A SETUP that is repeated after a 401
has no Transport header and is not counted.

That packets reach their medium is proved under `OffersAssumption`: the
application asks for interleaved transports, as the examples do, and for no
channel twice. Without it the property is false, since two media that were
offered the same channels cannot be told apart. Every medium then has one pair
of channels, offered or counted by the server (`Chan`), no two media share one
(`ChannelsApart`), and the invariant `PInv` says how both sides come to use them.
What the server grants is that pair (`Fits`), because every SETUP on its way
carries the offer (`Requests`) and, where the server counts, comes in the order
of the media. What the client takes over is that pair, because without
pipelining the response on its way answers the SETUP of `setupIter` (`Replies`).
No packet is sent before all media are granted or, to the client, before it has
walked over all of them: a PLAY or RECORD leaves only then (`Ready`), and a
client that pushes does not play before. In a batch the PLAY is sent with the
SETUPs, so that it is answered at all says nothing; there, every medium is
granted, still asked for, or its refusal is still to be read (`Settled`), the
answers come in the order of the requests (`Queued`), and the refusal is read
before the answer to RECORD, which ends the client (finding 5). The three
exceptions (`Clear`) are where this fails. `HeaderEchoed` is about the codec
alone, for every transport: what is read from a Transport header and written
again is that header, whatever the first writing lost (a destination, ports that
are 0, the ports of a TCP transport).

`SdpProofs`, for descriptions of any length, any number of media, and control
URLs of any form: `TypeCorrect`, `SectionsAlwaysKept`, `UrlsAlwaysResolved` and
`MediaAlwaysToldApart`. What a section means is defined by the lines alone, as
the values of the n-th line of a kind in it, with no reference to the parser.
`NthRank` and `NthAppend` say that the n-th of a finite set of line numbers
exists and that a further line is the last and moves no other; `SectionNext`,
that reading a line appends its value to one section and leaves all others. So
the descriptions equal the sections after every line (`Parsed`, `Unresolved`).
In `processSdp`, `Made` is the URL that a control URL stands for, in terms of
the description only, and the invariant (`Resolved`) that every resolved medium
has it: the base that was stripped for an earlier medium is not stripped again
(`StrippedFacts`). `JoinFacts` and `JoinOne` are the rest: what is joined begins
with the one, ends with the other, doubles no slash, and only one path leads to
it. Nothing is assumed of the control URLs. The base is taken to be an absolute
URL in order, although a Content-Base or Content-Location comes from the peer.

`MD5Proofs`, for every content below 2^49 bytes, in any pieces below 2^32 - 64
(`SpecWithin`; the first theorem for `Spec`, that is for pieces of any length):

* `MD5TypeCorrect`: `processChunk` is given whole blocks only, until a call runs
  away;
* `PiecesKept`: no call runs away, and no byte is lost between `chunks` and
  `cache_`;
* `DigestsAgree`: the blocks are those of RFC 1321, unless the length is 56
  modulo 64;
* `NoPaddingAt56`: what is digested in that case, see below;
* `BoundsAreNeeded`: beyond either bound it is otherwise. A first piece of 2^32
  bytes is forgotten, one of 2^32 - 64 runs away, and from 2^52 bits on the last
  byte of the length is another. The library's own calls stay far below the
  first bound: it digests header fields, and files in pieces of 32 kB.

Only model-checked: liveness (`AllAnswered`, `EveryUnitDelivered`,
`FlowCompletes`, `PipelineDrains`, `FlowEnds`, `SessionEnds`, and the fair parts
of `Deframer`, `RequestReply` and `Outbox`), which is out of the prover's reach;
and of the pipelining client, what it does with a peer outside `PipelinedPeer`.

## 5. Findings

1. `Client::input` leaves its loop after one message. Whatever arrived in the
   same chunk behind it stays in `cache_` until more bytes come, which may be
   never: pipelined responses usually arrive together.
2. A SETUP whose handler answers later never opens a session: `replaySetup`
   returns before `createSessionId`, and `sendResponse` does not make up for it.
3. Without pipelining, a response goes to the callback of the request sent
   *last*. A keep-alive `getParmeters` that overlaps a request swaps callbacks.
4. `mediaStep_` is never reset: without aggregate control, the `teardown()` or
   `pause()` after a completed `play()` reads behind the last medium.
5. A refused pipelined SETUP has no Transport header, so `input()` throws
   `std::invalid_argument` instead of calling the SETUP callback.

Each is a run that TLC finds violated, and an entry of `findings` that quotes
the statement it contradicts. One more is a theorem instead of a run:

6. `MD5::final` appends `56 - least` bytes below 56 and `120 - least` above
   (`Rtsp2Utility.cpp:512-519`), and nothing at 56, where RFC 1321 asks for a
   block (`NoPaddingAt56`). A DESCRIBE of a URL of 47 characters is such a
   content: both sides of this library agree on its digest, and no other
   implementation does.

The exceptions that properties name are further deviations, all of them listed
under `hazards`: a unit of 1401 bytes and a start code in the last bytes
(`UnitsArrive`), a second PLAY (`ThreadEndsFirst`), nested controls and a
challenged ANNOUNCE (`PacketsToTheirMedium`), a leftover `isAggregate_` (`Stale`),
and the DESCRIBE callback of the pipelining example, which goes on after a
refusal: `play()` then indexes a list of no media (`Rtsp2Client.cpp:247`,
`StaysDefined`).

## 6. Not modelled, and the plan

Next, in this order:

1. **A wider `RtspLink`**: late answers and server requests over the same
   connection, a player without aggregate control, TEARDOWN; and a second
   description in `Sdp`.
2. **Header fields**: the session id with a timeout, RTP-Info and the times of
   Range as functions against reference definitions. Nothing in the library
   calls them but the session id's parser.

Left out of the models of the examples, and known: the `uv_async_t` of a
session are never closed and lie in memory that is freed; the accesses to
`startPlay`, `teardown` and `currentReq_` from two threads are data races in
the memory model; the wait of 40 ms stands for the order of the PLAY answer
and the first packet, and nothing enforces it; the answer to TEARDOWN may be
lost if it is still queued behind packets when `playThread` closes the session
(`rtsp_v1_server_use_libuv.cpp:228`), and nothing promises it; the libuv client asks `uv_is_active` of a write request.

Not planned: the rounds of MD5, Base64, `Url` (one regular expression),
`RtspErr`, `RtpPacket` (which no program calls), connecting and accepting (pure
I/O), and http-parser, whose code is not in the repository.
