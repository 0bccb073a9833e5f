-------------------------------- MODULE Sdp ---------------------------------
(***************************************************************************)
(* A session description on its way into the client: parser (Rtsp2Sdp.cpp) *)
(* reads it line by line, then Client::processSdp (Rtsp2Client.cpp) makes  *)
(* the URLs that SETUP, PLAY, ... are sent to.  One line, and one URL, is  *)
(* one step.                                                               *)
(*                                                                         *)
(* A URL is a sequence of tokens: "/", names, and Root for the part up to  *)
(* the host; a URL is absolute when it begins with Root, and <<>> is the   *)
(* empty string.                                                           *)
(***************************************************************************)
EXTENDS Integers, Sequences, SequencesExt

CONSTANTS
    Root,              \* "rtsp://host:port"
    Bases,             \* what lookupBaseUrl may return
    RequestUrl,        \* auth_.uri
    Names,             \* media names
    Attributes,        \* attributes other than control
    SessionControls,   \* values of a=control before the first m= line
    MediaControls,     \* ... and after it
    MaxLines           \* bound: lines of a description

IsAbsoluteUrl(u) == u # <<>> /\ u[1] = Root
All == <<"*">>

\* Names and slashes alternate.
NoEmptySegment(u) == \A i \in DOMAIN u : (u[i] = "/") <=> (i % 2 = 0)
WellFormed(u) == IsAbsoluteUrl(u) /\ NoEmptySegment(u)

\* The control URLs of a description may be anything.  The request's URL is in order, and so,
\* which is assumed of the peer, are its Content-Base and Content-Location (Bases).
ASSUME SdpAssumption ==
    /\ Root \notin {"/", "*"} /\ MaxLines \in Nat
    /\ \A u \in Bases \cup SessionControls \cup MediaControls \cup {RequestUrl} : u \in Seq(Range(u))
    /\ \A u \in Bases \cup {RequestUrl} : WellFormed(u)

VARIABLES
    lines,         \* history: the lines read
    mediaProcess,  \* number of m= lines
    session,       \* sessionDescription: control URL and other attributes
    media,         \* mediaDescriptions: name, control URL, other attributes
    isAggregate,   \* isAggregate_
    base,          \* baseUrl
    resolved,      \* media whose URL is made
    pc             \* "lines", "session", "media", "done", or how it failed

vars == <<lines, mediaProcess, session, media, isAggregate, base, resolved, pc>>

\* Lines that matter here.  "other" stands for all that set a field of their
\* own or none; "bad" for one whose number std::stoi rejects; "ports" for an
\* m= line with <port>/<number of ports>.
Line ==
    [type : {"other", "bad", "ports"}, value : {<<>>}]
      \cup [type : {"attribute"}, value : Attributes]
      \cup [type : {"control"}, value : SessionControls \cup MediaControls]
      \cup [type : {"media"}, value : Names]

\* Any description; isAggregate_ may be left over from an earlier one.
Init ==
    /\ lines = <<>> /\ mediaProcess = 0
    /\ session = [control |-> <<>>, attrs |-> <<>>]
    /\ media = <<>>
    /\ isAggregate \in BOOLEAN /\ base \in Bases
    /\ resolved = 0 /\ pc = "lines"

-----------------------------------------------------------------------------
(* parser.                                                                 *)

Reads(l) ==
    /\ pc = "lines" /\ Len(lines) < MaxLines
    /\ lines' = Append(lines, l)
    /\ UNCHANGED <<isAggregate, base, resolved>>

ReadOther(l) ==
    /\ l.type = "other" /\ Reads(l)
    /\ UNCHANGED <<mediaProcess, session, media, pc>>

\* std::invalid_argument leaves parser, processSdp and input(), and what was
\* read is dropped.
ReadBad(l) ==
    /\ l.type = "bad" /\ Reads(l)
    /\ pc' = "threw"
    /\ UNCHANGED <<mediaProcess, session, media>>

\* for (int i = 0; i < pn; pn++) in Media::parser, until memory is full.
ReadPorts(l) ==
    /\ l.type = "ports" /\ Reads(l)
    /\ pc' = "looping"
    /\ UNCHANGED <<mediaProcess, session, media>>

CurrentFirst == IF mediaProcess > 0 THEN 1 ELSE 0
Current == mediaProcess

\* parserAttr: into the description of the last m= line, if there was one.
ReadAttribute(l) ==
    /\ l.type = "attribute" /\ Reads(l)
    /\ IF mediaProcess > 0
          THEN /\ media' = [media EXCEPT ![Current].attrs = Append(@, l.value)]
               /\ UNCHANGED session
          ELSE /\ session' = [session EXCEPT !.attrs = Append(@, l.value)]
               /\ UNCHANGED media
    /\ UNCHANGED <<mediaProcess, pc>>

ReadControl(l) ==
    /\ l.type = "control" /\ Reads(l)
    /\ IF mediaProcess > 0
          THEN /\ l.value \in MediaControls
               /\ media' = [media EXCEPT ![Current].control = l.value]
               /\ UNCHANGED session
          ELSE /\ l.value \in SessionControls
               /\ session' = [session EXCEPT !.control = l.value]
               /\ UNCHANGED media
    /\ UNCHANGED <<mediaProcess, pc>>

ReadMedia(l) ==
    /\ l.type = "media" /\ Reads(l)
    /\ mediaProcess' = mediaProcess + 1
    /\ media' = Append(media, [name |-> l.value, control |-> <<>>, attrs |-> <<>>])
    /\ UNCHANGED <<session, pc>>

ReadLine ==
    \E l \in Line :
        \/ ReadOther(l) \/ ReadBad(l) \/ ReadPorts(l)
        \/ ReadAttribute(l) \/ ReadControl(l) \/ ReadMedia(l)

\* readLines calls back at each line end: a last line without one is not read.
EndOfText ==
    /\ pc = "lines" /\ pc' = "session"
    /\ UNCHANGED <<lines, mediaProcess, session, media, isAggregate, base, resolved>>

-----------------------------------------------------------------------------
(* processSdp.  After ANNOUNCE baseUrl is auth_.uri itself, and what is      *)
(* stripped from the one is stripped from the other; no URL depends on it.  *)

StrippedAll(u) == IF u # <<>> /\ Last(u) = "/" THEN <<>> ELSE u
StrippedNot(u) == u
Stripped(u) == IF u # <<>> /\ Last(u) = "/" THEN Front(u) ELSE u

JoinBare(u, c) == Append(u, "/")
Join(u, c) == Append(u, "/") \o c

\* "*", a relative and an absolute URL of the session.
ResolveSession ==
    /\ pc = "session" /\ pc' = "media"
    /\ LET c == session.control
           relative == c \notin {<<>>, All} /\ ~IsAbsoluteUrl(c)
       IN  /\ isAggregate' = (isAggregate \/ c # <<>>)
           /\ base' = IF relative THEN Stripped(base) ELSE base
           /\ session' = [session EXCEPT !.control =
                 IF c = All THEN base ELSE IF relative THEN Join(Stripped(base), c) ELSE c]
    /\ UNCHANGED <<lines, mediaProcess, media, resolved>>

Resolve(u) ==
    /\ media' = [media EXCEPT ![resolved + 1].control = u]
    /\ resolved' = resolved + 1
    /\ UNCHANGED pc

Fail(how) == pc' = how /\ UNCHANGED <<media, resolved>>

\* No a=control: the assertion, in the builds that have it, allows that for a
\* single medium only.
InheritUrl ==
    /\ media[resolved + 1].control = <<>>
    /\ \/ Len(media) # 1 /\ Fail("aborted")
       \/ Resolve(IF isAggregate THEN session.control ELSE RequestUrl)
    /\ UNCHANGED base

KeepUrl ==
    /\ IsAbsoluteUrl(media[resolved + 1].control)
    /\ Resolve(media[resolved + 1].control)
    /\ UNCHANGED base

\* back() of an empty session URL is undefined.
ResolveUrl ==
    LET c == media[resolved + 1].control
        path == IF c[1] = "/" THEN Tail(c) ELSE c
    IN  /\ c # <<>> /\ ~IsAbsoluteUrl(c)
        /\ IF ~isAggregate
              THEN base' = Stripped(base) /\ Resolve(Join(base', path))
              ELSE /\ IF session.control = <<>>
                         THEN Fail("undefined")
                         ELSE Resolve(Join(Stripped(session.control), path))
                   /\ UNCHANGED base

ResolveMedium ==
    /\ pc = "media" /\ resolved < Len(media)
    /\ InheritUrl \/ KeepUrl \/ ResolveUrl
    /\ UNCHANGED <<lines, mediaProcess, session, isAggregate>>

EndOfMedia ==
    /\ pc = "media" /\ resolved = Len(media)
    /\ pc' = "done"
    /\ UNCHANGED <<lines, mediaProcess, session, media, isAggregate, base, resolved>>

Stopped ==
    /\ pc \in {"done", "threw", "looping", "aborted", "undefined"}
    /\ UNCHANGED vars

Next == ReadLine \/ EndOfText \/ ResolveSession \/ ResolveMedium \/ EndOfMedia \/ Stopped

Spec == Init /\ [][Next]_vars
-----------------------------------------------------------------------------
Token ==
    {"/", "*"} \cup UNION {Range(u) : u \in Bases \cup SessionControls \cup MediaControls \cup {RequestUrl}}
Url == Seq(Token)

TypeOK ==
    /\ lines \in Seq(Line) /\ mediaProcess = Len(media)
    /\ session \in [control : Url, attrs : Seq(Attributes)]
    /\ media \in Seq([name : Names, control : Url, attrs : Seq(Attributes)])
    /\ isAggregate \in BOOLEAN /\ WellFormed(base)
    /\ resolved \in 0..Len(media)
    /\ pc \in {"lines", "session", "media", "done", "threw", "looping", "aborted", "undefined"}

\* What RFC 2327 says a description means: the lines of section k, 0 for the
\* session, are those after the k-th m= line and before the next one.
SectionOf(i) == Cardinality({j \in 1..i : lines[j].type = "media"})
SectionLines(k, type) == {i \in DOMAIN lines : SectionOf(i) = k /\ lines[i].type = type}
Nth(S, n) == CHOOSE i \in S : Cardinality({j \in S : j <= i}) = n
Section(k, type) ==
    LET at == SectionLines(k, type)
    IN  [n \in 1..Cardinality(at) |-> lines[Nth(at, n)].value]
Control(k) == LET cs == Section(k, "control") IN IF cs = <<>> THEN <<>> ELSE Last(cs)

\* Every attribute and control URL belongs to the session or the medium in
\* whose section it stands, the last control URL of a section counts, and no
\* section sees those of another, however many media there are.
SectionsKept ==
    pc = "session" =>
        /\ session = [control |-> Control(0), attrs |-> Section(0, "attribute")]
        /\ media = [k \in 1..mediaProcess |->
                      [name |-> Section(k, "media")[1], control |-> Control(k),
                       attrs |-> Section(k, "attribute")]]

\* isAggregate_ is left over and this description has no control URL.
Stale == isAggregate /\ Control(0) = <<>>
Above == IF isAggregate THEN session.control ELSE base
Path(c) == IF c # <<>> /\ c[1] = "/" THEN Tail(c) ELSE c

\* The URL of every medium is absolute, has no empty segment if none of the
\* control URLs it is made of brings one (as one of the session does that
\* begins with "/"), and is the control URL itself or, for a relative one,
\* begins with the URL above it (session or base) and ends with the control URL.
UrlsResolved ==
    pc = "done" /\ ~Stale =>
        \A k \in DOMAIN media :
            LET c == Control(k)
                url == media[k].control
            IN  /\ IsAbsoluteUrl(url)
                /\ NoEmptySegment(Control(0)) /\ NoEmptySegment(Path(c)) => WellFormed(url)
                /\ IsAbsoluteUrl(c) => url = c
                /\ ~IsAbsoluteUrl(c) /\ c # <<>> =>
                      IsPrefix(Above, url) /\ IsSuffix(Path(c), url)

\* Client::setup and handlePipelineResponse know a medium by its URL: media
\* with different relative control URLs never get the same one.
MediaToldApart ==
    pc = "done" /\ ~Stale =>
        \A j, k \in DOMAIN media :
            LET relative(n) == Control(n) # <<>> /\ ~IsAbsoluteUrl(Control(n))
            IN  relative(j) /\ relative(k) /\ media[j].control = media[k].control
                    => Path(Control(j)) = Path(Control(k))
=============================================================================
