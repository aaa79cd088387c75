---------------------------- MODULE MediaDevice ----------------------------
(***************************************************************************)
(* The two lists of HTTP servers of the media server device, the ports     *)
(* they get, and the requests for a song.  A start tries one port after    *)
(* the other for the main servers and then for the streaming servers, one  *)
(* server per network interface and list, and keeps the last port tried as *)
(* the port of the device: the application puts it into the song URLs it   *)
(* hands to a renderer.  A stop closes the main servers only.              *)
(*                                                                         *)
(* Each streaming request is served by a client thread of its own; all of  *)
(* them take their URL and Range header to pieces with strtok, which keeps *)
(* its place in one static pointer.  What is left of a string is the       *)
(* sequence of the numbers in it.  The bytes of a file are sent at once; a *)
(* song in another format is converted and sent chunk by chunk, and every  *)
(* chunk is followed by a seek.                                            *)
(***************************************************************************)
EXTENDS Integers, Sequences

CONSTANTS
  Ifs,       \* network interfaces
  MaxTaken,  \* bound: other programs use ports up to this one
  MaxStarts, MaxChanges,  \* bounds: starts, and ports that change hands
  Requests,  \* requests for the song
  Ranges,    \* Range headers: whether a suffix of the song is meant, and the numbers in it
  Size,      \* length of the song's file, in bytes
  Seconds,   \* its duration, as the URL of a song in another format tells it
  Frames,    \* length of the converted song, in frames
  Rate,      \* frames per second of the converted song
  FrameBytes,  \* bytes per frame
  Chunk,     \* frames that are converted at once
  Width,     \* unsigned lengths are modulo this
  Nil

ASSUME MediaAssumption ==
  /\ MaxTaken \in Nat /\ MaxStarts \in Nat /\ MaxChanges \in Nat
  /\ Ranges \subseteq [suffix : BOOLEAN, numbers : Seq(Nat)] /\ Nil \notin Ranges
  /\ Size \in Nat /\ Seconds \in Nat /\ Frames \in Nat /\ Rate \in Nat
  /\ FrameBytes \in Nat \ {0} /\ Chunk \in Nat \ {0}
  /\ Width \in Nat /\ Size < Width /\ Rate * FrameBytes * Seconds < Width

\* The application starts the device once it is connected to a receiver, that is through
\* an interface (didConnectToHost); without one the search for a port has no end.
ASSUME InterfaceAssumption == Ifs # {}

Ports == 1..(MaxTaken + 2 * MaxStarts + 1)
Sockets == Ifs \X Ports

VARIABLES
  app,          \* what the application is doing with the device
  starts,
  port,         \* httpPort of the device
  currentPort,  \* the port in the song URLs the application hands out, 0: none
  main,         \* sockets of the list httpServerList
  stream,       \* sockets of the list httpStreamingServerList
  taken,        \* sockets of other programs, or of closed connections
  changes,      \* ports that have changed hands between other programs
  steady,       \* history: none did since the last start began
  saved,        \* the static pointer of strtok: whose string, and what is left of it
  pc,           \* request: where its client thread is
  pcm,          \* request: its song is in another format and is converted
  range,        \* request: its Range header, Nil: it has none
  secs,         \* request: the duration read from its URL
  offset,       \* request: the offset read from its header
  conv,         \* request: the frames its conversion reckons next, is at and wants
  got,          \* request: the answer, and what of the song has been sent
  mixed,        \* history: requests between whose calls of strtok another one called it
  crash         \* a null pointer was used, or freed memory spoilt

lists == <<port, main, stream, taken>>
parsing == <<saved, secs, offset, mixed, crash>>
request == <<pc, pcm, range, conv, got>>
lifecycle == <<app, starts, currentPort, lists, changes, steady>>
vars == <<lifecycle, parsing, request>>

None == [by |-> "none", status |-> 0, length |-> 0, sent |-> {}]

Idle == [next |-> 0, at |-> 0, want |-> 0]

Init ==
  /\ app = "off" /\ starts = 0 /\ port = 1 /\ currentPort = 0
  /\ main = {} /\ stream = {} /\ taken \in SUBSET (Ifs \X (1..MaxTaken))
  /\ changes = 0 /\ steady = TRUE
  /\ saved = Nil /\ pc = [r \in Requests |-> "none"]
  /\ pcm = [r \in Requests |-> FALSE] /\ range = [r \in Requests |-> Nil]
  /\ secs = [r \in Requests |-> 0] /\ offset = [r \in Requests |-> 0]
  /\ conv = [r \in Requests |-> Idle]
  /\ got = [r \in Requests |-> None] /\ mixed = {} /\ crash = FALSE

-----------------------------------------------------------------------------
(* Start and stop of the device.                                           *)

\* The sockets a server list gets at the port of the device.
Opened == {<<i, port>> : i \in Ifs} \ (taken \cup main \cup stream)

\* A closed socket may keep its port, for the sake of connections it had.
Release(socks) == taken' \in {taken, taken \cup socks}

\* cg_upnp_device_start begins with a stop.
Start ==
  /\ app \in {"off", "on"} /\ starts < MaxStarts
  /\ app' = "main" /\ starts' = starts + 1 /\ steady' = TRUE
  /\ main' = {} /\ Release(main)
  /\ UNCHANGED <<port, currentPort, stream, changes, parsing, request>>

OpenMain ==
  /\ app = "main" /\ Opened # {}
  /\ main' = main \cup Opened
  /\ app' = "stream"
  /\ UNCHANGED <<starts, port, currentPort, stream, taken, changes, steady, parsing, request>>

\* Mutant of NextPort: the next port is tried but not kept.
NextPortOnly == UNCHANGED port

\* Mutant of NextPort: every other port is left out.
NextPortSkips == port' = port + 2

NextPort == port' = port + 1

OpenMainFails ==
  /\ app = "main" /\ Opened = {}
  /\ NextPort
  /\ UNCHANGED <<app, starts, currentPort, main, stream, taken, changes, steady, parsing, request>>

\* Mutant of OpenStream: an open that fails on all interfaces counts as well.
OpenStreamAnyway ==
  /\ app = "stream"
  /\ stream' = stream \cup Opened
  /\ app' = "return"
  /\ UNCHANGED <<starts, port, currentPort, main, taken, changes, steady, parsing, request>>

OpenStream ==
  /\ app = "stream" /\ Opened # {}
  /\ stream' = stream \cup Opened
  /\ app' = "return"
  /\ UNCHANGED <<starts, port, currentPort, main, taken, changes, steady, parsing, request>>

\* A list that opens no server is cleared: here the servers of an earlier start go.
OpenStreamFails ==
  /\ app = "stream" /\ Opened = {}
  /\ stream' = {} /\ Release(stream)
  /\ NextPort
  /\ UNCHANGED <<app, starts, currentPort, main, changes, steady, parsing, request>>

\* startLibreUPnPDevice asks for the port once the device has started.
Return ==
  /\ app = "return"
  /\ app' = "on" /\ currentPort' = port
  /\ UNCHANGED <<starts, lists, changes, steady, parsing, request>>

Stop ==
  /\ app = "on"
  /\ app' = "off" /\ main' = {} /\ Release(main)
  /\ UNCHANGED <<starts, port, currentPort, stream, changes, steady, parsing, request>>

\* Another program takes a port or leaves it.
Change ==
  /\ changes < MaxChanges
  /\ \E s \in (Ifs \X (1..MaxTaken)) \ (main \cup stream) :
       taken' = IF s \in taken THEN taken \ {s} ELSE taken \cup {s}
  /\ changes' = changes + 1 /\ steady' = FALSE
  /\ UNCHANGED <<app, starts, port, currentPort, main, stream, parsing, request>>

-----------------------------------------------------------------------------
(* The client thread of request r.                                         *)

Goto(r, l) == pc' = [pc EXCEPT ![r] = l]

\* A main server answers with the whole song whatever range was asked for; a song whose
\* file it does not find, as under a URL that tells the duration, has no bytes.
MainAnswer(n) == [by |-> "main", status |-> 200, length |-> n, sent |-> 0..(n - 1)]

\* The song URL names the port and one interface: a streaming server may be there, a main
\* server, which looks at no Range header, or none.
Fetch(r, i) ==
  /\ pc[r] = "none" /\ currentPort # 0
  /\ LET s == <<i, currentPort>> IN
     \/ /\ s \in stream
        /\ \E c \in BOOLEAN, h \in Ranges \cup {Nil} :
             /\ pcm' = [pcm EXCEPT ![r] = c]
             /\ range' = [range EXCEPT ![r] = h]
             /\ Goto(r, IF c THEN "url" ELSE "range")
        /\ UNCHANGED got
     \/ /\ s \in main
        /\ \E n \in {0, Size} : got' = [got EXCEPT ![r] = MainAnswer(n)]
        /\ Goto(r, "end") /\ UNCHANGED <<pcm, range>>
  /\ UNCHANGED <<lifecycle, parsing, conv>>

\* Requests that count on the pointer to stay where they have left it.
Counting(r) == pc[r] = "url rest" \/ (pc[r] = "range rest" /\ range[r] # Nil)

\* A call of strtok by r.
Strtok(r) == mixed' = mixed \cup {q \in Requests \ {r} : Counting(q)}

\* Where strtok is when the numbers n are left of the string of r: at the end of a string
\* the pointer is null.
Left(r, n) == IF n = <<>> THEN Nil ELSE [of |-> r, left |-> n]

Crash ==
  /\ crash' = TRUE
  /\ UNCHANGED <<lifecycle, saved, secs, offset, request>>

\* The path of the song, up to the exclamation mark.
UrlPath(r) ==
  /\ pc[r] = "url"
  /\ saved' = Left(r, <<Seconds>>)
  /\ Goto(r, "url rest") /\ Strtok(r)
  /\ UNCHANGED <<lifecycle, pcm, range, conv, got, secs, offset, crash>>

\* The duration after it is copied from where strtok finds it.
UrlDuration(r) ==
  /\ pc[r] = "url rest" /\ Strtok(r)
  /\ IF saved = Nil THEN Crash
     ELSE /\ secs' = [secs EXCEPT ![r] = Head(saved.left)]
          /\ saved' = Nil
          /\ Goto(r, "range")
          /\ UNCHANGED <<lifecycle, pcm, range, conv, got, offset, crash>>

\* The string that strtok is in went with the request it belongs to.
Freed == saved # Nil /\ pc[saved.of] \in {"end", "unread"}

\* Without a header the call goes on in the string of another request, to its end, over one
\* number or not at all.
GoOn == saved' \in {Nil, saved} \/ (saved # Nil /\ saved' = Left(saved.of, Tail(saved.left)))

\* A NUL written into freed memory may do harm.
Spoil(r) == range[r] = Nil /\ Freed /\ Crash

\* Mutant of RangeUnit: a string that is being taken to pieces is gone on with.
RangeUnitOnce(r) ==
  /\ pc[r] = "range" /\ Strtok(r)
  /\ \/ /\ IF range[r] = Nil \/ saved # Nil THEN GoOn ELSE saved' = Left(r, range[r].numbers)
        /\ Goto(r, "range rest")
        /\ UNCHANGED <<lifecycle, pcm, range, conv, got, secs, offset, crash>>
     \/ Spoil(r)

RangeUnit(r) ==
  /\ pc[r] = "range" /\ Strtok(r)
  /\ \/ /\ IF range[r] = Nil THEN GoOn ELSE saved' = Left(r, range[r].numbers)
        /\ Goto(r, "range rest")
        /\ UNCHANGED <<lifecycle, pcm, range, conv, got, secs, offset, crash>>
     \/ Spoil(r)

\* The first number left is the offset, be it that of a suffix; the end of the range is not
\* looked at, and a header without a number gives a null pointer.
RangeOffset(r) ==
  /\ pc[r] = "range rest" /\ Strtok(r)
  /\ \/ /\ \/ range[r] = Nil /\ GoOn /\ UNCHANGED offset
           \/ /\ range[r] # Nil /\ saved # Nil
              /\ offset' = [offset EXCEPT ![r] = Head(saved.left)]
              /\ saved' = Left(saved.of, Tail(saved.left))
        /\ Goto(r, "answer")
        /\ UNCHANGED <<lifecycle, pcm, range, conv, got, secs, crash>>
     \/ range[r] # Nil /\ saved = Nil /\ Crash
     \/ Spoil(r)

\* What the header of an answer says; an offset beyond the end gives a length that wraps.
StreamAnswer(status, whole, from, sent) ==
  [by |-> "stream", status |-> status, length |-> (whole - from) % Width, sent |-> sent]

\* The file, from the offset on.
Answer(r) ==
  /\ pc[r] = "answer" /\ ~pcm[r]
  /\ got' = [got EXCEPT ![r] = StreamAnswer(IF offset[r] = 0 THEN 200 ELSE 206, Size, offset[r],
                                            offset[r]..(Size - 1))]
  /\ Goto(r, "end")
  /\ UNCHANGED <<lifecycle, parsing, pcm, range, conv>>

\* There is no answer at all for a file that cannot be opened.
NoFile(r) ==
  /\ pc[r] = "answer" /\ ~pcm[r]
  /\ Goto(r, "end")
  /\ UNCHANGED <<lifecycle, parsing, pcm, range, conv, got>>

\* Where a seek of the converter to frame t leaves it, if it was at frame a: a seek to the
\* end or beyond may go to the end or fail.
Seek(t, a) == IF t < Frames THEN {t} ELSE {a, Frames}

ConvertedAnswer(r) == StreamAnswer(206, Rate * FrameBytes * secs[r], offset[r], {})

\* The header of a song that is converted; the conversion begins with the frame of the offset.
AnswerConverted(r) ==
  /\ pc[r] = "answer" /\ pcm[r]
  /\ got' = [got EXCEPT ![r] = ConvertedAnswer(r)]
  /\ LET first == offset[r] \div FrameBytes IN
     \E a \in Seek(first, 0) :
       conv' = [conv EXCEPT ![r] = [next |-> first, at |-> a, want |-> Chunk]]
  /\ Goto(r, "convert")
  /\ UNCHANGED <<lifecycle, parsing, pcm, range>>

\* A song that the converter cannot open gets its header all the same; what is read then, and
\* for how long, depends on the converter.
NoSong(r) ==
  /\ pc[r] = "answer" /\ pcm[r]
  /\ got' = [got EXCEPT ![r] = ConvertedAnswer(r)]
  /\ Goto(r, "unread")
  /\ UNCHANGED <<lifecycle, parsing, pcm, range, conv>>

\* Frames that a conversion reads next.
Read(c) == IF c.at + c.want <= Frames THEN c.want ELSE Frames - c.at

\* One chunk is read, the converter is told to go on one frame beyond the next one, and the
\* chunk is sent.
Convert(r) ==
  /\ pc[r] = "convert"
  /\ LET c == conv[r]
         n == Read(c)
     IN IF n = 0 THEN Goto(r, "end") /\ conv' = [conv EXCEPT ![r] = Idle] /\ UNCHANGED got
        ELSE /\ \E a \in Seek(c.next + c.want + 1, c.at + n) :
                  conv' = [conv EXCEPT ![r] = [next |-> c.next + c.want, at |-> a, want |-> n]]
             /\ got' = [got EXCEPT ![r].sent = @ \cup c.at..(c.at + n - 1)]
             /\ UNCHANGED pc
  /\ UNCHANGED <<lifecycle, parsing, pcm, range>>

-----------------------------------------------------------------------------

StartNext == OpenMain \/ OpenMainFails \/ OpenStream \/ OpenStreamFails \/ Return

RequestNext(r) ==
  \/ \E i \in Ifs : Fetch(r, i)
  \/ UrlPath(r) \/ UrlDuration(r) \/ RangeUnit(r) \/ RangeOffset(r)
  \/ Answer(r) \/ NoFile(r) \/ AnswerConverted(r) \/ NoSong(r) \/ Convert(r)

Next ==
  /\ ~crash
  /\ Start \/ StartNext \/ Stop \/ Change \/ \E r \in Requests : RequestNext(r)

\* A start that has begun goes on; nobody has to start, stop or fetch.
Spec == Init /\ [][Next]_vars /\ WF_vars(~crash /\ StartNext)

-----------------------------------------------------------------------------
(* Properties.                                                             *)

TypeOK ==
  /\ app \in {"off", "main", "stream", "return", "on"} /\ starts \in 0..MaxStarts
  /\ port \in Ports /\ currentPort \in 0..(MaxTaken + 2 * MaxStarts + 1)
  /\ main \in SUBSET Sockets /\ stream \in SUBSET Sockets /\ taken \in SUBSET Sockets
  /\ changes \in 0..MaxChanges /\ steady \in BOOLEAN
  /\ saved = Nil \/ saved \in [of : Requests, left : Seq(Nat)]
  /\ pc \in [Requests -> {"none", "url", "url rest", "range", "range rest", "answer",
                          "convert", "unread", "end"}]
  /\ pcm \in [Requests -> BOOLEAN] /\ range \in [Requests -> Ranges \cup {Nil}]
  /\ secs \in [Requests -> Nat] /\ offset \in [Requests -> Nat]
  /\ conv \in [Requests -> [next : Nat, at : 0..Frames, want : 0..Chunk]]
  /\ got \in [Requests -> [by : {"none", "main", "stream"}, status : {0, 200, 206},
                           length : 0..(Width - 1), sent : SUBSET Nat]]
  /\ mixed \in SUBSET Requests /\ crash \in BOOLEAN

\* After every start, the song URLs lead to a streaming server on some interface, and on
\* none to a main server, unless a port changed hands while the device started.
SongPort ==
  app = "on" =>
    /\ \E i \in Ifs : <<i, currentPort>> \in stream
    /\ steady => \A i \in Ifs : <<i, currentPort>> \notin main

\* The first byte a request asks for.
Asked(r) == IF range[r] = Nil \/ range[r].numbers = <<>> THEN 0 ELSE Head(range[r].numbers)

\* The frames from the one of the first byte asked for to the end.
AskedFrames(r) == (Asked(r) \div FrameBytes)..(Frames - 1)

\* A song request whose calls of strtok no other request has come between, and which does
\* not ask for a suffix, is answered from the byte it asked for on, whatever earlier requests
\* have left in strtok: the length is that of the rest, and of a file just the rest is sent.
\* Of a converted song no frame before that byte is sent; once the conversion is over, every
\* frame from there on has been, but for the one after the first chunk, which is skipped.
OwnBytes ==
  \A r \in Requests \ mixed :
    got[r].by = "stream" /\ (range[r] # Nil => ~range[r].suffix) =>
      LET whole == IF pcm[r] THEN Rate * FrameBytes * Seconds ELSE Size
          missed == Asked(r) \div FrameBytes + Chunk
      IN /\ Asked(r) <= whole => got[r].length = whole - Asked(r)
         /\ ~pcm[r] => got[r].sent = Asked(r)..(Size - 1)
         /\ pcm[r] /\ AskedFrames(r) # {} =>
              /\ got[r].sent \subseteq AskedFrames(r)
              /\ pc[r] = "end" => AskedFrames(r) \ {missed} \subseteq got[r].sent

\* A start comes to an end although the ports it tries are in use, by other programs, by
\* its own main servers or by the streaming servers of an earlier start.
StartEnds == app \in {"main", "stream", "return"} ~> (app = "on" \/ crash)

=============================================================================
