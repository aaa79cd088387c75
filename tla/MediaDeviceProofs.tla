-------------------------- MODULE MediaDeviceProofs --------------------------
(***************************************************************************)
(* Proofs about MediaDevice, for any interfaces, ports in use, requests    *)
(* and ranges: where the song URLs lead (SongPort), which bytes a request  *)
(* gets (OwnBytes), and the types of the variables, which say how far the  *)
(* search for a port goes.                                                 *)
(*                                                                         *)
(* The argument for the first: no main server has a port beyond the one    *)
(* tried last, and once the main servers are open their port is full, so   *)
(* that the streaming servers go on to a later one (PortInv).  For the     *)
(* second: as long as no other request calls strtok in between, the static *)
(* pointer is where the request has left it (OwnParse), and a conversion   *)
(* has sent what lies behind it, but for one frame (Progress).  For the    *)
(* third: above the ports of other programs a start finds its two ports at *)
(* once, since the servers left by the starts before are not above port    *)
(* (SearchInv).                                                            *)
(***************************************************************************)
EXTENDS MediaDevice, TLAPS

\* The full port, or one without main servers.
Full(p) == \A i \in Ifs : <<i, p>> \in main \cup stream \cup taken
Free(p) == \A i \in Ifs : <<i, p>> \notin main
Streams(p) == \E i \in Ifs : <<i, p>> \in stream

PortInv ==
  /\ port \in Nat
  /\ \A i \in Ifs, p \in Nat : <<i, p>> \in main => p <= port
  /\ app = "main" => main = {}
  /\ app = "stream" /\ steady => Full(port) \/ Free(port)
  /\ app = "return" => Streams(port) /\ (steady => Free(port))
  /\ app = "on" => Streams(currentPort) /\ (steady => Free(currentPort))

\* What the requests have of their types.
RequestTypes ==
  /\ pc \in [Requests -> {"none", "url", "url rest", "range", "range rest", "answer",
                          "convert", "unread", "end"}]
  /\ pcm \in [Requests -> BOOLEAN] /\ range \in [Requests -> Ranges \cup {Nil}]
  /\ DOMAIN secs = Requests /\ DOMAIN offset = Requests
  /\ DOMAIN conv = Requests /\ DOMAIN got = Requests
  /\ \A q \in Requests : DOMAIN got[q] = {"by", "status", "length", "sent"}
  /\ mixed \in SUBSET Requests

Length(r) == IF pcm[r] THEN Rate * FrameBytes * Seconds ELSE Size

\* What a request whose calls of strtok nobody has come between finds.
OwnParse(r) ==
  /\ pc[r] \in {"none", "url", "url rest", "range", "range rest"} => offset[r] = 0
  /\ pc[r] = "url rest" => saved = Left(r, <<Seconds>>)
  /\ pc[r] \in {"range", "range rest", "answer"} /\ pcm[r] => secs[r] = Seconds
  /\ pc[r] = "range rest" /\ range[r] # Nil => saved = Left(r, range[r].numbers)
  /\ pc[r] = "answer" => offset[r] = Asked(r)

\* How far a conversion c that began with frame s has come: what is behind it has been sent,
\* but for the frame after the first chunk.  It goes on with the frame after the one it
\* reckons, or has nothing more than a last frame to read.
Progress(c, s, sent) ==
  /\ c.next \in Nat /\ c.at \in s..Frames /\ c.want \in Nat \ {0}
  /\ \A f \in s..(c.at - 1) : f = s + Chunk \/ f \in sent
  /\ \/ c.at = s /\ c.next = s /\ c.want = Chunk
     \/ c.at = c.next + 1
     \/ c.next + 1 >= Frames /\ c.at >= Frames - 1

\* What is sent of a converted song.
Converted(r) ==
  LET s == Asked(r) \div FrameBytes IN
    /\ got[r].sent \subseteq s..(Frames - 1)
    /\ pc[r] = "convert" => Progress(conv[r], s, got[r].sent)
    /\ pc[r] = "end" => (s..(Frames - 1)) \ {s + Chunk} \subseteq got[r].sent

OwnAnswer(r) ==
  /\ pc[r] \notin {"convert", "unread", "end"} => got[r] = None
  /\ pc[r] = "convert" => pcm[r]
  /\ got[r].by = "stream" =>
       /\ Asked(r) <= Length(r) => got[r].length = Length(r) - Asked(r)
       /\ ~pcm[r] => got[r].sent = Asked(r)..(Size - 1)
       /\ pcm[r] /\ AskedFrames(r) # {} => Converted(r)

Own(r) == OwnParse(r) /\ OwnAnswer(r)

BytesInv == \A r \in Requests \ mixed : Own(r)

IInv == PortInv /\ RequestTypes /\ BytesInv

LEMMA Numbers ==
  /\ Ranges \subseteq [suffix : BOOLEAN, numbers : Seq(Nat)]
  /\ Size \in Nat /\ Seconds \in Nat /\ Frames \in Nat /\ Rate \in Nat /\ Width \in Nat
  /\ FrameBytes \in Nat \ {0} /\ Chunk \in Nat \ {0}
  /\ Size < Width /\ Rate * FrameBytes * Seconds < Width
BY MediaAssumption

LEMMA Fits == ASSUME NEW n \in Nat, n < Width PROVE n % Width = n
BY Numbers

LEMMA NoAnswer == None.by # "stream"
BY DEF None

LEMMA Product == ASSUME NEW a \in Nat, NEW b \in Nat PROVE a * b \in Nat
OBVIOUS

LEMMA Quotient == ASSUME NEW a \in Nat PROVE a \div FrameBytes \in Nat
BY Numbers

LEMMA SongBytes == Rate * FrameBytes * Seconds \in Nat
<1>1. Rate * FrameBytes \in Nat
  BY Numbers, Product
<1> QED BY <1>1, Numbers, Product

LEMMA HeadOfOne == \A n : Head(<<n>>) = n
OBVIOUS

LEMMA HeadIsNat == \A s \in Seq(Nat) : s # <<>> => Head(s) \in Nat
OBVIOUS

LEMMA InitIInv == Init => IInv
<1> SUFFICES ASSUME Init PROVE IInv
  OBVIOUS
<1>1. PortInv
  BY DEF Init, PortInv
<1>2. RequestTypes
  BY DEF Init, RequestTypes, None
<1>3. BytesInv
  BY DEF Init, BytesInv, Own, OwnParse, OwnAnswer, None
<1> QED BY <1>1, <1>2, <1>3 DEF IInv

-----------------------------------------------------------------------------
(* Start and stop of the device.                                           *)

LEMMA RequestsRest ==
  ASSUME IInv, UNCHANGED <<parsing, request>>
  PROVE  RequestTypes' /\ BytesInv'
<1>1. UNCHANGED <<saved, secs, offset, mixed, pc, pcm, range, conv, got>>
  BY DEF parsing, request
<1>2. RequestTypes'
  BY <1>1 DEF IInv, RequestTypes
<1>3. ASSUME NEW r \in Requests, Own(r) PROVE Own(r)'
  <2>1. UNCHANGED <<Asked(r), Length(r), AskedFrames(r)>>
    BY <1>1 DEF Asked, Length, AskedFrames
  <2>2. OwnParse(r)'
    BY <1>1, <1>3, <2>1 DEF Own, OwnParse
  <2>3. Converted(r) => Converted(r)'
    BY <1>1, <2>1 DEF Converted
  <2>4. OwnAnswer(r)'
    BY <1>1, <1>3, <2>1, <2>3 DEF Own, OwnAnswer
  <2> QED BY <2>2, <2>4 DEF Own
<1> QED BY <1>1, <1>2, <1>3 DEF IInv, BytesInv

LEMMA StartIInv == ASSUME IInv, Start PROVE IInv'
<1>1. PortInv'
  BY DEF IInv, PortInv, Start
<1> QED BY <1>1, RequestsRest DEF IInv, Start

LEMMA OpenMainIInv == ASSUME IInv, OpenMain PROVE IInv'
<1>1. main' = Opened /\ UNCHANGED <<port, stream, taken>> /\ app' = "stream" /\ port \in Nat
  BY DEF IInv, PortInv, OpenMain
<1>2. \A i \in Ifs, p \in Nat : <<i, p>> \in Opened => p = port
  BY DEF Opened
<1>3. \A i \in Ifs : <<i, port>> \in main' \cup stream \cup taken
  BY <1>1 DEF Opened, IInv, PortInv, OpenMain
<1>4. PortInv'
  BY <1>1, <1>2, <1>3 DEF PortInv, Full
<1> QED BY <1>4, RequestsRest DEF IInv, OpenMain

LEMMA OpenMainFailsIInv == ASSUME IInv, OpenMainFails PROVE IInv'
<1>1. PortInv'
  BY DEF IInv, PortInv, OpenMainFails, NextPort
<1> QED BY <1>1, RequestsRest DEF IInv, OpenMainFails

LEMMA OpenStreamIInv == ASSUME IInv, OpenStream PROVE IInv'
<1>1. PICK i \in Ifs : <<i, port>> \in Opened
  BY DEF OpenStream, Opened
<1>2. <<i, port>> \notin main \cup stream \cup taken
  BY <1>1 DEF Opened
<1>3. steady => Free(port)
  BY <1>2 DEF IInv, PortInv, OpenStream, Full
<1>4. Streams(port)'
  BY <1>1 DEF OpenStream, Streams
<1>5. PortInv'
  BY <1>3, <1>4 DEF IInv, PortInv, OpenStream, Free
<1> QED BY <1>5, RequestsRest DEF IInv, OpenStream

LEMMA OpenStreamFailsIInv == ASSUME IInv, OpenStreamFails PROVE IInv'
<1>1. port \in Nat /\ port' = port + 1 /\ UNCHANGED <<main, app>> /\ app = "stream"
  BY DEF IInv, PortInv, OpenStreamFails, NextPort
<1>2. \A i \in Ifs, p \in Nat : <<i, p>> \in main => p <= port
  BY DEF IInv, PortInv
<1>3. \A i \in Ifs : <<i, port'>> \notin main
  BY <1>1, <1>2
<1>4. PortInv'
  BY <1>1, <1>2, <1>3 DEF PortInv, Free
<1> QED BY <1>4, RequestsRest DEF IInv, OpenStreamFails

LEMMA ReturnIInv == ASSUME IInv, Return PROVE IInv'
<1>1. PortInv'
  BY DEF IInv, PortInv, Return, Streams, Free, lists
<1> QED BY <1>1, RequestsRest DEF IInv, Return

LEMMA StopIInv == ASSUME IInv, Stop PROVE IInv'
<1>1. PortInv'
  BY DEF IInv, PortInv, Stop
<1> QED BY <1>1, RequestsRest DEF IInv, Stop

LEMMA ChangeIInv == ASSUME IInv, Change PROVE IInv'
<1>1. PortInv'
  BY DEF IInv, PortInv, Change, Streams
<1> QED BY <1>1, RequestsRest DEF IInv, Change

-----------------------------------------------------------------------------
(* Requests.                                                               *)

LEMMA PortsRest == ASSUME IInv, UNCHANGED lifecycle PROVE PortInv'
  BY DEF IInv, PortInv, lifecycle, lists, Full, Free, Streams

\* A step of r leaves the other requests alone, and mixes those that count on strtok.
Frame(r) ==
  /\ UNCHANGED lifecycle
  /\ \A q \in Requests \ {r} :
       /\ pc'[q] = pc[q] /\ pcm'[q] = pcm[q] /\ range'[q] = range[q] /\ secs'[q] = secs[q]
       /\ offset'[q] = offset[q] /\ conv'[q] = conv[q] /\ got'[q] = got[q]
       /\ saved' = saved \/ (Counting(q) => q \in mixed')
  /\ mixed \subseteq mixed'

LEMMA FrameIInv ==
  ASSUME IInv, NEW r \in Requests, RequestTypes', Frame(r), r \notin mixed' => Own(r)'
  PROVE  IInv'
<1>1. PortInv'
  BY PortsRest DEF Frame
<1>2. ASSUME NEW q \in Requests, q # r, q \notin mixed' PROVE Own(q)'
  <2>1. Own(q)
    BY <1>2 DEF IInv, BytesInv, Frame
  <2>2. saved' = saved \/ ~Counting(q)
    BY <1>2 DEF Frame
  <2>3. /\ pc'[q] = pc[q] /\ pcm'[q] = pcm[q] /\ range'[q] = range[q] /\ secs'[q] = secs[q]
        /\ offset'[q] = offset[q] /\ conv'[q] = conv[q] /\ got'[q] = got[q]
    BY <1>2 DEF Frame
  <2>4. OwnParse(q)'
    BY <2>1, <2>2, <2>3 DEF Own, OwnParse, Counting, Asked
  <2>5. OwnAnswer(q)'
    BY <2>1, <2>3 DEF Own, OwnAnswer, Asked, Length, AskedFrames, Converted
  <2> QED BY <2>4, <2>5 DEF Own
<1> QED BY <1>1, <1>2 DEF IInv, BytesInv

LEMMA AskedIsNat == ASSUME RequestTypes, NEW r \in Requests PROVE Asked(r) \in Nat
<1>1. CASE range[r] = Nil
  BY <1>1 DEF Asked
<1>2. CASE range[r] # Nil
  <2>1. range[r] \in Ranges
    BY <1>2 DEF RequestTypes
  <2>2. range[r].numbers \in Seq(Nat)
    BY <2>1, Numbers
  <2> QED BY <2>2, HeadIsNat DEF Asked
<1> QED BY <1>1, <1>2

LEMMA FetchIInv ==
  ASSUME IInv, NEW r \in Requests, NEW i \in Ifs, Fetch(r, i)
  PROVE  IInv'
<1>0. RequestTypes /\ (r \in mixed \/ Own(r)) /\ pc[r] = "none"
  BY DEF IInv, BytesInv, Fetch
<1>1. UNCHANGED <<lifecycle, saved, secs, offset, mixed, conv>>
  BY DEF Fetch, parsing
<1>2. CASE \E c \in BOOLEAN, h \in Ranges \cup {Nil} :
             /\ pcm' = [pcm EXCEPT ![r] = c] /\ range' = [range EXCEPT ![r] = h]
             /\ Goto(r, IF c THEN "url" ELSE "range") /\ UNCHANGED got
  <2>1. PICK c \in BOOLEAN, h \in Ranges \cup {Nil} :
             /\ pcm' = [pcm EXCEPT ![r] = c] /\ range' = [range EXCEPT ![r] = h]
             /\ Goto(r, IF c THEN "url" ELSE "range") /\ UNCHANGED got
    BY <1>2
  <2>2. PICK l \in {"url", "range"} : pc' = [pc EXCEPT ![r] = l] /\ (l = "range" => ~c)
    BY <2>1 DEF Goto
  <2>4. RequestTypes'
    BY <1>0, <1>1, <2>1, <2>2 DEF RequestTypes
  <2>5. Frame(r)
    BY <1>0, <1>1, <2>1, <2>2 DEF RequestTypes, Frame
  <2>6. r \notin mixed' => Own(r)'
    <3>0. SUFFICES ASSUME r \notin mixed' PROVE Own(r)'
      OBVIOUS
    <3>1. offset'[r] = 0 /\ got'[r] = None /\ got'[r].by # "stream"
      BY <1>0, <1>1, <2>1, <3>0, NoAnswer DEF Own, OwnParse, OwnAnswer
    <3>2. pc'[r] \in {"url", "range"} /\ (pc'[r] = "range" => ~pcm'[r])
      BY <1>0, <2>1, <2>2 DEF RequestTypes
    <3> QED BY <3>1, <3>2 DEF Own, OwnParse, OwnAnswer
  <2> QED BY <2>4, <2>5, <2>6, FrameIInv
<1>3. CASE /\ Goto(r, "end") /\ UNCHANGED <<pcm, range>>
           /\ \E n \in {0, Size} : got' = [got EXCEPT ![r] = MainAnswer(n)]
  <2>1. PICK n \in {0, Size} : got' = [got EXCEPT ![r] = MainAnswer(n)]
    BY <1>3
  <2>2. pc' = [pc EXCEPT ![r] = "end"] /\ UNCHANGED <<pcm, range>>
    BY <1>3 DEF Goto
  <2>4. RequestTypes'
    BY <1>0, <1>1, <2>1, <2>2 DEF RequestTypes, MainAnswer
  <2>5. Frame(r)
    BY <1>0, <1>1, <2>1, <2>2 DEF RequestTypes, Frame
  <2>6. pc'[r] = "end" /\ got'[r].by = "main"
    BY <1>0, <2>1, <2>2 DEF RequestTypes, MainAnswer
  <2>7. r \notin mixed' => Own(r)'
    BY <2>6 DEF Own, OwnParse, OwnAnswer
  <2> QED BY <2>4, <2>5, <2>7, FrameIInv
<1> QED BY <1>2, <1>3 DEF Fetch

LEMMA UrlPathIInv == ASSUME IInv, NEW r \in Requests, UrlPath(r) PROVE IInv'
<1>0. RequestTypes /\ (r \in mixed \/ Own(r))
  BY DEF IInv, BytesInv
<1>1. /\ pc[r] = "url" /\ pc' = [pc EXCEPT ![r] = "url rest"] /\ Strtok(r)
      /\ saved' = Left(r, <<Seconds>>)
      /\ UNCHANGED <<lifecycle, pcm, range, conv, got, secs, offset>>
  BY DEF UrlPath, Goto
<1>4. RequestTypes'
  BY <1>0, <1>1 DEF RequestTypes, Strtok
<1>5. Frame(r)
  BY <1>0, <1>1 DEF RequestTypes, Frame, Strtok
<1>6. r \notin mixed' => Own(r)'
  <2>0. SUFFICES ASSUME r \notin mixed' PROVE Own(r)'
    OBVIOUS
  <2>1. Own(r)
    BY <1>0, <1>1, <2>0 DEF Strtok
  <2>2. pc'[r] = "url rest"
    BY <1>0, <1>1 DEF RequestTypes
  <2>3. offset'[r] = 0 /\ got'[r] = None /\ got'[r].by # "stream"
    BY <1>1, <2>1, NoAnswer DEF Own, OwnParse, OwnAnswer
  <2>4. saved' = Left(r, <<Seconds>>)'
    BY <1>1 DEF Left
  <2> QED BY <2>2, <2>3, <2>4 DEF Own, OwnParse, OwnAnswer
<1> QED BY <1>4, <1>5, <1>6, FrameIInv

\* A crash changes nothing the invariant speaks of but who is mixed.
LEMMA CrashIInv ==
  ASSUME IInv, NEW r \in Requests, Strtok(r), Crash
  PROVE  IInv'
<1>0. RequestTypes /\ (r \in mixed \/ Own(r))
  BY DEF IInv, BytesInv
<1>1. UNCHANGED <<lifecycle, saved, secs, offset, pc, pcm, range, conv, got>>
  BY DEF Crash, request
<1>2. mixed' \in SUBSET Requests /\ mixed \subseteq mixed'
  BY <1>0 DEF RequestTypes, Strtok
<1>4. RequestTypes'
  BY <1>0, <1>1, <1>2 DEF RequestTypes
<1>5. Frame(r)
  BY <1>1, <1>2 DEF Frame
<1>6. r \notin mixed' => Own(r)'
  BY <1>0, <1>1, <1>2 DEF Own, OwnParse, OwnAnswer, Asked, Length, AskedFrames, Converted
<1> QED BY <1>4, <1>5, <1>6, FrameIInv

LEMMA UrlDurationIInv == ASSUME IInv, NEW r \in Requests, UrlDuration(r) PROVE IInv'
<1>0. RequestTypes /\ (r \in mixed \/ Own(r)) /\ Strtok(r) /\ pc[r] = "url rest"
  BY DEF IInv, BytesInv, UrlDuration
<1>1. CASE saved = Nil
  BY <1>0, <1>1, CrashIInv DEF UrlDuration
<1>2. CASE saved # Nil
  <2>1. /\ secs' = [secs EXCEPT ![r] = Head(saved.left)]
        /\ pc' = [pc EXCEPT ![r] = "range"]
        /\ UNCHANGED <<lifecycle, pcm, range, conv, got, offset>>
    BY <1>2 DEF UrlDuration, Goto
  <2>4. RequestTypes'
    BY <1>0, <2>1 DEF RequestTypes, Strtok
  <2>5. Frame(r)
    BY <1>0, <2>1 DEF RequestTypes, Frame, Strtok
  <2>6. r \notin mixed' => Own(r)'
    <3>0. SUFFICES ASSUME r \notin mixed' PROVE Own(r)'
      OBVIOUS
    <3>1. Own(r)
      BY <1>0, <3>0 DEF Strtok
    <3>2. offset[r] = 0 /\ saved = Left(r, <<Seconds>>) /\ got[r] = None
      BY <1>0, <3>1 DEF Own, OwnParse, OwnAnswer
    <3>3. saved.left = <<Seconds>>
      BY <1>2, <3>2 DEF Left
    <3>4. pc'[r] = "range" /\ secs'[r] = Seconds
      BY <1>0, <2>1, <3>3, HeadOfOne DEF RequestTypes
    <3>5. offset'[r] = 0 /\ got'[r] = None /\ got'[r].by # "stream"
      BY <2>1, <3>2, NoAnswer
    <3> QED BY <3>4, <3>5 DEF Own, OwnParse, OwnAnswer
  <2> QED BY <2>4, <2>5, <2>6, FrameIInv
<1> QED BY <1>1, <1>2

LEMMA RangeUnitIInv == ASSUME IInv, NEW r \in Requests, RangeUnit(r) PROVE IInv'
<1>0. RequestTypes /\ (r \in mixed \/ Own(r)) /\ Strtok(r) /\ pc[r] = "range"
  BY DEF IInv, BytesInv, RangeUnit
<1>1. CASE Spoil(r)
  BY <1>0, <1>1, CrashIInv DEF Spoil
<1>2. CASE ~Spoil(r)
  <2>1. /\ range[r] # Nil => saved' = Left(r, range[r].numbers)
        /\ pc' = [pc EXCEPT ![r] = "range rest"]
        /\ UNCHANGED <<lifecycle, pcm, range, conv, got, secs, offset>>
    BY <1>2 DEF RangeUnit, Goto
  <2>4. RequestTypes'
    BY <1>0, <2>1 DEF RequestTypes, Strtok
  <2>5. Frame(r)
    BY <1>0, <2>1 DEF RequestTypes, Frame, Strtok
  <2>6. r \notin mixed' => Own(r)'
    <3>0. SUFFICES ASSUME r \notin mixed' PROVE Own(r)'
      OBVIOUS
    <3>1. Own(r)
      BY <1>0, <3>0 DEF Strtok
    <3>2. offset[r] = 0 /\ got[r] = None /\ (pcm[r] => secs[r] = Seconds)
      BY <1>0, <3>1 DEF Own, OwnParse, OwnAnswer
    <3>3. pc'[r] = "range rest"
      BY <1>0, <2>1 DEF RequestTypes
    <3>4. range'[r] # Nil => saved' = Left(r, range[r].numbers)'
      BY <2>1 DEF Left
    <3>5. /\ offset'[r] = 0 /\ (pcm'[r] => secs'[r] = Seconds)
          /\ got'[r] = None /\ got'[r].by # "stream"
      BY <2>1, <3>2, NoAnswer
    <3> QED BY <3>3, <3>4, <3>5 DEF Own, OwnParse, OwnAnswer
  <2> QED BY <2>4, <2>5, <2>6, FrameIInv
<1> QED BY <1>1, <1>2

LEMMA RangeOffsetIInv == ASSUME IInv, NEW r \in Requests, RangeOffset(r) PROVE IInv'
<1>0. RequestTypes /\ (r \in mixed \/ Own(r)) /\ Strtok(r) /\ pc[r] = "range rest"
  BY DEF IInv, BytesInv, RangeOffset
<1>1. CASE Crash
  BY <1>0, <1>1, CrashIInv
<1>2. CASE ~Crash
  <2>1. /\ range[r] = Nil => offset' = offset
        /\ range[r] # Nil => saved # Nil /\ offset' = [offset EXCEPT ![r] = Head(saved.left)]
        /\ pc' = [pc EXCEPT ![r] = "answer"]
        /\ UNCHANGED <<lifecycle, pcm, range, conv, got, secs>>
    BY <1>2 DEF RangeOffset, Spoil, Goto
  <2>4. RequestTypes'
    BY <1>0, <2>1 DEF RequestTypes, Strtok
  <2>5. Frame(r)
    BY <1>0, <2>1 DEF RequestTypes, Frame, Strtok
  <2>6. r \notin mixed' => Own(r)'
    <3>0. SUFFICES ASSUME r \notin mixed' PROVE Own(r)'
      OBVIOUS
    <3>1. Own(r)
      BY <1>0, <3>0 DEF Strtok
    <3>2. /\ offset[r] = 0 /\ got[r] = None /\ (pcm[r] => secs[r] = Seconds)
          /\ range[r] # Nil => saved = Left(r, range[r].numbers)
      BY <1>0, <3>1 DEF Own, OwnParse, OwnAnswer
    <3>3. pc'[r] = "answer"
      BY <1>0, <2>1 DEF RequestTypes
    <3>4. offset'[r] = Asked(r)
      <4>1. CASE range[r] = Nil
        BY <2>1, <3>2, <4>1 DEF Asked
      <4>2. CASE range[r] # Nil
        <5>1. range[r].numbers # <<>> /\ saved.left = range[r].numbers
          BY <2>1, <3>2, <4>2 DEF Left
        <5>2. offset'[r] = Head(range[r].numbers)
          BY <1>0, <2>1, <4>2, <5>1 DEF RequestTypes
        <5> QED BY <4>2, <5>1, <5>2 DEF Asked
      <4> QED BY <4>1, <4>2
    <3>5. Asked(r)' = Asked(r)
      BY <2>1 DEF Asked
    <3>6. (pcm'[r] => secs'[r] = Seconds) /\ got'[r] = None /\ got'[r].by # "stream"
      BY <2>1, <3>2, NoAnswer
    <3> QED BY <3>3, <3>4, <3>5, <3>6 DEF Own, OwnParse, OwnAnswer
  <2> QED BY <2>4, <2>5, <2>6, FrameIInv
<1> QED BY <1>1, <1>2

\* The length that an answer tells is that of the rest.
LEMMA RestLength ==
  ASSUME RequestTypes, NEW r \in Requests, Asked(r) <= Length(r)
  PROVE  (Length(r) - Asked(r)) % Width = Length(r) - Asked(r)
<1>1. Length(r) \in Nat /\ Length(r) < Width /\ Asked(r) \in Nat
  BY Numbers, SongBytes, AskedIsNat DEF Length
<1>2. Length(r) - Asked(r) \in Nat /\ Length(r) - Asked(r) < Width
  BY <1>1, Numbers
<1> QED BY <1>2, Fits

LEMMA AnswerIInv == ASSUME IInv, NEW r \in Requests, Answer(r) PROVE IInv'
<1>0. RequestTypes /\ (r \in mixed \/ Own(r)) /\ pc[r] = "answer" /\ ~pcm[r]
  BY DEF IInv, BytesInv, Answer
<1>1. PICK s : /\ got' = [got EXCEPT ![r] = StreamAnswer(s, Size, offset[r],
                                                        offset[r]..(Size - 1))]
               /\ pc' = [pc EXCEPT ![r] = "end"]
               /\ UNCHANGED <<lifecycle, saved, secs, offset, mixed, pcm, range, conv>>
  BY DEF Answer, Goto, parsing
<1>4. RequestTypes'
  BY <1>0, <1>1 DEF RequestTypes, StreamAnswer
<1>5. Frame(r)
  BY <1>0, <1>1 DEF RequestTypes, Frame
<1>6. r \notin mixed' => Own(r)'
  <2>0. SUFFICES ASSUME r \notin mixed' PROVE Own(r)'
    OBVIOUS
  <2>1. offset[r] = Asked(r) /\ Length(r) = Size
    BY <1>0, <1>1, <2>0 DEF Own, OwnParse, Length
  <2>2. /\ pc'[r] = "end" /\ ~pcm'[r] /\ got'[r].sent = Asked(r)..(Size - 1)
        /\ got'[r].length = (Length(r) - Asked(r)) % Width
    BY <1>0, <1>1, <2>1 DEF RequestTypes, StreamAnswer
  <2>3. Asked(r)' = Asked(r) /\ Length(r)' = Length(r)
    BY <1>1 DEF Asked, Length
  <2>4. Asked(r) <= Length(r) => got'[r].length = Length(r) - Asked(r)
    BY <1>0, <2>2, RestLength
  <2> QED BY <2>2, <2>3, <2>4 DEF Own, OwnParse, OwnAnswer
<1> QED BY <1>4, <1>5, <1>6, FrameIInv

LEMMA NoFileIInv == ASSUME IInv, NEW r \in Requests, NoFile(r) PROVE IInv'
<1>0. RequestTypes /\ (r \in mixed \/ Own(r)) /\ pc[r] = "answer"
  BY DEF IInv, BytesInv, NoFile
<1>1. /\ pc' = [pc EXCEPT ![r] = "end"]
      /\ UNCHANGED <<lifecycle, saved, secs, offset, mixed, pcm, range, conv, got>>
  BY DEF NoFile, Goto, parsing
<1>4. RequestTypes'
  BY <1>0, <1>1 DEF RequestTypes
<1>5. Frame(r)
  BY <1>0, <1>1 DEF RequestTypes, Frame
<1>6. r \notin mixed' => Own(r)'
  <2>1. r \notin mixed' => got[r] = None
    BY <1>0, <1>1 DEF Own, OwnAnswer
  <2>2. pc'[r] = "end"
    BY <1>0, <1>1 DEF RequestTypes
  <2>3. r \notin mixed' => got'[r].by # "stream"
    BY <1>1, <2>1, NoAnswer
  <2> QED BY <2>2, <2>3 DEF Own, OwnParse, OwnAnswer
<1> QED BY <1>4, <1>5, <1>6, FrameIInv

-----------------------------------------------------------------------------
(* The conversion of a song.                                               *)

\* A conversion that begins with a frame of the song is where it should be.
LEMMA Begins ==
  ASSUME NEW s \in Nat, s < Frames, NEW a \in Seek(s, 0)
  PROVE  Progress([next |-> s, at |-> a, want |-> Chunk], s, {})
<1>1. a = s
  BY DEF Seek
<1>2. s \in s..Frames /\ Chunk \in Nat \ {0} /\ s..(s - 1) = {}
  BY Numbers
<1> QED BY <1>1, <1>2 DEF Progress

\* A chunk that is read and sent takes it further.
LEMMA GoesOn ==
  ASSUME NEW c, NEW s \in Nat, NEW sent, s < Frames, Progress(c, s, sent), Read(c) # 0,
         NEW a \in Seek(c.next + c.want + 1, c.at + Read(c))
  PROVE  /\ Progress([next |-> c.next + c.want, at |-> a, want |-> Read(c)], s,
                     sent \cup c.at..(c.at + Read(c) - 1))
         /\ c.at..(c.at + Read(c) - 1) \subseteq s..(Frames - 1)
<1> DEFINE n == Read(c)
           t == c.next + c.want + 1
           d == [next |-> c.next + c.want, at |-> a, want |-> n]
           now == sent \cup c.at..(c.at + n - 1)
<1>1. /\ c.next \in Nat /\ c.at \in Nat /\ c.at >= s /\ c.at <= Frames
      /\ c.want \in Nat /\ c.want > 0 /\ Frames \in Nat /\ Chunk \in Nat /\ Chunk > 0
  BY Numbers DEF Progress
<1>2. /\ n \in Nat /\ n > 0 /\ c.at + n <= Frames /\ n <= c.want
      /\ n = c.want \/ c.at + n = Frames
  BY <1>1 DEF Read
<1>3. t \in Nat /\ (t < Frames => a = t) /\ (t >= Frames => a = c.at + n \/ a = Frames)
  BY <1>1 DEF Seek
<1>4. \/ c.at = s /\ c.next = s /\ c.want = Chunk
      \/ c.at = c.next + 1
      \/ c.next + 1 >= Frames /\ c.at >= Frames - 1
  BY DEF Progress
<1> HIDE DEF n, t
<1>5. a \in Nat /\ a >= c.at + n /\ a <= Frames
  BY <1>1, <1>2, <1>3, <1>4 DEF t
<1>6. \/ a = c.at + n
      \/ a = c.at + n + 1 /\ c.at + n = s + Chunk
  BY <1>1, <1>2, <1>3, <1>4 DEF t
<1>7. \/ a = c.next + c.want + 1
      \/ c.next + c.want + 1 >= Frames /\ a >= Frames - 1
  BY <1>1, <1>2, <1>3, <1>4, <1>5 DEF t
<1>8. ASSUME NEW f \in s..(a - 1) PROVE f = s + Chunk \/ f \in now
  <2>1. f \in Nat /\ f >= s /\ f < a
    BY <1>5
  <2>2. CASE f < c.at
    BY <1>1, <2>1, <2>2 DEF Progress
  <2>3. CASE f >= c.at /\ f < c.at + n
    BY <1>1, <1>2, <2>1, <2>3
  <2>4. CASE f >= c.at + n
    BY <1>1, <1>2, <1>6, <2>1, <2>4
  <2> QED BY <1>1, <1>2, <2>1, <2>2, <2>3, <2>4
<1>9. d.next \in Nat /\ d.at \in s..Frames /\ d.want \in Nat \ {0}
  BY <1>1, <1>2, <1>5
<1>10. \/ d.at = d.next + 1
       \/ d.next + 1 >= Frames /\ d.at >= Frames - 1
  BY <1>7
<1>11. \A f \in s..(d.at - 1) : f = s + Chunk \/ f \in now
  BY <1>8
<1>12. Progress(d, s, now)
  BY <1>9, <1>10, <1>11 DEF Progress
<1>13. c.at..(c.at + n - 1) \subseteq s..(Frames - 1)
  BY <1>1, <1>2
<1> QED BY <1>12, <1>13 DEF n

\* Where nothing is left to read all has been sent but one frame.
LEMMA Ends ==
  ASSUME NEW c, NEW s \in Nat, NEW sent, Progress(c, s, sent), Read(c) = 0
  PROVE  (s..(Frames - 1)) \ {s + Chunk} \subseteq sent
<1>1. c.at \in s..Frames /\ c.want \in Nat \ {0} /\ Frames \in Nat
  BY Numbers DEF Progress
<1>2. c.at = Frames
  BY <1>1 DEF Read
<1> QED BY <1>2 DEF Progress

LEMMA AnswerConvertedIInv == ASSUME IInv, NEW r \in Requests, AnswerConverted(r) PROVE IInv'
<1> DEFINE s == offset[r] \div FrameBytes
<1>0. RequestTypes /\ (r \in mixed \/ Own(r)) /\ pc[r] = "answer" /\ pcm[r]
  BY DEF IInv, BytesInv, AnswerConverted
<1>1. PICK a \in Seek(s, 0) : conv' = [conv EXCEPT ![r] = [next |-> s, at |-> a, want |-> Chunk]]
  BY DEF AnswerConverted
<1>2. /\ got' = [got EXCEPT ![r] = ConvertedAnswer(r)]
      /\ pc' = [pc EXCEPT ![r] = "convert"]
      /\ UNCHANGED <<lifecycle, saved, secs, offset, mixed, pcm, range>>
  BY DEF AnswerConverted, Goto, parsing
<1>4. RequestTypes'
  BY <1>0, <1>1, <1>2 DEF RequestTypes, ConvertedAnswer, StreamAnswer
<1>5. Frame(r)
  BY <1>0, <1>1, <1>2 DEF RequestTypes, Frame
<1>6. r \notin mixed' => Own(r)'
  <2>0. SUFFICES ASSUME r \notin mixed' PROVE Own(r)'
    OBVIOUS
  <2>1. offset[r] = Asked(r) /\ Length(r) = Rate * FrameBytes * secs[r]
    BY <1>0, <1>2, <2>0 DEF Own, OwnParse, Length
  <2>2. /\ pc'[r] = "convert" /\ pcm'[r] /\ got'[r].sent = {}
        /\ got'[r].length = (Length(r) - Asked(r)) % Width
    BY <1>0, <1>2, <2>1 DEF RequestTypes, ConvertedAnswer, StreamAnswer
  <2>3. Asked(r)' = Asked(r) /\ Length(r)' = Length(r) /\ AskedFrames(r)' = AskedFrames(r)
    BY <1>2 DEF Asked, Length, AskedFrames
  <2>4. Asked(r) <= Length(r) => got'[r].length = Length(r) - Asked(r)
    BY <1>0, <2>2, RestLength
  <2>5. AskedFrames(r) # {} => Converted(r)'
    <3>0. SUFFICES ASSUME AskedFrames(r) # {} PROVE Converted(r)'
      OBVIOUS
    <3>1. s \in Nat /\ s = Asked(r) \div FrameBytes
      BY <1>0, <2>1, AskedIsNat, Quotient
    <3>2. s < Frames
      BY <3>0, <3>1, Numbers DEF AskedFrames
    <3>3. Progress([next |-> s, at |-> a, want |-> Chunk], s, {})
      BY <3>1, <3>2, Begins
    <3>4. conv'[r] = [next |-> s, at |-> a, want |-> Chunk]
      BY <1>0, <1>1 DEF RequestTypes
    <3>5. Progress(conv'[r], s, got'[r].sent)
      BY <2>2, <3>3, <3>4
    <3> QED BY <2>2, <2>3, <3>1, <3>5 DEF Converted, Progress
  <2> QED BY <2>2, <2>3, <2>4, <2>5 DEF Own, OwnParse, OwnAnswer
<1> QED BY <1>4, <1>5, <1>6, FrameIInv

LEMMA NoSongIInv == ASSUME IInv, NEW r \in Requests, NoSong(r) PROVE IInv'
<1>0. RequestTypes /\ (r \in mixed \/ Own(r)) /\ pc[r] = "answer" /\ pcm[r]
  BY DEF IInv, BytesInv, NoSong
<1>2. /\ got' = [got EXCEPT ![r] = ConvertedAnswer(r)]
      /\ pc' = [pc EXCEPT ![r] = "unread"]
      /\ UNCHANGED <<lifecycle, saved, secs, offset, mixed, pcm, range, conv>>
  BY DEF NoSong, Goto, parsing
<1>4. RequestTypes'
  BY <1>0, <1>2 DEF RequestTypes, ConvertedAnswer, StreamAnswer
<1>5. Frame(r)
  BY <1>0, <1>2 DEF RequestTypes, Frame
<1>6. r \notin mixed' => Own(r)'
  <2>0. SUFFICES ASSUME r \notin mixed' PROVE Own(r)'
    OBVIOUS
  <2>1. offset[r] = Asked(r) /\ Length(r) = Rate * FrameBytes * secs[r]
    BY <1>0, <1>2, <2>0 DEF Own, OwnParse, Length
  <2>2. /\ pc'[r] = "unread" /\ pcm'[r] /\ got'[r].sent = {}
        /\ got'[r].length = (Length(r) - Asked(r)) % Width
    BY <1>0, <1>2, <2>1 DEF RequestTypes, ConvertedAnswer, StreamAnswer
  <2>3. Asked(r)' = Asked(r) /\ Length(r)' = Length(r)
    BY <1>2 DEF Asked, Length
  <2>4. Asked(r) <= Length(r) => got'[r].length = Length(r) - Asked(r)
    BY <1>0, <2>2, RestLength
  <2>5. Converted(r)'
    BY <2>2 DEF Converted
  <2> QED BY <2>2, <2>3, <2>4, <2>5 DEF Own, OwnParse, OwnAnswer
<1> QED BY <1>4, <1>5, <1>6, FrameIInv

LEMMA ConvertIInv == ASSUME IInv, NEW r \in Requests, Convert(r) PROVE IInv'
<1> DEFINE c == conv[r]
           n == Read(c)
           s == Asked(r) \div FrameBytes
<1>0. RequestTypes /\ (r \in mixed \/ Own(r)) /\ pc[r] = "convert"
  BY DEF IInv, BytesInv, Convert
<1>1. UNCHANGED <<lifecycle, saved, secs, offset, mixed, pcm, range>>
  BY DEF Convert, parsing
<1>2. /\ Asked(r)' = Asked(r) /\ Length(r)' = Length(r) /\ AskedFrames(r)' = AskedFrames(r)
      /\ s \in Nat /\ (AskedFrames(r) # {} => s < Frames)
  <2>1. s \in Nat
    BY <1>0, AskedIsNat, Quotient
  <2> QED BY <1>1, <2>1, Numbers DEF Asked, Length, AskedFrames
<1>3. CASE n = 0
  <2>1. pc' = [pc EXCEPT ![r] = "end"] /\ conv' = [conv EXCEPT ![r] = Idle] /\ got' = got
    BY <1>3 DEF Convert, Goto
  <2>4. RequestTypes'
    BY <1>0, <1>1, <2>1 DEF RequestTypes
  <2>5. Frame(r)
    BY <1>0, <1>1, <2>1 DEF RequestTypes, Frame
  <2>6. r \notin mixed' => Own(r)'
    <3>0. SUFFICES ASSUME r \notin mixed' PROVE Own(r)'
      OBVIOUS
    <3>1. Own(r)
      BY <1>0, <1>1, <3>0
    <3>2. pc'[r] = "end"
      BY <1>0, <2>1 DEF RequestTypes
    <3>3. ASSUME got[r].by = "stream", AskedFrames(r) # {} PROVE Converted(r)'
      <4>1. Progress(c, s, got[r].sent) /\ got[r].sent \subseteq s..(Frames - 1)
        BY <1>0, <3>1, <3>3 DEF Own, OwnAnswer, Converted
      <4>2. (s..(Frames - 1)) \ {s + Chunk} \subseteq got[r].sent
        BY <1>2, <1>3, <4>1, Ends
      <4> QED BY <1>2, <2>1, <3>2, <4>1, <4>2 DEF Converted
    <3>4. pcm[r]
      BY <1>0, <3>1 DEF Own, OwnAnswer
    <3>5. OwnAnswer(r)'
      BY <1>1, <1>2, <2>1, <3>1, <3>2, <3>3, <3>4 DEF Own, OwnAnswer
    <3> QED BY <3>2, <3>5 DEF Own, OwnParse
  <2> QED BY <2>4, <2>5, <2>6, FrameIInv
<1>4. CASE n # 0
  <2>1. PICK a \in Seek(c.next + c.want + 1, c.at + n) :
          conv' = [conv EXCEPT ![r] = [next |-> c.next + c.want, at |-> a, want |-> n]]
    BY <1>4 DEF Convert
  <2>2. got' = [got EXCEPT ![r].sent = @ \cup c.at..(c.at + n - 1)] /\ pc' = pc
    BY <1>4 DEF Convert
  <2>4. RequestTypes'
    BY <1>0, <1>1, <2>1, <2>2 DEF RequestTypes
  <2>5. Frame(r)
    BY <1>0, <1>1, <2>1, <2>2 DEF RequestTypes, Frame
  <2>6. r \notin mixed' => Own(r)'
    <3>0. SUFFICES ASSUME r \notin mixed' PROVE Own(r)'
      OBVIOUS
    <3>1. Own(r) /\ pcm[r]
      BY <1>0, <1>1, <3>0 DEF Own, OwnAnswer
    <3>2. /\ conv'[r] = [next |-> c.next + c.want, at |-> a, want |-> n]
          /\ got'[r] = [got[r] EXCEPT !.sent = @ \cup c.at..(c.at + n - 1)]
      BY <1>0, <2>1, <2>2 DEF RequestTypes
    <3>3. ASSUME got'[r].by = "stream"
          PROVE  got[r].by = "stream" /\ got'[r].length = got[r].length
      <4>1. got[r].by = "stream" \/ "by" \notin DOMAIN got[r]
        BY <3>2, <3>3
      <4> QED BY <3>2, <3>3, <4>1
    <3>4. ASSUME got'[r].by = "stream", AskedFrames(r) # {} PROVE Converted(r)'
      <4>1. Progress(c, s, got[r].sent) /\ got[r].sent \subseteq s..(Frames - 1)
        BY <1>0, <3>1, <3>3, <3>4 DEF Own, OwnAnswer, Converted
      <4>2. got'[r].sent = got[r].sent \cup c.at..(c.at + n - 1)
        BY <3>2
      <4>3. Progress(conv'[r], s, got'[r].sent) /\ c.at..(c.at + n - 1) \subseteq s..(Frames - 1)
        BY <1>2, <1>4, <2>1, <3>2, <3>4, <4>1, <4>2, GoesOn
      <4> QED BY <1>0, <1>2, <2>2, <4>1, <4>2, <4>3 DEF Converted, Progress
    <3>5. OwnAnswer(r)'
      BY <1>0, <1>1, <1>2, <2>2, <3>1, <3>3, <3>4 DEF Own, OwnAnswer
    <3> QED BY <1>0, <2>2, <3>5 DEF Own, OwnParse
  <2> QED BY <2>4, <2>5, <2>6, FrameIInv
<1> QED BY <1>3, <1>4

-----------------------------------------------------------------------------

LEMMA NextIInv == IInv /\ [Next]_vars => IInv'
<1> SUFFICES ASSUME IInv, [Next]_vars PROVE IInv'
  OBVIOUS
<1>1. CASE Start
  BY <1>1, StartIInv
<1>2. CASE StartNext
  BY <1>2, OpenMainIInv, OpenMainFailsIInv, OpenStreamIInv, OpenStreamFailsIInv, ReturnIInv
     DEF StartNext
<1>3. CASE Stop
  BY <1>3, StopIInv
<1>4. CASE Change
  BY <1>4, ChangeIInv
<1>5. ASSUME NEW r \in Requests, RequestNext(r) PROVE IInv'
  BY <1>5, FetchIInv, UrlPathIInv, UrlDurationIInv, RangeUnitIInv, RangeOffsetIInv,
     AnswerIInv, NoFileIInv, AnswerConvertedIInv, NoSongIInv, ConvertIInv DEF RequestNext
<1>6. CASE UNCHANGED vars
  <2>1. UNCHANGED lifecycle /\ UNCHANGED <<parsing, request>>
    BY <1>6 DEF vars
  <2> QED BY <2>1, PortsRest, RequestsRest DEF IInv
<1> QED BY <1>1, <1>2, <1>3, <1>4, <1>5, <1>6 DEF Next

THEOREM Invariance == Spec => []IInv
BY InitIInv, NextIInv, PTL DEF Spec

\* For any network interfaces and ports in use: after a start the song URLs lead to a
\* streaming server, and to a main server only if a port changed hands meanwhile (the
\* port search of cg_upnp_av_server_device_start).
THEOREM SongPortHolds == Spec => []SongPort
<1>1. IInv => SongPort
  BY DEF IInv, PortInv, SongPort, Streams, Free
<1> QED BY <1>1, Invariance, PTL

\* For any number of requests, any ranges and any song: a request whose calls of strtok no
\* other request has come between, and which does not ask for a suffix, gets the length and
\* the bytes it asked for; of a converted song it gets every frame from that of the first
\* byte on but the one after the first chunk, for any size of the chunks.
THEOREM BytesAreOwn == Spec => []OwnBytes
<1>1. IInv => OwnBytes
  <2>1. SUFFICES ASSUME IInv, NEW r \in Requests \ mixed, got[r].by = "stream"
                 PROVE  /\ Asked(r) <= Length(r) => got[r].length = Length(r) - Asked(r)
                        /\ ~pcm[r] => got[r].sent = Asked(r)..(Size - 1)
                        /\ pcm[r] /\ AskedFrames(r) # {} =>
                             /\ got[r].sent \subseteq AskedFrames(r)
                             /\ pc[r] = "end" =>
                                  AskedFrames(r) \ {Asked(r) \div FrameBytes + Chunk}
                                    \subseteq got[r].sent
    BY DEF OwnBytes, Length
  <2>2. OwnAnswer(r)
    BY <2>1 DEF IInv, BytesInv, Own
  <2> QED BY <2>1, <2>2 DEF OwnAnswer, Converted, AskedFrames
<1> QED BY <1>1, Invariance, PTL

-----------------------------------------------------------------------------
(* Types, and how far the search for a port goes.                          *)

Used == main \cup stream \cup taken

\* No socket has this port or a later one: it opens on every interface.
Fresh(p) == p > MaxTaken /\ \A s \in Used : s[2] < p

\* The bound for the port once the n-th start has returned.
Reach(n) == MaxTaken + 1 + 2 * n

\* A start moves the port by one for its main servers and by one for its streaming servers,
\* beyond the ports of other programs: a port above all sockets is always taken, and no
\* socket is above the port but those of other programs.
SearchInv ==
  /\ starts \in 0..MaxStarts
  /\ port \in Nat /\ port > 0 /\ currentPort \in 0..Reach(MaxStarts)
  /\ Used \subseteq Ifs \X (Nat \ {0})
  /\ \A s \in Used : s[2] <= MaxTaken \/ s[2] <= port
  /\ app \in {"off", "on", "return"} => port <= Reach(starts)
  /\ app = "main" => starts > 0
  /\ app = "main" =>
       \/ port <= Reach(starts) - 2
       \/ port = Reach(starts) - 1 /\ Fresh(port)
  /\ app = "stream" =>
       \/ port <= Reach(starts) - 1
       \/ port = Reach(starts) /\ Fresh(port)

LifeType ==
  /\ app \in {"off", "main", "stream", "return", "on"}
  /\ changes \in 0..MaxChanges /\ steady \in BOOLEAN

Answers == [by : {"none", "main", "stream"}, status : {0, 200, 206},
            length : 0..(Width - 1), sent : SUBSET Nat]

\* The static pointer is null or somewhere in the string of a request.
Pointers == [of : Requests, left : Seq(Nat) \ {<<>>}] \cup {Nil}

Conversions == [next : Nat, at : 0..Frames, want : 0..Chunk]

RequestType ==
  /\ saved \in Pointers
  /\ pc \in [Requests -> {"none", "url", "url rest", "range", "range rest", "answer",
                          "convert", "unread", "end"}]
  /\ pcm \in [Requests -> BOOLEAN] /\ range \in [Requests -> Ranges \cup {Nil}]
  /\ secs \in [Requests -> Nat] /\ offset \in [Requests -> Nat]
  /\ conv \in [Requests -> Conversions]
  /\ got \in [Requests -> Answers]
  /\ mixed \in SUBSET Requests /\ crash \in BOOLEAN

TInv == LifeType /\ SearchInv /\ RequestType

LEMMA Bounds == MaxTaken \in Nat /\ MaxStarts \in Nat /\ MaxChanges \in Nat /\ Ifs # {}
BY MediaAssumption, InterfaceAssumption

LEMMA OneNumber == \A n \in Nat : <<n>> \in Seq(Nat)
OBVIOUS

LEMMA TailOfNumbers == \A s \in Seq(Nat) : s # <<>> => Tail(s) \in Seq(Nat)
OBVIOUS

LEMMA LeftType ==
  ASSUME NEW r \in Requests, NEW n \in Seq(Nat) PROVE Left(r, n) \in Pointers
BY DEF Left, Pointers

LEMMA Remainder == ASSUME NEW n \in Int PROVE n % Width \in 0..(Width - 1)
BY Numbers

LEMMA TInvTypes == TInv => TypeOK
<1> SUFFICES ASSUME TInv PROVE TypeOK
  OBVIOUS
<1>1. port <= Reach(MaxStarts)
  BY Bounds DEF TInv, LifeType, SearchInv, Reach
<1>2. port \in Ports
  BY <1>1, Bounds DEF TInv, SearchInv, Reach, Ports
<1>3. currentPort \in 0..(MaxTaken + 2 * MaxStarts + 1)
  BY Bounds DEF TInv, SearchInv, Reach
<1>4. ASSUME NEW s \in Used PROVE s \in Sockets
  <2>1. PICK i \in Ifs, p \in Nat : s = <<i, p>> /\ p > 0 /\ (p <= MaxTaken \/ p <= port)
    BY <1>4 DEF TInv, SearchInv
  <2>2. p \in Ports
    BY <1>1, <2>1, Bounds DEF TInv, SearchInv, Reach, Ports
  <2> QED BY <2>1, <2>2 DEF Sockets
<1>5. main \in SUBSET Sockets /\ stream \in SUBSET Sockets /\ taken \in SUBSET Sockets
  BY <1>4 DEF Used
<1> QED BY <1>2, <1>3, <1>5
     DEF TInv, LifeType, SearchInv, RequestType, Answers, Conversions, Pointers, TypeOK

LEMMA InitTInv == Init => TInv
<1> SUFFICES ASSUME Init PROVE TInv
  OBVIOUS
<1>1. LifeType
  BY Bounds DEF Init, LifeType
<1>2. SearchInv
  <2>1. ASSUME NEW s \in Used PROVE s \in Ifs \X (Nat \ {0}) /\ s[2] <= MaxTaken
    BY Bounds DEF Init, Used
  <2> QED BY <2>1, Bounds DEF Init, SearchInv, Reach
<1>3. RequestType
  <2>1. None \in Answers /\ Idle \in Conversions
    <3>1. 0 \in 0..(Width - 1) /\ 0 \in 0..Frames /\ 0 \in 0..Chunk
      BY Numbers
    <3> QED BY <3>1 DEF None, Answers, Idle, Conversions
  <2> QED BY <2>1 DEF Init, RequestType, Pointers
<1> QED BY <1>1, <1>2, <1>3 DEF TInv

\* A fresh port opens, so a port on which no server opens is not fresh; the next one is,
\* unless other programs may use it.
LEMMA FreshOpens == ASSUME SearchInv, Fresh(port) PROVE Opened # {}
<1>1. PICK i \in Ifs : TRUE
  BY Bounds
<1>2. <<i, port>> \notin Used
  BY DEF SearchInv, Fresh
<1> QED BY <1>1, <1>2 DEF Opened, Used

LEMMA NextIsFresh ==
  ASSUME SearchInv, port' = port + 1, Used' \subseteq Used
  PROVE  port' <= MaxTaken \/ Fresh(port)'
<1>1. ASSUME NEW s \in Used PROVE s[2] \in Nat /\ (s[2] <= MaxTaken \/ s[2] < port + 1)
  BY DEF SearchInv
<1>2. port \in Nat /\ MaxTaken \in Nat
  BY Bounds DEF SearchInv
<1> QED BY <1>1, <1>2 DEF Fresh

\* What a step that leaves the requests alone has to keep.
LEMMA LifeTInv ==
  ASSUME TInv, UNCHANGED <<parsing, request>>, LifeType', SearchInv'
  PROVE  TInv'
<1>1. UNCHANGED <<saved, secs, offset, mixed, crash, pc, pcm, range, conv, got>>
  BY DEF parsing, request
<1> QED BY <1>1 DEF TInv, RequestType

LEMMA StartNextTInv == ASSUME TInv, StartNext PROVE TInv'
<1> USE Bounds DEF TInv
<1>0. LifeType'
  BY DEF LifeType, StartNext, OpenMain, OpenMainFails, OpenStream, OpenStreamFails, Return
<1>1. UNCHANGED <<parsing, request>>
  BY DEF StartNext, OpenMain, OpenMainFails, OpenStream, OpenStreamFails, Return
<1>2. Opened \subseteq Ifs \X (Nat \ {0}) /\ \A s \in Opened : s[2] = port
  BY DEF Opened, SearchInv
<1>3. CASE OpenMain
  <2>1. Used' = Used \cup Opened /\ UNCHANGED <<starts, port, currentPort>> /\ app = "main" /\ app' = "stream"
    BY <1>3 DEF OpenMain, Used
  <2>2. port <= Reach(starts) - 1
    BY <2>1 DEF SearchInv, Reach
  <2>3. Used' \subseteq Ifs \X (Nat \ {0}) /\ \A s \in Used' : s[2] <= MaxTaken \/ s[2] <= port'
    BY <1>2, <2>1 DEF SearchInv
  <2>4. SearchInv'
    BY <2>1, <2>2, <2>3 DEF SearchInv, Reach
  <2> QED BY <1>0, <1>1, <2>4, LifeTInv
<1>4. CASE OpenMainFails
  <2>1. Used' = Used /\ port' = port + 1 /\ UNCHANGED <<starts, currentPort>> /\ app = "main" /\ app' = "main"
    BY <1>4 DEF OpenMainFails, NextPort, Used
  <2>2. port <= Reach(starts) - 2
    BY <1>4, <2>1, FreshOpens DEF OpenMainFails, SearchInv
  <2>3. port' <= MaxTaken \/ Fresh(port)'
    BY <2>1, NextIsFresh
  <2>4. Used' \subseteq Ifs \X (Nat \ {0}) /\ \A s \in Used' : s[2] <= MaxTaken \/ s[2] <= port'
    BY <2>1 DEF SearchInv
  <2>5. starts' \in Nat /\ port' \in Nat /\ port' <= Reach(starts') - 1
    BY <2>1, <2>2 DEF SearchInv, Reach
  <2>6. port' <= Reach(starts') - 2 \/ (port' = Reach(starts') - 1 /\ Fresh(port)')
    BY <2>1, <2>3, <2>5 DEF SearchInv, Reach
  <2>7. SearchInv'
    BY <2>1, <2>4, <2>5, <2>6 DEF SearchInv
  <2> QED BY <1>0, <1>1, <2>7, LifeTInv
<1>5. CASE OpenStream
  <2>1. Used' = Used \cup Opened /\ UNCHANGED <<starts, port, currentPort>> /\ app = "stream" /\ app' = "return"
    BY <1>5 DEF OpenStream, Used
  <2>2. port <= Reach(starts)
    BY <2>1 DEF SearchInv, Reach
  <2>3. Used' \subseteq Ifs \X (Nat \ {0}) /\ \A s \in Used' : s[2] <= MaxTaken \/ s[2] <= port'
    BY <1>2, <2>1 DEF SearchInv
  <2>4. SearchInv'
    BY <2>1, <2>2, <2>3 DEF SearchInv, Reach
  <2> QED BY <1>0, <1>1, <2>4, LifeTInv
<1>6. CASE OpenStreamFails
  <2>1. Used' \subseteq Used /\ port' = port + 1 /\ UNCHANGED <<starts, currentPort>> /\ app = "stream" /\ app' = "stream"
    BY <1>6 DEF OpenStreamFails, NextPort, Release, Used
  <2>2. port <= Reach(starts) - 1
    BY <1>6, <2>1, FreshOpens DEF OpenStreamFails, SearchInv
  <2>3. port' <= MaxTaken \/ Fresh(port)'
    BY <2>1, NextIsFresh
  <2>4. Used' \subseteq Ifs \X (Nat \ {0}) /\ \A s \in Used' : s[2] <= MaxTaken \/ s[2] <= port'
    BY <2>1 DEF SearchInv
  <2>5. starts' \in Nat /\ port' \in Nat /\ port' <= Reach(starts')
    BY <2>1, <2>2 DEF SearchInv, Reach
  <2>6. port' <= Reach(starts') - 1 \/ (port' = Reach(starts') /\ Fresh(port)')
    BY <2>1, <2>3, <2>5 DEF SearchInv, Reach
  <2>7. SearchInv'
    BY <2>1, <2>4, <2>5, <2>6 DEF SearchInv
  <2> QED BY <1>0, <1>1, <2>7, LifeTInv
<1>7. CASE Return
  <2>1. Used' = Used /\ UNCHANGED <<starts, port>> /\ currentPort' = port /\ app = "return" /\ app' = "on"
    BY <1>7 DEF Return, Used, lists
  <2>2. currentPort' \in 0..Reach(MaxStarts)
    BY <2>1 DEF SearchInv, Reach
  <2>3. SearchInv'
    BY <2>1, <2>2 DEF SearchInv
  <2> QED BY <1>0, <1>1, <2>3, LifeTInv
<1> QED BY <1>3, <1>4, <1>5, <1>6, <1>7 DEF StartNext

LEMMA OthersTInv == ASSUME TInv, Start \/ Stop \/ Change PROVE TInv'
<1> USE Bounds DEF TInv
<1>0. LifeType'
  <2>1. CASE Start
    BY <2>1 DEF LifeType, Start
  <2>2. CASE Stop
    BY <2>2 DEF LifeType, Stop
  <2>3. CASE Change
    <3>1. changes' = changes + 1 /\ changes < MaxChanges /\ app' = app /\ steady' = FALSE
      BY <2>3 DEF Change
    <3>2. changes' \in 0..MaxChanges
      BY <3>1 DEF LifeType
    <3> QED BY <3>1, <3>2 DEF LifeType
  <2> QED BY <2>1, <2>2, <2>3
<1>1. UNCHANGED <<parsing, request>>
  BY DEF Start, Stop, Change
<1>2. CASE Start
  <2>1. Used' \subseteq Used /\ UNCHANGED <<port, currentPort>> /\ starts' = starts + 1
        /\ starts < MaxStarts /\ app \in {"off", "on"} /\ app' = "main"
    BY <1>2 DEF Start, Release, Used
  <2>2. port <= Reach(starts') - 2
    BY <2>1 DEF SearchInv, Reach
  <2>3. SearchInv'
    BY <2>1, <2>2 DEF SearchInv
  <2> QED BY <1>0, <1>1, <2>3, LifeTInv
<1>3. CASE Stop
  <2>1. Used' \subseteq Used /\ UNCHANGED <<port, currentPort, starts>> /\ app = "on" /\ app' = "off"
    BY <1>3 DEF Stop, Release, Used
  <2>2. SearchInv'
    BY <2>1 DEF SearchInv
  <2> QED BY <1>0, <1>1, <2>2, LifeTInv
<1>4. CASE Change
  <2>1. PICK n \in Ifs \X (1..MaxTaken) : taken' \in SUBSET (taken \cup {n})
    BY <1>4 DEF Change
  <2>2. Used' \subseteq Used \cup {n} /\ n \in Ifs \X (Nat \ {0}) /\ n[2] <= MaxTaken
        /\ UNCHANGED <<port, currentPort, starts, app>>
    BY <1>4, <2>1 DEF Change, Used
  <2>3. Fresh(port) => Fresh(port)'
    BY <2>2 DEF Fresh, SearchInv
  <2>4. SearchInv'
    BY <2>2, <2>3 DEF SearchInv
  <2> QED BY <1>0, <1>1, <2>4, LifeTInv
<1> QED BY <1>2, <1>3, <1>4

\* What a step of a request keeps of the rest.
LEMMA RequestLife ==
  ASSUME TInv, NEW r \in Requests, RequestNext(r)
  PROVE  LifeType' /\ SearchInv'
<1>1. UNCHANGED lifecycle
  BY DEF RequestNext, Fetch, UrlPath, UrlDuration, RangeUnit, RangeOffset, Answer, NoFile,
         AnswerConverted, NoSong, Convert, Spoil, Crash
<1> QED BY <1>1 DEF TInv, lifecycle, lists, LifeType, SearchInv, Used, Fresh

LEMMA MixedType == ASSUME RequestType, NEW r, Strtok(r) PROVE mixed' \in SUBSET Requests
BY DEF Strtok, RequestType

\* The pointer goes on in a string.
LEMMA GoOnType == ASSUME RequestType, GoOn PROVE saved' \in Pointers
<1>1. saved \in Pointers /\ Nil \in Pointers
  BY DEF RequestType, Pointers
<1>2. CASE saved # Nil /\ saved' = Left(saved.of, Tail(saved.left))
  <2>1. saved.of \in Requests /\ saved.left \in Seq(Nat) /\ saved.left # <<>>
    BY <1>1, <1>2 DEF Pointers
  <2> QED BY <1>2, <2>1, TailOfNumbers, LeftType
<1> QED BY <1>1, <1>2 DEF GoOn

LEMMA CrashType == ASSUME RequestType, NEW r, Strtok(r), Crash PROVE RequestType'
<1>1. crash' = TRUE /\ UNCHANGED <<saved, secs, offset, pc, pcm, range, conv, got>>
  BY DEF Crash, request
<1> QED BY <1>1, MixedType DEF RequestType

LEMMA FetchType ==
  ASSUME RequestType, NEW r \in Requests, NEW i \in Ifs, Fetch(r, i)
  PROVE  RequestType'
<1>1. UNCHANGED <<saved, secs, offset, mixed, crash, conv>>
  BY DEF Fetch, parsing
<1>2. PICK l \in {"url", "range", "end"} : pc' = [pc EXCEPT ![r] = l]
  BY DEF Fetch, Goto
<1>3. \/ UNCHANGED <<pcm, range>>
      \/ \E c \in BOOLEAN, h \in Ranges \cup {Nil} :
           pcm' = [pcm EXCEPT ![r] = c] /\ range' = [range EXCEPT ![r] = h]
  BY DEF Fetch
<1>4. pcm' \in [Requests -> BOOLEAN] /\ range' \in [Requests -> Ranges \cup {Nil}]
  <2>1. pcm \in [Requests -> BOOLEAN] /\ range \in [Requests -> Ranges \cup {Nil}]
    BY DEF RequestType
  <2> QED BY <1>3, <2>1
<1>5. got' \in [Requests -> Answers]
  <2>1. got' = got \/ \E n \in {0, Size} : got' = [got EXCEPT ![r] = MainAnswer(n)]
    BY DEF Fetch
  <2>2. \A n \in {0, Size} : n \in 0..(Width - 1) /\ 0..(n - 1) \subseteq Nat
    BY Numbers
  <2>3. \A n \in {0, Size} : MainAnswer(n) \in Answers
    BY <2>2 DEF MainAnswer, Answers
  <2>4. got \in [Requests -> Answers]
    BY DEF RequestType
  <2> QED BY <2>1, <2>3, <2>4
<1> QED BY <1>1, <1>2, <1>4, <1>5 DEF RequestType

LEMMA UrlType ==
  ASSUME RequestType, NEW r \in Requests, UrlPath(r) \/ UrlDuration(r)
  PROVE  RequestType'
<1>1. CASE UrlPath(r)
  <2>1. saved' \in Pointers
    BY <1>1, Numbers, OneNumber, LeftType DEF UrlPath
  <2>2. Strtok(r) /\ pc' = [pc EXCEPT ![r] = "url rest"]
        /\ UNCHANGED <<secs, offset, crash, pcm, range, conv, got>>
    BY <1>1 DEF UrlPath, Goto
  <2> QED BY <2>1, <2>2, MixedType DEF RequestType, Pointers
<1>2. CASE UrlDuration(r) /\ saved # Nil
  <2>1. saved.left \in Seq(Nat) /\ saved.left # <<>>
    BY <1>2 DEF RequestType, Pointers
  <2>2. Head(saved.left) \in Nat
    BY <2>1, HeadIsNat
  <2>3. /\ secs' = [secs EXCEPT ![r] = Head(saved.left)] /\ saved' = Nil
        /\ Strtok(r) /\ pc' = [pc EXCEPT ![r] = "range"]
        /\ UNCHANGED <<offset, crash, pcm, range, conv, got>>
    BY <1>2 DEF UrlDuration, Goto
  <2> QED BY <2>2, <2>3, MixedType DEF RequestType, Pointers
<1>3. CASE UrlDuration(r) /\ saved = Nil
  BY <1>3, CrashType DEF UrlDuration
<1> QED BY <1>1, <1>2, <1>3

LEMMA RangeType ==
  ASSUME RequestType, NEW r \in Requests, RangeUnit(r) \/ RangeOffset(r)
  PROVE  RequestType'
<1>0. CASE Crash
  BY <1>0, CrashType DEF RangeUnit, RangeOffset
<1>1. CASE RangeUnit(r) /\ ~Crash
  <2>1. saved' \in Pointers
    <3>1. CASE range[r] = Nil
      BY <1>1, <3>1, GoOnType DEF RangeUnit, Spoil
    <3>2. CASE range[r] # Nil
      <4>1. range[r] \in Ranges
        BY <3>2 DEF RequestType
      <4>2. range[r].numbers \in Seq(Nat)
        BY <4>1, Numbers
      <4> QED BY <1>1, <3>2, <4>2, LeftType DEF RangeUnit, Spoil
    <3> QED BY <3>1, <3>2
  <2>2. Strtok(r) /\ pc' = [pc EXCEPT ![r] = "range rest"]
        /\ UNCHANGED <<secs, offset, crash, pcm, range, conv, got>>
    BY <1>1 DEF RangeUnit, Spoil, Goto
  <2> QED BY <2>1, <2>2, MixedType DEF RequestType, Pointers
<1>2. CASE RangeOffset(r) /\ ~Crash
  <2>1. Strtok(r) /\ pc' = [pc EXCEPT ![r] = "answer"]
        /\ UNCHANGED <<secs, crash, pcm, range, conv, got>>
    BY <1>2 DEF RangeOffset, Spoil, Goto
  <2>2. saved' \in Pointers /\ offset' \in [Requests -> Nat]
    <3>1. CASE range[r] = Nil
      BY <1>2, <3>1, GoOnType DEF RangeOffset, Spoil, RequestType
    <3>2. CASE range[r] # Nil
      <4>1. /\ saved # Nil /\ offset' = [offset EXCEPT ![r] = Head(saved.left)]
            /\ saved' = Left(saved.of, Tail(saved.left))
        BY <1>2, <3>2 DEF RangeOffset, Spoil
      <4>2. saved.of \in Requests /\ saved.left \in Seq(Nat) /\ saved.left # <<>>
        BY <4>1 DEF RequestType, Pointers
      <4>3. Head(saved.left) \in Nat /\ Tail(saved.left) \in Seq(Nat)
        BY <4>2, HeadIsNat, TailOfNumbers
      <4> QED BY <4>1, <4>2, <4>3, LeftType DEF RequestType
    <3> QED BY <3>1, <3>2
  <2> QED BY <2>1, <2>2, MixedType DEF RequestType, Pointers
<1> QED BY <1>0, <1>1, <1>2

LEMMA StreamAnswerType ==
  ASSUME NEW status \in {200, 206}, NEW whole \in Nat, NEW from \in Nat, NEW sent \in SUBSET Nat
  PROVE  StreamAnswer(status, whole, from, sent) \in Answers
<1>1. whole - from \in Int
  OBVIOUS
<1>2. (whole - from) % Width \in 0..(Width - 1)
  BY <1>1, Remainder
<1> QED BY <1>2 DEF StreamAnswer, Answers

LEMMA ConvertedType ==
  ASSUME RequestType, NEW r \in Requests PROVE ConvertedAnswer(r) \in Answers
<1>1. secs[r] \in Nat /\ offset[r] \in Nat
  BY DEF RequestType
<1>2. Rate * FrameBytes \in Nat
  BY Numbers, Product
<1>3. Rate * FrameBytes * secs[r] \in Nat
  BY <1>1, <1>2, Product
<1> QED BY <1>1, <1>3, StreamAnswerType DEF ConvertedAnswer

LEMMA AnswerType ==
  ASSUME RequestType, NEW r \in Requests, Answer(r) \/ NoFile(r) \/ NoSong(r)
  PROVE  RequestType'
<1>1. UNCHANGED <<saved, secs, offset, mixed, crash, pcm, range, conv>>
  BY DEF Answer, NoFile, NoSong, parsing
<1>2. \E l \in {"end", "unread"} : pc' = [pc EXCEPT ![r] = l]
  BY DEF Answer, NoFile, NoSong, Goto
<1>3. got' \in [Requests -> Answers]
  <2>1. got \in [Requests -> Answers]
    BY DEF RequestType
  <2>2. CASE Answer(r)
    <3>1. offset[r] \in Nat
      BY DEF RequestType
    <3>2. offset[r]..(Size - 1) \in SUBSET Nat
      BY <3>1, Numbers
    <3>3. PICK s \in {200, 206} :
            got' = [got EXCEPT ![r] = StreamAnswer(s, Size, offset[r], offset[r]..(Size - 1))]
      BY <2>2 DEF Answer
    <3>4. StreamAnswer(s, Size, offset[r], offset[r]..(Size - 1)) \in Answers
      BY <3>1, <3>2, Numbers, StreamAnswerType
    <3> QED BY <2>1, <3>3, <3>4
  <2>3. CASE NoFile(r)
    BY <2>1, <2>3 DEF NoFile
  <2>4. CASE NoSong(r)
    BY <2>1, <2>4, ConvertedType DEF NoSong
  <2> QED BY <2>2, <2>3, <2>4
<1> QED BY <1>1, <1>2, <1>3 DEF RequestType

LEMMA AnswerConvertedType ==
  ASSUME RequestType, NEW r \in Requests, AnswerConverted(r) PROVE RequestType'
<1>1. UNCHANGED <<saved, secs, offset, mixed, crash, pcm, range>>
      /\ pc' = [pc EXCEPT ![r] = "convert"]
      /\ got' = [got EXCEPT ![r] = ConvertedAnswer(r)]
  BY DEF AnswerConverted, Goto, parsing
<1>2. got' \in [Requests -> Answers]
  BY <1>1, ConvertedType DEF RequestType
<1>3. PICK n, a : /\ n = offset[r] \div FrameBytes /\ a \in Seek(n, 0)
                  /\ conv' = [conv EXCEPT ![r] = [next |-> n, at |-> a, want |-> Chunk]]
  BY DEF AnswerConverted
<1>4. n \in Nat
  BY <1>3, Quotient DEF RequestType
<1>5. a \in 0..Frames /\ Chunk \in 0..Chunk
  BY <1>3, <1>4, Numbers DEF Seek
<1>6. [next |-> n, at |-> a, want |-> Chunk] \in Conversions
  BY <1>4, <1>5 DEF Conversions
<1>7. conv' \in [Requests -> Conversions]
  BY <1>3, <1>6 DEF RequestType
<1> QED BY <1>1, <1>2, <1>7 DEF RequestType

LEMMA SeekType ==
  ASSUME NEW t \in Nat, NEW b \in 0..Frames, NEW a \in Seek(t, b)
  PROVE  a \in 0..Frames
<1>1. (a = t /\ t < Frames) \/ a = b \/ a = Frames
  BY DEF Seek
<1> QED BY <1>1, Numbers

LEMMA ReadType ==
  ASSUME NEW c, c.at \in 0..Frames, c.want \in 0..Chunk
  PROVE  Read(c) \in 0..Chunk /\ Read(c) \in Nat /\ c.at + Read(c) \in 0..Frames
<1>1. Frames \in Nat /\ Chunk \in Nat /\ c.at \in Nat /\ c.want \in Nat
  BY Numbers
<1>2. CASE c.at + c.want <= Frames
  <2>1. Read(c) = c.want
    BY <1>2 DEF Read
  <2> QED BY <1>1, <1>2, <2>1
<1>3. CASE ~(c.at + c.want <= Frames)
  <2>1. Read(c) = Frames - c.at
    BY <1>3 DEF Read
  <2>2. Frames - c.at \in Nat /\ Frames - c.at <= Chunk /\ c.at + (Frames - c.at) = Frames
    BY <1>1, <1>3
  <2> QED BY <1>1, <2>1, <2>2
<1> QED BY <1>2, <1>3

LEMMA ConvertType ==
  ASSUME RequestType, NEW r \in Requests, Convert(r) PROVE RequestType'
<1> DEFINE c == conv[r]
           n == Read(c)
<1>1. UNCHANGED <<saved, secs, offset, mixed, crash, pcm, range>>
  BY DEF Convert, parsing
<1>2. CASE n = 0
  <2>1. pc' = [pc EXCEPT ![r] = "end"] /\ conv' = [conv EXCEPT ![r] = Idle] /\ got' = got
    BY <1>2 DEF Convert, Goto
  <2>2. 0 \in 0..Frames /\ 0 \in 0..Chunk
    BY Numbers
  <2>3. Idle \in Conversions
    BY <2>2 DEF Idle, Conversions
  <2> QED BY <1>1, <2>1, <2>3 DEF RequestType
<1>3. CASE n # 0
  <2>1. PICK a \in Seek(c.next + c.want + 1, c.at + n) :
          conv' = [conv EXCEPT ![r] = [next |-> c.next + c.want, at |-> a, want |-> n]]
    BY <1>3 DEF Convert
  <2>2. got' = [got EXCEPT ![r].sent = @ \cup c.at..(c.at + n - 1)] /\ pc' = pc
    BY <1>3 DEF Convert
  <2>3. c \in Conversions /\ got[r] \in Answers
    BY DEF RequestType
  <2>4. c.next \in Nat /\ c.at \in 0..Frames /\ c.want \in 0..Chunk
    BY <2>3 DEF Conversions
  <2>5. n \in 0..Chunk /\ n \in Nat /\ c.at + n \in 0..Frames
    BY <2>4, ReadType
  <2> HIDE DEF n
  <2>6. a \in 0..Frames /\ c.next + c.want \in Nat
    <3> DEFINE t == c.next + c.want + 1
    <3>1. c.next \in Nat /\ c.want \in Nat
      BY <2>4
    <3>2. c.next + c.want \in Nat /\ t \in Nat
      BY <3>1
    <3> HIDE DEF t
    <3>3. a \in Seek(t, c.at + n)
      BY <2>1 DEF t
    <3> QED BY <3>2, <3>3, <2>5, SeekType
  <2>7. [next |-> c.next + c.want, at |-> a, want |-> n] \in Conversions
    BY <2>5, <2>6 DEF Conversions
  <2>8. conv' \in [Requests -> Conversions]
    BY <2>1, <2>7 DEF RequestType
  <2>9. c.at..(c.at + n - 1) \subseteq Nat
    BY <2>4, <2>5
  <2>10. [got[r] EXCEPT !.sent = @ \cup c.at..(c.at + n - 1)] \in Answers
    <3> DEFINE more == c.at..(c.at + n - 1)
    <3> HIDE DEF more
    <3>1. more \in SUBSET Nat
      BY <2>9 DEF more
    <3>2. [got[r] EXCEPT !.sent = @ \cup more] \in Answers
      BY <2>3, <3>1 DEF Answers
    <3> QED BY <3>2 DEF more
  <2>11. got' \in [Requests -> Answers]
    BY <2>2, <2>10 DEF RequestType
  <2> QED BY <1>1, <2>2, <2>8, <2>11 DEF RequestType
<1> QED BY <1>2, <1>3

LEMMA RequestTInv == ASSUME TInv, NEW r \in Requests, RequestNext(r) PROVE TInv'
<1>1. LifeType' /\ SearchInv'
  BY RequestLife
<1>2. RequestType
  BY DEF TInv
<1>3. RequestType'
  BY <1>2, FetchType, UrlType, RangeType, AnswerType, AnswerConvertedType, ConvertType
     DEF RequestNext
<1> QED BY <1>1, <1>3 DEF TInv

LEMMA NextTInv == TInv /\ [Next]_vars => TInv'
<1> SUFFICES ASSUME TInv, [Next]_vars PROVE TInv'
  OBVIOUS
<1>1. CASE UNCHANGED vars
  BY <1>1 DEF vars, lifecycle, lists, parsing, request, TInv, LifeType, SearchInv, RequestType,
              Used, Fresh
<1>2. CASE Next
  BY <1>2, StartNextTInv, OthersTInv, RequestTInv DEF Next
<1> QED BY <1>1, <1>2

\* For any interfaces and any number of starts, the variables keep their types; above all
\* the search of cg_upnp_device_start for a port goes two ports further per start at most,
\* once it is beyond the ports that other programs use.
THEOREM Types == Spec => []TypeOK
BY InitTInv, NextTInv, TInvTypes, PTL DEF Spec

=============================================================================
