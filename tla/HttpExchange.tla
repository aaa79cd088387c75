---------------------------- MODULE HttpExchange ----------------------------
(***************************************************************************)
(* One HTTP request posted by a client and served by the client thread of  *)
(* an HTTP server, over one connection: how both sides write a message     *)
(* piece by piece, and how they find its end again when reads time out,    *)
(* fail, or the connection ends.                                           *)
(*                                                                         *)
(* A message is a sequence of tokens: its first line, one token per header *)
(* that matters, the empty line, and the parts of its body, each of which  *)
(* counts as one byte.  A line of which only a part has been read or       *)
(* written leaves the token "rest", which a later read may take for any    *)
(* kind of line.  A read that times out finds the bytes later.             *)
(***************************************************************************)
EXTENDS Integers, Sequences

CONSTANTS
  KeepAlive,     \* whether the request keeps the connection alive
  RequestBody,   \* parts of the body of the request
  ResponseBody,  \* parts of the body of the answer
  MaxTries,      \* failed reads after which the body of a message is given up
  MaxTrouble     \* bound: reads and writes that fail though bytes are under way

ASSUME ValueAssumption ==
  /\ KeepAlive \in BOOLEAN
  /\ RequestBody \in Nat \ {0} /\ ResponseBody \in Nat
  /\ MaxTries \in Nat \ {0} /\ MaxTrouble \in Nat

Peers == {"client", "server"}
Other(p) == IF p = "client" THEN "server" ELSE "client"

FirstLines == {"request", "ok", "bad"}
Headers == {"host", "length", "zero"}
Tokens == FirstLines \cup Headers \cup {"empty", "body", "rest"}

Body(n) == [i \in 1..n |-> "body"]
Request == <<"request", "host", "length", "empty">> \o Body(RequestBody)
Success == <<"ok", "length", "empty">> \o Body(ResponseBody)
BadRequest == <<"bad", "zero", "empty">>

\* The body of the message that p is to read.
BodyLength(p) == IF p = "server" THEN RequestBody ELSE ResponseBody

VARIABLES
  pc,        \* what each side does
  out,       \* what it has still to write
  wire,      \* what it has written and the other side has not read
  closed,    \* it has closed its socket
  line,      \* the first line it has read: a token, "junk" or "none"
  headers,   \* the headers it has read: Host, and the first Content-Length, which
             \*   is "zero" in an answer without a body
  len,       \* readLen: bytes of the body, as the code counts them
  stored,    \* bytes of the body it has really read
  tries,     \* failed reads of the body
  whole,     \* the listener has been given the request with its whole body
  executed,  \* how often the listener was given the request
  calm,      \* history: no read or write has timed out or failed yet
  trouble    \* reads and writes that have failed though bytes were under way

reading == <<line, headers, len, stored, tries>>
history == <<calm, trouble>>
vars == <<pc, out, wire, closed, reading, whole, executed, history>>

Init ==
  /\ pc = [p \in Peers |-> IF p = "client" THEN "connect" ELSE "line"]
  /\ out = [p \in Peers |-> <<>>]
  /\ wire = [p \in Peers |-> <<>>]
  /\ closed = [p \in Peers |-> FALSE]
  /\ line = [p \in Peers |-> "none"]
  /\ headers = [p \in Peers |-> {}]
  /\ len = [p \in Peers |-> 0]
  /\ stored = [p \in Peers |-> 0]
  /\ tries = [p \in Peers |-> 0]
  /\ whole = FALSE /\ executed = 0 /\ calm = TRUE /\ trouble = 0

Goto(p, l) == pc' = [pc EXCEPT ![p] = l]

StartMessage(p, l) ==
  /\ line' = [line EXCEPT ![p] = l]
  /\ headers' = [headers EXCEPT ![p] = {}]
  /\ len' = [len EXCEPT ![p] = 0]
  /\ stored' = [stored EXCEPT ![p] = 0]
  /\ tries' = [tries EXCEPT ![p] = 0]

Forget(p) == StartMessage(p, "none")

\* What p reads from.
In(p) == wire[Other(p)]
Take(p, n) == wire' = [wire EXCEPT ![Other(p)] = SubSeq(@, n + 1, Len(@))]

Trouble == trouble < MaxTrouble /\ trouble' = trouble + 1 /\ calm' = FALSE

\* A read of p that returns no byte: at the end of the stream, or because nothing comes
\* for two seconds or poll() fails.
NoByte(p) ==
  IF In(p) = <<>> THEN calm' = (calm /\ closed[Other(p)]) /\ UNCHANGED trouble ELSE Trouble

-----------------------------------------------------------------------------
(* Writing.                                                                *)

\* A connection is taken for established while it is still in progress.
Connect ==
  /\ pc["client"] = "connect"
  /\ out' = [out EXCEPT !["client"] = Request]
  /\ Goto("client", "write")
  /\ UNCHANGED <<wire, closed, reading, whole, executed, history>>

ConnectFails ==
  /\ pc["client"] = "connect"
  /\ Goto("client", "done")
  /\ closed' = [closed EXCEPT !["client"] = TRUE]
  /\ Trouble
  /\ UNCHANGED <<out, wire, reading, whole, executed>>

\* What is sent to a closed socket is gone.
Send(p, t) == wire' = [wire EXCEPT ![p] = IF closed[Other(p)] THEN @ ELSE Append(@, t)]

Write(p) ==
  /\ pc[p] = "write" /\ out[p] # <<>>
  /\ Send(p, Head(out[p]))
  /\ out' = [out EXCEPT ![p] = Tail(@)]
  /\ UNCHANGED <<pc, closed, reading, whole, executed, history>>

\* Four times half a second without room, or the peer is gone: nothing or a part of the
\* token was sent.  The headers and the body are given up; a first line that failed is
\* followed by them all the same, and if only its end is missing, it takes the place of
\* the header that follows or of one that does not matter here.
WriteFails(p) ==
  /\ pc[p] = "write" /\ out[p] # <<>>
  /\ \/ /\ (UNCHANGED wire \/ Send(p, "rest"))
        /\ out' = [out EXCEPT ![p] = IF Head(@) \in FirstLines THEN Tail(@) ELSE <<>>]
     \/ /\ Head(out[p]) \in FirstLines /\ Send(p, Head(out[p]))
        /\ \/ out' = [out EXCEPT ![p] = Tail(@)]
           \/ Tail(out[p]) # <<>> /\ out' = [out EXCEPT ![p] = Tail(Tail(@))]
  /\ Trouble
  /\ UNCHANGED <<pc, closed, reading, whole, executed>>

\* The client reads the answer; the server reads the next request or ends.
Written(p) ==
  /\ pc[p] = "write" /\ out[p] = <<>>
  /\ Goto(p, IF p = "client" \/ KeepAlive \/ "host" \notin headers[p] THEN "line"
             ELSE "leave")
  /\ Forget(p)
  /\ UNCHANGED <<out, wire, closed, whole, executed, history>>

-----------------------------------------------------------------------------
(* Reading.                                                                *)

\* cg_http_request_read skips empty lines, cg_http_response_read does not.
SkipLine ==
  /\ pc["server"] = "line" /\ In("server") # <<>>
  /\ Head(In("server")) \in {"empty", "rest"}
  /\ Take("server", 1)
  /\ UNCHANGED <<pc, out, closed, reading, whole, executed, history>>

ReadFirstLine(p) ==
  /\ pc[p] = "line" /\ In(p) # <<>>
  /\ LET t == Head(In(p)) IN
       IF t \in FirstLines
       THEN StartMessage(p, t)
       ELSE (p = "server" => t # "empty") /\ StartMessage(p, "junk")
  /\ Take(p, 1)
  /\ Goto(p, "headers")
  /\ UNCHANGED <<out, closed, whole, executed, history>>

\* A request line of less than three words.
ReadNoRequest ==
  /\ pc["server"] = "line" /\ In("server") # <<>>
  /\ Head(In("server")) \notin FirstLines \cup {"empty"}
  /\ Take("server", 1)
  /\ Goto("server", "leave")
  /\ UNCHANGED <<out, closed, reading, whole, executed, history>>

\* No byte comes, or none after the first part of the line.
CutLine(p) ==
  \/ NoByte(p) /\ UNCHANGED wire
  \/ /\ In(p) # <<>>
     /\ wire' = [wire EXCEPT ![Other(p)] = <<"rest">> \o Tail(@)]
     /\ Trouble

\* Mutant of NoFirstLine: a read without a timeout.
NoFirstLineAtEnd(p) ==
  /\ pc[p] = "line" /\ In(p) = <<>> /\ closed[Other(p)]
  /\ Goto(p, "leave")
  /\ UNCHANGED <<out, wire, closed, reading, whole, executed, history>>

NoFirstLine(p) ==
  /\ pc[p] = "line"
  /\ CutLine(p)
  /\ Goto(p, "leave")
  /\ UNCHANGED <<out, closed, reading, whole, executed>>

HasLength(p) == headers[p] \cap {"length", "zero"} # {}

ReadHeader(p) ==
  /\ pc[p] = "headers" /\ In(p) # <<>>
  /\ Head(In(p)) # "empty"
  /\ headers' = [headers EXCEPT ![p] =
                    @ \cup ({Head(In(p))} \cap (IF HasLength(p) THEN {"host"} ELSE Headers))]
  /\ Take(p, 1)
  /\ UNCHANGED <<pc, out, closed, line, len, stored, tries, whole, executed, history>>

ContentLength(p) == IF "length" \in headers[p] THEN BodyLength(p) ELSE 0

\* Without Content-Length a request has no body, an answer goes on to the end.
AfterHeaders(p) ==
  Goto(p, IF ContentLength(p) > 0 THEN "body"
          ELSE IF p = "server" THEN "decide"
          ELSE IF HasLength(p) THEN "leave" ELSE "drain")

EndOfHeaders(p) ==
  /\ pc[p] = "headers" /\ In(p) # <<>>
  /\ Head(In(p)) \in {"empty", "rest"}
  /\ Take(p, 1)
  /\ AfterHeaders(p)
  /\ UNCHANGED <<out, closed, reading, whole, executed, history>>

\* A pause among the headers is taken for their end.
CutHeaders(p) ==
  /\ pc[p] = "headers"
  /\ CutLine(p)
  /\ AfterHeaders(p)
  /\ UNCHANGED <<out, closed, reading, whole, executed>>

\* Mutants of Wants: no limit of tries; one byte less.
WantsAlways(p) == len[p] < ContentLength(p)

WantsLess(p) == len[p] + 1 < ContentLength(p) /\ tries[p] < MaxTries

Wants(p) == len[p] < ContentLength(p) /\ tries[p] < MaxTries

ReadBody(p) ==
  /\ pc[p] = "body" /\ Wants(p)
  /\ \E n \in 1..(ContentLength(p) - len[p]) :
       /\ n <= Len(In(p))
       /\ Take(p, n)
       /\ len' = [len EXCEPT ![p] = @ + n]
       /\ stored' = [stored EXCEPT ![p] = @ + n]
  /\ UNCHANGED <<pc, out, closed, line, headers, tries, whole, executed, history>>

ReadNothing(p) ==
  /\ pc[p] = "body" /\ Wants(p)
  /\ NoByte(p)
  /\ tries' = [tries EXCEPT ![p] = @ + 1]
  /\ UNCHANGED <<pc, out, wire, closed, line, headers, len, stored, whole, executed>>

\* The -1 of a failed read is added to the length.
ReadError(p) ==
  /\ pc[p] = "body" /\ Wants(p)
  /\ tries' = [tries EXCEPT ![p] = @ + 1]
  /\ len' = [len EXCEPT ![p] = @ - 1]
  /\ Trouble
  /\ UNCHANGED <<pc, out, wire, closed, line, headers, stored, whole, executed>>

EndOfBody(p) ==
  /\ pc[p] = "body" /\ ~Wants(p)
  /\ Goto(p, IF p = "server" THEN "decide" ELSE "leave")
  /\ UNCHANGED <<out, wire, closed, reading, whole, executed, history>>

Drain ==
  /\ pc["client"] = "drain"
  /\ \/ In("client") # <<>> /\ Take("client", 1) /\ UNCHANGED <<pc, history>>
     \/ NoByte("client") /\ Goto("client", "leave") /\ UNCHANGED wire
  /\ UNCHANGED <<out, closed, reading, whole, executed>>

-----------------------------------------------------------------------------
(* The server's answer, and the end.                                       *)

\* Mutant of Refuse: every answer is a success.
RefuseNothing ==
  /\ pc["server"] = "decide"
  /\ line["server"] # "request" \/ "host" \notin headers["server"]
  /\ out' = [out EXCEPT !["server"] = Success]
  /\ Goto("server", "write")
  /\ UNCHANGED <<wire, closed, reading, whole, executed, history>>

\* A request without Host is refused; the listener does not know a junk request.
Refuse ==
  /\ pc["server"] = "decide"
  /\ line["server"] # "request" \/ "host" \notin headers["server"]
  /\ out' = [out EXCEPT !["server"] = BadRequest]
  /\ Goto("server", "write")
  /\ UNCHANGED <<wire, closed, reading, whole, executed, history>>

\* The listener sees what has been read; it may find it wanting.
Execute ==
  /\ pc["server"] = "decide"
  /\ line["server"] = "request" /\ "host" \in headers["server"]
  /\ executed' = executed + 1
  /\ whole' = (len["server"] = RequestBody /\ stored["server"] = RequestBody)
  /\ out' = [out EXCEPT !["server"] = Success]
  /\ Goto("server", "write")
  /\ UNCHANGED <<wire, closed, reading, history>>

Leave(p) ==
  /\ pc[p] = "leave"
  /\ closed' = [closed EXCEPT ![p] = TRUE]
  /\ wire' = [wire EXCEPT ![Other(p)] = <<>>]
  /\ Goto(p, "done")
  /\ IF p = "server" THEN Forget(p) ELSE UNCHANGED reading
  /\ UNCHANGED <<out, whole, executed, history>>

PeerNext(p) ==
  \/ Write(p) \/ WriteFails(p) \/ Written(p)
  \/ ReadFirstLine(p) \/ NoFirstLine(p)
  \/ ReadHeader(p) \/ EndOfHeaders(p) \/ CutHeaders(p)
  \/ ReadBody(p) \/ ReadNothing(p) \/ ReadError(p) \/ EndOfBody(p)
  \/ Leave(p)

ClientNext == Connect \/ ConnectFails \/ Drain \/ PeerNext("client")
ServerNext == SkipLine \/ ReadNoRequest \/ Refuse \/ Execute \/ PeerNext("server")

Next == ClientNext \/ ServerNext

\* Every read and write ends after its timeout.
Spec == Init /\ [][Next]_vars /\ WF_vars(ClientNext) /\ WF_vars(ServerNext)

-----------------------------------------------------------------------------
(* Properties.                                                             *)

TypeOK ==
  /\ pc \in [Peers -> {"connect", "write", "line", "headers", "body", "drain", "decide",
                       "leave", "done"}]
  /\ out \in [Peers -> Seq(Tokens)] /\ wire \in [Peers -> Seq(Tokens)]
  /\ closed \in [Peers -> BOOLEAN]
  /\ line \in [Peers -> FirstLines \cup {"junk", "none"}]
  /\ headers \in [Peers -> SUBSET Headers]
  /\ len \in [Peers -> Int] /\ stored \in [Peers -> Nat]
  /\ tries \in [Peers -> 0..MaxTries]
  /\ whole \in BOOLEAN /\ executed \in Nat /\ calm \in BOOLEAN
  /\ trouble \in 0..MaxTrouble

Done(p) == pc[p] = "done"

\* The client's function returns a response; its status code tells it what happened.
result == IF ~Done("client") THEN "none"
          ELSE IF line["client"] = "ok" THEN "ok" ELSE "failed"

\* Whatever is cut or lost, the listener gets the request at most once, and a client
\* that reads a success has been heard: the answer it takes for its own is not that to
\* a header or a piece of the body that was read as a request.
Call == INSTANCE RemoteCall WITH Max <- 1

ImplementsCall == Call!Spec

\* As long as no read and no write has timed out, both sides agree where a message ends:
\* the listener gets the whole request and the client the whole answer.
CalmIsWhole ==
  calm /\ Done("client") =>
    /\ executed = 1 /\ whole
    /\ line["client"] = "ok" /\ len["client"] = ResponseBody
    /\ stored["client"] = ResponseBody

\* Neither side waits for ever, whatever the other one has sent or kept back.
ExchangeEnds == <>(Done("client") /\ Done("server"))

=============================================================================
